------------------------------ MODULE MCDspBase ----------------------------
(***************************************************************************)
(* DspBase for TLC: the elements and streams of each run.                  *)
(***************************************************************************)
EXTENDS DspBase, TLC

Stream(mode, eosTimeout, faults, frames, segments, flushes, empties) ==
  [mode |-> mode, eosTimeout |-> eosTimeout, faults |-> faults,
   maxFrames |-> frames, maxSegments |-> segments, maxFlushes |-> flushes,
   maxEmpties |-> empties]

(* An encoder, an element that gives its memory away, a decoder. *)
SafetyConfs ==
  {Stream("pinned", FALSE, FALSE, 3, 1, 1, 0),
   Stream("heap", FALSE, FALSE, 2, 1, 1, 1),
   Stream("pad_alloc", TRUE, TRUE, 2, 0, 1, 0)}

(* Without and with an EOS timeout. *)
LiveConfs ==
  {Stream("pinned", FALSE, FALSE, 2, 0, 1, 0),
   Stream("pinned", TRUE, FALSE, 2, 0, 1, 0)}

(* The JPEG encoder has no EOS timeout. *)
NoTimeoutConfs == {Stream("pinned", FALSE, FALSE, 2, 0, 1, 0)}

(* Sound for the safety run: buffers of one port are interchangeable.      *)
Symmetry == Permutations(InBufs) \cup Permutations(OutBufs)

=============================================================================
