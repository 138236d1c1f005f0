--------------------------- MODULE MCDspLifecycle --------------------------
(***************************************************************************)
(* DspLifecycle for TLC: the elements and streams of each run.             *)
(***************************************************************************)
EXTENDS DspLifecycle

Element(nOut, codecData, faults, startFailures, starts, flushes, reneg) ==
  [nIn |-> 2, nOut |-> nOut, codecData |-> codecData, faults |-> faults,
   startFailures |-> startFailures, maxAlgErrors |-> IF faults THEN 1 ELSE 0,
   maxStarts |-> starts, maxFrames |-> 3,
   maxFlushes |-> flushes, maxReneg |-> reneg]

Restarted == Element(1, TRUE, FALSE, FALSE, 3, 0, 0)
Failing ==
  [Element(2, FALSE, TRUE, TRUE, 1, 0, 0) EXCEPT !.maxAlgErrors = 0, !.maxFrames = 2]
FailingAgain ==
  [Element(1, FALSE, TRUE, TRUE, 2, 0, 0) EXCEPT !.nIn = 1, !.maxFrames = 2]
Renegotiated == Element(1, TRUE, FALSE, FALSE, 3, 0, 1)
Sought == Element(1, TRUE, FALSE, FALSE, 2, 1, 0)

AllConfs == {Restarted, Failing, FailingAgain, Renegotiated, Sought}
RestartedConfs == {Restarted}
RenegotiatedConfs == {Renegotiated}
SoughtConfs == {Sought}

=============================================================================
