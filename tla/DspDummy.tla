------------------------------ MODULE DspDummy ------------------------------
(***************************************************************************)
(* The dummy element (gstdspdummy.c): it copies its input with a DSP node, *)
(* and is the smallest client of the bridge.  The application changes its  *)
(* state, the streaming thread sends one frame at a time to the node and   *)
(* waits for the answer, and any call of the bridge may fail.              *)
(***************************************************************************)
EXTENDS DspBridge, Naturals

CONSTANTS Builds,      \* the compile-time options: records [heap, sm]
          MaxFaults,   \* how many calls of the driver fail in a behaviour
          MaxStarts    \* how often the application goes to PAUSED

VARIABLES
  build,   \* how the plugin was compiled
  state,   \* the element's state, or "crashed"
  d,       \* what the driver holds for the element
  node,    \* self->node is set
  bufs,    \* in_buffer and out_buffer
  error,   \* dsp_error
  chain,   \* pad_chain: "idle", or what it waits for
  busy,    \* the DSP copies in_buffer to out_buffer
  faults,  \* calls that have failed so far
  starts,  \* times PAUSED was entered
  left     \* a node was left to _dsp_stop that it never got to

vars == <<build, state, d, node, bufs, error, chain, busy, faults, starts, left>>

None == "none"

Init ==
  /\ build \in Builds
  /\ state = "NULL" /\ d = Nothing /\ node = FALSE
  /\ bufs = [n \in {"in", "out"} |-> dmm_buffer_new]
  /\ error = FALSE /\ chain = "idle" /\ busy = FALSE
  /\ faults = 0 /\ starts = 0 /\ left = FALSE

Fault(f) == /\ f # None => faults < MaxFaults
            /\ faults' = IF f = None THEN faults ELSE faults + 1

(* Two calls in one step, either of which may fail.                        *)
Fault2(f, g) == IF f = None THEN Fault(g) ELSE IF g = None THEN Fault(f)
                ELSE faults + 2 <= MaxFaults /\ faults' = faults + 2

-----------------------------------------------------------------------------
(* Its node, without attributes: no heap.  A node that cannot be created   *)
(* on the DSP is not freed.                                                *)

CreateFaults == {"register", "library", "create"} \cup AllocateFaults(build, FALSE)

create_node(f) ==
  LET allocated == dsp_node_allocate(d, build, FALSE, f)
  IN  CASE f \in {"register", "library"} -> [ok |-> FALSE, d |-> d]
        [] ~allocated.ok -> allocated
        [] f = "create"  -> [ok |-> FALSE, d |-> Lose(allocated.d)]
        [] OTHER -> [ok |-> TRUE, d |-> dsp_node_create(allocated.d)]

destroy_node(driver) == IF node THEN dsp_node_free(driver) ELSE driver

(* NULL -> READY *)
dsp_init(f) ==
  /\ state = "NULL"
  /\ d' = CASE f = "open"   -> d
            [] f = "attach" -> d
            [] OTHER -> LET made == create_node(f)
                        IN  IF made.ok THEN dsp_attach(dsp_open(made.d, TRUE), TRUE)
                                       ELSE made.d
  /\ node' = IF f \in {"open", "attach"} THEN node ELSE f = None
  /\ state' = IF f = None THEN "READY" ELSE "NULL"
  /\ UNCHANGED <<build, bufs, error, chain, busy, starts, left>>

Open == \E f \in {None, "open", "attach"} \cup CreateFaults : Fault(f) /\ dsp_init(f)

(* READY -> NULL: the node is left to _dsp_stop, and the next dsp_init      *)
(* overwrites self->node; the processor is not detached after a DSP error. *)
dsp_deinit ==
  /\ state = "READY"
  /\ d' = LET kept == IF node THEN Lose(d) ELSE d
          IN  dsp_close(IF error THEN kept ELSE dsp_detach(kept))
  /\ state' = "NULL"
  /\ left' = (left \/ node)
  /\ UNCHANGED <<build, node, bufs, error, chain, busy, faults, starts>>

(* READY -> PAUSED.  The node is taken from self->node, which nothing sets *)
(* again after a stop.                                                     *)
_dsp_start(f) ==
  /\ state = "READY" /\ starts < MaxStarts
  /\ starts' = starts + 1
  /\ IF ~node
       THEN state' = "crashed" /\ UNCHANGED <<d, bufs>>
       ELSE LET run == dsp_node_run(d)
                told == CASE f = "NODEMESSAGEREADY" -> {}
                          [] f = "MMUFAULT" -> {"NODEMESSAGEREADY"}
                          [] f = "SYSERROR" -> {"NODEMESSAGEREADY", "MMUFAULT"}
                          [] OTHER -> Events
            IN  /\ state' = IF f = None THEN "PAUSED" ELSE "READY"
                /\ d' = IF f = "run" THEN d
                        ELSE AcquireAll(run, {<<"notify", e>> : e \in told})
                /\ bufs' = IF f = "run" THEN bufs
                           ELSE [n \in {"in", "out"} |-> dmm_buffer_new]
  /\ UNCHANGED <<build, node, error, chain, busy, left>>

Start == \E f \in {None, "run"} \cup Events :
           Fault(f) /\ _dsp_start(f)

(* PAUSED -> READY, once the streaming thread has left pad_chain. *)
_dsp_stop(f) ==
  /\ state = "PAUSED" /\ chain = "idle"
  /\ LET freed == dmm_buffer_free(dmm_buffer_free(d, bufs["out"], "out"),
                                  bufs["in"], "in")
         ended == IF error \/ f = "terminate" THEN freed
                  ELSE dsp_node_terminate(freed)
     IN  d' = destroy_node(ended)
  /\ node' = FALSE /\ state' = "READY" /\ busy' = FALSE
  /\ UNCHANGED <<build, bufs, error, chain, starts, left>>

Stop == \E f \in {None, "terminate"} : Fault(f) /\ _dsp_stop(f)

(* change_state: the four transitions that call the bridge. *)
change_state == Open \/ Start \/ Stop \/ dsp_deinit

-----------------------------------------------------------------------------
(* A frame.  Both buffers are mapped and the node is told where they are   *)
(* and, with a second message, to copy.                                    *)
pad_chain ==
  /\ state = "PAUSED" /\ chain = "idle"
  /\ \E ain, aout \in BOOLEAN, f, g \in {None, "reserve", "map"} :
       /\ Fault2(f, g)
       /\ LET in  == dmm_buffer_map(d, gstdsp_map_buffer(bufs["in"], ain), "in", f)
              out == dmm_buffer_map(in.d, gstdsp_map_buffer(bufs["out"], aout), "out", g)
          IN  /\ d' = out.d
              /\ bufs' = [bufs EXCEPT !["in"] = [in.b EXCEPT !.copy = FALSE],
                                      !["out"] = out.b]
  /\ busy' = TRUE /\ chain' = "answer"
  /\ UNCHANGED <<build, state, node, error, starts, left>>

(* Code on the DSP: it answers when it has copied. *)
Copied == /\ busy /\ busy' = FALSE
          /\ UNCHANGED <<build, state, d, node, bufs, error, chain, faults, starts,
                         left>>

(* dsp_node_get_message blocks until the answer comes, or fails. *)
GetMessage ==
  /\ chain = "answer"
  /\ \E f \in {None, "get"} : Fault(f) /\ (f = None => ~busy)
  /\ chain' = "events"
  /\ UNCHANGED <<build, state, d, node, bufs, error, busy, starts, left>>

(* The events are looked at after the answer.  A timeout or a message      *)
(* counts as success; only a failed wait sets dsp_error.                   *)
check_events ==
  /\ chain = "events"
  /\ \E f \in {None, "wait", "fault"} :
       /\ Fault(f)
       /\ error' = (error \/ f = "wait")
  /\ LET out == dmm_buffer_unmap(d, bufs["out"], "out")
         in  == dmm_buffer_unmap(out.d, bufs["in"], "in")
     IN  /\ d' = in.d
         /\ bufs' = [bufs EXCEPT !["in"] = in.b,
                                 !["out"] = [out.b EXCEPT !.copy = FALSE]]
  /\ chain' = "idle"
  /\ UNCHANGED <<build, state, node, busy, starts, left>>

Next == change_state \/ pad_chain \/ Copied \/ GetMessage \/ check_events

Fairness == WF_vars(Copied) /\ WF_vars(GetMessage) /\ WF_vars(check_events)

Spec == Init /\ [][Next]_vars /\ Fairness

-----------------------------------------------------------------------------
TypeOK ==
  /\ state \in {"NULL", "READY", "PAUSED", "crashed"}
  /\ chain \in {"idle", "answer", "events"}
  /\ {node, error, busy, left} \subseteq BOOLEAN
  /\ faults \in 0..MaxFaults /\ starts \in 0..MaxStarts

(* No call of the bridge releases what the element does not hold, as long  *)
(* as no call has failed, whatever buffers it is given and however often   *)
(* it is started and stopped; and the DSP copies between two mapped        *)
(* buffers only.                                                           *)
BridgeUsedWell ==
  faults = 0 => /\ d.twice = {}
                /\ busy => \A n \in {"in", "out"} : <<"map", n>> \in d.live

(* Back in NULL nothing is held if no call has failed, except the nodes of *)
(* an element that went to READY and back without a stop.                  *)
DummyReleasesAll ==
  state = "NULL" /\ faults = 0 => d.live \subseteq (IF left THEN LostStuff ELSE {})
=============================================================================
