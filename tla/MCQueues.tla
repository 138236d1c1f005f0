------------------------------ MODULE MCQueues -----------------------------
(***************************************************************************)
(* AsyncQueue and TsStream for TLC.  What the streaming thread and         *)
(* output_loop pass to each other, a port's queue of buffers and the ring  *)
(* of timestamps, have no state in common: a behaviour is one of either.   *)
(***************************************************************************)
EXTENDS AsyncQueue, TsStream

VARIABLE which

QueuesInit ==
  /\ which \in {"queue", "ring"}
  /\ QueueInit /\ (which = "ring" => ~shared)
  /\ Init

QueuesNext ==
  /\ UNCHANGED which
  /\ \/ which = "queue" /\ QueueNext /\ UNCHANGED vars
     \/ which = "ring" /\ Next /\ UNCHANGED queueVars

QueuesSpec == QueuesInit /\ [][QueuesNext]_<<which, queueVars, vars>> /\ QueueFairness

=============================================================================
