--------------------------- MODULE ClosableQueue ---------------------------
(***************************************************************************)
(* What the plugin relies on when it uses an AsyncQueue                    *)
(* (src/gst-dsp/async_queue.c) with a single consumer: a FIFO of buffers   *)
(* that can be closed and reopened.  A pop call either takes the oldest    *)
(* buffer, or comes back empty-handed (NULL), and it may come back         *)
(* empty-handed only if the queue was closed at some moment of the call.   *)
(* pad_chain and output_loop (gstdspbase.c) depend on exactly this: they   *)
(* read `status`, which every path that closes a queue sets first, to      *)
(* learn why they got NULL.                                                *)
(***************************************************************************)
EXTENDS Sequences

CONSTANTS
  Items,      (* the buffers that circulate through the queue  *)
  Consumers   (* the threads that call pop                     *)

VARIABLES
  queue,      (* the buffers in the queue, oldest first            *)
  open,       (* the queue accepts waiting consumers               *)
  calls,      (* the consumers with a pop call in progress         *)
  sawClosed   (* the calls during which the queue has been closed  *)

vars == <<queue, open, calls, sawClosed>>

Init ==
  /\ queue = <<>>
  /\ open = TRUE
  /\ calls = {}
  /\ sawClosed = {}

InQueue == {queue[i] : i \in DOMAIN queue}

Put(d) ==
  /\ d \notin InQueue
  /\ queue' = Append(queue, d)
  /\ UNCHANGED <<open, calls, sawClosed>>

(* Taking the oldest buffer without a call in progress: pop_forced. *)
TakeForced ==
  /\ queue # <<>>
  /\ queue' = Tail(queue)
  /\ UNCHANGED <<open, calls, sawClosed>>

Call(c) ==
  /\ c \notin calls
  /\ calls' = calls \cup {c}
  /\ sawClosed' = IF open THEN sawClosed ELSE sawClosed \cup {c}
  /\ UNCHANGED <<queue, open>>

ReturnItem(c) ==
  /\ c \in calls
  /\ queue # <<>>
  /\ queue' = Tail(queue)
  /\ calls' = calls \ {c}
  /\ sawClosed' = sawClosed \ {c}
  /\ UNCHANGED open

ReturnNull(c) ==
  /\ c \in sawClosed
  /\ calls' = calls \ {c}
  /\ sawClosed' = sawClosed \ {c}
  /\ UNCHANGED <<queue, open>>

Close ==
  /\ open' = FALSE
  /\ sawClosed' = calls
  /\ UNCHANGED <<queue, calls>>

Reopen ==
  /\ open' = TRUE
  /\ UNCHANGED <<queue, calls, sawClosed>>

Discard ==
  /\ calls = {}
  /\ queue' = <<>>
  /\ UNCHANGED <<open, calls, sawClosed>>

Next ==
  \/ \E d \in Items : Put(d)
  \/ \E c \in Consumers : Call(c) \/ ReturnItem(c) \/ ReturnNull(c)
  \/ TakeForced
  \/ Close
  \/ Reopen
  \/ Discard

Spec == Init /\ [][Next]_vars

=============================================================================
