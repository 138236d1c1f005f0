---------------------------- MODULE AsyncQueue -----------------------------
(***************************************************************************)
(* The blocking queue of src/gst-dsp/async_queue.c: a list under a mutex,  *)
(* a condition variable and an `enabled' flag.  Every operation is one     *)
(* critical section except async_queue_pop, which gives the mutex up once, *)
(* in g_cond_wait, and tests neither `enabled' nor (in a loop) `tail'      *)
(* again when it gets it back: the wait is an `if', not a `while'.         *)
(***************************************************************************)
EXTENDS Naturals, Sequences, FiniteSets

CONSTANTS
  Items,      (* the td_buffers that circulate through the queue           *)
  Consumers   (* the threads that call async_queue_pop                     *)

ASSUME ConsumersAssumption == IsFiniteSet(Consumers)

VARIABLES
  queue,      (* the list from tail to head, that is, oldest first         *)
  enabled,    (* queue->enabled                                            *)
  pc,         (* where each consumer is in async_queue_pop                 *)
  closedIn,   (* history: the calls during which the queue was disabled    *)
  shared      (* how the queue is used; never changed.  FALSE: one call of *)
              (* pop at a time and no spurious wakeup, as with each port's *)
              (* queue.  TRUE: any number, and g_cond_wait may return      *)
              (* without a signal                                          *)

queueVars == <<queue, enabled, pc, closedIn, shared>>

InQueue == {queue[i] : i \in DOMAIN queue}

(* "called": before the mutex; "asleep": in g_cond_wait, not yet signalled; *)
(* "woken": signalled, waiting to get the mutex back.                       *)
Places == {"idle", "called", "asleep", "woken"}

At(place) == {c \in Consumers : pc[c] = place}

QueueTypeOK ==
  /\ queue \in Seq(Items)
  /\ enabled \in BOOLEAN
  /\ pc \in [Consumers -> Places]
  /\ closedIn \subseteq Consumers
  /\ shared \in BOOLEAN

----------------------------------------------------------------------------
(* async_queue_new *)
QueueInit ==
  /\ queue = <<>>
  /\ enabled = TRUE
  /\ pc = [c \in Consumers |-> "idle"]
  /\ closedIn = {}
  /\ shared \in BOOLEAN

(* g_cond_signal: wakes one sleeper when there is one. *)
Signal ==
  IF At("asleep") = {} THEN UNCHANGED pc
  ELSE \E c \in At("asleep") : pc' = [pc EXCEPT ![c] = "woken"]

(* g_cond_broadcast *)
Broadcast ==
  pc' = [c \in Consumers |-> IF pc[c] = "asleep" THEN "woken" ELSE pc[c]]

(* Mutants of Push: newest buffer first; a signal only for the first one. *)
PushAtTail(d) ==
  /\ d \notin InQueue
  /\ queue' = <<d>> \o queue
  /\ Signal
  /\ UNCHANGED <<enabled, closedIn, shared>>

PushSignalsFirst(d) ==
  /\ d \notin InQueue
  /\ queue' = Append(queue, d)
  /\ IF queue = <<>> THEN Signal ELSE UNCHANGED pc
  /\ UNCHANGED <<enabled, closedIn, shared>>

Push(d) ==
  /\ d \notin InQueue
  /\ queue' = Append(queue, d)
  /\ Signal
  /\ UNCHANGED <<enabled, closedIn, shared>>

(* A consumer enters async_queue_pop; it does not hold the mutex yet. *)
Call(c) ==
  /\ pc[c] = "idle"
  /\ shared \/ At("idle") = Consumers
  /\ pc' = [pc EXCEPT ![c] = "called"]
  /\ closedIn' = IF enabled THEN closedIn ELSE closedIn \cup {c}
  /\ UNCHANGED <<queue, enabled, shared>>

Return(c) ==
  /\ pc' = [pc EXCEPT ![c] = "idle"]
  /\ closedIn' = closedIn \ {c}

(* The first half of async_queue_pop, up to g_cond_wait or the return. *)
PopDisabled(c) ==
  /\ pc[c] = "called"
  /\ ~enabled
  /\ Return(c)
  /\ UNCHANGED <<queue, enabled, shared>>

PopNow(c) ==
  /\ pc[c] = "called"
  /\ enabled
  /\ queue # <<>>
  /\ queue' = Tail(queue)
  /\ Return(c)
  /\ UNCHANGED <<enabled, shared>>

PopWait(c) ==
  /\ pc[c] = "called"
  /\ enabled
  /\ queue = <<>>
  /\ pc' = [pc EXCEPT ![c] = "asleep"]
  /\ UNCHANGED <<queue, enabled, closedIn, shared>>

SpuriousWakeup(c) ==
  /\ shared
  /\ pc[c] = "asleep"
  /\ pc' = [pc EXCEPT ![c] = "woken"]
  /\ UNCHANGED <<queue, enabled, closedIn, shared>>

(* The second half, after g_cond_wait: an item if there is one, else NULL. *)
PopResumed(c) ==
  /\ pc[c] = "woken"
  /\ queue' = IF queue = <<>> THEN queue ELSE Tail(queue)
  /\ Return(c)
  /\ UNCHANGED <<enabled, shared>>

(* async_queue_pop_forced is called by gstdsp_send_codec_data only, on the  *)
(* streaming thread that is also the input queue's consumer: that consumer *)
(* is not in the queue.                                                    *)
PopForced ==
  /\ At("idle") = Consumers
  /\ queue # <<>>
  /\ queue' = Tail(queue)
  /\ UNCHANGED <<enabled, pc, closedIn, shared>>

(* Mutant of Disable: g_cond_signal for g_cond_broadcast. *)
DisableSignals ==
  /\ enabled' = FALSE
  /\ Signal
  /\ closedIn' = {c \in Consumers : pc[c] # "idle"}
  /\ UNCHANGED <<queue, shared>>

Disable ==
  /\ enabled' = FALSE
  /\ Broadcast
  /\ closedIn' = {c \in Consumers : pc[c] # "idle"}
  /\ UNCHANGED <<queue, shared>>

Enable ==
  /\ enabled' = TRUE
  /\ UNCHANGED <<queue, pc, closedIn, shared>>

(* async_queue_flush is called by du_port_flush only, after _dsp_stop has  *)
(* joined dsp_thread and stopped the source pad's task and the sink pad    *)
(* has been deactivated: no consumer is in the queue.                      *)
FlushQueue ==
  /\ At("idle") = Consumers
  /\ queue' = <<>>
  /\ UNCHANGED <<enabled, pc, closedIn, shared>>

Pop(c) == PopDisabled(c) \/ PopNow(c) \/ PopWait(c) \/ PopResumed(c)

QueueNext ==
  \/ \E d \in Items : Push(d)
  \/ \E c \in Consumers : Call(c) \/ Pop(c) \/ SpuriousWakeup(c)
  \/ PopForced
  \/ Disable
  \/ Enable
  \/ FlushQueue

QueueSpec == QueueInit /\ [][QueueNext]_queueVars

(* A consumer inside async_queue_pop is a runnable thread: once the mutex  *)
(* is free for it, it gets on.  Nothing is assumed of the other threads.   *)
QueueFairness == \A c \in Consumers : WF_queueVars(Pop(c))

----------------------------------------------------------------------------
(* No consumer sleeps in g_cond_wait beside a buffer that nobody has been  *)
(* woken for: while someone sleeps there are no more buffers queued than   *)
(* consumers on their way to take one (async_queue_push signals inside the *)
(* critical section and async_queue_pop tests `tail' in the same one).     *)
NoLostWakeup ==
  At("asleep") # {} => Len(queue) <= Cardinality(At("woken"))

(* async_queue_disable lets everyone out and keeps everyone out: nobody    *)
(* sleeps in a disabled queue, where no push need ever come.               *)
NobodySleepsInDisabled == ~enabled => At("asleep") = {}

(* Whoever sleeps in the queue will be woken by the next buffer or by the  *)
(* next disable: neither has come already.                                 *)
SleepersAreServed == NoLostWakeup /\ NobodySleepsInDisabled

(* Shutting the queue down releases every consumer: a call in progress     *)
(* while the queue is disabled comes back unless the queue is enabled      *)
(* again before the consumer gets to see it.                               *)
DisabledReleases ==
  \A c \in Consumers :
    (pc[c] # "idle" /\ ~enabled) ~> (pc[c] = "idle" \/ enabled)

(* With one call at a time and no spurious wakeup the queue is a closable  *)
(* FIFO: pop returns NULL only if the queue was disabled during the call,  *)
(* which is what pad_chain takes for granted when it uses the buffer after *)
(* having found `status' OK.                                               *)
CQ == INSTANCE ClosableQueue WITH
        open <- enabled,
        calls <- {c \in Consumers : pc[c] # "idle"},
        sawClosed <- closedIn

(* pop, push, disable, enable and flush do what the plugin relies on.      *)
ImplementsClosableQueue ==
  (~shared => CQ!Init) /\ [][~shared => CQ!Next]_(CQ!vars)

(* The inductive strengthening behind that refinement: nobody else is in   *)
(* the queue, and a woken consumer either finds a buffer or has seen the   *)
(* queue disabled.                                                         *)
OneInside ==
  \A c, d \in Consumers : pc[c] # "idle" /\ pc[d] # "idle" => c = d

WokenForAReason ==
  ~shared =>
    /\ OneInside
    /\ \A c \in Consumers :
         /\ pc[c] = "woken" => queue # <<>> \/ c \in closedIn
         /\ pc[c] = "idle" => c \notin closedIn
         /\ pc[c] = "called" /\ ~enabled => c \in closedIn

=============================================================================
