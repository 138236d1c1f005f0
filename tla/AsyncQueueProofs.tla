-------------------------- MODULE AsyncQueueProofs -------------------------
(***************************************************************************)
(* What holds of AsyncQueue for every set of buffers and of consumers.     *)
(***************************************************************************)
EXTENDS AsyncQueue, FiniteSetTheorems, TLAPS

(* The queue's variables keep their types: async_queue.c never leaves a    *)
(* consumer in an undefined place.                                         *)
THEOREM TypeCorrect == QueueSpec => []QueueTypeOK
<1>1. QueueInit => QueueTypeOK
  BY DEF QueueInit, QueueTypeOK, Places
<1>2. QueueTypeOK /\ [QueueNext]_queueVars => QueueTypeOK'
  <2> SUFFICES ASSUME QueueTypeOK, [QueueNext]_queueVars
               PROVE  QueueTypeOK'
    OBVIOUS
  <2> USE DEF QueueTypeOK, Places
  <2>1. ASSUME NEW d \in Items, Push(d)  PROVE QueueTypeOK'
    BY <2>1 DEF Push, Signal, At
  <2>2. ASSUME NEW c \in Consumers, Call(c)  PROVE QueueTypeOK'
    BY <2>2 DEF Call
  <2>3. ASSUME NEW c \in Consumers, Pop(c)  PROVE QueueTypeOK'
    BY <2>3 DEF Pop, PopDisabled, PopNow, PopWait, PopResumed, Return
  <2>4. ASSUME NEW c \in Consumers, SpuriousWakeup(c)  PROVE QueueTypeOK'
    BY <2>4 DEF SpuriousWakeup
  <2>5. CASE PopForced
    BY <2>5 DEF PopForced
  <2>6. CASE Disable
    BY <2>6 DEF Disable, Broadcast
  <2>7. CASE Enable
    BY <2>7 DEF Enable
  <2>8. CASE FlushQueue
    BY <2>8 DEF FlushQueue
  <2>9. CASE UNCHANGED queueVars
    BY <2>9 DEF queueVars
  <2>10. QED
    BY <2>1, <2>2, <2>3, <2>4, <2>5, <2>6, <2>7, <2>8, <2>9 DEF QueueNext
<1>3. QED
  BY <1>1, <1>2, PTL DEF QueueSpec

(* async_queue_disable wakes every sleeper and async_queue_pop does not    *)
(* start waiting in a disabled queue, so nobody ever sleeps in one.        *)
THEOREM DisabledIsDeserted == QueueSpec => []NobodySleepsInDisabled
<1>1. QueueInit => NobodySleepsInDisabled
  BY DEF QueueInit, NobodySleepsInDisabled, At
<1>2. QueueTypeOK /\ NobodySleepsInDisabled /\ [QueueNext]_queueVars => NobodySleepsInDisabled'
  <2> SUFFICES ASSUME QueueTypeOK, NobodySleepsInDisabled, [QueueNext]_queueVars
               PROVE  NobodySleepsInDisabled'
    OBVIOUS
  <2> USE DEF QueueTypeOK, NobodySleepsInDisabled, At
  <2>1. ASSUME NEW d \in Items, Push(d)  PROVE NobodySleepsInDisabled'
    BY <2>1 DEF Push, Signal
  <2>2. ASSUME NEW c \in Consumers, Call(c)  PROVE NobodySleepsInDisabled'
    BY <2>2 DEF Call
  <2>3. ASSUME NEW c \in Consumers, Pop(c)  PROVE NobodySleepsInDisabled'
    BY <2>3 DEF Pop, PopDisabled, PopNow, PopWait, PopResumed, Return
  <2>4. ASSUME NEW c \in Consumers, SpuriousWakeup(c)
        PROVE  NobodySleepsInDisabled'
    BY <2>4 DEF SpuriousWakeup
  <2>5. CASE PopForced \/ Enable \/ FlushQueue \/ UNCHANGED queueVars
    BY <2>5 DEF PopForced, Enable, FlushQueue, queueVars
  <2>6. CASE Disable
    BY <2>6 DEF Disable, Broadcast
  <2>7. QED
    BY <2>1, <2>2, <2>3, <2>4, <2>5, <2>6 DEF QueueNext
<1>3. QED
  BY <1>1, <1>2, TypeCorrect, PTL DEF QueueSpec

----------------------------------------------------------------------------
(* The wakeup accounting: each queued buffer that a sleeper could have     *)
(* taken has woken a consumer of its own.                                  *)

(* Finitely many consumers are woken. *)
LEMMA WokenFinite == ASSUME QueueTypeOK PROVE IsFiniteSet(At("woken"))
  BY ConsumersAssumption, FS_Subset DEF At

(* The same after a step. *)
LEMMA WokenFiniteNext == ASSUME QueueTypeOK' PROVE IsFiniteSet(At("woken")')
  BY ConsumersAssumption, FS_Subset DEF At

(* The queue is one shorter without its oldest buffer. *)
LEMMA TailIsShorter ==
  ASSUME NEW S, NEW s \in Seq(S), s # <<>>
  PROVE  Len(Tail(s)) = Len(s) - 1 /\ Len(s) \in Nat
  OBVIOUS

(* One signal per push, given inside the critical section that queues the  *)
(* buffer, is enough: no buffer waits beside a sleeper nobody has woken.   *)
THEOREM WakeupsSuffice == QueueSpec => []NoLostWakeup
<1>1. QueueInit => NoLostWakeup
  BY DEF QueueInit, NoLostWakeup, At
<1>2. QueueTypeOK /\ QueueTypeOK' /\ NoLostWakeup /\ [QueueNext]_queueVars => NoLostWakeup'
  <2> SUFFICES ASSUME QueueTypeOK, QueueTypeOK', NoLostWakeup, [QueueNext]_queueVars,
                      At("asleep")' # {}
               PROVE  Len(queue') <= Cardinality(At("woken")')
    BY DEF NoLostWakeup
  <2>a. /\ Len(queue) \in Nat
        /\ Cardinality(At("woken")) \in Nat
        /\ Cardinality(At("woken")') \in Nat
    BY WokenFinite, WokenFiniteNext, FS_CardinalityType DEF QueueTypeOK
  <2>1. ASSUME NEW d \in Items, Push(d)
        PROVE  Len(queue') <= Cardinality(At("woken")')
    <3>1. PICK c \in At("asleep") : pc' = [pc EXCEPT ![c] = "woken"]
      BY <2>1 DEF Push, Signal, At, QueueTypeOK
    <3>2. At("woken")' = At("woken") \cup {c} /\ c \notin At("woken")
      BY <3>1 DEF At, QueueTypeOK
    <3>3. Cardinality(At("woken")') = Cardinality(At("woken")) + 1
      BY <3>2, WokenFinite, FS_AddElement
    <3>4. Len(queue') = Len(queue) + 1
      BY <2>1 DEF Push, QueueTypeOK
    <3>5. Len(queue) <= Cardinality(At("woken"))
      BY <3>1 DEF NoLostWakeup
    <3>6. QED
      BY <3>3, <3>4, <3>5, <2>a
  <2>2. ASSUME NEW c \in Consumers, Call(c)
        PROVE  Len(queue') <= Cardinality(At("woken")')
    <3>1. At("asleep") = At("asleep")' /\ At("woken") = At("woken")'
      BY <2>2 DEF Call, At, QueueTypeOK
    <3>2. QED
      BY <3>1, <2>2 DEF Call, NoLostWakeup
  <2>3. ASSUME NEW c \in Consumers, PopDisabled(c)
        PROVE  Len(queue') <= Cardinality(At("woken")')
    <3>1. At("asleep") = At("asleep")' /\ At("woken") = At("woken")'
      BY <2>3 DEF PopDisabled, Return, At, QueueTypeOK
    <3>2. QED
      BY <3>1, <2>3 DEF PopDisabled, NoLostWakeup
  <2>4. ASSUME NEW c \in Consumers, PopNow(c)
        PROVE  Len(queue') <= Cardinality(At("woken")')
    <3>1. At("asleep") = At("asleep")' /\ At("woken") = At("woken")'
      BY <2>4 DEF PopNow, Return, At, QueueTypeOK
    <3>2. Len(queue') = Len(queue) - 1
      BY <2>4, TailIsShorter DEF PopNow, QueueTypeOK
    <3>3. QED
      BY <3>1, <3>2, <2>a DEF NoLostWakeup
  <2>5. ASSUME NEW c \in Consumers, PopWait(c)
        PROVE  Len(queue') <= Cardinality(At("woken")')
    BY <2>5, <2>a DEF PopWait, QueueTypeOK
  <2>6. ASSUME NEW c \in Consumers, PopResumed(c)
        PROVE  Len(queue') <= Cardinality(At("woken")')
    <3>1. /\ At("asleep") = At("asleep")'
          /\ At("woken")' = At("woken") \ {c}
          /\ c \in At("woken")
      BY <2>6 DEF PopResumed, Return, At, QueueTypeOK
    <3>2. Cardinality(At("woken")') = Cardinality(At("woken")) - 1
      BY <3>1, WokenFinite, FS_RemoveElement
    <3>3. Len(queue) <= Cardinality(At("woken"))
      BY <3>1 DEF NoLostWakeup
    <3>4. CASE queue = <<>>
      BY <3>4, <2>6, <2>a DEF PopResumed, QueueTypeOK
    <3>5. CASE queue # <<>>
      <4>1. Len(queue') = Len(queue) - 1
        BY <3>5, <2>6, TailIsShorter DEF PopResumed, QueueTypeOK
      <4>2. QED
        BY <4>1, <3>2, <3>3, <2>a
    <3>6. QED
      BY <3>4, <3>5
  <2>7. ASSUME NEW c \in Consumers, SpuriousWakeup(c)
        PROVE  Len(queue') <= Cardinality(At("woken")')
    <3>1. /\ At("woken")' = At("woken") \cup {c}
          /\ c \in At("asleep")
          /\ c \notin At("woken")
      BY <2>7 DEF SpuriousWakeup, At, QueueTypeOK
    <3>2. Cardinality(At("woken")') = Cardinality(At("woken")) + 1
      BY <3>1, WokenFinite, FS_AddElement
    <3>3. Len(queue) <= Cardinality(At("woken")) /\ queue' = queue
      BY <3>1, <2>7 DEF NoLostWakeup, SpuriousWakeup
    <3>4. QED
      BY <3>2, <3>3, <2>a
  <2>8. CASE PopForced
    <3>1. At("asleep") = At("asleep")' /\ At("woken") = At("woken")'
      BY <2>8 DEF PopForced, At
    <3>2. Len(queue') = Len(queue) - 1
      BY <2>8, TailIsShorter DEF PopForced, QueueTypeOK
    <3>3. QED
      BY <3>1, <3>2, <2>a DEF NoLostWakeup
  <2>9. CASE Disable
    BY <2>9 DEF Disable, Broadcast, At, QueueTypeOK
  <2>10. CASE Enable \/ UNCHANGED queueVars
    BY <2>10 DEF Enable, queueVars, At, NoLostWakeup
  <2>11. CASE FlushQueue
    BY <2>11 DEF FlushQueue, At
  <2>12. QED
    BY <2>1, <2>2, <2>3, <2>4, <2>5, <2>6, <2>7, <2>8, <2>9, <2>10, <2>11
    DEF QueueNext, Pop
<1>3. QED
  BY <1>1, <1>2, TypeCorrect, PTL DEF QueueSpec

(* Neither a push nor a disable leaves a sleeper behind.                   *)
THEOREM SleepersServed == QueueSpec => []SleepersAreServed
  BY DisabledIsDeserted, WakeupsSuffice, PTL DEF SleepersAreServed

----------------------------------------------------------------------------
(* The queue as the plugin uses it: one call of pop at a time, and a       *)
(* condition variable that returns only when signalled.                    *)

(* The part of the invariant that a consumer's step is checked against.    *)
Reason(c) ==
  /\ pc[c] = "woken" => queue # <<>> \/ c \in closedIn
  /\ pc[c] = "idle" => c \notin closedIn
  /\ pc[c] = "called" /\ ~enabled => c \in closedIn

(* The invariant of the queue used by one call at a time is preserved: a   *)
(* woken consumer is the only one inside, so nobody takes its buffer.      *)
LEMMA WokenStep ==
  ASSUME QueueTypeOK, ~shared, [QueueNext]_queueVars, OneInside,
         \A c \in Consumers : Reason(c)
  PROVE  OneInside' /\ \A c \in Consumers : Reason(c)'
<1> USE DEF QueueTypeOK, OneInside, Reason
<1>1. ASSUME NEW d \in Items, Push(d)
      PROVE  OneInside' /\ \A c \in Consumers : Reason(c)'
  <2>1. queue' # <<>>
    BY <1>1 DEF Push
  <2>2. QED
    BY <2>1, <1>1 DEF Push, Signal, At
<1>2. ASSUME NEW c \in Consumers, Call(c)
      PROVE  OneInside' /\ \A e \in Consumers : Reason(e)'
  BY <1>2 DEF Call, At
<1>3. ASSUME NEW c \in Consumers, Pop(c)
      PROVE  OneInside' /\ \A e \in Consumers : Reason(e)'
  BY <1>3 DEF Pop, PopDisabled, PopNow, PopWait, PopResumed, Return
<1>4. ASSUME NEW c \in Consumers, SpuriousWakeup(c)
      PROVE  FALSE
  BY <1>4 DEF SpuriousWakeup
<1>5. CASE PopForced \/ FlushQueue
  BY <1>5 DEF PopForced, FlushQueue, At
<1>6. CASE Disable
  BY <1>6 DEF Disable, Broadcast
<1>7. CASE Enable \/ UNCHANGED queueVars
  BY <1>7 DEF Enable, queueVars
<1>8. QED
  BY <1>1, <1>2, <1>3, <1>4, <1>5, <1>6, <1>7 DEF QueueNext

(* How the queue is used does not change.                                  *)
LEMMA SharedStays == [QueueNext]_queueVars => shared' = shared
  BY DEF QueueNext, queueVars, Push, Call, Pop, PopDisabled, PopNow, PopWait, PopResumed,
         Return, SpuriousWakeup, PopForced, Disable, Enable, FlushQueue

(* A consumer that has been woken finds a buffer unless the queue was      *)
(* disabled during its call: with one call at a time nobody else can take  *)
(* the buffer it was woken for.                                            *)
THEOREM WokenFindsBufferOrClosed == QueueSpec => []WokenForAReason
<1>1. QueueInit => WokenForAReason
  BY DEF QueueInit, WokenForAReason, OneInside
<1>2. QueueTypeOK /\ WokenForAReason /\ [QueueNext]_queueVars => WokenForAReason'
  BY WokenStep, SharedStays DEF WokenForAReason, Reason
<1>3. QED
  BY <1>1, <1>2, TypeCorrect, PTL DEF QueueSpec

(* Used by one call at a time async_queue.c implements the closable FIFO:  *)
(* pop returns the oldest buffer, and NULL only for a queue that was       *)
(* disabled while the call was in progress.                                *)
THEOREM QueueImplementsClosableQueue == QueueSpec => ImplementsClosableQueue
<1> DEFINE calls == {c \in Consumers : pc[c] # "idle"}
<1>1. QueueInit => (~shared => CQ!Init)
  BY DEF QueueInit, CQ!Init
<1>2. QueueTypeOK /\ WokenForAReason /\ [QueueNext]_queueVars
        => [~shared => CQ!Next]_(CQ!vars)
  <2> SUFFICES ASSUME QueueTypeOK, WokenForAReason, [QueueNext]_queueVars, ~shared
               PROVE  CQ!Next \/ UNCHANGED CQ!vars
    OBVIOUS
  <2> USE DEF QueueTypeOK, CQ!vars
  <2>1. ASSUME NEW d \in Items, Push(d)  PROVE CQ!Put(d)
    <3>1. calls' = calls
      BY <2>1 DEF Push, Signal, At
    <3>2. QED
      BY <3>1, <2>1 DEF Push, CQ!Put, InQueue, CQ!InQueue
  <2>2. ASSUME NEW c \in Consumers, Call(c)  PROVE CQ!Call(c)
    BY <2>2 DEF Call, CQ!Call
  <2>3. ASSUME NEW c \in Consumers, PopDisabled(c)  PROVE CQ!ReturnNull(c)
    BY <2>3 DEF PopDisabled, Return, WokenForAReason, CQ!ReturnNull
  <2>4. ASSUME NEW c \in Consumers, PopNow(c)  PROVE CQ!ReturnItem(c)
    BY <2>4 DEF PopNow, Return, CQ!ReturnItem
  <2>5. ASSUME NEW c \in Consumers, PopWait(c)  PROVE UNCHANGED CQ!vars
    BY <2>5 DEF PopWait
  <2>6. ASSUME NEW c \in Consumers, PopResumed(c)
        PROVE  CQ!ReturnItem(c) \/ CQ!ReturnNull(c)
    BY <2>6
    DEF PopResumed, Return, WokenForAReason, CQ!ReturnItem, CQ!ReturnNull
  <2>7. ASSUME NEW c \in Consumers, SpuriousWakeup(c)  PROVE FALSE
    BY <2>7 DEF SpuriousWakeup
  <2>8. CASE PopForced
    BY <2>8 DEF PopForced, CQ!Next, CQ!TakeForced
  <2>9. CASE Disable
    <3>1. calls' = calls
      BY <2>9 DEF Disable, Broadcast
    <3>2. QED
      BY <3>1, <2>9 DEF Disable, CQ!Next, CQ!Close
  <2>10. CASE Enable
    BY <2>10 DEF Enable, CQ!Next, CQ!Reopen
  <2>11. CASE FlushQueue
    BY <2>11 DEF FlushQueue, At, CQ!Next, CQ!Discard
  <2>12. CASE UNCHANGED queueVars
    BY <2>12 DEF queueVars
  <2>13. QED
    BY <2>1, <2>2, <2>3, <2>4, <2>5, <2>6, <2>7, <2>8, <2>9, <2>10, <2>11,
       <2>12
    DEF QueueNext, Pop, CQ!Next
<1>3. QED
  BY <1>1, <1>2, TypeCorrect, WokenFindsBufferOrClosed, PTL
  DEF QueueSpec, ImplementsClosableQueue

=============================================================================
