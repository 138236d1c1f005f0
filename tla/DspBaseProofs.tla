--------------------------- MODULE DspBaseProofs ---------------------------
(***************************************************************************)
(* The streaming core for any buffers, streams and size of the ring.  The  *)
(* first part is about the buffers and the queues: no buffer of either     *)
(* port is lost or in two places; `status' and the queues agree, so that   *)
(* pad_chain has a buffer when it needs one; and no EOS is pushed twice.   *)
(* The second is about the ring of timestamps: the threads use it as       *)
(* TsStream says; output_loop pushes no frame that was sent before the     *)
(* last FLUSH_STOP, and every frame with its own timestamp; and EOS comes  *)
(* after the frames.                                                       *)
(***************************************************************************)
EXTENDS DspBase, TsRingProofs

(* Taking the oldest buffer of a queue. *)
LEMMA HeadTaken ==
  ASSUME NEW S, NEW s \in Seq(S), s # <<>>, Distinct(s)
  PROVE  /\ Head(s) \in S /\ Tail(s) \in Seq(S)
         /\ InSeq(s) = {Head(s)} \cup InSeq(Tail(s))
         /\ Head(s) \notin InSeq(Tail(s))
         /\ Distinct(Tail(s))
<1>1. /\ Head(s) = s[1] /\ Head(s) \in S /\ Tail(s) \in Seq(S)
      /\ DOMAIN s = 1 .. Len(s) /\ Len(s) \in Nat \ {0}
      /\ DOMAIN Tail(s) = 1 .. Len(s) - 1
      /\ \A i \in 1 .. Len(s) - 1 : Tail(s)[i] = s[i + 1]
  OBVIOUS
<1>2. InSeq(s) = {Head(s)} \cup InSeq(Tail(s))
  <2>1. ASSUME NEW i \in DOMAIN s
        PROVE  s[i] \in {Head(s)} \cup InSeq(Tail(s))
    <3>1. CASE i = 1
      BY <3>1, <1>1
    <3>2. CASE i # 1
      <4>1. i - 1 \in DOMAIN Tail(s) /\ Tail(s)[i - 1] = s[i]
        BY <3>2, <1>1
      <4>2. QED
        BY <4>1 DEF InSeq
    <3>3. QED
      BY <3>1, <3>2
  <2>2. ASSUME NEW i \in DOMAIN Tail(s)  PROVE Tail(s)[i] \in InSeq(s)
    <3>1. i + 1 \in DOMAIN s /\ Tail(s)[i] = s[i + 1]
      BY <1>1
    <3>2. QED
      BY <3>1 DEF InSeq
  <2>3. Head(s) \in InSeq(s)
    BY <1>1 DEF InSeq
  <2>4. QED
    BY <2>1, <2>2, <2>3 DEF InSeq
<1>3. Head(s) \notin InSeq(Tail(s))
  <2> SUFFICES ASSUME NEW i \in DOMAIN Tail(s), Tail(s)[i] = Head(s)
               PROVE  FALSE
    BY DEF InSeq
  <2>1. i + 1 \in DOMAIN s /\ 1 \in DOMAIN s /\ s[i + 1] = s[1] /\ i + 1 # 1
    BY <1>1
  <2>2. QED
    BY <2>1 DEF Distinct
<1>4. Distinct(Tail(s))
  <2> SUFFICES ASSUME NEW i \in DOMAIN Tail(s), NEW j \in DOMAIN Tail(s),
                      Tail(s)[i] = Tail(s)[j]
               PROVE  i = j
    BY DEF Distinct
  <2>1. i + 1 \in DOMAIN s /\ j + 1 \in DOMAIN s /\ s[i + 1] = s[j + 1]
    BY <1>1
  <2>2. i + 1 = j + 1
    BY <2>1 DEF Distinct
  <2>3. QED
    BY <1>1, <2>2
<1>5. QED
  BY <1>1, <1>2, <1>3, <1>4

(* Putting a buffer into a queue it is not in. *)
LEMMA Appended ==
  ASSUME NEW S, NEW s \in Seq(S), NEW e \in S, Distinct(s), e \notin InSeq(s)
  PROVE  /\ Append(s, e) \in Seq(S)
         /\ InSeq(Append(s, e)) = InSeq(s) \cup {e}
         /\ Distinct(Append(s, e))
<1> DEFINE t == Append(s, e)
<1>1. /\ t \in Seq(S) /\ Len(s) \in Nat
      /\ DOMAIN s = 1 .. Len(s) /\ DOMAIN t = 1 .. Len(s) + 1
      /\ \A i \in 1 .. Len(s) : t[i] = s[i]
      /\ t[Len(s) + 1] = e
  OBVIOUS
<1> HIDE DEF t
<1>2. InSeq(t) = InSeq(s) \cup {e}
  <2>1. ASSUME NEW i \in DOMAIN t  PROVE t[i] \in InSeq(s) \cup {e}
    <3>1. i = Len(s) + 1 \/ i \in DOMAIN s
      BY <1>1
    <3>2. QED
      BY <3>1, <1>1 DEF InSeq
  <2>2. ASSUME NEW i \in DOMAIN s  PROVE s[i] \in InSeq(t)
    <3>1. i \in DOMAIN t /\ t[i] = s[i]
      BY <1>1
    <3>2. QED
      BY <3>1 DEF InSeq
  <2>3. e \in InSeq(t)
    BY <1>1 DEF InSeq
  <2>4. QED
    BY <2>1, <2>2, <2>3 DEF InSeq
<1>3. Distinct(t)
  <2> SUFFICES ASSUME NEW i \in DOMAIN t, NEW j \in DOMAIN t, t[i] = t[j]
               PROVE  i = j
    BY DEF Distinct
  <2>1. \A k \in DOMAIN s : s[k] # e
    BY DEF InSeq
  <2>2. QED
    BY <1>1, <2>1 DEF Distinct
<1>4. QED
  BY <1>1, <1>2, <1>3 DEF t

----------------------------------------------------------------------------
(* The input port.                                                         *)

(* Conservation, with what the places of the streaming thread mean.        *)
InputInv ==
  /\ q0 \in Seq(InBufs) /\ dspIn \subseteq InBufs /\ ubuf \in InBufs \cup {None}
  /\ InputConserved
  /\ upc \notin {"status", "store", "send"} => ubuf = None
  /\ upc = "send" => ubuf # None

inputVars == <<q0, dspIn, upc, ubuf>>

LEMMA InputStart == Init => InputInv
<1> SUFFICES ASSUME Init  PROVE InputInv
  OBVIOUS
<1> DEFINE n == Cardinality(InBufs)
<1>1. n \in Nat /\ IsFiniteSet(1 .. n) /\ Cardinality(1 .. n) = n
  BY BaseAssumption, FS_CardinalityType, FS_Interval
<1>2. q0 \in [1 .. n -> InBufs] /\ InSeq(q0) = InBufs /\ DOMAIN q0 = 1 .. n
  BY DEF Init, InSeq
<1>3. q0 \in Surjection(1 .. n, InBufs)
  BY <1>2 DEF Surjection, InSeq
<1>4. q0 \in Injection(1 .. n, InBufs)
  BY <1>1, <1>3, FS_SurjSameCardinalityImpliesInj
<1>5. Distinct(q0)
  BY <1>2, <1>4 DEF Distinct, Injection, IsInjective
<1>6. q0 \in Seq(InBufs)
  BY <1>1, <1>2
<1>7. QED
  BY <1>2, <1>5, <1>6, BaseAssumption DEF Init, InputInv, InputConserved

(* pad_chain takes a buffer, keeps it, gives it back or sends it.          *)
LEMMA ChainKeepsInput ==
  ASSUME InputInv,
         ChainPop \/ ChainResumed \/ ChainStatus \/ ChainStore \/ ChainSend
  PROVE  InputInv'
<1> USE BaseAssumption DEF InputInv, InputConserved
<1>1. q0 # <<>> =>
        /\ Head(q0) \in InBufs /\ Tail(q0) \in Seq(InBufs) /\ Distinct(Tail(q0))
        /\ InSeq(q0) = {Head(q0)} \cup InSeq(Tail(q0))
        /\ Head(q0) \notin InSeq(Tail(q0))
  BY HeadTaken
<1>2. CASE ChainPop
  <2>1. ubuf = None /\ dspIn' = dspIn
    BY <1>2 DEF ChainPop, SinkPadOpen, dsp
  <2>2. QED
    BY <1>1, <1>2, <2>1 DEF ChainPop
<1>3. CASE ChainResumed
  <2>1. ubuf = None /\ dspIn' = dspIn
    BY <1>3 DEF ChainResumed, dsp
  <2>2. QED
    BY <1>1, <1>3, <2>1 DEF ChainResumed
<1>4. CASE ChainStatus
  <2>1. dspIn' = dspIn
    BY <1>4 DEF ChainStatus, dsp
  <2>2. ubuf # None =>
          /\ Append(q0, ubuf) \in Seq(InBufs) /\ Distinct(Append(q0, ubuf))
          /\ InSeq(Append(q0, ubuf)) = InSeq(q0) \cup {ubuf}
    BY Appended
  <2>3. QED
    BY <1>4, <2>1, <2>2 DEF ChainStatus
<1>5. CASE ChainStore
  BY <1>5 DEF ChainStore, queues, dsp
<1>6. CASE ChainSend
  BY <1>6 DEF ChainSend, queues
<1>7. QED
  BY <1>2, <1>3, <1>4, <1>5, <1>6

(* The other threads that touch it: events, and what wakes the streaming   *)
(* thread.                                                                 *)
LEMMA OthersKeepInput ==
  ASSUME InputInv,
         EosDecide \/ EosMark \/ EosPush \/ FlushStartDisable0 \/ PauseTask
           \/ ErrorDisable0 \/ \E b \in InBufs : GotInput(b)
  PROVE  InputInv'
<1> USE DEF InputInv, InputConserved
<1>1. CASE EosDecide \/ EosMark \/ EosPush
  BY <1>1 DEF EosDecide, EosMark, EosPush, SinkPadOpen, queues, dsp
<1>2. CASE FlushStartDisable0
  BY <1>2 DEF FlushStartDisable0, DisableInput, WakeUpstream, dsp
<1>3. CASE PauseTask
  BY <1>3 DEF PauseTask, DisableInput, WakeUpstream, dsp
<1>4. CASE ErrorDisable0
  BY <1>4 DEF ErrorDisable0, DisableInput, WakeUpstream, dsp
<1>5. ASSUME NEW b \in InBufs, GotInput(b)  PROVE InputInv'
  <2>1. b \in dspIn /\ b \notin InSeq(q0)
    BY <1>5 DEF GotInput
  <2>2. /\ Append(q0, b) \in Seq(InBufs) /\ Distinct(Append(q0, b))
        /\ InSeq(Append(q0, b)) = InSeq(q0) \cup {b}
    BY <2>1, Appended
  <2>3. QED
    BY <1>5, <2>1, <2>2 DEF GotInput, WakeUpstream
<1>6. QED
  BY <1>1, <1>2, <1>3, <1>4, <1>5

(* Nothing else does. *)
LEMMA InputUntouched ==
  ASSUME NewSegment \/ FlushStart \/ FlushStartStatus \/ FlushStartDisable1
           \/ FlushStartPause \/ FlushStartDone \/ FlushStop \/ FlushStopRing
           \/ FlushStopStatus \/ FlushStopEnable0 \/ FlushStopEnable1
           \/ FlushStopTask
           \/ LoopPop \/ LoopResumed \/ LoopStatus \/ LoopPushBack \/ LoopCount
           \/ LoopEvents \/ LoopSort \/ LoopDrop \/ LoopWrap \/ LoopTake
           \/ LoopPush \/ LoopLeave \/ LoopEos \/ LoopEosPush \/ Pause \/ PauseEos
           \/ (\E b \in OutBufs : GotFrame(b) \/ GotEmpty(b) \/ Release(b))
           \/ Timeout \/ GotError \/ TimeoutDisable \/ ErrorDisable1
           \/ UNCHANGED vars
  PROVE  UNCHANGED inputVars
<1> USE DEF inputVars, queues, uvars, dsp
<1>1. CASE NewSegment \/ FlushStart \/ FlushStartStatus \/ FlushStartDisable1
             \/ FlushStartPause \/ FlushStartDone
  BY <1>1 DEF NewSegment, FlushStart, FlushStartStatus, FlushStartDisable1,
              FlushStartPause, FlushStartDone
<1>2. CASE FlushStop \/ FlushStopRing \/ FlushStopStatus \/ FlushStopEnable0
             \/ FlushStopEnable1 \/ FlushStopTask
  BY <1>2 DEF FlushStop, FlushStopRing, FlushStopStatus, FlushStopEnable0,
              FlushStopEnable1, FlushStopTask
<1>3. CASE LoopPop \/ LoopResumed \/ LoopStatus \/ LoopPushBack \/ LoopCount
             \/ LoopEvents
  BY <1>3 DEF LoopPop, LoopResumed, LoopStatus, LoopPushBack, LoopCount, LoopEvents
<1>4. CASE LoopSort \/ LoopDrop \/ LoopWrap \/ LoopTake \/ LoopPush
  BY <1>4 DEF LoopSort, LoopDrop, LoopWrap, LoopTake, LoopPush
<1>5. CASE LoopLeave \/ LoopEos \/ LoopEosPush \/ Pause \/ PauseEos
  BY <1>5 DEF LoopLeave, LoopEos, LoopEosPush, Pause, PauseEos
<1>6. ASSUME NEW b \in OutBufs, GotFrame(b) \/ GotEmpty(b) \/ Release(b)
      PROVE  UNCHANGED inputVars
  BY <1>6 DEF GotFrame, GotEmpty, GotOutput, Release
<1>7. CASE Timeout \/ GotError \/ TimeoutDisable \/ ErrorDisable1
  BY <1>7 DEF Timeout, GotError, TimeoutDisable, ErrorDisable1
<1>8. CASE UNCHANGED vars
  BY <1>8 DEF vars
<1>9. QED
  BY <1>1, <1>2, <1>3, <1>4, <1>5, <1>6, <1>7, <1>8

LEMMA InputStep == InputInv /\ [Next]_vars => InputInv'
<1> SUFFICES ASSUME InputInv, [Next]_vars  PROVE InputInv'
  OBVIOUS
<1>1. CASE UNCHANGED inputVars
  BY <1>1 DEF inputVars, InputInv, InputConserved
<1>2. QED
  BY <1>1, ChainKeepsInput, OthersKeepInput, InputUntouched
     DEF Next, UpstreamStarts, Upstream, Seek, OutputLoop, DspThread

LEMMA InputInvariant == Spec => []InputInv
  BY InputStart, InputStep, PTL DEF Spec

----------------------------------------------------------------------------
(* The output port.                                                        *)

WithBuffer == {"got", "pushback", "count", "events", "sort", "drop", "wrap",
               "take", "push"}
WithoutBuffer == {"idle", "asleep", "woken", "null"}

(* Conservation, with what the places of output_loop mean: pause_task is   *)
(* called with a buffer only by check_status, which puts it back after.    *)
OutputInv ==
  /\ q1 \in Seq(OutBufs) /\ dspOut \subseteq OutBufs /\ held \subseteq OutBufs
  /\ lbuf \in OutBufs \cup {None}
  /\ OutputConserved
  /\ lpc \in WithoutBuffer => lbuf = None
  /\ lpc \in WithBuffer => lbuf # None
  /\ lpc \in {"pause", "pausetask", "pauseeos"} =>
       lthen \in {"nok", "pushback", "end"} /\ (lthen = "pushback" <=> lbuf # None)

outputVars == <<q1, dspOut, held, lpc, lbuf, lthen>>

LEMMA OutputStart == Init => OutputInv
<1> SUFFICES ASSUME Init  PROVE OutputInv
  OBVIOUS
<1>1. InSeq(<<>>) = {} /\ Distinct(<<>>) /\ <<>> \in Seq(OutBufs)
  BY DEF InSeq, Distinct
<1>2. QED
  BY <1>1, BaseAssumption
     DEF Init, OutputInv, OutputConserved, WithBuffer, WithoutBuffer

(* output_loop takes a buffer from the queue. *)
LEMMA LoopTakesBuffer ==
  ASSUME OutputInv, LoopPop \/ LoopResumed
  PROVE  OutputInv'
<1> USE BaseAssumption DEF OutputInv, OutputConserved, WithBuffer, WithoutBuffer
<1>1. q1 # <<>> =>
        /\ Head(q1) \in OutBufs /\ Tail(q1) \in Seq(OutBufs) /\ Distinct(Tail(q1))
        /\ InSeq(q1) = {Head(q1)} \cup InSeq(Tail(q1))
        /\ Head(q1) \notin InSeq(Tail(q1))
  BY HeadTaken
<1>2. CASE LoopPop
  <2>1. lbuf = None /\ UNCHANGED <<dspOut, held>>
    BY <1>2 DEF LoopPop, dsp, down
  <2>2. QED
    BY <1>1, <1>2, <2>1 DEF LoopPop
<1>3. CASE LoopResumed
  <2>1. lbuf = None /\ UNCHANGED <<dspOut, held>>
    BY <1>3 DEF LoopResumed, dsp, down
  <2>2. QED
    BY <1>1, <1>3, <2>1 DEF LoopResumed
<1>4. QED
  BY <1>2, <1>3

(* It puts one back. *)
LEMMA LoopReturnsBuffer ==
  ASSUME OutputInv, LoopPushBack \/ LoopWrap \/ LoopEosPush
  PROVE  OutputInv'
<1> USE BaseAssumption DEF OutputInv, OutputConserved, WithBuffer, WithoutBuffer
<1>1. lbuf # None =>
        /\ Append(q1, lbuf) \in Seq(OutBufs) /\ Distinct(Append(q1, lbuf))
        /\ InSeq(Append(q1, lbuf)) = InSeq(q1) \cup {lbuf}
  BY Appended
<1>2. CASE LoopPushBack
  BY <1>1, <1>2 DEF LoopPushBack, dsp, down
<1>3. CASE LoopWrap
  <2>1. lpc = "wrap" /\ lbuf # None /\ UNCHANGED <<dspOut, held>>
    BY <1>3 DEF LoopWrap, down
  <2>2. CASE q1' = Append(q1, lbuf) /\ lbuf' = None /\ lpc' = "pause" /\ lthen' = "end"
    BY <1>1, <2>1, <2>2
  <2>3. CASE UNCHANGED <<q1, lbuf>> /\ lpc' = "take"
    BY <2>1, <2>3
  <2>4. QED
    BY <1>3, <2>2, <2>3 DEF LoopWrap
<1>4. CASE LoopEosPush
  <2>1. lbuf' = None /\ lpc' = "pause" /\ lthen' = "end" /\ held' = held
    BY <1>4 DEF LoopEosPush
  <2>2. CASE lbuf = None
    BY <1>4, <2>1, <2>2 DEF LoopEosPush
  <2>3. CASE lbuf # None /\ lbuf \in noData
    <3>1. q1' = Append(q1, lbuf) /\ dspOut' = dspOut
      BY <1>4, <2>3 DEF LoopEosPush
    <3>2. QED
      BY <1>1, <2>1, <2>3, <3>1
  <2>4. CASE lbuf # None /\ lbuf \notin noData
    <3>1. q1' = q1 /\ dspOut' = dspOut \cup {lbuf}
      BY <1>4, <2>4 DEF LoopEosPush, SendOutput
    <3>2. QED
      BY <2>1, <2>4, <3>1
  <2>5. QED
    BY <2>2, <2>3, <2>4
<1>5. QED
  BY <1>2, <1>3, <1>4

(* It sends one to the DSP or hands it downstream, or keeps it. *)
LEMMA LoopPassesBuffer ==
  ASSUME OutputInv,
         LoopStatus \/ LoopCount \/ LoopEvents \/ LoopSort \/ LoopDrop \/ LoopTake
           \/ LoopPush \/ LoopLeave \/ LoopEos
  PROVE  OutputInv'
<1> USE BaseAssumption DEF OutputInv, OutputConserved, WithBuffer, WithoutBuffer,
                           dsp, down, queues
<1>1. CASE LoopStatus
  BY <1>1 DEF LoopStatus
<1>2. CASE LoopCount \/ LoopEvents \/ LoopDrop \/ LoopTake \/ LoopEos
  BY <1>2 DEF LoopCount, LoopEvents, LoopDrop, LoopTake, LoopEos
<1>3. CASE LoopSort
  BY <1>3 DEF LoopSort, SendOutput
<1>4. CASE LoopPush
  BY <1>4 DEF LoopPush, SendOutput
<1>5. CASE LoopLeave
  BY <1>5 DEF LoopLeave, SendOutput
<1>6. QED
  BY <1>1, <1>2, <1>3, <1>4, <1>5

LEMMA PauseKeepsOutput ==
  ASSUME OutputInv, Pause \/ PauseTask \/ PauseEos
  PROVE  OutputInv'
<1> USE BaseAssumption DEF OutputInv, OutputConserved, WithBuffer, WithoutBuffer,
                           dsp, down, queues, PauseReturn
<1>1. CASE Pause
  BY <1>1 DEF Pause
<1>2. CASE PauseTask
  BY <1>2 DEF PauseTask
<1>3. CASE PauseEos
  BY <1>3 DEF PauseEos
<1>4. QED
  BY <1>1, <1>2, <1>3

(* dsp_thread and downstream return buffers, and somebody wakes the task. *)
LEMMA OthersKeepOutput ==
  ASSUME OutputInv,
         FlushStartDisable1 \/ TimeoutDisable \/ ErrorDisable1
           \/ \E b \in OutBufs : GotFrame(b) \/ GotEmpty(b) \/ Release(b)
  PROVE  OutputInv'
<1> USE DEF OutputInv, OutputConserved, WithBuffer, WithoutBuffer, WakeLoop
<1>1. CASE FlushStartDisable1 \/ TimeoutDisable \/ ErrorDisable1
  BY <1>1 DEF FlushStartDisable1, TimeoutDisable, ErrorDisable1, DisableOutput,
              dsp, down
<1>2. ASSUME NEW b \in OutBufs, NEW f, GotOutput(b, f)  PROVE OutputInv'
  <2>1. b \in dspOut /\ b \notin InSeq(q1)
    BY <1>2 DEF GotOutput
  <2>2. /\ Append(q1, b) \in Seq(OutBufs) /\ Distinct(Append(q1, b))
        /\ InSeq(Append(q1, b)) = InSeq(q1) \cup {b}
    BY <2>1, Appended
  <2>3. QED
    BY <1>2, <2>1, <2>2 DEF GotOutput, down
<1>3. ASSUME NEW b \in OutBufs, Release(b)  PROVE OutputInv'
  BY <1>3 DEF Release, SendOutput, queues, lvars
<1>4. QED
  BY <1>1, <1>2, <1>3 DEF GotFrame, GotEmpty

(* The input side leaves it alone. *)
LEMMA OutputUntouched ==
  ASSUME ChainPop \/ ChainResumed \/ ChainStatus \/ ChainStore \/ ChainSend
           \/ EosDecide \/ EosMark \/ EosPush \/ NewSegment
           \/ FlushStart \/ FlushStartStatus \/ FlushStartDisable0
           \/ FlushStartPause \/ FlushStartDone \/ FlushStop \/ FlushStopRing
           \/ FlushStopStatus \/ FlushStopEnable0 \/ FlushStopEnable1
           \/ FlushStopTask
           \/ (\E b \in InBufs : GotInput(b))
           \/ Timeout \/ GotError \/ ErrorDisable0 \/ UNCHANGED vars
  PROVE  UNCHANGED outputVars
<1> USE DEF outputVars, queues, lvars, dsp, down
<1>1. CASE ChainPop \/ ChainResumed \/ ChainStatus \/ ChainStore \/ ChainSend
  BY <1>1 DEF ChainPop, ChainResumed, ChainStatus, ChainStore, ChainSend
<1>2. CASE EosDecide \/ EosMark \/ EosPush \/ NewSegment
  BY <1>2 DEF EosDecide, EosMark, EosPush, NewSegment
<1>3. CASE FlushStart \/ FlushStartStatus \/ FlushStartDisable0
             \/ FlushStartPause \/ FlushStartDone
  BY <1>3 DEF FlushStart, FlushStartStatus, FlushStartDisable0, FlushStartPause,
              FlushStartDone
<1>4. CASE FlushStop \/ FlushStopRing \/ FlushStopStatus \/ FlushStopEnable0
             \/ FlushStopEnable1 \/ FlushStopTask
  BY <1>4 DEF FlushStop, FlushStopRing, FlushStopStatus, FlushStopEnable0,
              FlushStopEnable1, FlushStopTask
<1>5. ASSUME NEW b \in InBufs, GotInput(b)  PROVE UNCHANGED outputVars
  BY <1>5 DEF GotInput
<1>6. CASE Timeout \/ GotError \/ ErrorDisable0 \/ UNCHANGED vars
  BY <1>6 DEF Timeout, GotError, ErrorDisable0, vars
<1>7. QED
  BY <1>1, <1>2, <1>3, <1>4, <1>5, <1>6

LEMMA OutputStep == OutputInv /\ [Next]_vars => OutputInv'
<1> SUFFICES ASSUME OutputInv, [Next]_vars  PROVE OutputInv'
  OBVIOUS
<1>1. CASE UNCHANGED outputVars
  BY <1>1 DEF outputVars, OutputInv, OutputConserved
<1>2. QED
  BY <1>1, LoopTakesBuffer, LoopReturnsBuffer, LoopPassesBuffer,
     PauseKeepsOutput, OthersKeepOutput, OutputUntouched
     DEF Next, UpstreamStarts, Upstream, Seek, OutputLoop, DspThread

LEMMA OutputInvariant == Spec => []OutputInv
  BY OutputStart, OutputStep, PTL DEF Spec

(* Every td_buffer is in exactly one place, on every path by which         *)
(* pad_chain, output_loop and dsp_thread pass it on, for any number of     *)
(* buffers and any mode of the output port.                                *)
THEOREM EveryBufferConserved == Spec => []BuffersConserved
<1>1. InputInv /\ OutputInv => BuffersConserved
  BY DEF InputInv, OutputInv, BuffersConserved
<1>2. QED
  BY <1>1, InputInvariant, OutputInvariant, PTL

----------------------------------------------------------------------------
(* `status' and the queues.                                                *)

Restarting == {"st_ring", "st_status", "st_enable0", "st_enable1", "st_task"}
Stopped == Restarting \cup {"flushing"}
Refusing == {"fs_disable0", "fs_disable1", "fs_pause", "fs_wait", "flushing",
             "st_ring", "st_status"}

(* The flushing seek: FLUSH_STOP runs while neither the streaming thread   *)
(* nor output_loop does, and `status' is not OK from FLUSH_START until     *)
(* FLUSH_STOP sets it.                                                     *)
SeekInv ==
  /\ apc \in Stopped => lpc = "idle"
  /\ apc \in Stopped \cup {"fs_wait"} => task = "paused"
  /\ apc \in Restarting => upc = "idle"
  /\ apc \in Refusing => status # "OK"

(* pause_task is called with a result that is not OK, and stores it before *)
(* it disables the queues.                                                 *)
PauseInv ==
  /\ lpc \in {"pause", "pausetask", "pauseeos"} => lret # "OK"
  /\ lpc = "pausetask" => status # "OK"

(* A disabled queue goes with a `status' that is not OK, until FLUSH_STOP  *)
(* enables it again.                                                       *)
DisabledInv ==
  /\ ~conf.faults => dpc \in {"wait", "timeout"}
  /\ ~conf.faults /\ ~conf.eosTimeout => dpc = "wait"
  /\ ~conf.faults => (en0 \/ status # "OK" \/ apc = "st_enable0")
  /\ ~conf.faults /\ ~conf.eosTimeout =>
       (en1 \/ status # "OK" \/ apc \in {"st_enable0", "st_enable1"})

(* The streaming thread is woken by a buffer or by the queue's being       *)
(* disabled, and without a buffer finds a `status' that is not OK.         *)
ChainInv ==
  /\ ~conf.faults /\ upc = "woken" => q0 # <<>> \/ ~en0
  /\ ~conf.faults /\ upc = "status" /\ ubuf = None => status # "OK"
  /\ ~conf.faults /\ upc \in {"store", "send"} => ubuf # None

FlowInv == SeekInv /\ PauseInv /\ DisabledInv /\ ChainInv

flowVars == <<conf, apc, lpc, lret, task, upc, ubuf, status, dpc, en0, en1, q0>>

LEMMA FlowStart == Init => FlowInv
  BY DEF Init, FlowInv, SeekInv, PauseInv, DisabledInv, ChainInv, Restarting,
         Stopped, Refusing

(* pad_chain. *)
LEMMA ChainKeepsFlow ==
  ASSUME InputInv, FlowInv,
         ChainPop \/ ChainResumed \/ ChainStatus \/ ChainStore \/ ChainSend
  PROVE  FlowInv'
<1> USE DEF FlowInv, SeekInv, PauseInv, DisabledInv, ChainInv, Restarting, Stopped,
            Refusing, flags, lvars, counts
<1>1. q0 # <<>> => Head(q0) # None
  BY BaseAssumption DEF InputInv
<1>2. CASE ChainPop
  BY <1>1, <1>2 DEF ChainPop, SinkPadOpen
<1>3. CASE ChainResumed
  BY <1>1, <1>3 DEF ChainResumed
<1>4. CASE ChainStatus
  BY <1>4 DEF ChainStatus
<1>5. CASE ChainStore
  BY <1>5 DEF ChainStore, queues
<1>6. CASE ChainSend
  BY <1>6 DEF ChainSend, queues
<1>7. QED
  BY <1>2, <1>3, <1>4, <1>5, <1>6

(* The handlers of EOS and NEWSEGMENT, and the seek. *)
LEMMA EventsKeepFlow ==
  ASSUME FlowInv,
         EosDecide \/ EosMark \/ EosPush \/ NewSegment \/ FlushStart \/ Seek
  PROVE  FlowInv'
<1> USE DEF FlowInv, SeekInv, PauseInv, DisabledInv, ChainInv, Restarting, Stopped,
            Refusing, flags, lvars, counts, queues, uvars
<1>1. CASE EosDecide \/ EosMark \/ EosPush \/ NewSegment
  BY <1>1 DEF EosDecide, EosMark, EosPush, NewSegment, SinkPadOpen
<1>2. CASE FlushStart \/ FlushStartStatus \/ FlushStartPause \/ FlushStartDone
  BY <1>2 DEF FlushStart, FlushStartStatus, FlushStartPause, FlushStartDone
<1>3. CASE FlushStartDisable0
  BY <1>3 DEF FlushStartDisable0, DisableInput, WakeUpstream
<1>4. CASE FlushStartDisable1
  BY <1>4 DEF FlushStartDisable1, DisableOutput, WakeLoop
<1>5. CASE FlushStop \/ FlushStopRing \/ FlushStopStatus
  BY <1>5 DEF FlushStop, FlushStopRing, FlushStopStatus
<1>6. CASE FlushStopEnable0 \/ FlushStopEnable1 \/ FlushStopTask
  BY <1>6 DEF FlushStopEnable0, FlushStopEnable1, FlushStopTask
<1>7. QED
  BY <1>1, <1>2, <1>3, <1>4, <1>5, <1>6 DEF Seek

(* output_loop. *)
LEMMA LoopKeepsFlow ==
  ASSUME OutputInv, FlowInv, OutputLoop
  PROVE  FlowInv'
<1> USE DEF FlowInv, SeekInv, PauseInv, DisabledInv, ChainInv, Restarting, Stopped,
            Refusing, flags, lvars, counts, queues, uvars
<1>1. CASE LoopPop \/ LoopResumed \/ LoopStatus \/ LoopPushBack
  BY <1>1 DEF LoopPop, LoopResumed, LoopStatus, LoopPushBack
<1>2. CASE LoopCount \/ LoopEvents \/ LoopSort \/ LoopDrop
  BY <1>2 DEF LoopCount, LoopEvents, LoopSort, LoopDrop
<1>3. CASE LoopWrap \/ LoopTake \/ LoopPush
  BY <1>3 DEF LoopWrap, LoopTake, LoopPush
<1>4. CASE LoopLeave \/ LoopEos \/ LoopEosPush
  BY <1>4 DEF LoopLeave, LoopEos, LoopEosPush
<1>5. CASE Pause
  BY <1>5 DEF Pause
<1>6. CASE PauseTask
  BY <1>6 DEF PauseTask, PauseReturn, DisableInput, WakeUpstream
<1>7. CASE PauseEos
  BY <1>7 DEF PauseEos, PauseReturn, OutputInv
<1>8. QED
  BY <1>1, <1>2, <1>3, <1>4, <1>5, <1>6, <1>7 DEF OutputLoop

(* dsp_thread and downstream. *)
LEMMA ThreadKeepsFlow ==
  ASSUME InputInv, FlowInv,
         (\E b \in InBufs : GotInput(b))
           \/ (\E b \in OutBufs : GotFrame(b) \/ GotEmpty(b) \/ Release(b))
           \/ Timeout \/ GotError \/ DspThread \/ UNCHANGED vars
  PROVE  FlowInv'
<1> USE DEF FlowInv, SeekInv, PauseInv, DisabledInv, ChainInv, Restarting, Stopped,
            Refusing, flags, lvars, counts, queues, uvars
<1>1. ASSUME NEW b \in InBufs, GotInput(b)  PROVE FlowInv'
  <2>1. q0' # <<>>
    BY <1>1, Appended DEF GotInput, InputInv, InputConserved
  <2>2. QED
    BY <1>1, <2>1 DEF GotInput, WakeUpstream
<1>2. ASSUME NEW b \in OutBufs, NEW f, GotOutput(b, f), conf' = conf
      PROVE  FlowInv'
  BY <1>2 DEF GotOutput, WakeLoop
<1>3. ASSUME NEW b \in OutBufs, Release(b)  PROVE FlowInv'
  BY <1>3 DEF Release
<1>4. CASE Timeout \/ GotError
  BY <1>4 DEF Timeout, GotError
<1>5. CASE TimeoutDisable \/ ErrorDisable1
  BY <1>5 DEF TimeoutDisable, ErrorDisable1, DisableOutput, WakeLoop
<1>6. CASE ErrorDisable0
  BY <1>6 DEF ErrorDisable0, DisableInput, WakeUpstream
<1>7. CASE UNCHANGED vars
  BY <1>7 DEF vars
<1>8. QED
  BY <1>1, <1>2, <1>3, <1>4, <1>5, <1>6, <1>7
     DEF DspThread, GotFrame, GotEmpty, GotOutput, counts

LEMMA FlowInvariant == Spec => []FlowInv
<1>1. InputInv /\ OutputInv /\ FlowInv /\ [Next]_vars => FlowInv'
  BY ChainKeepsFlow, EventsKeepFlow, LoopKeepsFlow, ThreadKeepsFlow
     DEF Next, UpstreamStarts, Upstream
<1>2. QED
  BY FlowStart, <1>1, InputInvariant, OutputInvariant, PTL DEF Spec

(* Outside a flush `status' OK means that both queues are enabled, for an  *)
(* element without faults and without an EOS timeout.                      *)
THEOREM StatusTellsOfQueues == Spec => []QueuesFollowStatus
<1>1. FlowInv => QueuesFollowStatus
  BY DEF FlowInv, DisabledInv, QueuesFollowStatus
<1>2. QED
  BY <1>1, FlowInvariant, PTL

(* When pad_chain has found `status' OK it has a buffer, unless the DSP    *)
(* may fail: the code uses tb without looking.                             *)
THEOREM ChainNeverWithoutBuffer == Spec => []ChainHasBufferUnlessFault
<1>1. FlowInv => ChainHasBufferUnlessFault
  BY DEF FlowInv, ChainInv, ChainHasBufferUnlessFault, ChainHasBuffer
<1>2. QED
  BY <1>1, FlowInvariant, PTL

----------------------------------------------------------------------------
(* The EOS event.                                                          *)

(* pause_task has taken the deferred EOS over. *)
TakenOver == lpc \in {"pausetask", "pauseeos"} /\ leos

(* An EOS that upstream has sent is in one place at most: downstream, with *)
(* sink_event, deferred, or with pause_task.  got_eos of output_loop does  *)
(* not take it: it stays deferred until it has been pushed.                *)
EosInv ==
  /\ eosSent \in {0, 1}
  /\ eosSent = 1 => eosIn /\ upc # "eospush" /\ ~deferred_eos /\ ~TakenOver
  /\ upc = "eospush" => eosIn /\ ~deferred_eos /\ ~TakenOver
  /\ deferred_eos => eosIn /\ ~TakenOver
  /\ TakenOver => eosIn
  /\ lpc \in {"push", "leave", "eos", "eospush"} /\ leos => deferred_eos
  /\ lpc \in {"eos", "eospush", "pauseeos"} => leos
  /\ lpc \in (WithBuffer \ {"push", "pushback"}) \cup {"asleep", "woken", "null"} => ~leos
  /\ apc = "st_ring" => eosSent = 0

LEMMA EosStart == Init => EosInv
  BY DEF Init, EosInv, TakenOver, WithBuffer

(* The streaming thread and the seek. *)
LEMMA UpstreamKeepsEos ==
  ASSUME SeekInv, EosInv,
         UpstreamStarts \/ Upstream \/ FlushStart \/ Seek
  PROVE  EosInv'
<1> USE DEF SeekInv, EosInv, TakenOver, WithBuffer, Restarting, Stopped, flags, lvars,
            counts, down, uvars
<1>1. CASE ChainPop \/ NewSegment
  BY <1>1 DEF ChainPop, NewSegment, SinkPadOpen
<1>2. CASE ChainResumed \/ ChainStatus \/ ChainStore \/ ChainSend
  BY <1>2 DEF ChainResumed, ChainStatus, ChainStore, ChainSend
<1>3. CASE EosDecide
  BY <1>3 DEF EosDecide, SinkPadOpen, DeferEos
<1>4. CASE EosMark
  BY <1>4 DEF EosMark
<1>5. CASE EosPush
  BY <1>5 DEF EosPush, PushEos
<1>6. CASE FlushStart \/ FlushStartStatus \/ FlushStartPause \/ FlushStartDone
  BY <1>6 DEF FlushStart, FlushStartStatus, FlushStartPause, FlushStartDone
<1>7. CASE FlushStartDisable0
  BY <1>7 DEF FlushStartDisable0, DisableInput, WakeUpstream
<1>8. CASE FlushStartDisable1
  BY <1>8 DEF FlushStartDisable1, DisableOutput, WakeLoop
<1>9. CASE FlushStop \/ FlushStopStatus
  BY <1>9 DEF FlushStop, FlushStopStatus
<1>10. CASE FlushStopRing
  BY <1>10 DEF FlushStopRing
<1>11. CASE FlushStopEnable0 \/ FlushStopEnable1 \/ FlushStopTask
  BY <1>11 DEF FlushStopEnable0, FlushStopEnable1, FlushStopTask
<1>12. QED
  BY <1>1, <1>2, <1>3, <1>4, <1>5, <1>6, <1>7, <1>8, <1>9, <1>10, <1>11
     DEF UpstreamStarts, Upstream, Seek

(* output_loop, which pushes the deferred EOS itself or in pause_task. *)
LEMMA LoopKeepsEos ==
  ASSUME SeekInv, OutputInv, EosInv, OutputLoop
  PROVE  EosInv'
<1> USE DEF SeekInv, EosInv, TakenOver, WithBuffer, Restarting, Stopped, flags, lvars,
            counts, down, uvars
<1>1. CASE LoopPop \/ LoopResumed \/ LoopStatus \/ LoopPushBack
  BY <1>1 DEF LoopPop, LoopResumed, LoopStatus, LoopPushBack
<1>2. CASE LoopCount \/ LoopEvents \/ LoopSort \/ LoopDrop \/ LoopWrap
  BY <1>2 DEF LoopCount, LoopEvents, LoopSort, LoopDrop, LoopWrap
<1>3. CASE LoopTake
  BY <1>3 DEF LoopTake
<1>4. CASE LoopPush \/ LoopLeave \/ LoopEos
  BY <1>4 DEF LoopPush, LoopLeave, LoopEos
<1>5. CASE LoopEosPush
  BY <1>5 DEF LoopEosPush, PushEos
<1>6. CASE Pause
  BY <1>6 DEF Pause
<1>7. CASE PauseTask
  BY <1>7 DEF PauseTask, PauseReturn, DisableInput, WakeUpstream, OutputInv
<1>8. CASE PauseEos
  BY <1>8 DEF PauseEos, PauseReturn, PushEos, OutputInv
<1>9. QED
  BY <1>1, <1>2, <1>3, <1>4, <1>5, <1>6, <1>7, <1>8 DEF OutputLoop

(* dsp_thread and downstream. *)
LEMMA ThreadKeepsEos ==
  ASSUME EosInv,
         (\E b \in InBufs : GotInput(b))
           \/ (\E b \in OutBufs : GotFrame(b) \/ GotEmpty(b) \/ Release(b))
           \/ Timeout \/ GotError \/ DspThread \/ UNCHANGED vars
  PROVE  EosInv'
<1> USE DEF EosInv, TakenOver, WithBuffer, flags, lvars, counts, down, uvars
<1>1. ASSUME NEW b \in InBufs, GotInput(b)  PROVE EosInv'
  BY <1>1 DEF GotInput, WakeUpstream
<1>2. ASSUME NEW b \in OutBufs, NEW f, GotOutput(b, f)  PROVE EosInv'
  BY <1>2 DEF GotOutput, WakeLoop
<1>3. ASSUME NEW b \in OutBufs, Release(b)  PROVE EosInv'
  BY <1>3 DEF Release
<1>4. CASE Timeout \/ GotError \/ UNCHANGED vars
  BY <1>4 DEF Timeout, GotError, vars
<1>5. CASE DspThread
  BY <1>5 DEF DspThread, TimeoutDisable, ErrorDisable0, ErrorDisable1,
              DisableInput, DisableOutput, WakeUpstream, WakeLoop
<1>6. QED
  BY <1>1, <1>2, <1>3, <1>4, <1>5 DEF GotFrame, GotEmpty

(* Between flushes downstream gets one EOS at most, though sink_event,     *)
(* output_loop and pause_task, of two threads, may each push it.           *)
THEOREM EosPushedOnce == Spec => []EosOnce
<1>1. SeekInv /\ OutputInv /\ EosInv /\ [Next]_vars => EosInv'
  BY UpstreamKeepsEos, LoopKeepsEos, ThreadKeepsEos DEF Next
<1>2. EosInv => EosOnce
  BY DEF EosInv, EosOnce
<1>3. FlowInv => SeekInv
  BY DEF FlowInv
<1>4. QED
  BY EosStart, <1>1, <1>2, <1>3, FlowInvariant, OutputInvariant, PTL DEF Spec

-----------------------------------------------------------------------------
(* The ring of timestamps.                                                 *)

(* pad_chain has a frame that it has not yet stored, or not yet sent. *)
Storing == {"asleep", "woken", "status", "store"}
Chaining == Storing \cup {"send"}

(* The frames: those the DSP has got are numbered. *)
FrameInv ==
  /\ conf \in Confs
  /\ nsent \in 0 .. conf.maxFrames /\ nseg \in 0 .. conf.maxSegments
  /\ upc \in Chaining => nsent # 0
  /\ dspPending \in Seq(Times)
  /\ frameOf \in [OutBufs -> Times \cup {NoTime}]

frameVars == <<conf, nsent, nseg, upc, dspPending, frameOf>>

(* A frame that upstream has sent is one of Times. *)
LEMMA FrameIsTimed ==
  ASSUME FrameInv, nsent # 0
  PROVE  nsent \in Times /\ nsent \in Nat
<1>1. conf.maxFrames \in Nat
  BY BaseAssumption DEF FrameInv, Conf
<1>2. nsent \in 1 .. conf.maxFrames
  BY <1>1 DEF FrameInv
<1>3. QED
  BY <1>2, BaseAssumption DEF FrameInv

(* So are the NEWSEGMENT events of Events. *)
LEMMA SegmentIsEvent ==
  ASSUME FrameInv, NewSegment
  PROVE  nseg + 1 \in Events
<1>1. conf.maxSegments \in Nat
  BY BaseAssumption DEF FrameInv, Conf
<1>2. nseg + 1 \in 1 .. conf.maxSegments
  BY <1>1 DEF NewSegment, FrameInv
<1>3. QED
  BY <1>2, BaseAssumption DEF FrameInv

LEMMA FrameStart == Init => FrameInv
<1> SUFFICES ASSUME Init  PROVE FrameInv
  OBVIOUS
<1>1. conf.maxFrames \in Nat /\ conf.maxSegments \in Nat
  BY BaseAssumption DEF Init, Conf
<1>2. QED
  BY <1>1 DEF Init, FrameInv, Chaining, Storing

LEMMA FrameStep == FrameInv /\ [Next]_vars => FrameInv'
<1> SUFFICES ASSUME FrameInv, [Next]_vars  PROVE FrameInv'
  OBVIOUS
<1> USE DEF FrameInv, Chaining, Storing
<1>1. conf.maxFrames \in Nat /\ conf.maxSegments \in Nat
  BY BaseAssumption DEF Conf
<1>2. CASE ChainPop
  BY <1>1, <1>2 DEF ChainPop, dsp
<1>3. CASE ChainResumed \/ ChainStatus \/ ChainStore \/ EosMark \/ EosPush
  BY <1>3 DEF ChainResumed, ChainStatus, ChainStore, EosMark, EosPush, dsp, counts
<1>4. CASE ChainSend
  <2>1. nsent \in Times
    BY <1>4, FrameIsTimed DEF ChainSend
  <2>2. QED
    BY <1>4, <2>1 DEF ChainSend, counts
<1>5. CASE EosDecide
  BY <1>5 DEF EosDecide, dsp
<1>6. CASE NewSegment
  BY <1>1, <1>6 DEF NewSegment, dsp, uvars
<1>7. CASE FlushStart \/ FlushStartStatus \/ FlushStartDisable1
             \/ FlushStartPause \/ FlushStartDone \/ FlushStop \/ FlushStopRing
             \/ FlushStopStatus \/ FlushStopEnable0 \/ FlushStopEnable1
             \/ FlushStopTask
  BY <1>7 DEF FlushStart, FlushStartStatus, FlushStartDisable1, FlushStartPause,
              FlushStartDone, FlushStop, FlushStopRing, FlushStopStatus,
              FlushStopEnable0, FlushStopEnable1, FlushStopTask, dsp, uvars, counts
<1>8. CASE FlushStartDisable0 \/ PauseTask \/ ErrorDisable0
  BY <1>8 DEF FlushStartDisable0, PauseTask, ErrorDisable0, DisableInput,
              WakeUpstream, dsp, counts
<1>9. CASE LoopPop \/ LoopResumed \/ LoopStatus \/ LoopPushBack \/ LoopCount
             \/ LoopEvents \/ LoopSort \/ LoopDrop \/ LoopWrap \/ LoopTake
  BY <1>9 DEF LoopPop, LoopResumed, LoopStatus, LoopPushBack, LoopCount,
              LoopEvents, LoopSort, LoopDrop, LoopWrap, LoopTake, dsp, uvars, counts
<1>10. CASE LoopPush \/ LoopLeave \/ LoopEos \/ LoopEosPush \/ Pause \/ PauseEos
  BY <1>10 DEF LoopPush, LoopLeave, LoopEos, LoopEosPush, Pause, PauseEos,
               dsp, uvars, counts
<1>11. ASSUME NEW b \in InBufs, GotInput(b)  PROVE FrameInv'
  BY <1>11 DEF GotInput, WakeUpstream, counts
<1>12. ASSUME NEW b \in OutBufs, GotFrame(b)  PROVE FrameInv'
  <2>1. Head(dspPending) \in Times /\ Tail(dspPending) \in Seq(Times)
    BY <1>12 DEF GotFrame
  <2>2. QED
    BY <1>12, <2>1 DEF GotFrame, GotOutput, uvars
<1>13. ASSUME NEW b \in OutBufs, GotEmpty(b) \/ Release(b)  PROVE FrameInv'
  BY <1>13 DEF GotEmpty, GotOutput, Release, uvars, counts
<1>14. CASE Timeout \/ GotError \/ TimeoutDisable \/ ErrorDisable1
  BY <1>14 DEF Timeout, GotError, TimeoutDisable, ErrorDisable1, dsp, uvars, counts
<1>15. CASE UNCHANGED vars
  BY <1>15 DEF vars, dsp, uvars, counts
<1>16. QED
  BY <1>2, <1>3, <1>4, <1>5, <1>6, <1>7, <1>8, <1>9, <1>10, <1>11, <1>12, <1>13,
     <1>14, <1>15
     DEF Next, UpstreamStarts, Upstream, Seek, OutputLoop, DspThread

LEMMA FrameInvariant == Spec => []FrameInv
  BY FrameStart, FrameStep, PTL DEF Spec

----------------------------------------------------------------------------
(* The ring in the hands of the streaming thread and of output_loop.       *)

(* While pad_chain has a frame to store there is room for it; and at each  *)
(* place of output_loop what it has found out about the ring still holds.  *)
RoomInv == upc \in Storing => RoomLeft

LoopInv ==
  /\ lpc = "events" /\ HasFrame => ts_count > 0
  /\ (lpc = "sort" /\ HasFrame) \/ lpc \in {"drop", "wrap", "take"} =>
       ts_count > 0 /\ ts_out_pos \in FrameSlots
  /\ lpc = "drop" => HeadFlushed
  /\ lpc \in {"wrap", "take"} => ~HeadFlushed

StreamInv == RingInv /\ RoomInv /\ LoopInv

(* What is said of the ring does not change while the ring does not. *)
LEMMA RingStays ==
  ASSUME RingInv, UNCHANGED tsVars
  PROVE  /\ RingInv'
         /\ FrameSlots' = FrameSlots
         /\ Outstanding' = Outstanding /\ Flushed' = Flushed
         /\ UNCHANGED <<ts_array, ts_out_pos, ts_push_pos, ts_count>>
         /\ RoomLeft' = RoomLeft /\ HeadFlushed' = HeadFlushed
<1>1. UNCHANGED <<ts_array, ts_in_pos, ts_out_pos, ts_push_pos, ts_count>>
  BY DEF tsVars
<1>2. Outstanding' = Outstanding /\ Flushed' = Flushed /\ FrameSlots' = FrameSlots
  BY <1>1 DEF Outstanding, Flushed, FrameSlots, HoldsEvent
<1>3. QED
  BY <1>1, <1>2
     DEF RingInv, TsTypeOK, CountIsFrames, WindowSound, FramesTimed, HoldsEvent,
         RoomLeft, HeadFlushed

(* The frame in output_loop's buffer stays there: it is not with the DSP.  *)
LEMMA FrameStays ==
  ASSUME OutputInv, FrameInv, [Next]_vars, lpc' \in {"events", "sort"},
         lpc \in {"count", "events"} \/ lpc' = lpc
  PROVE  HasFrame' = HasFrame
<1> USE DEF lvars, dsp, vars, HasFrame
<1>1. CASE frameOf' = frameOf /\ lbuf' = lbuf
  BY <1>1
<1>2. ASSUME NEW b \in OutBufs, NEW f, GotOutput(b, f)  PROVE HasFrame' = HasFrame
  <2>1. lpc' = lpc /\ lbuf' = lbuf /\ lbuf \in OutBufs /\ lbuf # b
    BY <1>2 DEF GotOutput, WakeLoop, OutputInv, OutputConserved, WithBuffer
  <2>2. frameOf'[lbuf] = frameOf[lbuf]
    BY <1>2, <2>1 DEF GotOutput, FrameInv
  <2>3. QED
    BY <2>1, <2>2
<1>3. QED
  BY <1>1, <1>2
     DEF Next, UpstreamStarts, Upstream, Seek, OutputLoop, DspThread,
         ChainPop, ChainResumed, ChainStatus, ChainStore, ChainSend,
         EosDecide, EosMark, EosPush, NewSegment, FlushStart, FlushStartStatus,
         FlushStartDisable0, FlushStartDisable1, FlushStartPause, FlushStartDone,
         FlushStop, FlushStopRing, FlushStopStatus, FlushStopEnable0,
         FlushStopEnable1, FlushStopTask, LoopPop, LoopResumed, LoopStatus,
         LoopPushBack, LoopCount, LoopEvents, LoopSort, LoopDrop, LoopWrap,
         LoopTake, LoopPush, LoopLeave, LoopEos, LoopEosPush, Pause, PauseTask,
         PauseEos, GotInput, GotFrame, GotEmpty, Release, Timeout, GotError,
         TimeoutDisable, ErrorDisable0, ErrorDisable1

LEMMA StreamStart == Init => StreamInv
<1> SUFFICES ASSUME Init  PROVE StreamInv
  OBVIOUS
<1>1. RingInv
  BY InitHolds DEF Init
<1>2. QED
  BY <1>1 DEF Init, StreamInv, RoomInv, LoopInv, Storing

(* The streaming thread stores a frame or an event: the frame at the head  *)
(* stays there, and what the reader knows still holds.                     *)
LEMMA StoringKeepsStream ==
  ASSUME StreamInv, FrameInv, ChainStore \/ NewSegment
  PROVE  StreamInv'
<1> USE DEF StreamInv, LoopInv, RoomInv, Storing
<1>1. CASE ChainStore
  <2>1. nsent \in Times /\ RoomLeft /\ StoreFrame(nsent)
    BY <1>1, FrameIsTimed DEF ChainStore, FrameInv, Chaining
  <2>2. /\ RingInv' /\ ts_count' > 0
        /\ FrameSlots \subseteq FrameSlots'
        /\ UNCHANGED <<ts_out_pos, ts_push_pos>>
    BY <2>1, StoreFrameKeeps DEF StoreFrame
  <2>3. UNCHANGED <<lpc, lbuf, frameOf>> /\ upc' = "send"
    BY <1>1 DEF ChainStore, lvars, dsp
  <2>4. LoopInv'
    BY <2>2, <2>3 DEF HasFrame, HeadFlushed
  <2>5. QED
    BY <2>2, <2>3, <2>4
<1>2. CASE NewSegment
  <2>1. nseg + 1 \in Events
    BY <1>2, SegmentIsEvent
  <2>2. /\ RingInv'
        /\ FrameSlots' = FrameSlots
        /\ UNCHANGED <<ts_out_pos, ts_push_pos, ts_count>>
    BY <1>2, <2>1, StoreEventKeeps DEF NewSegment, StoreEvent
  <2>3. UNCHANGED <<lpc, lbuf, frameOf>> /\ upc' = "idle"
    BY <1>2 DEF NewSegment, SinkPadOpen, lvars, dsp, uvars
  <2>4. LoopInv'
    BY <2>2, <2>3 DEF HasFrame, HeadFlushed
  <2>5. QED
    BY <2>2, <2>3, <2>4
<1>3. QED
  BY <1>1, <1>2

(* output_loop handles the events at the head: if it has a frame, one is   *)
(* at the head now.                                                        *)
LEMMA EventsKeepStream ==
  ASSUME StreamInv, LoopEvents
  PROVE  StreamInv'
<1> USE DEF StreamInv
<1>1. /\ RingInv'
      /\ FrameSlots' = FrameSlots
      /\ ts_out_pos' \in Slots
      /\ ~HoldsEvent(ts_out_pos)'
      /\ ts_count' = ts_count
      /\ Outstanding' = Outstanding - LeadingEvents
  BY ClearEventsKeeps DEF LoopEvents, ClearEvents, RingInv, TsTypeOK
<1>2. /\ lpc = "events" /\ lpc' = "sort"
      /\ UNCHANGED <<upc, lbuf, frameOf>>
  BY DEF LoopEvents, uvars, dsp
<1>3. RoomInv'
  <2>1. LeadingEvents \in 0 .. Outstanding /\ Outstanding \in 0 .. Size - 1
    BY LeadingEventsInWindow
  <2>2. QED
    BY <1>1, <1>2, <2>1, RingAssumption DEF RoomInv, RoomLeft
<1>4. HasFrame' => ts_count' > 0 /\ ts_out_pos' \in FrameSlots'
  <2> SUFFICES ASSUME HasFrame'
               PROVE  ts_count' > 0 /\ ts_out_pos' \in FrameSlots'
    OBVIOUS
  <2>1. ts_count' > 0
    BY <1>1, <1>2 DEF LoopInv, HasFrame
  <2>2. FrameSlots' # {}
    <3>1. Cardinality(FrameSlots) > 0
      BY <1>1, <2>1 DEF RingInv, CountIsFrames
    <3>2. QED
      BY <3>1, <1>1, FS_EmptySet
  <2>3. (Outstanding \in 0 .. Size - 1)'
    BY <1>1, WindowType, PTL DEF RingInv
  <2>4. QED
    BY <1>1, <2>1, <2>2, <2>3, DistType DEF FrameSlots
<1>5. QED
  BY <1>1, <1>2, <1>3, <1>4 DEF LoopInv

(* The frame at the head leaves the ring. *)
LEMMA HeadKeepsStream ==
  ASSUME StreamInv, LoopDrop \/ LoopTake
  PROVE  StreamInv'
<1> USE DEF StreamInv
<1>1. RingInv' /\ Outstanding' = Outstanding - 1
  BY HeadLeaves DEF LoopDrop, LoopTake, DropFrame, TakeFrame, LoopInv
<1>2. lpc' \in {"leave", "push"} /\ upc' = upc
  BY DEF LoopDrop, LoopTake, uvars
<1>3. RoomInv'
  BY <1>1, <1>2, WindowType, RingAssumption DEF RoomInv, RoomLeft, RingInv
<1>4. QED
  BY <1>1, <1>2, <1>3 DEF LoopInv

(* FLUSH_STOP marks what is in the ring; output_loop is not running.       *)
LEMMA FlushKeepsStream ==
  ASSUME StreamInv, SeekInv, FlushStopRing
  PROVE  StreamInv'
<1>1. RingInv' /\ Outstanding' = Outstanding
  BY FlushRingKeeps DEF StreamInv, FlushStopRing
<1>2. lpc' = "idle" /\ upc' = upc
  BY DEF FlushStopRing, SeekInv, Restarting, Stopped, lvars, uvars
<1>3. QED
  BY <1>1, <1>2 DEF StreamInv, RoomInv, RoomLeft, LoopInv

(* No other step changes the ring, and none but those of output_loop what  *)
(* it has found out.                                                       *)
RingSteps == ChainStore \/ NewSegment \/ LoopEvents \/ LoopDrop \/ LoopTake
               \/ FlushStopRing

LoopSteps == LoopCount \/ LoopSort \/ LoopWrap

LoopPlaces == {"events", "sort", "drop", "wrap", "take"}

LEMMA RingUntouched ==
  ASSUME OutputInv, [Next]_vars, ~RingSteps
  PROVE  /\ UNCHANGED <<tsVars, sent, flushMark, lts>>
         /\ lpc' = "push" => lpc = "push"
         /\ \/ nsent' = nsent /\ (upc' \in Storing => upc \in Storing)
            \/ nsent' = nsent + 1 /\ RoomLeft
<1> USE DEF RingSteps, Storing, uvars, lvars, counts, WakeLoop
<1>1. CASE ChainPop \/ ChainResumed \/ ChainStatus \/ ChainSend
             \/ EosDecide \/ EosMark \/ EosPush
  BY <1>1 DEF ChainPop, ChainResumed, ChainStatus, ChainSend, EosDecide, EosMark,
              EosPush
<1>2. CASE FlushStart \/ FlushStartStatus \/ FlushStartDisable0
             \/ FlushStartDisable1 \/ FlushStartPause \/ FlushStartDone
  BY <1>2 DEF FlushStart, FlushStartStatus, FlushStartDisable0,
              FlushStartDisable1, FlushStartPause, FlushStartDone, DisableInput,
              DisableOutput, WakeUpstream
<1>3. CASE FlushStop \/ FlushStopStatus \/ FlushStopEnable0 \/ FlushStopEnable1
             \/ FlushStopTask
  BY <1>3 DEF FlushStop, FlushStopStatus, FlushStopEnable0, FlushStopEnable1,
              FlushStopTask
<1>4. CASE LoopPop \/ LoopResumed \/ LoopStatus \/ LoopPushBack \/ LoopCount
             \/ LoopSort \/ LoopWrap \/ LoopPush \/ LoopLeave
  BY <1>4 DEF LoopPop, LoopResumed, LoopStatus, LoopPushBack, LoopCount, LoopSort,
              LoopWrap, LoopPush, LoopLeave
<1>5. CASE LoopEos \/ LoopEosPush \/ Pause \/ PauseTask \/ PauseEos
  BY <1>5 DEF LoopEos, LoopEosPush, Pause, PauseTask, PauseEos, PauseReturn,
              DisableInput, WakeUpstream, OutputInv
<1>6. ASSUME NEW b \in InBufs, GotInput(b)
      PROVE  /\ UNCHANGED <<tsVars, sent, flushMark, lts, lpc, nsent>>
             /\ upc' \in Storing => upc \in Storing
  BY <1>6 DEF GotInput, WakeUpstream
<1>7. ASSUME NEW b \in OutBufs, GotFrame(b) \/ GotEmpty(b) \/ Release(b)
      PROVE  /\ UNCHANGED <<tsVars, sent, flushMark, lts, nsent, upc>>
             /\ lpc' = "push" => lpc = "push"
  BY <1>7 DEF GotFrame, GotEmpty, GotOutput, Release
<1>8. CASE Timeout \/ GotError \/ TimeoutDisable \/ ErrorDisable0
             \/ ErrorDisable1 \/ UNCHANGED vars
  BY <1>8 DEF Timeout, GotError, TimeoutDisable, ErrorDisable0, ErrorDisable1,
              DisableInput, DisableOutput, WakeUpstream, vars
<1>9. QED
  BY <1>1, <1>2, <1>3, <1>4, <1>5, <1>6, <1>7, <1>8
     DEF Next, UpstreamStarts, Upstream, Seek, OutputLoop, DspThread

LEMMA LoopUntouched ==
  ASSUME OutputInv, [Next]_vars, ~RingSteps, ~LoopSteps,
         lpc' \in LoopPlaces \/ lpc \in LoopPlaces
  PROVE  lpc' = lpc
<1> USE DEF RingSteps, LoopSteps, LoopPlaces, lvars, WakeLoop
<1>1. CASE ChainPop \/ ChainResumed \/ ChainStatus \/ ChainSend
             \/ EosDecide \/ EosMark \/ EosPush
  BY <1>1 DEF ChainPop, ChainResumed, ChainStatus, ChainSend, EosDecide, EosMark,
              EosPush
<1>2. CASE FlushStart \/ FlushStartStatus \/ FlushStartDisable0
             \/ FlushStartDisable1 \/ FlushStartPause \/ FlushStartDone
  BY <1>2 DEF FlushStart, FlushStartStatus, FlushStartDisable0,
              FlushStartDisable1, FlushStartPause, FlushStartDone, DisableOutput
<1>3. CASE FlushStop \/ FlushStopStatus \/ FlushStopEnable0 \/ FlushStopEnable1
             \/ FlushStopTask
  BY <1>3 DEF FlushStop, FlushStopStatus, FlushStopEnable0, FlushStopEnable1,
              FlushStopTask
<1>4. CASE LoopPop \/ LoopResumed \/ LoopStatus \/ LoopPushBack \/ LoopPush
             \/ LoopLeave
  BY <1>4 DEF LoopPop, LoopResumed, LoopStatus, LoopPushBack, LoopPush, LoopLeave
<1>5. CASE LoopEos \/ LoopEosPush \/ Pause
  BY <1>5 DEF LoopEos, LoopEosPush, Pause
<1>6. ASSUME NEW b \in InBufs, GotInput(b)  PROVE lpc' = lpc
  BY <1>6 DEF GotInput
<1>7. ASSUME NEW b \in OutBufs, GotFrame(b) \/ GotEmpty(b) \/ Release(b)
      PROVE  lpc' = lpc
  BY <1>7 DEF GotFrame, GotEmpty, GotOutput, Release
<1>8. CASE Timeout \/ GotError \/ TimeoutDisable \/ ErrorDisable0
             \/ ErrorDisable1 \/ UNCHANGED vars
  BY <1>8 DEF Timeout, GotError, TimeoutDisable, ErrorDisable0, ErrorDisable1,
              DisableOutput, vars
<1>9. CASE PauseTask \/ PauseEos
  BY <1>9 DEF PauseTask, PauseEos, PauseReturn, OutputInv
<1>10. QED
  BY <1>1, <1>2, <1>3, <1>4, <1>5, <1>6, <1>7, <1>8, <1>9
     DEF Next, UpstreamStarts, Upstream, Seek, OutputLoop, DspThread

(* A step that leaves the ring alone keeps what is known of it: a place of *)
(* output_loop is reached only with the check the place stands for.        *)
LEMMA OthersKeepStream ==
  ASSUME StreamInv, FrameInv, OutputInv, [Next]_vars, ~RingSteps
  PROVE  StreamInv'
<1>1. /\ RingInv' /\ FrameSlots' = FrameSlots
      /\ UNCHANGED <<ts_out_pos, ts_count>>
      /\ RoomLeft' = RoomLeft /\ HeadFlushed' = HeadFlushed
  BY RingUntouched, RingStays DEF StreamInv
<1>2. RoomInv'
  BY <1>1, RingUntouched DEF StreamInv, RoomInv
<1>3. CASE LoopCount
  <2>1. lpc' = "events" => HasFrame' = HasFrame
    BY <1>3, FrameStays DEF LoopCount
  <2>2. lpc' = "leave" \/ (lpc' = "events" /\ (HasFrame => ts_count # 0))
    BY <1>3 DEF LoopCount
  <2>3. ts_count \in Nat
    BY DEF StreamInv, RingInv, TsTypeOK
  <2>4. LoopInv'
    BY <1>1, <2>1, <2>2, <2>3 DEF LoopInv
  <2>5. QED
    BY <1>1, <1>2, <2>4 DEF StreamInv
<1>4. CASE LoopSort
  <2>1. \/ lpc' \in {"idle", "leave"}
        \/ HasFrame /\ lpc' = "drop" /\ HeadFlushed
        \/ HasFrame /\ lpc' = "wrap" /\ ~HeadFlushed
    BY <1>4 DEF LoopSort
  <2>2. lpc = "sort"
    BY <1>4 DEF LoopSort
  <2>3. LoopInv'
    BY <1>1, <2>1, <2>2 DEF LoopInv, StreamInv
  <2>4. QED
    BY <1>1, <1>2, <2>3 DEF StreamInv
<1>5. CASE LoopWrap
  <2>1. lpc = "wrap" /\ lpc' \in {"pause", "take"}
    BY <1>5 DEF LoopWrap
  <2>2. LoopInv'
    BY <1>1, <2>1 DEF LoopInv, StreamInv
  <2>3. QED
    BY <1>1, <1>2, <2>2 DEF StreamInv
<1>6. CASE ~LoopSteps
  <2>1. lpc' \in LoopPlaces => lpc' = lpc
    BY <1>6, LoopUntouched
  <2>2. lpc' \in {"events", "sort"} => HasFrame' = HasFrame
    BY <2>1, FrameStays DEF LoopPlaces
  <2>3. LoopInv'
    BY <1>1, <2>1, <2>2 DEF LoopInv, LoopPlaces, StreamInv
  <2>4. QED
    BY <1>1, <1>2, <2>3 DEF StreamInv
<1>7. QED
  BY <1>3, <1>4, <1>5, <1>6 DEF LoopSteps

LEMMA StreamInvariant == Spec => []StreamInv
<1>1. /\ StreamInv /\ FrameInv /\ OutputInv /\ FlowInv
      /\ [Next]_vars
      => StreamInv'
  BY StoringKeepsStream, EventsKeepStream, HeadKeepsStream, FlushKeepsStream,
     OthersKeepStream DEF RingSteps, FlowInv
<1>2. QED
  BY StreamStart, <1>1, FrameInvariant, OutputInvariant, FlowInvariant, PTL
     DEF Spec

----------------------------------------------------------------------------
(* The refinement of TsStream.                                             *)

(* The operations on the ring are those of TsStream. *)
LEMMA SameRing ==
  /\ RoomLeft <=> TsS!RoomLeft
  /\ \A t : StoreFrame(t) <=> TsS!StoreFrame(t)
  /\ \A e : StoreEvent(e) <=> TsS!StoreEvent(e)
  /\ ClearEvents <=> TsS!ClearEvents
  /\ EventsPushed = TsS!EventsPushed
  /\ DropFrame <=> TsS!DropFrame
  /\ TakeFrame <=> TsS!TakeFrame
  /\ FrameTime = TsS!FrameTime
  /\ FlushRing <=> TsS!FlushRing
  /\ HeadFlushed <=> TsS!HeadFlushed
  /\ TsInit <=> TsS!TsInit
  /\ UNCHANGED tsVars <=> UNCHANGED TsS!tsVars
<1>1. \A a, b : Dist(a, b) = TsS!Dist(a, b)
  BY DEF Dist, TsS!Dist
<1>2. \A n : Ahead(n) = TsS!Ahead(n)
  BY DEF Ahead, TsS!Ahead
<1>3. \A i : HoldsEvent(i) = TsS!HoldsEvent(i)
  BY DEF HoldsEvent, TsS!HoldsEvent
<1>4. LeadingEvents = TsS!LeadingEvents
  BY DEF LeadingEvents, TsS!LeadingEvents, Ahead, TsS!Ahead, HoldsEvent,
         TsS!HoldsEvent
<1>5. Outstanding = TsS!Outstanding /\ Flushed = TsS!Flushed
  BY <1>1 DEF Outstanding, TsS!Outstanding, Flushed, TsS!Flushed
<1>6. EventsPushed = TsS!EventsPushed
  BY <1>2, <1>4, <1>5 DEF EventsPushed, TsS!EventsPushed
<1>7. ClearEvents <=> TsS!ClearEvents
  BY <1>1, <1>2, <1>4, <1>5
     DEF ClearEvents, TsS!ClearEvents, Slots, TsS!Slots
<1>8. QED
  BY <1>5, <1>6, <1>7
     DEF RoomLeft, TsS!RoomLeft, StoreFrame, TsS!StoreFrame, StoreEvent,
         TsS!StoreEvent, DropFrame, TsS!DropFrame, TakeFrame, TsS!TakeFrame,
         FrameTime, TsS!FrameTime, FlushRing, TsS!FlushRing, HeadFlushed,
         TsS!HeadFlushed, TsInit, TsS!TsInit, tsVars, TsS!tsVars, Slots, TsS!Slots

LEMMA ReaderStays ==
  ASSUME OutputInv, FrameInv, [Next]_vars, ~RingSteps, ~LoopSteps
  PROVE  Reader' = Reader
<1>1. CASE lpc' \in LoopPlaces \/ lpc \in LoopPlaces
  <2>1. lpc' = lpc
    BY <1>1, LoopUntouched
  <2>2. lpc' \in {"events", "sort"} => HasFrame' = HasFrame
    BY <2>1, FrameStays
  <2>3. QED
    BY <2>1, <2>2 DEF Reader
<1>2. CASE lpc' \notin LoopPlaces /\ lpc \notin LoopPlaces
  BY <1>2 DEF Reader, LoopPlaces
<1>3. QED
  BY <1>1, <1>2

(* A step of the streaming thread, of the seek or of output_loop is one of *)
(* TsStream, or none that TsStream sees.                                   *)
LEMMA StreamSteps ==
  ASSUME StreamInv, FrameInv, OutputInv, SeekInv, [Next]_vars
  PROVE  TsS!Next \/ UNCHANGED <<tsVars, Reader, sent>>
<1>1. CASE ChainStore
  <2>1. nsent \in Times /\ RoomLeft
    BY <1>1, FrameIsTimed DEF ChainStore, FrameInv, Chaining, Storing, StreamInv,
                              RoomInv
  <2>2. UNCHANGED <<lpc, lbuf, frameOf, sent>>
    BY <1>1 DEF ChainStore, lvars, dsp
  <2>3. Reader' = Reader
    BY <2>2 DEF Reader, HasFrame
  <2>4. TsS!Chain(nsent)
    BY <1>1, <2>1, <2>2, <2>3, SameRing DEF ChainStore, TsS!Chain
  <2>5. QED
    BY <2>1, <2>4 DEF TsS!Next
<1>2. CASE NewSegment
  <2>1. nseg + 1 \in Events
    BY <1>2, SegmentIsEvent
  <2>2. UNCHANGED <<lpc, lbuf, frameOf, sent>>
    BY <1>2 DEF NewSegment, lvars, dsp
  <2>3. Reader' = Reader
    BY <2>2 DEF Reader, HasFrame
  <2>4. TsS!NewSegment(nseg + 1)
    BY <1>2, <2>2, <2>3, SameRing DEF NewSegment, TsS!NewSegment
  <2>5. QED
    BY <2>1, <2>4 DEF TsS!Next
<1>3. CASE LoopCount
  <2>1. lpc = "count" /\ UNCHANGED <<tsVars, sent>>
    BY <1>3 DEF LoopCount
  <2>2. CASE HasFrame /\ ts_count = 0
    <3>1. lpc' = "leave"
      BY <1>3, <2>2 DEF LoopCount
    <3>2. QED
      BY <2>1, <3>1 DEF Reader
  <2>3. CASE ~(HasFrame /\ ts_count = 0)
    <3>1. lpc' = "events"
      BY <1>3, <2>3 DEF LoopCount
    <3>2. HasFrame' = HasFrame
      BY <2>1, <3>1, FrameStays
    <3>3. Reader = "idle" /\ Reader' = IF HasFrame THEN "frame" ELSE "empty"
      BY <2>1, <3>1, <3>2 DEF Reader
    <3>4. TsS!BeginFrame \/ TsS!BeginEmpty
      BY <2>1, <2>3, <3>3, SameRing DEF TsS!BeginFrame, TsS!BeginEmpty
    <3>5. QED
      BY <3>4 DEF TsS!Next
  <2>4. QED
    BY <2>2, <2>3
<1>4. CASE LoopEvents
  <2>1. lpc = "events" /\ lpc' = "sort"
    BY <1>4 DEF LoopEvents
  <2>2. HasFrame' = HasFrame
    BY <2>1, FrameStays
  <2>3. /\ Reader = (IF HasFrame THEN "frame" ELSE "empty")
        /\ Reader' = (IF HasFrame THEN "cleared" ELSE "idle")
    BY <2>1, <2>2 DEF Reader
  <2>4. TsS!ClearEvents /\ EventsPushed = TsS!EventsPushed
    BY <1>4, SameRing DEF LoopEvents
  <2>5. sent' = [k \in DOMAIN TsS!EventsPushed |->
                   [kind |-> "event", of |-> TsS!EventsPushed[k]]]
    BY <1>4, <2>4 DEF LoopEvents
  <2>6. TsS!PushEvents
    BY <2>3, <2>4, <2>5 DEF TsS!PushEvents
  <2>7. QED
    BY <2>6 DEF TsS!Next
<1>5. CASE LoopSort
  <2>1. lpc = "sort" /\ UNCHANGED <<tsVars, sent>>
    BY <1>5 DEF LoopSort
  <2>2. Reader = IF HasFrame THEN "cleared" ELSE "idle"
    BY <2>1 DEF Reader
  <2>3. CASE lpc' \in {"idle", "leave"}
    <3>1. Reader' = "idle"
      BY <2>3 DEF Reader
    <3>2. TsS!Abandon \/ UNCHANGED <<tsVars, Reader, sent>>
      BY <2>1, <2>2, <3>1, SameRing DEF TsS!Abandon
    <3>3. QED
      BY <3>2 DEF TsS!Next
  <2>4. CASE HasFrame /\ lpc' = IF HeadFlushed THEN "drop" ELSE "wrap"
    <3>1. Reader' = IF HeadFlushed THEN "flushed" ELSE "live"
      BY <2>4 DEF Reader
    <3>2. TsS!CheckFlushed
      BY <2>1, <2>2, <2>4, <3>1, SameRing DEF TsS!CheckFlushed
    <3>3. QED
      BY <3>2 DEF TsS!Next
  <2>5. QED
    BY <1>5, <2>3, <2>4 DEF LoopSort
<1>6. CASE LoopDrop
  <2>1. lpc = "drop" /\ lpc' = "leave" /\ sent' = sent /\ DropFrame
    BY <1>6 DEF LoopDrop
  <2>2. Reader = "flushed" /\ Reader' = "idle"
    BY <2>1 DEF Reader
  <2>3. TsS!DropFlushed
    BY <2>1, <2>2, SameRing DEF TsS!DropFlushed
  <2>4. QED
    BY <2>3 DEF TsS!Next
<1>7. CASE LoopWrap
  <2>1. /\ lpc = "wrap" /\ lpc' \in {"pause", "take"}
        /\ UNCHANGED <<tsVars, sent>>
    BY <1>7 DEF LoopWrap
  <2>2. Reader = "live" /\ Reader' \in {"idle", "live"}
    BY <2>1 DEF Reader
  <2>3. TsS!Abandon \/ UNCHANGED <<tsVars, Reader, sent>>
    BY <2>1, <2>2, SameRing DEF TsS!Abandon
  <2>4. QED
    BY <2>3 DEF TsS!Next
<1>8. CASE LoopTake
  <2>1. /\ lpc = "take" /\ lpc' = "push" /\ TakeFrame
        /\ sent' = <<[kind |-> "frame", of |-> FrameTime]>>
    BY <1>8 DEF LoopTake
  <2>2. Reader = "live" /\ Reader' = "idle"
    BY <2>1 DEF Reader
  <2>3. TsS!PushFrame
    BY <2>1, <2>2, SameRing DEF TsS!PushFrame
  <2>4. QED
    BY <2>3 DEF TsS!Next
<1>9. CASE FlushStopRing
  <2>1. lpc = "idle" /\ lpc' = "idle" /\ sent' = sent /\ FlushRing
    BY <1>9 DEF FlushStopRing, SeekInv, Restarting, Stopped, lvars
  <2>2. Reader = "idle" /\ Reader' = "idle"
    BY <2>1 DEF Reader
  <2>3. TsS!Flush
    BY <2>1, <2>2, SameRing DEF TsS!Flush
  <2>4. QED
    BY <2>3 DEF TsS!Next
<1>10. CASE ~RingSteps /\ ~LoopSteps
  BY <1>10, RingUntouched, ReaderStays
<1>11. QED
  BY <1>1, <1>2, <1>3, <1>4, <1>5, <1>6, <1>7, <1>8, <1>9, <1>10
     DEF RingSteps, LoopSteps

(* The threads of the streaming core use the ring as TsStream says, so     *)
(* that what is proved of it holds of them: the ring is a FIFO of frames   *)
(* and events with flush marks, and output_loop takes a timestamp only     *)
(* when there is one.                                                      *)
THEOREM CoreImplementsTsStream == Spec => ImplementsTsStream
<1>1. Init => TsS!Init
  <2> SUFFICES ASSUME Init  PROVE TsS!Init
    OBVIOUS
  <2>1. Reader = "idle"
    BY DEF Init, Reader
  <2>2. QED
    BY <2>1, SameRing DEF Init, TsS!Init
<1>2. /\ StreamInv /\ FrameInv /\ OutputInv /\ FlowInv
      /\ [Next]_vars
      => [TsS!Next]_(TsS!vars)
  BY StreamSteps DEF TsS!vars, tsVars, FlowInv
<1>3. QED
  BY <1>1, <1>2, StreamInvariant, FrameInvariant, OutputInvariant, FlowInvariant,
     PTL DEF Spec, TsS!Spec, ImplementsTsStream

----------------------------------------------------------------------------
(* Nothing stale is pushed.                                                *)

(* A frame in the ring that is not flushed was sent after the last         *)
(* FLUSH_STOP, and so was the one that pad_chain has still to store.       *)
FreshInv ==
  /\ flushMark \in 0 .. nsent
  /\ upc \in Storing => nsent > flushMark
  /\ \A i \in FrameSlots :
       Flushed <= Dist(ts_out_pos, i) => ts_array[i].time > flushMark
  /\ NothingStale

LEMMA FreshStart == Init => FreshInv
<1> SUFFICES ASSUME Init  PROVE FreshInv
  OBVIOUS
<1>1. FrameSlots = {}
  <2>1. Outstanding = 0 /\ ts_out_pos \in Slots
    BY InitHolds DEF Init, RingInv, TsTypeOK
  <2>2. QED
    BY <2>1, DistType DEF FrameSlots
<1>2. QED
  BY <1>1 DEF Init, FreshInv, NothingStale, Storing

(* A new frame is the last one; an event is none. *)
LEMMA StoringKeepsFresh ==
  ASSUME StreamInv, FrameInv, FreshInv, ChainStore \/ NewSegment
  PROVE  FreshInv'
<1> USE DEF FreshInv, NothingStale, Storing
<1>0. /\ ts_in_pos \in Slots /\ ts_in_pos \notin FrameSlots
      /\ ts_array \in [Slots -> TsItem]
      /\ FrameSlots \subseteq Slots
  BY WindowType DEF StreamInv, RingInv, TsTypeOK, FrameSlots, Outstanding
<1>1. CASE ChainStore
  <2>1. nsent \in Times /\ RoomLeft /\ StoreFrame(nsent)
    BY <1>1, FrameIsTimed
       DEF ChainStore, FrameInv, Chaining, StreamInv, RoomInv
  <2>2. /\ FrameSlots' = FrameSlots \cup {ts_in_pos}
        /\ Flushed' = Flushed /\ ts_out_pos' = ts_out_pos
    BY <2>1, StoreFrameKeeps DEF StoreFrame, StreamInv
  <2>3. /\ ts_array'[ts_in_pos].time = nsent
        /\ \A i \in FrameSlots : ts_array'[i] = ts_array[i]
    BY <1>0, <2>1 DEF StoreFrame, TsItem
  <2>4. upc = "store" /\ upc' = "send" /\ UNCHANGED <<nsent, flushMark, lpc, lts>>
    BY <1>1 DEF ChainStore, counts, lvars
  <2>5. QED
    BY <2>2, <2>3, <2>4
<1>2. CASE NewSegment
  <2>1. nseg + 1 \in Events
    BY <1>2, SegmentIsEvent
  <2>2. /\ FrameSlots' = FrameSlots
        /\ Flushed' = Flushed /\ ts_out_pos' = ts_out_pos
    BY <1>2, <2>1, StoreEventKeeps DEF NewSegment, StoreEvent, StreamInv
  <2>3. \A i \in FrameSlots : ts_array'[i] = ts_array[i]
    BY <1>0, <1>2 DEF NewSegment, StoreEvent
  <2>4. upc' = "idle" /\ UNCHANGED <<nsent, flushMark, lpc, lts>>
    BY <1>2 DEF NewSegment, SinkPadOpen, uvars, lvars
  <2>5. QED
    BY <2>2, <2>3, <2>4
<1>3. QED
  BY <1>1, <1>2

(* The head moves on: what is not flushed then was not flushed before.     *)
LEMMA HeadKeepsFresh ==
  ASSUME StreamInv, FreshInv, LoopEvents \/ LoopDrop \/ LoopTake
  PROVE  FreshInv'
<1> USE DEF FreshInv, NothingStale
<1>0. /\ RingInv
      /\ Flushed \in 0 .. Size - 1
      /\ HeadFlushed <=> 0 < Flushed
      /\ Dist(ts_out_pos, ts_out_pos) = 0
      /\ \A i \in FrameSlots : Dist(ts_out_pos, i) \in 0 .. Size - 1
      /\ Size \in Nat \ {0, 1}
  BY HeadIsNearest, RingAssumption DEF StreamInv
<1>1. CASE LoopEvents
  <2>1. PICK n \in 0 .. Size - 1 :
          /\ Flushed' = IF Flushed < n THEN 0 ELSE Flushed - n
          /\ \A i \in FrameSlots :
               /\ n <= Dist(ts_out_pos, i)
               /\ Dist(ts_out_pos', i) = Dist(ts_out_pos, i) - n
               /\ ts_array'[i] = ts_array[i]
    BY <1>0, <1>1, EventsMove DEF LoopEvents
  <2>2. FrameSlots' = FrameSlots
    BY <1>0, <1>1, EventsMove DEF LoopEvents
  <2>3. ASSUME NEW i \in FrameSlots, Flushed' <= Dist(ts_out_pos', i)
        PROVE  ts_array'[i].time > flushMark
    BY <1>0, <2>1, <2>3
  <2>4. lpc' = "sort" /\ UNCHANGED <<upc, nsent, flushMark>>
    BY <1>1 DEF LoopEvents, uvars, counts
  <2>5. QED
    BY <2>2, <2>3, <2>4
<1>2. CASE LoopDrop \/ LoopTake
  <2>1. /\ FrameSlots' = FrameSlots \ {ts_out_pos}
        /\ Flushed' = IF HeadFlushed THEN Flushed - 1 ELSE 0
        /\ ts_out_pos \in FrameSlots
        /\ ts_out_pos' = (ts_out_pos + 1) % Size
        /\ ts_array' = ts_array
    BY <1>0, <1>2, HeadLeaves
       DEF LoopDrop, LoopTake, DropFrame, TakeFrame, LoopInv, StreamInv
  <2>2. ASSUME NEW i \in FrameSlots', Flushed' <= Dist(ts_out_pos', i)
        PROVE  ts_array'[i].time > flushMark
    <3>1. Dist(ts_out_pos', i) = Dist(ts_out_pos, i) - 1
      BY <1>0, <2>1, HeadMoves
    <3>2. Flushed <= Dist(ts_out_pos, i)
      BY <1>0, <2>1, <2>2, <3>1
    <3>3. QED
      BY <2>1, <3>2
  <2>3. CASE LoopDrop
    <3>1. lpc' = "leave" /\ UNCHANGED <<upc, nsent, flushMark>>
      BY <2>3 DEF LoopDrop, uvars, counts
    <3>2. QED
      BY <2>2, <3>1
  <2>4. CASE LoopTake
    <3>1. ~HeadFlushed /\ lts' = FrameTime /\ UNCHANGED <<upc, nsent, flushMark>>
      BY <2>4 DEF LoopTake, LoopInv, StreamInv, uvars, counts
    <3>2. Flushed <= Dist(ts_out_pos, ts_out_pos)
      BY <1>0, <3>1
    <3>3. lts' > flushMark
      BY <2>1, <3>1, <3>2 DEF FrameTime
    <3>4. QED
      BY <2>2, <3>1, <3>3
  <2>5. QED
    BY <1>2, <2>3, <2>4
<1>3. QED
  BY <1>1, <1>2

(* FLUSH_STOP flushes all frames, and meets none on its way. *)
LEMMA FlushKeepsFresh ==
  ASSUME StreamInv, FrameInv, SeekInv, FreshInv, FlushStopRing
  PROVE  FreshInv'
<1>1. /\ Flushed' = Outstanding /\ Outstanding' = Outstanding
      /\ ts_out_pos' = ts_out_pos
  BY FlushRingKeeps DEF StreamInv, FlushStopRing, FlushRing
<1>2. \A i \in FrameSlots' : Dist(ts_out_pos', i) < Flushed'
  BY <1>1 DEF FrameSlots
<1>3. \A i \in FrameSlots' :
        Dist(ts_out_pos', i) \in Int /\ Flushed' \in Int
  <2>1. (TsTypeOK)'
    BY FlushRingKeeps DEF StreamInv, FlushStopRing, RingInv
  <2>2. Slots \subseteq Int /\ ts_out_pos' \in Slots /\ FrameSlots' \subseteq Slots
    BY <2>1, RingAssumption DEF Slots, TsTypeOK, FrameSlots
  <2>3. QED
    BY <2>1, <2>2, <1>1, WindowType, DistType DEF StreamInv, RingInv
<1>4. /\ lpc' = "idle" /\ upc' = "idle" /\ nsent' = nsent /\ flushMark' = nsent
  BY DEF FlushStopRing, SeekInv, Restarting, Stopped, lvars, uvars
<1>5. nsent \in Nat
  <2>1. conf.maxFrames \in Nat
    BY BaseAssumption DEF FrameInv, Conf
  <2>2. QED
    BY <2>1 DEF FrameInv
<1>6. \A i \in FrameSlots' : ~(Flushed' <= Dist(ts_out_pos', i))
  BY <1>2, <1>3
<1>7. QED
  BY <1>4, <1>5, <1>6 DEF FreshInv, NothingStale, Storing

LEMMA OthersKeepFresh ==
  ASSUME StreamInv, FrameInv, OutputInv, FreshInv, [Next]_vars, ~RingSteps
  PROVE  FreshInv'
<1>1. /\ FrameSlots' = FrameSlots /\ Flushed' = Flushed
      /\ UNCHANGED <<ts_array, ts_out_pos, flushMark, lts>>
      /\ lpc' = "push" => lpc = "push"
      /\ \/ nsent' = nsent /\ (upc' \in Storing => upc \in Storing)
         \/ nsent' = nsent + 1
  BY RingUntouched, RingStays DEF StreamInv
<1>2. nsent \in Nat
  <2>1. conf.maxFrames \in Nat
    BY BaseAssumption DEF FrameInv, Conf
  <2>2. QED
    BY <2>1 DEF FrameInv
<1>3. QED
  BY <1>1, <1>2 DEF FreshInv, NothingStale

LEMMA FreshInvariant == Spec => []FreshInv
<1>1. /\ StreamInv /\ FrameInv /\ OutputInv /\ FlowInv /\ FreshInv
      /\ [Next]_vars
      => FreshInv'
  BY StoringKeepsFresh, HeadKeepsFresh, FlushKeepsFresh, OthersKeepFresh
     DEF RingSteps, FlowInv
<1>2. QED
  BY FreshStart, <1>1, StreamInvariant, FrameInvariant, OutputInvariant,
     FlowInvariant, PTL DEF Spec

(* output_loop pushes no frame that upstream sent before the last          *)
(* FLUSH_STOP, wherever the seek meets pad_chain and output_loop.          *)
THEOREM NothingStalePushed == Spec => []NothingStale
<1>1. FreshInv => NothingStale
  BY DEF FreshInv
<1>2. QED
  BY <1>1, FreshInvariant, PTL

----------------------------------------------------------------------------
(* The types of the variables that no invariant above speaks of.           *)

PlaceInv ==
  /\ status \in FlowReturns /\ lret \in FlowReturns
  /\ task \in {"started", "paused"}
  /\ upc \in {"idle", "asleep", "woken", "status", "store", "send",
              "eosmark", "eospush"}
  /\ apc \in {"idle", "fs_status", "fs_disable0", "fs_disable1", "fs_pause",
              "fs_wait", "flushing", "st_ring", "st_status", "st_enable0",
              "st_enable1", "st_task"}
  /\ lpc \in {"idle", "asleep", "woken", "null", "got", "pushback", "count",
              "events", "sort", "drop", "wrap", "take", "push", "leave",
              "eos", "eospush", "pause", "pausetask", "pauseeos"}
  /\ lthen \in {"nok", "pushback", "end"}
  /\ dpc \in {"wait", "timeout", "fault", "fault1", "algo", "algo1", "exited"}

FlagInv ==
  /\ en0 \in BOOLEAN /\ en1 \in BOOLEAN
  /\ deferred_eos \in BOOLEAN /\ eos_start \in BOOLEAN
  /\ leos \in BOOLEAN /\ downFlushing \in BOOLEAN /\ eosIn \in BOOLEAN

CountInv ==
  /\ eosSent \in Nat
  /\ nflush \in 0 .. conf.maxFlushes /\ nempty \in 0 .. conf.maxEmpties
  /\ lts \in Times \cup {NoTime, 0}
  /\ noData \subseteq OutBufs

LEMMA TypesStart == Init => PlaceInv /\ FlagInv /\ CountInv
<1> SUFFICES ASSUME Init  PROVE PlaceInv /\ FlagInv /\ CountInv
  OBVIOUS
<1>1. conf.maxFlushes \in Nat /\ conf.maxEmpties \in Nat
  BY BaseAssumption DEF Init, Conf
<1>2. PlaceInv
  BY DEF Init, PlaceInv, FlowReturns
<1>3. FlagInv
  BY DEF Init, FlagInv
<1>4. CountInv
  BY <1>1 DEF Init, CountInv
<1>5. QED
  BY <1>2, <1>3, <1>4

LEMMA PlaceStep == PlaceInv /\ [Next]_vars => PlaceInv'
<1> SUFFICES ASSUME PlaceInv, [Next]_vars  PROVE PlaceInv'
  OBVIOUS
<1> USE DEF PlaceInv, FlowReturns, flags, uvars, lvars, WakeUpstream, WakeLoop
<1>1. CASE UpstreamStarts
  BY <1>1 DEF UpstreamStarts, ChainPop, EosDecide, NewSegment, DeferEos
<1>2. CASE Upstream
  BY <1>2 DEF Upstream, ChainResumed, ChainStatus, ChainStore, ChainSend,
              EosMark, EosPush, PushEos
<1>3. CASE FlushStart \/ Seek
  BY <1>3 DEF FlushStart, Seek, FlushStartStatus, FlushStartDisable0,
              FlushStartDisable1, FlushStartPause, FlushStartDone, FlushStop,
              FlushStopRing, FlushStopStatus, FlushStopEnable0,
              FlushStopEnable1, FlushStopTask, DisableInput, DisableOutput
<1>4. CASE LoopPop \/ LoopResumed \/ LoopStatus \/ LoopPushBack
  BY <1>4 DEF LoopPop, LoopResumed, LoopStatus, LoopPushBack
<1>5. CASE LoopCount \/ LoopEvents \/ LoopSort \/ LoopDrop \/ LoopWrap
  BY <1>5 DEF LoopCount, LoopEvents, LoopSort, LoopDrop, LoopWrap
<1>6. CASE LoopTake
  BY <1>6 DEF LoopTake
<1>7. CASE LoopPush \/ LoopLeave \/ LoopEos \/ LoopEosPush
  BY <1>7 DEF LoopPush, PushResult, LoopLeave, LoopEos, LoopEosPush, PushEos
<1>8. CASE Pause \/ PauseTask \/ PauseEos
  BY <1>8 DEF Pause, PauseTask, PauseEos, PauseReturn, PushEos, DisableInput
<1>9. ASSUME NEW b \in InBufs, GotInput(b)  PROVE PlaceInv'
  BY <1>9 DEF GotInput
<1>10. ASSUME NEW b \in OutBufs, GotFrame(b) \/ GotEmpty(b) \/ Release(b)
       PROVE  PlaceInv'
  BY <1>10 DEF GotFrame, GotEmpty, GotOutput, Release
<1>11. CASE Timeout \/ GotError \/ DspThread \/ UNCHANGED vars
  BY <1>11 DEF Timeout, GotError, DspThread, TimeoutDisable, ErrorDisable0,
               ErrorDisable1, DisableInput, DisableOutput, vars
<1>12. QED
  BY <1>1, <1>2, <1>3, <1>4, <1>5, <1>6, <1>7, <1>8, <1>9, <1>10, <1>11
     DEF Next, OutputLoop

LEMMA FlagStep == FlagInv /\ [Next]_vars => FlagInv'
<1> SUFFICES ASSUME FlagInv, [Next]_vars  PROVE FlagInv'
  OBVIOUS
<1> USE DEF FlagInv, queues, flags, lvars, down, counts
<1>1. CASE ChainPop \/ NewSegment
  BY <1>1 DEF ChainPop, NewSegment
<1>2. CASE EosDecide
  BY <1>2 DEF EosDecide, DeferEos
<1>3. CASE ChainResumed \/ ChainStatus \/ ChainStore \/ ChainSend
  BY <1>3 DEF ChainResumed, ChainStatus, ChainStore, ChainSend
<1>4. CASE EosMark \/ EosPush
  BY <1>4 DEF EosMark, EosPush, PushEos
<1>5. CASE FlushStart \/ FlushStartStatus \/ FlushStartPause \/ FlushStartDone
  BY <1>5 DEF FlushStart, FlushStartStatus, FlushStartPause, FlushStartDone
<1>6. CASE FlushStartDisable0 \/ FlushStartDisable1
  BY <1>6 DEF FlushStartDisable0, FlushStartDisable1, DisableInput, DisableOutput
<1>7. CASE FlushStop \/ FlushStopRing \/ FlushStopStatus
  BY <1>7 DEF FlushStop, FlushStopRing, FlushStopStatus
<1>8. CASE FlushStopEnable0 \/ FlushStopEnable1 \/ FlushStopTask
  BY <1>8 DEF FlushStopEnable0, FlushStopEnable1, FlushStopTask
<1>9. CASE LoopPop \/ LoopResumed \/ LoopStatus \/ LoopPushBack
  BY <1>9 DEF LoopPop, LoopResumed, LoopStatus, LoopPushBack
<1>10. CASE LoopCount \/ LoopEvents \/ LoopSort \/ LoopDrop \/ LoopWrap
  BY <1>10 DEF LoopCount, LoopEvents, LoopSort, LoopDrop, LoopWrap
<1>11. CASE LoopTake
  BY <1>11 DEF LoopTake
<1>12. CASE LoopPush \/ LoopLeave
  BY <1>12 DEF LoopPush, LoopLeave
<1>13. CASE LoopEos \/ LoopEosPush
  BY <1>13 DEF LoopEos, LoopEosPush
<1>14. CASE Pause \/ PauseTask \/ PauseEos
  BY <1>14 DEF Pause, PauseTask, PauseEos, DisableInput
<1>15. ASSUME NEW b \in InBufs, GotInput(b)  PROVE FlagInv'
  BY <1>15 DEF GotInput
<1>16. ASSUME NEW b \in OutBufs, GotFrame(b) \/ GotEmpty(b) \/ Release(b)
       PROVE  FlagInv'
  BY <1>16 DEF GotFrame, GotEmpty, GotOutput, Release
<1>17. CASE Timeout \/ GotError \/ UNCHANGED vars
  BY <1>17 DEF Timeout, GotError, vars
<1>18. CASE DspThread
  BY <1>18 DEF DspThread, TimeoutDisable, ErrorDisable0, ErrorDisable1,
               DisableInput, DisableOutput
<1>19. QED
  BY <1>1, <1>2, <1>3, <1>4, <1>5, <1>6, <1>7, <1>8, <1>9, <1>10, <1>11, <1>12,
     <1>13, <1>14, <1>15, <1>16, <1>17, <1>18
     DEF Next, UpstreamStarts, Upstream, Seek, OutputLoop

LEMMA CountStep ==
  StreamInv /\ FrameInv /\ OutputInv /\ CountInv /\ [Next]_vars => CountInv'
<1> SUFFICES ASSUME StreamInv, FrameInv, OutputInv, CountInv, [Next]_vars
             PROVE  CountInv'
  OBVIOUS
<1> USE DEF CountInv, lvars, dsp, down, counts, SendOutput
<1>0. conf.maxFlushes \in Nat /\ conf.maxEmpties \in Nat
  BY BaseAssumption DEF FrameInv, Conf
<1>1. CASE UpstreamStarts
  BY <1>1 DEF UpstreamStarts, ChainPop, EosDecide, NewSegment, DeferEos
<1>2. CASE Upstream
  BY <1>2 DEF Upstream, ChainResumed, ChainStatus, ChainStore, ChainSend,
              EosMark, EosPush, PushEos
<1>3. CASE FlushStart \/ Seek
  BY <1>0, <1>3 DEF FlushStart, Seek, FlushStartStatus, FlushStartDisable0,
              FlushStartDisable1, FlushStartPause, FlushStartDone, FlushStop,
              FlushStopRing, FlushStopStatus, FlushStopEnable0,
              FlushStopEnable1, FlushStopTask, DisableInput, DisableOutput
<1>4. CASE LoopPop \/ LoopResumed \/ LoopStatus \/ LoopPushBack
  BY <1>4 DEF LoopPop, LoopResumed, LoopStatus, LoopPushBack
<1>5. CASE LoopCount \/ LoopEvents \/ LoopSort \/ LoopDrop \/ LoopWrap
  BY <1>5 DEF OutputInv, WithBuffer, LoopCount, LoopEvents, LoopSort, LoopDrop, LoopWrap
<1>6. CASE LoopTake
  BY <1>6 DEF LoopTake, LoopInv, StreamInv, RingInv, FramesTimed, FrameTime
<1>7. CASE LoopPush \/ LoopLeave \/ LoopEos \/ LoopEosPush
  BY <1>7 DEF LoopPush, PushResult, LoopLeave, LoopEos, LoopEosPush, PushEos
<1>8. CASE Pause \/ PauseTask \/ PauseEos
  BY <1>8 DEF Pause, PauseTask, PauseEos, PauseReturn, PushEos, DisableInput
<1>9. ASSUME NEW b \in InBufs, GotInput(b)  PROVE CountInv'
  BY <1>9 DEF GotInput
<1>10. ASSUME NEW b \in OutBufs, GotFrame(b) \/ GotEmpty(b) \/ Release(b)
       PROVE  CountInv'
  BY <1>0, <1>10 DEF GotFrame, GotEmpty, GotOutput, Release
<1>11. CASE Timeout \/ GotError \/ DspThread \/ UNCHANGED vars
  BY <1>11 DEF Timeout, GotError, DspThread, TimeoutDisable, ErrorDisable0,
               ErrorDisable1, DisableInput, DisableOutput, vars
<1>12. QED
  BY <1>1, <1>2, <1>3, <1>4, <1>5, <1>6, <1>7, <1>8, <1>9, <1>10, <1>11
     DEF Next, OutputLoop

(* Every variable keeps its type: a buffer is in the queue of its own      *)
(* port, a thread at one of its places, the timestamp of a buffer is one   *)
(* that pad_chain stored.                                                  *)
THEOREM CoreTypeCorrect == Spec => []TypeOK
<1>1. /\ PlaceInv /\ FlagInv /\ CountInv
      /\ InputInv /\ OutputInv /\ FrameInv /\ StreamInv /\ FreshInv
      => TypeOK
  <2> SUFFICES ASSUME PlaceInv, FlagInv, CountInv, InputInv, OutputInv, FrameInv,
                      StreamInv, FreshInv
               PROVE  TypeOK
    OBVIOUS
  <2>1. flushMark \in 0 .. conf.maxFrames
    <3>1. conf.maxFrames \in Nat
      BY BaseAssumption DEF FrameInv, Conf
    <3>2. QED
      BY <3>1 DEF FrameInv, FreshInv
  <2>2. TsTypeOK
    BY DEF StreamInv, RingInv
  <2> HIDE DEF FreshInv, StreamInv
  <2>3. QED
    BY <2>1, <2>2
       DEF TypeOK, PlaceInv, FlagInv, CountInv, InputInv, OutputInv, FrameInv
<1>2. Spec => [](PlaceInv /\ FlagInv /\ CountInv)
  BY TypesStart, PlaceStep, FlagStep, CountStep, StreamInvariant,
     FrameInvariant, OutputInvariant, PTL DEF Spec
<1>3. QED
  BY <1>1, <1>2, InputInvariant, OutputInvariant, FrameInvariant,
     StreamInvariant, FreshInvariant, PTL

----------------------------------------------------------------------------
(* Which timestamp goes with which buffer.  The ring and the buffers are   *)
(* only loosely coupled: a timestamp is stored when a frame is sent to the *)
(* DSP and taken when some output buffer with data comes back.             *)

(* output_loop's buffer has a frame that has not been counted out of the   *)
(* ring.  A buffer without data (heap) carries none, whatever it says, but *)
(* for the one that has just given its data away.                          *)
Pausing == {"pause", "pausetask", "pauseeos"}
Checked == {"count", "events", "sort", "drop", "wrap", "take"}

LoopCarries ==
  /\ lbuf # None
  /\ \/ lpc = "take"
     \/ lpc \in Checked \cup Pausing \cup {"got", "pushback"} /\ lbuf \notin noData

Carriers ==
  {b \in OutBufs :
     /\ frameOf[b] # NoTime
     /\ \/ b \in InSeq(q1) /\ b \notin noData
        \/ b = lbuf /\ LoopCarries}

DataInv ==
  /\ noData \subseteq OutBufs /\ noData \cap dspOut = {}
  /\ lpc \in {"drop", "wrap"} => lbuf \notin noData
  /\ lpc \in {"drop", "wrap", "take"} => HasFrame

dataVars == <<noData, dspOut, frameOf, lpc, lbuf, q1, lthen>>

(* The steps that leave the buffers, and what is in them, alone. *)
LEMMA BuffersUntouched ==
  ASSUME UpstreamStarts \/ Upstream
           \/ FlushStart \/ (Seek /\ ~FlushStartDisable1)
           \/ (\E b \in InBufs : GotInput(b))
           \/ Timeout \/ GotError \/ ErrorDisable0 \/ UNCHANGED vars
  PROVE  UNCHANGED dataVars
<1>1. UNCHANGED outputVars
  BY OutputUntouched DEF UpstreamStarts, Upstream, Seek
<1>2. UNCHANGED <<noData, frameOf>>
  <2> USE DEF dsp
  <2>1. CASE UpstreamStarts
    BY <2>1 DEF UpstreamStarts, ChainPop, EosDecide, NewSegment
  <2>2. CASE Upstream
    BY <2>2 DEF Upstream, ChainResumed, ChainStatus, ChainStore, ChainSend,
                EosMark, EosPush
  <2>3. CASE FlushStart \/ Seek
    BY <2>3 DEF FlushStart, Seek, FlushStartStatus, FlushStartDisable0,
                FlushStartDisable1, FlushStartPause, FlushStartDone, FlushStop,
                FlushStopRing, FlushStopStatus, FlushStopEnable0,
                FlushStopEnable1, FlushStopTask
  <2>4. ASSUME NEW b \in InBufs, GotInput(b)  PROVE UNCHANGED <<noData, frameOf>>
    BY <2>4 DEF GotInput
  <2>5. CASE Timeout \/ GotError \/ ErrorDisable0 \/ UNCHANGED vars
    BY <2>5 DEF Timeout, GotError, ErrorDisable0, vars
  <2>6. QED
    BY <2>1, <2>2, <2>3, <2>4, <2>5
<1>3. QED
  BY <1>1, <1>2 DEF dataVars, outputVars

LEMMA DataStep == OutputInv /\ FrameInv /\ DataInv /\ [Next]_vars => DataInv'
<1> SUFFICES ASSUME OutputInv, FrameInv, DataInv, [Next]_vars  PROVE DataInv'
  OBVIOUS
<1> USE DEF DataInv, HasFrame, dsp, lvars, WakeLoop, SendOutput
<1>1. lpc \in WithBuffer => lbuf \in OutBufs /\ lbuf \notin dspOut
  BY DEF OutputInv, OutputConserved
<1>2. CASE UNCHANGED dataVars
  BY <1>2 DEF dataVars
<1>3. CASE FlushStartDisable1 \/ TimeoutDisable \/ ErrorDisable1
  BY <1>3 DEF FlushStartDisable1, TimeoutDisable, ErrorDisable1, DisableOutput
<1>4. CASE LoopPop \/ LoopResumed \/ LoopStatus \/ LoopPushBack \/ LoopCount
             \/ LoopEvents
  BY <1>4 DEF LoopPop, LoopResumed, LoopStatus, LoopPushBack, LoopCount, LoopEvents
<1>5. CASE LoopSort
  BY <1>1, <1>5 DEF LoopSort, WithBuffer
<1>6. CASE LoopWrap
  BY <1>1, <1>6 DEF LoopWrap, WithBuffer
<1>7. CASE LoopDrop \/ LoopTake
  BY <1>7 DEF LoopDrop, LoopTake
<1>8. CASE LoopPush \/ LoopLeave \/ LoopEos \/ LoopEosPush
  BY <1>8 DEF LoopPush, LoopLeave, LoopEos, LoopEosPush
<1>9. CASE Pause \/ PauseTask \/ PauseEos
  BY <1>9 DEF Pause, PauseTask, PauseEos, PauseReturn, OutputInv
<1>10. ASSUME NEW b \in OutBufs, NEW f, GotOutput(b, f)  PROVE DataInv'
  <2>1. b \in dspOut /\ frameOf' = [frameOf EXCEPT ![b] = f]
        /\ UNCHANGED <<lbuf, noData>> /\ dspOut' = dspOut \ {b}
        /\ (lpc' = lpc \/ lpc' = "woken")
    BY <1>10 DEF GotOutput
  <2>2. lpc \in WithBuffer => frameOf'[lbuf] = frameOf[lbuf]
    BY <1>1, <2>1 DEF FrameInv
  <2>3. QED
    BY <2>1, <2>2 DEF WithBuffer
<1>11. ASSUME NEW b \in OutBufs, Release(b)  PROVE DataInv'
  BY <1>11 DEF Release
<1>12. QED
  BY <1>2, <1>3, <1>4, <1>5, <1>6, <1>7, <1>8, <1>9, <1>10, <1>11, BuffersUntouched
     DEF Next, Seek, OutputLoop, DspThread, GotFrame, GotEmpty

LEMMA DataInvariant == Spec => []DataInv
<1>1. Init => DataInv
  BY DEF Init, DataInv
<1>2. QED
  BY <1>1, DataStep, OutputInvariant, FrameInvariant, PTL DEF Spec

(* The steps in which a buffer gets or loses its frame, or a timestamp     *)
(* leaves the ring, or a frame is dismissed because none is expected.      *)
FrameSteps ==
  \/ \E b \in OutBufs : GotFrame(b)
  \/ LoopDrop \/ LoopTake
  \/ LoopCount /\ lpc' = "leave"

SameCarriers ==
  Carriers' = Carriers /\ \A b \in Carriers : frameOf'[b] = frameOf[b]

(* No other step does: the buffers only change their places. *)
LEMMA CarriersStay ==
  ASSUME OutputInv, FrameInv, DataInv, [Next]_vars, ~FrameSteps
  PROVE  SameCarriers
<1> USE DEF SameCarriers, FrameSteps, dsp, lvars, WakeLoop, SendOutput
<1>1. /\ lbuf # None => lbuf \notin InSeq(q1) \cup dspOut \cup held
      /\ q1 \in Seq(OutBufs) /\ Distinct(q1)
      /\ lpc \in WithoutBuffer => lbuf = None
  BY DEF OutputInv, OutputConserved
<1>2. q1 # <<>> => InSeq(q1) = {Head(q1)} \cup InSeq(Tail(q1))
  BY <1>1, HeadTaken
<1>3. \A e \in OutBufs : e \notin InSeq(q1) => InSeq(Append(q1, e)) = InSeq(q1) \cup {e}
  BY <1>1, Appended
<1> DEFINE Same == UNCHANGED <<q1, noData, frameOf, lbuf>>
<1>4. ASSUME Same, LoopCarries' = LoopCarries  PROVE SameCarriers
  BY <1>4 DEF Carriers
<1> HIDE DEF SameCarriers
<1>5. CASE UNCHANGED dataVars
  BY <1>5, <1>4 DEF dataVars, LoopCarries
<1>6. CASE FlushStartDisable1 \/ TimeoutDisable \/ ErrorDisable1
  <2>1. Same /\ (lpc' = lpc \/ (lpc = "asleep" /\ lpc' = "woken"))
    BY <1>6 DEF FlushStartDisable1, TimeoutDisable, ErrorDisable1, DisableOutput
  <2>2. QED
    BY <2>1, <1>1, <1>4 DEF LoopCarries, WithoutBuffer
<1>7. CASE LoopPop \/ LoopResumed
  <2>1. lbuf = None /\ UNCHANGED <<noData, frameOf>>
    BY <1>1, <1>7 DEF LoopPop, LoopResumed, WithoutBuffer
  <2>2. \/ UNCHANGED <<q1, lbuf>>
        \/ /\ q1 # <<>> /\ lpc' = "got"
           /\ lbuf' = Head(q1) /\ q1' = Tail(q1) /\ lbuf' \in OutBufs
    BY <1>7, <1>1 DEF LoopPop, LoopResumed
  <2>3. CASE UNCHANGED <<q1, lbuf>>
    BY <2>1, <2>3, <1>4 DEF LoopCarries
  <2>4. CASE /\ q1 # <<>> /\ lpc' = "got"
             /\ lbuf' = Head(q1) /\ q1' = Tail(q1) /\ lbuf' \in OutBufs
    <3>1. LoopCarries' <=> Head(q1) \notin noData
      BY <2>1, <2>4, BaseAssumption DEF LoopCarries
    <3>2. InSeq(q1) = {lbuf'} \cup InSeq(q1')
      BY <2>4, <1>2
    <3>3. QED
      BY <2>1, <2>4, <3>1, <3>2 DEF Carriers, LoopCarries, SameCarriers
  <2>5. QED
    BY <2>2, <2>3, <2>4
<1>8. CASE LoopStatus \/ Pause \/ PauseTask \/ PauseEos
  <2>1. Same
    BY <1>8 DEF LoopStatus, Pause, PauseTask, PauseEos, queues
  <2>2. LoopCarries' = LoopCarries
    BY <1>8, <1>1, <2>1
       DEF LoopStatus, Pause, PauseTask, PauseEos, PauseReturn, LoopCarries,
           Checked, Pausing, OutputInv, WithoutBuffer
  <2>3. QED
    BY <2>1, <2>2, <1>4
<1>9. CASE LoopPushBack
  <2>1. /\ lpc = "pushback" /\ lbuf \in OutBufs /\ lbuf \notin InSeq(q1)
        /\ q1' = Append(q1, lbuf) /\ lbuf' = None
        /\ UNCHANGED <<noData, frameOf>>
    BY <1>1, <1>9 DEF LoopPushBack, OutputInv, WithBuffer
  <2>2. InSeq(q1') = InSeq(q1) \cup {lbuf} /\ ~LoopCarries'
    BY <2>1, <1>3 DEF LoopCarries
  <2>3. LoopCarries <=> lbuf \notin noData
    BY <2>1, BaseAssumption DEF LoopCarries
  <2>4. QED
    BY <2>1, <2>2, <2>3 DEF Carriers, SameCarriers
<1>10. CASE LoopCount \/ LoopEvents
  <2>1. Same /\ LoopCarries' = LoopCarries
    BY <1>10 DEF LoopCount, LoopEvents, LoopCarries, Checked, queues
  <2>2. QED
    BY <2>1, <1>4
<1>11. CASE LoopSort
  <2>1. lpc = "sort" /\ lbuf # None /\ UNCHANGED <<q1, frameOf>>
    BY <1>11 DEF LoopSort, OutputInv, WithBuffer, queues
  <2>2. CASE lbuf \in noData
    <3>1. lbuf' = None /\ noData' = noData \ {lbuf} /\ lbuf \notin InSeq(q1)
      BY <1>1, <1>11, <2>1, <2>2 DEF LoopSort
    <3>2. ~LoopCarries /\ ~LoopCarries'
      BY <2>1, <2>2, <3>1 DEF LoopCarries
    <3>3. QED
      BY <2>1, <3>1, <3>2 DEF Carriers, SameCarriers
  <2>3. CASE lbuf \notin noData
    <3>1. /\ UNCHANGED <<noData, lbuf>>
          /\ HasFrame => lpc' \in {"drop", "wrap"}
      BY <1>11, <2>3 DEF LoopSort
    <3>2. HasFrame => LoopCarries' /\ LoopCarries
      BY <2>1, <2>3, <3>1 DEF LoopCarries, Checked
    <3>3. QED
      BY <2>1, <3>1, <3>2 DEF Carriers, HasFrame, SameCarriers
  <2>4. QED
    BY <2>2, <2>3
<1>12. CASE LoopWrap
  <2>1. /\ lpc = "wrap" /\ lbuf \in OutBufs /\ lbuf \notin noData
        /\ lbuf \notin InSeq(q1) /\ frameOf' = frameOf /\ lbuf # None
    BY <1>1, <1>12, BaseAssumption
       DEF LoopWrap, OutputInv, WithBuffer, DataInv
  <2>2. LoopCarries
    BY <2>1 DEF LoopCarries, Checked
  <2>3. CASE q1' = Append(q1, lbuf) /\ lbuf' = None /\ noData' = noData
    <3>1. InSeq(q1') = InSeq(q1) \cup {lbuf} /\ ~LoopCarries'
      BY <2>1, <2>3, <1>3 DEF LoopCarries
    <3>2. QED
      BY <2>1, <2>2, <2>3, <3>1 DEF Carriers, SameCarriers
  <2>4. CASE /\ lpc' = "take" /\ UNCHANGED <<q1, lbuf>>
             /\ noData' \in {noData, noData \cup {lbuf}}
    <3>1. LoopCarries'
      BY <2>1, <2>4 DEF LoopCarries
    <3>2. QED
      BY <2>1, <2>2, <2>4, <3>1 DEF Carriers, SameCarriers
  <2>5. QED
    BY <1>12, <2>3, <2>4 DEF LoopWrap
<1>13. CASE LoopPush \/ LoopLeave \/ LoopEos
  <2>1. ~LoopCarries /\ ~LoopCarries'
    BY <1>13 DEF LoopPush, LoopLeave, LoopEos, LoopCarries, Checked, Pausing
  <2>2. /\ UNCHANGED <<q1, frameOf>>
        /\ noData' = noData \/ (lbuf # None /\ noData' = noData \ {lbuf})
    BY <1>13, BaseAssumption
       DEF LoopPush, LoopLeave, LoopEos, queues, OutputInv, WithBuffer
  <2>3. QED
    BY <1>1, <2>1, <2>2 DEF Carriers, SameCarriers
<1>14. CASE LoopEosPush
  <2>1. ~LoopCarries /\ ~LoopCarries' /\ frameOf' = frameOf
    BY <1>14 DEF LoopEosPush, LoopCarries, Checked, Pausing
  <2>2. CASE UNCHANGED <<q1, noData>>
    BY <2>1, <2>2 DEF Carriers, SameCarriers
  <2>3. CASE lbuf # None /\ q1' = q1 /\ noData' = noData \ {lbuf}
    BY <1>1, <2>1, <2>3 DEF Carriers, SameCarriers
  <2>4. CASE /\ lbuf # None /\ lbuf \in noData
             /\ q1' = Append(q1, lbuf) /\ noData' = noData
    <3>1. InSeq(q1') = InSeq(q1) \cup {lbuf}
      BY <2>4, <1>1, <1>3 DEF OutputInv
    <3>2. QED
      BY <2>1, <2>4, <3>1 DEF Carriers, SameCarriers
  <2>5. QED
    BY <1>14, <2>2, <2>3, <2>4 DEF LoopEosPush
<1>15. ASSUME NEW b \in OutBufs, GotEmpty(b)  PROVE SameCarriers
  <2>1. /\ b \in dspOut /\ b \notin InSeq(q1) /\ b # lbuf
        /\ q1' = Append(q1, b) /\ frameOf' = [frameOf EXCEPT ![b] = NoTime]
        /\ UNCHANGED <<noData, lbuf>>
        /\ lpc' = lpc \/ (lpc = "asleep" /\ lpc' = "woken")
    BY <1>15, <1>1 DEF GotEmpty, GotOutput, OutputInv, OutputConserved
  <2>2. InSeq(q1') = InSeq(q1) \cup {b} /\ LoopCarries' = LoopCarries
    BY <2>1, <1>1, <1>3 DEF LoopCarries, WithoutBuffer
  <2>3. frameOf'[b] = NoTime /\ \A c \in OutBufs \ {b} : frameOf'[c] = frameOf[c]
    BY <2>1 DEF FrameInv
  <2>4. QED
    BY <2>1, <2>2, <2>3 DEF Carriers, SameCarriers
<1>16. ASSUME NEW b \in OutBufs, Release(b)  PROVE SameCarriers
  <2>1. /\ b \notin InSeq(q1) /\ b # lbuf
        /\ noData' = noData \ {b}
        /\ UNCHANGED <<q1, frameOf, lbuf, lpc>>
    BY <1>16, <1>1 DEF Release, queues, OutputInv, OutputConserved
  <2>2. LoopCarries' = LoopCarries
    BY <2>1 DEF LoopCarries
  <2>3. QED
    BY <2>1, <2>2 DEF Carriers, SameCarriers
<1>17. QED
  BY <1>5, <1>6, <1>7, <1>8, <1>9, <1>10, <1>11, <1>12, <1>13, <1>14, <1>15, <1>16,
     BuffersUntouched
     DEF Next, Seek, OutputLoop, DspThread

(* The DSP returns a frame: another buffer has one. *)
LEMMA FrameReturns ==
  ASSUME OutputInv, FrameInv, DataInv, NEW b \in OutBufs, GotFrame(b)
  PROVE  /\ b \notin Carriers /\ Carriers' = Carriers \cup {b}
         /\ dspPending # <<>> /\ dspPending' = Tail(dspPending)
         /\ frameOf'[b] = Head(dspPending)
         /\ \A c \in Carriers : frameOf'[c] = frameOf[c]
<1>1. /\ b \in dspOut /\ b \notin InSeq(q1) /\ b # lbuf /\ b \notin noData
      /\ q1' = Append(q1, b)
      /\ frameOf' = [frameOf EXCEPT ![b] = Head(dspPending)]
      /\ dspPending # <<>> /\ dspPending' = Tail(dspPending)
      /\ UNCHANGED <<noData, lbuf>>
      /\ lpc' = lpc \/ (lpc = "asleep" /\ lpc' = "woken")
  BY DEF GotFrame, GotOutput, WakeLoop, OutputInv, OutputConserved, DataInv
<1>2. InSeq(q1') = InSeq(q1) \cup {b} /\ LoopCarries' = LoopCarries
  BY <1>1, Appended DEF LoopCarries, WithoutBuffer, OutputInv, OutputConserved
<1>3. /\ frameOf'[b] = Head(dspPending)
      /\ \A c \in OutBufs \ {b} : frameOf'[c] = frameOf[c]
  BY <1>1 DEF FrameInv
<1>4. Head(dspPending) # NoTime
  BY <1>1, RingAssumption DEF FrameInv
<1>5. QED
  BY <1>1, <1>2, <1>3, <1>4 DEF Carriers

(* output_loop takes or drops a timestamp for the frame it has. *)
LEMMA FrameIsCounted ==
  ASSUME OutputInv, DataInv, LoopDrop \/ LoopTake
  PROVE  /\ lbuf \in Carriers /\ Carriers' = Carriers \ {lbuf}
         /\ frameOf' = frameOf
         /\ UNCHANGED <<q1, lbuf>>
<1>1. /\ lpc \in {"drop", "take"} /\ lpc' \in {"leave", "push"}
      /\ UNCHANGED <<q1, noData, lbuf, frameOf>>
  BY DEF LoopDrop, LoopTake, queues, dsp
<1>2. lbuf # None /\ lbuf \in OutBufs /\ lbuf \notin InSeq(q1)
  BY <1>1 DEF OutputInv, OutputConserved, WithBuffer
<1>3. LoopCarries /\ ~LoopCarries' /\ frameOf[lbuf] # NoTime
  BY <1>1, <1>2
     DEF LoopCarries, Checked, Pausing, DataInv, HasFrame
<1>4. QED
  BY <1>1, <1>2, <1>3 DEF Carriers

(* The frames on their way to output_loop, in the order in which they were *)
(* sent; and all that have been stored but not counted out.                *)
Coming == InSeq(dspPending) \cup {frameOf[b] : b \in Carriers}
OutTimes == Coming \cup (IF upc = "send" THEN {nsent} ELSE {})

(* A frame is in one place, and what the DSP still has was sent after what *)
(* it has returned.                                                        *)
ComingInv ==
  /\ Coming \subseteq 1 .. nsent
  /\ upc \in Chaining => \A t \in Coming : t < nsent
  /\ \A i, j \in DOMAIN dspPending : i < j => dspPending[i] < dspPending[j]
  /\ \A b \in Carriers : \A t \in InSeq(dspPending) : frameOf[b] < t
  /\ \A b, c \in Carriers : frameOf[b] = frameOf[c] => b = c

(* The threads other than the streaming thread, and dsp_thread but when it *)
(* returns a frame, have nothing to do with what is on its way.            *)
LEMMA PendingUntouched ==
  ASSUME [Next]_vars, ~ChainSend, ~\E b \in OutBufs : GotFrame(b)
  PROVE  /\ dspPending' = dspPending
         /\ \/ /\ nsent' = nsent /\ (upc' = "send" <=> upc = "send")
               /\ upc' \in Chaining => upc \in Chaining
            \/ nsent' = nsent + 1 /\ upc # "send" /\ upc' # "send"
            \/ ChainStore /\ upc = "store" /\ upc' = "send" /\ nsent' = nsent
<1> USE DEF Chaining, Storing, dsp, uvars, counts, WakeUpstream
<1>1. CASE UpstreamStarts
  BY <1>1 DEF UpstreamStarts, ChainPop, EosDecide, NewSegment, SinkPadOpen
<1>2. CASE Upstream
  BY <1>2 DEF Upstream, ChainResumed, ChainStatus, ChainStore, EosMark, EosPush
<1>3. CASE FlushStart \/ Seek
  BY <1>3 DEF FlushStart, Seek, FlushStartStatus, FlushStartDisable0,
              FlushStartDisable1, FlushStartPause, FlushStartDone, FlushStop,
              FlushStopRing, FlushStopStatus, FlushStopEnable0, FlushStopEnable1,
              FlushStopTask, DisableInput
<1>4. CASE LoopPop \/ LoopResumed \/ LoopStatus \/ LoopPushBack \/ LoopCount
             \/ LoopEvents \/ LoopSort \/ LoopDrop \/ LoopWrap
  BY <1>4 DEF LoopPop, LoopResumed, LoopStatus, LoopPushBack, LoopCount,
              LoopEvents, LoopSort, LoopDrop, LoopWrap
<1>5. CASE LoopTake \/ LoopPush \/ LoopLeave \/ LoopEos \/ LoopEosPush
  BY <1>5 DEF LoopTake, LoopPush, LoopLeave, LoopEos, LoopEosPush
<1>6. CASE Pause \/ PauseTask \/ PauseEos
  BY <1>6 DEF Pause, PauseTask, PauseEos, DisableInput
<1>7. ASSUME NEW b \in InBufs, GotInput(b)
      PROVE  /\ dspPending' = dspPending
             /\ nsent' = nsent /\ (upc' = "send" <=> upc = "send")
             /\ upc' \in Chaining => upc \in Chaining
  BY <1>7 DEF GotInput
<1>8. ASSUME NEW b \in OutBufs, GotEmpty(b) \/ Release(b)
      PROVE  UNCHANGED <<dspPending, nsent, upc>>
  BY <1>8 DEF GotEmpty, GotOutput, Release
<1>9. CASE Timeout \/ GotError \/ DspThread \/ UNCHANGED vars
  BY <1>9 DEF Timeout, GotError, DspThread, TimeoutDisable, ErrorDisable0,
              ErrorDisable1, DisableInput, vars
<1>10. QED
  BY <1>1, <1>2, <1>3, <1>4, <1>5, <1>6, <1>7, <1>8, <1>9 DEF Next, OutputLoop

----------------------------------------------------------------------------
(* The timestamps in the ring: in the order in which they were stored, and *)
(* those of flushed frames not after the last FLUSH_STOP.                  *)
RingTimes == {ts_array[i].time : i \in FrameSlots}

RingOrder ==
  /\ RingTimes \subseteq 1 .. nsent
  /\ upc \in Storing => \A t \in RingTimes : t < nsent
  /\ \A i, j \in FrameSlots :
       Dist(ts_out_pos, i) < Dist(ts_out_pos, j) =>
         ts_array[i].time < ts_array[j].time
  /\ \A i \in FrameSlots :
       Dist(ts_out_pos, i) < Flushed => ts_array[i].time <= flushMark

LEMMA NumbersSent ==
  ASSUME FrameInv
  PROVE  nsent \in Nat
<1>1. conf.maxFrames \in Nat
  BY BaseAssumption DEF FrameInv, Conf
<1>2. QED
  BY <1>1 DEF FrameInv

LEMMA TimesAreNumbers ==
  ASSUME FrameInv, RingOrder
  PROVE  \A t \in RingTimes : t \in Nat
<1>1. RingTimes \subseteq 1 .. nsent
  BY DEF RingOrder
<1>2. QED
  BY <1>1, NumbersSent

(* The new frame is the farthest and the last. *)
LEMMA StoreKeepsOrder ==
  ASSUME StreamInv, FrameInv, RingOrder, ChainStore
  PROVE  /\ RingOrder'
         /\ RingTimes' = RingTimes \cup {nsent} /\ nsent \notin RingTimes
<1>1. nsent \in Times /\ nsent \in Nat /\ nsent # 0 /\ RoomLeft /\ StoreFrame(nsent)
  BY FrameIsTimed
     DEF ChainStore, FrameInv, Chaining, Storing, StreamInv, RoomInv
<1>2. /\ ts_in_pos \in Slots /\ ts_in_pos \notin FrameSlots
      /\ Dist(ts_out_pos, ts_in_pos) = Outstanding
      /\ Outstanding \in 0 .. Size - 1 /\ Flushed \in 0 .. Size - 1
      /\ Flushed <= Outstanding
      /\ \A i \in FrameSlots : Dist(ts_out_pos, i) \in 0 .. Size - 1
      /\ \A i \in FrameSlots : Dist(ts_out_pos, i) < Outstanding
  BY WindowType, HeadIsNearest
     DEF StreamInv, RingInv, WindowSound, TsTypeOK, FrameSlots, Outstanding
<1>3. /\ FrameSlots' = FrameSlots \cup {ts_in_pos}
      /\ Flushed' = Flushed /\ ts_out_pos' = ts_out_pos
  BY <1>1, StoreFrameKeeps DEF StoreFrame, StreamInv
<1>4. /\ ts_array'[ts_in_pos].time = nsent
      /\ \A i \in FrameSlots : ts_array'[i] = ts_array[i]
  BY <1>1, <1>2 DEF StoreFrame, TsItem, StreamInv, RingInv, TsTypeOK, FrameSlots
<1>5. upc = "store" /\ upc' = "send" /\ UNCHANGED <<nsent, flushMark>>
  BY DEF ChainStore, counts
<1>6. RingTimes' = RingTimes \cup {nsent}
  BY <1>3, <1>4 DEF RingTimes
<1>7. \A i \in FrameSlots : ts_array[i].time \in 1 .. nsent - 1
  BY <1>1, <1>5 DEF RingOrder, RingTimes, Storing
<1>8. nsent \notin RingTimes
  BY <1>1, <1>7 DEF RingTimes
<1>9. \A i, j \in FrameSlots' :
        Dist(ts_out_pos', i) < Dist(ts_out_pos', j) =>
          ts_array'[i].time < ts_array'[j].time
  <2> SUFFICES ASSUME NEW i \in FrameSlots', NEW j \in FrameSlots',
                      Dist(ts_out_pos, i) < Dist(ts_out_pos, j)
               PROVE  ts_array'[i].time < ts_array'[j].time
    BY <1>3
  <2>1. i \in FrameSlots
    BY <1>2, <1>3
  <2>2. CASE j \in FrameSlots
    BY <2>1, <2>2, <1>4 DEF RingOrder
  <2>3. CASE j = ts_in_pos
    BY <2>1, <2>3, <1>1, <1>4, <1>7
  <2>4. QED
    BY <2>2, <2>3, <1>3
<1>10. \A i \in FrameSlots' :
         Dist(ts_out_pos', i) < Flushed' => ts_array'[i].time <= flushMark'
  BY <1>2, <1>3, <1>4, <1>5 DEF RingOrder
<1>11. RingTimes' \subseteq 1 .. nsent'
  <2>1. RingTimes \subseteq 1 .. nsent /\ nsent \in 1 .. nsent
    BY <1>1 DEF RingOrder
  <2>2. QED
    BY <1>5, <1>6, <2>1
<1>12. upc' \notin Storing
  BY <1>5 DEF Storing
<1>13. QED
  BY <1>6, <1>8, <1>9, <1>10, <1>11, <1>12 DEF RingOrder

(* An event is no frame; the loop over the events moves them all.          *)
LEMMA EventsKeepOrder ==
  ASSUME StreamInv, FrameInv, RingOrder, NewSegment \/ LoopEvents
  PROVE  RingOrder' /\ RingTimes' = RingTimes
<1>1. UNCHANGED <<nsent, flushMark, upc>>
  BY DEF NewSegment, LoopEvents, uvars, counts
<1>2. CASE NewSegment
  <2>1. nseg + 1 \in Events
    BY <1>2, SegmentIsEvent
  <2>2. /\ FrameSlots' = FrameSlots
        /\ Flushed' = Flushed /\ ts_out_pos' = ts_out_pos
    BY <1>2, <2>1, StoreEventKeeps DEF NewSegment, StoreEvent, StreamInv
  <2>3. ts_in_pos \notin FrameSlots /\ FrameSlots \subseteq Slots
    BY WindowType DEF StreamInv, RingInv, TsTypeOK, FrameSlots, Outstanding
  <2>4. \A i \in FrameSlots : ts_array'[i] = ts_array[i]
    BY <1>2, <2>3 DEF NewSegment, StoreEvent, StreamInv, RingInv, TsTypeOK
  <2>5. RingTimes' = RingTimes
    BY <2>2, <2>4 DEF RingTimes
  <2>6. QED
    BY <1>1, <2>2, <2>4, <2>5 DEF RingOrder
<1>3. CASE LoopEvents
  <2>1. PICK n \in 0 .. Size - 1 :
          /\ Flushed' = IF Flushed < n THEN 0 ELSE Flushed - n
          /\ \A i \in FrameSlots :
               /\ n <= Dist(ts_out_pos, i)
               /\ Dist(ts_out_pos', i) = Dist(ts_out_pos, i) - n
               /\ ts_array'[i] = ts_array[i]
    BY <1>3, EventsMove DEF LoopEvents, StreamInv
  <2>2. FrameSlots' = FrameSlots
    BY <1>3, EventsMove DEF LoopEvents, StreamInv
  <2>3. /\ Flushed \in 0 .. Size - 1 /\ Size \in Nat
        /\ \A i \in FrameSlots : Dist(ts_out_pos, i) \in 0 .. Size - 1
    BY HeadIsNearest, RingAssumption DEF StreamInv
  <2>4. RingTimes' = RingTimes
    BY <2>1, <2>2 DEF RingTimes
  <2>5. \A i, j \in FrameSlots' :
          Dist(ts_out_pos', i) < Dist(ts_out_pos', j) =>
            ts_array'[i].time < ts_array'[j].time
    BY <2>1, <2>2, <2>3 DEF RingOrder
  <2>6. \A i \in FrameSlots' :
          Dist(ts_out_pos', i) < Flushed' => ts_array'[i].time <= flushMark'
    BY <1>1, <2>1, <2>2, <2>3 DEF RingOrder
  <2>7. QED
    BY <1>1, <2>4, <2>5, <2>6 DEF RingOrder
<1>4. QED
  BY <1>2, <1>3

(* The head holds the least timestamp, and one of before the last flush if *)
(* any frame in the ring is.                                               *)
LEMMA HeadIsFirst ==
  ASSUME StreamInv, FrameInv, RingOrder, FreshInv, ts_out_pos \in FrameSlots
  PROVE  /\ FrameTime \in RingTimes
         /\ \A t \in RingTimes : FrameTime <= t
         /\ HeadFlushed <=> FrameTime <= flushMark
<1>1. /\ Dist(ts_out_pos, ts_out_pos) = 0
      /\ Flushed \in 0 .. Size - 1
      /\ HeadFlushed <=> 0 < Flushed
      /\ \A i \in FrameSlots : i # ts_out_pos => 0 < Dist(ts_out_pos, i)
      /\ Size \in Nat
  BY HeadIsNearest, RingAssumption DEF StreamInv
<1>2. FrameTime \in RingTimes /\ FrameTime \in Nat
  BY TimesAreNumbers DEF RingTimes, FrameTime
<1>3. \A t \in RingTimes : t = FrameTime \/ FrameTime < t
  BY <1>1 DEF RingTimes, FrameTime, RingOrder
<1>4. \A t \in RingTimes : FrameTime <= t
  <2>1. \A t \in RingTimes : t \in Nat
    BY TimesAreNumbers
  <2>2. QED
    BY <1>2, <1>3, <2>1
<1>5. HeadFlushed => FrameTime <= flushMark
  BY <1>1 DEF FrameTime, RingOrder
<1>6. ~HeadFlushed => FrameTime > flushMark
  BY <1>1 DEF FrameTime, FreshInv
<1>7. flushMark \in Nat
  BY NumbersSent DEF FreshInv
<1>8. QED
  BY <1>2, <1>4, <1>5, <1>6, <1>7

(* It leaves, and no other. *)
LEMMA HeadKeepsOrder ==
  ASSUME StreamInv, FrameInv, RingOrder, LoopDrop \/ LoopTake
  PROVE  RingOrder' /\ RingTimes' = RingTimes \ {FrameTime}
<1>1. /\ FrameSlots' = FrameSlots \ {ts_out_pos}
      /\ Flushed' = IF HeadFlushed THEN Flushed - 1 ELSE 0
      /\ ts_out_pos \in FrameSlots
      /\ ts_out_pos' = (ts_out_pos + 1) % Size
      /\ ts_array' = ts_array
      /\ UNCHANGED <<nsent, flushMark, upc>>
  BY HeadLeaves
     DEF LoopDrop, LoopTake, DropFrame, TakeFrame, LoopInv, StreamInv, uvars, counts
<1>2. /\ Dist(ts_out_pos, ts_out_pos) = 0
      /\ Flushed \in 0 .. Size - 1 /\ Size \in Nat
      /\ HeadFlushed <=> 0 < Flushed
  BY HeadIsNearest, RingAssumption DEF StreamInv
<1>3. \A i \in FrameSlots' :
        /\ Dist(ts_out_pos, i) \in 1 .. Size - 1
        /\ Dist(ts_out_pos', i) = Dist(ts_out_pos, i) - 1
  BY <1>1, HeadMoves DEF StreamInv
<1>4. \A i \in FrameSlots' : FrameTime < ts_array[i].time
  BY <1>1, <1>2, <1>3 DEF RingOrder, FrameTime
<1>5. RingTimes' = RingTimes \ {FrameTime}
  <2>1. \A t \in RingTimes : t \in Nat
    BY TimesAreNumbers
  <2>2. FrameTime \in Nat
    BY <1>1, <2>1 DEF RingTimes, FrameTime
  <2>3. \A i \in FrameSlots' : ts_array[i].time # FrameTime
    BY <1>1, <1>4, <2>2
  <2>4. QED
    BY <1>1, <2>3 DEF RingTimes, FrameTime
<1>6. \A i, j \in FrameSlots' :
        Dist(ts_out_pos', i) < Dist(ts_out_pos', j) =>
          ts_array'[i].time < ts_array'[j].time
  BY <1>1, <1>2, <1>3 DEF RingOrder
<1>7. \A i \in FrameSlots' :
        Dist(ts_out_pos', i) < Flushed' => ts_array'[i].time <= flushMark'
  BY <1>1, <1>2, <1>3 DEF RingOrder
<1>8. QED
  BY <1>1, <1>5, <1>6, <1>7 DEF RingOrder

(* FLUSH_STOP finds only frames that have been sent. *)
LEMMA FlushKeepsOrder ==
  ASSUME StreamInv, FrameInv, SeekInv, RingOrder, FlushStopRing
  PROVE  RingOrder' /\ RingTimes' = RingTimes
<1>1. /\ Outstanding' = Outstanding
      /\ UNCHANGED <<ts_array, ts_out_pos>>
  BY FlushRingKeeps DEF StreamInv, FlushStopRing, FlushRing
<1>2. FrameSlots' = FrameSlots /\ RingTimes' = RingTimes
  BY <1>1 DEF FrameSlots, HoldsEvent, RingTimes
<1>3. upc' = "idle" /\ nsent' = nsent /\ flushMark' = nsent
  BY DEF FlushStopRing, SeekInv, Restarting, uvars
<1>4. \A i \in FrameSlots : ts_array[i].time <= nsent
  BY NumbersSent DEF RingOrder, RingTimes
<1>5. QED
  BY <1>1, <1>2, <1>3, <1>4 DEF RingOrder, Storing

LEMMA OthersKeepOrder ==
  ASSUME StreamInv, FrameInv, OutputInv, RingOrder, [Next]_vars, ~RingSteps
  PROVE  RingOrder' /\ RingTimes' = RingTimes
<1>1. /\ FrameSlots' = FrameSlots /\ Flushed' = Flushed
      /\ UNCHANGED <<ts_array, ts_out_pos, flushMark>>
      /\ \/ nsent' = nsent /\ (upc' \in Storing => upc \in Storing)
         \/ nsent' = nsent + 1
  BY RingUntouched, RingStays DEF StreamInv
<1>2. RingTimes' = RingTimes
  BY <1>1 DEF RingTimes
<1>3. QED
  BY <1>1, <1>2, NumbersSent DEF RingOrder

----------------------------------------------------------------------------
(* The ring and the buffers go together.  For each timestamp in the ring   *)
(* there is a frame on its way, and for those after the last flush it is   *)
(* that very frame.  (Those of before may come back in another order.)     *)
Later(T) == {t \in T : t > flushMark}

MatchInv ==
  /\ Later(RingTimes) = Later(OutTimes)
  /\ Cardinality(RingTimes) = Cardinality(OutTimes)

(* Of two matching sets one has a flushed member if the other has.         *)
LEMMA FlushedMatch ==
  ASSUME NEW R, NEW O, NEW m \in Nat,
         IsFiniteSet(R), IsFiniteSet(O), Cardinality(R) = Cardinality(O),
         {t \in R : t > m} = {t \in O : t > m},
         \A t \in R : t > m
  PROVE  R = O
<1>1. R \in SUBSET O
  OBVIOUS
<1>2. QED
  BY <1>1, FS_Subset

LEMMA TimesFinite ==
  ASSUME FrameInv, ComingInv, RingOrder
  PROVE  /\ OutTimes \subseteq 1 .. nsent /\ IsFiniteSet(OutTimes)
         /\ RingTimes \subseteq 1 .. nsent /\ IsFiniteSet(RingTimes)
         /\ upc = "send" => nsent \notin Coming
         /\ nsent \in Nat
<1>1. nsent \in Nat /\ (upc = "send" => nsent # 0)
  BY NumbersSent DEF FrameInv, Chaining
<1>2. OutTimes \subseteq 1 .. nsent /\ RingTimes \subseteq 1 .. nsent
  BY <1>1 DEF OutTimes, ComingInv, RingOrder
<1>3. IsFiniteSet(1 .. nsent)
  BY <1>1, FS_Interval
<1>4. IsFiniteSet(OutTimes) /\ IsFiniteSet(RingTimes)
  BY <1>2, <1>3, FS_Subset
<1>5. upc = "send" => nsent \notin Coming
  BY <1>1 DEF ComingInv, Chaining
<1>6. QED
  BY <1>1, <1>2, <1>4, <1>5

(* A frame is dismissed as unexpected only if none is on its way: then the *)
(* buffer has none.                                                        *)
LEMMA NoneDismissed ==
  ASSUME OutputInv, StreamInv, FrameInv, ComingInv, RingOrder, MatchInv,
         LoopCount, lpc' = "leave"
  PROVE  SameCarriers
<1>1. ts_count = 0 /\ lpc = "count" /\ UNCHANGED <<q1, noData, lbuf, frameOf>>
  BY DEF LoopCount, queues, dsp
<1>2. FrameSlots = {}
  BY <1>1, FrameSlotsFinite, FS_EmptySet DEF StreamInv, RingInv, CountIsFrames
<1>3. RingTimes = {}
  BY <1>2 DEF RingTimes
<1>4. OutTimes = {}
  BY <1>3, FS_EmptySet, TimesFinite DEF MatchInv
<1>5. Carriers = {}
  BY <1>4 DEF OutTimes, Coming
<1>6. ~LoopCarries'
  BY DEF LoopCarries, Checked, Pausing
<1>7. Carriers' = {}
  BY <1>1, <1>5, <1>6 DEF Carriers
<1>8. QED
  BY <1>5, <1>7 DEF SameCarriers

Counted == LoopDrop \/ LoopTake \/ \E b \in OutBufs : GotFrame(b)

LEMMA CarriersKeep ==
  ASSUME OutputInv, StreamInv, FrameInv, DataInv, ComingInv, RingOrder, MatchInv,
         [Next]_vars, ~Counted
  PROVE  SameCarriers
  BY CarriersStay, NoneDismissed DEF FrameSteps, Counted

(* What is on its way while a frame is returned, sent, counted out; and    *)
(* otherwise.                                                              *)
LEMMA ReturnKeepsComing ==
  ASSUME OutputInv, FrameInv, DataInv, ComingInv, NEW b \in OutBufs, GotFrame(b)
  PROVE  ComingInv' /\ OutTimes' = OutTimes
<1>1. /\ b \notin Carriers /\ Carriers' = Carriers \cup {b}
      /\ dspPending # <<>> /\ dspPending' = Tail(dspPending)
      /\ frameOf'[b] = Head(dspPending)
      /\ \A c \in Carriers : frameOf'[c] = frameOf[c]
      /\ dspPending \in Seq(Times)
  BY FrameReturns DEF FrameInv
<1>2. /\ Head(dspPending) = dspPending[1]
      /\ DOMAIN dspPending = 1 .. Len(dspPending) /\ Len(dspPending) \in Nat \ {0}
      /\ DOMAIN dspPending' = 1 .. Len(dspPending) - 1
      /\ \A i \in 1 .. Len(dspPending) - 1 : dspPending'[i] = dspPending[i + 1]
  BY <1>1
<1> DEFINE h == Head(dspPending)
<1>3. \A i \in DOMAIN dspPending' : h < dspPending'[i]
  BY <1>2 DEF ComingInv
<1>4. InSeq(dspPending) = {h} \cup InSeq(dspPending')
  <2>1. \A i \in DOMAIN dspPending : i = 1 \/ i - 1 \in DOMAIN dspPending'
    BY <1>2
  <2>2. \A i \in DOMAIN dspPending : dspPending[i] \in {h} \cup InSeq(dspPending')
    <3> SUFFICES ASSUME NEW i \in DOMAIN dspPending
                 PROVE  dspPending[i] \in {h} \cup InSeq(dspPending')
      OBVIOUS
    <3>1. CASE i = 1
      BY <3>1, <1>2
    <3>2. CASE i # 1
      <4>1. i - 1 \in DOMAIN dspPending' /\ dspPending'[i - 1] = dspPending[i]
        BY <3>2, <1>2
      <4>2. QED
        BY <4>1 DEF InSeq
    <3>3. QED
      BY <3>1, <3>2
  <2>3. \A i \in DOMAIN dspPending' : dspPending'[i] \in InSeq(dspPending)
    <3> SUFFICES ASSUME NEW i \in DOMAIN dspPending'
                 PROVE  dspPending'[i] \in InSeq(dspPending)
      OBVIOUS
    <3>1. i + 1 \in DOMAIN dspPending /\ dspPending'[i] = dspPending[i + 1]
      BY <1>2
    <3>2. QED
      BY <3>1 DEF InSeq
  <2>4. h \in InSeq(dspPending)
    BY <1>2 DEF InSeq
  <2>5. QED
    BY <2>2, <2>3, <2>4 DEF InSeq
<1>5. \A t \in InSeq(dspPending') : h < t
  BY <1>3 DEF InSeq
<1> HIDE DEF h
<1>6. Coming' = Coming
  BY <1>1, <1>4 DEF Coming, h
<1>7. UNCHANGED <<upc, nsent>>
  BY DEF GotFrame, GotOutput, uvars
<1>8. \A i, j \in DOMAIN dspPending' : i < j => dspPending'[i] < dspPending'[j]
  <2> SUFFICES ASSUME NEW i \in DOMAIN dspPending', NEW j \in DOMAIN dspPending',
                      i < j
               PROVE  dspPending'[i] < dspPending'[j]
    OBVIOUS
  <2>1. /\ i + 1 \in DOMAIN dspPending /\ j + 1 \in DOMAIN dspPending
        /\ i + 1 < j + 1
    BY <1>2
  <2>2. QED
    BY <2>1, <1>2 DEF ComingInv
<1>9. \A c \in Carriers' : \A t \in InSeq(dspPending') : frameOf'[c] < t
  BY <1>1, <1>4, <1>5 DEF ComingInv, h
<1>10. \A c \in Carriers : frameOf[c] # h
  <2>1. \A c \in Carriers : frameOf[c] < h
    BY <1>4 DEF ComingInv
  <2>2. h \in Nat /\ \A c \in Carriers : frameOf[c] \in Nat
    BY <1>4, NumbersSent DEF ComingInv, Coming
  <2>3. QED
    BY <2>1, <2>2
<1>11. \A c, d \in Carriers' : frameOf'[c] = frameOf'[d] => c = d
  BY <1>1, <1>10 DEF ComingInv, h
<1>12. ComingInv'
  BY <1>6, <1>7, <1>8, <1>9, <1>11 DEF ComingInv
<1>13. QED
  BY <1>6, <1>7, <1>12 DEF OutTimes

LEMMA CountKeepsComing ==
  ASSUME OutputInv, FrameInv, DataInv, ComingInv, LoopDrop \/ LoopTake
  PROVE  /\ ComingInv'
         /\ frameOf[lbuf] \in OutTimes
         /\ OutTimes' = OutTimes \ {frameOf[lbuf]}
<1>1. /\ lbuf \in Carriers /\ Carriers' = Carriers \ {lbuf}
      /\ frameOf' = frameOf
  BY FrameIsCounted
<1>2. UNCHANGED <<upc, nsent, dspPending>>
  BY DEF LoopDrop, LoopTake, uvars, counts, dsp
<1>3. nsent \in Nat /\ Coming \subseteq 1 .. nsent
  BY NumbersSent DEF ComingInv
<1>4. frameOf[lbuf] \in Coming /\ frameOf[lbuf] \in Nat
  BY <1>1, <1>3 DEF Coming
<1>5. frameOf[lbuf] \notin InSeq(dspPending)
  BY <1>1, <1>4 DEF ComingInv
<1>6. \A b \in Carriers' : frameOf[b] # frameOf[lbuf]
  BY <1>1 DEF ComingInv
<1>7. Coming' = Coming \ {frameOf[lbuf]}
  BY <1>1, <1>2, <1>5, <1>6 DEF Coming, InSeq
<1>8. upc = "send" => frameOf[lbuf] # nsent
  BY <1>3, <1>4 DEF ComingInv, Chaining
<1>9. OutTimes' = OutTimes \ {frameOf[lbuf]}
  BY <1>2, <1>7, <1>8 DEF OutTimes
<1>10. ComingInv'
  <2>1. Coming' \subseteq 1 .. nsent' /\ (upc' \in Chaining => \A t \in Coming' : t < nsent')
    BY <1>2, <1>7 DEF ComingInv
  <2>2. InSeq(dspPending') = InSeq(dspPending)
    BY <1>2
  <2>3. /\ \A b \in Carriers' : \A t \in InSeq(dspPending') : frameOf'[b] < t
        /\ \A b, c \in Carriers' : frameOf'[b] = frameOf'[c] => b = c
    BY <1>1, <2>2 DEF ComingInv
  <2>4. \A i, j \in DOMAIN dspPending' : i < j => dspPending'[i] < dspPending'[j]
    BY <1>2 DEF ComingInv
  <2>5. QED
    BY <2>1, <2>3, <2>4 DEF ComingInv
<1>11. QED
  BY <1>4, <1>9, <1>10 DEF OutTimes

LEMMA SendKeepsComing ==
  ASSUME OutputInv, FrameInv, DataInv, ComingInv, SameCarriers, ChainSend
  PROVE  ComingInv' /\ OutTimes' = OutTimes
<1>1. /\ upc = "send" /\ upc' = "idle" /\ nsent' = nsent
      /\ dspPending' = Append(dspPending, nsent)
      /\ dspPending \in Seq(Times) /\ nsent \in Nat
  BY NumbersSent DEF ChainSend, counts, FrameInv
<1>2. /\ DOMAIN dspPending = 1 .. Len(dspPending) /\ Len(dspPending) \in Nat
      /\ DOMAIN dspPending' = 1 .. Len(dspPending) + 1
      /\ \A i \in 1 .. Len(dspPending) : dspPending'[i] = dspPending[i]
      /\ dspPending'[Len(dspPending) + 1] = nsent
  BY <1>1
<1>3. InSeq(dspPending') = InSeq(dspPending) \cup {nsent}
  <2>1. \A i \in DOMAIN dspPending' :
           i = Len(dspPending) + 1 \/ i \in DOMAIN dspPending
    BY <1>2
  <2>2. \A i \in DOMAIN dspPending : i \in DOMAIN dspPending' /\ dspPending'[i] = dspPending[i]
    BY <1>2
  <2>3. Len(dspPending) + 1 \in DOMAIN dspPending'
    BY <1>2
  <2>4. QED
    BY <1>2, <2>1, <2>2, <2>3 DEF InSeq
<1>4. \A t \in Coming : t < nsent
  BY <1>1 DEF ComingInv, Chaining
<1>5. Coming' = Coming \cup {nsent}
  BY <1>3 DEF Coming, SameCarriers
<1>6. OutTimes' = OutTimes
  BY <1>1, <1>5 DEF OutTimes
<1>7. \A i \in DOMAIN dspPending : dspPending[i] < nsent
  BY <1>4 DEF Coming, InSeq
<1>8. \A i, j \in DOMAIN dspPending' : i < j => dspPending'[i] < dspPending'[j]
  BY <1>2, <1>7 DEF ComingInv
<1>9. \A b \in Carriers' : \A t \in InSeq(dspPending') : frameOf'[b] < t
  BY <1>3, <1>4 DEF ComingInv, Coming, SameCarriers
<1>10. \A b, c \in Carriers' : frameOf'[b] = frameOf'[c] => b = c
  BY DEF ComingInv, SameCarriers
<1>11. Coming' \subseteq 1 .. nsent'
  BY <1>1, <1>5 DEF ComingInv, FrameInv, Chaining
<1>12. QED
  BY <1>1, <1>6, <1>8, <1>9, <1>10, <1>11 DEF ComingInv, Chaining, Storing

LEMMA OthersKeepComing ==
  ASSUME FrameInv, ComingInv, SameCarriers, [Next]_vars, ~ChainSend, ~Counted
  PROVE  /\ ComingInv'
         /\ OutTimes' = IF ChainStore THEN OutTimes \cup {nsent} ELSE OutTimes
         /\ ChainStore => upc = "store" /\ OutTimes = Coming
<1>1. /\ dspPending' = dspPending
      /\ \/ /\ nsent' = nsent /\ (upc' = "send" <=> upc = "send")
            /\ upc' \in Chaining => upc \in Chaining
         \/ nsent' = nsent + 1 /\ upc # "send" /\ upc' # "send"
         \/ ChainStore /\ upc = "store" /\ upc' = "send" /\ nsent' = nsent
  BY PendingUntouched DEF Counted
<1>2. ChainStore => upc = "store" /\ upc' = "send" /\ nsent' = nsent
  BY DEF ChainStore, counts
<1>3. Coming' = Coming
  BY <1>1 DEF Coming, SameCarriers, InSeq
<1>4. OutTimes' = IF ChainStore THEN OutTimes \cup {nsent} ELSE OutTimes
  BY <1>1, <1>2, <1>3 DEF OutTimes
<1>5. Coming' \subseteq 1 .. nsent'
  BY <1>1, <1>3, NumbersSent DEF ComingInv
<1>6. upc' \in Chaining => \A t \in Coming' : t < nsent'
  BY <1>1, <1>3, NumbersSent DEF ComingInv, Chaining, Storing
<1>7. QED
  BY <1>1, <1>2, <1>4, <1>5, <1>6 DEF ComingInv, SameCarriers, OutTimes, InSeq

----------------------------------------------------------------------------
(* The frame that output_loop has, if it was sent after the last flush, is *)
(* the first of those that came back.                                      *)
LoopFirst ==
  lbuf \in Carriers /\ frameOf[lbuf] > flushMark =>
    \A b \in Carriers : frameOf[lbuf] <= frameOf[b]

(* It is then the first of all that are on their way. *)
LEMMA FirstOfAll ==
  ASSUME FrameInv, ComingInv, LoopFirst, lbuf \in Carriers,
         frameOf[lbuf] > flushMark
  PROVE  \A t \in OutTimes : frameOf[lbuf] <= t
<1>1. frameOf[lbuf] \in Coming
  BY DEF Coming
<1>2. \A t \in Coming : t \in Nat
  BY NumbersSent DEF ComingInv
<1>3. \A t \in InSeq(dspPending) : frameOf[lbuf] <= t
  <2>1. \A t \in InSeq(dspPending) : frameOf[lbuf] < t /\ t \in Coming
    BY DEF ComingInv, Coming
  <2>2. QED
    BY <1>1, <1>2, <2>1
<1>4. \A t \in Coming : frameOf[lbuf] <= t
  BY <1>3 DEF LoopFirst, Coming
<1>5. upc = "send" => frameOf[lbuf] <= nsent
  <2>1. frameOf[lbuf] \in Nat /\ nsent \in Nat
    BY <1>1, <1>2, NumbersSent
  <2>2. upc = "send" => frameOf[lbuf] < nsent
    BY <1>1 DEF ComingInv, Chaining
  <2>3. QED
    BY <2>1, <2>2
<1>6. QED
  BY <1>4, <1>5 DEF OutTimes

(* What output_loop takes out of the ring is the timestamp of its frame;   *)
(* what it drops is one of before the flush, and so is its frame.          *)
LEMMA CountKeepsMatch ==
  ASSUME StreamInv, FrameInv, FreshInv, OutputInv, DataInv, ComingInv, RingOrder,
         MatchInv, LoopFirst, LoopDrop \/ LoopTake
  PROVE  MatchInv' /\ (LoopTake => FrameTime = frameOf[lbuf])
<1> DEFINE f == FrameTime
           g == frameOf[lbuf]
<1>1. ts_out_pos \in FrameSlots
  BY DEF LoopDrop, LoopTake, StreamInv, LoopInv
<1>2. /\ f \in RingTimes
      /\ \A t \in RingTimes : f <= t
      /\ HeadFlushed <=> f <= flushMark
      /\ RingTimes' = RingTimes \ {f}
  BY <1>1, HeadIsFirst, HeadKeepsOrder
<1>3. g \in OutTimes /\ OutTimes' = OutTimes \ {g} /\ lbuf \in Carriers
  BY CountKeepsComing, FrameIsCounted
<1>4. /\ IsFiniteSet(OutTimes) /\ IsFiniteSet(RingTimes)
      /\ \A t \in OutTimes \cup RingTimes : t \in Nat
  BY TimesFinite
<1>5. flushMark' = flushMark /\ flushMark \in Nat
  BY NumbersSent DEF FreshInv, LoopDrop, LoopTake, counts
<1>6. /\ Cardinality(RingTimes) = Cardinality(OutTimes)
      /\ {t \in RingTimes : t > flushMark} = {t \in OutTimes : t > flushMark}
  BY DEF MatchInv, Later
<1>7. g > flushMark => \A t \in OutTimes : g <= t
  BY <1>3, FirstOfAll
<1> HIDE DEF f, g
<1>8. Cardinality(RingTimes') = Cardinality(OutTimes')
  <2>1. /\ Cardinality(RingTimes') = Cardinality(RingTimes) - 1
        /\ Cardinality(OutTimes') = Cardinality(OutTimes) - 1
    BY <1>2, <1>3, <1>4, FS_RemoveElement
  <2>2. QED
    BY <2>1, <1>6
<1>9. CASE LoopDrop
  <2>1. f <= flushMark
    BY <1>2, <1>9 DEF LoopDrop, StreamInv, LoopInv
  <2>2. g <= flushMark
    <3> SUFFICES ASSUME g > flushMark  PROVE FALSE
      BY <1>3, <1>4, <1>5
    <3>1. \A t \in OutTimes : t > flushMark
      BY <1>3, <1>4, <1>5, <1>7
    <3>2. OutTimes = RingTimes
      BY <1>4, <1>5, <1>6, <3>1, FlushedMatch
    <3>3. f > flushMark
      BY <1>2, <3>1, <3>2
    <3>4. QED
      BY <1>2, <1>4, <1>5, <2>1, <3>3
  <2>3. {t \in RingTimes' : t > flushMark} = {t \in OutTimes' : t > flushMark}
    BY <1>2, <1>3, <1>4, <1>5, <1>6, <2>1, <2>2
  <2>4. ~LoopTake
    BY <1>9 DEF LoopDrop, LoopTake
  <2>5. QED
    BY <1>5, <1>8, <2>3, <2>4 DEF MatchInv, Later
<1>10. CASE LoopTake
  <2>1. f > flushMark
    BY <1>2, <1>4, <1>5, <1>10 DEF LoopTake, StreamInv, LoopInv
  <2>2. \A t \in RingTimes : t > flushMark
    BY <1>2, <1>4, <1>5, <2>1
  <2>3. RingTimes = OutTimes
    BY <1>4, <1>5, <1>6, <2>2, FlushedMatch
  <2>4. g > flushMark /\ f <= g
    BY <1>2, <1>3, <2>2, <2>3
  <2>5. g <= f
    BY <1>2, <1>7, <2>3, <2>4
  <2>6. f = g
    BY <1>2, <1>3, <1>4, <2>4, <2>5
  <2>7. RingTimes' = OutTimes'
    BY <1>2, <1>3, <2>3, <2>6
  <2>8. QED
    BY <1>8, <2>6, <2>7 DEF MatchInv, Later, f, g
<1>11. QED
  BY <1>9, <1>10

(* Steps of two threads are not the same step. *)
LEMMA DifferentSteps ==
  ASSUME FrameInv, [Next]_vars
  PROVE  /\ ChainStore \/ FlushStopRing \/ NewSegment \/ LoopEvents \/ ChainSend => ~Counted
         /\ \A b \in OutBufs : GotFrame(b) => ~RingSteps
         /\ ChainSend => ~RingSteps
         /\ FlushStopRing \/ NewSegment \/ LoopEvents => ~ChainStore /\ ~ChainSend
<1>1. ASSUME NEW b \in OutBufs, GotFrame(b)  PROVE dspPending' # dspPending
  <2>1. dspPending # <<>> /\ dspPending' = Tail(dspPending) /\ dspPending \in Seq(Times)
    BY <1>1 DEF GotFrame, FrameInv
  <2>2. Len(Tail(dspPending)) # Len(dspPending)
    BY <2>1
  <2>3. QED
    BY <2>1, <2>2
<1>2. ChainStore \/ FlushStopRing \/ NewSegment \/ LoopEvents \/ LoopDrop \/ LoopTake
        => dspPending' = dspPending
  BY DEF ChainStore, FlushStopRing, NewSegment, LoopEvents, LoopDrop, LoopTake, dsp
<1>3. ChainSend \/ ChainStore => upc' # upc /\ upc \in {"send", "store"}
  BY DEF ChainSend, ChainStore
<1>4. LoopDrop \/ LoopTake \/ FlushStopRing \/ LoopEvents => upc' = upc
  BY DEF LoopDrop, LoopTake, FlushStopRing, LoopEvents, uvars
<1>5. NewSegment => upc = "idle" /\ lpc' = lpc
  BY DEF NewSegment, SinkPadOpen, lvars
<1>6. LoopDrop \/ LoopTake => lpc \in {"drop", "take"} /\ lpc' # lpc
  BY DEF LoopDrop, LoopTake
<1>7. LoopEvents => lpc = "events"
  BY DEF LoopEvents
<1>8. FlushStopRing => lpc' = lpc
  BY DEF FlushStopRing, lvars
<1>9. \A b \in OutBufs : GotFrame(b) => upc' = upc
  BY DEF GotFrame, GotOutput, uvars
<1>10. ChainSend => upc = "send"
  BY DEF ChainSend
<1>11. ChainStore => upc = "store"
  BY DEF ChainStore
<1>12. QED
  BY <1>1, <1>2, <1>3, <1>4, <1>5, <1>6, <1>7, <1>8, <1>9, <1>10, <1>11
     DEF Counted, RingSteps

(* So the ring and the buffers match after every step, and their order     *)
(* remains.                                                                *)
LEMMA MatchStep ==
  ASSUME StreamInv, FrameInv, FreshInv, OutputInv, SeekInv, DataInv,
         ComingInv, RingOrder, MatchInv,
         LoopDrop \/ LoopTake => LoopFirst, [Next]_vars
  PROVE  ComingInv' /\ RingOrder' /\ MatchInv'
<1>1. CASE LoopDrop \/ LoopTake
  BY <1>1, CountKeepsComing, HeadKeepsOrder, CountKeepsMatch
<1>2. ASSUME NEW b \in OutBufs, GotFrame(b)
      PROVE  ComingInv' /\ RingOrder' /\ MatchInv'
  <2>1. ComingInv' /\ OutTimes' = OutTimes
    BY <1>2, ReturnKeepsComing
  <2>2. RingOrder' /\ RingTimes' = RingTimes
    BY <1>2, DifferentSteps, OthersKeepOrder
  <2>3. flushMark' = flushMark
    BY <1>2 DEF GotFrame, GotOutput
  <2>4. QED
    BY <2>1, <2>2, <2>3 DEF MatchInv, Later
<1>3. CASE ChainSend
  <2>1. ComingInv' /\ OutTimes' = OutTimes
    BY <1>3, SendKeepsComing, DifferentSteps, CarriersKeep
  <2>2. RingOrder' /\ RingTimes' = RingTimes
    BY <1>3, DifferentSteps, OthersKeepOrder
  <2>3. flushMark' = flushMark
    BY <1>3 DEF ChainSend, counts
  <2>4. QED
    BY <2>1, <2>2, <2>3 DEF MatchInv, Later
<1>4. CASE ChainStore
  <2>1. /\ ComingInv' /\ OutTimes' = OutTimes \cup {nsent}
        /\ upc = "store" /\ OutTimes = Coming
    <3>1. ~ChainSend /\ ~Counted
      BY <1>4, DifferentSteps DEF ChainSend, ChainStore
    <3>2. SameCarriers
      BY <3>1, CarriersKeep
    <3>3. QED
      BY <1>4, <3>1, <3>2, OthersKeepComing
  <2>2. RingOrder' /\ RingTimes' = RingTimes \cup {nsent} /\ nsent \notin RingTimes
    BY <1>4, StoreKeepsOrder
  <2>3. nsent \notin OutTimes
    <3>1. \A t \in Coming : t < nsent
      BY <2>1 DEF ComingInv, Chaining, Storing
    <3>2. QED
      BY <2>1, <3>1, NumbersSent
  <2>4. Cardinality(RingTimes') = Cardinality(OutTimes')
    <3>1. /\ Cardinality(RingTimes \cup {nsent}) = Cardinality(RingTimes) + 1
          /\ Cardinality(OutTimes \cup {nsent}) = Cardinality(OutTimes) + 1
      BY <2>2, <2>3, TimesFinite, FS_AddElement
    <3>2. QED
      BY <2>1, <2>2, <3>1 DEF MatchInv
  <2>5. flushMark' = flushMark
    BY <1>4 DEF ChainStore, counts
  <2>6. QED
    BY <2>1, <2>2, <2>4, <2>5 DEF MatchInv, Later
<1>5. CASE ~Counted /\ ~ChainStore /\ ~ChainSend
  <2>1. ComingInv' /\ OutTimes' = OutTimes
    BY <1>5, CarriersKeep, OthersKeepComing
  <2>2. RingOrder' /\ RingTimes' = RingTimes
    BY <1>5, EventsKeepOrder, FlushKeepsOrder, OthersKeepOrder
       DEF RingSteps, Counted
  <2>3. CASE FlushStopRing
    <3>1. flushMark' = nsent
      BY <2>3 DEF FlushStopRing
    <3>2. \A t \in RingTimes \cup OutTimes : ~(t > nsent)
      BY TimesFinite
    <3>3. QED
      BY <2>1, <2>2, <3>1, <3>2 DEF MatchInv, Later
  <2>4. CASE ~FlushStopRing
    <3>1. flushMark' = flushMark
      <4>1. CASE NewSegment \/ LoopEvents
        BY <4>1 DEF NewSegment, LoopEvents, counts
      <4>2. CASE ~RingSteps
        BY <4>2, RingUntouched
      <4>3. QED
        BY <4>1, <4>2, <1>5, <2>4 DEF RingSteps, Counted
    <3>2. QED
      BY <2>1, <2>2, <3>1 DEF MatchInv, Later
  <2>5. QED
    BY <2>3, <2>4
<1>6. QED
  BY <1>1, <1>2, <1>3, <1>4, <1>5 DEF Counted

----------------------------------------------------------------------------
(* The queue of output buffers keeps the order of the frames, but for the  *)
(* buffers that output_loop puts back: that it does only while `status' is *)
(* not OK, and it pushes nothing before FLUSH_STOP has set it to OK.       *)
Scrambled == (status # "OK" /\ apc # "st_status") \/ lpc = "pause"

QueueOrdered ==
  \A i, j \in DOMAIN q1 :
    /\ i < j
    /\ q1[i] \in Carriers /\ q1[j] \in Carriers
    /\ frameOf[q1[i]] > flushMark
    => frameOf[q1[i]] < frameOf[q1[j]]

StatusInv == lpc \in {"pausetask", "pauseeos", "pushback"} => status # "OK"

OrderInv ==
  /\ ~Scrambled => QueueOrdered /\ (lpc = "got" => LoopFirst)
  /\ lpc \in Checked => LoopFirst

(* `status' becomes OK by FLUSH_STOP alone, and pause_task changes it      *)
(* first.                                                                  *)
LEMMA StatusMoves ==
  ASSUME PauseInv, OutputInv, [Next]_vars
  PROVE  /\ status # "OK" => status' # "OK" \/ (apc = "st_status" /\ lpc' = lpc)
         /\ apc' = "st_status" => apc = "st_status" \/ FlushStopRing
         /\ lpc = "pause" => lpc' = "pause" \/ (status' # "OK" /\ apc' = apc)
         /\ lpc' \in {"pausetask", "pauseeos", "pushback"} =>
              lpc \in {"pausetask", "pauseeos", "pushback"} \/ status' # "OK"
<1> USE DEF flags, lvars, WakeLoop
<1>1. CASE UpstreamStarts
  BY <1>1 DEF UpstreamStarts, ChainPop, EosDecide, NewSegment
<1>2. CASE Upstream
  BY <1>2 DEF Upstream, ChainResumed, ChainStatus, ChainStore, ChainSend,
              EosMark, EosPush
<1>3. CASE FlushStart \/ Seek
  BY <1>3 DEF FlushStart, Seek, FlushStartStatus, FlushStartDisable0,
              FlushStartDisable1, FlushStartPause, FlushStartDone, FlushStop,
              FlushStopRing, FlushStopStatus, FlushStopEnable0,
              FlushStopEnable1, FlushStopTask, DisableOutput
<1>4. CASE LoopPop \/ LoopResumed \/ LoopStatus \/ LoopPushBack \/ LoopCount
             \/ LoopEvents
  BY <1>4 DEF LoopPop, LoopResumed, LoopStatus, LoopPushBack, LoopCount, LoopEvents
<1>5. CASE LoopSort \/ LoopDrop \/ LoopWrap \/ LoopTake
  BY <1>5 DEF LoopSort, LoopDrop, LoopWrap, LoopTake
<1>6. CASE LoopPush \/ LoopLeave \/ LoopEos \/ LoopEosPush
  BY <1>6 DEF LoopPush, LoopLeave, LoopEos, LoopEosPush
<1>7. CASE Pause
  BY <1>7 DEF Pause, PauseInv
<1>8. CASE PauseTask \/ PauseEos
  BY <1>8 DEF PauseTask, PauseEos, PauseReturn, OutputInv
<1>9. ASSUME NEW b \in InBufs, GotInput(b)  PROVE UNCHANGED <<status, apc, lpc>>
  BY <1>9 DEF GotInput
<1>10. ASSUME NEW b \in OutBufs, GotFrame(b) \/ GotEmpty(b) \/ Release(b)
       PROVE  /\ UNCHANGED <<status, apc>>
              /\ lpc' = lpc \/ (lpc = "asleep" /\ lpc' = "woken")
  BY <1>10 DEF GotFrame, GotEmpty, GotOutput, Release
<1>11. CASE Timeout \/ GotError \/ DspThread \/ UNCHANGED vars
  BY <1>11 DEF Timeout, GotError, DspThread, TimeoutDisable, ErrorDisable0,
               ErrorDisable1, DisableOutput, vars
<1>12. QED
  BY <1>1, <1>2, <1>3, <1>4, <1>5, <1>6, <1>7, <1>8, <1>9, <1>10, <1>11
     DEF Next, OutputLoop

LEMMA ScrambledStays ==
  ASSUME SeekInv, PauseInv, OutputInv, [Next]_vars, ~FlushStopRing, Scrambled
  PROVE  Scrambled'
<1>1. lpc = "pause" => apc # "st_status"
  BY DEF SeekInv, Stopped, Restarting
<1>2. QED
  BY <1>1, StatusMoves DEF Scrambled

(* What the steps do to the queue and to output_loop's buffer.             *)
PutBack == LoopPushBack \/ (LoopWrap /\ lpc' = "pause") \/ LoopEosPush

LEMMA QueueMoves ==
  ASSUME OutputInv, [Next]_vars, ~PutBack,
         ~ \E b \in OutBufs : GotFrame(b) \/ GotEmpty(b)
  PROVE  \/ /\ q1' = q1
            /\ lpc' \in Checked => /\ lbuf' = lbuf
                                   /\ \/ lpc \in Checked
                                      \/ lpc = "got" /\ status = "OK"
            /\ lpc' = "got" => lpc = "got" /\ lbuf' = lbuf
         \/ /\ q1 # <<>> /\ q1' = Tail(q1) /\ lbuf' = Head(q1)
            /\ lpc' = "got" /\ lpc \in WithoutBuffer
<1> USE DEF PutBack, Checked, queues, lvars, WakeLoop, WithoutBuffer
<1>1. CASE UpstreamStarts
  BY <1>1 DEF UpstreamStarts, ChainPop, EosDecide, NewSegment
<1>2. CASE Upstream
  BY <1>2 DEF Upstream, ChainResumed, ChainStatus, ChainStore, ChainSend,
              EosMark, EosPush
<1>3. CASE FlushStart \/ Seek
  BY <1>3 DEF FlushStart, Seek, FlushStartStatus, FlushStartDisable0,
              FlushStartDisable1, FlushStartPause, FlushStartDone, FlushStop,
              FlushStopRing, FlushStopStatus, FlushStopEnable0,
              FlushStopEnable1, FlushStopTask, DisableOutput
<1>4. CASE LoopPop \/ LoopResumed
  BY <1>4 DEF LoopPop, LoopResumed
<1>5. CASE LoopStatus \/ LoopCount \/ LoopEvents \/ LoopSort
  BY <1>5 DEF LoopStatus, LoopCount, LoopEvents, LoopSort
<1>6. CASE LoopDrop \/ LoopWrap \/ LoopTake
  BY <1>6 DEF LoopDrop, LoopWrap, LoopTake
<1>7. CASE LoopPush \/ LoopLeave \/ LoopEos
  BY <1>7 DEF LoopPush, LoopLeave, LoopEos
<1>8. CASE Pause \/ PauseTask \/ PauseEos
  BY <1>8 DEF Pause, PauseTask, PauseEos, PauseReturn, OutputInv
<1>9. ASSUME NEW b \in InBufs, GotInput(b)  PROVE UNCHANGED <<q1, lpc, lbuf>>
  BY <1>9 DEF GotInput
<1>10. ASSUME NEW b \in OutBufs, Release(b)  PROVE UNCHANGED <<q1, lpc, lbuf>>
  BY <1>10 DEF Release
<1>11. CASE Timeout \/ GotError \/ DspThread \/ UNCHANGED vars
  BY <1>11 DEF Timeout, GotError, DspThread, TimeoutDisable, ErrorDisable0,
               ErrorDisable1, DisableOutput, vars
<1>12. QED
  BY <1>1, <1>2, <1>3, <1>4, <1>5, <1>6, <1>7, <1>8, <1>9, <1>10, <1>11
     DEF Next, OutputLoop

(* FLUSH_STOP leaves no frame that comes after it. *)
LEMMA FlushOrders ==
  ASSUME FrameInv, SeekInv, ComingInv, SameCarriers, FlushStopRing
  PROVE  OrderInv'
<1>1. lpc' = "idle" /\ flushMark' = nsent /\ Carriers' = Carriers
      /\ \A b \in Carriers : frameOf'[b] = frameOf[b]
  BY DEF FlushStopRing, SeekInv, Stopped, Restarting, lvars, SameCarriers
<1>2. \A b \in Carriers : frameOf[b] \in 1 .. nsent
  BY DEF ComingInv, Coming
<1>3. \A b \in Carriers' : ~(frameOf'[b] > flushMark')
  BY <1>1, <1>2, NumbersSent
<1>4. QueueOrdered'
  BY <1>3 DEF QueueOrdered
<1>5. QED
  BY <1>1, <1>4 DEF OrderInv, Checked

(* A buffer that is put back may come out of its place. *)
LEMMA PutBackScrambles ==
  ASSUME SeekInv, OutputInv, StatusInv, PutBack
  PROVE  OrderInv'
<1>1. lpc' \notin Checked \cup {"got"}
  BY DEF PutBack, LoopPushBack, LoopEosPush, Checked
<1>2. Scrambled'
  <2>1. CASE LoopPushBack
    <3>1. lpc = "pushback" /\ UNCHANGED <<status, apc>>
      BY <2>1 DEF LoopPushBack, flags
    <3>2. QED
      BY <3>1 DEF Scrambled, StatusInv, SeekInv, Stopped, Restarting
  <2>2. CASE lpc' = "pause"
    BY <2>2 DEF Scrambled
  <2>3. QED
    BY <2>1, <2>2 DEF PutBack, LoopEosPush
<1>3. QED
  BY <1>1, <1>2 DEF OrderInv

(* The buffers that keep their frames keep their order. *)
LEMMA OrderStays ==
  ASSUME FrameInv, OutputInv, SeekInv, PauseInv, OrderInv, SameCarriers,
         ComingInv, [Next]_vars, ~FlushStopRing, ~PutBack,
         flushMark' = flushMark,
         ~ \E b \in OutBufs : GotFrame(b) \/ GotEmpty(b)
  PROVE  OrderInv'
<1>1. /\ Carriers' = Carriers /\ \A b \in Carriers : frameOf'[b] = frameOf[b]
      /\ ~Scrambled' => ~Scrambled
      /\ q1 \in Seq(OutBufs)
  BY ScrambledStays DEF SameCarriers, OutputInv
<1>2. LoopFirst /\ lbuf' = lbuf => LoopFirst'
  BY <1>1 DEF LoopFirst
<1>3. CASE /\ q1' = q1
           /\ lpc' \in Checked => /\ lbuf' = lbuf
                                  /\ \/ lpc \in Checked
                                     \/ lpc = "got" /\ status = "OK"
           /\ lpc' = "got" => lpc = "got" /\ lbuf' = lbuf
  <2>1. QueueOrdered => QueueOrdered'
    BY <1>1, <1>3 DEF QueueOrdered
  <2>2. lpc = "got" /\ status = "OK" => ~Scrambled
    BY DEF Scrambled
  <2>3. QED
    BY <1>1, <1>2, <1>3, <2>1, <2>2 DEF OrderInv
<1>4. CASE /\ q1 # <<>> /\ q1' = Tail(q1) /\ lbuf' = Head(q1)
           /\ lpc' = "got" /\ lpc \in WithoutBuffer
  <2>1. /\ DOMAIN q1 = 1 .. Len(q1) /\ Len(q1) \in Nat \ {0} /\ Head(q1) = q1[1]
        /\ DOMAIN q1' = 1 .. Len(q1) - 1
        /\ \A i \in 1 .. Len(q1) - 1 : q1'[i] = q1[i + 1]
    BY <1>1, <1>4
  <2>2. QueueOrdered => QueueOrdered'
    <3> SUFFICES ASSUME QueueOrdered, NEW i \in DOMAIN q1', NEW j \in DOMAIN q1',
                        i < j, q1'[i] \in Carriers', q1'[j] \in Carriers',
                        frameOf'[q1'[i]] > flushMark'
                 PROVE  frameOf'[q1'[i]] < frameOf'[q1'[j]]
      BY DEF QueueOrdered
    <3>1. /\ i + 1 \in DOMAIN q1 /\ j + 1 \in DOMAIN q1 /\ i + 1 < j + 1
          /\ q1'[i] = q1[i + 1] /\ q1'[j] = q1[j + 1]
      BY <2>1
    <3>2. frameOf[q1[i + 1]] < frameOf[q1[j + 1]]
      BY <1>1, <3>1 DEF QueueOrdered
    <3>3. QED
      BY <1>1, <3>1, <3>2
  <2>3. QueueOrdered => LoopFirst'
    <3> SUFFICES ASSUME QueueOrdered, lbuf' \in Carriers,
                        frameOf[lbuf'] > flushMark, NEW b \in Carriers
                 PROVE  frameOf[lbuf'] <= frameOf[b]
      BY <1>1 DEF LoopFirst
    <3>1. b \in InSeq(q1)
      BY <1>4, BaseAssumption DEF Carriers, LoopCarries, OutputInv
    <3>2. PICK j \in DOMAIN q1 : b = q1[j]
      BY <3>1 DEF InSeq
    <3>3. frameOf[lbuf'] \in Nat /\ frameOf[b] \in Nat
      BY NumbersSent DEF ComingInv, Coming
    <3>4. CASE j = 1
      BY <1>4, <2>1, <3>2, <3>3, <3>4
    <3>5. CASE j # 1
      <4>1. 1 < j /\ 1 \in DOMAIN q1 /\ q1[1] = lbuf'
        BY <1>4, <2>1, <3>5
      <4>2. frameOf[lbuf'] < frameOf[b]
        BY <3>2, <4>1 DEF QueueOrdered
      <4>3. QED
        BY <3>3, <4>2
    <3>6. QED
      BY <3>4, <3>5
  <2>4. QED
    BY <1>1, <1>4, <2>2, <2>3 DEF OrderInv, Checked
<1>5. QED
  BY <1>3, <1>4, QueueMoves

(* The DSP returns the frames in their order. *)
LEMMA ReturnKeepsOrder ==
  ASSUME FrameInv, OutputInv, DataInv, SeekInv, PauseInv, OrderInv, ComingInv,
         [Next]_vars, ~FlushStopRing, NEW b \in OutBufs,
         \/ GotFrame(b)
         \/ GotEmpty(b) /\ SameCarriers
  PROVE  OrderInv'
<1>1. /\ b \in dspOut /\ b \notin InSeq(q1) /\ q1 \in Seq(OutBufs)
      /\ q1' = Append(q1, b)
      /\ UNCHANGED <<lbuf, flushMark>>
      /\ lpc' = lpc \/ (lpc = "asleep" /\ lpc' = "woken")
      /\ ~Scrambled' => ~Scrambled
  BY ScrambledStays
     DEF GotFrame, GotEmpty, GotOutput, WakeLoop, OutputInv, OutputConserved
<1>2. /\ Carriers' \subseteq Carriers \cup {b}
      /\ \A c \in Carriers : frameOf'[c] = frameOf[c]
      /\ b \in Carriers' => \A c \in Carriers : frameOf[c] < frameOf'[b]
      /\ b \in Carriers' => frameOf'[b] \in Nat
  <2>1. CASE GotFrame(b)
    <3>1. /\ Carriers' = Carriers \cup {b}
          /\ dspPending # <<>> /\ frameOf'[b] = Head(dspPending)
          /\ \A c \in Carriers : frameOf'[c] = frameOf[c]
      BY <2>1, FrameReturns
    <3>2. Head(dspPending) \in InSeq(dspPending)
      <4>1. dspPending \in Seq(Times) /\ dspPending # <<>>
        BY <3>1 DEF FrameInv
      <4>2. 1 \in DOMAIN dspPending /\ Head(dspPending) = dspPending[1]
        BY <4>1
      <4>3. QED
        BY <4>2 DEF InSeq
    <3>3. Head(dspPending) \in Nat
      BY <3>2, NumbersSent DEF ComingInv, Coming
    <3>4. QED
      BY <3>1, <3>2, <3>3 DEF ComingInv
  <2>2. CASE GotEmpty(b) /\ SameCarriers
    <3>1. frameOf'[b] = NoTime
      BY <2>2 DEF GotEmpty, GotOutput, FrameInv
    <3>2. b \notin Carriers'
      BY <3>1 DEF Carriers
    <3>3. QED
      BY <2>2, <3>2 DEF SameCarriers
  <2>3. QED
    BY <2>1, <2>2
<1>3. \A c \in Carriers : frameOf[c] \in Nat
  BY NumbersSent DEF ComingInv, Coming
<1>4. lpc' \in Checked \cup {"got"} => lpc' = lpc /\ lbuf # b
  BY <1>1 DEF Checked, OutputInv, OutputConserved, WithBuffer
<1>5. /\ DOMAIN q1 = 1 .. Len(q1) /\ Len(q1) \in Nat
      /\ DOMAIN q1' = 1 .. Len(q1) + 1
      /\ \A i \in 1 .. Len(q1) : q1'[i] = q1[i]
      /\ q1'[Len(q1) + 1] = b
  BY <1>1
<1>6. LoopFirst /\ lbuf # b => LoopFirst'
  <2> SUFFICES ASSUME LoopFirst, lbuf # b, lbuf \in Carriers',
                      frameOf'[lbuf] > flushMark, NEW c \in Carriers'
               PROVE  frameOf'[lbuf] <= frameOf'[c]
    BY <1>1 DEF LoopFirst
  <2>1. lbuf \in Carriers /\ frameOf'[lbuf] = frameOf[lbuf]
    BY <1>2
  <2>2. CASE c = b
    BY <1>2, <1>3, <2>1, <2>2
  <2>3. CASE c # b
    BY <1>2, <2>1, <2>3 DEF LoopFirst
  <2>4. QED
    BY <2>2, <2>3
<1>7. QueueOrdered => QueueOrdered'
  <2> SUFFICES ASSUME QueueOrdered, NEW i \in DOMAIN q1', NEW j \in DOMAIN q1',
                      i < j, q1'[i] \in Carriers', q1'[j] \in Carriers',
                      frameOf'[q1'[i]] > flushMark
               PROVE  frameOf'[q1'[i]] < frameOf'[q1'[j]]
    BY <1>1 DEF QueueOrdered
  <2>1. i \in DOMAIN q1 /\ q1'[i] = q1[i]
    BY <1>5
  <2>2. q1[i] # b
    BY <1>1, <2>1 DEF InSeq
  <2>3. q1[i] \in Carriers /\ frameOf'[q1[i]] = frameOf[q1[i]]
    BY <1>2, <2>1, <2>2
  <2>4. CASE j = Len(q1) + 1
    BY <1>2, <1>5, <2>1, <2>3, <2>4
  <2>5. CASE j \in DOMAIN q1
    <3>1. q1'[j] = q1[j] /\ q1[j] # b
      BY <1>1, <1>5, <2>5 DEF InSeq
    <3>2. q1[j] \in Carriers /\ frameOf'[q1[j]] = frameOf[q1[j]]
      BY <1>2, <3>1
    <3>3. frameOf[q1[i]] < frameOf[q1[j]]
      BY <2>1, <2>3, <2>5, <3>2 DEF QueueOrdered
    <3>4. QED
      BY <2>1, <2>3, <3>1, <3>2, <3>3
  <2>6. QED
    BY <1>5, <2>4, <2>5
<1>8. QED
  BY <1>1, <1>4, <1>6, <1>7 DEF OrderInv

LEMMA CountKeepsOrder ==
  ASSUME OutputInv, DataInv, SeekInv, PauseInv, OrderInv, [Next]_vars,
         LoopDrop \/ LoopTake
  PROVE  OrderInv'
<1>1. /\ Carriers' = Carriers \ {lbuf} /\ frameOf' = frameOf /\ q1' = q1
      /\ lpc' \in {"leave", "push"} /\ flushMark' = flushMark
  BY FrameIsCounted DEF LoopDrop, LoopTake, counts
<1>2. ~FlushStopRing
  BY DEF LoopDrop, LoopTake, FlushStopRing, lvars
<1>3. QueueOrdered => QueueOrdered'
  BY <1>1 DEF QueueOrdered
<1>4. QED
  BY <1>1, <1>2, <1>3, ScrambledStays DEF OrderInv, Checked

LEMMA OrderStep ==
  ASSUME StreamInv, FrameInv, OutputInv, SeekInv, PauseInv, DataInv, ComingInv,
         RingOrder, MatchInv, StatusInv, OrderInv, [Next]_vars
  PROVE  OrderInv'
<1>1. CASE LoopDrop \/ LoopTake
  BY <1>1, CountKeepsOrder
<1>2. CASE PutBack
  BY <1>2, PutBackScrambles
<1>3. CASE FlushStopRing
  BY <1>3, DifferentSteps, CarriersKeep, FlushOrders
<1>4. ASSUME NEW b \in OutBufs, GotFrame(b) \/ GotEmpty(b), ~Counted \/ GotFrame(b)
      PROVE  OrderInv'
  <2>1. ~FlushStopRing
    BY <1>4 DEF GotFrame, GotEmpty, GotOutput, FlushStopRing, counts
  <2>2. QED
    BY <1>4, <2>1, CarriersKeep, ReturnKeepsOrder
<1>5. CASE /\ ~Counted /\ ~PutBack /\ ~FlushStopRing
           /\ ~ \E b \in OutBufs : GotFrame(b) \/ GotEmpty(b)
  <2>1. SameCarriers
    BY <1>5, CarriersKeep
  <2>2. flushMark' = flushMark
    <3>1. CASE RingSteps
      BY <3>1, <1>5
         DEF RingSteps, Counted, ChainStore, NewSegment, LoopEvents, counts
    <3>2. CASE ~RingSteps
      BY <3>2, RingUntouched
    <3>3. QED
      BY <3>1, <3>2
  <2>3. QED
    BY <1>5, <2>1, <2>2, OrderStays
<1>6. QED
  BY <1>1, <1>2, <1>3, <1>4, <1>5 DEF Counted

(* All of it together. *)
OwnInv == ComingInv /\ RingOrder /\ MatchInv /\ StatusInv /\ OrderInv

LEMMA OwnStart == Init => OwnInv
<1> SUFFICES ASSUME Init  PROVE OwnInv
  OBVIOUS
<1>1. FrameSlots = {}
  <2>1. Outstanding = 0 /\ ts_out_pos \in Slots
    BY InitHolds DEF Init, RingInv, TsTypeOK
  <2>2. QED
    BY <2>1, DistType DEF FrameSlots
<1>2. Carriers = {}
  BY DEF Init, Carriers
<1>3. Coming = {} /\ OutTimes = {}
  BY <1>2 DEF Init, Coming, OutTimes, InSeq
<1>4. RingTimes = {}
  BY <1>1 DEF RingTimes
<1>5. ComingInv
  BY <1>2, <1>3 DEF Init, ComingInv, Chaining, Storing, InSeq
<1>6. RingOrder
  BY <1>1, <1>4 DEF Init, RingOrder, Storing
<1>7. MatchInv
  BY <1>3, <1>4 DEF MatchInv
<1>8. OrderInv /\ StatusInv
  BY <1>2 DEF Init, OrderInv, StatusInv, QueueOrdered, Checked
<1>9. QED
  BY <1>5, <1>6, <1>7, <1>8 DEF OwnInv

LEMMA OwnInvariant == Spec => []OwnInv
<1>1. /\ StreamInv /\ FrameInv /\ FreshInv /\ OutputInv /\ FlowInv /\ DataInv
      /\ OwnInv /\ [Next]_vars
      => OwnInv'
  <2> SUFFICES ASSUME StreamInv, FrameInv, FreshInv, OutputInv, SeekInv, PauseInv,
                      DataInv, ComingInv, RingOrder, MatchInv, StatusInv, OrderInv,
                      [Next]_vars
               PROVE  OwnInv'
    BY DEF OwnInv, FlowInv
  <2>1. LoopDrop \/ LoopTake => LoopFirst
    BY DEF LoopDrop, LoopTake, OrderInv, Checked
  <2>2. ComingInv' /\ RingOrder' /\ MatchInv'
    BY <2>1, MatchStep
  <2>3. OrderInv'
    BY OrderStep
  <2>4. StatusInv'
    BY StatusMoves DEF StatusInv, SeekInv, Stopped, Restarting
  <2>5. QED
    BY <2>2, <2>3, <2>4 DEF OwnInv
<1>2. QED
  BY OwnStart, <1>1, StreamInvariant, FrameInvariant, FreshInvariant,
     OutputInvariant, FlowInvariant, DataInvariant, PTL DEF Spec

----------------------------------------------------------------------------
(* The buffer that is pushed, and its timestamp, wait for gst_pad_push.    *)
LEMMA PushStays ==
  ASSUME OutputInv, FrameInv, [Next]_vars, ~LoopTake, lpc' = "push"
  PROVE  /\ lpc = "push" /\ UNCHANGED <<lbuf, lts>>
         /\ lbuf # None => frameOf'[lbuf] = frameOf[lbuf]
<1> USE DEF lvars, dsp, WakeLoop
<1>1. CASE UpstreamStarts
  BY <1>1 DEF UpstreamStarts, ChainPop, EosDecide, NewSegment
<1>2. CASE Upstream
  BY <1>2 DEF Upstream, ChainResumed, ChainStatus, ChainStore, ChainSend,
              EosMark, EosPush
<1>3. CASE FlushStart \/ Seek
  BY <1>3 DEF FlushStart, Seek, FlushStartStatus, FlushStartDisable0,
              FlushStartDisable1, FlushStartPause, FlushStartDone, FlushStop,
              FlushStopRing, FlushStopStatus, FlushStopEnable0,
              FlushStopEnable1, FlushStopTask, DisableOutput
<1>4. CASE OutputLoop
  BY <1>4 DEF OutputLoop, LoopPop, LoopResumed, LoopStatus, LoopPushBack,
              LoopCount, LoopEvents, LoopSort, LoopDrop, LoopWrap, LoopPush,
              LoopLeave, LoopEos, LoopEosPush, Pause, PauseTask, PauseEos,
              PauseReturn, OutputInv
<1>5. ASSUME NEW b \in InBufs, GotInput(b)
      PROVE  UNCHANGED <<lpc, lbuf, lts, frameOf>>
  BY <1>5 DEF GotInput
<1>6. ASSUME NEW b \in OutBufs, GotFrame(b) \/ GotEmpty(b)
      PROVE  /\ lpc = "push" /\ UNCHANGED <<lbuf, lts>>
             /\ lbuf # None => frameOf'[lbuf] = frameOf[lbuf]
  <2>1. PICK f : GotOutput(b, f)
    BY <1>6 DEF GotFrame, GotEmpty
  <2>2. lpc = "push" /\ UNCHANGED <<lbuf, lts>> /\ lbuf \in OutBufs /\ lbuf # b
    BY <2>1 DEF GotOutput, OutputInv, OutputConserved, WithBuffer
  <2>3. QED
    BY <2>1, <2>2 DEF GotOutput, FrameInv
<1>7. ASSUME NEW b \in OutBufs, Release(b)
      PROVE  UNCHANGED <<lpc, lbuf, lts, frameOf>>
  BY <1>7 DEF Release
<1>8. CASE Timeout \/ GotError \/ DspThread \/ UNCHANGED vars
  BY <1>8 DEF Timeout, GotError, DspThread, TimeoutDisable, ErrorDisable0,
              ErrorDisable1, DisableOutput, vars
<1>9. QED
  BY <1>1, <1>2, <1>3, <1>4, <1>5, <1>6, <1>7, <1>8 DEF Next

(* The timestamp that output_loop takes from the head of the ring is the   *)
(* one of the frame in its buffer, whatever has been flushed, and whatever *)
(* the DSP has returned empty, in the meantime.                            *)
THEOREM OwnTimestampPushed == Spec => []OwnTimestamp
<1>1. Init => OwnTimestamp
  BY DEF Init, OwnTimestamp
<1>2. /\ StreamInv /\ FrameInv /\ FreshInv /\ OutputInv /\ DataInv /\ OwnInv
      /\ OwnTimestamp /\ [Next]_vars
      => OwnTimestamp'
  <2> SUFFICES ASSUME StreamInv, FrameInv, FreshInv, OutputInv, DataInv, OwnInv,
                      OwnTimestamp, [Next]_vars
               PROVE  OwnTimestamp'
    OBVIOUS
  <2>1. CASE LoopTake
    <3>1. LoopFirst /\ ComingInv /\ RingOrder /\ MatchInv
      BY <2>1 DEF LoopTake, OwnInv, OrderInv, Checked
    <3>2. FrameTime = frameOf[lbuf]
      BY <2>1, <3>1, CountKeepsMatch
    <3>3. lts' = FrameTime /\ UNCHANGED <<lbuf, frameOf>>
      BY <2>1 DEF LoopTake, dsp
    <3>4. QED
      BY <3>2, <3>3 DEF OwnTimestamp
  <2>2. CASE ~LoopTake
    BY <2>2, PushStays DEF OwnTimestamp
  <2>3. QED
    BY <2>1, <2>2
<1>3. QED
  BY <1>1, <1>2, StreamInvariant, FrameInvariant, FreshInvariant, OutputInvariant,
     DataInvariant, OwnInvariant, PTL DEF Spec

----------------------------------------------------------------------------
(* The EOS that is not deferred.                                           *)

(* sink_event has found no frame to wait for, and none is stored while it  *)
(* has the stream lock.                                                    *)
EosRing == upc = "eospush" /\ status = "OK" => ts_count = 0

(* Who sets upc to "eospush", and who counts frames.                       *)
LEMMA EosUntouched ==
  ASSUME [Next]_vars, upc' = "eospush"
  PROVE  \/ EosDecide
         \/ upc = "eospush" /\ (ts_count' = ts_count \/ LoopDrop \/ LoopTake)
<1> USE DEF uvars, tsVars, WakeUpstream
<1>1. CASE UpstreamStarts
  BY <1>1 DEF UpstreamStarts, ChainPop, NewSegment, SinkPadOpen
<1>2. CASE Upstream
  BY <1>2 DEF Upstream, ChainResumed, ChainStatus, ChainStore, ChainSend,
              EosMark, EosPush
<1>3. CASE FlushStart \/ Seek
  BY <1>3 DEF FlushStart, Seek, FlushStartStatus, FlushStartDisable0,
              FlushStartDisable1, FlushStartPause, FlushStartDone, FlushStop,
              FlushStopRing, FlushRing, FlushStopStatus, FlushStopEnable0,
              FlushStopEnable1, FlushStopTask, DisableInput
<1>4. CASE LoopPop \/ LoopResumed \/ LoopStatus \/ LoopPushBack \/ LoopCount
             \/ LoopEvents \/ LoopSort \/ LoopDrop \/ LoopWrap \/ LoopTake
  BY <1>4 DEF LoopPop, LoopResumed, LoopStatus, LoopPushBack, LoopCount,
              LoopEvents, ClearEvents, LoopSort, LoopDrop, LoopWrap, LoopTake
<1>5. CASE LoopPush \/ LoopLeave \/ LoopEos \/ LoopEosPush \/ Pause
             \/ PauseTask \/ PauseEos
  BY <1>5 DEF LoopPush, LoopLeave, LoopEos, LoopEosPush, Pause, PauseTask,
              PauseEos, DisableInput
<1>6. ASSUME NEW b \in InBufs, GotInput(b)
      PROVE  upc = "eospush" /\ ts_count' = ts_count
  BY <1>6 DEF GotInput
<1>7. ASSUME NEW b \in OutBufs, GotFrame(b) \/ GotEmpty(b) \/ Release(b)
      PROVE  upc = "eospush" /\ ts_count' = ts_count
  BY <1>7 DEF GotFrame, GotEmpty, GotOutput, Release
<1>8. CASE Timeout \/ GotError \/ DspThread \/ UNCHANGED vars
  BY <1>8 DEF Timeout, GotError, DspThread, TimeoutDisable, ErrorDisable0,
              ErrorDisable1, DisableInput, vars
<1>9. QED
  BY <1>1, <1>2, <1>3, <1>4, <1>5, <1>6, <1>7, <1>8 DEF Next, OutputLoop

LEMMA EosRingStep ==
  ASSUME StreamInv, SeekInv, PauseInv, OutputInv, EosRing, [Next]_vars
  PROVE  EosRing'
<1> SUFFICES ASSUME upc' = "eospush", status' = "OK"  PROVE ts_count' = 0
  BY DEF EosRing
<1>1. CASE EosDecide
  <2>1. ~DeferEos /\ UNCHANGED <<ts_count, status>>
    BY <1>1 DEF EosDecide, tsVars
  <2>2. QED
    BY <2>1 DEF DeferEos
<1>2. CASE upc = "eospush" /\ (ts_count' = ts_count \/ LoopDrop \/ LoopTake)
  <2>1. status = "OK"
    BY <1>2, StatusMoves DEF SeekInv, Restarting
  <2>2. ts_count = 0
    BY <1>2, <2>1 DEF EosRing
  <2>3. LoopDrop \/ LoopTake => ts_count > 0
    BY DEF LoopDrop, LoopTake, StreamInv, LoopInv
  <2>4. QED
    BY <1>2, <2>2, <2>3
<1>3. QED
  BY <1>1, <1>2, EosUntouched

(* An empty ring means that nothing is on its way.                         *)
LEMMA NoneLeft ==
  ASSUME StreamInv, FrameInv, OutputInv, OwnInv, ts_count = 0
  PROVE  Unpushed = {}
<1>1. ComingInv /\ RingOrder /\ MatchInv
  BY DEF OwnInv
<1>2. FrameSlots = {}
  BY FrameSlotsFinite, FS_EmptySet DEF StreamInv, RingInv, CountIsFrames
<1>3. RingTimes = {}
  BY <1>2 DEF RingTimes
<1>4. OutTimes = {}
  BY <1>1, <1>3, FS_EmptySet, TimesFinite DEF MatchInv
<1>5. InSeq(dspPending) = {} /\ Carriers = {}
  BY <1>4 DEF OutTimes, Coming
<1> SUFFICES ASSUME NEW t \in Unpushed  PROVE FALSE
  OBVIOUS
<1>6. t # NoTime
  BY RingAssumption DEF Unpushed
<1>7. CASE \E b \in InSeq(q1) \ noData : frameOf[b] = t
  <2>1. PICK b \in InSeq(q1) \ noData : frameOf[b] = t
    BY <1>7
  <2>2. b \in OutBufs
    BY <2>1 DEF OutputInv, OutputConserved
  <2>3. QED
    BY <1>5, <1>6, <2>1, <2>2 DEF Carriers
<1>8. CASE /\ lpc \in BeforeTake
           /\ lbuf \notin noData \/ lpc = "take"
           /\ frameOf[lbuf] = t
  <2>1. lbuf \in OutBufs /\ lbuf # None
    BY <1>8, BaseAssumption DEF OutputInv, BeforeTake, WithBuffer
  <2>2. LoopCarries
    BY <1>8, <2>1 DEF LoopCarries, BeforeTake, Checked
  <2>3. QED
    BY <1>5, <1>6, <1>8, <2>1, <2>2 DEF Carriers
<1>9. QED
  BY <1>5, <1>7, <1>8 DEF Unpushed

(* EOS reaches downstream once between flushes, and after every frame but  *)
(* the one that output_loop is just pushing.                               *)
THEOREM EosComesInPlace == Spec => []EosInPlace
<1>1. Init => EosRing
  BY DEF Init, EosRing
<1>2. StreamInv /\ FlowInv /\ OutputInv /\ EosRing /\ [Next]_vars => EosRing'
  BY EosRingStep DEF FlowInv
<1>3. StreamInv /\ FrameInv /\ OutputInv /\ OwnInv /\ EosRing => EosOvertakesLastOnly
  BY NoneLeft DEF EosRing, EosOvertakesLastOnly
<1>4. EosOnce /\ EosOvertakesLastOnly => EosInPlace
  BY DEF EosInPlace
<1>5. QED
  BY <1>1, <1>2, <1>3, <1>4, EosPushedOnce, StreamInvariant, FlowInvariant,
     OutputInvariant, FrameInvariant, OwnInvariant, PTL DEF Spec

=============================================================================
