------------------------ MODULE DspLifecycleProofs ------------------------
(***************************************************************************)
(* The safety of DspLifecycle for every element and every bound.           *)
(*                                                                         *)
(* What a thread does is safe because of where the others are: dsp_thread  *)
(* uses the node because only _dsp_stop deletes it, after the join; the    *)
(* streaming thread starts a node only when no _dsp_stop runs; a STOP is   *)
(* sent when the node, and with it every unanswered message, of the last   *)
(* one is gone, so that only answers given too late can be mistaken.  *)
(* LifeInv says all that, and is inductive; there is one lemma for each of *)
(* its parts.                                                              *)
(***************************************************************************)
EXTENDS DspLifecycle, TLAPS

(* pad_chain in gstdsp_start, before the ports get their buffers. *)
Starting == {"create", "run", "register", "thread", "task", "setup0"}

(* pad_chain with a frame that the DSP has not got yet. *)
Chaining ==
  Starting \cup {"setup1", "codec", "pop", "asleep", "woken", "got", "nobuf"}

(* What is counted, and what bounds the counters. *)
Numbers ==
  /\ dsp_thread \in Nat /\ tid \in Nat
  /\ q0 \in Nat /\ q1 \in Nat
  /\ dsp0 \in Nat /\ dsp1 \in Nat /\ pending \in Nat
  /\ flush \in Nat /\ stops \in Nat
  /\ nstarts \in 0 .. conf.maxStarts /\ nframes \in 0 .. conf.maxFrames
  /\ nflush \in 0 .. conf.maxFlushes /\ nreneg \in 0 .. conf.maxReneg
  /\ nalg \in 0 .. conf.maxAlgErrors /\ timeouts \in Nat

(* The values of the flags. *)
Flags ==
  /\ conf \in Confs
  /\ handle \in BOOLEAN
  /\ en0 \in BOOLEAN /\ en1 \in BOOLEAN
  /\ done \in BOOLEAN /\ dsp_error \in BOOLEAN
  /\ timedOut \in BOOLEAN /\ leftover \in BOOLEAN
  /\ halted \in BOOLEAN /\ lbuf \in BOOLEAN

(* Where the threads can be. *)
Places ==
  /\ estate \in {"NULL", "READY", "PAUSED"}
  /\ node \in {"none", "created", "running"}
  /\ status \in {"OK", "WRONG_STATE", "ERROR"}
  /\ task \in {"none", "started", "paused"}
  /\ apc \in {"idle", "down0", "down1", "pads", "sinkpad", "sinkwait",
              "stopping", "fs0", "fs1", "fspause", "fswait", "flushing",
              "st0", "st1", "sttask"}
  /\ spc \in {"idle", "create", "run", "register", "thread", "task", "setup0",
              "setup1", "codec", "pop", "asleep", "woken", "got", "nobuf",
              "crash", "re0", "re1", "restop", "re2", "re3"}
  /\ lpc \in {"idle", "asleep", "woken", "check", "pause", "pausetask", "pause0",
              "pause1", "putback"}
  /\ lret \in {"OK", "WRONG_STATE", "ERROR"}
  /\ tpc \in {"none", "run", "error", "error0", "error1", "alg", "alg0", "alg1"}
  /\ stop \in {"none", "check", "send", "wait", "done", "join", "task",
               "taskwait", "flush", "node"}
  /\ stopBy \in {"none", "application", "streaming"}

(* The node exists in PAUSED only, on an open handle; dsp_thread runs on a *)
(* running node and is the one the element points to; and pad_chain is at  *)
(* a step of gstdsp_start only with the node that step needs.              *)
NodeInv ==
  /\ node # "none" => estate = "PAUSED" /\ handle
  /\ estate = "NULL" => ~handle
  /\ tpc # "none" => node = "running" /\ dsp_thread = tid
  /\ apc # "idle" \/ spc # "idle" => estate = "PAUSED"
  /\ spc = "create" => node = "none"
  /\ spc = "run" => node = "created"
  /\ spc \in {"register", "thread"} => node = "running" /\ tpc = "none"
  /\ spc \in {"task", "setup0", "setup1", "codec"} => node = "running"
  /\ spc = "create" => nstarts < conf.maxStarts

(* _dsp_stop runs for a state change with the streaming thread out of the  *)
(* element, or in gstdsp_reinit; what it has stopped stays stopped until   *)
(* it ends, and it ends without a node.                                    *)
StopInv ==
  /\ apc \in {"stopping", "st0", "st1", "sttask"} => spc = "idle"
  /\ stop # "none" => apc = "stopping" \/ spc = "restop"
  /\ stop \in {"task", "taskwait", "flush", "node"} => tpc = "none"
  /\ (apc = "stopping" \/ spc = "restop") /\ stop = "none" => node = "none"
  /\ stop \in {"taskwait", "flush", "node"} => task = "none"
  /\ stop \in {"flush", "node"} => lpc = "idle"

(* In PAUSED `done' is set by _dsp_stop only, for as long as it or its     *)
(* caller runs.                                                            *)
DoneInv ==
  estate = "PAUSED" /\ stop = "none" /\ apc # "stopping" /\ spc # "restop"
    => ~done

(* The semaphore counts the answer to the STOP that is waited for, what was *)
(* in it when that was sent, and nothing else.                             *)
SemInv ==
  /\ stops \in 0 .. 1
  /\ stop \in {"none", "check", "send"} => stops = 0
  /\ stop = "wait" => ~timedOut
  /\ stop = "wait" /\ ~leftover => flush + stops = 1
  /\ stop = "done" /\ ~timedOut /\ ~leftover => stops = 0
  /\ LeftoversAreLate

(* The input buffers, wherever they are. *)
InSum == q0 + dsp0 + InHand

(* The output buffers, wherever they are. *)
OutSum == q1 + dsp1 + OutHand

(* A port has all of its buffers or none, and none without a node; between *)
(* two iterations output_loop has none; the DSP works on no more frames    *)
(* than there were.                                                        *)
BufInv ==
  /\ InSum \in {0, conf.nIn} /\ OutSum \in {0, conf.nOut}
  /\ lpc \in {"idle", "asleep", "woken"} => ~lbuf
  /\ lpc = "putback" => lbuf
  /\ node = "none" \/ stop = "node" \/ spc \in Starting => InSum = 0
  /\ node = "none" \/ stop = "node" \/ spc \in Starting \cup {"setup1"}
       => OutSum = 0
  /\ pending <= nframes
  /\ spc \in Chaining => pending < nframes

(* Who may wait in a queue, and for how long.  A consumer sleeps in an     *)
(* enabled queue only; a thread on its way down has disabled the output    *)
(* queue; and until a flush, an input queue whose dsp_thread has ended     *)
(* before its node is disabled, or upstream has been told to stop.         *)
Reiniting == spc \in {"re0", "re1", "restop", "re2", "re3"}
Seeking == apc \in {"fs0", "fs1", "fspause", "fswait", "flushing", "st0", "st1",
                    "sttask"}
LoopReleased ==
  nreneg = 0 =>
    /\ ~Reiniting
    /\ apc \in {"pads", "sinkpad", "sinkwait", "stopping"} => ~en1 /\ lpc # "asleep"
Deserted ==
  /\ spc # "idle" => ~halted
  /\ spc \in {"pop", "asleep", "woken", "got", "nobuf"} => node # "none"
  /\ spc \in {"re2", "re3"} => node = "none"
  /\ spc = "asleep" => en0
ServedOrDisabled ==
  nflush = 0 =>
    /\ ~Seeking
    /\ tpc = "error1" => ~en0
    /\ (/\ tpc = "none" /\ node # "none" /\ stop = "none"
        /\ spc \notin {"run", "register", "thread"}) => halted \/ ~en0
WaitInv == LoopReleased /\ Deserted /\ ServedOrDisabled

(* Until a flush or a renegotiation, `status' stays other than OK from the *)
(* moment a queue is disabled to the next life: whoever disables one has   *)
(* set `status' before, or found it set, and only READY to PAUSED, when    *)
(* none of them runs, sets it back.                                        *)
GateInv ==
  nflush = 0 /\ nreneg = 0 =>
    /\ task # "none" \/ lpc # "idle" => node # "none"
    /\ (\/ ~en0 \/ apc # "idle" \/ spc = "nobuf"
        \/ lpc \in {"pause", "pausetask", "pause0", "pause1", "putback"}
        \/ tpc \in {"error", "error0", "error1", "alg", "alg0", "alg1"})
         => status # "OK"
    /\ spc = "woken" => q0 > 0 \/ ~en0
    /\ spc # "crash"

(* The inductive invariant. *)
LifeInv ==
  /\ Numbers /\ Flags /\ Places
  /\ NodeInv /\ StopInv /\ DoneInv /\ SemInv /\ BufInv

----------------------------------------------------------------------------
(* What an element and its stream are (Conf). *)
LEMMA ConfTypes ==
  conf \in Confs => /\ conf.nIn \in Nat \ {0} /\ conf.nOut \in Nat \ {0}
                    /\ conf.maxStarts \in Nat /\ conf.maxFrames \in Nat
                    /\ conf.maxFlushes \in Nat /\ conf.maxReneg \in Nat
                    /\ conf.maxAlgErrors \in Nat
BY LifeAssumption DEF LifeAssumption, Conf

(* The invariant holds initially: the element is in NULL, with nothing     *)
(* running.                                                                *)
LEMMA LifeInit == Init => LifeInv
<1> SUFFICES ASSUME Init  PROVE LifeInv
  OBVIOUS
<1>0. conf \in Confs
  BY DEF Init
<1>1. /\ conf.nIn \in Nat \ {0} /\ conf.nOut \in Nat \ {0}
      /\ conf.maxStarts \in Nat /\ conf.maxFrames \in Nat
      /\ conf.maxFlushes \in Nat /\ conf.maxReneg \in Nat
      /\ conf.maxAlgErrors \in Nat
  BY <1>0, ConfTypes
<1>2. Numbers
  BY <1>1 DEF Init, Numbers
<1>3. Flags /\ Places
  BY DEF Init, Flags, Places
<1>4. NodeInv /\ StopInv /\ DoneInv /\ SemInv
  BY DEF Init, NodeInv, StopInv, DoneInv, SemInv, LeftoversAreLate
<1>5. BufInv
  BY <1>1 DEF Init, BufInv, InSum, OutSum, InHand, OutHand, Starting, Chaining
<1>6. QED
  BY <1>2, <1>3, <1>4, <1>5 DEF LifeInv

(* The counters stay numbers, within their bounds. *)
LEMMA NumbersKept == LifeInv /\ [Next]_vars => Numbers'
<1> SUFFICES ASSUME LifeInv, [Next]_vars  PROVE Numbers'
  OBVIOUS
<1> USE DEF LifeInv, Numbers, Flags, NodeInv, vars, loop, waits, element, gates, bufs,
    sem, thr, stp, counts
<1>0. /\ conf.nIn \in Nat \ {0} /\ conf.nOut \in Nat \ {0}
      /\ conf.maxStarts \in Nat /\ conf.maxFrames \in Nat
      /\ conf.maxFlushes \in Nat /\ conf.maxReneg \in Nat
      /\ conf.maxAlgErrors \in Nat
  BY ConfTypes DEF Flags
<1> USE <1>0
<1>1. CASE StateChange
  BY <1>1 DEF StateChange, ToReady, ToPaused, DownStatus, ToNull
<1>2. CASE DownDisable0 \/ DownDisable1
  BY <1>2 DEF DownDisable0, DownDisable1, DisableInput, DisableOutput,
      WakeUpstream, WakeLoop
<1>3. CASE DownSourcePad \/ DownSinkPad \/ DownStop \/ DownDone
  BY <1>3 DEF DownSourcePad, DownSinkPad, DownStop, DownDone
<1>4. CASE FlushStart \/ Seek
  BY <1>4 DEF FlushStart, Seek, FlushStartDisable0, FlushStartDisable1,
      FlushStartPause, FlushStartDone, FlushStop, FlushStopEnable0,
      FlushStopEnable1, FlushStopTask, DisableInput, DisableOutput,
      WakeUpstream, WakeLoop, PauseSourceTask
<1>5. CASE Chain \/ CreateNode \/ RunNode \/ Register
  BY <1>5 DEF Chain, SinkPadOpen, CreateNode, RunNode, Register, ChainFails
<1>6. CASE StartThread \/ StartTask \/ SetupInput \/ SetupOutput \/
    SendCodecData
  BY <1>6 DEF StartThread, StartTask, SetupInput, SetupOutput, SendCodecData
<1>7. CASE ChainPop \/ ChainResumed \/ ChainSend \/ ChainStopped
  BY <1>7 DEF ChainPop, ChainResumed, ChainSend, ChainStopped, ChainFails
<1>8. CASE Reinit \/ ReinitDisable0 \/ ReinitDisable1 \/ ReinitStatus \/
    ReinitEnable0 \/ ReinitEnable1
  BY <1>8 DEF Reinit, SinkPadOpen, ReinitDisable0, ReinitDisable1,
      ReinitStatus, ReinitEnable0, ReinitEnable1, DisableOutput, WakeLoop
<1>9. CASE Stop
  BY <1>9 DEF Stop, StopCheck, StopSend, StopAnswered, StopTimeout, StopDone,
      StopJoin, StopTask, StopTaskDone, StopFlush, StopNode
<1>10. CASE OutputLoop
  BY <1>10 DEF OutputLoop, LoopPop, LoopResumed, LoopPush, LoopStopped,
      PauseStatus, PauseTask, PauseDisable0, PauseDisable1, LoopPutBack,
      DisableInput, WakeUpstream, PauseSourceTask
<1>11. CASE DspThread \/ Fault \/ AlgError
  BY <1>11 DEF DspThread, Fault, AlgError, ThreadDone, NoteError, ErrorDisable0,
      ErrorDisable1, DisableInput, DisableOutput, WakeUpstream, WakeLoop
<1>12. CASE GotInput
  BY <1>12 DEF GotInput, WakeUpstream
<1>13. CASE GotOutput
  BY <1>13 DEF GotOutput, WakeLoop
<1>14. CASE GotStop
  BY <1>14 DEF GotStop
<1>15. CASE UNCHANGED vars
  BY <1>15
<1>16. QED
  BY <1>1, <1>2, <1>3, <1>4, <1>5, <1>6, <1>7, <1>8, <1>9, <1>10, <1>11,
      <1>12, <1>13, <1>14, <1>15 DEF Next, Shutdown, Streaming, Messages

(* The flags stay Boolean. *)
LEMMA FlagsKept == LifeInv /\ [Next]_vars => Flags'
<1> SUFFICES ASSUME LifeInv, [Next]_vars  PROVE Flags'
  OBVIOUS
<1>0. Flags
  BY DEF LifeInv
<1> USE <1>0 DEF Flags, vars, loop, waits, element, gates, bufs, sem, thr, stp, counts
<1>1. CASE StateChange
  BY <1>1 DEF StateChange, ToReady, ToPaused, DownStatus, ToNull
<1>2. CASE DownDisable0 \/ DownDisable1
  BY <1>2 DEF DownDisable0, DownDisable1, DisableInput, DisableOutput,
      WakeUpstream, WakeLoop
<1>3. CASE DownSourcePad \/ DownSinkPad \/ DownStop \/ DownDone
  BY <1>3 DEF DownSourcePad, DownSinkPad, DownStop, DownDone
<1>4. CASE FlushStart \/ Seek
  <2>1. CASE FlushStart
    BY <2>1 DEF FlushStart
  <2>2. CASE FlushStartDisable0
    BY <2>2 DEF FlushStartDisable0, DisableInput, WakeUpstream
  <2>3. CASE FlushStartDisable1
    BY <2>3 DEF FlushStartDisable1, DisableOutput, WakeLoop
  <2>4. CASE FlushStartPause \/ FlushStartDone
    BY <2>4 DEF FlushStartPause, FlushStartDone, PauseSourceTask
  <2>5. CASE FlushStop
    BY <2>5 DEF FlushStop
  <2>6. CASE FlushStopEnable0 \/ FlushStopEnable1
    BY <2>6 DEF FlushStopEnable0, FlushStopEnable1
  <2>7. CASE FlushStopTask
    BY <2>7 DEF FlushStopTask
  <2>8. QED
    BY <1>4, <2>1, <2>2, <2>3, <2>4, <2>5, <2>6, <2>7 DEF Seek
<1>5. CASE Chain \/ CreateNode \/ RunNode \/ Register
  <2>1. CASE Chain
    BY <2>1 DEF Chain, SinkPadOpen
  <2>2. CASE CreateNode
    BY <2>2 DEF CreateNode, ChainFails
  <2>3. CASE RunNode
    BY <2>3 DEF RunNode, ChainFails
  <2>4. CASE Register
    BY <2>4 DEF Register, ChainFails
  <2>5. QED
    BY <1>5, <2>1, <2>2, <2>3, <2>4
<1>6. CASE StartThread \/ StartTask \/ SetupInput \/ SetupOutput \/
    SendCodecData
  BY <1>6 DEF StartThread, StartTask, SetupInput, SetupOutput, SendCodecData
<1>7. CASE ChainPop \/ ChainResumed \/ ChainSend \/ ChainStopped
  BY <1>7 DEF ChainPop, ChainResumed, ChainSend, ChainStopped, ChainFails
<1>8. CASE Reinit \/ ReinitDisable0 \/ ReinitDisable1 \/ ReinitStatus \/
    ReinitEnable0 \/ ReinitEnable1
  <2>1. CASE Reinit
    BY <2>1 DEF Reinit, SinkPadOpen
  <2>2. CASE ReinitDisable0 \/ ReinitDisable1 \/ ReinitStatus
    BY <2>2 DEF ReinitDisable0, ReinitDisable1, ReinitStatus,
           DisableOutput, WakeLoop
  <2>3. CASE ReinitEnable0 \/ ReinitEnable1
    BY <2>3 DEF ReinitEnable0, ReinitEnable1
  <2>4. QED
    BY <1>8, <2>1, <2>2, <2>3
<1>9. CASE Stop
  <2>1. CASE StopCheck
    BY <2>1 DEF StopCheck
  <2>8. CASE StopSend
    <3>0. flush \in Nat
      BY DEF LifeInv, Numbers
    <3>1. leftover' \in BOOLEAN
      BY <2>8, <3>0 DEF StopSend
    <3>2. timedOut' \in BOOLEAN
      BY <2>8 DEF StopSend
    <3>3. QED
      BY <2>8, <3>1, <3>2 DEF StopSend
  <2>2. CASE StopAnswered \/ StopTimeout
    BY <2>2 DEF StopAnswered, StopTimeout
  <2>3. CASE StopDone \/ StopJoin
    BY <2>3 DEF StopDone, StopJoin
  <2>4. CASE StopTask \/ StopTaskDone
    BY <2>4 DEF StopTask, StopTaskDone
  <2>5. CASE StopFlush
    BY <2>5 DEF StopFlush
  <2>6. CASE StopNode
    BY <2>6 DEF StopNode
  <2>7. QED
    BY <1>9, <2>1, <2>2, <2>3, <2>4, <2>5, <2>6, <2>8 DEF Stop
<1>10. CASE OutputLoop
  <2>1. CASE LoopPop
    <3>1. lbuf' \in BOOLEAN
      BY <2>1, Zenon DEF LoopPop
    <3>2. QED
      BY <2>1, <3>1 DEF LoopPop
  <2>2. CASE LoopResumed
    <3>1. lbuf' \in BOOLEAN
      BY <2>2 DEF LoopResumed
    <3>2. QED
      BY <2>2, <3>1 DEF LoopResumed
  <2>7. CASE LoopPush
    BY <2>7 DEF LoopPush
  <2>3. CASE LoopStopped
    BY <2>3 DEF LoopStopped
  <2>4. CASE PauseStatus \/ PauseTask \/ PauseDisable1 \/ LoopPutBack
    BY <2>4 DEF PauseStatus, PauseTask, PauseDisable1, LoopPutBack, PauseSourceTask
  <2>5. CASE PauseDisable0
    BY <2>5 DEF PauseDisable0, DisableInput, WakeUpstream
  <2>6. QED
    BY <1>10, <2>1, <2>2, <2>3, <2>4, <2>5, <2>7 DEF OutputLoop
<1>11. CASE DspThread \/ Fault \/ AlgError
  <2>1. CASE ThreadDone
    BY <2>1 DEF ThreadDone
  <2>2. CASE NoteError
    BY <2>2 DEF NoteError
  <2>3. CASE ErrorDisable0
    BY <2>3 DEF ErrorDisable0, DisableInput, WakeUpstream
  <2>4. CASE ErrorDisable1
    BY <2>4 DEF ErrorDisable1, DisableOutput, WakeLoop
  <2>5. CASE Fault \/ AlgError
    BY <2>5 DEF Fault, AlgError
  <2>6. QED
    BY <1>11, <2>1, <2>2, <2>3, <2>4, <2>5 DEF DspThread
<1>12. CASE GotInput
  BY <1>12 DEF GotInput, WakeUpstream
<1>13. CASE GotOutput
  BY <1>13 DEF GotOutput, WakeLoop
<1>14. CASE GotStop
  BY <1>14 DEF GotStop
<1>15. CASE UNCHANGED vars
  BY <1>15
<1>16. QED
  BY <1>1, <1>2, <1>3, <1>4, <1>5, <1>6, <1>7, <1>8, <1>9, <1>10, <1>11,
      <1>12, <1>13, <1>14, <1>15 DEF Next, Shutdown, Streaming, Messages

(* The threads stay in the functions modelled. *)
LEMMA PlacesKept == LifeInv /\ [Next]_vars => Places'
<1> SUFFICES ASSUME LifeInv, [Next]_vars  PROVE Places'
  OBVIOUS
<1> USE DEF LifeInv, Places, vars, loop, waits, element, gates, bufs, sem, thr, stp,
    counts
<1>1. CASE StateChange
  BY <1>1 DEF StateChange, ToReady, ToPaused, DownStatus, ToNull
<1>2. CASE DownDisable0 \/ DownDisable1
  BY <1>2 DEF DownDisable0, DownDisable1, DisableInput, DisableOutput,
      WakeUpstream, WakeLoop
<1>3. CASE DownSourcePad \/ DownSinkPad \/ DownStop \/ DownDone
  BY <1>3 DEF DownSourcePad, DownSinkPad, DownStop, DownDone
<1>4. CASE FlushStart \/ Seek
  BY <1>4 DEF FlushStart, Seek, FlushStartDisable0, FlushStartDisable1,
      FlushStartPause, FlushStartDone, FlushStop, FlushStopEnable0,
      FlushStopEnable1, FlushStopTask, DisableInput, DisableOutput,
      WakeUpstream, WakeLoop, PauseSourceTask
<1>5. CASE Chain \/ CreateNode \/ RunNode \/ Register
  BY <1>5 DEF Chain, SinkPadOpen, CreateNode, RunNode, Register, ChainFails
<1>6. CASE StartThread \/ StartTask \/ SetupInput \/ SetupOutput \/
    SendCodecData
  BY <1>6 DEF StartThread, StartTask, SetupInput, SetupOutput, SendCodecData
<1>7. CASE ChainPop \/ ChainResumed \/ ChainSend \/ ChainStopped
  BY <1>7 DEF ChainPop, ChainResumed, ChainSend, ChainStopped, ChainFails
<1>8. CASE Reinit \/ ReinitDisable0 \/ ReinitDisable1 \/ ReinitStatus \/
    ReinitEnable0 \/ ReinitEnable1
  BY <1>8 DEF Reinit, SinkPadOpen, ReinitDisable0, ReinitDisable1,
      ReinitStatus, ReinitEnable0, ReinitEnable1, DisableOutput, WakeLoop
<1>9. CASE Stop
  BY <1>9 DEF Stop, StopCheck, StopSend, StopAnswered, StopTimeout, StopDone,
      StopJoin, StopTask, StopTaskDone, StopFlush, StopNode
<1>10. CASE OutputLoop
  BY <1>10 DEF OutputLoop, LoopPop, LoopResumed, LoopPush, LoopStopped,
      PauseStatus, PauseTask, PauseDisable0, PauseDisable1, LoopPutBack,
      DisableInput, WakeUpstream, PauseSourceTask
<1>11. CASE DspThread \/ Fault \/ AlgError
  BY <1>11 DEF DspThread, Fault, AlgError, ThreadDone, NoteError, ErrorDisable0,
      ErrorDisable1, DisableInput, DisableOutput, WakeUpstream, WakeLoop
<1>12. CASE GotInput
  BY <1>12 DEF GotInput, WakeUpstream
<1>13. CASE GotOutput
  BY <1>13 DEF GotOutput, WakeLoop
<1>14. CASE GotStop
  BY <1>14 DEF GotStop
<1>15. CASE UNCHANGED vars
  BY <1>15
<1>16. QED
  BY <1>1, <1>2, <1>3, <1>4, <1>5, <1>6, <1>7, <1>8, <1>9, <1>10, <1>11,
      <1>12, <1>13, <1>14, <1>15 DEF Next, Shutdown, Streaming, Messages

(* The node outlives dsp_thread and is deleted by _dsp_stop only. *)
LEMMA NodeKept == LifeInv /\ [Next]_vars => NodeInv'
<1> SUFFICES ASSUME LifeInv, [Next]_vars  PROVE NodeInv'
  OBVIOUS
<1> USE DEF LifeInv, NodeInv, StopInv, Numbers, Flags, vars, loop, waits, element, gates,
    bufs, sem, thr, stp, counts
<1>1. CASE StateChange
  BY <1>1 DEF StateChange, ToReady, ToPaused, DownStatus, ToNull
<1>2. CASE DownDisable0 \/ DownDisable1
  BY <1>2 DEF DownDisable0, DownDisable1, DisableInput, DisableOutput,
      WakeUpstream, WakeLoop
<1>3. CASE DownSourcePad \/ DownSinkPad \/ DownStop \/ DownDone
  BY <1>3 DEF DownSourcePad, DownSinkPad, DownStop, DownDone
<1>4. CASE FlushStart \/ Seek
  BY <1>4 DEF FlushStart, Seek, FlushStartDisable0, FlushStartDisable1,
      FlushStartPause, FlushStartDone, FlushStop, FlushStopEnable0,
      FlushStopEnable1, FlushStopTask, DisableInput, DisableOutput,
      WakeUpstream, WakeLoop, PauseSourceTask
<1>5. CASE Chain \/ CreateNode \/ RunNode \/ Register
  BY <1>5 DEF Chain, SinkPadOpen, CreateNode, RunNode, Register, ChainFails
<1>6. CASE StartThread \/ StartTask \/ SetupInput \/ SetupOutput \/
    SendCodecData
  BY <1>6 DEF StartThread, StartTask, SetupInput, SetupOutput, SendCodecData
<1>7. CASE ChainPop \/ ChainResumed \/ ChainSend \/ ChainStopped
  BY <1>7 DEF ChainPop, ChainResumed, ChainSend, ChainStopped, ChainFails
<1>8. CASE Reinit \/ ReinitDisable0 \/ ReinitDisable1 \/ ReinitStatus \/
    ReinitEnable0 \/ ReinitEnable1
  BY <1>8 DEF Reinit, SinkPadOpen, ReinitDisable0, ReinitDisable1,
      ReinitStatus, ReinitEnable0, ReinitEnable1, DisableOutput, WakeLoop
<1>9. CASE Stop
  BY <1>9 DEF Stop, StopCheck, StopSend, StopAnswered, StopTimeout, StopDone,
      StopJoin, StopTask, StopTaskDone, StopFlush, StopNode
<1>10. CASE OutputLoop
  BY <1>10 DEF OutputLoop, LoopPop, LoopResumed, LoopPush, LoopStopped,
      PauseStatus, PauseTask, PauseDisable0, PauseDisable1, LoopPutBack,
      DisableInput, WakeUpstream, PauseSourceTask
<1>11. CASE DspThread \/ Fault \/ AlgError
  BY <1>11 DEF DspThread, Fault, AlgError, ThreadDone, NoteError, ErrorDisable0,
      ErrorDisable1, DisableInput, DisableOutput, WakeUpstream, WakeLoop
<1>12. CASE GotInput
  BY <1>12 DEF GotInput, WakeUpstream
<1>13. CASE GotOutput
  BY <1>13 DEF GotOutput, WakeLoop
<1>14. CASE GotStop
  BY <1>14 DEF GotStop
<1>15. CASE UNCHANGED vars
  BY <1>15
<1>16. QED
  BY <1>1, <1>2, <1>3, <1>4, <1>5, <1>6, <1>7, <1>8, <1>9, <1>10, <1>11,
      <1>12, <1>13, <1>14, <1>15 DEF Next, Shutdown, Streaming, Messages

(* _dsp_stop stops what it says, and nobody restarts it meanwhile. *)
LEMMA StopKept == LifeInv /\ [Next]_vars => StopInv'
<1> SUFFICES ASSUME LifeInv, [Next]_vars  PROVE StopInv'
  OBVIOUS
<1> USE DEF LifeInv, StopInv, NodeInv, Places, vars, loop, waits, element, gates, bufs,
    sem, thr, stp, counts
<1>1. CASE StateChange
  BY <1>1 DEF StateChange, ToReady, ToPaused, DownStatus, ToNull
<1>2. CASE DownDisable0 \/ DownDisable1
  BY <1>2 DEF DownDisable0, DownDisable1, DisableInput, DisableOutput,
      WakeUpstream, WakeLoop
<1>3. CASE DownSourcePad \/ DownSinkPad \/ DownStop \/ DownDone
  BY <1>3 DEF DownSourcePad, DownSinkPad, DownStop, DownDone
<1>4. CASE FlushStart \/ Seek
  BY <1>4 DEF FlushStart, Seek, FlushStartDisable0, FlushStartDisable1,
      FlushStartPause, FlushStartDone, FlushStop, FlushStopEnable0,
      FlushStopEnable1, FlushStopTask, DisableInput, DisableOutput,
      WakeUpstream, WakeLoop, PauseSourceTask
<1>5. CASE Chain \/ CreateNode \/ RunNode \/ Register
  BY <1>5 DEF Chain, SinkPadOpen, CreateNode, RunNode, Register, ChainFails
<1>6. CASE StartThread \/ StartTask \/ SetupInput \/ SetupOutput \/
    SendCodecData
  BY <1>6 DEF StartThread, StartTask, SetupInput, SetupOutput, SendCodecData
<1>7. CASE ChainPop \/ ChainResumed \/ ChainSend \/ ChainStopped
  BY <1>7 DEF ChainPop, ChainResumed, ChainSend, ChainStopped, ChainFails
<1>8. CASE Reinit \/ ReinitDisable0 \/ ReinitDisable1 \/ ReinitStatus \/
    ReinitEnable0 \/ ReinitEnable1
  BY <1>8 DEF Reinit, SinkPadOpen, ReinitDisable0, ReinitDisable1,
      ReinitStatus, ReinitEnable0, ReinitEnable1, DisableOutput, WakeLoop
<1>9. CASE Stop
  BY <1>9 DEF Stop, StopCheck, StopSend, StopAnswered, StopTimeout, StopDone,
      StopJoin, StopTask, StopTaskDone, StopFlush, StopNode
<1>10. CASE OutputLoop
  BY <1>10 DEF OutputLoop, LoopPop, LoopResumed, LoopPush, LoopStopped,
      PauseStatus, PauseTask, PauseDisable0, PauseDisable1, LoopPutBack,
      DisableInput, WakeUpstream, PauseSourceTask
<1>11. CASE DspThread \/ Fault \/ AlgError
  BY <1>11 DEF DspThread, Fault, AlgError, ThreadDone, NoteError, ErrorDisable0,
      ErrorDisable1, DisableInput, DisableOutput, WakeUpstream, WakeLoop
<1>12. CASE GotInput
  BY <1>12 DEF GotInput, WakeUpstream
<1>13. CASE GotOutput
  BY <1>13 DEF GotOutput, WakeLoop
<1>14. CASE GotStop
  BY <1>14 DEF GotStop
<1>15. CASE UNCHANGED vars
  BY <1>15
<1>16. QED
  BY <1>1, <1>2, <1>3, <1>4, <1>5, <1>6, <1>7, <1>8, <1>9, <1>10, <1>11,
      <1>12, <1>13, <1>14, <1>15 DEF Next, Shutdown, Streaming, Messages

(* No thread is started with `done' set. *)
LEMMA DoneKept == LifeInv /\ [Next]_vars => DoneInv'
<1> SUFFICES ASSUME LifeInv, [Next]_vars  PROVE DoneInv'
  OBVIOUS
<1> USE DEF LifeInv, DoneInv, NodeInv, StopInv, Places, vars, loop, waits, element, gates,
    bufs, sem, thr, stp, counts
<1>1. CASE StateChange
  BY <1>1 DEF StateChange, ToReady, ToPaused, DownStatus, ToNull
<1>2. CASE DownDisable0 \/ DownDisable1
  BY <1>2 DEF DownDisable0, DownDisable1, DisableInput, DisableOutput,
      WakeUpstream, WakeLoop
<1>3. CASE DownSourcePad \/ DownSinkPad \/ DownStop \/ DownDone
  BY <1>3 DEF DownSourcePad, DownSinkPad, DownStop, DownDone
<1>4. CASE FlushStart \/ Seek
  BY <1>4 DEF FlushStart, Seek, FlushStartDisable0, FlushStartDisable1,
      FlushStartPause, FlushStartDone, FlushStop, FlushStopEnable0,
      FlushStopEnable1, FlushStopTask, DisableInput, DisableOutput,
      WakeUpstream, WakeLoop, PauseSourceTask
<1>5. CASE Chain \/ CreateNode \/ RunNode \/ Register
  BY <1>5 DEF Chain, SinkPadOpen, CreateNode, RunNode, Register, ChainFails
<1>6. CASE StartThread \/ StartTask \/ SetupInput \/ SetupOutput \/
    SendCodecData
  BY <1>6 DEF StartThread, StartTask, SetupInput, SetupOutput, SendCodecData
<1>7. CASE ChainPop \/ ChainResumed \/ ChainSend \/ ChainStopped
  BY <1>7 DEF ChainPop, ChainResumed, ChainSend, ChainStopped, ChainFails
<1>8. CASE Reinit \/ ReinitDisable0 \/ ReinitDisable1 \/ ReinitStatus \/
    ReinitEnable0 \/ ReinitEnable1
  BY <1>8 DEF Reinit, SinkPadOpen, ReinitDisable0, ReinitDisable1,
      ReinitStatus, ReinitEnable0, ReinitEnable1, DisableOutput, WakeLoop
<1>9. CASE Stop
  BY <1>9 DEF Stop, StopCheck, StopSend, StopAnswered, StopTimeout, StopDone,
      StopJoin, StopTask, StopTaskDone, StopFlush, StopNode
<1>10. CASE OutputLoop
  BY <1>10 DEF OutputLoop, LoopPop, LoopResumed, LoopPush, LoopStopped,
      PauseStatus, PauseTask, PauseDisable0, PauseDisable1, LoopPutBack,
      DisableInput, WakeUpstream, PauseSourceTask
<1>11. CASE DspThread \/ Fault \/ AlgError
  BY <1>11 DEF DspThread, Fault, AlgError, ThreadDone, NoteError, ErrorDisable0,
      ErrorDisable1, DisableInput, DisableOutput, WakeUpstream, WakeLoop
<1>12. CASE GotInput
  BY <1>12 DEF GotInput, WakeUpstream
<1>13. CASE GotOutput
  BY <1>13 DEF GotOutput, WakeLoop
<1>14. CASE GotStop
  BY <1>14 DEF GotStop
<1>15. CASE UNCHANGED vars
  BY <1>15
<1>16. QED
  BY <1>1, <1>2, <1>3, <1>4, <1>5, <1>6, <1>7, <1>8, <1>9, <1>10, <1>11,
      <1>12, <1>13, <1>14, <1>15 DEF Next, Shutdown, Streaming, Messages

(* STOP messages, answers and time-outs balance. *)
LEMMA SemKept == LifeInv /\ [Next]_vars => SemInv'
<1> SUFFICES ASSUME LifeInv, [Next]_vars  PROVE SemInv'
  OBVIOUS
<1> USE DEF LifeInv, SemInv, LeftoversAreLate, Numbers, StopInv, Places, vars, loop, waits, element, gates,
    bufs, sem, thr, stp, counts
<1>1. CASE StateChange
  BY <1>1 DEF StateChange, ToReady, ToPaused, DownStatus, ToNull
<1>2. CASE DownDisable0 \/ DownDisable1
  BY <1>2 DEF DownDisable0, DownDisable1, DisableInput, DisableOutput,
      WakeUpstream, WakeLoop
<1>3. CASE DownSourcePad \/ DownSinkPad \/ DownStop \/ DownDone
  BY <1>3 DEF DownSourcePad, DownSinkPad, DownStop, DownDone
<1>4. CASE FlushStart \/ Seek
  BY <1>4 DEF FlushStart, Seek, FlushStartDisable0, FlushStartDisable1,
      FlushStartPause, FlushStartDone, FlushStop, FlushStopEnable0,
      FlushStopEnable1, FlushStopTask, DisableInput, DisableOutput,
      WakeUpstream, WakeLoop, PauseSourceTask
<1>5. CASE Chain \/ CreateNode \/ RunNode \/ Register
  BY <1>5 DEF Chain, SinkPadOpen, CreateNode, RunNode, Register, ChainFails
<1>6. CASE StartThread \/ StartTask \/ SetupInput \/ SetupOutput \/
    SendCodecData
  BY <1>6 DEF StartThread, StartTask, SetupInput, SetupOutput, SendCodecData
<1>7. CASE ChainPop \/ ChainResumed \/ ChainSend \/ ChainStopped
  BY <1>7 DEF ChainPop, ChainResumed, ChainSend, ChainStopped, ChainFails
<1>8. CASE Reinit \/ ReinitDisable0 \/ ReinitDisable1 \/ ReinitStatus \/
    ReinitEnable0 \/ ReinitEnable1
  BY <1>8 DEF Reinit, SinkPadOpen, ReinitDisable0, ReinitDisable1,
      ReinitStatus, ReinitEnable0, ReinitEnable1, DisableOutput, WakeLoop
<1>9. CASE Stop
  <2>1. CASE StopCheck
    BY <2>1 DEF StopCheck
  <2>2. CASE StopSend
    <3>1. ~leftover' => ~(flush > 0)
      BY <2>2, Zenon DEF StopSend
    <3>2. timedOut' = FALSE /\ timeouts' = timeouts /\ flush' = flush
      BY <2>2 DEF StopSend
    <3>3. \/ stops' = stops + 1 /\ stop' = "wait"
          \/ stops' = stops /\ stop' = "done"
      BY <2>2 DEF StopSend
    <3>4. stops = 0
      BY <2>2 DEF StopSend
    <3>5. stops' \in 0 .. 1 /\ (stop' = "done" => stops' = 0)
      BY <3>3, <3>4
    <3>6. stop' = "wait" /\ ~leftover' => flush' + stops' = 1
      BY <3>1, <3>2, <3>3, <3>4
    <3>7. LeftoversAreLate'
      <4>1. flush <= timeouts
        BY <2>2, <3>4 DEF StopSend
      <4>2. CASE stop' = "wait"
        BY <4>1, <4>2, <3>2, <3>3, <3>4
      <4>3. CASE stop' = "done"
        BY <4>1, <4>3, <3>2, <3>3, <3>4
      <4>4. QED
        BY <3>3, <4>2, <4>3
    <3>8. QED
      BY <3>2, <3>3, <3>5, <3>6, <3>7
  <2>3. CASE StopAnswered
    BY <2>3 DEF StopAnswered
  <2>4. CASE StopTimeout
    BY <2>4 DEF StopTimeout
  <2>5. CASE StopDone \/ StopJoin \/ StopTask \/ StopTaskDone \/ StopFlush
    BY <2>5 DEF StopDone, StopJoin, StopTask, StopTaskDone, StopFlush
  <2>6. CASE StopNode
    BY <2>6 DEF StopNode
  <2>7. QED
    BY <1>9, <2>1, <2>2, <2>3, <2>4, <2>5, <2>6 DEF Stop
<1>10. CASE OutputLoop
  BY <1>10 DEF OutputLoop, LoopPop, LoopResumed, LoopPush, LoopStopped,
      PauseStatus, PauseTask, PauseDisable0, PauseDisable1, LoopPutBack,
      DisableInput, WakeUpstream, PauseSourceTask
<1>11. CASE DspThread \/ Fault \/ AlgError
  BY <1>11 DEF DspThread, Fault, AlgError, ThreadDone, NoteError, ErrorDisable0,
      ErrorDisable1, DisableInput, DisableOutput, WakeUpstream, WakeLoop
<1>12. CASE GotInput
  BY <1>12 DEF GotInput, WakeUpstream
<1>13. CASE GotOutput
  BY <1>13 DEF GotOutput, WakeLoop
<1>14. CASE GotStop
  BY <1>14 DEF GotStop
<1>15. CASE UNCHANGED vars
  BY <1>15
<1>16. QED
  BY <1>1, <1>2, <1>3, <1>4, <1>5, <1>6, <1>7, <1>8, <1>9, <1>10, <1>11,
      <1>12, <1>13, <1>14, <1>15 DEF Next, Shutdown, Streaming, Messages

(* No buffer is lost, doubled or left behind by an earlier life. *)
LEMMA BufKept == LifeInv /\ [Next]_vars => BufInv'
<1> SUFFICES ASSUME LifeInv, [Next]_vars  PROVE BufInv'
  OBVIOUS
<1> USE DEF LifeInv, BufInv, Numbers, Flags, NodeInv, StopInv, Places,
    Starting, Chaining, InSum, OutSum, InHand, OutHand, vars, loop, waits, element, gates,
    bufs, sem, thr, stp, counts
<1>0. /\ conf.nIn \in Nat \ {0} /\ conf.nOut \in Nat \ {0}
      /\ conf.maxStarts \in Nat /\ conf.maxFrames \in Nat
      /\ conf.maxFlushes \in Nat /\ conf.maxReneg \in Nat
      /\ conf.maxAlgErrors \in Nat
  BY ConfTypes DEF Flags
<1> USE <1>0
<1>1. CASE StateChange
  <2>1. CASE ToReady
    BY <2>1 DEF ToReady
  <2>2. CASE ToPaused
    BY <2>2 DEF ToPaused
  <2>3. CASE DownStatus
    BY <2>3 DEF DownStatus
  <2>4. CASE ToNull
    BY <2>4 DEF ToNull
  <2>5. QED
    BY <1>1, <2>1, <2>2, <2>3, <2>4 DEF StateChange
<1>2. CASE DownDisable0 \/ DownDisable1
  <2>1. CASE DownDisable0
    BY <2>1 DEF DownDisable0, DisableInput, WakeUpstream
  <2>2. CASE DownDisable1
    BY <2>2 DEF DownDisable1, DisableOutput, WakeLoop
  <2>3. QED
    BY <1>2, <2>1, <2>2
<1>3. CASE DownSourcePad \/ DownSinkPad \/ DownStop \/ DownDone
  BY <1>3 DEF DownSourcePad, DownSinkPad, DownStop, DownDone
<1>4. CASE FlushStart \/ Seek
  BY <1>4 DEF FlushStart, Seek, FlushStartDisable0, FlushStartDisable1,
      FlushStartPause, FlushStartDone, FlushStop, FlushStopEnable0,
      FlushStopEnable1, FlushStopTask, DisableInput, DisableOutput,
      WakeUpstream, WakeLoop, PauseSourceTask
<1>5. CASE Chain \/ CreateNode \/ RunNode \/ Register
  BY <1>5 DEF Chain, SinkPadOpen, CreateNode, RunNode, Register, ChainFails
<1>6. CASE StartThread \/ StartTask \/ SetupInput \/ SetupOutput \/
    SendCodecData
  BY <1>6 DEF StartThread, StartTask, SetupInput, SetupOutput, SendCodecData
<1>7. CASE ChainPop \/ ChainResumed \/ ChainSend \/ ChainStopped
  BY <1>7 DEF ChainPop, ChainResumed, ChainSend, ChainStopped, ChainFails
<1>8. CASE Reinit \/ ReinitDisable0 \/ ReinitDisable1 \/ ReinitStatus \/
    ReinitEnable0 \/ ReinitEnable1
  BY <1>8 DEF Reinit, SinkPadOpen, ReinitDisable0, ReinitDisable1,
      ReinitStatus, ReinitEnable0, ReinitEnable1, DisableOutput, WakeLoop
<1>9. CASE Stop
  BY <1>9 DEF Stop, StopCheck, StopSend, StopAnswered, StopTimeout, StopDone,
      StopJoin, StopTask, StopTaskDone, StopFlush, StopNode
<1>10. CASE OutputLoop
  <2>1. CASE LoopPop
    BY <2>1 DEF LoopPop
  <2>2. CASE LoopResumed
    BY <2>2 DEF LoopResumed
  <2>3. CASE LoopPush
    BY <2>3 DEF LoopPush
  <2>4. CASE LoopStopped \/ PauseStatus
    BY <2>4 DEF LoopStopped, PauseStatus
  <2>5. CASE PauseTask
    BY <2>5 DEF PauseTask, PauseSourceTask
  <2>6. CASE PauseDisable0
    BY <2>6 DEF PauseDisable0, DisableInput, WakeUpstream
  <2>7. CASE PauseDisable1
    BY <2>7 DEF PauseDisable1
  <2>8. CASE LoopPutBack
    BY <2>8 DEF LoopPutBack
  <2>9. QED
    BY <1>10, <2>1, <2>2, <2>3, <2>4, <2>5, <2>6, <2>7, <2>8 DEF OutputLoop
<1>11. CASE DspThread \/ Fault \/ AlgError
  <2>1. CASE ThreadDone
    BY <2>1 DEF ThreadDone
  <2>2. CASE NoteError
    BY <2>2 DEF NoteError
  <2>3. CASE ErrorDisable0
    BY <2>3 DEF ErrorDisable0, DisableInput, WakeUpstream
  <2>4. CASE ErrorDisable1
    BY <2>4 DEF ErrorDisable1, DisableOutput, WakeLoop
  <2>5. CASE Fault \/ AlgError
    BY <2>5 DEF Fault, AlgError
  <2>6. QED
    BY <1>11, <2>1, <2>2, <2>3, <2>4, <2>5 DEF DspThread
<1>12. CASE GotInput
  BY <1>12 DEF GotInput, WakeUpstream
<1>13. CASE GotOutput
  BY <1>13 DEF GotOutput, WakeLoop
<1>14. CASE GotStop
  BY <1>14 DEF GotStop
<1>15. CASE UNCHANGED vars
  BY <1>15
<1>16. QED
  BY <1>1, <1>2, <1>3, <1>4, <1>5, <1>6, <1>7, <1>8, <1>9, <1>10, <1>11,
      <1>12, <1>13, <1>14, <1>15 DEF Next, Shutdown, Streaming, Messages

----------------------------------------------------------------------------
(* The invariant holds in every reachable state. *)
THEOREM LifecycleCorrect == Spec => []LifeInv
<1>1. LifeInv /\ [Next]_vars => LifeInv'
  <2> SUFFICES ASSUME LifeInv, [Next]_vars  PROVE LifeInv'
    OBVIOUS
  <2>1. Numbers' /\ Flags' /\ Places'
    BY NumbersKept, FlagsKept, PlacesKept
  <2>2. NodeInv' /\ StopInv' /\ DoneInv'
    BY NodeKept, StopKept, DoneKept
  <2>3. SemInv' /\ BufInv'
    BY SemKept, BufKept
  <2>4. QED
    BY <2>1, <2>2, <2>3 DEF LifeInv
<1>2. QED
  BY LifeInit, <1>1, PTL DEF Spec

(* Type correctness: in particular a port never has more buffers in its    *)
(* queue, or with the DSP, than it was given, and the STOP that the        *)
(* element waits for is the only one under way.                            *)
THEOREM LifecycleTypes == Spec => []TypeOK
<1>1. LifeInv => TypeOK
  <2> SUFFICES ASSUME LifeInv  PROVE TypeOK
    OBVIOUS
  <2> USE DEF LifeInv
  <2>1. /\ conf.nIn \in Nat \ {0} /\ conf.nOut \in Nat \ {0}
        /\ conf.maxFrames \in Nat
    BY ConfTypes DEF Flags
  <2>2. InHand \in Nat /\ OutHand \in Nat
    BY DEF InHand, OutHand
  <2>3. /\ q0 \in 0 .. conf.nIn /\ q1 \in 0 .. conf.nOut
        /\ dsp0 \in 0 .. conf.nIn /\ dsp1 \in 0 .. conf.nOut
        /\ pending \in 0 .. conf.maxFrames
    BY <2>1, <2>2 DEF Numbers, BufInv, InSum, OutSum
  <2>4. stops \in 0 .. 1 /\ flush \in Nat
    BY DEF SemInv, Numbers
  <2>5. QED
    BY <2>3, <2>4 DEF TypeOK, Numbers, Flags, Places
<1>2. QED
  BY <1>1, LifecycleCorrect, PTL

(* `done' is never left over from an earlier life: a thread that runs is   *)
(* told to end by the _dsp_stop that joins it.                             *)
THEOREM ThreadNotToldEarly == Spec => []DoneOnlyAtStop
<1>1. LifeInv => DoneOnlyAtStop
  BY DEF LifeInv, NodeInv, StopInv, DoneInv, DoneOnlyAtStop
<1>2. QED
  BY <1>1, LifecycleCorrect, PTL

(* dsp_thread never uses a handle that is closed or a node that is         *)
(* deleted, there is never a second one, and it is told to end by the      *)
(* _dsp_stop that joins it only.                                           *)
THEOREM ThreadOutlived == Spec => []ThreadServesNode
<1>1. LifeInv => ThreadServesNode
  BY DEF LifeInv, NodeInv, StopInv, DoneInv, ThreadServesNode, DoneOnlyAtStop
<1>2. QED
  BY <1>1, LifecycleCorrect, PTL

(* An answer to STOP stays in the semaphore after a time-out only, one for *)
(* each at most; a STOP that finds none there is taken for answered when   *)
(* the DSP has answered it, however many lives, faults and time-outs came  *)
(* before.                                                                 *)
THEOREM AnswersAreAccounted == Spec => []AnswersAccounted
<1>1. LifeInv => AnswersAccounted
  BY DEF LifeInv, Numbers, SemInv, AnswersAccounted, OwnAnswerUnlessLeftover,
         StopIsAnswered
<1>2. QED
  BY <1>1, LifecycleCorrect, PTL

(* A port's buffers are in its queue, with the DSP or in one thread's      *)
(* hands, all of them, and none is left when the node is gone.             *)
THEOREM BuffersAccounted == Spec => []BuffersOfThisLife
<1>1. LifeInv => BuffersOfThisLife
  <2> SUFFICES ASSUME LifeInv  PROVE BuffersOfThisLife
    OBVIOUS
  <2>1. InSum \in {0, conf.nIn} /\ OutSum \in {0, conf.nOut}
    BY DEF LifeInv, BufInv
  <2>2. node = "none" \/ stop = "node" => InSum = 0 /\ OutSum = 0
    BY DEF LifeInv, BufInv
  <2>3. InSum \in Nat /\ OutSum \in Nat
    BY DEF LifeInv, Numbers, InSum, OutSum, InHand, OutHand
  <2>4. QED
    BY <2>1, <2>2, <2>3
    DEF BuffersOfThisLife, InSum, OutSum, InHand, OutHand, LifeInv, Numbers
<1>2. QED
  BY <1>1, LifecycleCorrect, PTL

(* An element in NULL has closed its handle, deleted its node, joined its  *)
(* thread and freed its buffers, whichever way it came there.              *)
THEOREM NullKeepsNothing == Spec => []NullReleasesAll
<1>1. LifeInv => NullReleasesAll
  <2> SUFFICES ASSUME LifeInv, estate = "NULL"  PROVE NullReleasesAll
    BY DEF NullReleasesAll
  <2>1. ~handle /\ node = "none" /\ tpc = "none"
    BY DEF LifeInv, NodeInv
  <2>2. InSum = 0 /\ OutSum = 0
    BY <2>1 DEF LifeInv, BufInv
  <2>3. q0 = 0 /\ dsp0 = 0 /\ q1 = 0 /\ dsp1 = 0
    BY <2>2 DEF LifeInv, Numbers, InSum, OutSum, InHand, OutHand
  <2>4. QED
    BY <2>1, <2>3 DEF NullReleasesAll
<1>2. QED
  BY <1>1, LifecycleCorrect, PTL

----------------------------------------------------------------------------
(* Waiting and `status'.                                                   *)

(* Who disables the output queue wakes output_loop, and only               *)
(* gstdsp_reinit enables it under a thread on its way down.                *)
LEMMA LoopReleasedKept == LifeInv /\ LoopReleased /\ [Next]_vars => LoopReleased'
<1> SUFFICES ASSUME LifeInv, LoopReleased, [Next]_vars  PROVE LoopReleased'
  OBVIOUS
<1> USE DEF LifeInv, LoopReleased, Reiniting, NodeInv, StopInv, Numbers, Flags, Places,
    vars, loop, waits, element, gates, bufs,
    sem, thr, stp, counts
<1>1. CASE StateChange
  BY <1>1 DEF StateChange, ToReady, ToPaused, DownStatus, ToNull
<1>2. CASE DownDisable0 \/ DownDisable1
  BY <1>2 DEF DownDisable0, DownDisable1, DisableInput, DisableOutput,
      WakeUpstream, WakeLoop
<1>3. CASE DownSourcePad \/ DownSinkPad \/ DownStop \/ DownDone
  BY <1>3 DEF DownSourcePad, DownSinkPad, DownStop, DownDone
<1>4. CASE FlushStart \/ Seek
  BY <1>4 DEF FlushStart, Seek, FlushStartDisable0, FlushStartDisable1,
      FlushStartPause, FlushStartDone, FlushStop, FlushStopEnable0,
      FlushStopEnable1, FlushStopTask, DisableInput, DisableOutput,
      WakeUpstream, WakeLoop, PauseSourceTask
<1>5. CASE Chain \/ CreateNode \/ RunNode \/ Register
  BY <1>5 DEF Chain, SinkPadOpen, CreateNode, RunNode, Register, ChainFails
<1>6. CASE StartThread \/ StartTask \/ SetupInput \/ SetupOutput \/
    SendCodecData
  BY <1>6 DEF StartThread, StartTask, SetupInput, SetupOutput, SendCodecData
<1>7. CASE ChainPop \/ ChainResumed \/ ChainSend \/ ChainStopped
  BY <1>7 DEF ChainPop, ChainResumed, ChainSend, ChainStopped, ChainFails
<1>8. CASE Reinit \/ ReinitDisable0 \/ ReinitDisable1 \/ ReinitStatus \/
    ReinitEnable0 \/ ReinitEnable1
  BY <1>8 DEF Reinit, SinkPadOpen, ReinitDisable0, ReinitDisable1,
      ReinitStatus, ReinitEnable0, ReinitEnable1, DisableOutput, WakeLoop
<1>9. CASE Stop
  BY <1>9 DEF Stop, StopCheck, StopSend, StopAnswered, StopTimeout, StopDone,
      StopJoin, StopTask, StopTaskDone, StopFlush, StopNode
<1>10. CASE OutputLoop
  BY <1>10 DEF OutputLoop, LoopPop, LoopResumed, LoopPush, LoopStopped,
      PauseStatus, PauseTask, PauseDisable0, PauseDisable1, LoopPutBack,
      DisableInput, WakeUpstream, PauseSourceTask
<1>11. CASE DspThread \/ Fault \/ AlgError
  BY <1>11 DEF DspThread, Fault, AlgError, ThreadDone, NoteError, ErrorDisable0,
      ErrorDisable1, DisableInput, DisableOutput, WakeUpstream, WakeLoop
<1>12. CASE GotInput
  BY <1>12 DEF GotInput, WakeUpstream
<1>13. CASE GotOutput
  BY <1>13 DEF GotOutput, WakeLoop
<1>14. CASE GotStop
  BY <1>14 DEF GotStop
<1>15. CASE UNCHANGED vars
  BY <1>15
<1>16. QED
  BY <1>1, <1>2, <1>3, <1>4, <1>5, <1>6, <1>7, <1>8, <1>9, <1>10, <1>11,
      <1>12, <1>13, <1>14, <1>15 DEF Next, Shutdown, Streaming, Messages

(* A disabled queue has nobody left in it; pad_chain waits with a node,    *)
(* and gstdsp_reinit enables the queues without one.                       *)
LEMMA DesertedKept == LifeInv /\ Deserted /\ [Next]_vars => Deserted'
<1> SUFFICES ASSUME LifeInv, Deserted, [Next]_vars  PROVE Deserted'
  OBVIOUS
<1> USE DEF LifeInv, Deserted, NodeInv, StopInv, Numbers, Flags, Places,
    vars, loop, waits, element, gates, bufs,
    sem, thr, stp, counts
<1>1. CASE StateChange
  BY <1>1 DEF StateChange, ToReady, ToPaused, DownStatus, ToNull
<1>2. CASE DownDisable0 \/ DownDisable1
  BY <1>2 DEF DownDisable0, DownDisable1, DisableInput, DisableOutput,
      WakeUpstream, WakeLoop
<1>3. CASE DownSourcePad \/ DownSinkPad \/ DownStop \/ DownDone
  BY <1>3 DEF DownSourcePad, DownSinkPad, DownStop, DownDone
<1>4. CASE FlushStart \/ Seek
  BY <1>4 DEF FlushStart, Seek, FlushStartDisable0, FlushStartDisable1,
      FlushStartPause, FlushStartDone, FlushStop, FlushStopEnable0,
      FlushStopEnable1, FlushStopTask, DisableInput, DisableOutput,
      WakeUpstream, WakeLoop, PauseSourceTask
<1>5. CASE Chain \/ CreateNode \/ RunNode \/ Register
  BY <1>5 DEF Chain, SinkPadOpen, CreateNode, RunNode, Register, ChainFails
<1>6. CASE StartThread \/ StartTask \/ SetupInput \/ SetupOutput \/
    SendCodecData
  BY <1>6 DEF StartThread, StartTask, SetupInput, SetupOutput, SendCodecData
<1>7. CASE ChainPop \/ ChainResumed \/ ChainSend \/ ChainStopped
  BY <1>7 DEF ChainPop, ChainResumed, ChainSend, ChainStopped, ChainFails
<1>8. CASE Reinit \/ ReinitDisable0 \/ ReinitDisable1 \/ ReinitStatus \/
    ReinitEnable0 \/ ReinitEnable1
  BY <1>8 DEF Reinit, SinkPadOpen, ReinitDisable0, ReinitDisable1,
      ReinitStatus, ReinitEnable0, ReinitEnable1, DisableOutput, WakeLoop
<1>9. CASE Stop
  BY <1>9 DEF Stop, StopCheck, StopSend, StopAnswered, StopTimeout, StopDone,
      StopJoin, StopTask, StopTaskDone, StopFlush, StopNode
<1>10. CASE OutputLoop
  BY <1>10 DEF OutputLoop, LoopPop, LoopResumed, LoopPush, LoopStopped,
      PauseStatus, PauseTask, PauseDisable0, PauseDisable1, LoopPutBack,
      DisableInput, WakeUpstream, PauseSourceTask
<1>11. CASE DspThread \/ Fault \/ AlgError
  BY <1>11 DEF DspThread, Fault, AlgError, ThreadDone, NoteError, ErrorDisable0,
      ErrorDisable1, DisableInput, DisableOutput, WakeUpstream, WakeLoop
<1>12. CASE GotInput
  BY <1>12 DEF GotInput, WakeUpstream
<1>13. CASE GotOutput
  BY <1>13 DEF GotOutput, WakeLoop
<1>14. CASE GotStop
  BY <1>14 DEF GotStop
<1>15. CASE UNCHANGED vars
  BY <1>15
<1>16. QED
  BY <1>1, <1>2, <1>3, <1>4, <1>5, <1>6, <1>7, <1>8, <1>9, <1>10, <1>11,
      <1>12, <1>13, <1>14, <1>15 DEF Next, Shutdown, Streaming, Messages

(* dsp_thread ends in gstdsp_got_error, after it has disabled the input    *)
(* queue, or in _dsp_stop.                                                 *)
LEMMA ServedKept == LifeInv /\ Deserted /\ ServedOrDisabled /\ [Next]_vars => ServedOrDisabled'
<1> SUFFICES ASSUME LifeInv, Deserted, ServedOrDisabled, [Next]_vars  PROVE ServedOrDisabled'
  OBVIOUS
<1> USE DEF LifeInv, Deserted, ServedOrDisabled, Seeking, NodeInv, StopInv, DoneInv,
    Numbers, Flags, Places, vars, loop, waits, element, gates, bufs,
    sem, thr, stp, counts
<1>1. CASE StateChange
  BY <1>1 DEF StateChange, ToReady, ToPaused, DownStatus, ToNull
<1>2. CASE DownDisable0 \/ DownDisable1
  BY <1>2 DEF DownDisable0, DownDisable1, DisableInput, DisableOutput,
      WakeUpstream, WakeLoop
<1>3. CASE DownSourcePad \/ DownSinkPad \/ DownStop \/ DownDone
  BY <1>3 DEF DownSourcePad, DownSinkPad, DownStop, DownDone
<1>4. CASE FlushStart \/ Seek
  BY <1>4 DEF FlushStart, Seek, FlushStartDisable0, FlushStartDisable1,
      FlushStartPause, FlushStartDone, FlushStop, FlushStopEnable0,
      FlushStopEnable1, FlushStopTask, DisableInput, DisableOutput,
      WakeUpstream, WakeLoop, PauseSourceTask
<1>5. CASE Chain \/ CreateNode \/ RunNode \/ Register
  BY <1>5 DEF Chain, SinkPadOpen, CreateNode, RunNode, Register, ChainFails
<1>6. CASE StartThread \/ StartTask \/ SetupInput \/ SetupOutput \/
    SendCodecData
  BY <1>6 DEF StartThread, StartTask, SetupInput, SetupOutput, SendCodecData
<1>7. CASE ChainPop \/ ChainResumed \/ ChainSend \/ ChainStopped
  BY <1>7 DEF ChainPop, ChainResumed, ChainSend, ChainStopped, ChainFails
<1>8. CASE Reinit \/ ReinitDisable0 \/ ReinitDisable1 \/ ReinitStatus \/
    ReinitEnable0 \/ ReinitEnable1
  BY <1>8 DEF Reinit, SinkPadOpen, ReinitDisable0, ReinitDisable1,
      ReinitStatus, ReinitEnable0, ReinitEnable1, DisableOutput, WakeLoop
<1>9. CASE Stop
  BY <1>9 DEF Stop, StopCheck, StopSend, StopAnswered, StopTimeout, StopDone,
      StopJoin, StopTask, StopTaskDone, StopFlush, StopNode
<1>10. CASE OutputLoop
  BY <1>10 DEF OutputLoop, LoopPop, LoopResumed, LoopPush, LoopStopped,
      PauseStatus, PauseTask, PauseDisable0, PauseDisable1, LoopPutBack,
      DisableInput, WakeUpstream, PauseSourceTask
<1>11. CASE DspThread \/ Fault \/ AlgError
  BY <1>11 DEF DspThread, Fault, AlgError, ThreadDone, NoteError, ErrorDisable0,
      ErrorDisable1, DisableInput, DisableOutput, WakeUpstream, WakeLoop
<1>12. CASE GotInput
  BY <1>12 DEF GotInput, WakeUpstream
<1>13. CASE GotOutput
  BY <1>13 DEF GotOutput, WakeLoop
<1>14. CASE GotStop
  BY <1>14 DEF GotStop
<1>15. CASE UNCHANGED vars
  BY <1>15
<1>16. QED
  BY <1>1, <1>2, <1>3, <1>4, <1>5, <1>6, <1>7, <1>8, <1>9, <1>10, <1>11,
      <1>12, <1>13, <1>14, <1>15 DEF Next, Shutdown, Streaming, Messages

(* Nobody sets `status' to OK while a queue is disabled, or about to be.    *)
LEMMA GateKept == LifeInv /\ WaitInv /\ GateInv /\ [Next]_vars => GateInv'
<1> SUFFICES ASSUME LifeInv, WaitInv, GateInv, [Next]_vars  PROVE GateInv'
  OBVIOUS
<1> USE DEF LifeInv, WaitInv, LoopReleased, Deserted, ServedOrDisabled, Reiniting,
    Seeking, GateInv, NodeInv, StopInv, Numbers, Flags, Places, vars, loop, waits, element, gates, bufs,
    sem, thr, stp, counts
<1>1. CASE StateChange
  BY <1>1 DEF StateChange, ToReady, ToPaused, DownStatus, ToNull
<1>2. CASE DownDisable0 \/ DownDisable1
  BY <1>2 DEF DownDisable0, DownDisable1, DisableInput, DisableOutput,
      WakeUpstream, WakeLoop
<1>3. CASE DownSourcePad \/ DownSinkPad \/ DownStop \/ DownDone
  BY <1>3 DEF DownSourcePad, DownSinkPad, DownStop, DownDone
<1>4. CASE FlushStart \/ Seek
  BY <1>4 DEF FlushStart, Seek, FlushStartDisable0, FlushStartDisable1,
      FlushStartPause, FlushStartDone, FlushStop, FlushStopEnable0,
      FlushStopEnable1, FlushStopTask, DisableInput, DisableOutput,
      WakeUpstream, WakeLoop, PauseSourceTask
<1>5. CASE Chain \/ CreateNode \/ RunNode \/ Register
  BY <1>5 DEF Chain, SinkPadOpen, CreateNode, RunNode, Register, ChainFails
<1>6. CASE StartThread \/ StartTask \/ SetupInput \/ SetupOutput \/
    SendCodecData
  BY <1>6 DEF StartThread, StartTask, SetupInput, SetupOutput, SendCodecData
<1>7. CASE ChainPop \/ ChainResumed \/ ChainSend \/ ChainStopped
  BY <1>7 DEF ChainPop, ChainResumed, ChainSend, ChainStopped, ChainFails
<1>8. CASE Reinit \/ ReinitDisable0 \/ ReinitDisable1 \/ ReinitStatus \/
    ReinitEnable0 \/ ReinitEnable1
  BY <1>8 DEF Reinit, SinkPadOpen, ReinitDisable0, ReinitDisable1,
      ReinitStatus, ReinitEnable0, ReinitEnable1, DisableOutput, WakeLoop
<1>9. CASE Stop
  BY <1>9 DEF Stop, StopCheck, StopSend, StopAnswered, StopTimeout, StopDone,
      StopJoin, StopTask, StopTaskDone, StopFlush, StopNode
<1>10. CASE OutputLoop
  BY <1>10 DEF OutputLoop, LoopPop, LoopResumed, LoopPush, LoopStopped,
      PauseStatus, PauseTask, PauseDisable0, PauseDisable1, LoopPutBack,
      DisableInput, WakeUpstream, PauseSourceTask
<1>11. CASE DspThread \/ Fault \/ AlgError
  BY <1>11 DEF DspThread, Fault, AlgError, ThreadDone, NoteError, ErrorDisable0,
      ErrorDisable1, DisableInput, DisableOutput, WakeUpstream, WakeLoop
<1>12. CASE GotInput
  BY <1>12 DEF GotInput, WakeUpstream
<1>13. CASE GotOutput
  BY <1>13 DEF GotOutput, WakeLoop
<1>14. CASE GotStop
  BY <1>14 DEF GotStop
<1>15. CASE UNCHANGED vars
  BY <1>15
<1>16. QED
  BY <1>1, <1>2, <1>3, <1>4, <1>5, <1>6, <1>7, <1>8, <1>9, <1>10, <1>11,
      <1>12, <1>13, <1>14, <1>15 DEF Next, Shutdown, Streaming, Messages

(* Who waits in the queues, and what `status' says of them, for every      *)
(* element and every bound.                                                *)
THEOREM WaitingCorrect == Spec => [](WaitInv /\ GateInv)
<1>1. Init => WaitInv /\ GateInv
  BY DEF Init, WaitInv, LoopReleased, Deserted, ServedOrDisabled, Reiniting, Seeking,
         GateInv
<1>2. LifeInv /\ WaitInv /\ GateInv /\ [Next]_vars => (WaitInv /\ GateInv)'
  BY LoopReleasedKept, DesertedKept, ServedKept, GateKept DEF WaitInv
<1>3. QED
  BY <1>1, <1>2, LifecycleCorrect, PTL DEF Spec

(* Neither thread is left behind in a queue: on the way down output_loop   *)
(* is released for the waits of the pads and of _dsp_stop, and after a     *)
(* fault or a failed start pad_chain waits for no buffer that dsp_thread   *)
(* would have to return.                                                   *)
THEOREM NobodyWaitsInVain == Spec => []NobodyLeftWaiting
<1>1. LifeInv /\ WaitInv => NobodyLeftWaiting
  <2> SUFFICES ASSUME LifeInv, WaitInv  PROVE NobodyLeftWaiting
    OBVIOUS
  <2>1. LoopReleasedUnlessReinit
    BY DEF WaitInv, LoopReleased, LoopReleasedUnlessReinit, LoopReleasedByStop
  <2>2. ASSUME nflush = 0, spc = "asleep"  PROVE tpc # "none"
    <3>1. en0 /\ ~halted /\ node # "none"
      BY <2>2 DEF WaitInv, Deserted
    <3>2. stop = "none"
      BY <2>2 DEF LifeInv, StopInv
    <3>3. QED
      BY <2>2, <3>1, <3>2 DEF WaitInv, ServedOrDisabled
  <2>3. QED
    BY <2>1, <2>2 DEF NobodyLeftWaiting, NoWaitUnlessFlushed, NoWaitForLostBuffers
<1>2. QED
  BY <1>1, LifecycleCorrect, WaitingCorrect, PTL

(* pad_chain never uses the buffer it did not get: through faults, failed  *)
(* starts and any number of lives a disabled queue goes with a `status'    *)
(* that pad_chain stops for.                                               *)
THEOREM ChainAlwaysHasBuffer == Spec => []ChainHasBufferUnlessReset
<1>1. GateInv => ChainHasBufferUnlessReset
  BY DEF GateInv, ChainHasBufferUnlessReset, ChainHasBuffer
<1>2. QED
  BY <1>1, WaitingCorrect, PTL

============================================================================
