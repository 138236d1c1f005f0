----------------------------- MODULE DspLifecycle --------------------------
(***************************************************************************)
(* The lifecycle of a gst-dsp element (src/gst-dsp/gstdspbase.c): its      *)
(* state changes, the start of the DSP node in the streaming thread, the   *)
(* threads and resources that come with it, renegotiation, and _dsp_stop,  *)
(* with its STOP handshake, its joins and the release of everything.       *)
(*                                                                         *)
(* What happens to a buffer in between is DspBase; here a queue is the     *)
(* number of buffers in it, and of output_loop's iteration there are the   *)
(* pop, the test of `status' with a push, and each step of pause_task.     *)
(*                                                                         *)
(* GStreamer 0.10 is modelled from how the code uses it: the application   *)
(* changes states and seeks in one thread; the sink pad accepts data in    *)
(* PAUSED outside flushes; the parent's change_state to READY waits for    *)
(* pad_chain and for the iteration of output_loop in progress; upstream    *)
(* stops when pad_chain fails, until a flush.  Downstream has released     *)
(* its buffers when the element stops.                                     *)
(***************************************************************************)
EXTENDS Naturals

CONSTANT Confs    (* what elements and streams there are (see Conf)        *)

(* An element, fixed by its class, and bounds on what happens to it.       *)
Conf ==
  [nIn : Nat \ {0},          (* num_buffers of ports[0]                    *)
   nOut : Nat \ {0},         (* num_buffers of ports[1]                    *)
   codecData : BOOLEAN,      (* codec data is sent when the node starts    *)
   faults : BOOLEAN,         (* the DSP may fail (MMUFAULT, SYSERROR)      *)
   maxAlgErrors : Nat,       (* bound: errors its algorithm reports        *)
   startFailures : BOOLEAN,  (* the bridge may refuse to open, create, run *)
   maxStarts : Nat,          (* bound: how often a node is created         *)
   maxFrames : Nat,          (* bound: frames, in all                      *)
   maxFlushes : Nat,         (* bound: flushing seeks                      *)
   maxReneg : Nat]           (* bound: renegotiations                      *)

ASSUME LifeAssumption == Confs \subseteq Conf

VARIABLES
  conf,           (* the element and stream at hand, constant              *)
  (* the element *)
  estate,         (* "NULL", "READY" or "PAUSED" (PLAYING is no different) *)
  handle,         (* dsp_handle is open                                    *)
  node,           (* "none", "created" or "running"                        *)
  status, en0, en1, done, dsp_error,
  dsp_thread,     (* the GThread that the element points to, 0 for NULL    *)
  q0, q1,         (* buffers in the port's queues                          *)
  flush,          (* the count of the semaphore                            *)
  task,           (* the source pad's task                                 *)
  (* threads *)
  apc,            (* the application: state changes and seeks              *)
  spc,            (* the streaming thread: pad_chain, setcaps              *)
  lpc,            (* output_loop                                           *)
  lbuf,           (* it has a buffer of the queue in hand                  *)
  lret,           (* the `status' it pauses for, "OK" while it does not    *)
  tpc, tid,       (* dsp_thread, and which one it is                       *)
  stop, stopBy,   (* _dsp_stop, and the thread that runs it                *)
  (* the DSP *)
  dsp0, dsp1,     (* buffers it has                                        *)
  pending,        (* frames it works on                                    *)
  stops,          (* STOP messages it has not answered                     *)
  (* upstream *)
  halted,         (* pad_chain has failed, and no flush since              *)
  (* bounds and histories *)
  nstarts, nframes, nflush, nreneg, nalg,
  timedOut,       (* the last STOP's wait has timed out                    *)
  leftover,       (* an answer was in the semaphore before it was sent     *)
  timeouts        (* how many waits have timed out                         *)

element == <<estate, handle, node, done, dsp_error, dsp_thread>>
gates   == <<status, en0, en1>>
bufs    == <<q0, q1, dsp0, dsp1, pending>>
waits   == <<timedOut, leftover, timeouts>>
sem     == <<flush, stops, waits>>
thr     == <<tpc, tid>>
stp     == <<stop, stopBy>>
loop    == <<lpc, lbuf, lret>>
counts  == <<conf, halted, nstarts, nframes, nflush, nreneg, nalg>>

vars == <<element, gates, bufs, sem, thr, stp, counts, task, apc, spc, loop>>

Init ==
  /\ conf \in Confs
  /\ estate = "NULL" /\ handle = FALSE /\ node = "none"
  /\ status = "OK" /\ en0 = TRUE /\ en1 = TRUE
  /\ done = FALSE /\ dsp_error = FALSE /\ dsp_thread = 0
  /\ q0 = 0 /\ q1 = 0 /\ dsp0 = 0 /\ dsp1 = 0 /\ pending = 0
  /\ flush = 0 /\ stops = 0
  /\ timedOut = FALSE /\ leftover = FALSE /\ timeouts = 0
  /\ task = "none"
  /\ apc = "idle" /\ spc = "idle"
  /\ lpc = "idle" /\ lbuf = FALSE /\ lret = "OK"
  /\ tpc = "none" /\ tid = 0
  /\ stop = "none" /\ stopBy = "none"
  /\ halted = FALSE
  /\ nstarts = 0 /\ nframes = 0 /\ nflush = 0 /\ nreneg = 0 /\ nalg = 0

----------------------------------------------------------------------------
(* Mutant of WakeUpstream: g_cond_signal is missing. *)
WakeNobody == UNCHANGED spc

(* async_queue_disable, and async_queue_push by dsp_thread, wake the       *)
(* queue's consumer.                                                       *)
WakeUpstream == spc' = IF spc = "asleep" THEN "woken" ELSE spc

WakeLoop ==
  /\ lpc' = IF lpc = "asleep" THEN "woken" ELSE lpc
  /\ UNCHANGED <<lbuf, lret>>

DisableInput == en0' = FALSE /\ WakeUpstream
DisableOutput == en1' = FALSE /\ WakeLoop

(* A port's buffer in the hands of a thread. *)
InHand == IF spc = "got" THEN 1 ELSE 0
OutHand == IF lbuf THEN 1 ELSE 0

----------------------------------------------------------------------------
(* The application: change_state.                                          *)

(* NULL to READY: dsp_init. *)
ToReady ==
  /\ apc = "idle"
  /\ estate = "NULL"
  /\ \/ handle' = TRUE /\ estate' = "READY"
     \/ conf.startFailures /\ handle' = FALSE /\ UNCHANGED estate
  /\ UNCHANGED <<node, done, dsp_error, dsp_thread, gates, bufs, sem, thr, stp,
                 counts, task, apc, spc, loop>>

(* READY to PAUSED, up to the activation of the pads by the parent. *)
ToPaused ==
  /\ apc = "idle"
  /\ estate = "READY"
  /\ status' = "OK"
  /\ done' = FALSE
  /\ en0' = TRUE /\ en1' = TRUE
  /\ estate' = "PAUSED"
  /\ halted' = FALSE
  /\ UNCHANGED <<handle, node, dsp_error, dsp_thread, bufs, sem, thr, stp,
                 nstarts, nframes, nflush, nreneg, task, apc, spc, loop, nalg,
                 conf>>

(* Mutant of DownStatus: `status' is left alone. *)
DownStatusForgets ==
  /\ apc = "idle"
  /\ estate = "PAUSED"
  /\ apc' = "down0"
  /\ UNCHANGED <<element, gates, bufs, sem, thr, stp, counts, task, spc, loop>>

(* PAUSED to READY. *)
DownStatus ==
  /\ apc = "idle"
  /\ estate = "PAUSED"
  /\ status' = "WRONG_STATE"
  /\ apc' = "down0"
  /\ UNCHANGED <<element, en0, en1, bufs, sem, thr, stp, counts, task, spc,
                 loop>>

DownDisable0 ==
  /\ apc = "down0"
  /\ DisableInput
  /\ apc' = "down1"
  /\ UNCHANGED <<element, status, en1, bufs, sem, thr, stp, counts, task,
                 loop>>

(* Mutant of DownDisable1: nobody wakes output_loop. *)
DownDisable1Quietly ==
  /\ apc = "down1"
  /\ en1' = FALSE
  /\ apc' = "pads"
  /\ UNCHANGED <<element, status, en0, bufs, sem, thr, stp, counts, task, spc,
                 loop>>

DownDisable1 ==
  /\ apc = "down1"
  /\ DisableOutput
  /\ apc' = "pads"
  /\ UNCHANGED <<element, status, en0, bufs, sem, thr, stp, counts, task, spc>>

(* The parent deactivates the source pad, then the sink pad, waiting for   *)
(* the iteration of output_loop and for pad_chain.                         *)
DownSourcePad ==
  /\ apc = "pads"
  /\ lpc = "idle"
  /\ apc' = "sinkpad"
  /\ UNCHANGED <<element, gates, bufs, sem, thr, stp, counts, task, spc, loop>>

DownSinkPad ==
  /\ apc = "sinkpad"
  /\ apc' = "sinkwait"
  /\ UNCHANGED <<element, gates, bufs, sem, thr, stp, counts, task, spc, loop>>

DownStop ==
  /\ apc = "sinkwait"
  /\ spc = "idle"
  /\ apc' = "stopping"
  /\ stop' = "check" /\ stopBy' = "application"
  /\ UNCHANGED <<element, gates, bufs, sem, thr, counts, task, spc, loop>>

DownDone ==
  /\ apc = "stopping"
  /\ stop = "none"
  /\ estate' = "READY"
  /\ apc' = "idle"
  /\ UNCHANGED <<handle, node, done, dsp_error, dsp_thread, gates, bufs, sem,
                 thr, stp, counts, task, spc, loop>>

(* Mutant of ToNull: the handle is closed on success only. *)
ToNullLeavesHandle ==
  /\ apc = "idle"
  /\ estate = "READY"
  /\ estate' = "NULL"
  /\ handle' = (conf.startFailures /\ handle)
  /\ UNCHANGED <<node, done, dsp_error, dsp_thread, gates, bufs, sem, thr, stp,
                 counts, task, apc, spc, loop>>

(* READY to NULL: dsp_deinit closes the handle even if it reports failure. *)
ToNull ==
  /\ apc = "idle"
  /\ estate = "READY"
  /\ handle' = FALSE
  /\ \/ estate' = "NULL"
     \/ conf.startFailures /\ handle /\ UNCHANGED estate
  /\ UNCHANGED <<node, done, dsp_error, dsp_thread, gates, bufs, sem, thr, stp,
                 counts, task, apc, spc, loop>>

----------------------------------------------------------------------------
(* The application: a flushing seek (sink_event, as in DspBase).           *)

FlushStart ==
  /\ apc = "idle"
  /\ estate = "PAUSED"
  /\ nflush < conf.maxFlushes
  /\ nflush' = nflush + 1
  /\ status' = "WRONG_STATE"
  /\ apc' = "fs0"
  /\ UNCHANGED <<element, en0, en1, bufs, sem, thr, stp, halted, nstarts,
                 nframes, nreneg, task, spc, loop, nalg, conf>>

FlushStartDisable0 ==
  /\ apc = "fs0"
  /\ DisableInput
  /\ apc' = "fs1"
  /\ UNCHANGED <<element, status, en1, bufs, sem, thr, stp, counts, task,
                 loop>>

FlushStartDisable1 ==
  /\ apc = "fs1"
  /\ DisableOutput
  /\ apc' = "fspause"
  /\ UNCHANGED <<element, status, en0, bufs, sem, thr, stp, counts, task, spc>>

(* Mutant of PauseSourceTask: gst_pad_pause_task is not called. *)
PauseNothing == UNCHANGED task

(* gst_pad_pause_task leaves a pad without a task alone. *)
PauseSourceTask == task' = IF task = "none" THEN "none" ELSE "paused"

FlushStartPause ==
  /\ apc = "fspause"
  /\ PauseSourceTask
  /\ apc' = "fswait"
  /\ UNCHANGED <<element, gates, bufs, sem, thr, stp, counts, spc, loop>>

FlushStartDone ==
  /\ apc = "fswait"
  /\ lpc = "idle"
  /\ apc' = "flushing"
  /\ UNCHANGED <<element, gates, bufs, sem, thr, stp, counts, task, spc, loop>>

FlushStop ==
  /\ apc = "flushing"
  /\ spc = "idle"
  /\ status' = "OK"
  /\ halted' = FALSE
  /\ apc' = "st0"
  /\ UNCHANGED <<element, en0, en1, bufs, sem, thr, stp, nstarts, nframes,
                 nflush, nreneg, task, spc, loop, nalg, conf>>

FlushStopEnable0 ==
  /\ apc = "st0"
  /\ en0' = TRUE
  /\ apc' = "st1"
  /\ UNCHANGED <<element, status, en1, bufs, sem, thr, stp, counts, task, spc,
                 loop>>

FlushStopEnable1 ==
  /\ apc = "st1"
  /\ en1' = TRUE
  /\ apc' = "sttask"
  /\ UNCHANGED <<element, status, en0, bufs, sem, thr, stp, counts, task, spc,
                 loop>>

FlushStopTask ==
  /\ apc = "sttask"
  /\ task' = "started"
  /\ apc' = "idle"
  /\ UNCHANGED <<element, gates, bufs, sem, thr, stp, counts, spc, loop>>

----------------------------------------------------------------------------
(* The streaming thread: a frame, and the start of the node with the first *)
(* one (init_node, gstdsp_start).                                          *)

SinkPadOpen ==
  /\ spc = "idle"
  /\ estate = "PAUSED"
  /\ apc \in {"idle", "down0", "down1", "pads", "sinkpad"}
  /\ ~halted

Chain ==
  /\ SinkPadOpen
  /\ nframes < conf.maxFrames
  /\ nframes' = nframes + 1
  /\ IF node = "none" THEN nstarts < conf.maxStarts /\ spc' = "create"
                      ELSE spc' = "pop"
  /\ UNCHANGED <<element, gates, bufs, sem, thr, stp, halted, nstarts, nflush,
                 nreneg, task, apc, loop, nalg, conf>>

(* pad_chain returns an error. *)
ChainFails == halted' = TRUE /\ spc' = "idle"

(* Parsing, caps and create_node, which allocates the ports' buffers. *)
CreateNode ==
  /\ spc = "create"
  /\ \/ /\ handle
        /\ node' = "created"
        /\ nstarts' = nstarts + 1
        /\ spc' = "run"
        /\ UNCHANGED halted
     \/ /\ conf.startFailures
        /\ ChainFails
        /\ UNCHANGED <<node, nstarts>>
  /\ UNCHANGED <<estate, handle, done, dsp_error, dsp_thread, gates, bufs, sem,
                 thr, stp, nframes, nflush, nreneg, task, apc, loop, nalg,
                 conf>>

RunNode ==
  /\ spc = "run"
  /\ \/ node' = "running" /\ spc' = "register" /\ UNCHANGED halted
     \/ conf.startFailures /\ ChainFails /\ UNCHANGED node
  /\ UNCHANGED <<estate, handle, done, dsp_error, dsp_thread, gates, bufs, sem,
                 thr, stp, nstarts, nframes, nflush, nreneg, task, apc, loop,
                 nalg, conf>>

(* The notifications for messages, MMUFAULT and SYSERROR. *)
Register ==
  /\ spc = "register"
  /\ \/ spc' = "thread" /\ UNCHANGED halted
     \/ conf.startFailures /\ ChainFails
  /\ UNCHANGED <<element, gates, bufs, sem, thr, stp, nstarts, nframes, nflush,
                 nreneg, task, apc, loop, nalg, conf>>

StartThread ==
  /\ spc = "thread"
  /\ dsp_thread' = nstarts
  /\ tid' = nstarts /\ tpc' = "run"
  /\ spc' = "task"
  /\ UNCHANGED <<estate, handle, node, done, dsp_error, gates, bufs, sem, stp,
                 counts, task, apc, loop>>

StartTask ==
  /\ spc = "task"
  /\ task' = "started"
  /\ spc' = "setup0"
  /\ UNCHANGED <<element, gates, bufs, sem, thr, stp, counts, apc, loop>>

(* setup_buffers: input buffers to their queue, output buffers to the DSP. *)
SetupInput ==
  /\ spc = "setup0"
  /\ q0' = q0 + conf.nIn
  /\ spc' = "setup1"
  /\ UNCHANGED <<element, gates, q1, dsp0, dsp1, pending, sem, thr, stp,
                 counts, task, apc, loop>>

SetupOutput ==
  /\ spc = "setup1"
  /\ dsp1' = dsp1 + conf.nOut
  /\ spc' = IF conf.codecData THEN "codec" ELSE "pop"
  /\ UNCHANGED <<element, gates, q0, q1, dsp0, pending, sem, thr, stp, counts,
                 task, apc, loop>>

(* gstdsp_send_codec_data, with async_queue_pop_forced. *)
SendCodecData ==
  /\ spc = "codec"
  /\ q0 > 0
  /\ q0' = q0 - 1
  /\ dsp0' = dsp0 + 1
  /\ spc' = "pop"
  /\ UNCHANGED <<element, gates, q1, dsp1, pending, sem, thr, stp, counts,
                 task, apc, loop>>

ChainPop ==
  /\ spc = "pop"
  /\ IF en0 /\ q0 = 0
     THEN spc' = "asleep" /\ UNCHANGED q0
     ELSE IF en0 THEN q0' = q0 - 1 /\ spc' = "got"
     ELSE spc' = "nobuf" /\ UNCHANGED q0
  /\ UNCHANGED <<element, gates, q1, dsp0, dsp1, pending, sem, thr, stp,
                 counts, task, apc, loop>>

ChainResumed ==
  /\ spc = "woken"
  /\ IF q0 > 0 THEN q0' = q0 - 1 /\ spc' = "got"
               ELSE spc' = "nobuf" /\ UNCHANGED q0
  /\ UNCHANGED <<element, gates, q1, dsp0, dsp1, pending, sem, thr, stp,
                 counts, task, apc, loop>>

(* The test of `status'; with a buffer the frame goes to the DSP.  Without *)
(* one the thread does not survive ("crash").                              *)
ChainSend ==
  /\ spc \in {"got", "nobuf"}
  /\ status = "OK"
  /\ IF spc = "got"
     THEN dsp0' = dsp0 + 1 /\ pending' = pending + 1 /\ spc' = "idle"
     ELSE spc' = "crash" /\ UNCHANGED <<dsp0, pending>>
  /\ UNCHANGED <<element, gates, q0, q1, dsp1, sem, thr, stp, counts, task,
                 apc, loop>>

ChainStopped ==
  /\ spc \in {"got", "nobuf"}
  /\ status # "OK"
  /\ q0' = IF spc = "got" THEN q0 + 1 ELSE q0
  /\ ChainFails
  /\ UNCHANGED <<element, gates, q1, dsp0, dsp1, pending, sem, thr, stp,
                 nstarts, nframes, nflush, nreneg, task, apc, loop, nalg,
                 conf>>

----------------------------------------------------------------------------
(* The streaming thread: gstdsp_reinit, when the caps change (setcaps).    *)

Reinit ==
  /\ SinkPadOpen
  /\ node # "none"
  /\ nreneg < conf.maxReneg
  /\ nreneg' = nreneg + 1
  /\ status' = "WRONG_STATE"
  /\ spc' = "re0"
  /\ UNCHANGED <<element, en0, en1, bufs, sem, thr, stp, halted, nstarts,
                 nframes, nflush, task, apc, loop, nalg, conf>>

ReinitDisable0 ==
  /\ spc = "re0"
  /\ en0' = FALSE
  /\ spc' = "re1"
  /\ UNCHANGED <<element, status, en1, bufs, sem, thr, stp, counts, task, apc,
                 loop>>

ReinitDisable1 ==
  /\ spc = "re1"
  /\ DisableOutput
  /\ spc' = "restop"
  /\ stop' = "check" /\ stopBy' = "streaming"
  /\ UNCHANGED <<element, status, en0, bufs, sem, thr, counts, task, apc>>

ReinitStatus ==
  /\ spc = "restop"
  /\ stop = "none"
  /\ status' = "OK"
  /\ done' = FALSE
  /\ spc' = "re2"
  /\ UNCHANGED <<estate, handle, node, dsp_error, dsp_thread, en0, en1, bufs,
                 sem, thr, stp, counts, task, apc, loop>>

ReinitEnable0 ==
  /\ spc = "re2"
  /\ en0' = TRUE
  /\ spc' = "re3"
  /\ UNCHANGED <<element, status, en1, bufs, sem, thr, stp, counts, task, apc,
                 loop>>

ReinitEnable1 ==
  /\ spc = "re3"
  /\ en1' = TRUE
  /\ spc' = "idle"
  /\ UNCHANGED <<element, status, en0, bufs, sem, thr, stp, counts, task, apc,
                 loop>>

----------------------------------------------------------------------------
(* _dsp_stop, run by the application or by gstdsp_reinit.                  *)

StopCheck ==
  /\ stop = "check"
  /\ stop' = IF node = "none" THEN "none"
             ELSE IF dsp_error THEN "join" ELSE "send"
  /\ UNCHANGED <<element, gates, bufs, sem, thr, stopBy, counts, task, apc,
                 spc, loop>>

(* send_stop_message.  Nobody waits if the message cannot be sent. *)
StopSend ==
  /\ stop = "send"
  /\ \/ node = "running" /\ stops' = stops + 1 /\ stop' = "wait"
     \/ (node # "running" \/ conf.faults) /\ stop' = "done" /\ UNCHANGED stops
  /\ leftover' = (flush > 0)
  /\ timedOut' = FALSE
  /\ UNCHANGED <<element, gates, bufs, flush, timeouts, thr, stopBy, counts,
                 task, apc, spc, loop>>

(* Mutant of StopAnswered: the semaphore is not counted down. *)
StopAnsweredUncounted ==
  /\ stop = "wait"
  /\ flush > 0
  /\ stop' = "done"
  /\ UNCHANGED <<element, gates, bufs, sem, thr, stopBy, counts, task, apc, spc,
                 loop>>

StopAnswered ==
  /\ stop = "wait"
  /\ flush > 0
  /\ flush' = flush - 1
  /\ stop' = "done"
  /\ UNCHANGED <<element, gates, bufs, stops, waits, thr, stopBy, counts, task,
                 apc, spc, loop>>

(* Two seconds without an answer. *)
StopTimeout ==
  /\ stop = "wait"
  /\ flush = 0
  /\ timedOut' = TRUE
  /\ timeouts' = timeouts + 1
  /\ stop' = "done"
  /\ UNCHANGED <<element, gates, bufs, flush, stops, leftover, thr, stopBy,
                 counts, task, apc, spc, loop>>

StopDone ==
  /\ stop = "done"
  /\ done' = TRUE
  /\ stop' = "join"
  /\ UNCHANGED <<estate, handle, node, dsp_error, dsp_thread, gates, bufs, sem,
                 thr, stopBy, counts, task, apc, spc, loop>>

(* Mutant of StopJoin: dsp_thread is told to end, not waited for. *)
StopNoJoin ==
  /\ stop = "join"
  /\ stop' = "task"
  /\ UNCHANGED <<element, gates, bufs, sem, thr, stopBy, counts, task, apc,
                 spc, loop>>

(* g_thread_join of the thread the element points to, which is not the     *)
(* running one, but NULL or a thread joined before, if gstdsp_start failed.*)
StopJoin ==
  /\ stop = "join"
  /\ dsp_thread # tid \/ tpc = "none"
  /\ stop' = "task"
  /\ UNCHANGED <<element, gates, bufs, sem, thr, stopBy, counts, task, apc,
                 spc, loop>>

(* gst_pad_stop_task, and its wait for the iteration in progress. *)
StopTask ==
  /\ stop = "task"
  /\ task' = "none"
  /\ stop' = "taskwait"
  /\ UNCHANGED <<element, gates, bufs, sem, thr, stopBy, counts, apc, spc,
                 loop>>

(* Mutant of StopTaskDone: output_loop is not waited for. *)
StopTaskNoWait ==
  /\ stop = "taskwait"
  /\ stop' = "flush"
  /\ UNCHANGED <<element, gates, bufs, sem, thr, stopBy, counts, task, apc,
                 spc, loop>>

StopTaskDone ==
  /\ stop = "taskwait"
  /\ lpc = "idle"
  /\ stop' = "flush"
  /\ UNCHANGED <<element, gates, bufs, sem, thr, stopBy, counts, task, apc,
                 spc, loop>>

(* Mutant of StopFlush: the queues keep the buffers that are freed. *)
StopFlushNoQueues ==
  /\ stop = "flush"
  /\ dsp0' = 0 /\ dsp1' = 0 /\ pending' = 0
  /\ stop' = "node"
  /\ UNCHANGED <<element, gates, q0, q1, sem, thr, stopBy, counts, task, apc,
                 spc, loop>>

(* du_port_flush frees the buffers' memory, wherever they are, and empties *)
(* the queues.                                                             *)
StopFlush ==
  /\ stop = "flush"
  /\ q0' = 0 /\ q1' = 0 /\ dsp0' = 0 /\ dsp1' = 0 /\ pending' = 0
  /\ stop' = "node"
  /\ UNCHANGED <<element, gates, sem, thr, stopBy, counts, task, apc, spc,
                 loop>>

(* The node is terminated, unless the DSP has failed, and deleted; errors  *)
(* are only logged.                                                        *)
StopNode ==
  /\ stop = "node"
  /\ node' = "none"
  /\ stops' = 0
  /\ stop' = "none"
  /\ UNCHANGED <<estate, handle, done, dsp_error, dsp_thread, gates, bufs,
                 flush, waits, thr, stopBy, counts, task, apc, spc, loop>>

----------------------------------------------------------------------------
(* output_loop.                                                            *)

LoopPop ==
  /\ lpc = "idle"
  /\ task = "started"
  /\ IF en1 /\ q1 = 0
     THEN lpc' = "asleep" /\ UNCHANGED <<q1, lbuf>>
     ELSE /\ lpc' = "check"
          /\ lbuf' = en1
          /\ q1' = IF en1 THEN q1 - 1 ELSE q1
  /\ UNCHANGED <<element, gates, q0, dsp0, dsp1, pending, sem, thr, stp, counts,
                 task, apc, spc, lret>>

LoopResumed ==
  /\ lpc = "woken"
  /\ lpc' = "check"
  /\ lbuf' = (q1 > 0)
  /\ q1' = IF q1 > 0 THEN q1 - 1 ELSE q1
  /\ UNCHANGED <<element, gates, q0, dsp0, dsp1, pending, sem, thr, stp, counts,
                 task, apc, spc, lret>>

(* check_status; a buffer is pushed and one goes back to the DSP. *)
LoopPush ==
  /\ lpc = "check"
  /\ status = "OK"
  /\ dsp1' = IF lbuf THEN dsp1 + 1 ELSE dsp1
  /\ lpc' = "idle"
  /\ lbuf' = FALSE
  /\ UNCHANGED <<element, gates, q0, q1, dsp0, pending, sem, thr, stp, counts,
                 task, apc, spc, lret>>

LoopStopped ==
  /\ lpc = "check"
  /\ status # "OK"
  /\ lret' = status
  /\ lpc' = "pause"
  /\ UNCHANGED <<element, gates, bufs, sem, thr, stp, counts, task, apc, spc,
                 lbuf>>

(* pause_task: a `status' that is OK again by now is set back to what      *)
(* check_status has read, ... *)
PauseStatus ==
  /\ lpc = "pause"
  /\ status' = IF status = "OK" THEN lret ELSE status
  /\ lret' = "OK"
  /\ lpc' = "pausetask"
  /\ UNCHANGED <<element, en0, en1, bufs, sem, thr, stp, counts, task, apc, spc,
                 lbuf>>

(* ... the task is paused, ... *)
PauseTask ==
  /\ lpc = "pausetask"
  /\ PauseSourceTask
  /\ lpc' = "pause0"
  /\ UNCHANGED <<element, gates, bufs, sem, thr, stp, counts, apc, spc, lbuf,
                 lret>>

(* ... and the queues are disabled, ... *)
PauseDisable0 ==
  /\ lpc = "pause0"
  /\ DisableInput
  /\ lpc' = "pause1"
  /\ UNCHANGED <<element, status, en1, bufs, sem, thr, stp, counts, task, apc,
                 lbuf, lret>>

PauseDisable1 ==
  /\ lpc = "pause1"
  /\ en1' = FALSE
  /\ lpc' = IF lbuf THEN "putback" ELSE "idle"
  /\ UNCHANGED <<element, status, en0, bufs, sem, thr, stp, counts, task, apc,
                 spc, lbuf, lret>>

(* ... whereupon the buffer goes back to the queue. *)
LoopPutBack ==
  /\ lpc = "putback"
  /\ q1' = q1 + 1
  /\ lbuf' = FALSE
  /\ lpc' = "idle"
  /\ UNCHANGED <<element, gates, q0, dsp0, dsp1, pending, sem, thr, stp, counts,
                 task, apc, spc, lret>>

----------------------------------------------------------------------------
(* dsp_thread.                                                             *)

(* `while (!self->done)': it looks at `done' between two messages and once *)
(* a second.                                                               *)
ThreadDone ==
  /\ tpc = "run"
  /\ done
  /\ tpc' = "none"
  /\ UNCHANGED <<element, gates, bufs, sem, tid, stp, counts, task, apc, spc,
                 loop>>

GotInput ==
  /\ tpc = "run"
  /\ dsp0 > 0
  /\ dsp0' = dsp0 - 1
  /\ q0' = q0 + 1
  /\ WakeUpstream
  /\ UNCHANGED <<element, gates, q1, dsp1, pending, sem, thr, stp, counts,
                 task, apc, loop>>

GotOutput ==
  /\ tpc = "run"
  /\ pending > 0 /\ dsp1 > 0
  /\ pending' = pending - 1
  /\ dsp1' = dsp1 - 1
  /\ q1' = q1 + 1
  /\ WakeLoop
  /\ UNCHANGED <<element, gates, q0, dsp0, sem, thr, stp, counts, task, apc,
                 spc>>

(* The answer to STOP. *)
GotStop ==
  /\ tpc = "run"
  /\ stops > 0
  /\ stops' = stops - 1
  /\ flush' = flush + 1
  /\ UNCHANGED <<element, gates, bufs, waits, thr, stp, counts, task, apc, spc,
                 loop>>

(* gstdsp_got_error, and the end of dsp_thread: MMUFAULT and SYSERROR. *)
Fault ==
  /\ tpc = "run"
  /\ conf.faults
  /\ status' = "ERROR"
  /\ tpc' = "error"
  /\ UNCHANGED <<element, en0, en1, bufs, sem, tid, stp, counts, task, apc, spc,
                 loop>>

(* got_message with an error of the algorithm: gstdsp_got_error, with the  *)
(* identity that stands for no error, and dsp_thread goes on.              *)
AlgError ==
  /\ tpc = "run"
  /\ nalg < conf.maxAlgErrors
  /\ nalg' = nalg + 1
  /\ status' = "ERROR"
  /\ tpc' = "alg"
  /\ UNCHANGED <<element, en0, en1, bufs, sem, tid, stp, conf, halted, nstarts,
                 nframes, nflush, nreneg, task, apc, spc, loop>>

NoteError ==
  /\ \/ tpc = "error" /\ dsp_error' = TRUE /\ tpc' = "error0"
     \/ tpc = "alg" /\ dsp_error' = FALSE /\ tpc' = "alg0"
  /\ UNCHANGED <<estate, handle, node, done, dsp_thread, gates, bufs, sem, tid,
                 stp, counts, task, apc, spc, loop>>

ErrorDisable0 ==
  /\ \/ tpc = "error0" /\ tpc' = "error1"
     \/ tpc = "alg0" /\ tpc' = "alg1"
  /\ DisableInput
  /\ UNCHANGED <<element, status, en1, bufs, sem, tid, stp, counts, task, apc,
                 loop>>

ErrorDisable1 ==
  /\ \/ tpc = "error1" /\ tpc' = "none"
     \/ tpc = "alg1" /\ tpc' = "run"
  /\ DisableOutput
  /\ UNCHANGED <<element, status, en0, bufs, sem, tid, stp, counts, task, apc,
                 spc>>

----------------------------------------------------------------------------
StateChange ==
  \/ ToReady \/ ToPaused \/ DownStatus \/ ToNull

Shutdown ==
  \/ DownDisable0 \/ DownDisable1 \/ DownSourcePad \/ DownSinkPad
  \/ DownStop \/ DownDone

Seek ==
  \/ FlushStartDisable0 \/ FlushStartDisable1 \/ FlushStartPause
  \/ FlushStartDone
  \/ FlushStop \/ FlushStopEnable0 \/ FlushStopEnable1 \/ FlushStopTask

Streaming ==
  \/ CreateNode \/ RunNode \/ Register \/ StartThread \/ StartTask
  \/ SetupInput \/ SetupOutput \/ SendCodecData
  \/ ChainPop \/ ChainResumed \/ ChainSend \/ ChainStopped
  \/ ReinitDisable0 \/ ReinitDisable1 \/ ReinitStatus
  \/ ReinitEnable0 \/ ReinitEnable1

Stop ==
  \/ StopCheck \/ StopSend \/ StopAnswered \/ StopTimeout \/ StopDone
  \/ StopJoin \/ StopTask \/ StopTaskDone \/ StopFlush \/ StopNode

OutputLoop ==
  \/ LoopPop \/ LoopResumed \/ LoopPush \/ LoopStopped
  \/ PauseStatus \/ PauseTask \/ PauseDisable0 \/ PauseDisable1 \/ LoopPutBack

DspThread ==
  \/ ThreadDone \/ NoteError \/ ErrorDisable0 \/ ErrorDisable1

Messages == GotInput \/ GotOutput \/ GotStop

Next ==
  \/ StateChange \/ Shutdown
  \/ FlushStart \/ Seek
  \/ Chain \/ Reinit \/ Streaming
  \/ Stop
  \/ OutputLoop
  \/ DspThread \/ Messages \/ Fault \/ AlgError

Spec == Init /\ [][Next]_vars

----------------------------------------------------------------------------
(* Correctness.                                                            *)

(* The types of all variables; a port's counts stay within its buffers. *)
TypeOK ==
  /\ conf \in Confs
  /\ estate \in {"NULL", "READY", "PAUSED"}
  /\ handle \in BOOLEAN
  /\ node \in {"none", "created", "running"}
  /\ status \in {"OK", "WRONG_STATE", "ERROR"}
  /\ en0 \in BOOLEAN /\ en1 \in BOOLEAN
  /\ done \in BOOLEAN /\ dsp_error \in BOOLEAN
  /\ dsp_thread \in Nat /\ tid \in Nat
  /\ q0 \in 0 .. conf.nIn /\ q1 \in 0 .. conf.nOut
  /\ dsp0 \in 0 .. conf.nIn /\ dsp1 \in 0 .. conf.nOut
  /\ pending \in 0 .. conf.maxFrames
  /\ flush \in Nat /\ stops \in 0 .. 1
  /\ timedOut \in BOOLEAN /\ leftover \in BOOLEAN /\ timeouts \in Nat
  /\ task \in {"none", "started", "paused"}
  /\ apc \in {"idle", "down0", "down1", "pads", "sinkpad", "sinkwait",
              "stopping", "fs0", "fs1", "fspause", "fswait", "flushing",
              "st0", "st1", "sttask"}
  /\ spc \in {"idle", "create", "run", "register", "thread", "task", "setup0",
              "setup1", "codec", "pop", "asleep", "woken", "got", "nobuf",
              "crash", "re0", "re1", "restop", "re2", "re3"}
  /\ lpc \in {"idle", "asleep", "woken", "check", "pause", "pausetask", "pause0",
              "pause1", "putback"}
  /\ lbuf \in BOOLEAN /\ lret \in {"OK", "WRONG_STATE", "ERROR"}
  /\ tpc \in {"none", "run", "error", "error0", "error1", "alg", "alg0", "alg1"}
  /\ stop \in {"none", "check", "send", "wait", "done", "join", "task",
               "taskwait", "flush", "node"}
  /\ stopBy \in {"none", "application", "streaming"}
  /\ halted \in BOOLEAN
  /\ nstarts \in 0 .. conf.maxStarts /\ nframes \in 0 .. conf.maxFrames
  /\ nflush \in 0 .. conf.maxFlushes /\ nreneg \in 0 .. conf.maxReneg
  /\ nalg \in 0 .. conf.maxAlgErrors

(* dsp_thread is told to end by _dsp_stop only: `done' is reset on every   *)
(* way to a new thread.                                                    *)
DoneOnlyAtStop == tpc # "none" /\ done => stop # "none"

(* dsp_thread uses the handle and the node without a lock: both outlive    *)
(* it, it is the thread _dsp_stop joins, there is one at a time, and it is *)
(* not told to end while it is needed.                                     *)
ThreadServesNode ==
  /\ tpc # "none" => handle /\ node = "running" /\ dsp_thread = tid
  /\ spc = "thread" => tpc = "none"
  /\ DoneOnlyAtStop

(* The ports' buffers are all accounted for from setup_buffers until       *)
(* _dsp_stop frees them, and then none is left, in a queue, in the hands   *)
(* of output_loop or of pad_chain, to be used in the next life.            *)
BuffersOfThisLife ==
  /\ q0 + dsp0 + InHand \in {0, conf.nIn}
  /\ q1 + dsp1 + OutHand \in {0, conf.nOut}
  /\ node = "none" \/ stop = "node" =>
       q0 + dsp0 + InHand + q1 + dsp1 + OutHand = 0

(* When send_stop_message returns without the warning "timed out waiting   *)
(* for DSP STOP", the DSP has answered the STOP it has sent.               *)
StopIsAnswered == stop = "done" /\ ~timedOut => stops = 0

(* The same of a STOP that is sent with the semaphore at zero.             *)
OwnAnswerUnlessLeftover == ~leftover => StopIsAnswered

(* An answer is left in the semaphore by a wait that has timed out, and by *)
(* nothing else: not by a STOP that could not be sent, by a fault, or by   *)
(* the end of a node that owed an answer.                                  *)
LeftoversAreLate ==
  flush + stops <= timeouts + (IF stop = "wait" THEN 1 ELSE 0)

(* An answer to STOP is taken for the one waited for only if a wait of an  *)
(* earlier STOP has timed out.                                             *)
AnswersAccounted == OwnAnswerUnlessLeftover /\ LeftoversAreLate

(* Once the application has disabled the output queue on its way down,     *)
(* output_loop does not wait in it: the deactivation of the source pad and *)
(* gst_pad_stop_task wait for its iteration.                               *)
LoopReleasedByStop ==
  apc \in {"pads", "sinkpad", "sinkwait", "stopping"} => lpc # "asleep"

(* The same of an element that has not been reinitialised.                 *)
LoopReleasedUnlessReinit == nreneg = 0 => LoopReleasedByStop

(* Nobody waits for an input buffer that no dsp_thread will return:        *)
(* pause_task: "avoid waiting for buffers that will never come".           *)
NoWaitForLostBuffers == spc = "asleep" => tpc # "none"

(* The same unless a flush has enabled the queues of a failed element:     *)
(* faults and failed starts send the streaming thread away for good.       *)
NoWaitUnlessFlushed == nflush = 0 => NoWaitForLostBuffers

(* Neither thread is left behind in a queue, by a stop or by a fault.      *)
NobodyLeftWaiting == LoopReleasedUnlessReinit /\ NoWaitUnlessFlushed

(* pad_chain has a buffer when it finds `status' OK, whatever state change *)
(* or renegotiation comes between.                                         *)
ChainHasBuffer == spc # "crash"

(* The same unless FLUSH_STOP or gstdsp_reinit has set `status' to OK      *)
(* while another thread was disabling the queues.                          *)
ChainHasBufferUnlessReset == nflush = 0 /\ nreneg = 0 => ChainHasBuffer

(* An element in NULL keeps nothing of the DSP. *)
NullReleasesAll ==
  estate = "NULL" =>
    /\ ~handle /\ node = "none" /\ tpc = "none"
    /\ q0 + dsp0 + q1 + dsp1 = 0

----------------------------------------------------------------------------
(* Every thread goes on when it can, and the DSP returns input buffers.    *)
Fairness ==
  /\ WF_vars(Shutdown)
  /\ WF_vars(Seek)
  /\ WF_vars(Streaming)
  /\ WF_vars(Stop)
  /\ WF_vars(OutputLoop)
  /\ WF_vars(DspThread)
  /\ WF_vars(GotInput)

FairSpec == Spec /\ Fairness

(* An element that is neither renegotiated nor flushed: these two may      *)
(* enable queues that another thread is disabling.                         *)
Undisturbed == conf.maxReneg = 0 /\ conf.maxFlushes = 0

(* _dsp_stop has found the error of an earlier life, which nobody resets,  *)
(* and joins a dsp_thread that works and has not been told to end.         *)
StaleJoin ==
  /\ nstarts > 1
  /\ stop = "join"
  /\ ~done
  /\ tpc \in {"run", "alg", "alg0", "alg1"}

(* PAUSED to READY ends: neither the join of dsp_thread nor the waits for  *)
(* output_loop and pad_chain hang, unless the DSP has failed in an earlier *)
(* life of the element.                                                    *)
ShutdownEnds ==
  (Undisturbed /\ apc = "down0") ~> (estate = "READY" \/ StaleJoin)

(* pad_chain returns, whatever stops or fails meanwhile. *)
ChainReturns == (Undisturbed /\ spc # "idle") ~> spc = "idle"

============================================================================
