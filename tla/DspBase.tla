------------------------------- MODULE DspBase -----------------------------
(***************************************************************************)
(* The streaming core of src/gst-dsp/gstdspbase.c, from the moment         *)
(* gstdsp_start has handed the output buffers to the DSP: the threads that *)
(* run pad_chain and sink_event (upstream), a flushing seek (application), *)
(* output_loop (the source pad's task) and dsp_thread, with the two port   *)
(* queues, the ring of timestamps and the DSP between them.                *)
(*                                                                         *)
(* A thread's step is what it does in one critical section, or one access  *)
(* to a variable that others write without a lock (status, deferred_eos,   *)
(* eos_start).  A queue operation is one step, as in AsyncQueue; upc/lpc   *)
(* "asleep" and "woken" are that module's places of the port's consumer.   *)
(*                                                                         *)
(* GStreamer 0.10 is modelled from how the code uses it: the sink pad      *)
(* serialises buffers, EOS, NEWSEGMENT and FLUSH_STOP (stream lock) and    *)
(* refuses buffers and events from FLUSH_START to FLUSH_STOP;              *)
(* gst_pad_pause_task waits for the iteration in progress unless           *)
(* output_loop itself calls it.  The DSP returns the buffers it is sent,   *)
(* and one output buffer with data per frame, in order.                    *)
(***************************************************************************)
EXTENDS TsRing

CONSTANTS
  InBufs, OutBufs,   (* the td_buffers of ports[0] and ports[1]              *)
  None,              (* the NULL td_buffer                                   *)
  Confs              (* what elements and streams there are (see below)      *)

(* "pinned": use_pinned, the encoders: downstream gets the DSP's buffer and *)
(* gives it back when it releases the GstBuffer; "pad_alloc":               *)
(* use_pad_alloc, the decoders: downstream's buffer is filled; "heap":      *)
(* neither: the memory is given away and allocated again.                   *)
Modes == {"pinned", "pad_alloc", "heap"}

(* An element, fixed by its class, and bounds on what happens to it.       *)
Conf ==
  [mode : Modes,
   eosTimeout : BOOLEAN,   (* eos_timeout # 0                              *)
   faults : BOOLEAN,       (* the DSP may fail                             *)
   maxFrames : Nat,        (* bound: frames upstream sends                 *)
   maxSegments : Nat,      (* bound: NEWSEGMENT events upstream sends      *)
   maxFlushes : Nat,       (* bound: flushing seeks                        *)
   maxEmpties : Nat]       (* bound: output buffers the DSP returns empty  *)

ASSUME BaseAssumption ==
  /\ InBufs \cap OutBufs = {}
  /\ None \notin InBufs \cup OutBufs
  /\ IsFiniteSet(InBufs) /\ IsFiniteSet(OutBufs)
  /\ Confs \subseteq Conf
  /\ \A c \in Confs :
       1 .. c.maxFrames \subseteq Times /\ 1 .. c.maxSegments \subseteq Events

VARIABLES
  conf,          (* the element and stream at hand, constant               *)
  (* shared state of the element *)
  q0, q1,        (* ports[0]->queue and ports[1]->queue, oldest first      *)
  en0, en1,      (* their `enabled'                                        *)
  status,        (* the GstFlowReturn                                      *)
  deferred_eos, eos_start,
  task,          (* the source pad's task: "started" or "paused"           *)
  (* the threads *)
  upc, ubuf,     (* the streaming thread, and the tb of pad_chain          *)
  apc,           (* the thread of the seek                                 *)
  lpc, lbuf,     (* output_loop, and its tb                                *)
  lret,          (* its ret, with which it calls pause_task                *)
  lthen,         (* where it goes on after pause_task                      *)
  leos,          (* got_eos, and pause_task's deferred_eos                 *)
  lts,           (* the timestamp of the last buffer it pushed             *)
  dpc,           (* dsp_thread                                             *)
  (* the DSP *)
  dspIn, dspOut, (* the input and output buffers it owns                   *)
  dspPending,    (* the frames it works on                                 *)
  frameOf,       (* the frame in an output buffer, NoTime if b->len is 0   *)
  noData,        (* heap: the output buffers with b->data NULL             *)
  (* downstream *)
  held,          (* the pinned buffers it has not released                 *)
  downFlushing,  (* it has seen FLUSH_START and not yet FLUSH_STOP         *)
  eosSent,       (* the EOS events it has got since the last flush         *)
  (* upstream, and histories *)
  eosIn,         (* upstream has sent EOS since the last flush             *)
  nsent, nseg, nflush, nempty,   (* counters for the bounds                *)
  flushMark,     (* the last frame sent before the last FLUSH_STOP         *)
  sent           (* what the ring last handed downstream, see TsStream     *)

queues == <<q0, q1, en0, en1>>
flags  == <<status, deferred_eos, eos_start, task>>
uvars  == <<upc, ubuf>>
lvars  == <<lpc, lbuf, lret, lthen, leos, lts>>
dsp    == <<dspIn, dspOut, dspPending, frameOf, noData>>
down   == <<held, downFlushing, eosSent>>
counts == <<conf, eosIn, nsent, nseg, nflush, nempty, flushMark>>

vars == <<tsVars, queues, flags, uvars, apc, lvars, dpc, dsp, down, counts, sent>>

FlowReturns == {"OK", "WRONG_STATE", "UNEXPECTED", "ERROR"}

(* gstdsp_start, setup_buffers: every output buffer is with the DSP, every *)
(* input buffer in its queue.                                              *)
Init ==
  /\ conf \in Confs
  /\ TsInit
  /\ q0 \in [1 .. Cardinality(InBufs) -> InBufs]
  /\ {q0[i] : i \in DOMAIN q0} = InBufs
  /\ q1 = <<>>
  /\ en0 = TRUE /\ en1 = TRUE
  /\ status = "OK"
  /\ deferred_eos = FALSE /\ eos_start = FALSE
  /\ task = "started"
  /\ upc = "idle" /\ ubuf = None
  /\ apc = "idle"
  /\ lpc = "idle" /\ lbuf = None /\ lret = "OK" /\ lthen = "end"
  /\ leos = FALSE /\ lts = 0
  /\ dpc = "wait"
  /\ dspIn = {} /\ dspOut = OutBufs /\ dspPending = <<>>
  /\ frameOf = [b \in OutBufs |-> NoTime]
  /\ noData = {}
  /\ held = {} /\ downFlushing = FALSE /\ eosSent = 0
  /\ eosIn = FALSE
  /\ nsent = 0 /\ nseg = 0 /\ nflush = 0 /\ nempty = 0
  /\ flushMark = 0
  /\ sent = <<>>

----------------------------------------------------------------------------
(* Operations several threads use.                                         *)

(* async_queue_push on the input queue, async_queue_disable on either:     *)
(* they wake the queue's consumer, the streaming thread or output_loop.    *)
WakeUpstream == upc' = IF upc = "asleep" THEN "woken" ELSE upc
WakeLoop == lpc' = IF lpc = "asleep" THEN "woken" ELSE lpc

(* Mutant of DisableInput: nobody is woken. *)
DisableInputQuietly == en0' = FALSE /\ UNCHANGED upc

DisableInput == en0' = FALSE /\ WakeUpstream

DisableOutput == en1' = FALSE /\ WakeLoop

(* An EOS event on the source pad. *)
PushEos == eosSent' = eosSent + 1

(* The sink pad takes serialized data: no flush is in progress. *)
SinkPadOpen == upc = "idle" /\ apc = "idle" /\ ~eosIn

----------------------------------------------------------------------------
(* Upstream: pad_chain.                                                    *)

(* A frame arrives; async_queue_pop up to its return or to g_cond_wait. *)
ChainPop ==
  /\ SinkPadOpen
  /\ nsent < conf.maxFrames
  /\ RoomLeft
  /\ nsent' = nsent + 1
  /\ \/ /\ ~en0
        /\ ubuf' = None
        /\ upc' = "status"
        /\ UNCHANGED q0
     \/ /\ en0
        /\ q0 # <<>>
        /\ ubuf' = Head(q0)
        /\ q0' = Tail(q0)
        /\ upc' = "status"
     \/ /\ en0
        /\ q0 = <<>>
        /\ upc' = "asleep"
        /\ UNCHANGED <<q0, ubuf>>
  /\ UNCHANGED <<tsVars, q1, en0, en1, flags, apc, lvars, dpc, dsp, down,
                 eosIn, nseg, nflush, nempty, flushMark, sent, conf>>

ChainResumed ==
  /\ upc = "woken"
  /\ upc' = "status"
  /\ ubuf' = IF q0 = <<>> THEN None ELSE Head(q0)
  /\ q0' = IF q0 = <<>> THEN q0 ELSE Tail(q0)
  /\ UNCHANGED <<tsVars, q1, en0, en1, flags, apc, lvars, dpc, dsp, down,
                 counts, sent>>

(* status is read; if it is not OK the buffer goes back and the frame is   *)
(* dropped.                                                                *)
ChainStatus ==
  /\ upc = "status"
  /\ IF status = "OK"
     THEN /\ upc' = "store"
          /\ UNCHANGED <<q0, ubuf>>
     ELSE /\ upc' = "idle"
          /\ q0' = IF ubuf = None THEN q0 ELSE Append(q0, ubuf)
          /\ ubuf' = None
  /\ UNCHANGED <<tsVars, q1, en0, en1, flags, apc, lvars, dpc, dsp, down,
                 counts, sent>>

(* The frame is mapped or copied into tb->data (with a NULL tb the thread  *)
(* does not survive this step) and its timestamp stored.                   *)
ChainStore ==
  /\ upc = "store"
  /\ ubuf # None
  /\ StoreFrame(nsent)
  /\ upc' = "send"
  /\ UNCHANGED <<queues, flags, ubuf, apc, lvars, dpc, dsp, down, counts, sent>>

ChainSend ==
  /\ upc = "send"
  /\ dspIn' = dspIn \cup {ubuf}
  /\ dspPending' = Append(dspPending, nsent)
  /\ ubuf' = None
  /\ upc' = "idle"
  /\ UNCHANGED <<tsVars, queues, flags, apc, lvars, dpc, dspOut, frameOf,
                 noData, down, counts, sent>>

----------------------------------------------------------------------------
(* Upstream: sink_event.                                                   *)

(* Mutant of DeferEos: off by one. *)
DeferEosLate == ts_count > 1 /\ status = "OK"

(* EOS: whether to defer it is decided under ts_mutex. *)
DeferEos == ts_count # 0 /\ status = "OK"

EosDecide ==
  /\ SinkPadOpen
  /\ eosIn' = TRUE
  /\ deferred_eos' = DeferEos
  /\ upc' = IF DeferEos THEN "eosmark" ELSE "eospush"
  /\ UNCHANGED <<tsVars, queues, status, eos_start, task, ubuf, apc, lvars,
                 dpc, dsp, down, nsent, nseg, nflush, nempty, flushMark, sent,
                 conf>>

(* The time of a deferred EOS is noted after the mutex has been released. *)
EosMark ==
  /\ upc = "eosmark"
  /\ eos_start' = TRUE
  /\ upc' = "idle"
  /\ UNCHANGED <<tsVars, queues, status, deferred_eos, task, ubuf, apc, lvars,
                 dpc, dsp, down, counts, sent>>

EosPush ==
  /\ upc = "eospush"
  /\ PushEos
  /\ upc' = "idle"
  /\ UNCHANGED <<tsVars, queues, flags, ubuf, apc, lvars, dpc, dsp, held,
                 downFlushing, counts, sent>>

NewSegment ==
  /\ SinkPadOpen
  /\ nseg < conf.maxSegments
  /\ RoomLeft
  /\ nseg' = nseg + 1
  /\ StoreEvent(nseg + 1)
  /\ UNCHANGED <<queues, flags, uvars, apc, lvars, dpc, dsp, down,
                 eosIn, nsent, nflush, nempty, flushMark, sent, conf>>

----------------------------------------------------------------------------
(* The flushing seek: sink_event FLUSH_START, then FLUSH_STOP.             *)

(* Mutant of FlushStart: `status' is left alone. *)
FlushStartNoStatus ==
  /\ apc = "idle"
  /\ nflush < conf.maxFlushes
  /\ nflush' = nflush + 1
  /\ downFlushing' = TRUE
  /\ apc' = "fs_disable0"
  /\ UNCHANGED <<tsVars, queues, flags, uvars, lvars, dpc, dsp, held, eosSent,
                 eosIn, nsent, nseg, nempty, flushMark, sent, conf>>

FlushStart ==
  /\ apc = "idle"
  /\ nflush < conf.maxFlushes
  /\ nflush' = nflush + 1
  /\ downFlushing' = TRUE
  /\ apc' = "fs_status"
  /\ UNCHANGED <<tsVars, queues, flags, uvars, lvars, dpc, dsp, held, eosSent,
                 eosIn, nsent, nseg, nempty, flushMark, sent, conf>>

FlushStartStatus ==
  /\ apc = "fs_status"
  /\ status' = "WRONG_STATE"
  /\ apc' = "fs_disable0"
  /\ UNCHANGED <<tsVars, queues, deferred_eos, eos_start, task, uvars, lvars,
                 dpc, dsp, down, counts, sent>>

FlushStartDisable0 ==
  /\ apc = "fs_disable0"
  /\ DisableInput
  /\ apc' = "fs_disable1"
  /\ UNCHANGED <<tsVars, q0, q1, en1, flags, ubuf, lvars, dpc, dsp, down,
                 counts, sent>>

FlushStartDisable1 ==
  /\ apc = "fs_disable1"
  /\ DisableOutput
  /\ apc' = "fs_pause"
  /\ UNCHANGED <<tsVars, q0, q1, en0, flags, uvars, lbuf, lret, lthen, leos,
                 lts, dpc, dsp, down, counts, sent>>

(* gst_pad_pause_task, and its wait for the iteration in progress. *)
FlushStartPause ==
  /\ apc = "fs_pause"
  /\ task' = "paused"
  /\ apc' = "fs_wait"
  /\ UNCHANGED <<tsVars, queues, status, deferred_eos, eos_start, uvars, lvars,
                 dpc, dsp, down, counts, sent>>

(* Mutant of FlushStartDone: it does not wait for output_loop. *)
FlushStartNoWait ==
  /\ apc = "fs_wait"
  /\ apc' = "flushing"
  /\ UNCHANGED <<tsVars, queues, flags, uvars, lvars, dpc, dsp, down, counts,
                 sent>>

FlushStartDone ==
  /\ apc = "fs_wait"
  /\ lpc = "idle"
  /\ apc' = "flushing"
  /\ UNCHANGED <<tsVars, queues, flags, uvars, lvars, dpc, dsp, down, counts,
                 sent>>

(* FLUSH_STOP is serialized: it gets the stream lock when pad_chain or the *)
(* handler of an event returns.                                            *)
FlushStop ==
  /\ apc = "flushing"
  /\ upc = "idle"
  /\ downFlushing' = FALSE
  /\ eosSent' = 0
  /\ apc' = "st_ring"
  /\ UNCHANGED <<tsVars, queues, flags, uvars, lvars, dpc, dsp, held, counts,
                 sent>>

FlushStopRing ==
  /\ apc = "st_ring"
  /\ FlushRing
  /\ deferred_eos' = FALSE
  /\ flushMark' = nsent
  /\ eosIn' = FALSE
  /\ apc' = "st_status"
  /\ UNCHANGED <<queues, status, eos_start, task, uvars, lvars, dpc, dsp, down,
                 nsent, nseg, nflush, nempty, sent, conf>>

FlushStopStatus ==
  /\ apc = "st_status"
  /\ status' = "OK"
  /\ apc' = "st_enable0"
  /\ UNCHANGED <<tsVars, queues, deferred_eos, eos_start, task, uvars, lvars,
                 dpc, dsp, down, counts, sent>>

(* Mutant of FlushStopEnable0: the input queue stays disabled. *)
FlushStopForgets0 ==
  /\ apc = "st_enable0"
  /\ apc' = "st_enable1"
  /\ UNCHANGED <<tsVars, queues, flags, uvars, lvars, dpc, dsp, down, counts,
                 sent>>

FlushStopEnable0 ==
  /\ apc = "st_enable0"
  /\ en0' = TRUE
  /\ apc' = "st_enable1"
  /\ UNCHANGED <<tsVars, q0, q1, en1, flags, uvars, lvars, dpc, dsp, down,
                 counts, sent>>

FlushStopEnable1 ==
  /\ apc = "st_enable1"
  /\ en1' = TRUE
  /\ apc' = "st_task"
  /\ UNCHANGED <<tsVars, q0, q1, en0, flags, uvars, lvars, dpc, dsp, down,
                 counts, sent>>

(* Mutant of FlushStopTask: the task stays paused. *)
FlushStopNoTask ==
  /\ apc = "st_task"
  /\ apc' = "idle"
  /\ UNCHANGED <<tsVars, queues, flags, uvars, lvars, dpc, dsp, down, counts,
                 sent>>

FlushStopTask ==
  /\ apc = "st_task"
  /\ task' = "started"
  /\ apc' = "idle"
  /\ UNCHANGED <<tsVars, queues, status, deferred_eos, eos_start, uvars, lvars,
                 dpc, dsp, down, counts, sent>>

----------------------------------------------------------------------------
(* output_loop, one iteration of the source pad's task.                    *)

LoopPop ==
  /\ lpc = "idle"
  /\ task = "started"
  /\ \/ /\ ~en1
        /\ lpc' = "null"
        /\ UNCHANGED <<q1, lbuf>>
     \/ /\ en1
        /\ q1 # <<>>
        /\ lbuf' = Head(q1)
        /\ q1' = Tail(q1)
        /\ lpc' = "got"
     \/ /\ en1
        /\ q1 = <<>>
        /\ lpc' = "asleep"
        /\ UNCHANGED <<q1, lbuf>>
  /\ lret' = "OK"
  /\ leos' = FALSE
  /\ UNCHANGED <<tsVars, q0, en0, en1, flags, uvars, apc, lthen, lts, dpc, dsp,
                 down, counts, sent>>

LoopResumed ==
  /\ lpc = "woken"
  /\ IF q1 = <<>>
     THEN /\ lpc' = "null"
          /\ UNCHANGED <<q1, lbuf>>
     ELSE /\ lpc' = "got"
          /\ lbuf' = Head(q1)
          /\ q1' = Tail(q1)
  /\ UNCHANGED <<tsVars, q0, en0, en1, flags, uvars, apc, lret, lthen, leos,
                 lts, dpc, dsp, down, counts, sent>>

(* check_status.  Without a buffer the iteration ends at `nok', which      *)
(* pauses once more; with one, the buffer goes back to the queue.          *)
LoopStatus ==
  /\ lpc \in {"null", "got"}
  /\ lret' = status
  /\ IF status = "OK"
     THEN /\ lpc' = IF lpc = "got" THEN "count" ELSE "idle"
          /\ UNCHANGED lthen
     ELSE /\ lpc' = "pause"
          /\ lthen' = IF lpc = "got" THEN "pushback" ELSE "nok"
  /\ UNCHANGED <<tsVars, queues, flags, uvars, apc, lbuf, leos, lts, dpc, dsp,
                 down, counts, sent>>

LoopPushBack ==
  /\ lpc = "pushback"
  /\ q1' = Append(q1, lbuf)
  /\ lbuf' = None
  /\ lpc' = "idle"
  /\ UNCHANGED <<tsVars, q0, en0, en1, flags, uvars, apc, lret, lthen, leos,
                 lts, dpc, dsp, down, counts, sent>>

HasFrame == frameOf[lbuf] # NoTime

(* The check for too many buffers returned. *)
LoopCount ==
  /\ lpc = "count"
  /\ lpc' = IF HasFrame /\ ts_count = 0 THEN "leave" ELSE "events"
  /\ UNCHANGED <<tsVars, queues, flags, uvars, apc, lbuf, lret, lthen, leos,
                 lts, dpc, dsp, down, counts, sent>>

LoopEvents ==
  /\ lpc = "events"
  /\ ClearEvents
  /\ sent' = [k \in DOMAIN EventsPushed |->
                [kind |-> "event", of |-> EventsPushed[k]]]
  /\ lpc' = "sort"
  /\ UNCHANGED <<queues, flags, uvars, apc, lbuf, lret, lthen, leos, lts, dpc,
                 dsp, down, counts>>

(* send_buffer on the output port. *)
SendOutput(b) ==
  /\ dspOut' = dspOut \cup {b}
  /\ noData' = noData \ {b}

(* A buffer that lost its data at an EOS is allocated and sent; one that   *)
(* the DSP returned empty is sent back; a frame may have been flushed.     *)
LoopSort ==
  /\ lpc = "sort"
  /\ IF lbuf \in noData
     THEN /\ SendOutput(lbuf)
          /\ lbuf' = None
          /\ lpc' = "idle"
     ELSE /\ lpc' = IF ~HasFrame THEN "leave"
                    ELSE IF HeadFlushed THEN "drop" ELSE "wrap"
          /\ UNCHANGED <<dspOut, noData, lbuf>>
  /\ UNCHANGED <<tsVars, queues, flags, uvars, apc, lret, lthen, leos, lts, dpc,
                 dspIn, dspPending, frameOf, down, counts, sent>>

LoopDrop ==
  /\ lpc = "drop"
  /\ DropFrame
  /\ lpc' = "leave"
  /\ UNCHANGED <<queues, flags, uvars, apc, lbuf, lret, lthen, leos, lts, dpc,
                 dsp, down, counts, sent>>

(* Mutant of LoopWrap: a buffer without a GstBuffer is not put back. *)
LoopWrapForgets ==
  /\ lpc = "wrap"
  /\ IF conf.mode = "pad_alloc" /\ downFlushing
     THEN /\ lret' = "WRONG_STATE"
          /\ lbuf' = None
          /\ lpc' = "pause"
     ELSE lpc' = "take" /\ UNCHANGED <<lbuf, lret>>
  /\ lthen' = "end"
  /\ UNCHANGED <<tsVars, queues, flags, uvars, apc, leos, lts, dpc, dsp, down,
                 counts, sent>>

(* The GstBuffer for the frame.  A flushing downstream refuses to allocate *)
(* one: the buffer goes back to the queue and the task pauses.             *)
LoopWrap ==
  /\ lpc = "wrap"
  /\ IF conf.mode = "pad_alloc" /\ downFlushing
     THEN /\ lret' = "WRONG_STATE"
          /\ q1' = Append(q1, lbuf)
          /\ lbuf' = None
          /\ lpc' = "pause"
          /\ lthen' = "end"
          /\ UNCHANGED noData
     ELSE /\ lpc' = "take"
          /\ noData' = IF conf.mode = "heap" THEN noData \cup {lbuf} ELSE noData
          /\ UNCHANGED <<q1, lbuf, lret, lthen>>
  /\ UNCHANGED <<tsVars, q0, en0, en1, flags, uvars, apc, leos, lts, dpc, dspIn,
                 dspOut, dspPending, frameOf, down, counts, sent>>

(* The timestamp, and whether this was the last frame before a deferred    *)
(* EOS, in one critical section.                                           *)
LoopTake ==
  /\ lpc = "take"
  /\ TakeFrame
  /\ lts' = FrameTime
  /\ sent' = <<[kind |-> "frame", of |-> FrameTime]>>
  /\ leos' = (deferred_eos /\ ts_count' = 0)
  /\ lpc' = "push"
  /\ UNCHANGED <<queues, flags, uvars, apc, lbuf, lret, lthen, dpc, dsp, down,
                 counts>>

(* gst_pad_push: downstream refuses buffers while it is flushing and after *)
(* EOS.  A pinned buffer that it refuses is released at once.              *)
PushResult ==
  IF downFlushing THEN "WRONG_STATE"
  ELSE IF eosSent > 0 THEN "UNEXPECTED" ELSE "OK"

LoopPush ==
  /\ lpc = "push"
  /\ lret' = PushResult
  /\ IF conf.mode = "pinned"
     THEN /\ lbuf' = None
          /\ IF PushResult = "OK"
             THEN held' = held \cup {lbuf} /\ UNCHANGED <<dspOut, noData>>
             ELSE SendOutput(lbuf) /\ UNCHANGED held
     ELSE UNCHANGED <<lbuf, held, dspOut, noData>>
  /\ lpc' = "leave"
  /\ UNCHANGED <<tsVars, queues, flags, uvars, apc, lthen, leos, lts, dpc, dspIn,
                 dspPending, frameOf, downFlushing, eosSent, counts, sent>>

(* `leave': without EOS the buffer goes back to the DSP unless downstream  *)
(* has it, and the iteration is over unless the push failed.               *)
LoopLeave ==
  /\ lpc = "leave"
  /\ IF leos
     THEN /\ lpc' = "eos"
          /\ UNCHANGED <<lbuf, lthen, dspOut, noData>>
     ELSE /\ lbuf' = None
          /\ IF lbuf = None THEN UNCHANGED <<dspOut, noData>>
                            ELSE SendOutput(lbuf)
          /\ lpc' = IF lret = "OK" THEN "idle" ELSE "pause"
          /\ lthen' = "end"
  /\ UNCHANGED <<tsVars, queues, flags, uvars, apc, lret, leos, lts, dpc, dspIn,
                 dspPending, frameOf, down, counts, sent>>

LoopEos ==
  /\ lpc = "eos"
  /\ eos_start' = FALSE
  /\ lpc' = "eospush"
  /\ UNCHANGED <<tsVars, queues, status, deferred_eos, task, uvars, apc, lbuf,
                 lret, lthen, leos, lts, dpc, dsp, down, counts, sent>>

(* The deferred EOS.  A buffer without data waits in the queue for the     *)
(* next run.                                                               *)
LoopEosPush ==
  /\ lpc = "eospush"
  /\ PushEos
  /\ deferred_eos' = FALSE
  /\ lret' = "UNEXPECTED"
  /\ lbuf' = None
  /\ IF lbuf = None THEN UNCHANGED <<q1, dspOut, noData>>
     ELSE IF lbuf \in noData
     THEN q1' = Append(q1, lbuf) /\ UNCHANGED <<dspOut, noData>>
     ELSE SendOutput(lbuf) /\ UNCHANGED q1
  /\ lpc' = "pause"
  /\ lthen' = "end"
  /\ UNCHANGED <<tsVars, q0, en0, en1, status, eos_start, task, uvars, apc, leos,
                 lts, dpc, dspIn, dspPending, frameOf, held, downFlushing,
                 counts, sent>>

(* pause_task.  Its critical section takes a pending deferred EOS over.    *)
Pause ==
  /\ lpc = "pause"
  /\ status' = IF status = "OK" THEN lret ELSE status
  /\ leos' = deferred_eos
  /\ deferred_eos' = FALSE
  /\ lpc' = "pausetask"
  /\ UNCHANGED <<tsVars, queues, eos_start, task, uvars, apc, lbuf, lret, lthen,
                 lts, dpc, dsp, down, counts, sent>>

(* Where pause_task returns to. *)
PauseReturn ==
  /\ lpc' = CASE lthen = "pushback" -> "pushback"
              [] lthen = "nok"      -> "pause"
              [] lthen = "end"      -> "idle"
  /\ lthen' = "end"

(* The task is paused and both queues disabled; output_loop is itself the  *)
(* consumer of the output queue.                                           *)
PauseTask ==
  /\ lpc = "pausetask"
  /\ task' = "paused"
  /\ DisableInput
  /\ en1' = FALSE
  /\ IF leos THEN lpc' = "pauseeos" /\ UNCHANGED lthen ELSE PauseReturn
  /\ UNCHANGED <<tsVars, q0, q1, status, deferred_eos, eos_start, ubuf, apc,
                 lbuf, lret, leos, lts, dpc, dsp, down, counts, sent>>

PauseEos ==
  /\ lpc = "pauseeos"
  /\ eos_start' = FALSE
  /\ PushEos
  /\ PauseReturn
  /\ UNCHANGED <<tsVars, queues, status, deferred_eos, task, uvars, apc, lbuf,
                 lret, leos, lts, dpc, dsp, held, downFlushing, counts, sent>>

(* Downstream releases a pinned buffer: finalize (gstdspbuffer.c). *)
Release(b) ==
  /\ b \in held
  /\ held' = held \ {b}
  /\ SendOutput(b)
  /\ UNCHANGED <<tsVars, queues, flags, uvars, apc, lvars, dpc, dspIn,
                 dspPending, frameOf, downFlushing, eosSent, counts, sent>>

----------------------------------------------------------------------------
(* dsp_thread and the DSP.  got_message puts the buffer the DSP returns    *)
(* back into its port's queue.                                             *)

GotInput(b) ==
  /\ dpc = "wait"
  /\ b \in dspIn
  /\ dspIn' = dspIn \ {b}
  /\ q0' = Append(q0, b)
  /\ WakeUpstream
  /\ UNCHANGED <<tsVars, q1, en0, en1, flags, ubuf, apc, lvars, dpc, dspOut,
                 dspPending, frameOf, noData, down, counts, sent>>

GotOutput(b, frame) ==
  /\ dpc = "wait"
  /\ b \in dspOut
  /\ dspOut' = dspOut \ {b}
  /\ frameOf' = [frameOf EXCEPT ![b] = frame]
  /\ q1' = Append(q1, b)
  /\ WakeLoop
  /\ UNCHANGED <<tsVars, q0, en0, en1, flags, uvars, apc, lbuf, lret, lthen,
                 leos, lts, dpc, dspIn, noData, down, eosIn, nsent, nseg,
                 nflush, flushMark, sent, conf>>

GotFrame(b) ==
  /\ dspPending # <<>>
  /\ dspPending' = Tail(dspPending)
  /\ GotOutput(b, Head(dspPending))
  /\ UNCHANGED nempty

GotEmpty(b) ==
  /\ nempty < conf.maxEmpties
  /\ nempty' = nempty + 1
  /\ GotOutput(b, NoTime)
  /\ UNCHANGED dspPending

(* A second without events, eos_timeout after the time noted for the EOS. *)
Timeout ==
  /\ dpc = "wait"
  /\ conf.eosTimeout
  /\ eos_start
  /\ status' = "UNEXPECTED"
  /\ dpc' = "timeout"
  /\ UNCHANGED <<tsVars, queues, deferred_eos, eos_start, task, uvars, apc,
                 lvars, dsp, down, counts, sent>>

TimeoutDisable ==
  /\ dpc = "timeout"
  /\ DisableOutput
  /\ dpc' = "wait"
  /\ UNCHANGED <<tsVars, q0, q1, en0, flags, uvars, apc, lbuf, lret, lthen,
                 leos, lts, dsp, down, counts, sent>>

(* gstdsp_got_error: an event that ends dsp_thread (MMUFAULT, SYSERROR),   *)
(* or an algorithm error, after which it goes on.                          *)
GotError ==
  /\ dpc = "wait"
  /\ conf.faults
  /\ status' = "ERROR"
  /\ dpc' \in {"fault", "algo"}
  /\ UNCHANGED <<tsVars, queues, deferred_eos, eos_start, task, uvars, apc,
                 lvars, dsp, down, counts, sent>>

ErrorDisable0 ==
  /\ dpc \in {"fault", "algo"}
  /\ DisableInput
  /\ dpc' = IF dpc = "fault" THEN "fault1" ELSE "algo1"
  /\ UNCHANGED <<tsVars, q0, q1, en1, flags, ubuf, apc, lvars, dsp, down,
                 counts, sent>>

ErrorDisable1 ==
  /\ dpc \in {"fault1", "algo1"}
  /\ DisableOutput
  /\ dpc' = IF dpc = "fault1" THEN "exited" ELSE "wait"
  /\ UNCHANGED <<tsVars, q0, q1, en0, flags, uvars, apc, lbuf, lret, lthen,
                 leos, lts, dsp, down, counts, sent>>

----------------------------------------------------------------------------
Upstream ==
  \/ ChainResumed \/ ChainStatus \/ ChainStore \/ ChainSend
  \/ EosMark \/ EosPush

UpstreamStarts == ChainPop \/ EosDecide \/ NewSegment

Seek ==
  \/ FlushStartStatus \/ FlushStartDisable0 \/ FlushStartDisable1
  \/ FlushStartPause \/ FlushStartDone
  \/ FlushStop \/ FlushStopRing \/ FlushStopStatus
  \/ FlushStopEnable0 \/ FlushStopEnable1 \/ FlushStopTask

OutputLoop ==
  \/ LoopPop \/ LoopResumed \/ LoopStatus \/ LoopPushBack
  \/ LoopCount \/ LoopEvents \/ LoopSort \/ LoopDrop \/ LoopWrap
  \/ LoopTake \/ LoopPush \/ LoopLeave \/ LoopEos \/ LoopEosPush
  \/ Pause \/ PauseTask \/ PauseEos

DspThread == TimeoutDisable \/ ErrorDisable0 \/ ErrorDisable1

Next ==
  \/ UpstreamStarts \/ Upstream
  \/ FlushStart \/ Seek
  \/ OutputLoop
  \/ \E b \in InBufs : GotInput(b)
  \/ \E b \in OutBufs : GotFrame(b) \/ GotEmpty(b) \/ Release(b)
  \/ Timeout \/ GotError \/ DspThread

Spec == Init /\ [][Next]_vars

----------------------------------------------------------------------------
(* Correctness.                                                            *)

InSeq(s) == {s[i] : i \in DOMAIN s}
Distinct(s) == \A i, j \in DOMAIN s : s[i] = s[j] => i = j

(* The types of all variables; counters stay within their bounds. *)
TypeOK ==
  /\ conf \in Confs
  /\ TsTypeOK
  /\ q0 \in Seq(InBufs) /\ q1 \in Seq(OutBufs)
  /\ en0 \in BOOLEAN /\ en1 \in BOOLEAN
  /\ status \in FlowReturns
  /\ deferred_eos \in BOOLEAN /\ eos_start \in BOOLEAN
  /\ task \in {"started", "paused"}
  /\ upc \in {"idle", "asleep", "woken", "status", "store", "send",
              "eosmark", "eospush"}
  /\ ubuf \in InBufs \cup {None}
  /\ apc \in {"idle", "fs_status", "fs_disable0", "fs_disable1", "fs_pause",
              "fs_wait", "flushing", "st_ring", "st_status", "st_enable0",
              "st_enable1", "st_task"}
  /\ lpc \in {"idle", "asleep", "woken", "null", "got", "pushback", "count",
              "events", "sort", "drop", "wrap", "take", "push", "leave",
              "eos", "eospush", "pause", "pausetask", "pauseeos"}
  /\ lbuf \in OutBufs \cup {None}
  /\ lret \in FlowReturns
  /\ lthen \in {"nok", "pushback", "end"}
  /\ leos \in BOOLEAN
  /\ lts \in Times \cup {NoTime, 0}
  /\ dpc \in {"wait", "timeout", "fault", "fault1", "algo", "algo1", "exited"}
  /\ dspIn \subseteq InBufs /\ dspOut \subseteq OutBufs
  /\ dspPending \in Seq(Times)
  /\ frameOf \in [OutBufs -> Times \cup {NoTime}]
  /\ noData \subseteq OutBufs /\ held \subseteq OutBufs
  /\ downFlushing \in BOOLEAN /\ eosSent \in Nat
  /\ eosIn \in BOOLEAN
  /\ nsent \in 0 .. conf.maxFrames /\ nseg \in 0 .. conf.maxSegments
  /\ nflush \in 0 .. conf.maxFlushes /\ nempty \in 0 .. conf.maxEmpties
  /\ flushMark \in 0 .. conf.maxFrames

(* Every td_buffer is in exactly one place, its port's queue, the DSP, a   *)
(* thread or (pinned) downstream, on every path output_loop and pad_chain  *)
(* can leave by: a buffer lost for good starves the port of one of its two *)
(* buffers, a buffer sent twice is written by the DSP while it is read.    *)
InputConserved ==
  /\ Distinct(q0)
  /\ InSeq(q0) \cup dspIn \cup ({ubuf} \ {None}) = InBufs
  /\ InSeq(q0) \cap dspIn = {}
  /\ ubuf \notin InSeq(q0) \cup dspIn

OutputConserved ==
  /\ Distinct(q1)
  /\ InSeq(q1) \cup dspOut \cup held \cup ({lbuf} \ {None}) = OutBufs
  /\ InSeq(q1) \cap dspOut = {}
  /\ held \cap (InSeq(q1) \cup dspOut) = {}
  /\ lbuf \notin InSeq(q1) \cup dspOut \cup held

(* Both ports. *)
BuffersConserved == InputConserved /\ OutputConserved

(* The buffer that output_loop pushes carries the timestamp of the frame   *)
(* that is in it, through flushes, events and buffers without data.        *)
OwnTimestamp == lpc = "push" /\ lbuf # None => lts = frameOf[lbuf]

(* A frame that upstream sent before a FLUSH_STOP is not pushed after it:  *)
(* FLUSH_START waits for the iteration that may have passed the flush      *)
(* check, and FLUSH_STOP marks all that is still in the ring.              *)
NothingStale == lpc = "push" => lts > flushMark

(* When pad_chain has found `status' OK it has a buffer: whoever disables  *)
(* the input queue has changed `status' first, and FLUSH_STOP, which sets  *)
(* it to OK, cannot come between the pop and the test.  The code uses tb   *)
(* without a test of its own.                                              *)
ChainHasBuffer == upc \in {"store", "send"} => ubuf # None

(* The same of a DSP without faults: gstdsp_got_error disables the queue   *)
(* after it has set `status', and FLUSH_STOP may come between.             *)
ChainHasBufferUnlessFault == ~conf.faults => ChainHasBuffer

(* Between flushes downstream gets one EOS at most, though three places    *)
(* push it (sink_event, output_loop, pause_task).                          *)
EosOnce == eosSent <= 1

(* The frames sent since the last flush that output_loop has not taken     *)
(* from the ring.                                                          *)
BeforeTake == {"got", "count", "events", "sort", "drop", "wrap", "take"}

Unpushed ==
  {t \in Times :
     /\ t > flushMark
     /\ \/ t \in InSeq(dspPending)
        \/ \E b \in InSeq(q1) \ noData : frameOf[b] = t
        \/ /\ lpc \in BeforeTake
           /\ lbuf \notin noData \/ lpc = "take"
           /\ frameOf[lbuf] = t}

(* An EOS that sink_event passes on without deferring it overtakes no      *)
(* frame but the one that output_loop has already counted out of the ring  *)
(* (ts_count is decremented before gst_pad_push).                          *)
EosOvertakesLastOnly == upc = "eospush" /\ status = "OK" => Unpushed = {}

(* EOS comes once and in its place, whichever thread pushes it.            *)
EosInPlace == EosOnce /\ EosOvertakesLastOnly

(* Outside a flush, `status' OK means that both queues are enabled: no     *)
(* thread is sent away by a queue and told by `status' that all is well    *)
(* (as long as dsp_thread, which changes them on a fault and on a timeout, *)
(* has no reason to).                                                      *)
QueuesFollowStatus ==
  ~conf.faults /\ ~conf.eosTimeout =>
    (status = "OK" /\ apc = "idle" => en0 /\ en1)

(* What output_loop does to the ring is what TsStream's reader does.       *)
Reader ==
  CASE lpc = "events" -> IF HasFrame THEN "frame" ELSE "empty"
    [] lpc = "sort" -> IF HasFrame THEN "cleared" ELSE "idle"
    [] lpc = "drop" -> "flushed"
    [] lpc \in {"wrap", "take"} -> "live"
    [] OTHER -> "idle"

TsS == INSTANCE TsStream WITH reader <- Reader
(* The threads use the ring in no other way than TsStream says, so that    *)
(* what is proved of it holds here.                                        *)
ImplementsTsStream == TsS!Spec

----------------------------------------------------------------------------
(* Liveness.  The streaming thread, the task, the seek and dsp_thread are  *)
(* runnable threads; the DSP goes on as long as dsp_thread takes what it   *)
(* returns and it has an output buffer to write to; a second without       *)
(* events comes when nothing else happens; downstream releases its         *)
(* buffers.  Upstream is not obliged to send, nor the application to seek. *)
Fairness ==
  /\ WF_vars(Upstream)
  /\ WF_vars(Seek)
  /\ WF_vars(OutputLoop)
  /\ WF_vars(DspThread)
  /\ WF_vars(Timeout)
  /\ \A b \in InBufs : WF_vars(dspOut # {} /\ GotInput(b))
  /\ WF_vars(\E b \in OutBufs : GotFrame(b))
  /\ \A b \in OutBufs : WF_vars(Release(b))

FairSpec == Spec /\ Fairness

(* pad_chain and the event handlers return: upstream is never blocked for  *)
(* good, whatever flushes, EOS and shortages of buffers it meets.          *)
ChainReturns == upc # "idle" ~> upc = "idle"

(* A frame accepted by pad_chain is pushed unless the stream stops or is   *)
(* flushed first.  (A timeout that sets `status' before a flush and        *)
(* disables the output queue after it stops output_loop for good: the      *)
(* elements with an EOS timeout are left out.)                             *)
FrameDelivered ==
  \A t \in Times :
    (upc = "send" /\ nsent = t /\ ~conf.eosTimeout)
      ~> ((lts \in Times /\ lts >= t) \/ status # "OK" \/ apc # "idle")

(* An EOS from upstream reaches downstream unless a flush overtakes it:    *)
(* pause_task: "ensure we are not dropping the EOS event"                  *)
EosDelivered == eosIn ~> (eosSent > 0 \/ apc # "idle")

(* The same of an element that has an EOS timeout.                         *)
EosDeliveredInTime ==
  (eosIn /\ conf.eosTimeout) ~> (eosSent > 0 \/ apc # "idle")

(* What upstream sends gets through: frames where there is no EOS timeout, *)
(* EOS where there is one.                                                 *)
SentGetsThrough == FrameDelivered /\ EosDeliveredInTime

=============================================================================
