------------------------------- MODULE DspIpp -------------------------------
(***************************************************************************)
(* The image post-processing element (gstdspipp.c).  Unlike the codecs it  *)
(* talks to its node by requests: a semaphore lets one request out at a    *)
(* time, msg_ptr keeps the buffers its arguments are in, and the reply,    *)
(* taken by dsp_thread, frees them and raises the semaphore.  A caller     *)
(* waits for the semaphore two seconds and gives up.                       *)
(*                                                                         *)
(* The callers are the streaming thread (setcaps, then frames) and the     *)
(* application stopping the element, which first waits for the streaming   *)
(* thread to leave: one of them at a time, call.  What they share with     *)
(* dsp_thread, and the node with both, is interleaved.                     *)
(***************************************************************************)
EXTENDS DspBridge, Naturals, Sequences, SequencesExt

CONSTANTS Confs,      \* records [format, late, errors, events]
          MaxLives,   \* how often the application starts the element
          MaxFrames   \* frames offered in one life

ASSUME IppAssumption ==
  /\ Confs \subseteq [format : {"UYVY", "I420"}, late : BOOLEAN,
                      errors : BOOLEAN, events : BOOLEAN]
  /\ MaxLives \in Nat /\ MaxFrames \in Nat

VARIABLES
  conf,     \* the input, and what may go wrong
  app,      \* the element: "ready", "paused", "stopping", "crashed"
  call,     \* the caller: "idle", "setcaps", "pop", "frame",
            \* "stop", "done", "join"
  todo,     \* the requests it has yet to send
  put,      \* the request in send_msg that is not in the node's queue yet
  caps,     \* the caps of the sink pad: "none", "set", "refused"
  node,     \* base->node is set
  thr,      \* dsp_thread: "none", "wait", "drain", "ended"
  done, status, dsp_error,
  sem,      \* msg_sem
  args,     \* the request msg_ptr holds the arguments of
  owner,    \* who may touch them
  held,     \* the buffers shared with the DSP that are allocated
  toDsp,    \* requests the node has not answered
  fromDsp,  \* its messages
  inq,      \* ports[0]->queue has its buffer
  outq,     \* what is in ports[1]->queue
  pushed,   \* what has been pushed downstream in this life
  frames, lives,
  trouble   \* a fault, a late answer or an event in this life

node_vars == <<node, thr, done, status, dsp_error>>
exchange  == <<sem, args, owner, held, toDsp, fromDsp>>
ports     == <<inq, outq, pushed>>
bounds    == <<frames, lives>>
caller    == <<call, todo, put, caps>>
vars == <<conf, app, caller, node_vars, exchange, ports, bounds, trouble>>

None == "none"

-----------------------------------------------------------------------------
(* The pipeline of algorithms: what each reads and writes.                 *)

get_star_params        == [fxn |-> "STAR", from |-> None, to |-> None]
get_yuvc_params(from, to) == [fxn |-> "YUVCONVERT", from |-> from, to |-> to]
get_crcbs_params       == [fxn |-> "CRCBS", from |-> "420P", to |-> "420P"]
get_eenf_params        == [fxn |-> "EENF", from |-> "420P", to |-> "420P"]

in_pix_fmt(format) == IF format = "UYVY" THEN "422ILE" ELSE "420P"

setup_ipp_params(format) ==
  <<get_star_params>>
  \o (IF in_pix_fmt(format) = "420P" THEN <<>>
      ELSE <<get_yuvc_params("422ILE", "420P")>>)
  \o <<get_crcbs_params, get_eenf_params, get_yuvc_params("420P", "422ILE")>>

nr_algos(format) == Len(setup_ipp_params(format))

(* Counted from zero, the buffer each algorithm but the first writes:      *)
(* port 1, the output, and port 0, the input, by turns.                    *)
prepare_filter_graph(format) ==
  [i \in 1..nr_algos(format) - 1 |-> i % 2]

(* The position, counted from zero, of the algorithm the dynamic           *)
(* parameters are for.                                                     *)
eenf_idx(format) == IF in_pix_fmt(format) = "420P" THEN 2 ELSE 3

(* The buffer got_message takes for the result. *)
AlwaysTheOutput(format) == 1
ResultPort(format) == IF nr_algos(format) % 2 = 0 THEN 1 ELSE 0

-----------------------------------------------------------------------------
(* The requests, in the order they are sent.  A request's arguments live   *)
(* until its reply; some requests also allocate what lives until reset.    *)

init_pipe   == <<"CREATE_XBF", "SET_XBF_ALGS", "CREATE_XBF_PIPE", "START_PROCESSING">>
frame_cmds  == <<"CONTROL_PIPE", "QUEUE_BUFF">>
send_stop_message ==
  <<"STOP_PROCESSING", "DESTROY_XBF_PIPE", "CLEAR_XBF_ALGS", "DESTROY_XBF", "WAIT">>

Keeps(cmd) == CASE cmd = "SET_XBF_ALGS"    -> {"strings"}
                [] cmd = "CREATE_XBF_PIPE" -> {"graph"}
                [] cmd = "CONTROL_PIPE"    -> {"dyn", "status"}
                [] OTHER -> {}

ForgetsStatus == {"algos", "strings", "graph", "dyn"}
UntilReset == {"algos", "strings", "graph", "dyn", "status"}

HasErrorCode(cmd) == cmd # "QUEUE_BUFF"

Init ==
  /\ conf \in Confs
  /\ app = "ready" /\ call = "idle" /\ todo = <<>> /\ put = None /\ caps = None
  /\ node = FALSE /\ thr = None /\ done = FALSE /\ status = "wrong"
  /\ dsp_error = FALSE
  /\ sem = 1 /\ args = None /\ owner = "cpu" /\ held = {}
  /\ toDsp = <<>> /\ fromDsp = <<>>
  /\ inq = FALSE /\ outq = {} /\ pushed = {}
  /\ frames = 0 /\ lives = 0 /\ trouble = FALSE

-----------------------------------------------------------------------------
(* READY -> PAUSED.  What an earlier life lost stays lost: held starts      *)
(* again with the life.                                                    *)
Play ==
  /\ app = "ready" /\ lives < MaxLives
  /\ app' = "paused" /\ status' = "ok" /\ done' = FALSE
  /\ lives' = lives + 1 /\ frames' = 0 /\ trouble' = FALSE
  /\ caps' = None /\ pushed' = {} /\ held' = {}
  /\ UNCHANGED <<conf, call, todo, put, node, thr, dsp_error, sem, args, owner, toDsp,
                 fromDsp, inq, outq>>

(* sink_setcaps up to init_pipe: the caps are checked, the node is         *)
(* created, the algorithms' parameters are allocated and the node is       *)
(* started.  create_node frees a node it could not allocate.               *)
SetCapsOutcomes == {"ok"} \cup (IF conf.errors THEN
                     {"invalid", "no node", "not allocated", "not started"} ELSE {})

sink_setcaps(outcome) ==
  /\ app = "paused" /\ call = "idle" /\ caps = None
  /\ caps' = IF outcome = "ok" THEN None ELSE "refused"
  /\ call' = IF outcome = "ok" THEN "setcaps" ELSE "idle"
  /\ todo' = IF outcome = "ok" THEN init_pipe ELSE <<>>
  /\ app' = IF outcome = "not allocated" THEN "crashed" ELSE app
  /\ status' = IF outcome = "invalid" THEN "error" ELSE status
  /\ node' = (outcome = "ok" \/ outcome = "not started")
  /\ held' = IF node' THEN held \cup {"algos"} ELSE held
  /\ thr' = IF outcome = "ok" THEN "wait" ELSE thr
  /\ inq' = (outcome = "ok")
  /\ trouble' = (trouble \/ outcome # "ok")
  /\ UNCHANGED <<conf, put, done, dsp_error, sem, args, owner, toDsp, fromDsp,
                 outq, pushed, bounds>>

-----------------------------------------------------------------------------
(* send_msg, in three steps: the semaphore, msg_ptr, the node's queue.     *)

DownInAnyCase == sem' = IF sem > 0 THEN sem - 1 ELSE 0

g_sem_down == sem > 0 /\ sem' = sem - 1

UpTwice == sem' = sem + 2

g_sem_up == sem' = sem + 1

Request == Head(todo)

fill_args ==
  /\ todo # <<>> /\ Request # "WAIT" /\ put = None
  /\ g_sem_down
  /\ args' = Request /\ owner' = dmm_buffer_begin("cpu", TRUE)
  /\ held' = held \cup Keeps(Request) \cup {Request}
  /\ put' = Request
  /\ UNCHANGED <<conf, app, call, todo, caps, node_vars, toDsp, fromDsp, ports,
                 bounds, trouble>>

(* What the caller goes on to when it has sent everything, or gives up.    *)
Return(ok) ==
  /\ call' = IF call = "stop" THEN "done" ELSE "idle"
  /\ caps' = IF call = "setcaps" THEN (IF ok THEN "set" ELSE "refused") ELSE caps
  /\ todo' = <<>>

Proceed == IF Len(todo) = 1 THEN Return(TRUE)
                            ELSE todo' = Tail(todo) /\ UNCHANGED <<call, caps>>

put_message ==
  /\ put # None
  /\ put' = None
  /\ \/ toDsp' = Append(toDsp, put) /\ Proceed /\ UNCHANGED trouble
     \/ conf.errors /\ Return(FALSE) /\ trouble' = TRUE /\ UNCHANGED toDsp
  /\ UNCHANGED <<conf, app, node_vars, sem, args, owner, held, fromDsp, ports, bounds>>

(* Two seconds without a reply: the request's arguments are not freed.     *)
send_timeout ==
  /\ todo # <<>> /\ put = None /\ sem = 0
  /\ conf.late \/ thr = "ended" \/ trouble
  /\ held' = IF Request = "WAIT" THEN held
             ELSE held \cup Keeps(Request) \cup {Request}
  /\ Return(FALSE) /\ trouble' = TRUE
  /\ UNCHANGED <<conf, app, put, node_vars, sem, args, owner, toDsp, fromDsp, ports,
                 bounds>>

(* The end of send_stop_message waits for the last reply. *)
wait_last ==
  /\ todo = <<"WAIT">> /\ put = None
  /\ g_sem_down
  /\ Return(TRUE)
  /\ UNCHANGED <<conf, app, put, node_vars, args, owner, held, toDsp, fromDsp, ports,
                 bounds, trouble>>

-----------------------------------------------------------------------------
(* A frame: pad_chain takes the input buffer, send_buffer sends both       *)
(* requests unless the DSP has failed.                                     *)

pad_chain ==
  /\ app = "paused" /\ call = "idle" /\ caps = "set" /\ frames < MaxFrames
  /\ call' = "pop" /\ frames' = frames + 1
  /\ UNCHANGED <<conf, app, todo, put, caps, node_vars, exchange, ports, lives,
                 trouble>>

send_buffer ==
  /\ call = "pop" /\ inq /\ status = "ok"
  /\ inq' = FALSE
  /\ call' = IF dsp_error THEN "idle" ELSE "frame"
  /\ todo' = IF dsp_error THEN <<>> ELSE frame_cmds
  /\ UNCHANGED <<conf, app, put, caps, node_vars, exchange, outq, pushed, bounds,
                 trouble>>

pop_disabled ==
  /\ call = "pop" /\ status # "ok" /\ call' = "idle"
  /\ UNCHANGED <<conf, app, todo, put, caps, node_vars, exchange, ports, bounds,
                 trouble>>

(* The output loop pushes what the element made; it goes nowhere after.    *)
output_loop ==
  /\ outq # {} /\ status = "ok"
  /\ \E port \in outq : pushed' = pushed \cup {port} /\ outq' = outq \ {port}
  /\ UNCHANGED <<conf, app, caller, node_vars, exchange, inq, bounds, trouble>>

-----------------------------------------------------------------------------
(* dsp_thread *)

ThreadDrains ==
  /\ \/ thr = "wait" /\ fromDsp # <<>> /\ thr' = "drain"
     \/ thr = "drain" /\ fromDsp = <<>> /\ thr' = "wait"
  /\ UNCHANGED <<conf, app, caller, node, done, status, dsp_error, exchange, ports,
                 bounds, trouble>>

ThreadRuns ==
  /\ \/ thr = "wait" /\ done /\ thr' = "ended"
     \/ thr = "wait" /\ fromDsp # <<>> /\ thr' = "drain"
     \/ thr = "drain" /\ fromDsp = <<>> /\ thr' = "wait"
  /\ UNCHANGED <<conf, app, caller, node, done, status, dsp_error, exchange, ports,
                 bounds, trouble>>

(* The DSP faults: gstdsp_got_error with an id, and the thread ends. *)
ThreadFails ==
  /\ thr = "wait" /\ ~done /\ conf.errors
  /\ thr' = "ended" /\ status' = "error" /\ dsp_error' = TRUE /\ trouble' = TRUE
  /\ UNCHANGED <<conf, app, caller, node, done, exchange, ports, bounds>>

(* A reply or an event.  gstdsp_got_error is called with id 0 for an error *)
(* code: dsp_error is cleared by it.                                       *)
got_message ==
  /\ thr = "drain" /\ fromDsp # <<>>
  /\ LET m == Head(fromDsp)
         failed == args # None /\ HasErrorCode(args) /\ m.error
     IN  /\ owner' = dmm_buffer_end(owner)
         /\ held' = held \ {args} /\ args' = None
         /\ outq' = IF m.cmd = "QUEUE_BUFF" THEN outq \cup {ResultPort(conf.format)}
                                            ELSE outq
         /\ IF failed \/ m.cmd = "EVENT_ERROR"
              THEN status' = "error" /\ done' = TRUE /\ dsp_error' = ~failed
                   /\ trouble' = TRUE
              ELSE UNCHANGED <<status, done, dsp_error, trouble>>
  /\ fromDsp' = Tail(fromDsp)
  /\ g_sem_up
  /\ UNCHANGED <<conf, app, caller, node, thr, toDsp, inq, pushed, bounds>>

-----------------------------------------------------------------------------
(* The node: it answers requests in order, with an error code if it        *)
(* likes, and may report an event nobody asked for.                        *)

NodeAnswers ==
  /\ toDsp # <<>>
  /\ \E e \in (IF conf.errors THEN BOOLEAN ELSE {FALSE}) :
       fromDsp' = Append(fromDsp, [cmd |-> Head(toDsp), error |-> e])
  /\ toDsp' = Tail(toDsp)
  /\ UNCHANGED <<conf, app, caller, node_vars, sem, args, owner, held, ports, bounds,
                 trouble>>

NodeReportsEvent ==
  /\ conf.events /\ thr \in {"wait", "drain"} /\ ~trouble /\ Len(fromDsp) < 2
  /\ fromDsp' = Append(fromDsp, [cmd |-> "EVENT_ERROR", error |-> FALSE])
  /\ trouble' = TRUE
  /\ UNCHANGED <<conf, app, caller, node_vars, sem, args, owner, held, toDsp, ports,
                 bounds>>

-----------------------------------------------------------------------------
(* PAUSED -> READY: the queues are disabled, the streaming thread leaves,  *)
(* the node is asked to stop, dsp_thread is joined and reset frees what is *)
(* left and puts the semaphore back to one.                                *)

Disable ==
  /\ app = "paused"
  /\ app' = "stopping" /\ status' = "wrong"
  /\ UNCHANGED <<conf, caller, node, thr, done, dsp_error, exchange, ports, bounds,
                 trouble>>

_dsp_stop ==
  /\ app = "stopping" /\ call = "idle" /\ node
  /\ call' = IF dsp_error THEN "join" ELSE "stop"
  /\ todo' = IF dsp_error THEN <<>> ELSE send_stop_message
  /\ UNCHANGED <<conf, app, put, caps, node_vars, exchange, ports, bounds, trouble>>

SetDone ==
  /\ call = "done" /\ call' = "join"
  /\ done' = TRUE
  /\ UNCHANGED <<conf, app, todo, put, caps, node, thr, status, dsp_error, exchange, ports,
                 bounds, trouble>>

reset ==
  /\ app = "stopping"
  /\ \/ call = "join" /\ thr \in {None, "ended"}
     \/ call = "idle" /\ ~node
  /\ app' = "ready" /\ call' = "idle"
  /\ node' = FALSE /\ thr' = None
  /\ sem' = 1 /\ held' = held \ UntilReset
  /\ toDsp' = <<>> /\ fromDsp' = <<>> /\ inq' = FALSE /\ outq' = {}
  /\ UNCHANGED <<conf, todo, put, caps, done, status, dsp_error, args, owner, pushed,
                 bounds, trouble>>

-----------------------------------------------------------------------------
SetCaps == \E outcome \in SetCapsOutcomes : sink_setcaps(outcome)
send_msg == fill_args \/ put_message \/ send_timeout \/ wait_last
Streaming == pad_chain \/ send_buffer \/ pop_disabled \/ output_loop
dsp_thread == ThreadRuns \/ ThreadFails \/ got_message
Node == NodeAnswers \/ NodeReportsEvent
Stop == _dsp_stop \/ SetDone \/ reset

Next == Play \/ SetCaps \/ send_msg \/ Streaming \/ dsp_thread \/ Node
        \/ Disable \/ Stop

(* The threads run, and the semaphore's two seconds pass.  The node        *)
(* answers where late answers are not modelled.                            *)
Fairness ==
  /\ WF_vars(send_msg) /\ WF_vars(Stop) /\ WF_vars(ThreadRuns) /\ WF_vars(got_message)
  /\ WF_vars(send_buffer) /\ WF_vars(pop_disabled) /\ WF_vars(output_loop)
  /\ WF_vars(~conf.late /\ NodeAnswers)

Spec == Init /\ [][Next]_vars /\ Fairness

-----------------------------------------------------------------------------
TypeOK ==
  /\ conf \in Confs
  /\ app \in {"ready", "paused", "stopping", "crashed"}
  /\ call \in {"idle", "setcaps", "pop", "frame", "stop", "done", "join"}
  /\ caps \in {None, "set", "refused"} /\ status \in {"ok", "error", "wrong"}
  /\ thr \in {None, "wait", "drain", "ended"}
  /\ {node, done, dsp_error, inq, trouble} \subseteq BOOLEAN
  /\ sem \in 0..2 /\ owner \in {"cpu", "device"}
  /\ outq \subseteq {0, 1} /\ pushed \subseteq {0, 1}
  /\ frames \in 0..MaxFrames /\ lives \in 0..MaxLives

(* Requests never overlap, through errors, timeouts and restarts: while    *)
(* the node may still look at a request, msg_ptr is about that request,    *)
(* its arguments are allocated and belong to the device, and nobody else   *)
(* gets through the semaphore.  An event nobody asked for would free them  *)
(* under the node: it is the one thing excluded.                           *)
RequestsDontOverlap ==
  ~conf.events =>
    \A r \in ({put} \cup ToSet(toDsp)) \ {None} :
      /\ args = r /\ r \in held /\ owner = "device"
      /\ sem = 0 /\ fromDsp = <<>>
      /\ put # None => toDsp = <<>>

(* What is pushed downstream is the buffer the last algorithm of the graph *)
(* wrote, in the format of the source caps, and the dynamic parameters go  *)
(* to the noise filter, with the conversion in front and without it.       *)
ResultIsPushed ==
  LET algos == setup_ipp_params(conf.format)
      Reads(i) == IF i = 2 THEN in_pix_fmt(conf.format) ELSE algos[i - 1].to
  IN  /\ pushed \subseteq {prepare_filter_graph(conf.format)[Len(algos) - 1]}
      /\ pushed # {} => /\ \A i \in 2..Len(algos) : algos[i].from = Reads(i)
                        /\ algos[Len(algos)].to = "422ILE"
                        /\ algos[eenf_idx(conf.format) + 1].fxn = "EENF"

(* An element that was stopped holds no memory of the DSP's, if nothing    *)
(* went wrong; and it is always ready for the next request.                *)
IppReleasesAll == app = "ready" => sem = 1 /\ (trouble \/ held = {})

(* Stopping ends, whatever the node does with its requests, unless         *)
(* dsp_error is left from an earlier life and dsp_thread knows nothing of  *)
(* it; and a frame handed to a node that answers comes out, or the element *)
(* is stopped.                                                             *)
StaleError == dsp_error /\ ~done /\ thr \in {"wait", "drain"}

IppAnswers ==
  /\ app = "stopping" /\ ~StaleError ~> app = "ready"
  /\ call = "frame" /\ ~conf.late ~> pushed # {} \/ trouble \/ app # "paused"
=============================================================================
