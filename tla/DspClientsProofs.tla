-------------------------- MODULE DspClientsProofs --------------------------
(***************************************************************************)
(* The two clients of the bridge: the request protocol of the image        *)
(* post-processing element, for any configurations, any number of lives    *)
(* and of frames; what the dummy element holds of the driver, for any      *)
(* build, any number of failing calls and of starts; and both together.    *)
(***************************************************************************)
EXTENDS DspClients, TLAPS

(* The requests of the three lists: init_pipe, send_buffer and             *)
(* send_stop_message.                                                      *)
Requests ==
  {"CREATE_XBF", "SET_XBF_ALGS", "CREATE_XBF_PIPE", "START_PROCESSING",
   "CONTROL_PIPE", "QUEUE_BUFF",
   "STOP_PROCESSING", "DESTROY_XBF_PIPE", "CLEAR_XBF_ALGS", "DESTROY_XBF", "WAIT"}

Messages == [cmd : Requests \cup {"EVENT_ERROR"}, error : BOOLEAN]

IppValues ==
  /\ conf \in Confs
  /\ app \in {"ready", "paused", "stopping", "crashed"}
  /\ call \in {"idle", "setcaps", "pop", "frame", "stop", "done", "join"}
  /\ caps \in {None, "set", "refused"} /\ status \in {"ok", "error", "wrong"}
  /\ thr \in {None, "wait", "drain", "ended"}
  /\ node \in BOOLEAN /\ done \in BOOLEAN /\ dsp_error \in BOOLEAN
  /\ inq \in BOOLEAN /\ trouble \in BOOLEAN
  /\ sem \in Nat /\ owner \in {"cpu", "device"}
  /\ frames \in 0..MaxFrames /\ lives \in 0..MaxLives

IppRequests ==
  /\ todo \in Seq(Requests) /\ toDsp \in Seq(Requests)
  /\ fromDsp \in Seq(Messages)
  /\ put \in Requests \cup {None}

(* A caller inside send_msg, and only one, has requests to send, and it    *)
(* has a node to send them to; nothing is left of them in READY.           *)
CallerInv ==
  /\ todo # <<>> => call \in {"setcaps", "frame", "stop"}
  /\ put # None => todo # <<>> /\ put = Head(todo) /\ put # "WAIT"
  /\ call = "stop" => todo # <<>> /\ todo[Len(todo)] = "WAIT"
  /\ call # "idle" \/ (caps = "set" /\ app # "ready") => node
  /\ app = "ready" => /\ call = "idle" /\ ~node /\ thr = None
                      /\ sem = 1 /\ toDsp = <<>> /\ fromDsp = <<>>

(* The semaphore counts: what it lets out comes back to it, and only an    *)
(* event nobody asked for can raise it once too often.                     *)
SemaphoreInv ==
  sem + Len(toDsp) + Len(fromDsp) + (IF put = None THEN 0 ELSE 1)
    <= (IF trouble THEN 2 ELSE 1)

(* A request is in one place at most: in send_msg, with the node or, as    *)
(* its reply, with dsp_thread; and it holds the semaphore there.           *)
OnePlace ==
  /\ sem \in {0, 1}
  /\ put # None => sem = 0 /\ toDsp = <<>> /\ fromDsp = <<>> /\ args = put
  /\ toDsp # <<>> => sem = 0 /\ fromDsp = <<>> /\ toDsp = <<args>>
  /\ fromDsp # <<>> => sem = 0 /\ Tail(fromDsp) = <<>>

(* Until the node has answered, the arguments are allocated and the        *)
(* device's.                                                               *)
ArgsShared ==
  put # None \/ toDsp # <<>> =>
    args \in Requests /\ args \in held /\ owner = "device"

(* As long as no event has come that nobody asked for. *)
Calm == ~conf.events \/ ~trouble

IppInv == /\ IppValues /\ IppRequests /\ CallerInv /\ SemaphoreInv
          /\ Calm => OnePlace /\ ArgsShared

(* Nothing of the last request is left between the threads.                *)
Quiet == put = None /\ toDsp = <<>> /\ fromDsp = <<>>

(* What is allocated as long as nothing has gone wrong: what lives until   *)
(* reset, for an element with a node, and the arguments of the request     *)
(* that is on its way.                                                     *)
HeldInv ==
  /\ held \subseteq UntilReset \cup (IF Quiet THEN {} ELSE {args})
  /\ ~node => held = {}

(* dsp_thread runs beside the node and ends when it is told; it is told    *)
(* when the last reply has been taken.                                     *)
StopInv ==
  /\ node => thr # None
  /\ thr = "ended" => done
  /\ call = "done" \/ (done /\ app # "ready") => Quiet /\ call \in {"done", "join"}

MemoryInv == ~trouble => HeldInv /\ StopInv

(* The output queue gets the result of the pipeline and nothing else.      *)
ResultInv == outq \cup pushed \subseteq {ResultPort(conf.format)}

(* The lists are made of requests, none of them the name for no request or *)
(* for what lives until reset.                                             *)
LEMMA RequestLists ==
  /\ <<>> \in Seq(Requests)
  /\ init_pipe \in Seq(Requests) /\ init_pipe # <<>>
  /\ frame_cmds \in Seq(Requests) /\ frame_cmds # <<>>
  /\ send_stop_message \in Seq(Requests) /\ send_stop_message # <<>>
  /\ None \notin Requests /\ Requests \cap UntilReset = {}
  BY DEF init_pipe, frame_cmds, send_stop_message, None, Requests, UntilReset

LEMMA Sequences ==
  ASSUME NEW S, NEW s \in Seq(S)
  PROVE  /\ <<>> \in Seq(S)
         /\ \A e \in S : /\ Append(s, e) \in Seq(S)
                         /\ Len(Append(s, e)) = Len(s) + 1
         /\ Len(s) \in Nat
         /\ s # <<>> => /\ Head(s) \in S /\ Tail(s) \in Seq(S)
                        /\ Len(s) >= 1 /\ Len(Tail(s)) = Len(s) - 1
                        /\ Len(s) = 1 <=> Tail(s) = <<>>
                        /\ Tail(s) # <<>> => Tail(s)[Len(Tail(s))] = s[Len(s)]
<1>1. <<>> \in Seq(S) /\ Len(s) \in Nat
  OBVIOUS
<1>2. ASSUME NEW e \in S
      PROVE  Append(s, e) \in Seq(S) /\ Len(Append(s, e)) = Len(s) + 1
  OBVIOUS
<1>3. ASSUME s # <<>>
      PROVE  /\ Head(s) \in S /\ Tail(s) \in Seq(S)
             /\ Len(s) >= 1 /\ Len(Tail(s)) = Len(s) - 1
             /\ Len(s) = 1 <=> Tail(s) = <<>>
             /\ Tail(s) # <<>> => Tail(s)[Len(Tail(s))] = s[Len(s)]
  <2>1. /\ Head(s) \in S /\ Tail(s) \in Seq(S)
        /\ Len(s) >= 1 /\ Len(Tail(s)) = Len(s) - 1
    BY <1>3
  <2>2. Len(s) = 1 <=> Tail(s) = <<>>
    BY <1>3, <2>1
  <2>3. Tail(s) # <<>> => Tail(s)[Len(Tail(s))] = s[Len(s)]
    BY <1>3, <2>1, <2>2
  <2>4. QED
    BY <2>1, <2>2, <2>3
<1>4. QED
  BY <1>1, <1>2, <1>3

(* What send_msg leaves of its list is a part of it, without the request   *)
(* it was about.                                                           *)
LEMMA GoingOn ==
  ASSUME todo \in Seq(Requests), todo # <<>>,
         Proceed \/ Return(TRUE) \/ Return(FALSE)
  PROVE  /\ todo' \in Seq(Requests)
         /\ todo' # <<>> => /\ call' = call /\ caps' = caps
                            /\ todo'[Len(todo')] = todo[Len(todo)]
         /\ todo' = <<>> => Return(TRUE) \/ Return(FALSE)
         /\ todo' = <<>> /\ Proceed => Len(todo) = 1
<1>1. CASE Proceed /\ Len(todo) # 1
  BY <1>1, Sequences DEF Proceed
<1>2. CASE Len(todo) = 1 /\ Proceed
  BY <1>2, Sequences DEF Proceed, Return
<1>3. CASE (Return(TRUE) \/ Return(FALSE)) /\ ~Proceed
  BY <1>3, Sequences DEF Return
<1>4. QED
  BY <1>1, <1>2, <1>3

LEMMA ValuesKept ==
  ASSUME IppValues, Next \/ UNCHANGED vars
  PROVE  IppValues'
<1> USE DEF IppValues, None
<1>0. Return(TRUE) \/ Return(FALSE) =>
        /\ call' \in {"idle", "setcaps", "pop", "frame", "stop", "done", "join"}
        /\ caps' \in {None, "set", "refused"}
  BY DEF Return
<1>1. CASE fill_args
  BY <1>1 DEF fill_args, g_sem_down, dmm_buffer_begin, node_vars, ports, bounds
<1>2. CASE put_message
  <2>1. /\ call' \in {"idle", "setcaps", "pop", "frame", "stop", "done", "join"}
        /\ caps' \in {None, "set", "refused"} /\ trouble' \in BOOLEAN
    BY <1>0, <1>2 DEF put_message, Proceed
  <2>2. QED
    BY <1>2, <2>1 DEF put_message, node_vars, ports, bounds
<1>3. CASE send_timeout
  BY <1>0, <1>3 DEF send_timeout, node_vars, ports, bounds
<1>4. CASE wait_last
  BY <1>0, <1>4 DEF wait_last, g_sem_down, node_vars, ports, bounds
<1>5. CASE Play
  <2>1. lives' \in 0..MaxLives /\ frames' \in 0..MaxFrames
    BY <1>5, IppAssumption DEF Play
  <2>2. QED
    BY <1>5, <2>1 DEF Play
<1>6. CASE SetCaps
  <2> PICK outcome \in SetCapsOutcomes : sink_setcaps(outcome)
    BY <1>6 DEF SetCaps
  <2>1. /\ caps' \in {None, "set", "refused"} /\ call' \in {"idle", "setcaps"}
        /\ app' \in {"paused", "crashed"} /\ status' \in {"ok", "error", "wrong"}
        /\ thr' \in {None, "wait", "drain", "ended"}
    BY DEF sink_setcaps
  <2>2. node' \in BOOLEAN
    BY DEF sink_setcaps
  <2>3. inq' \in BOOLEAN
    BY DEF sink_setcaps
  <2>4. trouble' \in BOOLEAN
    BY DEF sink_setcaps
  <2>5. QED
    BY <2>1, <2>2, <2>3, <2>4 DEF sink_setcaps, bounds
<1>7. CASE Streaming
  <2>1. CASE pad_chain
    <3>1. frames' \in 0..MaxFrames
      BY <2>1, IppAssumption DEF pad_chain
    <3>2. QED
      BY <2>1, <3>1 DEF pad_chain, node_vars, exchange, ports
  <2>2. CASE send_buffer
    <3>1. call' \in {"idle", "frame"} /\ inq' \in BOOLEAN
      BY <2>2 DEF send_buffer
    <3>2. QED
      BY <2>2, <3>1 DEF send_buffer, node_vars, exchange, bounds
  <2>3. CASE pop_disabled
    BY <2>3 DEF pop_disabled, node_vars, exchange, ports, bounds
  <2>4. CASE output_loop
    BY <2>4 DEF output_loop, caller, node_vars, exchange, bounds
  <2>5. QED
    BY <1>7, <2>1, <2>2, <2>3, <2>4 DEF Streaming
<1>8. CASE ThreadRuns \/ ThreadFails
  BY <1>8 DEF ThreadRuns, ThreadFails, caller, exchange, ports, bounds
<1>9. CASE got_message
  <2>1. sem' \in Nat /\ owner' \in {"cpu", "device"}
    BY <1>9 DEF got_message, g_sem_up, dmm_buffer_end
  <2>2. /\ status' \in {"ok", "error", "wrong"} /\ done' \in BOOLEAN
        /\ dsp_error' \in BOOLEAN /\ trouble' \in BOOLEAN
    BY <1>9 DEF got_message
  <2>3. QED
    BY <1>9, <2>1, <2>2 DEF got_message, caller, bounds
<1>10. CASE Node
  BY <1>10 DEF Node, NodeAnswers, NodeReportsEvent, caller, node_vars, ports, bounds
<1>11. CASE Disable
  BY <1>11 DEF Disable, caller, exchange, ports, bounds
<1>12. CASE Stop
  <2>1. CASE _dsp_stop
    BY <2>1 DEF _dsp_stop, node_vars, exchange, ports, bounds
  <2>2. CASE SetDone
    BY <2>2 DEF SetDone, exchange, ports, bounds
  <2>3. CASE reset
    BY <2>3 DEF reset, bounds
  <2>4. QED
    BY <1>12, <2>1, <2>2, <2>3 DEF Stop
<1>13. CASE UNCHANGED vars
  BY <1>13 DEF vars, caller, node_vars, exchange, ports, bounds
<1>14. QED
  BY <1>1, <1>2, <1>3, <1>4, <1>5, <1>6, <1>7, <1>8, <1>9, <1>10, <1>11, <1>12,
     <1>13 DEF Next, send_msg, dsp_thread

LEMMA RequestsKept ==
  ASSUME IppRequests, CallerInv, Next \/ UNCHANGED vars
  PROVE  IppRequests'
<1> USE DEF IppRequests
<1>0. <<>> \in Seq(Requests) /\ <<>> \in Seq(Messages)
  BY Sequences
<1>1. CASE send_msg
  <2>1. CASE fill_args
    BY <2>1, Sequences DEF fill_args, Request
  <2>2. CASE put_message
    <3>1. todo' \in Seq(Requests)
      BY <2>2, GoingOn DEF put_message, CallerInv
    <3>2. put \in Requests
      BY <2>2 DEF put_message
    <3>3. Append(toDsp, put) \in Seq(Requests)
      BY <3>2, Sequences
    <3>4. toDsp' = toDsp \/ toDsp' = Append(toDsp, put)
      BY <2>2 DEF put_message
    <3>5. QED
      BY <2>2, <3>1, <3>3, <3>4 DEF put_message
  <2>3. CASE send_timeout \/ wait_last
    BY <2>3, Sequences DEF send_timeout, wait_last, Return
  <2>4. QED
    BY <1>1, <2>1, <2>2, <2>3 DEF send_msg
<1>2. CASE got_message
  BY <1>2, Sequences DEF got_message, caller
<1>3. CASE NodeAnswers
  <2>1. Head(toDsp) \in Requests /\ Tail(toDsp) \in Seq(Requests)
    BY <1>3, Sequences DEF NodeAnswers
  <2>2. PICK e \in BOOLEAN : fromDsp' = Append(fromDsp, [cmd |-> Head(toDsp), error |-> e])
    BY <1>3 DEF NodeAnswers
  <2>3. [cmd |-> Head(toDsp), error |-> e] \in Messages
    BY <2>1 DEF Messages
  <2>4. fromDsp' \in Seq(Messages)
    BY <2>2, <2>3, Sequences
  <2>5. QED
    BY <1>3, <2>1, <2>4 DEF NodeAnswers, caller
<1>4. CASE NodeReportsEvent
  <2>1. [cmd |-> "EVENT_ERROR", error |-> FALSE] \in Messages
    BY DEF Messages
  <2>2. fromDsp' \in Seq(Messages)
    BY <1>4, <2>1, Sequences DEF NodeReportsEvent
  <2>3. QED
    BY <1>4, <2>2 DEF NodeReportsEvent, caller
<1>5. CASE Play \/ SetCaps
  BY <1>5, RequestLists DEF Play, SetCaps, sink_setcaps
<1>6. CASE Streaming
  BY <1>6, RequestLists DEF Streaming, pad_chain, send_buffer, pop_disabled, output_loop,
                            caller, exchange
<1>7. CASE ThreadRuns \/ ThreadFails \/ Disable
  BY <1>7 DEF ThreadRuns, ThreadFails, Disable, caller, exchange
<1>8. CASE Stop
  <2>1. CASE _dsp_stop
    BY <2>1, RequestLists DEF _dsp_stop, exchange
  <2>2. CASE SetDone
    BY <2>2 DEF SetDone, exchange
  <2>3. CASE reset
    BY <1>0, <2>3 DEF reset
  <2>4. QED
    BY <1>8, <2>1, <2>2, <2>3 DEF Stop
<1>9. CASE UNCHANGED vars
  BY <1>9 DEF vars, caller, exchange
<1>10. QED
  BY <1>1, <1>2, <1>3, <1>4, <1>5, <1>6, <1>7, <1>8, <1>9 DEF Next, dsp_thread, Node

LEMMA CallerKept ==
  ASSUME IppRequests, CallerInv, Next \/ UNCHANGED vars
  PROVE  CallerInv'
<1> USE DEF CallerInv, IppRequests
<1>1. CASE fill_args
  <2>1. Request # None
    BY <1>1, RequestLists, Sequences DEF fill_args, Request
  <2>2. put' = Head(todo') /\ put' # "WAIT" /\ todo' # <<>>
    BY <1>1 DEF fill_args, Request
  <2>3. app # "ready"
    BY <1>1 DEF fill_args
  <2>4. QED
    BY <1>1, <2>2, <2>3 DEF fill_args, node_vars
<1>2. CASE put_message
  <2>1. todo # <<>>
    BY <1>2 DEF put_message
  <2>2. /\ todo' # <<>> => call' = call /\ caps' = caps /\ todo'[Len(todo')] = todo[Len(todo)]
        /\ todo' = <<>> => Return(TRUE) \/ Return(FALSE)
    BY <1>2, <2>1, GoingOn DEF put_message
  <2>3. call' = "stop" => call = "stop" /\ todo' # <<>>
    BY <2>2 DEF Return
  <2>4. call' # "idle" \/ caps' = "set" => call # "idle"
    BY <2>1, <2>2 DEF Return
  <2>5. app # "ready" /\ put' = None
    BY <1>2, <2>1 DEF put_message
  <2>6. QED
    BY <1>2, <2>1, <2>2, <2>3, <2>4, <2>5 DEF put_message, node_vars
<1>3. CASE send_timeout \/ wait_last
  <2>0. todo # <<>> /\ put = None /\ UNCHANGED <<put, app, node>> /\ (Return(TRUE) \/ Return(FALSE))
    <3>1. CASE send_timeout
      BY <3>1 DEF send_timeout, node_vars
    <3>2. CASE wait_last
      <4>1. Len(todo) = 1
        BY <3>2 DEF wait_last
      <4>2. QED
        BY <3>2, <4>1, Sequences DEF wait_last, node_vars
    <3>3. QED
      BY <1>3, <3>1, <3>2
  <2>1. todo # <<>> /\ todo' = <<>> /\ put' = None /\ call' \in {"idle", "done"}
        /\ call # "idle" /\ app' = app /\ node' = node
    BY <2>0 DEF Return
  <2>2. QED
    BY <2>1
<1>4. CASE Play
  BY <1>4 DEF Play, None
<1>5. CASE SetCaps
  <2> PICK outcome \in SetCapsOutcomes : sink_setcaps(outcome)
    BY <1>5 DEF SetCaps
  <2>1. /\ app' # "ready" /\ todo = <<>> /\ put' = None
        /\ call' \in {"idle", "setcaps"} /\ caps' # "set"
    BY DEF sink_setcaps, None
  <2>2. call' # "idle" => node'
    BY DEF sink_setcaps
  <2>3. todo' # <<>> => call' = "setcaps"
    BY DEF sink_setcaps
  <2>4. QED
    BY <2>1, <2>2, <2>3
<1>6. CASE Streaming
  <2>1. CASE send_buffer
    BY <2>1, RequestLists DEF send_buffer, node_vars, exchange
  <2>2. CASE pad_chain \/ pop_disabled \/ output_loop
    BY <2>2 DEF pad_chain, pop_disabled, output_loop, caller, node_vars, exchange
  <2>3. QED
    BY <1>6, <2>1, <2>2 DEF Streaming
<1>7. CASE ThreadRuns \/ ThreadFails
  <2>1. app # "ready" /\ UNCHANGED <<app, call, todo, put, caps, node>>
    BY <1>7 DEF ThreadRuns, ThreadFails, caller, None
  <2>2. QED
    BY <2>1
<1>8. CASE got_message
  BY <1>8 DEF got_message, caller
<1>9. CASE Node
  BY <1>9 DEF Node, NodeAnswers, NodeReportsEvent, caller, node_vars, None
<1>10. CASE Disable
  BY <1>10 DEF Disable, caller, exchange
<1>11. CASE Stop
  <2>1. CASE _dsp_stop
    <3>1. send_stop_message[Len(send_stop_message)] = "WAIT"
      BY DEF send_stop_message
    <3>2. QED
      BY <2>1, <3>1, RequestLists DEF _dsp_stop, node_vars, exchange
  <2>2. CASE SetDone
    BY <2>2 DEF SetDone, exchange
  <2>3. CASE reset
    BY <2>3 DEF reset
  <2>4. QED
    BY <1>11, <2>1, <2>2, <2>3 DEF Stop
<1>12. CASE UNCHANGED vars
  BY <1>12 DEF vars, caller, node_vars, exchange
<1>13. QED
  BY <1>1, <1>2, <1>3, <1>4, <1>5, <1>6, <1>7, <1>8, <1>9, <1>10, <1>11, <1>12
     DEF Next, send_msg, dsp_thread

(* What the caller lets out of the semaphore and what dsp_thread gives     *)
(* back.                                                                   *)
LEMMA SemaphoreKept ==
  ASSUME IppValues, IppRequests, CallerInv, SemaphoreInv, Next \/ UNCHANGED vars
  PROVE  SemaphoreInv'
<1> USE DEF SemaphoreInv
<1>0. /\ sem \in Nat /\ Len(toDsp) \in Nat /\ Len(fromDsp) \in Nat
      /\ Len(<<>>) = 0 /\ trouble \in BOOLEAN
  BY Sequences DEF IppValues, IppRequests
<1>1. CASE fill_args
  BY <1>0, <1>1 DEF fill_args, g_sem_down
<1>2. CASE put_message
  <2>1. put \in Requests
    BY <1>2 DEF put_message, IppRequests
  <2>2. Len(Append(toDsp, put)) = Len(toDsp) + 1
    BY <2>1, Sequences DEF IppRequests
  <2>3. \/ Len(toDsp') = Len(toDsp) + 1 /\ trouble' = trouble
        \/ toDsp' = toDsp /\ trouble' = TRUE
    BY <1>2, <2>2 DEF put_message
  <2>4. put # None /\ put' = None /\ sem' = sem /\ fromDsp' = fromDsp
    BY <1>2 DEF put_message
  <2>5. QED
    BY <1>0, <2>3, <2>4
<1>3. CASE send_timeout
  BY <1>0, <1>3 DEF send_timeout
<1>4. CASE wait_last
  BY <1>0, <1>4 DEF wait_last, g_sem_down
<1>5. CASE Play
  BY <1>0, <1>5 DEF Play, CallerInv
<1>6. CASE SetCaps
  <2>1. UNCHANGED <<put, sem, toDsp, fromDsp>> /\ (trouble => trouble')
    BY <1>6 DEF SetCaps, sink_setcaps
  <2>2. QED
    BY <1>0, <2>1
<1>7. CASE Streaming
  BY <1>0, <1>7 DEF Streaming, pad_chain, send_buffer, pop_disabled, output_loop, caller,
              exchange
<1>8. CASE ThreadRuns \/ ThreadFails
  BY <1>0, <1>8 DEF ThreadRuns, ThreadFails, caller, exchange
<1>9. CASE got_message
  <2>1. Len(fromDsp') = Len(fromDsp) - 1 /\ sem' = sem + 1
    BY <1>9, Sequences DEF got_message, g_sem_up, IppRequests
  <2>2. put' = put /\ toDsp' = toDsp /\ (trouble => trouble')
    BY <1>9 DEF got_message, caller
  <2>3. QED
    BY <1>0, <2>1, <2>2
<1>10. CASE NodeAnswers
  <2>1. PICK e \in BOOLEAN : fromDsp' = Append(fromDsp, [cmd |-> Head(toDsp), error |-> e])
    BY <1>10 DEF NodeAnswers
  <2>2. [cmd |-> Head(toDsp), error |-> e] \in Messages
    BY <1>10, Sequences DEF NodeAnswers, Messages, IppRequests
  <2>3. Len(fromDsp') = Len(fromDsp) + 1
    BY <2>1, <2>2, Sequences DEF IppRequests
  <2>4. Len(toDsp') = Len(toDsp) - 1
    BY <1>10, Sequences DEF NodeAnswers, IppRequests
  <2>5. put' = put /\ sem' = sem /\ (trouble <=> trouble')
    BY <1>10 DEF NodeAnswers, caller
  <2>6. QED
    BY <1>0, <2>3, <2>4, <2>5
<1>11. CASE NodeReportsEvent
  <2>1. [cmd |-> "EVENT_ERROR", error |-> FALSE] \in Messages
    BY DEF Messages
  <2>2. Len(fromDsp') = Len(fromDsp) + 1
    BY <1>11, <2>1, Sequences DEF NodeReportsEvent, IppRequests
  <2>3. /\ put' = put /\ sem' = sem /\ toDsp' = toDsp
        /\ ~trouble /\ trouble'
    BY <1>11 DEF NodeReportsEvent, caller
  <2>4. QED
    BY <1>0, <2>2, <2>3
<1>12. CASE Disable
  BY <1>0, <1>12 DEF Disable, caller, exchange
<1>13. CASE Stop
  <2>1. CASE _dsp_stop \/ SetDone
    BY <1>0, <2>1 DEF _dsp_stop, SetDone, exchange
  <2>2. CASE reset
    <3>1. put = None
      BY <2>2 DEF reset, CallerInv
    <3>2. QED
      BY <1>0, <2>2, <3>1 DEF reset
  <2>3. QED
    BY <1>13, <2>1, <2>2 DEF Stop
<1>14. CASE UNCHANGED vars
  BY <1>0, <1>14 DEF vars, caller, exchange
<1>15. QED
  BY <1>1, <1>2, <1>3, <1>4, <1>5, <1>6, <1>7, <1>8, <1>9, <1>10, <1>11, <1>12,
     <1>13, <1>14 DEF Next, send_msg, dsp_thread, Node

(* Trouble stays until the next life.                                      *)
LEMMA TroubleStays ==
  ASSUME Next \/ UNCHANGED vars, ~Play
  PROVE  conf' = conf /\ (trouble => trouble')
<1>1. CASE send_timeout \/ put_message
  <2>1. CASE send_timeout
    BY <2>1 DEF send_timeout
  <2>2. CASE put_message
    <3>1. conf' = conf /\ (trouble' = trouble \/ trouble' = TRUE)
      BY <2>2 DEF put_message
    <3>2. QED
      BY <3>1
  <2>3. QED
    BY <1>1, <2>1, <2>2
<1>2. CASE SetCaps
  BY <1>2 DEF SetCaps, sink_setcaps
<1>3. CASE ThreadFails \/ got_message
  BY <1>3 DEF ThreadFails, got_message
<1>4. CASE fill_args \/ wait_last \/ Streaming \/ ThreadRuns \/ NodeAnswers
  <2>1. UNCHANGED <<conf, trouble>>
    BY <1>4 DEF fill_args, wait_last, Streaming, pad_chain, send_buffer, pop_disabled,
                output_loop, ThreadRuns, NodeAnswers
  <2>2. QED
    BY <2>1
<1>5. CASE Disable \/ Stop \/ UNCHANGED vars
  BY <1>5 DEF Disable, Stop, _dsp_stop, SetDone, reset, vars
<1>6. CASE NodeReportsEvent
  BY <1>6 DEF NodeReportsEvent
<1>7. QED
  BY <1>1, <1>2, <1>3, <1>4, <1>5, <1>6 DEF Next, Node, send_msg, dsp_thread

(* A request is in one place: the semaphore is what keeps the second one   *)
(* out.                                                                    *)
LEMMA PlaceKept ==
  ASSUME IppInv, Next \/ UNCHANGED vars, Calm'
  PROVE  OnePlace' /\ ArgsShared'
<1>0. IppRequests /\ CallerInv /\ IppValues
  BY DEF IppInv
<1>1. CASE Play
  <2>1. put' = None /\ toDsp' = <<>> /\ fromDsp' = <<>> /\ sem' = 1
    BY <1>0, <1>1 DEF Play, CallerInv, None
  <2>2. QED
    BY <2>1 DEF OnePlace, ArgsShared
<1>2. CASE NodeReportsEvent
  BY <1>2 DEF NodeReportsEvent, Calm
<1>3. ASSUME ~Play, ~NodeReportsEvent
      PROVE  OnePlace' /\ ArgsShared'
  <2>0. conf' = conf /\ (trouble => trouble')
    BY <1>3, TroubleStays
  <2>1. OnePlace /\ ArgsShared
    BY <2>0 DEF IppInv, Calm
  <2>2. CASE fill_args
    <3>1. Request \in Requests /\ Request # None
      BY <1>0, <2>2, RequestLists, Sequences DEF fill_args, Request, IppRequests
    <3>2. /\ put' = Request /\ args' = Request /\ Request \in held' /\ owner' = "device"
          /\ put = None /\ sem > 0 /\ sem' = sem - 1 /\ UNCHANGED <<toDsp, fromDsp>>
      BY <2>2 DEF fill_args, g_sem_down, dmm_buffer_begin
    <3>3. toDsp = <<>> /\ fromDsp = <<>> /\ sem' = 0
      BY <2>1, <3>2 DEF OnePlace
    <3>4. QED
      BY <3>1, <3>2, <3>3 DEF OnePlace, ArgsShared
  <2>3. CASE put_message
    <3>1. /\ put # None /\ put' = None
          /\ toDsp' = toDsp \/ toDsp' = Append(toDsp, put)
          /\ UNCHANGED <<sem, args, owner, held, fromDsp>>
      BY <2>3 DEF put_message
    <3>2. toDsp = <<>> /\ args = put
      BY <2>1, <3>1 DEF OnePlace
    <3>3. toDsp' = <<>> \/ toDsp' = <<args>>
      BY <3>1, <3>2
    <3>4. QED
      BY <2>1, <3>1, <3>3 DEF OnePlace, ArgsShared
  <2>4. CASE send_timeout
    <3>1. held \subseteq held' /\ UNCHANGED <<put, sem, args, owner, toDsp, fromDsp>>
      BY <2>4 DEF send_timeout
    <3>2. QED
      BY <2>1, <3>1 DEF OnePlace, ArgsShared
  <2>5. CASE wait_last
    BY <2>1, <2>5 DEF wait_last, g_sem_down, OnePlace, ArgsShared
  <2>6. CASE NodeAnswers
    <3>1. PICK m : fromDsp' = Append(fromDsp, m)
      BY <2>6 DEF NodeAnswers
    <3>2. /\ toDsp # <<>> /\ toDsp' = Tail(toDsp)
          /\ UNCHANGED <<put, sem, args, owner, held>>
      BY <2>6 DEF NodeAnswers, caller
    <3>3. toDsp = <<args>> /\ fromDsp = <<>> /\ put = None /\ sem = 0
      BY <2>1, <3>2 DEF OnePlace
    <3>4. toDsp' = <<>> /\ Tail(fromDsp') = <<>>
      BY <3>1, <3>2, <3>3
    <3>5. QED
      BY <3>2, <3>3, <3>4 DEF OnePlace, ArgsShared
  <2>7. CASE got_message
    <3>1. /\ fromDsp # <<>> /\ fromDsp' = Tail(fromDsp) /\ sem' = sem + 1
          /\ UNCHANGED <<put, toDsp>>
      BY <2>7 DEF got_message, g_sem_up, caller
    <3>2. fromDsp' = <<>> /\ sem' = 1 /\ put' = None /\ toDsp' = <<>>
      BY <2>1, <3>1 DEF OnePlace
    <3>3. QED
      BY <3>2 DEF OnePlace, ArgsShared
  <2>8. CASE SetCaps
    <3>1. held \subseteq held' /\ UNCHANGED <<put, sem, args, owner, toDsp, fromDsp>>
      BY <2>8 DEF SetCaps, sink_setcaps
    <3>2. QED
      BY <2>1, <3>1 DEF OnePlace, ArgsShared
  <2>9. CASE Streaming \/ ThreadRuns \/ ThreadFails \/ Disable \/ UNCHANGED vars
    <3>1. UNCHANGED <<put, sem, args, owner, held, toDsp, fromDsp>>
      BY <2>9 DEF Streaming, pad_chain, send_buffer, pop_disabled, output_loop, ThreadRuns,
                  ThreadFails, Disable, vars, caller, exchange
    <3>2. QED
      BY <2>1, <3>1 DEF OnePlace, ArgsShared
  <2>10. CASE Stop
    <3>1. CASE _dsp_stop \/ SetDone
      BY <2>1, <3>1 DEF _dsp_stop, SetDone, exchange, OnePlace, ArgsShared
    <3>2. CASE reset
      <4>1. put' = None /\ toDsp' = <<>> /\ fromDsp' = <<>> /\ sem' = 1
        BY <1>0, <3>2 DEF reset, CallerInv
      <4>2. QED
        BY <4>1 DEF OnePlace, ArgsShared
    <3>3. QED
      BY <2>10, <3>1, <3>2 DEF Stop
  <2>11. QED
    BY <1>3, <2>2, <2>3, <2>4, <2>5, <2>6, <2>7, <2>8, <2>9, <2>10
       DEF Next, send_msg, dsp_thread, Node
<1>4. QED
  BY <1>1, <1>2, <1>3

(* Who waits for which reply and who owns the arguments.                   *)
LEMMA IppInvKept ==
  ASSUME IppInv, Next \/ UNCHANGED vars
  PROVE  IppInv'
  BY ValuesKept, RequestsKept, CallerKept, SemaphoreKept, PlaceKept DEF IppInv

LEMMA IppInvInit ==
  ASSUME Init
  PROVE  IppInv
<1>1. IppValues
  <2>1. MaxLives \in Nat /\ MaxFrames \in Nat
    BY IppAssumption
  <2>2. frames \in 0..MaxFrames /\ lives \in 0..MaxLives
    BY <2>1 DEF Init
  <2>3. QED
    BY <2>2 DEF Init, IppValues, None
<1>2. IppRequests
  BY Sequences DEF Init, IppRequests
<1>3. CallerInv
  BY DEF Init, CallerInv
<1>4. SemaphoreInv
  <2>1. Len(<<>>) = 0
    OBVIOUS
  <2>2. QED
    BY <2>1 DEF Init, SemaphoreInv
<1>5. OnePlace /\ ArgsShared
  BY DEF Init, OnePlace, ArgsShared
<1>6. QED
  BY <1>1, <1>2, <1>3, <1>4, <1>5 DEF IppInv

(* The buffers: a request's are given back with its reply, the others by   *)
(* reset.                                                                  *)
LEMMA HeldKept ==
  ASSUME IppInv, HeldInv, StopInv, ~trouble, ~trouble', ~Play, Next \/ UNCHANGED vars
  PROVE  HeldInv'
<1>0. CallerInv /\ IppRequests /\ OnePlace /\ ArgsShared
  BY DEF IppInv, Calm
<1>1. CASE fill_args
  <2>1. Keeps(Request) \subseteq UntilReset
    BY DEF Keeps, UntilReset
  <2>2. Quiet /\ node
    BY <1>0, <1>1 DEF fill_args, g_sem_down, OnePlace, CallerInv, Quiet
  <2>3. put' # None /\ args' = Request
    BY <1>0, <1>1, RequestLists, Sequences DEF fill_args, Request, IppRequests
  <2>4. held' = held \cup Keeps(Request) \cup {Request} /\ node' = node
    BY <1>1 DEF fill_args, node_vars
  <2>5. QED
    BY <2>1, <2>2, <2>3, <2>4 DEF HeldInv, Quiet
<1>2. CASE put_message
  <2>1. put \in Requests /\ ~Quiet
    BY <1>0, <1>2 DEF put_message, IppRequests, Quiet
  <2>2. toDsp' = Append(toDsp, put) /\ UNCHANGED <<args, held, node>>
    BY <1>2 DEF put_message, node_vars
  <2>3. Len(toDsp') = Len(toDsp) + 1 /\ Len(toDsp) \in Nat
    BY <1>0, <2>1, <2>2, Sequences DEF IppRequests
  <2>4. ~Quiet'
    <3>1. Len(<<>>) = 0
      OBVIOUS
    <3>2. toDsp' # <<>>
      BY <2>3, <3>1
    <3>3. QED
      BY <3>2 DEF Quiet
  <2>5. QED
    BY <2>1, <2>2, <2>4 DEF HeldInv
<1>3. CASE send_timeout
  BY <1>3 DEF send_timeout
<1>4. CASE NodeAnswers
  <2>1. PICK m : fromDsp' = Append(fromDsp, m)
    BY <1>4 DEF NodeAnswers
  <2>2. toDsp # <<>> /\ UNCHANGED <<args, held, node>>
    BY <1>4 DEF NodeAnswers, node_vars
  <2>3. fromDsp = <<>>
    BY <1>0, <2>2 DEF OnePlace
  <2>4. fromDsp' # <<>>
    BY <2>1, <2>3
  <2>5. QED
    BY <2>2, <2>4 DEF HeldInv, Quiet
<1>5. CASE got_message
  <2>1. held' = held \ {args} /\ node' = node
    BY <1>5 DEF got_message
  <2>2. held \subseteq UntilReset \cup {args} /\ (~node => held = {})
    BY DEF HeldInv
  <2>3. held' \subseteq UntilReset
    BY <2>1, <2>2
  <2>4. QED
    BY <2>1, <2>2, <2>3 DEF HeldInv
<1>6. CASE SetCaps
  <2> PICK outcome \in SetCapsOutcomes : sink_setcaps(outcome)
    BY <1>6 DEF SetCaps
  <2>1. outcome = "ok"
    BY DEF sink_setcaps
  <2>2. node' /\ held' \subseteq held \cup {"algos"} /\ Quiet' = Quiet /\ args' = args
    BY <2>1 DEF sink_setcaps, Quiet
  <2>3. "algos" \in UntilReset
    BY DEF UntilReset
  <2>4. QED
    BY <2>2, <2>3 DEF HeldInv
<1>7. CASE reset
  <2>1. node => Quiet
    BY <1>7 DEF reset, StopInv, None
  <2>2. held \subseteq UntilReset
    BY <2>1 DEF HeldInv
  <2>3. held' = {}
    BY <1>7, <2>2 DEF reset
  <2>4. QED
    BY <2>3 DEF HeldInv
<1>8. ASSUME UNCHANGED <<held, args, node, put, toDsp, fromDsp>>
      PROVE  HeldInv'
  BY <1>8 DEF HeldInv, Quiet
<1>9. CASE wait_last \/ Streaming \/ ThreadRuns \/ ThreadFails
  BY <1>8, <1>9 DEF wait_last, Streaming, pad_chain, send_buffer, pop_disabled, output_loop,
                    ThreadRuns, ThreadFails, caller, exchange, node_vars
<1>10. CASE Disable \/ _dsp_stop \/ SetDone \/ UNCHANGED vars
  BY <1>8, <1>10 DEF Disable, _dsp_stop, SetDone, vars, caller, exchange, node_vars
<1>11. CASE NodeReportsEvent
  BY <1>11 DEF NodeReportsEvent
<1>12. QED
  BY <1>1, <1>2, <1>3, <1>4, <1>5, <1>6, <1>7, <1>9, <1>10, <1>11
     DEF Next, send_msg, dsp_thread, Node, Stop

LEMMA StopKept ==
  ASSUME IppInv, HeldInv, StopInv, ~trouble, ~trouble', ~Play, Next \/ UNCHANGED vars
  PROVE  StopInv'
<1>0. CallerInv /\ IppRequests /\ OnePlace /\ ArgsShared
  BY DEF IppInv, Calm
<1>1. CASE fill_args
  <2>1. /\ todo # <<>>
        /\ UNCHANGED <<app, call, node, thr, done, toDsp, fromDsp>>
    BY <1>1 DEF fill_args, node_vars
  <2>2. call \in {"setcaps", "frame", "stop"}
    BY <1>0, <2>1 DEF CallerInv
  <2>3. QED
    BY <2>1, <2>2 DEF StopInv
<1>2. CASE put_message
  <2>1. put # None /\ Proceed /\ UNCHANGED <<app, node, thr, done>>
    BY <1>2 DEF put_message, node_vars
  <2>2. ~(done /\ app # "ready")
    BY <2>1 DEF StopInv, Quiet
  <2>3. call' # "done"
    <3>1. todo \in Seq(Requests) /\ todo # <<>> /\ put = Head(todo) /\ put # "WAIT"
      BY <1>0, <2>1 DEF CallerInv, IppRequests
    <3>2. call \in {"setcaps", "frame", "stop"}
      BY <1>0, <3>1 DEF CallerInv
    <3>3. ASSUME call = "stop"  PROVE Len(todo) # 1
      <4>1. todo[Len(todo)] = "WAIT"
        BY <1>0, <3>3 DEF CallerInv
      <4>2. QED
        BY <3>1, <4>1
    <3>4. QED
      BY <2>1, <3>2, <3>3 DEF Proceed, Return
  <2>4. QED
    BY <2>1, <2>2, <2>3 DEF StopInv
<1>3. CASE send_timeout
  BY <1>3 DEF send_timeout
<1>4. CASE wait_last
  <2>1. todo # <<>>
    <3>1. Len(todo) = 1
      BY <1>4 DEF wait_last
    <3>2. QED
      BY <3>1
  <2>2. call \in {"setcaps", "frame", "stop"}
    BY <1>0, <2>1 DEF CallerInv
  <2>3. Quiet'
    BY <1>0, <1>4 DEF wait_last, g_sem_down, OnePlace, Quiet
  <2>4. /\ call' = IF call = "stop" THEN "done" ELSE "idle"
        /\ UNCHANGED <<app, node, thr, done>>
    BY <1>4 DEF wait_last, Return, node_vars
  <2>5. QED
    BY <2>2, <2>3, <2>4 DEF StopInv
<1>5. CASE SetCaps
  <2> PICK outcome \in SetCapsOutcomes : sink_setcaps(outcome)
    BY <1>5 DEF SetCaps
  <2>1. outcome = "ok"
    BY DEF sink_setcaps
  <2>2. /\ app # "ready" /\ call = "idle" /\ call' = "setcaps"
        /\ thr' = "wait" /\ UNCHANGED <<app, done>>
    BY <2>1 DEF sink_setcaps
  <2>3. ~done
    BY <2>2 DEF StopInv
  <2>4. QED
    BY <2>2, <2>3 DEF StopInv, None
<1>6. CASE Streaming \/ Disable
  <2>1. CASE output_loop
    BY <2>1 DEF output_loop, caller, node_vars, exchange, StopInv, Quiet
  <2>2. CASE pad_chain \/ send_buffer \/ pop_disabled
    <3>1. /\ call \in {"idle", "pop"} /\ call' \in {"idle", "pop", "frame"}
          /\ UNCHANGED <<app, node, thr, done>>
      BY <2>2 DEF pad_chain, send_buffer, pop_disabled, node_vars
    <3>2. QED
      BY <3>1 DEF StopInv
  <2>3. CASE Disable
    BY <2>3 DEF Disable, caller, exchange, StopInv, Quiet
  <2>4. QED
    BY <1>6, <2>1, <2>2, <2>3 DEF Streaming
<1>7. CASE ThreadRuns
  <2>1. thr' # None /\ (thr' = "ended" => done)
    BY <1>7 DEF ThreadRuns, None
  <2>2. UNCHANGED <<app, call, node, done, put, toDsp, fromDsp>>
    BY <1>7 DEF ThreadRuns, caller, exchange
  <2>3. QED
    BY <2>1, <2>2 DEF StopInv, Quiet
<1>8. CASE ThreadFails
  BY <1>8 DEF ThreadFails
<1>9. CASE got_message
  <2>1. ~Quiet /\ UNCHANGED <<app, call, node, thr, done>>
    BY <1>9 DEF got_message, caller, Quiet
  <2>2. QED
    BY <2>1 DEF StopInv
<1>10. CASE NodeAnswers
  <2>1. ~Quiet /\ UNCHANGED <<app, call, node, thr, done>>
    BY <1>10 DEF NodeAnswers, caller, node_vars, Quiet
  <2>2. QED
    BY <2>1 DEF StopInv
<1>11. CASE NodeReportsEvent
  BY <1>11 DEF NodeReportsEvent
<1>12. CASE Stop
  <2>1. CASE _dsp_stop
    <3>1. /\ call = "idle" /\ app # "ready" /\ call' \in {"join", "stop"}
          /\ UNCHANGED <<app, node, thr, done>>
      BY <2>1 DEF _dsp_stop, node_vars
    <3>2. QED
      BY <3>1 DEF StopInv
  <2>2. CASE SetDone
    BY <2>2 DEF SetDone, exchange, StopInv, Quiet
  <2>3. CASE reset
    BY <2>3 DEF reset, StopInv, None
  <2>4. QED
    BY <1>12, <2>1, <2>2, <2>3 DEF Stop
<1>13. CASE UNCHANGED vars
  BY <1>13 DEF vars, caller, node_vars, exchange, StopInv, Quiet
<1>14. QED
  BY <1>1, <1>2, <1>3, <1>4, <1>5, <1>6, <1>7, <1>8, <1>9, <1>10, <1>11, <1>12, <1>13
     DEF Next, send_msg, dsp_thread, Node

LEMMA MemoryKept ==
  ASSUME IppInv, MemoryInv, Next \/ UNCHANGED vars
  PROVE  MemoryInv'
<1>1. CASE Play
  <2>1. /\ held' = {} /\ ~done' /\ thr' = None /\ ~node' /\ call' = "idle"
    BY <1>1 DEF Play, IppInv, CallerInv
  <2>2. QED
    BY <2>1 DEF MemoryInv, HeldInv, StopInv, None
<1>2. CASE ~Play
  BY <1>2, TroubleStays, HeldKept, StopKept DEF MemoryInv
<1>3. QED
  BY <1>1, <1>2

LEMMA ResultKept ==
  ASSUME ResultInv, Next \/ UNCHANGED vars
  PROVE  ResultInv'
<1> USE DEF ResultInv
<1>0. conf' = conf
  <2>1. CASE Play
    BY <2>1 DEF Play
  <2>2. QED
    BY <2>1, TroubleStays
<1>1. CASE got_message
  BY <1>0, <1>1 DEF got_message
<1>2. CASE output_loop
  BY <1>0, <1>2 DEF output_loop
<1>3. CASE Play \/ SetCaps \/ pad_chain \/ send_buffer \/ pop_disabled
  BY <1>0, <1>3 DEF Play, SetCaps, sink_setcaps, pad_chain, send_buffer, pop_disabled, ports
<1>4. CASE send_msg
  BY <1>0, <1>4 DEF send_msg, fill_args, put_message, send_timeout, wait_last, ports
<1>5. CASE ThreadRuns \/ ThreadFails \/ Node
  BY <1>0, <1>5 DEF ThreadRuns, ThreadFails, Node, NodeAnswers, NodeReportsEvent, ports
<1>6. CASE Disable \/ Stop \/ UNCHANGED vars
  BY <1>0, <1>6 DEF Disable, Stop, _dsp_stop, SetDone, reset, vars, ports
<1>7. QED
  BY <1>1, <1>2, <1>3, <1>4, <1>5, <1>6 DEF Next, Streaming, dsp_thread

-----------------------------------------------------------------------------
(* The pipeline of algorithms: where each is, with the conversion in front *)
(* and without it.                                                         *)
LEMMA Concatenation ==
  ASSUME NEW S, NEW s \in Seq(S), NEW t \in Seq(S)
  PROVE  /\ s \o t \in Seq(S) /\ Len(s \o t) = Len(s) + Len(t)
         /\ \A i \in 1..Len(s) : (s \o t)[i] = s[i]
         /\ \A i \in 1..Len(t) : (s \o t)[Len(s) + i] = t[i]
  OBVIOUS

LEMMA Pipeline ==
  ASSUME NEW format
  PROVE  LET algos == setup_ipp_params(format)
             n == IF in_pix_fmt(format) = "420P" THEN 1 ELSE 2
         IN  /\ Len(algos) = n + 3
             /\ n = 2 => algos[2] = get_yuvc_params("422ILE", "420P")
             /\ algos[n + 1] = get_crcbs_params /\ algos[n + 2] = get_eenf_params
             /\ algos[n + 3] = get_yuvc_params("420P", "422ILE")
<1> DEFINE S == [fxn : {"STAR", "YUVCONVERT", "CRCBS", "EENF"},
                 from : {None, "420P", "422ILE"}, to : {None, "420P", "422ILE"}]
           first == <<get_star_params>>
           mid == IF in_pix_fmt(format) = "420P" THEN <<>>
                  ELSE <<get_yuvc_params("422ILE", "420P")>>
           rest == <<get_crcbs_params, get_eenf_params, get_yuvc_params("420P", "422ILE")>>
           n == IF in_pix_fmt(format) = "420P" THEN 1 ELSE 2
<1>1. first \in Seq(S) /\ Len(first) = 1
  BY DEF get_star_params
<1>2. /\ mid \in Seq(S) /\ Len(mid) = n - 1
      /\ n = 2 => mid[1] = get_yuvc_params("422ILE", "420P")
  <2>1. CASE mid = <<>> /\ n = 1
    BY <2>1
  <2>2. CASE mid = <<get_yuvc_params("422ILE", "420P")>> /\ n = 2
    <3>1. get_yuvc_params("422ILE", "420P") \in S
      BY DEF get_yuvc_params
    <3> HIDE DEF S, mid, n
    <3>2. QED
      BY <2>2, <3>1
  <2>3. QED
    BY <2>1, <2>2
<1>3. /\ rest \in Seq(S) /\ Len(rest) = 3
      /\ rest[1] = get_crcbs_params /\ rest[2] = get_eenf_params
      /\ rest[3] = get_yuvc_params("420P", "422ILE")
  BY DEF get_crcbs_params, get_eenf_params, get_yuvc_params
<1>4. setup_ipp_params(format) = first \o mid \o rest
  BY DEF setup_ipp_params
<1>5. n \in {1, 2}
  OBVIOUS
<1> HIDE DEF S, first, mid, rest, n
<1>6. /\ first \o mid \in Seq(S) /\ Len(first \o mid) = n
      /\ n = 2 => (first \o mid)[2] = mid[1]
  <2>1. /\ first \o mid \in Seq(S) /\ Len(first \o mid) = Len(first) + Len(mid)
        /\ \A i \in 1..Len(mid) : (first \o mid)[Len(first) + i] = mid[i]
    <3>1. first \in Seq(S) /\ mid \in Seq(S)
      BY <1>1, <1>2
    <3>2. QED
      BY <3>1, Concatenation
  <2>2. QED
    BY <1>1, <1>2, <1>5, <2>1
<1> DEFINE front == first \o mid
           algos == front \o rest
<1>7. front \in Seq(S) /\ Len(front) = n /\ (n = 2 => front[2] = mid[1])
  BY <1>6
<1>8. setup_ipp_params(format) = algos
  BY <1>4
<1> HIDE DEF front
<1>9. /\ Len(algos) = Len(front) + Len(rest)
      /\ \A i \in 1..Len(front) : algos[i] = front[i]
      /\ \A i \in 1..Len(rest) : algos[Len(front) + i] = rest[i]
  <2>1. front \in Seq(S) /\ rest \in Seq(S)
    BY <1>3, <1>7
  <2>2. QED
    BY <2>1, Concatenation
<1> HIDE DEF algos
<1>10. /\ Len(algos) = n + 3
       /\ n = 2 => algos[2] = mid[1]
       /\ algos[n + 1] = rest[1] /\ algos[n + 2] = rest[2] /\ algos[n + 3] = rest[3]
  BY <1>3, <1>5, <1>7, <1>9
<1>11. QED
  BY <1>2, <1>3, <1>8, <1>10 DEF n

LEMMA ResultIsRight ==
  ASSUME conf \in Confs, ResultInv
  PROVE  ResultIsPushed
<1> DEFINE format == conf.format
           algos == setup_ipp_params(format)
<1>1. format \in {"UYVY", "I420"}
  BY IppAssumption
<1> HIDE DEF format
<1>2. CASE format = "UYVY"
  <2>0. in_pix_fmt(format) = "422ILE" /\ eenf_idx(format) = 3
    BY <1>2 DEF in_pix_fmt, eenf_idx
  <2>1. /\ Len(algos) = 5 /\ algos[2] = get_yuvc_params("422ILE", "420P")
        /\ algos[3] = get_crcbs_params /\ algos[4] = get_eenf_params
        /\ algos[5] = get_yuvc_params("420P", "422ILE")
    BY <2>0, Pipeline
  <2>2. /\ \A i \in 2..5 : algos[i].from = IF i = 2 THEN "422ILE" ELSE algos[i - 1].to
        /\ algos[5].to = "422ILE" /\ algos[4].fxn = "EENF"
    BY <2>1 DEF get_yuvc_params, get_crcbs_params, get_eenf_params
  <2>3. nr_algos(format) = 5
    BY <2>1 DEF nr_algos
  <2>4. prepare_filter_graph(format)[4] = 0 /\ ResultPort(format) = 0
    BY <2>3 DEF prepare_filter_graph, ResultPort
  <2>5. QED
    BY <2>0, <2>1, <2>2, <2>4 DEF ResultIsPushed, ResultInv, format
<1>3. CASE format = "I420"
  <2>0. in_pix_fmt(format) = "420P" /\ eenf_idx(format) = 2
    BY <1>3 DEF in_pix_fmt, eenf_idx
  <2>1. /\ Len(algos) = 4
        /\ algos[2] = get_crcbs_params /\ algos[3] = get_eenf_params
        /\ algos[4] = get_yuvc_params("420P", "422ILE")
    BY <2>0, Pipeline
  <2>2. /\ \A i \in 2..4 : algos[i].from = IF i = 2 THEN "420P" ELSE algos[i - 1].to
        /\ algos[4].to = "422ILE" /\ algos[3].fxn = "EENF"
    BY <2>1 DEF get_yuvc_params, get_crcbs_params, get_eenf_params
  <2>3. nr_algos(format) = 4
    BY <2>1 DEF nr_algos
  <2>4. prepare_filter_graph(format)[3] = 1 /\ ResultPort(format) = 1
    BY <2>3 DEF prepare_filter_graph, ResultPort
  <2>5. QED
    BY <2>0, <2>1, <2>2, <2>4 DEF ResultIsPushed, ResultInv, format
<1>4. QED
  BY <1>1, <1>2, <1>3

-----------------------------------------------------------------------------
(* The dummy element.                                                      *)

Driver(live, n) == [live |-> live, node |-> n, twice |-> {}]

OfProcessor == {<<"driver", "fd">>, <<"driver", "proc">>}
OfNode == {<<"node", "node">>}
          \cup (IF build.sm THEN {<<"node", "segment">>} ELSE {})
Notifications == {<<"notify", e>> : e \in Dummy!Events}
Ranges == {"reserve", "map"} \X {"in", "out"}

Lost == {<<"lost", r[2]>> : r \in OfNode}

Held ==
  (IF left THEN Lost ELSE {})
  \cup (IF state = "NULL" THEN {} ELSE OfProcessor)
  \cup (IF dnode /\ state # "NULL" THEN OfNode ELSE {})
  \cup (IF state = "PAUSED" THEN Notifications ELSE {})
  \cup (IF chain = "idle" THEN {} ELSE Ranges)

Buffer == [data : {"null", "own", "caller"}, own : BOOLEAN, reserve : BOOLEAN,
           map : BOOLEAN, copy : BOOLEAN]

DummyTypes ==
  /\ build \in Builds
  /\ state \in {"NULL", "READY", "PAUSED", "crashed"}
  /\ chain \in {"idle", "answer", "events"}
  /\ dnode \in BOOLEAN /\ error \in BOOLEAN /\ busy \in BOOLEAN /\ left \in BOOLEAN
  /\ faults \in 0..MaxFaults /\ starts \in 0..MaxStarts
  /\ bufs \in [{"in", "out"} -> Buffer]

(* As long as no call has failed the driver holds what the state of the    *)
(* element, of its node and of pad_chain say, and nothing else.            *)
HeldExactly ==
  /\ ~error
  /\ d = Driver(Held, d.node)
  /\ state = "PAUSED" => dnode
  /\ chain # "idle" => state = "PAUSED"
  /\ busy => chain = "answer"
  /\ \A n \in {"in", "out"} : /\ bufs[n].reserve <=> chain # "idle"
                              /\ bufs[n].map <=> chain # "idle"

DummyInv == DummyTypes /\ (faults = 0 => HeldExactly)

LEMMA DummyTypesKept ==
  ASSUME DummyTypes, Dummy!Next \/ UNCHANGED dvars
  PROVE  DummyTypes'
<1> USE DEF DummyTypes
<1>a. MaxFaults \in Nat /\ MaxStarts \in Nat
  BY ClientsAssumption
<1>f. ASSUME NEW f, Dummy!Fault(f)
      PROVE  faults' \in 0..MaxFaults
  BY <1>a, <1>f DEF Dummy!Fault
<1>1. CASE Dummy!Open
  <2> PICK f \in {Dummy!None, "open", "attach"} \cup Dummy!CreateFaults :
             Dummy!Fault(f) /\ Dummy!dsp_init(f)
    BY <1>1 DEF Dummy!Open
  <2>1. dnode' \in BOOLEAN
    BY DEF Dummy!dsp_init
  <2>2. QED
    BY <1>f, <2>1 DEF Dummy!dsp_init
<1>2. CASE Dummy!Start
  <2> PICK f \in {Dummy!None, "run"} \cup Dummy!Events :
             Dummy!Fault(f) /\ Dummy!_dsp_start(f)
    BY <1>2 DEF Dummy!Start
  <2>1. bufs' \in [{"in", "out"} -> Buffer]
    <3>1. Dummy!dmm_buffer_new \in Buffer
      BY DEF Dummy!dmm_buffer_new, Buffer
    <3>2. bufs' = bufs \/ bufs' = [n \in {"in", "out"} |-> Dummy!dmm_buffer_new]
      BY DEF Dummy!_dsp_start
    <3>3. QED
      BY <3>1, <3>2
  <2>2. state' \in {"READY", "PAUSED", "crashed"} /\ starts' \in 0..MaxStarts
    BY <1>a DEF Dummy!_dsp_start
  <2>3. QED
    BY <1>f, <2>1, <2>2 DEF Dummy!_dsp_start
<1>3. CASE Dummy!Stop
  <2> PICK f \in {Dummy!None, "terminate"} : Dummy!Fault(f) /\ Dummy!_dsp_stop(f)
    BY <1>3 DEF Dummy!Stop
  <2>1. QED
    BY <1>f DEF Dummy!_dsp_stop
<1>4. CASE Dummy!dsp_deinit
  BY <1>4 DEF Dummy!dsp_deinit
<1>5. CASE Dummy!pad_chain
  <2> PICK ain \in BOOLEAN, aout \in BOOLEAN, f \in {Dummy!None, "reserve", "map"},
           g \in {Dummy!None, "reserve", "map"} :
        /\ Dummy!Fault2(f, g)
        /\ LET in  == Dummy!dmm_buffer_map(d, Dummy!gstdsp_map_buffer(bufs["in"], ain), "in", f)
               out == Dummy!dmm_buffer_map(in.d, Dummy!gstdsp_map_buffer(bufs["out"], aout),
                                           "out", g)
           IN  /\ d' = out.d
               /\ bufs' = [bufs EXCEPT !["in"] = [in.b EXCEPT !.copy = FALSE],
                                       !["out"] = out.b]
    BY <1>5 DEF Dummy!pad_chain
  <2>1. bufs["in"] \in Buffer /\ bufs["out"] \in Buffer
    OBVIOUS
  <2>2. ASSUME NEW b \in Buffer, NEW aligned \in BOOLEAN
        PROVE  Dummy!gstdsp_map_buffer(b, aligned) \in Buffer
    BY <2>2 DEF Dummy!gstdsp_map_buffer, Dummy!dmm_buffer_use, Dummy!dmm_buffer_allocate, Buffer
  <2>3. ASSUME NEW b \in Buffer, NEW driver, NEW n, NEW h
        PROVE  Dummy!dmm_buffer_map(driver, b, n, h).b \in Buffer
    BY <2>3 DEF Dummy!dmm_buffer_map, Buffer
  <2>4. bufs' \in [{"in", "out"} -> Buffer]
    <3> DEFINE in == Dummy!dmm_buffer_map(d, Dummy!gstdsp_map_buffer(bufs["in"], ain), "in", f)
               out == Dummy!dmm_buffer_map(in.d, Dummy!gstdsp_map_buffer(bufs["out"], aout),
                                           "out", g)
    <3>1. in.b \in Buffer /\ out.b \in Buffer
      BY <2>1, <2>2, <2>3
    <3>2. bufs' = [bufs EXCEPT !["in"] = [in.b EXCEPT !.copy = FALSE], !["out"] = out.b]
      OBVIOUS
    <3> HIDE DEF in, out
    <3>3. [in.b EXCEPT !.copy = FALSE] \in Buffer
      BY <3>1 DEF Buffer
    <3>4. QED
      BY <3>1, <3>2, <3>3
  <2>5. faults' \in 0..MaxFaults
    BY <1>a, <1>f DEF Dummy!Fault2
  <2>6. QED
    BY <1>5, <2>4, <2>5 DEF Dummy!pad_chain
<1>6. CASE Dummy!Copied
  BY <1>6 DEF Dummy!Copied
<1>7. CASE Dummy!GetMessage
  BY <1>7, <1>f DEF Dummy!GetMessage
<1>8. CASE Dummy!check_events
  <2> DEFINE out == Dummy!dmm_buffer_unmap(d, bufs["out"], "out")
             in == Dummy!dmm_buffer_unmap(out.d, bufs["in"], "in")
  <2>1. bufs' = [bufs EXCEPT !["in"] = in.b, !["out"] = [out.b EXCEPT !.copy = FALSE]]
    BY <1>8 DEF Dummy!check_events
  <2>2. in.b \in Buffer /\ out.b \in Buffer
    BY DEF Dummy!dmm_buffer_unmap, Buffer
  <2> HIDE DEF in, out
  <2>3. [out.b EXCEPT !.copy = FALSE] \in Buffer
    BY <2>2 DEF Buffer
  <2>4. bufs' \in [{"in", "out"} -> Buffer]
    BY <2>1, <2>2, <2>3
  <2>5. PICK f \in {Dummy!None, "wait", "fault"} :
          Dummy!Fault(f) /\ error' = (error \/ f = "wait")
    BY <1>8 DEF Dummy!check_events
  <2>6. error' \in BOOLEAN
    BY <2>5
  <2>7. faults' \in 0..MaxFaults
    BY <1>f, <2>5
  <2>8. QED
    BY <1>8, <2>4, <2>6, <2>7 DEF Dummy!check_events
<1>9. CASE UNCHANGED dvars
  BY <1>9 DEF dvars
<1>10. QED
  BY <1>1, <1>2, <1>3, <1>4, <1>5, <1>6, <1>7, <1>8, <1>9 DEF Dummy!Next, Dummy!change_state

(* The calls of the bridge, on what a driver holds that has never been     *)
(* asked to release what it does not hold.                                 *)
LEMMA Acquiring ==
  ASSUME NEW live, NEW n, NEW r
  PROVE  Dummy!Acquire(Driver(live, n), r) = Driver(live \cup {r}, n)
  BY DEF Dummy!Acquire, Driver

LEMMA Releasing ==
  ASSUME NEW live, NEW n, NEW r \in live
  PROVE  Dummy!Release(Driver(live, n), r) = Driver(live \ {r}, n)
  BY DEF Dummy!Release, Driver

LEMMA AcquiringAll ==
  ASSUME NEW live, NEW n, NEW rs
  PROVE  Dummy!AcquireAll(Driver(live, n), rs) = Driver(live \cup rs, n)
<1>1. Dummy!AcquireAll(Driver(live, n), rs) = Driver(rs \cup live, n)
  BY DEF Dummy!AcquireAll, Driver
<1>2. rs \cup live = live \cup rs
  OBVIOUS
<1>3. QED
  BY <1>1, <1>2

LEMMA Forgetting ==
  ASSUME NEW live, NEW n, NEW rs
  PROVE  Dummy!Forget(Driver(live, n), rs) = Driver(live \ rs, n)
  BY DEF Dummy!Forget, Driver

LEMMA Losing ==
  ASSUME NEW live, NEW n
  PROVE  Dummy!Lose(Driver(live, n))
           = Driver((live \ Dummy!NodeStuff)
                    \cup {r \in Dummy!LostStuff : <<"node", r[2]>> \in live}, n)
<1> DEFINE after(l) == (l \ Dummy!NodeStuff)
                       \cup {r \in Dummy!LostStuff : <<"node", r[2]>> \in l}
           before == Driver(live, n)
<1>1. Dummy!Lose(before) = [before EXCEPT !.live = after(before.live)]
  BY DEF Dummy!Lose
<1>2. before.live = live
  BY DEF Driver
<1> HIDE DEF after
<1>3. [before EXCEPT !.live = after(live)] = Driver(after(live), n)
  BY DEF Driver
<1>4. Dummy!Lose(before) = Driver(after(live), n)
  BY <1>1, <1>2, <1>3
<1>5. QED
  BY <1>4 DEF after

LEMMA Staging ==
  ASSUME NEW live, NEW n, NEW stage
  PROVE  Dummy!AtStage(Driver(live, n), stage) = Driver(live, stage)
  BY DEF Dummy!AtStage, Driver

LEMMA Making ==
  ASSUME NEW live, NEW n, d = Driver(live, n), build \in [heap : BOOLEAN, sm : BOOLEAN]
  PROVE  /\ Dummy!create_node("none").ok
         /\ Dummy!create_node("none").d = Driver(live \cup OfNode, "created")
<1> DEFINE alloc == Dummy!AtStage(Dummy!Acquire(d, <<"node", "node">>), "allocated")
           segs == Dummy!allocate_segments(alloc, "none")
           made == Dummy!dsp_node_allocate(d, build, FALSE, "none")
<1>1. alloc = Driver(live \cup {<<"node", "node">>}, "allocated")
  BY Acquiring, Staging
<1>2. segs = [ok |-> TRUE, d |-> Dummy!Acquire(alloc, <<"node", "segment">>)]
  <2> HIDE DEF alloc
  <2>1. QED
    BY DEF Dummy!allocate_segments
<1>3. made = [ok |-> TRUE, d |-> IF build.sm THEN segs.d ELSE alloc]
  <2>1. segs.ok
    <3> HIDE DEF segs, alloc
    <3>1. QED
      BY <1>2
  <2>2. Dummy!AcquireIf(build.heap /\ FALSE, d, <<"node", "heap">>) = d
    BY DEF Dummy!AcquireIf
  <2>3. QED
    BY <2>1, <2>2 DEF Dummy!dsp_node_allocate
<1>4. Dummy!create_node("none")
        = IF made.ok THEN [ok |-> TRUE, d |-> Dummy!dsp_node_create(made.d)] ELSE made
  BY DEF Dummy!create_node
<1> HIDE DEF made, segs, alloc
<1>5. segs.d = Driver(live \cup {<<"node", "node">>} \cup {<<"node", "segment">>},
                      "allocated")
  BY <1>1, <1>2, Acquiring
<1>6. made.d = Driver(live \cup OfNode, "allocated")
  <2>1. CASE build.sm
    <3>1. live \cup OfNode = live \cup {<<"node", "node">>} \cup {<<"node", "segment">>}
      BY <2>1 DEF OfNode
    <3>2. QED
      BY <1>3, <1>5, <2>1, <3>1
  <2>2. CASE ~build.sm
    <3>1. live \cup OfNode = live \cup {<<"node", "node">>}
      BY <2>2 DEF OfNode
    <3>2. QED
      BY <1>1, <1>3, <2>2, <3>1
  <2>3. QED
    BY <2>1, <2>2
<1>7. made.ok
  BY <1>3
<1>8. Dummy!dsp_node_create(made.d) = Driver(live \cup OfNode, "created")
  BY <1>6, Staging DEF Dummy!dsp_node_create
<1>9. QED
  BY <1>4, <1>7, <1>8

LEMMA Freeing ==
  ASSUME NEW live, NEW n, <<"node", "node">> \in live
  PROVE  Dummy!dsp_node_free(Driver(live, n))
           = Driver(live \ (Dummy!NodeStuff \cup Notifications), "none")
<1>1. Dummy!dsp_node_delete(Driver(live, n)) = Driver(live \ {<<"node", "node">>}, "none")
  BY Releasing, Staging DEF Dummy!dsp_node_delete
<1>2. (live \ {<<"node", "node">>}) \ (Dummy!NodeStuff \cup Notifications)
        = live \ (Dummy!NodeStuff \cup Notifications)
  BY DEF Dummy!NodeStuff
<1>3. QED
  BY <1>1, <1>2, Forgetting DEF Dummy!dsp_node_free, Notifications

LEMMA Dropping ==
  ASSUME NEW live, NEW n, NEW b, b.map, b.reserve, NEW name,
         <<"reserve", name>> \in live, <<"map", name>> \in live
  PROVE  Dummy!Drop(Driver(live, n), b, name)
           = Driver(live \ {<<"reserve", name>>, <<"map", name>>}, n)
<1>1. Dummy!dsp_unmap(Driver(live, n), name) = Driver(live \ {<<"map", name>>}, n)
  BY Releasing DEF Dummy!dsp_unmap
<1>2. <<"reserve", name>> \in live \ {<<"map", name>>}
  OBVIOUS
<1>3. Dummy!dsp_unreserve(Driver(live \ {<<"map", name>>}, n), name)
        = Driver((live \ {<<"map", name>>}) \ {<<"reserve", name>>}, n)
  BY <1>2, Releasing DEF Dummy!dsp_unreserve
<1>4. (live \ {<<"map", name>>}) \ {<<"reserve", name>>}
        = live \ {<<"reserve", name>>, <<"map", name>>}
  OBVIOUS
<1>5. QED
  BY <1>1, <1>3, <1>4 DEF Dummy!Drop

LEMMA Mapping ==
  ASSUME NEW live, NEW n, NEW b \in Buffer, ~b.map, ~b.reserve, NEW name
  PROVE  Dummy!dmm_buffer_map(Driver(live, n), b, name, "none")
           = [d |-> Driver(live \cup {<<"reserve", name>>, <<"map", name>>}, n),
              b |-> [b EXCEPT !.reserve = TRUE, !.map = TRUE]]
<1>1. Dummy!dsp_map(Dummy!dsp_reserve(Driver(live, n), name), name)
        = Driver(live \cup {<<"reserve", name>>, <<"map", name>>}, n)
  <2>1. live \cup {<<"reserve", name>>} \cup {<<"map", name>>}
          = live \cup {<<"reserve", name>>, <<"map", name>>}
    OBVIOUS
  <2>2. Dummy!dsp_reserve(Driver(live, n), name) = Driver(live \cup {<<"reserve", name>>}, n)
    BY Acquiring DEF Dummy!dsp_reserve
  <2>3. Dummy!dsp_map(Driver(live \cup {<<"reserve", name>>}, n), name)
          = Driver(live \cup {<<"reserve", name>>} \cup {<<"map", name>>}, n)
    BY Acquiring DEF Dummy!dsp_map
  <2>4. QED
    BY <2>1, <2>2, <2>3
<1>2. Dummy!Drop(Driver(live, n), b, name) = Driver(live, n)
  BY DEF Dummy!Drop
<1>3. QED
  BY <1>1, <1>2 DEF Dummy!dmm_buffer_map, Buffer

LEMMA NoFault ==
  ASSUME DummyTypes, NEW f, Dummy!Fault(f), faults' = 0
  PROVE  f = "none" /\ faults = 0
<1>1. MaxFaults \in Nat /\ faults \in 0..MaxFaults
  BY ClientsAssumption DEF DummyTypes
<1>2. QED
  BY <1>1 DEF Dummy!Fault, Dummy!None

(* Opening and closing, starting and stopping.                             *)
LEMMA StatesKeepHeld ==
  ASSUME DummyInv, Dummy!change_state, faults' = 0
  PROVE  HeldExactly'
<1> USE DEF DummyInv
<1>0. build \in [heap : BOOLEAN, sm : BOOLEAN]
  BY ClientsAssumption DEF DummyTypes
<1>1. CASE Dummy!Open
  <2> PICK f : Dummy!Fault(f) /\ Dummy!dsp_init(f)
    BY <1>1 DEF Dummy!Open
  <2>0. f = "none" /\ HeldExactly
    BY NoFault
  <2>1. /\ d' = Dummy!dsp_attach(Dummy!dsp_open(Dummy!create_node("none").d, TRUE), TRUE)
        /\ dnode' = TRUE /\ state = "NULL" /\ state' = "READY"
        /\ UNCHANGED <<build, bufs, error, chain, busy, left>>
    <3>1. Dummy!create_node("none").ok
      BY <1>0, <2>0, Making DEF HeldExactly
    <3>2. d' = CASE f = "open" -> d
                 [] f = "attach" -> d
                 [] OTHER -> IF Dummy!create_node(f).ok
                               THEN Dummy!dsp_attach(Dummy!dsp_open(Dummy!create_node(f).d, TRUE), TRUE)
                               ELSE Dummy!create_node(f).d
      BY DEF Dummy!dsp_init
    <3>3. d' = Dummy!dsp_attach(Dummy!dsp_open(Dummy!create_node("none").d, TRUE), TRUE)
      BY <2>0, <3>1, <3>2
    <3>4. QED
      BY <2>0, <3>3 DEF Dummy!dsp_init, Dummy!None
  <2>2. Dummy!create_node("none").d = Driver(Held \cup OfNode, "created")
    BY <1>0, <2>0, Making DEF HeldExactly
  <2>3. d' = Driver(Held \cup OfNode \cup {<<"driver", "fd">>} \cup {<<"driver", "proc">>},
                    "created")
    <3>1. Dummy!dsp_open(Dummy!create_node("none").d, TRUE)
            = Driver(Held \cup OfNode \cup {<<"driver", "fd">>}, "created")
      BY <2>2, Acquiring DEF Dummy!dsp_open, Dummy!AcquireIf
    <3>2. Dummy!dsp_attach(Driver(Held \cup OfNode \cup {<<"driver", "fd">>}, "created"), TRUE)
            = Driver(Held \cup OfNode \cup {<<"driver", "fd">>} \cup {<<"driver", "proc">>},
                     "created")
      BY Acquiring DEF Dummy!dsp_attach, Dummy!AcquireIf
    <3>3. QED
      BY <2>1, <3>1, <3>2
  <2>4. chain = "idle"
    BY <2>0, <2>1 DEF HeldExactly
  <2>5. Held' = Held \cup OfNode \cup {<<"driver", "fd">>} \cup {<<"driver", "proc">>}
    <3>1. Held = IF left THEN Lost ELSE {}
      BY <2>1, <2>4 DEF Held
    <3>2. OfNode' = OfNode /\ Lost' = Lost
      BY <2>1 DEF OfNode, Lost
    <3>3. Held' = (IF left THEN Lost ELSE {}) \cup OfProcessor \cup OfNode
      BY <2>1, <2>4, <3>2 DEF Held
    <3>4. QED
      BY <3>1, <3>3 DEF OfProcessor
  <2>6. d' = Driver(Held', "created") /\ d'.node = "created"
    BY <2>3, <2>5 DEF Driver
  <2>7. QED
    BY <2>0, <2>1, <2>6 DEF HeldExactly
<1>2. CASE Dummy!Start
  <2> PICK f : Dummy!Fault(f) /\ Dummy!_dsp_start(f)
    BY <1>2 DEF Dummy!Start
  <2>0. f = "none" /\ HeldExactly /\ state = "READY"
    BY NoFault DEF Dummy!_dsp_start
  <2>a. chain = "idle" /\ UNCHANGED <<build, dnode, error, chain, busy, left>>
    BY <2>0 DEF HeldExactly, Dummy!_dsp_start
  <2>1. CASE ~dnode
    <3>1. state' = "crashed" /\ UNCHANGED <<d, bufs>>
      BY <2>1 DEF Dummy!_dsp_start
    <3>2. Held' = Held
      BY <2>0, <2>a, <3>1 DEF Held, OfNode, Lost
    <3>3. QED
      BY <2>0, <2>a, <3>1, <3>2 DEF HeldExactly
  <2>2. CASE dnode
    <3>1. /\ state' = "PAUSED"
          /\ bufs' = [n \in {"in", "out"} |-> Dummy!dmm_buffer_new]
          /\ d' = Dummy!AcquireAll(Dummy!dsp_node_run(d), Notifications)
      BY <2>0, <2>2 DEF Dummy!_dsp_start, Dummy!None, Notifications
    <3>2. d' = Driver(Held \cup Notifications, "running")
      <4>1. Dummy!dsp_node_run(d) = Driver(Held, "running")
        BY <2>0, Staging DEF Dummy!dsp_node_run, HeldExactly
      <4>2. QED
        BY <3>1, <4>1, AcquiringAll
    <3>3. Held' = Held \cup Notifications
      <4>1. Held = (IF left THEN Lost ELSE {}) \cup OfProcessor
                     \cup (IF dnode THEN OfNode ELSE {})
        BY <2>0, <2>a DEF Held
      <4>2. OfNode' = OfNode /\ Lost' = Lost
        BY <2>a DEF OfNode, Lost
      <4>3. Held' = (IF left THEN Lost ELSE {}) \cup OfProcessor
                      \cup (IF dnode THEN OfNode ELSE {}) \cup Notifications
        BY <2>a, <3>1, <4>2 DEF Held
      <4>4. QED
        BY <4>1, <4>3
    <3>4. d' = Driver(Held', "running") /\ d'.node = "running"
      BY <3>2, <3>3 DEF Driver
    <3>5. \A n \in {"in", "out"} : ~bufs'[n].reserve /\ ~bufs'[n].map
      BY <3>1 DEF Dummy!dmm_buffer_new
    <3>6. QED
      BY <2>0, <2>a, <2>2, <3>1, <3>4, <3>5 DEF HeldExactly
  <2>3. QED
    BY <2>1, <2>2 DEF DummyTypes
<1>3. CASE Dummy!Stop
  <2> PICK f : Dummy!Fault(f) /\ Dummy!_dsp_stop(f)
    BY <1>3 DEF Dummy!Stop
  <2>0. f = "none" /\ HeldExactly /\ state = "PAUSED" /\ chain = "idle"
    BY NoFault DEF Dummy!_dsp_stop
  <2>1. /\ dnode' = FALSE /\ state' = "READY" /\ busy' = FALSE
        /\ UNCHANGED <<build, bufs, error, chain, left>>
    BY DEF Dummy!_dsp_stop
  <2>2. dnode /\ ~error
    BY <2>0 DEF HeldExactly
  <2>3. /\ Dummy!dmm_buffer_free(d, bufs["out"], "out") = d
        /\ Dummy!dmm_buffer_free(d, bufs["in"], "in") = d
    <3>1. \A n \in {"in", "out"} : ~bufs[n].map /\ ~bufs[n].reserve
      BY <2>0 DEF HeldExactly
    <3>2. QED
      BY <3>1 DEF Dummy!dmm_buffer_free, Dummy!Drop
  <2>4. d' = Dummy!dsp_node_free(Dummy!dsp_node_terminate(d))
    BY <2>0, <2>2, <2>3 DEF Dummy!_dsp_stop, Dummy!destroy_node
  <2>5. Held = (IF left THEN Lost ELSE {}) \cup OfProcessor \cup OfNode \cup Notifications
    BY <2>0, <2>2 DEF Held
  <2>6. d' = Driver(Held \ (Dummy!NodeStuff \cup Notifications), "none")
    <3>1. Dummy!dsp_node_terminate(d) = Driver(Held, "terminated")
      BY <2>0, Staging DEF Dummy!dsp_node_terminate, HeldExactly
    <3>2. <<"node", "node">> \in Held
      BY <2>5 DEF OfNode
    <3>3. QED
      BY <2>4, <3>1, <3>2, Freeing
  <2>7. Held' = (IF left THEN Lost ELSE {}) \cup OfProcessor
    BY <2>0, <2>1 DEF Held, Lost, OfNode
  <2>8. Held \ (Dummy!NodeStuff \cup Notifications)
          = (IF left THEN Lost ELSE {}) \cup OfProcessor
    <3>1. OfNode \subseteq Dummy!NodeStuff
      BY DEF OfNode, Dummy!NodeStuff
    <3>2. OfProcessor \cap (Dummy!NodeStuff \cup Notifications) = {}
      BY DEF OfProcessor, Dummy!NodeStuff, Notifications
    <3>3. Lost \cap (Dummy!NodeStuff \cup Notifications) = {}
      BY DEF Lost, Dummy!NodeStuff, Notifications
    <3>4. QED
      BY <2>5, <3>1, <3>2, <3>3
  <2>9. d' = Driver(Held', "none") /\ d'.node = "none"
    BY <2>6, <2>7, <2>8 DEF Driver
  <2>10. QED
    BY <2>0, <2>1, <2>9 DEF HeldExactly
<1>4. CASE Dummy!dsp_deinit
  <2>0. /\ HeldExactly /\ state = "READY" /\ state' = "NULL" /\ left' = (left \/ dnode)
        /\ UNCHANGED <<build, dnode, bufs, error, chain, busy>>
    BY <1>4 DEF Dummy!dsp_deinit
  <2>1. chain = "idle" /\ ~error
    BY <2>0 DEF HeldExactly
  <2> DEFINE kept == IF dnode THEN Dummy!Lose(d) ELSE d
             before == IF left THEN Lost ELSE {}
             after == IF left' THEN Lost ELSE {}
  <2>2. d' = Dummy!dsp_close(Dummy!dsp_detach(kept))
    BY <1>4, <2>1 DEF Dummy!dsp_deinit
  <2>3. Held = before \cup OfProcessor \cup (IF dnode THEN OfNode ELSE {})
    BY <2>0, <2>1 DEF Held
  <2>4. kept = Driver(after \cup OfProcessor, d.node)
    <3>1. d = Driver(Held, d.node)
      BY <2>0 DEF HeldExactly
    <3>2. CASE ~dnode
      <4>1. (left' <=> left) /\ kept = d
        BY <2>0, <3>2
      <4>2. QED
        BY <2>3, <3>1, <3>2, <4>1
    <3>3. CASE dnode
      <4>1. kept = Driver((Held \ Dummy!NodeStuff)
                          \cup {r \in Dummy!LostStuff : <<"node", r[2]>> \in Held}, d.node)
        BY <3>1, <3>3, Losing
      <4>2. Held \ Dummy!NodeStuff = before \cup OfProcessor
        <5>1. OfNode \subseteq Dummy!NodeStuff
          BY DEF OfNode, Dummy!NodeStuff
        <5>2. OfProcessor \cap Dummy!NodeStuff = {} /\ Lost \cap Dummy!NodeStuff = {}
          BY DEF OfProcessor, Dummy!NodeStuff, Lost
        <5>3. QED
          BY <2>3, <5>1, <5>2
      <4>3. {r \in Dummy!LostStuff : <<"node", r[2]>> \in Held} = Lost
        <5>1. \A x : <<"node", x>> \in Held <=> <<"node", x>> \in OfNode
          BY <2>3, <3>3 DEF OfProcessor, Lost
        <5>2. QED
          BY <5>1 DEF Lost, OfNode, Dummy!LostStuff, Dummy!NodeStuff
      <4>4. after = Lost
        BY <2>0, <3>3
      <4>5. (before \cup OfProcessor) \cup Lost = Lost \cup OfProcessor
        OBVIOUS
      <4>6. QED
        BY <4>1, <4>2, <4>3, <4>4, <4>5
    <3>4. QED
      BY <3>2, <3>3 DEF DummyTypes
  <2> HIDE DEF kept
  <2>5. d' = Driver(((after \cup OfProcessor) \ {<<"driver", "proc">>}) \ {<<"driver", "fd">>},
                    d.node)
    <3>1. <<"driver", "proc">> \in after \cup OfProcessor
      BY DEF OfProcessor
    <3>2. <<"driver", "fd">> \in (after \cup OfProcessor) \ {<<"driver", "proc">>}
      BY DEF OfProcessor
    <3>3. Dummy!dsp_detach(kept)
            = Driver((after \cup OfProcessor) \ {<<"driver", "proc">>}, d.node)
      BY <2>4, <3>1, Releasing DEF Dummy!dsp_detach
    <3>4. QED
      BY <2>2, <3>2, <3>3, Releasing DEF Dummy!dsp_close
  <2>6. Held' = ((after \cup OfProcessor) \ {<<"driver", "proc">>}) \ {<<"driver", "fd">>}
    <3>1. Lost' = Lost
      BY <2>0 DEF Lost, OfNode
    <3>2. Held' = after
      BY <2>0, <2>1, <3>1 DEF Held
    <3>3. <<"driver", "proc">> \notin after /\ <<"driver", "fd">> \notin after
      BY DEF Lost
    <3>4. QED
      BY <3>2, <3>3 DEF OfProcessor
  <2>7. d' = Driver(Held', d'.node)
    BY <2>5, <2>6 DEF Driver
  <2>8. QED
    BY <2>0, <2>1, <2>7 DEF HeldExactly
<1>5. QED
  BY <1>1, <1>2, <1>3, <1>4 DEF Dummy!change_state

(* A frame: both buffers are mapped, the DSP copies, the events are looked *)
(* at and both buffers are unmapped.                                       *)
LEMMA MapKeepsHeld ==
  ASSUME DummyInv, Dummy!pad_chain, faults' = 0
  PROVE  HeldExactly'
<1> USE DEF DummyInv
<1> PICK ain \in BOOLEAN, aout \in BOOLEAN, f \in {Dummy!None, "reserve", "map"},
         g \in {Dummy!None, "reserve", "map"} :
      /\ Dummy!Fault2(f, g)
      /\ LET in  == Dummy!dmm_buffer_map(d, Dummy!gstdsp_map_buffer(bufs["in"], ain), "in", f)
             out == Dummy!dmm_buffer_map(in.d, Dummy!gstdsp_map_buffer(bufs["out"], aout),
                                         "out", g)
         IN  /\ d' = out.d
             /\ bufs' = [bufs EXCEPT !["in"] = [in.b EXCEPT !.copy = FALSE],
                                     !["out"] = out.b]
  BY DEF Dummy!pad_chain
<1>0. f = "none" /\ g = "none" /\ HeldExactly /\ state = "PAUSED" /\ chain = "idle"
  <2>1. f = "none" \/ g = "none"
    <3>1. faults \in Nat /\ (faults + 2 # 0)
      BY ClientsAssumption DEF DummyTypes
    <3>2. QED
      BY <3>1 DEF Dummy!Fault2, Dummy!None
  <2>2. (Dummy!Fault(f) /\ g = "none") \/ (Dummy!Fault(g) /\ f = "none")
    BY <2>1 DEF Dummy!Fault2, Dummy!None
  <2>3. f = "none" /\ g = "none" /\ faults = 0
    BY <2>2, NoFault
  <2>4. QED
    BY <2>3 DEF Dummy!pad_chain
<1>1. /\ busy' = TRUE /\ chain' = "answer"
      /\ UNCHANGED <<build, state, dnode, error, left>>
  BY DEF Dummy!pad_chain
<1>2. ASSUME NEW n \in {"in", "out"}, NEW aligned \in BOOLEAN
      PROVE  LET b == Dummy!gstdsp_map_buffer(bufs[n], aligned)
             IN  b \in Buffer /\ ~b.map /\ ~b.reserve
  <2>1. bufs[n] \in Buffer /\ ~bufs[n].map /\ ~bufs[n].reserve
    BY <1>0 DEF HeldExactly, DummyTypes
  <2>2. QED
    BY <2>1 DEF Dummy!gstdsp_map_buffer, Dummy!dmm_buffer_use, Dummy!dmm_buffer_allocate, Buffer
<1> DEFINE bin == Dummy!gstdsp_map_buffer(bufs["in"], ain)
           bout == Dummy!gstdsp_map_buffer(bufs["out"], aout)
           in == Dummy!dmm_buffer_map(d, bin, "in", f)
           out == Dummy!dmm_buffer_map(in.d, bout, "out", g)
<1>3. d' = out.d /\ bufs' = [bufs EXCEPT !["in"] = [in.b EXCEPT !.copy = FALSE], !["out"] = out.b]
  OBVIOUS
<1>4. bin \in Buffer /\ ~bin.map /\ ~bin.reserve /\ bout \in Buffer /\ ~bout.map /\ ~bout.reserve
  BY <1>2
<1> HIDE DEF bin, bout
<1>b. Dummy!dmm_buffer_map(Driver(Held, d.node), bin, "in", "none")
        = [d |-> Driver(Held \cup {<<"reserve", "in">>, <<"map", "in">>}, d.node),
           b |-> [bin EXCEPT !.reserve = TRUE, !.map = TRUE]]
  BY <1>4, Mapping
<1>5. in = [d |-> Driver(Held \cup {<<"reserve", "in">>, <<"map", "in">>}, d.node),
            b |-> [bin EXCEPT !.reserve = TRUE, !.map = TRUE]]
  BY <1>0, <1>b DEF HeldExactly
<1> HIDE DEF in
<1>6. in.d = Driver(Held \cup {<<"reserve", "in">>, <<"map", "in">>}, d.node)
  BY <1>5
<1> DEFINE mapped == Held \cup {<<"reserve", "in">>, <<"map", "in">>}
<1> HIDE DEF mapped
<1>c. Dummy!dmm_buffer_map(Driver(mapped, d.node), bout, "out", "none")
        = [d |-> Driver(mapped \cup {<<"reserve", "out">>, <<"map", "out">>}, d.node),
           b |-> [bout EXCEPT !.reserve = TRUE, !.map = TRUE]]
  BY <1>4, Mapping
<1>7. out = [d |-> Driver(Held \cup {<<"reserve", "in">>, <<"map", "in">>}
                               \cup {<<"reserve", "out">>, <<"map", "out">>}, d.node),
             b |-> [bout EXCEPT !.reserve = TRUE, !.map = TRUE]]
  BY <1>0, <1>6, <1>c DEF mapped
<1> HIDE DEF out
<1>8. Held' = Held \cup {<<"reserve", "in">>, <<"map", "in">>}
                   \cup {<<"reserve", "out">>, <<"map", "out">>}
  <2> DEFINE lost == IF left THEN Lost ELSE {}
  <2>1. dnode /\ Held = lost \cup OfProcessor \cup OfNode \cup Notifications
    BY <1>0 DEF Held, HeldExactly
  <2>2. OfNode' = OfNode /\ Lost' = Lost
    BY <1>1 DEF OfNode, Lost
  <2>3. Held' = lost \cup OfProcessor \cup OfNode \cup Notifications \cup Ranges
    BY <1>0, <1>1, <2>1, <2>2 DEF Held
  <2>4. Ranges = {<<"reserve", "in">>, <<"map", "in">>, <<"reserve", "out">>, <<"map", "out">>}
    BY DEF Ranges
  <2>5. QED
    BY <2>1, <2>3, <2>4
<1>9. d' = Driver(Held', d.node) /\ d'.node = d.node
  <2>1. d' = Driver(Held', d.node)
    BY <1>3, <1>7, <1>8
  <2>2. QED
    BY <2>1 DEF Driver
<1>10. \A n \in {"in", "out"} : bufs'[n].reserve /\ bufs'[n].map
  <2>1. /\ [in.b EXCEPT !.copy = FALSE].reserve /\ [in.b EXCEPT !.copy = FALSE].map
        /\ out.b.reserve /\ out.b.map
    BY <1>4, <1>5, <1>7 DEF Buffer
  <2>2. bufs'["in"] = [in.b EXCEPT !.copy = FALSE] /\ bufs'["out"] = out.b
    BY <1>3 DEF DummyTypes
  <2>3. QED
    BY <2>1, <2>2
<1>11. QED
  BY <1>0, <1>1, <1>9, <1>10 DEF HeldExactly

LEMMA UnmapKeepsHeld ==
  ASSUME DummyInv, Dummy!check_events, faults' = 0
  PROVE  HeldExactly'
<1> USE DEF DummyInv
<1>a. PICK f \in {Dummy!None, "wait", "fault"} :
        Dummy!Fault(f) /\ error' = (error \/ f = "wait")
  BY DEF Dummy!check_events
<1>0. f = "none" /\ HeldExactly /\ chain = "events"
  BY <1>a, NoFault DEF Dummy!check_events
<1>1. /\ chain' = "idle" /\ ~error' /\ ~busy' /\ state = "PAUSED"
      /\ UNCHANGED <<build, state, dnode, busy, left>>
  BY <1>a, <1>0 DEF Dummy!check_events, HeldExactly
<1>2. /\ bufs["in"] \in Buffer /\ bufs["in"].map /\ bufs["in"].reserve
      /\ bufs["out"] \in Buffer /\ bufs["out"].map /\ bufs["out"].reserve
  BY <1>0 DEF HeldExactly, DummyTypes
<1>3. dnode /\ Held = (IF left THEN Lost ELSE {}) \cup OfProcessor \cup OfNode
                       \cup Notifications \cup Ranges
  BY <1>0, <1>1 DEF Held, HeldExactly
<1>4. Ranges = {<<"reserve", "in">>, <<"map", "in">>, <<"reserve", "out">>, <<"map", "out">>}
  BY DEF Ranges
<1> DEFINE out == Dummy!dmm_buffer_unmap(d, bufs["out"], "out")
           in == Dummy!dmm_buffer_unmap(out.d, bufs["in"], "in")
           rest == Held \ {<<"reserve", "out">>, <<"map", "out">>}
<1>5. d' = in.d /\ bufs' = [bufs EXCEPT !["in"] = in.b, !["out"] = [out.b EXCEPT !.copy = FALSE]]
  BY DEF Dummy!check_events
<1>6. out.d = Driver(rest, d.node) /\ out.b = [bufs["out"] EXCEPT !.reserve = FALSE, !.map = FALSE]
  <2>1. Dummy!Drop(Driver(Held, d.node), bufs["out"], "out") = Driver(rest, d.node)
    <3>1. <<"reserve", "out">> \in Held /\ <<"map", "out">> \in Held
      BY <1>3, <1>4
    <3>2. QED
      BY <1>2, <3>1, Dropping
  <2>2. QED
    BY <1>0, <2>1 DEF Dummy!dmm_buffer_unmap, HeldExactly
<1> HIDE DEF out
<1>7. /\ in.d = Driver(rest \ {<<"reserve", "in">>, <<"map", "in">>}, d.node)
      /\ in.b = [bufs["in"] EXCEPT !.reserve = FALSE, !.map = FALSE]
  <2>1. <<"reserve", "in">> \in rest /\ <<"map", "in">> \in rest
    BY <1>3, <1>4
  <2> HIDE DEF rest
  <2>2. Dummy!Drop(Driver(rest, d.node), bufs["in"], "in")
          = Driver(rest \ {<<"reserve", "in">>, <<"map", "in">>}, d.node)
    BY <1>2, <2>1, Dropping
  <2>3. QED
    BY <1>6, <2>2 DEF Dummy!dmm_buffer_unmap
<1> HIDE DEF in
<1>8. Held' = rest \ {<<"reserve", "in">>, <<"map", "in">>}
  <2> DEFINE lost == IF left THEN Lost ELSE {}
  <2>1. OfNode' = OfNode /\ Lost' = Lost
    BY <1>1 DEF OfNode, Lost
  <2>2. Held' = lost \cup OfProcessor \cup OfNode \cup Notifications
    BY <1>1, <1>3, <2>1 DEF Held
  <2>3. rest \ {<<"reserve", "in">>, <<"map", "in">>} = Held \ Ranges
    BY <1>4
  <2>4. (lost \cup OfProcessor \cup OfNode \cup Notifications) \cap Ranges = {}
    BY <1>4 DEF OfProcessor, OfNode, Notifications, Lost
  <2> HIDE DEF rest
  <2>5. QED
    BY <1>3, <2>2, <2>3, <2>4
<1> HIDE DEF rest
<1>9. d' = Driver(Held', d.node) /\ d'.node = d.node
  BY <1>5, <1>7, <1>8 DEF Driver
<1>10. \A n \in {"in", "out"} : ~bufs'[n].reserve /\ ~bufs'[n].map
  <2>1. /\ ~[out.b EXCEPT !.copy = FALSE].reserve /\ ~[out.b EXCEPT !.copy = FALSE].map
        /\ ~in.b.reserve /\ ~in.b.map
    BY <1>2, <1>6, <1>7 DEF Buffer
  <2>2. bufs'["in"] = in.b /\ bufs'["out"] = [out.b EXCEPT !.copy = FALSE]
    BY <1>5 DEF DummyTypes
  <2>3. QED
    BY <2>1, <2>2
<1>11. QED
  BY <1>0, <1>1, <1>9, <1>10 DEF HeldExactly

LEMMA DummyInvKept ==
  ASSUME DummyInv, Dummy!Next \/ UNCHANGED dvars
  PROVE  DummyInv'
<1>1. ASSUME faults' = 0  PROVE HeldExactly'
  <2>1. CASE Dummy!Copied \/ Dummy!GetMessage \/ UNCHANGED dvars
    <3>1. faults = 0
      <4>1. CASE Dummy!GetMessage
        <5> PICK f \in {Dummy!None, "get"} : Dummy!Fault(f) /\ (f = Dummy!None => ~busy)
          BY <4>1 DEF Dummy!GetMessage
        <5> QED
          BY <1>1, NoFault DEF DummyInv
      <4>2. CASE Dummy!Copied \/ UNCHANGED dvars
        BY <1>1, <4>2 DEF Dummy!Copied, dvars
      <4>3. QED
        BY <2>1, <4>1, <4>2
    <3>2. HeldExactly
      BY <3>1 DEF DummyInv
    <3>3. /\ UNCHANGED <<build, state, d, dnode, bufs, error, left>>
          /\ chain' = "idle" <=> chain = "idle"
          /\ busy' => busy /\ chain' = chain
      <4>1. CASE Dummy!GetMessage
        <5>1. PICK f \in {Dummy!None, "get"} : Dummy!Fault(f) /\ (f = Dummy!None => ~busy)
          BY <4>1 DEF Dummy!GetMessage
        <5>2. f = Dummy!None
          BY <1>1, <5>1, NoFault DEF DummyInv, Dummy!None
        <5>3. ~busy
          BY <5>1, <5>2
        <5>4. QED
          BY <4>1, <5>3 DEF Dummy!GetMessage
      <4>2. CASE Dummy!Copied
        BY <4>2 DEF Dummy!Copied
      <4>3. CASE UNCHANGED dvars
        BY <4>3 DEF dvars
      <4>4. QED
        BY <2>1, <4>1, <4>2, <4>3
    <3>4. Held' = Held
      BY <3>3 DEF Held, OfNode, Lost
    <3>5. QED
      BY <3>2, <3>3, <3>4 DEF HeldExactly
  <2>2. CASE Dummy!change_state
    BY <1>1, <2>2, StatesKeepHeld
  <2>3. CASE Dummy!pad_chain
    BY <1>1, <2>3, MapKeepsHeld
  <2>4. CASE Dummy!check_events
    BY <1>1, <2>4, UnmapKeepsHeld
  <2>5. QED
    BY <2>1, <2>2, <2>3, <2>4 DEF Dummy!Next
<1>2. QED
  BY <1>1, DummyTypesKept DEF DummyInv

LEMMA DummyInvInit ==
  ASSUME Dummy!Init
  PROVE  DummyInv
<1> USE DEF Dummy!Init
<1>0. MaxFaults \in Nat /\ MaxStarts \in Nat
  BY ClientsAssumption
<1>1. DummyTypes
  <2>0. faults \in 0..MaxFaults /\ starts \in 0..MaxStarts
    BY <1>0
  <2>1. Dummy!dmm_buffer_new \in Buffer
    BY DEF Dummy!dmm_buffer_new, Buffer
  <2>2. bufs \in [{"in", "out"} -> Buffer]
    BY <2>1
  <2>3. QED
    BY <2>0, <2>2 DEF DummyTypes, Dummy!None
<1>2. HeldExactly
  <2>1. Held = {}
    BY DEF Held
  <2>2. d = Driver({}, "none") /\ d.node = "none"
    BY DEF Dummy!Nothing, Driver
  <2>3. \A n \in {"in", "out"} : ~bufs[n].reserve /\ ~bufs[n].map
    BY DEF Dummy!dmm_buffer_new
  <2>4. QED
    BY <2>1, <2>2, <2>3 DEF HeldExactly
<1>3. QED
  BY <1>1, <1>2 DEF DummyInv

-----------------------------------------------------------------------------
(* The post-processing element.                                            *)

(* Who sends which request, who waits for which reply and what the         *)
(* semaphore counts, for any configurations, frames and lives.             *)
THEOREM IppInvariant == Spec => []IppInv
<1>1. Init => IppInv
  BY IppInvInit
<1>2. IppInv /\ [Next]_vars => IppInv'
  BY IppInvKept
<1>3. QED
  BY <1>1, <1>2, PTL DEF Spec

(* A request the node can still see keeps its arguments, allocated and the *)
(* device's, and keeps every other request out: through errors, timeouts   *)
(* and restarts, unless the node reports an event nobody asked for.        *)
THEOREM OneRequestAtATime == Spec => []RequestsDontOverlap
<1>1. IppInv => RequestsDontOverlap
  <2> SUFFICES ASSUME IppInv, ~conf.events,
                      NEW r \in ({put} \cup ToSet(toDsp)) \ {None}
               PROVE  /\ args = r /\ r \in held /\ owner = "device"
                      /\ sem = 0 /\ fromDsp = <<>>
                      /\ put # None => toDsp = <<>>
    BY DEF RequestsDontOverlap
  <2>0. OnePlace /\ ArgsShared
    BY DEF IppInv, Calm
  <2>1. CASE r = put
    BY <2>0, <2>1 DEF OnePlace, ArgsShared
  <2>2. CASE r \in ToSet(toDsp)
    <3>1. toDsp # <<>>
      BY <2>2 DEF ToSet
    <3>2. toDsp = <<args>>
      BY <2>0, <3>1 DEF OnePlace
    <3>3. ToSet(toDsp) = {args}
      BY <3>2 DEF ToSet
    <3>4. QED
      BY <2>0, <2>2, <3>1, <3>3 DEF OnePlace, ArgsShared
  <2>3. QED
    BY <2>1, <2>2
<1>2. QED
  BY <1>1, IppInvariant, PTL

(* The output loop pushes the buffer that the last algorithm of the graph  *)
(* wrote, in the format of the source caps, whichever algorithms are in    *)
(* front of it.                                                            *)
THEOREM ResultRight == Spec => []ResultIsPushed
<1>1. Init => ResultInv
  BY DEF Init, ResultInv
<1>2. ResultInv /\ [Next]_vars => ResultInv'
  BY ResultKept
<1>3. IppInv /\ ResultInv => ResultIsPushed
  BY ResultIsRight DEF IppInv, IppValues
<1>4. QED
  BY <1>1, <1>2, <1>3, IppInvariant, PTL DEF Spec

(* An element that was stopped holds no memory of the DSP's, unless        *)
(* something went wrong in its life, and the next life finds the semaphore *)
(* at one.                                                                 *)
THEOREM IppReleases == Spec => []IppReleasesAll
<1>1. Init => MemoryInv
  BY DEF Init, MemoryInv, HeldInv, StopInv, Quiet, None
<1>2. IppInv /\ MemoryInv /\ [Next]_vars => MemoryInv'
  BY MemoryKept
<1>3. IppInv /\ MemoryInv => IppReleasesAll
  BY DEF IppInv, CallerInv, MemoryInv, HeldInv, IppReleasesAll
<1>4. QED
  BY <1>1, <1>2, <1>3, IppInvariant, PTL DEF Spec

-----------------------------------------------------------------------------
(* Both clients.                                                           *)

ClientsInv == IppInv /\ MemoryInv /\ ResultInv /\ DummyInv

(* Each client keeps its own invariant and leaves the other's alone.       *)
THEOREM ClientsInvariant == ClientsSpec => []ClientsInv
<1>1. ClientsInit => ClientsInv
  <2>1. Init => MemoryInv /\ ResultInv
    BY DEF Init, MemoryInv, HeldInv, StopInv, Quiet, None, ResultInv
  <2>2. QED
    BY <2>1, IppInvInit, DummyInvInit DEF ClientsInit, ClientsInv
<1>2. ClientsInv /\ [ClientsNext]_<<which, vars, dvars>> => ClientsInv'
  <2> SUFFICES ASSUME ClientsInv, [ClientsNext]_<<which, vars, dvars>>
               PROVE  ClientsInv'
    OBVIOUS
  <2>1. Next \/ UNCHANGED vars
    BY DEF ClientsNext
  <2>2. Dummy!Next \/ UNCHANGED dvars
    BY DEF ClientsNext
  <2>3. QED
    BY <2>1, <2>2, IppInvKept, MemoryKept, ResultKept, DummyInvKept DEF ClientsInv
<1>3. QED
  BY <1>1, <1>2, PTL DEF ClientsSpec

(* Every variable of both elements keeps its type; the semaphore of the    *)
(* post-processing element never exceeds two.                              *)
THEOREM ClientsTypes == ClientsSpec => []TypesOK
<1>1. ClientsInv => TypesOK
  <2> SUFFICES ASSUME ClientsInv  PROVE TypesOK
    OBVIOUS
  <2>1. IppValues /\ IppRequests /\ SemaphoreInv /\ ResultInv /\ DummyTypes
    BY DEF ClientsInv, IppInv, DummyInv
  <2>2. sem \in 0..2
    <3>1. sem \in Nat /\ Len(toDsp) \in Nat /\ Len(fromDsp) \in Nat
      BY <2>1 DEF IppValues, IppRequests
    <3>2. QED
      BY <2>1, <3>1 DEF SemaphoreInv
  <2>3. outq \subseteq {0, 1} /\ pushed \subseteq {0, 1}
    BY <2>1 DEF ResultInv, ResultPort
  <2>4. TypeOK
    BY <2>1, <2>2, <2>3 DEF TypeOK, IppValues
  <2>5. Dummy!TypeOK
    BY <2>1 DEF Dummy!TypeOK, DummyTypes
  <2>6. QED
    BY <2>4, <2>5 DEF TypesOK
<1>2. QED
  BY <1>1, ClientsInvariant, PTL

(* Both clients give back what they took, and the dummy element releases   *)
(* nothing that it does not hold: for any build of the bridge and however  *)
(* often they are started, as long as no call has failed.                  *)
THEOREM ClientsRelease == ClientsSpec => []ClientsReleaseAll
<1>1. ClientsInv => ClientsReleaseAll
  <2> SUFFICES ASSUME ClientsInv  PROVE ClientsReleaseAll
    OBVIOUS
  <2>1. IppReleasesAll
    BY DEF ClientsInv, IppInv, CallerInv, MemoryInv, HeldInv, IppReleasesAll
  <2>2. ASSUME faults = 0  PROVE HeldExactly /\ d.live = Held /\ d.twice = {}
    <3>1. HeldExactly
      BY <2>2 DEF ClientsInv, DummyInv
    <3>2. d = Driver(Held, d.node)
      BY <3>1 DEF HeldExactly
    <3>3. QED
      BY <3>1, <3>2 DEF Driver
  <2>3. Dummy!DummyReleasesAll
    <3> SUFFICES ASSUME state = "NULL", faults = 0
                 PROVE  d.live \subseteq (IF left THEN Dummy!LostStuff ELSE {})
      BY DEF Dummy!DummyReleasesAll
    <3>1. chain = "idle"
      BY <2>2 DEF HeldExactly
    <3>2. Held = IF left THEN Lost ELSE {}
      BY <3>1 DEF Held
    <3>3. Lost \subseteq Dummy!LostStuff
      BY DEF Lost, OfNode, Dummy!LostStuff, Dummy!NodeStuff
    <3>4. QED
      BY <2>2, <3>2, <3>3
  <2>4. Dummy!BridgeUsedWell
    <3> SUFFICES ASSUME faults = 0, busy
                 PROVE  \A n \in {"in", "out"} : <<"map", n>> \in d.live
      BY <2>2 DEF Dummy!BridgeUsedWell
    <3>1. chain # "idle"
      BY <2>2 DEF HeldExactly
    <3>2. Ranges \subseteq Held
      BY <3>1 DEF Held
    <3>3. QED
      BY <2>2, <3>2 DEF Ranges
  <2>5. QED
    BY <2>1, <2>3, <2>4 DEF ClientsReleaseAll
<1>2. QED
  BY <1>1, ClientsInvariant, PTL
=============================================================================
