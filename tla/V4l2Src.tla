------------------------------ MODULE V4l2Src -------------------------------
(***************************************************************************)
(* Capturing with v4l2src (v4l2src_calls_hacked.c) from a pool of buffers  *)
(* shared with the driver (gstv4l2bufferpool_x86hacked.c).                 *)
(*                                                                         *)
(* Three threads: the streaming thread grabs frames, downstream gives them *)
(* back whenever it likes, the application starts and stops the capture.   *)
(* The last reference to a buffer runs its finalizer, in the thread that   *)
(* dropped it: it puts the buffer back into the driver's queue as long as  *)
(* the pool runs.                                                          *)
(***************************************************************************)
EXTENDS V4l2Object

CONSTANTS Confs,       \* records [dev, polls, dead, copies, keeps, fault]
          NumBuffers,  \* the buffers the element asks for
          MinBuffers,  \* GST_V4L2_MIN_BUFFERS
          NumTrials,   \* NUM_TRIALS
          MaxLives     \* how often the application starts the capture

Faults == {"none", "dup", "reqbufs", "buffer", "activate", "qbuf", "streamon",
           "streamoff", "poll", "dqbuf", "eio"}

ASSUME V4l2Assumption ==
  /\ NumBuffers \in Nat /\ MinBuffers \in 1..NumBuffers
  /\ NumTrials \in Nat /\ MaxLives \in Nat
  /\ \A c \in Confs : c.fault \in Faults /\ {c.polls, c.dead, c.copies, c.keeps} \subseteq BOOLEAN

ASSUME DeviceAssumption == MaxSize \in Nat /\ \A c \in Confs : IsDevice(c.dev)

VARIABLES
  conf,     \* the device, and what may go wrong
  app,      \* the capture: "closed", "probed", "set", "ready", "capturing",
            \* "unlocked", "off", "destroy"
  offered,  \* the caps probed
  fmt,      \* the format the device is set to
  lives,
  refs,     \* the references to each buffer, 0 once it is gone
  inPool,   \* the buffers pool->buffers points to
  poolRefs, running, count, live,   \* the pool
  queued, filled, streaming,        \* the driver's side
  src,      \* the streaming thread: "idle", "poll", "dqbuf", "got", "decide", "failed"
  buf,      \* the buffer it is about
  trials, canPoll,
  held,     \* the buffers downstream has
  fin,      \* the buffer each thread runs the finalizer of, 0 for none
  next,     \* the next buffer gst_v4l2_buffer_pool_destroy looks at
  broken    \* a reference was dropped that did not exist

pool    == <<refs, inPool, poolRefs, running, count, live, fin, broken>>
driver  == <<queued, filled, streaming>>
grabber == <<src, buf, trials, canPoll>>
control == <<app, offered, fmt, lives, next>>
vars == <<conf, control, pool, driver, grabber, held>>

Buffers == 1..NumBuffers
Threads == {"src", "down", "app"}
Driver  == queued \cup filled

Unset == [size |-> <<0, 0>>, field |-> "none"]

Init ==
  /\ conf \in Confs
  /\ app = "closed" /\ offered = <<>> /\ fmt = Unset /\ lives = 0 /\ next = 0
  /\ refs = [n \in Buffers |-> 0] /\ inPool = {} /\ poolRefs = 0 /\ running = FALSE
  /\ count = 0 /\ live = 0 /\ fin = [t \in Threads |-> 0] /\ broken = FALSE
  /\ queued = {} /\ filled = {} /\ streaming = FALSE
  /\ src = "idle" /\ buf = 0 /\ trials = 0 /\ canPoll = conf.polls
  /\ held = {}

-----------------------------------------------------------------------------
(* References.  Dropping the last one runs the finalizer, one step later.  *)

Unref(t, n) ==
  /\ broken' = (broken \/ refs[n] = 0)
  /\ IF refs[n] = 1 THEN fin' = [fin EXCEPT ![t] = n] /\ UNCHANGED refs
                    ELSE refs' = [refs EXCEPT ![n] = IF @ = 0 THEN 0 ELSE @ - 1]
                         /\ UNCHANGED fin

(* The driver takes the buffer, or not. *)
qbuf(n) ==
  \/ queued' = queued \cup {n} /\ live' = live - 1 /\ UNCHANGED <<refs, poolRefs>>
  \/ /\ conf.fault = "qbuf" /\ refs' = [refs EXCEPT ![n] = 0] /\ poolRefs' = poolRefs - 1
     /\ UNCHANGED <<queued, live>>

RequeuesAlways == TRUE

Requeues == running

(* gst_v4l2_buffer_finalize: the whole of it is done under the pool's      *)
(* lock.  A buffer that is not queued again is gone, and with it its       *)
(* reference to the pool.                                                  *)
finalize(t) ==
  /\ fin[t] # 0
  /\ LET n == fin[t]
     IN  IF refs[n] = 0
           THEN broken' = TRUE /\ UNCHANGED <<refs, poolRefs, queued, live, inPool>>
           ELSE /\ UNCHANGED broken
                /\ IF Requeues
                     THEN qbuf(n) /\ inPool' = inPool \cup {n}
                     ELSE /\ refs' = [refs EXCEPT ![n] = 0] /\ poolRefs' = poolRefs - 1
                          /\ UNCHANGED <<queued, live, inPool>>
  /\ fin' = [fin EXCEPT ![t] = 0]
  /\ UNCHANGED <<conf, control, running, count, filled, streaming, grabber, held>>

-----------------------------------------------------------------------------
(* Starting: probe the caps, set one of them, make the pool, give its      *)
(* buffers to the driver.                                                  *)

probe ==
  /\ app = "closed" /\ lives < MaxLives
  /\ lives' = lives + 1
  /\ \E kept \in BOOLEAN :
       LET p == probe_caps_for_format(conf.dev, fmt, kept)
       IN  fmt' = p.fmt /\ offered' \in p.caps
  /\ app' = "probed"
  /\ UNCHANGED <<conf, next, pool, driver, grabber, held>>

(* gst_v4l2src_set_capture: the frame rate is never set. *)
set_capture ==
  /\ app = "probed"
  /\ \E i \in DOMAIN offered :
       \E s \in {offered[i].lo, offered[i].hi} :
         LET r == set_format(conf.dev, fmt, s[1], s[2], offered[i].interlaced)
         IN  fmt' = r.fmt /\ app' = IF r.ok THEN "set" ELSE "closed"
  /\ UNCHANGED <<conf, offered, lives, next, pool, driver, grabber, held>>

(* gst_v4l2_buffer_pool_new: the driver decides how many buffers there     *)
(* are.  If it has none or too few the new pool is not given back.         *)
Made(k) ==
  /\ count' = k /\ live' = k /\ poolRefs' = k + 1
  /\ refs' = [n \in Buffers |-> IF n <= k THEN 1 ELSE 0] /\ inPool' = 1..k

pool_new ==
  \/ /\ \E k \in MinBuffers..NumBuffers : Made(k)
     /\ app' = "ready"
  \/ /\ conf.fault = "dup" /\ app' = "closed"
     /\ count' = 0 /\ live' = 0 /\ poolRefs' = 0
     /\ refs' = [n \in Buffers |-> 0] /\ inPool' = {}
  \/ /\ conf.fault = "reqbufs" /\ app' = "closed"
     /\ count' = 0 /\ live' = 0 /\ poolRefs' = 1
     /\ refs' = [n \in Buffers |-> 0] /\ inPool' = {}
  \/ /\ conf.fault = "buffer" /\ app' = "destroy"
     /\ \E k \in 0..NumBuffers - 1 : Made(k)

capture_init ==
  /\ app = "set"
  /\ pool_new
  /\ running' = FALSE /\ next' = 1
  /\ UNCHANGED <<conf, offered, fmt, lives, fin, broken, driver, grabber, held>>

(* From the first available buffer that is taken on the pool runs. *)
pool_get == running' = TRUE

(* All the available buffers are queued, or the first few of them. *)
buffer_pool_activate(k) ==
  /\ pool_get
  /\ k = count \/ (conf.fault = "activate" /\ k \in 0..count)
  /\ queued' = 1..k /\ live' = live - k

start_streaming ==
  streaming' = TRUE \/ (conf.fault = "streamon" /\ streaming' = FALSE)

stop_streaming ==
  \/ streaming' = FALSE /\ queued' = {} /\ filled' = {}
  \/ conf.fault = "streamoff" /\ UNCHANGED driver

capture_start ==
  /\ app = "ready"
  /\ \E k \in 0..NumBuffers :
       /\ buffer_pool_activate(k)
       /\ IF k = count THEN start_streaming ELSE streaming' = FALSE
  /\ app' = IF streaming' THEN "capturing" ELSE "unlocked"
  /\ UNCHANGED <<conf, offered, fmt, lives, next, refs, inPool, poolRefs, count, fin,
                 broken, filled, grabber, held>>

-----------------------------------------------------------------------------
(* The streaming thread: gst_v4l2src_grab_frame. *)

grab_frame ==
  /\ app = "capturing" /\ src = "idle" /\ fin["src"] = 0
  /\ src' = "poll" /\ trials' = NumTrials
  /\ UNCHANGED <<conf, control, pool, driver, buf, canPoll, held>>

(* gst_poll_wait ends with a frame, with the capture being stopped, with   *)
(* an error, or says that the device cannot be polled; then, and ever      *)
(* after, the thread waits in VIDIOC_DQBUF.                                *)
poll ==
  /\ src = "poll"
  /\ \/ canPoll /\ conf.polls /\ filled # {} /\ src' = "dqbuf" /\ UNCHANGED canPoll
     \/ canPoll /\ app = "unlocked" /\ src' = "idle" /\ UNCHANGED canPoll
     \/ canPoll /\ ~conf.polls /\ src' = "dqbuf" /\ canPoll' = FALSE
     \/ ~canPoll /\ src' = "dqbuf" /\ UNCHANGED canPoll
     \/ conf.fault = "poll" /\ src' \in {"dqbuf", "failed"} /\ UNCHANGED canPoll
  /\ UNCHANGED <<conf, control, pool, driver, buf, trials, held>>

(* Most errors are tried again, until there have been NumTrials + 1.       *)
Retry == trials' = trials - 1 /\ src' = IF trials' = -1 THEN "failed" ELSE "poll"

(* The driver gives a filled buffer, or an error.  An internal error may   *)
(* have taken a buffer from the queue.                                     *)
dqbuf ==
  /\ src = "dqbuf"
  /\ \/ \E n \in filled :
          /\ filled' = filled \ {n} /\ buf' = n /\ src' = "got"
          /\ UNCHANGED <<queued, trials>>
     \/ /\ conf.fault \in {"dqbuf", "eio"}
        /\ Retry
        /\ IF conf.fault = "eio" /\ queued # {}
             THEN \E n \in queued : queued' = queued \ {n}
             ELSE UNCHANGED queued
        /\ UNCHANGED <<filled, buf>>
     \/ conf.fault = "dqbuf" /\ src' = "failed" /\ UNCHANGED <<queued, filled, buf, trials>>
  /\ UNCHANGED <<conf, control, pool, streaming, canPoll, held>>

(* Under the pool's lock again: the buffer is looked up by its index and   *)
(* counted.                                                                *)
dqbuf_got ==
  /\ src = "got"
  /\ IF buf \in inPool THEN live' = live + 1 /\ src' = "decide"
                       ELSE src' = "failed" /\ UNCHANGED live
  /\ UNCHANGED <<conf, control, refs, inPool, poolRefs, running, count, fin, broken,
                 driver, buf, trials, canPoll, held>>

OneTooMany == count - live + 1

available_buffers == count - live

CopiesIfAsked == conf.copies

need_copy == conf.copies \/ available_buffers = 0

(* The driver's last buffer is copied and given back. *)
hand_out ==
  /\ src = "decide"
  /\ IF need_copy THEN Unref("src", buf) /\ UNCHANGED held
                  ELSE held' = held \cup {buf} /\ UNCHANGED <<refs, fin, broken>>
  /\ src' = "idle" /\ buf' = 0
  /\ UNCHANGED <<conf, control, inPool, poolRefs, running, count, live, driver, trials,
                 canPoll>>

-----------------------------------------------------------------------------
(* The driver fills the buffers it has, downstream gives its back. *)

Fill ==
  /\ streaming /\ ~conf.dead
  /\ \E n \in queued : queued' = queued \ {n} /\ filled' = filled \cup {n}
  /\ UNCHANGED <<conf, control, pool, streaming, grabber, held>>

Release ==
  /\ fin["down"] = 0
  /\ \E n \in held : held' = held \ {n} /\ Unref("down", n)
  /\ UNCHANGED <<conf, control, inPool, poolRefs, running, count, live, driver, grabber>>

-----------------------------------------------------------------------------
(* Stopping: the streaming thread is made to leave grab_frame, streaming   *)
(* is stopped, the pool destroyed.                                         *)

Unlock ==
  /\ app = "capturing" /\ app' = "unlocked"
  /\ UNCHANGED <<conf, offered, fmt, lives, next, pool, driver, grabber, held>>

(* The driver keeps nothing when streaming stops.  If it cannot be stopped *)
(* the application has to try again.                                       *)
capture_stop ==
  /\ app = "unlocked" /\ src \in {"idle", "failed"} /\ fin["src"] = 0
  /\ stop_streaming
  /\ IF streaming' THEN UNCHANGED <<app, src>> ELSE app' = "off" /\ src' = "idle"
  /\ UNCHANGED <<conf, offered, fmt, lives, next, pool, buf, trials, canPoll, held>>

(* gst_v4l2_buffer_pool_destroy drops the reference of every buffer the    *)
(* pool points to, one at a time, then its own.  With keeps, downstream    *)
(* has not given everything back by then.                                  *)
capture_deinit ==
  /\ app = "off"
  /\ conf.keeps \/ (held = {} /\ fin["down"] = 0)
  /\ running' = FALSE /\ app' = "destroy" /\ next' = 1
  /\ UNCHANGED <<conf, offered, fmt, lives, refs, inPool, poolRefs, count, live, fin,
                 broken, driver, grabber, held>>

pool_destroy ==
  /\ app = "destroy" /\ fin["app"] = 0
  /\ IF next <= count
       THEN /\ IF next \in inPool THEN Unref("app", next) ELSE UNCHANGED <<refs, fin, broken>>
            /\ next' = next + 1 /\ UNCHANGED <<poolRefs, app>>
       ELSE poolRefs' = poolRefs - 1 /\ app' = "closed" /\ UNCHANGED <<refs, fin, broken, next>>
  /\ UNCHANGED <<conf, offered, fmt, lives, inPool, running, count, live, driver, grabber,
                 held>>

-----------------------------------------------------------------------------
Start == probe \/ set_capture \/ capture_init \/ capture_start
Grab  == poll \/ dqbuf \/ dqbuf_got \/ hand_out
Stop  == capture_stop \/ capture_deinit \/ pool_destroy

Next == Start \/ Unlock \/ Stop \/ grab_frame \/ Grab \/ Fill \/ Release
        \/ \E t \in Threads : finalize(t)

(* The threads run; the camera, unless it is dead, fills its buffers.      *)
(* Nobody has to give a frame back while the capture runs; all is given    *)
(* back once it has been stopped, if it is at all.                         *)
Fairness ==
  /\ WF_vars(Grab) /\ WF_vars(Fill) /\ WF_vars(Stop)
  /\ \A t \in Threads : WF_vars(finalize(t))
  /\ WF_vars(app = "off" /\ Release)

Spec == Init /\ [][Next]_vars /\ Fairness

-----------------------------------------------------------------------------
TypeOK ==
  /\ conf \in Confs
  /\ app \in {"closed", "probed", "set", "ready", "capturing", "unlocked", "off",
              "destroy"}
  /\ src \in {"idle", "poll", "dqbuf", "got", "decide", "failed"}
  /\ refs \in [Buffers -> 0..1] /\ fin \in [Threads -> 0..NumBuffers]
  /\ buf \in 0..NumBuffers /\ trials \in -1..NumTrials /\ lives \in 0..MaxLives
  /\ {inPool, queued, filled, held} \subseteq SUBSET Buffers
  /\ {running, streaming, canPoll, broken} \subseteq BOOLEAN
  /\ count \in 0..NumBuffers /\ next \in 0..NumBuffers + 1
  /\ live \in -1..NumBuffers /\ poolRefs \in 0..NumBuffers + 1

(* While frames are captured the pool's count of live buffers is what is   *)
(* not with the driver, whoever gives buffers back meanwhile, and the      *)
(* driver always has a buffer to write the next frame to, except for the   *)
(* moment in which the streaming thread holds the last one to copy it:     *)
(* dqbuf in one critical section, the look at the count and the finalizers *)
(* of two threads never hand out the last buffer.                          *)
InHand == {n \in {buf} : src \in {"got", "decide"}} \cup ({fin["src"]} \ {0})

DriverKeepsABuffer ==
  /\ TypeOK
  /\ streaming /\ conf.fault \notin {"eio", "qbuf"} =>
    /\ live = count - Cardinality(Driver) - (IF src = "got" THEN 1 ELSE 0)
    /\ InHand = {} => Driver # {}

(* When a capture has ended and downstream has given everything back, the  *)
(* buffers and the pool are gone, and no reference was dropped that did    *)
(* not exist; but a driver that gives no buffers leaves the pool, and one  *)
(* that refuses a buffer leaves pool->buffers pointing to it.              *)
PoolReleasesAll ==
  ~conf.keeps /\ conf.fault \notin {"reqbufs", "qbuf"} =>
    /\ ~broken
    /\ app \in {"closed", "probed", "set"} =>
         poolRefs = 0 /\ \A n \in Buffers : refs[n] = 0

(* A buffer downstream has exists. *)
HeldIsAlive == \A n \in held : refs[n] > 0

(* What is offered can be set, for a device that answers: the smallest and *)
(* the largest size of every entry, with the field order it was offered    *)
(* with, whatever the device was set to before; the largest comes first,   *)
(* and probing does not change what a careful device is set to.  Every     *)
(* format with caps is found again by them, and a frame's buffer holds its *)
(* samples.                                                                *)
Answers == get_nearest_size(conf.dev, fmt, 1, 1, FALSE).ok

OfferedIsTaken ==
  app = "probed" /\ Answers =>
    /\ \A i \in DOMAIN offered : \A s \in {offered[i].lo, offered[i].hi} :
         set_format(conf.dev, fmt, s[1], s[2], offered[i].interlaced).ok
    /\ \A i, j \in DOMAIN offered :
         i < j => offered[i].lo[1] * offered[i].lo[2] >= offered[j].lo[1] * offered[j].lo[2]
    /\ conf.dev.tries /\ ~conf.dev.careless =>
         probe_caps_for_format(conf.dev, fmt, FALSE).fmt = fmt

FormatsFound ==
  /\ \A f \in gst_v4l2_formats \ Unnamed :
       get_format_from_fourcc(<<f>>, caps_fourcc(v4l2fourcc_to_structure(f))) = f
  /\ \A f \in DOMAIN fcc, w \in 1..9, h \in 1..3 :
       frame_size(f, w, h) # 0 =>
         frame_size(f, w, h) >= w * h + 2 * ((w + 3) \div 4) * ((h + 1) \div 2)

ProbedIsSettable == OfferedIsTaken /\ (app = "probed" => FormatsFound)

(* A capture that is being stopped is stopped, if the device can be polled *)
(* or still delivers frames.                                               *)
StopEnds ==
  /\ app = "unlocked"
  /\ conf.fault \notin {"streamoff", "qbuf", "eio"}
  /\ conf.polls \/ ~conf.dead
  ~> app = "closed"

(* The buffers change hands the way FrameExchange says, as long as the     *)
(* driver does not lose one with an error.                                 *)
Owner == [n \in Buffers |->
            IF n \in held \cup {fin["down"]} THEN "sink"
            ELSE IF n \in InHand THEN "source"
            ELSE IF streaming /\ n \in Driver THEN "device" ELSE "none"]

FX == INSTANCE FrameExchange WITH owner <- Owner, on <- streaming

Exact == conf.fault # "eio"

ImplementsFrameExchange ==
  (Exact => FX!Init) /\ [][Exact => FX!Next]_<<Owner, streaming>>
=============================================================================
