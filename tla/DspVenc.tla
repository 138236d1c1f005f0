------------------------------ MODULE DspVenc ------------------------------
(***************************************************************************)
(* The H.264 encoder element (gstdspvenc.c, tidsp/td_h264enc.c): the       *)
(* requests for key frames, and the headers of the stream, which in AVC    *)
(* format go into the caps and not downstream.                             *)
(*                                                                         *)
(* Four actors: the application (caps, events, state changes), the chain   *)
(* function that sends frames (in_send_cb), the thread of the DSP that     *)
(* receives coded buffers (out_recv_cb), and the output loop that skips or *)
(* pushes them.  Buffers carry their kind; the coded order is the DSP's.   *)
(*                                                                         *)
(* skip_hack_2 is a plain word that dsp_thread increments and the output   *)
(* loop decrements with no lock: each reads it in one step and writes it   *)
(* in a later one, and a write may go over one of the other thread.        *)
(***************************************************************************)
EXTENDS Integers, SequencesExt, FiniteSets

CONSTANTS EncConfs,    \* which of inband, empties, refuses hold
          Buffers,     \* the output buffers, a sequence
          MaxFrames,   \* frames sent in all
          MaxRequests, \* requests for a key frame
          MaxRecaps    \* caps that come while the node runs

VARIABLES conf,       \* the configuration, one of EncConfs
          bytestream, \* else AVC: the headers go into the caps
          running,    \* the node runs
          primed,     \* the node has sent the headers of its stream
          coded,      \* what the node has yet to write into buffers
          bufs,       \* the output buffers the node has
          moved,      \* the buffers whose data pointer no longer is their start
          frames_left, requests, recaps_left,
          slot,       \* keyframe_event: the pending request, 0 for none
          events,     \* requests pushed downstream, in order
          forced,     \* force_i_frame of the frames sent
          sps, pps,   \* what has been received
          codec_data_done, caps, skip_hack_2,
          received,   \* the buffer dsp_thread is incrementing skip_hack_2 for, if any
          old,        \* what dsp_thread has read from it, NotRead before
          queue,      \* returned buffers the output loop has yet to take
          taken,      \* the buffer the output loop has, if any
          seen,       \* what the output loop read from skip_hack_2 with it
          pushed, skipped,
          counted,    \* buffers skip_hack_2 was incremented for in this life
          lost        \* a write went over a value its writer had not read

NotRead == -1
fixed == <<conf, bytestream, running, recaps_left>>
node == <<primed, coded, bufs, moved, frames_left>>
headers == <<sps, pps, codec_data_done, skip_hack_2, counted, received, old, lost>>
output == <<queue, taken, seen, pushed, skipped>>
keys == <<requests, slot, events, forced>>

-----------------------------------------------------------------------------
Init ==
  /\ conf \in EncConfs /\ bytestream \in BOOLEAN
  /\ running = FALSE /\ primed = FALSE /\ coded = <<>> /\ caps = "none"
  /\ bufs = <<>> /\ moved = {}
  /\ frames_left = MaxFrames /\ requests = 0 /\ recaps_left = MaxRecaps
  /\ slot = 0 /\ events = <<>> /\ forced = <<>>
  /\ sps = FALSE /\ pps = FALSE /\ codec_data_done = FALSE /\ skip_hack_2 = 0
  /\ queue = <<>> /\ pushed = <<>> /\ skipped = <<>> /\ counted = 0
  /\ received = <<>> /\ old = NotRead /\ taken = <<>> /\ seen = 0 /\ lost = FALSE

(* Caps make the node and give it its buffers; with a node already running *)
(* they only replace the caps downstream has.  A downstream that asks for  *)
(* AVC gets it, and nothing goes back from it; while the node runs the     *)
(* source pad's fixed caps are the answer.                                 *)
sink_setcaps ==
  /\ running => recaps_left > 0
  /\ recaps_left' = recaps_left - (IF running THEN 1 ELSE 0)
  /\ running' = TRUE /\ caps' = "plain"
  /\ bufs' = IF running THEN bufs ELSE Buffers
  /\ bytestream' \in IF running THEN {bytestream} ELSE {bytestream, FALSE}
  /\ UNCHANGED <<conf, primed, coded, moved, frames_left, keys, headers, output>>

(* A GstForceKeyUnit event, from downstream or from upstream.              *)
force_key_unit ==
  /\ requests < MaxRequests
  /\ requests' = requests + 1
  /\ slot' = requests + 1
  /\ UNCHANGED <<fixed, node, events, forced, caps, headers, output>>

(* What the node makes of a frame: a picture or, when it drops the frame,  *)
(* nothing.  Headers come with the first frame and, in band, with forced   *)
(* ones: in buffers of their own in AVC format, else before the picture in *)
(* its buffer.                                                             *)
Coded(force) ==
  {IF ~primed \/ (conf.inband /\ force)
   THEN IF bytestream THEN <<"headed">> ELSE <<"sps", "pps", "picture">>
   ELSE <<"picture">>}
  \cup (IF conf.empties THEN {<<"empty">>} ELSE {})

in_send_cb ==
  /\ running /\ frames_left > 0
  /\ frames_left' = frames_left - 1
  /\ forced' = Append(forced, slot # 0)
  /\ events' = IF slot # 0 THEN Append(events, slot) ELSE events
  /\ slot' = 0
  /\ \E c \in Coded(slot # 0) :
       /\ coded' = coded \o c
       /\ primed' = (primed \/ c # <<"empty">>)
  /\ UNCHANGED <<fixed, bufs, moved, requests, caps, headers, output>>

(* A buffer comes back: strip_sps_pps_header moves its data pointer past   *)
(* the headers, and nothing moves it back.                                 *)
Returning(kind, strip) ==
  [kind |-> IF strip THEN "picture" ELSE kind, buf |-> Head(bufs),
   whole |-> Head(bufs) \notin moved]

Take(strip) ==
  /\ moved' = moved \cup (IF strip THEN {Head(bufs)} ELSE {})
  /\ bufs' = Tail(bufs) /\ coded' = Tail(coded)

(* It goes to the queue at once, or after skip_hack_2 was incremented.     *)
Receive(strip) ==
  /\ Take(strip)
  /\ queue' = Append(queue, Returning(Head(coded), strip))
  /\ UNCHANGED received
ReceiveToSkip ==
  /\ Take(FALSE)
  /\ received' = <<Returning(Head(coded), FALSE)>>
  /\ UNCHANGED queue

recv_empty ==
  /\ Head(coded) = "empty"
  /\ Receive(FALSE)
  /\ UNCHANGED <<sps, pps, codec_data_done, caps>>

(* Byte stream: only the first headers stay.                               *)
recv_byte_stream ==
  /\ Head(coded) # "empty" /\ bytestream
  /\ Receive(Head(coded) = "headed" /\ sps)
  /\ sps' = (sps \/ Head(coded) = "headed")
  /\ UNCHANGED <<pps, codec_data_done, caps>>

IsHeader(kind) == kind \in {"sps", "pps"}

(* ignore_sps_pps_header, once the caps have the headers.                  *)
recv_after_headers ==
  /\ Head(coded) # "empty" /\ ~bytestream /\ codec_data_done
  /\ IF IsHeader(Head(coded)) THEN ReceiveToSkip ELSE Receive(FALSE)
  /\ UNCHANGED <<sps, pps, codec_data_done, caps>>

(* Until then every buffer is skipped; the first two are kept as the       *)
(* headers, and go into the caps if downstream takes them.                 *)
recv_headers ==
  /\ Head(coded) # "empty" /\ ~bytestream /\ ~codec_data_done
  /\ ReceiveToSkip
  /\ sps' = TRUE
  /\ pps' = (pps \/ sps)
  /\ \E ok \in {TRUE, ~conf.refuses} :
       /\ codec_data_done' = (pps' /\ ok)
       /\ caps' = IF pps' /\ ok THEN "codec_data" ELSE caps

out_recv_cb ==
  /\ received = <<>> /\ coded # <<>> /\ bufs # <<>>
  /\ recv_empty \/ recv_byte_stream \/ recv_after_headers \/ recv_headers
  /\ UNCHANGED <<fixed, primed, frames_left, keys, skip_hack_2, old, counted, lost, taken,
                 seen, pushed, skipped>>

(* skip_hack_2++ of dsp_thread, the read and the write; with the write the *)
(* buffer goes to the queue, of which dsp_thread is the only writer.       *)
recv_read ==
  /\ received # <<>> /\ old = NotRead
  /\ old' = skip_hack_2
  /\ UNCHANGED <<fixed, node, keys, caps, sps, pps, codec_data_done, skip_hack_2, counted,
                 received, lost, output>>

(* Mutant: a flag in place of a count.                                     *)
SkipFlag == 1

Incremented == old + 1

recv_write ==
  /\ received # <<>> /\ old # NotRead
  /\ skip_hack_2' = Incremented /\ counted' = counted + 1
  /\ lost' = (lost \/ skip_hack_2 # old)
  /\ queue' = queue \o received /\ received' = <<>> /\ old' = NotRead
  /\ UNCHANGED <<fixed, node, keys, caps, sps, pps, codec_data_done, taken, seen, pushed,
                 skipped>>

(* output_loop takes a buffer and reads skip_hack_2.  The C reads it again *)
(* for the decrement; in between it can only grow, which is as if both had *)
(* been read after.                                                        *)
output_take ==
  /\ running /\ taken = <<>> /\ queue # <<>>
  /\ taken' = <<Head(queue)>> /\ queue' = Tail(queue) /\ seen' = skip_hack_2
  /\ UNCHANGED <<fixed, node, keys, caps, headers, pushed, skipped>>

(* The node has the buffer again at once: downstream holds none here.      *)
SendBack ==
  /\ taken # <<>>
  /\ bufs' = Append(bufs, taken[1].buf)
  /\ taken' = <<>> /\ seen' = 0
  /\ UNCHANGED <<fixed, primed, coded, moved, frames_left, keys, caps, sps, pps,
                 codec_data_done, counted, received, old, queue>>

(* A buffer is skipped if skip_hack_2 was positive,                        *)
output_skip ==
  /\ seen > 0 /\ SendBack
  /\ skip_hack_2' = seen - 1
  /\ lost' = (lost \/ skip_hack_2 # seen)
  /\ skipped' = Append(skipped, taken[1].kind)
  /\ UNCHANGED pushed

(* else pushed, with the caps there are, unless it is empty.               *)
output_push ==
  /\ seen = 0 /\ SendBack
  /\ pushed' = IF taken[1].kind = "empty" THEN pushed
               ELSE Append(pushed, [kind |-> taken[1].kind, caps |-> caps,
                                    whole |-> taken[1].whole])
  /\ UNCHANGED <<skip_hack_2, lost, skipped>>

(* _dsp_stop and reset: the threads are waited for, the buffers go, the    *)
(* pending request stays.                                                  *)
stop ==
  /\ running /\ received = <<>> /\ taken = <<>>
  /\ running' = FALSE /\ primed' = FALSE
  /\ coded' = <<>> /\ queue' = <<>> /\ bufs' = <<>> /\ moved' = {}
  /\ skip_hack_2' = 0 /\ counted' = 0 /\ lost' = FALSE
  /\ sps' = FALSE /\ pps' = FALSE /\ codec_data_done' = FALSE
  /\ caps' = "none" /\ pushed' = <<>> /\ skipped' = <<>>
  /\ UNCHANGED <<conf, bytestream, frames_left, recaps_left, keys, received, old, taken,
                 seen>>

Next == \/ sink_setcaps \/ force_key_unit \/ in_send_cb \/ out_recv_cb
        \/ recv_read \/ recv_write \/ output_take \/ output_skip \/ output_push \/ stop

-----------------------------------------------------------------------------
(* Every increment of skip_hack_2 skips one buffer ("don't process x       *)
(* number of buffers").                                                    *)
SkipsAccounted == Len(skipped) + skip_hack_2 = counted

(* With a node that sends headers only first and nothing empty: in byte    *)
(* stream format every picture is whole and only the first has headers; in *)
(* AVC format nothing but pictures goes downstream, and nothing but the    *)
(* headers is skipped if downstream takes them.  A lost update of          *)
(* skip_hack_2 lets one header through, or costs the first picture.        *)
Steady == ~conf.inband /\ ~conf.empties
AllPictures(s) == \A i \in DOMAIN s : s[i].kind = "picture"
AllHeaders(s) == \A i \in DOMAIN s : IsHeader(s[i])
HeaderThrough == AllPictures(Tail(pushed)) /\ AllHeaders(skipped)
PictureLost == AllPictures(pushed) /\ Len(skipped) = 3 /\ AllHeaders(Front(skipped))
OnlyPicturesPushed ==
  Steady =>
    /\ \A i \in DOMAIN pushed : pushed[i].whole
    /\ bytestream => \A i \in DOMAIN pushed : pushed[i].kind = "picture" \/ i = 1
    /\ ~bytestream /\ ~lost => AllPictures(pushed)
    /\ ~bytestream /\ ~conf.refuses =>
         \/ AllPictures(pushed) /\ AllHeaders(skipped)
         \/ lost /\ pushed # <<>> /\ HeaderThrough
         \/ lost /\ PictureLost

(* A picture in AVC format finds the codec_data in the caps, unless caps   *)
(* came while the node ran.                                                *)
CapsBeforePictures ==
  (Steady /\ ~bytestream /\ recaps_left = MaxRecaps /\ (lost => ~conf.refuses)) =>
    \A i \in DOMAIN pushed : pushed[i].caps = "codec_data"

(* Every request is pushed downstream once, in order, with a frame that is *)
(* forced to be a key frame, or waits, or a later one took its place.      *)
KeyRequestsServed ==
  /\ Len(events) = Cardinality({i \in DOMAIN forced : forced[i]})
  /\ \A i, j \in DOMAIN events : i < j => events[i] < events[j]
  /\ requests # 0 => slot = requests \/ (events # <<>> /\ Last(events) = requests)

EncoderOutput == /\ ~lost => SkipsAccounted
                 /\ OnlyPicturesPushed /\ CapsBeforePictures /\ KeyRequestsServed
=============================================================================
