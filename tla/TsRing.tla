------------------------------- MODULE TsRing ------------------------------
(***************************************************************************)
(* The ring of timestamps and serialized events of GstDspBase              *)
(* (src/gst-dsp/gstdspbase.[ch]: ts_array, ts_in_pos, ts_out_pos,          *)
(* ts_push_pos, ts_count) and the operations that pad_chain, sink_event,   *)
(* output_loop and _dsp_stop perform on it.  Each operation is one         *)
(* critical section under ts_mutex.                                        *)
(*                                                                         *)
(* The ring has a slot per frame handed to the DSP and per NEWSEGMENT      *)
(* event waiting for its turn.  ts_in_pos is where the next one goes,      *)
(* ts_out_pos the oldest one, and the entries from ts_out_pos up to        *)
(* ts_push_pos are flushed: they are still to be consumed, because the DSP *)
(* will return a buffer for each frame, but must not be pushed.            *)
(***************************************************************************)
EXTENDS Integers, Sequences, FiniteSets

CONSTANTS
  Size,       (* ARRAY_SIZE(ts_array): 20                                  *)
  Times,      (* the timestamps of the frames                              *)
  Events,     (* the NEWSEGMENT events                                     *)
  NoTime,     (* the content of a slot no frame has used yet               *)
  NoEvent     (* the NULL event of a slot that is free or holds a frame    *)

ASSUME RingAssumption ==
  /\ Size \in Nat \ {0, 1}
  /\ NoTime \notin Times
  /\ NoEvent \notin Events

VARIABLES ts_array, ts_in_pos, ts_out_pos, ts_push_pos, ts_count

tsVars == <<ts_array, ts_in_pos, ts_out_pos, ts_push_pos, ts_count>>

Slots == 0 .. Size - 1

TsItem == [time : Times \cup {NoTime}, event : Events \cup {NoEvent}]

TsTypeOK ==
  /\ ts_array \in [Slots -> TsItem]
  /\ ts_in_pos \in Slots
  /\ ts_out_pos \in Slots
  /\ ts_push_pos \in Slots
  /\ ts_count \in Nat

TsInit ==
  /\ ts_array = [i \in Slots |-> [time |-> NoTime, event |-> NoEvent]]
  /\ ts_in_pos = 0
  /\ ts_out_pos = 0
  /\ ts_push_pos = 0
  /\ ts_count = 0

----------------------------------------------------------------------------
(* How far slot b is ahead of slot a; the entries' slots, oldest first.    *)
Dist(a, b) == IF a <= b THEN b - a ELSE b + Size - a
Ahead(n) == (ts_out_pos + n) % Size

Outstanding == Dist(ts_out_pos, ts_in_pos)
Flushed == Dist(ts_out_pos, ts_push_pos)

HoldsEvent(i) == ts_array[i].event # NoEvent

(* The head of the ring is flushed: the test output_loop makes before it   *)
(* pushes an event or a frame.                                             *)
HeadFlushed == ts_out_pos # ts_push_pos

----------------------------------------------------------------------------
(* pad_chain: the frame's timestamp. *)
StoreFrame(t) ==
  /\ ts_array' = [ts_array EXCEPT ![ts_in_pos].time = t]
  /\ ts_in_pos' = (ts_in_pos + 1) % Size
  /\ ts_count' = ts_count + 1
  /\ UNCHANGED <<ts_out_pos, ts_push_pos>>

(* sink_event, NEWSEGMENT *)
StoreEvent(e) ==
  /\ ts_array' = [ts_array EXCEPT ![ts_in_pos].event = e]
  /\ ts_in_pos' = (ts_in_pos + 1) % Size
  /\ UNCHANGED <<ts_out_pos, ts_push_pos, ts_count>>

(* How often the loop `while ((event = ts_array[ts_out_pos].event))' of    *)
(* output_loop goes round: it empties the slots it passes, so once round   *)
(* the ring at most.                                                       *)
LeadingEvents ==
  CHOOSE n \in 0 .. Size :
    /\ \A k \in 0 .. n - 1 : HoldsEvent(Ahead(k))
    /\ n = Size \/ ~HoldsEvent(Ahead(n))

(* Mutant of EventsPushed: flushed events are pushed, too. *)
AllEventsPushed ==
  [k \in 1 .. LeadingEvents |-> ts_array[Ahead(k - 1)].event]

(* The events the loop pushes downstream, in order: those not flushed. *)
EventsPushed ==
  [k \in 1 .. (IF Flushed < LeadingEvents THEN LeadingEvents - Flushed ELSE 0)
     |-> ts_array[Ahead(Flushed + k - 1)].event]

ClearEvents ==
  LET n == LeadingEvents
  IN
  /\ ts_array' = [i \in Slots |->
                    IF Dist(ts_out_pos, i) < n
                    THEN [ts_array[i] EXCEPT !.event = NoEvent]
                    ELSE ts_array[i]]
  /\ ts_out_pos' = Ahead(n)
  /\ ts_push_pos' = IF Flushed < n THEN Ahead(n) ELSE ts_push_pos
  /\ UNCHANGED <<ts_in_pos, ts_count>>

(* Mutant of DropFrame: a flushed frame is not counted out. *)
DropFrameUncounted ==
  /\ ts_out_pos' = (ts_out_pos + 1) % Size
  /\ UNCHANGED <<ts_array, ts_in_pos, ts_push_pos, ts_count>>

(* output_loop: a buffer whose frame has been flushed. *)
DropFrame ==
  /\ ts_count' = ts_count - 1
  /\ ts_out_pos' = (ts_out_pos + 1) % Size
  /\ UNCHANGED <<ts_array, ts_in_pos, ts_push_pos>>

(* output_loop: the timestamp of the buffer that is about to be pushed. *)
FrameTime == ts_array[ts_out_pos].time

(* Mutant of TakeFrame: ts_out_pos does not wrap. *)
TakeFrameNoWrap ==
  /\ ts_out_pos' = ts_out_pos + 1
  /\ ts_push_pos' = ts_out_pos + 1
  /\ ts_count' = ts_count - 1
  /\ UNCHANGED <<ts_array, ts_in_pos>>

TakeFrame ==
  /\ ts_out_pos' = (ts_out_pos + 1) % Size
  /\ ts_push_pos' = (ts_out_pos + 1) % Size
  /\ ts_count' = ts_count - 1
  /\ UNCHANGED <<ts_array, ts_in_pos>>

(* Mutant of FlushRing: the timestamps are thrown away, although the DSP   *)
(* still has the frames.                                                   *)
EmptyRing ==
  /\ ts_push_pos' = ts_in_pos
  /\ ts_out_pos' = ts_in_pos
  /\ ts_count' = 0
  /\ UNCHANGED <<ts_array, ts_in_pos>>

(* sink_event, FLUSH_STOP: whatever is in the ring is not to be pushed. *)
FlushRing ==
  /\ ts_push_pos' = ts_in_pos
  /\ UNCHANGED <<ts_array, ts_in_pos, ts_out_pos, ts_count>>

(* _dsp_stop *)
ResetRing ==
  /\ ts_array' = [i \in Slots |-> [ts_array[i] EXCEPT !.event = NoEvent]]
  /\ ts_in_pos' = 0
  /\ ts_out_pos' = 0
  /\ ts_push_pos' = 0
  /\ ts_count' = 0

----------------------------------------------------------------------------
(* The ring has no overflow check: nothing in gstdspbase.c keeps ts_in_pos *)
(* from running into ts_out_pos.  RoomLeft is what the callers must see to *)
(* (at most Size - 1 frames and events outstanding) and what the promises  *)
(* below rest on.                                                          *)
RoomLeft == Outstanding < Size - 1

(* The slots of the frames outstanding. *)
FrameSlots ==
  {i \in Slots : Dist(ts_out_pos, i) < Outstanding /\ ~HoldsEvent(i)}

(* ts_count counts the frames in the ring, so `ts_count == 0', on which    *)
(* EOS waits and which tells an unexpected buffer, means no frame is left. *)
CountIsFrames == ts_count = Cardinality(FrameSlots)

(* No event is left behind outside the window of outstanding entries, and  *)
(* the flush mark is inside it.                                            *)
WindowSound ==
  /\ Flushed <= Outstanding
  /\ \A i \in Slots : HoldsEvent(i) => Dist(ts_out_pos, i) < Outstanding

=============================================================================
