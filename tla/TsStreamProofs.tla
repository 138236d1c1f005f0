--------------------------- MODULE TsStreamProofs --------------------------
(***************************************************************************)
(* What holds of the ring of timestamps for every size of the ring and     *)
(* every set of timestamps and events, as long as its slots are not        *)
(* overrun (RoomLeft).                                            *)
(***************************************************************************)
EXTENDS TsStream, TsRingProofs

(* Besides the ring's invariant, what the reader knows at each place: that *)
(* the check for too many buffers is still right when the events have been *)
(* handled.                                                                *)
ReaderInv ==
  /\ ReaderFindsFrame
  /\ FlushCheckHolds
  /\ reader = "frame" => ts_count > 0

IInv == TypeOK /\ RingInv /\ ReaderInv

----------------------------------------------------------------------------
Sent == Seq([kind : {"frame"}, of : Times] \cup [kind : {"event"}, of : Events])

(* The events that are pushed are events that were stored. *)
LEMMA EventsPushedType ==
  ASSUME RingInv
  PROVE  /\ EventsPushed \in Seq(Events)
         /\ \A k \in DOMAIN EventsPushed :
               EventsPushed[k] = ts_array[Ahead(Flushed + k - 1)].event
<1>1. /\ LeadingEvents \in 0 .. Size - 1
      /\ Flushed \in 0 .. Size - 1
  BY LeadingEventsInWindow, WindowType, RingAssumption DEF RingInv
<1>2. ASSUME NEW j \in 0 .. LeadingEvents - 1
      PROVE  ts_array[Ahead(j)].event \in Events
  <2>1. HoldsEvent(Ahead(j))
    BY LeadingEventsProperties DEF RingInv
  <2>2. Ahead(j) \in Slots
    BY <1>1, Wrap, RingAssumption DEF Ahead, RingInv, TsTypeOK
  <2> QED BY <2>1, <2>2 DEF HoldsEvent, RingInv, TsTypeOK, TsItem
<1> DEFINE m == IF Flushed < LeadingEvents THEN LeadingEvents - Flushed ELSE 0
<1>3. m \in Nat
  BY <1>1
<1>4. \A k \in 1 .. m : Flushed + k - 1 \in 0 .. LeadingEvents - 1
  BY <1>1
<1>5. EventsPushed = [k \in 1 .. m |-> ts_array[Ahead(Flushed + k - 1)].event]
  BY DEF EventsPushed
<1> HIDE DEF m
<1>6. \A k \in 1 .. m : ts_array[Ahead(Flushed + k - 1)].event \in Events
  BY <1>2, <1>4
<1> QED BY <1>3, <1>5, <1>6

(* With the ring's invariant, every step of the streaming thread, of       *)
(* output_loop, of a flush and of _dsp_stop keeps all the promises.        *)
THEOREM RingCorrect == Spec => []IInv
<1>1. Init => IInv
  <2> SUFFICES ASSUME Init  PROVE IInv
    OBVIOUS
  <2>1. RingInv
    BY InitHolds DEF Init
  <2> QED BY <2>1 DEF Init, IInv, TypeOK, RingInv, Readers, ReaderInv,
                      ReaderFindsFrame, FlushCheckHolds
<1>2. IInv /\ [Next]_vars => IInv'
  <2> SUFFICES ASSUME IInv, [Next]_vars  PROVE IInv'
    OBVIOUS
  <2> USE DEF IInv, ReaderInv
  <2>a. TsTypeOK /\ reader \in Readers /\ sent \in Sent
    BY DEF TypeOK, Sent
  <2>b. ASSUME RingInv', reader' \in Readers, sent' \in Sent
        PROVE  RingInv' /\ TypeOK'
    BY <2>b DEF RingInv, TypeOK, Sent
  <2>1. ASSUME NEW t \in Times, Chain(t)  PROVE IInv'
    <3>1. /\ RingInv' /\ ts_count' > 0
          /\ FrameSlots \subseteq FrameSlots'
          /\ UNCHANGED <<reader, sent, ts_out_pos, ts_push_pos>>
      BY <2>1, StoreFrameKeeps DEF Chain, StoreFrame
    <3>2. ReaderInv'
      BY <3>1 DEF ReaderFindsFrame, FlushCheckHolds, HeadFlushed
    <3> QED BY <3>1, <3>2, <2>a, <2>b
  <2>2. ASSUME NEW e \in Events, NewSegment(e)  PROVE IInv'
    <3>1. /\ RingInv'
          /\ FrameSlots' = FrameSlots
          /\ UNCHANGED <<reader, sent, ts_out_pos, ts_push_pos, ts_count>>
      BY <2>2, StoreEventKeeps DEF NewSegment, StoreEvent
    <3>2. ReaderInv'
      BY <3>1 DEF ReaderFindsFrame, FlushCheckHolds, HeadFlushed
    <3> QED BY <3>1, <3>2, <2>a, <2>b
  <2>3. CASE BeginFrame \/ BeginEmpty \/ CheckFlushed \/ Abandon
             \/ UNCHANGED vars
    <3>1. UNCHANGED <<tsVars, sent>> /\ reader' \in Readers
      BY <2>3, <2>a
      DEF BeginFrame, BeginEmpty, CheckFlushed, Abandon, vars, tsVars, Readers
    <3>2. RingInv'
      BY <3>1
      DEF RingInv, tsVars, TsTypeOK, CountIsFrames, WindowSound, FramesTimed,
          FrameSlots, Outstanding, Flushed, HoldsEvent
    <3>3. FrameSlots' = FrameSlots /\ (HeadFlushed' <=> HeadFlushed)
      BY <3>1 DEF tsVars, FrameSlots, Outstanding, HoldsEvent, HeadFlushed
    <3>4. ReaderInv'
      BY <2>3, <2>a, <3>1, <3>3
      DEF BeginFrame, BeginEmpty, CheckFlushed, Abandon, vars, tsVars,
          TsTypeOK, ReaderFindsFrame, FlushCheckHolds
    <3> QED BY <3>1, <3>2, <3>4, <2>a, <2>b
  <2>4. CASE PushEvents
    <3>1. /\ RingInv'
          /\ FrameSlots' = FrameSlots
          /\ ts_out_pos' \in Slots
          /\ ~HoldsEvent(ts_out_pos)'
          /\ ts_count' = ts_count
      BY <2>4, ClearEventsKeeps
      DEF PushEvents, ClearEvents, RingInv, TsTypeOK
    <3>2. sent' \in Sent
      <4>1. EventsPushed \in Seq(Events)
        BY EventsPushedType
      <4> HIDE DEF IInv
      <4>2. sent' = [k \in DOMAIN EventsPushed |->
                       [kind |-> "event", of |-> EventsPushed[k]]]
        BY <2>4 DEF PushEvents
      <4> QED BY <4>1, <4>2 DEF Sent
    <3>3. reader' = "cleared" => ts_count' > 0
      BY <2>4, <3>1 DEF PushEvents
    <3>4. reader' = "cleared" => ts_out_pos' \in FrameSlots'
      <4> SUFFICES ASSUME reader' = "cleared"
                   PROVE  ts_out_pos' \in FrameSlots'
        OBVIOUS
      <4>1. FrameSlots' # {}
        <5>1. Cardinality(FrameSlots) > 0
          BY <3>1, <3>3 DEF RingInv, CountIsFrames
        <5> QED BY <5>1, <3>1, FS_EmptySet
      <4>2. (Outstanding \in 0 .. Size - 1)'
        BY <3>1, WindowType, PTL DEF RingInv
      <4> QED BY <3>1, <4>1, <4>2, DistType DEF FrameSlots
    <3> QED
      BY <2>4, <3>1, <3>2, <3>3, <3>4, <2>b
      DEF PushEvents, Readers, ReaderFindsFrame, FlushCheckHolds
  <2>5. CASE DropFlushed \/ PushFrame
    <3>1. RingInv'
      BY <2>5, HeadLeaves
      DEF DropFlushed, PushFrame, DropFrame, TakeFrame, ReaderFindsFrame,
          FlushCheckHolds
    <3>2. sent' \in Sent
      <4>1. CASE DropFlushed
        BY <4>1, <2>a DEF DropFlushed
      <4>2. CASE PushFrame
        <5>1. FrameTime \in Times
          BY <4>2
          DEF PushFrame, ReaderFindsFrame, RingInv, FramesTimed, FrameTime
        <5> QED BY <4>2, <5>1 DEF PushFrame, Sent
      <4> QED BY <2>5, <4>1, <4>2
    <3> QED
      BY <2>5, <3>1, <3>2, <2>b
      DEF DropFlushed, PushFrame, Readers, ReaderFindsFrame, FlushCheckHolds
  <2>6. CASE Flush \/ Reset
    <3>1. RingInv'
      BY <2>6, FlushRingKeeps, ResetRingKeeps DEF Flush, Reset
    <3> QED
      BY <2>6, <3>1, <2>a, <2>b
      DEF Flush, Reset, Readers, ReaderFindsFrame, FlushCheckHolds
  <2> QED BY <2>1, <2>2, <2>3, <2>4, <2>5, <2>6 DEF Next
<1> QED BY <1>1, <1>2, PTL DEF Spec

(* The variables keep their types; in particular the timestamp that        *)
(* output_loop pushes is one that pad_chain stored.                        *)
THEOREM TypeCorrect == Spec => []TypeOK
<1>1. IInv => TypeOK
  BY DEF IInv
<1> QED BY <1>1, RingCorrect, PTL

(* ts_count, on which EOS waits, is the number of frames in the ring.      *)
THEOREM CountCorrect == Spec => []CountIsFrames
<1>1. IInv => CountIsFrames
  BY DEF IInv, RingInv
<1> QED BY <1>1, RingCorrect, PTL

(* output_loop never consumes a timestamp that no frame put there, never   *)
(* decrements ts_count below zero, and its flush check still holds when it *)
(* is acted upon.                                                          *)
THEOREM ReaderIsSafe == Spec => []ReaderKnowsRing
<1>1. IInv => ReaderKnowsRing
  BY DEF IInv, ReaderInv, ReaderKnowsRing
<1> QED BY <1>1, RingCorrect, PTL

(* The flush mark stays inside the window of outstanding entries, and no   *)
(* event is left outside it.                                               *)
THEOREM WindowIsSound == Spec => []WindowSound
<1>1. IInv => WindowSound
  BY DEF IInv, RingInv
<1> QED BY <1>1, RingCorrect, PTL

----------------------------------------------------------------------------
(* The refinement of TsQueue.                                              *)

Entry(item) ==
  IF item.event # NoEvent THEN [kind |-> "event", of |-> item.event]
                          ELSE [kind |-> "frame", of |-> item.time]

Entries == [k \in 1 .. Outstanding |-> Entry(ts_array[Ahead(k - 1)])]

Entered == [kind : {"frame"}, of : Times] \cup [kind : {"event"}, of : Events]

(* Steps ahead of ts_out_pos add up. *)
LEMMA AheadOfAhead ==
  ASSUME NEW n \in 0 .. Size - 1, NEW j \in 0 .. Size - 1, n + j < Size,
         ts_out_pos \in Slots
  PROVE  (Ahead(n) + j) % Size = Ahead(n + j)
<1>1. Ahead(n) = IF ts_out_pos + n < Size THEN ts_out_pos + n
                 ELSE ts_out_pos + n - Size
  BY Wrap, RingAssumption DEF Ahead
<1>2. Ahead(n) \in Slots
  BY Wrap, RingAssumption DEF Ahead
<1>3. (Ahead(n) + j) % Size = IF Ahead(n) + j < Size THEN Ahead(n) + j
                              ELSE Ahead(n) + j - Size
  BY <1>2, Wrap, RingAssumption
<1>4. Ahead(n + j) = IF ts_out_pos + (n + j) < Size THEN ts_out_pos + (n + j)
                     ELSE ts_out_pos + (n + j) - Size
  <2>1. n + j \in 0 .. Size
    BY RingAssumption
  <2> QED BY <2>1, Wrap DEF Ahead
<1> QED BY <1>1, <1>3, <1>4, RingAssumption DEF Slots

(* The slots of the window, by their distance from ts_out_pos. *)
LEMMA AheadInWindow ==
  ASSUME TsTypeOK, NEW k \in 1 .. Outstanding
  PROVE  /\ Ahead(k - 1) \in Slots
         /\ Dist(ts_out_pos, Ahead(k - 1)) = k - 1
         /\ k - 1 \in 0 .. Size - 1
<1>1. k - 1 \in 0 .. Size - 1
  BY WindowType, RingAssumption
<1> QED BY <1>1, Wrap, DistAhead, RingAssumption DEF Ahead, TsTypeOK

(* The window maps to a sequence of frames and events, as long as it. *)
LEMMA EntriesType ==
  ASSUME RingInv
  PROVE  /\ Entries \in Seq(Entered)
         /\ Len(Entries) = Outstanding
<1>1. ASSUME NEW k \in 1 .. Outstanding
      PROVE  Entry(ts_array[Ahead(k - 1)]) \in Entered
  <2>1. /\ Ahead(k - 1) \in Slots
        /\ Dist(ts_out_pos, Ahead(k - 1)) = k - 1
    BY AheadInWindow DEF RingInv
  <2>2. CASE HoldsEvent(Ahead(k - 1))
    BY <2>1, <2>2
    DEF RingInv, TsTypeOK, TsItem, HoldsEvent, Entry, Entered
  <2>3. CASE ~HoldsEvent(Ahead(k - 1))
    <3>1. Ahead(k - 1) \in FrameSlots
      BY <2>1, <2>3, WindowType DEF FrameSlots, RingInv
    <3> QED BY <3>1, <2>3 DEF RingInv, FramesTimed, HoldsEvent, Entry, Entered
  <2> QED BY <2>2, <2>3
<1>2. Outstanding \in Nat
  BY WindowType DEF RingInv
<1> QED BY <1>1, <1>2 DEF Entries

(* A sequence as a function of its indices. *)
LEMMA SeqIsFunction ==
  ASSUME NEW S, NEW s \in Seq(S)
  PROVE  s = [k \in 1 .. Len(s) |-> s[k]]
OBVIOUS

(* Append as a function of the indices. *)
LEMMA AppendIs ==
  ASSUME NEW S, NEW s \in Seq(S), NEW x
  PROVE  Append(s, x) = [k \in 1 .. Len(s) + 1 |->
                           IF k = Len(s) + 1 THEN x ELSE s[k]]
<1>1. /\ s \in Seq(S \cup {x})
      /\ x \in S \cup {x}
      /\ Len(s) \in Nat
  OBVIOUS
<1>2. /\ Append(s, x) \in Seq(S \cup {x})
      /\ Len(Append(s, x)) = Len(s) + 1
      /\ \A k \in 1 .. Len(s) : Append(s, x)[k] = s[k]
      /\ Append(s, x)[Len(s) + 1] = x
  BY <1>1
<1>3. Append(s, x) = [k \in 1 .. Len(s) + 1 |-> Append(s, x)[k]]
  <2> DEFINE a == Append(s, x)
  <2>1. a \in Seq(S \cup {x}) /\ Len(a) = Len(s) + 1
    BY <1>2
  <2> HIDE DEF a
  <2>2. a = [k \in 1 .. Len(a) |-> a[k]]
    BY <2>1, SeqIsFunction
  <2>3. a = [k \in 1 .. Len(s) + 1 |-> a[k]]
    BY <2>1, <2>2
  <2> QED BY <2>3 DEF a
<1>4. ASSUME NEW k \in 1 .. Len(s) + 1
      PROVE  Append(s, x)[k] = IF k = Len(s) + 1 THEN x ELSE s[k]
  BY <1>1, <1>2
<1> QED BY <1>3, <1>4

(* Storing a frame or an event appends to the queue. *)
LEMMA StoreAppends ==
  ASSUME RingInv, RoomLeft, NEW item \in TsItem,
         ts_array' = [ts_array EXCEPT ![ts_in_pos] = item],
         Outstanding' = Outstanding + 1,
         UNCHANGED ts_out_pos
  PROVE  Entries' = Append(Entries, Entry(item))
<1>1. /\ Outstanding \in 0 .. Size - 1
      /\ ts_in_pos \in Slots
      /\ Dist(ts_out_pos, ts_in_pos) = Outstanding
      /\ Ahead(Outstanding) = ts_in_pos
  BY WindowType, DistType DEF RingInv, TsTypeOK, Outstanding, Ahead
<1>2. ASSUME NEW k \in 1 .. Outstanding
      PROVE  ts_array'[Ahead(k - 1)] = ts_array[Ahead(k - 1)]
  <2>1. /\ Ahead(k - 1) \in Slots
        /\ Dist(ts_out_pos, Ahead(k - 1)) = k - 1
    BY AheadInWindow DEF RingInv
  <2>2. Ahead(k - 1) # ts_in_pos
    BY <1>1, <2>1
  <2> QED BY <2>1, <2>2 DEF RingInv, TsTypeOK
<1>3. ts_array'[Ahead(Outstanding)] = item
  BY <1>1 DEF RingInv, TsTypeOK
<1>4. Entries' = [k \in 1 .. Outstanding + 1 |-> Entry(ts_array'[Ahead(k - 1)])]
  BY DEF Entries, Ahead
<1>5. Len(Entries) = Outstanding /\ Entries \in Seq(Entered)
  BY EntriesType
<1>6. Append(Entries, Entry(item)) =
        [k \in 1 .. Outstanding + 1 |->
           IF k = Outstanding + 1 THEN Entry(item) ELSE Entries[k]]
  <2> HIDE DEF Entries
  <2> QED BY <1>5, AppendIs
<1>7. ASSUME NEW k \in 1 .. Outstanding + 1
      PROVE  Entry(ts_array'[Ahead(k - 1)]) =
               IF k = Outstanding + 1 THEN Entry(item) ELSE Entries[k]
  <2>1. CASE k = Outstanding + 1
    <3>1. k - 1 = Outstanding
      BY <2>1, <1>1
    <3> QED BY <2>1, <3>1, <1>3
  <2>2. CASE k # Outstanding + 1
    <3>1. k \in 1 .. Outstanding
      BY <2>2, <1>1
    <3> QED BY <2>2, <3>1, <1>2 DEF Entries
  <2> QED BY <2>1, <2>2
<1> QED BY <1>4, <1>6, <1>7

(* What is left after n items as a function of the indices. *)
LEMMA SubSeqIs ==
  ASSUME NEW S, NEW s \in Seq(S), NEW n \in 0 .. Len(s)
  PROVE  SubSeq(s, n + 1, Len(s)) = [k \in 1 .. Len(s) - n |-> s[n + k]]
<1> DEFINE r == SubSeq(s, n + 1, Len(s))
<1>1. r \in Seq(S) /\ Len(r) = Len(s) - n
  OBVIOUS
<1>2. \A k \in 1 .. Len(s) - n : r[k] = s[n + k]
  OBVIOUS
<1> HIDE DEF r
<1>3. r = [k \in 1 .. Len(r) |-> r[k]]
  BY <1>1, SeqIsFunction
<1>4. r = [k \in 1 .. Len(s) - n |-> s[n + k]]
  BY <1>1, <1>2, <1>3
<1> QED BY <1>4 DEF r

(* Head and Tail as functions of the indices. *)
LEMMA TailIs ==
  ASSUME NEW S, NEW s \in Seq(S), s # <<>>
  PROVE  /\ Tail(s) = [k \in 1 .. Len(s) - 1 |-> s[1 + k]]
         /\ Head(s) = s[1]
<1> DEFINE r == Tail(s)
<1>1. r \in Seq(S) /\ Len(r) = Len(s) - 1 /\ Head(s) = s[1]
  OBVIOUS
<1>2. \A k \in 1 .. Len(s) - 1 : r[k] = s[1 + k]
  OBVIOUS
<1> HIDE DEF r
<1>3. r = [k \in 1 .. Len(r) |-> r[k]]
  BY <1>1, SeqIsFunction
<1>4. r = [k \in 1 .. Len(s) - 1 |-> s[1 + k]]
  BY <1>1, <1>2, <1>3
<1> QED BY <1>1, <1>4 DEF r

(* When the oldest n entries leave the window, the queue loses them. *)
LEMMA WindowMoves ==
  ASSUME RingInv, NEW n \in 0 .. Outstanding,
         ts_out_pos' = Ahead(n),
         Outstanding' = Outstanding - n,
         \A i \in Slots : n <= Dist(ts_out_pos, i) => ts_array'[i] = ts_array[i]
  PROVE  Entries' = [k \in 1 .. Outstanding - n |-> Entries[n + k]]
<1>1. Outstanding \in 0 .. Size - 1 /\ ts_out_pos \in Slots
  BY WindowType DEF RingInv, TsTypeOK
<1>2. Entries' = [k \in 1 .. Outstanding - n |->
                    Entry(ts_array'[(Ahead(n) + (k - 1)) % Size])]
  BY DEF Entries, Ahead
<1>3. ASSUME NEW k \in 1 .. Outstanding - n
      PROVE  Entry(ts_array'[(Ahead(n) + (k - 1)) % Size]) = Entries[n + k]
  <2>1. /\ n \in 0 .. Size - 1
        /\ k - 1 \in 0 .. Size - 1
        /\ n + (k - 1) < Size
        /\ n + k \in 1 .. Outstanding
        /\ n + (k - 1) = (n + k) - 1
        /\ n <= (n + k) - 1
    BY <1>1, RingAssumption
  <2>2. (Ahead(n) + (k - 1)) % Size = Ahead(n + (k - 1))
    BY <1>1, <2>1, AheadOfAhead
  <2>3. (Ahead(n) + (k - 1)) % Size = Ahead((n + k) - 1)
    BY <2>1, <2>2
  <2>4. /\ Ahead((n + k) - 1) \in Slots
        /\ Dist(ts_out_pos, Ahead((n + k) - 1)) = (n + k) - 1
    BY <2>1, AheadInWindow DEF RingInv
  <2>5. ts_array'[Ahead((n + k) - 1)] = ts_array[Ahead((n + k) - 1)]
    BY <2>1, <2>4
  <2>6. Entries[n + k] = Entry(ts_array[Ahead((n + k) - 1)])
    BY <2>1 DEF Entries
  <2> QED BY <2>3, <2>5, <2>6
<1> QED BY <1>2, <1>3

(* What a frame and an event become in the queue. *)
LEMMA StoredFrame ==
  ASSUME RingInv, RoomLeft, NEW t \in Times, StoreFrame(t)
  PROVE  Entries' = Append(Entries, [kind |-> "frame", of |-> t])
<1> DEFINE item == [time |-> t, event |-> NoEvent]
<1>1. /\ ts_in_pos \in Slots
      /\ Dist(ts_out_pos, ts_in_pos) = Outstanding
      /\ Outstanding \in 0 .. Size - 1
  BY WindowType DEF RingInv, TsTypeOK, Outstanding
<1>2. ts_array[ts_in_pos].event = NoEvent
  BY <1>1 DEF RingInv, WindowSound, HoldsEvent
<1>3. ts_array' = [ts_array EXCEPT ![ts_in_pos] = item]
  <2> DEFINE slot == ts_array[ts_in_pos]
  <2>1. slot \in TsItem
    BY <1>1 DEF RingInv, TsTypeOK
  <2>2. [slot EXCEPT !.time = t] = item
    BY <2>1, <1>2 DEF TsItem
  <2>3. ts_array' = [ts_array EXCEPT ![ts_in_pos] = [slot EXCEPT !.time = t]]
    BY DEF StoreFrame
  <2> HIDE DEF slot, item
  <2> QED BY <2>2, <2>3
<1>4. item \in TsItem
  BY DEF TsItem
<1>5. Outstanding' = Outstanding + 1 /\ UNCHANGED ts_out_pos
  BY StoreFrameKeeps DEF StoreFrame
<1>6. Entry(item) = [kind |-> "frame", of |-> t]
  BY DEF Entry
<1> HIDE DEF item
<1>7. Entries' = Append(Entries, Entry(item))
  BY <1>3, <1>4, <1>5, StoreAppends
<1> QED BY <1>6, <1>7

(* Storing an event appends it to the window's sequence. *)
LEMMA StoredEvent ==
  ASSUME RingInv, RoomLeft, NEW e \in Events, StoreEvent(e)
  PROVE  Entries' = Append(Entries, [kind |-> "event", of |-> e])
<1> DEFINE item == [time |-> ts_array[ts_in_pos].time, event |-> e]
<1>1. ts_in_pos \in Slots
  BY DEF RingInv, TsTypeOK
<1>2. ts_array' = [ts_array EXCEPT ![ts_in_pos] = item]
  <2> DEFINE slot == ts_array[ts_in_pos]
  <2>1. slot \in TsItem
    BY <1>1 DEF RingInv, TsTypeOK
  <2>2. [slot EXCEPT !.event = e] = item
    BY <2>1 DEF TsItem
  <2>3. ts_array' = [ts_array EXCEPT ![ts_in_pos] = [slot EXCEPT !.event = e]]
    BY DEF StoreEvent
  <2> HIDE DEF slot, item
  <2> QED BY <2>2, <2>3
<1>3. item \in TsItem
  BY <1>1 DEF TsItem, RingInv, TsTypeOK
<1>4. Outstanding' = Outstanding + 1 /\ UNCHANGED ts_out_pos
  BY StoreEventKeeps DEF StoreEvent
<1>5. Entry(item) = [kind |-> "event", of |-> e]
  BY RingAssumption DEF Entry
<1> HIDE DEF item
<1>6. Entries' = Append(Entries, Entry(item))
  BY <1>2, <1>3, <1>4, StoreAppends
<1> QED BY <1>5, <1>6

(* The loop over the pending events, as the queue sees it. *)
LEMMA ClearedEvents ==
  ASSUME RingInv, ClearEvents
  PROVE  \E n \in 0 .. Len(Entries) :
           /\ n = LeadingEvents
           /\ \A k \in 1 .. n : Entries[k].kind = "event"
           /\ n < Len(Entries) => Entries[n + 1].kind = "frame"
           /\ Entries' = SubSeq(Entries, n + 1, Len(Entries))
<1> DEFINE n == LeadingEvents
<1>1. /\ n \in 0 .. Outstanding
      /\ Outstanding \in 0 .. Size - 1
      /\ \A k \in 0 .. n - 1 : HoldsEvent(Ahead(k))
      /\ ~HoldsEvent(Ahead(n))
  BY LeadingEventsInWindow, LeadingEventsProperties DEF RingInv
<1>2. Len(Entries) = Outstanding /\ Entries \in Seq(Entered)
  BY EntriesType
<1>3. Entries' = [k \in 1 .. Outstanding - n |-> Entries[n + k]]
  BY <1>1, WindowMoves, ClearEventsKeeps
<1> HIDE DEF n
<1>4. Entries' = SubSeq(Entries, n + 1, Len(Entries))
  <2> HIDE DEF Entries
  <2> QED BY <1>1, <1>2, <1>3, SubSeqIs
<1>5. ASSUME NEW k \in 1 .. n  PROVE Entries[k].kind = "event"
  <2>1. k \in 1 .. Outstanding /\ k - 1 \in 0 .. n - 1
    BY <1>1
  <2>2. Entries[k] = Entry(ts_array[Ahead(k - 1)])
    BY <2>1 DEF Entries
  <2> QED BY <2>1, <2>2, <1>1 DEF Entry, HoldsEvent
<1>6. ASSUME n < Len(Entries)  PROVE Entries[n + 1].kind = "frame"
  <2>1. n + 1 \in 1 .. Outstanding /\ (n + 1) - 1 = n
    BY <1>1, <1>2, <1>6
  <2>2. Entries[n + 1] = Entry(ts_array[Ahead(n)])
    BY <2>1 DEF Entries
  <2> QED BY <2>2, <1>1 DEF Entry, HoldsEvent
<1> QED BY <1>1, <1>2, <1>4, <1>5, <1>6 DEF n

(* The frame at the head. *)
LEMMA HeadFrame ==
  ASSUME RingInv, ts_out_pos \in FrameSlots
  PROVE  /\ Entries # <<>>
         /\ Head(Entries) = [kind |-> "frame", of |-> FrameTime]
<1>1. Outstanding \in 0 .. Size - 1 /\ ts_out_pos \in Slots
  BY WindowType DEF RingInv, TsTypeOK
<1>2. 0 < Outstanding
  BY <1>1, DistType DEF FrameSlots
<1>3. Len(Entries) = Outstanding /\ Entries \in Seq(Entered)
  BY EntriesType
<1>4. Ahead(0) = ts_out_pos
  <2>1. 0 \in 0 .. Size /\ ts_out_pos + 0 < Size /\ ts_out_pos + 0 = ts_out_pos
    BY <1>1, RingAssumption DEF Slots
  <2> QED BY <1>1, <2>1, Wrap DEF Ahead
<1>5. Entries[1] = [kind |-> "frame", of |-> FrameTime]
  <2>1. 1 \in 1 .. Outstanding /\ 1 - 1 = 0
    BY <1>1, <1>2
  <2>2. Entries[1] = Entry(ts_array[Ahead(0)])
    BY <2>1 DEF Entries
  <2> QED BY <2>2, <1>4 DEF Entry, FrameSlots, HoldsEvent, FrameTime
<1> HIDE DEF Entries
<1>6. Entries # <<>>
  BY <1>2, <1>3
<1> QED BY <1>3, <1>5, <1>6, TailIs

(* A frame leaving the ring takes the head off the queue. *)
LEMMA HeadTaken ==
  ASSUME RingInv, ts_out_pos \in FrameSlots,
         ts_out_pos' = (ts_out_pos + 1) % Size,
         Outstanding' = Outstanding - 1,
         UNCHANGED ts_array
  PROVE  Entries' = Tail(Entries)
<1>1. Outstanding \in 0 .. Size - 1 /\ ts_out_pos \in Slots
  BY WindowType DEF RingInv, TsTypeOK
<1>2. 1 \in 0 .. Outstanding
  BY <1>1, DistType DEF FrameSlots
<1>3. Entries' = [k \in 1 .. Outstanding - 1 |-> Entries[1 + k]]
  BY <1>2, WindowMoves DEF Ahead
<1>4. Len(Entries) = Outstanding /\ Entries \in Seq(Entered) /\ Entries # <<>>
  BY EntriesType, HeadFrame
<1> HIDE DEF Entries
<1> QED BY <1>3, <1>4, TailIs

----------------------------------------------------------------------------
(* The ring implements the FIFO of frames and events with flush marks:     *)
(* what output_loop pushes is what was stored, in order, once, and nothing *)
(* that a flush has marked.                                                *)
THEOREM RingImplementsQueue == Spec => ImplementsTsQueue
<1>1. Init => TQ!Init
  <2> SUFFICES ASSUME Init  PROVE TQ!Init
    OBVIOUS
  <2>1. Outstanding = 0 /\ Flushed = 0 /\ sent = <<>>
    BY InitHolds DEF Init
  <2> QED BY <2>1 DEF TQ!Init
<1>2. IInv /\ [Next]_vars => [TQ!Next]_(TQ!vars)
  <2> SUFFICES ASSUME IInv, [Next]_vars
               PROVE  TQ!Next \/ UNCHANGED TQ!vars
    OBVIOUS
  <2> USE DEF IInv
  <2>1. ASSUME NEW t \in Times, Chain(t)  PROVE TQ!Next
    <3>1. /\ Entries' = Append(Entries, TQ!Frame(t))
          /\ Flushed' = Flushed
          /\ sent' = sent
      BY <2>1, StoredFrame, StoreFrameKeeps DEF Chain, TQ!Frame
    <3>2. TQ!Store(TQ!Frame(t))
      BY <3>1 DEF TQ!Store, Entries, Entry
    <3> QED BY <3>2 DEF TQ!Next
  <2>2. ASSUME NEW e \in Events, NewSegment(e)  PROVE TQ!Next
    <3>1. /\ Entries' = Append(Entries, TQ!Segment(e))
          /\ Flushed' = Flushed
          /\ sent' = sent
      BY <2>2, StoredEvent, StoreEventKeeps DEF NewSegment, TQ!Segment
    <3>2. TQ!Store(TQ!Segment(e))
      BY <3>1 DEF TQ!Store, Entries, Entry
    <3> QED BY <3>2 DEF TQ!Next
  <2>3. CASE BeginFrame \/ BeginEmpty \/ CheckFlushed \/ Abandon
             \/ UNCHANGED vars
    <3>1. UNCHANGED <<tsVars, sent>>
      BY <2>3 DEF BeginFrame, BeginEmpty, CheckFlushed, Abandon, vars, tsVars
    <3> QED BY <3>1 DEF TQ!vars, tsVars, Outstanding, Flushed, Ahead
  <2>4. CASE PushEvents
    <3>1. PICK n \in 0 .. Len(Entries) :
            /\ n = LeadingEvents
            /\ \A k \in 1 .. n : Entries[k].kind = "event"
            /\ n < Len(Entries) => Entries[n + 1].kind = "frame"
            /\ Entries' = SubSeq(Entries, n + 1, Len(Entries))
      BY <2>4, ClearedEvents DEF PushEvents
    <3>2. Flushed' = IF Flushed < n THEN 0 ELSE Flushed - n
      BY <2>4, <3>1, ClearEventsKeeps DEF PushEvents
    <3>3. sent' = [k \in 1 .. (IF Flushed < n THEN n - Flushed ELSE 0)
                     |-> Entries[Flushed + k]]
      <4> DEFINE m == IF Flushed < n THEN n - Flushed ELSE 0
      <4>1. /\ n \in 0 .. Outstanding
            /\ Outstanding \in 0 .. Size - 1
            /\ Flushed \in 0 .. Size - 1
            /\ \A k \in 0 .. n - 1 : HoldsEvent(Ahead(k))
        BY <3>1, LeadingEventsInWindow, LeadingEventsProperties, WindowType
        DEF RingInv
      <4>2. EventsPushed = [k \in 1 .. m |-> ts_array[Ahead(Flushed + k - 1)].event]
        BY <3>1 DEF EventsPushed
      <4>3. sent' = [k \in DOMAIN EventsPushed |->
                       [kind |-> "event", of |-> EventsPushed[k]]]
        BY <2>4 DEF PushEvents
      <4>4. ASSUME NEW k \in 1 .. m
            PROVE  [kind |-> "event", of |-> ts_array[Ahead(Flushed + k - 1)].event]
                     = Entries[Flushed + k]
        <5>1. /\ Flushed + k \in 1 .. Outstanding
              /\ (Flushed + k) - 1 = Flushed + k - 1
              /\ Flushed + k - 1 \in 0 .. n - 1
          BY <4>1
        <5>2. Entries[Flushed + k] = Entry(ts_array[Ahead(Flushed + k - 1)])
          BY <5>1 DEF Entries
        <5> QED BY <5>1, <5>2, <4>1 DEF Entry, HoldsEvent
      <4>5. DOMAIN EventsPushed = 1 .. m
        BY <4>2
      <4>6. sent' = [k \in 1 .. m |->
                       [kind |-> "event",
                        of |-> ts_array[Ahead(Flushed + k - 1)].event]]
        <5> HIDE DEF m
        <5> QED BY <4>2, <4>3, <4>5
      <4> HIDE DEF Entries
      <4> QED BY <4>4, <4>6
    <3>4. TQ!LeadsWith(n)
      BY <3>1 DEF TQ!LeadsWith, Entries, Entry
    <3>5. TQ!ClearEvents
      BY <3>1, <3>2, <3>3, <3>4 DEF TQ!ClearEvents, Entries, Entry
    <3> QED BY <3>5 DEF TQ!Next
  <2>5. CASE DropFlushed
    <3>1. ts_out_pos \in FrameSlots /\ HeadFlushed
      BY <2>5 DEF DropFlushed, ReaderInv, ReaderFindsFrame, FlushCheckHolds
    <3>2. /\ Flushed' = Flushed - 1
          /\ Outstanding' = Outstanding - 1
      BY <2>5, <3>1, HeadLeaves DEF DropFlushed, DropFrame
    <3>3. Entries' = Tail(Entries)
      BY <2>5, <3>1, <3>2, HeadTaken DEF DropFlushed, DropFrame
    <3>4. Entries # <<>> /\ Head(Entries).kind = "frame"
      BY <3>1, HeadFrame
    <3>5. Flushed > 0
      BY <3>1, DistType DEF HeadFlushed, Flushed, RingInv, TsTypeOK
    <3>6. TQ!Drop
      BY <2>5, <3>2, <3>3, <3>4, <3>5
      DEF TQ!Drop, TQ!HeadIsFrame, Entries, Entry, DropFlushed
    <3> QED BY <3>6 DEF TQ!Next
  <2>6. CASE PushFrame
    <3>1. ts_out_pos \in FrameSlots /\ ~HeadFlushed
      BY <2>6 DEF PushFrame, ReaderInv, ReaderFindsFrame, FlushCheckHolds
    <3>2. Flushed = 0
      BY <3>1, DistType DEF HeadFlushed, Flushed, RingInv, TsTypeOK
    <3>3. /\ Flushed' = 0
          /\ Outstanding' = Outstanding - 1
      BY <2>6, <3>1, HeadLeaves DEF PushFrame, TakeFrame
    <3>4. Entries' = Tail(Entries)
      BY <2>6, <3>1, <3>3, HeadTaken DEF PushFrame, TakeFrame
    <3>5. /\ Entries # <<>>
          /\ Head(Entries) = [kind |-> "frame", of |-> FrameTime]
      BY <3>1, HeadFrame
    <3>6. sent' = <<Head(Entries)>> /\ Head(Entries).kind = "frame"
      BY <2>6, <3>5 DEF PushFrame
    <3>7. TQ!Deliver
      BY <3>2, <3>3, <3>4, <3>5, <3>6
      DEF TQ!Deliver, TQ!HeadIsFrame, Entries, Entry
    <3> QED BY <3>7 DEF TQ!Next
  <2>7. CASE Flush
    <3>1. /\ Outstanding' = Outstanding
          /\ Flushed' = Outstanding
          /\ UNCHANGED <<ts_array, ts_out_pos, sent>>
      BY <2>7, FlushRingKeeps DEF Flush, FlushRing
    <3>2. Entries' = Entries /\ Len(Entries) = Outstanding
      BY <3>1, EntriesType DEF Entries, Ahead
    <3>3. TQ!Flush
      BY <3>1, <3>2 DEF TQ!Flush, Entries, Entry
    <3> QED BY <3>3 DEF TQ!Next
  <2>8. CASE Reset
    <3>1. Outstanding' = 0 /\ Flushed' = 0 /\ sent' = sent
      BY <2>8, ResetRingKeeps DEF Reset
    <3>2. Entries' = <<>>
      BY <3>1 DEF Entries
    <3>3. TQ!Reset
      BY <3>1, <3>2 DEF TQ!Reset, Entries, Entry
    <3> QED BY <3>3 DEF TQ!Next
  <2> QED BY <2>1, <2>2, <2>3, <2>4, <2>5, <2>6, <2>7, <2>8 DEF Next
<1> QED BY <1>1, <1>2, RingCorrect, PTL DEF Spec, ImplementsTsQueue, TQ!Spec

=============================================================================
