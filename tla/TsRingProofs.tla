---------------------------- MODULE TsRingProofs ---------------------------
(***************************************************************************)
(* What each operation on the ring of timestamps keeps and changes, for    *)
(* every size of the ring, as long as its slots are not overrun            *)
(* (RoomLeft).                                                             *)
(***************************************************************************)
EXTENDS TsRing, FiniteSetTheorems, WellFoundedInduction, TLAPS

(* Every non-empty set of natural numbers has a least element: the         *)
(* intervals 0 .. n are finite sets ordered by inclusion as the n are.     *)
LEMMA Least ==
  ASSUME NEW T \in SUBSET Nat, T # {}
  PROVE  \E m \in T : \A k \in T : m <= k
<1> DEFINE F == {0 .. n : n \in T}
           R == StrictSubsetOrdering(Nat)
           S == FiniteSubsetsOf(Nat)
<1>1. F \subseteq S /\ F # {}
  <2>1. ASSUME NEW n \in T  PROVE 0 .. n \in S
    <3>1. IsFiniteSet(0 .. n)
      BY FS_Interval
    <3> QED BY <3>1 DEF FiniteSubsetsOf
  <2> QED BY <2>1
<1>2. IsWellFoundedOn(R, S)
  BY FS_StrictSubsetOrderingWellFounded
<1>3. PICK X \in F : \A Y \in F : <<Y, X>> \notin R
  <2> HIDE DEF F, R, S
  <2> QED BY <1>1, <1>2, WFMin
<1>4. PICK m \in T : X = 0 .. m
  OBVIOUS
<1>5. ASSUME NEW k \in T, k < m  PROVE FALSE
  <2>1. 0 .. k \subseteq 0 .. m /\ m \notin 0 .. k /\ m \in 0 .. m
    BY <1>5
  <2>2. <<0 .. k, X>> \in R
    BY <2>1, <1>4 DEF StrictSubsetOrdering
  <2> QED BY <2>2, <1>3
<1> QED BY <1>5

----------------------------------------------------------------------------
(* Arithmetic on slots.                                                    *)

(* An index that has moved by at most one turn wraps once, to a slot. *)
LEMMA Wrap ==
  ASSUME NEW a \in Slots, NEW n \in 0 .. Size
  PROVE  /\ (a + n) % Size = IF a + n < Size THEN a + n ELSE a + n - Size
         /\ (a + n) % Size \in Slots
  BY RingAssumption DEF Slots

(* The distance between two slots is less than a turn, and is what takes   *)
(* one to the other.                                                       *)
LEMMA DistType ==
  ASSUME NEW a \in Slots, NEW b \in Slots
  PROVE  /\ Dist(a, b) \in 0 .. Size - 1
         /\ Dist(a, b) = 0 <=> a = b
         /\ (a + Dist(a, b)) % Size = b
<1>1. Dist(a, b) \in 0 .. Size - 1 /\ (Dist(a, b) = 0 <=> a = b)
  BY RingAssumption DEF Slots, Dist
<1>2. (a + Dist(a, b)) % Size =
        IF a + Dist(a, b) < Size THEN a + Dist(a, b) ELSE a + Dist(a, b) - Size
  BY <1>1, Wrap, RingAssumption
<1>3. (a + Dist(a, b)) % Size = b
  BY <1>2, RingAssumption DEF Slots, Dist
<1> QED BY <1>1, <1>3

(* n slots ahead is at distance n. *)
LEMMA DistAhead ==
  ASSUME NEW a \in Slots, NEW n \in 0 .. Size - 1
  PROVE  Dist(a, (a + n) % Size) = n
<1>1. (a + n) % Size = IF a + n < Size THEN a + n ELSE a + n - Size
  BY Wrap, RingAssumption
<1> QED BY <1>1, RingAssumption DEF Slots, Dist

(* Moving the origin n slots ahead brings everything n slots nearer, and   *)
(* what was nearer than that goes to the far end.                          *)
LEMMA DistFrom ==
  ASSUME NEW a \in Slots, NEW b \in Slots, NEW n \in 0 .. Size - 1
  PROVE  Dist((a + n) % Size, b) =
           IF n <= Dist(a, b) THEN Dist(a, b) - n ELSE Dist(a, b) - n + Size
<1>1. (a + n) % Size = IF a + n < Size THEN a + n ELSE a + n - Size
  BY Wrap, RingAssumption
<1> QED BY <1>1, RingAssumption DEF Slots, Dist

(* The next slot is one further away, short of a full turn. *)
LEMMA DistNext ==
  ASSUME NEW a \in Slots, NEW b \in Slots, Dist(a, b) < Size - 1
  PROVE  Dist(a, (b + 1) % Size) = Dist(a, b) + 1
<1>1. (b + 1) % Size = IF b + 1 < Size THEN b + 1 ELSE b + 1 - Size
  BY Wrap, RingAssumption
<1> QED BY <1>1, RingAssumption DEF Slots, Dist

----------------------------------------------------------------------------
(* The loop over the pending events stops at the first slot that holds     *)
(* none.                                                                   *)
LEMMA LeadingEventsProperties ==
  ASSUME TsTypeOK
  PROVE  /\ LeadingEvents \in 0 .. Size
         /\ \A k \in 0 .. LeadingEvents - 1 : HoldsEvent(Ahead(k))
         /\ LeadingEvents = Size \/ ~HoldsEvent(Ahead(LeadingEvents))
<1> DEFINE Stops == {n \in 0 .. Size : n = Size \/ ~HoldsEvent(Ahead(n))}
<1>1. Stops \in SUBSET Nat /\ Size \in Stops
  BY RingAssumption
<1>2. PICK m \in Stops : \A k \in Stops : m <= k
  <2> HIDE DEF Stops
  <2> QED BY <1>1, Least
<1>3. \A k \in 0 .. m - 1 : HoldsEvent(Ahead(k))
  BY <1>2, RingAssumption
<1>4. \E n \in 0 .. Size :
        /\ \A k \in 0 .. n - 1 : HoldsEvent(Ahead(k))
        /\ n = Size \/ ~HoldsEvent(Ahead(n))
  BY <1>3
<1> QED BY <1>4 DEF LeadingEvents

----------------------------------------------------------------------------
(* The ring's invariant: besides the count and the window, that the slots  *)
(* of the outstanding frames hold timestamps.                              *)
FramesTimed == \A i \in FrameSlots : ts_array[i].time \in Times

RingInv == TsTypeOK /\ CountIsFrames /\ WindowSound /\ FramesTimed

(* Finitely many slots hold a frame. *)
LEMMA FrameSlotsFinite == IsFiniteSet(FrameSlots)
<1>1. IsFiniteSet(Slots)
  BY FS_Interval, RingAssumption DEF Slots
<1> QED BY <1>1, FS_Subset DEF FrameSlots

(* The window and its flushed part are shorter than the ring. *)
LEMMA WindowType ==
  ASSUME TsTypeOK
  PROVE  Outstanding \in 0 .. Size - 1 /\ Flushed \in 0 .. Size - 1
  BY DistType DEF TsTypeOK, Outstanding, Flushed

(* pad_chain adds the slot at ts_in_pos to the frames outstanding. *)
LEMMA StoreFrameKeeps ==
  ASSUME NEW t \in Times, RingInv, RoomLeft, StoreFrame(t)
  PROVE  /\ RingInv'
         /\ FrameSlots' = FrameSlots \cup {ts_in_pos}
         /\ Outstanding' = Outstanding + 1
         /\ Flushed' = Flushed
         /\ ts_count' > 0
<1> USE DEF RingInv
<1>1. Outstanding' = Outstanding + 1 /\ Flushed' = Flushed
  BY DistNext DEF StoreFrame, Outstanding, Flushed, RoomLeft, TsTypeOK
<1>2. /\ ts_in_pos \in Slots
      /\ Dist(ts_out_pos, ts_in_pos) = Outstanding
      /\ Outstanding \in 0 .. Size - 1
      /\ ts_out_pos' = ts_out_pos
  BY WindowType DEF TsTypeOK, Outstanding, StoreFrame
<1>3. ~HoldsEvent(ts_in_pos)
  BY <1>2 DEF WindowSound
<1>4. \A i \in Slots : HoldsEvent(i)' <=> HoldsEvent(i)
  BY DEF StoreFrame, HoldsEvent, TsTypeOK, TsItem
<1>5. TsTypeOK'
  <2>1. ts_array' \in [Slots -> TsItem]
    BY DEF StoreFrame, TsTypeOK, TsItem
  <2>2. ts_in_pos' \in Slots
    BY Wrap, RingAssumption DEF StoreFrame, TsTypeOK
  <2> QED BY <2>1, <2>2 DEF StoreFrame, TsTypeOK
<1>6. ASSUME NEW i \in Slots
      PROVE  Dist(ts_out_pos, i) < Outstanding + 1
               <=> Dist(ts_out_pos, i) < Outstanding \/ i = ts_in_pos
  <2>1. Dist(ts_out_pos, i) \in 0 .. Size - 1
    BY DistType DEF TsTypeOK
  <2>2. Dist(ts_out_pos, i) = Outstanding => i = ts_in_pos
    BY <1>2, DistType DEF TsTypeOK
  <2> QED BY <2>1, <2>2, <1>2
<1>7. FrameSlots' = FrameSlots \cup {ts_in_pos}
  BY <1>1, <1>2, <1>3, <1>4, <1>6 DEF FrameSlots
<1>8. ts_in_pos \notin FrameSlots
  BY <1>2 DEF FrameSlots
<1>9. CountIsFrames'
  BY <1>7, <1>8, FrameSlotsFinite, FS_AddElement
  DEF CountIsFrames, StoreFrame
<1>10. WindowSound'
  BY <1>1, <1>2, <1>4, <1>6, WindowType DEF WindowSound
<1>11. FramesTimed'
  <2>1. \A i \in Slots : i # ts_in_pos => ts_array'[i] = ts_array[i]
    BY DEF StoreFrame, TsTypeOK
  <2>2. ts_array'[ts_in_pos].time = t
    BY <1>2 DEF StoreFrame, TsTypeOK, TsItem
  <2> QED BY <2>1, <2>2, <1>7 DEF FramesTimed, FrameSlots
<1> QED BY <1>1, <1>5, <1>7, <1>9, <1>10, <1>11 DEF StoreFrame, TsTypeOK

(* sink_event's NEWSEGMENT extends the window by a slot without a frame. *)
LEMMA StoreEventKeeps ==
  ASSUME NEW e \in Events, RingInv, RoomLeft, StoreEvent(e)
  PROVE  /\ RingInv'
         /\ FrameSlots' = FrameSlots
         /\ Outstanding' = Outstanding + 1
         /\ Flushed' = Flushed
<1> USE DEF RingInv
<1>1. Outstanding' = Outstanding + 1 /\ Flushed' = Flushed
  BY DistNext DEF StoreEvent, Outstanding, Flushed, RoomLeft, TsTypeOK
<1>2. /\ ts_in_pos \in Slots
      /\ Dist(ts_out_pos, ts_in_pos) = Outstanding
      /\ Outstanding \in 0 .. Size - 1
      /\ ts_out_pos' = ts_out_pos
  BY WindowType DEF TsTypeOK, Outstanding, StoreEvent
<1>3. ts_array'[ts_in_pos].event = e /\ e # NoEvent
  BY <1>2, RingAssumption DEF StoreEvent, TsTypeOK, TsItem
<1>4. \A i \in Slots : i # ts_in_pos => ts_array'[i] = ts_array[i]
  BY DEF StoreEvent, TsTypeOK
<1>5. TsTypeOK'
  <2>1. ts_array' \in [Slots -> TsItem]
    BY DEF StoreEvent, TsTypeOK, TsItem
  <2>2. ts_in_pos' \in Slots
    BY Wrap, RingAssumption DEF StoreEvent, TsTypeOK
  <2> QED BY <2>1, <2>2 DEF StoreEvent, TsTypeOK
<1>6. ASSUME NEW i \in Slots
      PROVE  Dist(ts_out_pos, i) < Outstanding + 1
               <=> Dist(ts_out_pos, i) < Outstanding \/ i = ts_in_pos
  <2>1. Dist(ts_out_pos, i) \in 0 .. Size - 1
    BY DistType DEF TsTypeOK
  <2>2. Dist(ts_out_pos, i) = Outstanding => i = ts_in_pos
    BY <1>2, DistType DEF TsTypeOK
  <2> QED BY <2>1, <2>2, <1>2
<1>7. FrameSlots' = FrameSlots
  BY <1>1, <1>2, <1>3, <1>4, <1>6 DEF FrameSlots, HoldsEvent
<1>8. CountIsFrames'
  BY <1>7 DEF CountIsFrames, StoreEvent
<1>9. WindowSound'
  BY <1>1, <1>2, <1>4, <1>6, WindowType DEF WindowSound, HoldsEvent
<1>10. FramesTimed'
  BY <1>2, <1>4, <1>7 DEF FramesTimed, FrameSlots
<1> QED BY <1>1, <1>5, <1>7, <1>8, <1>9, <1>10

(* The pending events are all inside the window. *)
LEMMA LeadingEventsInWindow ==
  ASSUME RingInv
  PROVE  /\ LeadingEvents \in 0 .. Outstanding
         /\ Outstanding \in 0 .. Size - 1
         /\ \A i \in Slots : Dist(ts_out_pos, i) < LeadingEvents => HoldsEvent(i)
         /\ ~HoldsEvent(Ahead(LeadingEvents))
<1> USE DEF RingInv
<1>1. Outstanding \in 0 .. Size - 1
  BY WindowType
<1>2. ~HoldsEvent(Ahead(Outstanding))
  <2>1. /\ Ahead(Outstanding) \in Slots
        /\ Dist(ts_out_pos, Ahead(Outstanding)) = Outstanding
    BY <1>1, Wrap, DistAhead, RingAssumption DEF Ahead, TsTypeOK
  <2> QED BY <1>1, <2>1 DEF WindowSound
<1>3. LeadingEvents \in 0 .. Outstanding
  BY <1>1, <1>2, LeadingEventsProperties
<1>4. ASSUME NEW i \in Slots, Dist(ts_out_pos, i) < LeadingEvents
      PROVE  HoldsEvent(i)
  <2>1. /\ Dist(ts_out_pos, i) \in 0 .. LeadingEvents - 1
        /\ Ahead(Dist(ts_out_pos, i)) = i
    BY <1>1, <1>3, <1>4, DistType DEF Ahead, TsTypeOK
  <2> QED BY <2>1, LeadingEventsProperties
<1> QED BY <1>1, <1>3, <1>4, LeadingEventsProperties, RingAssumption

(* output_loop's loop over the pending events takes them, and no frame,    *)
(* out of the window.                                                      *)
LEMMA ClearEventsKeeps ==
  ASSUME RingInv, ClearEvents
  PROVE  /\ RingInv'
         /\ FrameSlots' = FrameSlots
         /\ ts_out_pos' = Ahead(LeadingEvents)
         /\ Outstanding' = Outstanding - LeadingEvents
         /\ Flushed' = IF Flushed < LeadingEvents THEN 0
                       ELSE Flushed - LeadingEvents
         /\ ~HoldsEvent(ts_out_pos)'
         /\ \A i \in Slots :
              LeadingEvents <= Dist(ts_out_pos, i) => ts_array'[i] = ts_array[i]
<1> DEFINE n == LeadingEvents
<1> USE DEF RingInv
<1>1. /\ n \in 0 .. Outstanding
      /\ n \in 0 .. Size - 1
      /\ Outstanding \in 0 .. Size - 1
      /\ Flushed \in 0 .. Outstanding
      /\ \A i \in Slots : Dist(ts_out_pos, i) < n => HoldsEvent(i)
      /\ ~HoldsEvent(Ahead(n))
  <2>1. Flushed \in 0 .. Size - 1
    BY WindowType
  <2>2. Flushed <= Outstanding
    BY DEF WindowSound
  <2>3. /\ n \in 0 .. Outstanding
        /\ Outstanding \in 0 .. Size - 1
        /\ \A i \in Slots : Dist(ts_out_pos, i) < n => HoldsEvent(i)
        /\ ~HoldsEvent(Ahead(n))
    BY LeadingEventsInWindow
  <2> HIDE DEF n
  <2> QED BY <2>1, <2>2, <2>3, RingAssumption
<1> HIDE DEF n
<1>2. /\ ts_array' = [i \in Slots |->
                        IF Dist(ts_out_pos, i) < n
                        THEN [ts_array[i] EXCEPT !.event = NoEvent]
                        ELSE ts_array[i]]
      /\ ts_out_pos' = Ahead(n)
      /\ ts_push_pos' = IF Flushed < n THEN Ahead(n) ELSE ts_push_pos
      /\ ts_in_pos' = ts_in_pos
      /\ ts_count' = ts_count
  BY DEF ClearEvents, n
<1>3. TsTypeOK'
  <2>1. Ahead(n) \in Slots
    BY <1>1, Wrap, RingAssumption DEF Ahead, TsTypeOK
  <2>2. ts_array' \in [Slots -> TsItem]
    BY <1>2 DEF TsTypeOK, TsItem
  <2> QED BY <1>2, <2>1, <2>2 DEF TsTypeOK
<1>4. ASSUME NEW i \in Slots
      PROVE  /\ Dist(ts_out_pos, i) \in 0 .. Size - 1
             /\ Dist(ts_out_pos', i) =
                  IF n <= Dist(ts_out_pos, i) THEN Dist(ts_out_pos, i) - n
                  ELSE Dist(ts_out_pos, i) - n + Size
  BY <1>1, <1>2, DistType, DistFrom DEF Ahead, TsTypeOK
<1>5. Outstanding' = Outstanding - n
  BY <1>1, <1>2, <1>4 DEF Outstanding, TsTypeOK
<1>6. Flushed' = IF Flushed < n THEN 0 ELSE Flushed - n
  <2>1. CASE Flushed < n
    <3>1. Flushed' = Dist(ts_out_pos', ts_out_pos')
      BY <1>2, <2>1 DEF Flushed
    <3> QED BY <2>1, <3>1, <1>3, DistType DEF TsTypeOK
  <2>2. CASE ~(Flushed < n)
    BY <1>1, <1>2, <1>4, <2>2 DEF Flushed, TsTypeOK
  <2> QED BY <2>1, <2>2
<1>7. ASSUME NEW i \in Slots
      PROVE  /\ Dist(ts_out_pos, i) < n => ~HoldsEvent(i)'
             /\ n <= Dist(ts_out_pos, i) => ts_array'[i] = ts_array[i]
  BY <1>1, <1>2, <1>4 DEF HoldsEvent, TsTypeOK, TsItem
<1>8. FrameSlots' = FrameSlots
  <2>1. ASSUME NEW i \in Slots
        PROVE  (Dist(ts_out_pos, i) < Outstanding /\ ~HoldsEvent(i))
                 <=> (Dist(ts_out_pos', i) < Outstanding' /\ ~HoldsEvent(i)')
    <3>1. CASE Dist(ts_out_pos, i) < n
      <4>1. HoldsEvent(i)
        BY <3>1, <1>1
      <4>2. ~(Dist(ts_out_pos', i) < Outstanding')
        BY <3>1, <1>1, <1>4, <1>5, RingAssumption
      <4> QED BY <4>1, <4>2
    <3>2. CASE n <= Dist(ts_out_pos, i)
      <4>1. HoldsEvent(i)' <=> HoldsEvent(i)
        BY <3>2, <1>7 DEF HoldsEvent
      <4> QED BY <4>1, <3>2, <1>1, <1>4, <1>5
    <3> QED BY <3>1, <3>2, <1>1, <1>4
  <2> QED BY <2>1 DEF FrameSlots
<1>9. CountIsFrames'
  BY <1>2, <1>8 DEF CountIsFrames
<1>10. WindowSound'
  <2>1. Flushed' <= Outstanding'
    BY <1>1, <1>5, <1>6
  <2>2. ASSUME NEW i \in Slots, HoldsEvent(i)'
        PROVE  Dist(ts_out_pos', i) < Outstanding'
    BY <2>2, <1>1, <1>4, <1>5, <1>7 DEF WindowSound, HoldsEvent
  <2> QED BY <2>1, <2>2 DEF WindowSound
<1>11. FramesTimed'
  BY <1>1, <1>4, <1>7, <1>8 DEF FramesTimed, FrameSlots
<1>12. ~HoldsEvent(ts_out_pos)'
  <2>1. ts_out_pos' \in Slots /\ Dist(ts_out_pos, ts_out_pos') = n
    BY <1>1, <1>2, <1>3, DistAhead DEF Ahead, TsTypeOK
  <2>2. ts_array'[ts_out_pos'] = ts_array[Ahead(n)]
    BY <1>1, <1>2, <1>7, <2>1
  <2> QED BY <1>1, <2>2 DEF HoldsEvent
<1> QED BY <1>2, <1>3, <1>5, <1>6, <1>7, <1>8, <1>9, <1>10, <1>11, <1>12 DEF n

(* The frame at the head leaves the window, dropped or taken. *)
LEMMA HeadLeaves ==
  ASSUME RingInv, ts_out_pos \in FrameSlots,
         ts_out_pos' = (ts_out_pos + 1) % Size,
         ts_count' = ts_count - 1,
         UNCHANGED <<ts_array, ts_in_pos>>,
         \/ ts_push_pos' = ts_push_pos /\ HeadFlushed
         \/ ts_push_pos' = ts_out_pos' /\ ~HeadFlushed
  PROVE  /\ RingInv'
         /\ FrameSlots' = FrameSlots \ {ts_out_pos}
         /\ Outstanding' = Outstanding - 1
         /\ Flushed' = IF HeadFlushed THEN Flushed - 1 ELSE 0
<1> USE DEF RingInv
<1>1. /\ Outstanding \in 0 .. Size - 1
      /\ Flushed \in 0 .. Size - 1
      /\ Flushed = 0 <=> ~HeadFlushed
      /\ Flushed <= Outstanding
  BY WindowType, DistType DEF WindowSound, Flushed, HeadFlushed, TsTypeOK
<1>2. Dist(ts_out_pos, ts_out_pos) = 0 /\ 0 < Outstanding /\ ts_out_pos \in Slots
  BY DistType DEF FrameSlots, TsTypeOK
<1>3. ASSUME NEW i \in Slots
      PROVE  /\ Dist(ts_out_pos, i) \in 0 .. Size - 1
             /\ i = ts_out_pos <=> Dist(ts_out_pos, i) = 0
             /\ Dist(ts_out_pos', i) =
                  IF i = ts_out_pos THEN Size - 1 ELSE Dist(ts_out_pos, i) - 1
  <2>1. Dist(ts_out_pos, i) \in 0 .. Size - 1
    BY DistType DEF TsTypeOK
  <2>2. i = ts_out_pos <=> Dist(ts_out_pos, i) = 0
    BY DistType DEF TsTypeOK
  <2>3. Dist(ts_out_pos', i) =
          IF 1 <= Dist(ts_out_pos, i) THEN Dist(ts_out_pos, i) - 1
          ELSE Dist(ts_out_pos, i) - 1 + Size
    BY DistFrom, RingAssumption DEF TsTypeOK
  <2> QED BY <2>1, <2>2, <2>3, RingAssumption
<1>4. ts_out_pos' \in Slots
  BY <1>2, Wrap, RingAssumption
<1>5. Outstanding' = Outstanding - 1
  BY <1>1, <1>2, <1>3 DEF Outstanding, TsTypeOK
<1>6. Flushed' = IF HeadFlushed THEN Flushed - 1 ELSE 0
  <2>1. CASE HeadFlushed
    BY <1>3, <2>1 DEF Flushed, HeadFlushed, TsTypeOK
  <2>2. CASE ~HeadFlushed
    <3>1. Flushed' = Dist(ts_out_pos', ts_out_pos')
      BY <2>2 DEF Flushed, HeadFlushed
    <3> QED BY <2>2, <3>1, <1>4, DistType
  <2> QED BY <2>1, <2>2
<1>7. FrameSlots' = FrameSlots \ {ts_out_pos}
  <2>1. ASSUME NEW i \in Slots
        PROVE  Dist(ts_out_pos', i) < Outstanding'
                 <=> Dist(ts_out_pos, i) < Outstanding /\ i # ts_out_pos
    <3>1. CASE i = ts_out_pos
      BY <3>1, <1>1, <1>2, <1>3, <1>5, RingAssumption
    <3>2. CASE i # ts_out_pos
      BY <3>2, <1>1, <1>3, <1>5, RingAssumption
    <3> QED BY <3>1, <3>2
  <2> QED BY <2>1 DEF FrameSlots, HoldsEvent
<1>8. FrameSlots # {} /\ Cardinality(FrameSlots) \in Nat
  BY FrameSlotsFinite, FS_CardinalityType
<1>9. Cardinality(FrameSlots') = Cardinality(FrameSlots) - 1
  BY <1>7, FrameSlotsFinite, FS_RemoveElement
<1>10. TsTypeOK' /\ CountIsFrames'
  <2>1. Cardinality(FrameSlots) # 0
    BY <1>8, FrameSlotsFinite, FS_EmptySet
  <2>2. ts_count' \in Nat /\ ts_count' = Cardinality(FrameSlots')
    BY <2>1, <1>8, <1>9 DEF CountIsFrames
  <2> QED BY <2>2, <1>4 DEF CountIsFrames, TsTypeOK
<1>11. WindowSound'
  <2>1. Flushed' <= Outstanding'
    BY <1>1, <1>2, <1>5, <1>6
  <2>2. ASSUME NEW i \in Slots, ts_array'[i].event # NoEvent
        PROVE  Dist(ts_out_pos', i) < Outstanding'
    <3>1. HoldsEvent(i) /\ i # ts_out_pos
      BY <2>2 DEF FrameSlots, HoldsEvent
    <3>2. Dist(ts_out_pos, i) < Outstanding
      BY <3>1 DEF WindowSound
    <3> QED BY <3>1, <3>2, <1>1, <1>3, <1>5
  <2> QED BY <2>1, <2>2 DEF WindowSound, HoldsEvent
<1>12. FramesTimed'
  BY <1>7 DEF FramesTimed
<1> QED BY <1>5, <1>6, <1>7, <1>10, <1>11, <1>12

(* FLUSH_STOP moves the flush mark to the end of the window. *)
LEMMA FlushRingKeeps ==
  ASSUME RingInv, FlushRing
  PROVE  RingInv' /\ Outstanding' = Outstanding /\ Flushed' = Outstanding
<1> USE DEF RingInv
<1>1. Outstanding' = Outstanding /\ Flushed' = Outstanding
  BY DEF FlushRing, Outstanding, Flushed
<1>2. FrameSlots' = FrameSlots
  BY <1>1 DEF FlushRing, FrameSlots, HoldsEvent
<1>3. TsTypeOK' /\ CountIsFrames' /\ FramesTimed'
  BY <1>2 DEF FlushRing, TsTypeOK, CountIsFrames, FramesTimed
<1>4. WindowSound'
  BY <1>1, WindowType DEF WindowSound, FlushRing, HoldsEvent
<1> QED BY <1>1, <1>3, <1>4

(* An empty ring, at the start and after _dsp_stop. *)
NothingStored ==
  /\ ts_array \in [Slots -> TsItem]
  /\ \A i \in Slots : ~HoldsEvent(i)
  /\ ts_in_pos = 0 /\ ts_out_pos = 0 /\ ts_push_pos = 0
  /\ ts_count = 0

(* A ring with nothing in it and its indices at 0 satisfies the invariant. *)
LEMMA EmptyRingHolds ==
  NothingStored => RingInv /\ Outstanding = 0 /\ Flushed = 0
<1> SUFFICES ASSUME NothingStored
             PROVE  RingInv /\ Outstanding = 0 /\ Flushed = 0
  OBVIOUS
<1> USE DEF NothingStored
<1>1. 0 \in Slots /\ TsTypeOK
  BY RingAssumption DEF TsTypeOK, Slots
<1>2. Outstanding = 0 /\ Flushed = 0
  BY <1>1, DistType DEF Outstanding, Flushed
<1>3. FrameSlots = {}
  <2>1. \A i \in Slots : Dist(ts_out_pos, i) \in 0 .. Size - 1
    BY <1>1, DistType DEF TsTypeOK
  <2> QED BY <1>2, <2>1 DEF FrameSlots
<1>4. CountIsFrames /\ FramesTimed
  BY <1>3, FS_EmptySet DEF CountIsFrames, FramesTimed
<1>5. WindowSound
  BY <1>2 DEF WindowSound
<1> QED BY <1>1, <1>2, <1>4, <1>5 DEF RingInv

(* instance_init leaves such a ring. *)
LEMMA InitHolds == TsInit => RingInv /\ Outstanding = 0 /\ Flushed = 0
<1>1. TsInit => NothingStored
  BY DEF TsInit, TsItem, HoldsEvent, NothingStored
<1> QED BY <1>1, EmptyRingHolds

(* _dsp_stop leaves such a ring. *)
LEMMA ResetRingKeeps ==
  RingInv /\ ResetRing => RingInv' /\ Outstanding' = 0 /\ Flushed' = 0
<1>1. RingInv /\ ResetRing => NothingStored'
  BY DEF RingInv, TsTypeOK, ResetRing, TsItem, HoldsEvent, NothingStored
<1>2. NothingStored' => (RingInv /\ Outstanding = 0 /\ Flushed = 0)'
  BY EmptyRingHolds, PTL
<1> QED BY <1>1, <1>2

----------------------------------------------------------------------------
(* The frames outstanding, seen from the head.  The loop over the events   *)
(* brings all of them nearer by the same number of slots.                  *)
LEMMA EventsMove ==
  ASSUME RingInv, ClearEvents
  PROVE  /\ FrameSlots' = FrameSlots
         /\ \E n \in 0 .. Size - 1 :
              /\ Flushed' = IF Flushed < n THEN 0 ELSE Flushed - n
              /\ \A i \in FrameSlots :
                   /\ n <= Dist(ts_out_pos, i)
                   /\ Dist(ts_out_pos', i) = Dist(ts_out_pos, i) - n
                   /\ ts_array'[i] = ts_array[i]
<1> DEFINE n == LeadingEvents
<1>1. /\ FrameSlots' = FrameSlots
      /\ ts_out_pos' = (ts_out_pos + n) % Size
      /\ Flushed' = IF Flushed < n THEN 0 ELSE Flushed - n
      /\ \A i \in Slots : n <= Dist(ts_out_pos, i) => ts_array'[i] = ts_array[i]
  BY ClearEventsKeeps DEF Ahead
<1>2. /\ ts_out_pos \in Slots
      /\ \A i \in Slots : Dist(ts_out_pos, i) \in 0 .. Size - 1
      /\ Size \in Nat \ {0, 1}
      /\ FrameSlots \subseteq Slots
  BY DistType, RingAssumption DEF RingInv, TsTypeOK, FrameSlots
<1>3. /\ n \in 0 .. Size - 1
      /\ \A i \in FrameSlots : n <= Dist(ts_out_pos, i)
  BY <1>2, LeadingEventsInWindow DEF FrameSlots
<1> HIDE DEF n
<1>4. \A i \in FrameSlots : Dist(ts_out_pos', i) = Dist(ts_out_pos, i) - n
  BY <1>1, <1>2, <1>3, DistFrom
<1> QED BY <1>1, <1>2, <1>3, <1>4

(* The head leaves, and the other frames are nearer by one. *)
LEMMA HeadMoves ==
  ASSUME RingInv, ts_out_pos \in FrameSlots,
         ts_out_pos' = (ts_out_pos + 1) % Size,
         FrameSlots' = FrameSlots \ {ts_out_pos}
  PROVE  \A i \in FrameSlots' :
           /\ Dist(ts_out_pos, i) \in 1 .. Size - 1
           /\ Dist(ts_out_pos', i) = Dist(ts_out_pos, i) - 1
<1> SUFFICES ASSUME NEW i \in FrameSlots'
             PROVE  /\ Dist(ts_out_pos, i) \in 1 .. Size - 1
                    /\ Dist(ts_out_pos', i) = Dist(ts_out_pos, i) - 1
  OBVIOUS
<1>1. /\ ts_out_pos \in Slots /\ i \in Slots /\ i # ts_out_pos
      /\ Size \in Nat \ {0, 1}
  BY RingAssumption DEF RingInv, TsTypeOK, FrameSlots
<1>2. Dist(ts_out_pos, i) \in 1 .. Size - 1
  BY <1>1, DistType
<1>3. 1 \in 0 .. Size - 1 /\ 1 <= Dist(ts_out_pos, i)
  BY <1>1, <1>2
<1> QED BY <1>1, <1>2, <1>3, DistFrom

(* The head is the nearest, and flushed if any frame is. *)
LEMMA HeadIsNearest ==
  ASSUME RingInv
  PROVE  /\ Dist(ts_out_pos, ts_out_pos) = 0
         /\ Flushed \in 0 .. Size - 1
         /\ HeadFlushed <=> 0 < Flushed
         /\ \A i \in FrameSlots : Dist(ts_out_pos, i) \in 0 .. Size - 1
         /\ \A i \in FrameSlots : i # ts_out_pos => 0 < Dist(ts_out_pos, i)
  BY DistType, WindowType, RingAssumption
     DEF RingInv, TsTypeOK, HeadFlushed, Flushed, FrameSlots

=============================================================================
