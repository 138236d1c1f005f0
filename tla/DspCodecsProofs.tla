-------------------------- MODULE DspCodecsProofs --------------------------
(***************************************************************************)
(* The encoder element, for any frames, requests for key frames, output    *)
(* buffers and lives: which buffers the output loop skips, what it pushes  *)
(* under which caps, and where the requests go.  The decoder element, for  *)
(* any streams, caps, buffers and failing nodes: the sizes of the node, of *)
(* the output buffers and of the frames it announces.  The level and the   *)
(* bit rate an encoder chooses for any stream; the framing of H.264 for    *)
(* NAL units of any lengths.                                               *)
(***************************************************************************)
EXTENDS DspCodecs, FiniteSetTheorems, WellFoundedInduction, SequenceTheorems, TLAPS

Kinds == {"sps", "pps", "picture", "headed", "empty"}
CapsKinds == {"none", "plain", "codec_data"}
Returned == [kind : Kinds, buf : Range(Buffers), whole : BOOLEAN]
Output == [kind : Kinds, caps : CapsKinds, whole : BOOLEAN]

EncoderTypes ==
  /\ conf \in EncConfs /\ bytestream \in BOOLEAN
  /\ running \in BOOLEAN /\ primed \in BOOLEAN
  /\ sps \in BOOLEAN /\ pps \in BOOLEAN /\ codec_data_done \in BOOLEAN
  /\ caps \in CapsKinds /\ recaps_left \in 0..MaxRecaps
  /\ coded \in Seq(Kinds) /\ bufs \in Seq(Range(Buffers))
  /\ received \in Seq(Returned) /\ queue \in Seq(Returned) /\ taken \in Seq(Returned)
  /\ pushed \in Seq(Output) /\ skipped \in Seq(Kinds)
  /\ skip_hack_2 \in Nat /\ counted \in Nat /\ seen \in Nat /\ old \in Nat \cup {-1}
  /\ lost \in BOOLEAN
  /\ requests \in Nat /\ slot \in Nat
  /\ events \in Seq(Nat) /\ forced \in Seq(BOOLEAN)

(* Requests are numbered as they come; the last is the one that waits, or  *)
(* the last one that was pushed.                                           *)
KeysInv ==
  /\ Len(events) = Cardinality({i \in DOMAIN forced : forced[i]})
  /\ slot \in {0, requests}
  /\ \A i \in DOMAIN events : events[i] <= requests /\ (slot # 0 => events[i] < requests)
  /\ \A i, j \in DOMAIN events : i < j => events[i] < events[j]
  /\ requests # 0 => slot = requests \/ (events # <<>> /\ Last(events) = requests)

(* Each thread has one buffer at most, and with it what it read from       *)
(* skip_hack_2.                                                            *)
HeldInv ==
  /\ IF received = <<>> THEN old = -1 ELSE Len(received) = 1
  /\ IF taken = <<>> THEN seen = 0 ELSE Len(taken) = 1

(* Before the node has sent its headers there is nothing of the stream.    *)
FreshInv ==
  /\ ~running => ~primed
  /\ ~primed => /\ coded = <<>> /\ received = <<>> /\ queue = <<>> /\ taken = <<>>
                /\ pushed = <<>> /\ skipped = <<>>
                /\ ~sps /\ ~pps /\ ~codec_data_done /\ skip_hack_2 = 0 /\ counted = 0

(* The headers come once, so that no data pointer is moved.                *)
AllWhole(s) == \A i \in DOMAIN s : s[i].whole
WholeInv ==
  /\ moved = {}
  /\ AllWhole(received) /\ AllWhole(queue) /\ AllWhole(taken) /\ AllWhole(pushed)

(* Byte stream: the headers are in the first buffer.                       *)
ByteStreamInv ==
  /\ received = <<>> /\ skip_hack_2 = 0 /\ seen = 0
  /\ \A i \in DOMAIN coded :
       coded[i] = "picture" \/ (/\ i = 1 /\ coded[i] = "headed" /\ ~sps
                                /\ queue = <<>> /\ taken = <<>> /\ pushed = <<>>)
  /\ \A i \in DOMAIN queue :
       queue[i].kind = "picture" \/ (i = 1 /\ taken = <<>> /\ pushed = <<>>)
  /\ \A i \in DOMAIN taken : taken[i].kind = "picture" \/ pushed = <<>>
  /\ \A i \in DOMAIN pushed : pushed[i].kind = "picture" \/ i = 1

(* AVC: the node sends the two headers, then pictures, and they are        *)
(* received, queued and taken in that order; as long as downstream takes   *)
(* the headers, or no update is lost, those skipped come before those      *)
(* pushed, and those find the headers in the caps.                         *)
Kind(n) == IF n = 1 THEN "sps" ELSE IF n = 2 THEN "pps" ELSE "picture"
Gone == Len(skipped) + Len(pushed)
Passed == Gone + Len(taken)
Back == Passed + Len(queue)
Come == Back + Len(received)
Follow(s, n) == \A i \in DOMAIN s : s[i].kind = Kind(n + i)

OrderInv ==
  /\ \A i \in DOMAIN coded : coded[i] = Kind(Come + i)
  /\ primed => Come + Len(coded) >= 3
  /\ Follow(received, Back) /\ Follow(queue, Passed) /\ Follow(taken, Gone)
SkippedFirst ==
  (lost => ~conf.refuses) =>
    /\ \A i \in DOMAIN skipped : skipped[i] = Kind(i)
    /\ Follow(pushed, Len(skipped))
    /\ recaps_left = MaxRecaps => \A i \in DOMAIN pushed : pushed[i].caps = "codec_data"

(* The flags count the first two buffers, and every buffer is counted      *)
(* until downstream has taken the headers.                                 *)
HeadersInv ==
  /\ sps <=> Come >= 1
  /\ pps <=> Come >= 2
  /\ codec_data_done => pps
  /\ pps /\ ~conf.refuses => codec_data_done
  /\ codec_data_done /\ recaps_left = MaxRecaps => caps = "codec_data"
  /\ ~codec_data_done \/ received # <<>> => counted = Back
  /\ codec_data_done /\ received = <<>> => counted >= 2

(* Downstream takes the headers: what skip_hack_2 and the copies of it that*)
(* the threads have may be, by the number of buffers back and of those     *)
(* skipped.  It is off by one at most, after one lost update.              *)
TakenInv ==
  LET a == Len(skipped) IN
  /\ Back >= 2 => received = <<>>
  /\ Back = 0 => skip_hack_2 = 0 /\ old \in {-1, 0}
  /\ Back = 1 => pushed = <<>>
  /\ Back = 1 /\ a = 0 => skip_hack_2 = 1 /\ old \in {-1, 1} /\ (taken # <<>> => seen = 1)
  /\ Back = 1 /\ a = 1 => skip_hack_2 = 0 /\ old \in {-1, 0, 1}
  /\ Back >= 2 /\ a = 0 => skip_hack_2 = 2 /\ (taken # <<>> => seen \in {1, 2})
  /\ Back >= 2 /\ a # 0 /\ taken # <<>> => seen = skip_hack_2
  /\ a <= 3
  /\ Back >= 2 /\ a = 1 => skip_hack_2 <= 2 /\ (skip_hack_2 # 1 => lost)
  /\ a = 2 => skip_hack_2 <= 1 /\ (skip_hack_2 # 0 => lost)
  /\ a = 3 => skip_hack_2 = 0 /\ lost
  /\ pushed # <<>> => skip_hack_2 = 0 /\ a >= 1

(* Downstream may refuse them: with no update lost, every buffer is skipped*)
(* until it takes them.                                                    *)
RefusedInv ==
  /\ ~codec_data_done \/ received # <<>> =>
       pushed = <<>> /\ skip_hack_2 = Back - Len(skipped) /\ (taken # <<>> => seen >= 1)
  /\ pushed # <<>> \/ (taken # <<>> /\ seen = 0) => Len(skipped) = counted

SkipInv ==
  /\ ~conf.refuses => TakenInv
  /\ conf.refuses /\ ~lost => RefusedInv

StreamInv ==
  /\ FreshInv /\ WholeInv
  /\ IF bytestream THEN ByteStreamInv
     ELSE OrderInv /\ SkippedFirst /\ HeadersInv /\ SkipInv

EncoderInv ==
  /\ EncoderTypes /\ KeysInv /\ HeldInv
  /\ ~lost => Len(skipped) + skip_hack_2 = counted
  /\ Venc!Steady => StreamInv

-----------------------------------------------------------------------------
(* Sequences.                                                              *)
LEMMA Appended ==
  ASSUME NEW S, NEW s \in Seq(S), NEW e \in S
  PROVE  /\ Append(s, e) \in Seq(S) /\ Len(Append(s, e)) = Len(s) + 1
         /\ \A i \in 1..Len(s) : Append(s, e)[i] = s[i]
         /\ Append(s, e)[Len(s) + 1] = e
         /\ Append(s, e) # <<>> /\ Len(s) \in Nat
  OBVIOUS

LEMMA Rest ==
  ASSUME NEW S, NEW s \in Seq(S), s # <<>>
  PROVE  /\ Head(s) \in S /\ Head(s) = s[1]
         /\ Tail(s) \in Seq(S) /\ Len(s) \in Nat \ {0} /\ Len(Tail(s)) = Len(s) - 1
         /\ \A i \in 1..Len(Tail(s)) : Tail(s)[i] = s[i + 1]
  OBVIOUS

LEMMA OneAppended ==
  ASSUME NEW S, NEW s \in Seq(S), NEW e \in S
  PROVE  /\ s \o <<e>> = Append(s, e)
         /\ DOMAIN Append(s, e) = DOMAIN s \cup {Len(s) + 1}
         /\ DOMAIN s = 1..Len(s) /\ Len(s) + 1 \notin DOMAIN s
         /\ \A i \in DOMAIN s : Append(s, e)[i] = s[i]
         /\ Append(s, e)[Len(s) + 1] = e
  OBVIOUS

LEMMA RestAt ==
  ASSUME NEW S, NEW s \in Seq(S), s # <<>>
  PROVE  /\ 1 \in DOMAIN s /\ Head(s) = s[1]
         /\ \A i \in DOMAIN Tail(s) : /\ i \in Nat \ {0} /\ i + 1 \in DOMAIN s
                                      /\ Tail(s)[i] = s[i + 1]
  OBVIOUS

(* Adding to the requests that were forced.                                *)
LEMMA Counted ==
  ASSUME NEW s \in Seq(BOOLEAN), NEW b \in BOOLEAN
  PROVE  Cardinality({i \in DOMAIN Append(s, b) : Append(s, b)[i]})
           = Cardinality({i \in DOMAIN s : s[i]}) + (IF b THEN 1 ELSE 0)
<1> DEFINE before == {i \in DOMAIN s : s[i]}
           new == {i \in DOMAIN Append(s, b) : Append(s, b)[i]}
<1>1. Len(s) \in Nat /\ DOMAIN s = 1..Len(s) /\ DOMAIN Append(s, b) = 1..(Len(s) + 1)
  OBVIOUS
<1>2. IsFiniteSet(before) /\ Cardinality(before) \in Nat
  <2>1. IsFiniteSet(1..Len(s))
    BY <1>1, FS_Interval
  <2>2. before \subseteq 1..Len(s)
    BY <1>1
  <2>3. QED
    BY <2>1, <2>2, FS_Subset, FS_CardinalityType
<1>3. new = IF b THEN before \cup {Len(s) + 1} ELSE before
  <2>1. \A i \in 1..Len(s) : Append(s, b)[i] = s[i]
    BY Appended
  <2>2. Append(s, b)[Len(s) + 1] = b
    BY Appended
  <2>3. 1..(Len(s) + 1) = 1..Len(s) \cup {Len(s) + 1}
    BY <1>1
  <2>4. QED
    BY <1>1, <2>1, <2>2, <2>3
<1>4. Len(s) + 1 \notin before
  BY <1>1
<1> HIDE DEF before, new
<1>5. Cardinality(before \cup {Len(s) + 1}) = Cardinality(before) + 1
  BY <1>2, <1>4, FS_AddElement
<1>6. Cardinality(new) = Cardinality(before) + (IF b THEN 1 ELSE 0)
  BY <1>2, <1>3, <1>5
<1>7. QED
  BY <1>6 DEF before, new

LEMMA OneAlone ==
  ASSUME NEW S, NEW r \in S
  PROVE  /\ <<r>> \in Seq(S) /\ Len(<<r>>) = 1 /\ DOMAIN <<r>> = {1} /\ <<r>>[1] = r
         /\ <<r>> # <<>>
  OBVIOUS

LEMMA Alone ==
  ASSUME NEW S, NEW s \in Seq(S), Len(s) = 1
  PROVE  /\ s = <<s[1]>> /\ s[1] \in S /\ DOMAIN s = {1} /\ s # <<>>
         /\ \A t \in Seq(S) : t \o s = Append(t, s[1])
<1>1. s[1] \in S /\ DOMAIN s = {1} /\ s # <<>>
  OBVIOUS
<1>2. s = <<s[1]>>
  BY <1>1
<1>3. \A t \in Seq(S) : t \o <<s[1]>> = Append(t, s[1])
  BY <1>1, OneAppended
<1>4. QED
  BY <1>1, <1>2, <1>3

LEMMA EmptyLength ==
  ASSUME NEW S, NEW s \in Seq(S)
  PROVE  Len(s) \in Nat /\ (s = <<>> <=> Len(s) = 0) /\ DOMAIN s = 1..Len(s)
  OBVIOUS

-----------------------------------------------------------------------------
(* Types.                                                                  *)
EncoderNext == Venc!Next \/ UNCHANGED encoder

LEMMA CodedTypes ==
  ASSUME conf \in EncConfs, NEW force, NEW c \in Venc!Coded(force)
  PROVE  c \in Seq(Kinds) /\ c # <<>>
<1>1. c \in {<<"sps", "pps", "picture">>, <<"headed">>, <<"picture">>, <<"empty">>}
  BY DEF Venc!Coded
<1>2. /\ <<"sps", "pps", "picture">> \in Seq(Kinds) /\ <<"headed">> \in Seq(Kinds)
      /\ <<"picture">> \in Seq(Kinds) /\ <<"empty">> \in Seq(Kinds)
  BY DEF Kinds
<1>3. /\ <<"sps", "pps", "picture">> # <<>> /\ <<"headed">> # <<>>
      /\ <<"picture">> # <<>> /\ <<"empty">> # <<>>
  OBVIOUS
<1>4. QED
  BY <1>1, <1>2, <1>3

(* A buffer comes back, for the queue or to be counted first. *)
LEMMA ReceivedStep ==
  ASSUME EncoderTypes, Venc!out_recv_cb
  PROVE  /\ coded # <<>> /\ bufs # <<>> /\ received = <<>>
         /\ coded' = Tail(coded) /\ bufs' = Tail(bufs) /\ Head(coded) \in Kinds
         /\ UNCHANGED <<conf, bytestream, running, primed, recaps_left, requests, slot, events,
                        forced, skip_hack_2, old, counted, lost, taken, seen, pushed, skipped>>
         /\ \E strip \in BOOLEAN :
              /\ moved' = moved \cup (IF strip THEN {Head(bufs)} ELSE {})
              /\ Venc!Returning(Head(coded), strip) \in Returned
              /\ \/ /\ queue' = Append(queue, Venc!Returning(Head(coded), strip))
                    /\ received' = received
                 \/ /\ received' = <<Venc!Returning(Head(coded), strip)>>
                    /\ queue' = queue /\ ~strip
<1>0. /\ coded # <<>> /\ bufs # <<>> /\ received = <<>>
      /\ UNCHANGED <<conf, bytestream, running, primed, recaps_left, requests, slot, events,
                     forced, skip_hack_2, old, counted, lost, taken, seen, pushed, skipped>>
  BY DEF Venc!out_recv_cb, Venc!keys, Venc!fixed
<1>1. PICK strip \in BOOLEAN : Venc!Receive(strip) \/ (~strip /\ Venc!ReceiveToSkip)
  <2>1. CASE Venc!recv_empty
    BY <2>1 DEF Venc!recv_empty
  <2>2. CASE Venc!recv_byte_stream
    <3>1. (Head(coded) = "headed" /\ sps) \in BOOLEAN
      OBVIOUS
    <3>2. QED
      BY <2>2, <3>1 DEF Venc!recv_byte_stream
  <2>3. CASE Venc!recv_after_headers
    BY <2>3 DEF Venc!recv_after_headers
  <2>4. CASE Venc!recv_headers
    BY <2>4 DEF Venc!recv_headers
  <2>5. QED
    BY <2>1, <2>2, <2>3, <2>4 DEF Venc!out_recv_cb
<1>2. Head(bufs) \in Range(Buffers) /\ Head(coded) \in Kinds
  BY <1>0, Rest DEF EncoderTypes
<1>3. Venc!Returning(Head(coded), strip) \in Returned
  BY <1>2 DEF Returned, Kinds, Venc!Returning
<1>4. CASE Venc!Receive(strip)
  <2>1. /\ moved' = moved \cup (IF strip THEN {Head(bufs)} ELSE {})
        /\ bufs' = Tail(bufs) /\ coded' = Tail(coded)
        /\ queue' = Append(queue, Venc!Returning(Head(coded), strip)) /\ received' = received
    BY <1>4 DEF Venc!Receive, Venc!Take
  <2>2. QED
    BY <1>0, <1>2, <1>3, <2>1
<1>5. CASE ~strip /\ Venc!ReceiveToSkip
  <2>1. /\ moved' = moved \cup (IF strip THEN {Head(bufs)} ELSE {})
        /\ bufs' = Tail(bufs) /\ coded' = Tail(coded)
        /\ received' = <<Venc!Returning(Head(coded), strip)>> /\ queue' = queue
    BY <1>5 DEF Venc!ReceiveToSkip, Venc!Take
  <2>2. QED
    BY <1>0, <1>2, <1>3, <1>5, <2>1
<1>6. QED
  BY <1>1, <1>4, <1>5

LEMMA ReceivedTypes ==
  ASSUME EncoderTypes, HeldInv, Venc!out_recv_cb
  PROVE  EncoderTypes' /\ HeldInv'
<1>0. /\ received = <<>> /\ taken \in Seq(Returned)
      /\ UNCHANGED <<conf, bytestream, running, primed, recaps_left, requests, slot, events,
                     forced, skip_hack_2, old, counted, lost, taken, seen, pushed, skipped>>
  BY ReceivedStep DEF EncoderTypes
<1>1. PICK r \in Returned : \/ queue' = Append(queue, r) /\ received' = received
                            \/ received' = <<r>> /\ queue' = queue
  BY ReceivedStep
<1>2. queue' \in Seq(Returned) /\ received' \in Seq(Returned)
  <2>1. Append(queue, r) \in Seq(Returned) /\ <<r>> \in Seq(Returned)
    BY Appended, OneAlone DEF EncoderTypes
  <2>2. QED
    BY <1>1, <2>1 DEF EncoderTypes
<1>3. coded' \in Seq(Kinds) /\ bufs' \in Seq(Range(Buffers))
  BY ReceivedStep, Rest DEF EncoderTypes
<1>4. /\ sps' \in BOOLEAN /\ pps' \in BOOLEAN /\ codec_data_done' \in BOOLEAN
      /\ caps' \in CapsKinds
  <2> USE DEF EncoderTypes
  <2>1. CASE Venc!recv_empty
    BY <2>1 DEF Venc!recv_empty
  <2>2. CASE Venc!recv_byte_stream
    BY <2>2 DEF Venc!recv_byte_stream
  <2>3. CASE Venc!recv_after_headers
    BY <2>3 DEF Venc!recv_after_headers
  <2>4. CASE Venc!recv_headers
    <3> PICK ok \in {TRUE, ~conf.refuses} :
          /\ codec_data_done' = (pps' /\ ok)
          /\ caps' = IF pps' /\ ok THEN "codec_data" ELSE caps
      BY <2>4 DEF Venc!recv_headers
    <3>1. sps' \in BOOLEAN /\ pps' \in BOOLEAN
      BY <2>4 DEF Venc!recv_headers
    <3>2. codec_data_done' \in BOOLEAN /\ caps' \in CapsKinds
      BY <3>1 DEF CapsKinds
    <3>3. QED
      BY <3>1, <3>2
  <2>5. QED
    BY <2>1, <2>2, <2>3, <2>4 DEF Venc!out_recv_cb
<1>5. EncoderTypes'
  BY <1>0, <1>2, <1>3, <1>4 DEF EncoderTypes
<1>6. HeldInv'
  <2>1. received' = <<>> \/ Len(received') = 1
    BY <1>0, <1>1, OneAlone
  <2>2. old' = -1 /\ taken' = taken /\ seen' = seen
    BY <1>0 DEF HeldInv
  <2>3. QED
    BY <2>1, <2>2 DEF HeldInv
<1>7. QED
  BY <1>5, <1>6

LEMMA WrittenTypes ==
  ASSUME EncoderTypes, HeldInv, Venc!recv_write
  PROVE  EncoderTypes' /\ HeldInv'
<1>0. /\ received # <<>> /\ old # -1
      /\ skip_hack_2' = old + 1 /\ counted' = counted + 1
      /\ lost' = (lost \/ skip_hack_2 # old)
      /\ queue' = queue \o received /\ received' = <<>> /\ old' = -1
      /\ UNCHANGED <<conf, bytestream, running, recaps_left, primed, coded, bufs, requests, slot,
                     events, forced, caps, sps, pps, codec_data_done, taken, seen, pushed,
                     skipped>>
  BY DEF Venc!recv_write, Venc!Incremented, Venc!NotRead, Venc!fixed, Venc!node, Venc!keys
<1>1. queue' \in Seq(Returned) /\ received' \in Seq(Returned)
  BY <1>0 DEF EncoderTypes
<1>2. skip_hack_2' \in Nat /\ counted' \in Nat /\ old' \in Nat \cup {-1}
  <2>1. old \in Nat \cup {-1} /\ counted \in Nat
    BY DEF EncoderTypes
  <2>2. QED
    BY <1>0, <2>1
<1>3. lost' \in BOOLEAN
  BY <1>0
<1>4. EncoderTypes'
  BY <1>0, <1>1, <1>2, <1>3 DEF EncoderTypes
<1>5. HeldInv'
  BY <1>0 DEF HeldInv
<1>6. QED
  BY <1>4, <1>5

(* The output loop lets go of the buffer it has. *)
LEMMA SentBack ==
  ASSUME EncoderTypes, HeldInv, Venc!SendBack
  PROVE  /\ Len(taken) = 1 /\ taken[1] \in Returned /\ taken' = <<>> /\ seen' = 0
         /\ bufs' \in Seq(Range(Buffers))
         /\ UNCHANGED <<conf, bytestream, running, recaps_left, primed, coded, moved, requests,
                        slot, events, forced, caps, sps, pps, codec_data_done, counted,
                        received, old, queue>>
<1>1. /\ taken # <<>> /\ bufs' = Append(bufs, taken[1].buf) /\ taken' = <<>> /\ seen' = 0
      /\ UNCHANGED <<conf, bytestream, running, recaps_left, primed, coded, moved, requests,
                     slot, events, forced, caps, sps, pps, codec_data_done, counted,
                     received, old, queue>>
  BY DEF Venc!SendBack, Venc!fixed, Venc!keys
<1>2. Len(taken) = 1
  BY <1>1 DEF HeldInv
<1>3. taken[1] \in Returned
  BY <1>2, Alone DEF EncoderTypes
<1>4. bufs' \in Seq(Range(Buffers))
  BY <1>1, <1>3, Appended DEF EncoderTypes, Returned
<1>5. QED
  BY <1>1, <1>2, <1>3, <1>4

LEMMA SkippedTypes ==
  ASSUME EncoderTypes, HeldInv, Venc!output_skip
  PROVE  EncoderTypes' /\ HeldInv'
<1>1. /\ seen > 0 /\ skip_hack_2' = seen - 1 /\ lost' = (lost \/ skip_hack_2 # seen)
      /\ skipped' = Append(skipped, taken[1].kind) /\ pushed' = pushed
  BY DEF Venc!output_skip
<1>2. /\ taken[1] \in Returned /\ taken' = <<>> /\ seen' = 0
      /\ bufs' \in Seq(Range(Buffers))
      /\ UNCHANGED <<conf, bytestream, running, recaps_left, primed, coded, moved, requests,
                     slot, events, forced, caps, sps, pps, codec_data_done, counted,
                     received, old, queue>>
  BY SentBack DEF Venc!output_skip
<1>3. skip_hack_2' \in Nat
  <2>1. seen \in Nat
    BY DEF EncoderTypes
  <2>2. QED
    BY <1>1, <2>1
<1>4. skipped' \in Seq(Kinds)
  BY <1>1, <1>2, Appended DEF EncoderTypes, Returned
<1>5. taken' \in Seq(Returned) /\ lost' \in BOOLEAN
  BY <1>1, <1>2
<1>6. EncoderTypes'
  BY <1>1, <1>2, <1>3, <1>4, <1>5 DEF EncoderTypes
<1>7. HeldInv'
  BY <1>2 DEF HeldInv
<1>8. QED
  BY <1>6, <1>7

LEMMA PushedTypes ==
  ASSUME EncoderTypes, HeldInv, Venc!output_push
  PROVE  EncoderTypes' /\ HeldInv'
<1>1. UNCHANGED <<skip_hack_2, lost, skipped>>
  BY DEF Venc!output_push
<1>2. /\ taken[1] \in Returned /\ taken' = <<>> /\ seen' = 0
      /\ bufs' \in Seq(Range(Buffers))
      /\ UNCHANGED <<conf, bytestream, running, recaps_left, primed, coded, moved, requests,
                     slot, events, forced, caps, sps, pps, codec_data_done, counted,
                     received, old, queue>>
  BY SentBack DEF Venc!output_push
<1>3. pushed' \in Seq(Output)
  <2> DEFINE p == [kind |-> taken[1].kind, caps |-> caps, whole |-> taken[1].whole]
  <2>1. pushed' = pushed \/ pushed' = Append(pushed, p)
    BY DEF Venc!output_push
  <2>2. p \in Output
    BY <1>2 DEF Returned, Output, EncoderTypes
  <2> HIDE DEF p
  <2>3. Append(pushed, p) \in Seq(Output)
    BY <2>2, Appended DEF EncoderTypes
  <2>4. QED
    BY <2>1, <2>3 DEF EncoderTypes
<1>4. taken' \in Seq(Returned)
  BY <1>2
<1>5. EncoderTypes'
  BY <1>1, <1>2, <1>3, <1>4 DEF EncoderTypes
<1>6. HeldInv'
  BY <1>2 DEF HeldInv
<1>7. QED
  BY <1>5, <1>6

LEMMA EncoderTypesKept ==
  ASSUME EncoderTypes, HeldInv, EncoderNext
  PROVE  EncoderTypes' /\ HeldInv'
<1>1. CASE Venc!sink_setcaps
  <2>1. bufs' \in Seq(Range(Buffers))
    BY <1>1, EncoderAssumption DEF Venc!sink_setcaps, EncoderTypes
  <2>2. recaps_left' \in 0..MaxRecaps
    BY <1>1, EncoderAssumption DEF Venc!sink_setcaps, EncoderTypes
  <2>3. bytestream' \in BOOLEAN /\ running' \in BOOLEAN /\ caps' \in CapsKinds
    BY <1>1 DEF Venc!sink_setcaps, CapsKinds, EncoderTypes
  <2>4. UNCHANGED <<conf, primed, coded, sps, pps, codec_data_done, skip_hack_2, counted,
                    received, old, lost, queue, taken, seen, pushed, skipped, requests, slot,
                    events, forced>>
    BY <1>1 DEF Venc!sink_setcaps, Venc!keys, Venc!headers, Venc!output
  <2>5. EncoderTypes'
    BY <2>1, <2>2, <2>3, <2>4 DEF EncoderTypes
  <2>6. QED
    BY <2>4, <2>5 DEF HeldInv
<1>2. CASE Venc!force_key_unit
  <2>1. /\ requests' = requests + 1 /\ slot' = requests + 1
        /\ UNCHANGED <<conf, bytestream, running, recaps_left, primed, coded, bufs, caps, sps,
                       pps, codec_data_done, skip_hack_2, counted, received, old, lost, queue,
                       taken, seen, pushed, skipped, events, forced>>
    BY <1>2 DEF Venc!force_key_unit, Venc!headers, Venc!output, Venc!fixed, Venc!node
  <2>2. requests' \in Nat /\ slot' \in Nat
    BY <2>1 DEF EncoderTypes
  <2>3. EncoderTypes'
    BY <2>1, <2>2 DEF EncoderTypes
  <2>4. QED
    BY <2>1, <2>3 DEF HeldInv
<1>3. CASE Venc!in_send_cb
  <2>0. UNCHANGED <<conf, bytestream, running, recaps_left, bufs, requests, caps, sps, pps,
                    codec_data_done, skip_hack_2, counted, received, old, lost, queue, taken,
                    seen, pushed, skipped>>
    BY <1>3 DEF Venc!in_send_cb, Venc!headers, Venc!output, Venc!fixed
  <2>1. PICK c \in Venc!Coded(slot # 0) :
          /\ coded' = coded \o c
          /\ primed' = (primed \/ c # <<"empty">>)
    BY <1>3 DEF Venc!in_send_cb
  <2>2. coded' \in Seq(Kinds)
    BY <2>1, CodedTypes DEF EncoderTypes
  <2>3. primed' \in BOOLEAN
    BY <2>1
  <2>4. forced' \in Seq(BOOLEAN) /\ events' \in Seq(Nat) /\ slot' \in Nat
    <3>1. forced' = Append(forced, slot # 0) /\ (slot # 0) \in BOOLEAN
      BY <1>3 DEF Venc!in_send_cb
    <3>2. forced' \in Seq(BOOLEAN)
      BY <3>1, Appended DEF EncoderTypes
    <3>3. slot' = 0 /\ (events' = events \/ events' = Append(events, slot))
      BY <1>3 DEF Venc!in_send_cb
    <3>4. Append(events, slot) \in Seq(Nat)
      BY Appended DEF EncoderTypes
    <3>5. QED
      BY <3>2, <3>3, <3>4 DEF EncoderTypes
  <2>5. EncoderTypes'
    BY <2>0, <2>2, <2>3, <2>4 DEF EncoderTypes
  <2>6. QED
    BY <2>0, <2>5 DEF HeldInv
<1>4. CASE Venc!recv_read
  <2>1. /\ received # <<>> /\ old' = skip_hack_2
        /\ UNCHANGED <<conf, bytestream, running, recaps_left, primed, coded, bufs, requests,
                       slot, events, forced, caps, sps, pps, codec_data_done, skip_hack_2,
                       counted, received, lost, queue, taken, seen, pushed, skipped>>
    BY <1>4 DEF Venc!recv_read, Venc!fixed, Venc!node, Venc!keys, Venc!output
  <2>2. EncoderTypes'
    BY <2>1 DEF EncoderTypes
  <2>3. QED
    BY <2>1, <2>2 DEF HeldInv
<1>5. CASE Venc!output_take
  <2>1. /\ queue # <<>> /\ taken' = <<Head(queue)>> /\ queue' = Tail(queue)
        /\ seen' = skip_hack_2
        /\ UNCHANGED <<conf, bytestream, running, recaps_left, primed, coded, bufs, requests,
                       slot, events, forced, caps, sps, pps, codec_data_done, skip_hack_2,
                       counted, received, old, lost, pushed, skipped>>
    BY <1>5 DEF Venc!output_take, Venc!fixed, Venc!node, Venc!keys, Venc!headers
  <2>2. Head(queue) \in Returned /\ queue' \in Seq(Returned)
    BY <2>1, Rest DEF EncoderTypes
  <2>3. taken' \in Seq(Returned) /\ Len(taken') = 1
    BY <2>1, <2>2, OneAlone
  <2>4. EncoderTypes'
    BY <2>1, <2>2, <2>3 DEF EncoderTypes
  <2>5. taken' # <<>>
    BY <2>1, <2>2, OneAlone
  <2>6. QED
    BY <2>1, <2>3, <2>4, <2>5 DEF HeldInv
<1>6. CASE Venc!stop
  <2>1. /\ <<>> \in Seq(Kinds) /\ <<>> \in Seq(Range(Buffers)) /\ <<>> \in Seq(Returned)
        /\ <<>> \in Seq(Output) /\ "none" \in CapsKinds
    BY DEF CapsKinds
  <2>2. /\ coded' = <<>> /\ bufs' = <<>> /\ queue' = <<>> /\ pushed' = <<>>
        /\ skipped' = <<>> /\ caps' = "none" /\ skip_hack_2' = 0 /\ counted' = 0
        /\ running' = FALSE /\ primed' = FALSE /\ lost' = FALSE
        /\ sps' = FALSE /\ pps' = FALSE /\ codec_data_done' = FALSE
        /\ UNCHANGED <<conf, bytestream, recaps_left, requests, slot, events, forced, received,
                       old, taken, seen>>
    BY <1>6 DEF Venc!stop, Venc!keys
  <2>3. EncoderTypes'
    BY <2>1, <2>2 DEF EncoderTypes
  <2>4. QED
    BY <2>2, <2>3 DEF HeldInv
<1>7. CASE UNCHANGED encoder
  BY <1>7 DEF encoder, EncoderTypes, HeldInv
<1>8. QED
  BY <1>1, <1>2, <1>3, <1>4, <1>5, <1>6, <1>7, ReceivedTypes, WrittenTypes, SkippedTypes,
     PushedTypes DEF EncoderNext, Venc!Next

-----------------------------------------------------------------------------
(* The requests for key frames.                                            *)
LEMMA KeysKept ==
  ASSUME EncoderTypes, KeysInv, EncoderNext
  PROVE  KeysInv'
<1>0. requests \in Nat /\ slot \in Nat /\ events \in Seq(Nat) /\ forced \in Seq(BOOLEAN)
  BY DEF EncoderTypes
<1>a. DOMAIN events = 1..Len(events) /\ Len(events) \in Nat
      /\ \A i \in DOMAIN events : events[i] \in Nat
  BY <1>0
<1>1. CASE Venc!force_key_unit
  <2>1. requests' = requests + 1 /\ slot' = requests + 1 /\ UNCHANGED <<events, forced>>
    BY <1>1 DEF Venc!force_key_unit
  <2>2. \A i \in DOMAIN events : events[i] <= requests
    BY DEF KeysInv
  <2>3. \A i \in DOMAIN events : events[i] <= requests' /\ events[i] < requests'
    BY <1>0, <1>a, <2>1, <2>2
  <2>4. QED
    BY <2>1, <2>3 DEF KeysInv
<1>2. CASE Venc!in_send_cb
  <2>0. /\ forced' = Append(forced, slot # 0) /\ slot' = 0 /\ requests' = requests
        /\ events' = IF slot # 0 THEN Append(events, slot) ELSE events
    BY <1>2 DEF Venc!in_send_cb
  <2>1. Cardinality({i \in DOMAIN forced' : forced'[i]})
          = Cardinality({i \in DOMAIN forced : forced[i]}) + (IF slot # 0 THEN 1 ELSE 0)
    BY <1>0, <2>0, Counted
  <2>2. CASE slot = 0
    <3>1. events' = events
      BY <2>0, <2>2
    <3>2. Len(events') = Cardinality({i \in DOMAIN forced' : forced'[i]})
      BY <1>a, <2>1, <2>2, <3>1 DEF KeysInv
    <3>3. QED
      BY <2>0, <2>2, <3>1, <3>2 DEF KeysInv
  <2>3. CASE slot # 0
    <3>1. /\ events' = Append(events, slot) /\ Len(events') = Len(events) + 1
          /\ \A i \in DOMAIN events : events'[i] = events[i]
          /\ events'[Len(events) + 1] = slot
          /\ DOMAIN events' = DOMAIN events \cup {Len(events) + 1} /\ events' # <<>>
      <4>1. events' = Append(events, slot)
        BY <2>0, <2>3
      <4>2. QED
        BY <1>0, <4>1, Appended, OneAppended
    <3>2. slot = requests
      BY <2>3 DEF KeysInv
    <3>3. Len(events') = Cardinality({i \in DOMAIN forced' : forced'[i]})
      BY <2>1, <2>3, <3>1 DEF KeysInv
    <3>4. \A i \in DOMAIN events : events[i] < slot
      BY <2>3, <3>2 DEF KeysInv
    <3>5. \A i \in DOMAIN events' : events'[i] <= requests
      BY <1>0, <1>a, <3>1, <3>2, <3>4
    <3>6. \A i, j \in DOMAIN events' : i < j => events'[i] < events'[j]
      <4> SUFFICES ASSUME NEW i \in DOMAIN events', NEW j \in DOMAIN events', i < j
                   PROVE  events'[i] < events'[j]
        OBVIOUS
      <4>1. i \in DOMAIN events
        BY <1>a, <3>1
      <4>2. CASE j \in DOMAIN events
        BY <3>1, <4>1, <4>2 DEF KeysInv
      <4>3. CASE j = Len(events) + 1
        BY <3>1, <3>4, <4>1, <4>3
      <4>4. QED
        BY <3>1, <4>2, <4>3
    <3>7. Last(events') = requests
      BY <3>1, <3>2 DEF Last
    <3>8. QED
      BY <2>0, <3>1, <3>3, <3>5, <3>6, <3>7 DEF KeysInv
  <2>4. QED
    BY <2>2, <2>3
<1>3. CASE UNCHANGED <<requests, slot, events, forced>>
  BY <1>3 DEF KeysInv
<1>4. CASE \/ Venc!sink_setcaps \/ Venc!out_recv_cb \/ Venc!recv_read \/ Venc!recv_write
           \/ Venc!output_take \/ Venc!output_skip \/ Venc!output_push \/ Venc!stop
           \/ UNCHANGED encoder
  <2>1. UNCHANGED <<requests, slot, events, forced>>
    BY <1>4 DEF Venc!sink_setcaps, Venc!out_recv_cb, Venc!recv_read, Venc!recv_write,
                Venc!output_take, Venc!output_skip, Venc!output_push, Venc!SendBack, Venc!stop,
                encoder, Venc!keys
  <2>2. QED
    BY <1>3, <2>1
<1>5. QED
  BY <1>1, <1>2, <1>4 DEF EncoderNext, Venc!Next

(* With no update lost, every increment of skip_hack_2 skips one buffer.   *)
LEMMA SkipsKept ==
  ASSUME EncoderTypes, HeldInv, ~lost => Len(skipped) + skip_hack_2 = counted, EncoderNext
  PROVE  (~lost => Len(skipped) + skip_hack_2 = counted)'
<1>0. /\ skip_hack_2 \in Nat /\ counted \in Nat /\ seen \in Nat /\ old \in Nat \cup {-1}
      /\ skipped \in Seq(Kinds) /\ Len(skipped) \in Nat
  BY DEF EncoderTypes
<1>1. CASE Venc!recv_write
  <2>1. /\ skip_hack_2' = old + 1 /\ counted' = counted + 1 /\ skipped' = skipped
        /\ ~lost' => ~lost /\ skip_hack_2 = old
    BY <1>1 DEF Venc!recv_write, Venc!Incremented
  <2>2. QED
    BY <1>0, <2>1
<1>2. CASE Venc!output_skip
  <2>1. /\ skip_hack_2' = seen - 1 /\ counted' = counted
        /\ skipped' = Append(skipped, taken[1].kind)
        /\ ~lost' => ~lost /\ skip_hack_2 = seen
    BY <1>2 DEF Venc!output_skip, Venc!SendBack
  <2>2. taken[1].kind \in Kinds
    BY <1>2, SentBack DEF Venc!output_skip, Returned
  <2>3. Len(skipped') = Len(skipped) + 1
    BY <1>0, <2>1, <2>2, Appended
  <2>4. QED
    BY <1>0, <2>1, <2>3
<1>3. CASE Venc!stop
  BY <1>3 DEF Venc!stop
<1>4. CASE \/ Venc!sink_setcaps \/ Venc!force_key_unit \/ Venc!in_send_cb \/ Venc!out_recv_cb
           \/ Venc!recv_read \/ Venc!output_take \/ Venc!output_push \/ UNCHANGED encoder
  <2>1. UNCHANGED <<skipped, skip_hack_2, counted, lost>>
    BY <1>4 DEF Venc!sink_setcaps, Venc!force_key_unit, Venc!in_send_cb, Venc!out_recv_cb,
                Venc!recv_read, Venc!output_take, Venc!output_push, Venc!SendBack, encoder,
                Venc!headers, Venc!output
  <2>2. QED
    BY <2>1
<1>5. QED
  BY <1>1, <1>2, <1>3, <1>4 DEF EncoderNext, Venc!Next

-----------------------------------------------------------------------------
(* The stream of a node that sends its headers first and nothing empty.    *)
LEMMA FirstSent ==
  ASSUME NEW c
  PROVE  /\ c = <<"sps", "pps", "picture">> =>
              /\ Len(c) = 3 /\ DOMAIN c = 1..3
              /\ c[1] = "sps" /\ c[2] = "pps" /\ c[3] = "picture"
         /\ c = <<"headed">> => DOMAIN c = {1} /\ c[1] = "headed"
  OBVIOUS

(* How many buffers are where. *)
LEMMA Numbers ==
  ASSUME EncoderTypes
  PROVE  /\ Len(skipped) \in Nat /\ Len(pushed) \in Nat /\ Len(taken) \in Nat
         /\ Len(queue) \in Nat /\ Len(received) \in Nat /\ Len(coded) \in Nat
         /\ Gone \in Nat /\ Passed \in Nat /\ Back \in Nat /\ Come \in Nat
         /\ Gone = Len(skipped) + Len(pushed) /\ Passed = Gone + Len(taken)
         /\ Back = Passed + Len(queue) /\ Come = Back + Len(received)
         /\ (received = <<>> <=> Len(received) = 0) /\ (taken = <<>> <=> Len(taken) = 0)
         /\ (pushed = <<>> <=> Len(pushed) = 0) /\ (queue = <<>> <=> Len(queue) = 0)
         /\ skip_hack_2 \in Nat /\ counted \in Nat /\ seen \in Nat
         /\ old \in Nat \cup {-1}
<1>1. /\ Len(skipped) \in Nat /\ Len(pushed) \in Nat /\ Len(taken) \in Nat
      /\ Len(queue) \in Nat /\ Len(received) \in Nat /\ Len(coded) \in Nat
      /\ (received = <<>> <=> Len(received) = 0) /\ (taken = <<>> <=> Len(taken) = 0)
      /\ (pushed = <<>> <=> Len(pushed) = 0) /\ (queue = <<>> <=> Len(queue) = 0)
  BY EmptyLength DEF EncoderTypes
<1>2. /\ Gone = Len(skipped) + Len(pushed) /\ Passed = Gone + Len(taken)
      /\ Back = Passed + Len(queue) /\ Come = Back + Len(received)
  BY DEF Gone, Passed, Back, Come
<1>3. Gone \in Nat /\ Passed \in Nat /\ Back \in Nat /\ Come \in Nat
  BY <1>1, <1>2
<1>4. QED
  BY <1>1, <1>2, <1>3 DEF EncoderTypes

LEMMA SendKept ==
  ASSUME EncoderTypes, Venc!Steady, StreamInv, Venc!in_send_cb
  PROVE  StreamInv'
<1>0. /\ running /\ running' /\ conf' = conf /\ bytestream' = bytestream
      /\ UNCHANGED <<moved, recaps_left, caps, sps, pps, codec_data_done, skip_hack_2, counted,
                     received, old, lost, queue, taken, seen, pushed, skipped>>
  BY DEF Venc!in_send_cb, Venc!headers, Venc!output, Venc!fixed
<1>1. coded \in Seq(Kinds) /\ "picture" \in Kinds /\ Len(coded) \in Nat
  BY DEF EncoderTypes, Kinds
<1>2. primed' /\ IF primed THEN coded' = Append(coded, "picture")
                 ELSE coded' = IF bytestream THEN <<"headed">> ELSE <<"sps", "pps", "picture">>
  <2>1. PICK c \in Venc!Coded(slot # 0) :
          /\ coded' = coded \o c
          /\ primed' = (primed \/ c # <<"empty">>)
    BY DEF Venc!in_send_cb
  <2>2. c = IF ~primed THEN IF bytestream THEN <<"headed">> ELSE <<"sps", "pps", "picture">>
            ELSE <<"picture">>
    BY <2>1 DEF Venc!Coded, Venc!Steady
  <2>3. CASE primed
    <3>1. c = <<"picture">>
      BY <2>2, <2>3
    <3>2. coded' = coded \o <<"picture">>
      BY <2>1, <3>1
    <3>3. coded \o <<"picture">> = Append(coded, "picture")
      BY <1>1, OneAppended
    <3>4. QED
      BY <2>1, <2>3, <3>2, <3>3
  <2>4. CASE ~primed
    <3>1. coded = <<>>
      BY <2>4 DEF StreamInv, FreshInv
    <3>2. CASE ~bytestream
      <4>1. c = <<"sps", "pps", "picture">>
        BY <2>2, <2>4, <3>2
      <4>2. coded' = <<"sps", "pps", "picture">>
        BY <2>1, <3>1, <4>1
      <4>3. c # <<"empty">>
        BY <4>1
      <4>4. QED
        BY <2>1, <2>4, <3>2, <4>2, <4>3
    <3>3. CASE bytestream
      <4>1. c = <<"headed">>
        BY <2>2, <2>4, <3>3
      <4>2. coded' = <<"headed">>
        BY <2>1, <3>1, <4>1
      <4>3. c # <<"empty">>
        BY <4>1
      <4>4. QED
        BY <2>1, <2>4, <3>3, <4>2, <4>3
    <3>4. QED
      BY <3>2, <3>3
  <2>5. QED
    BY <2>3, <2>4
<1>3. FreshInv'
  BY <1>0, <1>2 DEF FreshInv
<1>4. WholeInv'
  BY <1>0 DEF StreamInv, WholeInv, AllWhole
<1>5. CASE bytestream
  <2>1. ByteStreamInv
    BY <1>5 DEF StreamInv
  <2>2. \A i \in DOMAIN coded' :
          coded'[i] = "picture" \/ (/\ i = 1 /\ coded'[i] = "headed" /\ ~sps
                                    /\ queue = <<>> /\ taken = <<>> /\ pushed = <<>>)
    <3>1. CASE primed
      <4>1. coded' = Append(coded, "picture")
        BY <1>2, <3>1
      <4>2. QED
        BY <1>1, <2>1, <4>1, OneAppended DEF ByteStreamInv
    <3>2. CASE ~primed
      <4>1. coded' = <<"headed">>
        BY <1>2, <1>5, <3>2
      <4>2. ~sps /\ queue = <<>> /\ taken = <<>> /\ pushed = <<>>
        BY <3>2 DEF StreamInv, FreshInv
      <4>3. QED
        BY <4>1, <4>2, FirstSent
    <3>3. QED
      BY <3>1, <3>2
  <2>3. ByteStreamInv'
    BY <1>0, <2>1, <2>2 DEF ByteStreamInv
  <2>4. QED
    BY <1>0, <1>3, <1>4, <1>5, <2>3 DEF StreamInv
<1>6. CASE ~bytestream
  <2>0. OrderInv /\ SkippedFirst /\ HeadersInv /\ SkipInv
    BY <1>6 DEF StreamInv
  <2>1. Gone' = Gone /\ Passed' = Passed /\ Back' = Back /\ Come' = Come /\ Come \in Nat
    BY <1>0, Numbers DEF Gone, Passed, Back, Come
  <2>2. SkippedFirst' /\ HeadersInv' /\ SkipInv'
    BY <1>0, <2>0, <2>1 DEF SkippedFirst, HeadersInv, SkipInv, TakenInv, RefusedInv, Follow
  <2>3. (\A i \in DOMAIN coded' : coded'[i] = Kind(Come + i)) /\ Come + Len(coded') >= 3
    <3>1. CASE primed
      <4>1. coded' = Append(coded, "picture")
        BY <1>2, <3>1
      <4>2. /\ Len(coded') = Len(coded) + 1
            /\ DOMAIN coded' = DOMAIN coded \cup {Len(coded) + 1}
            /\ \A i \in DOMAIN coded : coded'[i] = coded[i]
            /\ coded'[Len(coded) + 1] = "picture"
        BY <1>1, <4>1, OneAppended, Appended
      <4>3. Come + Len(coded) >= 3
        BY <2>0, <3>1 DEF OrderInv
      <4>4. Kind(Come + (Len(coded) + 1)) = "picture"
        BY <1>1, <2>1, <4>3 DEF Kind
      <4>5. \A i \in DOMAIN coded : coded'[i] = Kind(Come + i)
        BY <2>0, <4>2 DEF OrderInv
      <4>6. Come + Len(coded') >= 3
        BY <1>1, <2>1, <4>2, <4>3
      <4>7. QED
        BY <4>2, <4>4, <4>5, <4>6
    <3>2. CASE ~primed
      <4>1. coded' = <<"sps", "pps", "picture">>
        BY <1>2, <1>6, <3>2
      <4>2. Come = 0
        <5>1. skipped = <<>> /\ pushed = <<>> /\ taken = <<>> /\ queue = <<>> /\ received = <<>>
          BY <3>2 DEF StreamInv, FreshInv
        <5>2. QED
          BY <5>1 DEF Come, Back, Passed, Gone
      <4>3. /\ Len(coded') = 3 /\ DOMAIN coded' = 1..3
            /\ coded'[1] = "sps" /\ coded'[2] = "pps" /\ coded'[3] = "picture"
        BY <4>1, FirstSent
      <4>4. QED
        BY <4>2, <4>3 DEF Kind
    <3>3. QED
      BY <3>1, <3>2
  <2>4. OrderInv'
    BY <1>0, <2>0, <2>1, <2>3 DEF OrderInv, Follow
  <2>5. QED
    BY <1>0, <1>3, <1>4, <1>6, <2>2, <2>4 DEF StreamInv
<1>7. QED
  BY <1>5, <1>6

(* Buffers that go from one place to the next keep their order. *)
LEMMA FollowAppended ==
  ASSUME NEW S, NEW s \in Seq(S), NEW r \in S, NEW n \in Nat
  PROVE  /\ Follow(s, n) /\ r.kind = Kind(n + Len(s) + 1) => Follow(Append(s, r), n)
         /\ AllWhole(s) /\ r.whole => AllWhole(Append(s, r))
<1>1. /\ DOMAIN Append(s, r) = DOMAIN s \cup {Len(s) + 1} /\ Len(s) \in Nat
      /\ \A i \in DOMAIN s : Append(s, r)[i] = s[i]
      /\ Append(s, r)[Len(s) + 1] = r
  BY OneAppended, Appended
<1>2. n + (Len(s) + 1) = n + Len(s) + 1
  BY <1>1
<1>3. QED
  BY <1>1, <1>2 DEF Follow, AllWhole

LEMMA FollowRest ==
  ASSUME NEW S, NEW s \in Seq(S), s # <<>>, NEW n \in Nat
  PROVE  /\ Follow(s, n) => Head(s).kind = Kind(n + 1) /\ Follow(Tail(s), n + 1)
         /\ AllWhole(s) => Head(s).whole /\ AllWhole(Tail(s))
<1>1. /\ 1 \in DOMAIN s /\ Head(s) = s[1]
      /\ \A i \in DOMAIN Tail(s) : /\ i \in Nat \ {0} /\ i + 1 \in DOMAIN s
                                   /\ Tail(s)[i] = s[i + 1]
  BY RestAt
<1>2. \A i \in DOMAIN Tail(s) : n + (i + 1) = (n + 1) + i
  BY <1>1
<1>3. QED
  BY <1>1, <1>2 DEF Follow, AllWhole

LEMMA FollowAlone ==
  ASSUME NEW S, NEW r \in S, NEW n \in Nat
  PROVE  /\ Follow(<<r>>, n) <=> r.kind = Kind(n + 1)
         /\ AllWhole(<<r>>) <=> r.whole
         /\ Follow(<<>>, n) /\ AllWhole(<<>>)
  BY OneAlone DEF Follow, AllWhole

(* What the node sends first says what is taken as a header. *)
LEMMA ReceiveKept ==
  ASSUME EncoderTypes, HeldInv, Venc!Steady, StreamInv, Venc!out_recv_cb
  PROVE  StreamInv'
<1>0. /\ coded # <<>> /\ bufs # <<>> /\ received = <<>> /\ coded' = Tail(coded)
      /\ UNCHANGED <<conf, bytestream, running, primed, recaps_left, skip_hack_2, old, counted,
                     lost, taken, seen, pushed, skipped>>
  BY ReceivedStep
<1>1. primed
  BY <1>0 DEF StreamInv, FreshInv
<1>2. coded \in Seq(Kinds) /\ queue \in Seq(Returned) /\ received \in Seq(Returned)
  BY DEF EncoderTypes
<1>3. /\ 1 \in DOMAIN coded /\ Head(coded) = coded[1] /\ Len(coded') = Len(coded) - 1
      /\ Len(coded) \in Nat
      /\ \A i \in DOMAIN coded' : /\ i \in Nat \ {0} /\ i + 1 \in DOMAIN coded
                                  /\ coded'[i] = coded[i + 1]
  BY <1>0, <1>2, RestAt, Rest
<1>4. FreshInv'
  BY <1>0, <1>1 DEF StreamInv, FreshInv
<1> DEFINE r == Venc!Returning(Head(coded), FALSE)
<1>5. r.kind = Head(coded) /\ (moved = {} => r.whole) /\ r \in Returned
  <2>1. Head(bufs) \in Range(Buffers) /\ Head(coded) \in Kinds
    BY <1>0, Rest DEF EncoderTypes
  <2>2. QED
    BY <2>1 DEF Venc!Returning, Returned
<1> HIDE DEF r
<1>6. moved = {} /\ AllWhole(received) /\ AllWhole(queue) /\ AllWhole(taken) /\ AllWhole(pushed)
  BY DEF StreamInv, WholeInv
<1>7. ASSUME Venc!Receive(FALSE)
      PROVE  WholeInv' /\ queue' = Append(queue, r) /\ received' = <<>>
  <2>1. queue' = Append(queue, r) /\ received' = <<>> /\ moved' = {}
    BY <1>0, <1>6, <1>7 DEF Venc!Receive, Venc!Take, r
  <2>2. AllWhole(queue')
    BY <1>2, <1>5, <1>6, <2>1, FollowAppended
  <2>3. QED
    BY <1>0, <1>6, <2>1, <2>2 DEF WholeInv, AllWhole
<1>8. ASSUME Venc!ReceiveToSkip
      PROVE  WholeInv' /\ queue' = queue /\ received' = <<r>>
  <2>1. queue' = queue /\ received' = <<r>> /\ moved' = {}
    BY <1>6, <1>8 DEF Venc!ReceiveToSkip, Venc!Take, r
  <2>2. AllWhole(received')
    BY <1>5, <1>6, <2>1, FollowAlone
  <2>3. QED
    BY <1>0, <1>6, <2>1, <2>2 DEF WholeInv, AllWhole
<1>9. CASE bytestream
  <2>0. ByteStreamInv
    BY <1>9 DEF StreamInv
  <2>1. \/ Head(coded) = "picture"
        \/ Head(coded) = "headed" /\ ~sps /\ queue = <<>> /\ taken = <<>> /\ pushed = <<>>
    BY <1>3, <2>0 DEF ByteStreamInv
  <2>2. Venc!recv_byte_stream
    BY <1>9, <2>1 DEF Venc!out_recv_cb, Venc!recv_empty, Venc!recv_after_headers,
                      Venc!recv_headers
  <2>3. Venc!Receive(FALSE)
    <3>1. (Head(coded) = "headed" /\ sps) = FALSE
      BY <2>1
    <3>2. QED
      BY <2>2, <3>1 DEF Venc!recv_byte_stream
  <2>4. queue' = Append(queue, r) /\ received' = <<>> /\ WholeInv'
    BY <1>7, <2>3
  <2>5. \A i \in DOMAIN coded' : coded'[i] = "picture"
    <3>1. \A i \in DOMAIN coded : i # 1 => coded[i] = "picture"
      BY <2>0 DEF ByteStreamInv
    <3>2. \A i \in DOMAIN coded' : i + 1 # 1
      BY <1>3
    <3>3. QED
      BY <1>3, <3>1, <3>2
  <2>6. \A i \in DOMAIN queue' :
          queue'[i].kind = "picture" \/ (i = 1 /\ taken = <<>> /\ pushed = <<>>)
    <3>1. /\ DOMAIN queue' = DOMAIN queue \cup {Len(queue) + 1}
          /\ \A i \in DOMAIN queue : queue'[i] = queue[i]
          /\ queue'[Len(queue) + 1] = r
      BY <1>2, <1>5, <2>4, OneAppended
    <3>2. r.kind = "picture" \/ (Len(queue) + 1 = 1 /\ taken = <<>> /\ pushed = <<>>)
      BY <1>5, <2>1
    <3>3. QED
      BY <2>0, <3>1, <3>2 DEF ByteStreamInv
  <2>7. ByteStreamInv'
    BY <1>0, <2>0, <2>4, <2>5, <2>6 DEF ByteStreamInv
  <2>8. QED
    BY <1>0, <1>4, <1>9, <2>4, <2>7 DEF StreamInv
<1>10. CASE ~bytestream
  <2>0. OrderInv /\ SkippedFirst /\ HeadersInv /\ SkipInv
    BY <1>10 DEF StreamInv
  <2>n. /\ Come = Back /\ Come \in Nat /\ Back \in Nat /\ Passed \in Nat
        /\ Back = Passed + Len(queue) /\ Len(queue) \in Nat /\ Len(received) = 0
    BY <1>0, Numbers
  <2>g. Gone' = Gone /\ Passed' = Passed
    BY <1>0 DEF Gone, Passed
  <2>1. Head(coded) = Kind(Come + 1)
    BY <1>3, <2>0 DEF OrderInv
  <2>2. \A i \in DOMAIN coded' : coded'[i] = Kind((Come + 1) + i)
    <3>1. \A i \in DOMAIN coded' : Come + (i + 1) = (Come + 1) + i
      BY <1>3, <2>n
    <3>2. QED
      BY <1>3, <2>0, <3>1 DEF OrderInv
  <2>3. (Come + 1) + Len(coded') >= 3
    <3>1. Come + Len(coded) >= 3
      BY <1>1, <2>0 DEF OrderInv
    <3>2. QED
      BY <1>3, <2>n, <3>1
  <2>4. CASE codec_data_done
    <3>0. pps /\ sps /\ Come >= 2 /\ counted >= 2
      BY <1>0, <2>0, <2>4, <2>n DEF HeadersInv
    <3>1. Head(coded) = "picture"
      BY <2>1, <2>n, <3>0 DEF Kind
    <3>2. Venc!recv_after_headers
      BY <1>10, <2>4, <3>1 DEF Venc!out_recv_cb, Venc!recv_empty, Venc!recv_byte_stream,
                               Venc!recv_headers
    <3>3. Venc!Receive(FALSE) /\ UNCHANGED <<sps, pps, codec_data_done, caps>>
      BY <3>1, <3>2 DEF Venc!recv_after_headers, Venc!IsHeader
    <3>4. queue' = Append(queue, r) /\ received' = <<>> /\ WholeInv'
      BY <1>7, <3>3
    <3>5. Back' = Back + 1 /\ Come' = Come + 1
      <4>1. Len(queue') = Len(queue) + 1 /\ Len(received') = 0
        BY <1>2, <1>5, <3>4, Appended
      <4>2. QED
        BY <2>n, <2>g, <4>1 DEF Back, Come
    <3>6. OrderInv'
      <4>1. Follow(queue', Passed)
        <5>1. r.kind = Kind(Passed + Len(queue) + 1)
          BY <1>5, <2>1, <2>n
        <5>2. Follow(queue, Passed)
          BY <2>0 DEF OrderInv
        <5>3. QED
          BY <1>2, <1>5, <2>n, <3>4, <5>1, <5>2, FollowAppended
      <4>2. Follow(received', Back')
        BY <3>4 DEF Follow
      <4>3. Follow(taken', Gone)
        BY <1>0, <2>0 DEF OrderInv, Follow
      <4>4. (\A i \in DOMAIN coded' : coded'[i] = Kind(Come' + i)) /\ Come' + Len(coded') >= 3
        BY <2>2, <2>3, <3>5
      <4>5. QED
        BY <2>g, <4>1, <4>2, <4>3, <4>4 DEF OrderInv, Follow
    <3>7. SkippedFirst'
      BY <1>0, <2>0 DEF SkippedFirst, Follow
    <3>8. HeadersInv'
      BY <1>0, <2>0, <2>4, <2>n, <3>0, <3>3, <3>4, <3>5 DEF HeadersInv
    <3>9. SkipInv'
      <4>1. ~conf.refuses => TakenInv'
        BY <1>0, <2>0, <2>n, <3>0, <3>4, <3>5 DEF SkipInv, TakenInv
      <4>2. conf.refuses /\ ~lost => RefusedInv'
        BY <1>0, <2>0, <2>4, <3>3, <3>4 DEF SkipInv, RefusedInv
      <4>3. QED
        BY <1>0, <4>1, <4>2 DEF SkipInv
    <3>10. QED
      BY <1>0, <1>4, <1>10, <3>4, <3>6, <3>7, <3>8, <3>9 DEF StreamInv
  <2>5. CASE ~codec_data_done
    <3>1. Head(coded) # "empty"
      BY <2>1 DEF Kind
    <3>2. Venc!recv_headers
      BY <1>10, <2>5, <3>1 DEF Venc!out_recv_cb, Venc!recv_empty, Venc!recv_byte_stream,
                               Venc!recv_after_headers
    <3>3. Venc!ReceiveToSkip /\ sps' = TRUE /\ pps' = (pps \/ sps)
      BY <3>2 DEF Venc!recv_headers
    <3>4. PICK ok \in {TRUE, ~conf.refuses} :
            /\ codec_data_done' = (pps' /\ ok)
            /\ caps' = IF pps' /\ ok THEN "codec_data" ELSE caps
      BY <3>2 DEF Venc!recv_headers
    <3>5. queue' = queue /\ received' = <<r>> /\ WholeInv' /\ Len(received') = 1
          /\ received' # <<>>
      BY <1>5, <1>8, <3>3, OneAlone
    <3>6. Back' = Back /\ Come' = Come + 1
      BY <2>n, <2>g, <3>5 DEF Back, Come
    <3>7. OrderInv'
      <4>1. Follow(received', Back)
        BY <1>5, <2>1, <2>n, <3>5, FollowAlone
      <4>2. Follow(queue', Passed) /\ Follow(taken', Gone)
        BY <1>0, <2>0, <3>5 DEF OrderInv, Follow
      <4>3. (\A i \in DOMAIN coded' : coded'[i] = Kind(Come' + i)) /\ Come' + Len(coded') >= 3
        BY <2>2, <2>3, <3>6
      <4>4. QED
        BY <2>g, <3>6, <4>1, <4>2, <4>3 DEF OrderInv, Follow
    <3>8. SkippedFirst'
      BY <1>0, <2>0 DEF SkippedFirst, Follow
    <3>9. HeadersInv'
      <4>1. sps' /\ Come' >= 1 /\ (pps' <=> Come' >= 2)
        <5>1. (pps <=> Come >= 2) /\ (sps <=> Come >= 1)
          BY <2>0 DEF HeadersInv
        <5>2. Come' >= 1 /\ (Come' >= 2 <=> Come >= 1) /\ (Come >= 2 => Come >= 1)
          BY <2>n, <3>6
        <5>3. pps' <=> pps \/ sps
          BY <3>3
        <5>4. QED
          BY <3>3, <5>1, <5>2, <5>3
      <4>2. /\ codec_data_done' => pps' /\ caps' = "codec_data"
            /\ pps' /\ ~conf'.refuses => codec_data_done'
        BY <1>0, <3>4
      <4>3. counted' = Back'
        BY <1>0, <2>0, <2>5, <3>6 DEF HeadersInv
      <4>4. QED
        BY <3>5, <4>1, <4>2, <4>3 DEF HeadersInv
    <3>10. SkipInv'
      <4>1. ~conf.refuses => TakenInv'
        <5>1. ~conf.refuses => ~(Come >= 2)
          BY <2>0, <2>5 DEF HeadersInv
        <5>2. ~conf.refuses => ~(Back' >= 2)
          BY <2>n, <3>6, <5>1
        <5>3. QED
          BY <1>0, <2>0, <3>6, <5>2 DEF SkipInv, TakenInv
      <4>2. conf.refuses /\ ~lost => RefusedInv'
        BY <1>0, <2>0, <2>5, <3>6 DEF SkipInv, RefusedInv
      <4>3. QED
        BY <1>0, <4>1, <4>2 DEF SkipInv
    <3>11. QED
      BY <1>0, <1>4, <1>10, <3>5, <3>7, <3>8, <3>9, <3>10 DEF StreamInv
  <2>6. QED
    BY <2>4, <2>5
<1>11. QED
  BY <1>9, <1>10

(* dsp_thread reads skip_hack_2. *)
LEMMA ReadKept ==
  ASSUME EncoderTypes, HeldInv, StreamInv, Venc!recv_read
  PROVE  StreamInv'
<1>0. /\ received # <<>> /\ old' = skip_hack_2
      /\ UNCHANGED <<conf, bytestream, running, recaps_left, primed, coded, moved, caps, sps,
                     pps, codec_data_done, skip_hack_2, counted, received, lost, queue, taken,
                     seen, pushed, skipped>>
  BY DEF Venc!recv_read, Venc!fixed, Venc!node, Venc!output
<1>1. FreshInv' /\ WholeInv'
  BY <1>0 DEF StreamInv, FreshInv, WholeInv, AllWhole
<1>2. ~bytestream
  BY <1>0 DEF StreamInv, ByteStreamInv
<1>3. OrderInv /\ SkippedFirst /\ HeadersInv /\ SkipInv
  BY <1>2 DEF StreamInv
<1>4. Gone' = Gone /\ Passed' = Passed /\ Back' = Back /\ Come' = Come
  BY <1>0 DEF Gone, Passed, Back, Come
<1>5. OrderInv' /\ SkippedFirst' /\ HeadersInv'
  BY <1>0, <1>3, <1>4 DEF OrderInv, SkippedFirst, HeadersInv, Follow
<1>6. SkipInv'
  <2>1. ASSUME ~conf.refuses
        PROVE  TakenInv'
    <3>1. TakenInv
      BY <1>3, <2>1 DEF SkipInv
    <3>2. Len(skipped) <= Back /\ Len(skipped) \in Nat /\ Back \in Nat
      BY Numbers
    <3>3. Back < 2
      BY <1>0, <3>1, <3>2 DEF TakenInv
    <3>4. (Back = 0 /\ Len(skipped) = 0) \/ (Back = 1 /\ Len(skipped) = 0)
          \/ (Back = 1 /\ Len(skipped) = 1)
      <4>1. \A b, a \in Nat : a <= b /\ b < 2 =>
              (b = 0 /\ a = 0) \/ (b = 1 /\ a = 0) \/ (b = 1 /\ a = 1)
        OBVIOUS
      <4>2. QED
        BY <3>2, <3>3, <4>1
    <3>5. QED
      BY <1>0, <1>4, <3>1, <3>2, <3>3, <3>4 DEF TakenInv
  <2>2. conf.refuses /\ ~lost => RefusedInv'
    BY <1>0, <1>3, <1>4 DEF SkipInv, RefusedInv
  <2>3. QED
    BY <1>0, <2>1, <2>2 DEF SkipInv
<1>7. QED
  BY <1>0, <1>1, <1>2, <1>5, <1>6 DEF StreamInv

(* It writes it, and the buffer goes to the queue. *)
LEMMA WriteKept ==
  ASSUME EncoderTypes, HeldInv, StreamInv, Venc!recv_write
  PROVE  StreamInv'
<1>0. /\ received # <<>> /\ old # -1
      /\ skip_hack_2' = old + 1 /\ counted' = counted + 1
      /\ (lost' <=> lost \/ skip_hack_2 # old)
      /\ queue' = queue \o received /\ received' = <<>> /\ old' = -1
      /\ UNCHANGED <<conf, bytestream, running, recaps_left, primed, coded, moved, caps, sps,
                     pps, codec_data_done, taken, seen, pushed, skipped>>
  BY DEF Venc!recv_write, Venc!Incremented, Venc!NotRead, Venc!fixed, Venc!node
<1>1. /\ Len(received) = 1 /\ received \in Seq(Returned) /\ queue \in Seq(Returned)
      /\ received = <<received[1]>> /\ received[1] \in Returned
      /\ queue' = Append(queue, received[1])
  <2>1. Len(received) = 1 /\ received \in Seq(Returned) /\ queue \in Seq(Returned)
    BY <1>0 DEF EncoderTypes, HeldInv
  <2>2. QED
    BY <1>0, <2>1, Alone
<1>2. ~bytestream
  BY <1>0 DEF StreamInv, ByteStreamInv
<1>3. OrderInv /\ SkippedFirst /\ HeadersInv /\ SkipInv
  BY <1>2 DEF StreamInv
<1>4. primed
  BY <1>0 DEF StreamInv, FreshInv
<1>5. FreshInv'
  BY <1>0, <1>4 DEF StreamInv, FreshInv
<1>6. WholeInv'
  <2>1. AllWhole(queue) /\ AllWhole(received)
    BY DEF StreamInv, WholeInv
  <2>2. received[1].whole
    BY <1>1, <2>1, FollowAlone
  <2>3. AllWhole(queue') /\ AllWhole(received')
    BY <1>0, <1>1, <2>1, <2>2, FollowAppended DEF AllWhole
  <2>4. QED
    BY <1>0, <2>3 DEF StreamInv, WholeInv, AllWhole
<1>7. Gone' = Gone /\ Passed' = Passed /\ Back' = Back + 1 /\ Come' = Come /\ Come = Back + 1
  <2>1. Len(queue') = Len(queue) + 1 /\ Len(received') = 0
    BY <1>0, <1>1, Appended
  <2>2. Gone' = Gone /\ Passed' = Passed
    BY <1>0 DEF Gone, Passed
  <2>3. QED
    BY <1>1, <2>1, <2>2, Numbers DEF Back, Come
<1>8. OrderInv'
  <2>1. Follow(queue, Passed) /\ Follow(received, Back)
    BY <1>3 DEF OrderInv
  <2>2. received[1].kind = Kind(Passed + Len(queue) + 1)
    BY <1>1, <2>1, FollowAlone, Numbers
  <2>3. Follow(queue', Passed)
    BY <1>1, <2>1, <2>2, FollowAppended, Numbers
  <2>4. QED
    BY <1>0, <1>3, <1>7, <2>3 DEF OrderInv, Follow
<1>9. SkippedFirst'
  BY <1>0, <1>3 DEF SkippedFirst, Follow
<1>10. counted = Back /\ (codec_data_done => Come >= 2)
  BY <1>0, <1>3 DEF HeadersInv
<1>11. HeadersInv'
  <2>1. counted' = Back' /\ (codec_data_done => counted' >= 2)
    BY <1>0, <1>7, <1>10
  <2>2. QED
    BY <1>0, <1>3, <1>7, <2>1 DEF HeadersInv
<1>12. SkipInv'
  <2>1. ASSUME ~conf.refuses
        PROVE  TakenInv'
    <3>1. TakenInv
      BY <1>3, <2>1 DEF SkipInv
    <3>2. Back = 0 \/ Back = 1
      <4>1. ~(Back >= 2) /\ Back \in Nat
        BY <1>0, <3>1, Numbers DEF TakenInv
      <4>2. QED
        BY <4>1
    <3>3. pushed = <<>>
      BY <3>1, <3>2, Numbers DEF TakenInv
    <3>4. CASE Back = 0
      <4>1. Len(skipped) = 0 /\ Len(taken) = 0 /\ taken = <<>>
        BY <3>4, Numbers
      <4>2. skip_hack_2' = 1 /\ Back' = 1
        BY <1>0, <1>7, <3>1, <3>4 DEF TakenInv
      <4>3. QED
        BY <1>0, <3>3, <4>1, <4>2 DEF TakenInv
    <3>5. CASE Back = 1 /\ Len(skipped) = 0
      <4>1. skip_hack_2' = 2 /\ Back' = 2 /\ (taken # <<>> => seen = 1)
        BY <1>0, <1>7, <3>1, <3>5 DEF TakenInv
      <4>2. QED
        BY <1>0, <3>3, <3>5, <4>1 DEF TakenInv
    <3>6. CASE Back = 1 /\ Len(skipped) = 1
      <4>1. Len(taken) = 0 /\ taken = <<>>
        BY <3>6, Numbers
      <4>2. Back' = 2 /\ skip_hack_2' \in {1, 2} /\ (skip_hack_2' # 1 => lost')
        BY <1>0, <1>7, <3>1, <3>6 DEF TakenInv
      <4>3. QED
        BY <1>0, <3>3, <3>6, <4>1, <4>2 DEF TakenInv
    <3>7. Back = 1 => Len(skipped) = 0 \/ Len(skipped) = 1
      <4>1. Len(skipped) <= Back /\ Len(skipped) \in Nat
        BY Numbers
      <4>2. \A b, a \in Nat : a <= b /\ b = 1 => a = 0 \/ a = 1
        OBVIOUS
      <4>3. QED
        BY <4>1, <4>2, Numbers
    <3>8. QED
      BY <3>2, <3>4, <3>5, <3>6, <3>7
  <2>2. ASSUME conf.refuses, ~lost'
        PROVE  RefusedInv'
    <3>1. ~lost /\ skip_hack_2 = old
      BY <1>0, <2>2
    <3>2. RefusedInv
      BY <1>3, <2>2, <3>1 DEF SkipInv
    <3>3. pushed = <<>> /\ skip_hack_2 = Back - Len(skipped) /\ (taken # <<>> => seen >= 1)
      BY <1>0, <3>2 DEF RefusedInv
    <3>4. skip_hack_2' = Back' - Len(skipped)
      <4>1. Back \in Nat /\ Len(skipped) \in Nat
        BY Numbers
      <4>2. skip_hack_2' = skip_hack_2 + 1
        BY <1>0, <3>1
      <4>3. QED
        BY <1>7, <3>3, <4>1, <4>2
    <3>5. QED
      BY <1>0, <3>3, <3>4 DEF RefusedInv
  <2>3. QED
    BY <1>0, <2>1, <2>2 DEF SkipInv
<1>13. QED
  BY <1>0, <1>2, <1>5, <1>6, <1>8, <1>9, <1>11, <1>12 DEF StreamInv

(* The output loop takes a buffer and reads skip_hack_2. *)
LEMMA TakeKept ==
  ASSUME EncoderTypes, HeldInv, StreamInv, Venc!output_take,
         ~lost => Len(skipped) + skip_hack_2 = counted
  PROVE  StreamInv'
<1>0. /\ taken = <<>> /\ queue # <<>> /\ taken' = <<Head(queue)>> /\ queue' = Tail(queue)
      /\ seen' = skip_hack_2
      /\ UNCHANGED <<conf, bytestream, running, recaps_left, primed, coded, moved, caps, sps,
                     pps, codec_data_done, skip_hack_2, counted, received, old, lost, pushed,
                     skipped>>
  BY DEF Venc!output_take, Venc!fixed, Venc!node, Venc!headers
<1>1. /\ queue \in Seq(Returned) /\ Head(queue) \in Returned
      /\ Len(taken') = 1 /\ taken' # <<>> /\ Len(queue') = Len(queue) - 1
  BY <1>0, Rest, OneAlone DEF EncoderTypes
<1>2. primed
  BY <1>0 DEF StreamInv, FreshInv
<1>3. FreshInv'
  BY <1>0, <1>2 DEF StreamInv, FreshInv
<1>4. WholeInv'
  <2>1. AllWhole(queue)
    BY DEF StreamInv, WholeInv
  <2>2. AllWhole(queue') /\ Head(queue).whole
    <3>1. 0 \in Nat
      OBVIOUS
    <3>2. QED
      BY <1>0, <1>1, <2>1, <3>1, FollowRest
  <2>3. AllWhole(taken')
    <3>1. 0 \in Nat
      OBVIOUS
    <3>2. QED
      BY <1>0, <1>1, <2>2, <3>1, FollowAlone
  <2>4. QED
    BY <1>0, <2>2, <2>3 DEF StreamInv, WholeInv, AllWhole
<1>5. CASE bytestream
  <2>0. ByteStreamInv
    BY <1>5 DEF StreamInv
  <2>1. /\ 1 \in DOMAIN queue /\ Head(queue) = queue[1]
        /\ \A i \in DOMAIN queue' : /\ i \in Nat \ {0} /\ i + 1 \in DOMAIN queue
                                    /\ queue'[i] = queue[i + 1]
    BY <1>0, <1>1, RestAt
  <2>2. \A i \in DOMAIN queue' : queue'[i].kind = "picture"
    <3>1. \A i \in DOMAIN queue' : i + 1 # 1
      BY <2>1
    <3>2. QED
      BY <2>0, <2>1, <3>1 DEF ByteStreamInv
  <2>3. \A i \in DOMAIN taken' : taken'[i].kind = "picture" \/ pushed = <<>>
    <3>1. DOMAIN taken' = {1} /\ taken'[1] = Head(queue)
      BY <1>0, <1>1, OneAlone
    <3>2. QED
      BY <2>0, <2>1, <3>1 DEF ByteStreamInv
  <2>4. \A i \in DOMAIN coded : coded[i] = "picture"
    BY <1>0, <2>0 DEF ByteStreamInv
  <2>5. ByteStreamInv'
    BY <1>0, <2>0, <2>2, <2>3, <2>4 DEF ByteStreamInv
  <2>6. QED
    BY <1>0, <1>3, <1>4, <1>5, <2>5 DEF StreamInv
<1>6. CASE ~bytestream
  <2>0. OrderInv /\ SkippedFirst /\ HeadersInv /\ SkipInv
    BY <1>6 DEF StreamInv
  <2>1. /\ Gone' = Gone /\ Passed' = Passed + 1 /\ Back' = Back /\ Come' = Come
        /\ Passed = Gone
    <3>1. Gone' = Gone
      BY <1>0 DEF Gone
    <3>2. Passed' = Passed + 1 /\ Passed = Gone
      BY <1>0, <1>1, <3>1, Numbers DEF Passed
    <3>3. Back' = Back
      BY <1>1, <3>2, Numbers DEF Back
    <3>4. QED
      BY <1>0, <3>1, <3>2, <3>3 DEF Come
  <2>2. OrderInv'
    <3>1. Follow(queue, Passed)
      BY <2>0 DEF OrderInv
    <3>2. Head(queue).kind = Kind(Passed + 1) /\ Follow(queue', Passed + 1)
      BY <1>0, <1>1, <3>1, FollowRest, Numbers
    <3>3. Follow(taken', Gone)
      BY <1>0, <1>1, <2>1, <3>2, FollowAlone, Numbers
    <3>4. QED
      BY <1>0, <2>0, <2>1, <3>2, <3>3 DEF OrderInv, Follow
  <2>3. SkippedFirst' /\ HeadersInv'
    BY <1>0, <2>0, <2>1 DEF SkippedFirst, HeadersInv, Follow
  <2>4. Back > Len(skipped)
    BY <1>0, Numbers
  <2>5. SkipInv'
    <3>1. ASSUME ~conf.refuses
          PROVE  TakenInv'
      <4>1. TakenInv
        BY <2>0, <3>1 DEF SkipInv
      <4>2. Back = 1 => Len(skipped) = 0
        BY <2>4, Numbers
      <4>3. QED
        BY <1>0, <2>1, <2>4, <4>1, <4>2, Numbers DEF TakenInv
    <3>2. ASSUME conf.refuses, ~lost
          PROVE  RefusedInv'
      <4>1. RefusedInv
        BY <2>0, <3>2 DEF SkipInv
      <4>2. ~codec_data_done \/ received # <<>> => seen' >= 1
        BY <1>0, <2>4, <4>1, Numbers DEF RefusedInv
      <4>3. seen' = 0 => Len(skipped) = counted
        BY <1>0, <3>2, Numbers
      <4>4. QED
        BY <1>0, <2>1, <4>1, <4>2, <4>3 DEF RefusedInv
    <3>3. QED
      BY <1>0, <3>1, <3>2 DEF SkipInv
  <2>6. QED
    BY <1>0, <1>3, <1>4, <1>6, <2>2, <2>3, <2>5 DEF StreamInv
<1>7. QED
  BY <1>5, <1>6

(* The output loop skips the buffer it has. *)
LEMMA SkipKept ==
  ASSUME EncoderTypes, HeldInv, StreamInv, Venc!output_skip,
         ~lost => Len(skipped) + skip_hack_2 = counted
  PROVE  StreamInv'
<1>0. /\ seen > 0 /\ skip_hack_2' = seen - 1 /\ (lost' <=> lost \/ skip_hack_2 # seen)
      /\ skipped' = Append(skipped, taken[1].kind) /\ pushed' = pushed
  BY DEF Venc!output_skip
<1>1. /\ Len(taken) = 1 /\ taken[1] \in Returned /\ taken' = <<>> /\ seen' = 0
      /\ UNCHANGED <<conf, bytestream, running, recaps_left, primed, coded, moved, caps, sps,
                     pps, codec_data_done, counted, received, old, queue>>
  BY SentBack DEF Venc!output_skip
<1>2. /\ skipped \in Seq(Kinds) /\ taken[1].kind \in Kinds /\ taken # <<>>
      /\ taken = <<taken[1]>>
  BY <1>1, Alone DEF EncoderTypes, Returned
<1>3. /\ Len(skipped') = Len(skipped) + 1
      /\ DOMAIN skipped' = DOMAIN skipped \cup {Len(skipped) + 1}
      /\ \A i \in DOMAIN skipped : skipped'[i] = skipped[i]
      /\ skipped'[Len(skipped) + 1] = taken[1].kind
  BY <1>0, <1>2, Appended, OneAppended
<1>4. primed
  BY <1>2 DEF StreamInv, FreshInv
<1>5. FreshInv'
  BY <1>1, <1>4 DEF StreamInv, FreshInv
<1>6. WholeInv'
  BY <1>0, <1>1 DEF StreamInv, WholeInv, AllWhole
<1>7. ~bytestream
  BY <1>0 DEF StreamInv, ByteStreamInv
<1>8. OrderInv /\ SkippedFirst /\ HeadersInv /\ SkipInv
  BY <1>7 DEF StreamInv
<1>9. /\ Gone' = Gone + 1 /\ Passed' = Passed /\ Back' = Back /\ Come' = Come
      /\ Back > Len(skipped) /\ Back > 0
  <2>1. Gone' = Gone + 1
    BY <1>0, <1>3, Numbers DEF Gone
  <2>2. Len(taken') = 0
    BY <1>1
  <2>3. Passed' = Passed
    BY <1>1, <2>1, <2>2, Numbers DEF Passed
  <2>4. Back' = Back
    BY <1>1, <2>3 DEF Back
  <2>5. QED
    BY <1>1, <2>1, <2>3, <2>4, Numbers DEF Come
<1>10. OrderInv'
  BY <1>1, <1>8, <1>9 DEF OrderInv, Follow
<1>11. HeadersInv'
  BY <1>1, <1>8, <1>9 DEF HeadersInv
<1>12. (lost' => ~conf.refuses) => pushed = <<>>
  <2>1. ASSUME ~conf.refuses
        PROVE  pushed = <<>>
    <3>1. TakenInv
      BY <1>8, <2>1 DEF SkipInv
    <3>2. Back >= 2 /\ Len(skipped) # 0 => seen = skip_hack_2
      BY <1>2, <3>1 DEF TakenInv
    <3>3. pushed # <<>> => Back # 1 /\ skip_hack_2 = 0 /\ Len(skipped) >= 1
      BY <3>1 DEF TakenInv
    <3>4. QED
      BY <1>0, <1>9, <3>2, <3>3, Numbers
  <2>2. ASSUME conf.refuses, ~lost'
        PROVE  pushed = <<>>
    <3>1. ~lost /\ skip_hack_2 = seen
      BY <1>0, <2>2
    <3>2. RefusedInv
      BY <1>8, <2>2, <3>1 DEF SkipInv
    <3>3. pushed # <<>> => Len(skipped) = counted
      BY <3>2 DEF RefusedInv
    <3>4. skip_hack_2 > 0 /\ Len(skipped) + skip_hack_2 = counted
      BY <1>0, <3>1
    <3>5. QED
      BY <3>3, <3>4, Numbers
  <2>3. QED
    BY <2>1, <2>2
<1>13. SkippedFirst'
  <2> SUFFICES ASSUME lost' => ~conf.refuses
               PROVE  /\ \A i \in DOMAIN skipped' : skipped'[i] = Kind(i)
                      /\ Follow(pushed', Len(skipped'))
                      /\ recaps_left = MaxRecaps =>
                           \A i \in DOMAIN pushed' : pushed'[i].caps = "codec_data"
    BY <1>1 DEF SkippedFirst, Follow
  <2>1. pushed' = <<>>
    BY <1>0, <1>12
  <2>2. \A i \in DOMAIN pushed' : FALSE
    BY <2>1
  <2>3. \A i \in DOMAIN skipped : skipped[i] = Kind(i)
    BY <1>0, <1>8 DEF SkippedFirst
  <2>4. taken[1].kind = Kind(Len(skipped) + 1)
    <3>1. Follow(taken, Gone)
      BY <1>8 DEF OrderInv
    <3>2. taken[1].kind = Kind(Gone + 1)
      BY <1>1, <1>2, <3>1, FollowAlone, Numbers
    <3>3. Gone = Len(skipped)
      BY <1>12, Numbers
    <3>4. QED
      BY <3>2, <3>3
  <2>5. QED
    BY <1>3, <2>2, <2>3, <2>4 DEF Follow
<1>14. SkipInv'
  <2>1. ASSUME ~conf.refuses
        PROVE  TakenInv'
    <3>1. TakenInv /\ pushed = <<>> /\ Len(skipped) \in Nat /\ Back \in Nat
      BY <1>8, <1>12, <2>1, Numbers DEF SkipInv
    <3>2. CASE Back = 1
      <4>1. Len(skipped) = 0
        BY <1>9, <3>1, <3>2
      <4>2. seen = 1 /\ old \in {-1, 1}
        BY <1>2, <3>1, <3>2, <4>1 DEF TakenInv
      <4>3. QED
        BY <1>0, <1>1, <1>3, <1>9, <3>1, <3>2, <4>1, <4>2 DEF TakenInv
    <3>3. CASE Back >= 2 /\ Len(skipped) = 0
      <4>1. skip_hack_2 = 2 /\ (seen = 1 \/ seen = 2) /\ received = <<>>
        BY <1>2, <3>1, <3>3 DEF TakenInv
      <4>2. (skip_hack_2' = 0 /\ lost') \/ skip_hack_2' = 1
        BY <1>0, <4>1
      <4>3. QED
        BY <1>0, <1>1, <1>3, <1>9, <3>1, <3>3, <4>1, <4>2 DEF TakenInv
    <3>4. CASE Back >= 2 /\ Len(skipped) = 1
      <4>1. seen = skip_hack_2 /\ skip_hack_2 <= 2 /\ (skip_hack_2 # 1 => lost)
            /\ received = <<>>
        BY <1>2, <3>1, <3>4 DEF TakenInv
      <4>2. skip_hack_2' = 0 \/ (skip_hack_2' = 1 /\ lost')
        BY <1>0, <4>1, Numbers
      <4>3. QED
        BY <1>0, <1>1, <1>3, <1>9, <3>1, <3>4, <4>1, <4>2 DEF TakenInv
    <3>5. CASE Back >= 2 /\ Len(skipped) = 2
      <4>1. seen = skip_hack_2 /\ skip_hack_2 <= 1 /\ (skip_hack_2 # 0 => lost)
            /\ received = <<>>
        BY <1>2, <3>1, <3>5 DEF TakenInv
      <4>2. skip_hack_2' = 0 /\ lost'
        BY <1>0, <4>1, Numbers
      <4>3. Len(skipped') = 3 /\ pushed' = <<>> /\ taken' = <<>> /\ received' = <<>>
            /\ Back' >= 2
        BY <1>0, <1>1, <1>3, <1>9, <3>1, <3>5, <4>1
      <4>4. QED
        BY <4>2, <4>3 DEF TakenInv
    <3>6. CASE Back >= 2 /\ Len(skipped) = 3
      BY <1>0, <1>2, <3>1, <3>6 DEF TakenInv
    <3>7. \/ Len(skipped) = 0 \/ Len(skipped) = 1 \/ Len(skipped) = 2 \/ Len(skipped) = 3
      <4>1. Len(skipped) <= 3
        BY <3>1 DEF TakenInv
      <4>2. \A a \in Nat : a <= 3 => a = 0 \/ a = 1 \/ a = 2 \/ a = 3
        OBVIOUS
      <4>3. QED
        BY <3>1, <4>1, <4>2
    <3>8. Back = 1 \/ Back >= 2
      BY <1>9, <3>1
    <3>9. QED
      BY <3>2, <3>3, <3>4, <3>5, <3>6, <3>7, <3>8
  <2>2. ASSUME conf.refuses, ~lost'
        PROVE  RefusedInv'
    <3>1. ~lost /\ skip_hack_2 = seen /\ pushed = <<>>
      BY <1>0, <1>12, <2>2
    <3>2. RefusedInv
      BY <1>8, <2>2, <3>1 DEF SkipInv
    <3>3. ~codec_data_done \/ received # <<>> => skip_hack_2' = Back - Len(skipped')
      <4>1. ~codec_data_done \/ received # <<>> => skip_hack_2 = Back - Len(skipped)
        BY <3>2 DEF RefusedInv
      <4>2. \A n, a, b \in Nat : n = b - a => n - 1 = b - (a + 1)
        OBVIOUS
      <4>3. skip_hack_2' = skip_hack_2 - 1 /\ Len(skipped') = Len(skipped) + 1
        BY <1>0, <1>3, <3>1
      <4>4. skip_hack_2 \in Nat /\ Len(skipped) \in Nat /\ Back \in Nat
        BY Numbers
      <4>5. QED
        BY <4>1, <4>2, <4>3, <4>4
    <3>4. QED
      BY <1>0, <1>1, <1>9, <3>1, <3>3 DEF RefusedInv
  <2>3. QED
    BY <1>0, <1>1, <2>1, <2>2 DEF SkipInv
<1>15. QED
  BY <1>1, <1>5, <1>6, <1>7, <1>10, <1>11, <1>13, <1>14 DEF StreamInv

(* The output loop pushes the buffer it has. *)
LEMMA PushKept ==
  ASSUME EncoderTypes, HeldInv, StreamInv, Venc!output_push
  PROVE  StreamInv'
<1> DEFINE p == [kind |-> taken[1].kind, caps |-> caps, whole |-> taken[1].whole]
<1>0. /\ seen = 0 /\ UNCHANGED <<skip_hack_2, lost, skipped>>
      /\ pushed' = IF taken[1].kind = "empty" THEN pushed ELSE Append(pushed, p)
  BY DEF Venc!output_push
<1>1. /\ Len(taken) = 1 /\ taken[1] \in Returned /\ taken' = <<>> /\ seen' = 0
      /\ UNCHANGED <<conf, bytestream, running, recaps_left, primed, coded, moved, caps, sps,
                     pps, codec_data_done, counted, received, old, queue>>
  BY SentBack DEF Venc!output_push
<1>2. taken # <<>> /\ taken = <<taken[1]>>
  BY <1>1, Alone DEF EncoderTypes
<1>3. /\ p \in Output /\ pushed \in Seq(Output)
      /\ p.kind = taken[1].kind /\ p.caps = caps /\ p.whole = taken[1].whole
  BY <1>1 DEF Returned, Output, EncoderTypes
<1> HIDE DEF p
<1>4. /\ Len(Append(pushed, p)) = Len(pushed) + 1 /\ Append(pushed, p) # <<>>
      /\ DOMAIN Append(pushed, p) = DOMAIN pushed \cup {Len(pushed) + 1}
      /\ \A i \in DOMAIN pushed : Append(pushed, p)[i] = pushed[i]
      /\ Append(pushed, p)[Len(pushed) + 1] = p
  BY <1>3, Appended, OneAppended
<1>5. primed
  BY <1>2 DEF StreamInv, FreshInv
<1>6. FreshInv'
  BY <1>1, <1>5 DEF StreamInv, FreshInv
<1>7. WholeInv'
  <2>1. AllWhole(pushed) /\ AllWhole(taken)
    BY DEF StreamInv, WholeInv
  <2>2. taken[1].whole
    <3>1. 0 \in Nat
      OBVIOUS
    <3>2. QED
      BY <1>1, <1>2, <2>1, <3>1, FollowAlone
  <2>3. AllWhole(pushed')
    BY <1>0, <1>3, <1>4, <2>1, <2>2 DEF AllWhole
  <2>4. QED
    BY <1>1, <2>3 DEF StreamInv, WholeInv, AllWhole
<1>8. CASE bytestream
  <2>0. ByteStreamInv
    BY <1>8 DEF StreamInv
  <2>1. p.kind = "picture" \/ pushed = <<>>
    <3>1. 1 \in DOMAIN taken
      BY <1>1 DEF EncoderTypes
    <3>2. QED
      BY <1>3, <2>0, <3>1 DEF ByteStreamInv
  <2>2. \A i \in DOMAIN pushed' : pushed'[i].kind = "picture" \/ i = 1
    <3>1. pushed = <<>> => Len(pushed) + 1 = 1
      OBVIOUS
    <3>2. QED
      BY <1>0, <1>4, <2>0, <2>1, <3>1 DEF ByteStreamInv
  <2>3. \A i \in DOMAIN coded : coded[i] = "picture"
    BY <1>2, <2>0 DEF ByteStreamInv
  <2>4. \A i \in DOMAIN queue : queue[i].kind = "picture"
    BY <1>2, <2>0 DEF ByteStreamInv
  <2>5. \A i \in DOMAIN taken' : FALSE
    BY <1>1
  <2>6. ByteStreamInv'
    BY <1>0, <1>1, <2>0, <2>2, <2>3, <2>4, <2>5 DEF ByteStreamInv
  <2>7. QED
    BY <1>1, <1>6, <1>7, <1>8, <2>6 DEF StreamInv
<1>9. CASE ~bytestream
  <2>0. OrderInv /\ SkippedFirst /\ HeadersInv /\ SkipInv
    BY <1>9 DEF StreamInv
  <2>1. taken[1].kind = Kind(Gone + 1) /\ pushed' = Append(pushed, p)
    <3>1. Follow(taken, Gone)
      BY <2>0 DEF OrderInv
    <3>2. taken[1].kind = Kind(Gone + 1)
      <4>1. Follow(<<taken[1]>>, Gone) /\ Gone \in Nat
        BY <1>2, <3>1, Numbers
      <4>2. QED
        BY <1>1, <4>1, FollowAlone
    <3>3. taken[1].kind # "empty"
      BY <3>2 DEF Kind
    <3>4. QED
      BY <1>0, <3>2, <3>3
  <2>2. /\ Gone' = Gone + 1 /\ Passed' = Passed /\ Back' = Back /\ Come' = Come
        /\ Back > Len(skipped) /\ Len(pushed') = Len(pushed) + 1 /\ pushed' # <<>>
        /\ Gone = Len(skipped) + Len(pushed) /\ Back >= Len(skipped) + 1
    <3>1. Gone' = Gone + 1
      BY <1>0, <1>4, <2>1, Numbers DEF Gone
    <3>2. Len(taken') = 0
      BY <1>1
    <3>3. Passed' = Passed
      BY <1>1, <3>1, <3>2, Numbers DEF Passed
    <3>4. Back' = Back
      BY <1>1, <3>3 DEF Back
    <3>5. QED
      BY <1>1, <1>4, <2>1, <3>1, <3>3, <3>4, Numbers DEF Come
  <2>3. OrderInv'
    BY <1>1, <2>0, <2>2 DEF OrderInv, Follow
  <2>4. HeadersInv'
    BY <1>1, <2>0, <2>2 DEF HeadersInv
  <2>5. ASSUME ~conf.refuses
        PROVE  TakenInv' /\ Back >= 2
    <3>1. TakenInv
      BY <2>0, <2>5 DEF SkipInv
    <3>2. Len(skipped) # 0
      <4>1. ASSUME Len(skipped) = 0
            PROVE  seen = 1 \/ seen = 2
        <5>1. Back = 1 \/ Back >= 2
          BY <2>2, Numbers
        <5>2. QED
          BY <1>2, <3>1, <4>1, <5>1 DEF TakenInv
      <4>2. QED
        BY <1>0, <4>1
    <3>3. Back >= 2 /\ Len(skipped) >= 1
      <4>1. \A a, b \in Nat : a # 0 /\ b >= a + 1 => b >= 2 /\ a >= 1
        OBVIOUS
      <4>2. Len(skipped) \in Nat /\ Back \in Nat
        BY Numbers
      <4>3. QED
        BY <2>2, <3>2, <4>1, <4>2
    <3>4. skip_hack_2 = 0 /\ received = <<>>
      BY <1>0, <1>2, <3>1, <3>2, <3>3 DEF TakenInv
    <3>5. QED
      BY <1>0, <1>1, <2>2, <3>1, <3>2, <3>3, <3>4 DEF TakenInv
  <2>6. ASSUME conf.refuses, ~lost
        PROVE  RefusedInv' /\ codec_data_done
    <3>1. RefusedInv
      BY <2>0, <2>6 DEF SkipInv
    <3>2. codec_data_done /\ received = <<>> /\ Len(skipped) = counted
      BY <1>0, <1>2, <3>1 DEF RefusedInv
    <3>3. QED
      BY <1>0, <1>1, <3>2 DEF RefusedInv
  <2>7. SkipInv'
    BY <1>0, <1>1, <2>5, <2>6 DEF SkipInv
  <2>8. SkippedFirst'
    <3> SUFFICES ASSUME lost => ~conf.refuses
                 PROVE  /\ \A i \in DOMAIN skipped : skipped[i] = Kind(i)
                        /\ Follow(pushed', Len(skipped))
                        /\ recaps_left = MaxRecaps =>
                             \A i \in DOMAIN pushed' : pushed'[i].caps = "codec_data"
      BY <1>0, <1>1 DEF SkippedFirst, Follow
    <3>1. /\ \A i \in DOMAIN skipped : skipped[i] = Kind(i)
          /\ Follow(pushed, Len(skipped))
          /\ recaps_left = MaxRecaps => \A i \in DOMAIN pushed : pushed[i].caps = "codec_data"
      BY <2>0 DEF SkippedFirst
    <3>2. Follow(pushed', Len(skipped))
      <4>1. p.kind = Kind(Len(skipped) + Len(pushed) + 1)
        BY <1>3, <2>1, <2>2
      <4>2. QED
        BY <1>3, <2>1, <3>1, <4>1, FollowAppended, Numbers
    <3>3. codec_data_done
      <4>1. CASE conf.refuses
        BY <2>6, <4>1
      <4>2. CASE ~conf.refuses
        <5>1. Come >= 2
          BY <2>5, <4>2, Numbers
        <5>2. QED
          BY <2>0, <4>2, <5>1 DEF HeadersInv
      <4>3. QED
        BY <4>1, <4>2
    <3>4. recaps_left = MaxRecaps => p.caps = "codec_data"
      BY <1>3, <2>0, <3>3 DEF HeadersInv
    <3>5. QED
      BY <1>4, <2>1, <3>1, <3>2, <3>4
  <2>9. QED
    BY <1>1, <1>6, <1>7, <1>9, <2>3, <2>4, <2>7, <2>8 DEF StreamInv
<1>10. QED
  BY <1>8, <1>9

LEMMA FreshStream ==
  ASSUME ~primed, coded = <<>>, received = <<>>, queue = <<>>, taken = <<>>, pushed = <<>>,
         skipped = <<>>, moved = {}, ~sps, ~pps, ~codec_data_done, skip_hack_2 = 0,
         counted = 0, old = -1, seen = 0
  PROVE  StreamInv
<1>1. /\ \A i \in DOMAIN coded : FALSE
      /\ \A i \in DOMAIN received : FALSE
      /\ \A i \in DOMAIN queue : FALSE
      /\ \A i \in DOMAIN taken : FALSE
      /\ \A i \in DOMAIN pushed : FALSE
      /\ \A i \in DOMAIN skipped : FALSE
  OBVIOUS
<1>2. Len(skipped) = 0 /\ Gone = 0 /\ Passed = 0 /\ Back = 0 /\ Come = 0
  BY DEF Gone, Passed, Back, Come
<1>3. FreshInv /\ WholeInv
  BY <1>1 DEF FreshInv, WholeInv, AllWhole
<1>4. ByteStreamInv
  BY <1>1 DEF ByteStreamInv
<1>5. OrderInv /\ SkippedFirst
  BY <1>1 DEF OrderInv, SkippedFirst, Follow
<1>6. HeadersInv
  BY <1>2 DEF HeadersInv
<1>7. SkipInv
  <2>1. TakenInv
    BY <1>2 DEF TakenInv
  <2>2. RefusedInv
    <3>1. pushed = <<>> /\ ~(taken # <<>>)
      OBVIOUS
    <3>2. skip_hack_2 = Back - Len(skipped)
      <4>1. 0 = 0 - 0
        OBVIOUS
      <4>2. Back = 0 /\ Len(skipped) = 0 /\ skip_hack_2 = 0
        BY <1>2
      <4>3. QED
        BY ONLY <4>1, <4>2
    <3>3. QED
      BY <3>1, <3>2 DEF RefusedInv
  <2>3. QED
    BY <2>1, <2>2 DEF SkipInv
<1>8. QED
  BY <1>3, <1>4, <1>5, <1>6, <1>7 DEF StreamInv

LEMMA FreshStreamNext ==
  ASSUME ~primed', coded' = <<>>, received' = <<>>, queue' = <<>>, taken' = <<>>,
         pushed' = <<>>, skipped' = <<>>, moved' = {}, ~sps', ~pps', ~codec_data_done',
         skip_hack_2' = 0, counted' = 0, old' = -1, seen' = 0
  PROVE  StreamInv'
<1>1. /\ \A i \in DOMAIN coded' : FALSE
      /\ \A i \in DOMAIN received' : FALSE
      /\ \A i \in DOMAIN queue' : FALSE
      /\ \A i \in DOMAIN taken' : FALSE
      /\ \A i \in DOMAIN pushed' : FALSE
      /\ \A i \in DOMAIN skipped' : FALSE
  OBVIOUS
<1>2. Len(skipped') = 0 /\ Gone' = 0 /\ Passed' = 0 /\ Back' = 0 /\ Come' = 0
  BY DEF Gone, Passed, Back, Come
<1>3. FreshInv' /\ WholeInv'
  BY <1>1 DEF FreshInv, WholeInv, AllWhole
<1>4. ByteStreamInv'
  BY <1>1 DEF ByteStreamInv
<1>5. OrderInv' /\ SkippedFirst'
  BY <1>1 DEF OrderInv, SkippedFirst, Follow
<1>6. HeadersInv'
  BY <1>2 DEF HeadersInv
<1>7. SkipInv'
  <2>1. TakenInv'
    BY <1>2 DEF TakenInv
  <2>2. RefusedInv'
    <3>1. pushed' = <<>> /\ ~(taken' # <<>>)
      OBVIOUS
    <3>2. skip_hack_2' = Back' - Len(skipped')
      <4>1. 0 = 0 - 0
        OBVIOUS
      <4>2. Back' = 0 /\ Len(skipped') = 0 /\ skip_hack_2' = 0
        BY <1>2
      <4>3. QED
        BY ONLY <4>1, <4>2
    <3>3. QED
      BY <3>1, <3>2 DEF RefusedInv
  <2>3. QED
    BY <2>1, <2>2 DEF SkipInv
<1>8. QED
  BY <1>3, <1>4, <1>5, <1>6, <1>7 DEF StreamInv

LEMMA StopKept ==
  ASSUME EncoderTypes, HeldInv, Venc!stop
  PROVE  StreamInv'
<1>1. /\ received' = <<>> /\ taken' = <<>> /\ old' = -1 /\ seen' = 0
      /\ primed' = FALSE /\ coded' = <<>> /\ queue' = <<>> /\ pushed' = <<>>
      /\ skipped' = <<>> /\ moved' = {} /\ sps' = FALSE /\ pps' = FALSE
      /\ codec_data_done' = FALSE /\ skip_hack_2' = 0 /\ counted' = 0
  BY DEF Venc!stop, HeldInv
<1>2. QED
  BY <1>1, FreshStreamNext

(* Caps make the node, or replace the caps downstream has. *)
LEMMA RecapsKept ==
  ASSUME EncoderTypes, HeldInv, StreamInv, Venc!sink_setcaps
  PROVE  StreamInv'
<1>1. /\ running'
      /\ UNCHANGED <<conf, primed, coded, moved, sps, pps, codec_data_done, skip_hack_2,
                     counted, received, old, lost, queue, taken, seen, pushed, skipped>>
  BY DEF Venc!sink_setcaps, Venc!headers, Venc!output
<1>2. CASE ~running
  <2>1. ~primed /\ moved = {}
    BY <1>2 DEF StreamInv, FreshInv, WholeInv
  <2>2. /\ coded = <<>> /\ received = <<>> /\ queue = <<>> /\ taken = <<>> /\ pushed = <<>>
        /\ skipped = <<>> /\ ~sps /\ ~pps /\ ~codec_data_done /\ skip_hack_2 = 0
        /\ counted = 0 /\ old = -1 /\ seen = 0
    BY <2>1 DEF StreamInv, FreshInv, HeldInv
  <2>3. QED
    BY <1>1, <2>1, <2>2, FreshStreamNext
<1>3. CASE running
  <2>0. bytestream' = bytestream
    BY <1>3 DEF Venc!sink_setcaps
  <2>1. recaps_left' # MaxRecaps
    BY <1>3, EncoderAssumption DEF Venc!sink_setcaps, EncoderTypes
  <2>2. FreshInv' /\ WholeInv'
    BY <1>1 DEF StreamInv, FreshInv, WholeInv, AllWhole
  <2>3. CASE bytestream
    <3>1. ByteStreamInv'
      BY <1>1, <2>3 DEF StreamInv, ByteStreamInv
    <3>2. QED
      BY <2>0, <2>2, <2>3, <3>1 DEF StreamInv
  <2>4. CASE ~bytestream
    <3>1. OrderInv /\ SkippedFirst /\ HeadersInv /\ SkipInv
      BY <2>4 DEF StreamInv
    <3>2. Gone' = Gone /\ Passed' = Passed /\ Back' = Back /\ Come' = Come
      BY <1>1 DEF Gone, Passed, Back, Come
    <3>3. OrderInv'
      BY <1>1, <3>1, <3>2 DEF OrderInv, Follow
    <3>4. SkippedFirst'
      BY <1>1, <2>1, <3>1 DEF SkippedFirst, Follow
    <3>5. HeadersInv'
      BY <1>1, <2>1, <3>1, <3>2 DEF HeadersInv
    <3>6. SkipInv'
      BY <1>1, <3>1, <3>2 DEF SkipInv, TakenInv, RefusedInv
    <3>7. QED
      BY <2>0, <2>2, <2>4, <3>3, <3>4, <3>5, <3>6 DEF StreamInv
  <2>5. QED
    BY <2>3, <2>4
<1>4. QED
  BY <1>2, <1>3

LEMMA StreamKept ==
  ASSUME EncoderTypes, HeldInv, ~lost => Len(skipped) + skip_hack_2 = counted,
         Venc!Steady, StreamInv, EncoderNext
  PROVE  StreamInv'
<1>1. CASE Venc!force_key_unit \/ UNCHANGED encoder
  <2>1. UNCHANGED <<conf, bytestream, running, recaps_left, primed, coded, moved, caps, sps,
                    pps, codec_data_done, skip_hack_2, counted, received, old, lost, queue,
                    taken, seen, pushed, skipped>>
    BY <1>1 DEF Venc!force_key_unit, encoder, Venc!fixed, Venc!node, Venc!headers, Venc!output
  <2>2. Gone' = Gone /\ Passed' = Passed /\ Back' = Back /\ Come' = Come
    BY <2>1 DEF Gone, Passed, Back, Come
  <2>3. FreshInv' = FreshInv /\ WholeInv' = WholeInv /\ ByteStreamInv' = ByteStreamInv
    BY <2>1 DEF FreshInv, WholeInv, AllWhole, ByteStreamInv
  <2>4. OrderInv' = OrderInv /\ SkippedFirst' = SkippedFirst /\ HeadersInv' = HeadersInv
    BY <2>1, <2>2 DEF OrderInv, SkippedFirst, HeadersInv, Follow
  <2>5. SkipInv' = SkipInv
    BY <2>1, <2>2 DEF SkipInv, TakenInv, RefusedInv
  <2>6. QED
    BY <2>1, <2>3, <2>4, <2>5 DEF StreamInv
<1>2. QED
  BY <1>1, RecapsKept, SendKept, ReceiveKept, ReadKept, WriteKept, TakeKept, SkipKept,
     PushKept, StopKept DEF EncoderNext, Venc!Next

-----------------------------------------------------------------------------
(* The behaviours.                                                         *)
LEMMA EncoderInvInit ==
  ASSUME CodecsInit
  PROVE  EncoderInv
<1>1. Venc!Init
  BY DEF CodecsInit
<1>2. /\ conf \in EncConfs /\ bytestream \in BOOLEAN /\ running = FALSE /\ primed = FALSE
      /\ coded = <<>> /\ caps = "none" /\ bufs = <<>> /\ moved = {} /\ requests = 0
      /\ recaps_left = MaxRecaps /\ slot = 0 /\ events = <<>> /\ forced = <<>>
      /\ sps = FALSE /\ pps = FALSE /\ codec_data_done = FALSE /\ skip_hack_2 = 0
      /\ queue = <<>> /\ pushed = <<>> /\ skipped = <<>> /\ counted = 0
      /\ received = <<>> /\ old = -1 /\ taken = <<>> /\ seen = 0 /\ lost = FALSE
  BY <1>1 DEF Venc!Init, Venc!NotRead
<1>3. EncoderTypes
  <2>1. recaps_left \in 0..MaxRecaps /\ caps \in CapsKinds
    BY <1>2, EncoderAssumption DEF CapsKinds
  <2>2. /\ coded \in Seq(Kinds) /\ bufs \in Seq(Range(Buffers)) /\ queue \in Seq(Returned)
        /\ received \in Seq(Returned) /\ taken \in Seq(Returned)
        /\ pushed \in Seq(Output) /\ skipped \in Seq(Kinds) /\ events \in Seq(Nat)
        /\ forced \in Seq(BOOLEAN)
    BY <1>2
  <2>3. QED
    BY <1>2, <2>1, <2>2 DEF EncoderTypes
<1>4. KeysInv
  <2>1. {i \in DOMAIN forced : forced[i]} = {}
    BY <1>2
  <2>2. Len(events) = 0 /\ \A i \in DOMAIN events : FALSE
    BY <1>2
  <2>3. QED
    BY <1>2, <2>1, <2>2, FS_EmptySet DEF KeysInv
<1>5. Len(skipped) + skip_hack_2 = counted /\ HeldInv
  BY <1>2 DEF HeldInv
<1>6. StreamInv
  BY <1>2, FreshStream
<1>7. QED
  BY <1>3, <1>4, <1>5, <1>6 DEF EncoderInv

LEMMA EncoderInvKept ==
  ASSUME EncoderInv, EncoderNext
  PROVE  EncoderInv'
<1>1. conf' = conf
  BY DEF EncoderNext, Venc!Next, Venc!sink_setcaps, Venc!force_key_unit, Venc!in_send_cb,
         Venc!out_recv_cb, Venc!recv_read, Venc!recv_write, Venc!output_take,
         Venc!output_skip, Venc!output_push, Venc!SendBack, Venc!stop, Venc!fixed, encoder
<1>2. Venc!Steady' => Venc!Steady
  BY <1>1 DEF Venc!Steady
<1>3. EncoderTypes /\ HeldInv /\ KeysInv /\ (~lost => Len(skipped) + skip_hack_2 = counted)
  BY DEF EncoderInv
<1>4. EncoderTypes' /\ HeldInv' /\ KeysInv' /\ (~lost => Len(skipped) + skip_hack_2 = counted)'
  BY <1>3, EncoderTypesKept, KeysKept, SkipsKept
<1>5. ASSUME Venc!Steady'
      PROVE  StreamInv'
  <2>1. Venc!Steady /\ StreamInv
    BY <1>2, <1>5 DEF EncoderInv
  <2>2. QED
    BY <1>3, <2>1, StreamKept
<1>6. QED
  BY <1>4, <1>5 DEF EncoderInv

(* Whatever the node sends and however the four actors interleave: with no *)
(* update of skip_hack_2 lost, the skips that are due and those that were  *)
(* made are those that were counted; the requests are numbered as they     *)
(* came; and with a node that sends its headers first, what is received,   *)
(* queued, taken, skipped and pushed is in order, and skip_hack_2 and the  *)
(* copies of it the threads have are off by one at most.                   *)
THEOREM EncoderInvariant == CodecsSpec => []EncoderInv
<1>1. CodecsInit => EncoderInv
  BY EncoderInvInit
<1>2. EncoderInv /\ [CodecsNext]_<<which, input, vars, encoder>> => EncoderInv'
  <2> SUFFICES ASSUME EncoderInv, [CodecsNext]_<<which, input, vars, encoder>>
               PROVE  EncoderInv'
    OBVIOUS
  <2>1. EncoderNext
    BY DEF CodecsNext, EncoderNext
  <2>2. QED
    BY <2>1, EncoderInvKept
<1>3. QED
  BY <1>1, <1>2, PTL DEF CodecsSpec

(* Behind two skipped buffers there are only pictures.                     *)
LEMMA Behind ==
  ASSUME EncoderTypes, Follow(pushed, Len(skipped)), pushed = <<>> \/ Len(skipped) >= 2
  PROVE  Venc!AllPictures(pushed)
<1> SUFFICES ASSUME NEW i \in DOMAIN pushed
             PROVE  pushed[i].kind = "picture"
  BY DEF Venc!AllPictures
<1>1. i \in Nat /\ i >= 1 /\ Len(skipped) >= 2 /\ Len(skipped) \in Nat
  BY DEF EncoderTypes
<1>2. Len(skipped) + i >= 3 /\ Len(skipped) + i \in Nat
  BY <1>1
<1>3. pushed[i].kind = Kind(Len(skipped) + i)
  BY DEF Follow
<1>4. QED
  BY <1>2, <1>3 DEF Kind

(* As long as no update is lost.                                           *)
LEMMA OnlyPictures ==
  ASSUME EncoderTypes, HeldInv, Len(skipped) + skip_hack_2 = counted, ~lost,
         SkippedFirst, HeadersInv, SkipInv
  PROVE  Venc!AllPictures(pushed)
<1>1. Follow(pushed, Len(skipped))
  BY DEF SkippedFirst
<1>2. CASE conf.refuses
  <2>1. RefusedInv
    BY <1>2 DEF SkipInv
  <2>2. pushed = <<>> \/ (codec_data_done /\ received = <<>> /\ Len(skipped) = counted)
    BY <2>1 DEF RefusedInv
  <2>3. pushed = <<>> \/ Len(skipped) >= 2
    BY <2>2 DEF HeadersInv
  <2>4. QED
    BY <1>1, <2>3, Behind
<1>3. CASE ~conf.refuses
  <2>1. TakenInv
    BY <1>3 DEF SkipInv
  <2>2. Len(skipped) \in Nat /\ Len(pushed) \in Nat /\ Len(taken) \in Nat /\ Len(queue) \in Nat
    BY DEF EncoderTypes
  <2>3. pushed = <<>> \/ (Len(pushed) >= 1 /\ skip_hack_2 = 0 /\ Len(skipped) >= 1)
    BY <2>1 DEF TakenInv, EncoderTypes
  <2>4. pushed = <<>> \/ Back >= 2
    BY <2>2, <2>3 DEF Back, Passed, Gone
  <2>5. pushed = <<>> \/ Len(skipped) # 1
    BY <2>1, <2>3, <2>4 DEF TakenInv
  <2>6. \A a \in Nat : a >= 1 /\ a # 1 => a >= 2
    OBVIOUS
  <2>7. pushed = <<>> \/ Len(skipped) >= 2
    BY <2>2, <2>3, <2>5, <2>6
  <2>8. QED
    BY <1>1, <2>7, Behind
<1>4. QED
  BY <1>2, <1>3

(* A lost update moves the border between headers and pictures by one.     *)
LEMMA AtMostOneOff ==
  ASSUME EncoderTypes, SkippedFirst, TakenInv, ~conf.refuses
  PROVE  \/ Venc!AllPictures(pushed) /\ Venc!AllHeaders(skipped)
         \/ lost /\ pushed # <<>> /\ Venc!HeaderThrough
         \/ lost /\ Venc!PictureLost
<1>1. Follow(pushed, Len(skipped)) /\ \A i \in DOMAIN skipped : skipped[i] = Kind(i)
  BY DEF SkippedFirst
<1>2. Len(skipped) \in Nat /\ Len(pushed) \in Nat /\ Len(taken) \in Nat /\ Len(queue) \in Nat
  BY DEF EncoderTypes
<1>3. Len(skipped) <= 3
  BY DEF TakenInv
<1>4. ASSUME Len(skipped) <= 2
      PROVE  Venc!AllHeaders(skipped)
  <2> SUFFICES ASSUME NEW i \in DOMAIN skipped
               PROVE  skipped[i] \in {"sps", "pps"}
    BY DEF Venc!AllHeaders, Venc!IsHeader
  <2>1. i \in {1, 2}
    BY <1>2, <1>4 DEF EncoderTypes
  <2>2. QED
    BY <1>1, <2>1 DEF Kind
<1>5. CASE Len(skipped) = 3
  <2>1. lost
    BY <1>5 DEF TakenInv
  <2>2. Venc!AllPictures(pushed)
    BY <1>1, <1>5, Behind
  <2>3. Venc!Front(skipped) = SubSeq(skipped, 1, 2)
    BY <1>5 DEF Venc!Front
  <2>4. ASSUME NEW i \in DOMAIN SubSeq(skipped, 1, 2)
        PROVE  SubSeq(skipped, 1, 2)[i] \in {"sps", "pps"}
    <3>1. Len(SubSeq(skipped, 1, 2)) = 2 /\ \A j \in 1..2 : SubSeq(skipped, 1, 2)[j] = skipped[j]
      BY <1>5 DEF EncoderTypes
    <3>2. i \in {1, 2}
      BY <2>4, <3>1
    <3>3. 1 \in DOMAIN skipped /\ 2 \in DOMAIN skipped
      BY <1>5 DEF EncoderTypes
    <3>4. QED
      BY <1>1, <3>1, <3>2, <3>3 DEF Kind
  <2>5. QED
    BY <1>5, <2>1, <2>2, <2>3, <2>4 DEF Venc!PictureLost, Venc!AllHeaders, Venc!IsHeader
<1>6. CASE Len(skipped) <= 2 /\ (pushed = <<>> \/ Len(skipped) >= 2)
  BY <1>1, <1>4, <1>6, Behind
<1>7. CASE Len(skipped) < 2 /\ pushed # <<>>
  <2>1. Len(skipped) >= 1 /\ skip_hack_2 = 0
    BY <1>7 DEF TakenInv
  <2>2. \A a \in Nat : a >= 1 /\ a < 2 => a = 1
    OBVIOUS
  <2>3. Len(pushed) >= 1
    BY <1>7 DEF EncoderTypes
  <2>4. Len(skipped) = 1 /\ skip_hack_2 = 0 /\ Len(pushed) >= 1
    BY <1>2, <1>7, <2>1, <2>2, <2>3
  <2>5. Back >= 2
    BY <1>2, <2>4 DEF Back, Passed, Gone
  <2>6. lost
    BY <2>4, <2>5 DEF TakenInv
  <2>7. ASSUME NEW i \in DOMAIN Tail(pushed)
        PROVE  Tail(pushed)[i].kind = "picture"
    <3>1. i \in Nat /\ i >= 1 /\ i + 1 \in DOMAIN pushed /\ Tail(pushed)[i] = pushed[i + 1]
      BY <1>7, <2>7 DEF EncoderTypes
    <3>2. pushed[i + 1].kind = Kind(Len(skipped) + (i + 1))
      BY <1>1, <3>1 DEF Follow
    <3>3. 1 + (i + 1) \in Nat /\ 1 + (i + 1) >= 3
      BY <3>1
    <3>4. QED
      BY <2>4, <3>1, <3>2, <3>3 DEF Kind
  <2>8. QED
    BY <1>4, <1>7, <2>6, <2>7 DEF Venc!HeaderThrough, Venc!AllPictures
<1>8. QED
  BY <1>2, <1>3, <1>5, <1>6, <1>7

(* The output of an encoder, for any number of frames, requests, buffers   *)
(* and lives: until an update of skip_hack_2 is lost, one buffer is skipped*)
(* for each that it was incremented for, and only pictures are pushed; a   *)
(* lost update lets one header through or costs the first picture; in AVC  *)
(* format the caps have the codec_data before the first picture; and every *)
(* request for a key frame is served once, in order.                       *)
THEOREM EncoderRight == CodecsSpec => []EncoderOutput
<1>1. EncoderInv => EncoderOutput
  <2> SUFFICES ASSUME EncoderInv
               PROVE  EncoderOutput
    OBVIOUS
  <2>0. EncoderTypes /\ HeldInv
    BY DEF EncoderInv
  <2>1. ~lost => Venc!SkipsAccounted
    BY DEF EncoderInv, Venc!SkipsAccounted
  <2>2. Venc!KeyRequestsServed
    <3>1. Len(events) = Cardinality({i \in DOMAIN forced : forced[i]})
      BY DEF EncoderInv, KeysInv
    <3>2. \A i, j \in DOMAIN events : i < j => events[i] < events[j]
      BY DEF EncoderInv, KeysInv
    <3>3. requests # 0 => slot = requests \/ (events # <<>> /\ Last(events) = requests)
      BY DEF EncoderInv, KeysInv
    <3>4. Venc!Last(events) = Last(events)
      BY DEF Venc!Last, Last
    <3>5. Venc!Cardinality({i \in DOMAIN forced : forced[i]})
            = Cardinality({i \in DOMAIN forced : forced[i]})
      BY DEF Venc!Cardinality, Cardinality
    <3>6. QED
      BY <3>1, <3>2, <3>3, <3>4, <3>5 DEF Venc!KeyRequestsServed
  <2>3. ASSUME Venc!Steady
        PROVE  StreamInv
    BY <2>3 DEF EncoderInv
  <2>4. Venc!OnlyPicturesPushed
    <3> SUFFICES ASSUME Venc!Steady
                 PROVE  /\ \A i \in DOMAIN pushed : pushed[i].whole
                        /\ bytestream =>
                             \A i \in DOMAIN pushed : pushed[i].kind = "picture" \/ i = 1
                        /\ ~bytestream /\ ~lost => Venc!AllPictures(pushed)
                        /\ ~bytestream /\ ~conf.refuses =>
                             \/ Venc!AllPictures(pushed) /\ Venc!AllHeaders(skipped)
                             \/ lost /\ pushed # <<>> /\ Venc!HeaderThrough
                             \/ lost /\ Venc!PictureLost
      BY DEF Venc!OnlyPicturesPushed
    <3>1. StreamInv
      BY <2>3
    <3>2. \A i \in DOMAIN pushed : pushed[i].whole
      BY <3>1 DEF StreamInv, WholeInv, AllWhole
    <3>3. bytestream => \A i \in DOMAIN pushed : pushed[i].kind = "picture" \/ i = 1
      BY <3>1 DEF StreamInv, ByteStreamInv
    <3>4. ASSUME ~bytestream, ~lost
          PROVE  Venc!AllPictures(pushed)
      BY <2>0, <2>1, <3>1, <3>4, OnlyPictures DEF Venc!SkipsAccounted, StreamInv
    <3>5. ASSUME ~bytestream, ~conf.refuses
          PROVE  \/ Venc!AllPictures(pushed) /\ Venc!AllHeaders(skipped)
                 \/ lost /\ pushed # <<>> /\ Venc!HeaderThrough
                 \/ lost /\ Venc!PictureLost
      BY <2>0, <3>1, <3>5, AtMostOneOff DEF StreamInv, SkipInv
    <3>6. QED
      BY <3>2, <3>3, <3>4, <3>5
  <2>5. Venc!CapsBeforePictures
    <3> SUFFICES ASSUME Venc!Steady, ~bytestream, recaps_left = MaxRecaps, lost => ~conf.refuses
                 PROVE  \A i \in DOMAIN pushed : pushed[i].caps = "codec_data"
      BY DEF Venc!CapsBeforePictures
    <3>1. StreamInv
      BY <2>3
    <3>2. QED
      BY <3>1 DEF StreamInv, SkippedFirst
  <2>6. QED
    BY <2>1, <2>2, <2>4, <2>5 DEF EncoderOutput, Venc!EncoderOutput
<1>2. QED
  BY <1>1, EncoderInvariant, PTL

-----------------------------------------------------------------------------
(* The decoder element.                                                    *)
Fields == {"node", "sink_caps", "tmp_caps", "src_caps", "size", "crop",
           "output_buffer_size", "color_format", "codec", "codec_data", "parse_func",
           "parsed", "is_avc", "lol", "pre_process_buffer"}
Caps == [codec : Codecs, size : Sizes, data : 0..Len(Streams)]

(* The sizes of an element go together, and the parser with the codec.     *)
IsElement(v) ==
  /\ DOMAIN v = Fields
  /\ v.size \in Sizes /\ v.crop \in Sizes /\ \A k \in 1..2 : v.crop[k] <= v.size[k]
  /\ v.output_buffer_size = FrameLen(v.size, v.color_format)
  /\ v.parsed \in BOOLEAN /\ v.is_avc \in BOOLEAN
  /\ v.parse_func \in Parsers \cup {None} /\ v.codec_data \in 0..Len(Streams)
  /\ v.codec \in Parsers => v.parse_func = v.codec
  /\ v.codec = "h264" => \A k \in 1..2 : v.size[k] % 16 = 0

(* The header that is known to be right for an element.                    *)
RightHeader(s, part, v) == Streams[s].headers[part] /\ Streams[s].codec = v.codec

(* Caps have come and there is no node: what the element has parsed since  *)
(* is the codec_data that the node will be sent, and the element will not  *)
(* find another size in it, nor in a buffer instead of it.                 *)
ParsedData(v) ==
  v.parsed =>
    IF v.codec_data = 0 THEN v.codec = "h264" => ~v.is_avc
    ELSE RightHeader(v.codec_data, "data", v) =>
           /\ v.size = Streams[v.codec_data].size
           /\ v.codec = "h264" /\ ~v.is_avc =>
                LET found == Finds(v.codec_data, "data", "h264", TRUE, FALSE)
                IN  found.ok /\ found.size = Streams[v.codec_data].size
Waiting(v) == v.tmp_caps = v.crop /\ ParsedData(v)

(* The node fits the element.                                              *)
NodeFits(v) ==
  /\ v.node.color = v.color_format
  /\ v.node.size \in Sizes /\ \A k \in 1..2 : v.node.size[k] <= v.size[k]
  /\ v.size[1] # 0 /\ v.size[2] # 0
  /\ v.codec = "h264" => v.node.size = v.size /\ v.pre_process_buffer = "h264"
NodeSized(v) ==
  LET head == v.node.head
  IN  /\ (head[1] # 0 /\ RightHeader(head[1], head[2], v))
         => v.node.size = Streams[head[1]].size
      /\ v.codec = "h264" /\ head[2] = "frame" => ~(v.parsed /\ v.is_avc)

DecoderInv ==
  /\ IsElement(el)
  /\ stream \in 0..Len(Streams) /\ last \in 0..Len(Streams)
  /\ HasNode => stream # 0
  /\ stream # 0 => /\ el.color_format = asked /\ el.sink_caps \in Caps
                   /\ el.sink_caps.codec = Streams[stream].codec
  /\ stream # 0 /\ ~HasNode => Waiting(el) /\ el.codec = Streams[stream].codec
  /\ HasNode => /\ NodeFits(el) /\ NodeSized(el)
                /\ ~kept => el.src_caps = el.crop
  /\ FollowsStream

(* Lengths.                                                                *)
LEMMA Products ==
  ASSUME NEW a \in Nat, NEW b \in Nat, NEW c \in Nat, NEW d \in Nat, a <= c, b <= d
  PROVE  a * b <= c * d /\ a * b \in Nat /\ c * d \in Nat
<1>1. a * b <= c * b
  OBVIOUS
<1>2. c * b <= c * d
  OBVIOUS
<1>3. a * b \in Nat /\ c * b \in Nat /\ c * d \in Nat
  OBVIOUS
<1>4. QED
  BY <1>1, <1>2, <1>3

LEMMA FrameLenFits ==
  ASSUME NEW a \in Sizes, NEW b \in Sizes, \A k \in 1..2 : a[k] <= b[k], NEW color
  PROVE  FrameLen(a, color) <= FrameLen(b, color)
<1>1. /\ a[1] \in Nat /\ a[2] \in Nat /\ b[1] \in Nat /\ b[2] \in Nat
      /\ a[1] <= b[1] /\ a[2] <= b[2]
  BY DEF Sizes
<1>2. /\ 2 * a[1] \in Nat /\ 2 * b[1] \in Nat /\ 2 * a[1] <= 2 * b[1]
      /\ 3 * a[1] \in Nat /\ 3 * b[1] \in Nat /\ 3 * a[1] <= 3 * b[1]
  BY <1>1
<1>3. 2 * a[1] * a[2] <= 2 * b[1] * b[2]
  BY <1>1, <1>2, Products
<1>4. /\ 3 * a[1] * a[2] <= 3 * b[1] * b[2]
      /\ 3 * a[1] * a[2] \in Nat /\ 3 * b[1] * b[2] \in Nat
  BY <1>1, <1>2, Products
<1> DEFINE x == 3 * a[1] * a[2]
           y == 3 * b[1] * b[2]
<1>5. x \in Nat /\ y \in Nat /\ x <= y
  BY <1>4
<1> HIDE DEF x, y
<1>6. x \div 2 <= y \div 2
  BY <1>5
<1>7. QED
  BY <1>3, <1>6 DEF FrameLen, x, y

LEMMA FrameLenZero ==
  ASSUME NEW a \in Sizes, NEW color, FrameLen(a, color) # 0
  PROVE  a[1] # 0 /\ a[2] # 0
<1>1. a[1] \in Nat /\ a[2] \in Nat
  BY DEF Sizes
<1>2. CASE a[1] = 0
  BY <1>1, <1>2 DEF FrameLen
<1>3. CASE a[2] = 0
  BY <1>1, <1>3 DEF FrameLen
<1>4. QED
  BY <1>2, <1>3

LEMMA Rounded ==
  ASSUME NEW a \in Sizes
  PROVE  /\ RoundUp(a) \in Sizes
         /\ \A k \in 1..2 : /\ a[k] <= RoundUp(a)[k] /\ RoundUp(a)[k] % 16 = 0
                            /\ a[k] % 16 = 0 => RoundUp(a)[k] = a[k]
<1>1. ASSUME NEW n \in Nat
      PROVE  /\ 16 * ((n + 15) \div 16) \in Nat /\ n <= 16 * ((n + 15) \div 16)
             /\ (16 * ((n + 15) \div 16)) % 16 = 0
             /\ n % 16 = 0 => 16 * ((n + 15) \div 16) = n
  <2>1. PICK q \in Nat, r \in 0..15 : n = 16 * q + r
    <3>1. n = 16 * (n \div 16) + (n % 16) /\ n \div 16 \in Nat /\ n % 16 \in 0..15
      OBVIOUS
    <3>2. QED
      BY <3>1
  <2>2. CASE r = 0
    <3>1. (n + 15) \div 16 = q
      BY <2>1, <2>2
    <3>2. QED
      BY <2>1, <2>2, <3>1
  <2>3. CASE r # 0
    <3>1. (n + 15) \div 16 = q + 1
      BY <2>1, <2>3
    <3>2. n % 16 = r
      BY <2>1
    <3>3. QED
      BY <2>1, <2>3, <3>1, <3>2
  <2>4. QED
    BY <2>2, <2>3
<1>2. \A k \in 1..2 : a[k] \in Nat /\ RoundUp(a)[k] = 16 * ((a[k] + 15) \div 16)
  BY DEF Sizes, RoundUp
<1>3. \A k \in 1..2 : /\ RoundUp(a)[k] \in Nat /\ a[k] <= RoundUp(a)[k]
                      /\ RoundUp(a)[k] % 16 = 0
                      /\ a[k] % 16 = 0 => RoundUp(a)[k] = a[k]
  BY <1>1, <1>2
<1>4. RoundUp(a) \in Sizes
  <2>1. RoundUp(a) = [k \in 1..2 |-> RoundUp(a)[k]]
    BY DEF RoundUp
  <2>2. QED
    BY <1>3, <2>1 DEF Sizes
<1>5. QED
  BY <1>3, <1>4

(* The element whose size is whole macroblocks stays as it is.             *)
LEMMA RoundedWhole ==
  ASSUME NEW a \in Sizes, \A k \in 1..2 : a[k] % 16 = 0
  PROVE  RoundUp(a) = a
<1>1. RoundUp(a) \in Sizes /\ \A k \in 1..2 : RoundUp(a)[k] = a[k]
  BY Rounded
<1>2. QED
  BY <1>1 DEF Sizes

-----------------------------------------------------------------------------
(* Induction over the natural numbers, from the library's fact that strict *)
(* inclusion is well-founded on finite sets: the sets 1..n order as n do.  *)
LEMMA LeastNatural ==
  ASSUME NEW S \in SUBSET Nat, S # {}
  PROVE  \E n \in S : \A m \in S : n <= m
<1> DEFINE Upto(n) == 1..n
           T == {Upto(n) : n \in S}
           R == StrictSubsetOrdering(Nat)
<1>1. T \subseteq FiniteSubsetsOf(Nat)
  <2> SUFFICES ASSUME NEW n \in S PROVE Upto(n) \in SUBSET Nat /\ IsFiniteSet(Upto(n))
    BY DEF FiniteSubsetsOf
  <2>1. n \in Nat
    OBVIOUS
  <2>2. IsFiniteSet(1..n)
    BY <2>1, FS_Interval
  <2>3. QED
    BY <2>1, <2>2
<1>2. T # {}
  OBVIOUS
<1>3. IsWellFoundedOn(R, FiniteSubsetsOf(Nat))
  BY FS_StrictSubsetOrderingWellFounded
<1>4. PICK x \in T : \A y \in T : ~(<<y, x>> \in R)
  <2> HIDE DEF T, R
  <2>1. QED
    BY <1>1, <1>2, <1>3, WFMin
<1>5. PICK n \in S : x = Upto(n)
  OBVIOUS
<1>6. ASSUME NEW m \in S, ~(n <= m)
      PROVE  FALSE
  <2>1. m \in Nat /\ n \in Nat /\ m < n
    BY <1>6
  <2>2. Upto(m) \in SUBSET Nat /\ Upto(n) \in SUBSET Nat /\ Upto(m) \subseteq Upto(n)
    BY <2>1
  <2>3. n \in Upto(n) /\ n \notin Upto(m)
    BY <2>1
  <2>4. <<Upto(m), Upto(n)>> \in R
    <3> HIDE DEF Upto
    <3>1. <<Upto(m), Upto(n)>> \in (SUBSET Nat) \X (SUBSET Nat)
      BY <2>2
    <3>2. Upto(m) # Upto(n)
      BY <2>3
    <3>3. QED
      BY <2>2, <3>1, <3>2 DEF StrictSubsetOrdering
  <2>5. QED
    BY <1>4, <1>5, <2>4
<1>7. QED
  BY <1>6

(* Induction over the natural numbers, for sets. *)
LEMMA Induction ==
  ASSUME NEW S \in SUBSET Nat, 0 \in S, \A n \in S : n + 1 \in S
  PROVE  S = Nat
<1> SUFFICES ASSUME Nat \ S # {} PROVE FALSE
  OBVIOUS
<1>1. PICK n \in Nat \ S : \A m \in Nat \ S : n <= m
  BY LeastNatural
<1>2. n # 0 /\ n - 1 \in Nat
  OBVIOUS
<1>3. n - 1 \in S
  BY <1>1, <1>2
<1>4. (n - 1) + 1 \in S
  BY <1>3
<1>5. QED
  BY <1>1, <1>2, <1>4

(* A function over 0..n can be defined step by step. *)
IsRecursion(f, n, base, step) ==
  f = [k \in 0..n |-> IF k = 0 THEN base ELSE step[k][f[k - 1]]]

LEMMA Recursion ==
  ASSUME NEW V, NEW base \in V, NEW step \in [Nat -> [V -> V]], NEW n \in Nat
  PROVE  \E f \in [0..n -> V] : IsRecursion(f, n, base, step)
<1> DEFINE Right(f, m) == f = [k \in 0..m |-> IF k = 0 THEN base ELSE step[k][f[k - 1]]]
           S == {m \in Nat : \E f \in [0..m -> V] : Right(f, m)}
<1>1. 0 \in S
  <2> DEFINE f == [k \in 0..0 |-> base]
  <2>1. f \in [0..0 -> V] /\ Right(f, 0)
    OBVIOUS
  <2>2. QED
    BY <2>1
<1>2. ASSUME NEW m \in S
      PROVE  m + 1 \in S
  <2>1. PICK f \in [0..m -> V] : Right(f, m)
    OBVIOUS
  <2>2. m \in Nat
    OBVIOUS
  <2> HIDE DEF S
  <2> DEFINE g == [k \in 0..(m + 1) |-> IF k = m + 1 THEN step[m + 1][f[m]] ELSE f[k]]
  <2>3. g \in [0..(m + 1) -> V]
    <3>1. step[m + 1][f[m]] \in V
      BY <2>2
    <3>2. \A k \in 0..(m + 1) : k # m + 1 => f[k] \in V
      BY <2>2
    <3>3. QED
      BY <3>1, <3>2
  <2>4. \A k \in 0..(m + 1) : g[k] = IF k = 0 THEN base ELSE step[k][g[k - 1]]
    <3> SUFFICES ASSUME NEW k \in 0..(m + 1)
                 PROVE  g[k] = IF k = 0 THEN base ELSE step[k][g[k - 1]]
      OBVIOUS
    <3>1. CASE k = m + 1
      <4>1. k # 0 /\ k - 1 = m /\ m \in 0..(m + 1) /\ m # m + 1
        BY <2>2, <3>1
      <4>2. g[m] = f[m] /\ g[m + 1] = step[m + 1][f[m]]
        BY <3>1, <4>1
      <4>3. QED
        BY <3>1, <4>1, <4>2
    <3>2. CASE k # m + 1 /\ k # 0
      <4>1. k \in 0..m /\ k - 1 \in 0..(m + 1) /\ k - 1 # m + 1
        BY <2>2, <3>2
      <4>2. g[k] = f[k] /\ g[k - 1] = f[k - 1]
        BY <3>2, <4>1
      <4>3. f[k] = step[k][f[k - 1]]
        <5>1. \A j \in 0..m : f[j] = IF j = 0 THEN base ELSE step[j][f[j - 1]]
          BY <2>1
        <5>2. QED
          BY <3>2, <4>1, <5>1
      <4>4. QED
        BY <3>2, <4>2, <4>3
    <3>3. CASE k = 0
      <4>1. k \in 0..m /\ k # m + 1
        BY <2>2, <3>3
      <4>2. g[k] = f[k] /\ f[k] = base
        BY <2>1, <3>3, <4>1
      <4>3. QED
        BY <3>3, <4>2
    <3>4. QED
      BY <3>1, <3>2, <3>3
  <2>5. Right(g, m + 1)
    <3> HIDE DEF g
    <3>1. g = [k \in 0..(m + 1) |-> g[k]]
      BY <2>3
    <3>2. QED
      BY <2>4, <3>1
  <2>6. m + 1 \in Nat
    BY <2>2
  <2> HIDE DEF Right, g
  <2>7. QED
    BY <2>3, <2>5, <2>6 DEF S
<1>3. S = Nat
  <2> HIDE DEF S
  <2>1. S \in SUBSET Nat
    BY DEF S
  <2>2. QED
    BY <1>1, <1>2, <2>1, Induction
<1>4. n \in S
  BY <1>3
<1>5. PICK f \in [0..n -> V] : Right(f, n)
  BY <1>4
<1>6. IsRecursion(f, n, base, step)
  BY <1>5 DEF IsRecursion
<1>7. QED
  BY <1>6

(* A function over 0..n that stays in a set stays in it.                   *)
LEMMA FunctionTyped ==
  ASSUME NEW V, NEW n \in Nat, NEW f, f = [k \in 0..n |-> f[k]], f[0] \in V,
         \A k \in 1..n : f[k - 1] \in V => f[k] \in V
  PROVE  f \in [0..n -> V]
<1> DEFINE S == {m \in Nat : m <= n => f[m] \in V}
<1>1. 0 \in S
  OBVIOUS
<1>2. ASSUME NEW m \in S
      PROVE  m + 1 \in S
  <2>1. CASE m + 1 <= n
    <3>1. m + 1 \in 1..n /\ (m + 1) - 1 = m /\ m + 1 \in Nat /\ f[m] \in V
      BY <2>1
    <3>2. f[m + 1] \in V
      BY <3>1
    <3>3. QED
      BY <3>1, <3>2
  <2>2. CASE ~(m + 1 <= n)
    BY <2>2
  <2>3. QED
    BY <2>1, <2>2
<1>3. S = Nat
  <2>1. S \in SUBSET Nat
    OBVIOUS
  <2> HIDE DEF S
  <2>2. QED
    BY <1>1, <1>2, <2>1, Induction
<1>4. \A k \in 0..n : f[k] \in V
  <2> SUFFICES ASSUME NEW k \in 0..n PROVE f[k] \in V
    OBVIOUS
  <2>1. k \in S /\ k <= n
    <3> HIDE DEF S
    <3>1. QED
      BY <1>3
  <2>2. QED
    BY <2>1
<1>5. QED
  BY <1>4

-----------------------------------------------------------------------------
(* Reading bits and Exp-Golomb codes: every read gives a number and stays  *)
(* within the buffer.                                                      *)
Bits == Seq({0, 1})

(* The bits read are a number, built up bit by bit.                        *)
Builds(v, b, p, n) ==
  /\ v \in [0..n -> Nat] /\ v[0] = 0
  /\ \A k \in 1..n : v[k] = 2 * v[k - 1] + b[p + k]
  /\ At(b, p, n) = v[n]

LEMMA AtBuilt ==
  ASSUME NEW b \in Bits, NEW p \in Nat, NEW n \in Nat, p + n <= Len(b)
  PROVE  \E v : Builds(v, b, p, n)
<1> DEFINE V == Nat
           N == n
           step == [k \in Nat |-> [v \in V |-> IF k \in 1..N THEN 2 * v + b[p + k] ELSE v]]
           P(f) == f = [k \in 0..N |-> IF k = 0 THEN 0 ELSE 2 * f[k - 1] + b[p + k]]
<1>0. N \in Nat
  OBVIOUS
<1>1. 0 \in V
  OBVIOUS
<1>2. ASSUME NEW k \in 1..N, NEW v \in V
      PROVE  2 * v + b[p + k] \in V
  <2>1. p + k \in 1..Len(b)
    OBVIOUS
  <2>2. b[p + k] \in {0, 1}
    BY <2>1 DEF Bits
  <2>3. QED
    BY <2>2

<1>3. step \in [Nat -> [V -> V]]
  <2> HIDE DEF V, N
  <2>1. QED
    BY <1>2
<1>4. \E f \in [0..N -> V] : P(f)
  <2>1. PICK f \in [0..N -> V] : IsRecursion(f, N, 0, step)
    <3> HIDE DEF V, step, N
    <3>1. QED
      BY <1>0, <1>1, <1>3, Recursion
  <2>2. f = [k \in 0..N |-> IF k = 0 THEN 0 ELSE step[k][f[k - 1]]]
    BY <2>1 DEF IsRecursion
  <2>3. ASSUME NEW k \in 0..N, k # 0
        PROVE  step[k][f[k - 1]] = 2 * f[k - 1] + b[p + k]
    <3>1. k \in Nat /\ k \in 1..N /\ k - 1 \in 0..N
      BY <1>0, <2>3
    <3>2. f[k - 1] \in V
      BY <2>1, <3>1
    <3> HIDE DEF V, N
    <3>3. QED
      BY <3>1, <3>2
  <2> HIDE DEF step, V, N
  <2>4. P(f)
    BY <2>2, <2>3
  <2> HIDE DEF P
  <2>5. QED
    BY <2>1, <2>4
<1> DEFINE g == CHOOSE f : P(f)
<1>5. P(g)
  <2> HIDE DEF P
  <2>1. QED
    BY <1>4
<1>6. At(b, p, n) = g[N]
  BY DEF At
<1> HIDE DEF g
<1>7. g = [k \in 0..N |-> g[k]]
  BY <1>5
<1>8. g[0] = 0
  BY <1>0, <1>5
<1>9. ASSUME NEW k \in 1..N
      PROVE  g[k] = 2 * g[k - 1] + b[p + k]
  <2>1. k \in 0..N /\ k # 0
    BY <1>0
  <2> HIDE DEF V, N
  <2>2. QED
    BY <1>5, <2>1
<1>10. g \in [0..N -> V]
  <2>1. \A k \in 1..N : g[k - 1] \in V => g[k] \in V
    BY <1>2, <1>9
  <2>2. g[0] \in V
    BY <1>1, <1>8
  <2> HIDE DEF V, P, N
  <2>3. QED
    BY <1>0, <1>7, <2>1, <2>2, FunctionTyped
<1>11. QED
  <2> HIDE DEF P
  <2>1. QED
    BY <1>6, <1>8, <1>9, <1>10 DEF Builds

LEMMA WordMod == IntMax \in Nat /\ 2 * (IntMax + 1) \in Nat \ {0}
BY WordAssumption

LEMMA UnsignedIs == ASSUME NEW v \in Int PROVE Unsigned(v) \in 0..(2 * IntMax + 1)
BY WordMod DEF Unsigned

Doubles(v, n) ==
  /\ v \in [0..n -> Nat] /\ v[0] = 1
  /\ \A k \in 1..n : v[k] = Unsigned(2 * v[k - 1])
  /\ Shifted(n) = v[n]

LEMMA UnsignedNat == ASSUME NEW v \in Int PROVE Unsigned(v) \in Nat
BY WordMod, UnsignedIs

LEMMA ShiftedDoubles ==
  ASSUME NEW n \in Nat
  PROVE  \E v : Doubles(v, n)
<1> DEFINE V == Nat
           N == n
           step == [k \in Nat |-> [v \in V |-> IF k \in 1..N THEN Unsigned(2 * v) ELSE v]]
           P(f) == f = [k \in 0..N |-> IF k = 0 THEN 1 ELSE Unsigned(2 * f[k - 1])]
<1>0. N \in Nat
  OBVIOUS
<1>1. 1 \in V
  OBVIOUS
<1>2. ASSUME NEW k \in 1..N, NEW v \in V
      PROVE  Unsigned(2 * v) \in V
  BY WordMod, UnsignedIs

<1>3. step \in [Nat -> [V -> V]]
  <2> HIDE DEF V, N
  <2>1. QED
    BY <1>2
<1>4. \E f \in [0..N -> V] : P(f)
  <2>1. PICK f \in [0..N -> V] : IsRecursion(f, N, 1, step)
    <3> HIDE DEF V, step, N
    <3>1. QED
      BY <1>0, <1>1, <1>3, Recursion
  <2>2. f = [k \in 0..N |-> IF k = 0 THEN 1 ELSE step[k][f[k - 1]]]
    BY <2>1 DEF IsRecursion
  <2>3. ASSUME NEW k \in 0..N, k # 0
        PROVE  step[k][f[k - 1]] = Unsigned(2 * f[k - 1])
    <3>1. k \in Nat /\ k \in 1..N /\ k - 1 \in 0..N
      BY <1>0, <2>3
    <3>2. f[k - 1] \in V
      BY <2>1, <3>1
    <3> HIDE DEF V, N
    <3>3. QED
      BY <3>1, <3>2
  <2> HIDE DEF step, V, N
  <2>4. P(f)
    BY <2>2, <2>3
  <2> HIDE DEF P
  <2>5. QED
    BY <2>1, <2>4
<1> DEFINE g == CHOOSE f : P(f)
<1>5. P(g)
  <2> HIDE DEF P
  <2>1. QED
    BY <1>4
<1>6. Shifted(n) = g[N]
  BY DEF Shifted
<1> HIDE DEF g
<1>7. g = [k \in 0..N |-> g[k]]
  BY <1>5
<1>8. g[0] = 1
  BY <1>0, <1>5
<1>9. ASSUME NEW k \in 1..N
      PROVE  g[k] = Unsigned(2 * g[k - 1])
  <2>1. k \in 0..N /\ k # 0
    BY <1>0
  <2> HIDE DEF V, N
  <2>2. QED
    BY <1>5, <2>1
<1>10. g \in [0..N -> V]
  <2>1. \A k \in 1..N : g[k - 1] \in V => g[k] \in V
    BY <1>2, <1>9
  <2>2. g[0] \in V
    BY <1>1, <1>8
  <2> HIDE DEF V, P, N
  <2>3. QED
    BY <1>0, <1>7, <2>1, <2>2, FunctionTyped
<1>11. QED
  <2> HIDE DEF P
  <2>1. QED
    BY <1>6, <1>8, <1>9, <1>10 DEF Doubles

LEMMA ShiftedIs == ASSUME NEW n \in Nat PROVE Shifted(n) \in Nat /\ Shifted(0) = 1
<1>1. PICK v : Doubles(v, n)
  BY ShiftedDoubles
<1>2. Shifted(n) \in Nat
  BY <1>1 DEF Doubles
<1>3. PICK w : Doubles(w, 0)
  BY ShiftedDoubles
<1>4. QED
  BY <1>2, <1>3 DEF Doubles

LEMMA MinIs == ASSUME NEW S \in SUBSET Nat, S # {} PROVE Min(S) \in S /\ \A m \in S : Min(S) <= m
<1>1. \E n \in S : \A m \in S : n <= m
  BY LeastNatural
<1>2. QED
  BY <1>1 DEF Min

LEMMA PastIs ==
  ASSUME NEW b \in Bits, NEW p \in 0..Len(b), NEW n \in Nat
  PROVE  Past(b, p, n) \in 0..Len(b)
<1>1. Len(b) \in Nat
  BY DEF Bits
<1>2. QED
  BY <1>1 DEF Past, Least

LEMMA AtIs ==
  ASSUME NEW b \in Bits, NEW p \in Nat, NEW n \in Nat, p + n <= Len(b)
  PROVE  At(b, p, n) \in Nat
<1>1. PICK v : Builds(v, b, p, n)
  BY AtBuilt
<1>2. QED
  BY <1>1 DEF Builds

LEMMA NoBits ==
  ASSUME NEW b \in Bits, NEW p \in 0..Len(b)
  PROVE  At(b, p, 0) = 0
<1>1. Len(b) \in Nat
  BY DEF Bits
<1>2. p \in Nat /\ 0 \in Nat /\ p + 0 <= Len(b)
  BY <1>1
<1>3. PICK v : Builds(v, b, p, 0)
  BY <1>2, AtBuilt
<1>4. QED
  BY <1>3 DEF Builds

LEMMA BitIs ==
  ASSUME NEW b \in Bits, NEW p \in Nat, p + 1 <= Len(b)
  PROVE  At(b, p, 1) = b[p + 1] /\ At(b, p, 1) \in {0, 1}
<1>1. PICK v : Builds(v, b, p, 1)
  BY AtBuilt
<1>2. b[p + 1] \in {0, 1}
  <2>1. p + 1 \in 1..Len(b)
    BY DEF Bits
  <2>2. QED
    BY <2>1 DEF Bits
<1>3. v[1] = 2 * v[1 - 1] + b[p + 1]
  BY <1>1 DEF Builds
<1>4. v[1 - 1] = 0 /\ At(b, p, 1) = v[1]
  BY <1>1 DEF Builds
<1>5. QED
  BY <1>2, <1>3, <1>4

LEMMA ReadIs ==
  ASSUME NEW b \in Bits, NEW p \in 0..Len(b), NEW n \in Nat
  PROVE  read_bits(b, p, n) \in Nat
<1> DEFINE m == Least(n, Left(b, p))
           loaded == Least(m, 32 - (p % 8))
<1>1. Len(b) \in Nat
  BY DEF Bits
<1>2. m \in Nat /\ m <= Len(b) - p
  BY <1>1 DEF Least, Left
<1>3. 32 - (p % 8) \in Nat
  BY <1>1
<1>4. loaded \in Nat /\ loaded <= m
  <2> HIDE DEF m
  <2>1. QED
    BY <1>2, <1>3 DEF Least
<1>5. At(b, p, loaded) \in Nat
  <2> HIDE DEF m, loaded
  <2>1. p \in Nat /\ p + loaded <= Len(b)
    BY <1>1, <1>2, <1>4
  <2>2. QED
    BY <1>4, <2>1, AtIs
<1>6. Shifted(m - loaded) \in Nat
  <2> HIDE DEF m, loaded
  <2>1. m - loaded \in Nat
    BY <1>2, <1>4
  <2>2. QED
    BY <2>1, ShiftedIs
<1>7. read_bits(b, p, n) = At(b, p, loaded) * Shifted(m - loaded)
  BY DEF read_bits
<1>8. QED
  <2> HIDE DEF m, loaded
  <2>1. QED
    BY <1>5, <1>6, <1>7

LEMMA ReadBit ==
  ASSUME NEW b \in Bits, NEW p \in 0..Len(b)
  PROVE  /\ read_bits(b, p, 1) \in {0, 1}
         /\ read_bits(b, p, 1) = 1 => p + 1 \in 0..Len(b)
<1>1. Len(b) \in Nat
  BY DEF Bits
<1>2. 32 - (p % 8) >= 25 /\ 32 - (p % 8) \in Nat
  BY <1>1
<1>3. Shifted(0) = 1
  BY ShiftedIs
<1>4. CASE p < Len(b)
  <2>1. Least(1, Left(b, p)) = 1
    BY <1>1, <1>4 DEF Least, Left
  <2>2. Least(1, 32 - (p % 8)) = 1
    BY <1>2 DEF Least
  <2>3. read_bits(b, p, 1) = At(b, p, 1) * Shifted(0)
    BY <2>1, <2>2 DEF read_bits
  <2>4. At(b, p, 1) \in {0, 1}
    BY <1>1, <1>4, BitIs
  <2>5. QED
    BY <1>1, <1>3, <1>4, <2>3, <2>4
<1>5. CASE ~(p < Len(b))
  <2>1. Least(1, Left(b, p)) = 0
    BY <1>1, <1>5 DEF Least, Left
  <2>2. Least(0, 32 - (p % 8)) = 0
    BY <1>2 DEF Least
  <2>3. read_bits(b, p, 1) = At(b, p, 0) * Shifted(0)
    BY <2>1, <2>2 DEF read_bits
  <2>4. At(b, p, 0) = 0
    BY NoBits
  <2>5. QED
    BY <1>3, <2>3, <2>4
<1>6. QED
  BY <1>4, <1>5

(* A code has a value, and ends within the buffer.                         *)
LEMMA GolombIs ==
  ASSUME NEW b \in Bits, NEW p \in 0..Len(b)
  PROVE  get_ue_golomb(b, p).v \in Nat /\ get_ue_golomb(b, p).e \in 0..Len(b)
<1> DEFINE ones == {q \in p..Least(p + 31, Len(b) - 1) : b[q + 1] = 1}
           i == IF ones # {} THEN Min(ones) - p ELSE Least(Left(b, p + Least(1, Left(b, p))), 32)
           q == Past(b, p, Least(i + 1, 32))
<1>1. Len(b) \in Nat
  BY DEF Bits
<1>0. p \in Nat
  BY <1>1
<1>2. i \in 0..32
  <2>1. CASE ones # {}
    <3>1. ones \in SUBSET Nat
      BY <1>1
    <3>2. Min(ones) \in ones
      BY <2>1, <3>1, MinIs
    <3>3. Min(ones) >= p /\ Min(ones) <= p + 31 /\ Min(ones) \in Nat
      <4>1. Min(ones) \in p..Least(p + 31, Len(b) - 1)
        BY <3>2
      <4>2. QED
        BY <1>1, <4>1 DEF Least
    <3>4. i = Min(ones) - p
      BY <2>1
    <3>5. ASSUME NEW m \in Nat, m >= p, m <= p + 31
          PROVE  m - p \in 0..32
      BY <1>0, <3>5
    <3>6. QED
      BY <3>3, <3>4, <3>5
  <2>2. CASE ones = {}
    <3>1. Left(b, p + Least(1, Left(b, p))) \in Nat
      BY <1>1 DEF Left, Least
    <3>2. i = Least(Left(b, p + Least(1, Left(b, p))), 32)
      BY <2>2
    <3> DEFINE left == Left(b, p + Least(1, Left(b, p)))
    <3>3. Least(left, 32) \in 0..32
      <4>1. left \in Nat
        BY <3>1
      <4> HIDE DEF left
      <4>2. QED
        BY <4>1 DEF Least
    <3>4. QED
      BY <3>2, <3>3
  <2>3. QED
    BY <2>1, <2>2
<1> HIDE DEF i, ones
<1>3. q \in 0..Len(b)
  <2>1. Least(i + 1, 32) \in Nat
    BY <1>2 DEF Least
  <2>2. QED
    BY <2>1, PastIs
<1>4. get_ue_golomb(b, p) = golomb_suffix(b, q, i)
  BY DEF get_ue_golomb, golomb_prefix, i, ones
<1> HIDE DEF q
<1> i \in Nat
  BY <1>2
<1>5. Past(b, q, i) \in 0..Len(b)
  BY <1>3, PastIs
<1>6. read_bits(b, q, i) \in Nat
  BY <1>3, ReadIs
<1>7. (IF i = 32 THEN Overshift ELSE Shifted(i)) \in Nat
  BY <1>2, ShiftedIs, WordAssumption
<1>8. (IF i = 32 THEN Overshift ELSE Shifted(i)) - 1 + read_bits(b, q, i) \in Int
  BY <1>6, <1>7
<1>9. Unsigned((IF i = 32 THEN Overshift ELSE Shifted(i)) - 1 + read_bits(b, q, i)) \in Nat
  BY <1>8, UnsignedNat
<1>10. QED
  BY <1>4, <1>5, <1>9 DEF golomb_suffix

-----------------------------------------------------------------------------
(* The syntax elements of a sequence parameter set: each one ends within   *)
(* the buffer.                                                             *)
Walks(q, b, p, n) == q \in [0..n -> 0..Len(b)] /\ SkipGolombs(b, p, n) = q[n]

LEMMA SkipsWalk ==
  ASSUME NEW b \in Bits, NEW p \in 0..Len(b), NEW n \in Nat
  PROVE  \E q : Walks(q, b, p, n)
<1> DEFINE V == 0..Len(b)
           N == n
           step == [k \in Nat |-> [v \in V |-> IF k \in 1..N THEN get_ue_golomb(b, v).e ELSE v]]
           P(f) == f = [k \in 0..N |-> IF k = 0 THEN p ELSE get_ue_golomb(b, f[k - 1]).e]
<1>0. N \in Nat
  OBVIOUS
<1>1. p \in V
  OBVIOUS
<1>2. ASSUME NEW k \in 1..N, NEW v \in V
      PROVE  get_ue_golomb(b, v).e \in V
  BY GolombIs

<1>3. step \in [Nat -> [V -> V]]
  <2> HIDE DEF V, N
  <2>1. QED
    BY <1>2
<1>4. \E f \in [0..N -> V] : P(f)
  <2>1. PICK f \in [0..N -> V] : IsRecursion(f, N, p, step)
    <3> HIDE DEF V, step, N
    <3>1. QED
      BY <1>0, <1>1, <1>3, Recursion
  <2>2. f = [k \in 0..N |-> IF k = 0 THEN p ELSE step[k][f[k - 1]]]
    BY <2>1 DEF IsRecursion
  <2>3. ASSUME NEW k \in 0..N, k # 0
        PROVE  step[k][f[k - 1]] = get_ue_golomb(b, f[k - 1]).e
    <3>1. k \in Nat /\ k \in 1..N /\ k - 1 \in 0..N
      BY <1>0, <2>3
    <3>2. f[k - 1] \in V
      BY <2>1, <3>1
    <3> HIDE DEF V, N
    <3>3. QED
      BY <3>1, <3>2
  <2> HIDE DEF step, V, N
  <2>4. P(f)
    BY <2>2, <2>3
  <2> HIDE DEF P
  <2>5. QED
    BY <2>1, <2>4
<1> DEFINE g == CHOOSE f : P(f)
<1>5. P(g)
  <2> HIDE DEF P
  <2>1. QED
    BY <1>4
<1>6. SkipGolombs(b, p, n) = g[N]
  BY DEF SkipGolombs
<1> HIDE DEF g
<1>7. g = [k \in 0..N |-> g[k]]
  BY <1>5
<1>8. g[0] = p
  BY <1>0, <1>5
<1>9. ASSUME NEW k \in 1..N
      PROVE  g[k] = get_ue_golomb(b, g[k - 1]).e
  <2>1. k \in 0..N /\ k # 0
    BY <1>0
  <2> HIDE DEF V, N
  <2>2. QED
    BY <1>5, <2>1
<1>10. g \in [0..N -> V]
  <2>1. \A k \in 1..N : g[k - 1] \in V => g[k] \in V
    BY <1>2, <1>9
  <2>2. g[0] \in V
    BY <1>1, <1>8
  <2> HIDE DEF V, P, N
  <2>3. QED
    BY <1>0, <1>7, <2>1, <2>2, FunctionTyped
<1>11. QED
  <2> HIDE DEF P
  <2>1. QED
    BY <1>6, <1>8, <1>9, <1>10 DEF Walks

LEMMA SkipsIs ==
  ASSUME NEW b \in Bits, NEW p \in 0..Len(b), NEW n \in Nat
  PROVE  SkipGolombs(b, p, n) \in 0..Len(b)
<1>1. PICK q : Walks(q, b, p, n)
  BY SkipsWalk
<1>2. QED
  BY <1>1 DEF Walks

LEMMA GolombsAre ==
  ASSUME NEW b \in Bits, NEW p \in 0..Len(b), NEW n \in Nat
  PROVE  Golombs(b, p, n) \in [1..n -> Nat]
<1> SUFFICES ASSUME NEW k \in 1..n
             PROVE  get_ue_golomb(b, SkipGolombs(b, p, k - 1)).v \in Nat
  BY DEF Golombs
<1>1. k - 1 \in Nat
  OBVIOUS
<1>2. SkipGolombs(b, p, k - 1) \in 0..Len(b)
  BY <1>1, SkipsIs
<1>3. QED
  BY <1>2, GolombIs

(* The scaling lists.                                                      *)
LEMMA SignedIs == ASSUME NEW v \in Nat PROVE Signed(v) \in Int
<1>1. AsInt(v) + 1 \in Int
  <2>1. Unsigned(v) \in Int
    BY UnsignedNat
  <2>2. AsInt(v) \in Int
    BY <2>1, WordMod DEF AsInt
  <2>3. QED
    BY <2>2
<1>2. ASSUME NEW x \in Int PROVE Half(x) \in Int
  BY DEF Half
<1>3. Half(AsInt(v) + 1) \in Int
  BY <1>1, <1>2
<1> DEFINE h == Half(AsInt(v) + 1)
<1>4. Signed(v) \in {h * 1, h * (-1)}
  BY DEF Signed
<1> HIDE DEF h
<1>5. h \in Int
  BY <1>3 DEF h
<1>6. QED
  BY <1>4, <1>5

Scales(b) == [p : 0..Len(b), next : Int, last : Int]

LEMMA ScaleIs ==
  ASSUME NEW b \in Bits, NEW s \in Scales(b)
  PROVE  scale(b, s) \in Scales(b)
<1> DEFINE g == get_ue_golomb(b, s.p)
           next == (s.last + Signed(g.v) + 256) % 256
<1>1. s.p \in 0..Len(b) /\ s.last \in Int
  BY DEF Scales
<1>2. g.v \in Nat /\ g.e \in 0..Len(b)
  BY <1>1, GolombIs
<1>3. next \in Int
  <2>1. Signed(g.v) \in Int
    BY <1>2, SignedIs
  <2>2. QED
    BY <1>1, <2>1
<1>4. scale(b, s) = IF s.next = 0 THEN s
                    ELSE [p |-> g.e, next |-> next, last |-> IF next # 0 THEN next ELSE s.last]
  BY DEF scale
<1> HIDE DEF g, next
<1>5. QED
  BY <1>1, <1>2, <1>3, <1>4 DEF Scales

Scaled(s, b, p, n) == s \in [0..n -> Scales(b)] /\ scaling_list(b, p, n) = s[n].p

LEMMA ListScales ==
  ASSUME NEW b \in Bits, NEW p \in 0..Len(b), NEW n \in Nat
  PROVE  \E s : Scaled(s, b, p, n)
<1> DEFINE V == Scales(b)
           N == n
           step == [k \in Nat |-> [v \in V |-> IF k \in 1..N THEN scale(b, v) ELSE v]]
           P(f) == f = [k \in 0..N |-> IF k = 0 THEN [p |-> p, next |-> 8, last |-> 8]
                                       ELSE scale(b, f[k - 1])]
<1>0. N \in Nat
  OBVIOUS
<1>1. [p |-> p, next |-> 8, last |-> 8] \in V
  BY DEF Scales
<1>2. ASSUME NEW k \in 1..N, NEW v \in V
      PROVE  scale(b, v) \in V
  BY ScaleIs

<1>3. step \in [Nat -> [V -> V]]
  <2> HIDE DEF V, N
  <2>1. QED
    BY <1>2
<1>4. \E f \in [0..N -> V] : P(f)
  <2>1. PICK f \in [0..N -> V] : IsRecursion(f, N, [p |-> p, next |-> 8, last |-> 8], step)
    <3> HIDE DEF V, step, N
    <3>1. QED
      BY <1>0, <1>1, <1>3, Recursion
  <2>2. f = [k \in 0..N |-> IF k = 0 THEN [p |-> p, next |-> 8, last |-> 8] ELSE step[k][f[k - 1]]]
    BY <2>1 DEF IsRecursion
  <2>3. ASSUME NEW k \in 0..N, k # 0
        PROVE  step[k][f[k - 1]] = scale(b, f[k - 1])
    <3>1. k \in Nat /\ k \in 1..N /\ k - 1 \in 0..N
      BY <1>0, <2>3
    <3>2. f[k - 1] \in V
      BY <2>1, <3>1
    <3> HIDE DEF V, N
    <3>3. QED
      BY <3>1, <3>2
  <2> HIDE DEF step, V, N
  <2>4. P(f)
    BY <2>2, <2>3
  <2> HIDE DEF P
  <2>5. QED
    BY <2>1, <2>4
<1> DEFINE g == CHOOSE f : P(f)
<1>5. P(g)
  <2> HIDE DEF P
  <2>1. QED
    BY <1>4
<1>6. scaling_list(b, p, n) = g[N].p
  BY DEF scaling_list
<1> HIDE DEF g
<1>7. g = [k \in 0..N |-> g[k]]
  BY <1>5
<1>8. g[0] = [p |-> p, next |-> 8, last |-> 8]
  BY <1>0, <1>5
<1>9. ASSUME NEW k \in 1..N
      PROVE  g[k] = scale(b, g[k - 1])
  <2>1. k \in 0..N /\ k # 0
    BY <1>0
  <2> HIDE DEF V, N
  <2>2. QED
    BY <1>5, <2>1
<1>10. g \in [0..N -> V]
  <2>1. \A k \in 1..N : g[k - 1] \in V => g[k] \in V
    BY <1>2, <1>9
  <2>2. g[0] \in V
    BY <1>1, <1>8
  <2> HIDE DEF V, P, N
  <2>3. QED
    BY <1>0, <1>7, <2>1, <2>2, FunctionTyped
<1>11. QED
  <2> HIDE DEF P
  <2>1. QED
    BY <1>6, <1>8, <1>9, <1>10 DEF Scaled

LEMMA ScalingListIs ==
  ASSUME NEW b \in Bits, NEW p \in 0..Len(b), NEW n \in Nat
  PROVE  scaling_list(b, p, n) \in 0..Len(b)
<1>1. PICK s : Scaled(s, b, p, n)
  BY ListScales
<1>2. s[n] \in Scales(b)
  BY <1>1 DEF Scaled
<1>3. QED
  BY <1>1, <1>2 DEF Scaled, Scales

LEMMA FlaggedListIs ==
  ASSUME NEW b \in Bits, NEW p \in 0..Len(b), NEW i \in Nat
  PROVE  flagged_list(b, p, i) \in 0..Len(b)
<1>1. CASE read_bits(b, p, 1) = 0
  BY <1>1, PastIs DEF flagged_list
<1>2. CASE read_bits(b, p, 1) = 1
  <2>1. p + 1 \in 0..Len(b)
    BY <1>2, ReadBit
  <2>2. scaling_list(b, p + 1, 16) \in 0..Len(b) /\ scaling_list(b, p + 1, 64) \in 0..Len(b)
    BY <2>1, ScalingListIs
  <2>3. QED
    BY <1>2, <2>2 DEF flagged_list
<1>3. QED
  BY <1>1, <1>2, ReadBit

Listed(q, b, p, m) == q \in [0..m -> 0..Len(b)] /\ scaling_matrix(b, p, m) = q[m]

LEMMA MatrixListed ==
  ASSUME NEW b \in Bits, NEW p \in 0..Len(b), NEW n \in Nat
  PROVE  \E q : Listed(q, b, p, n)
<1> DEFINE V == 0..Len(b)
           N == n
           step == [k \in Nat |-> [v \in V |-> IF k \in 1..N THEN flagged_list(b, v, k) ELSE v]]
           P(f) == f = [k \in 0..N |-> IF k = 0 THEN p ELSE flagged_list(b, f[k - 1], k)]
<1>0. N \in Nat
  OBVIOUS
<1>1. p \in V
  OBVIOUS
<1>2. ASSUME NEW k \in 1..N, NEW v \in V
      PROVE  flagged_list(b, v, k) \in V
  <2>1. k \in Nat
    OBVIOUS
  <2>2. QED
    BY <2>1, FlaggedListIs

<1>3. step \in [Nat -> [V -> V]]
  <2> HIDE DEF V, N
  <2>1. QED
    BY <1>2
<1>4. \E f \in [0..N -> V] : P(f)
  <2>1. PICK f \in [0..N -> V] : IsRecursion(f, N, p, step)
    <3> HIDE DEF V, step, N
    <3>1. QED
      BY <1>0, <1>1, <1>3, Recursion
  <2>2. f = [k \in 0..N |-> IF k = 0 THEN p ELSE step[k][f[k - 1]]]
    BY <2>1 DEF IsRecursion
  <2>3. ASSUME NEW k \in 0..N, k # 0
        PROVE  step[k][f[k - 1]] = flagged_list(b, f[k - 1], k)
    <3>1. k \in Nat /\ k \in 1..N /\ k - 1 \in 0..N
      BY <1>0, <2>3
    <3>2. f[k - 1] \in V
      BY <2>1, <3>1
    <3> HIDE DEF V, N
    <3>3. QED
      BY <3>1, <3>2
  <2> HIDE DEF step, V, N
  <2>4. P(f)
    BY <2>2, <2>3
  <2> HIDE DEF P
  <2>5. QED
    BY <2>1, <2>4
<1> DEFINE g == CHOOSE f : P(f)
<1>5. P(g)
  <2> HIDE DEF P
  <2>1. QED
    BY <1>4
<1>6. scaling_matrix(b, p, n) = g[N]
  BY DEF scaling_matrix
<1> HIDE DEF g
<1>7. g = [k \in 0..N |-> g[k]]
  BY <1>5
<1>8. g[0] = p
  BY <1>0, <1>5
<1>9. ASSUME NEW k \in 1..N
      PROVE  g[k] = flagged_list(b, g[k - 1], k)
  <2>1. k \in 0..N /\ k # 0
    BY <1>0
  <2> HIDE DEF V, N
  <2>2. QED
    BY <1>5, <2>1
<1>10. g \in [0..N -> V]
  <2>1. \A k \in 1..N : g[k - 1] \in V => g[k] \in V
    BY <1>2, <1>9
  <2>2. g[0] \in V
    BY <1>1, <1>8
  <2> HIDE DEF V, P, N
  <2>3. QED
    BY <1>0, <1>7, <2>1, <2>2, FunctionTyped
<1>11. QED
  <2> HIDE DEF P
  <2>1. QED
    BY <1>6, <1>8, <1>9, <1>10 DEF Listed

LEMMA ScalingMatrixIs ==
  ASSUME NEW b \in Bits, NEW p \in 0..Len(b), NEW m \in Nat
  PROVE  scaling_matrix(b, p, m) \in 0..Len(b)
<1>1. PICK q : Listed(q, b, p, m)
  BY MatrixListed
<1>2. QED
  BY <1>1 DEF Listed

LEMMA MatrixFlagIs ==
  ASSUME NEW b \in Bits, NEW p \in 0..Len(b), NEW m \in Nat
  PROVE  scaling_matrix_flag(b, p, m) \in 0..Len(b)
<1>1. CASE read_bits(b, p, 1) = 1
  <2>1. p + 1 \in 0..Len(b)
    BY <1>1, ReadBit
  <2>2. QED
    BY <1>1, <2>1, ScalingMatrixIs DEF scaling_matrix_flag
<1>2. CASE read_bits(b, p, 1) # 1
  BY <1>2, PastIs DEF scaling_matrix_flag
<1>3. QED
  BY <1>1, <1>2

LEMMA ChromaIs ==
  ASSUME NEW b \in Bits, NEW p \in 0..Len(b)
  PROVE  chroma_format(b, p).v \in Nat /\ chroma_format(b, p).e \in 0..Len(b)
<1> DEFINE idc == get_ue_golomb(b, p)
           chroma == idc.v % 256
           one == IF chroma = 3 THEN 1 ELSE 0
           m == IF chroma = 3 THEN 12 ELSE 8
           depths == Past(b, idc.e, one)
           flag == Past(b, SkipGolombs(b, depths, 2), 1)
<1>1. idc.v \in Nat /\ idc.e \in 0..Len(b)
  BY GolombIs
<1>2. chroma \in Nat /\ one \in Nat /\ m \in Nat
  BY <1>1
<1> HIDE DEF one, m
<1>3. depths \in 0..Len(b)
  BY <1>1, <1>2, PastIs
<1>4. SkipGolombs(b, depths, 2) \in 0..Len(b)
  <2> HIDE DEF depths
  <2>1. QED
    BY <1>3, SkipsIs
<1>5. flag \in 0..Len(b)
  <2> HIDE DEF depths
  <2>1. QED
    BY <1>4, PastIs
<1>6. scaling_matrix_flag(b, flag, m) \in 0..Len(b)
  <2> HIDE DEF flag
  <2>1. QED
    BY <1>2, <1>5, MatrixFlagIs
<1>7. /\ chroma_format(b, p).v \in {0, chroma}
      /\ chroma_format(b, p).e = scaling_matrix_flag(b, flag, m)
  BY DEF chroma_format, one, m
<1>8. QED
  <2> HIDE DEF flag, chroma
  <2>1. QED
    BY <1>2, <1>6, <1>7

(* The picture order count.                                                *)
LEMMA OrderIs ==
  ASSUME NEW b \in Bits, NEW p \in 0..Len(b)
  PROVE  pic_order_cnt(b, p) \in 0..Len(b)
<1> DEFINE type == get_ue_golomb(b, p).v % 256
           r == get_ue_golomb(b, p).e
           offsets == SkipGolombs(b, Past(b, r, 1), 2)
           cycle == get_ue_golomb(b, offsets)
<1>1. r \in 0..Len(b)
  BY GolombIs
<1>2. pic_order_cnt(b, p) = order_cnt_type(b, type, r)
  BY DEF pic_order_cnt
<1> HIDE DEF type, r
<1>3. SkipGolombs(b, r, 1) \in 0..Len(b)
  BY <1>1, SkipsIs
<1>4. offsets \in 0..Len(b)
  <2>1. Past(b, r, 1) \in 0..Len(b)
    BY <1>1, PastIs
  <2>2. QED
    BY <2>1, SkipsIs
<1>5. cycle.v \in Nat /\ cycle.e \in 0..Len(b)
  <2> HIDE DEF offsets
  <2>1. QED
    BY <1>4, GolombIs
<1>6. order_cnt_cycle(b, cycle) \in 0..Len(b)
  <2> HIDE DEF cycle
  <2>1. QED
    BY <1>5, SkipsIs DEF order_cnt_cycle
<1>7. order_cnt_type(b, type, r) \in {SkipGolombs(b, r, 1), order_cnt_cycle(b, cycle), r}
  BY DEF order_cnt_type
<1>8. QED
  <2> HIDE DEF cycle
  <2>1. QED
    BY <1>1, <1>2, <1>3, <1>6, <1>7

-----------------------------------------------------------------------------
(* The frame size of a sequence parameter set.                             *)
LEMMA AsIntIs == ASSUME NEW v \in Int PROVE AsInt(v) \in Int
<1>1. Unsigned(v) \in Int
  BY UnsignedNat
<1>2. QED
  BY <1>1, WordMod DEF AsInt

LEMMA Remainder ==
  ASSUME NEW x \in Int, NEW w \in Nat \ {0}
  PROVE  \E q \in Int : x % w = x - w * q
<1>1. x = (w * (x \div w)) + (x % w)
  OBVIOUS
<1>2. x \div w \in Int
  OBVIOUS
<1> DEFINE q == x \div w
<1>3. w * q \in Int /\ x % w \in Int
  BY <1>2
<1>4. x % w = x - w * q
  <2> DEFINE r == x % w
             z == w * q
  <2>1. x = z + r
    BY <1>1
  <2> HIDE DEF z, r, q
  <2>2. r = x - z
    BY <1>3, <2>1 DEF z, r
  <2>3. QED
    BY <2>2 DEF z, r
<1>5. QED
  BY <1>2, <1>4

(* A size in macroblocks stays one when it wraps.                          *)
LEMMA Macroblocks ==
  ASSUME NEW x \in Int
  PROVE  AsInt(16 * x) \in Int /\ AsInt(16 * x) % 16 = 0
<1> DEFINE w == 2 * (IntMax + 1)
<1>1. PICK h \in Nat : IntMax + 1 = 16 * h
  <2>1. IntMax + 1 = 16 * ((IntMax + 1) \div 16)
    BY WordAssumption
  <2>2. (IntMax + 1) \div 16 \in Nat
    BY WordAssumption
  <2>3. QED
    BY <2>1, <2>2
<1>2. w = 32 * h /\ w \in Nat \ {0}
  BY <1>1, WordMod
<1>3. PICK q \in Int : (16 * x) % w = 16 * x - w * q
  <2> HIDE DEF w
  <2>1. 16 * x \in Int
    OBVIOUS
  <2>2. QED
    BY <1>2, <2>1, Remainder
<1>4. h * q \in Int /\ w * q = 32 * (h * q)
  BY <1>2
<1> DEFINE z == h * q
<1>5. AsInt(16 * x) \in {16 * x - 32 * z, 16 * x - 32 * z - 32 * h}
  BY <1>2, <1>3, <1>4 DEF AsInt, Unsigned
<1> HIDE DEF z, w
<1>6. z \in Int
  BY <1>4 DEF z
<1>7. (16 * x - 32 * z) % 16 = 0 /\ (16 * x - 32 * z - 32 * h) % 16 = 0
  BY <1>6
<1>8. QED
  BY <1>5, <1>6, <1>7

Whole(r) ==
  /\ r.size \in [1..2 -> Nat] /\ r.crop \in [1..2 -> Nat]
  /\ \A k \in 1..2 : r.size[k] % 16 = 0

Edges == [1..4 -> Nat]
Coded(size) == size \in [1..2 -> Int] /\ \A k \in 1..2 : size[k] % 16 = 0

LEMMA CroppedIs ==
  ASSUME NEW b, NEW avc, NEW chroma \in Nat, NEW size, Coded(size),
         NEW field \in 1..2, NEW crop, crop.v \in Edges,
         cropped_frame(b, avc, chroma, size, field, crop).ok
  PROVE  /\ Whole(cropped_frame(b, avc, chroma, size, field, crop))
         /\ cropped_frame(b, avc, chroma, size, field, crop).avc = avc
<1> DEFINE unit == <<1, 2, 2, 1>>[chroma + 1]
           lines == <<1, 2, 1, 1>>[chroma + 1] * field
           u == AsInt(size[1] - (crop.v[1] + crop.v[2]) * unit)
           v == AsInt(size[2] - (crop.v[3] + crop.v[4]) * lines)
           f == cropped_frame(b, avc, chroma, size, field, crop)
<1>0. f.ok /\ ~Refused.ok
  BY DEF Refused
<1>1. f = IF chroma > 3 \/ Left(b, crop.e) = 0 THEN Refused
          ELSE IF \A k \in 1..2 : size[k] >= 0 /\ <<u, v>>[k] >= 0
          THEN Cropped(size, <<u, v>>, <<0, 0>>, avc)
          ELSE Refused
  BY DEF cropped_frame
<1> HIDE DEF f
<1>2. chroma \in 0..3
  BY <1>0, <1>1
<1>3. unit \in 1..2 /\ lines \in Nat
  <2>1. unit \in 1..2
    BY <1>2
  <2>2. <<1, 2, 1, 1>>[chroma + 1] \in 1..2
    BY <1>2
  <2>3. QED
    BY <2>1, <2>2
<1>4. u \in Int /\ v \in Int
  <2> DEFINE sides == crop.v[1] + crop.v[2]
             rows == crop.v[3] + crop.v[4]
  <2>0. size[1] \in Int /\ size[2] \in Int
    BY DEF Coded
  <2>1. sides \in Nat /\ rows \in Nat
    BY DEF Edges
  <2> HIDE DEF sides, rows, unit, lines
  <2>2. size[1] - sides * unit \in Int /\ size[2] - rows * lines \in Int
    BY <1>3, <2>0, <2>1
  <2>3. AsInt(size[1] - sides * unit) \in Int /\ AsInt(size[2] - rows * lines) \in Int
    BY <2>2, AsIntIs
  <2>4. QED
    BY <2>3 DEF sides, rows
<1> HIDE DEF u, v, unit, lines
<1>5. /\ f = Cropped(size, <<u, v>>, <<0, 0>>, avc)
      /\ \A k \in 1..2 : size[k] >= 0 /\ <<u, v>>[k] >= 0
  BY <1>0, <1>1
<1>6. u >= 0 /\ v >= 0
  <2>1. 1 \in 1..2 /\ 2 \in 1..2
    OBVIOUS
  <2>2. QED
    BY <1>5, <2>1
<1>7. f.size = size /\ f.crop = <<u, v>> /\ f.avc = avc
  BY <1>5 DEF Cropped
<1>8. size \in [1..2 -> Nat] /\ <<u, v>> \in [1..2 -> Nat]
  BY <1>4, <1>5, <1>6 DEF Coded
<1>9. QED
  BY <1>7, <1>8 DEF Coded, Whole, f

LEMMA EdgesAre ==
  ASSUME NEW b \in Bits, NEW p \in 0..Len(b)
  PROVE  crop_edges(b, p).v \in Edges
<1>1. CASE read_bits(b, p, 1) = 1
  <2>1. p + 1 \in 0..Len(b)
    BY <1>1, ReadBit
  <2>2. Golombs(b, p + 1, 4) \in [1..4 -> Nat]
    BY <2>1, GolombsAre
  <2>3. QED
    BY <1>1, <2>2 DEF crop_edges, Edges
<1>2. CASE read_bits(b, p, 1) # 1
  <2>1. crop_edges(b, p).v = <<0, 0, 0, 0>>
    BY <1>2 DEF crop_edges
  <2>2. QED
    BY <2>1 DEF Edges
<1>3. QED
  BY <1>1, <1>2

LEMMA FrameSizeIs ==
  ASSUME NEW b \in Bits, NEW avc, NEW chroma \in Nat, NEW p \in 0..Len(b),
         frame_size(b, avc, chroma, p).ok
  PROVE  /\ Whole(frame_size(b, avc, chroma, p))
         /\ frame_size(b, avc, chroma, p).avc = avc
<1> DEFINE mbs == Golombs(b, p, 2)
           flag == SkipGolombs(b, p, 2)
           field == 2 - read_bits(b, flag, 1)
           x == AsInt(16 * (mbs[1] + 1))
           y == AsInt(16 * (mbs[2] + 1) * field)
           crop == crop_edges(b, Past(b, flag, 1 + field))
<1>1. frame_size(b, avc, chroma, p) = cropped_frame(b, avc, chroma, <<x, y>>, field, crop)
  BY DEF frame_size
<1>2. mbs[1] \in Nat /\ mbs[2] \in Nat /\ flag \in 0..Len(b)
  <2>1. 2 \in Nat
    OBVIOUS
  <2>2. mbs \in [1..2 -> Nat]
    BY <2>1, GolombsAre
  <2>3. flag \in 0..Len(b)
    BY <2>1, SkipsIs
  <2>4. QED
    BY <2>2, <2>3
<1> HIDE DEF mbs, flag
<1>3. field \in 1..2
  <2>1. read_bits(b, flag, 1) \in {0, 1}
    BY <1>2, ReadBit
  <2>2. QED
    BY <2>1
<1> HIDE DEF field
<1>4. x \in Int /\ x % 16 = 0
  <2>1. mbs[1] + 1 \in Int
    BY <1>2
  <2>2. QED
    BY <2>1, Macroblocks
<1>5. y \in Int /\ y % 16 = 0
  <2>1. (mbs[2] + 1) * field \in Int /\ 16 * (mbs[2] + 1) * field = 16 * ((mbs[2] + 1) * field)
    BY <1>2, <1>3
  <2>2. QED
    BY <2>1, Macroblocks
<1>6. crop.v \in Edges
  <2>1. 1 + field \in Nat
    BY <1>3
  <2>2. Past(b, flag, 1 + field) \in 0..Len(b)
    BY <1>2, <2>1, PastIs
  <2>3. QED
    BY <2>2, EdgesAre
<1> HIDE DEF x, y, crop
<1> DEFINE size == <<x, y>>
<1>8. Coded(size)
  BY <1>4, <1>5 DEF Coded
<1> HIDE DEF size
<1>9. frame_size(b, avc, chroma, p) = cropped_frame(b, avc, chroma, size, field, crop)
  BY <1>1 DEF size
<1>10. cropped_frame(b, avc, chroma, size, field, crop).ok
  BY <1>9
<1>11. /\ Whole(cropped_frame(b, avc, chroma, size, field, crop))
       /\ cropped_frame(b, avc, chroma, size, field, crop).avc = avc
  BY <1>3, <1>6, <1>8, <1>10, CroppedIs
<1>12. QED
  BY <1>9, <1>11

LEMMA SpsIs ==
  ASSUME NEW b \in Bits, NEW avc, sequence_parameter_set(b, avc).ok
  PROVE  /\ Whole(sequence_parameter_set(b, avc))
         /\ sequence_parameter_set(b, avc).avc = avc
<1> DEFINE id == SkipGolombs(b, 32, 1)
           chroma == IF At(b, 8, 8) \in high_profiles THEN chroma_format(b, id)
                     ELSE [v |-> 1, e |-> id]
           first == SkipGolombs(b, chroma.e, 1)
           order == pic_order_cnt(b, first)
           frames == SkipGolombs(b, order, 1)
           p == Past(b, frames, 1)
<1>1. sequence_parameter_set(b, avc) = IF Left(b, 16) >= 16 /\ At(b, 0, 1) = 0 /\ At(b, 3, 5) = 7
                                       THEN after_chroma(b, avc, chroma) ELSE Refused
  BY DEF sequence_parameter_set
<1>2. /\ Left(b, 16) >= 16
      /\ sequence_parameter_set(b, avc) = after_chroma(b, avc, chroma)
  <2> HIDE DEF chroma
  <2>1. QED
    BY <1>1 DEF Refused
<1>3. id \in 0..Len(b)
  <2>1. 32 \in 0..Len(b)
    BY <1>2 DEF Left, Bits
  <2>2. QED
    BY <2>1, SkipsIs
<1>4. chroma.v \in Nat /\ chroma.e \in 0..Len(b)
  <2> HIDE DEF id
  <2>1. chroma_format(b, id).v \in Nat /\ chroma_format(b, id).e \in 0..Len(b)
    BY <1>3, ChromaIs
  <2>2. QED
    BY <1>3, <2>1
<1> HIDE DEF chroma
<1>5. first \in 0..Len(b)
  BY <1>4, SkipsIs
<1> HIDE DEF first
<1>6. order \in 0..Len(b)
  BY <1>5, OrderIs
<1> HIDE DEF order
<1>7. frames \in 0..Len(b)
  BY <1>6, SkipsIs
<1> HIDE DEF frames
<1>8. p \in 0..Len(b)
  BY <1>7, PastIs
<1>9. after_chroma(b, avc, chroma) = frame_size(b, avc, chroma.v, p)
  BY DEF after_chroma, first, order, frames
<1> HIDE DEF p
<1>10. QED
  BY <1>2, <1>4, <1>8, <1>9, FrameSizeIs

-----------------------------------------------------------------------------
(* The parser of H.264: the escaped bytes, the search for the header.      *)
(* Bytes and bits.                                                         *)
LEMMA BytesAre == ASSUME NEW b \in Bits PROVE Bytes(b) \in Seq(Nat)
<1>1. Len(b) \in Nat /\ Len(b) \div 8 \in Nat /\ 8 * (Len(b) \div 8) <= Len(b)
  BY DEF Bits
<1> DEFINE n == Len(b) \div 8
<1>2. ASSUME NEW i \in 1..n
      PROVE  At(b, 8 * (i - 1), 8) \in Nat
  <2>1. 8 * (i - 1) \in Nat /\ 8 * (i - 1) + 8 <= Len(b) /\ 8 \in Nat
    BY <1>1
  <2>2. QED
    BY <2>1, AtIs
<1>3. Bytes(b) = [i \in 1..n |-> At(b, 8 * (i - 1), 8)]
  BY DEF Bytes
<1>4. n \in Nat
  BY <1>1
<1> HIDE DEF n
<1>5. QED
  BY <1>2, <1>3, <1>4

LEMMA BitsAre == ASSUME NEW y \in Seq(Nat) PROVE BitsOf(y) \in Bits
<1> DEFINE n == 8 * Len(y)
           Weight(i) == <<128, 64, 32, 16, 8, 4, 2, 1>>[((i - 1) % 8) + 1]
           Bit(i) == (y[((i - 1) \div 8) + 1] \div Weight(i)) % 2
<1>1. Len(y) \in Nat /\ n \in Nat
  OBVIOUS
<1>2. ASSUME NEW i \in 1..n
      PROVE  Bit(i) \in {0, 1}
  <2>1. ((i - 1) \div 8) + 1 \in 1..Len(y)
    BY <1>1
  <2>2. y[((i - 1) \div 8) + 1] \in Nat
    BY <2>1
  <2>3. ((i - 1) % 8) + 1 \in 1..8
    BY <1>1
  <2>4. Weight(i) \in {128, 64, 32, 16, 8, 4, 2, 1}
    <3>1. \A j \in 1..8 : <<128, 64, 32, 16, 8, 4, 2, 1>>[j] \in {128, 64, 32, 16, 8, 4, 2, 1}
      OBVIOUS
    <3>2. QED
      BY <2>3, <3>1
  <2>5. ASSUME NEW c \in Nat, NEW w \in {128, 64, 32, 16, 8, 4, 2, 1}
        PROVE  (c \div w) % 2 \in {0, 1}
    OBVIOUS
  <2> HIDE DEF Weight
  <2>6. QED
    BY <2>2, <2>4, <2>5, ZenonT(40)
<1>3. BitsOf(y) = [i \in 1..n |-> Bit(i)]
  BY DEF BitsOf
<1> HIDE DEF n, Bit
<1>4. QED
  BY <1>1, <1>2, <1>3 DEF Bits

Unescapes(z, y) == z \in [0..Len(y) -> Seq(Nat)] /\ unescaped(y) = z[Len(y)]

LEMMA BytesUnescape ==
  ASSUME NEW y \in Seq(Nat)
  PROVE  \E z : Unescapes(z, y)
<1> DEFINE V == Seq(Nat)
           N == Len(y)
           step == [k \in Nat |-> [v \in V |->
                      IF k \in 1..N
                      THEN IF After2Zeros(y, k) /\ y[k] = 3 THEN v ELSE Append(v, y[k])
                      ELSE v]]
           P(f) == f = [k \in 0..N |->
                          IF k = 0 THEN <<>>
                          ELSE IF After2Zeros(y, k) /\ y[k] = 3 THEN f[k - 1]
                          ELSE Append(f[k - 1], y[k])]
<1>0. N \in Nat
  OBVIOUS
<1>1. <<>> \in V
  OBVIOUS
<1>2. ASSUME NEW k \in 1..N, NEW v \in V
      PROVE  (IF After2Zeros(y, k) /\ y[k] = 3 THEN v ELSE Append(v, y[k])) \in V
  BY DEF After2Zeros

<1>3. step \in [Nat -> [V -> V]]
  <2> HIDE DEF V, N
  <2>1. QED
    BY <1>2
<1>4. \E f \in [0..N -> V] : P(f)
  <2>1. PICK f \in [0..N -> V] : IsRecursion(f, N, <<>>, step)
    <3> HIDE DEF V, step, N
    <3>1. QED
      BY <1>0, <1>1, <1>3, Recursion
  <2>2. f = [k \in 0..N |-> IF k = 0 THEN <<>> ELSE step[k][f[k - 1]]]
    BY <2>1 DEF IsRecursion
  <2>3. ASSUME NEW k \in 0..N, k # 0
        PROVE  step[k][f[k - 1]] = IF After2Zeros(y, k) /\ y[k] = 3 THEN f[k - 1]
                                   ELSE Append(f[k - 1], y[k])
    <3>1. k \in Nat /\ k \in 1..N /\ k - 1 \in 0..N
      BY <1>0, <2>3
    <3>2. f[k - 1] \in V
      BY <2>1, <3>1
    <3> HIDE DEF V, N
    <3>3. QED
      BY <3>1, <3>2
  <2> HIDE DEF step, V, N
  <2>4. P(f)
    BY <2>2, <2>3
  <2> HIDE DEF P
  <2>5. QED
    BY <2>1, <2>4
<1> DEFINE g == CHOOSE f : P(f)
<1>5. P(g)
  <2> HIDE DEF P
  <2>1. QED
    BY <1>4
<1>6. unescaped(y) = g[N]
  BY DEF unescaped
<1> HIDE DEF g
<1>7. g = [k \in 0..N |-> g[k]]
  BY <1>5
<1>8. g[0] = <<>>
  BY <1>0, <1>5
<1>9. ASSUME NEW k \in 1..N
      PROVE  g[k] = (IF After2Zeros(y, k) /\ y[k] = 3 THEN g[k - 1] ELSE Append(g[k - 1], y[k]))
  <2>1. k \in 0..N /\ k # 0
    BY <1>0
  <2> HIDE DEF V, N
  <2>2. QED
    BY <1>5, <2>1
<1>10. g \in [0..N -> V]
  <2>1. \A k \in 1..N : g[k - 1] \in V => g[k] \in V
    BY <1>2, <1>9
  <2>2. g[0] \in V
    BY <1>1, <1>8
  <2> HIDE DEF V, P, N
  <2>3. QED
    BY <1>0, <1>7, <2>1, <2>2, FunctionTyped
<1>11. QED
  <2> HIDE DEF P
  <2>1. QED
    BY <1>6, <1>8, <1>9, <1>10 DEF Unescapes

LEMMA UnescapedIs == ASSUME NEW y \in Seq(Nat) PROVE rbsp_unescape(y) \in Seq(Nat)
<1> DEFINE marks == {k \in 3..(Len(y) - 1) : After2Zeros(y, k) /\ y[k] <= 3}
<1>1. Len(y) \in Nat
  OBVIOUS
<1>2. unescaped(y) \in Seq(Nat)
  <2>1. PICK z : Unescapes(z, y)
    BY BytesUnescape
  <2>2. QED
    BY <1>1, <2>1 DEF Unescapes
<1>3. CASE marks # {}
  <2>1. marks \in SUBSET Nat
    BY <1>1
  <2>2. Min(marks) \in marks
    BY <1>3, <2>1, MinIs
  <2>3. Min(marks) - 3 \in 0..Len(y)
    <3>1. Min(marks) \in 3..(Len(y) - 1)
      BY <2>2
    <3> DEFINE m == Min(marks)
    <3> HIDE DEF m
    <3>2. m - 3 \in 0..Len(y)
      BY <1>1, <3>1 DEF m
    <3>3. QED
      BY <3>2 DEF m
  <2>4. SubSeq(y, 1, Min(marks) - 3) \in Seq(Nat)
    <3> DEFINE m == Min(marks) - 3
    <3>1. m \in 0..Len(y)
      BY <2>3
    <3> HIDE DEF m
    <3>2. SubSeq(y, 1, m) \in Seq(Nat)
      BY <1>1, <3>1
    <3>3. QED
      BY <3>2 DEF m
  <2>5. rbsp_unescape(y) \in {unescaped(y), SubSeq(y, 1, Min(marks) - 3), y}
    BY <1>3 DEF rbsp_unescape
  <2>6. QED
    BY <1>2, <2>4, <2>5
<1>4. CASE marks = {}
  BY <1>4 DEF rbsp_unescape
<1>5. QED
  BY <1>3, <1>4

LEMMA RestIs == ASSUME NEW b \in Bits, NEW p \in 0..Len(b) PROVE SubSeq(b, p + 1, Len(b)) \in Bits
BY DEF Bits

LEMMA AnalyzedIs ==
  ASSUME NEW b \in Bits, NEW p \in 0..Len(b), NEW avc, analyze(b, p, avc).ok
  PROVE  Whole(analyze(b, p, avc)) /\ analyze(b, p, avc).avc = avc
<1> DEFINE c == BitsOf(rbsp_unescape(Bytes(SubSeq(b, p + 1, Len(b)))))
<1>1. c \in Bits
  <2>1. SubSeq(b, p + 1, Len(b)) \in Bits
    BY RestIs
  <2>2. Bytes(SubSeq(b, p + 1, Len(b))) \in Seq(Nat)
    BY <2>1, BytesAre
  <2>3. QED
    BY <2>2, UnescapedIs, BitsAre
<1>2. analyze(b, p, avc) = sequence_parameter_set(c, avc)
  BY DEF analyze
<1> HIDE DEF c
<1>3. QED
  BY <1>1, <1>2, SpsIs

(* A byte of 1 does not start with six 1s.                                 *)
LEMMA OneByte ==
  ASSUME NEW b \in Bits, Len(b) >= 8, At(b, 0, 8) = 1
  PROVE  At(b, 0, 6) # 63
<1>1. Len(b) \in Nat /\ 0 \in Nat /\ 0 + 8 <= Len(b) /\ 0 + 6 <= Len(b) /\ 6 \in Nat /\ 8 \in Nat
  BY DEF Bits
<1>2. PICK v : Builds(v, b, 0, 8)
  BY <1>1, AtBuilt
<1>3. PICK w : Builds(w, b, 0, 6)
  BY <1>1, AtBuilt
<1>4. \A k \in 1..8 : b[0 + k] \in Nat /\ b[0 + k] <= 1
  BY DEF Bits
<1>5. \A k \in 0..8 : v[k] \in Nat
  BY <1>2 DEF Builds
<1>6. v[0] = 0 /\ v[8] = 1 /\ \A k \in 1..8 : v[k] = 2 * v[k - 1] + b[0 + k]
  BY <1>2 DEF Builds
<1>7. v[6] = 0
  <2>1. v[8] = 2 * v[8 - 1] + b[0 + 8] /\ v[7] = 2 * v[7 - 1] + b[0 + 7]
    BY <1>6
  <2>2. v[6] \in Nat /\ v[7] \in Nat /\ b[0 + 8] \in Nat /\ b[0 + 7] \in Nat
    BY <1>4, <1>5
  <2>3. v[8 - 1] = v[7] /\ v[7 - 1] = v[6] /\ b[0 + 8] = b[8] /\ b[0 + 7] = b[7]
    OBVIOUS
  <2>4. 1 = 2 * v[7] + b[8] /\ v[7] = 2 * v[6] + b[7]
    BY <1>6, <2>1, <2>3
  <2>5. b[8] \in Nat /\ b[7] \in Nat
    BY <2>2, <2>3
  <2>6. v[7] = 0
    BY <2>2, <2>4, <2>5
  <2>7. QED
    BY <2>2, <2>4, <2>5, <2>6
<1>8. w[6] = v[6]
  <2>1. w[0] = 0 /\ \A k \in 1..6 : w[k] = 2 * w[k - 1] + b[0 + k]
    BY <1>3 DEF Builds
  <2>2. \A k \in 1..6 : w[k - 1] = v[k - 1] => w[k] = v[k]
    BY <1>6, <2>1
  <2>3. w[0] = v[0]
    BY <1>6, <2>1
  <2>4. w[1] = v[1]
    BY <2>2, <2>3
  <2>5. w[2] = v[2]
    BY <2>2, <2>4
  <2>6. w[3] = v[3]
    BY <2>2, <2>5
  <2>7. w[4] = v[4]
    BY <2>2, <2>6
  <2>8. w[5] = v[5]
    BY <2>2, <2>7
  <2>9. QED
    BY <2>2, <2>8
<1>9. At(b, 0, 6) = w[6]
  BY <1>3 DEF Builds
<1>10. QED
  BY <1>7, <1>8, <1>9

LEMMA LocatedIs == ASSUME NEW b \in Bits PROVE locate_sps(b) \in 0..Len(b)
<1> DEFINE at == {p \in 0..(Len(b) - 32) : /\ p % 8 = 0 /\ At(b, p, 24) = 1
                                           /\ At(b, p + 27, 5) = 7}
<1>1. Len(b) \in Nat
  BY DEF Bits
<1>2. locate_sps(b) = IF at = {} THEN Len(b) ELSE Min(at) + 24
  BY DEF locate_sps
<1>3. CASE at # {}
  <2>1. at \in SUBSET Nat
    BY <1>1
  <2>2. Min(at) \in 0..(Len(b) - 32)
    <3>1. Min(at) \in at
      BY <1>3, <2>1, MinIs
    <3>2. QED
      BY <3>1
  <2> HIDE DEF at
  <2>3. ASSUME NEW m \in 0..(Len(b) - 32)
        PROVE  m + 24 \in 0..Len(b)
    BY <1>1
  <2>4. Min(at) + 24 \in 0..Len(b)
    BY <2>2, <2>3
  <2>5. QED
    BY <1>2, <1>3, <2>4
<1>4. CASE at = {}
  <2> HIDE DEF at
  <2>1. QED
    BY <1>1, <1>2, <1>4
<1>5. QED
  BY <1>3, <1>4

LEMMA RecordIs ==
  ASSUME NEW b, NEW p \in {0, 32}
  PROVE  \/ configuration_record(b, p) = -1
         \/ /\ configuration_record(b, p) = p + 32
            /\ At(b, 0, 8) = 1 /\ At(b, p, 6) = 63
BY DEF configuration_record

(* H.264: whole macroblocks; and a decoder that knows its stream to be AVC *)
(* finds nothing more.                                                     *)
LEMMA H264Is ==
  ASSUME NEW b \in Bits, NEW parsed \in BOOLEAN, NEW is_avc \in BOOLEAN,
         h264_parse(b, parsed, is_avc).ok
  PROVE  /\ Whole(h264_parse(b, parsed, is_avc))
         /\ h264_parse(b, parsed, is_avc).avc \in BOOLEAN
         /\ ~(parsed /\ is_avc)
<1> DEFINE f == h264_parse(b, parsed, is_avc)
           avc == IF parsed THEN is_avc ELSE Word(b, 0) # <<0, 1>> /\ At(b, 0, 24) # 1
           from == IF parsed THEN 0 ELSE 32
           record == configuration_record(b, from)
           at == locate_sps(b)
<1>0. Len(b) \in Nat /\ ~Refused.ok /\ f.ok
  BY DEF Bits, Refused
<1>1. f = IF ~parsed /\ Left(b, 0) < 32 THEN Refused
          ELSE IF avc /\ (record = -1 \/ Left(b, record) >= 40 \/ parsed)
          THEN IF record = -1 \/ Left(b, record) < 40 THEN Refused
               ELSE analyze(b, record, TRUE)
          ELSE IF Left(b, at) < 40 THEN Refused
          ELSE analyze(b, at, FALSE)
  BY DEF h264_parse
<1>2. parsed => avc = is_avc
  OBVIOUS
<1>3. from \in {0, 32} /\ (parsed => from = 0)
  OBVIOUS
<1>4. at \in 0..Len(b)
  BY LocatedIs
<1>5. \/ record = -1
      \/ record = from + 32 /\ At(b, 0, 8) = 1 /\ At(b, from, 6) = 63
  BY <1>3, RecordIs
<1> HIDE DEF f, avc, from, record, at
<1>6. Left(b, record) \in Int /\ Left(b, at) \in Int
  BY <1>0, <1>3, <1>4, <1>5 DEF Left
<1>7. CASE avc /\ (record = -1 \/ Left(b, record) >= 40 \/ parsed)
  <2>1. f = analyze(b, record, TRUE) /\ record # -1 /\ ~(Left(b, record) < 40)
    BY <1>0, <1>1, <1>7
  <2>2. record = from + 32 /\ At(b, 0, 8) = 1 /\ At(b, from, 6) = 63
    BY <1>5, <2>1
  <2>3. record \in 0..Len(b) /\ Len(b) >= 8
    BY <1>0, <1>3, <1>6, <2>1, <2>2 DEF Left
  <2>4. ~parsed
    BY <1>3, <2>2, <2>3, OneByte
  <2>5. analyze(b, record, TRUE).ok
    BY <1>0, <2>1
  <2>6. Whole(analyze(b, record, TRUE)) /\ analyze(b, record, TRUE).avc = TRUE
    BY <2>3, <2>5, AnalyzedIs
  <2>7. QED
    BY <2>1, <2>4, <2>6 DEF f
<1>8. CASE ~(avc /\ (record = -1 \/ Left(b, record) >= 40 \/ parsed))
  <2>1. f = analyze(b, at, FALSE)
    BY <1>0, <1>1, <1>8
  <2>2. ~(parsed /\ is_avc)
    BY <1>2, <1>8
  <2>3. analyze(b, at, FALSE).ok
    BY <1>0, <2>1
  <2>4. Whole(analyze(b, at, FALSE)) /\ analyze(b, at, FALSE).avc = FALSE
    BY <1>4, <2>3, AnalyzedIs
  <2>5. QED
    BY <2>1, <2>2, <2>4 DEF f
<1>9. QED
  BY <1>7, <1>8

-----------------------------------------------------------------------------
(* The parser of H.263.                                                    *)
Plain(r) == r.size \in [1..2 -> Nat] /\ r.crop = <<0, 0>> /\ r.avc = FALSE

LEMMA FrameIs ==
  ASSUME NEW x \in Nat, NEW y \in Nat, NEW par
  PROVE  Plain(Frame(<<x, y>>, par))
BY DEF Plain, Frame, Cropped

LEMMA FormatIs == ASSUME NEW k \in 1..5, NEW par PROVE Plain(Frame(sizes[k], par))
<1>1. sizes[k] \in {<<128, 96>>, <<176, 144>>, <<352, 288>>, <<704, 576>>, <<1408, 1152>>}
  BY DEF sizes
<1>2. QED
  BY <1>1, FrameIs

LEMMA ThreeBits ==
  ASSUME NEW b \in Bits, NEW p \in Nat, p + 3 <= Len(b)
  PROVE  At(b, p, 3) \in 0..7
<1>1. PICK v : Builds(v, b, p, 3)
  BY AtBuilt
<1>2. b[p + 1] \in {0, 1} /\ b[p + 2] \in {0, 1} /\ b[p + 3] \in {0, 1}
  BY DEF Bits
<1>3. v[0] = 0 /\ v[1] = 2 * v[1 - 1] + b[p + 1] /\ v[2] = 2 * v[2 - 1] + b[p + 2]
      /\ v[3] = 2 * v[3 - 1] + b[p + 3]
  BY <1>1 DEF Builds
<1>4. v[1] \in 0..1
  BY <1>2, <1>3
<1>5. v[2] \in 0..3
  BY <1>2, <1>3, <1>4
<1>6. v[3] \in 0..7
  BY <1>2, <1>3, <1>5
<1>7. QED
  BY <1>1, <1>6 DEF Builds

LEMMA CustomIs ==
  ASSUME NEW b \in Bits, Len(b) >= 92, custom_picture(b).ok
  PROVE  Plain(custom_picture(b))
<1> DEFINE p == 69 + 2 * At(b, 68, 1)
           pf == At(b, p, 4)
           epar == At(b, p + 23, 16)
           par == IF pf = 15 /\ epar # 0 THEN <<epar \div 256, epar % 16>>
                  ELSE IF pf \in DOMAIN pars THEN pars[pf] ELSE default_par
           x == 4 * (At(b, p + 4, 9) + 1)
           y == 4 * At(b, p + 14, 9)
<1>1. custom_picture(b) = IF \/ p = 71 /\ Left(b, 69) < 25
                             \/ pf = 15 /\ Left(b, p + 23) < 16
                          THEN Refused
                          ELSE Frame(<<x, y>>, par)
  BY DEF custom_picture
<1>2. ~Refused.ok /\ Len(b) \in Nat
  BY DEF Refused, Bits
<1>3. p \in {69, 71}
  BY <1>2, BitIs
<1> HIDE DEF par, x, y, p
<1>4. custom_picture(b) = Frame(<<x, y>>, par) /\ ~(p = 71 /\ Left(b, 69) < 25)
  BY <1>1, <1>2
<1>5. p \in Nat /\ p + 23 <= Len(b)
  BY <1>2, <1>3, <1>4 DEF Left
<1>6. x \in Nat /\ y \in Nat
  <2>1. /\ p + 4 \in Nat /\ (p + 4) + 9 <= Len(b)
        /\ p + 14 \in Nat /\ (p + 14) + 9 <= Len(b) /\ 9 \in Nat
    BY <1>2, <1>5
  <2>2. At(b, p + 4, 9) \in Nat
    BY <2>1, AtIs
  <2>3. At(b, p + 14, 9) \in Nat
    BY <2>1, AtIs
  <2>4. QED
    BY <2>2, <2>3 DEF x, y
<1>7. QED
  BY <1>4, <1>6, FrameIs

LEMMA ExtendedIs ==
  ASSUME NEW b \in Bits, extended_picture(b).ok
  PROVE  Plain(extended_picture(b))
<1> DEFINE format == At(b, 41, 3)
<1>1. extended_picture(b) =
        IF Left(b, 38) < 54 \/ At(b, 38, 3) # 1 \/ format \in {0, 7} THEN Refused
                            ELSE IF format = 6 THEN custom_picture(b)
                            ELSE Frame(sizes[format], default_par)
  BY DEF extended_picture
<1>2. ~Refused.ok /\ Len(b) \in Nat
  BY DEF Refused, Bits
<1> HIDE DEF format
<1>3. ~(Left(b, 38) < 54) /\ ~(format \in {0, 7})
  BY <1>1, <1>2
<1>4. Len(b) >= 92
  BY <1>2, <1>3 DEF Left
<1>5. format \in 1..6
  <2>1. format \in 0..7
    BY <1>2, <1>4, ThreeBits DEF format
  <2>2. QED
    BY <1>3, <2>1
<1>6. CASE format = 6
  <2>1. extended_picture(b) = custom_picture(b)
    BY <1>1, <1>2, <1>6
  <2>2. custom_picture(b).ok
    BY <2>1
  <2>3. QED
    BY <1>4, <2>1, <2>2, CustomIs
<1>7. CASE format # 6
  <2>1. extended_picture(b) = Frame(sizes[format], default_par) /\ format \in 1..5
    BY <1>1, <1>2, <1>5, <1>7
  <2>2. QED
    BY <2>1, FormatIs
<1>8. QED
  BY <1>6, <1>7

LEMMA H263Is == ASSUME NEW b \in Bits, h263_parse(b).ok PROVE Plain(h263_parse(b))
<1> DEFINE type == At(b, 30, 8) % 8
<1>1. h263_parse(b) = IF Left(b, 0) < 38 \/ At(b, 0, 22) # 32 \/ type \in {0, 6} THEN Refused
                      ELSE IF type = 7 THEN extended_picture(b)
                      ELSE IF Left(b, 38) < 11 THEN Refused
                      ELSE Frame(sizes[type], default_par)
  BY DEF h263_parse
<1>2. ~Refused.ok /\ Len(b) \in Nat
  BY DEF Refused, Bits
<1> HIDE DEF type
<1>3. ~(Left(b, 0) < 38) /\ ~(type \in {0, 6})
  BY <1>1, <1>2
<1>4. type \in 0..7
  <2>1. 30 + 8 <= Len(b)
    BY <1>2, <1>3 DEF Left
  <2>2. At(b, 30, 8) \in Nat
    BY <2>1, AtIs
  <2>3. QED
    BY <2>2 DEF type
<1>5. CASE type = 7
  <2>1. h263_parse(b) = extended_picture(b)
    BY <1>1, <1>2, <1>5
  <2>2. extended_picture(b).ok
    BY <2>1
  <2>3. QED
    BY <2>1, <2>2, ExtendedIs
<1>6. CASE type # 7
  <2>1. h263_parse(b) = Frame(sizes[type], default_par) /\ type \in 1..5
    BY <1>1, <1>2, <1>3, <1>4, <1>6
  <2>2. QED
    BY <2>1, FormatIs
<1>7. QED
  BY <1>5, <1>6

-----------------------------------------------------------------------------
(* The parser of MPEG-4.                                                   *)
(* The largest of some numbers is one of them.                             *)
LEMMA MaxIs ==
  ASSUME NEW N \in Nat, NEW S \in SUBSET (0..N), S # {}
  PROVE  Max(S) \in S
<1> DEFINE T == {N - x : x \in S}
<1>1. T \in SUBSET Nat /\ T # {}
  <2>1. ASSUME NEW x \in S PROVE N - x \in Nat
    OBVIOUS
  <2>2. PICK x \in S : TRUE
    OBVIOUS
  <2>3. N - x \in T
    BY <2>2
  <2>4. QED
    BY <2>1, <2>3
<1>2. PICK t \in T : \A u \in T : t <= u
  <2> HIDE DEF T
  <2>1. QED
    BY <1>1, LeastNatural
<1>3. PICK x \in S : t = N - x
  BY <1>2
<1>4. \A y \in S : x >= y
  <2> SUFFICES ASSUME NEW y \in S PROVE x >= y
    OBVIOUS
  <2>1. N - x <= N - y
    BY <1>2, <1>3
  <2>2. QED
    BY <2>1
<1>5. \E z \in S : \A y \in S : z >= y
  BY <1>4
<1>6. QED
  BY <1>5 DEF Max

LEMMA LayerIs ==
  ASSUME NEW b \in Bits, NEW r \in Nat, video_object_layer(b, r).ok
  PROVE  Plain(video_object_layer(b, r))
<1> DEFINE verid == r + 41
           ar == verid + 1 + 7 * At(b, verid, 1)
           ctl == ar + (IF At(b, ar, 4) = 15 THEN 20 ELSE 4)
           vbv == At(b, ctl, 1) = 1 /\ At(b, ctl + 4, 1) = 1
           shape == ctl + 1 + (IF vbv THEN 83 ELSE 4 * At(b, ctl, 1))
           res == {k \in 1..16 : At(b, shape + 19 - k, 1) = 1}
           n == Max({0} \cup res)
           dim == shape + 21 + n * At(b, shape + 20, 1)
           width == At(b, dim + 1, 13)
           height == At(b, dim + 15, 13)
<1>0. Len(b) \in Nat /\ ~Refused.ok
  BY DEF Bits, Refused
<1>1. /\ Left(b, r) >= 47
      /\ At(b, verid, 1) = 1 => Left(b, verid + 1) >= 12
      /\ At(b, ar, 4) = 15 => Left(b, ar + 4) >= 17
      /\ Left(b, shape) >= 21
      /\ Left(b, dim) >= 29
      /\ video_object_layer(b, r) = Frame(<<width, height>>, <<0, 0>>)
  BY <1>0, ZenonT(40) DEF video_object_layer
<1> HIDE DEF n
<1>2. n \in Nat
  <2>1. {0} \cup res \in SUBSET (0..16) /\ {0} \cup res # {}
    OBVIOUS
  <2> HIDE DEF res
  <2>2. Max({0} \cup res) \in {0} \cup res
    BY <2>1, MaxIs
  <2>3. QED
    BY <2>1, <2>2 DEF n
<1> HIDE DEF width, height, dim
<1>3. verid \in Nat /\ verid + 6 <= Len(b) /\ At(b, verid, 1) \in {0, 1}
  <2>1. verid \in Nat /\ verid + 6 <= Len(b)
    BY <1>0, <1>1 DEF Left
  <2> HIDE DEF verid
  <2>2. verid + 1 <= Len(b)
    BY <1>0, <2>1
  <2>3. QED
    BY <2>1, <2>2, BitIs
<1> HIDE DEF shape
<1>4. ar \in Nat /\ ar + 5 <= Len(b)
  <2> HIDE DEF verid
  <2>1. QED
    BY <1>0, <1>1, <1>3 DEF Left
<1>5. ctl \in Nat /\ ctl + 1 <= Len(b)
  <2> HIDE DEF ar
  <2>1. QED
    BY <1>0, <1>1, <1>4 DEF Left
<1> HIDE DEF ctl
<1>6. At(b, ctl, 1) \in {0, 1}
  BY <1>5, BitIs
<1>7. shape \in Nat
  <2> HIDE DEF vbv
  <2>1. QED
    BY <1>5, <1>6 DEF shape
<1>8. At(b, shape + 20, 1) \in {0, 1}
  <2>1. shape + 20 \in Nat /\ (shape + 20) + 1 <= Len(b)
    BY <1>0, <1>1, <1>7 DEF Left
  <2>2. QED
    BY <2>1, BitIs
<1>9. dim \in Nat
  BY <1>2, <1>7, <1>8 DEF dim
<1>10. width \in Nat /\ height \in Nat
  <2>1. /\ dim + 1 \in Nat /\ (dim + 1) + 13 <= Len(b) /\ 13 \in Nat
        /\ dim + 15 \in Nat /\ (dim + 15) + 13 <= Len(b)
    BY <1>0, <1>1, <1>9 DEF Left
  <2>2. At(b, dim + 1, 13) \in Nat
    BY <2>1, AtIs
  <2>3. At(b, dim + 15, 13) \in Nat
    BY <2>1, AtIs
  <2>4. QED
    BY <2>2, <2>3 DEF width, height
<1>11. QED
  BY <1>1, <1>10, FrameIs

LEMMA UserDataIs ==
  ASSUME NEW b \in Bits, NEW p \in Nat
  PROVE  skip_user_data(b, p) \in Nat
<1> DEFINE codes == {q \in p..(Len(b) - 32) : /\ (q - p) % 8 = 0
                                              /\ At(b, q, 24) = 1
                                              /\ At(b, q + 24, 8) # 178}
<1>1. Len(b) \in Nat
  BY DEF Bits
<1>2. skip_user_data(b, p) \in {p, IF codes = {} THEN Len(b) ELSE Min(codes)}
  BY DEF skip_user_data
<1>3. codes # {} => Min(codes) \in Nat
  <2>1. codes \in SUBSET Nat
    BY <1>1
  <2> HIDE DEF codes
  <2>2. QED
    BY <2>1, MinIs
<1> HIDE DEF codes
<1>4. QED
  BY <1>1, <1>2, <1>3

LEMMA VideoObjectIs ==
  ASSUME NEW b \in Bits, NEW p \in Nat, video_object(b, p).ok
  PROVE  Plain(video_object(b, p))
<1> DEFINE q == skip_user_data(b, p)
<1>1. q + 32 \in Nat
  BY UserDataIs
<1>2. video_object(b, p) = video_object_layer(b, q + 32)
  BY DEF video_object, Refused
<1> HIDE DEF q
<1>3. video_object_layer(b, q + 32).ok
  BY <1>2
<1>4. QED
  BY <1>1, <1>2, <1>3, LayerIs

LEMMA SequenceIs ==
  ASSUME NEW b \in Bits, visual_object_sequence(b).ok
  PROVE  Plain(visual_object_sequence(b))
<1> DEFINE vo == skip_user_data(b, 40)
           verid == vo + 32
           type == verid + 1 + 7 * At(b, verid, 1)
           signal == At(b, type + 4, 1) = 1
           colour == signal /\ At(b, type + 9, 1) = 1
           end == type + 5 + (IF colour THEN 29 ELSE IF signal THEN 5 ELSE 0)
           p == end + 8 - (end % 8)
<1>0. Len(b) \in Nat /\ ~Refused.ok
  BY DEF Bits, Refused
<1>1. Left(b, verid) >= 6 /\ visual_object_sequence(b) = video_object(b, p)
  BY <1>0 DEF visual_object_sequence
<1>2. verid \in Nat
  <2>1. vo \in Nat
    BY UserDataIs
  <2>2. QED
    BY <2>1
<1> HIDE DEF p, end, type, verid
<1>3. At(b, verid, 1) \in {0, 1}
  <2>1. verid + 1 <= Len(b)
    BY <1>0, <1>1, <1>2 DEF Left
  <2>2. QED
    BY <1>2, <2>1, BitIs
<1>4. type \in Nat
  BY <1>2, <1>3 DEF type
<1>5. end \in Nat
  <2> HIDE DEF signal, colour
  <2>1. QED
    BY <1>4 DEF end
<1>6. p \in Nat
  BY <1>5 DEF p
<1>7. QED
  BY <1>1, <1>6, VideoObjectIs

LEMMA Mpeg4Is == ASSUME NEW b \in Bits, mpeg4_parse(b).ok PROVE Plain(mpeg4_parse(b))
<1> DEFINE located == {i \in 4..((Len(b) \div 8) - 1) : IsVideoObject(Word(b, 8 * (i - 4)))}
           p == 8 * (Min(located) - 4)
           c == SubSeq(b, p + 1, Len(b))
<1>0. Len(b) \in Nat /\ ~Refused.ok
  BY DEF Bits, Refused
<1>1. mpeg4_parse(b) = IF Left(b, 0) < 32 THEN Refused
                       ELSE IF Word(b, 0) = Code(176) THEN visual_object_sequence(b)
                       ELSE IF located = {} THEN Refused ELSE video_object(c, 0)
  BY DEF mpeg4_parse
<1>2. CASE mpeg4_parse(b) = visual_object_sequence(b)
  <2>1. visual_object_sequence(b).ok
    BY <1>2
  <2>2. QED
    BY <1>2, <2>1, SequenceIs
<1>3. CASE mpeg4_parse(b) = video_object(c, 0) /\ located # {}
  <2>1. p \in 0..Len(b)
    <3>1. located \in SUBSET Nat
      BY <1>0
    <3>2. Min(located) \in 4..((Len(b) \div 8) - 1)
      <4>1. Min(located) \in located
        BY <1>3, <3>1, MinIs
      <4>2. QED
        BY <4>1
    <3>3. ASSUME NEW m \in 4..((Len(b) \div 8) - 1)
          PROVE  8 * (m - 4) \in 0..Len(b)
      BY <1>0
    <3> HIDE DEF located
    <3>4. QED
      BY <3>2, <3>3
  <2> HIDE DEF p
  <2>2. c \in Bits
    BY <2>1, RestIs
  <2> HIDE DEF c
  <2>3. video_object(c, 0).ok
    BY <1>3
  <2>4. QED
    BY <1>3, <2>2, <2>3, VideoObjectIs
<1>4. QED
  <2> HIDE DEF located, c
  <2>1. QED
    BY <1>0, <1>1, <1>2, <1>3

-----------------------------------------------------------------------------
(* The parsers, on the buffers of the streams.                             *)
LEMMA StreamBits ==
  ASSUME NEW s \in 1..Len(Streams)
  PROVE  Streams[s].data \in Bits /\ Streams[s].frame \in Bits
<1> DEFINE R == [codec : Codecs, caps : Sizes, size : Sizes, has_data : BOOLEAN,
                 data : Seq({0, 1}), frame : Seq({0, 1}),
                 headers : [data : BOOLEAN, frame : BOOLEAN]]
<1>1. Streams \in Seq(R)
  BY StreamsAssumption
<1> HIDE DEF R
<1>2. Streams[s] \in R
  BY <1>1
<1> DEFINE t == Streams[s]
<1> HIDE DEF t
<1>3. t \in R
  BY <1>2 DEF t
<1>4. t.data \in Seq({0, 1}) /\ t.frame \in Seq({0, 1})
  BY <1>3 DEF R
<1>5. QED
  BY <1>4 DEF t, Bits

(* What a parser of gstdspparse.c finds in any bits and tells              *)
(* set_framesize is a size and a part of it; the size H.264 has is made of *)
(* macroblocks, and a parser that knows the stream to be AVC refuses every *)
(* buffer, since it looks for two values of one byte.                      *)
THEOREM ParsersRight ==
  \A s \in 1..Len(Streams), part \in Parts, func \in Parsers, parsed \in BOOLEAN,
     is_avc \in BOOLEAN :
    LET found == Finds(s, part, func, parsed, is_avc)
    IN  found.ok =>
          /\ found.size \in Sizes /\ found.crop \in Sizes /\ found.avc \in BOOLEAN
          /\ \A k \in 1..2 : found.crop[k] <= found.size[k]
          /\ func = "h264" => ~(parsed /\ is_avc) /\ \A k \in 1..2 : found.size[k] % 16 = 0
<1> SUFFICES ASSUME NEW s \in 1..Len(Streams), NEW part \in Parts, NEW func \in Parsers,
                    NEW parsed \in BOOLEAN, NEW is_avc \in BOOLEAN,
                    Finds(s, part, func, parsed, is_avc).ok
             PROVE  LET found == Finds(s, part, func, parsed, is_avc)
                    IN  /\ found.size \in Sizes /\ found.crop \in Sizes /\ found.avc \in BOOLEAN
                        /\ \A k \in 1..2 : found.crop[k] <= found.size[k]
                        /\ func = "h264" => /\ ~(parsed /\ is_avc)
                                            /\ \A k \in 1..2 : found.size[k] % 16 = 0
  OBVIOUS
<1> DEFINE found == Finds(s, part, func, parsed, is_avc)
           b == Streams[s][part]
<1>0. found.ok
  OBVIOUS
<1>1. b \in Bits
  <2>1. Streams[s].data \in Bits /\ Streams[s].frame \in Bits
    BY StreamBits
  <2>2. CASE part = "data"
    BY <2>1, <2>2
  <2>3. CASE part = "frame"
    BY <2>1, <2>3
  <2>4. QED
    BY <2>2, <2>3 DEF Parts
<1>2. found = Parse(func, b, parsed, is_avc)
  BY <1>0 DEF Finds, Refused
<1>3. CASE func = "h264"
  <2>1. \A k \in 1..2 : found.crop[k] <= found.size[k]
    BY <1>0, <1>3, CroppingAssumption
  <2>2. found = h264_parse(b, parsed, is_avc)
    BY <1>2, <1>3 DEF Parse
  <2> HIDE DEF found, b
  <2>3. Whole(found) /\ found.avc \in BOOLEAN /\ ~(parsed /\ is_avc)
    BY <1>0, <1>1, <2>2, H264Is
  <2>4. /\ found.size \in Sizes /\ found.crop \in Sizes
        /\ \A k \in 1..2 : found.size[k] % 16 = 0
    BY <2>3 DEF Whole, Sizes
  <2>5. QED
    BY <2>1, <2>3, <2>4 DEF found
<1>4. CASE func \in {"h263", "mpeg4"}
  <2>1. found \in {h263_parse(b), mpeg4_parse(b)}
    BY <1>2, <1>4 DEF Parse
  <2> HIDE DEF found, b
  <2>2. Plain(found)
    <3>1. CASE found = h263_parse(b)
      BY <1>0, <1>1, <3>1, H263Is
    <3>2. CASE found = mpeg4_parse(b)
      BY <1>0, <1>1, <3>2, Mpeg4Is
    <3>3. QED
      BY <2>1, <3>1, <3>2
  <2>3. /\ found.size \in Sizes /\ found.crop = <<0, 0>> /\ found.avc = FALSE
    BY <2>2 DEF Plain, Sizes
  <2>4. /\ found.crop \in Sizes /\ \A k \in 1..2 : found.crop[k] <= found.size[k]
    <3>1. \A k \in 1..2 : found.crop[k] = 0
      BY <2>3
    <3>2. QED
      BY <2>3, <3>1 DEF Sizes
  <2>5. QED
    BY <1>4, <2>3, <2>4 DEF found
<1>5. QED
  BY <1>3, <1>4 DEF Parsers

-----------------------------------------------------------------------------
(* What the parsers find.                                                  *)
LEMMA ResultIs ==
  ASSUME NEW v, v.parsed \in BOOLEAN, v.is_avc \in BOOLEAN,
         NEW func \in Parsers \cup {None}, NEW s \in 0..Len(Streams), NEW part \in Parts
  PROVE  Result(v, func, s, part) =
           IF s = 0 \/ func = None THEN Refused
           ELSE Finds(s, part, func, v.parsed, v.is_avc)
<1>1. CASE s = 0 \/ func = None
  BY <1>1 DEF Result
<1>2. CASE ~(s = 0 \/ func = None)
  <2> DEFINE key == <<s, part, func, v.parsed, v.is_avc>>
             res == [key |-> key, result |-> Finds(s, part, func, v.parsed, v.is_avc)]
  <2>1. s \in 1..Len(Streams) /\ func \in Parsers
    <3>1. Len(Streams) \in Nat
      BY StreamsAssumption
    <3>2. QED
      BY <1>2, <3>1
  <2>2. res \in Results /\ res.key = key
    BY <2>1 DEF Results
  <2>3. \A r \in Results : r.key = key => r = res
    <3> SUFFICES ASSUME NEW s2 \in 1..Len(Streams), NEW part2 \in Parts, NEW func2 \in Parsers,
                        NEW parsed2 \in BOOLEAN, NEW avc2 \in BOOLEAN,
                        <<s2, part2, func2, parsed2, avc2>> = key
                 PROVE  Finds(s2, part2, func2, parsed2, avc2)
                          = Finds(s, part, func, v.parsed, v.is_avc)
      BY DEF Results
    <3>1. s2 = s /\ part2 = part /\ func2 = func /\ parsed2 = v.parsed /\ avc2 = v.is_avc
      OBVIOUS
    <3>2. QED
      BY <3>1
  <2> HIDE DEF res
  <2>4. (CHOOSE r \in Results : r.key = key) = res
    BY <2>2, <2>3
  <2>5. res.result = Finds(s, part, func, v.parsed, v.is_avc)
    BY DEF res
  <2> HIDE DEF key
  <2>6. Result(v, func, s, part) = (CHOOSE r \in Results : r.key = key).result
    BY <1>2 DEF Result, key
  <2>7. QED
    BY <1>2, <2>4, <2>5, <2>6
<1>3. QED
  BY <1>1, <1>2

(* The format that an H.264 header is found in.                            *)
LEMMA FormatKept ==
  ASSUME NEW b, NEW avc \in BOOLEAN, sequence_parameter_set(b, avc).ok
  PROVE  sequence_parameter_set(b, avc).avc = avc
<1>1. ~Refused.ok
  BY DEF Refused
<1>2. ASSUME NEW chroma, NEW size, NEW field, NEW crop,
             cropped_frame(b, avc, chroma, size, field, crop).ok
      PROVE  cropped_frame(b, avc, chroma, size, field, crop).avc = avc
  <2>1. \E cut : cropped_frame(b, avc, chroma, size, field, crop)
                   \in {Refused, Cropped(size, cut, <<0, 0>>, avc)}
    BY DEF cropped_frame
  <2>2. QED
    BY <1>1, <1>2, <2>1 DEF Cropped
<1>3. ASSUME NEW chroma, NEW dim, frame_size(b, avc, chroma, dim).ok
      PROVE  frame_size(b, avc, chroma, dim).avc = avc
  BY <1>2, <1>3 DEF frame_size
<1>4. ASSUME NEW chroma, after_chroma(b, avc, chroma).ok
      PROVE  after_chroma(b, avc, chroma).avc = avc
  BY <1>3, <1>4 DEF after_chroma
<1>5. \E chroma : sequence_parameter_set(b, avc) \in {Refused, after_chroma(b, avc, chroma)}
  BY DEF sequence_parameter_set
<1>6. QED
  BY <1>1, <1>4, <1>5

LEMMA FormatFound ==
  ASSUME NEW b, NEW is_avc \in BOOLEAN
  PROVE  /\ h264_parse(b, TRUE, FALSE).ok => ~h264_parse(b, TRUE, FALSE).avc
         /\ h264_parse(b, FALSE, is_avc).ok /\ ~h264_parse(b, FALSE, is_avc).avc
              => h264_parse(b, TRUE, FALSE) = h264_parse(b, FALSE, is_avc)
<1> DEFINE stream_b == IF Left(b, locate_sps(b)) < 40 THEN Refused
                       ELSE analyze(b, locate_sps(b), FALSE)
<1>1. ~Refused.ok
  BY DEF Refused
<1>2. h264_parse(b, TRUE, FALSE) = stream_b
  BY DEF h264_parse
<1>3. stream_b.ok => ~stream_b.avc
  <2>1. \E x : stream_b \in {Refused, sequence_parameter_set(x, FALSE)}
    BY DEF analyze
  <2> HIDE DEF stream_b
  <2>2. QED
    BY <1>1, <2>1, FormatKept
<1>4. \/ h264_parse(b, FALSE, is_avc) \in {Refused, stream_b}
      \/ \E p : h264_parse(b, FALSE, is_avc) = analyze(b, p, TRUE)
  BY DEF h264_parse
<1> HIDE DEF stream_b
<1>5. ASSUME NEW p, analyze(b, p, TRUE).ok
      PROVE  analyze(b, p, TRUE).avc
  BY <1>5, FormatKept DEF analyze
<1>6. QED
  BY <1>1, <1>2, <1>3, <1>4, <1>5

(* A header is found the first time and again, but not by a parser that    *)
(* knows the stream to be AVC.                                             *)
LEMMA HeaderFound ==
  ASSUME NEW s \in 1..Len(Streams), NEW part \in Parts, Streams[s].headers[part],
         NEW parsed \in BOOLEAN, NEW is_avc \in BOOLEAN,
         parsed /\ Streams[s].codec = "h264"
           => ~is_avc /\ ~Finds(s, part, "h264", FALSE, FALSE).avc
  PROVE  /\ Streams[s].codec \in Parsers
         /\ Finds(s, part, Streams[s].codec, parsed, is_avc).ok
         /\ Finds(s, part, Streams[s].codec, parsed, is_avc).size = Streams[s].size
<1> DEFINE codec == Streams[s].codec
<1>1. /\ codec \in Parsers /\ Finds(s, part, codec, FALSE, is_avc).ok
      /\ Finds(s, part, codec, FALSE, is_avc).size = Streams[s].size
  BY StreamsAssumption
<1>2. CASE ~parsed
  BY <1>1, <1>2
<1>3. CASE parsed /\ codec = "h264"
  <2>1. ~is_avc /\ ~Finds(s, part, "h264", FALSE, is_avc).avc
    BY <1>3
  <2>2. ~(part = "data" /\ ~Streams[s].has_data)
    BY <1>1 DEF Finds, Refused
  <2>3. \A p, a \in BOOLEAN : Finds(s, part, "h264", p, a) = h264_parse(Streams[s][part], p, a)
    BY <2>2 DEF Finds, Parse
  <2>4. Finds(s, part, "h264", TRUE, FALSE) = Finds(s, part, "h264", FALSE, is_avc)
    BY <1>1, <1>3, <2>1, <2>3, FormatFound
  <2>5. QED
    BY <1>1, <1>3, <2>1, <2>4
<1>4. CASE codec \in {"h263", "mpeg4"}
  <2>1. Finds(s, part, codec, parsed, is_avc) = Finds(s, part, codec, FALSE, is_avc)
    BY <1>4 DEF Finds, Parse
  <2>2. QED
    BY <1>1, <2>1
<1>5. QED
  BY <1>1, <1>2, <1>3, <1>4 DEF Parsers

-----------------------------------------------------------------------------
(* What the functions do to the fields of an element.                      *)
SameLife(v, w) ==
  /\ w.node = v.node /\ w.sink_caps = v.sink_caps /\ w.color_format = v.color_format
  /\ w.codec = v.codec /\ w.codec_data = v.codec_data /\ w.parse_func = v.parse_func
  /\ w.pre_process_buffer = v.pre_process_buffer

Sizing(r, func) ==
  /\ r.size \in Sizes /\ r.crop \in Sizes /\ r.avc \in BOOLEAN
  /\ \A k \in 1..2 : r.crop[k] <= r.size[k]
  /\ func = "h264" => \A k \in 1..2 : r.size[k] % 16 = 0

LEMMA FramesizeSet ==
  ASSUME NEW v, IsElement(v), NEW r, Sizing(r, v.parse_func)
  PROVE  LET w == set_framesize(v, r)
         IN  /\ IsElement(w) /\ SameLife(v, w) /\ w.size = r.size /\ w.parsed
             /\ v.parse_func = "h264" => w.is_avc = r.avc
             /\ v.tmp_caps = v.crop => w.tmp_caps = w.crop
<1> DEFINE w == set_framesize(v, r)
           crop == [k \in 1..2 |-> IF r.crop[k] # 0 THEN r.crop[k] ELSE r.size[k]]
<1>1. crop \in Sizes /\ \A k \in 1..2 : crop[k] <= r.size[k]
  BY DEF Sizing, Sizes
<1>2. /\ w.size = r.size /\ w.crop = crop /\ w.parsed = TRUE
      /\ w.is_avc = IF v.parse_func = "h264" THEN r.avc ELSE v.is_avc
      /\ w.output_buffer_size = FrameLen(r.size, v.color_format)
      /\ \/ w.tmp_caps = v.tmp_caps /\ v.crop = crop
         \/ w.tmp_caps = crop \/ v.tmp_caps = <<>>
      /\ DOMAIN w = Fields
  BY DEF set_framesize, IsElement, Fields
<1>3. SameLife(v, w)
  BY DEF set_framesize, IsElement, Fields, SameLife
<1>4. v.crop # <<>>
  BY DEF IsElement, Sizes
<1> HIDE DEF w, crop
<1>5. IsElement(w)
  <2>1. w.size \in Sizes /\ w.crop \in Sizes /\ \A k \in 1..2 : w.crop[k] <= w.size[k]
    BY <1>1, <1>2 DEF Sizing
  <2>2. w.output_buffer_size = FrameLen(w.size, w.color_format)
    BY <1>2, <1>3 DEF SameLife
  <2>3. w.parsed \in BOOLEAN /\ w.is_avc \in BOOLEAN
    BY <1>2 DEF Sizing, IsElement
  <2>4. /\ w.parse_func \in Parsers \cup {None} /\ w.codec_data \in 0..Len(Streams)
        /\ w.codec \in Parsers => w.parse_func = w.codec
    BY <1>3 DEF SameLife, IsElement
  <2>5. w.codec = "h264" => \A k \in 1..2 : w.size[k] % 16 = 0
    <3>1. w.codec = "h264" => v.parse_func = "h264"
      BY <1>3 DEF SameLife, IsElement, Parsers
    <3>2. QED
      BY <1>2, <3>1 DEF Sizing
  <2>6. QED
    BY <1>2, <2>1, <2>2, <2>3, <2>4, <2>5 DEF IsElement
<1>6. v.tmp_caps = v.crop => w.tmp_caps = w.crop
  BY <1>2, <1>4
<1>7. QED
  BY <1>2, <1>3, <1>5, <1>6 DEF w

(* A parser's result, if there is one, sizes the element.                  *)
LEMMA ResultSizes ==
  ASSUME NEW v, IsElement(v), NEW func \in Parsers \cup {None}, NEW s \in 0..Len(Streams),
         NEW part \in Parts, Result(v, func, s, part).ok
  PROVE  /\ s # 0 /\ func \in Parsers
         /\ Result(v, func, s, part) = Finds(s, part, func, v.parsed, v.is_avc)
         /\ Sizing(Result(v, func, s, part), func)
         /\ func = "h264" => ~(v.parsed /\ v.is_avc)
<1>1. v.parsed \in BOOLEAN /\ v.is_avc \in BOOLEAN
  BY DEF IsElement
<1>2. Result(v, func, s, part) = IF s = 0 \/ func = None THEN Refused
                                 ELSE Finds(s, part, func, v.parsed, v.is_avc)
  BY <1>1, ResultIs
<1>3. s # 0 /\ func # None
  BY <1>2 DEF Refused
<1>4. s \in 1..Len(Streams) /\ func \in Parsers
  <2>1. Len(Streams) \in Nat
    BY StreamsAssumption
  <2>2. QED
    BY <1>3, <2>1
<1> DEFINE f == Finds(s, part, func, v.parsed, v.is_avc)
<1>5. f.ok
  BY <1>2, <1>3
<1>6. /\ f.size \in Sizes /\ f.crop \in Sizes /\ f.avc \in BOOLEAN
      /\ \A k \in 1..2 : f.crop[k] <= f.size[k]
      /\ func = "h264" => ~(v.parsed /\ v.is_avc) /\ \A k \in 1..2 : f.size[k] % 16 = 0
  BY <1>1, <1>4, <1>5, ParsersRight
<1>7. QED
  BY <1>2, <1>3, <1>4, <1>6 DEF Sizing

(* Caps for an element without a node, or one that has to lose it.         *)
LEMMA CapsTaken ==
  ASSUME NEW v, IsElement(v), NEW new_caps \in Caps
  PROVE  LET w == sink_setcaps(v, new_caps)
             losing == v.node = NoNode \/ need_node_reset(v, new_caps)
         IN  /\ IsElement(w) /\ w.sink_caps = new_caps /\ w.color_format = asked
             /\ w.size = RoundUp(new_caps.size)
             /\ losing => /\ w.node = NoNode /\ w.codec = new_caps.codec /\ ~w.parsed
                        /\ w.tmp_caps = w.crop
             /\ ~losing => /\ w.node = v.node /\ w.codec = v.codec /\ w.parsed = v.parsed
                         /\ w.is_avc = v.is_avc
                         /\ w.pre_process_buffer = v.pre_process_buffer
             /\ new_caps.data = 0 => w.codec_data = v.codec_data
<1>0. new_caps.codec \in Codecs /\ new_caps.size \in Sizes /\ new_caps.data \in 0..Len(Streams)
  BY DEF Caps
<1> DEFINE u == IF need_node_reset(v, new_caps) THEN reinit(v) ELSE v
           x == IF u.node = NoNode THEN choose_codec(u, new_caps) ELSE u
           y == configure_caps(x, new_caps)
           z == [y EXCEPT !.sink_caps = new_caps]
           w == save_codec_data(z, new_caps)
           losing == v.node = NoNode \/ need_node_reset(v, new_caps)
<1>1. /\ DOMAIN u = Fields /\ u.codec = v.codec /\ u.parse_func = v.parse_func
      /\ u.parsed = v.parsed /\ u.is_avc = v.is_avc /\ u.codec_data = v.codec_data
      /\ u.pre_process_buffer = v.pre_process_buffer
      /\ u.node = IF need_node_reset(v, new_caps) THEN NoNode ELSE v.node
  BY DEF IsElement, Fields, reinit
<1>2. losing <=> u.node = NoNode
  BY <1>1
<1> HIDE DEF u
<1>3. /\ DOMAIN x = Fields /\ x.node = u.node /\ x.is_avc = u.is_avc
      /\ x.codec_data = u.codec_data /\ x.pre_process_buffer = u.pre_process_buffer
      /\ x.parsed = IF losing THEN FALSE ELSE u.parsed
      /\ x.codec = IF losing THEN new_caps.codec ELSE u.codec
      /\ x.parse_func = IF losing /\ new_caps.codec # "wmv" THEN new_caps.codec ELSE u.parse_func
  BY <1>1, <1>2 DEF choose_codec, Fields
<1> HIDE DEF x, losing
<1>4. /\ DOMAIN y = Fields /\ y.node = x.node /\ y.is_avc = x.is_avc
      /\ y.codec_data = x.codec_data /\ y.pre_process_buffer = x.pre_process_buffer
      /\ y.parsed = x.parsed /\ y.codec = x.codec /\ y.parse_func = x.parse_func
      /\ y.size = RoundUp(new_caps.size) /\ y.crop = new_caps.size /\ y.tmp_caps = new_caps.size
      /\ y.color_format = asked
      /\ y.output_buffer_size = FrameLen(RoundUp(new_caps.size), asked)
  BY <1>3 DEF configure_caps, Fields
<1> HIDE DEF y
<1>5. /\ DOMAIN z = Fields /\ z.sink_caps = new_caps /\ z.node = y.node /\ z.is_avc = y.is_avc
      /\ z.codec_data = y.codec_data /\ z.pre_process_buffer = y.pre_process_buffer
      /\ z.parsed = y.parsed /\ z.codec = y.codec /\ z.parse_func = y.parse_func
      /\ z.size = y.size /\ z.crop = y.crop /\ z.tmp_caps = y.tmp_caps
      /\ z.color_format = y.color_format /\ z.output_buffer_size = y.output_buffer_size
  BY <1>4 DEF Fields
<1> HIDE DEF z
<1>6. /\ DOMAIN w = Fields /\ w.sink_caps = z.sink_caps /\ w.node = z.node
      /\ w.is_avc = z.is_avc /\ w.pre_process_buffer = z.pre_process_buffer
      /\ w.codec_data = IF new_caps.data # 0 THEN new_caps.data ELSE z.codec_data
      /\ w.parsed = z.parsed /\ w.codec = z.codec /\ w.parse_func = z.parse_func
      /\ w.size = z.size /\ w.crop = z.crop /\ w.tmp_caps = z.tmp_caps
      /\ w.color_format = z.color_format /\ w.output_buffer_size = z.output_buffer_size
  BY <1>5 DEF save_codec_data, Fields
<1>7. w = sink_setcaps(v, new_caps)
  BY DEF sink_setcaps, w, z, y, x, u
<1> HIDE DEF w
<1>8. IsElement(w)
  <2>1. /\ RoundUp(new_caps.size) \in Sizes
        /\ \A k \in 1..2 : new_caps.size[k] <= RoundUp(new_caps.size)[k]
                           /\ RoundUp(new_caps.size)[k] % 16 = 0
    BY <1>0, Rounded
  <2>2. w.size = RoundUp(new_caps.size) /\ w.crop = new_caps.size
    BY <1>4, <1>5, <1>6
  <2>3. w.output_buffer_size = FrameLen(w.size, w.color_format)
    BY <1>4, <1>5, <1>6
  <2>4. w.parsed \in BOOLEAN /\ w.is_avc \in BOOLEAN
    <3>1. w.parsed \in {FALSE, v.parsed}
      BY <1>1, <1>3, <1>4, <1>5, <1>6
    <3>2. w.is_avc = v.is_avc
      BY <1>1, <1>3, <1>4, <1>5, <1>6
    <3>3. QED
      BY <3>1, <3>2 DEF IsElement
  <2>5. w.codec_data \in 0..Len(Streams)
    BY <1>0, <1>1, <1>3, <1>4, <1>5, <1>6 DEF IsElement
  <2>6. /\ w.parse_func \in Parsers \cup {None}
        /\ w.codec \in Parsers => w.parse_func = w.codec
    <3>1. /\ w.codec = IF losing THEN new_caps.codec ELSE v.codec
          /\ w.parse_func = IF losing /\ new_caps.codec # "wmv" THEN new_caps.codec ELSE v.parse_func
      BY <1>1, <1>3, <1>4, <1>5, <1>6
    <3>2. "wmv" \notin Parsers
      BY DEF Parsers
    <3>3. CASE losing /\ new_caps.codec # "wmv"
      BY <1>0, <3>1, <3>3 DEF Codecs
    <3>4. CASE losing /\ new_caps.codec = "wmv"
      BY <3>1, <3>2, <3>4 DEF IsElement
    <3>5. CASE ~losing
      BY <3>1, <3>5 DEF IsElement
    <3>6. QED
      BY <3>3, <3>4, <3>5
  <2>7. QED
    BY <1>0, <1>6, <2>1, <2>2, <2>3, <2>4, <2>5, <2>6 DEF IsElement
<1>9. /\ w.sink_caps = new_caps /\ w.color_format = asked /\ w.size = RoundUp(new_caps.size)
      /\ w.tmp_caps = w.crop /\ w.node = u.node
  BY <1>3, <1>4, <1>5, <1>6
<1>10. /\ w.codec = IF losing THEN new_caps.codec ELSE v.codec
       /\ w.parsed = IF losing THEN FALSE ELSE v.parsed
       /\ w.is_avc = v.is_avc /\ w.pre_process_buffer = v.pre_process_buffer
  BY <1>1, <1>3, <1>4, <1>5, <1>6
<1>11. new_caps.data = 0 => w.codec_data = v.codec_data
  BY <1>1, <1>3, <1>4, <1>5, <1>6
<1>12. /\ losing => w.node = NoNode
       /\ ~losing => w.node = v.node
  BY <1>1, <1>2, <1>9 DEF losing
<1>13. QED
  BY <1>7, <1>8, <1>9, <1>10, <1>11, <1>12 DEF losing

-----------------------------------------------------------------------------
(* The node takes the size of its header.                                  *)
LEMMA SizedRight ==
  ASSUME NEW v, IsElement(v), Waiting(v), NEW s \in 0..Len(Streams),
         s # 0 => Streams[s].codec = v.codec
  PROVE  LET w == sized(v, Result(v, v.parse_func, v.codec_data, "data"),
                        Result(v, v.parse_func, s, "frame"))
         IN  /\ IsElement(w) /\ SameLife(v, w) /\ Waiting(w)
             /\ v.codec_data # 0 /\ RightHeader(v.codec_data, "data", v)
                  => w.size = Streams[v.codec_data].size
             /\ v.codec_data = 0 /\ s # 0 /\ RightHeader(s, "frame", v)
                  => w.size = Streams[s].size
<1> DEFINE func == v.parse_func
           d == v.codec_data
           data == Result(v, func, d, "data")
           frame == Result(v, func, s, "frame")
           w == sized(v, data, frame)
<1>0. /\ func \in Parsers \cup {None} /\ d \in 0..Len(Streams)
      /\ v.parsed \in BOOLEAN /\ v.is_avc \in BOOLEAN
      /\ v.codec \in Parsers => func = v.codec
      /\ "data" \in Parts /\ "frame" \in Parts /\ Len(Streams) \in Nat
  BY StreamsAssumption DEF IsElement, Parts
<1>1. data.ok => /\ d # 0 /\ Sizing(data, func)
                 /\ data = Finds(d, "data", func, v.parsed, v.is_avc)
                 /\ func = "h264" => ~(v.parsed /\ v.is_avc)
  BY <1>0, ResultSizes
<1>2. frame.ok => /\ s # 0 /\ Sizing(frame, func)
                  /\ frame = Finds(s, "frame", func, v.parsed, v.is_avc)
                  /\ func = "h264" => ~(v.parsed /\ v.is_avc)
  BY <1>0, ResultSizes
<1>3. /\ data.ok => w = set_framesize(v, data)
      /\ ~data.ok /\ frame.ok => w = set_framesize(v, frame)
      /\ ~data.ok /\ ~frame.ok => w = v
  BY DEF sized
<1>a. data = IF d = 0 \/ func = None THEN Refused
             ELSE Finds(d, "data", func, v.parsed, v.is_avc)
  BY <1>0, ResultIs
<1>c. func \in Parsers \cup {None} /\ v.parsed \in BOOLEAN /\ v.is_avc \in BOOLEAN
      /\ "frame" \in Parts
  BY <1>0
<1>b. frame = IF s = 0 \/ func = None THEN Refused
              ELSE Finds(s, "frame", func, v.parsed, v.is_avc)
  BY <1>c, ResultIs
<1> HIDE DEF data, frame, w
<1>4. /\ IsElement(w) /\ SameLife(v, w) /\ w.tmp_caps = w.crop
      /\ data.ok => w.size = data.size /\ w.parsed /\ (func = "h264" => w.is_avc = data.avc)
      /\ ~data.ok /\ frame.ok =>
           w.size = frame.size /\ w.parsed /\ (func = "h264" => w.is_avc = frame.avc)
  <2>1. CASE data.ok
    <3>1. w = set_framesize(v, data) /\ Sizing(data, func)
      BY <1>1, <1>3, <2>1
    <3>2. QED
      BY <2>1, <3>1, FramesizeSet DEF Waiting
  <2>2. CASE ~data.ok /\ frame.ok
    <3>1. w = set_framesize(v, frame) /\ Sizing(frame, func)
      BY <1>2, <1>3, <2>2
    <3>2. QED
      BY <2>2, <3>1, FramesizeSet DEF Waiting
  <2>3. CASE ~data.ok /\ ~frame.ok
    BY <1>3, <2>3 DEF Waiting, SameLife
  <2>4. QED
    BY <2>1, <2>2, <2>3
<1>5. w.codec = v.codec /\ w.codec_data = d
  BY <1>4 DEF SameLife
<1>d. ASSUME NEW e \in 1..Len(Streams), Streams[e].headers["data"],
             v.parsed /\ Streams[e].codec = "h264"
               => ~v.is_avc /\ ~Finds(e, "data", "h264", FALSE, FALSE).avc
      PROVE  /\ Finds(e, "data", Streams[e].codec, v.parsed, v.is_avc).ok
             /\ Finds(e, "data", Streams[e].codec, v.parsed, v.is_avc).size = Streams[e].size
  <2>1. v.parsed \in BOOLEAN /\ v.is_avc \in BOOLEAN /\ "data" \in Parts
    BY <1>0
  <2>2. QED
    BY <1>d, <2>1, HeaderFound
<1>e. ASSUME NEW e \in 1..Len(Streams), Streams[e].headers["frame"],
             v.parsed /\ Streams[e].codec = "h264"
               => ~v.is_avc /\ ~Finds(e, "frame", "h264", FALSE, FALSE).avc
      PROVE  /\ Finds(e, "frame", Streams[e].codec, v.parsed, v.is_avc).ok
             /\ Finds(e, "frame", Streams[e].codec, v.parsed, v.is_avc).size = Streams[e].size
  <2>1. v.parsed \in BOOLEAN /\ v.is_avc \in BOOLEAN /\ "frame" \in Parts
    BY <1>0
  <2>2. QED
    BY <1>e, <2>1, HeaderFound
<1>6. ASSUME d # 0, RightHeader(d, "data", v)
      PROVE  /\ w.size = Streams[d].size
             /\ w.parsed /\ v.codec = "h264" /\ ~w.is_avc =>
                  LET found == Finds(d, "data", "h264", TRUE, FALSE)
                  IN  found.ok /\ found.size = Streams[d].size
  <2>0. d \in 1..Len(Streams) /\ Streams[d].headers["data"] /\ Streams[d].codec = v.codec
    BY <1>0, <1>6 DEF RightHeader
  <2>1. v.codec \in Parsers
    BY <1>0, <2>0, HeaderFound
  <2>2. func = v.codec /\ func # None
    BY <1>0, <2>1 DEF Parsers, None
  <2>3. data = Finds(d, "data", v.codec, v.parsed, v.is_avc)
    BY <1>6, <1>a, <2>2
  <2>4. CASE ~v.parsed
    <3>0. /\ Finds(d, "data", Streams[d].codec, v.parsed, v.is_avc).ok
          /\ Finds(d, "data", Streams[d].codec, v.parsed, v.is_avc).size = Streams[d].size
      BY <1>d, <2>0, <2>4
    <3>1. data.ok /\ data.size = Streams[d].size
      BY <2>0, <2>3, <3>0
    <3>2. w.size = Streams[d].size
      BY <1>4, <3>1
    <3>3. ASSUME v.codec = "h264", ~w.is_avc
          PROVE  LET found == Finds(d, "data", "h264", TRUE, FALSE)
                 IN  found.ok /\ found.size = Streams[d].size
      <4>1. ~data.avc
        BY <1>4, <2>2, <3>1, <3>3
      <4>2. ~Finds(d, "data", "h264", FALSE, FALSE).avc
        <5>1. \A a \in BOOLEAN : Finds(d, "data", "h264", FALSE, a)
                                   = Finds(d, "data", "h264", FALSE, FALSE)
          BY DEF Finds, Parse, h264_parse
        <5>2. QED
          BY <1>0, <2>3, <2>4, <3>3, <4>1, <5>1
      <4>3. Streams[d].codec = "h264" /\ TRUE \in BOOLEAN /\ FALSE \in BOOLEAN
        BY <2>0, <3>3
      <4>4. /\ Finds(d, "data", Streams[d].codec, TRUE, FALSE).ok
            /\ Finds(d, "data", Streams[d].codec, TRUE, FALSE).size = Streams[d].size
        BY <1>0, <2>0, <4>2, <4>3, HeaderFound
      <4>5. QED
        BY <4>3, <4>4
    <3>4. QED
      BY <3>2, <3>3
  <2>5. CASE v.parsed /\ v.codec = "h264"
    <3>1. /\ v.size = Streams[d].size
          /\ ~v.is_avc => LET found == Finds(d, "data", "h264", TRUE, FALSE)
                          IN  found.ok /\ found.size = Streams[d].size
      BY <1>6, <2>5 DEF Waiting, ParsedData
    <3>2. CASE v.is_avc
      <4>1. w = v
        BY <1>1, <1>2, <1>3, <2>2, <2>5, <3>2
      <4>2. QED
        BY <3>1, <3>2, <4>1
    <3>3. CASE ~v.is_avc
      <4>1. data = Finds(d, "data", "h264", TRUE, FALSE)
        BY <1>0, <2>3, <2>5, <3>3
      <4>2. data.ok /\ data.size = Streams[d].size
        BY <3>1, <3>3, <4>1
      <4>3. QED
        BY <1>4, <4>1, <4>2
    <3>4. QED
      BY <3>2, <3>3
  <2>6. CASE v.codec # "h264"
    <3>0. /\ Finds(d, "data", Streams[d].codec, v.parsed, v.is_avc).ok
          /\ Finds(d, "data", Streams[d].codec, v.parsed, v.is_avc).size = Streams[d].size
      BY <1>d, <2>0, <2>6
    <3>1. data.ok /\ data.size = Streams[d].size
      BY <2>0, <2>3, <3>0
    <3>2. QED
      BY <1>4, <2>6, <3>1
  <2>7. QED
    BY <2>4, <2>5, <2>6
<1>7. ASSUME d = 0
      PROVE  /\ w.parsed /\ v.codec = "h264" => ~w.is_avc
             /\ s # 0 /\ RightHeader(s, "frame", v) => w.size = Streams[s].size
  <2>1. ~data.ok
    BY <1>1, <1>7
  <2>2. v.parsed /\ v.codec = "h264" => ~v.is_avc
    BY <1>7 DEF Waiting, ParsedData
  <2>3. ASSUME v.codec = "h264", frame.ok
        PROVE  ~frame.avc
    <3>1. s \in 1..Len(Streams) /\ Streams[s].codec = "h264" /\ func = "h264"
      BY <1>0, <1>2, <2>3 DEF Parsers
    <3>2. frame = Finds(s, "frame", "h264", v.parsed, v.is_avc)
      BY <1>2, <2>3, <3>1
    <3>3. CASE ~v.parsed
      BY <1>0, <2>3, <3>1, <3>2, <3>3, StreamsAssumption
    <3>4. CASE v.parsed
      <4>1. frame = Finds(s, "frame", "h264", TRUE, FALSE)
        BY <1>0, <2>2, <2>3, <3>2, <3>4
      <4>2. Finds(s, "frame", "h264", TRUE, FALSE) = h264_parse(Streams[s]["frame"], TRUE, FALSE)
        BY DEF Finds, Parse
      <4>3. QED
        BY <2>3, <4>1, <4>2, FormatFound
    <3>5. QED
      BY <3>3, <3>4
  <2>4. w.parsed /\ v.codec = "h264" => ~w.is_avc
    <3>1. CASE frame.ok
      BY <1>0, <1>4, <2>1, <2>3, <3>1 DEF Parsers
    <3>2. CASE ~frame.ok
      BY <1>3, <2>1, <2>2, <3>2
    <3>3. QED
      BY <3>1, <3>2
  <2>5. ASSUME s # 0, RightHeader(s, "frame", v)
        PROVE  w.size = Streams[s].size
    <3>1. s \in 1..Len(Streams) /\ Streams[s].headers["frame"] /\ Streams[s].codec = v.codec
      BY <1>0, <2>5 DEF RightHeader
    <3>2. v.codec \in Parsers
      BY <1>0, <3>1, HeaderFound
    <3>3. func = v.codec /\ func # None
      BY <1>0, <3>2 DEF Parsers, None
    <3>4. frame = Finds(s, "frame", v.codec, v.parsed, v.is_avc)
      BY <1>b, <2>5, <3>3
    <3>5. v.codec = "h264" => ~Finds(s, "frame", "h264", FALSE, FALSE).avc
      <4>1. v.codec = "h264" => Finds(s, "frame", "h264", FALSE, FALSE).ok
        BY <1>0, <3>1, HeaderFound
      <4>2. QED
        BY <1>0, <3>1, <4>1, StreamsAssumption
    <3>a. v.parsed /\ Streams[s].codec = "h264"
             => ~v.is_avc /\ ~Finds(s, "frame", "h264", FALSE, FALSE).avc
      BY <2>2, <3>1, <3>5
    <3>b. /\ Finds(s, "frame", Streams[s].codec, v.parsed, v.is_avc).ok
          /\ Finds(s, "frame", Streams[s].codec, v.parsed, v.is_avc).size = Streams[s].size
      BY <1>e, <3>1, <3>a
    <3>6. frame.ok /\ frame.size = Streams[s].size
      BY <3>1, <3>4, <3>b
    <3>7. QED
      BY <1>4, <2>1, <3>6
  <2>6. QED
    BY <2>4, <2>5
<1>8. Waiting(w)
  <2>1. ParsedData(w)
    <3>1. CASE d = 0
      BY <1>5, <1>7, <3>1 DEF ParsedData
    <3>2. CASE d # 0
      <4>1. RightHeader(d, "data", w) <=> RightHeader(d, "data", v)
        BY <1>5 DEF RightHeader
      <4>2. QED
        BY <1>5, <1>6, <3>2, <4>1 DEF ParsedData
    <3>3. QED
      BY <3>1, <3>2
  <2>2. QED
    BY <1>4, <2>1 DEF Waiting
<1>9. QED
  BY <1>4, <1>6, <1>7, <1>8 DEF w, data, frame

LEMMA NodeCreated ==
  ASSUME NEW v, DOMAIN v = Fields, NEW s
  PROVE  LET w == create_node(v, s)
         IN  /\ DOMAIN w = Fields
             /\ w.node = [size |-> v.size, color |-> v.color_format,
                          head |-> IF v.codec_data # 0 THEN <<v.codec_data, "data">>
                                   ELSE <<s, "frame">>]
             /\ v.codec = "h264" => w.pre_process_buffer = "h264"
             /\ w.codec_data = 0
             /\ w.sink_caps = v.sink_caps /\ w.src_caps = v.src_caps /\ w.size = v.size
             /\ w.crop = v.crop /\ w.output_buffer_size = v.output_buffer_size
             /\ w.color_format = v.color_format /\ w.codec = v.codec
             /\ w.parse_func = v.parse_func /\ w.parsed = v.parsed /\ w.is_avc = v.is_avc
<1> DEFINE n == [size |-> v.size, color |-> v.color_format,
                 head |-> IF v.codec_data # 0 THEN <<v.codec_data, "data">>
                          ELSE <<s, "frame">>]
           x == [v EXCEPT !.node = n,
                          !.pre_process_buffer = IF v.codec = "h264" THEN "h264" ELSE @,
                          !.codec_data = 0]
<1>1. create_node(v, s) = handle_extra_data(x, v.codec_data)
  BY DEF create_node
<1> HIDE DEF n
<1>2. /\ DOMAIN x = Fields /\ x.node = n /\ x.codec_data = 0
      /\ v.codec = "h264" => x.pre_process_buffer = "h264"
      /\ x.sink_caps = v.sink_caps /\ x.src_caps = v.src_caps /\ x.size = v.size
      /\ x.crop = v.crop /\ x.output_buffer_size = v.output_buffer_size
      /\ x.color_format = v.color_format /\ x.codec = v.codec
      /\ x.parse_func = v.parse_func /\ x.parsed = v.parsed /\ x.is_avc = v.is_avc
  BY DEF Fields
<1> HIDE DEF x
<1>3. PICK lol : create_node(v, s) = x \/ create_node(v, s) = [x EXCEPT !.lol = lol]
  BY <1>1 DEF handle_extra_data
<1> DEFINE w == create_node(v, s)
<1>4. /\ DOMAIN w = Fields /\ w.node = x.node /\ w.codec_data = x.codec_data
      /\ w.pre_process_buffer = x.pre_process_buffer
      /\ w.sink_caps = x.sink_caps /\ w.src_caps = x.src_caps /\ w.size = x.size
      /\ w.crop = x.crop /\ w.output_buffer_size = x.output_buffer_size
      /\ w.color_format = x.color_format /\ w.codec = x.codec
      /\ w.parse_func = x.parse_func /\ w.parsed = x.parsed /\ w.is_avc = x.is_avc
  <2>1. CASE w = x
    BY <1>2, <2>1
  <2>2. CASE w = [x EXCEPT !.lol = lol]
    BY <1>2, <2>2 DEF Fields
  <2>3. QED
    BY <1>3, <2>1, <2>2
<1> HIDE DEF w
<1>5. /\ DOMAIN w = Fields /\ w.node = n /\ w.codec_data = 0
      /\ v.codec = "h264" => w.pre_process_buffer = "h264"
      /\ w.sink_caps = v.sink_caps /\ w.src_caps = v.src_caps /\ w.size = v.size
      /\ w.crop = v.crop /\ w.output_buffer_size = v.output_buffer_size
      /\ w.color_format = v.color_format /\ w.codec = v.codec
      /\ w.parse_func = v.parse_func /\ w.parsed = v.parsed /\ w.is_avc = v.is_avc
  BY <1>2, <1>4
<1>6. QED
  BY <1>5 DEF n, w

LEMMA NodeMade ==
  ASSUME NEW v, IsElement(v), v.node = NoNode, Waiting(v), NEW s \in 0..Len(Streams),
         s # 0 => Streams[s].codec = v.codec, NEW fails \in BOOLEAN
  PROVE  LET w == init_node(v, s, fails)
         IN  /\ IsElement(w) /\ w.sink_caps = v.sink_caps
             /\ w.color_format = v.color_format /\ w.codec = v.codec
             /\ w.node = NoNode => Waiting(w)
             /\ w.node # NoNode =>
                  /\ NodeFits(w) /\ NodeSized(w) /\ w.src_caps = w.crop
                  /\ w.node.head[2] = "frame" /\ s # 0 /\ RightHeader(s, "frame", w)
                       => w.node.size = Streams[s].size
<1> DEFINE x == sized(v, Result(v, v.parse_func, v.codec_data, "data"),
                      Result(v, v.parse_func, s, "frame"))
           y == [x EXCEPT !.src_caps = x.tmp_caps]
           w == init_node(v, s, fails)
           d == v.codec_data
<1>1. /\ IsElement(x) /\ SameLife(v, x) /\ Waiting(x)
      /\ d # 0 /\ RightHeader(d, "data", v) => x.size = Streams[d].size
      /\ d = 0 /\ s # 0 /\ RightHeader(s, "frame", v) => x.size = Streams[s].size
  BY SizedRight
<1>2. w = IF fails \/ y.output_buffer_size = 0 THEN y ELSE create_node(y, s)
  BY DEF init_node, started
<1> HIDE DEF x
<1>3. /\ DOMAIN y = Fields /\ y.node = NoNode /\ y.sink_caps = v.sink_caps
      /\ y.color_format = v.color_format /\ y.codec = v.codec /\ y.codec_data = d
      /\ y.parse_func = v.parse_func /\ y.src_caps = x.crop /\ y.tmp_caps = x.tmp_caps
      /\ y.size = x.size /\ y.crop = x.crop /\ y.parsed = x.parsed /\ y.is_avc = x.is_avc
      /\ y.output_buffer_size = x.output_buffer_size
  <2>1. /\ DOMAIN x = Fields /\ x.tmp_caps = x.crop /\ x.node = NoNode
        /\ x.sink_caps = v.sink_caps /\ x.color_format = v.color_format
        /\ x.codec = v.codec /\ x.codec_data = d /\ x.parse_func = v.parse_func
    BY <1>1 DEF IsElement, SameLife, Waiting
  <2>2. QED
    BY <2>1 DEF Fields
<1>a. x.color_format = v.color_format /\ x.codec = v.codec /\ x.codec_data = d
      /\ x.parse_func = v.parse_func
  BY <1>1 DEF SameLife
<1> HIDE DEF y, w
<1>4. IsElement(y)
  BY <1>1, <1>3, <1>a DEF IsElement
<1>5. Waiting(y)
  <2>1. y.tmp_caps = y.crop
    BY <1>1, <1>3 DEF Waiting
  <2>2. ParsedData(y)
    <3>1. y.parsed = x.parsed /\ y.is_avc = x.is_avc /\ y.size = x.size
          /\ y.codec = x.codec /\ y.codec_data = x.codec_data
      BY <1>3, <1>a
    <3>2. RightHeader(y.codec_data, "data", y) <=> RightHeader(x.codec_data, "data", x)
      BY <3>1 DEF RightHeader
    <3>3. ParsedData(x)
      BY <1>1 DEF Waiting
    <3>4. QED
      BY <3>1, <3>2, <3>3 DEF ParsedData
  <2>3. QED
    BY <2>1, <2>2 DEF Waiting
<1>6. CASE fails \/ y.output_buffer_size = 0
  <2>1. w = y
    BY <1>2, <1>6
  <2>2. QED
    BY <1>3, <1>4, <1>5, <2>1 DEF w
<1>7. CASE ~(fails \/ y.output_buffer_size = 0)
  <2>0. w = create_node(y, s)
    BY <1>2, <1>7
  <2>1. /\ DOMAIN w = Fields
        /\ w.node = [size |-> y.size, color |-> y.color_format,
                     head |-> IF y.codec_data # 0 THEN <<y.codec_data, "data">>
                              ELSE <<s, "frame">>]
        /\ y.codec = "h264" => w.pre_process_buffer = "h264"
        /\ w.codec_data = 0
        /\ w.sink_caps = y.sink_caps /\ w.src_caps = y.src_caps /\ w.size = y.size
        /\ w.crop = y.crop /\ w.output_buffer_size = y.output_buffer_size
        /\ w.color_format = y.color_format /\ w.codec = y.codec
        /\ w.parse_func = y.parse_func /\ w.parsed = y.parsed /\ w.is_avc = y.is_avc
    BY <1>3, <2>0, NodeCreated
  <2>2. /\ w.node.size = y.size /\ w.node.color = y.color_format
        /\ w.node.head = IF d # 0 THEN <<d, "data">> ELSE <<s, "frame">>
        /\ w.node # NoNode
    BY <1>3, <2>1 DEF NoNode
  <2>3. /\ y.size \in Sizes /\ y.size[1] # 0 /\ y.size[2] # 0
        /\ \A k \in 1..2 : y.size[k] <= y.size[k]
    <3>1. y.size \in Sizes /\ FrameLen(y.size, y.color_format) # 0
      BY <1>4, <1>7 DEF IsElement
    <3>2. \A k \in 1..2 : y.size[k] \in Nat
      BY <3>1 DEF Sizes
    <3>3. QED
      BY <3>1, <3>2, FrameLenZero
  <2>4. IsElement(w)
    <3>1. 0 \in 0..Len(Streams)
      BY StreamsAssumption
    <3>2. QED
      BY <1>4, <2>1, <3>1 DEF IsElement
  <2>5. NodeFits(w)
    BY <2>1, <2>2, <2>3 DEF NodeFits
  <2>6. w.codec = v.codec /\ w.size = x.size /\ w.node.size = x.size
    BY <1>3, <2>1, <2>2
  <2>7. w.src_caps = w.crop
    BY <1>3, <2>1
  <2>8. CASE d # 0
    <3>1. w.node.head[1] = d /\ w.node.head[2] = "data"
      BY <2>2, <2>8
    <3>2. RightHeader(d, "data", w) <=> RightHeader(d, "data", v)
      BY <2>6 DEF RightHeader
    <3>3. NodeSized(w)
      BY <1>1, <2>6, <2>8, <3>1, <3>2 DEF NodeSized
    <3>4. QED
      BY <1>3, <2>1, <2>2, <2>4, <2>5, <2>7, <3>1, <3>3 DEF w
  <2>9. CASE d = 0
    <3>1. w.node.head[1] = s /\ w.node.head[2] = "frame"
      BY <2>2, <2>9
    <3>2. RightHeader(s, "frame", w) <=> RightHeader(s, "frame", v)
      BY <2>6 DEF RightHeader
    <3>3. s # 0 /\ RightHeader(s, "frame", w) => w.node.size = Streams[s].size
      BY <1>1, <2>6, <2>9, <3>2
    <3>4. w.codec = "h264" => ~(w.parsed /\ w.is_avc)
      BY <1>3, <1>5, <2>1, <2>9 DEF Waiting, ParsedData
    <3>5. NodeSized(w)
      BY <3>1, <3>3, <3>4 DEF NodeSized
    <3>6. QED
      BY <1>3, <2>1, <2>2, <2>4, <2>5, <2>7, <3>3, <3>5 DEF w
  <2>10. QED
    BY <2>8, <2>9
<1>8. QED
  BY <1>6, <1>7

(* A header of another size in a buffer makes the element lose its node.   *)
LEMMA HeaderFollowed ==
  ASSUME DecoderInv, stream # 0, NEW s \in 0..Len(Streams)
  PROVE  LET v == check_stream_params(el, s)
         IN  v = el \/ /\ IsElement(v) /\ v.node = NoNode /\ Waiting(v)
                       /\ v.sink_caps \in Caps /\ v.sink_caps.codec = el.sink_caps.codec
                       /\ v.codec = el.sink_caps.codec /\ v.color_format = asked
<1> DEFINE r == Result(el, "h264", s, "frame")
           new_caps == [el.sink_caps EXCEPT !.size = r.size]
           v == check_stream_params(el, s)
<1>0. IsElement(el) /\ el.sink_caps \in Caps /\ "h264" \in Parsers \cup {None} /\ "frame" \in Parts
  BY DEF DecoderInv, Parsers, Parts
<1>1. CASE r.ok /\ r.size # el.size /\ el.size[1] # 0 /\ el.size[2] # 0
  <2>1. v = sink_setcaps(el, new_caps)
    BY <1>1 DEF check_stream_params, follow_header
  <2>2. r.size \in Sizes
    BY <1>0, <1>1, ResultSizes DEF Sizing
  <2> HIDE DEF r
  <2>3. new_caps \in Caps /\ new_caps.size = r.size /\ new_caps.codec = el.sink_caps.codec
    BY <1>0, <2>2 DEF Caps
  <2> HIDE DEF new_caps
  <2>4. el.node = NoNode \/ need_node_reset(el, new_caps)
    BY <1>1, <2>3 DEF need_node_reset
  <2>5. /\ IsElement(v) /\ v.sink_caps = new_caps /\ v.color_format = asked
        /\ v.node = NoNode /\ v.codec = new_caps.codec /\ ~v.parsed /\ v.tmp_caps = v.crop
    BY <1>0, <2>1, <2>3, <2>4, CapsTaken
  <2>6. Waiting(v)
    BY <2>5 DEF Waiting, ParsedData
  <2>7. QED
    BY <2>3, <2>5, <2>6
<1>2. CASE ~(r.ok /\ r.size # el.size /\ el.size[1] # 0 /\ el.size[2] # 0)
  BY <1>2 DEF check_stream_params, follow_header
<1>3. QED
  BY <1>1, <1>2

(* A node that is not made for codec_data is kept only by a header of its  *)
(* size.                                                                   *)
LEMMA HeaderOfSize ==
  ASSUME DecoderInv, HasNode, el.codec = "h264", el.node.head[2] = "frame",
         NEW s \in 1..Len(Streams), RightHeader(s, "frame", el),
         check_stream_params(el, s) = el
  PROVE  el.node.size = Streams[s].size
<1> DEFINE r == Result(el, "h264", s, "frame")
<1>0. /\ IsElement(el) /\ NodeFits(el) /\ NodeSized(el) /\ stream # 0
      /\ el.parsed \in BOOLEAN /\ el.is_avc \in BOOLEAN
      /\ "h264" \in Parsers \cup {None} /\ "frame" \in Parts /\ s \in 0..Len(Streams)
  BY StreamsAssumption DEF DecoderInv, IsElement, Parsers, Parts
<1>1. Streams[s].codec = "h264" /\ Streams[s].headers["frame"]
  BY DEF RightHeader
<1>2. ~Finds(s, "frame", "h264", FALSE, FALSE).avc
  <2>1. Finds(s, "frame", "h264", FALSE, FALSE).ok
    BY <1>0, <1>1, HeaderFound
  <2>2. QED
    BY <1>0, <1>1, <2>1, StreamsAssumption
<1>3. el.parsed => ~el.is_avc
  BY <1>0 DEF NodeSized
<1>4. /\ Finds(s, "frame", Streams[s].codec, el.parsed, el.is_avc).ok
      /\ Finds(s, "frame", Streams[s].codec, el.parsed, el.is_avc).size = Streams[s].size
  <2>1. /\ el.parsed \in BOOLEAN /\ el.is_avc \in BOOLEAN /\ "frame" \in Parts
        /\ Streams[s].headers["frame"]
    BY <1>0, <1>1
  <2>2. el.parsed /\ Streams[s].codec = "h264"
          => ~el.is_avc /\ ~Finds(s, "frame", "h264", FALSE, FALSE).avc
    BY <1>2, <1>3
  <2> HIDE DEF r
  <2>3. QED
    BY <2>1, <2>2, HeaderFound
<1>5. r = Finds(s, "frame", "h264", el.parsed, el.is_avc)
  <2>1. s # 0 /\ "h264" # None
    BY DEF None
  <2>2. QED
    BY <1>0, <2>1, ResultIs
<1>6. r.ok /\ r.size = Streams[s].size
  BY <1>1, <1>4, <1>5
<1>7. el.node.size = el.size /\ el.size[1] # 0 /\ el.size[2] # 0
  BY <1>0 DEF NodeFits
<1>8. ASSUME r.size # el.size
      PROVE  FALSE
  <2>1. el = sink_setcaps(el, [el.sink_caps EXCEPT !.size = r.size])
    BY <1>6, <1>7, <1>8 DEF check_stream_params, follow_header
  <2> DEFINE new_caps == [el.sink_caps EXCEPT !.size = r.size]
  <2>2. r.size \in Sizes
    BY <1>0, <1>6, ResultSizes DEF Sizing
  <2> HIDE DEF r
  <2>3. new_caps \in Caps /\ new_caps.size = r.size
    BY <1>0, <2>2 DEF Caps, DecoderInv
  <2>4. need_node_reset(el, new_caps)
    BY <1>8, <2>3 DEF need_node_reset, HasNode
  <2>5. el = sink_setcaps(el, new_caps)
    BY <2>1
  <2> HIDE DEF new_caps
  <2>6. el.node = NoNode
    BY <1>0, <2>3, <2>4, <2>5, CapsTaken
  <2>7. QED
    BY <2>6 DEF HasNode
<1>9. QED
  BY <1>6, <1>7, <1>8

-----------------------------------------------------------------------------
LEMMA DecoderInit == Init => DecoderInv
<1> SUFFICES ASSUME Init PROVE DecoderInv
  OBVIOUS
<1>1. el = [node |-> NoNode, sink_caps |-> <<>>, tmp_caps |-> <<>>, src_caps |-> <<>>,
            size |-> <<0, 0>>, crop |-> <<0, 0>>, output_buffer_size |-> 0,
            color_format |-> None, codec |-> None, codec_data |-> 0,
            parse_func |-> None, parsed |-> FALSE, is_avc |-> FALSE, lol |-> 0,
            pre_process_buffer |-> None]
  BY DEF Init
<1>2. stream = 0 /\ last = 0 /\ ~HasNode
  BY <1>1 DEF Init, HasNode
<1>3. 0 \in 0..Len(Streams)
  BY StreamsAssumption
<1>4. DOMAIN el = Fields
  BY <1>1 DEF Fields
<1>5. <<0, 0>> \in Sizes
  BY DEF Sizes
<1>6. FrameLen(<<0, 0>>, None) = 0
  BY DEF FrameLen, None
<1>7. None \notin Parsers /\ None # "h264"
  BY DEF None, Parsers
<1>8. IsElement(el)
  BY <1>1, <1>3, <1>4, <1>5, <1>6, <1>7 DEF IsElement
<1>9. QED
  BY <1>2, <1>3, <1>8 DEF DecoderInv, FollowsStream

LEMMA StreamIs ==
  ASSUME NEW s \in 1..Len(Streams)
  PROVE  Streams[s].codec \in Codecs /\ Streams[s].caps \in Sizes
<1> DEFINE stream_set == [codec : Codecs, caps : Sizes, size : Sizes, has_data : BOOLEAN,
                          data : Seq({0, 1}), frame : Seq({0, 1}),
                          headers : [data : BOOLEAN, frame : BOOLEAN]]
<1>1. Streams \in Seq(stream_set)
  BY StreamsAssumption
<1>2. Streams[s] \in stream_set => Streams[s].codec \in Codecs /\ Streams[s].caps \in Sizes
  OBVIOUS
<1> HIDE DEF stream_set
<1>3. QED
  BY <1>1, <1>2

(* Caps of any stream.                                                     *)
LEMMA SetCapsStep ==
  ASSUME DecoderInv, NEW s \in 1..Len(Streams), SetCaps(s)
  PROVE  DecoderInv'
<1> DEFINE new_caps == CapsOf(s)
           losing == el.node = NoNode \/ need_node_reset(el, new_caps)
<1>1. new_caps \in Caps /\ new_caps.codec = Streams[s].codec
  <2>1. Streams[s].codec \in Codecs /\ Streams[s].caps \in Sizes
    BY StreamIs
  <2>2. 0 \in 0..Len(Streams) /\ s \in 0..Len(Streams)
    BY StreamsAssumption
  <2>3. QED
    BY <2>1, <2>2 DEF CapsOf, Caps
<1>2. /\ el' = sink_setcaps(el, new_caps) /\ stream' = s /\ last' = last /\ asked' = asked
      /\ kept' = (el'.node # NoNode)
  BY DEF SetCaps
<1> HIDE DEF new_caps
<1>3. /\ IsElement(el') /\ el'.sink_caps = new_caps /\ el'.color_format = asked
      /\ el'.size = RoundUp(new_caps.size)
      /\ losing => /\ el'.node = NoNode /\ el'.codec = new_caps.codec /\ ~el'.parsed
                 /\ el'.tmp_caps = el'.crop
      /\ ~losing => /\ el'.node = el.node /\ el'.codec = el.codec /\ el'.parsed = el.parsed
                  /\ el'.is_avc = el.is_avc
                  /\ el'.pre_process_buffer = el.pre_process_buffer
  <2>1. IsElement(el)
    BY DEF DecoderInv
  <2>2. QED
    BY <1>1, <1>2, <2>1, CapsTaken
<1>4. /\ stream' \in 0..Len(Streams) /\ last' \in 0..Len(Streams) /\ stream' # 0
  BY <1>2, StreamsAssumption DEF DecoderInv
<1>5. /\ el'.color_format = asked' /\ el'.sink_caps \in Caps
      /\ el'.sink_caps.codec = Streams[stream'].codec
  BY <1>1, <1>2, <1>3
<1>6. CASE losing
  <2>1. el'.node = NoNode /\ ~HasNode'
    BY <1>3, <1>6 DEF HasNode
  <2>2. Waiting(el') /\ el'.codec = Streams[stream'].codec
    BY <1>1, <1>2, <1>3, <1>6 DEF Waiting, ParsedData
  <2>3. FollowsStream'
    BY <2>1 DEF FollowsStream
  <2>4. QED
    BY <1>3, <1>4, <1>5, <2>1, <2>2, <2>3 DEF DecoderInv
<1>7. CASE ~losing
  <2>1. /\ HasNode /\ NodeFits(el) /\ NodeSized(el) /\ IsElement(el) /\ FollowsStream
        /\ el.color_format = asked
    BY <1>7 DEF DecoderInv, HasNode
  <2>2. /\ el'.node = el.node /\ el'.codec = el.codec /\ el'.parsed = el.parsed
        /\ el'.is_avc = el.is_avc /\ el'.pre_process_buffer = el.pre_process_buffer
    BY <1>3, <1>7
  <2>3. HasNode' /\ kept'
    BY <1>2, <2>1, <2>2 DEF HasNode
  <2>4. /\ el.size \in Sizes /\ el'.size = RoundUp(el.size)
    BY <1>3, <1>7, <2>1 DEF need_node_reset, IsElement
  <2>5. \A k \in 1..2 : /\ el.size[k] \in Nat /\ el'.size[k] \in Nat
                        /\ el.size[k] <= el'.size[k]
    BY <2>4, Rounded DEF Sizes
  <2>6. el.codec = "h264" => el'.size = el.size
    BY <2>1, <2>4, RoundedWhole DEF IsElement
  <2>7. NodeFits(el')
    <3>1. /\ el'.node.color = el'.color_format /\ el'.node.size \in Sizes
          /\ el'.codec = "h264" => /\ el'.node.size = el'.size
                                   /\ el'.pre_process_buffer = "h264"
      BY <1>3, <2>1, <2>2, <2>6 DEF NodeFits
    <3>2. \A k \in 1..2 : el.node.size[k] \in Nat /\ el.node.size[k] <= el.size[k]
      BY <2>1 DEF NodeFits, Sizes
    <3>3. \A k \in 1..2 : el'.node.size[k] <= el'.size[k]
      <4> SUFFICES ASSUME NEW k \in 1..2 PROVE el'.node.size[k] <= el'.size[k]
        OBVIOUS
      <4> DEFINE a == el.node.size[k]
                 b == el.size[k]
                 c == el'.size[k]
      <4>1. a \in Nat /\ b \in Nat /\ c \in Nat /\ a <= b /\ b <= c
        BY <2>5, <3>2
      <4>2. el'.node.size[k] = a
        BY <2>2
      <4> HIDE DEF a, b, c
      <4>3. a <= c
        BY <4>1
      <4>4. QED
        BY <4>2, <4>3 DEF c
    <3>4. el.size[1] # 0 /\ el.size[2] # 0
      BY <2>1 DEF NodeFits
    <3>5. el'.size[1] # 0 /\ el'.size[2] # 0
      BY <2>5, <3>4
    <3>6. QED
      BY <3>1, <3>3, <3>5 DEF NodeFits
  <2>8. NodeSized(el')
    BY <2>1, <2>2 DEF NodeSized, RightHeader
  <2>9. FollowsStream'
    BY <1>2, <2>1, <2>2 DEF FollowsStream, HasNode
  <2>10. QED
    BY <1>3, <1>4, <1>5, <2>3, <2>7, <2>8, <2>9 DEF DecoderInv
<1>8. QED
  BY <1>6, <1>7

(* A buffer of the stream.                                                 *)
LEMMA BufferStep ==
  ASSUME DecoderInv, NEW s \in 0..Len(Streams), NEW fails \in BOOLEAN, pad_chain(s, fails)
  PROVE  DecoderInv'
<1> DEFINE v == IF el.pre_process_buffer = "h264" THEN check_stream_params(el, s) ELSE el
<1>1. /\ stream # 0 /\ stream' = stream /\ asked' = asked /\ last' = s
      /\ s # 0 => Streams[s].codec = Streams[stream].codec
      /\ handle_buffer(v, s, fails)
  BY DEF pad_chain
<1>2. v = el \/ v = check_stream_params(el, s)
  OBVIOUS
<1>3. el.pre_process_buffer = "h264" => v = check_stream_params(el, s)
  OBVIOUS
<1> HIDE DEF v
<1>4. /\ el' = IF v.node = NoNode THEN init_node(v, s, fails) ELSE v
      /\ kept' = (kept /\ v.node # NoNode)
  BY <1>1 DEF handle_buffer
<1>5. \/ v = el
      \/ /\ IsElement(v) /\ v.node = NoNode /\ Waiting(v)
         /\ v.sink_caps \in Caps /\ v.sink_caps.codec = el.sink_caps.codec
         /\ v.codec = el.sink_caps.codec /\ v.color_format = asked
  BY <1>1, <1>2, HeaderFollowed
<1>6. /\ IsElement(el) /\ el.color_format = asked /\ el.sink_caps \in Caps
      /\ el.sink_caps.codec = Streams[stream].codec
  BY <1>1 DEF DecoderInv
<1>7. stream' \in 0..Len(Streams) /\ last' \in 0..Len(Streams) /\ stream' # 0
  BY <1>1 DEF DecoderInv
<1>8. CASE v.node = NoNode
  <2>1. /\ IsElement(v) /\ Waiting(v) /\ v.color_format = asked /\ v.sink_caps \in Caps
        /\ v.sink_caps.codec = Streams[stream].codec /\ v.codec = Streams[stream].codec
    <3>1. CASE v = el
      BY <1>1, <1>6, <1>8, <3>1 DEF DecoderInv, HasNode
    <3>2. CASE v # el
      BY <1>5, <1>6, <3>2
    <3>3. QED
      BY <3>1, <3>2
  <2>2. el' = init_node(v, s, fails)
    BY <1>4, <1>8
  <2>3. s # 0 => Streams[s].codec = v.codec
    BY <1>1, <2>1
  <2>4. /\ IsElement(el') /\ el'.sink_caps = v.sink_caps
        /\ el'.color_format = v.color_format /\ el'.codec = v.codec
        /\ el'.node = NoNode => Waiting(el')
        /\ el'.node # NoNode =>
             /\ NodeFits(el') /\ NodeSized(el') /\ el'.src_caps = el'.crop
             /\ el'.node.head[2] = "frame" /\ s # 0 /\ RightHeader(s, "frame", el')
                  => el'.node.size = Streams[s].size
    BY <1>8, <2>1, <2>2, <2>3, NodeMade
  <2>5. FollowsStream'
    <3> SUFFICES ASSUME HasNode', s # 0, el'.node.head[2] = "frame",
                        Streams[s].headers["frame"], Streams[s].codec = el'.codec
                 PROVE  el'.node.size = Streams[s].size
      BY <1>1 DEF FollowsStream
    <3>1. el'.node # NoNode /\ RightHeader(s, "frame", el')
      BY DEF HasNode, RightHeader
    <3>2. QED
      BY <2>4, <3>1
  <2>6. /\ el'.color_format = asked' /\ el'.sink_caps \in Caps
        /\ el'.sink_caps.codec = Streams[stream'].codec
        /\ el'.codec = Streams[stream'].codec
    BY <1>1, <2>1, <2>4
  <2>7. /\ ~HasNode' => Waiting(el')
        /\ HasNode' => NodeFits(el') /\ NodeSized(el') /\ el'.src_caps = el'.crop
    BY <2>4 DEF HasNode
  <2>8. QED
    BY <1>7, <2>4, <2>5, <2>6, <2>7 DEF DecoderInv
<1>9. CASE v.node # NoNode
  <2>1. v = el /\ el' = el /\ HasNode
    BY <1>4, <1>5, <1>9 DEF HasNode
  <2>2. /\ NodeFits(el) /\ NodeSized(el) /\ (~kept => el.src_caps = el.crop)
    BY <2>1 DEF DecoderInv
  <2>3. ~kept' => ~kept
    BY <1>4, <1>9
  <2>4. HasNode'
    BY <2>1 DEF HasNode
  <2>5. FollowsStream'
    <3> SUFFICES ASSUME s # 0, el.codec = "h264", el.node.head[2] = "frame",
                        Streams[s].headers["frame"], Streams[s].codec = el.codec
                 PROVE  el.node.size = Streams[s].size
      BY <1>1, <2>1 DEF FollowsStream
    <3>1. el.pre_process_buffer = "h264"
      BY <2>2 DEF NodeFits
    <3>2. check_stream_params(el, s) = el
      BY <1>3, <2>1, <3>1
    <3>3. s \in 1..Len(Streams) /\ RightHeader(s, "frame", el)
      BY StreamsAssumption DEF RightHeader
    <3>4. QED
      BY <2>1, <3>2, <3>3, HeaderOfSize
  <2>6. QED
    BY <1>1, <1>6, <1>7, <2>1, <2>2, <2>3, <2>4, <2>5 DEF DecoderInv
<1>10. QED
  BY <1>8, <1>9

(* PAUSED to READY.                                                        *)
LEMMA StopStep ==
  ASSUME DecoderInv, change_state
  PROVE  DecoderInv'
<1>1. IsElement(el)
  BY DEF DecoderInv
<1> DEFINE x == reinit(el)
<1>2. /\ DOMAIN x = Fields /\ x.node = NoNode /\ x.size = el.size /\ x.crop = el.crop
      /\ x.output_buffer_size = el.output_buffer_size /\ x.color_format = el.color_format
      /\ x.codec = el.codec /\ x.parse_func = el.parse_func
      /\ x.codec_data = el.codec_data /\ x.parsed = el.parsed /\ x.is_avc = el.is_avc
  BY <1>1 DEF reinit, IsElement, Fields
<1>3. el' = [x EXCEPT !.sink_caps = <<>>, !.src_caps = <<>>] /\ stream' = 0 /\ last' = 0
  BY DEF change_state
<1> HIDE DEF x
<1>4. /\ DOMAIN el' = Fields /\ el'.node = NoNode /\ el'.size = el.size
      /\ el'.crop = el.crop /\ el'.output_buffer_size = el.output_buffer_size
      /\ el'.color_format = el.color_format /\ el'.codec = el.codec
      /\ el'.parse_func = el.parse_func /\ el'.codec_data = el.codec_data
      /\ el'.parsed = el.parsed /\ el'.is_avc = el.is_avc
  BY <1>2, <1>3 DEF Fields
<1>5. IsElement(el')
  BY <1>1, <1>4 DEF IsElement
<1>6. ~HasNode'
  BY <1>4 DEF HasNode
<1>7. 0 \in 0..Len(Streams)
  BY StreamsAssumption
<1>8. QED
  BY <1>3, <1>5, <1>6, <1>7 DEF DecoderInv, FollowsStream

LEMMA DecoderStep == DecoderInv /\ [Next]_vars => DecoderInv'
<1> SUFFICES ASSUME DecoderInv, [Next]_vars PROVE DecoderInv'
  OBVIOUS
<1>1. ASSUME NEW s \in 1..Len(Streams), SetCaps(s)
      PROVE  DecoderInv'
  BY <1>1, SetCapsStep
<1>2. ASSUME NEW s \in 0..Len(Streams), NEW fails \in BOOLEAN, pad_chain(s, fails)
      PROVE  DecoderInv'
  BY <1>2, BufferStep
<1>3. CASE change_state
  BY <1>3, StopStep
<1>4. CASE UNCHANGED vars
  BY <1>4 DEF vars, DecoderInv, HasNode, FollowsStream
<1>5. QED
  BY <1>1, <1>2, <1>3, <1>4 DEF Next

LEMMA DecoderInvRight == DecoderInv => DecoderSized
<1> SUFFICES ASSUME DecoderInv PROVE DecoderSized
  OBVIOUS
<1>1. FramesFit
  <2> SUFFICES ASSUME HasNode
               PROVE  /\ FrameLen(el.node.size, el.node.color) <= el.output_buffer_size
                      /\ FrameLen(el.crop, el.color_format) <= el.output_buffer_size
    BY DEF FramesFit
  <2>1. /\ el.size \in Sizes /\ el.crop \in Sizes /\ \A k \in 1..2 : el.crop[k] <= el.size[k]
        /\ el.output_buffer_size = FrameLen(el.size, el.color_format)
    BY DEF DecoderInv, IsElement
  <2>2. /\ el.node.color = el.color_format /\ el.node.size \in Sizes
        /\ \A k \in 1..2 : el.node.size[k] <= el.size[k]
    BY DEF DecoderInv, NodeFits
  <2>3. /\ FrameLen(el.node.size, el.color_format) <= FrameLen(el.size, el.color_format)
        /\ FrameLen(el.crop, el.color_format) <= FrameLen(el.size, el.color_format)
    BY <2>1, <2>2, FrameLenFits
  <2>4. QED
    BY <2>1, <2>2, <2>3
<1>2. SizedByHeader
  BY DEF DecoderInv, NodeSized, RightHeader, SizedByHeader
<1>3. FollowsStream /\ CapsMatchFrames
  BY DEF DecoderInv, CapsMatchFrames
<1>4. QED
  BY <1>1, <1>2, <1>3 DEF DecoderSized

-----------------------------------------------------------------------------
(* For any streams, caps, buffers and failing nodes: the sizes of the      *)
(* element go together, and a node in it has the size of its header, of    *)
(* the element or a smaller one, and its color format.                     *)
THEOREM DecoderInvariant == CodecsSpec => []DecoderInv
<1>1. CodecsInit => DecoderInv
  BY DecoderInit DEF CodecsInit
<1>2. DecoderInv /\ [CodecsNext]_<<which, input, vars, encoder>> => DecoderInv'
  <2> SUFFICES ASSUME DecoderInv, [CodecsNext]_<<which, input, vars, encoder>> PROVE DecoderInv'
    OBVIOUS
  <2>1. [Next]_vars
    BY DEF CodecsNext, vars
  <2>2. QED
    BY <2>1, DecoderStep
<1>3. QED
  BY <1>1, <1>2, PTL DEF CodecsSpec

(* Frames fit the output buffers, the node has the size of the header it   *)
(* is sent first and follows the H.264 stream, and the announced size is   *)
(* the size of the frames (init_node, create_node, sink_setcaps and        *)
(* check_stream_params of gstdspvdec.c).                                   *)
THEOREM DecoderRight == CodecsSpec => []DecoderSized
BY DecoderInvariant, DecoderInvRight, PTL

-----------------------------------------------------------------------------
(* The level choice.                                                       *)
Levels == [id : Nat, mbpf : Nat, mbps : Nat, bitrate : Nat \ {0}]

LEMMA SearchFinds ==
  ASSUME NEW levels \in Seq(Levels), Len(levels) >= 1, NEW tgt, NEW id
  PROVE  search(levels, tgt, id) \in Range(levels)
<1> DEFINE n == Len(levels)
           V == Range(levels)
           Taken(k, v) == (id > 0 => levels[k].id = id) /\ Better(levels[k], v, tgt)
           step == [k \in Nat |-> [v \in V |-> IF k \in 1..n /\ Taken(k, v)
                                               THEN levels[k] ELSE v]]
           P(f) == f = [k \in 0..n |-> IF k = 0 THEN levels[1]
                                       ELSE IF Taken(k, f[k - 1]) THEN levels[k] ELSE f[k - 1]]
<1>1. n \in Nat /\ n >= 1 /\ \A k \in 1..n : levels[k] \in V
  BY DEF Range
<1>2. levels[1] \in V
  BY <1>1
<1>3. step \in [Nat -> [V -> V]]
  BY <1>1
<1>4. \E f : P(f)
  <2>1. PICK f \in [0..n -> V] : IsRecursion(f, n, levels[1], step)
    <3> HIDE DEF n, V, step
    <3>1. QED
      BY <1>1, <1>2, <1>3, Recursion
  <2>2. f = [k \in 0..n |-> IF k = 0 THEN levels[1] ELSE step[k][f[k - 1]]]
    BY <2>1 DEF IsRecursion
  <2>3. ASSUME NEW k \in 0..n, k # 0
        PROVE  step[k][f[k - 1]] = IF Taken(k, f[k - 1]) THEN levels[k] ELSE f[k - 1]
    <3>1. k \in Nat /\ k \in 1..n /\ k - 1 \in 0..n
      BY <1>1, <2>3
    <3>2. f[k - 1] \in V
      BY <2>1, <3>1
    <3> HIDE DEF n, V, Taken
    <3>3. QED
      BY <3>1, <3>2
  <2> HIDE DEF step, Taken, V, n
  <2>4. P(f)
    BY <2>2, <2>3
  <2>5. QED
    BY <2>4
<1> DEFINE level == CHOOSE f : P(f)
<1>5. P(level)
  <2> HIDE DEF P
  <2>1. QED
    BY <1>4
<1>6. search(levels, tgt, id) = level[n]
  BY DEF search
<1> HIDE DEF level
<1>7. level = [k \in 0..n |-> level[k]]
  BY <1>5
<1>8. level[0] = levels[1]
  BY <1>1, <1>5
<1>9. ASSUME NEW k \in 1..n, level[k - 1] \in V
      PROVE  level[k] \in V
  <2>1. k \in 0..n /\ k # 0
    BY <1>1
  <2>2. level[k] \in {levels[k], level[k - 1]}
    <3> HIDE DEF n, V, Taken
    <3>1. QED
      BY <1>5, <2>1
  <2>3. QED
    BY <1>1, <1>9, <2>2
<1>10. level \in [0..n -> V]
  <2> HIDE DEF n, V, P
  <2>1. QED
    BY <1>1, <1>2, <1>7, <1>8, <1>9, FunctionTyped
<1>11. QED
  BY <1>1, <1>6, <1>10

(* A table ordered by its last entry. *)
LEMMA EndsLargest ==
  ASSUME NEW levels \in Seq(Levels), Len(levels) >= 1,
         \A k \in 1..Len(levels) : /\ levels[k].mbps <= levels[Len(levels)].mbps
                                  /\ levels[k].bitrate <= levels[Len(levels)].bitrate
  PROVE  /\ Last(levels) \in Range(levels)
         /\ \A l \in Range(levels) : /\ l.mbps <= Last(levels).mbps
                                      /\ l.bitrate <= Last(levels).bitrate
<1>1. Range(levels) = {levels[k] : k \in 1..Len(levels)}
  BY DEF Range
<1>2. Last(levels) = levels[Len(levels)]
  BY DEF Last
<1>3. levels[Len(levels)] \in Range(levels)
  BY <1>1
<1>4. QED
  BY <1>1, <1>2, <1>3

(* Each table ends with its largest level.                                 *)
LEMMA TablesAre ==
  ASSUME NEW t \in DOMAIN Tables
  PROVE  /\ Tables[t] \in Seq(Levels) /\ Len(Tables[t]) >= 1
         /\ Last(Tables[t]) \in Range(Tables[t])
         /\ \A l \in Range(Tables[t]) : /\ l.mbps <= Last(Tables[t]).mbps
                                        /\ l.bitrate <= Last(Tables[t]).bitrate
<1>1. CASE t = "h264"
  <2>1. h264_levels \in Seq(Levels) /\ Len(h264_levels) = 10
    BY DEF h264_levels, Level, Levels
  <2>2. \A k \in 1..10 : h264_levels[k].mbps <= 48600 /\ h264_levels[k].bitrate <= 8000000
    BY DEF h264_levels, Level
  <2>3. h264_levels[10].mbps = 48600 /\ h264_levels[10].bitrate = 8000000
    BY DEF h264_levels, Level
  <2>4. Tables[t] = h264_levels
    BY <1>1 DEF Tables
  <2>5. Len(h264_levels) >= 1
    BY <2>1
  <2>6. \A k \in 1..Len(h264_levels) : /\ h264_levels[k].mbps <= h264_levels[Len(h264_levels)].mbps
                                 /\ h264_levels[k].bitrate <= h264_levels[Len(h264_levels)].bitrate
    BY <2>1, <2>2, <2>3
  <2>7. /\ Last(h264_levels) \in Range(h264_levels)
        /\ \A l \in Range(h264_levels) : /\ l.mbps <= Last(h264_levels).mbps
                                    /\ l.bitrate <= Last(h264_levels).bitrate
    BY <2>1, <2>5, <2>6, EndsLargest
  <2>8. QED
    BY <2>1, <2>4, <2>5, <2>7
<1>2. CASE t = "h263"
  <2>1. h263_levels \in Seq(Levels) /\ Len(h263_levels) = 8
    BY DEF h263_levels, Level, Levels
  <2>2. \A k \in 1..8 : h263_levels[k].mbps <= 81000 /\ h263_levels[k].bitrate <= 16384000
    BY DEF h263_levels, Level
  <2>3. h263_levels[8].mbps = 81000 /\ h263_levels[8].bitrate = 16384000
    BY DEF h263_levels, Level
  <2>4. Tables[t] = h263_levels
    BY <1>2 DEF Tables
  <2>5. Len(h263_levels) >= 1
    BY <2>1
  <2>6. \A k \in 1..Len(h263_levels) : /\ h263_levels[k].mbps <= h263_levels[Len(h263_levels)].mbps
                                 /\ h263_levels[k].bitrate <= h263_levels[Len(h263_levels)].bitrate
    BY <2>1, <2>2, <2>3
  <2>7. /\ Last(h263_levels) \in Range(h263_levels)
        /\ \A l \in Range(h263_levels) : /\ l.mbps <= Last(h263_levels).mbps
                                    /\ l.bitrate <= Last(h263_levels).bitrate
    BY <2>1, <2>5, <2>6, EndsLargest
  <2>8. QED
    BY <2>1, <2>4, <2>5, <2>7
<1>3. CASE t = "mp4v"
  <2>1. mp4v_levels \in Seq(Levels) /\ Len(mp4v_levels) = 7
    BY DEF mp4v_levels, Level, Levels
  <2>2. \A k \in 1..7 : mp4v_levels[k].mbps <= 47700 /\ mp4v_levels[k].bitrate <= 5000000
    BY DEF mp4v_levels, Level
  <2>3. mp4v_levels[7].mbps = 47700 /\ mp4v_levels[7].bitrate = 5000000
    BY DEF mp4v_levels, Level
  <2>4. Tables[t] = mp4v_levels
    BY <1>3 DEF Tables
  <2>5. Len(mp4v_levels) >= 1
    BY <2>1
  <2>6. \A k \in 1..Len(mp4v_levels) : /\ mp4v_levels[k].mbps <= mp4v_levels[Len(mp4v_levels)].mbps
                                 /\ mp4v_levels[k].bitrate <= mp4v_levels[Len(mp4v_levels)].bitrate
    BY <2>1, <2>2, <2>3
  <2>7. /\ Last(mp4v_levels) \in Range(mp4v_levels)
        /\ \A l \in Range(mp4v_levels) : /\ l.mbps <= Last(mp4v_levels).mbps
                                    /\ l.bitrate <= Last(mp4v_levels).bitrate
    BY <2>1, <2>5, <2>6, EndsLargest
  <2>8. QED
    BY <2>1, <2>4, <2>5, <2>7
<1>4. QED
  BY <1>1, <1>2, <1>3 DEF Tables

LEMMA TargetIs ==
  ASSUME NEW size \in Sizes, NEW rate \in Nat, NEW bitrate \in Nat, NEW user \in Nat
  PROVE  LET tgt == target(size[1], size[2], rate, bitrate, user)
         IN  tgt.mbpf \in Nat /\ tgt.mbps \in Nat /\ tgt.bitrate \in Nat
<1> DEFINE x == (size[1] + 15) \div 16
           y == (size[2] + 15) \div 16
<1>1. x \in Nat /\ y \in Nat
  BY DEF Sizes
<1> HIDE DEF x, y
<1>2. x * y \in Nat /\ x * y * rate \in Nat
  <2>1. x * y \in Nat
    BY <1>1
  <2> DEFINE z == x * y
  <2>2. z \in Nat
    BY <2>1
  <2> HIDE DEF z
  <2>3. z * rate \in Nat
    BY <2>2
  <2>4. QED
    BY <2>1, <2>3 DEF z
<1>3. QED
  BY <1>2 DEF target, x, y

(* The bit rate set on the node.                                           *)
LEMMA RateFits ==
  ASSUME NEW level \in Levels, NEW bitrate \in Nat, NEW user \in Nat
  PROVE  LET rate == capped_bitrate(bitrate, max_bitrate(level, user))
         IN  /\ rate > 0 /\ rate <= level.bitrate
             /\ user # 0 => rate <= user
BY DEF Levels, capped_bitrate, max_bitrate

LEMMA LevelChosen ==
  ASSUME NEW levels \in Seq(Levels), Len(levels) >= 1, Last(levels) \in Range(levels),
         \A l \in Range(levels) : l.mbps <= Last(levels).mbps
                                  /\ l.bitrate <= Last(levels).bitrate,
         NEW tgt, tgt.mbps \in Nat, tgt.bitrate \in Nat, NEW id \in Int
  PROVE  LET level == check_supported_levels(levels, tgt, id)
         IN  /\ level \in Range(levels)
             /\ \/ level.mbps >= tgt.mbps /\ level.bitrate >= tgt.bitrate
                \/ \A l \in Range(levels) : l.mbps < tgt.mbps \/ l.bitrate < tgt.bitrate
<1> DEFINE wished == search(levels, tgt, id)
           any == search(levels, tgt, -1)
           level == check_supported_levels(levels, tgt, id)
<1>1. wished \in Range(levels) /\ any \in Range(levels)
  BY SearchFinds
<1>2. Range(levels) \subseteq Levels
  BY DEF Range
<1>3. level = IF id > 0 /\ wished.id = id /\ ~Short(wished, tgt) THEN wished
              ELSE IF Short(any, tgt) THEN Last(levels) ELSE any
  BY DEF check_supported_levels
<1> HIDE DEF wished, any, level
<1>4. ASSUME NEW l \in Range(levels), ~Short(l, tgt)
      PROVE  l.mbps >= tgt.mbps /\ l.bitrate >= tgt.bitrate
  <2>1. l.mbps \in Nat /\ l.bitrate \in Nat
    BY <1>2 DEF Levels
  <2>2. QED
    BY <1>4, <2>1 DEF Short
<1>5. CASE level = Last(levels)
  <2>1. ASSUME NEW l \in Range(levels), l.mbps >= tgt.mbps, l.bitrate >= tgt.bitrate
        PROVE  level.mbps >= tgt.mbps /\ level.bitrate >= tgt.bitrate
    <3>1. l \in Levels /\ Last(levels) \in Levels
      BY <1>2
    <3>2. l.mbps <= level.mbps /\ l.bitrate <= level.bitrate
      BY <1>5
    <3>3. /\ l.mbps \in Nat /\ l.bitrate \in Nat
          /\ level.mbps \in Nat /\ level.bitrate \in Nat
      BY <1>5, <3>1 DEF Levels
    <3>4. QED
      BY <2>1, <3>2, <3>3
  <2>2. \A l \in Range(levels) : l.mbps \in Nat /\ l.bitrate \in Nat
    BY <1>2 DEF Levels
  <2>3. QED
    BY <1>5, <2>1, <2>2 DEF level
<1>6. CASE level \in {wished, any} /\ ~Short(level, tgt)
  BY <1>1, <1>4, <1>6 DEF level
<1>7. QED
  BY <1>3, <1>5, <1>6

(* The level and the bit rate, for any stream, limit and requested level   *)
(* (check_supported_levels, sink_setcaps of gstdspvenc.c).                 *)
THEOREM LevelRight == CodecsSpec => []LevelFits
<1> DEFINE Inv == input.kind = "level" => input \in InputSet
<1>1. CodecsInit => Inv
  BY DEF CodecsInit
<1>2. Inv /\ [CodecsNext]_<<which, input, vars, encoder>> => Inv'
  BY DEF CodecsNext
<1>3. Inv => LevelFits
  <2> SUFFICES ASSUME input.kind = "level", input \in InputSet PROVE LevelFits
    BY DEF LevelFits
  <2> DEFINE table == Tables[input.levels]
             tgt == target(input.size[1], input.size[2], input.framerate, input.bitrate,
                           input.user_max_bitrate)
             level == check_supported_levels(table, tgt, input.tgt_level)
  <2>1. /\ input.levels \in DOMAIN Tables /\ input.size \in Sizes
        /\ input.framerate \in Nat /\ input.bitrate \in Nat
        /\ input.user_max_bitrate \in Nat /\ input.tgt_level \in Int
    BY InputAssumption
  <2>2. tgt.mbps \in Nat /\ tgt.bitrate \in Nat
    BY <2>1, TargetIs
  <2>3. /\ table \in Seq(Levels) /\ Len(table) >= 1 /\ Last(table) \in Range(table)
        /\ \A l \in Range(table) : l.mbps <= Last(table).mbps
                                   /\ l.bitrate <= Last(table).bitrate
    BY <2>1, TablesAre
  <2> HIDE DEF table, tgt
  <2>4. /\ level \in Range(table)
        /\ \/ level.mbps >= tgt.mbps /\ level.bitrate >= tgt.bitrate
           \/ \A l \in Range(table) : l.mbps < tgt.mbps \/ l.bitrate < tgt.bitrate
    BY <2>1, <2>2, <2>3, LevelChosen
  <2> HIDE DEF level
  <2>5. level \in Levels
    BY <2>3, <2>4 DEF Range
  <2>6. LET rate == capped_bitrate(input.bitrate, max_bitrate(level, input.user_max_bitrate))
        IN  /\ rate > 0 /\ rate <= level.bitrate
            /\ input.user_max_bitrate # 0 => rate <= input.user_max_bitrate
    BY <2>1, <2>5, RateFits
  <2>7. QED
    BY <2>4, <2>6 DEF LevelFits, table, tgt, level
<1>4. QED
  BY <1>1, <1>2, <1>3, PTL DEF CodecsSpec

-----------------------------------------------------------------------------
(* The framing of H.264, over sequences of bytes. *)
Octets == Seq(0..255)

(* Two functions that go the same steps are the same. *)
GoTogether(n, f, g) == f[0] = g[0] /\ \A k \in 1..n : f[k - 1] = g[k - 1] => f[k] = g[k]

LEMMA SameSteps ==
  ASSUME NEW n \in Nat, NEW f, NEW g, GoTogether(n, f, g)
  PROVE  \A k \in 0..n : f[k] = g[k]
<1>0. f[0] = g[0] /\ \A k \in 1..n : f[k - 1] = g[k - 1] => f[k] = g[k]
  BY DEF GoTogether
<1> DEFINE S == {m \in Nat : m <= n => f[m] = g[m]}
<1>1. 0 \in S
  BY <1>0
<1>2. ASSUME NEW m \in S
      PROVE  m + 1 \in S
  <2>1. CASE m + 1 <= n
    <3>1. m + 1 \in 1..n /\ (m + 1) - 1 = m /\ m + 1 \in Nat /\ f[m] = g[m]
      BY <2>1
    <3>2. f[m + 1] = g[m + 1]
      BY <1>0, <3>1
    <3>3. QED
      BY <3>1, <3>2
  <2>2. CASE ~(m + 1 <= n)
    BY <2>2
  <2>3. QED
    BY <2>1, <2>2
<1>3. S = Nat
  <2>1. S \in SUBSET Nat
    OBVIOUS
  <2> HIDE DEF S
  <2>2. QED
    BY <1>1, <1>2, <2>1, Induction
<1>4. QED
  BY <1>3

LEMMA SameFromOne ==
  ASSUME NEW n \in Nat \ {0}, NEW f, NEW g, f[1] = g[1],
         \A k \in 2..n : f[k - 1] = g[k - 1] => f[k] = g[k]
  PROVE  f[n] = g[n]
<1> DEFINE S == {m \in Nat : m + 1 <= n => f[m + 1] = g[m + 1]}
<1>1. 0 \in S
  OBVIOUS
<1>2. ASSUME NEW m \in S
      PROVE  m + 1 \in S
  <2>1. CASE m + 2 <= n
    <3>1. m + 2 \in 2..n /\ (m + 2) - 1 = m + 1 /\ m + 1 \in Nat /\ f[m + 1] = g[m + 1]
          /\ (m + 1) + 1 = m + 2
      BY <2>1
    <3>2. f[m + 2] = g[m + 2]
      BY <3>1
    <3>3. QED
      BY <3>1, <3>2
  <2>2. CASE ~(m + 2 <= n)
    BY <2>2
  <2>3. QED
    BY <2>1, <2>2
<1>3. S = Nat
  <2>1. S \in SUBSET Nat
    OBVIOUS
  <2> HIDE DEF S
  <2>2. QED
    BY <1>1, <1>2, <2>1, Induction
<1>4. n - 1 \in S /\ (n - 1) + 1 = n
  BY <1>3
<1>5. QED
  BY <1>4

(* A sequence of parts is joined part by part, from the left and from the  *)
(* right.                                                                  *)
Joins(f, n, parts) ==
  f \in [0..n -> Octets] /\ f[0] = <<>> /\ \A k \in 1..n : f[k] = f[k - 1] \o parts[k]
Rests(r, n, parts) ==
  r \in [0..n -> Octets] /\ r[0] = <<>> /\ \A k \in 1..n : r[k] = parts[n - k + 1] \o r[k - 1]

LEMMA Concat ==
  ASSUME NEW s \in Octets, NEW t \in Octets
  PROVE  s \o t \in Octets /\ Len(s \o t) = Len(s) + Len(t)
BY ConcatProperties DEF Octets

LEMMA ConcatThree ==
  ASSUME NEW s \in Octets, NEW t \in Octets, NEW u \in Octets
  PROVE  (s \o t) \o u = s \o (t \o u)
<1>1. s \in Seq(0..255) /\ t \in Seq(0..255) /\ u \in Seq(0..255)
  BY DEF Octets
<1>2. QED
  BY <1>1, ConcatAssociative

LEMMA Joined ==
  ASSUME NEW n \in Nat, NEW parts \in [1..n -> Octets]
  PROVE  \E f : Joins(f, n, parts)
<1> DEFINE V == Octets
           step == [k \in Nat |-> [v \in V |-> IF k \in 1..n THEN v \o parts[k] ELSE v]]
<1>1. <<>> \in V
  BY DEF Octets
<1>2. ASSUME NEW k \in 1..n, NEW v \in V
      PROVE  v \o parts[k] \in V
  BY Concat
<1>3. step \in [Nat -> [V -> V]]
  <2> HIDE DEF V
  <2>1. QED
    BY <1>2
<1>4. PICK f \in [0..n -> V] : IsRecursion(f, n, <<>>, step)
  <2> HIDE DEF V, step
  <2>1. QED
    BY <1>1, <1>3, Recursion
<1>5. f = [k \in 0..n |-> IF k = 0 THEN <<>> ELSE step[k][f[k - 1]]]
  BY <1>4 DEF IsRecursion
<1>6. f[0] = <<>>
  BY <1>5
<1>7. ASSUME NEW k \in 1..n
      PROVE  f[k] = f[k - 1] \o parts[k]
  <2>1. k \in 0..n /\ k # 0 /\ k - 1 \in 0..n /\ k \in Nat
    OBVIOUS
  <2>2. f[k] = step[k][f[k - 1]]
    BY <1>5, <2>1
  <2>3. f[k - 1] \in V
    BY <2>1
  <2>4. QED
    BY <2>1, <2>2, <2>3
<1>8. QED
  BY <1>6, <1>7 DEF Joins

LEMMA RestsJoined ==
  ASSUME NEW n \in Nat, NEW parts \in [1..n -> Octets]
  PROVE  \E r : Rests(r, n, parts)
<1> DEFINE V == Octets
           step == [k \in Nat |-> [v \in V |-> IF k \in 1..n THEN parts[n - k + 1] \o v ELSE v]]
<1>1. <<>> \in V
  BY DEF Octets
<1>2. ASSUME NEW k \in 1..n, NEW v \in V
      PROVE  parts[n - k + 1] \o v \in V
  <2>1. n - k + 1 \in 1..n
    OBVIOUS
  <2>2. QED
    BY <2>1, Concat
<1>3. step \in [Nat -> [V -> V]]
  <2> HIDE DEF V
  <2>1. QED
    BY <1>2
<1>4. PICK f \in [0..n -> V] : IsRecursion(f, n, <<>>, step)
  <2> HIDE DEF V, step
  <2>1. QED
    BY <1>1, <1>3, Recursion
<1>5. f = [k \in 0..n |-> IF k = 0 THEN <<>> ELSE step[k][f[k - 1]]]
  BY <1>4 DEF IsRecursion
<1>6. f[0] = <<>>
  BY <1>5
<1>7. ASSUME NEW k \in 1..n
      PROVE  f[k] = parts[n - k + 1] \o f[k - 1]
  <2>1. k \in 0..n /\ k # 0 /\ k - 1 \in 0..n /\ k \in Nat
    OBVIOUS
  <2>2. f[k] = step[k][f[k - 1]]
    BY <1>5, <2>1
  <2>3. f[k - 1] \in V
    BY <2>1
  <2>4. QED
    BY <2>1, <2>2, <2>3
<1>8. QED
  BY <1>6, <1>7 DEF Rests

LEMMA Flattened ==
  ASSUME NEW n \in Nat, NEW parts \in [1..n -> Octets], NEW f, Joins(f, n, parts)
  PROVE  FlattenSeq(parts) = f[n]
<1>1. Len(parts) = n /\ DOMAIN parts = 1..n
  OBVIOUS
<1>2. CASE n = 0
  <2>1. parts = <<>>
    BY <1>2
  <2>2. QED
    BY <1>2, <2>1 DEF FlattenSeq, Joins
<1>3. CASE n # 0
  <2> DEFINE P(g) == g = [i \in 1..n |-> IF i = 1 THEN parts[i] ELSE g[i - 1] \o parts[i]]
             g == CHOOSE h : P(h)
             h == [i \in 1..n |-> f[i]]
  <2>1. FlattenSeq(parts) = g[n]
    BY <1>1, <1>3 DEF FlattenSeq
  <2>2. f[1] = parts[1]
    <3>0. 1 \in 1..n /\ 1 - 1 = 0
      BY <1>3
    <3>1. f[1] = f[0] \o parts[1] /\ f[0] = <<>> /\ parts[1] \in Octets
      <4>1. f[1] = f[1 - 1] \o parts[1]
        BY <3>0 DEF Joins
      <4>2. QED
        BY <3>0, <4>1 DEF Joins
    <3>2. QED
      BY <3>1, ConcatEmptySeq DEF Octets
  <2>3. P(h)
    <3>1. \A i \in 1..n : h[i] = IF i = 1 THEN parts[i] ELSE h[i - 1] \o parts[i]
      <4> SUFFICES ASSUME NEW i \in 1..n PROVE h[i] = IF i = 1 THEN parts[i] ELSE h[i - 1] \o parts[i]
        OBVIOUS
      <4>1. CASE i = 1
        BY <2>2, <4>1
      <4>2. CASE i # 1
        <5>1. i - 1 \in 1..n /\ f[i] = f[i - 1] \o parts[i]
          BY <4>2, SMTT(30) DEF Joins
        <5>2. QED
          BY <4>2, <5>1
      <4>3. QED
        BY <4>1, <4>2
    <3>2. h = [i \in 1..n |-> h[i]]
      OBVIOUS
    <3> HIDE DEF h
    <3>3. QED
      BY <3>1, <3>2
  <2>4. P(g)
    <3> HIDE DEF P
    <3>1. QED
      BY <2>3
  <2> HIDE DEF g
  <2>5. g = [i \in 1..n |-> IF i = 1 THEN parts[i] ELSE g[i - 1] \o parts[i]]
    BY <2>4
  <2>6. ASSUME NEW k \in 2..n, g[k - 1] = f[k - 1]
        PROVE  g[k] = f[k]
    <3>1. k \in 1..n /\ k # 1
      OBVIOUS
    <3>2. g[k] = g[k - 1] \o parts[k]
      BY <2>5, <3>1
    <3>3. f[k] = f[k - 1] \o parts[k]
      BY <3>1 DEF Joins
    <3>4. QED
      BY <2>6, <3>2, <3>3
  <2>7. g[1] = f[1]
    <3>1. g[1] = parts[1]
      BY <1>3, <2>5
    <3>2. QED
      BY <2>2, <3>1
  <2>8. g[n] = f[n]
    BY <1>3, <2>6, <2>7, SameFromOne
  <2>9. QED
    BY <2>1, <2>8
<1>4. QED
  BY <1>2, <1>3

LEMMA LeftIsRight ==
  ASSUME NEW n \in Nat, NEW parts \in [1..n -> Octets], NEW f, Joins(f, n, parts),
         NEW r, Rests(r, n, parts)
  PROVE  f[n] = r[n]
<1> DEFINE a == [k \in 0..n |-> f[k] \o r[n - k]]
           b == [k \in 0..n |-> r[n]]
<1>1. a[0] = b[0]
  <2>1. f[0] = <<>> /\ r[n] \in Octets /\ n - 0 = n
    BY DEF Joins, Rests
  <2>2. <<>> \o r[n] = r[n]
    BY <2>1, ConcatEmptySeq DEF Octets
  <2>3. a[0] = f[0] \o r[n - 0] /\ b[0] = r[n]
    <3>1. 0 \in 0..n
      OBVIOUS
    <3>2. b[0] = r[n]
      BY <3>1
    <3>3. a[0] = f[0] \o r[n - 0]
      BY <3>1
    <3>4. QED
      BY <3>2, <3>3
  <2> HIDE DEF a, b
  <2>4. QED
    BY <2>1, <2>2, <2>3
<1>2. ASSUME NEW k \in 1..n, a[k - 1] = b[k - 1]
      PROVE  a[k] = b[k]
  <2>1. k \in 0..n /\ k - 1 \in 0..n /\ n - k \in 0..n /\ n - (k - 1) = (n - k) + 1
        /\ n - ((n - k) + 1) + 1 = k /\ (n - k) + 1 \in 1..n /\ ((n - k) + 1) - 1 = n - k
    OBVIOUS
  <2>2. f[k] = f[k - 1] \o parts[k] /\ f[k - 1] \in Octets /\ parts[k] \in Octets
    BY <2>1 DEF Joins
  <2>3. r[(n - k) + 1] = parts[k] \o r[n - k] /\ r[n - k] \in Octets
    BY <2>1 DEF Rests
  <2>4. (f[k - 1] \o parts[k]) \o r[n - k] = f[k - 1] \o (parts[k] \o r[n - k])
    BY <2>2, <2>3, ConcatThree
  <2>5. a[k] = f[k] \o r[n - k] /\ a[k - 1] = f[k - 1] \o r[n - (k - 1)] /\ b[k] = b[k - 1]
    BY <2>1
  <2>6. a[k - 1] = f[k - 1] \o r[(n - k) + 1]
    BY <2>1, <2>5
  <2> HIDE DEF a, b
  <2>7. QED
    BY <1>2, <2>2, <2>3, <2>4, <2>5, <2>6
<1>3. a[n] = b[n]
  <2> HIDE DEF a, b
  <2>1. GoTogether(n, a, b)
    BY <1>1, <1>2 DEF GoTogether
  <2>2. \A k \in 0..n : a[k] = b[k]
    BY <2>1, SameSteps
  <2>3. QED
    BY <2>2
<1>4. a[n] = f[n] \o r[0] /\ b[n] = r[n]
  <2>1. n \in 0..n /\ n - n = 0
    OBVIOUS
  <2>2. QED
    BY <2>1
<1>5. f[n] \o <<>> = f[n] /\ r[0] = <<>>
  <2>1. f[n] \in Octets /\ r[0] = <<>>
    BY DEF Joins, Rests
  <2>2. QED
    BY <2>1, ConcatEmptySeq DEF Octets
<1> HIDE DEF a, b
<1>6. QED
  BY <1>3, <1>4, <1>5

(* What follows a part, and a part between two others. *)
LEMMA Slices ==
  ASSUME NEW a \in Octets, NEW b \in Octets, NEW c \in Octets
  PROVE  /\ From(a \o b, Len(a) + 1) = b
         /\ SubSeq(a \o (b \o c), Len(a) + 1, Len(a) + Len(b)) = b
         /\ \A k \in 1..Len(a) : (a \o b)[k] = a[k]
<1>1. a \in Seq(0..255) /\ b \in Seq(0..255) /\ c \in Seq(0..255)
  BY DEF Octets
<1>2. Len(a) \in Nat /\ Len(b) \in Nat /\ Len(c) \in Nat
  BY <1>1, LenProperties
<1>3. Len(a \o b) = Len(a) + Len(b) /\ a \o b \in Seq(0..255)
  BY <1>1, ConcatProperties
<1>4. b \o c \in Seq(0..255) /\ Len(b \o c) = Len(b) + Len(c)
  BY <1>1, ConcatProperties
<1>5. CASE b = <<>>
  <2>1. Len(b) = 0
    BY <1>5
  <2>2. SubSeq(a \o b, Len(a) + 1, Len(a) + Len(b)) = <<>>
        /\ SubSeq(a \o (b \o c), Len(a) + 1, Len(a) + Len(b)) = <<>>
    <3>1. Len(a) + 1 \in Int /\ Len(a) + Len(b) \in Int /\ Len(a) + Len(b) < Len(a) + 1
      BY <1>2, <2>1
    <3>2. QED
      BY <3>1, SubSeqEmpty
  <2>3. From(a \o b, Len(a) + 1) = <<>>
    BY <1>3, <2>2 DEF From
  <2>4. QED
    BY <1>1, <1>2, <1>5, <2>2, <2>3, ConcatProperties
<1>6. CASE b # <<>>
  <2>1. Len(b) \in Nat \ {0}
    BY <1>1, <1>6, EmptySeq
  <2>2. Len(a) + 1 \in Len(a) + 1 .. Len(a) + Len(b)
        /\ Len(a) + Len(b) \in Len(a) + 1 .. Len(a) + Len(b)
        /\ (Len(a) + 1) - Len(a) = 1 /\ (Len(a) + Len(b)) - Len(a) = Len(b)
    BY <1>2, <2>1
  <2>3. SubSeq(a \o b, Len(a) + 1, Len(a) + Len(b))
          = SubSeq(b, (Len(a) + 1) - Len(a), (Len(a) + Len(b)) - Len(a))
    BY <1>1, <2>2, SubSeqOfConcat2
  <2>4. SubSeq(a \o b, Len(a) + 1, Len(a) + Len(b)) = b
    BY <1>1, <2>2, <2>3, SubSeqFull
  <2>5. Len(a) + 1 \in Len(a) + 1 .. Len(a) + Len(b \o c)
        /\ Len(a) + Len(b) \in Len(a) + 1 .. Len(a) + Len(b \o c)
    BY <1>2, <1>4, <2>1
  <2>6. SubSeq(a \o (b \o c), Len(a) + 1, Len(a) + Len(b))
          = SubSeq(b \o c, (Len(a) + 1) - Len(a), (Len(a) + Len(b)) - Len(a))
    BY <1>1, <1>4, <2>5, SubSeqOfConcat2
  <2>7. SubSeq(b \o c, 1, Len(b)) = SubSeq(b, 1, Len(b))
    <3>1. 1 \in 1..Len(b) /\ Len(b) \in 1..Len(b)
      BY <2>1
    <3>2. QED
      BY <1>1, <3>1, SubSeqOfConcat1
  <2>8. SubSeq(a \o (b \o c), Len(a) + 1, Len(a) + Len(b)) = b
    BY <1>1, <2>2, <2>6, <2>7, SubSeqFull
  <2>9. From(a \o b, Len(a) + 1) = b
    BY <1>3, <2>4 DEF From
  <2>10. QED
    BY <1>1, <1>2, <2>8, <2>9, ConcatProperties
<1>7. QED
  BY <1>5, <1>6

(* A number a field has room for is read back as it was written. *)
LEMMA FieldBytes ==
  ASSUME NEW n \in 1..4, NEW v \in Nat
  PROVE  BigEndian(v, n) \in Octets /\ Len(BigEndian(v, n)) = n
<1> DEFINE power == <<16777216, 65536, 256, 1>>
           e(k) == (v \div power[4 - n + k]) % 256
<1>1. ASSUME NEW k \in 1..n
      PROVE  e(k) \in 0..255
  <2>1. 4 - n + k \in 1..4
    OBVIOUS
  <2>2. power[4 - n + k] \in Nat \ {0}
    BY <2>1
  <2> HIDE DEF power
  <2>3. v \div power[4 - n + k] \in Int
    BY <2>2
  <2>4. QED
    BY <2>3
<1>2. BigEndian(v, n) = [k \in 1..n |-> e(k)]
  BY DEF BigEndian
<1> HIDE DEF power, e
<1>3. BigEndian(v, n) \in [1..n -> 0..255]
  BY <1>1, <1>2
<1>4. BigEndian(v, n) \in Seq(0..255)
  <2>1. n \in Nat
    OBVIOUS
  <2>2. QED
    BY <1>3, <2>1, SeqDef
<1>5. QED
  BY <1>3, <1>4 DEF Octets

LEMMA FieldRead ==
  ASSUME NEW n \in 1..4, NEW v \in 0..Longest[n], NEW y,
         \A k \in 1..n : y[k] = BigEndian(v, n)[k]
  PROVE  Length(y, n) = v
<1>1. v \in Nat
  <2>1. Longest[n] \in Nat
    BY DEF Longest
  <2>2. QED
    BY <2>1
<1>2. CASE n = 1
  <2>1. y[1] = (v \div 1) % 256 /\ v <= 255
    BY <1>2 DEF BigEndian, Longest
  <2>2. Length(y, n) = y[1]
    <3>1. y[1] \in Int
      BY <1>1, <2>1
    <3>2. QED
      BY <1>2, <3>1 DEF Length
  <2>3. QED
    BY <1>1, <2>1, <2>2
<1>3. CASE n = 2
  <2>1. y[1] = (v \div 256) % 256 /\ y[2] = (v \div 1) % 256 /\ v <= 65535
    BY <1>3 DEF BigEndian, Longest
  <2>2. Length(y, n) = 256 * y[1] + y[2]
    <3>1. y[1] \in Int /\ y[2] \in Int
      BY <1>1, <2>1
    <3>2. QED
      BY <1>3, <3>1 DEF Length
  <2>3. QED
    BY <1>1, <2>1, <2>2
<1>4. CASE n = 3
  <2>1. y[1] = (v \div 65536) % 256 /\ y[2] = (v \div 256) % 256 /\ y[3] = (v \div 1) % 256
        /\ v <= 16777215
    BY <1>4 DEF BigEndian, Longest
  <2>2. Length(y, n) = 65536 * y[1] + 256 * y[2] + y[3]
    <3>1. y[1] \in Int /\ y[2] \in Int /\ y[3] \in Int
      BY <1>1, <2>1
    <3>2. QED
      BY <1>4, <3>1 DEF Length
  <2>3. QED
    BY <1>1, <2>1, <2>2
<1>5. CASE n = 4
  <2>1. y[1] = (v \div 16777216) % 256 /\ y[2] = (v \div 65536) % 256
        /\ y[3] = (v \div 256) % 256 /\ y[4] = (v \div 1) % 256 /\ v <= 2147483647
    BY <1>5 DEF BigEndian, Longest
  <2>2. Length(y, n) = 16777216 * y[1] + 65536 * y[2] + 256 * y[3] + y[4]
    <3>1. y[1] \in Int /\ y[2] \in Int /\ y[3] \in Int /\ y[4] \in Int
      BY <1>1, <2>1
    <3>2. QED
      BY <1>5, <3>1 DEF Length
  <2>3. QED
    BY <1>1, <2>1, <2>2
<1>6. QED
  BY <1>2, <1>3, <1>4, <1>5

(* A NAL unit behind a field of n bytes with its length. *)
Field(u, n) == BigEndian(Len(u), n) \o u

LEMMA FieldIs ==
  ASSUME NEW n \in 1..4, NEW u \in Octets, Len(u) <= Longest[n], NEW rest \in Octets
  PROVE  /\ Field(u, n) \in Octets /\ Len(Field(u, n)) = n + Len(u) /\ Len(u) \in Nat
         /\ Length(Field(u, n) \o rest, n) = Len(u)
         /\ SubSeq(Field(u, n) \o rest, n + 1, n + Len(u)) = u
         /\ From(Field(u, n) \o rest, n + Len(u) + 1) = rest
         /\ Field(u, n) \o rest \in Octets
         /\ Len(Field(u, n) \o rest) = n + Len(u) + Len(rest) /\ Len(rest) \in Nat
<1> DEFINE b == BigEndian(Len(u), n)
           y == Field(u, n) \o rest
<1>1. Len(u) \in Nat /\ Len(rest) \in Nat
  BY LenProperties DEF Octets
<1>2. b \in Octets /\ Len(b) = n
  BY <1>1, FieldBytes
<1>3. Field(u, n) = b \o u
  BY DEF Field
<1> HIDE DEF b
<1>4. Field(u, n) \in Octets /\ Len(Field(u, n)) = n + Len(u)
  BY <1>2, <1>3, Concat
<1>5. y \in Octets /\ Len(y) = n + Len(u) + Len(rest)
  BY <1>4, Concat
<1>6. y = b \o (u \o rest)
  BY <1>2, <1>3, ConcatThree
<1>7. SubSeq(b \o (u \o rest), Len(b) + 1, Len(b) + Len(u)) = u
  BY <1>2, Slices
<1>8. SubSeq(y, n + 1, n + Len(u)) = u
  BY <1>2, <1>6, <1>7
<1>9. \A k \in 1..n : y[k] = b[k]
  <2>1. u \o rest \in Octets
    BY Concat
  <2>2. \A k \in 1..Len(b) : (b \o (u \o rest))[k] = b[k]
    BY <1>2, <2>1, Slices
  <2> HIDE DEF y
  <2>3. QED
    BY <1>2, <1>6, <2>2
<1>10. Length(y, n) = Len(u)
  <2>1. Len(u) \in 0..Longest[n]
    BY <1>1
  <2> HIDE DEF y
  <2>2. \A k \in 1..n : y[k] = BigEndian(Len(u), n)[k]
    BY <1>9 DEF b
  <2>3. QED
    BY <2>1, <2>2, FieldRead
<1>11. From(y, n + Len(u) + 1) = rest
  <2>1. From(Field(u, n) \o rest, Len(Field(u, n)) + 1) = rest
    BY <1>4, Slices
  <2>2. QED
    BY <1>4, <2>1
<1>12. QED
  BY <1>1, <1>4, <1>5, <1>8, <1>10, <1>11

LEMMA StartCode ==
  ASSUME NEW n \in 1..4
  PROVE  start_code(n) \in Octets
<1>1. <<0, 0, 1>> \in Seq(0..255) /\ <<0, 0, 0, 1>> \in Seq(0..255)
  OBVIOUS
<1>2. QED
  BY <1>1 DEF start_code, Octets

(* One step of each loop, at a NAL unit that is there as a whole. *)
LEMMA NalUnitIs ==
  ASSUME NEW n \in 1..4, NEW u \in Octets, Len(u) <= Longest[n], NEW rest \in Octets,
         NEW out \in Octets
  PROVE  nal_unit([ok |-> TRUE, rest |-> Field(u, n) \o rest, out |-> out], n)
           = [ok |-> TRUE, rest |-> rest, out |-> out \o (start_code(n) \o u)]
<1> DEFINE y == Field(u, n) \o rest
           r == [ok |-> TRUE, rest |-> y, out |-> out]
<1>1. Length(y, n) = Len(u) /\ SubSeq(y, n + 1, n + Len(u)) = u
      /\ From(y, n + Len(u) + 1) = rest /\ Len(y) = n + Len(u) + Len(rest)
      /\ Len(u) \in Nat /\ Len(rest) \in Nat
  BY FieldIs
<1>2. ~(Len(y) < n) /\ ~(Len(y) < n + Len(u))
  <2> HIDE DEF y
  <2>1. QED
    BY <1>1
<1>3. (out \o start_code(n)) \o u = out \o (start_code(n) \o u)
  BY StartCode, ConcatThree
<1>4. r.ok = TRUE /\ r.rest = y /\ r.out = out
  OBVIOUS
<1> HIDE DEF y, r
<1>5. nal_unit(r, n) = [ok |-> r.ok, rest |-> From(y, n + Len(u) + 1),
                        out |-> (r.out \o start_code(n)) \o SubSeq(y, n + 1, n + Len(u))]
  BY <1>1, <1>2, <1>4 DEF nal_unit
<1>6. nal_unit(r, n) = [ok |-> TRUE, rest |-> rest, out |-> out \o (start_code(n) \o u)]
  BY <1>1, <1>3, <1>4, <1>5
<1>7. QED
  BY <1>6 DEF r, y

LEMMA NoNalUnit ==
  ASSUME NEW n \in 1..4, NEW out
  PROVE  nal_unit([ok |-> TRUE, rest |-> <<>>, out |-> out], n)
           = [ok |-> TRUE, rest |-> <<>>, out |-> out]
<1>1. Len(<<>>) < n
  OBVIOUS
<1>2. QED
  BY <1>1 DEF nal_unit

LEMMA ParameterSetIs ==
  ASSUME NEW n \in 1..4, NEW u \in Octets, Len(u) <= Longest[2], NEW rest \in Octets,
         NEW out \in Octets, NEW size \in Nat
  PROVE  parameter_set([ok |-> TRUE, size |-> Len(Field(u, 2)) + size,
                        rest |-> Field(u, 2) \o rest, out |-> out], n)
           = [ok |-> TRUE, size |-> size, rest |-> rest, out |-> out \o Field(u, n)]
<1> DEFINE y == Field(u, 2) \o rest
           r == [ok |-> TRUE, size |-> Len(Field(u, 2)) + size, rest |-> y, out |-> out]
<1>1. Length(y, 2) = Len(u) /\ SubSeq(y, 3, 2 + Len(u)) = u
      /\ From(y, 2 + Len(u) + 1) = rest /\ Len(Field(u, 2)) = 2 + Len(u)
      /\ Len(u) \in Nat
  <2>1. 2 \in 1..4 /\ 2 + 1 = 3
    OBVIOUS
  <2>2. Length(y, 2) = Len(u) /\ SubSeq(y, 2 + 1, 2 + Len(u)) = u
      /\ From(y, 2 + Len(u) + 1) = rest /\ Len(Field(u, 2)) = 2 + Len(u)
      /\ Len(u) \in Nat
    BY <2>1, FieldIs
  <2>3. QED
    BY <2>1, <2>2
<1>2. BigEndian(Len(u), n) \in Octets
  BY <1>1, FieldBytes
<1>3. (out \o BigEndian(Len(u), n)) \o u = out \o Field(u, n)
  BY <1>2, ConcatThree DEF Field
<1>4. r.ok = TRUE /\ r.size = 2 + Len(u) + size /\ r.rest = y /\ r.out = out
  <2> HIDE DEF y
  <2>1. QED
    BY <1>1
<1> HIDE DEF y, r
<1>5. ~(~r.ok \/ r.size < 2 \/ r.size < Len(u) + 2)
  <2>1. ~(r.size < 2) /\ ~(r.size < Len(u) + 2)
    BY <1>1, <1>4
  <2>2. QED
    BY <1>4, <2>1
<1>6. Len(u) + 3 = 2 + Len(u) + 1 /\ Len(u) + 2 = 2 + Len(u) /\ r.size - (Len(u) + 2) = size
  BY <1>1, <1>4
<1>7. parameter_set(r, n)
        = [ok |-> TRUE, size |-> r.size - (Len(u) + 2), rest |-> From(y, Len(u) + 3),
           out |-> (r.out \o BigEndian(Len(u), n)) \o SubSeq(y, 3, Len(u) + 2)]
  BY <1>1, <1>4, <1>5 DEF parameter_set
<1>8. parameter_set(r, n) = [ok |-> TRUE, size |-> size, rest |-> rest,
                             out |-> out \o Field(u, n)]
  BY <1>1, <1>3, <1>4, <1>6, <1>7
<1>9. QED
  BY <1>8 DEF r, y

(* The NAL units of a sequence behind their lengths. *)
LengthFields(units, n) == [i \in 1..Len(units) |-> Field(units[i], n)]

LEMMA FieldsAre ==
  ASSUME NEW n \in 1..4, NEW w \in 1..4, NEW units \in Seq(NalUnits(w))
  PROVE  /\ Framed(n, units) = FlattenSeq(LengthFields(units, n))
         /\ LengthFields(units, n) \in [1..Len(units) -> Octets] /\ Len(units) \in Nat
         /\ \A i \in 1..Len(units) :
              units[i] \in Octets /\ Len(units[i]) <= Longest[w] /\ Len(units[i]) \in Nat
<1>1. Len(units) \in Nat /\ DOMAIN units = 1..Len(units) /\ units \in [1..Len(units) -> NalUnits(w)]
  BY LenProperties
<1>2. ASSUME NEW i \in 1..Len(units)
      PROVE  units[i] \in Octets /\ Len(units[i]) <= Longest[w] /\ Len(units[i]) \in Nat
             /\ Field(units[i], n) \in Octets
  <2>1. units[i] \in NalUnits(w)
    BY <1>1
  <2>2. units[i] \in Octets /\ Len(units[i]) <= Longest[w]
    BY <2>1 DEF NalUnits, Octets, Longest
  <2>3. Len(units[i]) \in Nat
    BY <2>2, LenProperties DEF Octets
  <2>4. BigEndian(Len(units[i]), n) \in Octets
    BY <2>3, FieldBytes
  <2>5. QED
    BY <2>2, <2>3, <2>4, Concat DEF Field
<1>3. Framed(n, units) = FlattenSeq(LengthFields(units, n))
  BY <1>1 DEF Framed, LengthFields, Field
<1>4. LengthFields(units, n) \in [1..Len(units) -> Octets]
  BY <1>2 DEF LengthFields
<1>5. QED
  BY <1>1, <1>2, <1>3, <1>4

(* Every part has a byte, so there are no more parts than bytes. *)
LEMMA AsLong ==
  ASSUME NEW n \in Nat, NEW parts \in [1..n -> Octets], \A k \in 1..n : Len(parts[k]) >= 1,
         NEW f, Joins(f, n, parts)
  PROVE  Len(f[n]) >= n /\ Len(f[n]) \in Nat
<1>0. \A k \in 0..n : Len(f[k]) \in Nat
  <2> SUFFICES ASSUME NEW k \in 0..n PROVE Len(f[k]) \in Nat
    OBVIOUS
  <2>1. f[k] \in Octets
    BY DEF Joins
  <2>2. QED
    BY <2>1, LenProperties DEF Octets
<1> DEFINE S == {m \in Nat : m <= n => Len(f[m]) >= m}
<1>1. 0 \in S
  <2>1. 0 \in 0..n
    OBVIOUS
  <2>2. Len(f[0]) \in Nat
    BY <1>0, <2>1
  <2>3. QED
    BY <2>2
<1>2. ASSUME NEW m \in S
      PROVE  m + 1 \in S
  <2>1. CASE m + 1 <= n
    <3>1. m + 1 \in 1..n /\ (m + 1) - 1 = m /\ m \in 0..n /\ m + 1 \in 0..n /\ m \in Nat
      BY <2>1
    <3>0. Len(f[m]) >= m
      BY <2>1
    <3>2. f[m + 1] = f[(m + 1) - 1] \o parts[m + 1]
      BY <3>1 DEF Joins
    <3>3. f[m + 1] = f[m] \o parts[m + 1] /\ f[m] \in Octets /\ parts[m + 1] \in Octets
      BY <3>1, <3>2 DEF Joins
    <3>4. Len(f[m + 1]) = Len(f[m]) + Len(parts[m + 1])
      BY <3>3, Concat
    <3>5. Len(parts[m + 1]) >= 1 /\ Len(parts[m + 1]) \in Nat
      BY <3>1, <3>3, LenProperties DEF Octets
    <3>6. Len(f[m]) \in Nat
      BY <1>0, <3>1
    <3>7. Len(f[m + 1]) >= m + 1
      <4> DEFINE a == Len(f[m])
                 b == Len(parts[m + 1])
                 c == Len(f[m + 1])
      <4>1. a \in Nat /\ b \in Nat /\ m \in Nat /\ a >= m /\ b >= 1 /\ c = a + b
        BY <3>0, <3>1, <3>4, <3>5, <3>6
      <4> HIDE DEF a, b, c, S
      <4>2. c >= m + 1
        BY <4>1
      <4>3. QED
        BY <4>2 DEF c
    <3>8. QED
      BY <3>1, <3>7
  <2>2. CASE ~(m + 1 <= n)
    BY <2>2
  <2>3. QED
    BY <2>1, <2>2
<1>3. S = Nat
  <2>1. S \in SUBSET Nat
    OBVIOUS
  <2> HIDE DEF S
  <2>2. QED
    BY <1>1, <1>2, <2>1, Induction
<1>4. n \in S /\ n \in 0..n
  BY <1>3
<1>5. QED
  BY <1>0, <1>4

(* A frame becomes the byte stream of its NAL units. *)
LEMMA NalEncodingIs ==
  ASSUME NEW n \in 1..4, NEW units \in Seq(NalUnits(n))
  PROVE  transform_nal_encoding(Framed(n, units), n)
           = FlattenSeq([i \in DOMAIN units |-> start_code(n) \o units[i]])
<1> DEFINE m == Len(units)
           A == LengthFields(units, n)
           B == [i \in 1..m |-> start_code(n) \o units[i]]
           y == Framed(n, units)
           P(g) == g = [k \in 0..Len(y) |-> IF k = 0 THEN [ok |-> TRUE, rest |-> y, out |-> <<>>]
                                            ELSE nal_unit(g[k - 1], n)]
           g == CHOOSE h : P(h)
<1>1. y = FlattenSeq(A) /\ A \in [1..m -> Octets] /\ m \in Nat
      /\ \A i \in 1..m : units[i] \in Octets /\ Len(units[i]) <= Longest[n] /\ Len(units[i]) \in Nat
  BY FieldsAre
<1>2. [i \in DOMAIN units |-> start_code(n) \o units[i]] = B
  <2>1. DOMAIN units = 1..m
    BY LenProperties
  <2>2. QED
    BY <2>1
<1>3. \A i \in 1..m : A[i] = Field(units[i], n) /\ B[i] = start_code(n) \o units[i]
  BY DEF LengthFields
<1>4. B \in [1..m -> Octets]
  <2>1. \A i \in 1..m : start_code(n) \o units[i] \in Octets
    BY <1>1, StartCode, Concat
  <2>2. QED
    BY <2>1
<1> HIDE DEF m, A, B, y
<1>5. PICK F : Joins(F, m, A)
  BY <1>1, Joined
<1>6. PICK R : Rests(R, m, A)
  BY <1>1, RestsJoined
<1>7. PICK G : Joins(G, m, B)
  BY <1>1, <1>4, Joined
<1>8. y = R[m] /\ FlattenSeq(B) = G[m] /\ y = F[m]
  <2>1. FlattenSeq(A) = F[m]
    BY <1>1, <1>5, Flattened
  <2>2. F[m] = R[m]
    BY <1>1, <1>5, <1>6, LeftIsRight
  <2>3. FlattenSeq(B) = G[m]
    BY <1>1, <1>4, <1>7, Flattened
  <2>4. QED
    BY <1>1, <2>1, <2>2, <2>3
<1>9. Len(y) \in Nat /\ Len(y) >= m
  <2>1. ASSUME NEW k \in 1..m PROVE Len(A[k]) >= 1
    <3>1. <<>> \in Octets
      BY DEF Octets
    <3>2. Len(Field(units[k], n)) = n + Len(units[k]) /\ Len(units[k]) \in Nat
      BY <1>1, <3>1, FieldIs
    <3>3. QED
      BY <1>3, <3>2
  <2>2. QED
    BY <1>1, <1>5, <1>8, <2>1, AsLong
<1> DEFINE f == [k \in 0..Len(y) |->
                   [ok |-> TRUE, rest |-> IF k <= m THEN R[m - k] ELSE <<>>,
                    out |-> IF k <= m THEN G[k] ELSE G[m]]]
<1>10. f[0] = [ok |-> TRUE, rest |-> y, out |-> <<>>]
  <2>1. 0 \in 0..Len(y) /\ 0 <= m /\ m - 0 = m
    BY <1>1, <1>9
  <2>2. G[0] = <<>>
    BY <1>7 DEF Joins
  <2>3. f[0] = [ok |-> TRUE, rest |-> R[m - 0], out |-> G[0]]
    BY <2>1
  <2> HIDE DEF f
  <2>4. QED
    BY <1>8, <2>1, <2>2, <2>3
<1>11. ASSUME NEW k \in 1..Len(y)
       PROVE  f[k] = nal_unit(f[k - 1], n)
  <2>1. k \in 0..Len(y) /\ k - 1 \in 0..Len(y) /\ k # 0
    BY <1>9
  <2>2. CASE k <= m
    <3>1. k \in 1..m /\ k - 1 <= m /\ m - (k - 1) = (m - k) + 1 /\ (m - k) + 1 \in 1..m
          /\ ((m - k) + 1) - 1 = m - k /\ m - ((m - k) + 1) + 1 = k /\ m - k \in 0..m
          /\ k - 1 \in 0..m
      BY <1>1, <2>1, <2>2
    <3>2. f[k] = [ok |-> TRUE, rest |-> R[m - k], out |-> G[k]]
      BY <2>1, <2>2
    <3>3. f[k - 1] = [ok |-> TRUE, rest |-> R[(m - k) + 1], out |-> G[k - 1]]
      BY <2>1, <3>1
    <3>4. R[(m - k) + 1] = A[m - ((m - k) + 1) + 1] \o R[((m - k) + 1) - 1]
      BY <1>6, <3>1 DEF Rests
    <3>5. R[(m - k) + 1] = Field(units[k], n) \o R[m - k] /\ R[m - k] \in Octets
      <4>1. R[m - k] \in Octets
        BY <1>6, <3>1 DEF Rests
      <4>2. QED
        BY <1>3, <3>1, <3>4, <4>1
    <3>6. G[k] = G[k - 1] \o (start_code(n) \o units[k]) /\ G[k - 1] \in Octets
      BY <1>3, <1>7, <3>1 DEF Joins
    <3>7. nal_unit([ok |-> TRUE, rest |-> Field(units[k], n) \o R[m - k], out |-> G[k - 1]], n)
            = [ok |-> TRUE, rest |-> R[m - k], out |-> G[k - 1] \o (start_code(n) \o units[k])]
      BY <1>1, <3>1, <3>5, <3>6, NalUnitIs
    <3> HIDE DEF f
    <3>8. QED
      BY <3>2, <3>3, <3>5, <3>6, <3>7
  <2>3. CASE ~(k <= m)
    <3>1. f[k] = [ok |-> TRUE, rest |-> <<>>, out |-> G[m]]
      BY <2>1, <2>3
    <3>2. f[k - 1] = [ok |-> TRUE, rest |-> <<>>, out |-> G[m]]
      <4>1. CASE k - 1 <= m
        <5>1. k - 1 = m /\ m - m = 0
          BY <1>1, <2>3, <4>1
        <5>2. R[0] = <<>>
          BY <1>6 DEF Rests
        <5>3. f[k - 1] = [ok |-> TRUE, rest |-> R[m - (k - 1)], out |-> G[k - 1]]
          BY <2>1, <4>1
        <5> HIDE DEF f
        <5>4. QED
          BY <5>1, <5>2, <5>3
      <4>2. CASE ~(k - 1 <= m)
        BY <2>1, <4>2
      <4>3. QED
        BY <4>1, <4>2
    <3> HIDE DEF f
    <3>3. QED
      BY <3>1, <3>2, NoNalUnit
  <2>4. QED
    BY <2>2, <2>3
<1>12. P(f)
  <2>1. \A k \in 0..Len(y) : f[k] = IF k = 0 THEN [ok |-> TRUE, rest |-> y, out |-> <<>>]
                                    ELSE nal_unit(f[k - 1], n)
    <3> SUFFICES ASSUME NEW k \in 0..Len(y)
                 PROVE  f[k] = IF k = 0 THEN [ok |-> TRUE, rest |-> y, out |-> <<>>]
                               ELSE nal_unit(f[k - 1], n)
      OBVIOUS
    <3>1. k = 0 \/ k \in 1..Len(y)
      BY <1>9
    <3> HIDE DEF f
    <3>2. QED
      BY <1>10, <1>11, <3>1
  <2>2. f = [k \in 0..Len(y) |-> f[k]]
    OBVIOUS
  <2> HIDE DEF f
  <2>3. QED
    BY <2>1, <2>2
<1>13. P(g)
  <2> HIDE DEF P, f
  <2>1. QED
    BY <1>12
<1> HIDE DEF f, g
<1>14. g[0] = f[0] /\ \A k \in 1..Len(y) : g[k - 1] = f[k - 1] => g[k] = f[k]
  <2>1. 0 \in 0..Len(y)
    BY <1>9
  <2>2. g[0] = [ok |-> TRUE, rest |-> y, out |-> <<>>]
    BY <1>13, <2>1
  <2>3. ASSUME NEW k \in 1..Len(y), g[k - 1] = f[k - 1]
        PROVE  g[k] = f[k]
    <3>1. k \in 0..Len(y) /\ k # 0
      BY <1>9
    <3>2. g[k] = nal_unit(g[k - 1], n)
      BY <1>13, <3>1
    <3>3. QED
      BY <1>11, <2>3, <3>2
  <2>4. QED
    BY <1>10, <2>2, <2>3
<1>15. g[Len(y)] = f[Len(y)]
  <2> HIDE DEF P
  <2>1. GoTogether(Len(y), f, g)
    BY <1>14 DEF GoTogether
  <2>2. \A k \in 0..Len(y) : f[k] = g[k]
    BY <1>9, <2>1, SameSteps
  <2>3. QED
    BY <1>9, <2>2
<1>16. f[Len(y)] = [ok |-> TRUE, rest |-> <<>>, out |-> G[m]]
  <2>1. Len(y) \in 0..Len(y)
    BY <1>9
  <2>2. CASE Len(y) <= m
    <3>1. Len(y) = m /\ m - m = 0
      BY <1>1, <1>9, <2>2
    <3>2. R[0] = <<>>
      BY <1>6 DEF Rests
    <3>3. f[Len(y)] = [ok |-> TRUE, rest |-> R[m - Len(y)], out |-> G[Len(y)]]
      BY <2>1, <2>2 DEF f
    <3>4. QED
      BY <3>1, <3>2, <3>3
  <2>3. CASE ~(Len(y) <= m)
    BY <2>1, <2>3 DEF f
  <2>4. QED
    BY <2>2, <2>3
<1>17. transform_nal_encoding(y, n)
         = LET end == g[Len(y)]
           IN  IF n < 3 /\ ~(end.ok /\ end.rest = <<>>) THEN y ELSE end.out \o end.rest
  BY DEF transform_nal_encoding, g
<1>18. G[m] \o <<>> = G[m]
  <2>1. G[m] \in Octets
    BY <1>1, <1>7 DEF Joins
  <2>2. QED
    BY <2>1, ConcatEmptySeq DEF Octets
<1>19. transform_nal_encoding(y, n) = G[m]
  <2>1. g[Len(y)] = [ok |-> TRUE, rest |-> <<>>, out |-> G[m]]
    BY <1>15, <1>16
  <2>2. g[Len(y)].ok /\ g[Len(y)].rest = <<>> /\ g[Len(y)].out = G[m]
    BY <2>1
  <2>3. transform_nal_encoding(y, n) = g[Len(y)].out \o g[Len(y)].rest
    BY <1>17, <2>2
  <2>4. QED
    BY <1>18, <2>2, <2>3
<1>20. QED
  BY <1>2, <1>8, <1>19 DEF y

(* The step from the fields that are left to those after the first. *)
TakesSet(n, u, rest, out, tail, extra) ==
  parameter_set([ok |-> TRUE, size |-> Len(Field(u, 2) \o rest) + extra,
                 rest |-> (Field(u, 2) \o rest) \o tail, out |-> out], n)
    = [ok |-> TRUE, size |-> Len(rest) + extra, rest |-> rest \o tail,
       out |-> out \o Field(u, n)]

LEMMA AtParameterSet ==
  ASSUME NEW n \in 1..4, NEW u \in Octets, Len(u) <= Longest[2], NEW rest \in Octets,
         NEW out \in Octets, NEW tail \in Octets, NEW extra \in Nat
  PROVE  TakesSet(n, u, rest, out, tail, extra)
<1> DEFINE a == Field(u, 2)
           left == Len(rest) + extra
<1>1. a \in Octets
  <2>1. 2 \in 1..4
    OBVIOUS
  <2>2. QED
    BY <2>1, FieldIs
<1>2. Len(a) \in Nat /\ Len(rest) \in Nat
  BY <1>1, LenProperties DEF Octets
<1> HIDE DEF a
<1>3. Len(a \o rest) = Len(a) + Len(rest)
  BY <1>1, Concat
<1>4. (a \o rest) \o tail = a \o (rest \o tail)
  BY <1>1, ConcatThree
<1>5. rest \o tail \in Octets
  BY Concat
<1>6. left \in Nat /\ Len(a \o rest) + extra = Len(a) + left
  BY <1>2, <1>3
<1> HIDE DEF left
<1>7. parameter_set([ok |-> TRUE, size |-> Len(a) + left, rest |-> a \o (rest \o tail),
                     out |-> out], n)
        = [ok |-> TRUE, size |-> left, rest |-> rest \o tail, out |-> out \o Field(u, n)]
  BY <1>5, <1>6, ParameterSetIs DEF a
<1>8. parameter_set([ok |-> TRUE, size |-> Len(a \o rest) + extra, rest |-> (a \o rest) \o tail,
                     out |-> out], n)
        = [ok |-> TRUE, size |-> left, rest |-> rest \o tail, out |-> out \o Field(u, n)]
  BY <1>4, <1>6, <1>7
<1>9. QED
  BY <1>8 DEF a, left, TakesSet

(* The parameter sets of a record, each put behind a field of n bytes. *)
LEMMA ParameterSetsIs ==
  ASSUME NEW n \in 1..4, NEW w \in 1..2, NEW sets \in Seq(NalUnits(w)), NEW tail \in Octets,
         NEW extra \in Nat
  PROVE  /\ parameter_sets(Framed(2, sets) \o tail, Len(sets), Len(Framed(2, sets)) + extra, n)
              = [ok |-> TRUE, size |-> extra, rest |-> tail, out |-> Framed(n, sets)]
         /\ Framed(2, sets) \in Octets /\ Framed(n, sets) \in Octets
         /\ Len(Framed(2, sets)) \in Nat /\ Len(Framed(2, sets)) >= Len(sets)
<1> DEFINE m == Len(sets)
           A == LengthFields(sets, 2)
           B == LengthFields(sets, n)
           y == Framed(2, sets)
           first == [ok |-> TRUE, size |-> Len(y) + extra, rest |-> y \o tail, out |-> <<>>]
           P(g) == g = [k \in 0..m |-> IF k = 0 THEN first ELSE parameter_set(g[k - 1], n)]
           g == CHOOSE h : P(h)
<1>0. 2 \in 1..4 /\ w \in 1..4
  OBVIOUS
<1>1. y = FlattenSeq(A) /\ A \in [1..m -> Octets] /\ m \in Nat
      /\ \A i \in 1..m : sets[i] \in Octets /\ Len(sets[i]) <= Longest[w] /\ Len(sets[i]) \in Nat
  BY <1>0, FieldsAre
<1>2. Framed(n, sets) = FlattenSeq(B) /\ B \in [1..m -> Octets]
  BY <1>0, FieldsAre
<1>3. \A i \in 1..m : A[i] = Field(sets[i], 2) /\ B[i] = Field(sets[i], n)
  BY DEF LengthFields
<1>4. \A i \in 1..m : Len(sets[i]) <= Longest[2]
  <2>1. Longest[w] <= Longest[2]
    BY DEF Longest
  <2>2. Longest[w] \in Nat /\ Longest[2] \in Nat
    BY DEF Longest
  <2>3. QED
    BY <1>1, <2>1, <2>2
<1> HIDE DEF m, A, B, y
<1>5. PICK F : Joins(F, m, A)
  BY <1>1, Joined
<1>6. PICK R : Rests(R, m, A)
  BY <1>1, RestsJoined
<1>7. PICK G : Joins(G, m, B)
  BY <1>1, <1>2, Joined
<1>8. y = R[m] /\ FlattenSeq(B) = G[m] /\ y = F[m]
  <2>1. FlattenSeq(A) = F[m]
    BY <1>1, <1>5, Flattened
  <2>2. F[m] = R[m]
    BY <1>1, <1>5, <1>6, LeftIsRight
  <2>3. FlattenSeq(B) = G[m]
    BY <1>1, <1>2, <1>7, Flattened
  <2>4. QED
    BY <1>1, <2>1, <2>2, <2>3
<1>9. Len(y) \in Nat /\ Len(y) >= m
  <2>1. ASSUME NEW k \in 1..m PROVE Len(A[k]) >= 1
    <3>1. <<>> \in Octets
      BY DEF Octets
    <3>2. Len(Field(sets[k], 2)) = 2 + Len(sets[k]) /\ Len(sets[k]) \in Nat
      BY <1>0, <1>1, <1>4, <3>1, FieldIs
    <3>3. QED
      BY <1>3, <3>2
  <2>2. QED
    BY <1>1, <1>5, <1>8, <2>1, AsLong
<1>10. y \in Octets /\ G[m] \in Octets /\ R[0] = <<>> /\ G[0] = <<>>
  <2>1. m \in 0..m
    BY <1>1
  <2>2. QED
    BY <1>6, <1>7, <1>8, <2>1 DEF Rests, Joins
<1> DEFINE f == [k \in 0..m |-> [ok |-> TRUE, size |-> Len(R[m - k]) + extra,
                                 rest |-> R[m - k] \o tail, out |-> G[k]]]
<1>11. f[0] = first
  <2>1. 0 \in 0..m /\ m - 0 = m
    BY <1>1
  <2>2. f[0] = [ok |-> TRUE, size |-> Len(R[m - 0]) + extra, rest |-> R[m - 0] \o tail,
                out |-> G[0]]
    BY <2>1
  <2> HIDE DEF f
  <2>3. QED
    BY <1>8, <1>10, <2>1, <2>2
<1>12. ASSUME NEW k \in 1..m
       PROVE  f[k] = parameter_set(f[k - 1], n)
  <2>1. k \in 0..m /\ k - 1 \in 0..m /\ k # 0 /\ m - (k - 1) = (m - k) + 1 /\ (m - k) + 1 \in 1..m
        /\ ((m - k) + 1) - 1 = m - k /\ m - ((m - k) + 1) + 1 = k /\ m - k \in 0..m
    BY <1>1
  <2>2. f[k] = [ok |-> TRUE, size |-> Len(R[m - k]) + extra, rest |-> R[m - k] \o tail,
                out |-> G[k]]
    BY <2>1
  <2>3. f[k - 1] = [ok |-> TRUE, size |-> Len(R[(m - k) + 1]) + extra,
                    rest |-> R[(m - k) + 1] \o tail, out |-> G[k - 1]]
    BY <2>1
  <2>4. R[(m - k) + 1] = A[m - ((m - k) + 1) + 1] \o R[((m - k) + 1) - 1]
    BY <1>6, <2>1 DEF Rests
  <2>5. R[m - k] \in Octets
    BY <1>6, <2>1 DEF Rests
  <2>6. R[(m - k) + 1] = Field(sets[k], 2) \o R[m - k]
    BY <1>3, <2>1, <2>4
  <2>7. G[k] = G[k - 1] \o Field(sets[k], n) /\ G[k - 1] \in Octets
    BY <1>3, <1>7, <2>1 DEF Joins
  <2>8. sets[k] \in Octets /\ Len(sets[k]) <= Longest[2]
    BY <1>1, <1>4
  <2>9. parameter_set([ok |-> TRUE, size |-> Len(Field(sets[k], 2) \o R[m - k]) + extra,
                       rest |-> (Field(sets[k], 2) \o R[m - k]) \o tail, out |-> G[k - 1]], n)
          = [ok |-> TRUE, size |-> Len(R[m - k]) + extra, rest |-> R[m - k] \o tail,
             out |-> G[k - 1] \o Field(sets[k], n)]
    <3> HIDE DEF f
    <3>1. TakesSet(n, sets[k], R[m - k], G[k - 1], tail, extra)
      BY <2>5, <2>7, <2>8, AtParameterSet
    <3>2. QED
      BY <3>1 DEF TakesSet
  <2> HIDE DEF f
  <2>10. QED
    BY <2>2, <2>3, <2>6, <2>7, <2>9
<1>13. P(f)
  <2>1. \A k \in 0..m : f[k] = IF k = 0 THEN first ELSE parameter_set(f[k - 1], n)
    <3> SUFFICES ASSUME NEW k \in 0..m
                 PROVE  f[k] = IF k = 0 THEN first ELSE parameter_set(f[k - 1], n)
      OBVIOUS
    <3>1. k = 0 \/ k \in 1..m
      BY <1>1
    <3> HIDE DEF f, first
    <3>2. QED
      BY <1>11, <1>12, <3>1
  <2>2. f = [k \in 0..m |-> f[k]]
    OBVIOUS
  <2> HIDE DEF f, first
  <2>3. QED
    BY <2>1, <2>2
<1>14. P(g)
  <2> HIDE DEF P, f
  <2>1. QED
    BY <1>13
<1> HIDE DEF f, g, first
<1>15. f[0] = g[0] /\ \A k \in 1..m : f[k - 1] = g[k - 1] => f[k] = g[k]
  <2>1. 0 \in 0..m
    BY <1>1
  <2>2. g[0] = first
    BY <1>14, <2>1
  <2>3. ASSUME NEW k \in 1..m, f[k - 1] = g[k - 1]
        PROVE  f[k] = g[k]
    <3>1. k \in 0..m /\ k # 0
      BY <1>1
    <3>2. g[k] = parameter_set(g[k - 1], n)
      BY <1>14, <3>1
    <3>3. QED
      BY <1>12, <2>3, <3>2
  <2>4. QED
    BY <1>11, <2>2, <2>3
<1>16. f[m] = g[m]
  <2> HIDE DEF P
  <2>1. GoTogether(m, f, g)
    BY <1>15 DEF GoTogether
  <2>2. \A k \in 0..m : f[k] = g[k]
    BY <1>1, <2>1, SameSteps
  <2>3. QED
    BY <1>1, <2>2
<1>17. f[m] = [ok |-> TRUE, size |-> extra, rest |-> tail, out |-> G[m]]
  <2>1. m \in 0..m /\ m - m = 0
    BY <1>1
  <2>2. f[m] = [ok |-> TRUE, size |-> Len(R[m - m]) + extra, rest |-> R[m - m] \o tail,
                out |-> G[m]]
    BY <2>1 DEF f
  <2>3. <<>> \o tail = tail
    BY ConcatEmptySeq DEF Octets
  <2>4. Len(<<>>) + extra = extra
    OBVIOUS
  <2>5. QED
    BY <1>10, <2>1, <2>2, <2>3, <2>4
<1>18. parameter_sets(y \o tail, m, Len(y) + extra, n) = g[m]
  BY DEF parameter_sets, g, first
<1>19. parameter_sets(y \o tail, m, Len(y) + extra, n)
         = [ok |-> TRUE, size |-> extra, rest |-> tail, out |-> Framed(n, sets)]
  BY <1>2, <1>8, <1>16, <1>17, <1>18
<1>20. Framed(n, sets) \in Octets
  BY <1>2, <1>8, <1>10
<1>21. QED
  BY <1>9, <1>10, <1>19, <1>20 DEF m, y

LEMMA ByteAhead ==
  ASSUME NEW a \in 0..255, NEW more \in Octets
  PROVE  <<a>> \o more \in Octets /\ Len(<<a>> \o more) = 1 + Len(more)
         /\ From(<<a>> \o more, 2) = more /\ (<<a>> \o more)[1] = a /\ <<a>> \in Octets
<1> DEFINE h == <<a>>
<1>1. h \in Octets /\ Len(h) = 1 /\ h[1] = a
  <2>1. h \in Seq(0..255)
    OBVIOUS
  <2>2. QED
    BY <2>1 DEF Octets
<1> HIDE DEF h
<1>2. From(h \o more, Len(h) + 1) = more /\ \A k \in 1..Len(h) : (h \o more)[k] = h[k]
  BY <1>1, Slices
<1>3. h \o more \in Octets /\ Len(h \o more) = 1 + Len(more)
  BY <1>1, Concat
<1>4. From(h \o more, 2) = more /\ (h \o more)[1] = h[1]
  BY <1>1, <1>2
<1>5. QED
  BY <1>1, <1>3, <1>4 DEF h

(* A configuration record becomes its parameter sets. *)
LEMMA RecordTaken ==
  ASSUME NEW n \in 1..4, NEW w \in 1..2, NEW sets \in Seq(NalUnits(w)),
         NEW more \in Seq(NalUnits(w)), Len(sets) \in 1..31, Len(more) \in 1..255,
         Len(sets[1]) >= 4
  PROVE  transform_codec_data(Record(n, sets, more), 0)
           = [ok |-> TRUE, lol |-> n, out |-> Framed(n, sets) \o Framed(n, more)]
<1> DEFINE h == <<1, sets[1][2], sets[1][3], sets[1][4], 251 + n, 224 + Len(sets)>>
           s == Framed(2, sets)
           c == <<Len(more)>>
           p == Framed(2, more)
           tail == c \o p
           rest == s \o tail
           y == h \o rest
<1>1. sets[1][2] \in 0..255 /\ sets[1][3] \in 0..255 /\ sets[1][4] \in 0..255
  <2>1. sets[1] \in Octets /\ Len(sets[1]) \in Nat
    <3>1. w \in 1..4 /\ 1 \in 1..Len(sets)
      OBVIOUS
    <3>2. QED
      BY <3>1, FieldsAre
  <2>2. 2 \in 1..Len(sets[1]) /\ 3 \in 1..Len(sets[1]) /\ 4 \in 1..Len(sets[1])
    BY <2>1
  <2>3. QED
    BY <2>1, <2>2, ElementOfSeq DEF Octets
<1>2. s \in Octets /\ Len(s) \in Nat /\ Len(s) >= Len(sets)
  <2>1. <<>> \in Octets /\ 0 \in Nat
    BY DEF Octets
  <2>2. QED
    BY <2>1, ParameterSetsIs
<1>3. p \in Octets /\ Len(p) \in Nat
  <2>1. <<>> \in Octets /\ 0 \in Nat
    BY DEF Octets
  <2>2. QED
    BY <2>1, ParameterSetsIs
<1>4. Len(more) \in 0..255 /\ 251 + n \in 0..255 /\ 224 + Len(sets) \in 0..255 /\ 1 \in 0..255
  <2>1. Len(more) \in 0..255
    OBVIOUS
  <2>2. 251 + n \in 0..255
    OBVIOUS
  <2>3. 224 + Len(sets) \in 0..255
    <3>1. \A m \in 1..31 : 224 + m \in 0..255
      OBVIOUS
    <3>2. QED
      BY <3>1
  <2>4. 1 \in 0..255
    OBVIOUS
  <2>5. QED
    BY <2>1, <2>2, <2>3, <2>4
<1>5. tail \in Octets /\ Len(tail) = 1 + Len(p) /\ From(tail, 2) = p /\ tail[1] = Len(more)
      /\ c \in Octets
  <2> HIDE DEF p
  <2>1. QED
    BY <1>3, <1>4, ByteAhead
<1> HIDE DEF p, s, tail
<1>6. rest \in Octets /\ Len(rest) = Len(s) + Len(tail)
  BY <1>2, <1>5, Concat
<1> HIDE DEF rest
<1>7. h \in Octets /\ Len(h) = 6 /\ h[1] = 1 /\ h[5] = 251 + n /\ h[6] = 224 + Len(sets)
  <2>1. h \in Seq(0..255)
    BY <1>1, <1>4
  <2>2. Len(h) = 6 /\ h[1] = 1 /\ h[5] = 251 + n /\ h[6] = 224 + Len(sets)
    OBVIOUS
  <2>3. QED
    BY <2>1, <2>2 DEF Octets
<1>8. Record(n, sets, more) = y
  <2>2. Record(n, sets, more) = ((h \o s) \o c) \o p
    BY DEF Record, s, p
  <2> HIDE DEF h, c
  <2>3. h \o s \in Octets
    BY <1>2, <1>7, Concat
  <2>4. ((h \o s) \o c) \o p = (h \o s) \o (c \o p)
    BY <1>3, <1>5, <2>3, ConcatThree
  <2>5. (h \o s) \o tail = h \o (s \o tail)
    BY <1>2, <1>5, <1>7, ConcatThree
  <2>6. QED
    BY <2>2, <2>4, <2>5 DEF tail, rest
<1> HIDE DEF h
<1>9. /\ y \in Octets /\ Len(y) = 6 + Len(rest) /\ From(y, 7) = rest
      /\ y[1] = 1 /\ y[5] = 251 + n /\ y[6] = 224 + Len(sets)
  <2>1. From(h \o rest, Len(h) + 1) = rest /\ \A k \in 1..Len(h) : (h \o rest)[k] = h[k]
    BY <1>6, <1>7, Slices
  <2>2. y \in Octets /\ Len(y) = 6 + Len(rest)
    BY <1>6, <1>7, Concat
  <2>3. Len(h) + 1 = 7 /\ 1 \in 1..Len(h) /\ 5 \in 1..Len(h) /\ 6 \in 1..Len(h)
    BY <1>7
  <2>4. From(y, 7) = rest /\ y[1] = h[1] /\ y[5] = h[5] /\ y[6] = h[6]
    BY <2>1, <2>3
  <2> HIDE DEF y
  <2>5. QED
    BY <1>7, <2>2, <2>4
<1> HIDE DEF y
<1>10. y[6] % 32 = Len(sets) /\ LengthOfLength(y) = n
  <2>1. (224 + Len(sets)) % 32 = Len(sets)
    <3>1. \A m \in 1..31 : (224 + m) % 32 = m
      OBVIOUS
    <3>2. QED
      BY <3>1
  <2>2. 1 + ((251 + n) % 4) = n
    OBVIOUS
  <2>3. QED
    BY <1>9, <2>1, <2>2 DEF LengthOfLength
<1>11. Len(y) - 6 = Len(s) + (1 + Len(p)) /\ ~(Len(y) < 8) /\ 1 + Len(p) \in Nat
  <2> DEFINE d == Len(s)
             e == Len(p)
             m == Len(sets)
  <2>1. d \in Nat /\ e \in Nat /\ m \in 1..31 /\ d >= m
    BY <1>2, <1>3
  <2>2. Len(y) = 6 + (d + (1 + e))
    BY <1>5, <1>6, <1>9
  <2> HIDE DEF d, e, m
  <2>3. Len(y) - 6 = d + (1 + e) /\ ~(Len(y) < 8) /\ 1 + e \in Nat
    BY <2>1, <2>2
  <2>4. QED
    BY <2>3 DEF d, e
<1>12. parameter_sets(s \o tail, Len(sets), Len(s) + (1 + Len(p)), n)
         = [ok |-> TRUE, size |-> 1 + Len(p), rest |-> tail, out |-> Framed(n, sets)]
  BY <1>5, <1>11, ParameterSetsIs DEF s
<1>13. parameter_sets(From(y, 7), y[6] % 32, Len(y) - 6, n)
         = [ok |-> TRUE, size |-> 1 + Len(p), rest |-> tail, out |-> Framed(n, sets)]
  BY <1>9, <1>10, <1>12, <1>11 DEF rest
<1>14. parameter_sets(p \o <<>>, Len(more), Len(p) + 2, n)
         = [ok |-> TRUE, size |-> 2, rest |-> <<>>, out |-> Framed(n, more)]
  <2>1. <<>> \in Octets /\ 2 \in Nat
    BY DEF Octets
  <2>2. QED
    BY <2>1, ParameterSetsIs DEF p
<1>15. parameter_sets(From(tail, 2), tail[1], (1 + Len(p)) + 1, n)
         = [ok |-> TRUE, size |-> 2, rest |-> <<>>, out |-> Framed(n, more)]
  <2>1. p \o <<>> = p
    BY <1>3, ConcatEmptySeq DEF Octets
  <2>2. (1 + Len(p)) + 1 = Len(p) + 2
    BY <1>3
  <2>3. QED
    BY <1>5, <1>14, <2>1, <2>2
<1>16. transform_record(y, n) = [ok |-> TRUE, lol |-> n, out |-> Framed(n, sets) \o Framed(n, more)]
  <2> DEFINE num_sps == parameter_sets(From(y, 7), y[6] % 32, Len(y) - 6, n)
             num_pps == parameter_sets(From(num_sps.rest, 2), num_sps.rest[1], num_sps.size + 1, n)
  <2>1. num_sps.ok /\ num_sps.size = 1 + Len(p) /\ num_sps.rest = tail
        /\ num_sps.out = Framed(n, sets)
    BY <1>13
  <2> HIDE DEF num_sps
  <2>2. num_pps = [ok |-> TRUE, size |-> 2, rest |-> <<>>, out |-> Framed(n, more)]
    BY <1>15, <2>1
  <2>3. num_pps.ok /\ num_pps.out = Framed(n, more)
    BY <2>2
  <2> HIDE DEF num_pps
  <2>4. transform_record(y, n) = [ok |-> TRUE, lol |-> n, out |-> num_sps.out \o num_pps.out]
    BY <2>1, <2>3 DEF transform_record, num_sps, num_pps
  <2>5. QED
    BY <2>1, <2>3, <2>4
<1>17. ~IsByteStream(y)
  BY <1>9 DEF IsByteStream
<1>18. transform_codec_data(y, 0) = transform_record(y, n)
  BY <1>10, <1>17, <1>11 DEF transform_codec_data
<1>19. QED
  BY <1>8, <1>16, <1>18

(* The record the encoder makes is that of its SPS and its PPS. *)
LEMMA TwoBytes ==
  ASSUME NEW v \in Nat, v <= 65535
  PROVE  (v \div 256) % 256 = v \div 256 /\ (v \div 1) % 256 = v % 256
<1>1. v \div 256 \in Nat /\ v \div 256 < 256 /\ v \div 1 = v
  OBVIOUS
<1>2. \A q \in Nat : q < 256 => q % 256 = q
  OBVIOUS
<1>3. QED
  BY <1>1, <1>2

LEMMA SizeIsField ==
  ASSUME NEW s \in Octets, Len(s) <= 65535
  PROVE  Size16(s) = BigEndian(Len(s), 2) /\ Size16(s) \in Octets
<1>1. Len(s) \in Nat
  BY LenProperties DEF Octets
<1>2. (Len(s) \div 256) % 256 = Len(s) \div 256 /\ (Len(s) \div 1) % 256 = Len(s) % 256
  <2> DEFINE v == Len(s)
  <2>1. v \in Nat /\ v <= 65535
    BY <1>1
  <2> HIDE DEF v
  <2>2. (v \div 256) % 256 = v \div 256 /\ (v \div 1) % 256 = v % 256
    BY <2>1, TwoBytes
  <2>3. QED
    BY <2>2 DEF v
<1>3. BigEndian(Len(s), 2) = [k \in 1..2 |-> IF k = 1 THEN (Len(s) \div 256) % 256
                                             ELSE (Len(s) \div 1) % 256]
  <2>1. \A k \in 1..2 : (Len(s) \div <<16777216, 65536, 256, 1>>[4 - 2 + k]) % 256
                          = IF k = 1 THEN (Len(s) \div 256) % 256 ELSE (Len(s) \div 1) % 256
    <3>1. \A k \in 1..2 : k = 1 \/ k = 2
      OBVIOUS
    <3>2. (Len(s) \div <<16777216, 65536, 256, 1>>[4 - 2 + 1]) % 256 = (Len(s) \div 256) % 256
      OBVIOUS
    <3>3. (Len(s) \div <<16777216, 65536, 256, 1>>[4 - 2 + 2]) % 256 = (Len(s) \div 1) % 256
      OBVIOUS
    <3>4. QED
      BY <3>1, <3>2, <3>3
  <2>2. QED
    BY <2>1 DEF BigEndian
<1>4. Size16(s) = BigEndian(Len(s), 2)
  BY <1>2, <1>3 DEF Size16
<1>5. 2 \in 1..4
  OBVIOUS
<1>6. QED
  BY <1>1, <1>4, <1>5, FieldBytes

LEMMA OneField ==
  ASSUME NEW n \in 1..4, NEW w \in 1..4, NEW u \in NalUnits(w)
  PROVE  Framed(n, <<u>>) = Field(u, n)
<1>1. <<u>> \in Seq(NalUnits(w)) /\ Len(<<u>>) = 1 /\ <<u>>[1] = u
  OBVIOUS
<1>2. Framed(n, <<u>>) = FlattenSeq(LengthFields(<<u>>, n)) /\ LengthFields(<<u>>, n) \in [1..1 -> Octets]
  BY <1>1, FieldsAre
<1>3. PICK f : Joins(f, 1, LengthFields(<<u>>, n))
  BY <1>2, Joined
<1>4. FlattenSeq(LengthFields(<<u>>, n)) = f[1]
  BY <1>2, <1>3, Flattened
<1>5. 1 \in 1..1 /\ 1 - 1 = 0
  OBVIOUS
<1>6. f[1] = f[1 - 1] \o LengthFields(<<u>>, n)[1] /\ f[0] = <<>>
  BY <1>3, <1>5 DEF Joins
<1>7. LengthFields(<<u>>, n)[1] = Field(u, n)
  BY <1>1, <1>5 DEF LengthFields
<1>8. Field(u, n) \in Octets
  BY <1>2, <1>5, <1>7
<1>9. <<>> \o Field(u, n) = Field(u, n)
  BY <1>8, ConcatEmptySeq DEF Octets
<1>10. QED
  BY <1>2, <1>4, <1>5, <1>6, <1>7, <1>9

LEMMA CodecDataIs ==
  ASSUME NEW w \in 1..2, NEW s \in NalUnits(w), NEW p \in NalUnits(w), Len(s) >= 4
  PROVE  create_codec_data(s, p) = Record(4, <<s>>, <<p>>)
<1> DEFINE h == <<1, s[2], s[3], s[4], 255, 225>>
           a == Size16(s)
           c == <<1>>
           b == Size16(p)
<1>1. s \in Octets /\ p \in Octets /\ Len(s) <= 65535 /\ Len(p) <= 65535
      /\ Len(s) \in Nat /\ Len(p) \in Nat
  <2>1. s \in Seq(0..255) /\ p \in Seq(0..255) /\ Len(s) <= 65535 /\ Len(p) <= 65535
    <3>1. s \in Seq(0..255) /\ p \in Seq(0..255) /\ Len(s) <= Longest[w] /\ Len(p) <= Longest[w]
      BY DEF NalUnits
    <3>2. Longest[w] \in Nat /\ Longest[w] <= 65535
      BY DEF Longest
    <3>3. Len(s) \in Nat /\ Len(p) \in Nat
      BY <3>1, LenProperties
    <3>4. QED
      BY <3>1, <3>2, <3>3
  <2>2. QED
    BY <2>1, LenProperties DEF Octets
<1>2. Field(s, 2) = a \o s /\ Field(p, 2) = b \o p /\ a \in Octets /\ b \in Octets
  <2>1. a = BigEndian(Len(s), 2) /\ a \in Octets
    BY <1>1, SizeIsField
  <2>2. b = BigEndian(Len(p), 2) /\ b \in Octets
    BY <1>1, SizeIsField
  <2> HIDE DEF a, b
  <2>3. QED
    BY <2>1, <2>2 DEF Field
<1>3. Framed(2, <<s>>) = a \o s /\ Framed(2, <<p>>) = b \o p
  <2>1. 2 \in 1..4 /\ w \in 1..4
    OBVIOUS
  <2>2. Framed(2, <<s>>) = Field(s, 2) /\ Framed(2, <<p>>) = Field(p, 2)
    BY <2>1, OneField
  <2>3. QED
    BY <1>2, <2>2
<1>4. h \in Octets /\ c \in Octets
  <2>1. 2 \in 1..Len(s) /\ 3 \in 1..Len(s) /\ 4 \in 1..Len(s)
    BY <1>1
  <2>2. s[2] \in 0..255 /\ s[3] \in 0..255 /\ s[4] \in 0..255
    BY <1>1, <2>1, ElementOfSeq DEF Octets
  <2>3. h \in Seq(0..255) /\ c \in Seq(0..255)
    BY <2>2
  <2>4. QED
    BY <2>3 DEF Octets
<1>5. Record(4, <<s>>, <<p>>) = ((h \o (a \o s)) \o c) \o (b \o p)
  <2>1. <<s>>[1] = s /\ Len(<<s>>) = 1 /\ Len(<<p>>) = 1 /\ 251 + 4 = 255 /\ 224 + 1 = 225
    OBVIOUS
  <2>2. Record(4, <<s>>, <<p>>)
          = <<1, s[2], s[3], s[4], 251 + 4, 224 + 1>> \o Framed(2, <<s>>) \o c \o Framed(2, <<p>>)
    BY <2>1 DEF Record
  <2>3. QED
    BY <1>3, <2>1, <2>2
<1>6. create_codec_data(s, p) = ((((h \o a) \o s) \o c) \o b) \o p
  BY DEF create_codec_data
<1> HIDE DEF h, a, b, c
<1>7. (h \o a) \o s = h \o (a \o s)
  <2>1. h \in Octets /\ a \in Octets /\ s \in Octets
    BY <1>1, <1>2, <1>4
  <2>2. QED
    BY <2>1, ConcatThree
<1> DEFINE front == ((h \o a) \o s) \o c
<1>8. front \in Octets
  BY <1>1, <1>2, <1>4, Concat
<1>9. (front \o b) \o p = front \o (b \o p)
  <2>1. front \in Octets /\ b \in Octets /\ p \in Octets
    BY <1>1, <1>2, <1>8
  <2> HIDE DEF front
  <2>2. QED
    BY <2>1, ConcatThree
<1>10. QED
  BY <1>5, <1>6, <1>7, <1>9

(* The framing of H.264, for any number of NAL units and parameter sets of *)
(* any length their fields hold and every width of the fields              *)
(* (transform_nal_encoding, transform_codec_data of td_h264dec.c,          *)
(* create_codec_data of td_h264enc.c).                                     *)
THEOREM FramingRight == CodecsSpec => []FramedRight
<1> DEFINE Inv == input.kind = "framing" => input \in InputSet
<1>1. CodecsInit => Inv
  BY DEF CodecsInit
<1>2. Inv /\ [CodecsNext]_<<which, input, vars, encoder>> => Inv'
  BY DEF CodecsNext
<1>3. Inv => FramedRight
  <2> SUFFICES ASSUME input.kind = "framing", input \in InputSet PROVE FramedRight
    BY DEF FramedRight
  <2> DEFINE n == input.lol
             units == input.units
             sets == input.sps
             more == input.pps
             w == Least(n, 2)
             codes == [i \in DOMAIN units |-> start_code(n)]
  <2>1. /\ n \in 1..4 /\ units \in Seq(NalUnits(n)) /\ sets \in Seq(NalUnits(w))
        /\ more \in Seq(NalUnits(w)) /\ Len(sets) \in 1..31 /\ Len(more) \in 1..255
        /\ Len(sets[1]) >= 4
    BY InputAssumption
  <2>2. w \in 1..2
    BY <2>1 DEF Least
  <2>3. \A i \in DOMAIN units : codes[i] = start_code(n)
    OBVIOUS
  <2>4. codes \in [DOMAIN units -> {<<0, 0, 1>>, <<0, 0, 0, 1>>}]
    BY DEF start_code
  <2> HIDE DEF n, units, sets, more, w
  <2>5. transform_nal_encoding(Framed(n, units), n)
          = FlattenSeq([i \in DOMAIN units |-> start_code(n) \o units[i]])
    BY <2>1, NalEncodingIs
  <2>6. [i \in DOMAIN units |-> start_code(n) \o units[i]]
          = [i \in DOMAIN units |-> codes[i] \o units[i]]
    BY <2>3
  <2>7. \E c \in [DOMAIN units -> {<<0, 0, 1>>, <<0, 0, 0, 1>>}] :
          transform_nal_encoding(Framed(n, units), n)
            = FlattenSeq([i \in DOMAIN units |-> c[i] \o units[i]])
    <3> HIDE DEF codes
    <3>1. transform_nal_encoding(Framed(n, units), n)
            = FlattenSeq([i \in DOMAIN units |-> codes[i] \o units[i]])
      BY <2>5, <2>6
    <3>2. QED
      BY <2>4, <3>1
  <2>8. transform_codec_data(Record(n, sets, more), 0)
          = [ok |-> TRUE, lol |-> n, out |-> Framed(n, sets) \o Framed(n, more)]
    BY <2>1, <2>2, RecordTaken
  <2>9. sets[1] \in NalUnits(w) /\ more[1] \in NalUnits(w)
    <3>1. 1 \in 1..Len(sets) /\ 1 \in 1..Len(more)
      <4>1. \A m \in 1..255 : 1 \in 1..m
        OBVIOUS
      <4>2. \A m \in 1..31 : m \in 1..255
        OBVIOUS
      <4>3. QED
        BY <2>1, <4>1, <4>2
    <3>2. QED
      BY <2>1, <3>1, ElementOfSeq
  <2>10. transform_codec_data(Record(4, <<sets[1]>>, <<more[1]>>), 0)
           = [ok |-> TRUE, lol |-> 4, out |-> Framed(4, <<sets[1]>>) \o Framed(4, <<more[1]>>)]
    <3>1. <<sets[1]>> \in Seq(NalUnits(w)) /\ <<more[1]>> \in Seq(NalUnits(w))
          /\ Len(<<sets[1]>>) \in 1..31 /\ Len(<<more[1]>>) \in 1..255
          /\ <<sets[1]>>[1] = sets[1] /\ 4 \in 1..4
      BY <2>9
    <3>2. QED
      BY <2>1, <2>2, <3>1, RecordTaken
  <2>11. create_codec_data(sets[1], more[1]) = Record(4, <<sets[1]>>, <<more[1]>>)
    BY <2>1, <2>2, <2>9, CodecDataIs
  <2>12. QED
    BY <2>7, <2>8, <2>10, <2>11 DEF FramedRight, n, units, sets, more
<1>4. QED
  BY <1>1, <1>2, <1>3, PTL DEF CodecsSpec
=============================================================================
