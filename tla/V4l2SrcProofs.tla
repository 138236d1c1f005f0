--------------------------- MODULE V4l2SrcProofs ---------------------------
(***************************************************************************)
(* The capture for any number of buffers, any devices, any number of lives *)
(* and every fault of the driver, as long as downstream gives its buffers  *)
(* back before the pool goes (what a buffer kept any longer leads to is    *)
(* shown by a counterexample of HeldIsAlive).  What is offered of any      *)
(* device, whatever sizes it has, can be set.                              *)
(***************************************************************************)
EXTENDS V4l2Src, FiniteSetTheorems, WellFoundedInduction, TLAPS

NoneKept == \A c \in Confs : ~c.keeps

(* Where the capture is: without a pool, or with one in use. *)
NoPool == app \in {"closed", "probed", "set"}
Using  == app \in {"capturing", "unlocked", "off"}

(* What the streaming thread has from the driver; what the finalizers of   *)
(* the two threads that hand buffers around are about; what live counts.   *)
Grabbed == IF src \in {"got", "decide"} THEN {buf} ELSE {}
Fins    == {fin["src"], fin["down"]} \ {0}
Counted == held \cup Fins \cup (IF src = "decide" THEN {buf} ELSE {})
Got     == IF src = "got" THEN 1 ELSE 0

Existing == {n \in Buffers : refs[n] = 1}

TypesInv ==
  /\ conf \in Confs
  /\ app \in {"closed", "probed", "set", "ready", "capturing", "unlocked", "off",
              "destroy"}
  /\ src \in {"idle", "poll", "dqbuf", "got", "decide", "failed"}
  /\ refs \in [Buffers -> 0..1] /\ fin \in [Threads -> 0..NumBuffers]
  /\ buf \in 0..NumBuffers /\ trials \in -1..NumTrials /\ lives \in 0..MaxLives
  /\ inPool \subseteq Buffers /\ queued \subseteq Buffers
  /\ filled \subseteq Buffers /\ held \subseteq Buffers
  /\ count \in 0..NumBuffers /\ next \in 0..NumBuffers + 1

FlagsInv == {running, streaming, canPoll, broken} \subseteq BOOLEAN

(* Who may be where while the application starts and stops the capture. *)
PlacesInv ==
  /\ ~Using => held = {} /\ fin["down"] = 0
  /\ app \notin {"capturing", "unlocked"} =>
       src = "idle" /\ ~streaming /\ fin["src"] = 0
  /\ ~streaming => filled = {}
  /\ app = "capturing" => streaming
  /\ Using => running
  /\ app = "destroy" => ~running /\ next >= 1
  /\ app # "destroy" => fin["app"] = 0
  /\ Using \/ app = "ready" => count >= 1
  /\ src \in {"poll", "dqbuf"} => trials >= 0
  /\ src \notin {"idle", "failed"} => fin["src"] = 0 /\ streaming

(* A buffer is in one place at a time, and has its one reference there. *)
OwnedInv ==
  /\ 1..count \subseteq inPool
  /\ Using =>
       /\ held \cup Driver \cup Fins \cup Grabbed \subseteq 1..count
       /\ queued \cap filled = {}
       /\ held \cap Driver = {}
       /\ Grabbed \cap (held \cup Driver \cup Fins) = {}
       /\ Fins \cap (held \cup Driver) = {}
       /\ fin["src"] = fin["down"] => fin["src"] = 0
       /\ \A n \in held \cup Driver \cup Fins \cup Grabbed : refs[n] = 1

(* live counts the buffers that are out, and what the driver has is not    *)
(* among them; it is exact unless the driver loses buffers.                *)
CountsInv ==
  /\ live \in 0..NumBuffers
  /\ app = "ready" => live = count
  /\ Using => /\ Cardinality(Counted) <= live
              /\ live + Cardinality(Driver) + Got <= count
  /\ streaming /\ conf.fault # "eio" => live + Cardinality(Driver) + Got = count

(* The pool has a reference of its own and one for each buffer there is;   *)
(* pool_destroy leaves none before next.                                   *)
RefsInv ==
  /\ poolRefs - Cardinality(Existing) \in {0, 1}
  /\ ~NoPool => poolRefs = Cardinality(Existing) + 1
  /\ NoPool /\ conf.fault # "reqbufs" => poolRefs = Cardinality(Existing)
  /\ poolRefs \in Int
  /\ \A n \in Existing : n <= count
  /\ NoPool => Existing = {}
  /\ app = "ready" => \A n \in 1..count : refs[n] = 1
  /\ app = "destroy" => /\ \A n \in Existing : n >= next \/ n = fin["app"]
                        /\ fin["app"] # 0 => refs[fin["app"]] = 1 /\ fin["app"] < next
  /\ conf.fault # "qbuf" =>
       /\ ~broken
       /\ Using => \A n \in 1..count : refs[n] = 1
       /\ app = "destroy" => \A n \in next..count : refs[n] = 1

(* The driver has a buffer, or the streaming thread gives one back. *)
KeepsInv ==
  streaming /\ conf.fault \notin {"eio", "qbuf"} => Driver # {} \/ InHand # {}

PoolInv == TypesInv /\ FlagsInv /\ PlacesInv /\ OwnedInv /\ CountsInv /\ RefsInv
           /\ KeepsInv

----------------------------------------------------------------------------
(* Cardinalities of sets of buffers. *)
LEMMA BufferSets ==
  ASSUME NEW S \in SUBSET Buffers
  PROVE  IsFiniteSet(S) /\ Cardinality(S) \in 0..NumBuffers
<1>1. /\ IsFiniteSet(Buffers) /\ Cardinality(Buffers) <= NumBuffers
      /\ NumBuffers \in Nat
  BY FS_Interval, V4l2Assumption DEF Buffers
<1>2. QED
  BY <1>1, FS_Subset, FS_CardinalityType

LEMMA OneMore ==
  ASSUME NEW S \in SUBSET Buffers, NEW n \in Buffers, n \notin S
  PROVE  Cardinality(S \cup {n}) = Cardinality(S) + 1
  BY BufferSets, FS_AddElement

LEMMA OneLess ==
  ASSUME NEW S \in SUBSET Buffers, NEW n \in S
  PROVE  Cardinality(S \ {n}) = Cardinality(S) - 1
  BY BufferSets, FS_RemoveElement

LEMMA FirstBuffers ==
  ASSUME NEW k \in 0..NumBuffers
  PROVE  1..k \in SUBSET Buffers /\ Cardinality(1..k) = k
<1>1. k \in Int /\ k >= 0 /\ NumBuffers \in Nat
  BY V4l2Assumption
<1>2. Cardinality(1..k) = k
  BY <1>1, FS_Interval
<1>3. QED
  BY <1>1, <1>2 DEF Buffers

LEMMA NoBuffers == Cardinality({}) = 0
  BY FS_EmptySet

(* Every set the invariant speaks of is one. *)
LEMMA SetsOfBuffers ==
  ASSUME TypesInv
  PROVE  /\ held \in SUBSET Buffers /\ Driver \in SUBSET Buffers
         /\ queued \in SUBSET Buffers /\ filled \in SUBSET Buffers
         /\ Fins \in SUBSET Buffers /\ Existing \in SUBSET Buffers
         /\ Cardinality(Driver) \in 0..NumBuffers
         /\ Cardinality(Existing) \in 0..NumBuffers
         /\ NumBuffers \in Nat
<1>1. Fins \in SUBSET Buffers
  BY V4l2Assumption DEF TypesInv, Fins, Buffers, Threads
<1>2. /\ held \in SUBSET Buffers /\ Driver \in SUBSET Buffers
      /\ queued \in SUBSET Buffers /\ filled \in SUBSET Buffers
      /\ Existing \in SUBSET Buffers
  BY DEF TypesInv, Driver, Existing
<1>3. QED
  BY <1>1, <1>2, BufferSets, V4l2Assumption

----------------------------------------------------------------------------
LEMMA StartsRight == Init => PoolInv
<1> SUFFICES ASSUME Init  PROVE PoolInv
  OBVIOUS
<1>1. Existing = {} /\ Driver = {} /\ Counted = {}
  BY DEF Init, Existing, Driver, Counted, Fins, Threads
<1>2. TypesInv
  BY V4l2Assumption DEF Init, TypesInv, Threads
<1>3. FlagsInv
  <2>1. conf.polls \in BOOLEAN
    BY V4l2Assumption DEF Init
  <2>2. QED
    BY <2>1 DEF Init, FlagsInv
<1>4. PlacesInv /\ KeepsInv
  BY DEF Init, PlacesInv, KeepsInv, Using, Threads
<1>5. OwnedInv
  BY DEF Init, OwnedInv, Using
<1>6. CountsInv /\ RefsInv
  BY <1>1, NoBuffers, V4l2Assumption DEF Init, CountsInv, RefsInv, Using, NoPool
<1>7. QED
  BY <1>2, <1>3, <1>4, <1>5, <1>6 DEF PoolInv

(* Steps that touch neither the pool nor a buffer: probing, setting the    *)
(* format, the streaming thread's waiting, unlocking.                      *)
LEMMA WaitingKeeps ==
  ASSUME PoolInv,
         probe \/ set_capture \/ grab_frame \/ poll \/ Unlock \/ UNCHANGED vars
  PROVE  PoolInv'
<1>1. /\ UNCHANGED <<conf, pool, driver, buf, held>>
      /\ src' = src \/ (src' \notin {"got", "decide"} /\ src \notin {"got", "decide"})
  BY DEF PoolInv, probe, set_capture, grab_frame, poll, Unlock, vars, grabber
<1>2. UNCHANGED <<Driver, Fins, Grabbed, Counted, Got, Existing, InHand>>
  BY <1>1 DEF pool, driver, Driver, Fins, Grabbed, Counted, Got, Existing, InHand
<1>3. app' = app \/ (NoPool /\ NoPool') \/ (app = "capturing" /\ app' = "unlocked")
  BY DEF probe, set_capture, grab_frame, poll, Unlock, vars, control, NoPool
<1>4. next' = next
  BY DEF probe, set_capture, grab_frame, poll, Unlock, vars, control
<1>5. TypesInv'
  <2> USE DEF PoolInv, TypesInv, pool, driver, grabber, control
  <2>1. CASE probe
    BY <2>1, V4l2Assumption DEF probe
  <2>2. CASE set_capture
    BY <2>2 DEF set_capture
  <2>3. CASE grab_frame
    BY <2>3, V4l2Assumption DEF grab_frame
  <2>4. CASE poll \/ Unlock \/ UNCHANGED vars
    BY <2>4 DEF poll, Unlock, vars
  <2>5. QED
    BY <2>1, <2>2, <2>3, <2>4
<1>6. FlagsInv'
  <2>1. canPoll' = canPoll \/ canPoll' = FALSE
    BY DEF probe, set_capture, grab_frame, poll, Unlock, vars, grabber
  <2>2. QED
    BY <1>1, <2>1 DEF PoolInv, FlagsInv, pool, driver
<1>7. PlacesInv'
  <2> USE DEF PoolInv, PlacesInv, Using, NoPool, pool, driver, grabber
  <2>1. CASE probe \/ set_capture \/ Unlock \/ UNCHANGED vars
    <3>1. UNCHANGED grabber
      BY <2>1 DEF probe, set_capture, Unlock, vars
    <3>2. QED
      BY <1>1, <1>3, <1>4, <3>1
  <2>2. CASE grab_frame
    BY <1>1, <1>4, <2>2, V4l2Assumption DEF grab_frame, control
  <2>3. CASE poll
    BY <1>1, <1>4, <2>3 DEF poll, control
  <2>4. QED
    BY <2>1, <2>2, <2>3
<1>8. Using' = Using /\ (app' = "ready" <=> app = "ready")
      /\ (app' = "destroy" <=> app = "destroy") /\ NoPool' = NoPool
  BY <1>3 DEF Using, NoPool
<1>9. OwnedInv'
  BY <1>1, <1>2, <1>8 DEF PoolInv, OwnedInv, pool, driver
<1>10. CountsInv' /\ KeepsInv'
  BY <1>1, <1>2, <1>8 DEF PoolInv, CountsInv, KeepsInv, pool, driver
<1>11. RefsInv'
  BY <1>1, <1>2, <1>4, <1>8 DEF PoolInv, RefsInv, pool
<1>12. QED
  BY <1>5, <1>6, <1>7, <1>9, <1>10, <1>11 DEF PoolInv

(* A new pool has k buffers, which all are in it. *)
LEMMA NewPoolKeeps ==
  ASSUME PoolInv, capture_init
  PROVE  PoolInv'
<1> USE DEF PoolInv
<1>1. /\ app = "set" /\ running' = FALSE /\ next' = 1
      /\ UNCHANGED <<conf, fin, broken, driver, grabber, held, lives>>
      /\ pool_new
  BY DEF capture_init
<1>2. PICK k \in 0..NumBuffers :
        /\ count' = k /\ live' = k /\ inPool' = 1..k
        /\ refs' = [n \in Buffers |-> IF n <= k THEN 1 ELSE 0]
        /\ \/ poolRefs' = k + 1 /\ app' = "ready" /\ k >= 1
           \/ poolRefs' = k + 1 /\ app' = "destroy"
           \/ poolRefs' = k /\ app' = "closed" /\ k = 0
           \/ poolRefs' = k + 1 /\ app' = "closed" /\ k = 0 /\ conf.fault = "reqbufs"
  <2> USE <1>1, V4l2Assumption
  <2>1. CASE \E k \in MinBuffers..NumBuffers : Made(k) /\ app' = "ready"
    BY <2>1 DEF Made
  <2>2. CASE app' = "closed" /\ count' = 0 /\ live' = 0 /\ poolRefs' \in {0, 1}
             /\ (poolRefs' = 1 => conf.fault = "reqbufs")
             /\ refs' = [n \in Buffers |-> 0] /\ inPool' = {}
    <3>1. refs' = [n \in Buffers |-> IF n <= 0 THEN 1 ELSE 0] /\ 1..0 = {}
      BY <2>2 DEF Buffers
    <3>2. QED
      BY <2>2, <3>1
  <2>3. CASE app' = "destroy" /\ \E k \in 0..NumBuffers - 1 : Made(k)
    BY <2>3 DEF Made
  <2>4. QED
    BY <2>1, <2>2, <2>3 DEF pool_new
<1>3. /\ k \in Nat /\ NumBuffers \in Nat /\ k <= NumBuffers
      /\ 1..k \subseteq Buffers /\ Cardinality(1..k) = k
  BY V4l2Assumption, FirstBuffers
<1>4. Existing' = 1..k
  BY <1>2, <1>3 DEF Existing, Buffers
<1>5. ~Using /\ ~Using' /\ app = "set"
  BY <1>1, <1>2 DEF Using
<1>6. TypesInv'
  BY <1>1, <1>2, <1>3 DEF TypesInv, driver, grabber
<1>7. FlagsInv'
  BY <1>1 DEF FlagsInv, driver, grabber
<1>8. PlacesInv'
  BY <1>1, <1>2, <1>5 DEF PlacesInv, driver, grabber, Using
<1>9. OwnedInv' /\ CountsInv' /\ KeepsInv'
  BY <1>1, <1>2, <1>3, <1>5 DEF OwnedInv, CountsInv, KeepsInv, PlacesInv, driver
<1>10. RefsInv'
  <2>1. fin'["app"] = 0 /\ (conf'.fault # "qbuf" => ~broken')
    BY <1>1, <1>5 DEF PlacesInv, RefsInv
  <2>2. \A n \in 1..k : refs'[n] = 1
    BY <1>2, <1>3
  <2>3. QED
    BY <1>1, <1>2, <1>3, <1>4, <1>5, <2>1, <2>2 DEF RefsInv, NoPool
<1>11. QED
  BY <1>6, <1>7, <1>8, <1>9, <1>10

(* The driver is given all the buffers, or the first k. *)
LEMMA CaptureStartKeeps ==
  ASSUME PoolInv, capture_start
  PROVE  PoolInv'
<1> USE DEF PoolInv
<1>1. PICK k \in 0..NumBuffers :
        /\ running' = TRUE /\ queued' = 1..k /\ live' = live - k
        /\ k = count \/ k \in 0..count
        /\ streaming' \in BOOLEAN /\ (streaming' => k = count)
  BY DEF capture_start, buffer_pool_activate, pool_get, start_streaming
<1>2. /\ app = "ready" /\ app' = IF streaming' THEN "capturing" ELSE "unlocked"
      /\ UNCHANGED <<conf, lives, next, refs, inPool, poolRefs, count, fin, broken,
                     filled, grabber, held>>
  BY DEF capture_start
<1>3. /\ held = {} /\ fin = [t \in Threads |-> 0] /\ src = "idle" /\ filled = {}
      /\ live = count /\ count >= 1
  BY <1>2 DEF PlacesInv, CountsInv, Using, TypesInv, Threads
<1>4. /\ k \in Nat /\ count \in Nat /\ k <= count /\ NumBuffers \in Nat
      /\ count <= NumBuffers
      /\ 1..k \subseteq Buffers /\ Cardinality(1..k) = k
  BY <1>1, V4l2Assumption, FirstBuffers DEF TypesInv
<1>5. /\ Driver' = 1..k /\ Fins' = {} /\ Grabbed' = {} /\ Counted' = {} /\ Got' = 0
      /\ UNCHANGED <<Existing, held>>
  BY <1>1, <1>2, <1>3
     DEF Driver, Fins, Grabbed, Counted, Got, Existing, grabber, Threads
<1>6. TypesInv'
  BY <1>1, <1>2, <1>4 DEF TypesInv, grabber
<1>7. FlagsInv'
  BY <1>1, <1>2 DEF FlagsInv, grabber
<1>8. PlacesInv'
  BY <1>1, <1>2, <1>3 DEF PlacesInv, grabber, Using, Threads
<1>9. OwnedInv'
  <2>1. 1..count \subseteq inPool /\ \A n \in 1..k : n \in 1..count
    BY <1>4 DEF OwnedInv
  <2>2. fin["src"] = 0 /\ fin["down"] = 0
    BY <1>3 DEF Threads
  <2>3. \A n \in 1..k : refs'[n] = 1
    BY <1>2, <2>1, <1>4 DEF RefsInv
  <2>4. QED
    BY <1>1, <1>2, <1>3, <1>4, <1>5, <2>1, <2>2, <2>3 DEF OwnedInv
<1>10. CountsInv'
  BY <1>1, <1>2, <1>3, <1>4, <1>5, NoBuffers DEF CountsInv
<1>11. KeepsInv'
  BY <1>1, <1>3, <1>4, <1>5 DEF KeepsInv
<1>12. RefsInv'
  BY <1>1, <1>2, <1>3, <1>5 DEF RefsInv, NoPool, Using, Threads
<1>13. QED
  BY <1>6, <1>7, <1>8, <1>9, <1>10, <1>11, <1>12

----------------------------------------------------------------------------
(* VIDIOC_DQBUF gives the streaming thread a filled buffer.                *)
LEMMA FrameGrabbedKeeps ==
  ASSUME PoolInv, src = "dqbuf", NEW n \in filled,
         filled' = filled \ {n}, buf' = n, src' = "got",
         UNCHANGED <<queued, trials, conf, control, pool, streaming, canPoll, held>>
  PROVE  PoolInv'
<1> USE DEF PoolInv
<1>1. Using /\ app \in {"capturing", "unlocked"} /\ fin["src"] = 0
  BY DEF PlacesInv, Using, TypesInv
<1>2. /\ n \in 1..count /\ n \in Buffers /\ n \in Driver /\ n \notin queued
      /\ n \notin held \cup Fins /\ refs[n] = 1
  BY <1>1 DEF OwnedInv, Driver, TypesInv
<1>3. /\ Driver' = Driver \ {n} /\ Grabbed' = {n} /\ Fins' = Fins
      /\ Counted' = Counted /\ Got = 0 /\ Got' = 1 /\ Existing' = Existing
      /\ Using'
  BY <1>1, <1>2
     DEF Driver, Grabbed, Fins, Counted, Got, Existing, pool, control, Using
<1>4. Cardinality(Driver') = Cardinality(Driver) - 1 /\ Cardinality(Driver) \in Nat
  BY <1>2, <1>3, SetsOfBuffers, OneLess
<1>5. TypesInv'
  BY <1>2 DEF TypesInv, control, pool, Buffers
<1>6. FlagsInv' /\ KeepsInv'
  BY DEF FlagsInv, pool, KeepsInv, InHand
<1>7. PlacesInv'
  BY <1>1 DEF PlacesInv, control, pool, Using
<1>8. OwnedInv'
  BY <1>1, <1>2, <1>3 DEF OwnedInv, pool, control, Using
<1>9. CountsInv'
  BY <1>1, <1>3, <1>4 DEF CountsInv, pool, control, Using, TypesInv
<1>10. RefsInv'
  BY <1>3 DEF RefsInv, pool, control, NoPool, Using
<1>11. QED
  BY <1>5, <1>6, <1>7, <1>8, <1>9, <1>10

(* It gives none; an internal error may lose one. *)
LEMMA ErrorKeeps ==
  ASSUME PoolInv, src = "dqbuf", src' \in {"poll", "failed"},
         trials' = trials \/ (trials' = trials - 1 /\ (trials' = -1 => src' = "failed")),
         src' = "poll" => trials' # trials,
         queued' = queued
           \/ (conf.fault = "eio" /\ \E n \in queued : queued' = queued \ {n}),
         UNCHANGED <<filled, buf, conf, control, pool, streaming, canPoll, held>>
  PROVE  PoolInv'
<1> USE DEF PoolInv
<1>1. Using /\ app \in {"capturing", "unlocked"} /\ fin["src"] = 0 /\ trials >= 0
  BY DEF PlacesInv, Using, TypesInv
<1>2. /\ Driver' \subseteq Driver /\ Grabbed = {} /\ Grabbed' = {} /\ Fins' = Fins
      /\ Counted' = Counted /\ Got = 0 /\ Got' = 0 /\ Existing' = Existing
      /\ Using' /\ queued' \subseteq queued
      /\ (conf.fault # "eio" => Driver' = Driver)
  BY <1>1 DEF Driver, Grabbed, Fins, Counted, Got, Existing, pool, control, Using
<1>3. /\ Cardinality(Driver) \in Nat /\ Cardinality(Driver') \in Nat
      /\ Cardinality(Driver') <= Cardinality(Driver)
  <2>1. Driver \in SUBSET Buffers
    BY SetsOfBuffers
  <2>2. QED
    BY <1>2, <2>1, BufferSets, FS_Subset
<1>4. TypesInv'
  <2>1. trials' \in -1..NumTrials
    BY <1>1, V4l2Assumption DEF TypesInv
  <2>2. QED
    BY <1>1, <1>2, <2>1 DEF TypesInv, control, pool
<1>5. FlagsInv' /\ KeepsInv'
  BY <1>1, <1>2 DEF FlagsInv, pool, KeepsInv, InHand
<1>6. PlacesInv'
  BY <1>1, V4l2Assumption DEF PlacesInv, control, pool, Using, TypesInv
<1>7. OwnedInv'
  BY <1>1, <1>2 DEF OwnedInv, pool, control, Using
<1>8. CountsInv'
  BY <1>1, <1>2, <1>3 DEF CountsInv, pool, control, Using, TypesInv
<1>9. RefsInv'
  BY <1>2 DEF RefsInv, pool, control, NoPool, Using
<1>10. QED
  BY <1>4, <1>5, <1>6, <1>7, <1>8, <1>9

LEMMA DqbufKeeps == ASSUME PoolInv, dqbuf PROVE PoolInv'
<1>1. CASE \E n \in filled : /\ filled' = filled \ {n} /\ buf' = n /\ src' = "got"
                            /\ UNCHANGED <<queued, trials>>
  BY <1>1, FrameGrabbedKeeps DEF dqbuf
<1>2. CASE Retry /\ UNCHANGED <<filled, buf>>
           /\ (queued' = queued
                \/ (conf.fault = "eio" /\ \E n \in queued : queued' = queued \ {n}))
  <2>1. trials' = trials - 1 /\ trials' # trials
        /\ src' = IF trials' = -1 THEN "failed" ELSE "poll"
    BY <1>2 DEF Retry, PoolInv, TypesInv
  <2>2. QED
    BY <1>2, <2>1, ErrorKeeps DEF dqbuf
<1>3. CASE src' = "failed" /\ UNCHANGED <<queued, filled, buf, trials>>
  BY <1>3, ErrorKeeps DEF dqbuf
<1>4. QED
  BY <1>1, <1>2, <1>3 DEF dqbuf

(* gst_v4l2_buffer_pool_dqbuf finds the buffer in the pool and counts it. *)
LEMMA DqbufGotKeeps == ASSUME PoolInv, dqbuf_got PROVE PoolInv'
<1> USE DEF PoolInv
<1>1. /\ src = "got"
      /\ UNCHANGED <<conf, control, refs, inPool, poolRefs, running, count, fin, broken,
                     driver, buf, trials, canPoll, held>>
  BY DEF dqbuf_got
<1>2. Using /\ app \in {"capturing", "unlocked"} /\ fin["src"] = 0
  BY <1>1 DEF PlacesInv, Using, TypesInv
<1>3. /\ buf \in 1..count /\ buf \in inPool /\ buf \in Buffers
      /\ buf \notin held \cup Fins \cup Driver
  <2>1. Grabbed = {buf}
    BY <1>1 DEF Grabbed
  <2>2. QED
    BY <1>2, <2>1 DEF OwnedInv, TypesInv
<1>4. live' = live + 1 /\ src' = "decide"
  BY <1>3 DEF dqbuf_got
<1>5. /\ Driver' = Driver /\ Grabbed' = Grabbed /\ Fins' = Fins
      /\ Counted' = Counted \cup {buf} /\ Got = 1 /\ Got' = 0 /\ Existing' = Existing
      /\ Using' /\ buf \notin Counted /\ Counted \in SUBSET Buffers
  BY <1>1, <1>2, <1>3, <1>4, SetsOfBuffers
     DEF Driver, Grabbed, Fins, Counted, Got, Existing, driver, control, Using
<1>6. /\ Cardinality(Counted') = Cardinality(Counted) + 1
      /\ Cardinality(Counted) \in Nat /\ Cardinality(Driver) \in Nat
  BY <1>3, <1>5, OneMore, BufferSets, SetsOfBuffers
<1>7. TypesInv'
  BY <1>1, <1>4 DEF TypesInv, control, driver
<1>8. FlagsInv' /\ KeepsInv'
  BY <1>1, <1>4 DEF FlagsInv, driver, KeepsInv, InHand
<1>9. PlacesInv'
  BY <1>1, <1>2, <1>4 DEF PlacesInv, control, driver, Using
<1>10. OwnedInv'
  BY <1>1, <1>2, <1>5 DEF OwnedInv, driver
<1>11. CountsInv'
  <2>1. /\ live \in Int /\ live >= 0 /\ count <= NumBuffers
        /\ NumBuffers \in Nat /\ count \in Nat
    BY V4l2Assumption DEF CountsInv, TypesInv
  <2>2. live + 1 <= count /\ live' = live + 1
    BY <1>2, <1>4, <1>5, <1>6, <2>1 DEF CountsInv
  <2>3. live' \in 0..NumBuffers
    BY <2>1, <2>2
  <2>4. /\ Cardinality(Counted') <= live'
        /\ live' + Cardinality(Driver') + Got' <= count'
    BY <1>1, <1>2, <1>5, <1>6, <2>1, <2>2 DEF CountsInv
  <2>5. streaming' /\ conf'.fault # "eio" =>
          live' + Cardinality(Driver') + Got' = count'
    BY <1>1, <1>5, <1>6, <2>1, <2>2 DEF CountsInv, driver
  <2>6. QED
    BY <1>1, <1>2, <2>3, <2>4, <2>5 DEF CountsInv, control, Using
<1>12. RefsInv'
  BY <1>1, <1>5 DEF RefsInv, control, NoPool, Using
<1>13. QED
  BY <1>7, <1>8, <1>9, <1>10, <1>11, <1>12

----------------------------------------------------------------------------
(* Dropping the one reference of a buffer starts its finalizer. *)
LEMMA LastReference ==
  ASSUME NEW t \in Threads, NEW n, refs[n] = 1, Unref(t, n)
  PROVE  /\ fin' = [fin EXCEPT ![t] = n] /\ refs' = refs
         /\ (broken' => broken) /\ broken' \in BOOLEAN
<1>1. fin' = [fin EXCEPT ![t] = n] /\ refs' = refs
  BY DEF Unref
<1>2. broken' = (broken \/ refs[n] = 0) /\ refs[n] # 0
  BY DEF Unref
<1>3. broken' => broken
  BY <1>2
<1>4. broken' \in BOOLEAN
  BY <1>2
<1>5. QED
  BY <1>1, <1>3, <1>4

(* A frame that goes on, or is given back after it was copied. *)
LEMMA HandOutKeeps == ASSUME PoolInv, hand_out PROVE PoolInv'
<1> USE DEF PoolInv
<1>1. /\ src = "decide" /\ src' = "idle" /\ buf' = 0
      /\ UNCHANGED <<conf, control, inPool, poolRefs, running, count, live, driver,
                     trials, canPoll>>
  BY DEF hand_out
<1>2. Using /\ app \in {"capturing", "unlocked"} /\ fin["src"] = 0
  BY <1>1 DEF PlacesInv, Using, TypesInv
<1>3. Grabbed = {buf} /\ buf \in 1..count /\ buf \in Buffers /\ buf # 0
      /\ buf \notin held \cup Fins \cup Driver /\ refs[buf] = 1
  <2>1. Grabbed = {buf}
    BY <1>1 DEF Grabbed
  <2>2. QED
    BY <1>2, <2>1 DEF OwnedInv, TypesInv, Buffers
<1>4. \/ held' = held /\ fin' = [fin EXCEPT !["src"] = buf]
      \/ /\ held' = held \cup {buf} /\ fin' = fin
         /\ count # live
  <2>1. CASE need_copy
    BY <1>3, <2>1, LastReference DEF hand_out, Threads
  <2>2. CASE ~need_copy
    BY <2>2 DEF hand_out, need_copy, available_buffers, CountsInv, TypesInv
  <2>3. QED
    BY <2>1, <2>2
<1>5. refs' = refs /\ (broken' => broken) /\ broken' \in BOOLEAN
  <2>1. CASE need_copy
    BY <1>3, <2>1, LastReference DEF hand_out, Threads
  <2>2. CASE ~need_copy
    BY <2>2 DEF hand_out, FlagsInv
  <2>3. QED
    BY <2>1, <2>2
<1>6. fin'["down"] = fin["down"] /\ fin'["app"] = fin["app"]
      /\ fin' \in [Threads -> 0..NumBuffers]
  BY <1>3, <1>4, V4l2Assumption DEF TypesInv, Threads, Buffers
<1>7. /\ Driver' = Driver /\ Grabbed' = {} /\ held' \cup Fins' = held \cup Fins \cup {buf}
      /\ Counted' = Counted /\ Got = 0 /\ Got' = 0 /\ Existing' = Existing /\ Using'
      /\ held' \subseteq held \cup {buf} /\ Fins' \subseteq Fins \cup {buf}
      /\ held' \cap Fins' = {} /\ (fin'["src"] = fin'["down"] => fin'["src"] = 0)
  <2>1. fin'["src"] \in {0, buf} /\ (held' = held <=> fin'["src"] = buf)
    BY <1>2, <1>3, <1>4 DEF TypesInv, Threads
  <2>2. held \cap Fins = {}
    BY <1>2 DEF OwnedInv
  <2>3. Driver' = Driver /\ Grabbed' = {} /\ Got = 0 /\ Got' = 0 /\ Using'
        /\ Existing' = Existing
    BY <1>1, <1>2, <1>5 DEF Driver, Grabbed, Got, Using, control, driver, Existing
  <2>4. held' \cup Fins' = held \cup Fins \cup {buf}
    BY <1>2, <1>3, <1>4, <1>6, <2>1 DEF Fins
  <2>5. Counted' = Counted
    BY <1>1, <2>4 DEF Counted
  <2>6. held' \subseteq held \cup {buf} /\ Fins' \subseteq Fins \cup {buf}
    BY <1>4, <1>6, <2>1 DEF Fins
  <2>7. buf \notin held' \/ buf \notin Fins'
    BY <1>3, <1>4, <1>6, <2>1 DEF Fins
  <2>8. held' \cap Fins' = {}
    BY <1>3, <2>2, <2>6, <2>7
  <2>9. fin'["src"] = fin'["down"] => fin'["src"] = 0
    <3>1. fin["down"] # buf
      BY <1>3 DEF Fins
    <3>2. QED
      BY <1>6, <2>1, <3>1
  <2>10. QED
    BY <2>3, <2>4, <2>5, <2>6, <2>8, <2>9
<1>8. TypesInv'
  <2>1. buf' \in 0..NumBuffers /\ held' \subseteq Buffers
    <3>1. NumBuffers \in Nat /\ held \subseteq Buffers
      BY V4l2Assumption DEF TypesInv
    <3>2. QED
      BY <1>1, <1>3, <1>7, <3>1
  <2>2. QED
    BY <1>1, <1>5, <1>6, <2>1 DEF TypesInv, control, driver
<1>9. FlagsInv'
  BY <1>1, <1>5 DEF FlagsInv, driver
<1>10. PlacesInv'
  BY <1>1, <1>2, <1>6 DEF PlacesInv, control, driver, Using
<1>11. OwnedInv'
  BY <1>1, <1>2, <1>3, <1>5, <1>7 DEF OwnedInv, driver
<1>12. CountsInv'
  BY <1>1, <1>2, <1>7 DEF CountsInv, driver, control, Using
<1>13. RefsInv'
  BY <1>1, <1>2, <1>5, <1>6, <1>7 DEF RefsInv, control, NoPool, Using
<1>14. KeepsInv'
  <2> SUFFICES ASSUME streaming, conf.fault # "eio", Driver = {}, fin'["src"] = 0
               PROVE  FALSE
    BY <1>1, <1>7 DEF KeepsInv, InHand, driver
  <2>1. count = live
    BY <1>7, NoBuffers DEF CountsInv, TypesInv
  <2>2. QED
    BY <1>2, <1>3, <1>4, <2>1 DEF TypesInv, Threads
<1>15. QED
  BY <1>8, <1>9, <1>10, <1>11, <1>12, <1>13, <1>14

(* Downstream gives a buffer back. *)
LEMMA ReleaseKeeps == ASSUME PoolInv, Release PROVE PoolInv'
<1> USE DEF PoolInv
<1>1. /\ fin["down"] = 0
      /\ UNCHANGED <<conf, control, inPool, poolRefs, running, count, live, driver,
                     grabber>>
  BY DEF Release
<1>2. PICK n \in held : held' = held \ {n} /\ Unref("down", n)
  BY DEF Release
<1>3. Using
  BY DEF PlacesInv
<1>4. n \in 1..count /\ n \in Buffers /\ n # 0 /\ refs[n] = 1
      /\ n \notin Driver \cup Fins \cup Grabbed
  BY <1>3 DEF OwnedInv, TypesInv, Buffers
<1>5. /\ fin' = [fin EXCEPT !["down"] = n] /\ refs' = refs
      /\ (broken' => broken) /\ broken' \in BOOLEAN
  BY <1>2, <1>4, LastReference DEF Threads
<1>6. fin'["down"] = n /\ fin'["src"] = fin["src"] /\ fin'["app"] = fin["app"]
      /\ fin' \in [Threads -> 0..NumBuffers]
  BY <1>4, <1>5, V4l2Assumption DEF TypesInv, Threads, Buffers
<1>7. /\ Driver' = Driver /\ Grabbed' = Grabbed /\ Fins' = Fins \cup {n}
      /\ Counted' = Counted /\ Got' = Got /\ Existing' = Existing /\ Using'
      /\ fin'["src"] # n
  BY <1>1, <1>2, <1>3, <1>4, <1>5, <1>6
     DEF Driver, Grabbed, Fins, Counted, Got, Using, control, driver, grabber, Existing
<1>8. TypesInv'
  BY <1>1, <1>2, <1>5, <1>6 DEF TypesInv, control, driver, grabber
<1>9. FlagsInv' /\ KeepsInv'
  BY <1>1, <1>5, <1>6, <1>7 DEF FlagsInv, driver, grabber, KeepsInv, InHand
<1>10. PlacesInv'
  BY <1>1, <1>3, <1>6 DEF PlacesInv, control, driver, grabber, Using
<1>11. OwnedInv'
  BY <1>1, <1>2, <1>3, <1>4, <1>5, <1>6, <1>7 DEF OwnedInv, driver
<1>12. CountsInv'
  BY <1>1, <1>3, <1>7 DEF CountsInv, driver, control, Using
<1>13. RefsInv'
  BY <1>1, <1>3, <1>5, <1>6, <1>7 DEF RefsInv, control, NoPool, Using
<1>14. QED
  BY <1>8, <1>9, <1>10, <1>11, <1>12, <1>13

(* The driver fills a buffer. *)
LEMMA FillKeeps == ASSUME PoolInv, Fill PROVE PoolInv'
<1> USE DEF PoolInv
<1>1. PICK n \in queued : queued' = queued \ {n} /\ filled' = filled \cup {n}
  BY DEF Fill
<1>2. streaming /\ UNCHANGED <<conf, control, pool, streaming, grabber, held>>
  BY DEF Fill
<1>3. Using /\ app \in {"capturing", "unlocked"}
  BY <1>2 DEF PlacesInv, Using, TypesInv
<1>4. UNCHANGED <<Driver, Grabbed, Fins, Counted, Got, Existing, InHand>> /\ Using'
  BY <1>1, <1>2, <1>3
     DEF Driver, Grabbed, Fins, Counted, Got, Existing, InHand, pool, grabber, control,
         Using
<1>5. TypesInv' /\ FlagsInv' /\ KeepsInv'
  BY <1>1, <1>2, <1>4 DEF TypesInv, FlagsInv, KeepsInv, pool, grabber, control
<1>6. PlacesInv'
  BY <1>2, <1>3 DEF PlacesInv, pool, grabber, control, Using
<1>7. OwnedInv'
  BY <1>1, <1>2, <1>3, <1>4 DEF OwnedInv, pool
<1>8. CountsInv' /\ RefsInv'
  BY <1>2, <1>3, <1>4 DEF CountsInv, RefsInv, pool, control, Using, NoPool
<1>9. QED
  BY <1>5, <1>6, <1>7, <1>8

----------------------------------------------------------------------------
(* Streaming is stopped, or refuses to be. *)
LEMMA CaptureStopKeeps == ASSUME PoolInv, capture_stop PROVE PoolInv'
<1> USE DEF PoolInv
<1>1. /\ app = "unlocked" /\ src \in {"idle", "failed"} /\ fin["src"] = 0
      /\ IF streaming' THEN UNCHANGED <<app, src>> ELSE app' = "off" /\ src' = "idle"
      /\ UNCHANGED <<conf, offered, fmt, lives, next, pool, buf, trials, canPoll, held>>
  BY DEF capture_stop
<1>2. \/ streaming' = FALSE /\ queued' = {} /\ filled' = {}
      \/ UNCHANGED driver
  BY DEF capture_stop, stop_streaming
<1>3. Using /\ Using'
  BY <1>1 DEF Using
<1>4. CASE UNCHANGED driver /\ streaming
  <2>1. UNCHANGED <<app, src, queued, filled, streaming>>
    BY <1>1, <1>4 DEF driver
  <2>2. UNCHANGED <<Driver, Grabbed, Fins, Counted, Got, Existing, InHand>>
    BY <1>1, <2>1 DEF Driver, Grabbed, Fins, Counted, Got, Existing, InHand, pool
  <2>3. TypesInv' /\ FlagsInv' /\ PlacesInv'
    BY <1>1, <1>3, <2>1 DEF TypesInv, FlagsInv, PlacesInv, pool, Using
  <2>4. OwnedInv' /\ CountsInv' /\ RefsInv' /\ KeepsInv'
    BY <1>1, <1>3, <2>1, <2>2
       DEF OwnedInv, CountsInv, RefsInv, KeepsInv, pool, Using, NoPool
  <2>5. QED
    BY <2>3, <2>4
<1>5. CASE streaming' = FALSE /\ queued' \subseteq queued /\ filled' = {}
           /\ (queued' = {} \/ UNCHANGED driver)
  <2>1. /\ Driver' \subseteq Driver /\ Grabbed = {} /\ Grabbed' = {} /\ Fins' = Fins
        /\ Counted' = Counted /\ Got = 0 /\ Got' = 0 /\ Existing' = Existing
        /\ app' = "off" /\ src' = "idle"
    BY <1>1, <1>5 DEF Driver, Grabbed, Fins, Counted, Got, Existing, pool
  <2>2. /\ Cardinality(Driver) \in Nat /\ Cardinality(Driver') \in Nat
        /\ Cardinality(Driver') <= Cardinality(Driver)
    <3>1. Driver \in SUBSET Buffers
      BY SetsOfBuffers
    <3>2. QED
      BY <2>1, <3>1, BufferSets, FS_Subset
  <2>3. TypesInv' /\ FlagsInv'
    BY <1>1, <1>5, <2>1 DEF TypesInv, FlagsInv, pool
  <2>4. PlacesInv' /\ KeepsInv'
    BY <1>1, <1>3, <1>5, <2>1 DEF PlacesInv, KeepsInv, pool, Using
  <2>5. OwnedInv'
    BY <1>1, <1>3, <1>5, <2>1 DEF OwnedInv, pool
  <2>6. CountsInv'
    BY <1>1, <1>3, <1>5, <2>1, <2>2 DEF CountsInv, pool, TypesInv
  <2>7. RefsInv'
    BY <1>1, <1>3, <2>1 DEF RefsInv, pool, NoPool, Using
  <2>8. QED
    BY <2>3, <2>4, <2>5, <2>6, <2>7
<1>6. CASE UNCHANGED driver /\ ~streaming
  BY <1>5, <1>6 DEF driver, FlagsInv, PlacesInv
<1>7. QED
  BY <1>2, <1>4, <1>5, <1>6

LEMMA CaptureDeinitKeeps == ASSUME NoneKept, PoolInv, capture_deinit PROVE PoolInv'
<1> USE DEF PoolInv
<1>1. /\ app = "off" /\ held = {} /\ fin["down"] = 0
      /\ running' = FALSE /\ app' = "destroy" /\ next' = 1
      /\ UNCHANGED <<conf, offered, fmt, lives, refs, inPool, poolRefs, count, live, fin,
                     broken, driver, grabber, held>>
  BY DEF capture_deinit, NoneKept, TypesInv
<1>2. Using /\ ~Using' /\ fin["app"] = 0 /\ ~streaming
  BY <1>1 DEF Using, PlacesInv
<1>3. Existing' = Existing
  BY <1>1 DEF Existing
<1>4. TypesInv' /\ FlagsInv'
  <2>1. next' \in 0..NumBuffers + 1
    BY <1>1, V4l2Assumption
  <2>2. TypesInv'
    BY <1>1, <2>1 DEF TypesInv, driver, grabber
  <2>3. FlagsInv'
    BY <1>1 DEF FlagsInv, driver, grabber
  <2>4. QED
    BY <2>2, <2>3
<1>5. PlacesInv' /\ KeepsInv'
  BY <1>1, <1>2 DEF PlacesInv, KeepsInv, driver, grabber, Using
<1>6. OwnedInv' /\ CountsInv'
  BY <1>1, <1>2 DEF OwnedInv, CountsInv, driver
<1>7. RefsInv'
  <2>1. \A n \in Existing : n >= 1
    BY DEF Existing, Buffers
  <2>2. QED
    BY <1>1, <1>2, <1>3, <2>1 DEF RefsInv, NoPool, Using
<1>8. QED
  BY <1>4, <1>5, <1>6, <1>7

(* The pool drops its reference of the next buffer, or its own when it has *)
(* been through them all.                                                  *)
LEMMA PoolDestroyKeeps == ASSUME PoolInv, pool_destroy PROVE PoolInv'
<1> USE DEF PoolInv
<1>1. /\ app = "destroy" /\ fin["app"] = 0
      /\ UNCHANGED <<conf, offered, fmt, lives, inPool, running, count, live, driver,
                     grabber, held>>
  BY DEF pool_destroy
<1>2. /\ ~Using /\ held = {} /\ fin["down"] = 0 /\ fin["src"] = 0 /\ src = "idle"
      /\ ~streaming /\ next >= 1 /\ next \in Int /\ count \in Nat
      /\ NumBuffers \in Nat /\ count <= NumBuffers
  BY <1>1, V4l2Assumption DEF PlacesInv, Using, TypesInv
<1>3. CASE next <= count
  <2>1. /\ next \in Buffers /\ next \in 1..count /\ next \in inPool /\ next # 0
    BY <1>2, <1>3 DEF OwnedInv, Buffers
  <2>2. Unref("app", next) /\ next' = next + 1 /\ UNCHANGED <<poolRefs, app>>
    BY <1>3, <2>1 DEF pool_destroy
  <2>3. CASE refs[next] = 1
    <3>1. /\ fin' = [fin EXCEPT !["app"] = next] /\ refs' = refs
          /\ (broken' => broken) /\ broken' \in BOOLEAN
      BY <2>2, <2>3, LastReference DEF Threads
    <3>2. /\ fin'["app"] = next /\ fin'["src"] = 0 /\ fin'["down"] = 0
          /\ fin' \in [Threads -> 0..NumBuffers] /\ Existing' = Existing
      BY <1>2, <2>1, <3>1 DEF TypesInv, Threads, Buffers, Existing
    <3>3. TypesInv' /\ FlagsInv'
      BY <1>1, <1>2, <1>3, <2>2, <3>1, <3>2
         DEF TypesInv, FlagsInv, driver, grabber
    <3>4. PlacesInv' /\ KeepsInv' /\ OwnedInv' /\ CountsInv'
      BY <1>1, <1>2, <2>2, <3>1, <3>2
         DEF PlacesInv, KeepsInv, OwnedInv, CountsInv, driver, grabber, Using
    <3>5. RefsInv'
      <4>1. \A n \in Existing : n >= next /\ n \in Int
        BY <1>1 DEF RefsInv, Existing, Buffers
      <4>2. \A n \in Existing' : n >= next' \/ n = fin'["app"]
        BY <1>2, <2>2, <3>2, <4>1
      <4>3. conf.fault # "qbuf" => ~broken' /\ \A n \in next'..count : refs'[n] = 1
        <5> SUFFICES ASSUME conf.fault # "qbuf"
                     PROVE  ~broken' /\ \A n \in next'..count : refs'[n] = 1
          OBVIOUS
        <5>1. \A n \in next'..count : n \in next..count
          BY <1>2, <2>2
        <5>2. QED
          BY <1>1, <3>1, <5>1 DEF RefsInv
      <4>4. fin'["app"] < next' /\ refs'[fin'["app"]] = 1
        BY <1>2, <2>2, <2>3, <3>1, <3>2
      <4>5. QED
        BY <1>1, <2>2, <3>2, <4>2, <4>3, <4>4 DEF RefsInv, NoPool, Using
    <3>6. QED
      BY <3>3, <3>4, <3>5
  <2>4. CASE refs[next] # 1
    <3>1. refs[next] = 0
      BY <2>1, <2>4 DEF TypesInv
    <3>2. /\ fin' = fin /\ refs' = [refs EXCEPT ![next] = 0] /\ broken' = TRUE
      <4>1. broken' = (broken \/ refs[next] = 0)
        BY <2>2 DEF Unref
      <4>2. fin' = fin /\ refs' = [refs EXCEPT ![next] = 0]
        BY <2>2, <3>1 DEF Unref
      <4>3. QED
        BY <3>1, <4>1, <4>2
    <3>3. refs' = refs
      BY <2>1, <3>1, <3>2 DEF TypesInv
    <3>4. Existing' = Existing
      BY <3>3 DEF Existing
    <3>5. TypesInv' /\ FlagsInv'
      <4>1. next' \in 0..NumBuffers + 1 /\ app' = app
        BY <1>2, <1>3, <2>2
      <4>2. TypesInv'
        BY <1>1, <3>2, <3>3, <4>1 DEF TypesInv, driver, grabber
      <4>3. FlagsInv'
        BY <1>1, <3>2 DEF FlagsInv, driver, grabber
      <4>4. QED
        BY <4>2, <4>3
    <3>6. PlacesInv' /\ KeepsInv' /\ OwnedInv' /\ CountsInv'
      BY <1>1, <1>2, <2>2, <3>2, <3>3
         DEF PlacesInv, KeepsInv, OwnedInv, CountsInv, driver, grabber, Using
    <3>7. RefsInv'
      <4>1. conf.fault = "qbuf"
        BY <1>1, <1>2, <1>3, <2>1, <3>1 DEF RefsInv
      <4>2. \A n \in Existing : n >= next /\ n \in Int /\ n # next
        BY <1>1, <3>1 DEF RefsInv, Existing, Buffers
      <4>3. \A n \in Existing' : n >= next'
        BY <1>2, <2>2, <3>4, <4>2
      <4>4. QED
        BY <1>1, <2>2, <3>2, <3>4, <4>1, <4>3 DEF RefsInv, NoPool, Using
    <3>8. QED
      BY <3>5, <3>6, <3>7
  <2>5. QED
    BY <2>3, <2>4
<1>4. CASE ~(next <= count)
  <2>1. poolRefs' = poolRefs - 1 /\ app' = "closed" /\ UNCHANGED <<refs, fin, broken, next>>
    BY <1>4 DEF pool_destroy
  <2>2. Existing = {} /\ Existing' = {}
    <3>1. \A n \in Existing : n >= next /\ n <= count /\ n \in Int
      BY <1>1 DEF RefsInv, Existing, Buffers
    <3>2. QED
      BY <1>2, <1>4, <2>1, <3>1 DEF Existing
  <2>3. TypesInv' /\ FlagsInv'
    BY <1>1, <2>1 DEF TypesInv, FlagsInv, driver, grabber
  <2>4. PlacesInv' /\ KeepsInv' /\ OwnedInv' /\ CountsInv'
    BY <1>1, <1>2, <2>1
       DEF PlacesInv, KeepsInv, OwnedInv, CountsInv, driver, grabber, Using
  <2>5. RefsInv'
    BY <1>1, <2>1, <2>2, NoBuffers DEF RefsInv, NoPool, Using
  <2>6. QED
    BY <2>3, <2>4, <2>5
<1>5. QED
  BY <1>3, <1>4

(* The finalizer of pool_destroy's thread: the buffer is gone. *)
LEMMA GoneKeeps == ASSUME PoolInv, finalize("app") PROVE PoolInv'
<1> USE DEF PoolInv
<1> DEFINE n == fin["app"]
<1>1. app = "destroy" /\ n # 0 /\ ~running
  BY DEF finalize, PlacesInv
<1>2. /\ refs[n] = 1 /\ n \in Buffers /\ n < next /\ next >= 1
      /\ n \in Int /\ next \in Int
  BY <1>1, V4l2Assumption DEF RefsInv, TypesInv, Buffers, Threads, PlacesInv
<1>3. /\ refs' = [refs EXCEPT ![n] = 0] /\ poolRefs' = poolRefs - 1
      /\ fin' = [fin EXCEPT !["app"] = 0]
      /\ UNCHANGED <<broken, queued, live, inPool, conf, control, running, count, filled,
                     streaming, grabber, held>>
  BY <1>1, <1>2 DEF finalize, Requeues
<1>4. fin'["app"] = 0 /\ fin'["src"] = fin["src"] /\ fin'["down"] = fin["down"]
      /\ fin' \in [Threads -> 0..NumBuffers]
  BY <1>3, V4l2Assumption DEF TypesInv, Threads
<1>5. /\ refs' \in [Buffers -> 0..1] /\ refs'[n] = 0
      /\ \A m \in Buffers : m # n => refs'[m] = refs[m]
  BY <1>2, <1>3 DEF TypesInv
<1>6. Existing' = Existing \ {n} /\ n \in Existing
  BY <1>2, <1>5 DEF Existing
<1>7. /\ Cardinality(Existing') = Cardinality(Existing) - 1
      /\ Cardinality(Existing) \in Nat
  BY <1>6, SetsOfBuffers, OneLess
<1>8. ~Using /\ ~Using' /\ app' = "destroy" /\ ~streaming
  BY <1>1, <1>3 DEF Using, control, PlacesInv
<1>9. TypesInv'
  BY <1>3, <1>4, <1>5 DEF TypesInv, control, grabber
<1>10. FlagsInv'
  BY <1>3 DEF FlagsInv, grabber
<1>11. PlacesInv' /\ KeepsInv'
  BY <1>1, <1>3, <1>4, <1>8 DEF PlacesInv, KeepsInv, control, grabber, Using
<1>12. OwnedInv' /\ CountsInv'
  BY <1>3, <1>8 DEF OwnedInv, CountsInv
<1>13. RefsInv'
  <2>1. poolRefs' = Cardinality(Existing') + 1
    BY <1>1, <1>3, <1>7 DEF RefsInv, NoPool
  <2>2. \A m \in Existing' : m >= next' /\ m <= count'
    BY <1>1, <1>3, <1>6 DEF RefsInv, control
  <2>3. conf'.fault # "qbuf" => ~broken' /\ \A m \in next'..count' : refs'[m] = 1
    <3> SUFFICES ASSUME conf.fault # "qbuf"
                 PROVE  ~broken' /\ \A m \in next..count : refs'[m] = 1
      BY <1>3 DEF control
    <3>1. \A m \in next..count : m \in Buffers /\ m # n
      BY <1>2, V4l2Assumption DEF TypesInv, Buffers
    <3>2. QED
      BY <1>1, <1>3, <1>5, <3>1 DEF RefsInv
  <2>4. Cardinality(Existing') \in Int /\ poolRefs' \in Int
    BY <1>7, <2>1
  <2>5. ~NoPool' /\ app' # "ready"
    BY <1>8 DEF NoPool
  <2>6. poolRefs' - Cardinality(Existing') = 1
    BY <2>1, <2>4
  <2>7. QED
    BY <1>4, <1>8, <2>1, <2>2, <2>3, <2>4, <2>5, <2>6 DEF RefsInv
<1>14. QED
  BY <1>9, <1>10, <1>11, <1>12, <1>13

(* The finalizer of a thread that hands buffers around, while the capture  *)
(* is on: the driver takes the buffer, or it is gone.                      *)
LEMMA RequeueKeeps ==
  ASSUME PoolInv, NEW t \in {"src", "down"}, finalize(t)
  PROVE  PoolInv'
<1> USE DEF PoolInv
<1> DEFINE n == fin[t]
<1>1. n # 0 /\ Using /\ running /\ n \in Fins /\ t \in Threads
  BY DEF finalize, PlacesInv, Using, TypesInv, Fins, Threads
<1>2. /\ refs[n] = 1 /\ n \in 1..count /\ n \in Buffers
      /\ n \notin held \cup Driver \cup Grabbed
  BY <1>1, SetsOfBuffers DEF OwnedInv
<1>3. /\ qbuf(n) /\ inPool' = inPool \cup {n} /\ fin' = [fin EXCEPT ![t] = 0]
      /\ UNCHANGED <<broken, conf, control, running, count, filled, streaming, grabber,
                     held>>
  BY <1>1, <1>2 DEF finalize, Requeues
<1>4. /\ fin' \in [Threads -> 0..NumBuffers] /\ fin'[t] = 0
      /\ \A s \in Threads : s # t => fin'[s] = fin[s]
  BY <1>3, V4l2Assumption DEF TypesInv, Threads
<1>5. fin["src"] = fin["down"] => fin["src"] = 0
  BY <1>1 DEF OwnedInv
<1>6. /\ fin'["src"] = 0 \/ fin'["src"] = fin["src"]
      /\ fin'["down"] = 0 \/ fin'["down"] = fin["down"]
      /\ fin'["app"] = fin["app"]
  BY <1>4 DEF Threads
<1>7. Fins' = Fins \ {n}
  <2>1. CASE t = "src"
    BY <1>1, <1>4, <1>5, <2>1 DEF Fins, Threads
  <2>2. CASE t = "down"
    BY <1>1, <1>4, <1>5, <2>2 DEF Fins, Threads
  <2>3. QED
    BY <2>1, <2>2
<1>8. /\ Grabbed' = Grabbed /\ Got' = Got /\ Using' /\ app' = app
      /\ held' = held /\ src' = src /\ buf' = buf /\ next' = next
  BY <1>1, <1>3 DEF Grabbed, Got, Using, control, grabber
<1>9. Counted' = Counted \ {n} /\ n \in Counted /\ Counted \in SUBSET Buffers
  <2>1. src = "decide" => buf \in Grabbed
    BY DEF Grabbed
  <2>2. Grabbed \subseteq 1..count /\ 1..count \subseteq Buffers
    BY <1>1, V4l2Assumption DEF OwnedInv, TypesInv, Buffers
  <2>3. QED
    BY <1>1, <1>2, <1>7, <1>8, <2>1, <2>2, SetsOfBuffers DEF Counted
<1>10. /\ Cardinality(Counted') = Cardinality(Counted) - 1
       /\ Cardinality(Counted) \in Nat /\ Cardinality(Counted') \in Nat
  BY <1>9, OneLess, BufferSets
<1>11. Cardinality(Counted) <= live /\ live \in Int /\ count \in Int
       /\ live + Cardinality(Driver) + Got <= count /\ Cardinality(Driver) \in Int
       /\ Got \in Int /\ live <= NumBuffers /\ NumBuffers \in Nat
  BY <1>1, SetsOfBuffers DEF CountsInv, TypesInv, Got
<1>12. FlagsInv'
  BY <1>3 DEF FlagsInv, grabber
<1>13. PlacesInv'
  <2>1. trials' = trials /\ app \in {"capturing", "unlocked", "off"}
    BY <1>1, <1>3 DEF grabber, Using
  <2>2. fin'["down"] # 0 => fin["down"] # 0
    BY <1>6
  <2>3. fin'["src"] # 0 => fin["src"] # 0
    BY <1>6
  <2>4. QED
    BY <1>1, <1>3, <1>6, <1>8, <2>1, <2>2, <2>3 DEF PlacesInv
<1>14. CASE /\ queued' = queued \cup {n} /\ live' = live - 1
            /\ UNCHANGED <<refs, poolRefs>>
  <2>1. Driver' = Driver \cup {n} /\ Existing' = Existing
    BY <1>3, <1>14 DEF Driver, Existing
  <2>2. Cardinality(Driver') = Cardinality(Driver) + 1
    BY <1>2, <2>1, OneMore, SetsOfBuffers
  <2>3. TypesInv'
    BY <1>2, <1>3, <1>4, <1>8, <1>14 DEF TypesInv, control, grabber
  <2>4. OwnedInv'
    <3>1. /\ queued' \cap filled' = {} /\ held' \cap Driver' = {}
          /\ Grabbed' \cap (held' \cup Driver' \cup Fins') = {}
          /\ Fins' \cap (held' \cup Driver') = {}
      BY <1>1, <1>2, <1>3, <1>7, <1>8, <1>14, <2>1 DEF OwnedInv, Driver
    <3>2. fin'["src"] = fin'["down"] => fin'["src"] = 0
      BY <1>5, <1>6
    <3>3. /\ held' \cup Driver' \cup Fins' \cup Grabbed' \subseteq 1..count
          /\ \A m \in held' \cup Driver' \cup Fins' \cup Grabbed' : refs'[m] = 1
      BY <1>1, <1>2, <1>7, <1>8, <1>14, <2>1 DEF OwnedInv
    <3>4. 1..count \subseteq inPool' /\ count' = count
      BY <1>3 DEF OwnedInv
    <3>5. QED
      BY <3>1, <3>2, <3>3, <3>4 DEF OwnedInv
  <2>5. CountsInv'
    <3>1. live' \in 0..NumBuffers /\ Cardinality(Counted') <= live'
          /\ live' + Cardinality(Driver') + Got' = live + Cardinality(Driver) + Got
      BY <1>8, <1>10, <1>11, <1>14, <2>2
    <3>2. QED
      BY <1>1, <1>3, <1>8, <1>11, <3>1 DEF CountsInv, Using
  <2>6. RefsInv'
    BY <1>1, <1>3, <1>6, <1>8, <1>14, <2>1 DEF RefsInv, NoPool, Using
  <2>7. KeepsInv'
    BY <2>1 DEF KeepsInv
  <2>8. QED
    BY <1>12, <1>13, <2>3, <2>4, <2>5, <2>6, <2>7
<1>15. CASE /\ conf.fault = "qbuf" /\ refs' = [refs EXCEPT ![n] = 0]
            /\ poolRefs' = poolRefs - 1 /\ UNCHANGED <<queued, live>>
  <2>1. /\ refs' \in [Buffers -> 0..1] /\ refs'[n] = 0
        /\ \A m \in Buffers : m # n => refs'[m] = refs[m]
    BY <1>2, <1>15 DEF TypesInv
  <2>2. Driver' = Driver /\ Existing' = Existing \ {n} /\ n \in Existing
    BY <1>2, <1>3, <1>15, <2>1 DEF Driver, Existing
  <2>3. /\ Cardinality(Existing') = Cardinality(Existing) - 1
        /\ Cardinality(Existing) \in Nat
    BY <2>2, SetsOfBuffers, OneLess
  <2>4. TypesInv'
    BY <1>2, <1>3, <1>4, <1>8, <1>15, <2>1 DEF TypesInv, control, grabber
  <2>5. OwnedInv'
    <3>1. /\ queued' \cap filled' = {} /\ held' \cap Driver' = {}
          /\ Grabbed' \cap (held' \cup Driver' \cup Fins') = {}
          /\ Fins' \cap (held' \cup Driver') = {}
      BY <1>1, <1>3, <1>7, <1>8, <1>15, <2>2 DEF OwnedInv
    <3>2. fin'["src"] = fin'["down"] => fin'["src"] = 0
      BY <1>5, <1>6
    <3>3. held \cup Driver \cup Fins \cup Grabbed \subseteq 1..count
      BY <1>1 DEF OwnedInv
    <3>4. 1..count \subseteq Buffers
      BY V4l2Assumption DEF TypesInv, Buffers
    <3>5. \A m \in held' \cup Driver' \cup Fins' \cup Grabbed' :
            m # n /\ m \in held \cup Driver \cup Fins \cup Grabbed
      BY <1>2, <1>7, <1>8, <2>2
    <3>6. \A m \in held' \cup Driver' \cup Fins' \cup Grabbed' :
            m \in 1..count /\ refs'[m] = 1
      BY <1>1, <2>1, <3>3, <3>4, <3>5 DEF OwnedInv
    <3>7. 1..count \subseteq inPool' /\ count' = count
      BY <1>3 DEF OwnedInv
    <3>8. QED
      BY <3>1, <3>2, <3>6, <3>7 DEF OwnedInv
  <2>6. CountsInv'
    BY <1>1, <1>3, <1>8, <1>10, <1>11, <1>15, <2>2 DEF CountsInv, Using
  <2>7. RefsInv' /\ KeepsInv'
    BY <1>1, <1>3, <1>6, <1>8, <1>15, <2>2, <2>3 DEF RefsInv, KeepsInv, NoPool, Using
  <2>8. QED
    BY <1>12, <1>13, <2>4, <2>5, <2>6, <2>7
<1>16. QED
  BY <1>3, <1>14, <1>15 DEF qbuf

----------------------------------------------------------------------------
(* The invariant holds throughout, for any fault of the driver. *)
THEOREM PoolInvariant == ASSUME NoneKept PROVE Spec => []PoolInv
<1>1. Init => PoolInv
  BY StartsRight
<1>2. PoolInv /\ [Next]_vars => PoolInv'
  <2> SUFFICES ASSUME PoolInv, [Next]_vars  PROVE PoolInv'
    OBVIOUS
  <2>1. CASE Start
    BY <2>1, WaitingKeeps, NewPoolKeeps, CaptureStartKeeps DEF Start
  <2>2. CASE Grab
    BY <2>2, WaitingKeeps, DqbufKeeps, DqbufGotKeeps, HandOutKeeps DEF Grab
  <2>3. CASE Stop
    BY <2>3, CaptureStopKeeps, CaptureDeinitKeeps, PoolDestroyKeeps DEF Stop
  <2>4. CASE \E t \in Threads : finalize(t)
    BY <2>4, GoneKeeps, RequeueKeeps DEF Threads
  <2>5. CASE Unlock \/ grab_frame \/ UNCHANGED vars
    BY <2>5, WaitingKeeps
  <2>6. CASE Fill \/ Release
    BY <2>6, FillKeeps, ReleaseKeeps
  <2>7. QED
    BY <2>1, <2>2, <2>3, <2>4, <2>5, <2>6 DEF Next
<1>3. QED
  BY <1>1, <1>2, PTL DEF Spec

(* While frames are captured the pool's count of live buffers is what is   *)
(* not with the driver, and the driver has a buffer to write to except     *)
(* while the streaming thread has the last one: dqbuf, the look at the     *)
(* count and the finalizers of two threads never hand out the last buffer. *)
THEOREM DriverAlwaysHasABuffer == ASSUME NoneKept PROVE Spec => []DriverKeepsABuffer
<1>1. PoolInv => DriverKeepsABuffer
  <2> SUFFICES ASSUME PoolInv  PROVE DriverKeepsABuffer
    OBVIOUS
  <2>1. poolRefs \in 0..NumBuffers + 1 /\ live \in -1..NumBuffers
    <3>1. Cardinality(Existing) \in 0..NumBuffers /\ NumBuffers \in Nat
      BY SetsOfBuffers DEF PoolInv
    <3>2. QED
      BY <3>1 DEF PoolInv, RefsInv, CountsInv
  <2>2. /\ {inPool, queued, filled, held} \subseteq SUBSET Buffers
        /\ {running, streaming, canPoll, broken} \subseteq BOOLEAN
    BY DEF PoolInv, TypesInv, FlagsInv
  <2>3. TypeOK
    BY <2>1, <2>2 DEF PoolInv, TypesInv, TypeOK
  <2>4. streaming /\ conf.fault # "eio" =>
          live = count - Cardinality(Driver) - (IF src = "got" THEN 1 ELSE 0)
    <3>1. live \in Int /\ count \in Int /\ Cardinality(Driver) \in Int
      BY SetsOfBuffers DEF PoolInv, CountsInv, TypesInv
    <3>2. QED
      BY <3>1 DEF PoolInv, CountsInv, Got
  <2>5. QED
    BY <2>3, <2>4 DEF PoolInv, KeepsInv, DriverKeepsABuffer
<1>2. QED
  BY <1>1, PoolInvariant, PTL

(* Once a capture has ended the buffers and the pool are gone, and no      *)
(* reference was dropped twice, whatever failed meanwhile: except for the  *)
(* pool of a driver that gives no buffers and for a buffer it refuses to   *)
(* take back.                                                              *)
THEOREM PoolAlwaysReleased == ASSUME NoneKept PROVE Spec => []PoolReleasesAll
<1>1. PoolInv => PoolReleasesAll
  <2> SUFFICES ASSUME PoolInv, conf.fault \notin {"reqbufs", "qbuf"}
               PROVE  /\ ~broken
                      /\ NoPool => poolRefs = 0 /\ \A n \in Buffers : refs[n] = 0
    BY DEF PoolReleasesAll, NoPool
  <2>1. ~broken
    BY DEF PoolInv, RefsInv
  <2>2. ASSUME NoPool  PROVE poolRefs = 0 /\ \A n \in Buffers : refs[n] = 0
    <3>1. Existing = {} /\ poolRefs = Cardinality(Existing)
      BY <2>2 DEF PoolInv, RefsInv
    <3>2. \A n \in Buffers : refs[n] \in {0, 1}
      BY DEF PoolInv, TypesInv
    <3>3. QED
      BY <3>1, <3>2, NoBuffers DEF Existing
  <2>3. QED
    BY <2>1, <2>2
<1>2. QED
  BY <1>1, PoolInvariant, PTL

----------------------------------------------------------------------------
(* The owners of the buffers, and that no buffer has two. *)
Out == held \cup {fin["down"]}

LEMMA OwnerIs ==
  ASSUME NEW n \in Buffers
  PROVE  Owner[n] = IF n \in Out THEN "sink"
                    ELSE IF n \in InHand THEN "source"
                    ELSE IF streaming /\ n \in Driver THEN "device" ELSE "none"
  BY DEF Owner, Out

LEMMA SameOwners ==
  ASSUME Out' = Out, InHand' = InHand, streaming' = streaming,
         streaming => Driver' = Driver
  PROVE  Owner' = Owner
<1>1. \A n \in Buffers : Owner'[n] = Owner[n]
  BY DEF Owner, Out
<1>2. QED
  BY <1>1 DEF Owner

LEMMA OneOwner ==
  ASSUME PoolInv
  PROVE  /\ \A n \in Buffers : n \in Out => n \notin InHand \cup Driver \/ ~Using
         /\ InHand \cap Driver = {} \/ ~Using
         /\ ~Using => Owner = [n \in Buffers |-> "none"]
         /\ streaming => Using
<1> USE DEF PoolInv
<1>1. ASSUME Using  PROVE /\ InHand \cap Driver = {}
                          /\ \A n \in Buffers : n \in Out => n \notin InHand \cup Driver
  <2>1. InHand = Grabbed \cup ({fin["src"]} \ {0})
    BY DEF InHand, Grabbed
  <2>2. \A n \in Buffers : n # 0
    BY DEF Buffers
  <2>3. QED
    BY <1>1, <2>1, <2>2 DEF OwnedInv, Out, Fins
<1>2. ASSUME ~Using  PROVE Owner = [n \in Buffers |-> "none"]
  <2>1. /\ held = {} /\ fin["down"] = 0 /\ fin["src"] = 0 /\ src = "idle"
        /\ ~streaming
    BY <1>2 DEF PlacesInv, Using
  <2>2. \A n \in Buffers : Owner[n] = "none"
    BY <2>1, OwnerIs DEF Out, InHand, Buffers
  <2>3. QED
    BY <2>2 DEF Owner
<1>3. streaming => Using
  BY DEF PlacesInv, Using
<1>4. QED
  BY <1>1, <1>2, <1>3

(* Each step of the capture is one of the exchange, or moves no buffer:    *)
(* starting. *)
LEMMA StartIsStart ==
  ASSUME PoolInv, PoolInv', Start
  PROVE  FX!Start \/ UNCHANGED <<Owner, streaming>>
<1>1. CASE probe \/ set_capture
  <2>1. UNCHANGED <<streaming, Owner>>
    BY <1>1, SameOwners
       DEF probe, set_capture, Out, InHand, Driver, driver, grabber, pool
  <2>2. QED
    BY <2>1
<1>2. CASE capture_init
  <2>1. ~Using /\ ~Using' /\ UNCHANGED streaming
    BY <1>2 DEF capture_init, pool_new, Using, driver
  <2>2. held' = {} /\ fin'["down"] = 0 /\ fin'["src"] = 0 /\ src' = "idle" /\ ~streaming'
    BY <2>1 DEF PoolInv, PlacesInv, Using
  <2>3. \A n \in Buffers : Owner'[n] = "none"
    BY <2>2 DEF Owner, InHand, Buffers
  <2>4. Owner = [n \in Buffers |-> "none"] /\ Owner' = [n \in Buffers |-> "none"]
    BY <2>1, <2>3, OneOwner DEF Owner
  <2>5. QED
    BY <2>1, <2>4
<1>3. CASE capture_start
  <2>1. /\ app = "ready" /\ UNCHANGED <<fin, held, filled, grabber, count>>
        /\ \E k \in 0..NumBuffers : queued' = 1..k /\ (streaming' => k = count)
    BY <1>3 DEF capture_start, buffer_pool_activate
  <2>2. ~Using /\ Owner = [n \in Buffers |-> "none"]
    BY <2>1, OneOwner DEF Using
  <2>3. /\ Out' = {0} /\ InHand' = {} /\ filled' = {} /\ ~streaming
    BY <2>1, <2>2 DEF PoolInv, PlacesInv, Out, InHand, grabber, Using
  <2>4. CASE streaming'
    <3>1. Driver' = 1..count /\ 1..count \subseteq Buffers
      BY <2>1, <2>3, <2>4, V4l2Assumption DEF Driver, PoolInv, TypesInv, Buffers
    <3>2. \A n \in Buffers : Owner'[n] = IF n \in 1..count THEN "device" ELSE Owner[n]
      <4>1. ASSUME NEW n \in Buffers
            PROVE  Owner'[n] = IF n \in Out' THEN "sink"
                     ELSE IF n \in InHand' THEN "source"
                     ELSE IF streaming' /\ n \in Driver' THEN "device" ELSE "none"
        BY DEF Owner, Out
      <4>2. QED
        BY <2>2, <2>3, <2>4, <3>1, <4>1 DEF Buffers
    <3>3. Owner' = [n \in Buffers |-> IF n \in 1..count THEN "device" ELSE Owner[n]]
      BY <3>2 DEF Owner
    <3>4. \A n \in 1..count : Owner[n] = "none"
      BY <2>2, <3>1
    <3>5. FX!Move(1..count, "none", "device")
      BY <3>3, <3>4 DEF FX!Move
    <3>6. streaming' = TRUE
      BY <2>4 DEF PoolInv, FlagsInv
    <3>7. QED
      BY <3>1, <3>5, <3>6 DEF FX!Start
  <2>5. CASE ~streaming'
    <3>1. \A n \in Buffers : Owner'[n] = "none"
      <4>1. ASSUME NEW n \in Buffers
            PROVE  Owner'[n] = IF n \in Out' THEN "sink"
                     ELSE IF n \in InHand' THEN "source"
                     ELSE IF streaming' /\ n \in Driver' THEN "device" ELSE "none"
        BY DEF Owner, Out
      <4>2. QED
        BY <2>3, <2>5, <4>1 DEF Buffers
    <3>2. Owner' = Owner
      BY <2>2, <3>1 DEF Owner
    <3>3. streaming' = FALSE /\ streaming = FALSE
      BY <2>3, <2>5 DEF PoolInv, FlagsInv
    <3>4. QED
      BY <3>2, <3>3
  <2>6. QED
    BY <2>4, <2>5
<1>4. QED
  BY <1>1, <1>2, <1>3 DEF Start

(* Grabbing a frame and handing it on. *)
LEMMA GrabIsCapture ==
  ASSUME PoolInv, Exact, grab_frame \/ Grab
  PROVE  (\E n \in Buffers : FX!Capture(n) \/ FX!Hand(n)) \/ UNCHANGED <<Owner, streaming>>
<1> USE DEF PoolInv
<1>1. CASE grab_frame \/ poll
  <2>1. /\ src' \notin {"got", "decide"} /\ src \notin {"got", "decide"}
        /\ UNCHANGED <<buf, held, fin, queued, filled, streaming>>
    BY <1>1 DEF grab_frame, poll, pool, driver
  <2>2. UNCHANGED <<Owner, streaming>>
    BY <2>1, SameOwners DEF Out, InHand, Driver
  <2>3. QED
    BY <2>2
<1>2. CASE dqbuf
  <2>1. src = "dqbuf" /\ streaming /\ Using /\ fin["src"] = 0
        /\ UNCHANGED <<held, fin, streaming>>
    BY <1>2 DEF dqbuf, PlacesInv, Using, TypesInv, pool
  <2>2. CASE UNCHANGED <<queued, filled, buf>> /\ src' # "got" /\ src' # "decide"
    <3>1. UNCHANGED <<Owner, streaming>>
      BY <2>1, <2>2, SameOwners DEF Out, InHand, Driver
    <3>2. QED
      BY <3>1
  <2>3. CASE \E n \in filled : /\ filled' = filled \ {n} /\ buf' = n /\ src' = "got"
                               /\ UNCHANGED queued
    <3>1. PICK n \in filled : /\ filled' = filled \ {n} /\ buf' = n /\ src' = "got"
                              /\ UNCHANGED queued
      BY <2>3
    <3>2. /\ n \in Buffers /\ n \in Driver /\ n \notin queued /\ n \notin Out
          /\ InHand = {} /\ InHand' = {n} /\ Driver' = Driver \ {n} /\ Out' = Out
      <4>1. n \in Buffers /\ n \in Driver /\ n \notin queued /\ n # 0
        BY <2>1, <3>1 DEF TypesInv, Driver, OwnedInv, Buffers
      <4>2. n \notin Out
        BY <2>1, <4>1, OneOwner
      <4>3. QED
        BY <2>1, <3>1, <4>1, <4>2 DEF InHand, Driver, Out
    <3>3. Owner[n] = "device"
      BY <2>1, <3>2, OwnerIs
    <3>4. \A m \in Buffers : Owner'[m] = IF m \in {n} THEN "source" ELSE Owner[m]
      BY <2>1, <3>2 DEF Owner, Out
    <3>5. Owner' = [m \in Buffers |-> IF m \in {n} THEN "source" ELSE Owner[m]]
      BY <3>4 DEF Owner
    <3>6. FX!Move({n}, "device", "source")
      BY <3>3, <3>5 DEF FX!Move
    <3>7. QED
      BY <2>1, <3>2, <3>6 DEF FX!Capture
  <2>4. QED
    BY <1>2, <2>2, <2>3 DEF dqbuf, Retry, Exact
<1>3. CASE dqbuf_got
  <2>1. /\ src = "got" /\ Using /\ UNCHANGED <<buf, held, fin, streaming, queued, filled>>
        /\ Grabbed = {buf}
    BY <1>3 DEF dqbuf_got, PlacesInv, Using, TypesInv, driver, Grabbed
  <2>2. buf \in inPool
    BY <2>1 DEF OwnedInv
  <2>3. src' = "decide"
    BY <1>3, <2>2 DEF dqbuf_got
  <2>4. UNCHANGED <<Owner, streaming>>
    BY <2>1, <2>3, SameOwners DEF Out, InHand, Driver
  <2>5. QED
    BY <2>4
<1>4. CASE hand_out
  <2>1. /\ src = "decide" /\ src' = "idle" /\ Using /\ streaming /\ fin["src"] = 0
        /\ Grabbed = {buf} /\ UNCHANGED <<queued, filled, streaming, count, live>>
    BY <1>4 DEF hand_out, PlacesInv, Using, TypesInv, driver, Grabbed
  <2>2. /\ buf \in Buffers /\ refs[buf] = 1 /\ buf # 0 /\ buf \notin Driver
        /\ InHand = {buf}
    <3>1. buf \in 1..count /\ refs[buf] = 1 /\ buf \notin Driver
      BY <2>1 DEF OwnedInv
    <3>2. buf \in Buffers /\ buf # 0
      BY <3>1, V4l2Assumption DEF TypesInv, Buffers
    <3>3. QED
      BY <2>1, <3>1, <3>2 DEF InHand
  <2>3. CASE need_copy
    <3>1. fin' = [fin EXCEPT !["src"] = buf] /\ held' = held
      BY <1>4, <2>2, <2>3, LastReference DEF hand_out, Threads
    <3>2. Out' = Out /\ InHand' = {buf}
      BY <2>1, <2>2, <3>1 DEF Out, InHand, TypesInv, Threads
    <3>3. UNCHANGED <<Owner, streaming>>
      BY <2>1, <2>2, <3>2, SameOwners DEF Driver
    <3>4. QED
      BY <3>3
  <2>4. CASE ~need_copy
    <3>1. fin' = fin /\ held' = held \cup {buf} /\ count - live # 0
      BY <1>4, <2>4 DEF hand_out, need_copy, available_buffers
    <3>2. Driver # {}
      <4>1. live + Cardinality(Driver) + Got = count /\ Got = 0
        BY <2>1 DEF CountsInv, Exact, Got
      <4>2. live \in Int /\ count \in Int
        BY DEF CountsInv, TypesInv
      <4>3. QED
        BY <3>1, <4>1, <4>2, NoBuffers
    <3>3. PICK c \in Buffers : Owner[c] = "device"
      <4>1. PICK c \in Driver : c \in Buffers
        BY <3>2, SetsOfBuffers
      <4>2. c \notin Out /\ c \notin InHand
        BY <2>1, <4>1, OneOwner
      <4>3. QED
        BY <2>1, <4>1, <4>2, OwnerIs
    <3>4. buf \notin Out
      BY <2>1, <2>2, OneOwner
    <3>5. Owner[buf] = "source"
      BY <2>2, <3>4, OwnerIs
    <3>6. Out' = Out \cup {buf} /\ InHand' = {} /\ Driver' = Driver
      BY <2>1, <3>1 DEF Out, InHand, Driver
    <3>7. \A m \in Buffers : Owner'[m] = IF m \in {buf} THEN "sink" ELSE Owner[m]
      BY <2>1, <2>2, <3>6 DEF Owner, Out
    <3>8. Owner' = [m \in Buffers |-> IF m \in {buf} THEN "sink" ELSE Owner[m]]
      BY <3>7 DEF Owner
    <3>9. FX!Move({buf}, "source", "sink")
      BY <3>5, <3>8 DEF FX!Move
    <3>10. QED
      BY <2>1, <2>2, <3>3, <3>9 DEF FX!Hand
  <2>5. QED
    BY <2>3, <2>4
<1>5. QED
  BY <1>1, <1>2, <1>3, <1>4 DEF Grab

(* A finalizer gives the buffer back to the device, or it is lost. *)
LEMMA FinalizeIsRecycle ==
  ASSUME PoolInv, NEW t \in {"src", "down"}, finalize(t)
  PROVE  \E n \in Buffers : FX!Recycle(n)
<1> USE DEF PoolInv
<1> DEFINE n == fin[t]
<1>1. n # 0 /\ Using /\ running /\ n \in Fins
  BY DEF finalize, PlacesInv, Using, TypesInv, Fins, Threads
<1>2. /\ refs[n] = 1 /\ n \in Buffers /\ n \notin held \cup Driver \cup Grabbed
      /\ (fin["src"] = fin["down"] => fin["src"] = 0)
  BY <1>1, SetsOfBuffers DEF OwnedInv
<1>3. /\ qbuf(n) /\ fin' = [fin EXCEPT ![t] = 0]
      /\ UNCHANGED <<filled, streaming, src, buf, held>>
  BY <1>1, <1>2 DEF finalize, Requeues, grabber
<1>4. /\ fin'[t] = 0 /\ t \in Threads /\ fin'["src"] = (IF t = "src" THEN 0 ELSE fin["src"])
      /\ fin'["down"] = (IF t = "down" THEN 0 ELSE fin["down"])
  BY <1>3 DEF TypesInv, Threads
<1>5. queued' = queued \cup {n} \/ queued' = queued
  BY <1>3 DEF qbuf
<1>6. Driver' = Driver \cup {n} \/ Driver' = Driver
  BY <1>3, <1>5 DEF Driver
<1>7. CASE t = "src"
  <2>1. InHand = Grabbed \cup {n} /\ InHand' = Grabbed /\ Out' = Out /\ n \notin Out
    BY <1>1, <1>2, <1>3, <1>4, <1>7 DEF InHand, Grabbed, Out
  <2>2. Owner[n] = "source"
    BY <1>2, <2>1, OwnerIs
  <2>3. \E to \in {"device", "none"} :
          \A m \in Buffers : Owner'[m] = IF m \in {n} THEN to ELSE Owner[m]
    <3>1. \A m \in Buffers : m # n => Owner'[m] = Owner[m]
      BY <1>3, <1>6, <2>1 DEF Owner, Out
    <3>2. Owner'[n] \in {"device", "none"}
      BY <1>2, <2>1 DEF Owner, Out
    <3>3. QED
      BY <3>1, <3>2
  <2>4. \E to \in {"device", "none"} :
          Owner' = [m \in Buffers |-> IF m \in {n} THEN to ELSE Owner[m]]
    BY <2>3 DEF Owner
  <2>5. \E to \in {"device", "none"} : FX!Move({n}, "source", to)
    BY <2>2, <2>4 DEF FX!Move
  <2>6. QED
    BY <1>2, <1>3, <2>5 DEF FX!Recycle
<1>8. CASE t = "down"
  <2>1. /\ InHand' = InHand /\ n \notin InHand /\ n \in Out
        /\ \A m \in Buffers : m \in Out' <=> m \in Out /\ m # n
    BY <1>1, <1>2, <1>3, <1>4, <1>8 DEF InHand, Grabbed, Out, Buffers
  <2>2. Owner[n] = "sink"
    BY <1>2, <2>1, OwnerIs
  <2>3. \E to \in {"device", "none"} :
          \A m \in Buffers : Owner'[m] = IF m \in {n} THEN to ELSE Owner[m]
    <3>1. \A m \in Buffers : m # n => Owner'[m] = Owner[m]
      BY <1>3, <1>6, <2>1 DEF Owner, Out
    <3>2. Owner'[n] \in {"device", "none"}
      BY <1>2, <2>1 DEF Owner, Out
    <3>3. QED
      BY <3>1, <3>2
  <2>4. \E to \in {"device", "none"} :
          Owner' = [m \in Buffers |-> IF m \in {n} THEN to ELSE Owner[m]]
    BY <2>3 DEF Owner
  <2>5. \E to \in {"device", "none"} : FX!Move({n}, "sink", to)
    BY <2>2, <2>4 DEF FX!Move
  <2>6. QED
    BY <1>2, <1>3, <2>5 DEF FX!Recycle
<1>9. QED
  BY <1>7, <1>8

(* Stopping. *)
LEMMA StopIsStop ==
  ASSUME NoneKept, PoolInv, Stop
  PROVE  FX!Stop \/ UNCHANGED <<Owner, streaming>>
<1> USE DEF PoolInv
<1>1. CASE capture_stop
  <2>1. /\ src \in {"idle", "failed"} /\ src' \in {"idle", "failed"} /\ fin["src"] = 0
        /\ UNCHANGED <<held, fin, buf>>
        /\ \/ streaming' = FALSE /\ queued' = {} /\ filled' = {}
           \/ UNCHANGED <<queued, filled, streaming>>
    BY <1>1 DEF capture_stop, stop_streaming, pool, driver
  <2>2. InHand = {} /\ InHand' = {} /\ Out' = Out
    BY <2>1 DEF InHand, Out
  <2>3. CASE streaming /\ streaming' = FALSE
    <3>1. \A n \in Buffers : Owner'[n] = IF Owner[n] = "sink" THEN "sink" ELSE "none"
      BY <2>2, <2>3 DEF Owner, Out
    <3>2. Owner' = [n \in Buffers |-> IF Owner[n] = "sink" THEN "sink" ELSE "none"]
      BY <3>1 DEF Owner
    <3>3. QED
      BY <2>3, <3>2 DEF FX!Stop
  <2>4. CASE ~streaming /\ streaming' = FALSE
    <3>1. streaming' = streaming
      BY <2>4 DEF FlagsInv
    <3>2. Owner' = Owner
      BY <2>2, <2>4, <3>1, SameOwners
    <3>3. QED
      BY <3>1, <3>2
  <2>5. CASE UNCHANGED <<queued, filled, streaming>>
    <3>1. Owner' = Owner
      BY <2>2, <2>5, SameOwners DEF Driver
    <3>2. QED
      BY <2>5, <3>1
  <2>6. QED
    BY <2>1, <2>3, <2>4, <2>5
<1>2. CASE capture_deinit \/ pool_destroy
  <2>1. /\ app \in {"off", "destroy"}
        /\ UNCHANGED <<held, queued, filled, streaming, src, buf>>
        /\ fin'["down"] = fin["down"] /\ fin'["src"] = fin["src"]
    <3>1. CASE capture_deinit
      BY <3>1 DEF capture_deinit, driver, grabber
    <3>2. CASE pool_destroy
      <4>1. fin' = fin \/ \E n \in 0..NumBuffers + 1 : fin' = [fin EXCEPT !["app"] = n]
        BY <3>2 DEF pool_destroy, Unref, TypesInv
      <4>2. fin'["down"] = fin["down"] /\ fin'["src"] = fin["src"]
        BY <4>1 DEF TypesInv, Threads
      <4>3. QED
        BY <3>2, <4>2 DEF pool_destroy, driver, grabber
    <3>3. QED
      BY <1>2, <3>1, <3>2
  <2>2. UNCHANGED <<Owner, streaming>>
    BY <2>1, SameOwners DEF Out, InHand, Driver
  <2>3. QED
    BY <2>2
<1>3. QED
  BY <1>1, <1>2 DEF Stop

(* What moves no buffer. *)
LEMMA OthersStutter ==
  ASSUME PoolInv, Unlock \/ Fill \/ Release \/ finalize("app") \/ UNCHANGED vars
  PROVE  UNCHANGED <<Owner, streaming>>
<1> USE DEF PoolInv
<1>1. CASE Unlock \/ Fill \/ UNCHANGED vars
  <2>1. UNCHANGED <<held, fin, src, buf, streaming, Driver>>
    BY <1>1 DEF Unlock, Fill, vars, pool, driver, grabber, Driver
  <2>2. QED
    BY <2>1, SameOwners DEF Out, InHand
<1>2. CASE Release
  <2>1. UNCHANGED <<queued, filled, streaming, src, buf>> /\ fin["down"] = 0
    BY <1>2 DEF Release, driver, grabber
  <2>2. PICK n \in held : held' = held \ {n} /\ Unref("down", n)
    BY <1>2 DEF Release
  <2>3. n \in Buffers /\ refs[n] = 1
    BY <2>2 DEF TypesInv, PlacesInv, OwnedInv
  <2>4. fin' = [fin EXCEPT !["down"] = n]
    BY <2>2, <2>3, LastReference DEF Threads
  <2>5. fin'["down"] = n /\ fin'["src"] = fin["src"]
    BY <2>4 DEF TypesInv, Threads
  <2>6. InHand' = InHand /\ Driver' = Driver
    BY <2>1, <2>5 DEF InHand, Driver
  <2>7. \A m \in Buffers : m \in Out' <=> m \in Out
    BY <2>1, <2>2, <2>5 DEF Out, Buffers
  <2>8. \A m \in Buffers : Owner'[m] = Owner[m]
    BY <2>1, <2>6, <2>7 DEF Owner, Out
  <2>9. QED
    BY <2>1, <2>8 DEF Owner
<1>3. CASE finalize("app")
  <2>1. app = "destroy" /\ ~running
    BY <1>3 DEF finalize, PlacesInv
  <2>2. /\ UNCHANGED <<queued, filled, streaming, src, buf, held>>
        /\ fin' = [fin EXCEPT !["app"] = 0]
    BY <1>3, <2>1 DEF finalize, Requeues, grabber
  <2>3. fin'["down"] = fin["down"] /\ fin'["src"] = fin["src"]
    BY <2>2 DEF TypesInv, Threads
  <2>4. QED
    BY <2>2, <2>3, SameOwners DEF Out, InHand, Driver
<1>4. QED
  BY <1>1, <1>2, <1>3

(* For any number of buffers the capture implements FrameExchange, as long *)
(* as the driver does not lose a buffer with an error: no frame is handed  *)
(* on while it is the last the driver could write to, and nothing is       *)
(* taken from downstream before downstream lets go.                        *)
THEOREM CaptureImplementsExchange ==
  ASSUME NoneKept PROVE Spec => ImplementsFrameExchange
<1>1. Init => FX!Init
  <2> SUFFICES ASSUME Init  PROVE FX!Init
    OBVIOUS
  <2>1. PoolInv /\ ~Using /\ streaming = FALSE
    BY StartsRight DEF Init, Using
  <2>2. QED
    BY <2>1, OneOwner DEF FX!Init
<1>2. PoolInv /\ PoolInv' /\ [Next]_vars => [Exact => FX!Next]_<<Owner, streaming>>
  <2> SUFFICES ASSUME PoolInv, PoolInv', [Next]_vars, Exact
               PROVE  FX!Next \/ UNCHANGED <<Owner, streaming>>
    OBVIOUS
  <2>1. CASE Start
    BY <2>1, StartIsStart DEF FX!Next
  <2>2. CASE Stop
    BY <2>2, StopIsStop DEF FX!Next
  <2>3. CASE grab_frame \/ Grab
    BY <2>3, GrabIsCapture DEF FX!Next
  <2>4. CASE \E t \in {"src", "down"} : finalize(t)
    BY <2>4, FinalizeIsRecycle DEF FX!Next
  <2>5. CASE Unlock \/ Fill \/ Release \/ finalize("app") \/ UNCHANGED vars
    BY <2>5, OthersStutter
  <2>6. QED
    BY <2>1, <2>2, <2>3, <2>4, <2>5 DEF Next, Threads
<1>3. QED
  BY <1>1, <1>2, PoolInvariant, PTL DEF Spec, ImplementsFrameExchange

-----------------------------------------------------------------------------
(* The offered caps.  A set of natural numbers has a least one, from the   *)
(* library's fact that strict inclusion is well-founded on finite sets.     *)
LEMMA LeastNatural ==
  ASSUME NEW S \in SUBSET Nat, S # {}
  PROVE  \E n \in S : \A m \in S : n <= m
<1> DEFINE Upto(n) == 1..n
           T == {Upto(n) : n \in S}
           R == StrictSubsetOrdering(Nat)
<1>1. T \subseteq FiniteSubsetsOf(Nat)
  <2> SUFFICES ASSUME NEW n \in S PROVE Upto(n) \in SUBSET Nat /\ IsFiniteSet(Upto(n))
    BY DEF FiniteSubsetsOf
  <2>1. n \in Nat
    OBVIOUS
  <2>2. IsFiniteSet(1..n)
    BY <2>1, FS_Interval
  <2>3. QED
    BY <2>1, <2>2
<1>2. T # {}
  OBVIOUS
<1>3. IsWellFoundedOn(R, FiniteSubsetsOf(Nat))
  BY FS_StrictSubsetOrderingWellFounded
<1>4. PICK x \in T : \A y \in T : ~(<<y, x>> \in R)
  <2> HIDE DEF T, R
  <2>1. QED
    BY <1>1, <1>2, <1>3, WFMin
<1>5. PICK n \in S : x = Upto(n)
  OBVIOUS
<1>6. ASSUME NEW m \in S, ~(n <= m)
      PROVE  FALSE
  <2>1. m \in Nat /\ n \in Nat /\ m < n
    BY <1>6
  <2>2. Upto(m) \in SUBSET Nat /\ Upto(n) \in SUBSET Nat /\ Upto(m) \subseteq Upto(n)
    BY <2>1
  <2>3. n \in Upto(n) /\ n \notin Upto(m)
    BY <2>1
  <2>4. <<Upto(m), Upto(n)>> \in R
    <3> HIDE DEF Upto
    <3>1. <<Upto(m), Upto(n)>> \in (SUBSET Nat) \X (SUBSET Nat)
      BY <2>2
    <3>2. Upto(m) # Upto(n)
      BY <2>3
    <3>3. QED
      BY <2>2, <3>1, <3>2 DEF StrictSubsetOrdering
  <2>5. QED
    BY <1>4, <1>5, <2>4
<1>7. QED
  BY <1>6

(* Products and quotients.                                                 *)
LEMMA ProductGrows ==
  ASSUME NEW a \in Nat, NEW b \in Nat, NEW c \in Nat, NEW d \in Nat, a <= c, b <= d
  PROVE  a * b \in Nat /\ c * d \in Nat /\ a * b <= c * d
<1>1. a * b \in Nat /\ c * b \in Nat /\ c * d \in Nat
  OBVIOUS
<1>2. a * b <= c * b
  OBVIOUS
<1>3. c * b <= c * d
  OBVIOUS
<1>4. QED
  BY <1>1, <1>2, <1>3

LEMMA Quotient ==
  ASSUME NEW y \in Nat, NEW st \in Nat, st >= 1
  PROVE  y \div st \in Nat /\ (y \div st) * st <= y /\ y < ((y \div st) + 1) * st
OBVIOUS

LEMMA Multiple ==
  ASSUME NEW k \in Nat, NEW st \in Nat, st >= 1
  PROVE  k * st \in Nat /\ (k * st) \div st = k
<1> DEFINE y == k * st
           q == y \div st
<1>1. y \in Nat
  OBVIOUS
<1>2. q \in Nat /\ q * st <= y /\ y < (q + 1) * st
  <2> HIDE DEF y
  <2>1. QED
    BY <1>1, Quotient
<1> HIDE DEF q
<1>3. ~(q + 1 <= k)
  <2>1. SUFFICES ASSUME q + 1 <= k PROVE FALSE
    OBVIOUS
  <2>2. (q + 1) * st <= k * st
    BY <1>2, <2>1, ProductGrows
  <2>3. (q + 1) * st \in Nat
    BY <1>2
  <2>4. QED
    BY <1>1, <1>2, <2>2, <2>3
<1>4. ~(k + 1 <= q)
  <2>1. SUFFICES ASSUME k + 1 <= q PROVE FALSE
    OBVIOUS
  <2>2. (k + 1) * st <= q * st
    BY <1>2, <2>1, ProductGrows
  <2>3. (k + 1) * st = y + st
    OBVIOUS
  <2>4. q * st \in Nat
    BY <1>2
  <2>5. QED
    BY <1>1, <1>2, <2>2, <2>3, <2>4
<1>5. q = k
  BY <1>2, <1>3, <1>4
<1>6. QED
  BY <1>1, <1>5 DEF q

(* The sizes a device has: those of its list, or those of a grid.          *)
Size == Nat \X Nat
Ranged(dev) == dev.sizes \in {"stepwise", "continuous"}
OnGrid(x, lo, hi, st) == lo <= x /\ x <= hi /\ \E k \in Nat : x = lo + k * st
Has(dev, s) ==
  IF Ranged(dev)
  THEN /\ OnGrid(s[1], dev.list[1][1], dev.list[2][1], dev.list[3][1])
       /\ OnGrid(s[2], dev.list[1][2], dev.list[2][2], dev.list[3][2])
  ELSE s \in Listed(dev)

LEMMA ClampIsOnGrid ==
  ASSUME NEW x \in Nat, NEW lo \in Nat, NEW hi \in Nat, NEW st \in Nat, lo <= hi, st >= 1
  PROVE  Clamp(x, lo, hi, st) \in Nat /\ OnGrid(Clamp(x, lo, hi, st), lo, hi, st)
<1> DEFINE c == IF x < lo THEN lo ELSE IF x > hi THEN hi ELSE x
           y == c - lo
           k == y \div st
<1>1. y \in Nat /\ lo + y <= hi
  OBVIOUS
<1>2. Clamp(x, lo, hi, st) = lo + k * st
  BY DEF Clamp
<1> HIDE DEF y
<1>3. k \in Nat /\ k * st <= y
  BY <1>1, Quotient
<1> HIDE DEF k
<1>4. k * st \in Nat
  BY <1>3
<1>5. lo + k * st \in Nat /\ lo <= lo + k * st /\ lo + k * st <= hi
  BY <1>1, <1>3, <1>4
<1>6. QED
  BY <1>2, <1>3, <1>5 DEF OnGrid

LEMMA GridStays ==
  ASSUME NEW x \in Nat, NEW lo \in Nat, NEW hi \in Nat, NEW st \in Nat, st >= 1,
         OnGrid(x, lo, hi, st)
  PROVE  Clamp(x, lo, hi, st) = x
<1>1. PICK k \in Nat : x = lo + k * st
  BY DEF OnGrid
<1> DEFINE y == k * st
<1>2. y \in Nat /\ y \div st = k /\ x = lo + y
  BY <1>1, Multiple
<1>3. lo <= x /\ x <= hi
  BY DEF OnGrid
<1> HIDE DEF y
<1>4. (IF x < lo THEN lo ELSE IF x > hi THEN hi ELSE x) - lo = y
  BY <1>2, <1>3
<1>5. Clamp(x, lo, hi, st) = lo + (y \div st) * st
  BY <1>4 DEF Clamp
<1>6. Clamp(x, lo, hi, st) = lo + k * st
  BY <1>2, <1>5
<1>7. QED
  BY <1>1, <1>6

LEMMA FarIs ==
  ASSUME NEW s \in Size, NEW w \in Nat, NEW h \in Nat
  PROVE  Far(s, w, h) \in Nat /\ (Far(s, w, h) = 0 <=> s = <<w, h>>)
BY DEF Far, Size

(* A list has a size nearest to a wish.                                    *)
LEMMA ListNearest ==
  ASSUME NEW dev, dev.list \in Seq(Size), Len(dev.list) >= 1, ~Ranged(dev),
         NEW w \in Nat, NEW h \in Nat
  PROVE  /\ Nearest(dev, w, h) \in Listed(dev)
         /\ \A t \in Listed(dev) : Far(Nearest(dev, w, h), w, h) <= Far(t, w, h)
<1> DEFINE Best(s) == \A t \in Listed(dev) : Far(s, w, h) <= Far(t, w, h)
           S == {Far(s, w, h) : s \in Listed(dev)}
<1>1. Listed(dev) \subseteq Size /\ dev.list[1] \in Listed(dev)
  BY DEF Listed
<1>2. S \in SUBSET Nat /\ S # {}
  <2>1. \A s \in Listed(dev) : Far(s, w, h) \in Nat
    BY <1>1, FarIs
  <2>2. QED
    BY <1>1, <2>1
<1>3. \E s \in Listed(dev) : Best(s)
  <2>1. PICK n \in S : \A m \in S : n <= m
    <3> HIDE DEF S
    <3>1. QED
      BY <1>2, LeastNatural
  <2>2. PICK s \in Listed(dev) : n = Far(s, w, h)
    OBVIOUS
  <2>3. QED
    BY <2>1, <2>2
<1>4. Nearest(dev, w, h) = CHOOSE s \in Listed(dev) : Best(s)
  BY DEF Nearest, Ranged
<1> HIDE DEF Best
<1>5. Nearest(dev, w, h) \in Listed(dev) /\ Best(Nearest(dev, w, h))
  BY <1>3, <1>4
<1>6. QED
  BY <1>5 DEF Best

LEMMA DeviceIs ==
  ASSUME NEW dev, IsDevice(dev)
  PROVE  /\ dev.list \in Seq(Size) /\ Len(dev.list) >= 1
         /\ Ranged(dev) =>
              /\ dev.list[1][1] \in Nat /\ dev.list[1][2] \in Nat
              /\ dev.list[2][1] \in Nat /\ dev.list[2][2] \in Nat
              /\ dev.list[3][1] \in Nat /\ dev.list[3][2] \in Nat
              /\ dev.list[1][1] <= dev.list[2][1] /\ dev.list[1][2] <= dev.list[2][2]
              /\ dev.list[2][1] >= 1 /\ dev.list[2][2] >= 1
              /\ dev.list[3][1] >= 1 /\ dev.list[3][2] >= 1
<1>1. dev.list \in Seq(Size) /\ Len(dev.list) >= 1
  BY DEF IsDevice, Size
<1>2. ASSUME Ranged(dev)
      PROVE  /\ dev.list[1] \in Size /\ dev.list[2] \in Size /\ dev.list[3] \in Size
             /\ IsRange(dev.list[1], dev.list[2], dev.list[3])
  BY <1>1, <1>2 DEF IsDevice, Ranged
<1>3. QED
  BY <1>1, <1>2 DEF Size, IsRange

(* What the device answers it has, and answers again when asked for it.    *)
LEMMA NearestIs ==
  ASSUME NEW dev, IsDevice(dev), NEW w \in Nat, NEW h \in Nat
  PROVE  Nearest(dev, w, h) \in Size /\ Has(dev, Nearest(dev, w, h))
<1>1. CASE Ranged(dev)
  <2> DEFINE x == Clamp(w, dev.list[1][1], dev.list[2][1], dev.list[3][1])
             y == Clamp(h, dev.list[1][2], dev.list[2][2], dev.list[3][2])
  <2>1. Nearest(dev, w, h) = <<x, y>>
    BY <1>1 DEF Nearest, Ranged
  <2>2. x \in Nat /\ OnGrid(x, dev.list[1][1], dev.list[2][1], dev.list[3][1])
    BY <1>1, DeviceIs, ClampIsOnGrid
  <2>3. y \in Nat /\ OnGrid(y, dev.list[1][2], dev.list[2][2], dev.list[3][2])
    BY <1>1, DeviceIs, ClampIsOnGrid
  <2> HIDE DEF x, y
  <2>4. QED
    BY <1>1, <2>1, <2>2, <2>3 DEF Has, Size
<1>2. CASE ~Ranged(dev)
  <2>1. Nearest(dev, w, h) \in Listed(dev)
    BY <1>2, DeviceIs, ListNearest
  <2>2. QED
    BY <1>2, <2>1, DeviceIs DEF Has, Listed
<1>3. QED
  BY <1>1, <1>2

LEMMA HasStays ==
  ASSUME NEW dev, IsDevice(dev), NEW s \in Size, Has(dev, s)
  PROVE  Nearest(dev, s[1], s[2]) = s
<1>1. s[1] \in Nat /\ s[2] \in Nat /\ s = <<s[1], s[2]>>
  BY DEF Size
<1>2. CASE Ranged(dev)
  <2>1. Clamp(s[1], dev.list[1][1], dev.list[2][1], dev.list[3][1]) = s[1]
    BY <1>1, <1>2, DeviceIs, GridStays DEF Has
  <2>2. Clamp(s[2], dev.list[1][2], dev.list[2][2], dev.list[3][2]) = s[2]
    BY <1>1, <1>2, DeviceIs, GridStays DEF Has
  <2>3. QED
    BY <1>1, <1>2, <2>1, <2>2 DEF Nearest, Ranged
<1>3. CASE ~Ranged(dev)
  <2> DEFINE t == Nearest(dev, s[1], s[2])
  <2>1. s \in Listed(dev)
    BY <1>3 DEF Has
  <2>2. t \in Size /\ Far(t, s[1], s[2]) <= Far(s, s[1], s[2])
    <3>1. \A r \in Listed(dev) : Far(t, s[1], s[2]) <= Far(r, s[1], s[2])
      BY <1>1, <1>3, DeviceIs, ListNearest
    <3>2. t \in Size
      BY <1>1, NearestIs
    <3>3. QED
      BY <2>1, <3>1, <3>2
  <2> HIDE DEF t
  <2>3. Far(s, s[1], s[2]) = 0 /\ Far(t, s[1], s[2]) \in Nat
    BY <1>1, <2>2, FarIs
  <2>4. t = <<s[1], s[2]>>
    BY <1>1, <2>2, <2>3, FarIs
  <2>5. QED
    BY <1>1, <2>4 DEF t
<1>4. QED
  BY <1>2, <1>3

(* Whether a device answers, and with what.                                *)
Answering(dev) == get_nearest_size(dev, Unset, 1, 1, FALSE).ok

LEMMA AnswerIs ==
  ASSUME NEW dev, Answering(dev), NEW f, NEW w, NEW h, NEW kept
  PROVE  LET near == get_nearest_size(dev, f, w, h, kept)
         IN  /\ near.ok /\ near.size = Nearest(dev, w, h)
             /\ near.interlaced = Interlaced(dev.field)
BY DEF Answering, get_nearest_size, S_FMT

EntryRight(dev, e) ==
  /\ e.lo \in Size /\ Has(dev, e.lo) /\ e.hi \in Size /\ Has(dev, e.hi)
  /\ e.interlaced = Interlaced(dev.field)

(* A device takes the field order it answers with, and a size it has.      *)
LEMMA FieldTaken ==
  ASSUME NEW dev, Answering(dev)
  PROVE  Takes(dev, IF Interlaced(dev.field) THEN "interlaced" ELSE "none")
BY DEF Answering, get_nearest_size, Takes, Interlaced

LEMMA EntryTaken ==
  ASSUME NEW dev, IsDevice(dev), Answering(dev), NEW e, EntryRight(dev, e),
         NEW s \in {e.lo, e.hi}, NEW f
  PROVE  set_format(dev, f, s[1], s[2], e.interlaced).ok
<1>1. s \in Size /\ Has(dev, s) /\ e.interlaced = Interlaced(dev.field)
  BY DEF EntryRight
<1>2. Nearest(dev, s[1], s[2]) = s /\ s = <<s[1], s[2]>>
  BY <1>1, HasStays DEF Size
<1>3. Takes(dev, IF e.interlaced THEN "interlaced" ELSE "none")
  BY <1>1, FieldTaken
<1>4. QED
  BY <1>2, <1>3 DEF set_format, S_FMT

(* What the device is asked about it has.                                  *)
LEMMA StepwiseHas ==
  ASSUME NEW dev, IsDevice(dev), dev.sizes = "stepwise",
         NEW k \in DOMAIN EnumeratedSizes(dev)
  PROVE  EnumeratedSizes(dev)[k] \in Size /\ Has(dev, EnumeratedSizes(dev)[k])
<1> DEFINE lo == dev.list[1]  hi == dev.list[2]  st == dev.list[3]
           x == lo[1] + k * st[1]
           y == lo[2] + k * st[2]
<1>1. Ranged(dev)
  BY DEF Ranged
<1>2. EnumeratedSizes(dev) = StepwiseSizes(lo, hi, st)
  BY DEF EnumeratedSizes
<1>3. k \in 0..hi[1] /\ x <= hi[1] /\ y <= hi[2]
      /\ EnumeratedSizes(dev)[k] = <<x, y>>
  <2> HIDE DEF lo, hi, st
  <2>1. QED
    BY <1>2 DEF StepwiseSizes
<1>4. /\ lo[1] \in Nat /\ lo[2] \in Nat /\ hi[1] \in Nat /\ hi[2] \in Nat
      /\ st[1] \in Nat /\ st[2] \in Nat
  BY <1>1, DeviceIs
<1>5. k \in Nat
  BY <1>3, <1>4
<1> HIDE DEF lo, hi, st
<1>6. k * st[1] \in Nat /\ k * st[2] \in Nat
  BY <1>4, <1>5
<1>7. x \in Nat /\ OnGrid(x, lo[1], hi[1], st[1])
  BY <1>3, <1>4, <1>5, <1>6 DEF OnGrid
<1>8. y \in Nat /\ OnGrid(y, lo[2], hi[2], st[2])
  BY <1>3, <1>4, <1>5, <1>6 DEF OnGrid
<1> HIDE DEF x, y
<1>9. QED
  BY <1>1, <1>3, <1>7, <1>8 DEF Has, Size, lo, hi, st

LEMMA ContinuousHas ==
  ASSUME NEW dev, IsDevice(dev), dev.sizes = "continuous"
  PROVE  /\ DOMAIN EnumeratedSizes(dev) = {1}
         /\ EnumeratedSizes(dev)[1] \in Size /\ Has(dev, EnumeratedSizes(dev)[1])
         /\ dev.list[2] \in Size /\ Has(dev, dev.list[2])
<1> DEFINE lo == dev.list[1]  hi == dev.list[2]
           On(x, d) == x \in Nat /\ OnGrid(x, lo[d], hi[d], 1)
<1>1. Ranged(dev) /\ dev.list[3] = <<1, 1>>
  BY DEF Ranged, IsDevice
<1>2. /\ lo[1] \in Nat /\ lo[2] \in Nat /\ hi[1] \in Nat /\ hi[2] \in Nat
      /\ lo[1] <= hi[1] /\ lo[2] <= hi[2] /\ hi[1] >= 1 /\ hi[2] >= 1
  BY <1>1, DeviceIs
<1>3. ASSUME NEW a \in Nat, NEW b \in Nat, NEW x \in Nat, a <= x, x <= b
      PROVE  OnGrid(x, a, b, 1)
  <2>1. x - a \in Nat /\ x = a + (x - a) * 1
    BY <1>3
  <2>2. QED
    BY <1>3, <2>1 DEF OnGrid
<1>4. EnumeratedSizes(dev) = << <<AtLeastOne(lo[1]), AtLeastOne(lo[2])>> >>
  BY DEF EnumeratedSizes
<1>5. dev.list[2] \in Size
  <2>1. Len(dev.list) = 3 /\ dev.list \in Seq(Nat \X Nat)
    BY DEF IsDevice
  <2>2. QED
    BY <2>1 DEF Size
<1> HIDE DEF lo, hi
<1>6. \A d \in {1, 2} : On(AtLeastOne(lo[d]), d) /\ On(hi[d], d)
  BY <1>2, <1>3 DEF AtLeastOne
<1>7. \A a \in Nat, b \in Nat : On(a, 1) /\ On(b, 2) => Has(dev, <<a, b>>)
  BY <1>1 DEF Has, lo, hi
<1>8. hi = <<hi[1], hi[2]>>
  BY <1>5 DEF Size, hi
<1>9. QED
  BY <1>4, <1>5, <1>6, <1>7, <1>8 DEF Size, hi

LEMMA EnumeratedHas ==
  ASSUME NEW dev, IsDevice(dev), NEW k \in DOMAIN EnumeratedSizes(dev)
  PROVE  /\ EnumeratedSizes(dev)[k] \in Size /\ Has(dev, EnumeratedSizes(dev)[k])
         /\ dev.sizes = "continuous" => dev.list[2] \in Size /\ Has(dev, dev.list[2])
<1>1. CASE dev.sizes = "discrete"
  <2>1. EnumeratedSizes(dev) = dev.list
    BY <1>1 DEF EnumeratedSizes
  <2>2. dev.list[k] \in Size /\ dev.list[k] \in Listed(dev)
    BY <2>1, DeviceIs DEF Listed
  <2>3. QED
    BY <1>1, <2>1, <2>2 DEF Has, Ranged
<1>2. CASE dev.sizes = "stepwise"
  BY <1>2, StepwiseHas
<1>3. CASE dev.sizes = "continuous"
  BY <1>3, ContinuousHas
<1>4. CASE dev.sizes = "none"
  <2>1. EnumeratedSizes(dev) = <<>>
    BY <1>4 DEF EnumeratedSizes
  <2>2. QED
    BY <2>1
<1>5. QED
  BY <1>1, <1>2, <1>3, <1>4 DEF IsDevice

(* Probing offers sizes the device has, the largest first.                 *)
Sorted(o) == \A i, j \in DOMAIN o : i < j => o[i].lo[1] * o[i].lo[2] >= o[j].lo[1] * o[j].lo[2]
OfferRight(dev, o) == Sorted(o) /\ \A i \in DOMAIN o : EntryRight(dev, o[i])

LEMMA DefaultRight ==
  ASSUME NEW dev, IsDevice(dev), Answering(dev), MaxSize \in Nat, NEW f, NEW kept,
         NEW o \in default_frame_sizes(dev, f, kept).caps
  PROVE  OfferRight(dev, o)
<1> DEFINE min == get_nearest_size(dev, f, 1, 1, kept)
           max == get_nearest_size(dev, min.fmt, MaxSize, MaxSize, kept)
<1>1. min.ok /\ min.size = Nearest(dev, 1, 1)
  BY AnswerIs
<1>2. /\ max.ok /\ max.size = Nearest(dev, MaxSize, MaxSize)
      /\ max.interlaced = Interlaced(dev.field)
  BY AnswerIs
<1>3. default_frame_sizes(dev, f, kept).caps
        = {<<[lo |-> min.size, hi |-> max.size, interlaced |-> i]>> :
             i \in IF max.ok \/ min.ok THEN {max.interlaced} ELSE BOOLEAN}
  BY DEF default_frame_sizes
<1> HIDE DEF min, max
<1>4. o = <<[lo |-> Nearest(dev, 1, 1), hi |-> Nearest(dev, MaxSize, MaxSize),
             interlaced |-> Interlaced(dev.field)]>>
  BY <1>1, <1>2, <1>3
<1>5. /\ Nearest(dev, 1, 1) \in Size /\ Has(dev, Nearest(dev, 1, 1))
      /\ Nearest(dev, MaxSize, MaxSize) \in Size /\ Has(dev, Nearest(dev, MaxSize, MaxSize))
  BY NearestIs
<1>6. DOMAIN o = {1} /\ EntryRight(dev, o[1])
  BY <1>4, <1>5 DEF EntryRight
<1>7. Sorted(o)
  BY <1>6 DEF Sorted
<1>8. QED
  BY <1>6, <1>7 DEF OfferRight

LEMMA ProbedRight ==
  ASSUME NEW dev, IsDevice(dev), Answering(dev), MaxSize \in Nat, NEW f, NEW kept,
         NEW o \in probe_caps_for_format(dev, f, kept).caps
  PROVE  OfferRight(dev, o)
<1> DEFINE sizes == EnumeratedSizes(dev)
           asked == {k \in DOMAIN sizes : sizes[k][1] # 0 /\ sizes[k][2] # 0}
           Probed(k) == probe_caps_for_format_and_size(dev, f, sizes[k],
                          IF dev.sizes = "continuous" THEN dev.list[2] ELSE sizes[k], kept)
           left == IF asked = {} THEN f ELSE Probed(Max(asked)).fmt
           shown == {k \in asked : Probed(k).ok}
           orders == {q \in [1..Cardinality(shown) -> shown] :
                        /\ {q[i] : i \in DOMAIN q} = shown
                        /\ \A i, j \in DOMAIN q : i < j =>
                             ~sort_by_frame_size(Probed(q[j]).entry, Probed(q[i]).entry)}
<1>1. ASSUME NEW k \in DOMAIN sizes
      PROVE  EntryRight(dev, Probed(k).entry) /\ Probed(k).entry.lo \in Size
  <2> DEFINE near == get_nearest_size(dev, f, sizes[k][1], sizes[k][2], kept)
             hi == IF dev.sizes = "continuous" THEN dev.list[2] ELSE sizes[k]
  <2>1. /\ sizes[k] \in Size /\ Has(dev, sizes[k])
        /\ dev.sizes = "continuous" => dev.list[2] \in Size /\ Has(dev, dev.list[2])
    BY EnumeratedHas
  <2>2. near.interlaced = Interlaced(dev.field)
    BY AnswerIs
  <2>3. Probed(k).entry = [lo |-> sizes[k], hi |-> hi, interlaced |-> near.interlaced]
    BY DEF probe_caps_for_format_and_size
  <2> HIDE DEF near, Probed, sizes
  <2>4. QED
    BY <2>1, <2>2, <2>3 DEF EntryRight
<1>2. CASE shown = {}
  <2>1. probe_caps_for_format(dev, f, kept) = default_frame_sizes(dev, left, kept)
    BY <1>2 DEF probe_caps_for_format
  <2> HIDE DEF left
  <2>2. QED
    BY <2>1, DefaultRight
<1>3. CASE shown # {}
  <2>1. probe_caps_for_format(dev, f, kept).caps
          = {[i \in DOMAIN q |-> Probed(q[i]).entry] : q \in orders}
    BY <1>3 DEF probe_caps_for_format
  <2>2. PICK q \in orders : o = [i \in DOMAIN q |-> Probed(q[i]).entry]
    BY <2>1
  <2>3. \A i \in DOMAIN q : q[i] \in DOMAIN sizes
    BY <2>2
  <2>4. \A i, j \in DOMAIN q : i < j =>
          ~sort_by_frame_size(Probed(q[j]).entry, Probed(q[i]).entry)
    BY <2>2
  <2> HIDE DEF Probed, orders, sizes
  <2>5. DOMAIN o = DOMAIN q /\ \A i \in DOMAIN o : o[i] = Probed(q[i]).entry
    BY <2>2
  <2>6. \A i \in DOMAIN o : EntryRight(dev, o[i]) /\ o[i].lo \in Size
    BY <1>1, <2>3, <2>5
  <2>7. ASSUME NEW i \in DOMAIN o, NEW j \in DOMAIN o, i < j
        PROVE  o[i].lo[1] * o[i].lo[2] >= o[j].lo[1] * o[j].lo[2]
    <3>1. ~sort_by_frame_size(o[j], o[i])
      BY <2>4, <2>5, <2>7
    <3>2. /\ o[i].lo[1] \in Nat /\ o[i].lo[2] \in Nat
          /\ o[j].lo[1] \in Nat /\ o[j].lo[2] \in Nat
      BY <2>6 DEF Size
    <3>3. o[i].lo[1] * o[i].lo[2] \in Nat /\ o[j].lo[1] * o[j].lo[2] \in Nat
      BY <3>2
    <3>4. QED
      BY <3>1, <3>3 DEF sort_by_frame_size
  <2>8. QED
    BY <2>6, <2>7 DEF OfferRight, Sorted
<1>4. QED
  BY <1>2, <1>3

(* A careful device is left as it was.                                     *)
LEMMA CarefulKeeps ==
  ASSUME NEW dev, dev.tries, ~dev.careless, NEW f, NEW kept
  PROVE  probe_caps_for_format(dev, f, kept).fmt = f
<1>1. \A g, w, h : get_nearest_size(dev, g, w, h, kept).fmt = g
  BY DEF get_nearest_size
<1>2. ASSUME NEW g
      PROVE  default_frame_sizes(dev, g, kept).fmt = g
  BY <1>1 DEF default_frame_sizes
<1>3. \A lo, hi : probe_caps_for_format_and_size(dev, f, lo, hi, kept).fmt = f
  BY <1>1 DEF probe_caps_for_format_and_size
<1> DEFINE sizes == EnumeratedSizes(dev)
           asked == {k \in DOMAIN sizes : sizes[k][1] # 0 /\ sizes[k][2] # 0}
           Probed(k) == probe_caps_for_format_and_size(dev, f, sizes[k],
                          IF dev.sizes = "continuous" THEN dev.list[2] ELSE sizes[k], kept)
           left == IF asked = {} THEN f ELSE Probed(Max(asked)).fmt
           shown == {k \in asked : Probed(k).ok}
<1>4. left = f
  BY <1>3
<1>5. /\ shown = {} => probe_caps_for_format(dev, f, kept) = default_frame_sizes(dev, left, kept)
      /\ shown # {} => probe_caps_for_format(dev, f, kept).fmt = left
  BY DEF probe_caps_for_format
<1>6. QED
  <2> HIDE DEF left, shown
  <2>1. QED
    BY <1>2, <1>4, <1>5

(* The bytes of a frame hold its samples, for any size.                    *)
LEMMA Rounded ==
  ASSUME NEW w \in Nat, w >= 1
  PROVE  /\ RoundUp(w, 2) \in Nat /\ RoundUp(w, 4) \in Nat /\ RoundUp(w, 8) \in Nat
         /\ RoundUp(w, 2) >= w /\ RoundUp(w, 4) >= w
         /\ RoundUp(w, 1) = w
         /\ RoundUp(w, 2) >= 2 * ((w + 3) \div 4)
         /\ RoundUp(w, 2) \div 2 = (w + 1) \div 2
         /\ RoundUp(w, 4) = 4 * ((w + 3) \div 4)
         /\ (w + 3) \div 4 \in Nat /\ (w + 1) \div 2 \in Nat /\ (w + 1) \div 2 <= w
         /\ RoundUp(w, 8) \div 2 \in Nat /\ RoundUp(w, 8) \div 2 >= (w + 3) \div 4
         /\ RoundUp(w, 8) \div 4 \in Nat /\ RoundUp(w, 8) \div 4 >= (w + 3) \div 4
BY DEF RoundUp

LEMMA FrameHolds ==
  ASSUME NEW f, NEW w \in Nat, NEW h \in Nat, w >= 1, h >= 1, frame_size(f, w, h) # 0
  PROVE  frame_size(f, w, h) >= w * h + 2 * ((w + 3) \div 4) * ((h + 1) \div 2)
<1> DEFINE w2 == RoundUp(w, 2)  w4 == RoundUp(w, 4)  w8 == RoundUp(w, 8)
           h2 == RoundUp(h, 2)
           c == (w + 3) \div 4
           r == (h + 1) \div 2
<1>1. /\ w2 \in Nat /\ w4 \in Nat /\ w8 \in Nat /\ h2 \in Nat /\ c \in Nat /\ r \in Nat
      /\ w2 >= w /\ w4 >= w /\ h2 >= h /\ RoundUp(h, 1) = h
      /\ w2 >= 2 * c /\ w4 = 4 * c /\ h2 \div 2 = r /\ r <= h
      /\ w8 \div 2 \in Nat /\ w8 \div 2 >= c /\ w8 \div 4 \in Nat /\ w8 \div 4 >= c
  BY Rounded
<1>2. frame_size(f, w, h) =
        CASE f \in {"YUV420", "YVU420"} -> w4 * h2 + 2 * ((w8 \div 2) * (h2 \div 2))
          [] f \in {"YUYV", "Y41P", "UYVY", "YVYU"} -> w2 * 2 * h
          [] f = "YUV411P" -> w4 * h + 2 * ((w8 \div 4) * (RoundUp(h, 1) \div 1))
          [] f = "YUV422P" -> w4 * h + 2 * ((w8 \div 2) * (RoundUp(h, 1) \div 1))
          [] f \in {"NV12", "NV21"} -> w4 * h2 + (w4 * h) \div 2
          [] OTHER -> 0
  BY DEF frame_size, Chroma
<1>3. RoundUp(h, 1) \div 1 = h
  BY <1>1
<1> HIDE DEF w2, w4, w8, h2, c, r
<1>4. c * r \in Nat /\ 2 * c * r = 2 * (c * r) /\ w * h \in Nat
  BY <1>1
<1>5. CASE f \in {"YUV420", "YVU420"}
  <2>1. frame_size(f, w, h) = w4 * h2 + 2 * ((w8 \div 2) * r)
    BY <1>1, <1>2, <1>5
  <2>2. w4 * h2 \in Nat /\ w * h <= w4 * h2
    BY <1>1, ProductGrows
  <2>3. (w8 \div 2) * r \in Nat /\ c * r <= (w8 \div 2) * r
    BY <1>1, ProductGrows
  <2>4. QED
    BY <1>4, <2>1, <2>2, <2>3 DEF c, r
<1>6. CASE f \in {"YUYV", "Y41P", "UYVY", "YVYU"}
  <2>1. frame_size(f, w, h) = w2 * 2 * h
    BY <1>2, <1>6
  <2>2. w2 * h \in Nat /\ w * h <= w2 * h
    BY <1>1, ProductGrows
  <2>3. 2 * c \in Nat /\ (2 * c) * r <= w2 * h
    BY <1>1, ProductGrows
  <2>4. w2 * 2 * h = w2 * h + w2 * h
    BY <1>1
  <2>5. QED
    BY <1>4, <2>1, <2>2, <2>3, <2>4 DEF c, r
<1>7. CASE f \in {"YUV411P", "YUV422P"}
  <2>1. PICK m \in {w8 \div 4, w8 \div 2} : frame_size(f, w, h) = w4 * h + 2 * (m * h)
    BY <1>2, <1>3, <1>7
  <2>2. m \in Nat /\ m >= c
    BY <1>1, <2>1
  <2>3. w4 * h \in Nat /\ w * h <= w4 * h
    BY <1>1, ProductGrows
  <2>4. m * h \in Nat /\ c * r <= m * h
    BY <1>1, <2>2, ProductGrows
  <2>5. QED
    BY <1>4, <2>1, <2>3, <2>4 DEF c, r
<1>8. CASE f \in {"NV12", "NV21"}
  <2>1. frame_size(f, w, h) = w4 * h2 + (w4 * h) \div 2
    BY <1>2, <1>8
  <2>2. w4 * h2 \in Nat /\ w * h <= w4 * h2
    BY <1>1, ProductGrows
  <2>3. c * h \in Nat /\ c * r <= c * h
    BY <1>1, ProductGrows
  <2>4. w4 * h = 4 * (c * h)
    BY <1>1
  <2>5. (4 * (c * h)) \div 2 = 2 * (c * h)
    BY <2>3
  <2>6. QED
    BY <1>4, <2>1, <2>2, <2>3, <2>4, <2>5 DEF c, r
<1>9. QED
  BY <1>2, <1>5, <1>6, <1>7, <1>8

(* Every format is found again by its caps.                                *)
LEMMA ListOfOne ==
  ASSUME NEW f, NEW g, f # "NULL", f = g \/ {f, g} \subseteq Jpegs
  PROVE  get_format_from_fourcc(<<f>>, g) = f
<1> DEFINE list == <<f>>
           hits == {i \in DOMAIN list : list[i] = g \/ {list[i], g} \subseteq Jpegs}
<1>1. hits = {1}
  OBVIOUS
<1>2. get_format_from_fourcc(list, g)
        = IF hits = {} THEN "NULL" ELSE list[CHOOSE i \in hits : \A j \in hits : i <= j]
  BY DEF get_format_from_fourcc
<1> HIDE DEF hits
<1>3. (CHOOSE i \in hits : \A j \in hits : i <= j) = 1
  BY <1>1
<1>4. QED
  BY <1>1, <1>2, <1>3

LEMMA FormatFound ==
  ASSUME NEW f \in gst_v4l2_formats \ Unnamed
  PROVE  LET g == caps_fourcc(v4l2fourcc_to_structure(f))
         IN  f # "NULL" /\ (f = g \/ {f, g} \subseteq Jpegs)
<1>1. CASE f \in Jpegs
  <2>1. v4l2fourcc_to_structure(f) = <<"image/jpeg">>
    BY <1>1 DEF v4l2fourcc_to_structure, Jpegs, rgb, fcc, mimetype
  <2>2. caps_fourcc(<<"image/jpeg">>) = "JPEG"
    BY DEF caps_fourcc
  <2>3. QED
    BY <1>1, <2>1, <2>2 DEF Jpegs
<1>2. CASE f \in DOMAIN fcc
  <2>1. v4l2fourcc_to_structure(f) = <<"video/x-raw-yuv", fcc[f]>>
    BY <1>2 DEF v4l2fourcc_to_structure, Jpegs, rgb, fcc, mimetype
  <2>2. fcc[f] # "IYUV" /\ f # "NULL"
    BY <1>2 DEF fcc
  <2>3. \A g \in DOMAIN fcc : fcc[g] = fcc[f] => g = f
    BY <1>2 DEF fcc
  <2>4. (CHOOSE g \in DOMAIN fcc : fcc[g] = fcc[f]) = f
    BY <1>2, <2>3
  <2>5. QED
    BY <2>1, <2>2, <2>4 DEF caps_fourcc
<1>3. CASE f \in DOMAIN rgb
  <2>1. v4l2fourcc_to_structure(f) = <<"video/x-raw-rgb", rgb[f][1], rgb[f][2], rgb[f][3]>>
    BY <1>3 DEF v4l2fourcc_to_structure, Jpegs, rgb, fcc, mimetype
  <2>2. f \in {"RGB332", "RGB555", "RGB555X", "RGB565", "RGB565X", "RGB24", "BGR24",
               "RGB32", "BGR32"}
    BY <1>3 DEF rgb
  <2>3. caps_fourcc(v4l2fourcc_to_structure(f)) = f
    BY <2>1, <2>2 DEF caps_fourcc, rgb
  <2>4. QED
    BY <2>2, <2>3
<1>4. CASE f \in DOMAIN mimetype
  <2>1. v4l2fourcc_to_structure(f) = <<mimetype[f]>>
    BY <1>4 DEF v4l2fourcc_to_structure, Jpegs, rgb, fcc, mimetype
  <2>2. mimetype[f] \notin {"video/x-raw-yuv", "video/x-raw-rgb", "image/jpeg"} /\ f # "NULL"
    BY <1>4 DEF mimetype
  <2>3. \A g \in DOMAIN mimetype : mimetype[g] = mimetype[f] => g = f
    BY <1>4 DEF mimetype
  <2>4. (CHOOSE g \in DOMAIN mimetype : mimetype[g] = mimetype[f]) = f
    BY <1>4, <2>3
  <2>5. QED
    BY <2>1, <2>2, <2>4 DEF caps_fourcc
<1>5. QED
  BY <1>1, <1>2, <1>3, <1>4 DEF gst_v4l2_formats

LEMMA FormatsAreFound == FormatsFound
<1>1. \A f \in gst_v4l2_formats \ Unnamed :
        get_format_from_fourcc(<<f>>, caps_fourcc(v4l2fourcc_to_structure(f))) = f
  BY FormatFound, ListOfOne
<1>2. \A f \in DOMAIN fcc, w \in 1..9, h \in 1..3 :
        frame_size(f, w, h) # 0 =>
          frame_size(f, w, h) >= w * h + 2 * ((w + 3) \div 4) * ((h + 1) \div 2)
  BY FrameHolds
<1>3. QED
  BY <1>1, <1>2 DEF FormatsFound

(* What is offered can be set, for any device that answers: whatever it    *)
(* was set to before, with the field order it is offered with, the largest *)
(* size first, and a careful device is left as it was; every format with   *)
(* caps is found again by them.                                            *)
THEOREM OfferedCanBeSet == Spec => []ProbedIsSettable
<1> DEFINE Inv == /\ conf \in Confs
                  /\ app = "probed" => \E f, kept :
                       offered \in probe_caps_for_format(conf.dev, f, kept).caps
<1>1. Init => Inv
  BY DEF Init
<1>2. Inv /\ [Next]_vars => Inv'
  <2> SUFFICES ASSUME Inv, [Next]_vars PROVE Inv'
    OBVIOUS
  <2>1. CASE probe
    BY <2>1 DEF probe
  <2>2. CASE UNCHANGED vars
    BY <2>2 DEF vars, control
  <2>3. ASSUME conf' = conf, app' # "probed" \/ (app' = app /\ offered' = offered)
        PROVE  Inv'
    BY <2>3
  <2>4. CASE set_capture \/ capture_init \/ capture_start
    BY <2>3, <2>4 DEF set_capture, capture_init, pool_new, Made, capture_start
  <2>5. CASE Grab \/ grab_frame
    BY <2>3, <2>5 DEF Grab, poll, dqbuf, dqbuf_got, hand_out, grab_frame, control
  <2>6. CASE Stop \/ Unlock
    <3>1. CASE capture_stop
      BY <2>3, <3>1 DEF capture_stop
    <3>2. CASE pool_destroy
      BY <2>3, <3>2 DEF pool_destroy
    <3>3. CASE capture_deinit \/ Unlock
      BY <2>3, <3>3 DEF capture_deinit, Unlock
    <3>4. QED
      BY <2>6, <3>1, <3>2, <3>3 DEF Stop
  <2>7. CASE \E t \in Threads : finalize(t)
    BY <2>3, <2>7 DEF finalize, control
  <2>8. CASE Fill \/ Release
    BY <2>3, <2>8 DEF Fill, Release, control
  <2>9. QED
    BY <2>1, <2>2, <2>4, <2>5, <2>6, <2>7, <2>8 DEF Next, Start
<1>3. Inv => ProbedIsSettable
  <2> SUFFICES ASSUME Inv, app = "probed", Answers PROVE OfferedIsTaken
    BY FormatsAreFound DEF ProbedIsSettable, OfferedIsTaken
  <2>1. IsDevice(conf.dev) /\ MaxSize \in Nat
    BY DeviceAssumption
  <2>2. Answering(conf.dev)
    BY DEF Answers, Answering, get_nearest_size
  <2>3. OfferRight(conf.dev, offered)
    BY <2>1, <2>2, ProbedRight
  <2>4. \A i \in DOMAIN offered : \A s \in {offered[i].lo, offered[i].hi} :
          set_format(conf.dev, fmt, s[1], s[2], offered[i].interlaced).ok
    BY <2>1, <2>2, <2>3, EntryTaken DEF OfferRight
  <2>5. \A i, j \in DOMAIN offered :
          i < j => offered[i].lo[1] * offered[i].lo[2] >= offered[j].lo[1] * offered[j].lo[2]
    BY <2>3 DEF OfferRight, Sorted
  <2>6. conf.dev.tries /\ ~conf.dev.careless =>
          probe_caps_for_format(conf.dev, fmt, FALSE).fmt = fmt
    BY CarefulKeeps
  <2>7. QED
    BY <2>4, <2>5, <2>6 DEF OfferedIsTaken
<1>4. QED
  BY <1>1, <1>2, <1>3, PTL DEF Spec
=============================================================================
