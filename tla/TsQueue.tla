------------------------------- MODULE TsQueue -----------------------------
(***************************************************************************)
(* What the ring of timestamps (TsRing) promises: a FIFO of frames and     *)
(* events in the order in which they reached the sink pad.  A flush marks  *)
(* everything that is in it; marked entries are consumed in their turn     *)
(* without being pushed, every other one is pushed, in order and once.     *)
(***************************************************************************)
EXTENDS Naturals, Sequences

CONSTANTS Times, Events

VARIABLES
  entries,   (* what has been stored and not consumed, oldest first *)
  flushed,   (* how many of them, from the front, are flushed       *)
  sent       (* what the last push handed downstream                *)

vars == <<entries, flushed, sent>>

Frame(t) == [kind |-> "frame", of |-> t]
Segment(e) == [kind |-> "event", of |-> e]

Init ==
  /\ entries = <<>>
  /\ flushed = 0
  /\ sent = <<>>

Store(x) ==
  /\ entries' = Append(entries, x)
  /\ UNCHANGED <<flushed, sent>>

(* The first n entries are events and the one after them is not. *)
LeadsWith(n) ==
  /\ \A k \in 1 .. n : entries[k].kind = "event"
  /\ n < Len(entries) => entries[n + 1].kind = "frame"

ClearEvents ==
  \E n \in 0 .. Len(entries) :
    /\ LeadsWith(n)
    /\ entries' = SubSeq(entries, n + 1, Len(entries))
    /\ flushed' = IF flushed < n THEN 0 ELSE flushed - n
    /\ sent' = [k \in 1 .. (IF flushed < n THEN n - flushed ELSE 0)
                  |-> entries[flushed + k]]

HeadIsFrame == entries # <<>> /\ Head(entries).kind = "frame"

Drop ==
  /\ HeadIsFrame
  /\ flushed > 0
  /\ entries' = Tail(entries)
  /\ flushed' = flushed - 1
  /\ UNCHANGED sent

Deliver ==
  /\ HeadIsFrame
  /\ flushed = 0
  /\ entries' = Tail(entries)
  /\ sent' = <<Head(entries)>>
  /\ UNCHANGED flushed

Flush ==
  /\ flushed' = Len(entries)
  /\ UNCHANGED <<entries, sent>>

Reset ==
  /\ entries' = <<>>
  /\ flushed' = 0
  /\ UNCHANGED sent

Next ==
  \/ \E t \in Times : Store(Frame(t))
  \/ \E e \in Events : Store(Segment(e))
  \/ ClearEvents
  \/ Drop
  \/ Deliver
  \/ Flush
  \/ Reset

Spec == Init /\ [][Next]_vars

=============================================================================
