------------------------------ MODULE TsStream -----------------------------
(***************************************************************************)
(* The ring of timestamps in use.  The streaming thread stores frames and  *)
(* events while output_loop goes, one critical section at a time, through  *)
(* the part of its iteration that works on the ring (gstdspbase.c, from    *)
(* the check for too many buffers to the one where it takes the timestamp  *)
(* of the buffer it pushes).                                               *)
(***************************************************************************)
EXTENDS TsRing

VARIABLES
  reader,    (* where output_loop is in that part of its iteration    *)
  sent       (* what it last handed downstream, as TsQueue tells it   *)

vars == <<ts_array, ts_in_pos, ts_out_pos, ts_push_pos, ts_count, reader, sent>>

(* "frame"/"empty": has a buffer with/without data, past the first check;  *)
(* "cleared": has handled the pending events; "flushed"/"live": knows      *)
(* whether the frame at the head has been flushed.                         *)
Readers == {"idle", "frame", "empty", "cleared", "flushed", "live"}

(* The ring's and the reader's types. *)
TypeOK ==
  /\ TsTypeOK
  /\ reader \in Readers
  /\ sent \in Seq([kind : {"frame"}, of : Times] \cup [kind : {"event"}, of : Events])

Init ==
  /\ TsInit
  /\ reader = "idle"
  /\ sent = <<>>

Chain(t) ==
  /\ RoomLeft
  /\ StoreFrame(t)
  /\ UNCHANGED <<reader, sent>>

NewSegment(e) ==
  /\ RoomLeft
  /\ StoreEvent(e)
  /\ UNCHANGED <<reader, sent>>

(* `if (b->len && !ts_count)': a frame nobody asked for is sent back. *)
BeginFrame ==
  /\ reader = "idle"
  /\ ts_count # 0
  /\ reader' = "frame"
  /\ UNCHANGED <<tsVars, sent>>

BeginEmpty ==
  /\ reader = "idle"
  /\ reader' = "empty"
  /\ UNCHANGED <<tsVars, sent>>

PushEvents ==
  /\ reader \in {"frame", "empty"}
  /\ ClearEvents
  /\ reader' = IF reader = "frame" THEN "cleared" ELSE "idle"
  /\ sent' = [k \in DOMAIN EventsPushed |->
                [kind |-> "event", of |-> EventsPushed[k]]]

CheckFlushed ==
  /\ reader = "cleared"
  /\ reader' = IF HeadFlushed THEN "flushed" ELSE "live"
  /\ UNCHANGED <<tsVars, sent>>

DropFlushed ==
  /\ reader = "flushed"
  /\ DropFrame
  /\ reader' = "idle"
  /\ UNCHANGED sent

PushFrame ==
  /\ reader = "live"
  /\ TakeFrame
  /\ reader' = "idle"
  /\ sent' = <<[kind |-> "frame", of |-> FrameTime]>>

(* output_loop leaves without consuming a timestamp: the buffer has no     *)
(* data since the EOS before, gst_pad_alloc_buffer fails, or skip_hack     *)
(* drops the buffer.                                                       *)
Abandon ==
  /\ reader \in {"cleared", "live"}
  /\ reader' = "idle"
  /\ UNCHANGED <<tsVars, sent>>

(* Mutant of Flush: FLUSH_START did not wait. *)
FlushAnytime ==
  /\ FlushRing
  /\ UNCHANGED <<reader, sent>>

(* FLUSH_STOP follows a FLUSH_START, which waits for the iteration in      *)
(* progress; _dsp_stop has stopped the task.                               *)
Flush ==
  /\ reader = "idle"
  /\ FlushRing
  /\ UNCHANGED <<reader, sent>>

Reset ==
  /\ reader = "idle"
  /\ ResetRing
  /\ UNCHANGED <<reader, sent>>

Next ==
  \/ \E t \in Times : Chain(t)
  \/ \E e \in Events : NewSegment(e)
  \/ BeginFrame \/ BeginEmpty \/ PushEvents \/ CheckFlushed
  \/ DropFlushed \/ PushFrame \/ Abandon
  \/ Flush
  \/ Reset

Spec == Init /\ [][Next]_vars

----------------------------------------------------------------------------
(* The timestamp output_loop consumes or drops is one a frame put there,   *)
(* and the counter it decrements (a gulong) is not zero: no underflow, and *)
(* no slot that is empty or holds an event.                                *)
ReaderFindsFrame ==
  reader \in {"cleared", "flushed", "live"} =>
    /\ ts_count > 0
    /\ ts_out_pos \in FrameSlots

(* The answer of the flush check is still right when it is acted upon, in  *)
(* another critical section.                                               *)
FlushCheckHolds ==
  /\ reader = "flushed" => HeadFlushed
  /\ reader = "live" => ~HeadFlushed

(* What output_loop found in one critical section is true in the next one, *)
(* whatever pad_chain, an event or a flush has done to the ring between    *)
(* them: there is a frame to take or to drop, and the answer of the flush  *)
(* check is still right.                                                   *)
ReaderKnowsRing ==
  /\ ReaderFindsFrame
  /\ FlushCheckHolds

(* The ring implements the FIFO with flush marks. *)
TQ == INSTANCE TsQueue WITH
        entries <- [k \in 1 .. Outstanding |->
                      LET slot == ts_array[Ahead(k - 1)]
                      IN  IF slot.event # NoEvent
                          THEN [kind |-> "event", of |-> slot.event]
                          ELSE [kind |-> "frame", of |-> slot.time]],
        flushed <- Flushed

(* The ring, its window read from ts_out_pos to ts_in_pos, is the FIFO of  *)
(* TsQueue: frames and events come out once, in order, flushed ones        *)
(* marked.                                                                 *)
ImplementsTsQueue == TQ!Spec

=============================================================================
