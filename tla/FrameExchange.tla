---------------------------- MODULE FrameExchange ----------------------------
(***************************************************************************)
(* What a capture element promises of the buffers it shares with a device: *)
(* each belongs to one party at a time, a frame is handed on only while    *)
(* the device has another buffer to write to, and what the sink has is     *)
(* nobody else's until the sink gives it back.                             *)
(***************************************************************************)
CONSTANT Buffers

VARIABLES owner,   \* who has each buffer: "device", "source", "sink" or "none"
          on       \* the device streams

TypeOK == owner \in [Buffers -> {"device", "source", "sink", "none"}] /\ on \in BOOLEAN

Init == owner = [b \in Buffers |-> "none"] /\ on = FALSE

Move(B, from, to) == /\ \A b \in B : owner[b] = from
                     /\ owner' = [b \in Buffers |-> IF b \in B THEN to ELSE owner[b]]

(* The device is given all the buffers it is to start with. *)
Start == \E B \in SUBSET Buffers : Move(B, "none", "device") /\ on' = TRUE

Capture(b) == on /\ Move({b}, "device", "source") /\ UNCHANGED on

(* A frame goes on as it is only while another buffer can take the next. *)
Hand(b) == /\ \E c \in Buffers : owner[c] = "device"
           /\ Move({b}, "source", "sink") /\ UNCHANGED on

(* Back to the device, or lost if it will not have it. *)
Recycle(b) == /\ \E to \in {"device", "none"} :
                   Move({b}, "source", to) \/ Move({b}, "sink", to)
              /\ UNCHANGED on

Stop == /\ on /\ on' = FALSE
        /\ owner' = [b \in Buffers |-> IF owner[b] = "sink" THEN "sink" ELSE "none"]

Next == Start \/ Stop \/ \E b \in Buffers : Capture(b) \/ Hand(b) \/ Recycle(b)

Spec == Init /\ [][Next]_<<owner, on>>
=============================================================================
