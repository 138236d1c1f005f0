----------------------------- MODULE DspFraming -----------------------------
(***************************************************************************)
(* The framing of H.264 in td_h264dec.c.  A configuration record goes to   *)
(* the node as its parameter sets, each behind a length field of lol       *)
(* bytes, the width the record announces; in the buffers after it the      *)
(* length fields become start codes.                                       *)
(*                                                                         *)
(* A buffer is the sequence of its bytes, counted from 1.                  *)
(***************************************************************************)
EXTENDS Integers, SequencesExt

IsByteStream(y) == y[1] = 0 /\ y[2] = 0 /\ (y[3] = 1 \/ (y[3] = 0 /\ y[4] = 1))

(* Mutant: the field is taken for the number itself, not one less.         *)
LengthNotLessOne(y) == y[5] % 4
LengthOfLength(y) == 1 + (y[5] % 4)
From(y, k) == SubSeq(y, k, Len(y))

(* The last n bytes of a 32 bit word, and the word that has n bytes last.  *)
BigEndian(v, n) == [k \in 1..n |-> (v \div <<16777216, 65536, 256, 1>>[4 - n + k]) % 256]
Length(y, n) ==
  LET c == [k \in 1..4 |-> IF k + n > 4 THEN y[k + n - 4] ELSE 0]
  IN  16777216 * c[1] + 65536 * c[2] + 256 * c[3] + c[4]

(* n parameter sets at the head of y, of which size bytes are left.        *)
parameter_set(r, lol) ==
  LET len == Length(r.rest, 2)
  IN  IF ~r.ok \/ r.size < 2 \/ r.size < len + 2 THEN [r EXCEPT !.ok = FALSE]
      ELSE [ok |-> TRUE, size |-> r.size - (len + 2), rest |-> From(r.rest, len + 3),
            out |-> r.out \o BigEndian(len, lol) \o SubSeq(r.rest, 3, len + 2)]
parameter_sets(y, n, size, lol) ==
  LET r[k \in 0..n] ==
        IF k = 0 THEN [ok |-> TRUE, size |-> size, rest |-> y, out |-> <<>>]
        ELSE parameter_set(r[k - 1], lol)
  IN  r[n]

(* A record: the code adds one to the bytes left for the number of picture *)
(* parameter sets, which it should subtract.                               *)
transform_record(y, lol) ==
  LET num_sps == parameter_sets(From(y, 7), y[6] % 32, Len(y) - 6, lol)
      num_pps == parameter_sets(From(num_sps.rest, 2), num_sps.rest[1], num_sps.size + 1, lol)
  IN  IF num_sps.ok /\ num_pps.ok
      THEN [ok |-> TRUE, lol |-> lol, out |-> num_sps.out \o num_pps.out]
      ELSE [ok |-> FALSE]

(* lol is left as it is by a byte stream, which goes to the node as it is. *)
transform_codec_data(y, lol) ==
  IF Len(y) < 8 THEN [ok |-> FALSE]
  ELSE IF IsByteStream(y) THEN [ok |-> TRUE, lol |-> lol, out |-> y]
  ELSE transform_record(y, LengthOfLength(y))

(* The NAL units of a frame.  What is no more than a part of one is left   *)
(* as it is; with a lol below 3 nothing has been changed by then.  In C the*)
(* sum of a length from 2^31 - lol on and its field wraps; it is taken for *)
(* a unit that is too long here.                                           *)
start_code(lol) == IF lol = 3 THEN <<0, 0, 1>> ELSE <<0, 0, 0, 1>>
nal_unit(r, lol) ==
  LET len == Length(r.rest, lol)
      out == r.out \o start_code(lol)
  IN  IF Len(r.rest) < lol THEN r
      ELSE IF Len(r.rest) < lol + len
      THEN [ok |-> FALSE, rest |-> <<>>, out |-> out \o From(r.rest, lol + 1)]
      ELSE [ok |-> r.ok, rest |-> From(r.rest, lol + len + 1),
            out |-> out \o SubSeq(r.rest, lol + 1, lol + len)]
transform_nal_encoding(y, lol) ==
  LET r[k \in 0..Len(y)] == IF k = 0 THEN [ok |-> TRUE, rest |-> y, out |-> <<>>]
                            ELSE nal_unit(r[k - 1], lol)
      end == r[Len(y)]
  IN  IF lol < 3 /\ ~(end.ok /\ end.rest = <<>>) THEN y ELSE end.out \o end.rest
=============================================================================
