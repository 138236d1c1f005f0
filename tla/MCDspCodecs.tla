---------------------------- MODULE MCDspCodecs ----------------------------
(***************************************************************************)
(* The codec side of the elements, for TLC: the streams, the inputs of the *)
(* functions, and what the functions have to find in them.                 *)
(*                                                                         *)
(* The inputs are built here the way the standards build them, from lists  *)
(* of <<value, bits>>; the parsers have to find in them what was put in.   *)
(***************************************************************************)
EXTENDS DspCodecs

-----------------------------------------------------------------------------
(* Writing bits.                                                           *)
Num(v, n) == [k \in 1..n |-> (v \div 2^(n - k)) % 2]
Zeros(n) == [k \in 1..n |-> 0]
Write(fields) == FoldLeft(LAMBDA b, f : b \o f, <<>>, fields)
If(flag, bits) == IF flag THEN bits ELSE <<>>
Flag(flag) == IF flag THEN <<1>> ELSE <<0>>
Width(v) == CHOOSE n \in 1..30 : 2^(n - 1) <= v /\ v < 2^n
UE(v) == Zeros(Width(v + 1) - 1) \o Num(v + 1, Width(v + 1))
SE(v) == UE(IF v > 0 THEN 2 * v - 1 ELSE -2 * v)
Aligned(b) == b \o Zeros((8 - (Len(b) % 8)) % 8)
Start(c) == Num(1, 24) \o Num(c, 8)

(* H.263: the regular formats, the standard ones of an extended header,    *)
(* and custom sizes.                                                       *)
H263(type, rest) == Aligned(Num(32, 22) \o Num(5, 8) \o Num(128 + type, 8) \o rest)
Regular(type) ==
  [parser |-> "h263", bits |-> H263(type, Num(9, 11) \o Num(1, 16)),
   size |-> sizes[type], crop |-> <<0, 0>>]
Extended(format, rest) ==
  H263(7, Num(1, 3) \o Num(format, 3) \o Num(8, 15) \o rest)
Standard(format) ==
  [parser |-> "h263", bits |-> Extended(format, Zeros(48)), size |-> sizes[format],
   crop |-> <<0, 0>>]
Custom(cpm, pf) ==
  [parser |-> "h263",
   bits |-> Extended(6, Write(<<Zeros(9), Flag(cpm), If(cpm, <<1, 0>>), Num(pf, 4),
                               Num(39, 9), <<1>>, Num(30, 9),
                               If(pf = 15, Num(3, 8) \o Num(2, 8)), Zeros(8)>>)),
   size |-> <<160, 120>>, crop |-> <<0, 0>>]

H263Inputs == {Regular(t) : t \in 1..5} \cup {Standard(f) : f \in 1..5}
              \cup {Custom(c, pf) : c \in BOOLEAN, pf \in {2, 15}}

(* MPEG-4: a video object with or without the sequence before it, user     *)
(* data, and each of the optional elements.                                *)
UserData(there) == If(there, Start(178) \o Num(68, 8) \o Num(105, 8))
Sequence(user, verid, signal, colour) ==
  Write(<<Start(176), Num(3, 8), UserData(user), Start(181), Flag(verid),
          If(verid, Num(17, 7)), Num(1, 4), Flag(signal),
          If(signal, Num(5, 4) \o Flag(colour) \o If(colour, Num(257, 24)))>>)
Stuffed(b) == LET n == 8 - (Len(b) % 8) IN b \o Num(2^(n - 1) - 1, n)
Layer(user, verid, ar, ctl, vbv, res, fixed) ==
  Aligned(Write(
    <<UserData(user), Start(3), Start(32), Num(2, 9), Flag(verid), If(verid, Num(9, 7)),
      Num(ar, 4), If(ar = 15, Num(12, 8) \o Num(11, 8)), Flag(ctl),
      If(ctl, Num(2, 3) \o Flag(vbv) \o If(vbv, Num(3, 16) \o Zeros(60) \o Num(5, 3))),
      Num(0, 2), <<1>>, Num(res, 16), <<1>>, Flag(fixed), If(fixed, Num(1, Width(res))),
      <<1>>, Num(30, 13), <<1>>, Num(28, 13), <<1>>, Num(0, 5)>>))
Layers == {Layer(user, verid, ar, vbv, vbv, 25, fixed) :
             user \in BOOLEAN, verid \in BOOLEAN, ar \in {1, 15}, vbv \in BOOLEAN,
             fixed \in BOOLEAN}
PlainLayer == Layer(FALSE, FALSE, 1, TRUE, FALSE, 30, FALSE)
Mpeg4(bits) == [parser |-> "mpeg4", bits |-> bits, size |-> <<30, 28>>, crop |-> <<0, 0>>]
Mpeg4Inputs ==
  {Mpeg4(b) : b \in Layers}
  \cup {Mpeg4(Num(171, 16) \o PlainLayer)}
  \cup {Mpeg4(Stuffed(Sequence(user, verid, signal, signal /\ verid)) \o PlainLayer) :
          user \in BOOLEAN, verid \in BOOLEAN, signal \in BOOLEAN}

(* H.264: an SPS with its stop bit, as bytes; escaped, behind a start code *)
(* or in a configuration record.                                           *)
Sps(profile, chroma, lists, poc, frame, cut, wide) ==
  Bytes(Aligned(Write(
    <<Num(103, 8), Num(profile, 8), Num(0, 8), Num(30, 8), UE(0),
      If(profile = 100,
         Write(<<UE(chroma), If(chroma = 3, <<0>>), UE(0), UE(0), <<0>>, Flag(lists),
                 If(lists, Write(<< <<1>>, SE(4), SE(-12), <<1>>, SE(-8), Zeros(IF chroma = 3 THEN 10 ELSE 6) >>))>>)),
      UE(0), UE(poc),
      CASE poc = 0 -> UE(2)
        [] poc = 1 -> Write(<< <<0>>, SE(500000000), SE(-1), UE(2), SE(3), SE(-4)>>)
        [] OTHER -> <<>>,
      UE(1), <<0>>, UE(wide), UE(IF frame THEN 1 ELSE 0), Flag(frame), If(~frame, <<0>>),
      <<1>>, Flag(cut), If(cut, UE(0) \o UE(1) \o UE(0) \o UE(1)), <<0>>, <<1>>>>)))

Escape(y) ==
  FoldLeft(LAMBDA z, c :
             IF Len(z) >= 2 /\ z[Len(z)] = 0 /\ z[Len(z) - 1] = 0 /\ c <= 3
             THEN z \o <<3, c>> ELSE Append(z, c),
           <<>>, y)
Pps == <<104, 206, 60, 128>>
Tail8 == <<0, 0, 0, 1>> \o Pps
SubWidth(chroma) == IF chroma \in {1, 2} THEN 2 ELSE 1
SubHeight(chroma, frame) ==
  (IF chroma = 1 THEN 2 ELSE 1) * (IF frame THEN 1 ELSE 2)
H264(sps_bytes, avc, chroma, frame, cut) ==
  [parser |-> "h264",
   bits |-> BitsOf(IF avc THEN create_codec_data(sps_bytes, Pps)
                   ELSE <<0, 0, 0, 1>> \o sps_bytes \o Tail8),
   size |-> <<32, 32>>,
   crop |-> IF cut THEN <<32 - SubWidth(chroma), 32 - SubHeight(chroma, frame)>>
            ELSE <<32, 32>>]
H264Inputs ==
  {H264(Escape(Sps(66, 1, FALSE, poc, frame, cut, 1)), avc, 1, frame, cut) :
     poc \in 0..2, frame \in BOOLEAN, cut \in BOOLEAN, avc \in BOOLEAN}
  \cup {H264(Escape(Sps(100, chroma, lists, 0, TRUE, TRUE, 1)), FALSE, chroma, TRUE, TRUE) :
          chroma \in 0..3, lists \in BOOLEAN}

HeaderInputs == H263Inputs \cup Mpeg4Inputs \cup H264Inputs

(* Each header, whole or cut off after any of its bytes, and what its      *)
(* parser finds in it.                                                     *)
Cuts(h) ==
  {[kind |-> "header", whole |-> 8 * n >= Len(h.bits), size |-> h.size, crop |-> h.crop,
    bits |-> SubSeq(h.bits, 1, 8 * n),
    found |-> Parse(h.parser, SubSeq(h.bits, 1, 8 * n), FALSE, FALSE)] :
     n \in 0..(Len(h.bits) \div 8)}

(* Targets of the level choice around the boundaries of the tables.        *)
LevelInputs ==
  [kind : {"level"}, levels : {"h264", "h263", "mp4v"},
   size : {<<176, 144>>, <<352, 288>>, <<640, 480>>, <<720, 576>>, <<864, 480>>,
           <<1280, 720>>},
   framerate : {10, 15, 30}, bitrate : {0, 64001, 2000000, 20000000},
   user_max_bitrate : {0, 1000000}, tgt_level : {-1, 3, 13, 20, 30}]

(* NAL units for the framing of H.264, with each width of length field.    *)
Units == << <<103, 66, 0, 30>>, <<104, 206>>, <<101>>, <<65, 0, 0, 2, 7>> >>
FramingInputs ==
  [kind : {"framing"}, lol : 1..4, units : {SubSeq(Units, 1, n) : n \in 0..4},
   sps : {<<Units[1]>>, <<Units[1], Units[3]>>}, pps : {<<Units[2]>>, <<Units[2], Units[4]>>}]

AllInputs == UNION {Cuts(h) : h \in HeaderInputs} \cup LevelInputs \cup FramingInputs

-----------------------------------------------------------------------------
(* The streams.  A frame without a header is a slice.                      *)
Slice == BitsOf(<<0, 0, 0, 1, 65, 154, 33, 44, 55, 66, 77, 88>>)
SliceUnit == BitsOf(<<0, 0, 0, 4, 65, 154, 33, 44, 55, 66, 77, 88>>)
SpsStream(sps_bytes) == BitsOf(<<0, 0, 0, 1>> \o Escape(sps_bytes) \o Tail8)
Sps32 == Sps(66, 1, FALSE, 0, TRUE, FALSE, 1)
Sps30 == Sps(66, 1, FALSE, 0, TRUE, TRUE, 1)
Sps48 == Sps(66, 1, FALSE, 0, FALSE, FALSE, 2)
Source(codec, announced, coded_size, data, frame, headed) ==
  [codec |-> codec, caps |-> announced, size |-> coded_size, has_data |-> data # <<>>,
   data |-> data, frame |-> frame, headers |-> [data |-> data # <<>>, frame |-> headed]]

SampleStreams ==
  << Source("h264", <<30, 30>>, <<32, 32>>, <<>>, SpsStream(Sps30), TRUE),
     Source("h264", <<32, 32>>, <<48, 32>>, <<>>, SpsStream(Sps48), TRUE),
     Source("h264", <<32, 32>>, <<32, 32>>, SpsStream(Sps32), Slice, FALSE),
     Source("h264", <<16, 16>>, <<32, 32>>,
            BitsOf(create_codec_data(Escape(Sps32), Pps)), SliceUnit, FALSE),
     Source("mpeg4", <<30, 28>>, <<30, 28>>, <<>>, PlainLayer, TRUE),
     Source("h263", <<48, 48>>, <<128, 96>>, <<>>, Regular(1).bits, TRUE),
     Source("wmv", <<32, 32>>, <<32, 32>>, <<>>, Slice, FALSE) >>

AllStreams == SampleStreams
UYVYandI420 == {"UYVY", "I420"}
AllEncConfs == [inband : BOOLEAN, empties : BOOLEAN, refuses : BOOLEAN]
TwoBuffers == <<1, 2>>

-----------------------------------------------------------------------------
(* What the parsers find in a header, whole or cut off after any of its    *)
(* bytes, is the size and the cropping that were written into it, and a    *)
(* whole header is never refused.  (gst_dsp_h263_parse,                    *)
(* gst_dsp_mpeg4_parse, gst_dsp_h264_parse)                                *)
ParsedRight ==
  input.kind = "header" =>
    IF input.found.ok THEN input.found.size = input.size /\ input.found.crop = input.crop
    ELSE ~input.whole
=============================================================================
