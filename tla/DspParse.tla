------------------------------ MODULE DspParse ------------------------------
(***************************************************************************)
(* The stream parsers of gstdspparse.c: what a decoder learns of the frame *)
(* size from the first bytes of an H.263, MPEG-4 or H.264 stream.          *)
(*                                                                         *)
(* A buffer is the sequence of its bits, counted from 0 as the code's      *)
(* reader counts them.  The parsers are guards over the positions of the   *)
(* syntax elements: an element the code skips is only a distance.  At      *)
(* reads exactly the bits of the buffer, so a read the code does not check *)
(* against get_bits_left has no value here.                                *)
(***************************************************************************)
EXTENDS Integers, FiniteSets, SequencesExt, FiniteSetsExt

CONSTANTS IntMax,    \* the largest int, 2^31 - 1 in the code
          Overshift  \* what 1 << 32 is: 0 on ARM, 1 on x86

ASSUME WordAssumption ==
  IntMax \in Nat /\ (IntMax + 1) % 16 = 0 /\ Overshift \in {0, 1}

(* What an unsigned and an int hold of a value.                            *)
Unsigned(v) == v % (2 * (IntMax + 1))
AsInt(v) == IF Unsigned(v) <= IntMax THEN Unsigned(v)
            ELSE Unsigned(v) - 2 * (IntMax + 1)

(* get_bits, show_bits and get_bits1: n bits from position p.              *)
At(b, p, n) ==
  LET v[k \in 0..n] == IF k = 0 THEN 0 ELSE 2 * v[k - 1] + b[p + k] IN v[n]

(* get_bits_left                                                           *)
Left(b, p) == Len(b) - p

(* A 32 bit word, as two halves.                                           *)
Word(b, p) == <<At(b, p, 16), At(b, p + 16, 16)>>

Bytes(b) == [i \in 1..(Len(b) \div 8) |-> At(b, 8 * (i - 1), 8)]
BitsOf(y) ==
  [i \in 1..(8 * Len(y)) |->
     (y[((i - 1) \div 8) + 1] \div <<128, 64, 32, 16, 8, 4, 2, 1>>[((i - 1) % 8) + 1]) % 2]

(***************************************************************************)
(* What a parser tells set_framesize; an absent cropping is 0 by 0, an     *)
(* absent pixel aspect ratio 0:0.                                          *)
(***************************************************************************)
Refused == [ok |-> FALSE]
Cropped(size, crop, par, avc) ==
  [ok |-> TRUE, size |-> size, crop |-> crop, par |-> par, avc |-> avc]
Frame(size, par) == Cropped(size, <<0, 0>>, par, FALSE)

-----------------------------------------------------------------------------
(* H.263: the five picture formats, and the pixel aspect ratios.           *)
sizes == << <<128, 96>>, <<176, 144>>, <<352, 288>>, <<704, 576>>, <<1408, 1152>> >>
pars == << <<1, 1>>, <<12, 11>>, <<10, 11>>, <<16, 11>>, <<40, 33>> >>
default_par == <<11, 12>>

(* The custom format of an extended header: position 68 holds CPM, which   *)
(* brings two bits of PSBI with it.                                        *)
custom_picture(b) ==
  LET p == 69 + 2 * At(b, 68, 1)
      pf == At(b, p, 4)
      epar == At(b, p + 23, 16)
      extended_par == pf = 15
  IN  IF \/ p = 71 /\ Left(b, 69) < 25
         \/ extended_par /\ Left(b, p + 23) < 16
      THEN Refused
      ELSE Frame(<<4 * (At(b, p + 4, 9) + 1), 4 * At(b, p + 14, 9)>>,
                 IF extended_par /\ epar # 0 THEN <<epar \div 256, epar % 16>>
                 ELSE IF pf \in DOMAIN pars THEN pars[pf] ELSE default_par)

extended_picture(b) ==
  LET format == At(b, 41, 3)
  IN  IF \/ Left(b, 38) < 54 \/ At(b, 38, 3) # 1 \/ format \in {0, 7} THEN Refused
      ELSE IF format = 6 THEN custom_picture(b)
      ELSE Frame(sizes[format], default_par)

h263_parse(b) ==
  LET type == At(b, 30, 8) % 8
  IN  IF Left(b, 0) < 38 \/ At(b, 0, 22) # 32 \/ type \in {0, 6} THEN Refused
      ELSE IF type = 7 THEN extended_picture(b)
      ELSE IF Left(b, 38) < 11 THEN Refused
      ELSE Frame(sizes[type], default_par)

-----------------------------------------------------------------------------
(* MPEG-4: a start code is three bytes 0, 0, 1 and the code.               *)
Code(c) == <<0, 256 + c>>
IsVideoObject(w) == w[1] = 0 /\ w[2] <= 287

(* Mutant: user data is not skipped.                                       *)
UserDataStays(b, p) == p

(* From the start code at p over any user data (code B2) to the code that  *)
(* follows: its position, or the end of the buffer.                        *)
skip_user_data(b, p) ==
  LET codes == {q \in p..(Len(b) - 32) : /\ (q - p) % 8 = 0
                                         /\ At(b, q, 24) = 1
                                         /\ At(b, q + 24, 8) # 178}
  IN  IF Word(b, p) # Code(178) THEN p
      ELSE IF codes = {} THEN Len(b) ELSE Min(codes)

(* The video object layer header at r.                                     *)
video_object_layer(b, r) ==
  LET verid == r + 41
      ar == verid + 1 + 7 * At(b, verid, 1)
      ctl == ar + (IF At(b, ar, 4) = 15 THEN 20 ELSE 4)
      vbv == At(b, ctl, 1) = 1 /\ At(b, ctl + 4, 1) = 1
      shape == ctl + 1 + (IF vbv THEN 83 ELSE 4 * At(b, ctl, 1))
      res == {k \in 1..16 : At(b, shape + 19 - k, 1) = 1}
      n == Max({0} \cup res)
      dim == shape + 21 + n * At(b, shape + 20, 1)
      width == At(b, dim + 1, 13)
      height == At(b, dim + 15, 13)
  IN  IF /\ Left(b, r) >= 47
         /\ Word(b, r)[1] = 0 /\ Word(b, r)[2] \in 288..303
         /\ At(b, verid, 1) = 1 => Left(b, verid + 1) >= 12
         /\ At(b, ar, 4) # 0
         /\ At(b, ar, 4) = 15 => Left(b, ar + 4) >= 17
         /\ At(b, ctl, 1) = 1 => Left(b, ctl + 1) >= 4
         /\ vbv => Left(b, ctl + 5) >= 79
         /\ Left(b, shape) >= 21
         /\ At(b, shape, 2) = 0
         /\ At(b, shape + 2, 1) = 1 /\ At(b, shape + 19, 1) = 1
         /\ At(b, shape + 20, 1) = 1 => Left(b, shape + 21) >= n
         /\ Left(b, dim) >= 29
         /\ At(b, dim, 1) = 1 /\ width # 0
         /\ At(b, dim + 14, 1) = 1 /\ height # 0
         /\ At(b, dim + 28, 1) = 1
      THEN Frame(<<width, height>>, <<0, 0>>)
      ELSE Refused

(* The code's label VOS: a video object start code is due at p.            *)
video_object(b, p) ==
  LET q == skip_user_data(b, p)
  IN  IF Left(b, p) < 32 \/ Left(b, q) < 32 THEN Refused
      ELSE IF ~IsVideoObject(Word(b, q)) THEN Refused
      ELSE video_object_layer(b, q + 32)

(* The bits up to the next byte are a 0 and then 1s.                       *)
next_start_code(b, p) ==
  LET n == 8 - (p % 8)
  IN  /\ Left(b, p) >= n /\ At(b, p, 1) = 0
      /\ \A k \in 1..(n - 1) : At(b, p + k, 1) = 1

(* A buffer that starts with a visual object sequence.                     *)
visual_object_sequence(b) ==
  LET vo == skip_user_data(b, 40)
      verid == vo + 32
      type == verid + 1 + 7 * At(b, verid, 1)
      signal == At(b, type + 4, 1) = 1
      colour == signal /\ At(b, type + 9, 1) = 1
      end == type + 5 + (IF colour THEN 29 ELSE IF signal THEN 5 ELSE 0)
  IN  IF /\ Left(b, 32) >= 40 /\ Left(b, vo) >= 32
         /\ Word(b, vo) = Code(181)
         /\ Left(b, verid) >= 6
         /\ At(b, verid, 1) = 1 => Left(b, verid + 1) >= 12
         /\ At(b, type, 4) = 1
         /\ signal => Left(b, type + 5) >= 5
         /\ colour => Left(b, type + 10) >= 24
         /\ next_start_code(b, end)
      THEN video_object(b, end + 8 - (end % 8))
      ELSE Refused

mpeg4_parse(b) ==
  LET located == {i \in 4..(Len(b) \div 8 - 1) : IsVideoObject(Word(b, 8 * (i - 4)))}
  IN  IF Left(b, 0) < 32 THEN Refused
      ELSE IF Word(b, 0) = Code(176) THEN visual_object_sequence(b)
      ELSE IF located = {} THEN Refused
      ELSE LET p == 8 * (Min(located) - 4)
           IN  video_object(SubSeq(b, p + 1, Len(b)), 0)

-----------------------------------------------------------------------------
(***************************************************************************)
(* H.264.  Once the bits have run out every further element ends at the    *)
(* end of the buffer, so the CHECK_EOS after each of them is the one test  *)
(* that bits are left at the last.                                         *)
(***************************************************************************)
Least(m, n) == IF m < n THEN m ELSE n

(* 1 << n for an n below 32.                                               *)
Shifted(n) ==
  LET v[k \in 0..n] == IF k = 0 THEN 1 ELSE Unsigned(2 * v[k - 1]) IN v[n]

(* read_bits: as many of n bits as there are.  get_bits has 32 bits from   *)
(* the byte of p on, and 0s for what is beyond them.                       *)
read_bits(b, p, n) ==
  LET m == Least(n, Left(b, p))
      loaded == Least(m, 32 - (p % 8))
  IN  At(b, p, loaded) * Shifted(m - loaded)
Past(b, p, n) == Least(p + n, Len(b))

(* get_ue_golomb: an unsigned Exp-Golomb code, and where it ends: i zeros, *)
(* a 1, and i bits from q on; the search for the 1 gives up after 32 bits. *)
golomb_suffix(b, q, i) ==
  [v |-> Unsigned((IF i = 32 THEN Overshift ELSE Shifted(i)) - 1 + read_bits(b, q, i)),
   e |-> Past(b, q, i)]
golomb_prefix(b, p, i) == golomb_suffix(b, Past(b, p, Least(i + 1, 32)), i)
get_ue_golomb(b, p) ==
  LET ones == {q \in p..Least(p + 31, Len(b) - 1) : b[q + 1] = 1}
  IN  golomb_prefix(b, p, IF ones # {} THEN Min(ones) - p
                          ELSE Least(Left(b, p + Least(1, Left(b, p))), 32))

(* get_se_golomb: the signed value of a code; C divides towards 0.         *)
Half(x) == IF x >= 0 THEN x \div 2 ELSE -((-x) \div 2)
Signed(v) == Half(AsInt(v) + 1) * (IF v % 2 = 1 THEN 1 ELSE -1)

(* Where n codes from p on end, and their values.                          *)
SkipGolombs(b, p, n) ==
  LET q[k \in 0..n] == IF k = 0 THEN p ELSE get_ue_golomb(b, q[k - 1]).e IN q[n]
Golombs(b, p, n) == [k \in 1..n |-> get_ue_golomb(b, SkipGolombs(b, p, k - 1)).v]

(* A scaling list of n entries at p, and m lists each behind its flag.     *)
scale(b, s) ==
  LET g == get_ue_golomb(b, s.p)
      next == (s.last + Signed(g.v) + 256) % 256
  IN  IF s.next = 0 THEN s
      ELSE [p |-> g.e, next |-> next, last |-> IF next # 0 THEN next ELSE s.last]
scaling_list(b, p, n) ==
  LET s[k \in 0..n] == IF k = 0 THEN [p |-> p, next |-> 8, last |-> 8]
                       ELSE scale(b, s[k - 1])
  IN  s[n].p

flagged_list(b, p, i) ==
  IF read_bits(b, p, 1) = 0 THEN Past(b, p, 1)
  ELSE scaling_list(b, p + 1, IF i <= 6 THEN 16 ELSE 64)
scaling_matrix(b, p, m) ==
  LET q[i \in 0..m] == IF i = 0 THEN p ELSE flagged_list(b, q[i - 1], i) IN q[m]

(* The extensions of the high profiles, from p on: chroma format, bit      *)
(* depths, scaling lists.                                                  *)
high_profiles == {100, 110, 122, 244, 44, 83, 86}
scaling_matrix_flag(b, p, m) ==
  IF read_bits(b, p, 1) = 1 THEN scaling_matrix(b, p + 1, m) ELSE Past(b, p, 1)
chroma_format(b, p) ==
  LET idc == get_ue_golomb(b, p)
      chroma == idc.v % 256
      depths == Past(b, idc.e, IF chroma = 3 THEN 1 ELSE 0)
  IN  [v |-> IF chroma = 3 /\ read_bits(b, idc.e, 1) = 1 THEN 0 ELSE chroma,
       e |-> scaling_matrix_flag(b, Past(b, SkipGolombs(b, depths, 2), 1),
                                 IF chroma = 3 THEN 12 ELSE 8)]

(* Picture order count, from its type, a byte, on to its end.              *)
order_cnt_cycle(b, cycle) == SkipGolombs(b, cycle.e, cycle.v)
order_cnt_type(b, type, p) ==
  CASE type = 0 -> SkipGolombs(b, p, 1)
    [] type = 1 ->
         order_cnt_cycle(b, get_ue_golomb(b, SkipGolombs(b, Past(b, p, 1), 2)))
    [] OTHER -> p
pic_order_cnt(b, p) ==
  order_cnt_type(b, get_ue_golomb(b, p).v % 256, get_ue_golomb(b, p).e)

(* The frame in macroblocks and its cropping, by the unit of the chroma    *)
(* format.  The edges are unsigned and their sum may wrap.                 *)
cropped_frame(b, avc, chroma, size, field, crop) ==
  LET Cut(k, unit) == AsInt(size[k] - (crop.v[2 * k - 1] + crop.v[2 * k]) * unit)
      cut == <<Cut(1, <<1, 2, 2, 1>>[chroma + 1]), Cut(2, <<1, 2, 1, 1>>[chroma + 1] * field)>>
  IN  IF chroma > 3 \/ Left(b, crop.e) = 0 THEN Refused
      ELSE IF \A k \in 1..2 : size[k] >= 0 /\ cut[k] >= 0
      THEN Cropped(size, cut, <<0, 0>>, avc)
      ELSE Refused

(* The cropping flag at p and the four edges; none are 0.                  *)
crop_edges(b, p) ==
  IF read_bits(b, p, 1) = 1
  THEN [v |-> Golombs(b, p + 1, 4), e |-> SkipGolombs(b, p + 1, 4)]
  ELSE [v |-> <<0, 0, 0, 0>>, e |-> Past(b, p, 1)]

(* From the size in macroblocks, less one, at p, and the flag behind it    *)
(* that frames are not fields.                                             *)
frame_size(b, avc, chroma, p) ==
  LET mbs == Golombs(b, p, 2)
      flag == SkipGolombs(b, p, 2)
      field == 2 - read_bits(b, flag, 1)
  IN  cropped_frame(b, avc, chroma,
                    <<AsInt(16 * (mbs[1] + 1)), AsInt(16 * (mbs[2] + 1) * field)>>, field,
                    crop_edges(b, Past(b, flag, 1 + field)))

(* A sequence parameter set from its NAL header on, unescaped.             *)
after_chroma(b, avc, chroma) ==
  LET order == pic_order_cnt(b, SkipGolombs(b, chroma.e, 1))
  IN  frame_size(b, avc, chroma.v, Past(b, SkipGolombs(b, order, 1), 1))
sequence_parameter_set(b, avc) ==
  LET id == SkipGolombs(b, 32, 1)
  IN  IF Left(b, 16) >= 16 /\ At(b, 0, 1) = 0 /\ At(b, 3, 5) = 7
      THEN after_chroma(b, avc, IF At(b, 8, 8) \in high_profiles THEN chroma_format(b, id)
                                ELSE [v |-> 1, e |-> id])
      ELSE Refused

(* rbsp_unescape: the bytes without the 3 after two 0s, unless a start     *)
(* code comes before the first of them; a start code within the first      *)
(* bytes ends the data, since the length left wraps.                       *)
After2Zeros(y, k) == k > 2 /\ y[k - 1] = 0 /\ y[k - 2] = 0
unescaped(y) ==
  LET z[k \in 0..Len(y)] ==
        IF k = 0 THEN <<>>
        ELSE IF After2Zeros(y, k) /\ y[k] = 3 THEN z[k - 1] ELSE Append(z[k - 1], y[k])
  IN  z[Len(y)]
rbsp_unescape(y) ==
  LET marks == {k \in 3..(Len(y) - 1) : After2Zeros(y, k) /\ y[k] <= 3}
  IN  IF marks = {} THEN y
      ELSE IF y[Min(marks)] = 3 THEN unescaped(y)
      ELSE IF Min(marks) < 6 THEN SubSeq(y, 1, Min(marks) - 3) ELSE y

(* The position behind the start code of the first SPS in a byte stream.   *)
locate_sps(b) ==
  LET at == {p \in 0..(Len(b) - 32) : /\ p % 8 = 0 /\ At(b, p, 24) = 1
                                      /\ At(b, p + 27, 5) = 7}
  IN  IF at = {} THEN Len(b) ELSE Min(at) + 24

(* The position of the first SPS of an AVC configuration record, whose     *)
(* fields are read from p on; -1 when it is none.                          *)
configuration_record(b, p) ==
  IF /\ Left(b, p) >= 32 /\ At(b, 0, 8) = 1
     /\ At(b, p, 6) = 63 /\ At(b, p + 11, 5) # 0
  THEN p + 32 ELSE -1

analyze(b, p, avc) ==
  sequence_parameter_set(
    BitsOf(rbsp_unescape(Bytes(SubSeq(b, p + 1, Len(b))))), avc)

(* A decoder that has parsed its stream keeps to the format it found, and  *)
(* reads a configuration record from the start of the buffer.              *)
h264_parse(b, parsed, is_avc) ==
  LET avc == IF parsed THEN is_avc
             ELSE Word(b, 0) # <<0, 1>> /\ At(b, 0, 24) # 1
      record == configuration_record(b, IF parsed THEN 0 ELSE 32)
      at == locate_sps(b)
  IN  IF ~parsed /\ Left(b, 0) < 32 THEN Refused
      ELSE IF avc /\ (record = -1 \/ Left(b, record) >= 40 \/ parsed)
      THEN IF record = -1 \/ Left(b, record) < 40 THEN Refused
           ELSE analyze(b, record, TRUE)
      ELSE IF Left(b, at) < 40 THEN Refused
      ELSE analyze(b, at, FALSE)
=============================================================================
