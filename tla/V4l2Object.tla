----------------------------- MODULE V4l2Object -----------------------------
(***************************************************************************)
(* What gstv4l2object_hacked.c makes of a capture device's answers: the    *)
(* names of its pixel formats in caps and back, the frame sizes it offers, *)
(* and the format it is set to.                                            *)
(*                                                                         *)
(* A device dev is a record: sizes says how it enumerates frame sizes      *)
(* ("discrete", "stepwise", "continuous", "none"), list holds the sizes    *)
(* (for the two ranges the smallest, the largest and the step), field the  *)
(* one field order it has, strict whether it refuses another or puts its   *)
(* own instead, tries whether it implements VIDIOC_TRY_FMT, careless       *)
(* whether VIDIOC_TRY_FMT changes the format it is set to.  A format fmt   *)
(* is a size and a field order.                                            *)
(***************************************************************************)
EXTENDS Integers, Sequences, FiniteSetsExt

CONSTANT MaxSize   \* GST_V4L2_MAX_SIZE

-----------------------------------------------------------------------------
(* Pixel formats. *)

Jpegs == {"MJPEG", "PJPG", "JPEG"}
fcc == [NV12 |-> "NV12", NV21 |-> "NV21", YVU410 |-> "YVU9", YUV410 |-> "YUV9",
        YUV420 |-> "I420", YUYV |-> "YUY2", YVU420 |-> "YV12", UYVY |-> "UYVY",
        Y41P |-> "Y41P", YUV411P |-> "Y41B", YUV422P |-> "Y42B", YVYU |-> "YVYU"]
rgb == [RGB332 |-> <<8, "host", "e0">>,
        RGB555 |-> <<15, "little", "7c00">>, RGB555X |-> <<15, "big", "7c00">>,
        RGB565 |-> <<16, "little", "f800">>, RGB565X |-> <<16, "big", "f800">>,
        RGB24 |-> <<24, "big", "ff0000">>, BGR24 |-> <<24, "big", "ff">>,
        RGB32 |-> <<32, "big", "ff000000">>, BGR32 |-> <<32, "big", "ff">>]
mimetype == [GREY |-> "video/x-raw-gray", DV |-> "video/x-dv", MPEG |-> "video/mpegts",
             SBGGR8 |-> "video/x-raw-bayer", SN9C10X |-> "video/x-sonix",
             PWC1 |-> "video/x-pwc1", PWC2 |-> "video/x-pwc2"]
Unnamed == {"YYUV", "HI240", "WNVA"}

gst_v4l2_formats ==
  Jpegs \cup DOMAIN fcc \cup DOMAIN rgb \cup DOMAIN mimetype \cup Unnamed

(* A structure is its media type and what tells its formats apart. *)
v4l2fourcc_to_structure(f) ==
  CASE f \in Jpegs           -> <<"image/jpeg">>
    [] f \in DOMAIN rgb      -> <<"video/x-raw-rgb", rgb[f][1], rgb[f][2], rgb[f][3]>>
    [] f \in DOMAIN fcc      -> <<"video/x-raw-yuv", fcc[f]>>
    [] f \in DOMAIN mimetype -> <<mimetype[f]>>
    [] OTHER                 -> <<>>

get_all_caps == {v4l2fourcc_to_structure(f) : f \in gst_v4l2_formats} \ {<<>>}

(* The other direction.  YVU9 and YUV9 go through as they are: they are    *)
(* the device's own codes too.                                             *)
caps_fourcc(s) ==
  CASE s[1] = "video/x-raw-yuv" ->
         (IF s[2] = "IYUV" THEN "YUV420"
                           ELSE CHOOSE f \in DOMAIN fcc : fcc[f] = s[2])
    [] s[1] = "video/x-raw-rgb" ->
         (CASE s[2] = 8  -> "RGB332"
            [] s[2] = 15 -> (IF s[3] = "little" THEN "RGB555" ELSE "RGB555X")
            [] s[2] = 16 -> (IF s[3] = "little" THEN "RGB565" ELSE "RGB565X")
            [] s[2] = 24 -> (IF s[4] = "ff" THEN "BGR24" ELSE "RGB24")
            [] s[2] = 32 -> (IF s[4] = "ff" THEN "BGR32" ELSE "RGB32"))
    [] s[1] = "image/jpeg" -> "JPEG"
    [] OTHER -> CHOOSE f \in DOMAIN mimetype : mimetype[f] = s[1]

(* The first format of the device's list that matches, any JPEG matching   *)
(* any other.                                                              *)
get_format_from_fourcc(list, fourcc) ==
  LET hits == {i \in DOMAIN list : list[i] = fourcc \/ {list[i], fourcc} \subseteq Jpegs}
  IN  IF hits = {} THEN "NULL" ELSE list[CHOOSE i \in hits : \A j \in hits : i <= j]

(* The list has one format only: the device's at an index that is never    *)
(* set, or UYVY if it has none there.                                      *)
fill_format_list(formats) == {<<f>> : f \in formats} \cup {<<"UYVY">>}

RoundUp(x, n) == ((x + n - 1) \div n) * n
Chroma(w, h, x, y) == 2 * ((RoundUp(w, 8) \div x) * (RoundUp(h, y) \div y))

(* The bytes of a frame, 0 for a format whose frames vary. *)
frame_size(f, w, h) ==
  CASE f \in {"YUV420", "YVU420"} ->
         RoundUp(w, 4) * RoundUp(h, 2) + Chroma(w, h, 2, 2)
    [] f \in {"YUYV", "Y41P", "UYVY", "YVYU"} -> RoundUp(w, 2) * 2 * h
    [] f = "YUV411P" -> RoundUp(w, 4) * h + Chroma(w, h, 4, 1)
    [] f = "YUV422P" -> RoundUp(w, 4) * h + Chroma(w, h, 2, 1)
    [] f \in {"NV12", "NV21"} ->
         RoundUp(w, 4) * RoundUp(h, 2) + (RoundUp(w, 4) * h) \div 2
    [] OTHER -> 0

-----------------------------------------------------------------------------
(* The device.  It has a size, and a range of them is not empty and has a  *)
(* step.                                                                   *)
IsRange(lo, hi, st) ==
  \A d \in 1..2 : lo[d] <= hi[d] /\ hi[d] >= 1 /\ st[d] >= 1

IsDevice(dev) ==
  /\ dev.sizes \in {"discrete", "stepwise", "continuous", "none"}
  /\ {dev.strict, dev.tries, dev.careless} \subseteq BOOLEAN
  /\ dev.list \in Seq(Nat \X Nat) /\ Len(dev.list) >= 1
  /\ dev.sizes \in {"stepwise", "continuous"} =>
       Len(dev.list) = 3 /\ IsRange(dev.list[1], dev.list[2], dev.list[3])
  /\ dev.sizes = "continuous" => dev.list[3] = <<1, 1>>

(* Its nearest size to a wish, its answer to a field order.                *)
Clamp(x, lo, hi, step) ==
  LET c == IF x < lo THEN lo ELSE IF x > hi THEN hi ELSE x
  IN  lo + ((c - lo) \div step) * step
Far(s, w, h) == LET Abs(x) == IF x < 0 THEN -x ELSE x IN Abs(s[1] - w) + Abs(s[2] - h)

Listed(dev) == {dev.list[i] : i \in DOMAIN dev.list}

Nearest(dev, w, h) ==
  IF dev.sizes \in {"stepwise", "continuous"}
    THEN LET lo == dev.list[1]  hi == dev.list[2]  st == dev.list[3]
         IN  <<Clamp(w, lo[1], hi[1], st[1]), Clamp(h, lo[2], hi[2], st[2])>>
    ELSE CHOOSE s \in Listed(dev) :
           \A t \in Listed(dev) : Far(s, w, h) <= Far(t, w, h)

Takes(dev, field) ==
  ~dev.strict \/ (IF field = "none" THEN dev.field = "none"
                                    ELSE dev.field \in {"interlaced", "tb", "bt"})

OnlyByName(field) == field = "interlaced"

Interlaced(field) == field \notin {"any", "none"}

S_FMT(dev, w, h) == [size |-> Nearest(dev, w, h), field |-> dev.field]

-----------------------------------------------------------------------------
(* The size nearest to w x h, by VIDIOC_TRY_FMT or, without it, by setting *)
(* the format, and the format the device is left with.  kept says whether  *)
(* the format could be read beforehand: the structure for the answer is    *)
(* not initialized.  A field order it does not know is noticed after the   *)
(* size has been stored.                                                   *)
get_nearest_size(dev, fmt, w, h, kept) ==
  LET wanted == IF dev.tries THEN {"none", "interlaced"} ELSE {"none"}
      taken  == \E f \in wanted : Takes(dev, f)
      known  == dev.field \in {"any", "none", "interlaced", "tb", "bt"}
      got    == S_FMT(dev, w, h)
  IN  [ok |-> taken /\ known, size |-> IF taken THEN got.size ELSE <<w, h>>,
       interlaced |-> Interlaced(dev.field),
       fmt |-> IF kept \/ ~taken \/ (dev.tries /\ ~dev.careless) THEN fmt ELSE got]

(* The frame rates of a size, as intervals; a broken step adds the first   *)
(* one only.                                                               *)
frame_intervals(ival) ==
  IF ival.type = "stepwise"
    THEN LET step == IF ival.step = 0 THEN ival.max ELSE ival.step
         IN  {i \in ival.min..ival.max : (i - ival.min) % step = 0}
    ELSE ival.set

(* What there is to say about one size, if the device answers.             *)
probe_caps_for_format_and_size(dev, fmt, lo, hi, kept) ==
  LET near == get_nearest_size(dev, fmt, lo[1], lo[2], kept)
  IN  [ok |-> near.ok, fmt |-> near.fmt,
       entry |-> [lo |-> lo, hi |-> hi, interlaced |-> near.interlaced]]

(* Stepwise sizes grow in both directions at once. *)
StepwiseSizes(lo, hi, st) ==
  LET At(k) == <<lo[1] + k * st[1], lo[2] + k * st[2]>>
  IN  [k \in {k \in 0..hi[1] : At(k)[1] <= hi[1] /\ At(k)[2] <= hi[2]} |-> At(k)]

AtLeastOne(x) == IF x = 0 THEN 1 ELSE x

(* The sizes the device is asked about, in the order of their indices. *)
EnumeratedSizes(dev) ==
  CASE dev.sizes = "discrete"   -> dev.list
    [] dev.sizes = "stepwise"   -> StepwiseSizes(dev.list[1], dev.list[2], dev.list[3])
    [] dev.sizes = "continuous" ->
         << <<AtLeastOne(dev.list[1][1]), AtLeastOne(dev.list[1][2])>> >>
    [] OTHER                    -> <<>>

sort_by_frame_size(c, e) == c.lo[1] * c.lo[2] > e.lo[1] * e.lo[2]

(* Without an answer from the enumeration: from the size nearest to 1 x 1  *)
(* to the one nearest to the largest.  interlaced is not initialized.      *)
default_frame_sizes(dev, fmt, kept) ==
  LET min == get_nearest_size(dev, fmt, 1, 1, kept)
      max == get_nearest_size(dev, min.fmt, MaxSize, MaxSize, kept)
  IN  [fmt  |-> max.fmt,
       caps |-> {<<[lo |-> min.size, hi |-> max.size, interlaced |-> i]>> :
                   i \in IF max.ok \/ min.ok THEN {max.interlaced} ELSE BOOLEAN}]

(* The caps, the largest size first, sizes of the same area in any order.  *)
(* Each size that is not empty is asked about; the device may be left with *)
(* the last of them.                                                       *)
probe_caps_for_format(dev, fmt, kept) ==
  LET sizes == EnumeratedSizes(dev)
      asked == {k \in DOMAIN sizes : sizes[k][1] # 0 /\ sizes[k][2] # 0}
      Probed(k) == probe_caps_for_format_and_size(dev, fmt, sizes[k],
                     IF dev.sizes = "continuous" THEN dev.list[2] ELSE sizes[k], kept)
      left  == IF asked = {} THEN fmt ELSE Probed(Max(asked)).fmt
      shown == {k \in asked : Probed(k).ok}
      orders == {q \in [1..Cardinality(shown) -> shown] :
                   /\ {q[i] : i \in DOMAIN q} = shown
                   /\ \A i, j \in DOMAIN q : i < j =>
                        ~sort_by_frame_size(Probed(q[j]).entry, Probed(q[i]).entry)}
  IN  IF shown = {}
        THEN default_frame_sizes(dev, left, kept)
        ELSE [fmt |-> left, caps |-> {[i \in DOMAIN q |-> Probed(q[i]).entry] : q \in orders}]

(* Nothing is done if the device is set like this already; otherwise it    *)
(* must take the very size, and its field order is not looked at.          *)
set_format(dev, fmt, w, h, interlaced) ==
  LET field == IF interlaced THEN "interlaced" ELSE "none"
      got   == S_FMT(dev, w, h)
  IN  CASE fmt = [size |-> <<w, h>>, field |-> field] -> [ok |-> TRUE, fmt |-> fmt]
        [] ~Takes(dev, field) -> [ok |-> FALSE, fmt |-> fmt]
        [] OTHER -> [ok |-> got.size = <<w, h>>, fmt |-> got]
=============================================================================
