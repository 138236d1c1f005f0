------------------------------ MODULE DspVdec ------------------------------
(***************************************************************************)
(* The video decoder element (gstdspvdec.c and the H.264 glue of           *)
(* td_h264dec.c): from the caps and the first buffers of a stream to the   *)
(* size of the node, of its output buffers and of the announced frames,    *)
(* across renegotiation, a change of the stream's size and a failing node. *)
(*                                                                         *)
(* A stream is a record: its codec, the size its caps announce, the        *)
(* codec_data in them, its first buffer and the size it is really coded    *)
(* in.  Stream 0 stands for a buffer without any header.                   *)
(***************************************************************************)
EXTENDS DspParse, DspFraming, TLC

CONSTANTS Streams,       \* a sequence of streams
          Downstream,    \* the formats downstream may ask for
          MaxCaps,       \* how often caps arrive
          MaxBuffers,    \* buffers between two caps
          MaxFaults      \* nodes that cannot be created

None == "none"
NoNode == <<>>

VARIABLES el,       \* the fields of the element
          asked,    \* what downstream asks for
          stream,   \* the stream whose caps came last, 0 for none
          last,     \* the stream of the last buffer, 0 for no header
          kept,     \* caps came that the running node was kept for
          caps_left, bufs_left, faults_left

vars == <<el, asked, stream, last, kept, caps_left, bufs_left, faults_left>>

FrameLen(size, color) ==
  IF color = "UYVY" THEN 2 * size[1] * size[2] ELSE (3 * size[1] * size[2]) \div 2

(* ROUND_UP(x, 16) of both dimensions                                      *)
RoundUp(size) == [k \in 1..2 |-> 16 * ((size[k] + 15) \div 16)]

-----------------------------------------------------------------------------
(* Parsing.  Every parser may meet every buffer: the element keeps its     *)
(* parse_func and pre_process_buffer when the codec changes.               *)
Parse(func, bits, parsed, is_avc) ==
  CASE func = "h264" -> h264_parse(bits, parsed, is_avc)
    [] func = "h263" -> h263_parse(bits)
    [] func = "mpeg4" -> mpeg4_parse(bits)

(* What a parser finds in one of the two buffers of a stream.              *)
Finds(s, part, func, parsed, is_avc) ==
  IF part = "data" /\ ~Streams[s].has_data THEN Refused
  ELSE Parse(func, Streams[s][part], parsed, is_avc)

Parsers == {"h264", "h263", "mpeg4"}
Parts == {"data", "frame"}
Results ==
  {[key |-> <<s, part, func, parsed, is_avc>>,
    result |-> Finds(s, part, func, parsed, is_avc)] :
     s \in 1..Len(Streams), part \in Parts, func \in Parsers, parsed \in BOOLEAN,
     is_avc \in BOOLEAN}

(***************************************************************************)
(* What is assumed of the streams: what they are made of; that a buffer    *)
(* said to have a header has one that the parser of its codec finds, the   *)
(* first time it looks; and that an AVC stream has its header in the       *)
(* codec_data.                                                             *)
(***************************************************************************)
Sizes == [1..2 -> Nat]
Codecs == Parsers \cup {"wmv"}

ASSUME StreamsAssumption ==
  /\ Streams \in Seq([codec : Codecs, caps : Sizes, size : Sizes, has_data : BOOLEAN,
                      data : Seq({0, 1}), frame : Seq({0, 1}),
                      headers : [data : BOOLEAN, frame : BOOLEAN]])
  /\ \A s \in 1..Len(Streams), part \in Parts, is_avc \in BOOLEAN :
       LET stream_s == Streams[s]
           found == Finds(s, part, stream_s.codec, FALSE, is_avc)
       IN  /\ stream_s.headers[part] =>
                stream_s.codec \in Parsers /\ found.ok /\ found.size = stream_s.size
           /\ stream_s.codec = "h264" /\ part = "frame" /\ found.ok => ~found.avc

(* The frame H.264 shows is a part of the coded one.  The parser counts    *)
(* the cropped edges modulo 2^32 and does not look whether their sum       *)
(* wrapped: it may find a frame larger than the coded one.                 *)
ASSUME CroppingAssumption ==
  \A s \in 1..Len(Streams), part \in Parts, parsed \in BOOLEAN, is_avc \in BOOLEAN :
    LET found == Finds(s, part, "h264", parsed, is_avc)
    IN  found.ok => \A k \in 1..2 : found.crop[k] <= found.size[k]

Result(v, func, s, part) ==
  IF s = 0 \/ func = None THEN Refused
  ELSE (CHOOSE r \in Results : r.key = <<s, part, func, v.parsed, v.is_avc>>).result

set_framesize(v, r) ==
  LET crop == [k \in 1..2 |-> IF r.crop[k] # 0 THEN r.crop[k] ELSE r.size[k]]
      is_set == v.crop[1] # 0 /\ v.crop[2] # 0
  IN  [v EXCEPT
         !.tmp_caps = IF @ # <<>> /\ ~(is_set /\ v.crop = crop) THEN crop ELSE @,
         !.crop = crop, !.size = r.size, !.parsed = TRUE,
         !.is_avc = IF v.parse_func = "h264" THEN r.avc ELSE @,
         !.output_buffer_size = FrameLen(r.size, v.color_format)]

(* codec_data of H.264 that cannot be transformed is not sent: the element *)
(* posts an error, and the node gets no buffer either.                     *)
handle_extra_data(v, s) ==
  IF s = 0 \/ v.codec # "h264" THEN v
  ELSE LET r == transform_codec_data(Bytes(Streams[s].data), v.lol)
       IN  IF r.ok THEN [v EXCEPT !.lol = r.lol] ELSE v

(* create_node and gstdsp_start: the node takes the sizes of the moment,   *)
(* and codec_data goes to it before any buffer.                            *)
create_node(v, s) ==
  handle_extra_data(
    [v EXCEPT !.node = [size |-> v.size, color |-> v.color_format,
                        head |-> IF v.codec_data # 0 THEN <<v.codec_data, "data">>
                                 ELSE <<s, "frame">>],
              !.pre_process_buffer = IF v.codec = "h264" THEN "h264" ELSE @,
              !.codec_data = 0],
    v.codec_data)

(* init_node: the codec_data is parsed, and the buffer if that does not    *)
(* help; the caps go to the source pad, and the node is made.              *)
sized(v, data, frame) ==
  IF data.ok THEN set_framesize(v, data)
  ELSE IF frame.ok THEN set_framesize(v, frame) ELSE v

started(v, s, fails) ==
  IF fails \/ v.output_buffer_size = 0 THEN v ELSE create_node(v, s)

init_node(v, s, fails) ==
  LET x == sized(v, Result(v, v.parse_func, v.codec_data, "data"),
                 Result(v, v.parse_func, s, "frame"))
  IN  started([x EXCEPT !.src_caps = x.tmp_caps], s, fails)

(* gstdsp_reinit, and what stopping leaves.                                *)
reinit(v) == [v EXCEPT !.node = NoNode, !.tmp_caps = <<>>]

(* Mutant: other caps never reset a running node.                         *)
NeverResets(v, caps) == FALSE

need_node_reset(v, caps) == v.node # NoNode /\ v.size # caps.size

(* Downstream is asked at every caps.  From the first caps of a life on the*)
(* answer is taken to be the same: the source pad has fixed caps.          *)
configure_caps(v, caps) ==
  LET size == RoundUp(caps.size)
  IN  [v EXCEPT !.size = size, !.crop = caps.size, !.color_format = asked,
                !.output_buffer_size = FrameLen(size, asked),
                !.tmp_caps = caps.size]

save_codec_data(v, caps) ==
  [v EXCEPT !.codec_data = IF caps.data # 0 THEN caps.data ELSE @]

(* Without a node the caps choose the codec and its parser.                *)
choose_codec(v, caps) ==
  [v EXCEPT !.parsed = FALSE, !.codec = caps.codec,
            !.lol = IF caps.codec = "h264" THEN 0 ELSE @,
            !.parse_func = IF caps.codec = "wmv" THEN @ ELSE caps.codec]

sink_setcaps(v, caps) ==
  LET w == IF need_node_reset(v, caps) THEN reinit(v) ELSE v
      x == IF w.node = NoNode THEN choose_codec(w, caps) ELSE w
  IN  save_codec_data([configure_caps(x, caps) EXCEPT !.sink_caps = caps], caps)

(* check_stream_params: a header with another size than the element's in   *)
(* a buffer of a running stream is new caps.                               *)
follow_header(v, r) ==
  IF v.size[1] # 0 /\ v.size[2] # 0 /\ r.ok /\ r.size # v.size
  THEN sink_setcaps(v, [v.sink_caps EXCEPT !.size = r.size])
  ELSE v
check_stream_params(v, s) == follow_header(v, Result(v, "h264", s, "frame"))

-----------------------------------------------------------------------------
Init ==
  /\ el = [node |-> NoNode, sink_caps |-> <<>>, tmp_caps |-> <<>>, src_caps |-> <<>>,
           size |-> <<0, 0>>, crop |-> <<0, 0>>, output_buffer_size |-> 0,
           color_format |-> None, codec |-> None, codec_data |-> 0,
           parse_func |-> None, parsed |-> FALSE, is_avc |-> FALSE, lol |-> 0,
           pre_process_buffer |-> None]
  /\ asked \in Downstream
  /\ stream = 0 /\ last = 0 /\ kept = FALSE
  /\ caps_left = MaxCaps /\ bufs_left = 0 /\ faults_left = MaxFaults

CapsOf(s) == [codec |-> Streams[s].codec, size |-> Streams[s].caps,
              data |-> IF Streams[s].has_data THEN s ELSE 0]

SetCaps(s) ==
  /\ caps_left > 0
  /\ caps_left' = caps_left - 1 /\ bufs_left' = MaxBuffers
  /\ el' = sink_setcaps(el, CapsOf(s))
  /\ stream' = s
  /\ kept' = (el'.node # NoNode)
  /\ UNCHANGED <<asked, last, faults_left>>

(* A buffer of a stream with the codec of the caps, or one without header. *)
handle_buffer(v, s, fails) ==
  /\ fails => v.node = NoNode /\ faults_left > 0
  /\ el' = IF v.node = NoNode THEN init_node(v, s, fails) ELSE v
  /\ kept' = (kept /\ v.node # NoNode)

pad_chain(s, fails) ==
  /\ stream # 0 /\ bufs_left > 0
  /\ s # 0 => Streams[s].codec = Streams[stream].codec
  /\ handle_buffer(IF el.pre_process_buffer = "h264" THEN check_stream_params(el, s)
                   ELSE el, s, fails)
  /\ last' = s
  /\ bufs_left' = bufs_left - 1
  /\ faults_left' = faults_left - (IF fails THEN 1 ELSE 0)
  /\ UNCHANGED <<asked, stream, caps_left>>

(* PAUSED to READY and back: the pads forget their caps, so that the next  *)
(* caps ask downstream anew.                                               *)
change_state ==
  /\ stream # 0
  /\ el' = [reinit(el) EXCEPT !.sink_caps = <<>>, !.src_caps = <<>>]
  /\ stream' = 0 /\ last' = 0 /\ kept' = FALSE /\ bufs_left' = 0
  /\ asked' \in Downstream
  /\ UNCHANGED <<caps_left, faults_left>>

Next ==
  \/ \E s \in 1..Len(Streams) : SetCaps(s)
  \/ \E s \in 0..Len(Streams), fails \in BOOLEAN : pad_chain(s, fails)
  \/ change_state

-----------------------------------------------------------------------------
HasNode == el.node # NoNode

(* A frame the node writes, and the length the frame is given before it is *)
(* pushed (gstdsp_vdec_len_fixup), fit the output buffers.                 *)
FramesFit ==
  HasNode =>
    /\ FrameLen(el.node.size, el.node.color) <= el.output_buffer_size
    /\ FrameLen(el.crop, el.color_format) <= el.output_buffer_size

(* The node is made for the size coded in the header it is sent first, if  *)
(* that header is of its codec.                                            *)
SizedByHeader ==
  LET head == el.node.head
  IN  (/\ HasNode /\ head[1] # 0 /\ Streams[head[1]].headers[head[2]]
       /\ Streams[head[1]].codec = el.codec)
      => el.node.size = Streams[head[1]].size

(* An H.264 stream may change its size in mid stream: a node that was not  *)
(* made for codec_data has the size of the last header that came.          *)
FollowsStream ==
  (/\ HasNode /\ last # 0 /\ el.codec = "h264" /\ el.node.head[2] = "frame"
   /\ Streams[last].headers["frame"] /\ Streams[last].codec = el.codec)
  => el.node.size = Streams[last].size

(* The announced frame size is the one the pushed frames have, unless caps *)
(* came that the running node was kept for.                                *)
CapsMatchFrames == HasNode /\ ~kept => el.src_caps = el.crop

DecoderSized == FramesFit /\ SizedByHeader /\ FollowsStream /\ CapsMatchFrames
=============================================================================
