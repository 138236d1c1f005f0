----------------------------- MODULE DspCodecs -----------------------------
(***************************************************************************)
(* The codec side of the elements: the decoder element and the encoder     *)
(* element, which share no state, and inputs for the functions that have   *)
(* none.  which says the one that runs.                                    *)
(***************************************************************************)
EXTENDS DspVdec, DspEncode

CONSTANTS EncConfs, Buffers, MaxFrames, MaxRequests, MaxRecaps, InputSet

VARIABLES which, input,
          conf, bytestream, running, primed, coded, bufs, moved, frames_left, requests,
          recaps_left, slot, events, forced, sps, pps, codec_data_done, caps,
          skip_hack_2, received, old, queue, taken, seen, pushed, skipped, counted, lost

Venc == INSTANCE DspVenc

ASSUME EncoderAssumption ==
  /\ EncConfs \subseteq [inband : BOOLEAN, empties : BOOLEAN, refuses : BOOLEAN]
  /\ Buffers \in Seq(Range(Buffers))
  /\ MaxFrames \in Nat /\ MaxRequests \in Nat /\ MaxRecaps \in Nat

Tables == [h264 |-> h264_levels, h263 |-> h263_levels, mp4v |-> mp4v_levels]

(* The NAL units whose length a field of lol bytes holds (an int in C).    *)
Longest == <<255, 65535, 16777215, 2147483647>>
NalUnits(lol) == {u \in Seq(0..255) : Len(u) <= Longest[lol]}

(* An input of the level choice is a table and what the stream needs; one  *)
(* of the framing has a width of length fields, the NAL units of a frame,  *)
(* and parameter sets, of which the lengths have two bytes in a record.    *)
ASSUME InputAssumption ==
  \A i \in InputSet :
    /\ i.kind = "level" =>
         /\ i.levels \in DOMAIN Tables /\ i.size \in Sizes
         /\ {i.framerate, i.bitrate, i.user_max_bitrate} \subseteq Nat /\ i.tgt_level \in Int
    /\ i.kind = "framing" =>
         /\ i.lol \in 1..4 /\ i.units \in Seq(NalUnits(i.lol))
         /\ i.sps \in Seq(NalUnits(Least(i.lol, 2))) /\ Len(i.sps) \in 1..31
         /\ i.pps \in Seq(NalUnits(Least(i.lol, 2))) /\ Len(i.pps) \in 1..255
         /\ Len(i.sps[1]) >= 4

encoder == <<conf, bytestream, running, primed, coded, bufs, moved, frames_left, requests,
             recaps_left, slot, events, forced, sps, pps, codec_data_done, caps,
             skip_hack_2, received, old, queue, taken, seen, pushed, skipped, counted,
             lost>>

(* The element that does not run stays as it was created. *)
CodecsInit ==
  /\ which \in {"input", "vdec", "venc"}
  /\ IF which = "input" THEN input \in InputSet ELSE input = [kind |-> "none"]
  /\ Init /\ (which # "vdec" => asked = CHOOSE color \in Downstream : TRUE)
  /\ Venc!Init /\ (which # "venc" => bytestream /\ conf = CHOOSE c \in EncConfs : TRUE)

CodecsNext ==
  /\ UNCHANGED <<which, input>>
  /\ \/ which = "vdec" /\ Next /\ UNCHANGED encoder
     \/ which = "venc" /\ Venc!Next /\ UNCHANGED vars

CodecsSpec == CodecsInit /\ [][CodecsNext]_<<which, input, vars, encoder>>

-----------------------------------------------------------------------------
(* What the encoder element pushes, under which caps, and which requests   *)
(* for key frames it serves: as many buffers are skipped as skip_hack_2 was*)
(* incremented for and only whole pictures are pushed behind the headers,  *)
(* or one buffer is off after a lost update.  (out_recv_cb of td_h264enc.c,*)
(* output_loop of gstdspbase.c, in_send_cb)                                *)
EncoderOutput == Venc!EncoderOutput

(* The level an encoder chooses carries the macroblocks per second and the *)
(* bit rate asked for, unless none of the table does, and the bit rate set *)
(* on the node is within the level and the user's limit.                   *)
(* (check_supported_levels, sink_setcaps of gstdspvenc.c)                  *)
LevelFits ==
  input.kind = "level" =>
    LET table == Tables[input.levels]
        tgt == target(input.size[1], input.size[2], input.framerate, input.bitrate,
                      input.user_max_bitrate)
        level == check_supported_levels(table, tgt, input.tgt_level)
        cap == max_bitrate(level, input.user_max_bitrate)
        rate == capped_bitrate(input.bitrate, cap)
    IN  /\ level \in Range(table)
        /\ \/ level.mbps >= tgt.mbps /\ level.bitrate >= tgt.bitrate
           \/ \A l \in Range(table) : l.mbps < tgt.mbps \/ l.bitrate < tgt.bitrate
        /\ rate > 0 /\ rate <= level.bitrate
        /\ input.user_max_bitrate # 0 => rate <= input.user_max_bitrate

(* NAL units behind their lengths, and the configuration record of some    *)
(* parameter sets for buffers with lengths of lol bytes.                   *)
Framed(lol, units) ==
  FlattenSeq([i \in DOMAIN units |-> BigEndian(Len(units[i]), lol) \o units[i]])
Record(lol, sets, more) ==
  <<1, sets[1][2], sets[1][3], sets[1][4], 251 + lol, 224 + Len(sets)>>
  \o Framed(2, sets) \o <<Len(more)>> \o Framed(2, more)

(* The length fields of AVC are read and replaced where they are: a frame  *)
(* becomes a byte stream of its NAL units, a configuration record its      *)
(* parameter sets, whatever the width of the fields; and the record the    *)
(* encoder makes is one the decoder takes.  (transform_nal_encoding,       *)
(* transform_codec_data of td_h264dec.c, create_codec_data of              *)
(* td_h264enc.c)                                                           *)
FramedRight ==
  input.kind = "framing" =>
    LET units == input.units
        framed == transform_nal_encoding(Framed(input.lol, units), input.lol)
        Taken(record, lol, sets, more) ==
          transform_codec_data(record, 0)
            = [ok |-> TRUE, lol |-> lol, out |-> Framed(lol, sets) \o Framed(lol, more)]
    IN  /\ \E codes \in [DOMAIN units -> {<<0, 0, 1>>, <<0, 0, 0, 1>>}] :
             framed = FlattenSeq([i \in DOMAIN units |-> codes[i] \o units[i]])
        /\ Taken(Record(input.lol, input.sps, input.pps), input.lol, input.sps, input.pps)
        /\ Taken(create_codec_data(input.sps[1], input.pps[1]), 4, <<input.sps[1]>>,
                 <<input.pps[1]>>)
=============================================================================
