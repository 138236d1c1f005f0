----------------------------- MODULE DspEncode -----------------------------
(***************************************************************************)
(* The pure functions of the video encoders: the choice of a level and of  *)
(* a bit rate (gstdspvenc.c), and the AVC configuration record made of the *)
(* parameter sets an encoder sends (td_h264enc.c).                         *)
(***************************************************************************)
EXTENDS Integers, SequencesExt

(* The level tables: id, macroblocks per frame and per second, bit rate.   *)
Level(id, mbpf, mbps, bitrate) ==
  [id |-> id, mbpf |-> mbpf, mbps |-> mbps, bitrate |-> bitrate]

h264_levels ==
  << Level(10, 99, 1485, 64000), Level(10, 99, 1485, 128000),
     Level(11, 396, 3000, 192000), Level(12, 396, 6000, 384000),
     Level(13, 396, 11880, 768000), Level(20, 396, 11880, 2000000),
     Level(21, 792, 19800, 4000000), Level(22, 1620, 20250, 4000000),
     Level(30, 1620, 40500, 8000000), Level(31, 3600, 48600, 8000000) >>

h263_levels ==
  << Level(10, 99, 1485, 64000), Level(20, 396, 5940, 128000),
     Level(30, 396, 11880, 384000), Level(40, 396, 11880, 2048000),
     Level(45, 99, 1485, 128000), Level(50, 396, 19800, 4096000),
     Level(60, 810, 40500, 8192000), Level(70, 1620, 81000, 16384000) >>

mp4v_levels ==
  << Level(0, 99, 1485, 64000), Level(0, 99, 1485, 128000), Level(1, 99, 1485, 64000),
     Level(2, 396, 5940, 128000), Level(3, 396, 11880, 384000),
     Level(4, 1200, 36000, 4000000), Level(5, 1620, 47700, 5000000) >>

(* The target: what the stream needs.  A bit rate of 0 is none.            *)
target(width, height, framerate, bitrate, user_max_bitrate) ==
  LET mbpf == ((width + 15) \div 16) * ((height + 15) \div 16)
  IN  [mbpf |-> mbpf, mbps |-> mbpf * framerate,
       bitrate |-> IF user_max_bitrate # 0 THEN user_max_bitrate ELSE bitrate]

(* A level is taken in place of the one before when it is enough in a      *)
(* respect the other is not.                                               *)
Better(cur, level, tgt) ==
  \/ tgt.bitrate # 0 /\ cur.bitrate >= tgt.bitrate /\ level.bitrate < tgt.bitrate
  \/ cur.mbps >= tgt.mbps /\ level.mbps < tgt.mbps
  \/ /\ cur.mbps >= tgt.mbps /\ cur.mbps = level.mbps
     /\ tgt.bitrate = 0 /\ cur.bitrate >= level.bitrate
  \/ cur.mbpf >= tgt.mbpf /\ level.mbpf < tgt.mbpf

(* The levels are tried in the order of the table.                         *)
search(levels, tgt, id) ==
  LET level[k \in 0..Len(levels)] ==
        IF k = 0 THEN levels[1]
        ELSE IF (id > 0 => levels[k].id = id) /\ Better(levels[k], level[k - 1], tgt)
        THEN levels[k] ELSE level[k - 1]
  IN  level[Len(levels)]

(* Mutant: only the bit rate is looked at.                                 *)
ShortOfBits(level, tgt) == tgt.bitrate # 0 /\ level.bitrate < tgt.bitrate

Short(level, tgt) ==
  \/ tgt.bitrate # 0 /\ level.bitrate < tgt.bitrate
  \/ level.mbps < tgt.mbps

(* A level downstream asks for is ignored when it does not do.             *)
check_supported_levels(levels, tgt, tgt_level) ==
  LET asked == search(levels, tgt, tgt_level)
      any == search(levels, tgt, -1)
  IN  IF tgt_level > 0 /\ asked.id = tgt_level /\ ~Short(asked, tgt) THEN asked
      ELSE IF Short(any, tgt) THEN Last(levels) ELSE any

max_bitrate(level, user_max_bitrate) ==
  IF user_max_bitrate = 0 \/ user_max_bitrate >= level.bitrate
  THEN level.bitrate ELSE user_max_bitrate

capped_bitrate(bitrate, max) == IF bitrate = 0 \/ bitrate > max THEN max ELSE bitrate

-----------------------------------------------------------------------------
(* create_codec_data: the AVC configuration record of an SPS and a PPS.    *)
Size16(y) == <<Len(y) \div 256, Len(y) % 256>>
create_codec_data(s, p) ==
  <<1, s[2], s[3], s[4], 255, 225>> \o Size16(s) \o s \o <<1>> \o Size16(p) \o p
=============================================================================
