-------------------------------- MODULE H264 --------------------------------
(***************************************************************************)
(* The H.264 translator (h264.cc): SPS and PPS made from what VA tells of  *)
(* a picture, in front of the slices the client has.  What the firmware    *)
(* makes of them is external (H.264, 7.4.2.1.1 and table A-1).             *)
(*                                                                         *)
(* The parameter sets are records of the fields that the size of a picture *)
(* and the parsing of its slices depend on.  An access unit is a sequence  *)
(* of start codes, parameter sets and NAL units; a NAL unit is a record  *)
(* of its type.                                                            *)
(*                                                                         *)
(* X_f is a mutant of f: a bug the code could have.  Nothing uses it.      *)
(***************************************************************************)
EXTENDS Integers, Sequences
LOCAL INSTANCE SequencesExt

CONSTANTS
  Mbs,              \* bound: widths and heights of pictures in macroblocks
  Visible,          \* bound: widths and heights of surfaces
  RefFrames,        \* bound: num_ref_frames
  MaxBuffers        \* bound: slice data buffers of one picture

ASSUME H264Assumption ==
  /\ Mbs \subseteq Nat \ {0} /\ Visible \subseteq Nat
  /\ RefFrames \subseteq 0 .. 16 /\ MaxBuffers \in Nat

VARIABLES picture, h264_au
h264Vars == <<picture, h264_au>>

Baseline == 66
High     == 100

\* level_idc, frame size and DPB size of each level, both in macroblocks.
Levels == <<
  <<10, 99, 396>>, <<11, 396, 900>>, <<12, 396, 2376>>, <<20, 396, 2376>>, <<21, 792, 4752>>,
  <<22, 1620, 8100>>, <<30, 1620, 8100>>, <<31, 3600, 18000>>, <<32, 5120, 20480>>,
  <<40, 8192, 32768>>, <<42, 8704, 34816>>, <<50, 22080, 110400>>, <<51, 36864, 184320>>,
  <<60, 139264, 696320>> >>

\* A NAL unit of a slice, IDR or not; a client's buffer has one or two, each
\* after a start code, except the first, which may stand without, or nothing.
Start == [nal |-> 0]
Nals  == {[nal |-> 1], [nal |-> 5]}
SliceData ==
  {<<>>} \cup {<<n>> : n \in Nals} \cup {<<Start, n>> : n \in Nals}
         \cup {<<n, Start, m>> : n \in Nals, m \in Nals}
Buffers == UNION {[1 .. k -> SliceData] : k \in 1 .. MaxBuffers}

Pictures ==
  [profile : {Baseline, 77, High}, mbs : Mbs \X Mbs, visible : Visible \X Visible,
   frame_mbs_only : BOOLEAN, chroma_format_idc : {0, 1}, num_ref_frames : RefFrames]
-----------------------------------------------------------------------------
X_level_for(mbs, num_ref_frames) ==
  LET frame_mbs == mbs[1] * mbs[2]
      Fits(l) == frame_mbs <= l[2] /\ num_ref_frames * frame_mbs < l[3]
      fitting == SelectSeq(Levels, Fits)
  IN IF fitting = <<>> THEN 62 ELSE Head(fitting)[1]
level_for(mbs, num_ref_frames) ==
  LET frame_mbs == mbs[1] * mbs[2]
      Fits(l) == frame_mbs <= l[2] /\ (num_ref_frames + 1) * frame_mbs <= l[3]
      fitting == SelectSeq(Levels, Fits)
  IN IF fitting = <<>> THEN 62 ELSE Head(fitting)[1]

\* The size the client wants, unless it is none or larger than what is coded.
visible_or_coded(wanted, coded) == IF wanted \in 1 .. coded THEN wanted ELSE coded
crop_unit_x(p) == IF p.chroma_format_idc = 0 THEN 1 ELSE 2
crop_unit_y(p) ==
  (IF p.frame_mbs_only THEN 1 ELSE 2) * (IF p.chroma_format_idc = 0 THEN 1 ELSE 2)

\* h264_sps.  Below High the chroma format is not written: the decoder takes 1.
h264_sps(p) ==
  LET coded == <<16 * p.mbs[1], 16 * p.mbs[2]>>
      Crop(i, unit) == (coded[i] - visible_or_coded(p.visible[i], coded[i])) \div unit
  IN [nal |-> 7, level_idc |-> level_for(p.mbs, p.num_ref_frames),
      chroma_format_idc |-> IF p.profile >= High THEN p.chroma_format_idc ELSE 1,
      num_ref_frames |-> p.num_ref_frames, frame_mbs_only |-> p.frame_mbs_only,
      width_in_mbs |-> p.mbs[1], height_in_map_units |-> p.mbs[2],
      crop_right |-> Crop(1, crop_unit_x(p)), crop_bottom |-> Crop(2, crop_unit_y(p))]

\* h264_pps: the reference counts of the first slice are the defaults of all,
\* and there are no scaling matrices, whatever the client has sent.
h264_pps(p, first_slice) ==
  [nal |-> 8, num_ref_idx_default |-> first_slice,
   high |-> p.profile >= High, scaling_matrix |-> FALSE]

has_start_code(buffer) == Head(buffer) = Start

\* translate: the parameter sets, each in a NAL unit of its own, then every
\* buffer with anything in it, behind a start code if it has none.
translate_h264(p, first_slice, buffers) ==
  <<Start, h264_sps(p), Start, h264_pps(p, first_slice)>> \o
  FlattenSeq([i \in DOMAIN buffers |->
    IF buffers[i] = <<>> THEN <<>>
    ELSE (IF has_start_code(buffers[i]) THEN <<>> ELSE <<Start>>) \o buffers[i]])

\* What the decoder finds: what follows a start code.
Found(au) == [i \in {j \in 2 .. Len(au) : au[j - 1] = Start} |-> au[i]]

\* An IDR NAL unit anywhere in it makes the access unit a sequence start.
contains_idr(au) == \E i \in 2 .. Len(au) : au[i - 1] = Start /\ au[i].nal = 5

\* `intra_zero`: an I slice with frame_num 0 and POC 0 counts as one too.
sequence_start(au, intra_zero) == contains_idr(au) \/ intra_zero

H264Init == picture = <<>> /\ h264_au = <<>>
submit_h264(p, buffers, first_slice, intra_zero) ==
  LET au == translate_h264(p, first_slice, buffers) IN
  /\ picture' = <<p, buffers, first_slice>>
  /\ h264_au' = [bytes |-> au, sequence_start |-> sequence_start(au, intra_zero)]

\* Sizes with one set of slices, and slices with one size.
AnyPicture == CHOOSE p \in Pictures : TRUE
H264Next ==
  /\ picture = <<>>
  /\ \/ \E p \in Pictures : submit_h264(p, <<<<[nal |-> 5]>>>>, 0, TRUE)
     \/ \E b \in Buffers, n \in {0, 2}, z \in BOOLEAN : submit_h264(AnyPicture, b, n, z)
H264Spec == H264Init /\ [][H264Next]_h264Vars
-----------------------------------------------------------------------------
\* MaxDpbFrames of the decoder, and the picture it makes of an SPS.
LevelOf(idc) == CHOOSE i \in DOMAIN Levels : Levels[i][1] = idc
MaxDpbFrames(sps) ==
  LET mbs == sps.width_in_mbs * sps.height_in_map_units
      frames_ == Levels[LevelOf(sps.level_idc)][3] \div mbs
  IN IF frames_ > 16 THEN 16 ELSE frames_
DecodedHeight(sps) ==
  (IF sps.frame_mbs_only THEN 1 ELSE 2) * 16 * sps.height_in_map_units

\* Every NAL unit of the client is found behind its parameter sets, none of them
\* twice, and the IDR ones are noticed (h264.cc:112-123).
NalsFound ==
  LET given == SelectSeq(FlattenSeq(picture[2]), LAMBDA x : x # Start)
      found == Found(h264_au.bytes)
      order == SelectSeq([i \in DOMAIN h264_au.bytes |-> i], LAMBDA i : i \in DOMAIN found)
  IN /\ Len(order) = 2 + Len(given)
     /\ \A i \in DOMAIN given : found[order[i + 2]] = given[i]
     /\ (\E i \in DOMAIN given : given[i].nal = 5) => h264_au.sequence_start

\* The SPS fits a progressive 4:2:0 picture: the decoder codes the size VA has
\* told, shows the surface's size but for the rest of a crop unit, and allots
\* buffers for all references and the current picture, at a level no smaller
\* one would do for (h264.cc:44, 181).
SizesFit ==
  LET p   == picture[1]
      sps == h264_au.bytes[2]
      fits(l) == p.mbs[1] * p.mbs[2] <= l[2]
                 /\ (p.num_ref_frames + 1) * p.mbs[1] * p.mbs[2] <= l[3]
      shows(i, coded, crop) ==
        coded - crop - visible_or_coded(p.visible[i], coded) \in {0, 1}
  IN p.frame_mbs_only /\ p.chroma_format_idc = 1 =>
       /\ DecodedHeight(sps) = 16 * p.mbs[2]
       /\ shows(1, 16 * p.mbs[1], 2 * sps.crop_right)
       /\ shows(2, 16 * p.mbs[2], 2 * sps.crop_bottom)
       /\ sps.level_idc # 62 =>
            /\ fits(Levels[LevelOf(sps.level_idc)])
            /\ MaxDpbFrames(sps) >= IF p.num_ref_frames = 16 THEN 16 ELSE p.num_ref_frames + 1
            /\ \A i \in 1 .. LevelOf(sps.level_idc) - 1 : ~fits(Levels[i])

H264Agrees == picture # <<>> => NalsFound /\ SizesFit
=============================================================================
