-------------------------------- MODULE Vp9 ---------------------------------
(***************************************************************************)
(* The VP9 translator (vp9.cc): a frame is passed on as it is, and one     *)
(* that is not shown is wrapped in a superframe with a second frame that   *)
(* shows the first slot it has refreshed, because VA wants a picture of    *)
(* every frame.  The decoder (external) takes the access unit apart as the *)
(* VP9 bitstream specification says, Annex B, and keeps the slots.         *)
(*                                                                         *)
(* A frame header is the sequence of its syntax elements; a slot holds the *)
(* number of a frame.                                                      *)
(*                                                                         *)
(* X_f is a mutant of f: a bug the code could have.  Nothing uses it.      *)
(***************************************************************************)
EXTENDS Integers, Sequences
LOCAL INSTANCE FiniteSetsExt
LOCAL INSTANCE SequencesExt

CONSTANTS
  RefSlots,         \* reference slots of a decoder (eight in VP9)
  Radix,            \* 256: values of a byte of the superframe index
  FrameSizes,       \* bound: sizes of frames in bytes
  MaxVp9Frames      \* bound: frames of one stream

ASSUME Vp9Assumption ==
  /\ RefSlots \in Nat \ {0} /\ Radix \in Nat \ {0, 1}
  /\ FrameSizes \subseteq 0 .. Radix^4 - 1 /\ MaxVp9Frames \in Nat

VARIABLES
  frames,           \* frames handed over so far
  vp9_slots,        \* the decoder's slots: frame numbers, 0 is nothing
  shown             \* what it has shown of the last access unit, or Thrown

vp9Vars == <<frames, vp9_slots, shown>>

Thrown == <<0>>     \* no frame has this number
SlotSet == 0 .. RefSlots - 1
Rgb     == 7

Vp9Frame ==
  [profile : {0, 2}, show_existing : {0, 1}, frame_type : {0, 1}, show_frame : {0, 1},
   error_resilient : {0, 1}, intra_only : {0, 1}, refresh : SUBSET SlotSet,
   size : FrameSizes,
   claims : {<<0, 1, 0>>, <<1, 0, 0>>, <<1, 0, 1>>, <<1, 1, 0>>, <<0, 0, 0>>},
     \* claims: frame_type, show_frame and error_resilient_mode in the VA flags
   config : {[sync |-> TRUE, bit_depth |-> 0, color_space |-> 1],
             [sync |-> FALSE, bit_depth |-> 0, color_space |-> 1],
             [sync |-> TRUE, bit_depth |-> 1, color_space |-> 1],       \* 12 bit
             [sync |-> TRUE, bit_depth |-> 0, color_space |-> Rgb]}]
     \* config: the sync code is there; color_config as Profile 2 writes it
-----------------------------------------------------------------------------
\* uncompressed_header up to the refresh flags (external, 6.2).
Header(f) ==
  <<2, f.profile, f.show_existing, f.frame_type, f.show_frame, f.error_resilient>> \o
  IF f.frame_type = 0 THEN <<"sync", "color_config">>
  ELSE (IF f.show_frame = 1 THEN <<>> ELSE <<f.intra_only>>)
       \o (IF f.error_resilient = 1 THEN <<>> ELSE <<"reset_frame_context">>)
       \o (IF f.show_frame = 0 /\ f.intra_only = 1
           THEN <<f.config.sync>>
                \o (IF f.profile = 0 THEN <<>>
                    ELSE <<f.config.bit_depth, f.config.color_space, "color_range">>)
           ELSE <<>>)
       \o <<f.refresh>>

Refreshes(f) == IF f.frame_type = 0 THEN SlotSet ELSE f.refresh

\* Where the elements of an invisible inter frame stand: the sync code of an
\* intra-only one, then its color_config, then the refresh flags.
sync_at(h) == 8 + IF h[6] = 1 THEN 0 ELSE 1
refresh_at(h) == sync_at(h) + IF h[7] = 0 THEN 0 ELSE IF h[2] = 0 THEN 1 ELSE 4
hidden_inter(h) == h[4] = 1 /\ h[5] = 0
intra_only(h)   == hidden_inter(h) /\ h[7] = 1

\* The bits the translator reads of a header.
bits_read(h) ==
  8 + IF ~hidden_inter(h) THEN 0
      ELSE 9 + (IF h[6] = 1 THEN 0 ELSE 2)
             + IF ~intra_only(h) THEN 0 ELSE IF h[2] = 0 THEN 24 ELSE 29

\* The refresh flags of an invisible frame, read past what stands before them.
refresh(h) == IF h[4] = 0 THEN SlotSet ELSE h[refresh_at(h)]

\* The checks that throw.  size >= 3 stands for both header lengths too.
accepted(f, profile) ==
  LET h == Header(f) IN
  /\ f.profile = profile /\ f.size >= 3 /\ bits_read(h) <= 8 * f.size
  /\ h[1] = 2 /\ h[2] = profile /\ h[3] = 0
  /\ <<h[4], h[5], h[6]>> = f.claims
  /\ intra_only(h) =>
       /\ h[sync_at(h)]
       /\ profile = 0 \/ (h[sync_at(h) + 1] = 0 /\ h[sync_at(h) + 2] # Rgb)
  /\ f.show_frame = 0 => refresh(h) # {}

Digits(n, count) == [i \in 1 .. count |-> (n \div Radix^(i - 1)) % Radix]

\* The superframe index: marker, sizes, marker.
X_superframe_index(size) ==
  LET magnitude == CHOOSE m \in 1 .. 4 :
                     (m = 4 \/ size <= Radix^m) /\ \A n \in 1 .. m - 1 : size > Radix^n
      marker == [magnitude |-> magnitude, frames |-> 2]
  IN <<marker>> \o Digits(size, magnitude) \o Digits(1, magnitude) \o <<marker>>
superframe_index(size) ==
  LET magnitude == CHOOSE m \in 1 .. 4 :
                     (m = 4 \/ size < Radix^m) /\ \A n \in 1 .. m - 1 : size >= Radix^n
      marker == [magnitude |-> magnitude, frames |-> 2]
  IN <<marker>> \o Digits(size, magnitude) \o Digits(1, magnitude) \o <<marker>>

\* translate: the frames of the access unit and its index.
translate_vp9(f) ==
  IF f.show_frame = 1 THEN [show |-> 0, index |-> <<>>]
  ELSE [show |-> Min(refresh(Header(f))), index |-> superframe_index(f.size)]
-----------------------------------------------------------------------------
\* The decoder: the sizes of the index must be those of the frames.
Number(digits) == FoldRight(LAMBDA d, n : Radix * n + d, digits, 0)
Splits(index, size) ==
  \/ index = <<>>
  \/ LET m == index[Len(index)].magnitude IN
       /\ Len(index) = 2 + 2 * m
       /\ Number(SubSeq(index, 2, 1 + m)) = size
       /\ Number(SubSeq(index, 2 + m, 1 + 2 * m)) = 1

Vp9Init == frames = 0 /\ vp9_slots = [s \in SlotSet |-> 0] /\ shown = Thrown

\* One picture of a context of `profile`.
submit_vp9(f, profile) ==
  /\ frames < MaxVp9Frames /\ frames' = frames + 1
  /\ IF ~accepted(f, profile)
     THEN shown' = Thrown /\ UNCHANGED vp9_slots
     ELSE LET au == translate_vp9(f) IN
            /\ vp9_slots' = [s \in SlotSet |->
                 IF s \in Refreshes(f) THEN frames' ELSE vp9_slots[s]]
            /\ shown' = IF ~Splits(au.index, f.size) THEN <<>>
                        ELSE (IF f.show_frame = 1 THEN <<frames'>> ELSE <<>>)
                             \o (IF au.index = <<>> THEN <<>> ELSE <<vp9_slots'[au.show]>>)

Vp9Next == \E profile \in {0, 2} : \E f \in Vp9Frame : submit_vp9(f, profile)
Vp9Spec == Vp9Init /\ [][Vp9Next]_vp9Vars
-----------------------------------------------------------------------------
\* Every frame that is not refused makes the decoder show one picture, and it is
\* that frame's own, whatever slots a hidden one refreshes and however long it is
\* (vp9.cc:3, "VA expects a completed surface").
Vp9ShowsOne == shown # Thrown => shown = <<frames>>
=============================================================================
