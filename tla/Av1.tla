-------------------------------- MODULE Av1 --------------------------------
(* The AV1 translator (av1.cc): VA gives it pictures without their         *)
(* refresh_frame_flags, so it holds each picture back until the next one's *)
(* reference map shows which slots the held one has taken, and only then   *)
(* writes its temporal unit.  The translator keeps what it believes of the *)
(* decoder: the order hint in every reference slot and the sequence header *)
(* that has been announced.                                                *)
(*                                                                         *)
(* Around it are the client, which parses the stream and keeps the slots   *)
(* as AV1 defines them, and the decoder, which keeps its own.  The number  *)
(* of a frame stands for its order hint and its global motion parameters,  *)
(* both of which later headers are coded against.                          *)
(*                                                                         *)
(* X_f is a mutant of f: a bug the code could have.  Nothing uses it.      *)
EXTENDS Integers, FiniteSets

CONSTANTS
  Invalid,          \* VA_INVALID_SURFACE; no sequence, no picture
  Slots,            \* the reference slots of a decoder (eight in AV1)
  Surfaces,         \* surfaces of the client
  Sizes,            \* frame sizes
  MaxFrames         \* bound: pictures of one stream

Kinds   == {"key", "hidden key", "inter", "switch"}
Keys    == {"key", "hidden key"}

\* What a slot of the decoder holds, and one of the client; a picture that the
\* translator holds, with its own reference `map`, `emits`, the copy of the flag
\* taken with it, and `intact`, that of the client when it was decoded.
SlotFrame  == [number : Nat, surface : Surfaces]
ClientSlot == [number : Nat, surface : Surfaces, key : BOOLEAN]
HeldPicture ==
  [number : Nat, surface : Surfaces, kind : Kinds, size : Sizes,
   map : [Slots -> SlotFrame \cup {Invalid}], emits : BOOLEAN, intact : BOOLEAN]

ASSUME Av1Assumption ==
  /\ Sizes \subseteq Nat \ {0} /\ MaxFrames \in Nat
  /\ Invalid \notin Surfaces \cup Sizes \cup SlotFrame \cup ClientSlot \cup HeldPicture

VARIABLES
  dpb,              \* the client's slots: ref_frame_map of its next picture
  stream,           \* size of the sequence the client is parsing
  next,             \* number of its next frame
  intact,           \* all frames since the last key frame have been decoded
  held,             \* held_picture_ with its surface, or Invalid
  references,       \* references_: what the slots hold, by frame number
  sequence,         \* sequence_, Invalid while !seen_sequence_
  emit,             \* emit_sequence_header_
  slots,            \* the decoder's slots
  header,           \* the sequence header the decoder has parsed last
  unit              \* the last temporal unit, as the decoder met it

client     == <<dpb, stream, next, intact>>
translator == <<held, references, sequence, emit>>
decoder    == <<slots, header, unit>>
av1Vars    == <<client, translator, decoder>>

\* A shown key frame and a switch frame replace every slot; so says the
\* stream, and the header does not code their flags.
Implicit == {"key", "switch"}

\* A unit has its picture, the sequence and the hints it was coded for, the slots
\* and the sequence header it was decoded with, and whether the translator had
\* moved on to another sequence when it coded it.

NoHints  == [s \in Slots |-> 0]
NoFrames == [s \in Slots |-> Invalid]

Av1Init ==
  /\ dpb = NoFrames /\ stream = Invalid /\ next = 1 /\ intact = TRUE
  /\ held = Invalid /\ references = NoHints /\ sequence = Invalid /\ emit = FALSE
  /\ slots = NoFrames /\ header = Invalid /\ unit = Invalid
-----------------------------------------------------------------------------
(* The translator.                                                         *)

Seen(slot) == IF slot = Invalid THEN Invalid
              ELSE [number |-> slot.number, surface |-> slot.surface]

\* The reference map that comes with a picture.
ref_frame_map == [s \in Slots |-> Seen(dpb[s])]

\* The slots that hold picture p after it, by the map of its successor.
X_Recovered(map, p) ==
  {s \in Slots : p.map[s] # Invalid /\ p.map[s].surface = p.surface}
Recovered(map, p) == {s \in Slots : map[s] # Invalid /\ map[s].surface = p.surface}

av1_sequence_state(p) == p.size

X_Announces(p) == sequence = Invalid
Announces(p) == sequence = Invalid \/ p.kind \in Keys

X_Refreshed(old, refresh, p) ==
  [s \in Slots |-> IF s \in refresh /\ p.kind \notin Keys
                   THEN p.number ELSE old[s]]
Refreshed(old, refresh, p) ==
  [s \in Slots |-> IF s \in refresh THEN p.number ELSE old[s]]

\* A switch frame always codes its size, which the writer does only for a size
\* that is not the sequence's.
Unwritable(p, seq) == p.kind = "switch" /\ p.size = seq

\* The sequence header the decoder has when it comes to the frame of p.
Parsed(p, seq) == IF p.emits THEN seq ELSE header

\* The hints its header is coded against: reference order hints, the search
\* for skip mode, global motion deltas.  A shown key frame has none of them.
CodedHints(p) == IF p.kind = "key" THEN NoHints ELSE references

UnitOf(p, seq, overtaken) ==
  [picture |-> p, sequence |-> seq, hints |-> CodedHints(p), slots |-> slots,
   header |-> Parsed(p, seq), overtaken |-> overtaken]

\* The decoder takes the unit of p, coded with these flags for sequence seq.
Decode(p, refresh, seq, overtaken) ==
  LET taken == IF p.kind \in Implicit THEN Slots ELSE refresh IN
  /\ unit' = UnitOf(p, seq, overtaken)
  /\ header' = Parsed(p, seq)
  /\ slots' = [s \in Slots |->
                 IF s \in taken
                 THEN [number |-> p.number, surface |-> p.surface]
                 ELSE slots[s]]

\* build(refresh) for the held picture: the unit is written and decoded, or
\* written and lost (its surface is gone, or the session refuses it), or it
\* cannot be written.  `outcome` says which.
build(refresh, seq, overtaken, outcome) ==
  /\ Unwritable(held, seq) => outcome = "rejected"
  /\ IF outcome = "decoded" THEN Decode(held, refresh, seq, overtaken)
                            ELSE UNCHANGED decoder
  /\ references' = IF outcome = "rejected" THEN references
                   ELSE Refreshed(references, refresh, held)

\* translate(p): the sequence follows p, then the held picture is built, and
\* p is held in its place unless that threw.
translate(p, outcome) ==
  LET seq == IF Announces(p) THEN av1_sequence_state(p) ELSE sequence
      announce == emit \/ Announces(p) IN
  /\ sequence' = seq
  /\ IF held = Invalid THEN outcome = "decoded" /\ UNCHANGED <<references, decoder>>
     ELSE build(Recovered(p.map, held), seq, seq # sequence, outcome)
  /\ IF outcome = "rejected"
     THEN held' = Invalid /\ emit' = announce
     ELSE held' = [p EXCEPT !.emits = announce] /\ emit' = FALSE
-----------------------------------------------------------------------------
(* The client and its contexts.                                            *)

\* It never decodes into a surface that one of its slots holds.
Free(surface) == \A s \in Slots : dpb[s] # Invalid => dpb[s].surface # surface

\* A picture of the stream, and the slots it takes.  A stream starts with
\* a shown key frame, and key frames have the size of their sequence.
Frame(kind, surface, size, refresh, outcome) ==
  LET whole == /\ outcome # "rejected"
               /\ kind = "key" \/ (intact /\ outcome = "decoded") IN
  /\ next <= MaxFrames /\ Free(surface)
  /\ stream = Invalid => kind = "key"
  /\ kind \notin Keys => size <= stream
  /\ stream' = IF kind \in Keys THEN size ELSE stream
  /\ next' = next + 1
  /\ intact' = whole
  /\ dpb' = [s \in Slots |->
               IF s \in refresh
               THEN [number |-> next, surface |-> surface,
                     key |-> kind = "hidden key"]
               ELSE dpb[s]]
  /\ translate([number |-> next, surface |-> surface, kind |-> kind,
                size |-> size, map |-> ref_frame_map, emits |-> FALSE,
                intact |-> whole], outcome)

\* show_existing_frame of a hidden key frame: it takes every slot, and VA has
\* no call for that.  The translator finds out if that picture is still held.
ShowExisting(s) ==
  /\ dpb[s] # Invalid /\ dpb[s].key
  /\ \E r \in Slots : dpb[r] # [dpb[s] EXCEPT !.key = FALSE]
  /\ dpb' = [r \in Slots |-> [dpb[s] EXCEPT !.key = FALSE]]
  /\ intact' = (intact /\ held # Invalid /\ held.number = dpb[s].number)
  /\ UNCHANGED <<stream, next, translator, decoder>>

\* destroyContext: flush() builds the held picture without flags; the next
\* context has a translator and a decoder of its own.
Flush(outcome) ==
  /\ held # Invalid
  /\ Unwritable(held, sequence) => outcome = "rejected"
  /\ unit' = IF outcome = "decoded" THEN UnitOf(held, sequence, FALSE) ELSE unit
  /\ held' = Invalid /\ references' = NoHints /\ sequence' = Invalid /\ emit' = FALSE
  /\ slots' = NoFrames /\ header' = Invalid
  /\ dpb' = NoFrames /\ stream' = Invalid /\ intact' = TRUE
  /\ UNCHANGED next

Outcomes == {"decoded", "lost", "rejected"}

Av1Next ==
  \/ \E kind \in Kinds, surface \in Surfaces, size \in Sizes, outcome \in Outcomes :
       \E refresh \in IF kind \in Implicit THEN {Slots} ELSE SUBSET Slots :
         Frame(kind, surface, size, refresh, outcome)
  \/ \E s \in Slots : ShowExisting(s)
  \/ \E outcome \in Outcomes : Flush(outcome)

Av1Spec == Av1Init /\ [][Av1Next]_av1Vars
-----------------------------------------------------------------------------
(* A unit can be decoded as its stream was coded when nothing since the    *)
(* last key frame was lost.                                                *)
Decodable == unit # Invalid /\ unit.picture.intact

\* The refresh flags recovered one picture late keep the decoder's slots in
\* step with the client's: a unit finds in every slot the frame, and on the
\* surface, that its reference map names (av1.cc:42-48, 103).
RightReferences ==
  Decodable /\ unit.picture.kind # "key" => unit.slots = unit.picture.map

\* The hints and motion parameters a header is coded against are those of the
\* frames in the decoder's slots (av1.cc:98-101, av1_obu.h:24-34).
HintsAgree ==
  Decodable /\ unit.picture.kind # "key" =>
    \A s \in Slots : unit.hints[s] = unit.slots[s].number

\* A unit is coded for the sequence header the decoder has, and fits it.  The
\* picture before a key frame of another size is the exception: translate()
\* has overwritten sequence_ when it builds it (av1.cc:36-41, 55).
SequenceKnown ==
  Decodable /\ ~unit.overtaken =>
    unit.sequence = unit.header /\ unit.picture.size <= unit.header
=============================================================================
