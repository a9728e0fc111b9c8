----------------------------- MODULE Av1Proofs -----------------------------
(***************************************************************************)
(* The AV1 translator stays in step with the decoder, for every number of  *)
(* reference slots, surfaces and pictures and whatever units are lost or   *)
(* rejected: what a unit was coded against is what the decoder has when it *)
(* comes to it.                                                            *)
(***************************************************************************)
EXTENDS Av1, TLAPS

Av1TypeOK ==
  /\ dpb \in [Slots -> ClientSlot \cup {Invalid}] /\ stream \in Sizes \cup {Invalid}
  /\ next \in Nat \ {0} /\ intact \in BOOLEAN /\ emit \in BOOLEAN
  /\ held \in HeldPicture \cup {Invalid} /\ references \in [Slots -> Nat]
  /\ sequence = stream /\ slots \in [Slots -> SlotFrame \cup {Invalid}]

\* The held picture is the youngest, in a surface that none of its references
\* has; a stream that has begun has filled every slot.
Counted ==
  /\ \A s \in Slots : dpb[s] # Invalid => dpb[s].number < next
  /\ held # Invalid =>
       /\ held.number < next
       /\ \A s \in Slots : held.map[s] # Invalid =>
            held.map[s].number < held.number /\ held.map[s].surface # held.surface
  /\ stream # Invalid => \A s \in Slots : dpb[s] # Invalid
  /\ held # Invalid => stream # Invalid

\* What the held picture leaves in a slot it takes.
Taken == [number |-> held.number, surface |-> held.surface]

\* The client's slots are those of the held picture's map, but for the ones that
\* picture has taken, by its own refresh flags or by being shown again.
ClientFollows ==
  intact =>
    IF held = Invalid THEN stream = Invalid
    ELSE /\ held.intact
         /\ \A s \in Slots :
              \/ Seen(dpb[s]) = Taken
              \/ held.kind \notin Implicit /\ Seen(dpb[s]) = held.map[s]

\* The decoder is where the held picture wants it, and so is what the translator
\* believes of it.
DecoderFollows ==
  held # Invalid /\ held.intact =>
    /\ held.kind # "key" =>
         /\ slots = held.map
         /\ \A s \in Slots : slots[s] # Invalid /\ references[s] = slots[s].number
    /\ held.emits \/ header = sequence
    /\ held.size <= sequence

UnitFits == RightReferences /\ HintsAgree /\ SequenceKnown

Av1Inv == Av1TypeOK /\ Counted /\ ClientFollows /\ DecoderFollows /\ UnitFits

-----------------------------------------------------------------------------
\* Records and sizes are not Invalid.
LEMMA Valid ==
  /\ Invalid \notin Surfaces /\ Invalid \notin Sizes /\ Invalid \notin SlotFrame
  /\ Invalid \notin ClientSlot /\ Invalid \notin HeldPicture
  /\ Sizes \subseteq Nat
BY Av1Assumption

\* What the client passes on of a slot.
LEMMA SeenIs ==
  ASSUME NEW x \in ClientSlot \cup {Invalid}
  PROVE  /\ Seen(x) \in SlotFrame \cup {Invalid}
         /\ x = Invalid => Seen(x) = Invalid
         /\ x # Invalid => /\ Seen(x) # Invalid
                           /\ Seen(x).number = x.number /\ Seen(x).surface = x.surface
<1>1. CASE x = Invalid
  BY <1>1 DEF Seen
<1>2. CASE x # Invalid
  <2>1. x.number \in Nat /\ x.surface \in Surfaces
    BY <1>2 DEF ClientSlot
  <2>2. Seen(x) = [number |-> x.number, surface |-> x.surface]
    BY <1>2 DEF Seen
  <2>3. Seen(x) \in SlotFrame
    BY <2>1, <2>2 DEF SlotFrame
  <2> QED BY <1>2, <2>2, <2>3, Valid
<1> QED BY <1>1, <1>2

\* Before the stream starts.
LEMMA Av1Starts == Av1Init => Av1Inv
<1> SUFFICES ASSUME Av1Init PROVE Av1Inv
  OBVIOUS
<1>1. Av1TypeOK
  <2>1. NoHints \in [Slots -> Nat]
    BY DEF NoHints
  <2>2. /\ NoFrames \in [Slots -> ClientSlot \cup {Invalid}]
        /\ NoFrames \in [Slots -> SlotFrame \cup {Invalid}]
    BY DEF NoFrames
  <2>3. next \in Nat \ {0}
    BY DEF Av1Init
  <2>4. intact \in BOOLEAN /\ emit \in BOOLEAN
    BY Zenon DEF Av1Init
  <2> QED BY <2>1, <2>2, <2>3, <2>4, Zenon DEF Av1Init, Av1TypeOK
<1>2. Counted /\ ClientFollows /\ DecoderFollows
  BY DEF Av1Init, Counted, ClientFollows, DecoderFollows, NoFrames
<1>3. UnitFits
  BY DEF Av1Init, UnitFits, RightReferences, HintsAgree, SequenceKnown, Decodable
<1> QED BY <1>1, <1>2, <1>3 DEF Av1Inv

\* A unit of the held picture fits the decoder that meets it.
LEMMA UnitMeets ==
  ASSUME Av1Inv, held # Invalid, NEW seq, NEW overtaken \in BOOLEAN,
         ~overtaken => seq = sequence, unit' = UnitOf(held, seq, overtaken)
  PROVE  UnitFits'
<1>1. /\ unit'.picture = held /\ unit'.sequence = seq /\ unit'.slots = slots
      /\ unit'.hints = CodedHints(held) /\ unit'.header = Parsed(held, seq)
      /\ unit'.overtaken = overtaken
  BY DEF UnitOf
<1>2. ASSUME held.intact, held.kind # "key"
      PROVE  /\ slots = held.map /\ CodedHints(held) = references
             /\ \A s \in Slots : references[s] = slots[s].number
  BY <1>2 DEF Av1Inv, DecoderFollows, CodedHints
<1>3. ASSUME held.intact, ~overtaken
      PROVE  Parsed(held, seq) = sequence /\ held.size <= sequence
  BY <1>3 DEF Av1Inv, DecoderFollows, Parsed
<1>4. RightReferences' /\ HintsAgree'
  BY <1>1, <1>2 DEF RightReferences, HintsAgree, Decodable
<1>5. SequenceKnown'
  BY <1>1, <1>3 DEF SequenceKnown, Decodable
<1> QED BY <1>4, <1>5 DEF UnitFits

\* Nothing is sent.
LEMMA NoUnit == ASSUME UnitFits, unit' = unit PROVE UnitFits'
BY DEF UnitFits, RightReferences, HintsAgree, SequenceKnown, Decodable

\* The context ends.
LEMMA FlushStep ==
  ASSUME Av1Inv, NEW outcome \in Outcomes, Flush(outcome) PROVE Av1Inv'
<1>1. UnitFits'
  <2>1. CASE unit' = unit
    BY <2>1, NoUnit DEF Av1Inv
  <2>2. CASE unit' = UnitOf(held, sequence, FALSE)
    BY <2>2, UnitMeets DEF Flush
  <2> QED BY <2>1, <2>2 DEF Flush
<1>2. Av1TypeOK'
  BY DEF Flush, Av1Inv, Av1TypeOK, NoFrames, NoHints
<1>3. Counted' /\ ClientFollows' /\ DecoderFollows'
  BY DEF Flush, Counted, ClientFollows, DecoderFollows, NoFrames
<1> QED BY <1>1, <1>2, <1>3 DEF Av1Inv

\* A key frame is shown again: what it takes is what the held picture takes, or
\* the client's stream is not intact any more.
LEMMA ShowStep ==
  ASSUME Av1Inv, NEW s \in Slots, ShowExisting(s) PROVE Av1Inv'
<1> DEFINE x == [dpb[s] EXCEPT !.key = FALSE]
<1>1. /\ dpb[s] # Invalid /\ dpb' = [r \in Slots |-> x]
      /\ UNCHANGED <<stream, next, held, references, sequence, emit, slots, header, unit>>
      /\ intact' = (intact /\ held # Invalid /\ held.number = dpb[s].number)
  BY DEF ShowExisting, translator, decoder
<1>2. /\ dpb[s] \in ClientSlot /\ x \in ClientSlot /\ x # Invalid
      /\ x.number = dpb[s].number /\ x.surface = dpb[s].surface
  BY <1>1, Valid DEF Av1Inv, Av1TypeOK, ClientSlot
<1>3. Seen(x) = Seen(dpb[s])
  BY <1>1, <1>2 DEF Seen
<1> HIDE DEF x
<1>4. \A r \in Slots : dpb'[r] = x
  BY <1>1
<1>5. Av1TypeOK'
  BY <1>1, <1>2 DEF Av1Inv, Av1TypeOK
<1>6. Counted'
  BY <1>1, <1>2, <1>4 DEF Av1Inv, Counted
<1>7. ASSUME intact' PROVE Seen(x) = Taken
  <2>1. intact /\ held # Invalid /\ held.number = dpb[s].number
    BY <1>1, <1>7
  <2>2. Seen(dpb[s]) # Invalid /\ Seen(dpb[s]).number = held.number
    BY <1>1, <1>2, <2>1, SeenIs
  <2>3. CASE Seen(dpb[s]) = held.map[s]
    <3>1. held \in HeldPicture /\ held.number \in Nat
      BY <2>1 DEF Av1Inv, Av1TypeOK, HeldPicture
    <3> QED BY <2>1, <2>2, <2>3, <3>1 DEF Av1Inv, Counted
  <2> QED BY <1>3, <2>1, <2>3 DEF Av1Inv, ClientFollows
<1>8. ClientFollows'
  <2> SUFFICES ASSUME intact' PROVE held' # Invalid /\ held'.intact
                 /\ \A r \in Slots : Seen(dpb'[r]) = [number |-> held'.number, surface |-> held'.surface]
    BY DEF ClientFollows, Taken
  <2>1. intact /\ held # Invalid /\ held.intact
    BY <1>1 DEF Av1Inv, ClientFollows
  <2> QED BY <1>1, <1>4, <1>7, <2>1 DEF Taken
<1>9. DecoderFollows' /\ UnitFits'
  BY <1>1, NoUnit DEF Av1Inv, DecoderFollows
<1> QED BY <1>5, <1>6, <1>8, <1>9 DEF Av1Inv

\* A new picture is held, and the one before it is sent with the flags that the
\* new one's map shows, or lost, or rejected.
LEMMA FrameStep ==
  ASSUME Av1Inv, NEW kind \in Kinds, NEW surface \in Surfaces, NEW size \in Sizes,
         NEW refresh \in SUBSET Slots, NEW outcome \in Outcomes,
         kind \in Implicit => refresh = Slots,
         Frame(kind, surface, size, refresh, outcome)
  PROVE  Av1Inv'
<1> DEFINE whole == /\ outcome # "rejected"
                    /\ kind = "key" \/ (intact /\ outcome = "decoded")
           p == [number |-> next, surface |-> surface, kind |-> kind, size |-> size,
                 map |-> ref_frame_map, emits |-> FALSE, intact |-> whole]
           announce == emit \/ Announces(p)
           q   == [p EXCEPT !.emits = announce]
           seq == IF Announces(p) THEN av1_sequence_state(p) ELSE sequence
           new == [number |-> next, surface |-> surface, key |-> kind = "hidden key"]
<1>1. /\ Free(surface) /\ (stream = Invalid => kind = "key")
      /\ (kind \notin Keys => size <= stream)
      /\ stream' = IF kind \in Keys THEN size ELSE stream
      /\ next' = next + 1 /\ intact' = whole
      /\ dpb' = [s \in Slots |-> IF s \in refresh THEN new ELSE dpb[s]]
      /\ translate(p, outcome)
  BY DEF Frame
<1>2. \A s \in Slots : /\ dpb[s] \in ClientSlot \cup {Invalid}
                       /\ ref_frame_map[s] = Seen(dpb[s])
                       /\ Seen(dpb[s]) \in SlotFrame \cup {Invalid}
  BY SeenIs DEF Av1Inv, Av1TypeOK, ref_frame_map
<1>3. p \in HeldPicture
  <2>1. ref_frame_map \in [Slots -> SlotFrame \cup {Invalid}]
    BY <1>2 DEF ref_frame_map
  <2>2. next \in Nat /\ whole \in BOOLEAN
    BY DEF Av1Inv, Av1TypeOK
  <2> QED BY <2>1, <2>2 DEF HeldPicture
<1>4. /\ p.number = next /\ p.surface = surface /\ p.kind = kind /\ p.size = size
      /\ p.map = ref_frame_map /\ p.intact = whole
  OBVIOUS
<1> HIDE DEF p
<1>5. /\ q \in HeldPicture /\ q # Invalid /\ q.emits = announce
      /\ q.number = next /\ q.surface = surface /\ q.kind = kind /\ q.size = size
      /\ q.map = ref_frame_map /\ q.intact = whole
  <2>1. announce \in BOOLEAN
    BY DEF Av1Inv, Av1TypeOK, Announces
  <2> QED BY <1>3, <1>4, <2>1, Valid DEF HeldPicture
<1>6. /\ sequence' = seq
      /\ IF held = Invalid THEN outcome = "decoded" /\ UNCHANGED <<references, decoder>>
         ELSE build(Recovered(p.map, held), seq, seq # sequence, outcome)
      /\ IF outcome = "rejected" THEN held' = Invalid /\ emit' = announce
                                 ELSE held' = q /\ emit' = FALSE
  BY <1>1 DEF translate
<1> HIDE DEF q
<1>7. seq = stream' /\ stream' \in Sizes /\ (kind \notin Keys => seq = sequence /\ stream # Invalid)
  <2>1. kind \in Keys => Announces(p) /\ seq = size
    BY <1>4 DEF Announces, av1_sequence_state
  <2>2. kind \notin Keys => stream # Invalid /\ ~Announces(p)
    BY <1>1, <1>4 DEF Announces, Av1Inv, Av1TypeOK, Keys
  <2> QED BY <1>1, <2>1, <2>2 DEF Av1Inv, Av1TypeOK
<1>8. announce \in BOOLEAN /\ (~announce => kind \notin Keys)
  BY <1>4 DEF Announces, Av1Inv, Av1TypeOK
<1> HIDE DEF announce, seq
<1>9. /\ references' \in [Slots -> Nat] /\ slots' \in [Slots -> SlotFrame \cup {Invalid}]
  <2>1. CASE held = Invalid
    BY <1>6, <2>1 DEF decoder, Av1Inv, Av1TypeOK
  <2>2. CASE held # Invalid
    <3>1. held.number \in Nat /\ held.surface \in Surfaces /\ Taken \in SlotFrame
      BY <2>2 DEF Av1Inv, Av1TypeOK, HeldPicture, Taken, SlotFrame
    <3>2. references' \in [Slots -> Nat]
      BY <1>6, <2>2, <3>1 DEF build, Refreshed, Av1Inv, Av1TypeOK
    <3>3. slots' \in [Slots -> SlotFrame \cup {Invalid}]
      BY <1>6, <2>2, <3>1 DEF build, Decode, decoder, Taken, Av1Inv, Av1TypeOK
    <3> QED BY <3>2, <3>3
  <2> QED BY <2>1, <2>2
<1>10. new \in ClientSlot /\ new # Invalid /\ new.number = next /\ new.surface = surface
  <2>1. next \in Nat /\ (kind = "hidden key") \in BOOLEAN
    BY DEF Av1Inv, Av1TypeOK
  <2>2. new \in ClientSlot
    BY <2>1 DEF ClientSlot
  <2> QED BY <2>2, Valid
<1> HIDE DEF new
<1>11. Av1TypeOK'
  <2>1. dpb' \in [Slots -> ClientSlot \cup {Invalid}]
    BY <1>1, <1>2, <1>10
  <2>2. next' \in Nat \ {0}
    BY <1>1 DEF Av1Inv, Av1TypeOK
  <2>5. emit' \in BOOLEAN
    BY <1>6, <1>8, Zenon
  <2>4. intact' \in BOOLEAN
    <3>1. whole \in BOOLEAN
      OBVIOUS
    <3> QED BY <1>1, <3>1
  <2>3. held' \in HeldPicture \cup {Invalid} /\ sequence' = stream' /\ stream' \in Sizes
    BY <1>5, <1>6, <1>7
  <2> QED BY <1>9, <2>1, <2>2, <2>3, <2>4, <2>5, Zenon DEF Av1TypeOK
<1>12. Counted'
  <2>1. \A s \in Slots : dpb'[s] # Invalid => dpb'[s].number < next'
    <3> SUFFICES ASSUME NEW s \in Slots, dpb'[s] # Invalid PROVE dpb'[s].number < next + 1
      BY <1>1
    <3>1. next \in Nat /\ (dpb[s] # Invalid => dpb[s].number \in Nat /\ dpb[s].number < next)
      BY <1>2 DEF Av1Inv, Av1TypeOK, Counted, ClientSlot
    <3> QED BY <1>1, <1>10, <3>1
  <2>2. ASSUME NEW s \in Slots, ref_frame_map[s] # Invalid
        PROVE  ref_frame_map[s].number < next /\ ref_frame_map[s].surface # surface
    <3>1. dpb[s] # Invalid /\ Seen(dpb[s]).number = dpb[s].number
          /\ Seen(dpb[s]).surface = dpb[s].surface
      BY <1>2, <2>2, SeenIs
    <3> QED BY <1>1, <1>2, <3>1 DEF Av1Inv, Counted, Free
  <2>3. held' # Invalid =>
          /\ held'.number < next' /\ stream' # Invalid
          /\ \A s \in Slots : held'.map[s] # Invalid =>
               held'.map[s].number < held'.number /\ held'.map[s].surface # held'.surface
    <3>1. next < next' /\ stream' # Invalid
      BY <1>1, <1>7, Valid DEF Av1Inv, Av1TypeOK
    <3> QED BY <1>5, <1>6, <2>2, <3>1
  <2>4. \A s \in Slots : dpb'[s] # Invalid
    <3>1. stream # Invalid \/ refresh = Slots
      BY <1>1 DEF Implicit
    <3> QED BY <1>1, <1>10, <3>1 DEF Av1Inv, Counted
  <2> QED BY <2>1, <2>3, <2>4 DEF Counted
<1>13. ClientFollows'
  <2> SUFFICES ASSUME whole
               PROVE  /\ held' = q
                      /\ \A s \in Slots :
                           \/ Seen(dpb'[s]) = [number |-> next, surface |-> surface]
                           \/ kind \notin Implicit /\ Seen(dpb'[s]) = ref_frame_map[s]
    BY <1>1, <1>5 DEF ClientFollows, Taken
  <2>1. Seen(new) = [number |-> next, surface |-> surface]
    BY <1>10 DEF Seen
  <2> QED BY <1>1, <1>2, <1>6, <2>1
<1>14. ASSUME whole, kind # "key"
       PROVE  /\ held # Invalid /\ held.intact
              /\ Decode(held, Recovered(p.map, held), seq, seq # sequence)
              /\ references' = Refreshed(references, Recovered(p.map, held), held)
  <2>1. intact /\ outcome = "decoded" /\ stream # Invalid
    BY <1>1, <1>14
  <2>2. held # Invalid /\ held.intact
    BY <2>1 DEF Av1Inv, ClientFollows
  <2> QED BY <1>6, <2>1, <2>2 DEF build
<1>15. ASSUME whole, kind # "key", NEW s \in Slots
       PROVE  /\ slots'[s] = Seen(dpb[s]) /\ slots'[s] # Invalid
              /\ references'[s] = slots'[s].number
  <2>1. intact /\ stream # Invalid /\ dpb[s] # Invalid
    BY <1>1, <1>15 DEF Av1Inv, Counted
  <2>2. Seen(dpb[s]) # Invalid /\ p.map[s] = Seen(dpb[s])
    BY <1>2, <1>4, <2>1, SeenIs
  <2>3. /\ slots'[s] = IF held.kind \in Implicit \/ s \in Recovered(p.map, held)
                       THEN Taken ELSE slots[s]
        /\ references'[s] = IF s \in Recovered(p.map, held) THEN held.number ELSE references[s]
    BY <1>14, <1>15 DEF Decode, Refreshed, Taken
  <2>4. s \in Recovered(p.map, held) <=> Seen(dpb[s]).surface = held.surface
    BY <2>2 DEF Recovered
  <2>5. CASE Seen(dpb[s]) = Taken
    BY <2>2, <2>3, <2>4, <2>5 DEF Taken
  <2>6. CASE held.kind \notin Implicit /\ Seen(dpb[s]) = held.map[s]
    <3>1. s \notin Recovered(p.map, held)
      BY <1>14, <1>15, <2>2, <2>4, <2>6 DEF Av1Inv, Counted
    <3>2. slots = held.map /\ references[s] = slots[s].number
      BY <1>14, <1>15, <2>6 DEF Av1Inv, DecoderFollows, Implicit
    <3> QED BY <2>2, <2>3, <2>6, <3>1, <3>2
  <2> QED BY <1>14, <1>15, <2>1, <2>5, <2>6 DEF Av1Inv, ClientFollows
<1>16. DecoderFollows'
  <2> SUFFICES ASSUME held' = q, whole
               PROVE  /\ kind # "key" =>
                           /\ slots' = ref_frame_map
                           /\ \A s \in Slots : slots'[s] # Invalid /\ references'[s] = slots'[s].number
                      /\ announce \/ header' = sequence'
                      /\ size <= sequence'
    BY <1>5, <1>6 DEF DecoderFollows
  <2>1. ASSUME kind # "key" PROVE slots' = ref_frame_map
    <3>1. slots' = [s \in Slots |-> slots'[s]]
      BY <1>9
    <3> QED BY <1>15, <2>1, <3>1 DEF ref_frame_map
  <2>2. ASSUME ~announce PROVE header' = sequence'
    <3>1. kind \notin Keys /\ seq = sequence
      BY <1>7, <1>8, <2>2
    <3>2. held # Invalid /\ held.intact /\ header' = Parsed(held, seq)
      BY <1>14, <3>1 DEF Decode, Keys
    <3> QED BY <1>6, <3>1, <3>2 DEF Parsed, Av1Inv, DecoderFollows
  <2>3. size <= sequence'
    BY <1>1, <1>6, <1>7, Valid
  <2> QED BY <1>15, <2>1, <2>2, <2>3
<1>17. UnitFits'
  <2>1. CASE unit' = unit
    BY <2>1, NoUnit DEF Av1Inv
  <2>2. CASE held # Invalid /\ unit' = UnitOf(held, seq, seq # sequence)
    BY <2>2, UnitMeets
  <2> QED BY <1>6, <2>1, <2>2 DEF build, Decode, decoder
<1> QED BY <1>11, <1>12, <1>13, <1>16, <1>17 DEF Av1Inv

\* Every step.
LEMMA Av1Step == Av1Inv /\ [Av1Next]_av1Vars => Av1Inv'
<1> SUFFICES ASSUME Av1Inv, [Av1Next]_av1Vars PROVE Av1Inv'
  OBVIOUS
<1>1. CASE \E kind \in Kinds, surface \in Surfaces, size \in Sizes, outcome \in Outcomes :
             \E refresh \in IF kind \in Implicit THEN {Slots} ELSE SUBSET Slots :
               Frame(kind, surface, size, refresh, outcome)
  <2>1. PICK kind \in Kinds, surface \in Surfaces, size \in Sizes, outcome \in Outcomes :
          \E refresh \in IF kind \in Implicit THEN {Slots} ELSE SUBSET Slots :
            Frame(kind, surface, size, refresh, outcome)
    BY <1>1
  <2>2. PICK refresh \in IF kind \in Implicit THEN {Slots} ELSE SUBSET Slots :
          Frame(kind, surface, size, refresh, outcome)
    BY <2>1
  <2>3. refresh \in SUBSET Slots /\ (kind \in Implicit => refresh = Slots)
    OBVIOUS
  <2> QED BY <2>2, <2>3, FrameStep
<1>2. CASE \E s \in Slots : ShowExisting(s)
  BY <1>2, ShowStep
<1>3. CASE \E outcome \in Outcomes : Flush(outcome)
  BY <1>3, FlushStep
<1>4. CASE UNCHANGED av1Vars
  BY <1>4 DEF av1Vars, client, translator, decoder, Av1Inv, Av1TypeOK, Counted, ClientFollows,
     Taken, DecoderFollows, UnitFits, RightReferences, HintsAgree, SequenceKnown, Decodable
<1> QED BY <1>1, <1>2, <1>3, <1>4 DEF Av1Next

\* The invariant holds throughout.
LEMMA AlwaysAv1 == Av1Spec => []Av1Inv
BY Av1Starts, Av1Step, PTL DEF Av1Spec

-----------------------------------------------------------------------------
\* The refresh flags recovered one picture late keep the decoder's slots in step
\* with the client's: a unit finds in every slot the frame, and on the surface,
\* that its reference map names (av1.cc:42-48, 103).
THEOREM ReferencesRight == Av1Spec => []RightReferences
<1>1. Av1Inv => RightReferences
  BY DEF Av1Inv, UnitFits
<1> QED BY <1>1, AlwaysAv1, PTL

\* The order hints and motion parameters a header is coded against are those of
\* the frames in the decoder's slots (av1.cc:98-101, av1_obu.h:24-34).
THEOREM HintsAlwaysAgree == Av1Spec => []HintsAgree
<1>1. Av1Inv => HintsAgree
  BY DEF Av1Inv, UnitFits
<1> QED BY <1>1, AlwaysAv1, PTL

\* A unit is coded for the sequence header the decoder has, and fits it, but for the
\* picture before a key frame of another size (av1.cc:36-41, 55).
THEOREM SequenceAlwaysKnown == Av1Spec => []SequenceKnown
<1>1. Av1Inv => SequenceKnown
  BY DEF Av1Inv, UnitFits
<1> QED BY <1>1, AlwaysAv1, PTL
=============================================================================
