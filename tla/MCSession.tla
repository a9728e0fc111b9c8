----------------------------- MODULE MCSession -----------------------------
(* Instances of Session for TLC.                                           *)
EXTENDS Session, TLC

CONSTANTS t1, t2, g1, g2, c1, c2, c3

OneSlot == {c1}
Slots2 == {c1, c2}
Slots3 == {c1, c2, c3}
OneTarget  == {t1}
TwoTargets == {t1, t2}

\* Every surface of one geometry, or one surface of each of two.
OneGeom  == [t \in Targets |-> g1]
TwoGeoms == [t \in Targets |-> IF t = t1 THEN g1 ELSE g2]

\* The layouts of the geometries: equal, or the second one larger.
SameLayout   == [g \in Geoms |-> 1]
LargerLayout == [g \in Geoms |-> IF g = g1 THEN 1 ELSE 2]

\* Targets of one geometry are interchangeable, and CAPTURE slots always are.
Interchangeable      == Permutations(Targets) \cup Permutations(CapSlots)
InterchangeableSlots == Permutations(CapSlots)
=============================================================================
