----------------------------- MODULE MCObjects ------------------------------
(* Instances of Objects for TLC.                                           *)
EXTENDS Objects

Plain   == {<<>>}
AllNode == {{"HEVC", "NV12", "P010"}}
Few     == [config |-> 1, context |-> 1, surface |-> 2, buffer |-> 2, image |-> 2]
=============================================================================
