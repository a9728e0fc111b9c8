----------------------------- MODULE MCVaDriver -----------------------------
(* Instances of VaDriver for TLC.                                          *)
EXTENDS VaDriver, TLC

CONSTANTS s1, s2

Interchangeable == Permutations(Threads)
=============================================================================
