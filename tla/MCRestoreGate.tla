--------------------------- MODULE MCRestoreGate ---------------------------
(* Instances of RestoreGate for TLC. *)
EXTENDS RestoreGate, TLC

CONSTANTS i1, i2, s1, s2

\* Instances are interchangeable, and so are goroutines; only safety uses it.
Interchangeable == Permutations(Instances) \cup Permutations(Slots)
=============================================================================
