------------------------------- MODULE MCRestore ------------------------------
(* Instances of RestoreSystem for TLC.                                        *)
EXTENDS RestoreSystem, TLC

\* No formula tells one source from another when all are of one kind.
Symmetry == Permutations(Sources)
=============================================================================
