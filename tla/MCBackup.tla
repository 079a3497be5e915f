------------------------------- MODULE MCBackup -------------------------------
(* Instances of BackupSystem for TLC.                                       *)
EXTENDS BackupSystem, TLC

Symmetry == Permutations(JobIds) \cup Permutations(Seconds)
=============================================================================
