-------------------------- MODULE MCTermuxInstaller --------------------------
(* TermuxInstaller for TLC: which entry is which makes no difference. *)
EXTENDS TermuxInstaller, TLC

InstallSymmetry == Permutations(Entries) \cup Permutations(Links)
=============================================================================
