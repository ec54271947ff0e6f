----------------------------- MODULE MCManaged ------------------------------
(* Managed on small instances.                                               *)
EXTENDS Managed, TLC

Symmetry == Permutations(Processes) \cup Permutations(UserContents) \cup Permutations(Builds)
=============================================================================
