----------------------------- MODULE MCSession ------------------------------
(* Small instances of Session for TLC.                                       *)
EXTENDS Session, TLC

Symmetry == Permutations(Callers)
=============================================================================
