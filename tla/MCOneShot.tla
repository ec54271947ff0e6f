----------------------------- MODULE MCOneShot ------------------------------
(* OneShot on small instances.                                               *)
EXTENDS OneShot, TLC

CONSTANTS p1, p2

MCContents == {[profile |-> p1, digest |-> 1], [profile |-> p1, digest |-> 2],
               [profile |-> p2, digest |-> 3]}

Symmetry == Permutations(Processes)
=============================================================================
