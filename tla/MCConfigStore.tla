--------------------------- MODULE MCConfigStore ----------------------------
(* ConfigStore on small instances.                                           *)
EXTENDS ConfigStore, TLC

\* Processes are interchangeable; profiles and clients are, too, but for the one
\* Init chooses, so only the processes are permuted.
Symmetry == Permutations(Processes)
=============================================================================
