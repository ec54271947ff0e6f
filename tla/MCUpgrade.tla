----------------------------- MODULE MCUpgrade ------------------------------
(* Upgrade on small instances.                                               *)
EXTENDS Upgrade, TLC

V(major, minor, pre) == [core |-> <<major, minor, 0>>, pre |-> pre]
Beta(n) == << <<"text", 1>>, <<"number", n>> >>
BetaOf  == << <<"text", 1>>, <<"text", 1>> >>
Beta0   == << <<"text", 1>> >>

\* v0.2.0 < v1.0.0-beta < -beta.2 < -beta.11 < -beta.a < v1.0.0 < v1.1.0-beta.2 < v1.1.0,
\* and one with a number that does not fit.
MCPrecedence ==
    << V(0, 2, <<>>), V(1, 0, Beta0), V(1, 0, Beta(2)), V(1, 0, Beta(11)), V(1, 0, BetaOf),
       V(1, 0, <<>>), V(1, 1, Beta(2)), V(1, 1, <<>>), V(1, 9, <<>>) >>

MCReleases ==
    {[tag |-> v, reports |-> v, prerelease |-> f, draft |-> FALSE] :
        v \in {MCPrecedence[i] : i \in {3, 4, 7, 8}}, f \in BOOLEAN} \cup
    {[tag |-> MCPrecedence[9], reports |-> MCPrecedence[9], prerelease |-> FALSE, draft |-> FALSE],
     [tag |-> MCPrecedence[8], reports |-> MCPrecedence[6], prerelease |-> FALSE, draft |-> FALSE],
     [tag |-> MCPrecedence[8], reports |-> MCPrecedence[8], prerelease |-> FALSE, draft |-> TRUE]}

Symmetry == Permutations(Processes)
=============================================================================
