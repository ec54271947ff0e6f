------------------------------ MODULE MCForm --------------------------------
(* Form on small instances.                                                  *)
EXTENDS Form

CONSTANTS chosen, listed

MCFields == <<chosen, listed>>
=============================================================================
