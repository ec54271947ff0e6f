-------------------------- MODULE PreviewLifecycle --------------------------
(***************************************************************************)
(* What a live session promises about server previews, without saying how: *)
(* docs/tui.md:81-83, "Confirmation is bound to the originating session    *)
(* and can be dispatched only once. [...] reconnecting, or reauthenticating *)
(* invalidates pending confirmation."                                      *)
(*                                                                         *)
(* A handle is issued once. Claiming it spends it. A claimed confirmation  *)
(* is authorised, at most once, before it is sent; whatever invalidates    *)
(* the session voids every handle that is live or claimed at once. What    *)
(* has been authorised by then may still be sent: the last check and the   *)
(* transport are two steps.                                                *)
(***************************************************************************)

CONSTANT Handles

VARIABLE phase  \* phase[h]: how far the handle h has got

Phases == {"unissued", "live", "claimed", "authorised", "sent", "void"}

TypeOK == phase \in [Handles -> Phases]

Init == phase = [h \in Handles |-> "unissued"]

Move(h, from, to) ==
    /\ phase[h] = from
    /\ phase' = [phase EXCEPT ![h] = to]

Issue(h)     == Move(h, "unissued", "live")
Claim(h)     == Move(h, "live", "claimed")
Drop(h)      == Move(h, "live", "void") \/ Move(h, "claimed", "void")
Authorise(h) == Move(h, "claimed", "authorised")
Send(h)      == Move(h, "authorised", "sent")

\* An invalidation is never partial.
Revoke == phase' = [h \in Handles |->
                      IF phase[h] \in {"live", "claimed"} THEN "void" ELSE phase[h]]

Next ==
    \/ Revoke
    \/ \E h \in Handles :
          Issue(h) \/ Claim(h) \/ Drop(h) \/ Authorise(h) \/ Send(h)

Spec == Init /\ [][Next]_phase
=============================================================================
