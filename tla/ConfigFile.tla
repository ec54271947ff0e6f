----------------------------- MODULE ConfigFile -----------------------------
(***************************************************************************)
(* What internal/config/store.go promises its callers: the configuration   *)
(* is one register. An update that reports success was applied, whole, to  *)
(* the content at one moment between its call and its return; one that     *)
(* reports a failure was not applied; a snapshot is the content at one     *)
(* moment; a process that dies applied its update or did not.              *)
(***************************************************************************)
EXTENDS ConfigUpdates

CONSTANTS Processes

VARIABLES
    file,   \* the content
    call,   \* call[p]: "none", "asked", "applied", "dead"
    asked,  \* asked[p]: the update p has called
    told,   \* told[p]: what p's last call reported, until the next
    snap    \* snap[p]: the snapshot p holds

vars == <<file, call, asked, told, snap>>

Ask(p, u) ==
    /\ call[p] = "none"
    /\ call' = [call EXCEPT ![p] = "asked"]
    /\ asked' = [asked EXCEPT ![p] = u]
    /\ told' = [told EXCEPT ![p] = "none"]
    /\ UNCHANGED <<file, snap>>

Apply(p) ==
    /\ call[p] = "asked"
    /\ Applicable(asked[p], file) /\ Valid(Effect(asked[p], file))
    /\ file' = Effect(asked[p], file)
    /\ call' = [call EXCEPT ![p] = "applied"]
    /\ UNCHANGED <<asked, told, snap>>

Succeed(p) ==
    /\ call[p] = "applied"
    /\ call' = [call EXCEPT ![p] = "none"]
    /\ told' = [told EXCEPT ![p] = "ok"]
    /\ asked' = [asked EXCEPT ![p] = NoUpdate]
    /\ UNCHANGED <<file, snap>>

Fail(p) ==
    /\ call[p] = "asked"
    /\ call' = [call EXCEPT ![p] = "none"]
    /\ told' = [told EXCEPT ![p] = "failed"]
    /\ asked' = [asked EXCEPT ![p] = NoUpdate]
    /\ UNCHANGED <<file, snap>>

Snapshot(p, name) ==
    /\ call[p] = "none"
    /\ snap' = [snap EXCEPT ![p] = SnapshotOf(file, name)]
    /\ UNCHANGED <<file, call, asked, told>>

Crash(p) ==
    /\ call' = [call EXCEPT ![p] = "dead"]
    /\ asked' = [asked EXCEPT ![p] = NoUpdate]
    /\ snap' = [snap EXCEPT ![p] = NoSnapshot]
    /\ UNCHANGED <<file, told>>

Init ==
    /\ file \in File /\ Valid(file)
    /\ call = [p \in Processes |-> "none"]
    /\ asked = [p \in Processes |-> NoUpdate]
    /\ told = [p \in Processes |-> "none"]
    /\ snap \in [Processes -> {SnapshotOf(file, name) : name \in Profiles}]

Next == \E p \in Processes :
    \/ \E u \in Update : Ask(p, u)
    \/ Apply(p) \/ Succeed(p) \/ Fail(p) \/ Crash(p)
    \/ \E name \in Profiles : Snapshot(p, name)

Spec == Init /\ [][Next]_vars
=============================================================================
