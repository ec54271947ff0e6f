------------------------------ MODULE Accounts ------------------------------
(***************************************************************************)
(* The commands that change who is signed in: auth login, refresh, logout, *)
(* setup, the sign-in a command offers, and profile delete, each run by a  *)
(* process of its own over internal/auth/service.go. A command changes the *)
(* authorization server, the credential store and the configuration one    *)
(* after the other; nothing locks the three together. Any of these calls   *)
(* may fail and any process may die between two of them.                   *)
(*                                                                         *)
(* The configuration is a register here, as ConfigStore implements it:     *)
(* an update that reports a failure has changed nothing.                   *)
(*                                                                         *)
(* The server and the credential store are external. A grant is live until *)
(* it is revoked; a refresh token is accepted while it is the newest of    *)
(* its grant.                                                              *)
(***************************************************************************)
EXTENDS ConfigUpdates, Naturals, FiniteSets

CONSTANTS
    Processes,
    MaxGrants,  \* bound: grants the server issues
    Rotating,   \* the grants whose refresh token is replaced when it is used
    MaxTokens,  \* bound: refresh tokens of one grant
    MaxFaults   \* bound: kinds of mishap in one behaviour

ASSUME AccountBounds ==
    /\ MaxGrants \in Nat \ {0} /\ MaxTokens \in Nat \ {0} /\ MaxFaults \in Nat
    /\ Rotating \subseteq 1..MaxGrants

VARIABLES
    file,     \* the configuration
    creds,    \* the credential store
    grants,   \* grants issued so far
    live,     \* those not revoked
    newest,   \* newest[g]: the refresh token g's next refresh must present
    pc,
    op,       \* the command of each process and its locals
    told,     \* what its last command reported
    mishaps   \* history: what happened that the code makes no promise about

server == <<grants, live, newest>>
vars == <<file, creds, server, pc, op, told, mishaps>>

Grants == 1..MaxGrants

\* Credentials: the grant and the refresh token, 0 if the server issued none.
Credentials == [grant : Grants, token : 0..MaxTokens]
Missing     == [grant |-> 0, token |-> 0]

SignIns  == {"login", "setup", "offer"}
Commands == SignIns \cup {"refresh", "logout", "delete"}
Snapshot == [name : Profiles, client : Entries, default : Profiles \cup {NoProfile}]

Command == [kind     : Commands,
            name     : Profiles,
            previous : Credentials \cup {Missing}, \* loginState; what was loaded
            profile  : Snapshot,                   \* loginState.profile
            issued   : Credentials \cup {Missing},
            client   : Clients \cup {NoClient},
            recorded : BOOLEAN]                    \* rollbackLogin's restoreProfile

Places == {"idle", "dead", "offer", "profile", "create", "default", "status", "capture",
           "snapshot", "authorize", "discard", "save", "upsert", "finish", "verify",
           "undo", "restore", "restoreProfile",
           "load", "rotate", "store", "revoke", "forget", "check", "remove"}

Mishaps == {"overlap",    \* a sign-in or sign-out ran beside another command
            "deletion",   \* a profile was deleted beside a sign-in or a refresh
            "halfway",    \* died between telling the server and the store
            "abandoned",  \* died with a grant no one revokes
            "lost",       \* an answer of the server that issued or rotated a token
            "unrevoked",  \* a revocation failed
            "unstored",   \* a rotated token or a sign-out could not be stored
            "unrestored"} \* a rollback could not be stored

TypeOK ==
    /\ file \in File
    /\ creds \in [Profiles -> Credentials \cup {Missing}]
    /\ grants \in 0..MaxGrants /\ live \subseteq 1..grants
    /\ newest \in [Grants -> 0..MaxTokens]
    /\ pc \in [Processes -> Places]
    /\ op \in [Processes -> Command]
    /\ told \in [Processes -> {"none", "ok", "failed"}]
    /\ mishaps \subseteq Mishaps

-----------------------------------------------------------------------------
Goto(p, place) == pc' = [pc EXCEPT ![p] = place] /\ UNCHANGED told

Name(p) == op[p].name

NoCommand == [kind |-> "logout", name |-> CHOOSE n \in Profiles : TRUE,
              previous |-> Missing, issued |-> Missing, client |-> NoClient,
              profile |-> SnapshotOf(EmptyFile, CHOOSE n \in Profiles : TRUE),
              recorded |-> FALSE]

Return(p, outcome) ==
    /\ pc' = [pc EXCEPT ![p] = "idle"]
    /\ told' = [told EXCEPT ![p] = outcome]
    /\ op' = [op EXCEPT ![p] = NoCommand]

Befalls(reasons) ==
    /\ mishaps' = mishaps \cup reasons
    /\ reasons \subseteq mishaps \/ Cardinality(mishaps') <= MaxFaults

Active(p) == pc[p] \notin {"idle", "dead"}

\* What a command that starts finds itself beside.
Beside(kind, name) ==
    LET others == {op[q].kind : q \in {r \in Processes : Active(r) /\ Name(r) = name}}
        Beside2(a, b) == \E o \in others : (kind \in a /\ o \in b) \/ (kind \in b /\ o \in a)
    IN  (IF Beside2(SignIns \cup {"logout"}, SignIns \cup {"logout", "refresh"})
         THEN {"overlap"} ELSE {}) \cup
        (IF Beside2(SignIns \cup {"refresh"}, {"delete"}) THEN {"deletion"} ELSE {})

First(kind) == CASE kind \in {"login", "setup"}   -> "profile"
                 [] kind = "offer"                -> "offer"
                 [] kind \in {"refresh", "logout"} -> "load"
                 [] kind = "delete"               -> "check"

Begin(p) ==
    /\ pc[p] = "idle"
    /\ \E kind \in Commands, name \in Profiles :
          /\ op' = [op EXCEPT ![p] = [NoCommand EXCEPT !.kind = kind, !.name = name]]
          /\ pc' = [pc EXCEPT ![p] = First(kind)]
          /\ Befalls(Beside(kind, name))
    /\ told' = [told EXCEPT ![p] = "none"]
    /\ UNCHANGED <<file, creds, server>>

-----------------------------------------------------------------------------
(* Choosing the profile to sign in to.                                      *)

\* hasUsableAuthentication and the question that follows; a command that is turned
\* down goes on without.
Offer(p) ==
    /\ pc[p] = "offer"
    /\ \/ Return(p, "ok")
       \/ /\ Name(p) \in Configured(file)
          /\ Goto(p, "status") /\ UNCHANGED op
       \/ /\ Configured(file) = {}
          /\ Goto(p, "profile") /\ UNCHANGED op
    /\ UNCHANGED <<file, creds, server, mishaps>>

\* loginProfile and chooseSetupProfile look whether the profile exists.
LookUpProfile(p) ==
    /\ pc[p] = "profile"
    /\ Goto(p, IF Name(p) \notin Configured(file) THEN "create"
               ELSE IF op[p].kind = "login" THEN "capture" ELSE "default")
    /\ UNCHANGED <<file, creds, server, op, mishaps>>

Updated(p, kind) ==
    LET u == [NoUpdate EXCEPT !.kind = kind, !.name = Name(p)]
    IN  Applicable(u, file) /\ file' = Effect(u, file)

\* CreateProfile, or SetDefault in a guided setup; both may fail.
PrepareProfile(p) ==
    /\ pc[p] \in {"create", "default"}
    /\ \/ /\ Updated(p, pc[p])
          /\ Goto(p, IF op[p].kind = "login" THEN "capture" ELSE "status")
          /\ UNCHANGED op
       \/ Return(p, "failed") /\ UNCHANGED file
    /\ UNCHANGED <<creds, server, mishaps>>

\* A setup or an offer signs in only if the profile is not, or its token has
\* expired, and the user agrees.
LookUpStatus(p) ==
    /\ pc[p] = "status"
    /\ \/ creds[Name(p)] # Missing /\ Return(p, "ok")
       \/ Return(p, "failed")
       \/ Goto(p, "capture") /\ UNCHANGED op
    /\ UNCHANGED <<file, creds, server, mishaps>>

-----------------------------------------------------------------------------
(* Service.Login.                                                           *)

\* captureLoginState: the credentials, then the profile.
CaptureCredentials(p) ==
    /\ pc[p] = "capture"
    /\ \/ /\ op' = [op EXCEPT ![p].previous = creds[Name(p)]]
          /\ Goto(p, "snapshot")
       \/ Return(p, "failed")
    /\ UNCHANGED <<file, creds, server, mishaps>>

CaptureProfile(p) ==
    /\ pc[p] = "snapshot"
    /\ \/ /\ op' = [op EXCEPT ![p].profile = SnapshotOf(file, Name(p))]
          /\ Goto(p, "authorize")
       \/ Return(p, "failed")
    /\ UNCHANGED <<file, creds, server, mishaps>>

\* The server issues the next grant, with a refresh token or without.
Issued(token) ==
    /\ grants < MaxGrants
    /\ grants' = grants + 1
    /\ live' = live \cup {grants'}
    /\ newest' = [newest EXCEPT ![grants'] = token]

\* Discovery, registration, the browser and the exchange of the code.
Authorize(p) ==
    /\ pc[p] = "authorize"
    /\ \/ Return(p, "failed") /\ UNCHANGED <<server, mishaps>>
       \/ \E token \in {0, 1}, client \in Clients :
             /\ Issued(token)
             /\ \/ Return(p, "failed") /\ Befalls({"lost"})
                \/ /\ op' = [op EXCEPT ![p] =
                        [@ EXCEPT !.issued = [grant |-> grants', token |-> token],
                                  !.client = client]]
                   /\ Goto(p, "save") \/ Goto(p, "discard")
                   /\ UNCHANGED mishaps
    /\ UNCHANGED <<file, creds>>

\* revokeWithCleanupContext and Logout's revoke: a best effort.
Revoke(c) ==
    /\ \/ live' = live \ {c.grant} /\ UNCHANGED mishaps
       \/ UNCHANGED live /\ Befalls({"unrevoked"})
    /\ UNCHANGED <<grants, newest>>

\* Mutant of RevokeUnusable: the token that did not pass is dropped.
RevokeUnusableNot(c) == UNCHANGED <<server, mishaps>>

\* revokeIssuedToken, after validateToken refused what was issued.
RevokeUnusable(c) == Revoke(c)

Discard(p) ==
    /\ pc[p] = "discard"
    /\ RevokeUnusable(op[p].issued)
    /\ Return(p, "failed")
    /\ UNCHANGED <<file, creds>>

SaveLogin(p) ==
    /\ pc[p] = "save"
    /\ \/ /\ creds' = [creds EXCEPT ![Name(p)] = op[p].issued]
          /\ Goto(p, "upsert")
       \/ Goto(p, "undo") /\ UNCHANGED creds
    /\ UNCHANGED <<file, server, op, mishaps>>

\* The profile as it was captured, with the new client, whatever is there by now.
RecordProfile(p) ==
    /\ pc[p] = "upsert"
    /\ \/ /\ file' = UpsertProfile([NoUpdate EXCEPT !.kind = "upsert", !.name = Name(p),
                                                   !.client = op[p].client], file)
          /\ Goto(p, "finish") /\ UNCHANGED op
       \/ /\ op' = [op EXCEPT ![p].recorded = TRUE]
          /\ Goto(p, "undo") /\ UNCHANGED file
    /\ UNCHANGED <<creds, server, mishaps>>

\* The new login is in place; now the previous grant may go.
FinishLogin(p) ==
    /\ pc[p] = "finish"
    /\ IF op[p].previous = Missing THEN UNCHANGED <<server, mishaps>>
                                   ELSE Revoke(op[p].previous)
    /\ IF op[p].kind = "login" THEN Return(p, "ok")
                               ELSE Goto(p, "verify") /\ UNCHANGED op
    /\ UNCHANGED <<file, creds>>

\* A setup or an offer looks again.
VerifyLogin(p) ==
    /\ pc[p] = "verify"
    /\ \/ creds[Name(p)] # Missing /\ Return(p, "ok")
       \/ Return(p, "failed")
    /\ UNCHANGED <<file, creds, server, mishaps>>

-----------------------------------------------------------------------------
(* rollbackLogin.                                                           *)
RevokeIssued(p) ==
    /\ pc[p] = "undo"
    /\ Revoke(op[p].issued)
    /\ Goto(p, "restore")
    /\ UNCHANGED <<file, creds, op>>

\* Mutant of Restored: the credentials that were replaced are not put back.
RestoredNothing(o) == Missing

\* What the store held before: Save, or Delete if that was nothing.
Restored(o) == o.previous

RestoreCredentials(p) ==
    /\ pc[p] = "restore"
    /\ \/ /\ creds' = [creds EXCEPT ![Name(p)] = Restored(op[p])]
          /\ UNCHANGED mishaps
       \/ UNCHANGED creds /\ Befalls({"unrestored"})
    /\ IF op[p].recorded THEN Goto(p, "restoreProfile") /\ UNCHANGED op
                         ELSE Return(p, "failed")
    /\ UNCHANGED <<file, server>>

RestoreMetadata(p) ==
    /\ pc[p] = "restoreProfile"
    /\ LET s == op[p].profile
           u == [NoUpdate EXCEPT !.kind = "restore", !.name = s.name,
                                 !.client = s.client, !.default = s.default]
       IN  \/ file' = RestoreProfile(u, file) /\ UNCHANGED mishaps
           \/ UNCHANGED file /\ Befalls({"unrestored"})
    /\ Return(p, "failed")
    /\ UNCHANGED <<creds, server>>

-----------------------------------------------------------------------------
(* Refresh and Logout.                                                      *)

\* Both load the credentials. There may be none, or none that can be read; an
\* access token that does not expire within a minute is used as it is.
LoadCredentials(p) ==
    /\ pc[p] = "load"
    /\ \/ creds[Name(p)] = Missing /\ op[p].kind = "logout" /\ Return(p, "ok")
       \/ Return(p, "failed")
       \/ creds[Name(p)] # Missing /\ op[p].kind = "refresh" /\ Return(p, "ok")
       \/ /\ creds[Name(p)] # Missing
          /\ op' = [op EXCEPT ![p].previous = creds[Name(p)]]
          /\ Goto(p, IF op[p].kind = "refresh" THEN "rotate" ELSE "revoke")
    /\ UNCHANGED <<file, creds, server, mishaps>>

\* The server accepts the newest refresh token of a live grant. It answers with its
\* successor if the grant is a rotating one, else with the same token or none.
Honoured(c) == c.token # 0 /\ c.grant \in live /\ newest[c.grant] = c.token

Answers(c) == IF c.grant \in Rotating THEN {c.token + 1} ELSE {0, c.token}

\* Mutant of Carried: an answer without a refresh token leaves none.
CarriedNot(c, answered) == answered

\* The stored refresh token is kept if the answer has none.
Carried(c, answered) == IF answered = 0 THEN c.token ELSE answered

Rotate(p) ==
    /\ pc[p] = "rotate"
    /\ \/ Return(p, "failed") /\ UNCHANGED <<newest, mishaps>>
       \/ \E answered \in Answers(op[p].previous) :
             /\ Honoured(op[p].previous) /\ answered <= MaxTokens
             /\ newest' = IF op[p].previous.grant \in Rotating
                          THEN [newest EXCEPT ![op[p].previous.grant] = answered]
                          ELSE newest
             /\ \/ /\ Return(p, "failed")
                   /\ Befalls(IF newest' = newest THEN {} ELSE {"lost"})
                \/ /\ op' = [op EXCEPT ![p].issued =
                          [grant |-> op[p].previous.grant,
                           token |-> Carried(op[p].previous, answered)]]
                   /\ Goto(p, "store") /\ UNCHANGED mishaps
    /\ UNCHANGED <<file, creds, grants, live>>

\* Save replaces whatever is stored by now.
StoreRefreshed(p) ==
    /\ pc[p] = "store"
    /\ \/ /\ creds' = [creds EXCEPT ![Name(p)] = op[p].issued]
          /\ Return(p, "ok") /\ UNCHANGED mishaps
       \/ /\ UNCHANGED creds /\ Return(p, "failed")
          /\ Befalls(IF op[p].issued = op[p].previous THEN {} ELSE {"unstored"})
    /\ UNCHANGED <<file, server>>

RevokeGrant(p) ==
    /\ pc[p] = "revoke"
    /\ Revoke(op[p].previous)
    /\ Goto(p, "forget")
    /\ UNCHANGED <<file, creds, op>>

Forget(p) ==
    /\ pc[p] = "forget"
    /\ \/ /\ creds' = [creds EXCEPT ![Name(p)] = Missing]
          /\ Return(p, "ok") /\ UNCHANGED mishaps
       \/ UNCHANGED creds /\ Return(p, "failed") /\ Befalls({"unstored"})
    /\ UNCHANGED <<file, server>>

-----------------------------------------------------------------------------
(* profile delete.                                                          *)

\* Mutant of SignedOut: the credentials are not looked at.
SignedOutAssumed(n) == TRUE

SignedOut(n) == creds[n] = Missing

CheckSignedOut(p) ==
    /\ pc[p] = "check"
    /\ \/ SignedOut(Name(p)) /\ Goto(p, "remove") /\ UNCHANGED op
       \/ Return(p, "failed")
    /\ UNCHANGED <<file, creds, server, mishaps>>

RemoveProfile(p) ==
    /\ pc[p] = "remove"
    /\ \/ Updated(p, "delete") /\ Return(p, "ok")
       \/ UNCHANGED file /\ Return(p, "failed")
    /\ UNCHANGED <<creds, server, mishaps>>

\* A process dies. What it was about to do decides what is left behind.
Die(p) ==
    /\ Active(p)
    /\ Befalls((IF pc[p] \in {"store", "forget", "restore"} THEN {"halfway"} ELSE {}) \cup
               (IF pc[p] \in {"discard", "save", "upsert", "finish", "undo", "restore"}
                THEN {"abandoned"} ELSE {}))
    /\ pc' = [pc EXCEPT ![p] = "dead"]
    /\ op' = [op EXCEPT ![p] = NoCommand]
    /\ UNCHANGED <<file, creds, server, told>>

-----------------------------------------------------------------------------
\* Nothing is configured yet, or someone has signed in to the first profile.
Init ==
    /\ LET first == CHOOSE n \in Profiles : TRUE
           Set(entry) == SetDefault(SetEntry(EmptyFile, first, entry), first)
       IN  \/ /\ file \in {EmptyFile, Set(NoClient)}
              /\ creds = [n \in Profiles |-> Missing] /\ grants = 0
           \/ /\ \E c \in Clients : file = Set(c)
              /\ creds = [n \in Profiles |-> IF n = first THEN [grant |-> 1, token |-> 1]
                                                          ELSE Missing]
              /\ grants = 1
    /\ live = 1..grants /\ newest = [g \in Grants |-> IF g \in live THEN 1 ELSE 0]
    /\ pc = [p \in Processes |-> "idle"]
    /\ op = [p \in Processes |-> NoCommand]
    /\ told = [p \in Processes |-> "none"]
    /\ mishaps = {}

Login(p) ==
    \/ Offer(p) \/ LookUpProfile(p) \/ PrepareProfile(p) \/ LookUpStatus(p)
    \/ CaptureCredentials(p) \/ CaptureProfile(p) \/ Authorize(p) \/ Discard(p)
    \/ SaveLogin(p) \/ RecordProfile(p) \/ FinishLogin(p) \/ VerifyLogin(p)
    \/ RevokeIssued(p) \/ RestoreCredentials(p) \/ RestoreMetadata(p)

Other(p) ==
    \/ LoadCredentials(p) \/ Rotate(p) \/ StoreRefreshed(p)
    \/ RevokeGrant(p) \/ Forget(p) \/ CheckSignedOut(p) \/ RemoveProfile(p)

Next == \E p \in Processes : Begin(p) \/ Login(p) \/ Other(p) \/ Die(p)

Spec == Init /\ [][Next]_vars
-----------------------------------------------------------------------------
(* Properties.                                                              *)

AtRest == \A p \in Processes : ~Active(p)

Spared(reasons) == mishaps \cap reasons = {}

\* Whatever fails on the way, what is stored when no command runs can be used: its
\* grant is live and its refresh token the newest. A login may die anywhere but in
\* its rollback, refreshes may overlap one another, revocations may fail.
StoredUsable ==
    AtRest /\ Spared({"overlap", "halfway", "lost", "unstored", "unrestored"}) =>
        \A n \in Profiles : creds[n] # Missing =>
            creds[n].grant \in live /\ newest[creds[n].grant] = creds[n].token

\* No grant is left on the server that no profile can use or revoke, unless its
\* revocation was tried and failed or the process that held it died: failed logins,
\* unusable tokens and replaced grants are all cleaned up.
NoOrphanGrant ==
    AtRest /\ Spared({"overlap", "abandoned", "lost", "unrevoked", "unrestored"}) =>
        \A g \in live : \E n \in Profiles : creds[n].grant = g

\* Credentials always belong to a configured profile, at every step and whatever
\* dies or fails: signing in records the profile first, and only a deletion that
\* overlaps a sign-in can part them.
CredentialsHaveProfile ==
    Spared({"deletion"}) =>
        \A n \in Profiles : creds[n] # Missing => n \in Configured(file)

\* A login that fails, at any of its steps, leaves the credentials and the profile
\* as it found them, unless it reports that it could not, and does not leave the
\* profile the default if it was not. (What the default is otherwise is up to the
\* commands of other profiles.)
FailedLoginRestores ==
    [][\A p \in Processes :
         /\ pc[p] \in {"authorize", "discard", "save", "upsert", "undo", "restore",
                       "restoreProfile"}
         /\ pc'[p] = "idle" /\ told'[p] = "failed"
         /\ mishaps' \cap {"overlap", "deletion", "unrestored"} = {}
         => /\ creds'[Name(p)] = op[p].previous
            /\ file'.clients[Name(p)] = op[p].profile.client
            /\ file'.default = Name(p) => op[p].profile.default = Name(p)]_vars
=============================================================================
