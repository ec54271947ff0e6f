---------------------------- MODULE AccountsProofs --------------------------
(***************************************************************************)
(* Accounts for any processes, profiles, grants and mishaps: credentials   *)
(* belong to a configured profile and to one profile only; what is stored  *)
(* at rest can be used; no live grant is forgotten; a login that fails     *)
(* leaves everything as it found it.                                       *)
(***************************************************************************)
EXTENDS Accounts, TLAPS

Step(p) == Begin(p) \/ Login(p) \/ Other(p) \/ Die(p)

-----------------------------------------------------------------------------
(* The configuration.                                                       *)

\* What setting an entry or the default does to what is configured.
LEMMA FileEffects ==
    ASSUME NEW f \in File, NEW n \in Profiles, NEW entry \in Entries,
           NEW d \in Profiles \cup {NoProfile}
    PROVE  /\ SetEntry(f, n, entry) \in File /\ SetDefault(f, d) \in File
           /\ Configured(SetDefault(f, d)) = Configured(f)
           /\ entry # Absent => Configured(SetEntry(f, n, entry)) = Configured(f) \cup {n}
           /\ entry = Absent => Configured(SetEntry(f, n, entry)) = Configured(f) \ {n}
  <1>1. SetEntry(f, n, entry) \in File /\ SetDefault(f, d) \in File
    BY DEF SetEntry, SetDefault, File
  <1>2. Configured(SetDefault(f, d)) = Configured(f)
    BY DEF SetDefault, Configured, File
  <1>3. \A q \in Profiles : SetEntry(f, n, entry).clients[q] = IF q = n THEN entry ELSE f.clients[q]
    BY DEF SetEntry, File
  <1> QED BY <1>1, <1>2, <1>3 DEF Configured

\* What the updates of the commands do to it.
LEMMA UpdateEffects ==
    ASSUME NEW f \in File, NEW n \in Profiles, NEW entry \in Entries,
           NEW d \in Profiles \cup {NoProfile}, NEW u,
           u.name = n, u.client = entry, u.default = d
    PROVE  /\ CreateProfile(u, f) \in File /\ Configured(CreateProfile(u, f)) = Configured(f) \cup {n}
           /\ DeleteProfile(u, f) \in File /\ Configured(DeleteProfile(u, f)) = Configured(f) \ {n}
           /\ UpsertProfile(u, f) \in File /\ RestoreProfile(u, f) \in File
           /\ entry # Absent =>
                  /\ Configured(UpsertProfile(u, f)) = Configured(f) \cup {n}
                  /\ Configured(RestoreProfile(u, f)) = Configured(f) \cup {n}
  <1>1. NoClient \in Entries /\ Absent \in Entries /\ NoClient # Absent
    BY ProfilesAssumption DEF Entries
  <1>2. CreateProfile(u, f) \in File /\ Configured(CreateProfile(u, f)) = Configured(f) \cup {n}
    BY <1>1, FileEffects DEF CreateProfile
  <1>3. DeleteProfile(u, f) \in File /\ Configured(DeleteProfile(u, f)) = Configured(f) \ {n}
    BY <1>1, FileEffects DEF DeleteProfile
  <1>4. UpsertProfile(u, f) \in File
        /\ (entry # Absent => Configured(UpsertProfile(u, f)) = Configured(f) \cup {n})
    BY FileEffects DEF UpsertProfile
  <1>5. RestoreProfile(u, f) \in File
        /\ (entry # Absent => Configured(RestoreProfile(u, f)) = Configured(f) \cup {n})
    BY FileEffects DEF RestoreProfile
  <1> QED BY <1>2, <1>3, <1>4, <1>5

-----------------------------------------------------------------------------
(* Types.                                                                   *)

\* A command that is not running is nobody's.
LEMMA NoCommandTypes == NoCommand \in Command /\ EmptyFile \in File
  <1>1. (CHOOSE n \in Profiles : TRUE) \in Profiles
    BY ProfilesAssumption
  <1>2. EmptyFile \in File
    BY DEF EmptyFile, File, Entries
  <1>3. SnapshotOf(EmptyFile, CHOOSE n \in Profiles : TRUE) \in Snapshot
    BY <1>1, <1>2 DEF SnapshotOf, Snapshot, File
  <1> QED BY <1>1, <1>2, <1>3 DEF NoCommand, Command, Commands, SignIns

\* Only the process that takes a step moves.
LEMMA OthersStay ==
    ASSUME TypeOK, NEW p \in Processes, Step(p)
    PROVE  /\ \A q \in Processes \ {p} : pc'[q] = pc[q] /\ op'[q] = op[q]
           /\ pc' = [pc EXCEPT ![p] = pc'[p]] /\ op' = [op EXCEPT ![p] = op'[p]]
           /\ mishaps \subseteq mishaps'
  <1>1. CASE Begin(p)
    BY <1>1 DEF TypeOK, Begin, Befalls
  <1>2. CASE Offer(p) \/ LookUpProfile(p) \/ PrepareProfile(p) \/ LookUpStatus(p)
             \/ CaptureCredentials(p) \/ CaptureProfile(p)
    BY <1>2 DEF TypeOK, Offer, LookUpProfile, PrepareProfile, LookUpStatus,
                CaptureCredentials, CaptureProfile, Goto, Return
  <1>3. CASE Authorize(p)
    BY <1>3 DEF TypeOK, Authorize, Goto, Return, Befalls
  <1>4. CASE Discard(p) \/ SaveLogin(p) \/ RecordProfile(p) \/ FinishLogin(p) \/ VerifyLogin(p)
    BY <1>4 DEF TypeOK, Discard, SaveLogin, RecordProfile, FinishLogin, VerifyLogin,
                RevokeUnusable, Revoke, Goto, Return, Befalls
  <1>5. CASE RevokeIssued(p) \/ RestoreCredentials(p) \/ RestoreMetadata(p)
    BY <1>5 DEF TypeOK, RevokeIssued, RestoreCredentials, RestoreMetadata, Revoke, Goto,
                Return, Befalls
  <1>6. CASE LoadCredentials(p) \/ Rotate(p) \/ StoreRefreshed(p)
    BY <1>6 DEF TypeOK, LoadCredentials, Rotate, StoreRefreshed, Goto, Return, Befalls
  <1>7. CASE RevokeGrant(p) \/ Forget(p) \/ CheckSignedOut(p) \/ RemoveProfile(p) \/ Die(p)
    BY <1>7 DEF TypeOK, RevokeGrant, Forget, CheckSignedOut, RemoveProfile, Die, Revoke, Goto,
                Return, Befalls
  <1> QED BY <1>1, <1>2, <1>3, <1>4, <1>5, <1>6, <1>7 DEF Step, Login, Other
\* The steps of a command keep its locals of their types.
LEMMA CommandTypes ==
    ASSUME TypeOK, NEW p \in Processes, Step(p)
    PROVE  op'[p] \in Command /\ pc'[p] \in Places /\ told' \in [Processes -> {"none", "ok", "failed"}]
  <1>0. op[p] \in Command /\ NoCommand \in Command /\ pc[p] \in Places
    BY NoCommandTypes DEF TypeOK
  <1>1. CASE Begin(p)
    <2>1. PICK kind \in Commands, name \in Profiles :
             /\ op' = [op EXCEPT ![p] = [NoCommand EXCEPT !.kind = kind, !.name = name]]
             /\ pc' = [pc EXCEPT ![p] = First(kind)]
      BY <1>1 DEF Begin
    <2>2. op'[p] \in Command
      BY <2>1, <1>0 DEF TypeOK, Command
    <2>3. First(kind) \in Places
      BY DEF First, Places, Commands, SignIns
    <2> QED BY <1>1, <2>1, <2>2, <2>3 DEF TypeOK, Begin
  <1>2. CASE Offer(p) \/ LookUpProfile(p) \/ PrepareProfile(p) \/ LookUpStatus(p)
    BY <1>0, <1>2 DEF TypeOK, Offer, LookUpProfile, PrepareProfile, LookUpStatus, Goto, Return, Places
  <1>3. CASE CaptureCredentials(p)
    <2>1. creds[Name(p)] \in Credentials \cup {Missing}
      BY <1>0 DEF TypeOK, Name, Command
    <2>2. [op[p] EXCEPT !.previous = creds[Name(p)]] \in Command
      BY <1>0, <2>1 DEF Command
    <2> QED BY <1>0, <1>3, <2>2 DEF TypeOK, CaptureCredentials, Goto, Return, Places
  <1>4. CASE CaptureProfile(p)
    <2>1. SnapshotOf(file, Name(p)) \in Snapshot
      BY <1>0 DEF TypeOK, Name, Command, SnapshotOf, Snapshot, File
    <2> QED BY <1>0, <1>4, <2>1 DEF TypeOK, CaptureProfile, Goto, Return, Places, Command
  <1>5. CASE Authorize(p)
    <2>1. CASE Return(p, "failed")
      BY <1>0, <2>1 DEF TypeOK, Return, Places
    <2>2. CASE ~Return(p, "failed")
      <3>1. PICK token \in {0, 1}, client \in Clients :
               /\ Issued(token)
               /\ op' = [op EXCEPT ![p] =
                      [@ EXCEPT !.issued = [grant |-> grants', token |-> token],
                                !.client = client]]
               /\ Goto(p, "save") \/ Goto(p, "discard")
        BY <1>5, <2>2 DEF Authorize
      <3>2. [grant |-> grants', token |-> token] \in Credentials
        BY <3>1, AccountBounds DEF Issued, TypeOK, Credentials, Grants
      <3>3. op'[p] \in Command
        BY <1>0, <3>1, <3>2 DEF TypeOK, Command
      <3> QED BY <3>1, <3>3, <1>0 DEF Goto, TypeOK, Places
    <2> QED BY <2>1, <2>2
  <1>6. CASE Discard(p) \/ SaveLogin(p) \/ FinishLogin(p) \/ VerifyLogin(p)
    BY <1>0, <1>6 DEF TypeOK, Discard, SaveLogin, FinishLogin, VerifyLogin, Goto, Return, Places
  <1>7. CASE RecordProfile(p)
    <2>1. [op[p] EXCEPT !.recorded = TRUE] \in Command
      BY <1>0 DEF Command
    <2> QED BY <1>0, <1>7, <2>1 DEF TypeOK, RecordProfile, Goto, Return, Places
  <1>8. CASE RevokeIssued(p) \/ RestoreCredentials(p) \/ RestoreMetadata(p)
    BY <1>0, <1>8 DEF TypeOK, RevokeIssued, RestoreCredentials, RestoreMetadata, Goto, Return, Places
  <1>9. CASE LoadCredentials(p)
    <2>1. creds[Name(p)] \in Credentials \cup {Missing}
      BY <1>0 DEF TypeOK, Name, Command
    <2>2. [op[p] EXCEPT !.previous = creds[Name(p)]] \in Command
      BY <1>0, <2>1 DEF Command
    <2> QED BY <1>0, <1>9, <2>2 DEF TypeOK, LoadCredentials, Goto, Return, Places
  <1>10. CASE Rotate(p)
    <2>1. CASE Return(p, "failed")
      BY <1>0, <2>1 DEF TypeOK, Return, Places
    <2>2. CASE ~Return(p, "failed")
      <3>1. PICK answered \in Answers(op[p].previous) :
               /\ Honoured(op[p].previous) /\ answered <= MaxTokens
               /\ op' = [op EXCEPT ![p].issued =
                      [grant |-> op[p].previous.grant,
                       token |-> Carried(op[p].previous, answered)]]
               /\ Goto(p, "store")
        BY <1>10, <2>2 DEF Rotate
      <3>2. op[p].previous \in Credentials
        BY <1>0, <3>1 DEF Honoured, Command, Missing
      <3>3. answered \in 0..MaxTokens
        BY <3>1, <3>2, AccountBounds DEF Answers, Credentials
      <3>4. [grant |-> op[p].previous.grant, token |-> Carried(op[p].previous, answered)] \in Credentials
        BY <3>2, <3>3 DEF Carried, Credentials
      <3>5. op'[p] \in Command
        BY <1>0, <3>1, <3>4 DEF TypeOK, Command
      <3> QED BY <3>1, <3>5, <1>0 DEF Goto, TypeOK, Places
    <2> QED BY <2>1, <2>2
  <1>11. CASE StoreRefreshed(p) \/ RevokeGrant(p) \/ Forget(p)
    BY <1>0, <1>11 DEF TypeOK, StoreRefreshed, RevokeGrant, Forget, Goto, Return, Places
  <1>12. CASE CheckSignedOut(p) \/ RemoveProfile(p) \/ Die(p)
    BY <1>0, <1>12 DEF TypeOK, CheckSignedOut, RemoveProfile, Die, Goto, Return, Places
  <1> QED BY <1>1, <1>2, <1>3, <1>4, <1>5, <1>6, <1>7, <1>8, <1>9, <1>10, <1>11, <1>12
          DEF Step, Login, Other

\* The server never issues more than it may.
LEMMA ServerTypes ==
    ASSUME TypeOK, NEW p \in Processes, Step(p)
    PROVE  /\ grants' \in 0..MaxGrants /\ live' \subseteq 1..grants'
           /\ newest' \in [Grants -> 0..MaxTokens]
  <1>1. CASE Begin(p) \/ Offer(p) \/ LookUpProfile(p) \/ PrepareProfile(p) \/ LookUpStatus(p)
             \/ CaptureCredentials(p) \/ CaptureProfile(p) \/ SaveLogin(p) \/ RecordProfile(p)
             \/ VerifyLogin(p) \/ RestoreCredentials(p) \/ RestoreMetadata(p)
    BY <1>1 DEF TypeOK, server, Begin, Offer, LookUpProfile, PrepareProfile, LookUpStatus,
                CaptureCredentials, CaptureProfile, SaveLogin, RecordProfile, VerifyLogin,
                RestoreCredentials, RestoreMetadata
  <1>2. CASE Authorize(p)
    <2>1. CASE UNCHANGED server
      BY <2>1 DEF TypeOK, server
    <2>2. CASE ~UNCHANGED server
      <3>1. PICK token \in {0, 1} : Issued(token)
        BY <1>2, <2>2 DEF Authorize
      <3>2. token \in 0..MaxTokens
        BY <3>1, AccountBounds
      <3> QED BY <3>1, <3>2, AccountBounds DEF Issued, TypeOK, Grants
    <2> QED BY <2>1, <2>2
  <1>3. CASE Discard(p) \/ FinishLogin(p) \/ RevokeIssued(p) \/ RevokeGrant(p)
    BY <1>3 DEF TypeOK, server, Discard, FinishLogin, RevokeIssued, RevokeGrant, RevokeUnusable, Revoke
  <1>4. CASE Rotate(p)
    <2>1. CASE UNCHANGED newest
      BY <1>4, <2>1 DEF TypeOK, Rotate
    <2>2. CASE ~UNCHANGED newest
      <3>1. PICK answered \in Answers(op[p].previous) :
               /\ Honoured(op[p].previous) /\ answered <= MaxTokens
               /\ op[p].previous.grant \in Rotating
               /\ newest' = [newest EXCEPT ![op[p].previous.grant] = answered]
        BY <1>4, <2>2 DEF Rotate
      <3>2. op[p].previous \in Credentials
        BY <3>1 DEF Honoured, TypeOK, Command, Missing
      <3>3. answered \in 0..MaxTokens
        BY <3>1, <3>2, AccountBounds DEF Answers, Credentials
      <3> QED BY <1>4, <3>1, <3>3 DEF Rotate, TypeOK
    <2> QED BY <2>1, <2>2
  <1>5. CASE LoadCredentials(p) \/ StoreRefreshed(p) \/ Forget(p) \/ CheckSignedOut(p)
             \/ RemoveProfile(p) \/ Die(p)
    BY <1>5 DEF TypeOK, server, LoadCredentials, StoreRefreshed, Forget, CheckSignedOut,
                RemoveProfile, Die
  <1> QED BY <1>1, <1>2, <1>3, <1>4, <1>5 DEF Step, Login, Other

\* Only a login, its rollback, a refresh and a logout write the credential store, and
\* only their profile's credentials.
LEMMA StoreEffects ==
    ASSUME TypeOK, NEW p \in Processes, Step(p)
    PROVE  \/ creds' = creds
           \/ /\ pc[p] \in {"save", "restore", "store", "forget"}
              /\ \E c \in Credentials \cup {Missing} :
                    /\ creds' = [creds EXCEPT ![Name(p)] = c]
                    /\ pc[p] = "forget" => c = Missing
  <1>1. CASE Begin(p) \/ Offer(p) \/ LookUpProfile(p) \/ PrepareProfile(p) \/ LookUpStatus(p)
             \/ CaptureCredentials(p) \/ CaptureProfile(p) \/ Authorize(p) \/ Discard(p)
             \/ RecordProfile(p) \/ FinishLogin(p) \/ VerifyLogin(p) \/ RevokeIssued(p)
             \/ RestoreMetadata(p)
    BY <1>1 DEF Begin, Offer, LookUpProfile, PrepareProfile, LookUpStatus, Authorize, Discard,
                CaptureCredentials, CaptureProfile, RecordProfile, FinishLogin, VerifyLogin,
                RevokeIssued, RestoreMetadata
  <1>2. CASE LoadCredentials(p) \/ Rotate(p) \/ RevokeGrant(p) \/ CheckSignedOut(p)
             \/ RemoveProfile(p) \/ Die(p)
    BY <1>2 DEF LoadCredentials, Rotate, RevokeGrant, CheckSignedOut, RemoveProfile, Die
  <1>3. op[p].issued \in Credentials \cup {Missing} /\ op[p].previous \in Credentials \cup {Missing}
    BY DEF TypeOK, Command
  <1>4. CASE SaveLogin(p)
    BY <1>3, <1>4 DEF SaveLogin
  <1>5. CASE RestoreCredentials(p)
    BY <1>3, <1>5 DEF RestoreCredentials, Restored
  <1>6. CASE StoreRefreshed(p)
    BY <1>3, <1>6 DEF StoreRefreshed
  <1>7. CASE Forget(p)
    BY <1>7 DEF Forget
  <1> QED BY <1>1, <1>2, <1>4, <1>5, <1>6, <1>7 DEF Step, Login, Other
-----------------------------------------------------------------------------
(* Which command is where.                                                  *)

\* Where a sign-in, or a refresh, counts on its profile.
WithProfile == {"default", "status", "capture", "snapshot", "authorize", "discard", "save",
                "upsert", "finish", "verify", "undo", "restore", "restoreProfile",
                "rotate", "store"}

\* Where a login knows what it may have to put back.
Captured == {"authorize", "save", "upsert", "undo", "restore", "restoreProfile"}

KindAt(kind, place) ==
    /\ place \in {"offer", "profile", "create"} \cup (WithProfile \ {"rotate", "store"})
          => kind \in SignIns
    /\ place \in {"rotate", "store"} => kind = "refresh"
    /\ place = "load" => kind \in {"refresh", "logout"}
    /\ place \in {"revoke", "forget"} => kind = "logout"
    /\ place \in {"check", "remove"} => kind = "delete"

KindsOK == \A p \in Processes : KindAt(op[p].kind, pc[p])

\* How a step changes what its process is doing.
Moved(p) ==
    /\ KindAt(op'[p].kind, pc'[p])
    /\ pc'[p] \notin {"idle", "dead"} /\ pc[p] # "idle" =>
          op'[p].kind = op[p].kind /\ op'[p].name = op[p].name
    /\ pc'[p] \in Captured => /\ pc[p] \in Captured \cup {"snapshot"}
                              /\ pc[p] \in Captured => op'[p].profile = op[p].profile
                              /\ pc[p] = "snapshot" => op'[p].profile = SnapshotOf(file, Name(p))
    /\ pc'[p] = "remove" => pc[p] = "check" /\ creds[Name(p)] = Missing
    /\ pc'[p] = "rotate" => pc[p] = "load" /\ creds[Name(p)] # Missing
    /\ pc'[p] \in WithProfile \ {"rotate"} =>
          \/ pc[p] \in WithProfile \cup {"create"}
          \/ Name(p) \in Configured(file)
    /\ pc[p] = "idle" => pc'[p] \notin WithProfile

\* Every step moves its process the way Moved says.
LEMMA Moves ==
    ASSUME TypeOK, KindsOK, NEW p \in Processes, Step(p)
    PROVE  Moved(p)
  <1> USE DEF Moved, KindAt, WithProfile, Captured, Goto, Return
  <1>0. /\ pc[p] \in Places /\ pc \in [Processes -> Places]
        /\ op[p] \in Command /\ op \in [Processes -> Command]
        /\ KindAt(op[p].kind, pc[p])
    BY DEF TypeOK, KindsOK
  <1>a. NoCommand.kind = "logout"
    BY DEF NoCommand
  <1>1. CASE Begin(p)
    BY <1>0, <1>a, <1>1 DEF Begin, First, Commands, SignIns, Command, Places, Name
  <1>2. CASE Offer(p)
    BY <1>0, <1>a, <1>2 DEF Offer, Command, Places, SignIns, Name
  <1>3. CASE LookUpProfile(p)
    BY <1>0, <1>a, <1>3 DEF LookUpProfile, Command, Places, SignIns, Name
  <1>4. CASE PrepareProfile(p)
    BY <1>0, <1>a, <1>4 DEF PrepareProfile, Command, Places, SignIns, Name
  <1>5. CASE LookUpStatus(p)
    BY <1>0, <1>a, <1>5 DEF LookUpStatus, Command, Places, SignIns, Name
  <1>6. CASE CaptureCredentials(p)
    BY <1>0, <1>a, <1>6 DEF CaptureCredentials, Command, Places, SignIns, Name
  <1>7. CASE CaptureProfile(p)
    BY <1>0, <1>a, <1>7 DEF CaptureProfile, Command, Places, SignIns, Name
  <1>8. CASE Authorize(p)
    <2>1. CASE Return(p, "failed")
      BY <1>0, <1>a, <2>1
    <2>2. CASE ~Return(p, "failed")
      <3>1. PICK issued, client :
               /\ op' = [op EXCEPT ![p] = [@ EXCEPT !.issued = issued, !.client = client]]
               /\ Goto(p, "save") \/ Goto(p, "discard")
        BY <1>8, <2>2 DEF Authorize
      <3>2. /\ pc[p] = "authorize" /\ pc'[p] \in {"save", "discard"}
            /\ op'[p].kind = op[p].kind /\ op'[p].name = op[p].name
            /\ op'[p].profile = op[p].profile
        BY <1>0, <1>8, <3>1 DEF Authorize, Command
      <3> QED BY <1>0, <3>2 DEF SignIns
    <2> QED BY <2>1, <2>2
  <1>9. CASE Discard(p)
    BY <1>0, <1>a, <1>9 DEF Discard, Command, Places, SignIns, Name
  <1>10. CASE SaveLogin(p)
    BY <1>0, <1>a, <1>10 DEF SaveLogin, Command, Places, SignIns, Name
  <1>11. CASE RecordProfile(p)
    BY <1>0, <1>a, <1>11 DEF RecordProfile, Command, Places, SignIns, Name
  <1>12. CASE FinishLogin(p)
    BY <1>0, <1>a, <1>12 DEF FinishLogin, Command, Places, SignIns, Name
  <1>13. CASE VerifyLogin(p)
    BY <1>0, <1>a, <1>13 DEF VerifyLogin, Command, Places, SignIns, Name
  <1>14. CASE RevokeIssued(p)
    BY <1>0, <1>a, <1>14 DEF RevokeIssued, Command, Places, SignIns, Name
  <1>15. CASE RestoreCredentials(p)
    BY <1>0, <1>a, <1>15 DEF RestoreCredentials, Command, Places, SignIns, Name
  <1>16. CASE RestoreMetadata(p)
    BY <1>0, <1>a, <1>16 DEF RestoreMetadata, Command, Places, SignIns, Name
  <1>17. CASE LoadCredentials(p)
    BY <1>0, <1>a, <1>17 DEF LoadCredentials, Command, Places, SignIns, Name
  <1>18. CASE Rotate(p)
    BY <1>0, <1>a, <1>18 DEF Rotate, Command, Places, SignIns, Name
  <1>19. CASE StoreRefreshed(p)
    BY <1>0, <1>a, <1>19 DEF StoreRefreshed, Command, Places, SignIns, Name
  <1>20. CASE RevokeGrant(p)
    BY <1>0, <1>a, <1>20 DEF RevokeGrant, Command, Places, SignIns, Name
  <1>21. CASE Forget(p)
    BY <1>0, <1>a, <1>21 DEF Forget, Command, Places, SignIns, Name
  <1>22. CASE CheckSignedOut(p)
    BY <1>0, <1>a, <1>22 DEF CheckSignedOut, SignedOut, Command, Places, SignIns, Name
  <1>23. CASE RemoveProfile(p)
    BY <1>0, <1>a, <1>23 DEF RemoveProfile, Command, Places, SignIns, Name
  <1>24. CASE Die(p)
    BY <1>0, <1>a, <1>24 DEF Die, Command, Places, SignIns, Name
  <1> QED BY <1>1, <1>2, <1>3, <1>4, <1>5, <1>6, <1>7, <1>8, <1>9, <1>10, <1>11, <1>12, <1>13, <1>14, <1>15, <1>16, <1>17, <1>18, <1>19, <1>20, <1>21, <1>22, <1>23, <1>24 DEF Step, Login, Other
-----------------------------------------------------------------------------
(* Credentials belong to a profile.                                         *)

\* Unless a deletion ran beside them, no sign-in and no refresh of a profile is under
\* way while it is deleted.
Apart ==
    Spared({"deletion"}) =>
        \A p, q \in Processes :
            Active(p) /\ Active(q) /\ Name(p) = Name(q) /\ op[p].kind \in SignIns \cup {"refresh"}
            => op[q].kind # "delete"

\* What the commands under way count on.
CountedOn ==
    Spared({"deletion"}) =>
        \A p \in Processes :
            /\ pc[p] \in WithProfile => Name(p) \in Configured(file)
            /\ pc[p] \in Captured =>
                  op[p].profile.name = Name(p) /\ op[p].profile.client # Absent
            /\ pc[p] = "remove" => creds[Name(p)] = Missing

AInv == TypeOK /\ KindsOK /\ Apart /\ CredentialsHaveProfile /\ CountedOn

\* What a step does to the configuration.
LEMMA FileSteps ==
    ASSUME TypeOK, NEW p \in Processes, Step(p)
    PROVE  /\ file' \in File
           /\ \/ Configured(file') = Configured(file)
              \/ Configured(file') = Configured(file) \cup {Name(p)}
              \/ pc[p] = "remove" /\ Configured(file') = Configured(file) \ {Name(p)}
              \/ pc[p] = "restoreProfile"
                    /\ ~(op[p].profile.name = Name(p) /\ op[p].profile.client # Absent)
           /\ pc[p] = "create" /\ pc'[p] # "idle" /\ pc'[p] # "dead" => Name(p) \in Configured(file')
  <1>0. /\ pc[p] \in Places /\ pc \in [Processes -> Places] /\ file \in File
        /\ op[p] \in Command /\ Name(p) \in Profiles /\ NoClient \in Entries
        /\ op[p].client \in Entries \ {Absent} /\ op[p].profile \in Snapshot
    BY ProfilesAssumption DEF TypeOK, Command, Name, Entries
  <1>1. CASE PrepareProfile(p)
    <2>1. CASE Return(p, "failed") /\ UNCHANGED file
      BY <1>0, <2>1 DEF Return
    <2>2. CASE Updated(p, pc[p])
      <3> DEFINE u == [NoUpdate EXCEPT !.kind = pc[p], !.name = Name(p)]
      <3>1. u.kind = pc[p] /\ u.name = Name(p) /\ u.client = NoClient /\ u.default = NoProfile
        BY DEF NoUpdate
      <3>2. Applicable(u, file) /\ file' = Effect(u, file)
        BY <2>2 DEF Updated
      <3> HIDE DEF u
      <3>3. CASE pc[p] = "create"
        <4>1. file' = CreateProfile(u, file)
          BY <3>1, <3>2, <3>3 DEF Effect
        <4> QED BY <4>1, <3>1, <3>3, <1>0, UpdateEffects
      <3>4. CASE pc[p] = "default"
        <4>1. file' = SetDefault(file, Name(p))
          BY <3>1, <3>2, <3>4 DEF Effect
        <4> QED BY <4>1, <3>4, <1>0, FileEffects
      <3> QED BY <1>1, <3>3, <3>4 DEF PrepareProfile
    <2> QED BY <1>1, <2>1, <2>2 DEF PrepareProfile
  <1>2. CASE RecordProfile(p)
    <2> DEFINE u == [NoUpdate EXCEPT !.kind = "upsert", !.name = Name(p), !.client = op[p].client]
    <2>1. u.name = Name(p) /\ u.client = op[p].client /\ u.default = NoProfile
      BY DEF NoUpdate
    <2>2. pc[p] = "upsert" /\ (file' = UpsertProfile(u, file) \/ file' = file)
      BY <1>2 DEF RecordProfile
    <2> HIDE DEF u
    <2> QED BY <2>1, <2>2, <1>0, UpdateEffects
  <1>3. CASE RestoreMetadata(p)
    <2> DEFINE s == op[p].profile
               u == [NoUpdate EXCEPT !.kind = "restore", !.name = s.name,
                                     !.client = s.client, !.default = s.default]
    <2>1. u.name = s.name /\ u.client = s.client /\ u.default = s.default
      BY DEF NoUpdate
    <2>2. pc[p] = "restoreProfile" /\ (file' = RestoreProfile(u, file) \/ file' = file)
      BY <1>3 DEF RestoreMetadata
    <2>3. s.name \in Profiles /\ s.client \in Entries /\ s.default \in Profiles \cup {NoProfile}
      BY <1>0 DEF Snapshot
    <2> HIDE DEF u, s
    <2>4. RestoreProfile(u, file) \in File
          /\ (s.client # Absent => Configured(RestoreProfile(u, file)) = Configured(file) \cup {s.name})
      <3>1. \A n \in Profiles, entry \in Entries, d \in Profiles \cup {NoProfile} :
               u.name = n /\ u.client = entry /\ u.default = d =>
                  /\ RestoreProfile(u, file) \in File
                  /\ entry # Absent =>
                        Configured(RestoreProfile(u, file)) = Configured(file) \cup {n}
        BY <1>0, UpdateEffects
      <3> QED BY <2>1, <2>3, <3>1
    <2> QED BY <2>2, <2>4, <1>0 DEF s
  <1>4. CASE RemoveProfile(p)
    <2> DEFINE u == [NoUpdate EXCEPT !.kind = "delete", !.name = Name(p)]
    <2>1. u.kind = "delete" /\ u.name = Name(p) /\ u.client = NoClient /\ u.default = NoProfile
      BY DEF NoUpdate
    <2>2. pc[p] = "remove" /\ (file' = Effect(u, file) \/ file' = file)
      BY <1>4 DEF RemoveProfile, Updated
    <2> HIDE DEF u
    <2>3. Effect(u, file) = DeleteProfile(u, file)
      BY <2>1 DEF Effect
    <2> QED BY <2>1, <2>2, <2>3, <1>0, UpdateEffects
  <1>5. CASE Begin(p) \/ Offer(p) \/ LookUpProfile(p) \/ LookUpStatus(p) \/ CaptureCredentials(p)
             \/ CaptureProfile(p) \/ Authorize(p) \/ Discard(p) \/ SaveLogin(p) \/ FinishLogin(p)
             \/ VerifyLogin(p) \/ RevokeIssued(p) \/ RestoreCredentials(p)
    BY <1>0, <1>5 DEF Begin, Offer, LookUpProfile, LookUpStatus, CaptureCredentials,
                CaptureProfile, Authorize, Discard, SaveLogin, FinishLogin, VerifyLogin,
                RevokeIssued, RestoreCredentials
  <1>6. CASE LoadCredentials(p) \/ Rotate(p) \/ StoreRefreshed(p) \/ RevokeGrant(p) \/ Forget(p)
             \/ CheckSignedOut(p) \/ Die(p)
    BY <1>0, <1>6 DEF LoadCredentials, Rotate, StoreRefreshed, RevokeGrant, Forget, CheckSignedOut, Die
  <1> QED BY <1>1, <1>2, <1>3, <1>4, <1>5, <1>6 DEF Step, Login, Other
-----------------------------------------------------------------------------
\* Nobody runs at first, and who is signed in has a profile.
LEMMA AccountsInit == Init => AInv
  <1> SUFFICES ASSUME Init PROVE AInv
    OBVIOUS
  <1> DEFINE first == CHOOSE n \in Profiles : TRUE
             Set(entry) == SetDefault(SetEntry(EmptyFile, first, entry), first)
  <1>1. first \in Profiles /\ EmptyFile \in File /\ NoCommand \in Command
        /\ NoClient \in Entries /\ NoClient # Absent
    BY NoCommandTypes, ProfilesAssumption DEF Entries
  <1>2. /\ \/ /\ file \in {EmptyFile, Set(NoClient)}
           /\ creds = [n \in Profiles |-> Missing] /\ grants = 0
        \/ /\ \E c \in Clients : file = Set(c)
           /\ creds = [n \in Profiles |-> IF n = first THEN [grant |-> 1, token |-> 1]
                                                       ELSE Missing]
           /\ grants = 1
    BY DEF Init
  <1> HIDE DEF first
  <1>3. \A entry \in Entries : /\ Set(entry) \in File
                               /\ entry # Absent => Configured(Set(entry)) = Configured(EmptyFile) \cup {first}
    BY <1>1, FileEffects
  <1>4. file \in File /\ grants \in 0..MaxGrants /\ creds \in [Profiles -> Credentials \cup {Missing}]
        /\ \A n \in Profiles : creds[n] # Missing => n \in Configured(file)
    <2> HIDE DEF Set
    <2>1. CASE file \in {EmptyFile, Set(NoClient)} /\ creds = [n \in Profiles |-> Missing] /\ grants = 0
      BY <2>1, <1>1, <1>3, AccountBounds
    <2>2. CASE /\ \E c \in Clients : file = Set(c)
               /\ creds = [n \in Profiles |-> IF n = first THEN [grant |-> 1, token |-> 1]
                                                           ELSE Missing]
               /\ grants = 1
      <3>1. PICK c \in Clients : file = Set(c)
        BY <2>2
      <3>2. c \in Entries /\ c # Absent
        BY ProfilesAssumption DEF Entries
      <3>3. file \in File /\ first \in Configured(file)
        BY <3>1, <3>2, <1>3
      <3>4. [grant |-> 1, token |-> 1] \in Credentials
        BY AccountBounds DEF Credentials, Grants
      <3> QED BY <2>2, <3>3, <3>4, AccountBounds
    <2> QED BY <1>2, <2>1, <2>2
  <1>5. TypeOK
    <2>1. newest \in [Grants -> 0..MaxTokens]
      <3>1. newest = [g \in Grants |-> IF g \in live THEN 1 ELSE 0]
        BY Zenon DEF Init
      <3> QED BY <3>1, AccountBounds
    <2>2. pc \in [Processes -> Places] /\ op \in [Processes -> Command]
          /\ told \in [Processes -> {"none", "ok", "failed"}]
      BY <1>1 DEF Init, Places
    <2> QED BY <1>4, <2>1, <2>2 DEF Init, TypeOK
  <1>6. \A p \in Processes : pc[p] = "idle"
    BY DEF Init
  <1>7. KindsOK /\ Apart /\ CountedOn
    BY <1>6 DEF KindsOK, KindAt, Apart, CountedOn, WithProfile, Captured, Active
  <1> QED BY <1>4, <1>5, <1>7 DEF AInv, CredentialsHaveProfile

\* Types: the parts put together.
LEMMA TypeStep ==
    ASSUME TypeOK, NEW p \in Processes, Step(p)
    PROVE  TypeOK'
  <1>1. creds' \in [Profiles -> Credentials \cup {Missing}]
    <2>1. Name(p) \in Profiles
      BY DEF TypeOK, Name, Command
    <2> QED BY <2>1, StoreEffects DEF TypeOK
  <1>2. pc' \in [Processes -> Places] /\ op' \in [Processes -> Command]
    BY CommandTypes, OthersStay DEF TypeOK
  <1>3. mishaps' \subseteq Mishaps
    <2> USE DEF TypeOK, Befalls, Mishaps
    <2>1. CASE Begin(p)
      BY <2>1 DEF Begin, Beside
    <2>2. CASE Offer(p) \/ LookUpProfile(p) \/ PrepareProfile(p) \/ LookUpStatus(p)
               \/ CaptureCredentials(p) \/ CaptureProfile(p) \/ SaveLogin(p)
               \/ RecordProfile(p) \/ VerifyLogin(p)
      BY <2>2 DEF Offer, LookUpProfile, PrepareProfile, LookUpStatus, CaptureCredentials,
                  CaptureProfile, SaveLogin, RecordProfile, VerifyLogin
    <2>3. CASE Authorize(p)
      BY <2>3 DEF Authorize
    <2>4. CASE Discard(p) \/ FinishLogin(p) \/ RevokeIssued(p) \/ RevokeGrant(p)
      BY <2>4 DEF Discard, FinishLogin, RevokeIssued, RevokeGrant, RevokeUnusable, Revoke
    <2>5. CASE RestoreCredentials(p) \/ RestoreMetadata(p) \/ Forget(p)
      BY <2>5 DEF RestoreCredentials, RestoreMetadata, Forget
    <2>6. CASE Rotate(p)
      BY <2>6 DEF Rotate
    <2>7. CASE LoadCredentials(p) \/ StoreRefreshed(p) \/ CheckSignedOut(p) \/ RemoveProfile(p)
      BY <2>7 DEF LoadCredentials, StoreRefreshed, CheckSignedOut, RemoveProfile
    <2>8. CASE Die(p)
      BY <2>8 DEF Die
    <2> QED BY <2>1, <2>2, <2>3, <2>4, <2>5, <2>6, <2>7, <2>8 DEF Step, Login, Other
  <1> QED BY <1>1, <1>2, <1>3, FileSteps, CommandTypes, ServerTypes DEF TypeOK

\* A command that starts notes whom it finds beside it.
LEMMA BeginApart ==
    ASSUME TypeOK, Apart, NEW p \in Processes, Begin(p)
    PROVE  Apart'
  <1> SUFFICES ASSUME "deletion" \notin mishaps', NEW q \in Processes, NEW r \in Processes,
                      Active(q)', Active(r)', Name(q)' = Name(r)',
                      (op[q].kind \in SignIns \cup {"refresh"})'
               PROVE  op'[r].kind # "delete"
    BY DEF Apart, Spared
  <1>1. PICK kind \in Commands, name \in Profiles :
           /\ op' = [op EXCEPT ![p] = [NoCommand EXCEPT !.kind = kind, !.name = name]]
           /\ pc' = [pc EXCEPT ![p] = First(kind)]
           /\ Befalls(Beside(kind, name))
    BY DEF Begin
  <1>2. op'[p].kind = kind /\ Name(p)' = name /\ pc[p] = "idle"
        /\ \A s \in Processes \ {p} : op'[s] = op[s] /\ pc'[s] = pc[s]
    BY <1>1, NoCommandTypes DEF TypeOK, Name, Command, Begin
  <1>3. "deletion" \notin Beside(kind, name) /\ "deletion" \notin mishaps
    BY <1>1 DEF Befalls
  <1>4. \A s \in Processes \ {p} : Active(s) /\ Name(s) = name =>
           /\ kind \in SignIns \cup {"refresh"} => op[s].kind # "delete"
           /\ op[s].kind \in SignIns \cup {"refresh"} => kind # "delete"
    BY <1>3 DEF Beside
  <1>5. CASE q = p /\ r = p
    BY <1>5 DEF SignIns
  <1>6. CASE q = p /\ r # p
    BY <1>2, <1>4, <1>6 DEF Active, Name
  <1>7. CASE q # p /\ r = p
    BY <1>2, <1>4, <1>7 DEF Active, Name
  <1>8. CASE q # p /\ r # p
    BY <1>2, <1>3, <1>8 DEF Apart, Spared, Active, Name
  <1> QED BY <1>5, <1>6, <1>7, <1>8
\* A command keeps its kind and its profile while it runs.
LEMMA ApartStep ==
    ASSUME TypeOK, KindsOK, Apart, NEW p \in Processes, Step(p)
    PROVE  Apart'
  <1>1. CASE Begin(p)
    BY <1>1, BeginApart
  <1>2. CASE ~Begin(p)
    <2>1. pc[p] # "idle"
      BY <1>2 DEF Step, Login, Other, Die, Active, Offer, LookUpProfile, PrepareProfile,
                  LookUpStatus, CaptureCredentials, CaptureProfile, Authorize, Discard,
                  SaveLogin, RecordProfile, FinishLogin, VerifyLogin, RevokeIssued,
                  RestoreCredentials, RestoreMetadata, LoadCredentials, Rotate,
                  StoreRefreshed, RevokeGrant, Forget, CheckSignedOut, RemoveProfile
    <2>2. pc[p] # "dead"
      BY <1>2 DEF Step, Login, Other, Die, Active, Offer, LookUpProfile, PrepareProfile,
                  LookUpStatus, CaptureCredentials, CaptureProfile, Authorize, Discard,
                  SaveLogin, RecordProfile, FinishLogin, VerifyLogin, RevokeIssued,
                  RestoreCredentials, RestoreMetadata, LoadCredentials, Rotate,
                  StoreRefreshed, RevokeGrant, Forget, CheckSignedOut, RemoveProfile
    <2>3. \A q \in Processes : Active(q)' => /\ Active(q) /\ Name(q)' = Name(q)
                                            /\ op'[q].kind = op[q].kind
      BY <2>1, <2>2, Moves, OthersStay DEF Moved, Active, Name
    <2>4. mishaps \subseteq mishaps'
      BY OthersStay
    <2> QED BY <2>3, <2>4 DEF Apart, Spared
  <1> QED BY <1>1, <1>2

\* The heart of it: what a command counts on no other command takes away.
LEMMA AccountsStep ==
    ASSUME AInv, NEW p \in Processes, Step(p)
    PROVE  AInv'
  <1> USE DEF AInv
  <1>1. TypeOK'
    BY TypeStep
  <1>2. Apart'
    BY ApartStep
  <1>3. Moved(p)
    BY Moves
  <1>4. /\ \A q \in Processes \ {p} : pc'[q] = pc[q] /\ op'[q] = op[q]
        /\ mishaps \subseteq mishaps'
    BY OthersStay
  <1>5. KindsOK'
    BY <1>3, <1>4 DEF KindsOK, Moved, KindAt
  <1> SUFFICES ASSUME "deletion" \notin mishaps' PROVE CredentialsHaveProfile' /\ CountedOn'
    BY <1>1, <1>2, <1>5 DEF CredentialsHaveProfile, CountedOn, Spared
  <1>6. /\ \A n \in Profiles : creds[n] # Missing => n \in Configured(file)
        /\ \A q \in Processes :
             /\ pc[q] \in WithProfile => Name(q) \in Configured(file)
             /\ pc[q] \in Captured =>
                   op[q].profile.name = Name(q) /\ op[q].profile.client # Absent
             /\ pc[q] = "remove" => creds[Name(q)] = Missing
        /\ \A q, r \in Processes :
             Active(q) /\ Active(r) /\ Name(q) = Name(r) /\ op[q].kind \in SignIns \cup {"refresh"}
             => op[r].kind # "delete"
        /\ \A q \in Processes : KindAt(op[q].kind, pc[q]) /\ Name(q) \in Profiles
    BY <1>4 DEF Spared, CredentialsHaveProfile, CountedOn, Apart, KindsOK, TypeOK, Command, Name
  <1>7. /\ \/ Configured(file') = Configured(file)
           \/ Configured(file') = Configured(file) \cup {Name(p)}
           \/ pc[p] = "remove" /\ Configured(file') = Configured(file) \ {Name(p)}
        /\ pc[p] = "create" /\ pc'[p] # "idle" /\ pc'[p] # "dead" => Name(p) \in Configured(file')
    BY FileSteps, <1>6 DEF Captured
  <1>8. \/ creds' = creds
        \/ /\ pc[p] \in {"save", "restore", "store", "forget"}
           /\ \A n \in Profiles \ {Name(p)} : creds'[n] = creds[n]
           /\ pc[p] = "forget" => creds'[Name(p)] = Missing
    BY StoreEffects, <1>6 DEF TypeOK
  <1>9. \A q \in Processes : pc[q] \in WithProfile /\ pc[p] = "remove" => Name(q) # Name(p)
    BY <1>6 DEF WithProfile, KindAt, Active
  <1>10. CredentialsHaveProfile'
    BY <1>6, <1>7, <1>8 DEF CredentialsHaveProfile, WithProfile
  <1>11. \A q \in Processes : pc'[q] \in WithProfile => Name(q)' \in Configured(file')
    <2> SUFFICES ASSUME NEW q \in Processes, pc'[q] \in WithProfile
                 PROVE  op'[q].name \in Configured(file')
      BY DEF Name
    <2>1. CASE q # p
      BY <2>1, <1>4, <1>6, <1>7, <1>9 DEF Name
    <2>2. CASE q = p
      <3>1. pc[p] # "idle" /\ op'[p].name = Name(p)
        BY <2>2, <1>3 DEF Moved, Name, WithProfile
      <3>2. CASE pc[p] = "create"
        BY <2>2, <3>1, <3>2, <1>7 DEF WithProfile
      <3>3. CASE pc[p] # "create"
        <4>1. Name(p) \in Configured(file)
          BY <2>2, <3>3, <1>3, <1>6 DEF Moved, WithProfile
        <4>2. pc[p] # "remove"
          BY <2>2, <1>3, <3>1, <1>6 DEF Moved, KindAt, WithProfile, SignIns
        <4> QED BY <2>2, <3>1, <4>1, <4>2, <1>7
      <3> QED BY <3>2, <3>3
    <2> QED BY <2>1, <2>2
  <1>12. \A q \in Processes : pc'[q] \in Captured =>
            op'[q].profile.name = op'[q].name /\ op'[q].profile.client # Absent
    <2> SUFFICES ASSUME NEW q \in Processes, pc'[q] \in Captured
                 PROVE  op'[q].profile.name = op'[q].name /\ op'[q].profile.client # Absent
      OBVIOUS
    <2>1. CASE q # p
      BY <2>1, <1>4, <1>6 DEF Name
    <2>2. CASE q = p
      <3>1. pc[p] # "idle" /\ op'[p].name = Name(p)
        BY <2>2, <1>3 DEF Moved, Name, Captured, WithProfile
      <3>2. CASE pc[p] \in Captured
        BY <2>2, <3>1, <3>2, <1>3, <1>6 DEF Moved
      <3>3. CASE pc[p] = "snapshot"
        <4>1. op'[p].profile = SnapshotOf(file, Name(p)) /\ Name(p) \in Configured(file)
          BY <2>2, <3>3, <1>3, <1>6 DEF Moved, Captured, WithProfile
        <4> QED BY <2>2, <3>1, <4>1 DEF SnapshotOf, Configured
      <3> QED BY <2>2, <3>2, <3>3, <1>3 DEF Moved
    <2> QED BY <2>1, <2>2
  <1>13. \A q \in Processes : pc'[q] = "remove" => creds'[op'[q].name] = Missing
    <2> SUFFICES ASSUME NEW q \in Processes, pc'[q] = "remove"
                 PROVE  creds'[op'[q].name] = Missing
      OBVIOUS
    <2>1. CASE q # p
      <3>1. pc[q] = "remove" /\ op'[q].name = Name(q) /\ creds[Name(q)] = Missing
            /\ op[q].kind = "delete" /\ Active(q) /\ Name(q) \in Profiles
        BY <2>1, <1>4, <1>6 DEF Name, KindAt, Active
      <3>2. pc[p] \in {"save", "restore", "store"} => Name(p) # Name(q)
        BY <3>1, <1>6 DEF KindAt, WithProfile, Active
      <3> QED BY <3>1, <3>2, <1>8
    <2>2. CASE q = p
      <3>1. pc[p] = "check" /\ creds[Name(p)] = Missing /\ op'[p].name = Name(p)
        BY <2>2, <1>3 DEF Moved, Name
      <3> QED BY <2>2, <3>1, <1>8
    <2> QED BY <2>1, <2>2
  <1>14. CountedOn'
    BY <1>11, <1>12, <1>13 DEF CountedOn, Name
  <1> QED BY <1>10, <1>14

-----------------------------------------------------------------------------
\* The inductive invariant of the account commands: who is where, and what each
\* counts on; it holds for any processes, profiles, grants and mishaps.
THEOREM AccountsSafety == Spec => []AInv
  <1>1. Init => AInv
    BY AccountsInit
  <1>2. AInv /\ [Next]_vars => AInv'
    <2>1. CASE Next
      BY <2>1, AccountsStep DEF Next, Step
    <2>2. CASE UNCHANGED vars
      BY <2>2 DEF vars, server, AInv, TypeOK, KindsOK, KindAt, Apart, CountedOn, Active, Name,
                  CredentialsHaveProfile, Spared, Configured
    <2> QED BY <2>1, <2>2
  <1> QED BY <1>1, <1>2, PTL DEF Spec

\* Credentials always belong to a configured profile, whatever the commands, deaths and
\* failures: only a deletion that overlaps a sign-in or a refresh parts them.
THEOREM CredentialsOwned == Spec => []CredentialsHaveProfile
  <1>1. AInv => CredentialsHaveProfile
    BY DEF AInv
  <1> QED BY <1>1, AccountsSafety, PTL

-----------------------------------------------------------------------------
(* What the commands do to the server and the credential store together.    *)

\* Unless a command ran beside a sign-in or a sign-out, each of those has its profile's
\* credentials to itself; refreshes share them with one another.
Alone ==
    Spared({"overlap"}) =>
        \A p, q \in Processes :
            p # q /\ Active(p) /\ Active(q) /\ Name(p) = Name(q)
                  /\ op[p].kind \in SignIns \cup {"logout"}
            => op[q].kind \notin SignIns \cup {"logout", "refresh"}

\* A grant is in one profile's hands, in its credentials or those of a command for it.
Holds(n, g) ==
    \/ creds[n].grant = g
    \/ \E p \in Processes :
          Name(p) = n /\ (op[p].previous.grant = g \/ op[p].issued.grant = g)

Owned ==
    \A n \in Profiles, g \in Grants : Holds(n, g) =>
        g <= grants /\ \A m \in Profiles : Holds(m, g) => m = n

\* What a command that has the credentials to itself knows of them.
Known(p) ==
    LET o == op[p]
        c == creds[Name(p)]
    IN  /\ pc[p] \in {"snapshot", "authorize", "discard", "save", "restoreProfile", "revoke",
                      "forget"}
              => c = o.previous
        /\ pc[p] \in {"discard", "save", "upsert", "finish", "undo", "restore"}
              => o.issued # Missing /\ o.issued.grant # o.previous.grant
        /\ pc[p] \in {"upsert", "finish"} => c = o.issued
        /\ pc[p] \in {"undo", "restore"} => c \in {o.issued, o.previous}
        /\ pc[p] \in {"rotate", "store"} => /\ c # Missing /\ o.previous # Missing
                                            /\ c.grant = o.previous.grant
        /\ pc[p] = "store" => o.issued.grant = c.grant
        /\ pc[p] \in {"revoke", "forget"} => o.previous # Missing

StoreKnown == Spared({"overlap", "unrestored"}) => \A p \in Processes : Known(p)

\* Fit for the next refresh.
Usable(c) == c.grant \in live /\ newest[c.grant] = c.token

\* Where a command leaves its profile's credentials unusable, or may.
Repairs(p) == pc[p] \in {"store", "restore", "forget"}

Fit(p) ==
    LET o == op[p]
        c == creds[Name(p)]
    IN  /\ pc[p] \in {"discard", "save", "upsert", "finish", "undo"} => Usable(o.issued)
        /\ pc[p] \in {"upsert", "undo", "restore"} /\ o.previous # Missing => Usable(o.previous)
        /\ pc[p] \in {"rotate", "store"} => o.previous.token <= c.token
        /\ pc[p] = "store" =>
              /\ Usable(o.issued)
              /\ o.issued.token = IF c.grant \in Rotating THEN c.token + 1 ELSE c.token
        /\ pc[p] = "store" /\ c.grant \in Rotating =>
              \A q \in Processes : pc[q] = "store" /\ Name(q) = Name(p) => q = p

TokensKnown ==
    Spared({"overlap", "halfway", "lost", "unstored", "unrestored"}) =>
        /\ \A n \in Profiles : creds[n] # Missing =>
              Usable(creds[n]) \/ \E p \in Processes : Name(p) = n /\ Repairs(p)
        /\ \A p \in Processes : Fit(p)

\* Who answers for a live grant.
GrantsKnown ==
    Spared({"overlap", "abandoned", "lost", "unrevoked", "unrestored"}) =>
        /\ \A g \in live :
              \/ \E n \in Profiles : creds[n].grant = g
              \/ \E p \in Processes :
                    \/ pc[p] \in {"discard", "save", "undo"} /\ op[p].issued.grant = g
                    \/ pc[p] \in {"upsert", "finish", "undo", "restore"} /\ op[p].previous.grant = g
        /\ \A p \in Processes : pc[p] = "forget" => op[p].previous.grant \notin live
        /\ \A p \in Processes : pc[p] = "restore" => op[p].issued.grant \notin live

\* A login under way finds its profile as it captured it.
ProfileKnown ==
    Spared({"overlap", "deletion"}) =>
        \A p \in Processes :
            pc[p] \in {"authorize", "discard", "save", "upsert", "undo", "restore",
                       "restoreProfile"} =>
                /\ op[p].profile.name = Name(p)
                /\ file.clients[Name(p)] = op[p].profile.client
                /\ file.default = Name(p) => op[p].profile.default = Name(p)

\* The steps that touch neither the credential store nor the server.
Quiet(p) ==
    /\ UNCHANGED <<creds, grants, live, newest>>
    /\ \/ /\ pc'[p] \in {"idle", "dead"}
          /\ pc[p] \in {"store", "restore", "forget"} => "halfway" \in mishaps'
          /\ pc[p] \in {"discard", "save", "upsert", "finish", "undo", "restore"}
                => "abandoned" \in mishaps'
       \/ /\ pc[p] \in {"idle", "offer", "profile", "create", "default", "status", "check"}
          /\ pc'[p] \in {"offer", "profile", "create", "default", "status", "capture", "load",
                         "check", "remove"}
       \/ /\ pc[p] = "capture" /\ pc'[p] = "snapshot"
          /\ op'[p].name = Name(p)
          /\ op'[p].previous = creds[Name(p)] /\ op'[p].issued = op[p].issued
       \/ /\ \/ pc[p] = "snapshot" /\ pc'[p] = "authorize"
             \/ pc[p] = "upsert" /\ pc'[p] \in {"finish", "undo"}
          /\ op'[p].name = Name(p)
          /\ op'[p].previous = op[p].previous /\ op'[p].issued = op[p].issued
       \/ /\ pc[p] = "load" /\ pc'[p] \in {"rotate", "revoke"}
          /\ op'[p].name = Name(p) /\ creds[Name(p)] # Missing
          /\ op'[p].previous = creds[Name(p)] /\ op'[p].issued = op[p].issued

\* The other ten steps are those that do.
LEMMA QuietSteps ==
    ASSUME TypeOK, KindsOK, NEW p \in Processes, Step(p)
    PROVE  \/ Quiet(p)
           \/ Authorize(p) \/ Discard(p) \/ SaveLogin(p) \/ FinishLogin(p) \/ RevokeIssued(p)
           \/ RestoreCredentials(p) \/ Rotate(p) \/ StoreRefreshed(p) \/ RevokeGrant(p) \/ Forget(p)
  <1>0. /\ pc[p] \in Places /\ pc \in [Processes -> Places]
        /\ op[p] \in Command /\ op \in [Processes -> Command]
    BY DEF TypeOK
  <1>1. CASE Begin(p)
    BY <1>0, <1>1 DEF Begin, Quiet, First, Commands, SignIns, server
  <1>2. CASE Offer(p) \/ LookUpProfile(p) \/ PrepareProfile(p) \/ LookUpStatus(p)
    BY <1>0, <1>2 DEF Offer, LookUpProfile, PrepareProfile, LookUpStatus, Quiet, Goto, Return, server
  <1>3. CASE CaptureCredentials(p)
    BY <1>0, <1>3 DEF CaptureCredentials, Quiet, Goto, Return, server, Command, Name
  <1>4. CASE CaptureProfile(p)
    BY <1>0, <1>4 DEF CaptureProfile, Quiet, Goto, Return, server, Command, Name
  <1>5. CASE RecordProfile(p)
    BY <1>0, <1>5 DEF RecordProfile, Quiet, Goto, Return, server, Command, Name
  <1>6. CASE VerifyLogin(p) \/ RestoreMetadata(p) \/ RemoveProfile(p)
    BY <1>0, <1>6 DEF VerifyLogin, RestoreMetadata, RemoveProfile, Quiet, Goto, Return, server
  <1>7. CASE LoadCredentials(p)
    BY <1>0, <1>7 DEF LoadCredentials, Quiet, Goto, Return, server, Command, Name
  <1>8. CASE CheckSignedOut(p)
    BY <1>0, <1>8 DEF CheckSignedOut, Quiet, Goto, Return, server
  <1>9. CASE Die(p)
    BY <1>0, <1>9 DEF Die, Quiet, server, Befalls
  <1> QED BY <1>1, <1>2, <1>3, <1>4, <1>5, <1>6, <1>7, <1>8, <1>9 DEF Step, Login, Other

\* A command that starts notes whom it finds beside it, as BeginApart.
LEMMA BeginAlone ==
    ASSUME TypeOK, Alone, NEW p \in Processes, Begin(p)
    PROVE  Alone'
  <1> SUFFICES ASSUME "overlap" \notin mishaps', NEW q \in Processes, NEW r \in Processes,
                      q # r, Active(q)', Active(r)', Name(q)' = Name(r)',
                      (op[q].kind \in SignIns \cup {"logout"})'
               PROVE  op'[r].kind \notin SignIns \cup {"logout", "refresh"}
    BY DEF Alone, Spared
  <1>1. PICK kind \in Commands, name \in Profiles :
           /\ op' = [op EXCEPT ![p] = [NoCommand EXCEPT !.kind = kind, !.name = name]]
           /\ pc' = [pc EXCEPT ![p] = First(kind)]
           /\ Befalls(Beside(kind, name))
    BY DEF Begin
  <1>2. op'[p].kind = kind /\ Name(p)' = name /\ pc[p] = "idle"
        /\ \A s \in Processes \ {p} : op'[s] = op[s] /\ pc'[s] = pc[s]
    BY <1>1, NoCommandTypes DEF TypeOK, Name, Command, Begin
  <1>3. "overlap" \notin Beside(kind, name) /\ "overlap" \notin mishaps
    BY <1>1 DEF Befalls
  <1>4. \A s \in Processes \ {p} : Active(s) /\ Name(s) = name =>
           /\ kind \in SignIns \cup {"logout"} => op[s].kind \notin SignIns \cup {"logout", "refresh"}
           /\ op[s].kind \in SignIns \cup {"logout"} => kind \notin SignIns \cup {"logout", "refresh"}
    BY <1>3 DEF Beside
  <1>5. CASE q = p
    BY <1>2, <1>4, <1>5 DEF Active, Name
  <1>6. CASE r = p
    BY <1>2, <1>4, <1>6 DEF Active, Name
  <1>7. CASE q # p /\ r # p
    BY <1>2, <1>3, <1>7 DEF Alone, Spared, Active, Name
  <1> QED BY <1>5, <1>6, <1>7

\* A step that is not a start finds its command running.
LEMMA Running ==
    ASSUME NEW p \in Processes, Step(p), ~Begin(p)
    PROVE  Active(p)
  BY DEF Step, Login, Other, Die, Active, Offer, LookUpProfile, PrepareProfile,
         LookUpStatus, CaptureCredentials, CaptureProfile, Authorize, Discard,
         SaveLogin, RecordProfile, FinishLogin, VerifyLogin, RevokeIssued,
         RestoreCredentials, RestoreMetadata, LoadCredentials, Rotate,
         StoreRefreshed, RevokeGrant, Forget, CheckSignedOut, RemoveProfile

\* A command keeps its kind and name until it returns, so whom it runs beside was noted.
LEMMA AloneStep ==
    ASSUME TypeOK, KindsOK, Alone, NEW p \in Processes, Step(p)
    PROVE  Alone'
  <1>1. CASE Begin(p)
    BY <1>1, BeginAlone
  <1>2. CASE ~Begin(p)
    <2>1. pc[p] \notin {"idle", "dead"}
      BY <1>2, Running DEF Active
    <2>2. \A q \in Processes : Active(q)' => /\ Active(q) /\ Name(q)' = Name(q)
                                            /\ op'[q].kind = op[q].kind
      BY <2>1, Moves, OthersStay DEF Moved, Active, Name
    <2>3. mishaps \subseteq mishaps'
      BY OthersStay
    <2> QED BY <2>2, <2>3 DEF Alone, Spared
  <1> QED BY <1>1, <1>2

\* Where the commands' credentials come from.
LEMMA Traces ==
    ASSUME TypeOK, NEW p \in Processes, Step(p)
    PROVE  /\ creds' = creds \/ \E c \in {Missing, op[p].issued, op[p].previous} :
                                   creds' = [creds EXCEPT ![Name(p)] = c]
           /\ \/ op'[p].name = Name(p)
              \/ op'[p].previous = Missing /\ op'[p].issued = Missing
           /\ op'[p].previous \in {Missing, op[p].previous, creds[Name(p)]}
           /\ \/ op'[p].issued \in {Missing, op[p].issued}
              \/ op'[p].issued.grant = op[p].previous.grant
              \/ op'[p].issued.grant = grants + 1 /\ grants' = grants + 1
           /\ grants' \in {grants, grants + 1}
  <1>0. /\ pc[p] \in Places /\ pc \in [Processes -> Places]
        /\ op[p] \in Command /\ op \in [Processes -> Command]
        /\ NoCommand \in Command /\ NoCommand.previous = Missing /\ NoCommand.issued = Missing
    BY NoCommandTypes DEF TypeOK, NoCommand
  <1>1. CASE Begin(p)
    <2>1. PICK kind \in Commands, name \in Profiles :
             op' = [op EXCEPT ![p] = [NoCommand EXCEPT !.kind = kind, !.name = name]]
      BY <1>1 DEF Begin
    <2>2. op'[p].previous = Missing /\ op'[p].issued = Missing
      BY <1>0, <2>1 DEF Command
    <2> QED BY <1>1, <2>2 DEF Begin, server
  <1>2. CASE Offer(p) \/ LookUpProfile(p) \/ PrepareProfile(p) \/ LookUpStatus(p)
    BY <1>0, <1>2 DEF Offer, LookUpProfile, PrepareProfile, LookUpStatus, Goto, Return, server, Name
  <1>3. CASE CaptureCredentials(p) \/ CaptureProfile(p)
    BY <1>0, <1>3 DEF CaptureCredentials, CaptureProfile, Goto, Return, server, Command, Name
  <1>4. CASE Authorize(p)
    <2>1. CASE Return(p, "failed")
      BY <1>0, <1>4, <2>1 DEF Authorize, Return, Issued, server
    <2>2. CASE ~Return(p, "failed")
      <3>1. PICK token \in {0, 1}, client \in Clients :
               /\ Issued(token)
               /\ op' = [op EXCEPT ![p] =
                      [@ EXCEPT !.issued = [grant |-> grants', token |-> token],
                                !.client = client]]
        BY <1>4, <2>2 DEF Authorize
      <3>2. /\ op'[p].issued = [grant |-> grants', token |-> token]
            /\ op'[p].previous = op[p].previous /\ op'[p].name = op[p].name
        BY <1>0, <3>1 DEF Command
      <3>3. op'[p].issued.grant = grants + 1 /\ grants' = grants + 1
        BY <3>1, <3>2 DEF Issued
      <3>4. creds' = creds
        BY <1>4 DEF Authorize
      <3> QED BY <3>2, <3>3, <3>4 DEF Name
    <2> QED BY <2>1, <2>2
  <1>5. CASE Discard(p) \/ SaveLogin(p) \/ FinishLogin(p) \/ VerifyLogin(p)
    BY <1>0, <1>5 DEF Discard, SaveLogin, FinishLogin, VerifyLogin, RevokeUnusable, Revoke,
                Goto, Return, server, Name
  <1>6. CASE RecordProfile(p)
    BY <1>0, <1>6 DEF RecordProfile, Goto, Return, server, Command, Name
  <1>7. CASE RevokeIssued(p) \/ RestoreCredentials(p) \/ RestoreMetadata(p)
    BY <1>0, <1>7 DEF RevokeIssued, RestoreCredentials, Restored, RestoreMetadata, Revoke,
                Goto, Return, server, Name
  <1>8. CASE LoadCredentials(p)
    BY <1>0, <1>8 DEF LoadCredentials, Goto, Return, server, Command, Name
  <1>9. CASE Rotate(p)
    <2>1. CASE Return(p, "failed")
      BY <1>0, <1>9, <2>1 DEF Rotate, Return
    <2>2. CASE ~Return(p, "failed")
      <3>1. PICK answered : op' = [op EXCEPT ![p].issued =
                      [grant |-> op[p].previous.grant,
                       token |-> Carried(op[p].previous, answered)]]
        BY <1>9, <2>2 DEF Rotate
      <3>2. /\ op'[p].issued.grant = op[p].previous.grant
            /\ op'[p].previous = op[p].previous /\ op'[p].name = op[p].name
        BY <1>0, <3>1 DEF Command
      <3> QED BY <1>9, <3>2 DEF Rotate, Name
    <2> QED BY <2>1, <2>2
  <1>10. CASE StoreRefreshed(p) \/ RevokeGrant(p) \/ Forget(p)
    BY <1>0, <1>10 DEF StoreRefreshed, RevokeGrant, Forget, Revoke, Goto, Return, server, Name
  <1>11. CASE CheckSignedOut(p) \/ RemoveProfile(p) \/ Die(p)
    BY <1>0, <1>11 DEF CheckSignedOut, RemoveProfile, Die, Goto, Return, server, Name
  <1> QED BY <1>1, <1>2, <1>3, <1>4, <1>5, <1>6, <1>7, <1>8, <1>9, <1>10, <1>11
          DEF Step, Login, Other

\* A grant comes into the hands of one profile, when it is issued, and stays there.
LEMMA OwnedStep ==
    ASSUME TypeOK, Owned, NEW p \in Processes, Step(p)
    PROVE  Owned'
  <1>1. \A n \in Profiles, g \in Grants :
           Holds(n, g)' => Holds(n, g) \/ (n = Name(p) /\ g = grants + 1 /\ grants' = grants + 1)
    <2> SUFFICES ASSUME NEW n \in Profiles, NEW g \in Grants, Holds(n, g)'
                 PROVE  Holds(n, g) \/ (n = Name(p) /\ g = grants + 1 /\ grants' = grants + 1)
      OBVIOUS
    <2>0. g # 0 /\ Missing.grant = 0
      BY DEF Grants, Missing
    <2>1. CASE creds'[n].grant = g
      <3>1. creds'[n] = creds[n] \/ (n = Name(p) /\ creds'[n] \in {Missing, op[p].issued, op[p].previous})
        BY Traces DEF TypeOK
      <3> QED BY <2>0, <2>1, <3>1 DEF Holds
    <2>2. CASE \E q \in Processes :
                  op'[q].name = n /\ (op'[q].previous.grant = g \/ op'[q].issued.grant = g)
      <3>1. PICK q \in Processes :
                  op'[q].name = n /\ (op'[q].previous.grant = g \/ op'[q].issued.grant = g)
        BY <2>2
      <3>2. CASE q # p
        BY <3>1, <3>2, OthersStay DEF Holds, Name
      <3>3. CASE q = p
        <4>1. op'[p].name = Name(p)
          BY <2>0, <3>1, <3>3, Traces
        <4>2. CASE op'[p].previous.grant = g
          BY <2>0, <3>1, <3>3, <4>1, <4>2, Traces DEF Holds
        <4>3. CASE op'[p].issued.grant = g
          <5>1. \/ op'[p].issued \in {Missing, op[p].issued}
                \/ op'[p].issued.grant = op[p].previous.grant
                \/ op'[p].issued.grant = grants + 1 /\ grants' = grants + 1
            BY Traces
          <5> QED BY <2>0, <3>1, <3>3, <4>1, <4>3, <5>1 DEF Holds
        <4> QED BY <3>1, <3>3, <4>2, <4>3
      <3> QED BY <3>2, <3>3
    <2> QED BY <2>1, <2>2 DEF Holds, Name
  <1>2. grants \in Nat /\ grants' \in {grants, grants + 1} /\ Grants \subseteq Nat
    BY Traces, AccountBounds DEF TypeOK, Grants
  <1>3. ASSUME NEW n \in Profiles, NEW g \in Grants, Holds(n, g)', NEW m \in Profiles, Holds(m, g)'
        PROVE  m = n
    <2>1. CASE Holds(n, g)
      BY <1>1, <1>2, <1>3, <2>1 DEF Owned
    <2>2. CASE ~Holds(n, g)
      BY <1>1, <1>2, <1>3, <2>2 DEF Owned
    <2> QED BY <2>1, <2>2
  <1>4. ASSUME NEW n \in Profiles, NEW g \in Grants, Holds(n, g)' PROVE g <= grants'
    BY <1>1, <1>2, <1>4 DEF Owned
  <1> QED BY <1>3, <1>4 DEF Owned

\* Where a command relies on what it knows of its profile's credentials.
Claims == {"snapshot", "authorize", "discard", "save", "upsert", "finish", "undo", "restore",
           "restoreProfile", "revoke", "forget", "rotate", "store"}

\* Two commands that rely on the same credentials are both refreshes.
LEMMA Sharers ==
    ASSUME KindsOK, Alone, "overlap" \notin mishaps,
           NEW p \in Processes, NEW q \in Processes, p # q, Name(p) = Name(q),
           pc[p] \in Claims, pc[q] \in Claims
    PROVE  pc[p] \in {"rotate", "store"} /\ pc[q] \in {"rotate", "store"}
  <1>1. \A r \in Processes : pc[r] \in Claims =>
           /\ Active(r) /\ op[r].kind \in SignIns \cup {"logout", "refresh"}
           /\ op[r].kind = "refresh" => pc[r] \in {"rotate", "store"}
    BY DEF KindsOK, KindAt, Claims, Active, WithProfile, SignIns
  <1>2. op[p].kind \notin SignIns \cup {"logout"} /\ op[q].kind \notin SignIns \cup {"logout"}
    BY <1>1 DEF Alone, Spared
  <1> QED BY <1>1, <1>2

\* No step takes from another command what it knows.
LEMMA KnownOthers ==
    ASSUME TypeOK, KindsOK, Alone, StoreKnown, mishaps' \cap {"overlap", "unrestored"} = {},
           NEW p \in Processes, Step(p), NEW q \in Processes \ {p}
    PROVE  Known(q)'
  <1>1. pc'[q] = pc[q] /\ op'[q] = op[q] /\ mishaps \subseteq mishaps'
    BY OthersStay
  <1>2. "overlap" \notin mishaps /\ \A r \in Processes : Known(r)
    BY <1>1 DEF StoreKnown, Spared
  <1>3. CASE pc[q] \notin Claims
    BY <1>1, <1>3 DEF Known, Claims
  <1>4. CASE creds'[Name(q)] = creds[Name(q)]
    BY <1>1, <1>2, <1>4 DEF Known, Name
  <1>5. CASE pc[q] \in Claims /\ creds'[Name(q)] # creds[Name(q)]
    <2>0. Name(q) \in Profiles /\ DOMAIN creds = Profiles
      BY DEF TypeOK, Command, Name
    <2>1. Name(p) = Name(q) /\ pc[p] \in {"save", "restore", "store", "forget"}
      BY <1>5, <2>0, StoreEffects
    <2>2. pc[p] = "store" /\ pc[q] \in {"rotate", "store"}
      BY <1>2, <1>5, <2>1, Sharers DEF Claims
    <2>3. StoreRefreshed(p)
      <3>1. ~Quiet(p)
        BY <1>5, <2>1 DEF Quiet
      <3> QED BY <2>2, <3>1, QuietSteps DEF Authorize, Discard, SaveLogin, FinishLogin,
                 RevokeIssued, RestoreCredentials, Rotate, RevokeGrant, Forget
    <2>4. creds'[Name(q)] = op[p].issued
      BY <1>5, <2>1, <2>3 DEF StoreRefreshed, TypeOK
    <2>5. /\ op[p].issued.grant = creds[Name(q)].grant
          /\ creds[Name(q)] # Missing /\ op[q].previous # Missing
          /\ creds[Name(q)].grant = op[q].previous.grant
          /\ pc[q] = "store" => op[q].issued.grant = creds[Name(q)].grant
      BY <1>2, <2>1, <2>2 DEF Known
    <2>6. creds[Name(q)] \in Credentials
      BY <2>5 DEF TypeOK, Command, Name
    <2>7. op[p].issued # Missing
      BY <2>5, <2>6 DEF Credentials, Missing, Grants
    <2> QED BY <1>1, <2>2, <2>4, <2>5, <2>7 DEF Known, Name
  <1> QED BY <1>3, <1>4, <1>5

\* The command that steps goes by what it knows.
LEMMA KnownSelf ==
    ASSUME TypeOK, KindsOK, Owned, StoreKnown, mishaps' \cap {"overlap", "unrestored"} = {},
           NEW p \in Processes, Step(p)
    PROVE  Known(p)'
  <1>0. /\ pc[p] \in Places /\ pc \in [Processes -> Places]
        /\ op[p] \in Command /\ op \in [Processes -> Command] /\ Name(p) \in Profiles
        /\ creds \in [Profiles -> Credentials \cup {Missing}]
    BY DEF TypeOK, Command, Name
  <1>k. Known(p)
    BY OthersStay DEF StoreKnown, Spared
  <1>i. ASSUME pc'[p] \notin Claims PROVE Known(p)'
    BY <1>i DEF Known, Claims
  <1>1. CASE Quiet(p)
    <2>1. CASE pc[p] = "capture" /\ pc'[p] = "snapshot"
      BY <1>0, <1>1, <2>1 DEF Quiet, Known, Name
    <2>2. CASE pc[p] = "snapshot" /\ pc'[p] = "authorize"
      BY <1>1, <1>k, <2>2 DEF Quiet, Known, Name
    <2>3. CASE pc[p] = "upsert" /\ pc'[p] \in {"finish", "undo"}
      BY <1>1, <1>k, <2>3 DEF Quiet, Known, Name
    <2>4. CASE pc[p] = "load" /\ pc'[p] \in {"rotate", "revoke"}
      BY <1>1, <2>4 DEF Quiet, Known, Name
    <2> QED BY <1>1, <1>i, <2>1, <2>2, <2>3, <2>4 DEF Quiet, Claims
  <1>2. CASE Authorize(p)
    <2>1. CASE Return(p, "failed")
      BY <1>0, <1>i, <2>1 DEF Return, Claims
    <2>2. CASE ~Return(p, "failed")
      <3>1. PICK token \in {0, 1}, client \in Clients :
               /\ Issued(token)
               /\ op' = [op EXCEPT ![p] =
                      [@ EXCEPT !.issued = [grant |-> grants', token |-> token],
                                !.client = client]]
               /\ pc' = [pc EXCEPT ![p] = "save"] \/ pc' = [pc EXCEPT ![p] = "discard"]
        BY <1>2, <2>2 DEF Authorize, Goto
      <3>2. /\ op'[p].issued.grant = grants + 1
            /\ op'[p].previous = op[p].previous /\ op'[p].name = op[p].name
            /\ pc'[p] \in {"save", "discard"} /\ pc[p] = "authorize" /\ creds' = creds
        BY <1>0, <1>2, <3>1 DEF Command, Issued, Authorize
      <3>3. op[p].previous.grant # grants + 1 /\ grants + 1 # 0
        <4>1. op[p].previous.grant \in Grants => op[p].previous.grant <= grants
          BY <1>0 DEF Owned, Holds
        <4>2. op[p].previous.grant \in Grants \cup {0} /\ grants \in Nat
          BY <1>0, AccountBounds DEF Command, Credentials, Missing, TypeOK
        <4> QED BY <4>1, <4>2
      <3>4. op'[p].issued # Missing
        BY <3>2, <3>3 DEF Missing
      <3>5. creds[Name(p)] = op[p].previous
        BY <1>k, <3>2 DEF Known
      <3> QED BY <3>2, <3>3, <3>4, <3>5 DEF Known, Name
    <2> QED BY <2>1, <2>2
  <1>3. CASE Discard(p)
    BY <1>0, <1>3, <1>i DEF Discard, Return, Claims
  <1>4. CASE SaveLogin(p)
    <2>1. pc[p] = "save" /\ op' = op /\ pc'[p] \in {"upsert", "undo"}
          /\ (pc'[p] = "upsert" => creds'[Name(p)] = op[p].issued)
          /\ (pc'[p] = "undo" => creds'[Name(p)] = creds[Name(p)])
      BY <1>0, <1>4 DEF SaveLogin, Goto
    <2> QED BY <1>k, <2>1 DEF Known, Name
  <1>5. CASE FinishLogin(p)
    BY <1>0, <1>5, <1>i DEF FinishLogin, Return, Goto, Claims
  <1>6. CASE RevokeIssued(p)
    <2>1. pc[p] = "undo" /\ op' = op /\ pc'[p] = "restore" /\ creds' = creds
      BY <1>0, <1>6 DEF RevokeIssued, Goto
    <2> QED BY <1>k, <2>1 DEF Known, Name
  <1>7. CASE RestoreCredentials(p)
    <2>1. CASE Return(p, "failed")
      BY <1>0, <2>1, <1>i DEF Return, Claims
    <2>2. CASE ~Return(p, "failed")
      <3>1. pc[p] = "restore" /\ op' = op /\ pc'[p] = "restoreProfile"
            /\ creds'[Name(p)] = op[p].previous
        BY <1>0, <1>7, <2>2 DEF RestoreCredentials, Goto, Befalls, Restored
      <3> QED BY <3>1 DEF Known, Name
    <2> QED BY <2>1, <2>2
  <1>8. CASE Rotate(p)
    <2>1. CASE Return(p, "failed")
      BY <1>0, <2>1, <1>i DEF Return, Claims
    <2>2. CASE ~Return(p, "failed")
      <3>1. PICK answered : /\ op' = [op EXCEPT ![p].issued =
                                   [grant |-> op[p].previous.grant,
                                    token |-> Carried(op[p].previous, answered)]]
                            /\ pc' = [pc EXCEPT ![p] = "store"]
        BY <1>8, <2>2 DEF Rotate, Goto
      <3>2. /\ op'[p].issued.grant = op[p].previous.grant
            /\ op'[p].previous = op[p].previous /\ op'[p].name = op[p].name
            /\ pc[p] = "rotate" /\ pc'[p] = "store" /\ creds' = creds
        BY <1>0, <1>8, <3>1 DEF Command, Rotate
      <3> QED BY <1>k, <3>2 DEF Known, Name
    <2> QED BY <2>1, <2>2
  <1>9. CASE StoreRefreshed(p) \/ Forget(p)
    BY <1>0, <1>9, <1>i DEF StoreRefreshed, Forget, Return, Claims
  <1>10. CASE RevokeGrant(p)
    <2>1. pc[p] = "revoke" /\ op' = op /\ pc'[p] = "forget" /\ creds' = creds
      BY <1>0, <1>10 DEF RevokeGrant, Goto
    <2> QED BY <1>k, <2>1 DEF Known, Name
  <1> QED BY <1>1, <1>2, <1>3, <1>4, <1>5, <1>6, <1>7, <1>8, <1>9, <1>10, QuietSteps

\* Every command keeps what it knows of its profile's credentials.
LEMMA KnownStep ==
    ASSUME TypeOK, KindsOK, Alone, Owned, StoreKnown, NEW p \in Processes, Step(p)
    PROVE  StoreKnown'
  BY KnownOthers, KnownSelf DEF StoreKnown, Spared

-----------------------------------------------------------------------------
(* Stored credentials can be used.                                          *)

\* Which grants a step touches on the server.
LEMMA Touched ==
    ASSUME TypeOK, KindsOK, NEW p \in Processes, Step(p), NEW g \in Grants
    PROVE  \/ (g \in live' <=> g \in live) /\ newest'[g] = newest[g]
           \/ pc[p] = "authorize" /\ g = grants + 1
           \/ pc[p] \in {"discard", "undo"} /\ g = op[p].issued.grant
           \/ pc[p] \in {"finish", "revoke", "rotate"} /\ g = op[p].previous.grant
  <1>1. CASE Quiet(p)
    BY <1>1 DEF Quiet
  <1>2. CASE Authorize(p)
    <2>1. CASE UNCHANGED server
      BY <2>1 DEF server
    <2>2. CASE ~UNCHANGED server
      <3>1. PICK token \in {0, 1} : Issued(token)
        BY <1>2, <2>2 DEF Authorize
      <3> QED BY <1>2, <3>1 DEF Authorize, Issued, TypeOK
    <2> QED BY <2>1, <2>2
  <1>3. CASE Discard(p) \/ RevokeIssued(p)
    BY <1>3 DEF Discard, RevokeIssued, RevokeUnusable, Revoke
  <1>4. CASE FinishLogin(p) \/ RevokeGrant(p)
    BY <1>4 DEF FinishLogin, RevokeGrant, Revoke, server
  <1>5. CASE Rotate(p)
    BY <1>5 DEF Rotate, TypeOK
  <1>6. CASE SaveLogin(p) \/ RestoreCredentials(p) \/ StoreRefreshed(p) \/ Forget(p)
    BY <1>6 DEF SaveLogin, RestoreCredentials, StoreRefreshed, Forget, server
  <1> QED BY <1>1, <1>2, <1>3, <1>4, <1>5, <1>6, QuietSteps

\* What is in the hands of another profile is as fit as before.
LEMMA Elsewhere ==
    ASSUME TypeOK, KindsOK, Owned, NEW p \in Processes, Step(p),
           NEW n \in Profiles, n # Name(p), NEW c \in Credentials, Holds(n, c.grant)
    PROVE  Usable(c)' <=> Usable(c)
  <1>1. c.grant \in Grants /\ Name(p) \in Profiles /\ grants \in Nat
    BY DEF Credentials, TypeOK, Command, Name
  <1>2. c.grant # grants + 1
    BY <1>1, AccountBounds DEF Owned, Grants
  <1>3. ~Holds(Name(p), c.grant)
    BY <1>1 DEF Owned
  <1>4. c.grant # op[p].issued.grant /\ c.grant # op[p].previous.grant
    BY <1>3 DEF Holds
  <1> QED BY <1>1, <1>2, <1>4, Touched DEF Usable

\* A refresh the server honours presents what is stored, and nobody who would store a
\* rotated token is before it.
LEMMA Honest ==
    ASSUME TypeOK, KindsOK, Alone, StoreKnown, TokensKnown,
           Spared({"overlap", "halfway", "lost", "unstored", "unrestored"}),
           NEW p \in Processes, pc[p] = "rotate", Honoured(op[p].previous)
    PROVE  /\ op[p].previous.token = creds[Name(p)].token
           /\ creds[Name(p)].grant \in Rotating =>
                 \A q \in Processes : pc[q] = "store" => Name(q) # Name(p)
  <1> DEFINE c == creds[Name(p)]
             o == op[p].previous
  <1>0. \A q \in Processes : Known(q) /\ Fit(q)
    BY DEF StoreKnown, TokensKnown, Spared
  <1>1. c # Missing /\ o # Missing /\ c.grant = o.grant /\ o.token <= c.token
    BY <1>0 DEF Known, Fit
  <1>2. c \in Credentials /\ o \in Credentials /\ Name(p) \in Profiles
    BY <1>1 DEF TypeOK, Command, Name
  <1>3. o.token \in Nat /\ c.token \in Nat /\ newest[c.grant] = o.token
    BY <1>1, <1>2, AccountBounds DEF Credentials, Honoured
  <1>4. ASSUME NEW q \in Processes, pc[q] = "store", Name(q) = Name(p)
        PROVE  newest[c.grant] = IF c.grant \in Rotating THEN c.token + 1 ELSE c.token
    <2>1. /\ op[q].issued.grant = c.grant /\ Usable(op[q].issued)
          /\ op[q].issued.token = IF c.grant \in Rotating THEN c.token + 1 ELSE c.token
      BY <1>0, <1>4 DEF Known, Fit
    <2> QED BY <2>1 DEF Usable
  <1>5. c.grant \in Rotating => \A q \in Processes : pc[q] = "store" => Name(q) # Name(p)
    BY <1>1, <1>3, <1>4
  <1>6. o.token = c.token
    <2>1. CASE Usable(c)
      BY <1>3, <2>1 DEF Usable
    <2>2. CASE ~Usable(c)
      <3>1. PICK q \in Processes : Name(q) = Name(p) /\ Repairs(q)
        BY <1>1, <1>2, <2>2 DEF TokensKnown
      <3>2. pc[q] = "store"
        BY <3>1, Sharers DEF Repairs, Claims, Spared
      <3> QED BY <1>1, <1>3, <1>4, <3>1, <3>2
    <2> QED BY <2>1, <2>2
  <1> QED BY <1>5, <1>6

\* Its own profile's refresh may disturb a refresh, and does not.
LEMMA FitSharers ==
    ASSUME TypeOK, KindsOK, Alone, StoreKnown, TokensKnown,
           mishaps' \cap {"overlap", "halfway", "lost", "unstored", "unrestored"} = {},
           NEW p \in Processes, Step(p), NEW q \in Processes \ {p}, Name(p) = Name(q),
           pc[p] \in {"rotate", "store"}, pc[q] \in {"rotate", "store"}
    PROVE  Fit(q)'
  <1>0. /\ pc'[q] = pc[q] /\ op'[q] = op[q]
        /\ Spared({"overlap", "halfway", "lost", "unstored", "unrestored"})
        /\ \A r \in Processes \ {p} : pc'[r] = pc[r] /\ op'[r] = op[r]
    BY OthersStay DEF Spared
  <1>1. \A r \in Processes : Known(r) /\ Fit(r)
    BY <1>0 DEF StoreKnown, TokensKnown, Spared
  <1> DEFINE c == creds[Name(q)]
  <1>2. /\ c # Missing /\ op[q].previous # Missing /\ c.grant = op[q].previous.grant
        /\ op[q].previous.token <= c.token
        /\ pc[q] = "store" =>
              /\ op[q].issued.grant = c.grant /\ Usable(op[q].issued)
              /\ op[q].issued.token = IF c.grant \in Rotating THEN c.token + 1 ELSE c.token
    BY <1>1 DEF Known, Fit
  <1>3. c \in Credentials /\ op[q].previous \in Credentials /\ Name(q) \in Profiles
        /\ c.grant \in Grants /\ c.token \in Nat /\ op[q].previous.token \in Nat
    BY <1>2, AccountBounds DEF TypeOK, Command, Name, Credentials
  <1>4. CASE /\ creds'[Name(q)].grant = c.grant /\ creds'[Name(q)].token = c.token
             /\ live' = live /\ newest' = newest /\ pc'[p] # "store"
    <2>1. \A r \in Processes : pc'[r] = "store" => pc[r] = "store" /\ op'[r] = op[r]
      BY <1>0, <1>4
    <2> QED BY <1>0, <1>1, <1>4, <2>1 DEF Fit, Usable, Name
  <1>5. CASE Rotate(p)
    <2>1. CASE newest' = newest /\ pc'[p] # "store"
      BY <1>4, <1>5, <2>1 DEF Rotate
    <2>2. CASE ~(newest' = newest /\ pc'[p] # "store")
      <3>0. pc' = [pc EXCEPT ![p] = "store"] /\ op' = [op EXCEPT ![p] = op'[p]]
        BY <1>5, <2>2, OthersStay DEF Rotate, Befalls, Return, Goto, TypeOK
      <3>1. Honoured(op[p].previous) /\ pc[p] = "rotate" /\ live' = live /\ creds' = creds
        BY <1>5, <2>2 DEF Rotate, Return, TypeOK
      <3>2. op[p].previous.grant = c.grant
        BY <1>1, <3>1 DEF Known
      <3>3. CASE c.grant \in Rotating
        <4>1. pc[q] = "rotate"
          BY <1>0, <3>1, <3>3, Honest
        <4> QED BY <1>0, <1>2, <3>1, <4>1 DEF Fit, Name
      <3>4. CASE c.grant \notin Rotating
        <4>1. newest' = newest
          BY <1>5, <3>2, <3>4 DEF Rotate
        <4> QED BY <1>0, <1>2, <3>1, <3>4, <4>1 DEF Fit, Name, Usable
      <3> QED BY <3>3, <3>4
    <2> QED BY <2>1, <2>2
  <1>6. CASE StoreRefreshed(p)
    <2>1. pc[p] = "store" /\ pc'[p] = "idle" /\ live' = live /\ newest' = newest
      BY <1>6 DEF StoreRefreshed, Return, TypeOK, server
    <2>2. CASE creds' = creds
      BY <1>4, <2>1, <2>2
    <2>3. CASE creds' = [creds EXCEPT ![Name(p)] = op[p].issued]
      <3>1. creds'[Name(q)] = op[p].issued
        BY <1>3, <2>3 DEF TypeOK
      <3>2. /\ op[p].issued.grant = c.grant
            /\ op[p].issued.token = IF c.grant \in Rotating THEN c.token + 1 ELSE c.token
            /\ c.grant \in Rotating => pc[q] = "rotate"
        BY <1>1, <2>1 DEF Known, Fit
      <3>3. CASE c.grant \in Rotating
        BY <1>0, <1>2, <1>3, <3>1, <3>2, <3>3 DEF Fit, Name
      <3>4. CASE c.grant \notin Rotating
        BY <1>4, <2>1, <3>1, <3>2, <3>4
      <3> QED BY <3>3, <3>4
    <2> QED BY <1>6, <2>2, <2>3 DEF StoreRefreshed
  <1>7. CASE Quiet(p)
    BY <1>4, <1>7 DEF Quiet
  <1> QED BY <1>5, <1>6, <1>7, QuietSteps DEF Authorize, Discard, SaveLogin, FinishLogin,
             RevokeIssued, RestoreCredentials, RevokeGrant, Forget

\* What the steps of the tokens' proof start from.
TokensBefore ==
    /\ TypeOK /\ KindsOK /\ Alone /\ Owned /\ StoreKnown /\ TokensKnown
    /\ mishaps' \cap {"overlap", "halfway", "lost", "unstored", "unrestored"} = {}

\* What holds of every command before such a step.
LEMMA AllFit ==
    ASSUME TokensBefore, NEW p \in Processes, Step(p)
    PROVE  /\ "overlap" \notin mishaps
           /\ Spared({"overlap", "halfway", "lost", "unstored", "unrestored"})
           /\ \A q \in Processes : Known(q) /\ Fit(q)
           /\ \A n \in Profiles : creds[n] # Missing =>
                 Usable(creds[n]) \/ \E q \in Processes : Name(q) = n /\ Repairs(q)
           /\ \A q \in Processes : pc[q] \in {"discard", "save", "upsert", "finish", "undo",
                                              "restore"}
                 => op[q].issued \in Credentials /\ op[q].issued.grant # op[q].previous.grant
  <1>1. mishaps \subseteq mishaps'
    BY OthersStay DEF TokensBefore
  <1>2. Spared({"overlap", "halfway", "lost", "unstored", "unrestored"})
    BY <1>1 DEF TokensBefore, Spared
  <1>3. \A q \in Processes : Known(q) /\ Fit(q)
    BY <1>2 DEF TokensBefore, StoreKnown, TokensKnown, Spared
  <1>4. \A n \in Profiles : creds[n] # Missing =>
           Usable(creds[n]) \/ \E q \in Processes : Name(q) = n /\ Repairs(q)
    BY <1>2 DEF TokensBefore, TokensKnown
  <1>5. \A q \in Processes : pc[q] \in {"discard", "save", "upsert", "finish", "undo", "restore"}
           => op[q].issued \in Credentials /\ op[q].issued.grant # op[q].previous.grant
    BY <1>3 DEF TokensBefore, Known, TypeOK, Command
  <1> QED BY <1>2, <1>3, <1>4, <1>5 DEF Spared

\* Where a command leaves the server and its profile's credentials alone.
LEMMA IdleElsewhere ==
    ASSUME TypeOK, KindsOK, NEW p \in Processes, Step(p), pc[p] \notin Claims
    PROVE  creds' = creds /\ live' = live /\ newest' = newest /\ pc'[p] # "store"
  BY QuietSteps DEF Claims, Quiet, Authorize, Discard, SaveLogin, FinishLogin, RevokeIssued,
     RestoreCredentials, Rotate, StoreRefreshed, RevokeGrant, Forget

\* The other commands stay fit.
LEMMA FitOthers ==
    ASSUME TokensBefore, NEW p \in Processes, Step(p), NEW q \in Processes \ {p}
    PROVE  Fit(q)'
  <1> USE DEF TokensBefore
  <1>0. /\ pc'[q] = pc[q] /\ op'[q] = op[q] /\ Fit(q) /\ Known(q)
        /\ \A r \in Processes \ {p} : pc'[r] = pc[r] /\ op'[r] = op[r]
    BY OthersStay, AllFit
  <1>1. CASE pc[q] \notin Claims
    BY <1>0, <1>1 DEF Fit, Claims
  <1>2. CASE pc[q] \in Claims /\ pc[p] \notin Claims
    <2>1. /\ creds' = creds /\ live' = live /\ newest' = newest
          /\ \A r \in Processes : pc'[r] = "store" => pc[r] = "store" /\ op'[r] = op[r]
      BY <1>0, <1>2, IdleElsewhere
    <2> QED BY <1>0, <2>1 DEF Fit, Usable, Name
  <1>3. CASE pc[q] \in Claims /\ pc[p] \in Claims /\ Name(p) = Name(q)
    <2>1. pc[p] \in {"rotate", "store"} /\ pc[q] \in {"rotate", "store"}
      BY <1>3, AllFit, Sharers
    <2> QED BY <1>3, <2>1, FitSharers
  <1>4. CASE pc[q] \in Claims /\ Name(p) # Name(q)
    <2>1. Name(q) \in Profiles /\ DOMAIN creds = Profiles /\ Name(p) \in Profiles
      BY DEF TypeOK, Command, Name
    <2>2. creds'[Name(q)] = creds[Name(q)]
      BY <1>4, <2>1, StoreEffects
    <2>3. pc[q] \in {"discard", "save", "upsert", "finish", "undo", "store"}
             => op[q].issued \in Credentials
      <3>1. CASE pc[q] = "store"
        <4>1. creds[Name(q)] # Missing /\ op[q].issued.grant = creds[Name(q)].grant
          BY <1>0, <3>1 DEF Known
        <4>2. op[q].issued.grant # 0
          BY <2>1, <4>1 DEF TypeOK, Credentials, Grants
        <4> QED BY <4>2 DEF TypeOK, Command, Missing
      <3> QED BY <3>1, AllFit
    <2>4. pc[q] \in {"discard", "save", "upsert", "finish", "undo", "store"}
             => (Usable(op[q].issued)' <=> Usable(op[q].issued))
      <3> SUFFICES ASSUME op[q].issued \in Credentials
                   PROVE  Usable(op[q].issued)' <=> Usable(op[q].issued)
        BY <2>3
      <3> DEFINE n == Name(q)
      <3>1. PICK c \in Credentials : c = op[q].issued
        OBVIOUS
      <3>2. PICK m \in Profiles : m = Name(q)
        BY <2>1
      <3>3. Holds(m, c.grant)
        BY <3>1, <3>2 DEF Holds
      <3>4. Usable(c)' <=> Usable(c)
        BY <1>4, <3>2, <3>3, Elsewhere
      <3> QED BY <1>0, <3>1, <3>4 DEF Usable
    <2>5. op[q].previous # Missing => (Usable(op[q].previous)' <=> Usable(op[q].previous))
      <3> SUFFICES ASSUME op[q].previous \in Credentials
                   PROVE  Usable(op[q].previous)' <=> Usable(op[q].previous)
        BY DEF TypeOK, Command
      <3>1. PICK c \in Credentials : c = op[q].previous
        OBVIOUS
      <3>2. PICK m \in Profiles : m = Name(q)
        BY <2>1
      <3>3. Holds(m, c.grant)
        BY <3>1, <3>2 DEF Holds
      <3>4. Usable(c)' <=> Usable(c)
        BY <1>4, <3>2, <3>3, Elsewhere
      <3> QED BY <1>0, <3>1, <3>4 DEF Usable
    <2>6. pc[q] = "store" => \A r \in Processes : pc'[r] = "store" /\ op'[r].name = Name(q)
                                                   => pc[r] = "store" /\ op'[r] = op[r]
      <3>1. pc'[p] = "store" => op'[p].name = Name(p)
        BY Moves DEF Moved, WithProfile, Name
      <3> QED BY <1>0, <1>4, <3>1
    <2> QED BY <1>0, <2>2, <2>4, <2>5, <2>6 DEF Fit, Name
  <1> QED BY <1>1, <1>2, <1>3, <1>4

\* So does the command that steps.
LEMMA FitSelf ==
    ASSUME TokensBefore, NEW p \in Processes, Step(p)
    PROVE  Fit(p)'
  <1> USE DEF TokensBefore
  <1> DEFINE n == Name(p)
             o == op[p]
             c == creds[Name(p)]
  <1>0. /\ pc[p] \in Places /\ pc \in [Processes -> Places]
        /\ op[p] \in Command /\ op \in [Processes -> Command] /\ Name(p) \in Profiles
        /\ creds \in [Profiles -> Credentials \cup {Missing}]
        /\ op[p].previous \in Credentials \cup {Missing}
    BY DEF TypeOK, Command, Name
  <1>k. Known(p) /\ Fit(p)
    BY AllFit
  <1>i. ASSUME pc'[p] \notin Claims PROVE Fit(p)'
    BY <1>i DEF Fit, Claims
  <1>1. CASE Quiet(p)
    <2>1. CASE pc[p] \in {"capture", "snapshot"} /\ pc'[p] \in {"snapshot", "authorize"}
      BY <2>1 DEF Fit
    <2>2. CASE pc[p] = "upsert" /\ pc'[p] \in {"finish", "undo"}
      BY <1>1, <1>k, <2>2 DEF Quiet, Fit, Usable, Name
    <2>3. CASE pc[p] = "load" /\ pc'[p] \in {"rotate", "revoke"}
      <3>1. /\ creds[Name(p)] # Missing /\ op'[p].previous = creds[Name(p)]
            /\ op'[p].name = Name(p) /\ creds' = creds
        BY <1>1, <2>3 DEF Quiet
      <3>2. creds[Name(p)].token \in Nat
        BY <1>0, <3>1, AccountBounds DEF Credentials
      <3> QED BY <2>3, <3>1, <3>2 DEF Fit, Name
    <2> QED BY <1>1, <1>i, <2>1, <2>2, <2>3 DEF Quiet, Claims
  <1>2. CASE Authorize(p)
    <2>1. CASE Return(p, "failed")
      BY <1>0, <1>i, <2>1 DEF Return, Claims
    <2>2. CASE ~Return(p, "failed")
      <3>1. PICK token \in {0, 1}, client \in Clients :
               /\ Issued(token)
               /\ op' = [op EXCEPT ![p] =
                      [@ EXCEPT !.issued = [grant |-> grants', token |-> token],
                                !.client = client]]
               /\ pc' = [pc EXCEPT ![p] = "save"] \/ pc' = [pc EXCEPT ![p] = "discard"]
        BY <1>2, <2>2 DEF Authorize, Goto
      <3>2. op'[p].issued = [grant |-> grants', token |-> token] /\ pc'[p] \in {"save", "discard"}
        BY <1>0, <3>1 DEF Command
      <3>3. grants' \in Grants
        BY <3>1, AccountBounds DEF Issued, Grants, TypeOK
      <3>4. Usable(op[p].issued)'
        BY <3>1, <3>2, <3>3 DEF Usable, Issued, TypeOK
      <3> QED BY <3>2, <3>4 DEF Fit
    <2> QED BY <2>1, <2>2
  <1>3. CASE Discard(p)
    BY <1>0, <1>3, <1>i DEF Discard, Return, Claims
  <1>4. CASE SaveLogin(p)
    <2>1. /\ pc[p] = "save" /\ op' = op /\ pc'[p] \in {"upsert", "undo"}
          /\ live' = live /\ newest' = newest
      BY <1>0, <1>4 DEF SaveLogin, Goto, server
    <2>2. op[p].previous # Missing => Usable(op[p].previous)
      <3>1. c = op[p].previous
        BY <1>k, <2>1 DEF Known
      <3>2. \A q \in Processes : Name(q) = Name(p) => ~Repairs(q)
        <4> SUFFICES ASSUME NEW q \in Processes, Name(q) = Name(p), Repairs(q) PROVE FALSE
          OBVIOUS
        <4>1. pc[q] \in Claims /\ q # p /\ pc[p] \in Claims
          BY <2>1 DEF Repairs, Claims
        <4> QED BY <2>1, <4>1, AllFit, Sharers
      <3> QED BY <1>0, <3>1, <3>2, AllFit
    <2> QED BY <1>k, <2>1, <2>2 DEF Fit, Usable
  <1>5. CASE FinishLogin(p)
    BY <1>0, <1>5, <1>i DEF FinishLogin, Return, Goto, Claims
  <1>6. CASE RevokeIssued(p)
    <2>1. /\ pc[p] = "undo" /\ op' = op /\ pc'[p] = "restore" /\ newest' = newest
          /\ live \ {op[p].issued.grant} \subseteq live'
      BY <1>0, <1>6 DEF RevokeIssued, Goto, Revoke
    <2>2. op[p].issued.grant # op[p].previous.grant
      BY <2>1, AllFit
    <2> QED BY <1>k, <2>1, <2>2 DEF Fit, Usable
  <1>7. CASE RestoreCredentials(p)
    <2>1. pc'[p] \in {"idle", "restoreProfile"}
      BY <1>0, <1>7 DEF RestoreCredentials, Goto, Return
    <2> QED BY <2>1 DEF Fit
  <1>8. CASE Rotate(p)
    <2>1. CASE Return(p, "failed")
      BY <1>0, <2>1, <1>i DEF Return, Claims
    <2>2. CASE ~Return(p, "failed")
      <3> DEFINE s == op[p].previous
      <3>1. PICK answered \in Answers(s) :
               /\ Honoured(s)
               /\ op' = [op EXCEPT ![p].issued = [grant |-> s.grant, token |-> Carried(s, answered)]]
               /\ newest' = IF s.grant \in Rotating THEN [newest EXCEPT ![s.grant] = answered]
                                                    ELSE newest
               /\ pc' = [pc EXCEPT ![p] = "store"]
        BY <1>8, <2>2 DEF Rotate, Goto
      <3>2. pc[p] = "rotate" /\ live' = live /\ creds' = creds
        BY <1>8 DEF Rotate
      <3>3. /\ c # Missing /\ s # Missing /\ c.grant = s.grant /\ s.token <= c.token
        BY <1>k, <3>2 DEF Known, Fit
      <3>4. /\ s \in Credentials /\ s.token \in Nat /\ s.grant \in Grants /\ s.token # 0
            /\ newest[s.grant] = s.token /\ s.grant \in live
        BY <1>0, <3>1, <3>3, AccountBounds DEF Credentials, Honoured
      <3>5. /\ s.token = c.token
            /\ c.grant \in Rotating =>
                  \A q \in Processes : pc[q] = "store" => Name(q) # Name(p)
        BY <3>1, <3>2, AllFit, Honest
      <3>6. /\ op'[p].issued = [grant |-> s.grant, token |-> Carried(s, answered)]
            /\ op'[p].previous = s /\ op'[p].name = Name(p) /\ pc'[p] = "store"
        BY <1>0, <3>1 DEF Command, Name
      <3>7. /\ Carried(s, answered) = IF s.grant \in Rotating THEN s.token + 1 ELSE s.token
            /\ newest'[s.grant] = Carried(s, answered)
        BY <3>1, <3>4 DEF Answers, Carried, TypeOK
      <3>8. Usable(op[p].issued)'
        BY <3>2, <3>4, <3>6, <3>7 DEF Usable
      <3>9. c.grant \in Rotating => \A q \in Processes : pc'[q] = "store" /\ Name(q)' = Name(p) => q = p
        BY <3>5, OthersStay DEF Name
      <3>10. creds'[op'[p].name] = c /\ op'[p].previous.token <= c.token
        BY <3>2, <3>3, <3>6
      <3>11. op'[p].issued.token = IF c.grant \in Rotating THEN c.token + 1 ELSE c.token
        BY <3>3, <3>5, <3>6, <3>7
      <3> QED BY <3>6, <3>8, <3>9, <3>10, <3>11 DEF Fit, Name
    <2> QED BY <2>1, <2>2
  <1>9. CASE StoreRefreshed(p) \/ Forget(p)
    BY <1>0, <1>9, <1>i DEF StoreRefreshed, Forget, Return, Claims
  <1>10. CASE RevokeGrant(p)
    BY <1>0, <1>10 DEF RevokeGrant, Goto, Fit
  <1> QED BY <1>1, <1>2, <1>3, <1>4, <1>5, <1>6, <1>7, <1>8, <1>9, <1>10, QuietSteps

\* The stored credentials of every profile stay usable, or its command is about to
\* replace them.
LEMMA StoredStep ==
    ASSUME TokensBefore, NEW p \in Processes, Step(p), NEW n \in Profiles, creds'[n] # Missing
    PROVE  Usable(creds[n])' \/ \E q \in Processes : Name(q)' = n /\ Repairs(q)'
  <1> USE DEF TokensBefore
  <1>0. /\ pc[p] \in Places /\ pc \in [Processes -> Places]
        /\ op[p] \in Command /\ op \in [Processes -> Command] /\ Name(p) \in Profiles
        /\ creds \in [Profiles -> Credentials \cup {Missing}]
        /\ \A q \in Processes \ {p} : pc'[q] = pc[q] /\ op'[q] = op[q]
    BY OthersStay DEF TypeOK, Command, Name
  <1>k. Known(p) /\ Fit(p)
    BY AllFit
  <1>1. ASSUME NEW q \in Processes \ {p}, Name(q) = n, Repairs(q)
        PROVE  Name(q)' = n /\ Repairs(q)'
    BY <1>0, <1>1 DEF Repairs, Name
  <1>2. ASSUME creds'[n] = creds[n], ~(n = Name(p) /\ Repairs(p)),
               Usable(creds[n]) => Usable(creds[n])'
        PROVE  Usable(creds[n])' \/ \E q \in Processes : Name(q)' = n /\ Repairs(q)'
    BY <1>1, <1>2, AllFit
  <1>3. CASE n # Name(p)
    <2>1. creds'[n] = creds[n] /\ creds[n] \in Credentials
      BY <1>0, <1>3, StoreEffects
    <2>2. PICK c \in Credentials : c = creds[n]
      BY <2>1
    <2>3. Usable(c)' <=> Usable(c)
      BY <1>3, <2>2, Elsewhere DEF Holds
    <2> QED BY <1>2, <1>3, <2>1, <2>2, <2>3 DEF Usable
  <1>4. CASE n = Name(p)
    <2>1. CASE Quiet(p)
      <3>1. ~Repairs(p)
        BY <2>1 DEF Quiet, Repairs
      <3> QED BY <1>2, <2>1, <3>1 DEF Quiet, Usable
    <2>2. CASE Authorize(p)
      <3>1. pc[p] = "authorize" /\ creds' = creds
        BY <2>2 DEF Authorize
      <3>2. creds[n] \in Credentials /\ creds[n].grant \in Grants
        BY <1>0, <3>1 DEF Credentials
      <3>3. creds[n].grant # grants + 1
        <4>1. Holds(n, creds[n].grant)
          BY DEF Holds
        <4> QED BY <3>2, <4>1, AccountBounds DEF Owned, TypeOK, Grants
      <3>4. Usable(creds[n]) => Usable(creds[n])'
        BY <3>1, <3>2, <3>3, Touched DEF Usable
      <3> QED BY <1>2, <3>1, <3>4 DEF Repairs
    <2>3. CASE Discard(p)
      <3>1. /\ pc[p] = "discard" /\ creds' = creds /\ newest' = newest
            /\ live \ {op[p].issued.grant} \subseteq live'
        BY <2>3 DEF Discard, RevokeUnusable, Revoke
      <3>2. creds[n] = op[p].previous /\ op[p].issued.grant # op[p].previous.grant
        BY <1>k, <1>4, <3>1 DEF Known
      <3> QED BY <1>2, <3>1, <3>2 DEF Repairs, Usable
    <2>4. CASE SaveLogin(p)
      <3>1. pc[p] = "save" /\ live' = live /\ newest' = newest
        BY <2>4 DEF SaveLogin, server
      <3>2. CASE creds' = creds
        BY <1>2, <3>1, <3>2 DEF Repairs, Usable
      <3>3. CASE creds' = [creds EXCEPT ![Name(p)] = op[p].issued]
        BY <1>0, <1>4, <1>k, <3>1, <3>3 DEF Fit, Usable
      <3> QED BY <2>4, <3>2, <3>3 DEF SaveLogin
    <2>5. CASE FinishLogin(p)
      <3>1. /\ pc[p] = "finish" /\ creds' = creds /\ newest' = newest
            /\ live \ {op[p].previous.grant} \subseteq live'
        BY <2>5 DEF FinishLogin, Revoke, server
      <3>2. creds[n] = op[p].issued /\ op[p].issued.grant # op[p].previous.grant
        BY <1>k, <1>4, <3>1 DEF Known
      <3> QED BY <1>2, <3>1, <3>2 DEF Repairs, Usable
    <2>6. CASE RevokeIssued(p) \/ RevokeGrant(p)
      BY <1>0, <1>4, <2>6 DEF RevokeIssued, RevokeGrant, Goto, Repairs, Name
    <2>7. CASE RestoreCredentials(p)
      <3>1. /\ pc[p] = "restore" /\ live' = live /\ newest' = newest
            /\ creds' = [creds EXCEPT ![Name(p)] = op[p].previous]
        BY <2>7 DEF RestoreCredentials, server, Befalls, Restored
      <3> QED BY <1>0, <1>4, <1>k, <3>1 DEF Fit, Usable
    <2>8. CASE Rotate(p)
      <3>1. pc[p] = "rotate" /\ creds' = creds /\ live' = live
        BY <2>8 DEF Rotate
      <3>2. CASE newest' = newest
        BY <1>2, <3>1, <3>2 DEF Repairs, Usable
      <3>3. CASE newest' # newest
        <4>1. pc' = [pc EXCEPT ![p] = "store"] /\ op'[p].name = op[p].name
          BY <1>0, <2>8, <3>3 DEF Rotate, Befalls, Goto, Command
        <4> QED BY <1>0, <1>4, <4>1 DEF Repairs, Name
      <3> QED BY <3>2, <3>3
    <2>9. CASE StoreRefreshed(p)
      <3>1. pc[p] = "store" /\ live' = live /\ newest' = newest
        BY <2>9 DEF StoreRefreshed, server
      <3>2. Usable(op[p].issued)
        BY <1>k, <3>1 DEF Fit
      <3>3. CASE creds' = [creds EXCEPT ![Name(p)] = op[p].issued]
        BY <1>0, <1>4, <3>1, <3>2, <3>3 DEF Usable
      <3>4. CASE creds' = creds /\ op[p].issued = op[p].previous
        <4>1. /\ op[p].issued.grant = creds[n].grant
              /\ op[p].issued.token = IF creds[n].grant \in Rotating THEN creds[n].token + 1
                                                                    ELSE creds[n].token
              /\ op[p].previous.token <= creds[n].token
          BY <1>4, <1>k, <3>1 DEF Known, Fit
        <4>2. creds[n].token \in Nat
          BY <1>0, <3>4, AccountBounds DEF Credentials
        <4>3. op[p].issued.token = creds[n].token
          BY <3>4, <4>1, <4>2
        <4> QED BY <3>1, <3>2, <3>4, <4>1, <4>3 DEF Usable
      <3> QED BY <2>9, <3>3, <3>4 DEF StoreRefreshed, Befalls
    <2>10. CASE Forget(p)
      <3>1. creds' = [creds EXCEPT ![Name(p)] = Missing]
        BY <2>10 DEF Forget, Befalls
      <3> QED BY <1>0, <1>4, <3>1
    <2> QED BY <2>1, <2>2, <2>3, <2>4, <2>5, <2>6, <2>7, <2>8, <2>9, <2>10, QuietSteps
  <1> QED BY <1>3, <1>4

\* No step but a mishap leaves credentials behind that the server refuses.
LEMMA TokensStep ==
    ASSUME TypeOK, KindsOK, Alone, Owned, StoreKnown, TokensKnown, NEW p \in Processes, Step(p)
    PROVE  TokensKnown'
  <1> SUFFICES ASSUME mishaps' \cap {"overlap", "halfway", "lost", "unstored", "unrestored"} = {}
               PROVE  /\ \A n \in Profiles : creds'[n] # Missing =>
                            Usable(creds[n])' \/ \E q \in Processes : Name(q)' = n /\ Repairs(q)'
                      /\ \A q \in Processes : Fit(q)'
    BY DEF TokensKnown, Spared
  <1>1. TokensBefore
    BY DEF TokensBefore
  <1> QED BY <1>1, StoredStep, FitSelf, FitOthers

-----------------------------------------------------------------------------
(* Live grants are answered for.                                            *)

\* A grant that a profile's credentials or a command will use, revoke or put back.
Answered(g) ==
    \/ \E n \in Profiles : creds[n].grant = g
    \/ \E p \in Processes :
          \/ pc[p] \in {"discard", "save", "undo"} /\ op[p].issued.grant = g
          \/ pc[p] \in {"upsert", "finish", "undo", "restore"} /\ op[p].previous.grant = g

\* No step but a mishap leaves a live grant that nobody answers for.
LEMMA GrantsStep ==
    ASSUME TypeOK, KindsOK, Alone, Owned, StoreKnown, GrantsKnown, NEW p \in Processes, Step(p)
    PROVE  GrantsKnown'
  <1> SUFFICES ASSUME mishaps' \cap {"overlap", "abandoned", "lost", "unrevoked", "unrestored"} = {}
               PROVE  /\ \A g \in live' : Answered(g)'
                      /\ \A q \in Processes : pc'[q] = "forget" => op'[q].previous.grant \notin live'
                      /\ \A q \in Processes : pc'[q] = "restore" => op'[q].issued.grant \notin live'
    BY DEF GrantsKnown, Answered, Spared
  <1>0. /\ pc[p] \in Places /\ pc \in [Processes -> Places]
        /\ op[p] \in Command /\ op \in [Processes -> Command] /\ Name(p) \in Profiles
        /\ creds \in [Profiles -> Credentials \cup {Missing}]
        /\ \A q \in Processes \ {p} : pc'[q] = pc[q] /\ op'[q] = op[q]
        /\ mishaps \subseteq mishaps'
    BY OthersStay DEF TypeOK, Command, Name
  <1>1. /\ \A g \in live : Answered(g)
        /\ \A q \in Processes : pc[q] = "forget" => op[q].previous.grant \notin live
        /\ \A q \in Processes : pc[q] = "restore" => op[q].issued.grant \notin live
        /\ Known(p)
    BY <1>0 DEF GrantsKnown, Answered, Spared, StoreKnown
  <1>2. live \subseteq Grants /\ grants \in Nat /\ 0 \notin Grants
    BY AccountBounds DEF TypeOK, Grants
  <1>3. live' \subseteq live \cup {grants + 1} /\ (~Authorize(p) => live' \subseteq live)
    BY QuietSteps DEF Quiet, Authorize, Issued, Discard, SaveLogin, FinishLogin, RevokeIssued,
       RevokeUnusable, RestoreCredentials, Rotate, StoreRefreshed, RevokeGrant, Forget, Revoke, server
  <1>4. \A q \in Processes : op[q].previous.grant # grants + 1 /\ op[q].issued.grant # grants + 1
    <2> SUFFICES ASSUME NEW q \in Processes, NEW g, g \in {op[q].previous.grant, op[q].issued.grant},
                        g = grants + 1
                 PROVE  FALSE
      OBVIOUS
    <2>1. g \in Grants \cup {0} /\ Name(q) \in Profiles
      BY DEF TypeOK, Command, Credentials, Missing, Name
    <2>2. g \in Grants => g <= grants
      BY <2>1 DEF Owned, Holds
    <2> QED BY <1>2, <2>1, <2>2
  <1>5. ASSUME NEW q \in Processes, pc'[q] = "forget" PROVE op'[q].previous.grant \notin live'
    <2>1. CASE q # p
      BY <1>0, <1>1, <1>3, <1>4, <1>5, <2>1
    <2>2. CASE q = p
      <3>1. RevokeGrant(p)
        BY <1>0, <1>5, <2>2, QuietSteps DEF Quiet, Authorize, Discard, SaveLogin, FinishLogin,
           RevokeIssued, RestoreCredentials, Rotate, StoreRefreshed, Forget, Goto, Return
      <3>2. op' = op /\ live' = live \ {op[p].previous.grant}
        BY <3>1 DEF RevokeGrant, Revoke, Befalls
      <3> QED BY <2>2, <3>2
    <2> QED BY <2>1, <2>2
  <1>6. ASSUME NEW q \in Processes, pc'[q] = "restore" PROVE op'[q].issued.grant \notin live'
    <2>1. CASE q # p
      BY <1>0, <1>1, <1>3, <1>4, <1>6, <2>1
    <2>2. CASE q = p
      <3>1. RevokeIssued(p)
        BY <1>0, <1>6, <2>2, QuietSteps DEF Quiet, Authorize, Discard, SaveLogin, FinishLogin,
           RevokeGrant, RestoreCredentials, Rotate, StoreRefreshed, Forget, Goto, Return
      <3>2. op' = op /\ live' = live \ {op[p].issued.grant}
        BY <3>1 DEF RevokeIssued, Revoke, Befalls
      <3> QED BY <2>2, <3>2
    <2> QED BY <2>1, <2>2
  <1>7. ASSUME NEW g \in live' PROVE Answered(g)'
    <2>1. CASE g \notin live
      <3>1. Authorize(p) /\ g = grants + 1
        BY <1>3, <1>7, <2>1
      <3>2. ~UNCHANGED server
        BY <1>7, <2>1 DEF server
      <3>3. PICK token \in {0, 1}, client \in Clients :
               /\ Issued(token)
               /\ op' = [op EXCEPT ![p] =
                      [@ EXCEPT !.issued = [grant |-> grants', token |-> token],
                                !.client = client]]
               /\ pc' = [pc EXCEPT ![p] = "save"] \/ pc' = [pc EXCEPT ![p] = "discard"]
        BY <3>1, <3>2 DEF Authorize, Goto, Befalls
      <3>4. op'[p].issued = [grant |-> grants', token |-> token] /\ grants' = grants + 1
        BY <1>0, <3>3 DEF Command, Issued
      <3>5. op'[p].issued.grant = g /\ pc'[p] \in {"discard", "save"}
        BY <1>0, <3>1, <3>3, <3>4
      <3> QED BY <3>5 DEF Answered
    <2>2. CASE g \in live /\ \E n \in Profiles : creds[n].grant = g
      <3>1. PICK n \in Profiles : creds[n].grant = g
        BY <2>2
      <3>2. CASE creds'[n] = creds[n]
        BY <3>1, <3>2 DEF Answered
      <3>3. CASE creds'[n] # creds[n]
        <4>1. n = Name(p) /\ pc[p] \in {"save", "restore", "store", "forget"}
          BY <1>0, <3>3, StoreEffects
        <4>2. CASE SaveLogin(p)
          <5>1. pc'[p] = "upsert" /\ op' = op /\ creds[n] = op[p].previous
            BY <1>0, <1>1, <3>3, <4>1, <4>2 DEF SaveLogin, Goto, Known
          <5> QED BY <3>1, <5>1 DEF Answered
        <4>3. CASE RestoreCredentials(p)
          <5>1. creds'[n] = op[p].previous /\ op[p].issued.grant \notin live
            BY <1>0, <1>1, <3>3, <4>1, <4>3 DEF RestoreCredentials, Restored
          <5>2. creds[n] \in {op[p].issued, op[p].previous}
            BY <1>1, <4>1, <4>3 DEF Known, RestoreCredentials
          <5> QED BY <2>2, <3>1, <3>3, <5>1, <5>2
        <4>4. CASE StoreRefreshed(p)
          <5>1. creds'[n] = op[p].issued /\ pc[p] = "store"
            BY <1>0, <3>3, <4>1, <4>4 DEF StoreRefreshed
          <5>2. op[p].issued.grant = g
            BY <1>1, <3>1, <4>1, <5>1 DEF Known
          <5> QED BY <5>1, <5>2 DEF Answered
        <4>5. CASE Forget(p)
          <5>1. creds[n] = op[p].previous /\ op[p].previous.grant \notin live
            BY <1>1, <4>1, <4>5 DEF Known, Forget
          <5> QED BY <2>2, <3>1, <5>1
        <4> QED BY <3>3, <4>1, <4>2, <4>3, <4>4, <4>5, QuietSteps
               DEF Quiet, Authorize, Discard, FinishLogin, RevokeIssued, Rotate, RevokeGrant
      <3> QED BY <3>2, <3>3
    <2>3. CASE g \in live /\ \E q \in Processes :
                  \/ pc[q] \in {"discard", "save", "undo"} /\ op[q].issued.grant = g
                  \/ pc[q] \in {"upsert", "finish", "undo", "restore"} /\ op[q].previous.grant = g
      <3>1. PICK q \in Processes :
                  \/ pc[q] \in {"discard", "save", "undo"} /\ op[q].issued.grant = g
                  \/ pc[q] \in {"upsert", "finish", "undo", "restore"} /\ op[q].previous.grant = g
        BY <2>3
      <3>2. CASE q # p
        BY <1>0, <3>1, <3>2 DEF Answered
      <3>3. CASE q = p /\ pc[p] \in {"discard", "save", "undo"} /\ op[p].issued.grant = g
        <4>1. CASE Quiet(p)
          BY <3>3, <4>1 DEF Quiet
        <4>2. CASE Discard(p) \/ RevokeIssued(p)
          <5>1. live' = live \ {op[p].issued.grant}
            BY <4>2 DEF Discard, RevokeIssued, RevokeUnusable, Revoke, Befalls
          <5> QED BY <1>7, <3>3, <5>1
        <4>3. CASE SaveLogin(p)
          <5>1. CASE creds' = [creds EXCEPT ![Name(p)] = op[p].issued]
            <6>1. creds'[Name(p)].grant = g
              BY <1>0, <3>3, <5>1
            <6> QED BY <1>0, <6>1 DEF Answered
          <5>2. CASE pc' = [pc EXCEPT ![p] = "undo"] /\ op' = op
            BY <1>0, <3>3, <5>2 DEF Answered
          <5> QED BY <4>3, <5>1, <5>2 DEF SaveLogin, Goto
        <4> QED BY <3>3, <4>1, <4>2, <4>3, QuietSteps DEF Authorize, FinishLogin,
               RestoreCredentials, Rotate, StoreRefreshed, RevokeGrant, Forget
      <3>4. CASE q = p /\ pc[p] \in {"upsert", "finish", "undo", "restore"} /\ op[p].previous.grant = g
        <4>1. CASE Quiet(p)
          <5>1. pc'[p] \in {"finish", "undo"} /\ op'[p].previous = op[p].previous
            BY <3>4, <4>1 DEF Quiet
          <5> QED BY <3>4, <5>1 DEF Answered
        <4>2. CASE FinishLogin(p)
          <5>1. op[p].previous # Missing
            BY <1>2, <2>3, <3>4 DEF Missing
          <5>2. live' = live \ {op[p].previous.grant}
            BY <4>2, <5>1 DEF FinishLogin, Revoke, Befalls
          <5> QED BY <1>7, <3>4, <5>2
        <4>3. CASE RevokeIssued(p)
          <5>1. pc'[p] = "restore" /\ op' = op
            BY <1>0, <4>3 DEF RevokeIssued, Goto
          <5> QED BY <3>4, <5>1 DEF Answered
        <4>4. CASE RestoreCredentials(p)
          <5>1. creds'[Name(p)] = op[p].previous
            BY <1>0, <4>4 DEF RestoreCredentials, Restored, Befalls
          <5> QED BY <1>0, <3>4, <5>1 DEF Answered
        <4> QED BY <3>4, <4>1, <4>2, <4>3, <4>4, QuietSteps DEF Authorize, Discard, SaveLogin,
               Rotate, StoreRefreshed, RevokeGrant, Forget
      <3> QED BY <3>1, <3>2, <3>3, <3>4
    <2> QED BY <1>1, <2>1, <2>2, <2>3 DEF Answered
  <1> QED BY <1>5, <1>6, <1>7

-----------------------------------------------------------------------------
(* A login finds its profile as it left it.                                 *)

\* An update of one profile leaves the others, and makes none of them the default.
LEMMA UpdateElsewhere ==
    ASSUME NEW f \in File, NEW u, u.name \in Profiles, u.client \in Entries,
           NEW n \in Profiles, n # u.name
    PROVE  \A g \in {CreateProfile(u, f), UpsertProfile(u, f), DeleteProfile(u, f),
                     RestoreProfile(u, f), SetDefault(f, u.name)} :
               g.clients[n] = f.clients[n] /\ (g.default = n => f.default = n)
  <1>1. ASSUME NEW entry
        PROVE  /\ SetEntry(f, u.name, entry).clients[n] = f.clients[n]
               /\ SetEntry(f, u.name, entry).default = f.default
    BY DEF SetEntry, File
  <1>2. ASSUME NEW g, NEW d
        PROVE  SetDefault(g, d) = [g EXCEPT !.default = d]
    BY DEF SetDefault
  <1>3. ASSUME NEW entry, NEW d
        PROVE  /\ SetDefault(SetEntry(f, u.name, entry), d).clients[n] = f.clients[n]
               /\ SetDefault(SetEntry(f, u.name, entry), d).default = d
    BY DEF SetDefault, SetEntry, File
  <1>4. SetDefault(f, u.name).clients[n] = f.clients[n] /\ SetDefault(f, u.name).default = u.name
    BY DEF SetDefault, File
  <1>5. n # NoProfile
    BY ProfilesAssumption
  <1>6. CreateProfile(u, f).clients[n] = f.clients[n] /\ (CreateProfile(u, f).default = n => f.default = n)
    BY <1>1, <1>3 DEF CreateProfile
  <1>7. UpsertProfile(u, f).clients[n] = f.clients[n] /\ (UpsertProfile(u, f).default = n => f.default = n)
    BY <1>1, <1>3 DEF UpsertProfile
  <1>8. DeleteProfile(u, f).clients[n] = f.clients[n] /\ (DeleteProfile(u, f).default = n => f.default = n)
    BY <1>1, <1>3, <1>5 DEF DeleteProfile
  <1>9. RestoreProfile(u, f).clients[n] = f.clients[n] /\ (RestoreProfile(u, f).default = n => f.default = n)
    BY <1>1, <1>3, <1>5 DEF RestoreProfile
  <1> QED BY <1>4, <1>6, <1>7, <1>8, <1>9

\* Only four places write the configuration, and they leave the other profiles.
LEMMA FileElsewhere ==
    ASSUME TypeOK, KindsOK, NEW p \in Processes, Step(p),
           pc[p] = "restoreProfile" => op[p].profile.name = Name(p)
    PROVE  \/ file' = file
           \/ /\ pc[p] \in {"create", "default", "upsert", "restoreProfile", "remove"}
              /\ pc[p] = "upsert" => pc'[p] = "finish"
              /\ pc[p] = "restoreProfile" => pc'[p] = "idle"
              /\ \A n \in Profiles \ {Name(p)} :
                    /\ file'.clients[n] = file.clients[n]
                    /\ file'.default = n => file.default = n
  <1>0. /\ pc[p] \in Places /\ pc \in [Processes -> Places] /\ file \in File
        /\ op[p] \in Command /\ Name(p) \in Profiles /\ NoClient \in Entries
        /\ op[p].client \in Entries /\ op[p].profile \in Snapshot
    BY DEF TypeOK, Command, Name, Entries
  <1>1. ASSUME NEW kind \in {"create", "default", "delete"}, Updated(p, kind)
        PROVE  \A n \in Profiles \ {Name(p)} : /\ file'.clients[n] = file.clients[n]
                                               /\ file'.default = n => file.default = n
    <2>1. PICK u : u = [NoUpdate EXCEPT !.kind = kind, !.name = Name(p)]
      OBVIOUS
    <2>2. u.name = Name(p) /\ u.kind = kind /\ u.client \in Entries
      BY <1>0, <2>1 DEF NoUpdate
    <2>3. file' \in {CreateProfile(u, file), SetDefault(file, u.name), DeleteProfile(u, file)}
      BY <1>1, <2>1, <2>2 DEF Updated, Effect
    <2> QED BY <1>0, <2>2, <2>3, UpdateElsewhere
  <1>2. CASE PrepareProfile(p)
    BY <1>1, <1>2 DEF PrepareProfile
  <1>3. CASE RemoveProfile(p)
    BY <1>1, <1>3 DEF RemoveProfile
  <1>4. CASE RecordProfile(p)
    <2>1. PICK u : u = [NoUpdate EXCEPT !.kind = "upsert", !.name = Name(p), !.client = op[p].client]
      OBVIOUS
    <2>2. u.name = Name(p) /\ u.client \in Entries
      BY <1>0, <2>1 DEF NoUpdate
    <2>3. file' = file \/ (file' = UpsertProfile(u, file) /\ pc'[p] = "finish")
      BY <1>0, <1>4, <2>1 DEF RecordProfile, Goto
    <2>4. pc[p] = "upsert"
      BY <1>4 DEF RecordProfile
    <2> QED BY <1>0, <2>2, <2>3, <2>4, UpdateElsewhere
  <1>5. CASE RestoreMetadata(p)
    <2>1. PICK u : u = [NoUpdate EXCEPT !.kind = "restore", !.name = op[p].profile.name,
                                        !.client = op[p].profile.client, !.default = op[p].profile.default]
      OBVIOUS
    <2>2. pc[p] = "restoreProfile" /\ pc'[p] = "idle"
      BY <1>0, <1>5 DEF RestoreMetadata, Return
    <2>3. u.name = Name(p) /\ u.client \in Entries
      BY <1>0, <2>1, <2>2 DEF NoUpdate, Snapshot
    <2>4. file' = file \/ file' = RestoreProfile(u, file)
      BY <1>5, <2>1 DEF RestoreMetadata
    <2> QED BY <1>0, <2>2, <2>3, <2>4, UpdateElsewhere
  <1>6. CASE ~(PrepareProfile(p) \/ RemoveProfile(p) \/ RecordProfile(p) \/ RestoreMetadata(p))
    BY <1>6 DEF Step, Login, Other, Begin, Die, Offer, LookUpProfile, LookUpStatus,
       CaptureCredentials, CaptureProfile, Authorize, Discard, SaveLogin, FinishLogin, VerifyLogin,
       RevokeIssued, RestoreCredentials, LoadCredentials, Rotate, StoreRefreshed, RevokeGrant,
       Forget, CheckSignedOut
  <1> QED BY <1>2, <1>3, <1>4, <1>5, <1>6

\* Where a login has captured its profile and not recorded it.
Unrecorded == {"authorize", "discard", "save", "upsert", "undo", "restore", "restoreProfile"}

\* Where a login gets there.
LEMMA UnrecordedSteps ==
    ASSUME TypeOK, KindsOK, NEW p \in Processes, Step(p), pc'[p] \in Unrecorded
    PROVE  /\ file' = file /\ op'[p].name = Name(p)
           /\ \/ pc[p] \in Unrecorded /\ op'[p].profile = op[p].profile
              \/ op'[p].profile = SnapshotOf(file, Name(p))
  <1>0. /\ pc[p] \in Places /\ pc \in [Processes -> Places]
        /\ op[p] \in Command /\ op \in [Processes -> Command]
    BY DEF TypeOK
  <1>1. CASE Begin(p)
    BY <1>0, <1>1 DEF Begin, First, Commands, SignIns, Unrecorded
  <1>2. CASE Offer(p) \/ LookUpProfile(p) \/ PrepareProfile(p) \/ LookUpStatus(p)
             \/ CaptureCredentials(p) \/ VerifyLogin(p) \/ LoadCredentials(p) \/ CheckSignedOut(p)
             \/ RemoveProfile(p)
    BY <1>0, <1>2 DEF Offer, LookUpProfile, PrepareProfile, LookUpStatus, CaptureCredentials,
       VerifyLogin, LoadCredentials, CheckSignedOut, RemoveProfile, Goto, Return, Unrecorded
  <1>3. CASE CaptureProfile(p)
    BY <1>0, <1>3 DEF CaptureProfile, Goto, Return, Unrecorded, Command, Name
  <1>4. CASE Authorize(p)
    <2>1. pc[p] = "authorize" /\ file' = file
      BY <1>4 DEF Authorize
    <2>2. CASE Return(p, "failed")
      BY <1>0, <2>2 DEF Return, Unrecorded
    <2>3. CASE \E c, client : op' = [op EXCEPT ![p] = [@ EXCEPT !.issued = c, !.client = client]]
      <3>1. op'[p].name = Name(p) /\ op'[p].profile = op[p].profile
        BY <1>0, <2>3 DEF Command, Name
      <3> QED BY <2>1, <3>1 DEF Unrecorded
    <2> QED BY <1>4, <2>2, <2>3 DEF Authorize
  <1>5. CASE Discard(p) \/ FinishLogin(p) \/ RestoreMetadata(p) \/ Die(p)
    BY <1>0, <1>5 DEF Discard, FinishLogin, RestoreMetadata, Die, Goto, Return, Unrecorded
  <1>6. CASE SaveLogin(p) \/ RevokeIssued(p) \/ RestoreCredentials(p)
    BY <1>0, <1>6 DEF SaveLogin, RevokeIssued, RestoreCredentials, Goto, Return, Unrecorded, Name
  <1>7. CASE RecordProfile(p)
    BY <1>0, <1>7 DEF RecordProfile, Goto, Return, Unrecorded, Command, Name
  <1>8. CASE Rotate(p) \/ StoreRefreshed(p) \/ RevokeGrant(p) \/ Forget(p)
    BY <1>0, <1>8 DEF Rotate, StoreRefreshed, RevokeGrant, Forget, Goto, Return, Unrecorded
  <1> QED BY <1>1, <1>2, <1>3, <1>4, <1>5, <1>6, <1>7, <1>8 DEF Step, Login, Other

\* Nothing that writes the configuration runs beside such a login for its profile.
LEMMA WritersApart ==
    ASSUME KindsOK, Apart, Alone, mishaps \cap {"overlap", "deletion"} = {},
           NEW p \in Processes, NEW q \in Processes, p # q, pc[q] \in Unrecorded,
           pc[p] \in {"create", "default", "upsert", "restoreProfile", "remove"}
    PROVE  Name(p) # Name(q)
  <1>1. /\ Active(p) /\ Active(q) /\ op[q].kind \in SignIns
        /\ op[p].kind \in SignIns \cup {"delete"}
    BY DEF KindsOK, KindAt, WithProfile, Unrecorded, Active
  <1> QED BY <1>1 DEF Apart, Alone, Spared

\* Nothing changes the profile of a login that may have to put it back.
LEMMA ProfileStep ==
    ASSUME TypeOK, KindsOK, Apart, Alone, ProfileKnown, NEW p \in Processes, Step(p)
    PROVE  ProfileKnown'
  <1> SUFFICES ASSUME mishaps' \cap {"overlap", "deletion"} = {},
                      NEW q \in Processes, pc'[q] \in Unrecorded
               PROVE  /\ op'[q].profile.name = op'[q].name
                      /\ file'.clients[op'[q].name] = op'[q].profile.client
                      /\ file'.default = op'[q].name => op'[q].profile.default = op'[q].name
    BY DEF ProfileKnown, Unrecorded, Name, Spared
  <1>1. mishaps \cap {"overlap", "deletion"} = {}
        /\ \A r \in Processes \ {p} : pc'[r] = pc[r] /\ op'[r] = op[r]
    BY OthersStay
  <1>2. \A r \in Processes : pc[r] \in Unrecorded =>
           /\ op[r].profile.name = Name(r)
           /\ file.clients[Name(r)] = op[r].profile.client
           /\ file.default = Name(r) => op[r].profile.default = Name(r)
    BY <1>1 DEF ProfileKnown, Unrecorded, Spared
  <1>3. CASE q = p
    <2>1. file' = file /\ op'[q].name = Name(p)
      BY <1>3, UnrecordedSteps
    <2>2. CASE pc[p] \in Unrecorded /\ op'[p].profile = op[p].profile
      BY <1>2, <1>3, <2>1, <2>2
    <2>3. CASE op'[p].profile = SnapshotOf(file, Name(p))
      BY <1>3, <2>1, <2>3 DEF SnapshotOf
    <2> QED BY <1>3, <2>2, <2>3, UnrecordedSteps
  <1>4. CASE q # p
    <2>1. pc[q] \in Unrecorded /\ op'[q] = op[q] /\ Name(q) \in Profiles
      BY <1>1, <1>4 DEF TypeOK, Command, Name
    <2>2. pc[p] = "restoreProfile" => op[p].profile.name = Name(p)
      BY <1>2 DEF Unrecorded
    <2>3. CASE file' = file
      BY <1>2, <2>1, <2>3 DEF Name
    <2>4. CASE file' # file
      <3>1. Name(p) # Name(q)
        BY <1>1, <1>4, <2>1, <2>2, <2>4, FileElsewhere, WritersApart
      <3>2. file'.clients[Name(q)] = file.clients[Name(q)] /\ (file'.default = Name(q) => file.default = Name(q))
        BY <2>1, <2>2, <2>4, <3>1, FileElsewhere
      <3> QED BY <1>2, <2>1, <3>2 DEF Name
    <2> QED BY <2>3, <2>4
  <1> QED BY <1>3, <1>4

-----------------------------------------------------------------------------
\* The inductive invariant: who runs beside whom, whose each grant is, and what a command
\* knows of its profile's credentials, of their tokens, of live grants and of its profile.
StoreInv == /\ TypeOK /\ KindsOK /\ Apart /\ CredentialsHaveProfile /\ CountedOn
            /\ Alone /\ Owned /\ StoreKnown /\ TokensKnown /\ GrantsKnown /\ ProfileKnown

\* At first at most the first profile is signed in, with the newest token of a live grant.
LEMMA StoreInit == Init => StoreInv
  <1> SUFFICES ASSUME Init PROVE StoreInv
    OBVIOUS
  <1>0. AInv
    BY AccountsInit
  <1>1. \A p \in Processes : /\ pc[p] = "idle" /\ ~Active(p)
                             /\ op[p].previous.grant = 0 /\ op[p].issued.grant = 0
    BY DEF Init, NoCommand, Missing, Active
  <1>2. /\ live = 1..grants /\ newest = [g \in Grants |-> IF g \in live THEN 1 ELSE 0]
        /\ \/ creds = [n \in Profiles |-> Missing] /\ grants = 0
           \/ /\ creds = [n \in Profiles |-> IF n = CHOOSE m \in Profiles : TRUE
                                             THEN [grant |-> 1, token |-> 1] ELSE Missing]
              /\ grants = 1
    BY Zenon DEF Init
  <1>3. PICK first : first = CHOOSE m \in Profiles : TRUE
    OBVIOUS
  <1>4. first \in Profiles /\ 1 \in Grants /\ 0 \notin Grants /\ Missing.grant = 0
    BY <1>3, ProfilesAssumption, AccountBounds DEF Grants, Missing
  <1>5. \/ /\ \A n \in Profiles : creds[n] = Missing
           /\ live = {}
        \/ /\ \A n \in Profiles : creds[n] = IF n = first THEN [grant |-> 1, token |-> 1] ELSE Missing
           /\ live = {1} /\ newest[1] = 1 /\ grants = 1
    BY <1>2, <1>3, <1>4
  <1>6. Owned
    BY <1>1, <1>4, <1>5 DEF Owned, Holds
  <1>7. Alone /\ StoreKnown /\ ProfileKnown
    BY <1>1 DEF Alone, StoreKnown, ProfileKnown, Known
  <1>8. TokensKnown
    BY <1>1, <1>5 DEF TokensKnown, Usable, Fit
  <1>9. GrantsKnown
    BY <1>1, <1>4, <1>5 DEF GrantsKnown
  <1> QED BY <1>0, <1>6, <1>7, <1>8, <1>9 DEF StoreInv, AInv

\* The parts put together.
LEMMA StoreStep == StoreInv /\ [Next]_vars => StoreInv'
  <1>1. ASSUME StoreInv, NEW p \in Processes, Step(p) PROVE StoreInv'
    <2>1. AInv'
      BY <1>1, AccountsStep DEF StoreInv, AInv
    <2>2. Alone' /\ Owned' /\ StoreKnown' /\ TokensKnown' /\ GrantsKnown' /\ ProfileKnown'
      BY <1>1, AloneStep, OwnedStep, KnownStep, TokensStep, GrantsStep, ProfileStep DEF StoreInv
    <2> QED BY <2>1, <2>2 DEF StoreInv, AInv
  <1>2. ASSUME StoreInv, UNCHANGED vars PROVE StoreInv'
    <2> USE <1>2 DEF vars, server, Spared, Active, Name
    <2>1. TypeOK' /\ KindsOK' /\ Apart' /\ CountedOn' /\ CredentialsHaveProfile'
      BY DEF StoreInv, TypeOK, KindsOK, KindAt, Apart, CountedOn, CredentialsHaveProfile, Configured
    <2>2. Alone' /\ Owned' /\ ProfileKnown'
      BY DEF StoreInv, Alone, Owned, Holds, ProfileKnown
    <2>3. StoreKnown' /\ GrantsKnown'
      BY DEF StoreInv, StoreKnown, Known, GrantsKnown
    <2>4. TokensKnown'
      BY DEF StoreInv, TokensKnown, Fit, Usable, Repairs
    <2> QED BY <2>1, <2>2, <2>3, <2>4 DEF StoreInv
  <1> QED BY <1>1, <1>2 DEF Next, Step

\* The server, the credential store and the configuration agree with what every command
\* knows, whatever fails: it holds for any processes, profiles, grants and mishaps.
THEOREM AccountsAgree == Spec => []StoreInv
  BY StoreInit, StoreStep, PTL DEF Spec

\* What is stored when no command runs can be used, unless sign-ins overlapped or a token
\* was lost on the way: the grant is live and the refresh token its newest.
THEOREM StoredStaysUsable == Spec => []StoredUsable
  <1>1. StoreInv => StoredUsable
    <2> SUFFICES ASSUME StoreInv, AtRest,
                        Spared({"overlap", "halfway", "lost", "unstored", "unrestored"}),
                        NEW n \in Profiles, creds[n] # Missing
                 PROVE  Usable(creds[n])
      BY DEF StoredUsable, Usable
    <2>1. \A p \in Processes : ~Repairs(p)
      BY DEF AtRest, Active, Repairs
    <2> QED BY <2>1 DEF StoreInv, TokensKnown
  <1> QED BY <1>1, AccountsAgree, PTL

\* No login, failed or not, leaves a live grant that no profile holds, unless its revocation
\* failed or its process died.
THEOREM GrantsCleanedUp == Spec => []NoOrphanGrant
  <1>1. StoreInv => NoOrphanGrant
    <2> SUFFICES ASSUME StoreInv, AtRest,
                        Spared({"overlap", "abandoned", "lost", "unrevoked", "unrestored"}),
                        NEW g \in live
                 PROVE  \E n \in Profiles : creds[n].grant = g
      BY DEF NoOrphanGrant
    <2>1. \A p \in Processes : pc[p] \in {"idle", "dead"}
      BY DEF AtRest, Active
    <2> QED BY <2>1 DEF StoreInv, GrantsKnown
  <1> QED BY <1>1, AccountsAgree, PTL

\* A login that fails puts the credentials, the profile and its being the default back.
THEOREM FailedLoginLeavesNothing == Spec => FailedLoginRestores
  <1> DEFINE Restores ==
        \A p \in Processes :
            /\ pc[p] \in Unrecorded
            /\ pc'[p] = "idle" /\ told'[p] = "failed"
            /\ mishaps' \cap {"overlap", "deletion", "unrestored"} = {}
            => /\ creds'[Name(p)] = op[p].previous
               /\ file'.clients[Name(p)] = op[p].profile.client
               /\ file'.default = Name(p) => op[p].profile.default = Name(p)
  <1>1. StoreInv /\ [Next]_vars => [Restores]_vars
    <2> SUFFICES ASSUME StoreInv, Next, NEW p \in Processes, pc[p] \in Unrecorded,
                        pc'[p] = "idle", told'[p] = "failed",
                        mishaps' \cap {"overlap", "deletion", "unrestored"} = {}
                 PROVE  /\ creds'[Name(p)] = op[p].previous
                        /\ file'.clients[Name(p)] = op[p].profile.client
                        /\ file'.default = Name(p) => op[p].profile.default = Name(p)
      OBVIOUS
    <2>0. TypeOK /\ KindsOK
      BY DEF StoreInv
    <2>1. PICK r \in Processes : Step(r)
      BY DEF Next, Step
    <2>2. r = p
      <3>1. pc[p] # "idle"
        BY DEF Unrecorded
      <3> QED BY <2>0, <2>1, <3>1, OthersStay
    <2>3. Step(p)
      BY <2>1, <2>2
    <2>4. mishaps \subseteq mishaps' /\ mishaps \cap {"overlap", "deletion", "unrestored"} = {}
      BY <2>0, <2>3, OthersStay
    <2>5. /\ Known(p) /\ op[p].profile.name = Name(p)
          /\ file.clients[Name(p)] = op[p].profile.client
          /\ file.default = Name(p) => op[p].profile.default = Name(p)
      BY <2>4 DEF StoreInv, StoreKnown, ProfileKnown, Spared, Unrecorded
    <2>6. /\ pc \in [Processes -> Places] /\ op[p] \in Command /\ Name(p) \in Profiles
          /\ creds \in [Profiles -> Credentials \cup {Missing}] /\ file \in File
          /\ op[p].profile \in Snapshot
      BY <2>0 DEF TypeOK, Command, Name
    <2>7. Authorize(p) \/ Discard(p) \/ RestoreCredentials(p) \/ RestoreMetadata(p)
      <3>1. ~Begin(p) /\ ~Die(p)
        BY <2>6 DEF Begin, Die, Unrecorded
      <3>2. ~SaveLogin(p) /\ ~RecordProfile(p) /\ ~RevokeIssued(p)
        BY <2>6 DEF SaveLogin, RecordProfile, RevokeIssued, Goto
      <3> QED BY <2>3, <3>1, <3>2 DEF Step, Login, Other, Unrecorded, Offer, LookUpProfile,
             PrepareProfile, LookUpStatus, CaptureCredentials, CaptureProfile, FinishLogin,
             VerifyLogin, LoadCredentials, Rotate, StoreRefreshed, RevokeGrant, Forget,
             CheckSignedOut, RemoveProfile
    <2>8. CASE Authorize(p) \/ Discard(p)
      <3>1. creds' = creds /\ file' = file /\ pc[p] \in {"authorize", "discard"}
        BY <2>8 DEF Authorize, Discard
      <3> QED BY <2>5, <3>1 DEF Known
    <2>9. CASE RestoreCredentials(p)
      <3>1. creds' = [creds EXCEPT ![Name(p)] = op[p].previous] /\ file' = file
        BY <2>9 DEF RestoreCredentials, Befalls, Restored
      <3> QED BY <2>5, <2>6, <3>1
    <2>10. CASE RestoreMetadata(p)
      <3>1. creds' = creds /\ pc[p] = "restoreProfile"
        BY <2>10 DEF RestoreMetadata
      <3>2. creds'[Name(p)] = op[p].previous
        BY <2>5, <3>1 DEF Known
      <3>3. PICK u : u = [NoUpdate EXCEPT !.kind = "restore", !.name = op[p].profile.name,
                                          !.client = op[p].profile.client,
                                          !.default = op[p].profile.default]
        OBVIOUS
      <3>4. file' = RestoreProfile(u, file)
        BY <2>10, <3>3 DEF RestoreMetadata, Befalls
      <3>5. u.name = Name(p) /\ u.client = op[p].profile.client /\ u.default = op[p].profile.default
        BY <2>5, <3>3 DEF NoUpdate
      <3>6. file'.clients[Name(p)] = op[p].profile.client
        BY <2>6, <3>4, <3>5 DEF RestoreProfile, SetEntry, SetDefault, File
      <3>7. file'.default = Name(p) => file.default = Name(p)
        BY <2>6, <3>4, <3>5, ProfilesAssumption DEF RestoreProfile, SetEntry, SetDefault, File
      <3> QED BY <2>5, <3>2, <3>6, <3>7
    <2> QED BY <2>7, <2>8, <2>9, <2>10
  <1>2. Restores <=>
          \A p \in Processes :
            /\ pc[p] \in {"authorize", "discard", "save", "upsert", "undo", "restore",
                          "restoreProfile"}
            /\ pc'[p] = "idle" /\ told'[p] = "failed"
            /\ mishaps' \cap {"overlap", "deletion", "unrestored"} = {}
            => /\ creds'[Name(p)] = op[p].previous
               /\ file'.clients[Name(p)] = op[p].profile.client
               /\ file'.default = Name(p) => op[p].profile.default = Name(p)
    BY DEF Unrecorded
  <1> QED BY <1>1, <1>2, AccountsAgree, PTL DEF Spec, FailedLoginRestores
=============================================================================
