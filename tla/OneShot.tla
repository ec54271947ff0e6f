------------------------------ MODULE OneShot -------------------------------
(***************************************************************************)
(* A command that asks the server one thing: internal/app/app.go, with the *)
(* project selector of internal/config/project.go.                         *)
(*                                                                         *)
(* Which profile it runs as is decided by a flag, by the nearest           *)
(* .talento/config.json the user has approved, or by the configured        *)
(* default; twice, once when the command offers to sign in (commands/      *)
(* setup.go) and once when it connects. The selector is a file of the      *)
(* project: others replace it, rewrite it in place and move its directory  *)
(* while it is read and while the user is asked about it, and other        *)
(* processes change the configuration.                                     *)
(*                                                                         *)
(* Level 1 is the working directory, level 2 its parent, and so on. A file *)
(* has two halves, so that a read and a write of it take two steps.        *)
(***************************************************************************)
EXTENDS Naturals, FiniteSets, FiniteSetsExt

CONSTANTS
    Processes,
    Levels,      \* 1..n
    Profiles,
    NoProfile,
    Contents,    \* what a whole file may say: [profile, digest]
    NoContent,
    MaxChanges,  \* bound: changes by others, to the files or the configuration
    MaxCommands  \* bound: commands

ASSUME OneShotBounds ==
    /\ IsFiniteSet(Levels) /\ Levels = 1..Cardinality(Levels) /\ Levels # {}
    /\ \A c \in Contents : c.profile \in Profiles
    /\ MaxChanges \in Nat /\ MaxCommands \in Nat

VARIABLES
    marker,    \* marker[l]: the .talento directory of a level, 0 if it has none
    path,      \* path[l]: the file config.json in it is, 0 if there is none
    data,      \* data[i]: the two halves of file i
    stamp,     \* stamp[i]: how often it was written: its size and modification time
    changes, begun,
    configured, default, trust,  \* the configuration
    pc,
    op,        \* the command of each process and its locals
    approved   \* history: the contents the user has approved at each level

files  == <<marker, path, data, stamp>>
disk   == <<files, changes>>
config == <<configured, default, trust>>
vars   == <<disk, config, begun, pc, op, approved>>

Inodes == 1..(Cardinality(Levels) + MaxChanges)
Halves == Contents \X Contents
Kinds  == {"call", "trust", "untrust"}

NoCommand ==
    [kind |-> "call", flag |-> NoProfile, asks |-> FALSE, yes |-> FALSE, round |-> 1,
     configured |-> {}, default |-> NoProfile,
     trust |-> [l \in Levels |-> NoContent], level |-> 1, marker |-> 0, inode |-> 0,
     stamp |-> 0, first |-> NoContent, read |-> NoContent,
     once |-> [l \in Levels |-> NoContent], \* projectOnce
     profile |-> NoProfile,
     whole |-> {},                          \* history: what the file was while it was read
     known |-> {},                          \* history: what was approved
     signedIn |-> NoProfile]                \* history: the profile just signed in to

Places == {"idle", "load", "locate", "marker", "inspect", "open", "readFirst", "readSecond",
           "restat", "relstat", "remarker", "parse", "prompt", "always", "default", "offer",
           "record", "forget", "connect", "preview", "confirm"}

TypeOK ==
    /\ marker \in [Levels -> 0..MaxChanges + 1]
    /\ path \in [Levels -> {0} \cup Inodes]
    /\ data \in [Inodes -> Halves] /\ stamp \in [Inodes -> 0..2 * MaxChanges]
    /\ changes \in 0..MaxChanges /\ begun \in 0..MaxCommands
    /\ configured \subseteq Profiles /\ default \in configured \cup {NoProfile}
    /\ trust \in [Levels -> Contents \cup {NoContent}]
    /\ pc \in [Processes -> Places]
    /\ \A p \in Processes :
          /\ DOMAIN op[p] = DOMAIN NoCommand /\ op[p].level \in Levels
          /\ pc[p] \in {"prompt", "always", "record"} => op[p].read \in Contents
          /\ op[p].yes => ~op[p].asks
          /\ pc[p] \in {"connect", "preview", "confirm"} => op[p].profile \in Profiles
    /\ approved \subseteq Levels \X Contents

-----------------------------------------------------------------------------
Goto(p, place) == pc' = [pc EXCEPT ![p] = place]

\* A command that failed, was turned down or is done.
Return(p) ==
    /\ pc' = [pc EXCEPT ![p] = "idle"]
    /\ op' = [op EXCEPT ![p] = NoCommand]

\* A profile is selected: the offer comes first, then the connection.
GoOn(p) == Goto(p, IF op[p].round = 1 THEN "offer" ELSE "connect")

\* A command, or profile trust-project or untrust-project. One that may ask resolves the
\* profile first to see whether it has to offer a sign-in.
Begin(p) ==
    /\ pc[p] = "idle" /\ begun < MaxCommands
    /\ begun' = begun + 1
    /\ \/ \E flag \in Profiles \cup {NoProfile}, asks, yes \in BOOLEAN :
             /\ ~(asks /\ yes)
             /\ op' = [op EXCEPT ![p] = [NoCommand EXCEPT !.flag = flag, !.asks = asks, !.yes = yes,
                                                         !.round = IF asks THEN 1 ELSE 2]]
             /\ Goto(p, "load")
       \/ \E kind \in {"trust", "untrust"} :
             /\ op' = [op EXCEPT ![p] = [NoCommand EXCEPT !.kind = kind]]
             /\ Goto(p, "locate")
    /\ UNCHANGED <<disk, config, approved>>

\* ResolveProfile: the configuration, and the flag or the environment.
LoadConfig(p) ==
    /\ pc[p] = "load"
    /\ \/ Return(p)
       \/ /\ op[p].flag = NoProfile
          /\ op' = [op EXCEPT ![p] = [@ EXCEPT !.configured = configured, !.default = default,
                                               !.trust = trust, !.known = approved]]
          /\ Goto(p, "locate")
       \/ /\ op[p].flag \in configured
          /\ op' = [op EXCEPT ![p].profile = op[p].flag]
          /\ GoOn(p)
    /\ UNCHANGED <<disk, config, begun, approved>>

-----------------------------------------------------------------------------
(* DiscoverProjectProfile.                                                  *)

\* LocateProjectConfig: one level. A directory without the file shadows nothing.
Locate(p) ==
    /\ pc[p] = "locate"
    /\ LET l == op[p].level
       IN  \/ /\ marker[l] # 0 /\ path[l] # 0
              /\ Goto(p, IF op[p].kind = "untrust" THEN "forget" ELSE "marker")
              /\ UNCHANGED op
           \/ /\ marker[l] = 0 \/ path[l] = 0
              /\ l + 1 \in Levels
              /\ op' = [op EXCEPT ![p].level = l + 1]
              /\ UNCHANGED pc
           \/ /\ marker[l] = 0 \/ path[l] = 0
              /\ l + 1 \notin Levels
              /\ IF op[p].kind = "call" THEN Goto(p, "default") /\ UNCHANGED op ELSE Return(p)
           \/ Return(p)
    /\ UNCHANGED <<disk, config, begun, approved>>

\* Lstat of the directory, then of the file.
InspectMarker(p) ==
    /\ pc[p] = "marker"
    /\ IF marker[op[p].level] = 0 THEN Return(p)
       ELSE /\ op' = [op EXCEPT ![p].marker = marker[op[p].level]]
            /\ Goto(p, "inspect")
    /\ UNCHANGED <<disk, config, begun, approved>>

InspectFile(p) ==
    /\ pc[p] = "inspect"
    /\ IF path[op[p].level] = 0 THEN Return(p)
       ELSE /\ op' = [op EXCEPT ![p].inode = path[op[p].level]]
            /\ Goto(p, "open")
    /\ UNCHANGED <<disk, config, begun, approved>>

\* readStableProjectFile: the file opened must be the one inspected.
Open(p) ==
    /\ pc[p] = "open"
    /\ IF path[op[p].level] # op[p].inode THEN Return(p)
       ELSE /\ op' = [op EXCEPT ![p] = [@ EXCEPT !.stamp = stamp[op[p].inode],
                                                 !.whole = {data[op[p].inode]}]]
            /\ Goto(p, "readFirst")
    /\ UNCHANGED <<disk, config, begun, approved>>

ReadFirst(p) ==
    /\ pc[p] = "readFirst"
    /\ op' = [op EXCEPT ![p].first = data[op[p].inode][1]]
    /\ Goto(p, "readSecond")
    /\ UNCHANGED <<disk, config, begun, approved>>

\* A file whose halves do not belong together parses no more; until then it is kept.
ReadSecond(p) ==
    /\ pc[p] = "readSecond"
    /\ op' = [op EXCEPT ![p].read = data[op[p].inode][2]]
    /\ Goto(p, "restat")
    /\ UNCHANGED <<disk, config, begun, approved>>

\* Mutant of Unchanged: the time of the modification is not compared.
UnchangedFile(o) == TRUE

\* stableFileMetadata, of the open descriptor.
Unchanged(o) == stamp[o.inode] = o.stamp

Restat(p) ==
    /\ pc[p] = "restat"
    /\ IF Unchanged(op[p]) THEN Goto(p, "relstat") /\ UNCHANGED op ELSE Return(p)
    /\ UNCHANGED <<disk, config, begun, approved>>

\* The same of what is under the path by now.
Relstat(p) ==
    /\ pc[p] = "relstat"
    /\ IF path[op[p].level] = op[p].inode /\ Unchanged(op[p])
       THEN Goto(p, "remarker") /\ UNCHANGED op ELSE Return(p)
    /\ UNCHANGED <<disk, config, begun, approved>>

Remarker(p) ==
    /\ pc[p] = "remarker"
    /\ IF marker[op[p].level] = op[p].marker
       THEN Goto(p, "parse") /\ UNCHANGED op ELSE Return(p)
    /\ UNCHANGED <<disk, config, begun, approved>>

-----------------------------------------------------------------------------
(* What the selector is worth.                                              *)

\* Mutant of Trusted: the profile alone is compared.
TrustedProfile(record, read) == record # NoContent /\ record.profile = read.profile

\* ProjectTrustStatus: the record is of exactly these contents.
Trusted(record, read) == record = read

\* hasOnceTrust and the record. Without a terminal to ask at, the command fails.
Parse(p) ==
    /\ pc[p] = "parse"
    /\ LET o == op[p]
       IN  \/ /\ o.first # o.read /\ Return(p)
           \/ /\ o.first = o.read /\ o.kind = "trust"
              /\ Goto(p, "record") /\ UNCHANGED op
           \/ /\ o.first = o.read /\ o.kind = "call"
              /\ IF o.read.profile \notin o.configured THEN Return(p)
                 ELSE IF Trusted(o.trust[o.level], o.read) \/ o.once[o.level] = o.read
                 THEN /\ op' = [op EXCEPT ![p].profile = o.read.profile]
                      /\ GoOn(p)
                 ELSE IF o.asks THEN Goto(p, "prompt") /\ UNCHANGED op
                 ELSE Return(p)
    /\ UNCHANGED <<disk, config, begun, approved>>

\* The user answers for the contents shown, and is heard whatever happened meanwhile.
Prompt(p) ==
    /\ pc[p] = "prompt"
    /\ LET o == op[p]
       IN  \/ Return(p)
           \/ /\ op' = [op EXCEPT ![p] = [@ EXCEPT !.once[o.level] = o.read,
                                                   !.profile = o.read.profile]]
              /\ GoOn(p)
           \/ Goto(p, "always") /\ UNCHANGED op
    /\ UNCHANGED <<disk, config, begun, approved>>

\* TrustProject: of a profile that is configured.
RecordTrust(p) ==
    /\ pc[p] \in {"always", "record"}
    /\ LET o == op[p]
       IN  \/ Return(p) /\ UNCHANGED <<trust, approved>>
           \/ /\ o.read.profile \in configured
              /\ trust' = [trust EXCEPT ![o.level] = o.read]
              /\ approved' = approved \cup {<<o.level, o.read>>}
              /\ IF o.kind = "trust" THEN Return(p)
                 ELSE /\ op' = [op EXCEPT ![p] = [@ EXCEPT !.profile = o.read.profile,
                                                          !.known = approved']]
                      /\ GoOn(p)
    /\ UNCHANGED <<disk, configured, default, begun>>

\* UntrustProject needs the place only.
ForgetTrust(p) ==
    /\ pc[p] = "forget"
    /\ \/ /\ trust' = [trust EXCEPT ![op[p].level] = NoContent]
          /\ approved' = {a \in approved : a[1] # op[p].level}
       \/ UNCHANGED <<trust, approved>>
    /\ Return(p)
    /\ UNCHANGED <<disk, configured, default, begun>>

\* The configured default, or the only profile. Without any profile a command that may
\* ask offers to sign in all the same.
Fallback(o) ==
    {name \in o.configured :
        name = o.default \/ (o.default = NoProfile /\ o.configured = {name})}

UseDefault(p) ==
    /\ pc[p] = "default"
    /\ \/ \E name \in Fallback(op[p]) :
             /\ op' = [op EXCEPT ![p].profile = name]
             /\ GoOn(p)
       \/ /\ op[p].configured = {} /\ op[p].round = 1
          /\ GoOn(p) /\ UNCHANGED op
       \/ Return(p)
    /\ UNCHANGED <<disk, config, begun, approved>>

-----------------------------------------------------------------------------
(* Using it.                                                                *)

\* Mutant of FlagAfter: the sign-in leaves the selection to be made again.
FlagAfterNone(o, signedIn) == o.flag

\* talento.Global.Profile = profile, once the user agreed to sign in.
FlagAfter(o, signedIn) == IF signedIn = NoProfile THEN o.flag ELSE signedIn

\* chooseSetupProfile: a profile that is there becomes the default, another is created.
Choose(name) ==
    /\ configured' = configured \cup {name}
    /\ default' = IF name \in configured \/ configured = {} THEN name ELSE default

\* That, if the profile was chosen, and Service.Login, which records it again; it becomes
\* the default if there is none.
SignIn(name, chosen) ==
    /\ configured' = configured \cup {name}
    /\ default' = IF default = NoProfile \/ (chosen /\ name \in configured) THEN name
                  ELSE default

\* The profile a sign-in is for: the one selected, or else any the user names.
SignInFor(o) == IF o.profile = NoProfile THEN Profiles ELSE {o.profile}

\* maybeOfferAuthentication: the profile is signed in to, the user signs in now, or does
\* not; then MCP resolves the profile again. It may fail with the profile chosen already,
\* or signed in to.
Offer(p) ==
    /\ pc[p] = "offer"
    /\ \/ /\ Return(p)
          /\ \/ UNCHANGED <<configured, default>>
             \/ op[p].profile = NoProfile /\ \E name \in Profiles : Choose(name)
             \/ \E name \in SignInFor(op[p]) : SignIn(name, op[p].profile = NoProfile)
       \/ \E signedIn \in {NoProfile} \cup SignInFor(op[p]) :
             /\ op' = [op EXCEPT ![p] =
                    [NoCommand EXCEPT !.flag = FlagAfter(op[p], signedIn), !.asks = TRUE,
                                      !.once = op[p].once, !.signedIn = signedIn,
                                      !.round = 2]]
             /\ Goto(p, "load")
             /\ IF signedIn = NoProfile THEN UNCHANGED <<configured, default>>
                ELSE SignIn(signedIn, op[p].profile = NoProfile)
    /\ UNCHANGED <<disk, trust, begun, approved>>

\* MCP and executeTool: the token and the session, the tools, the call. Any of these
\* fails, and a call that returns no preview is done.
Request(p) ==
    /\ pc[p] = "connect"
    /\ \/ Return(p)
       \/ /\ op' = [op EXCEPT ![p] = [NoCommand EXCEPT !.profile = op[p].profile,
                                                       !.asks = op[p].asks,
                                                       !.yes = op[p].yes]]
          /\ Goto(p, "preview")
    /\ UNCHANGED <<disk, config, begun, approved>>

\* --yes, or the user's answer to the preview shown. A preview without an id is not
\* confirmed.
Consent(p) ==
    /\ pc[p] = "preview"
    /\ \/ Return(p)
       \/ (op[p].yes \/ op[p].asks) /\ Goto(p, "confirm") /\ UNCHANGED op
    /\ UNCHANGED <<disk, config, begun, approved>>

Confirm(p) ==
    /\ pc[p] = "confirm"
    /\ Return(p)
    /\ UNCHANGED <<disk, config, begun, approved>>

-----------------------------------------------------------------------------
(* What others do meanwhile.                                                *)

Seen(i) == [p \in Processes |->
    IF pc[p] \in {"readFirst", "readSecond", "restat"} /\ op[p].inode = i
    THEN [op[p] EXCEPT !.whole = @ \cup {data'[i]}] ELSE op[p]]

\* A new file takes the place of the old one, or of none.
ReplaceFile(l) ==
    /\ changes < MaxChanges /\ marker[l] # 0
    /\ changes' = changes + 1
    /\ LET i == Cardinality(Levels) + changes'
       IN  /\ path' = [path EXCEPT ![l] = i]
           /\ \E c \in Contents : data' = [data EXCEPT ![i] = <<c, c>>]
    /\ UNCHANGED <<marker, stamp, config, begun, pc, op, approved>>

RemoveFile(l) ==
    /\ changes < MaxChanges /\ path[l] # 0
    /\ changes' = changes + 1
    /\ path' = [path EXCEPT ![l] = 0]
    /\ UNCHANGED <<marker, data, stamp, config, begun, pc, op, approved>>

\* Another directory with another file.
ReplaceMarker(l) ==
    /\ changes < MaxChanges
    /\ changes' = changes + 1
    /\ marker' = [marker EXCEPT ![l] = changes' + 1]
    /\ LET i == Cardinality(Levels) + changes'
       IN  /\ path' = [path EXCEPT ![l] = i]
           /\ \E c \in Contents : data' = [data EXCEPT ![i] = <<c, c>>]
    /\ UNCHANGED <<stamp, config, begun, pc, op, approved>>

\* The file is written in place, the first half first.
Rewrite(l) ==
    /\ path[l] # 0
    /\ LET i == path[l]
           torn == data[i][1] # data[i][2]
       IN  /\ IF torn THEN UNCHANGED changes
                      ELSE changes < MaxChanges /\ changes' = changes + 1
           /\ \E c \in Contents :
                 /\ data[i][1] # c \/ torn
                 /\ data' = [data EXCEPT ![i] = IF torn THEN <<@[1], @[1]>> ELSE <<c, @[2]>>]
           /\ stamp' = [stamp EXCEPT ![i] = @ + 1]
           /\ op' = Seen(i)
    /\ UNCHANGED <<marker, path, config, begun, pc, approved>>

\* A profile is deleted, which its trust outlives, or becomes the default.
Reconfigure ==
    /\ changes < MaxChanges
    /\ changes' = changes + 1
    /\ \E name \in configured :
          \/ default' = name /\ UNCHANGED configured
          \/ /\ configured' = configured \ {name}
             /\ default' = IF default = name THEN NoProfile ELSE default
    /\ UNCHANGED <<files, trust, begun, pc, op, approved>>

Init ==
    /\ marker = [l \in Levels |-> 1]
    /\ \E nearest \in 1..(Cardinality(Levels) + 1) :
          path = [l \in Levels |-> IF l < nearest THEN 0 ELSE l]
    /\ \E c \in Contents : data = [i \in Inodes |-> <<c, c>>]
    /\ stamp = [i \in Inodes |-> 0]
    /\ changes = 0 /\ begun = 0
    /\ configured \in {{}, Profiles} /\ default = NoProfile
    /\ trust = [l \in Levels |-> NoContent]
    /\ pc = [p \in Processes |-> "idle"]
    /\ op = [p \in Processes |-> NoCommand]
    /\ approved = {}

Resolve(p) ==
    \/ LoadConfig(p) \/ Locate(p) \/ InspectMarker(p) \/ InspectFile(p) \/ Open(p)
    \/ ReadFirst(p) \/ ReadSecond(p) \/ Restat(p) \/ Relstat(p) \/ Remarker(p)
    \/ Parse(p) \/ Prompt(p) \/ RecordTrust(p) \/ UseDefault(p)

Next ==
    \/ \E p \in Processes :
          \/ Begin(p) \/ Resolve(p) \/ ForgetTrust(p)
          \/ Offer(p) \/ Request(p) \/ Consent(p) \/ Confirm(p)
    \/ \E l \in Levels : ReplaceFile(l) \/ RemoveFile(l) \/ ReplaceMarker(l) \/ Rewrite(l)
    \/ Reconfigure

Spec == Init /\ [][Next]_vars

-----------------------------------------------------------------------------
\* What is parsed, approved and recorded is what the file was at one moment, although it
\* is read in pieces while others replace, rewrite or move it (readStableProjectFile,
\* project.go:246-300).
ReadOneMoment ==
    \A p \in Processes :
        pc[p] \in {"parse", "prompt", "always", "record"} =>
            <<op[p].first, op[p].read>> \in op[p].whole

\* A command connects as the profile a project names only if the user approved exactly
\* the contents it read, by a record that was in force when it loaded the configuration
\* or by an answer to a question that showed them ("exact-byte SHA-256 and profile. Any
\* mismatch is stale", docs/architecture.md:49-50), whatever became of the file while
\* the user was asked.
ApprovedOnly ==
    \A p \in Processes :
        LET o == op[p]
        IN  pc[p] = "connect" /\ o.flag = NoProfile /\ o.read # NoContent =>
                /\ o.profile = o.read.profile
                /\ <<o.level, o.read>> \in o.known \/ o.once[o.level] = o.read

\* A command for which the user has just signed in to a profile connects as that one,
\* although it selects the profile again (setup.go:579).
SignedInUsed ==
    \A p \in Processes :
        pc[p] = "connect" /\ op[p].signedIn # NoProfile => op[p].profile = op[p].signedIn
=============================================================================
