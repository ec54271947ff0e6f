---------------------------- MODULE ConfigStore -----------------------------
(***************************************************************************)
(* internal/config/store.go: Store.Update run by several processes on one  *)
(* configuration file. The steps are the system calls another process can  *)
(* see: creating, examining and removing the lock file, reading and        *)
(* replacing the configuration. Load and SnapshotProfile take no lock.     *)
(*                                                                         *)
(* A process that dies leaves its lock file behind and stays dead; whoever *)
(* runs the program again is another process. A lock file is old once it   *)
(* has been there for 30 seconds.                                          *)
(***************************************************************************)
EXTENDS ConfigUpdates, Naturals, FiniteSets

CONSTANTS
    Processes,
    KindsAsked,      \* the kinds of update the processes ask for
    Nobody,          \* no lock file
    NoFile,          \* no file of that name
    AtomicReplace,   \* rename replaces the file; FALSE: Windows, two renames
    HoldersMayStall, \* a live holder may keep the lock for over 30 seconds
    MaxCrashes       \* bound: processes that die in the middle of an update

ASSUME ProcessesAssumption == Nobody \notin Processes
ASSUME NoFileAssumption == NoFile \notin File
ASSUME CrashesAssumption == MaxCrashes \in Nat

VARIABLES
    config,    \* the configuration file
    rollback,  \* the .rollback file of the Windows path
    stranded,  \* history: the configuration was left behind as .rollback only
    holder,    \* who created the lock file, Nobody if there is none
    old,       \* it was created more than 30 seconds ago
    pc,
    asked,     \* asked[p]: the update p has called
    work,      \* work[p]: the content p is about to store
    late,      \* late[p]: p has been waiting for more than 5 seconds
    told,      \* told[p]: what p's last call reported, until the next
    snap,      \* snap[p]: the snapshot p holds
    crashes

lockVars == <<holder, old>>
fileVars == <<config, rollback, stranded>>
callVars == <<asked, told, late>>
vars == <<fileVars, lockVars, pc, asked, work, late, told, snap, crashes>>

Places == {"idle", "lock", "stat", "steal", "load", "replace", "moved",
           "done", "undone", "dead"}

Snapshots == [name : Profiles, client : Entries, default : Profiles \cup {NoProfile}]

TypeOK ==
    /\ config \in File \cup {NoFile} /\ rollback \in File \cup {NoFile}
    /\ stranded \in BOOLEAN
    /\ holder \in Processes \cup {Nobody} /\ old \in BOOLEAN
    /\ pc \in [Processes -> Places]
    /\ asked \in [Processes -> Update]
    /\ work \in [Processes -> File]
    /\ late \in [Processes -> BOOLEAN]
    /\ told \in [Processes -> {"none", "ok", "failed"}]
    /\ snap \in [Processes -> Snapshots]
    /\ crashes \in 0..MaxCrashes

Goto(p, place) == pc' = [pc EXCEPT ![p] = place]

\* A file that is not there is an empty configuration.
Load(f) == IF f = NoFile THEN EmptyFile ELSE f

-----------------------------------------------------------------------------
\* The updates a caller may ask for; the arguments a kind ignores are fixed.
Ask(p) ==
    /\ pc[p] = "idle"
    /\ \E u \in Update :
          /\ u.kind \in KindsAsked
          /\ u.kind = "upsert" => u.client \in Clients
          /\ u.kind = "restore" => /\ u.name = snap[p].name
                                   /\ u.client = snap[p].client
                                   /\ u.default = snap[p].default
          /\ u.kind \notin {"upsert", "restore"} => u.client = NoClient
          /\ u.kind # "restore" => u.default = NoProfile
          /\ u.kind \notin {"trust", "untrust"} => u.project = CHOOSE d \in Projects : TRUE
          /\ asked' = [asked EXCEPT ![p] = u]
    /\ told' = [told EXCEPT ![p] = "none"]
    /\ Goto(p, "lock")
    /\ UNCHANGED <<fileVars, lockVars, work, late, snap, crashes>>

\* SnapshotProfile, before a login: it reads without the lock.
Snapshot(p, name) ==
    /\ pc[p] = "idle"
    /\ snap' = [snap EXCEPT ![p] = SnapshotOf(Load(config), name)]
    /\ UNCHANGED <<fileVars, lockVars, pc, asked, work, late, told, crashes>>

Report(p, outcome) ==
    /\ told' = [told EXCEPT ![p] = outcome]
    /\ asked' = [asked EXCEPT ![p] = NoUpdate]
    /\ late' = [late EXCEPT ![p] = FALSE]
    /\ Goto(p, "idle")

\* Mutant of LockIsFree: the lock file is opened without O_EXCL.
LockIsOpened == TRUE

LockIsFree == holder = Nobody

\* acquireLock: O_CREATE|O_EXCL succeeds, finds the file there, or fails.
TryLock(p) ==
    /\ pc[p] = "lock"
    /\ \/ /\ LockIsFree
          /\ holder' = p /\ old' = FALSE
          /\ Goto(p, "load") /\ UNCHANGED callVars
       \/ ~LockIsFree /\ Goto(p, "stat") /\ UNCHANGED <<lockVars, callVars>>
       \/ Report(p, "failed") /\ UNCHANGED lockVars
    /\ UNCHANGED <<fileVars, work, snap, crashes>>

\* Mutant of Overdue: the deadline is not looked at.
NeverOverdue(p) == FALSE

Overdue(p) == late[p]

\* The lock file is looked at again: it may have gone or changed hands since.
Stat(p) ==
    /\ pc[p] = "stat"
    /\ \/ holder # Nobody /\ old /\ Goto(p, "steal") /\ UNCHANGED callVars
       \/ ~(holder # Nobody /\ old) /\ Overdue(p) /\ Report(p, "failed")
       \/ ~(holder # Nobody /\ old) /\ ~Overdue(p) /\ Goto(p, "lock") /\ UNCHANGED callVars
    /\ UNCHANGED <<fileVars, lockVars, work, snap, crashes>>

\* os.Remove(lockPath), whatever is there by now.
RemoveLock == holder' = Nobody /\ old' = FALSE

Steal(p) ==
    /\ pc[p] = "steal"
    /\ RemoveLock
    /\ Goto(p, "lock")
    /\ UNCHANGED <<fileVars, asked, work, late, told, snap, crashes>>

\* Mutant of Accepted: the content is not validated before it is stored.
AcceptedUnchecked(u, f) == Applicable(u, f)

\* The callback returned no error and validateFile agrees.
Accepted(u, f) == Applicable(u, f) /\ Valid(Effect(u, f))

\* Load, the callback and validateFile; the file may also be unreadable.
Compute(p) ==
    /\ pc[p] = "load"
    /\ \/ /\ Accepted(asked[p], Load(config))
          /\ work' = [work EXCEPT ![p] = Effect(asked[p], Load(config))]
          /\ Goto(p, "replace")
       \/ Goto(p, "undone") /\ UNCHANGED work
    /\ UNCHANGED <<fileVars, lockVars, asked, late, told, snap, crashes>>

Forget(p) == work' = [work EXCEPT ![p] = EmptyFile]

\* Mutant of NotReplaced: a failed write or rename is not reported.
NotReplacedUnnoticed(p) == Goto(p, "done")

\* The temporary file could not be written, or not moved: nothing was stored.
NotReplaced(p) == Goto(p, "undone")

\* saveAtomic: the temporary file takes the place of the configuration.
Replace(p) ==
    /\ pc[p] = "replace" /\ AtomicReplace
    /\ \/ config' = work[p] /\ Goto(p, "done")
       \/ NotReplaced(p) /\ UNCHANGED config
    /\ Forget(p)
    /\ UNCHANGED <<rollback, stranded, lockVars, asked, late, told, snap, crashes>>

\* saveAtomic on Windows: an earlier .rollback is removed, if it can be, and the
\* configuration, if there is one, renamed to it.
MoveAside(p) ==
    /\ pc[p] = "replace" /\ ~AtomicReplace
    /\ \/ /\ config # NoFile /\ rollback' = config /\ config' = NoFile
          /\ Goto(p, "moved") /\ UNCHANGED work
       \/ /\ config = NoFile /\ rollback' \in {rollback, NoFile} /\ UNCHANGED config
          /\ Goto(p, "moved") /\ UNCHANGED work
       \/ /\ rollback' \in {rollback, NoFile} /\ UNCHANGED config
          /\ NotReplaced(p) /\ Forget(p)
    /\ UNCHANGED <<stranded, lockVars, asked, late, told, snap, crashes>>

\* The second rename worked; whether .rollback could be removed is not looked at.
MoveIn(p) ==
    /\ pc[p] = "moved"
    /\ config' = work[p] /\ rollback' \in {rollback, NoFile}
    /\ Goto(p, "done") /\ Forget(p)
    /\ UNCHANGED <<stranded, lockVars, asked, late, told, snap, crashes>>

\* Mutant of Restored: the .rollback file is only tidied away.
RestoredNot == config

\* What renaming .rollback back leaves in place after a failed second rename.
Restored == IF rollback = NoFile THEN config ELSE rollback

\* The only copy of the configuration stays where nothing looks for it.
LeftBehind ==
    /\ rollback # NoFile /\ UNCHANGED <<config, rollback>>
    /\ stranded' = TRUE

\* The second rename failed. Renaming back may fail too: that error is dropped.
PutBack(p) ==
    /\ pc[p] = "moved"
    /\ \/ config' = Restored /\ rollback' = NoFile /\ UNCHANGED stranded
       \/ LeftBehind
    /\ Goto(p, "undone") /\ Forget(p)
    /\ UNCHANGED <<lockVars, asked, late, told, snap, crashes>>

\* The deferred release removes the lock file and Update returns.
Release(p) ==
    /\ \/ pc[p] = "done" /\ Report(p, "ok")
       \/ pc[p] = "undone" /\ Report(p, "failed")
    /\ RemoveLock
    /\ UNCHANGED <<fileVars, work, snap, crashes>>

-----------------------------------------------------------------------------
\* Time and failures.
Holds(p) == pc[p] \in {"load", "replace", "moved", "done", "undone"}

FiveSecondsPass(p) ==
    /\ pc[p] \in {"lock", "stat", "steal"} /\ ~late[p]
    /\ late' = [late EXCEPT ![p] = TRUE]
    /\ UNCHANGED <<fileVars, lockVars, pc, asked, work, told, snap, crashes>>

LockAges ==
    /\ holder # Nobody /\ ~old
    /\ HoldersMayStall \/ ~Holds(holder)
    /\ old' = TRUE
    /\ UNCHANGED <<fileVars, holder, pc, asked, work, late, told, snap, crashes>>

\* What the process had in memory dies with it.
Crash(p) ==
    /\ pc[p] \notin {"idle", "dead"} /\ crashes < MaxCrashes
    /\ crashes' = crashes + 1
    /\ \/ pc[p] = "moved" /\ LeftBehind
       \/ (pc[p] = "moved" => rollback = NoFile) /\ UNCHANGED fileVars
    /\ Goto(p, "dead") /\ Forget(p)
    /\ asked' = [asked EXCEPT ![p] = NoUpdate] /\ late' = [late EXCEPT ![p] = FALSE]
    /\ snap' = [snap EXCEPT ![p] = NoSnapshot]
    /\ UNCHANGED <<lockVars, told>>

-----------------------------------------------------------------------------
\* A configuration someone has used before, or none.
Init ==
    /\ config \in {NoFile, SetDefault(SetEntry(EmptyFile, CHOOSE q \in Profiles : TRUE,
                                               NoClient), CHOOSE q \in Profiles : TRUE)}
    /\ rollback = NoFile /\ stranded = FALSE
    /\ holder = Nobody /\ old = FALSE
    /\ pc = [p \in Processes |-> "idle"]
    /\ asked = [p \in Processes |-> NoUpdate]
    /\ work = [p \in Processes |-> EmptyFile]
    /\ late = [p \in Processes |-> FALSE]
    /\ told = [p \in Processes |-> "none"]
    /\ snap = [p \in Processes |->
                  SnapshotOf(Load(config), CHOOSE q \in Profiles : TRUE)]
    /\ crashes = 0

Step(p) ==
    \/ TryLock(p) \/ Stat(p) \/ Steal(p) \/ Compute(p)
    \/ Replace(p) \/ MoveAside(p) \/ MoveIn(p) \/ PutBack(p) \/ Release(p)

Next == \/ LockAges
        \/ \E p \in Processes :
              \/ Ask(p) \/ Step(p) \/ FiveSecondsPass(p) \/ Crash(p)
              \/ \E name \in Profiles : Snapshot(p, name)

Spec == Init /\ [][Next]_vars
-----------------------------------------------------------------------------
(* Properties.                                                              *)

\* The lock file keeps updates apart: two processes are never both between taking
\* the lock and releasing it.
OneWriter == \A p, q \in Processes : Holds(p) /\ Holds(q) => p = q

\* What is stored can always be loaded again: its default profile exists, also
\* when a stale snapshot is restored over changes made since.
FileValid == Valid(Load(config))

\* Once there has been a configuration there is one, on Windows too, or the copy
\* the update in progress will put back.
Kept == config # NoFile \/ rollback # NoFile => config' # NoFile \/ rollback' # NoFile

\* Whatever fails or dies, saveAtomic's rollback path loses no configuration.
NothingLost == [][Kept]_vars

\* It loses none, whichever rename or removal fails and whoever dies, before the
\* configuration was left behind as .rollback only: by a failure to rename it back,
\* or by a death between the two renames. Then the next update removes it.
LostOnlyIfStranded == [][stranded \/ Kept]_vars

\* The configuration is one register (ConfigFile): successful updates are applied
\* one after the other, whole, between call and return; failed ones are not.
CallOf(p) == CASE pc[p] = "idle" -> "none"
               [] pc[p] = "done" -> "applied"
               [] pc[p] = "dead" -> "dead"
               [] OTHER          -> "asked"

Register == INSTANCE ConfigFile WITH
               file <- Load(config), call <- [p \in Processes |-> CallOf(p)]

IsRegister == Register!Spec

\* A process keeps executing its system calls and time passes; no one else's lock
\* has to grow old for an update to return.
Fairness == \A p \in Processes : WF_vars(Step(p)) /\ WF_vars(FiveSecondsPass(p))

FairSpec == Spec /\ Fairness

\* Every Update returns, even if the holder of the lock has died.
UpdatesReturn == \A p \in Processes : pc[p] = "lock" ~> pc[p] \in {"idle", "dead"}
=============================================================================
