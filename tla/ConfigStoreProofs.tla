------------------------- MODULE ConfigStoreProofs --------------------------
(* What holds of ConfigStore for any processes, profiles and clients.        *)
EXTENDS ConfigStore, TLAPS

\* An accepted or refused update leaves a well-formed file.
LEMMA EffectTypes ==
    ASSUME NEW u \in Update, NEW f \in File
    PROVE  Effect(u, f) \in File
<1>1. ASSUME NEW g \in File, NEW name \in Profiles, NEW entry \in Entries
      PROVE  SetEntry(g, name, entry) \in File
  BY DEF SetEntry, File
<1>2. ASSUME NEW g \in File, NEW name \in Profiles \cup {NoProfile}
      PROVE  SetDefault(g, name) \in File
  BY DEF SetDefault, File
<1>3. ASSUME NEW g \in File, NEW project \in Projects, NEW name \in Profiles \cup {NoProfile}
      PROVE  SetTrust(g, project, name) \in File
  BY DEF SetTrust, File
<1>4. NoClient \in Entries /\ Absent \in Entries
  BY DEF Entries
<1>5. /\ u.kind \in UpdateKinds /\ u.name \in Profiles /\ u.client \in Entries
      /\ u.project \in Projects
  BY DEF Update
<1>6. /\ CreateProfile(u, f) \in File /\ UpsertProfile(u, f) \in File
      /\ DeleteProfile(u, f) \in File /\ RestoreProfile(u, f) \in File
  BY <1>1, <1>2, <1>4, <1>5
     DEF CreateProfile, UpsertProfile, DeleteProfile, RestoreProfile
<1>7. QED
  BY <1>2, <1>3, <1>5, <1>6 DEF Effect, UpdateKinds

\* The empty configuration is a configuration.
LEMMA EmptyFileTypes == EmptyFile \in File /\ Valid(EmptyFile)
  BY DEF EmptyFile, File, Entries, Valid

\* So is the update of a process that has not asked for one.
LEMMA NoUpdateTypes == NoUpdate \in Update
<1>1. /\ (CHOOSE q \in Profiles : TRUE) \in Profiles
      /\ (CHOOSE d \in Projects : TRUE) \in Projects
  BY ProfilesAssumption
<1>2. QED
  BY <1>1 DEF NoUpdate, Update, UpdateKinds, Entries

\* And what a process that has taken no snapshot has kept.
LEMMA NoSnapshotTypes == NoSnapshot \in Snapshots
<1>1. (CHOOSE q \in Profiles : TRUE) \in Profiles
  BY ProfilesAssumption
<1>2. QED
  BY <1>1 DEF NoSnapshot, Snapshots, Entries

\* And a snapshot of any configuration.
LEMMA SnapshotTypes ==
    ASSUME NEW f \in File, NEW name \in Profiles
    PROVE  SnapshotOf(f, name) \in Snapshots
  BY DEF SnapshotOf, File, Snapshots

\* Loading gives a configuration, whatever is on disk.
LEMMA LoadTypes ==
    ASSUME NEW f \in File \cup {NoFile}
    PROVE  Load(f) \in File
  BY EmptyFileTypes DEF Load

\* The initial states are well formed.
LEMMA StoreInitTypes == Init => TypeOK
<1> SUFFICES ASSUME Init PROVE TypeOK
  OBVIOUS
<1>1. (CHOOSE q \in Profiles : TRUE) \in Profiles
  BY ProfilesAssumption
<1>2. config \in File \cup {NoFile}
  BY <1>1, EmptyFileTypes DEF Init, SetDefault, SetEntry, File, Entries
<1>3. old \in BOOLEAN /\ late \in [Processes -> BOOLEAN]
  BY DEF Init
<1>4. snap \in [Processes -> Snapshots]
  BY <1>1, <1>2, LoadTypes, SnapshotTypes DEF Init
<1>5. /\ asked \in [Processes -> Update] /\ work \in [Processes -> File]
      /\ told \in [Processes -> {"none", "ok", "failed"}]
      /\ pc \in [Processes -> Places]
  BY EmptyFileTypes, NoUpdateTypes DEF Init, Places
<1>6. crashes = 0 /\ holder = Nobody /\ rollback = NoFile
  BY Zenon DEF Init
<1>10. stranded \in BOOLEAN
  BY Zenon DEF Init
<1>7. 0 \in 0..MaxCrashes
  BY CrashesAssumption
<1>8. QED
  BY <1>2, <1>3, <1>4, <1>5, <1>6, <1>7, <1>10 DEF TypeOK

\* What is recorded as left behind stays so.
LEMMA StrandedTypes ==
    ASSUME stranded \in BOOLEAN, [Next]_vars
    PROVE  stranded' \in BOOLEAN
<1>1. CASE UNCHANGED fileVars
  BY <1>1, Zenon DEF fileVars
<1>2. ASSUME NEW p \in Processes,
             Replace(p) \/ MoveAside(p) \/ MoveIn(p) \/ PutBack(p) \/ Crash(p)
      PROVE  stranded' \in BOOLEAN
  <2>1. stranded' = TRUE \/ stranded' = stranded
    BY <1>2, Zenon DEF Replace, MoveAside, MoveIn, PutBack, Crash, LeftBehind, fileVars
  <2> QED BY <2>1, Zenon
<1> QED
  BY <1>1, <1>2 DEF Next, Step, Ask, Snapshot, TryLock, Stat, Steal, Compute, Release,
         FiveSecondsPass, LockAges, vars

\* Type correctness, action by action.
THEOREM StoreTypes == Spec => []TypeOK
<1>1. Init => TypeOK
  BY StoreInitTypes
<1>2. TypeOK /\ [Next]_vars => TypeOK'
  <2> SUFFICES ASSUME TypeOK, [Next]_vars PROVE TypeOK'
    OBVIOUS
  <2> USE DEF TypeOK
  <2>1. ASSUME NEW p \in Processes, Ask(p) PROVE TypeOK'
    <3>1. PICK u \in Update : asked' = [asked EXCEPT ![p] = u]
      BY <2>1, Zenon DEF Ask
    <3>2. late' \in [Processes -> BOOLEAN] /\ old' \in BOOLEAN
      BY <2>1 DEF Ask, lockVars
    <3>3. QED
      BY <2>1, <3>1, <3>2 DEF Ask, Goto, Places, fileVars, lockVars
  <2>2. ASSUME NEW p \in Processes, NEW name \in Profiles, Snapshot(p, name) PROVE TypeOK'
    <3>1. SnapshotOf(Load(config), name) \in Snapshots
      BY LoadTypes, SnapshotTypes
    <3>2. QED
      BY <2>2, <3>1 DEF Snapshot, fileVars, lockVars
  <2>3. ASSUME NEW p \in Processes, TryLock(p) \/ Stat(p) \/ Steal(p) PROVE TypeOK'
    <3>1. old' \in BOOLEAN
      BY <2>3 DEF TryLock, Stat, Steal, RemoveLock, lockVars
    <3>2. late' \in [Processes -> BOOLEAN]
      BY <2>3 DEF TryLock, Stat, Steal, Report, callVars
    <3>3. QED
      BY <2>3, <3>1, <3>2, NoUpdateTypes
         DEF TryLock, Stat, Steal, RemoveLock, Report, Goto, Places, fileVars, lockVars, callVars
  <2>4. ASSUME NEW p \in Processes, Compute(p) PROVE TypeOK'
    <3>1. Effect(asked[p], Load(config)) \in File
      BY EffectTypes, LoadTypes
    <3>2. QED
      BY <2>4, <3>1 DEF Compute, Goto, Places, fileVars, lockVars
  <2>5. ASSUME NEW p \in Processes, Replace(p) \/ MoveAside(p) \/ MoveIn(p) \/ PutBack(p)
        PROVE  TypeOK'
    <3>1. stranded' \in BOOLEAN
      BY StrandedTypes
    <3>2. /\ config' \in File \cup {NoFile} /\ rollback' \in File \cup {NoFile}
          /\ work' \in [Processes -> File]
      BY <2>5, EmptyFileTypes
         DEF Replace, MoveAside, MoveIn, PutBack, LeftBehind, Restored, Forget
    <3> QED
      BY <2>5, <3>1, <3>2
         DEF Replace, MoveAside, MoveIn, PutBack, NotReplaced, Goto, Places, lockVars
  <2>6. ASSUME NEW p \in Processes, Release(p) PROVE TypeOK'
    BY <2>6, NoUpdateTypes DEF Release, Report, RemoveLock, Goto, Places, fileVars
  <2>7. ASSUME NEW p \in Processes, FiveSecondsPass(p) PROVE TypeOK'
    BY <2>7 DEF FiveSecondsPass, fileVars, lockVars
  <2>8. CASE LockAges
    BY <2>8 DEF LockAges, fileVars
  <2>9. ASSUME NEW p \in Processes, Crash(p) PROVE TypeOK'
    <3>1. stranded' \in BOOLEAN
      BY StrandedTypes
    <3>2. config' = config /\ rollback' = rollback
      BY <2>9 DEF Crash, LeftBehind, fileVars
    <3>3. asked' \in [Processes -> Update] /\ snap' \in [Processes -> Snapshots]
      BY <2>9, NoUpdateTypes, NoSnapshotTypes DEF Crash
    <3>4. late' \in [Processes -> BOOLEAN]
      BY <2>9 DEF Crash
    <3> QED
      BY <2>9, <3>1, <3>2, <3>3, <3>4, EmptyFileTypes, CrashesAssumption
         DEF Crash, Forget, Goto, Places, lockVars
  <2>10. CASE UNCHANGED vars
    BY <2>10 DEF vars, fileVars, lockVars
  <2>11. QED
    BY <2>1, <2>2, <2>3, <2>4, <2>5, <2>6, <2>7, <2>8, <2>9, <2>10 DEF Next, Step
<1>3. QED BY <1>1, <1>2, PTL DEF Spec

-----------------------------------------------------------------------------
(* What is stored is valid: so is all that is about to be.                   *)
AllValid ==
    /\ Valid(Load(config))
    /\ Valid(Load(rollback))
    /\ \A p \in Processes : Valid(work[p])

\* The initial configuration is valid.
LEMMA StoreInitValid == Init => AllValid
<1> SUFFICES ASSUME Init PROVE AllValid
  OBVIOUS
<1>1. (CHOOSE q \in Profiles : TRUE) \in Profiles
  BY ProfilesAssumption
<1>2. ASSUME NEW q \in Profiles
      PROVE  Valid(SetDefault(SetEntry(EmptyFile, q, NoClient), q))
  BY <1>2, ProfilesAssumption, NoFileAssumption
     DEF Valid, Configured, SetDefault, SetEntry, EmptyFile
<1>3. Valid(Load(config)) /\ Valid(Load(rollback))
  BY <1>1, <1>2, EmptyFileTypes DEF Init, Load
<1>4. QED
  BY <1>3, EmptyFileTypes DEF Init, AllValid

\* No interleaving of updates, crashes, stolen locks and restored snapshots leaves
\* a configuration whose default profile does not exist: every content is checked
\* by validateFile after the callback and before it is written.
THEOREM StoredValid == Spec => []FileValid
<1>1. Init => AllValid
  BY StoreInitValid
<1>2. TypeOK /\ AllValid /\ [Next]_vars => AllValid'
  <2> SUFFICES ASSUME TypeOK, AllValid, [Next]_vars PROVE AllValid'
    OBVIOUS
  <2> USE DEF TypeOK, AllValid
  <2>1. ASSUME UNCHANGED fileVars, UNCHANGED work PROVE AllValid'
    BY <2>1 DEF fileVars
  <2>2. ASSUME NEW p \in Processes, Compute(p) PROVE AllValid'
    BY <2>2 DEF Compute, Accepted, fileVars
  <2>3. ASSUME NEW p \in Processes, Replace(p) \/ MoveAside(p) \/ MoveIn(p) \/ PutBack(p)
        PROVE  AllValid'
    <3>1. \A q \in Processes : work'[q] = work[q] \/ work'[q] = EmptyFile
      BY <2>3 DEF Replace, MoveAside, MoveIn, PutBack, Forget
    <3>2. \A q \in Processes : Valid(work'[q])
      BY <3>1, EmptyFileTypes
    <3>3. /\ config' \in {config, rollback, NoFile, work[p]}
          /\ rollback' \in {config, rollback, NoFile}
      BY <2>3 DEF Replace, MoveAside, MoveIn, PutBack, LeftBehind, Restored
    <3>4. Valid(Load(work[p])) /\ Valid(Load(NoFile))
      BY EmptyFileTypes DEF Load
    <3>5. QED
      BY <3>2, <3>3, <3>4
  <2>4. ASSUME NEW p \in Processes, Crash(p) PROVE AllValid'
    BY <2>4, EmptyFileTypes DEF Crash, LeftBehind, Forget, fileVars
  <2>5. QED
    BY <2>1, <2>2, <2>3, <2>4
       DEF Next, Step, Ask, Snapshot, TryLock, Stat, Steal, Release, FiveSecondsPass,
           LockAges, vars
<1>3. AllValid => FileValid
  BY DEF AllValid, FileValid
<1>4. QED BY <1>1, <1>2, <1>3, StoreTypes, PTL DEF Spec

-----------------------------------------------------------------------------
(* The lock, as long as only a dead holder's file grows old and no two others *)
(* can find it: its holder is the one process between taking and releasing it. *)
AtMostTwo == \A p, q, r \in Processes : p = q \/ p = r \/ q = r

LockKept ==
    /\ MaxCrashes = 0 => \A p \in Processes : pc[p] # "dead"
    /\ \A p \in Processes : Holds(p) => holder = p
    /\ holder # Nobody => Holds(holder) \/ pc[holder] = "dead"
    /\ old => holder # Nobody /\ ~Holds(holder)
    /\ \A p \in Processes : pc[p] = "steal" => \E q \in Processes : pc[q] = "dead"

\* The lock files that grow old are those of the dead, and only one process is left to remove
\* one: acquireLock's file has one holder, from taking to releasing it.
LEMMA LockIsKept ==
    ASSUME HoldersMayStall = FALSE, MaxCrashes = 0 \/ AtMostTwo
    PROVE  Spec => []LockKept
<1>1. Init => LockKept
  BY DEF Init, LockKept, Holds
<1>2. TypeOK /\ LockKept /\ [Next]_vars => LockKept'
  <2> SUFFICES ASSUME TypeOK, LockKept, [Next]_vars PROVE LockKept'
    OBVIOUS
  <2> USE DEF LockKept
  <2>1. ASSUME NEW p \in Processes, NEW place \in Places,
               Goto(p, place), UNCHANGED lockVars, pc[p] # "dead",
               place \notin {"steal", "dead"},
               Holds(p) <=> place \in {"load", "replace", "moved", "done", "undone"}
        PROVE  LockKept'
    <3>1. \A q \in Processes : /\ Holds(q)' <=> Holds(q)
                               /\ pc'[q] = "dead" <=> pc[q] = "dead"
                               /\ pc'[q] = "steal" => pc[q] = "steal"
      BY <2>1 DEF Goto, Holds, TypeOK
    <3>2. holder' = holder /\ old' = old /\ holder \in Processes \cup {Nobody}
      BY <2>1 DEF lockVars, TypeOK
    <3>3. holder # Nobody => (Holds(holder)' <=> Holds(holder))
      BY <3>1, <3>2 DEF Holds
    <3> QED BY <3>1, <3>2, <3>3 DEF Holds
  <2>2. ASSUME UNCHANGED <<lockVars, pc>> PROVE LockKept'
    BY <2>2 DEF lockVars, Holds
  <2>3. ASSUME NEW p \in Processes, Ask(p) PROVE LockKept'
    BY <2>1, <2>3 DEF Ask, Places, Holds
  <2>4. ASSUME NEW p \in Processes, NEW name \in Profiles, Snapshot(p, name) PROVE LockKept'
    BY <2>2, <2>4 DEF Snapshot
  <2>5. ASSUME NEW p \in Processes, TryLock(p) PROVE LockKept'
    <3>1. CASE LockIsFree /\ holder' = p /\ old' = FALSE /\ Goto(p, "load")
      <4>1. \A q \in Processes : ~Holds(q)
        BY <3>1, ProcessesAssumption DEF LockIsFree
      <4>2. /\ \A q \in Processes : Holds(q)' <=> q = p
            /\ \A q \in Processes : pc[q] = "dead" <=> pc'[q] = "dead"
            /\ \A q \in Processes : pc'[q] = "steal" => pc[q] = "steal"
        BY <2>5, <3>1, <4>1 DEF Goto, Holds, TypeOK, TryLock
      <4>3. Holds(holder)'
        BY <3>1 DEF Goto, Holds, TypeOK
      <4> QED BY <3>1, <4>2, <4>3
    <3>2. CASE UNCHANGED lockVars /\ (Goto(p, "stat") \/ Goto(p, "idle"))
      BY <2>1, <2>5, <3>2 DEF TryLock, Places, Holds
    <3>3. QED
      BY <2>5, <3>1, <3>2 DEF TryLock, Report
  <2>6. ASSUME NEW p \in Processes, Stat(p) PROVE LockKept'
    <3>1. CASE Goto(p, "idle") \/ Goto(p, "lock")
      BY <2>1, <2>6, <3>1 DEF Stat, Places, Holds
    <3>2. CASE holder # Nobody /\ old /\ Goto(p, "steal")
      <4>1. holder \in Processes /\ pc[holder] = "dead" /\ pc[p] = "stat"
        BY <2>6, <3>2 DEF Stat, TypeOK
      <4>2. /\ \A q \in Processes : Holds(q)' <=> Holds(q)
            /\ \A q \in Processes : pc[q] = "dead" <=> pc'[q] = "dead"
        BY <3>2, <4>1 DEF Goto, Holds, TypeOK
      <4>3. holder' = holder /\ old' = old
        BY <2>6 DEF Stat, lockVars
      <4>4. ~Holds(holder)' /\ pc'[holder] = "dead"
        BY <4>1, <4>2, <4>3 DEF Holds
      <4> QED BY <4>1, <4>2, <4>3, <4>4
    <3> QED BY <2>6, <3>1, <3>2 DEF Stat, Report
  <2>7. ASSUME NEW p \in Processes, Compute(p) \/ Replace(p) \/ MoveAside(p) \/ MoveIn(p) \/ PutBack(p)
        PROVE  LockKept'
    <3>1. /\ \E place \in {"replace", "moved", "done", "undone"} : Goto(p, place)
          /\ Holds(p) /\ UNCHANGED lockVars
      BY <2>7 DEF Compute, Replace, MoveAside, MoveIn, PutBack, NotReplaced, Holds
    <3>2. PICK place \in {"replace", "moved", "done", "undone"} : Goto(p, place)
      BY <3>1
    <3>3. pc[p] # "dead"
      BY <3>1 DEF Holds
    <3>4. QED
      BY <2>1, <3>1, <3>2, <3>3 DEF Places
  <2>8. ASSUME NEW p \in Processes, Release(p) PROVE LockKept'
    <3>1. /\ Holds(p) /\ holder' = Nobody /\ old' = FALSE /\ Goto(p, "idle") /\ pc[p] # "dead"
      BY <2>8 DEF Release, Report, RemoveLock, Holds
    <3>2. \A q \in Processes : /\ ~Holds(q)'
                               /\ pc[q] = "dead" <=> pc'[q] = "dead"
                               /\ pc'[q] = "steal" => pc[q] = "steal"
      BY <3>1 DEF Goto, Holds, TypeOK
    <3> QED BY <3>1, <3>2
  <2>9. ASSUME NEW p \in Processes, Steal(p) PROVE LockKept'
    <3>1. /\ pc[p] = "steal" /\ holder' = Nobody /\ old' = FALSE /\ Goto(p, "lock")
      BY <2>9 DEF Steal, RemoveLock
    <3>2. PICK dead \in Processes : pc[dead] = "dead"
      BY <3>1
    <3>3. AtMostTwo
      BY <3>2
    <3>4. \A q \in Processes : q = p \/ q = dead
      BY <3>1, <3>2, <3>3 DEF AtMostTwo
    <3>5. \A q \in Processes : /\ ~Holds(q)'
                               /\ pc[q] = "dead" <=> pc'[q] = "dead"
                               /\ pc'[q] # "steal"
      BY <3>1, <3>2, <3>4 DEF Goto, Holds, TypeOK
    <3> QED BY <3>1, <3>5
  <2>10. ASSUME NEW p \in Processes, FiveSecondsPass(p) PROVE LockKept'
    BY <2>2, <2>10 DEF FiveSecondsPass
  <2>11. CASE LockAges
    BY <2>11 DEF LockAges, Holds
  <2>12. ASSUME NEW p \in Processes, Crash(p) PROVE LockKept'
    <3>1. Goto(p, "dead") /\ UNCHANGED lockVars /\ MaxCrashes # 0
      BY <2>12, CrashesAssumption DEF Crash, TypeOK
    <3>2. \A q \in Processes : /\ Holds(q)' => Holds(q)
                               /\ pc'[q] = IF q = p THEN "dead" ELSE pc[q]
      BY <3>1 DEF Goto, Holds, TypeOK
    <3>3. holder' = holder /\ old' = old /\ holder \in Processes \cup {Nobody}
      BY <3>1 DEF lockVars, TypeOK
    <3>4. holder # Nobody => Holds(holder)' \/ pc'[holder] = "dead"
      BY <3>2, <3>3 DEF Holds
    <3>5. old => ~Holds(holder)'
      BY <3>2, <3>3 DEF Holds
    <3> QED BY <3>1, <3>2, <3>3, <3>4, <3>5
  <2>13. QED
    BY <2>2, <2>3, <2>4, <2>5, <2>6, <2>7, <2>8, <2>9, <2>10, <2>11, <2>12 DEF Next, Step, vars
<1>3. QED BY <1>1, <1>2, StoreTypes, PTL DEF Spec

\* Processes that hold the lock for less than 30 seconds update the configuration one at a
\* time: however many there are if they stay alive, and any two of which either may die.
THEOREM OneWriterAtATime ==
    ASSUME HoldersMayStall = FALSE, MaxCrashes = 0 \/ AtMostTwo
    PROVE  Spec => []OneWriter
<1>1. LockKept => OneWriter
  BY DEF LockKept, OneWriter
<1>2. QED BY <1>1, LockIsKept, PTL

-----------------------------------------------------------------------------
(* The Windows path.                                                         *)

\* A configuration that is only there as the .rollback file is being replaced, or was
\* left behind.
CopyInUse ==
    config = NoFile /\ rollback # NoFile => stranded \/ \E p \in Processes : pc[p] = "moved"

\* The process between the two renames is the one that has the lock; its death, or a
\* failure to rename back, strands the copy.
LEMMA CopyIsInUse ==
    ASSUME HoldersMayStall = FALSE, MaxCrashes = 0 \/ AtMostTwo
    PROVE  Spec => []CopyInUse
<1>1. Init => CopyInUse
  BY DEF Init, CopyInUse
<1>2. TypeOK /\ LockKept /\ CopyInUse /\ [Next]_vars => CopyInUse'
  <2> SUFFICES ASSUME TypeOK, LockKept, CopyInUse, [Next]_vars,
                      config' = NoFile, rollback' # NoFile
               PROVE  stranded' \/ \E p \in Processes : pc'[p] = "moved"
    BY DEF CopyInUse
  <2>1. CASE stranded' = TRUE
    BY <2>1
  <2>2. ASSUME NEW p \in Processes, MoveAside(p), ~NotReplaced(p)
        PROVE  \E q \in Processes : pc'[q] = "moved"
    BY <2>2 DEF MoveAside, Goto, TypeOK
  <2>3. ASSUME NEW p \in Processes, MoveAside(p), NotReplaced(p) PROVE stranded'
    <3>1. \A q \in Processes : pc[q] # "moved"
      BY <2>3 DEF MoveAside, LockKept, Holds
    <3>2. pc'[p] = "undone"
      BY <2>3 DEF NotReplaced, Goto, TypeOK
    <3>3. config' = config /\ rollback # NoFile
      BY <2>3, <3>2 DEF MoveAside, Goto, TypeOK
    <3>4. stranded
      BY <3>1, <3>3 DEF CopyInUse
    <3>5. stranded' = stranded
      BY <2>3, Zenon DEF MoveAside
    <3> QED BY <3>4, <3>5
  <2>4. ASSUME NEW p \in Processes, Replace(p) PROVE stranded'
    <3>1. \A q \in Processes : pc[q] # "moved"
      BY <2>4 DEF Replace, LockKept, Holds
    <3>2. config' = config /\ rollback' = rollback
      BY <2>4, NoFileAssumption DEF Replace, TypeOK
    <3>3. stranded
      BY <3>1, <3>2 DEF CopyInUse
    <3>4. stranded' = stranded
      BY <2>4, Zenon DEF Replace
    <3> QED BY <3>3, <3>4
  <2>5. ASSUME NEW p \in Processes, MoveIn(p) PROVE FALSE
    BY <2>5, NoFileAssumption DEF MoveIn, TypeOK
  <2>6. ASSUME NEW p \in Processes, PutBack(p) PROVE stranded' = TRUE
    BY <2>6 DEF PutBack, LeftBehind
  <2>7. CASE UNCHANGED fileVars /\ stranded' # TRUE
    <3>1. config' = config /\ rollback' = rollback /\ stranded' = stranded
      BY <2>7, Zenon DEF fileVars
    <3>2. CASE stranded
      BY <3>1, <3>2
    <3>3. CASE ~stranded
      <4>1. PICK q \in Processes : pc[q] = "moved"
        BY <3>1, <3>3 DEF CopyInUse
      <4>2. ~MoveIn(q) /\ ~PutBack(q)
        BY <2>5, <2>6, <2>7
      <4>3. ~Crash(q)
        BY <2>7, <3>1, <4>1 DEF Crash, LeftBehind
      <4>4. pc'[q] = "moved"
        BY <4>1, <4>2, <4>3 DEF TypeOK, Next, Step, Ask, Snapshot, TryLock, Stat, Steal, Compute,
               Replace, MoveAside, MoveIn, PutBack, NotReplaced, Release, Report,
               FiveSecondsPass, LockAges, Crash, Goto, vars
      <4> QED BY <4>4
    <3> QED BY <3>2, <3>3
  <2>8. ASSUME NEW p \in Processes, Crash(p) PROVE stranded' = TRUE \/ UNCHANGED fileVars
    BY <2>8, Zenon DEF Crash, LeftBehind
  <2>9. QED
    BY <2>1, <2>2, <2>3, <2>4, <2>5, <2>6, <2>7, <2>8 DEF Next, Step, Ask, Snapshot, TryLock,
           Stat, Steal, Compute, Release, FiveSecondsPass, LockAges, vars
<1>3. QED BY <1>1, <1>2, StoreTypes, LockIsKept, PTL DEF Spec

\* No configuration is lost on the way, whichever rename or removal fails, unless it had
\* been left behind as .rollback only: by a failure to rename it back, or by a death
\* between the two renames.
THEOREM ConfigurationKept ==
    ASSUME HoldersMayStall = FALSE, MaxCrashes = 0 \/ AtMostTwo
    PROVE  Spec => LostOnlyIfStranded
<1>1. TypeOK /\ LockKept /\ CopyInUse /\ [Next]_vars => [stranded \/ Kept]_vars
  <2> SUFFICES ASSUME TypeOK, LockKept, CopyInUse, [Next]_vars, ~stranded,
                      config # NoFile \/ rollback # NoFile
               PROVE  config' # NoFile \/ rollback' # NoFile
    BY DEF Kept
  <2>1. ASSUME NEW p \in Processes, MoveAside(p) PROVE config # NoFile
    <3>1. \A q \in Processes : pc[q] # "moved"
      BY <2>1 DEF MoveAside, LockKept, Holds
    <3>2. QED BY <3>1 DEF CopyInUse
  <2>2. ASSUME NEW p \in Processes, MoveAside(p) PROVE config' # NoFile \/ rollback' # NoFile
    BY <2>1, <2>2 DEF MoveAside
  <2>3. ASSUME NEW p \in Processes, Replace(p) \/ MoveIn(p)
        PROVE  config' # NoFile \/ rollback' # NoFile
    BY <2>3, NoFileAssumption DEF Replace, MoveIn, TypeOK
  <2>4. ASSUME NEW p \in Processes, PutBack(p) PROVE config' # NoFile \/ rollback' # NoFile
    BY <2>4 DEF PutBack, LeftBehind, Restored
  <2>5. ASSUME NEW p \in Processes, Crash(p) PROVE config' # NoFile \/ rollback' # NoFile
    BY <2>5 DEF Crash, LeftBehind, fileVars
  <2>6. QED
    BY <2>2, <2>3, <2>4, <2>5 DEF Next, Step, Ask, Snapshot, TryLock, Stat, Steal, Compute,
           Release, FiveSecondsPass, LockAges, fileVars, vars
<1>2. QED BY <1>1, StoreTypes, LockIsKept, CopyIsInUse, PTL DEF Spec, LostOnlyIfStranded

-----------------------------------------------------------------------------
(* The register.                                                             *)

\* Between Load and the rename the content stays what Load saw.
WorkCurrent ==
    \A p \in Processes : pc[p] = "replace" =>
        /\ Accepted(asked[p], Load(config))
        /\ work[p] = Effect(asked[p], Load(config))

\* What saveAtomic is about to put in place was computed from the stored content.
LEMMA WorkIsCurrent ==
    ASSUME HoldersMayStall = FALSE, MaxCrashes = 0 \/ AtMostTwo, AtomicReplace
    PROVE  Spec => []WorkCurrent
<1>1. Init => WorkCurrent
  BY DEF Init, WorkCurrent
<1>2. TypeOK /\ LockKept /\ WorkCurrent /\ [Next]_vars => WorkCurrent'
  <2> SUFFICES ASSUME TypeOK, LockKept, WorkCurrent, [Next]_vars,
                      NEW q \in Processes, pc'[q] = "replace"
               PROVE  /\ Accepted(asked[q], Load(config))'
                      /\ work'[q] = Effect(asked'[q], Load(config'))
    BY DEF WorkCurrent
  <2> USE DEF TypeOK
  <2>1. ASSUME pc[q] = "replace", config' = config, work'[q] = work[q], asked'[q] = asked[q]
        PROVE  /\ Accepted(asked[q], Load(config))'
               /\ work'[q] = Effect(asked'[q], Load(config'))
    BY <2>1 DEF WorkCurrent, Accepted
  <2>2. CASE Compute(q)
    <3>1. /\ Accepted(asked[q], Load(config)) /\ config' = config /\ asked' = asked
          /\ work' = [work EXCEPT ![q] = Effect(asked[q], Load(config))]
      BY <2>2 DEF Compute, Goto, fileVars
    <3>2. QED
      BY <3>1 DEF Accepted
  <2>3. CASE ~Compute(q)
    <3>1. pc[q] = "replace" /\ work'[q] = work[q] /\ asked'[q] = asked[q]
      BY <2>3 DEF Next, Step, Ask, Snapshot, TryLock, Stat, Steal, Compute, Replace, MoveAside,
             MoveIn, PutBack, NotReplaced, Release, Report, Forget, FiveSecondsPass, LockAges,
             Crash, Goto, vars, callVars
    <3>2. ASSUME NEW p \in Processes, p # q PROVE ~Replace(p) /\ ~MoveAside(p) /\ ~MoveIn(p) /\ ~PutBack(p)
      BY <3>1, <3>2 DEF LockKept, Holds, Replace, MoveAside, MoveIn, PutBack
    <3>3. ~Replace(q) /\ ~MoveAside(q) /\ ~MoveIn(q) /\ ~PutBack(q)
      BY DEF Replace, MoveAside, MoveIn, PutBack, NotReplaced, Goto
    <3>4. config' = config
      BY <3>2, <3>3 DEF Next, Step, Ask, Snapshot, TryLock, Stat, Steal, Compute, Release,
             FiveSecondsPass, LockAges, Crash, LeftBehind, vars, fileVars
    <3>5. QED
      BY <2>1, <3>1, <3>4
  <2>4. QED BY <2>2, <2>3
<1>3. QED BY <1>1, <1>2, StoreTypes, LockIsKept, PTL DEF Spec

\* Where rename replaces a file, no one takes the two renames of the Windows path.
NoneMoved == \A p \in Processes : pc[p] # "moved"

\* saveAtomic's Windows path is not reached where the first rename succeeds.
LEMMA NeverMoved ==
    ASSUME AtomicReplace
    PROVE  Spec => []NoneMoved
<1>1. Init => NoneMoved
  BY DEF Init, NoneMoved
<1>2. TypeOK /\ NoneMoved /\ [Next]_vars => NoneMoved'
  <2> SUFFICES ASSUME TypeOK, NoneMoved, [Next]_vars, NEW q \in Processes, pc'[q] = "moved"
               PROVE  FALSE
    BY DEF NoneMoved
  <2>1. pc[q] # "moved"
    BY DEF NoneMoved
  <2>2. QED
    BY <2>1 DEF TypeOK, Next, Step, Ask, Snapshot, TryLock, Stat, Steal, Compute, Replace,
           MoveAside, MoveIn, PutBack, NotReplaced, Release, Report, FiveSecondsPass,
           LockAges, Crash, Goto, vars
<1>3. QED BY <1>1, <1>2, StoreTypes, PTL DEF Spec

\* The register's updates are the store's.
LEMMA SameUpdates ==
    /\ Register!File = File /\ Register!Update = Update /\ Register!NoUpdate = NoUpdate
    /\ Register!NoSnapshot = NoSnapshot
    /\ \A f : Register!Valid(f) <=> Valid(f)
    /\ \A f, name : Register!SnapshotOf(f, name) = SnapshotOf(f, name)
    /\ \A u, f : Register!Applicable(u, f) <=> Applicable(u, f)
    /\ \A u, f : Register!Effect(u, f) = Effect(u, f)
<1>1. /\ Register!File = File /\ Register!Update = Update /\ Register!NoUpdate = NoUpdate
      /\ Register!NoSnapshot = NoSnapshot
  BY DEF Register!File, File, Register!Update, Update, Register!NoUpdate, NoUpdate,
         Register!NoSnapshot, NoSnapshot, Register!Entries, Entries,
         Register!UpdateKinds, UpdateKinds
<1>2. \A f : Register!Configured(f) = Configured(f)
  BY DEF Register!Configured, Configured
<1>3. \A f : Register!Valid(f) <=> Valid(f)
  BY <1>2 DEF Register!Valid, Valid
<1>4. \A f, name : Register!SnapshotOf(f, name) = SnapshotOf(f, name)
  BY DEF Register!SnapshotOf, SnapshotOf
<1>5. \A u, f : Register!Applicable(u, f) <=> Applicable(u, f)
  BY <1>2 DEF Register!Applicable, Applicable
<1>6. /\ \A f, name, entry : Register!SetEntry(f, name, entry) = SetEntry(f, name, entry)
      /\ \A f, name : Register!SetDefault(f, name) = SetDefault(f, name)
      /\ \A f, project, name : Register!SetTrust(f, project, name) = SetTrust(f, project, name)
  BY Zenon DEF Register!SetEntry, SetEntry, Register!SetDefault, SetDefault,
               Register!SetTrust, SetTrust
<1>7. \A u, f : /\ Register!CreateProfile(u, f) = CreateProfile(u, f)
                /\ Register!UpsertProfile(u, f) = UpsertProfile(u, f)
                /\ Register!DeleteProfile(u, f) = DeleteProfile(u, f)
                /\ Register!RestoreProfile(u, f) = RestoreProfile(u, f)
  BY <1>2, <1>6
     DEF Register!CreateProfile, CreateProfile, Register!UpsertProfile, UpsertProfile,
         Register!DeleteProfile, DeleteProfile, Register!RestoreProfile, RestoreProfile
<1>8. \A u, f : Register!Effect(u, f) = Effect(u, f)
  BY <1>6, <1>7 DEF Register!Effect, Effect
<1>9. QED
  BY <1>1, <1>3, <1>4, <1>5, <1>8

\* The calls as the register sees them, after a step of one process.
LEMMA CallChanges ==
    ASSUME TypeOK, NEW p \in Processes, NEW place \in Places, Goto(p, place)
    PROVE  /\ CallOf(p)' = CASE place = "idle" -> "none"
                             [] place = "done" -> "applied"
                             [] place = "dead" -> "dead"
                             [] OTHER -> "asked"
           /\ [q \in Processes |-> CallOf(q)]' =
                 [[q \in Processes |-> CallOf(q)] EXCEPT ![p] = CallOf(p)']
<1>1. pc'[p] = place /\ \A q \in Processes : q # p => pc'[q] = pc[q]
  BY DEF TypeOK, Goto
<1>2. CallOf(p)' = CASE place = "idle" -> "none"
                     [] place = "done" -> "applied"
                     [] place = "dead" -> "dead"
                     [] OTHER -> "asked"
  BY <1>1 DEF CallOf
<1>3. \A q \in Processes : q # p => CallOf(q)' = CallOf(q)
  BY <1>1 DEF CallOf
<1>4. QED
  BY <1>2, <1>3

\* The store implements the register: where rename replaces a file, and processes stay alive
\* or there are two, every update takes effect at its rename, or its caller dies without it.
THEOREM StoreIsRegister ==
    ASSUME HoldersMayStall = FALSE, MaxCrashes = 0 \/ AtMostTwo, AtomicReplace
    PROVE  Spec => IsRegister
<1> DEFINE calls == [p \in Processes |-> CallOf(p)]
<1>1. Init => Register!Init
  <2> SUFFICES ASSUME Init PROVE Register!Init
    OBVIOUS
  <2>1. TypeOK
    BY StoreInitTypes
  <2>2. Load(config) \in File /\ Valid(Load(config))
    BY <2>1, LoadTypes, StoreInitValid DEF TypeOK, AllValid
  <2>3. calls = [p \in Processes |-> "none"]
    BY DEF Init, CallOf
  <2>4. snap \in [Processes -> {SnapshotOf(Load(config), name) : name \in Profiles}]
    <3>1. (CHOOSE q \in Profiles : TRUE) \in Profiles
      BY ProfilesAssumption
    <3>2. QED
      BY <3>1 DEF Init
  <2>5. asked = [p \in Processes |-> NoUpdate] /\ told = [p \in Processes |-> "none"]
    BY Zenon DEF Init
  <2>6. QED
    BY <2>2, <2>3, <2>4, <2>5, SameUpdates DEF Register!Init
<1>2. TypeOK /\ LockKept /\ WorkCurrent /\ NoneMoved /\ [Next]_vars
        => [Register!Next]_(Register!vars)
  <2> SUFFICES ASSUME TypeOK, LockKept, WorkCurrent, NoneMoved, [Next]_vars
               PROVE  Register!Next \/ UNCHANGED Register!vars
    OBVIOUS
  <2>s. ASSUME config' = config, calls' = calls, UNCHANGED <<asked, told, snap>>
        PROVE  UNCHANGED Register!vars
    BY <2>s DEF Register!vars
  <2>c. ASSUME NEW p \in Processes, NEW place \in Places, Goto(p, place),
               place \notin {"idle", "done", "dead"}, CallOf(p) = "asked"
        PROVE  calls' = calls
    BY <2>c, CallChanges
  <2>f. ASSUME NEW p \in Processes, Report(p, "failed"), CallOf(p) = "asked",
               config' = config, snap' = snap
        PROVE  Register!Next
    <3>1. calls' = [calls EXCEPT ![p] = "none"]
      BY <2>f, CallChanges DEF Report, Places
    <3>2. Register!Fail(p)
      BY <2>f, <3>1, SameUpdates DEF Report, Register!Fail
    <3>3. QED BY <3>2 DEF Register!Next
  <2>1. ASSUME NEW p \in Processes, Ask(p) PROVE Register!Next
    <3>1. PICK u \in Update : asked' = [asked EXCEPT ![p] = u]
      BY <2>1, Zenon DEF Ask
    <3>2. calls' = [calls EXCEPT ![p] = "asked"] /\ calls[p] = "none"
      BY <2>1, CallChanges DEF Ask, Places, CallOf
    <3>3. Register!Ask(p, u)
      BY <2>1, <3>1, <3>2 DEF Ask, fileVars, Register!Ask
    <3>4. QED BY <3>3, SameUpdates DEF Register!Next
  <2>2. ASSUME NEW p \in Processes, NEW name \in Profiles, Snapshot(p, name)
        PROVE  Register!Next
    <3>1. calls' = calls /\ calls[p] = "none"
      BY <2>2 DEF Snapshot, CallOf
    <3>2. Register!Snapshot(p, name)
      BY <2>2, <3>1, SameUpdates DEF Snapshot, fileVars, Register!Snapshot
    <3>3. QED BY <3>2 DEF Register!Next
  <2>3. ASSUME NEW p \in Processes, TryLock(p) \/ Stat(p)
        PROVE  Register!Next \/ UNCHANGED Register!vars
    <3>1. CallOf(p) = "asked" /\ config' = config /\ snap' = snap
      BY <2>3 DEF TryLock, Stat, CallOf, fileVars
    <3>2. \/ Report(p, "failed")
          \/ /\ \E place \in {"load", "stat", "steal", "lock"} : Goto(p, place)
             /\ UNCHANGED callVars
      BY <2>3 DEF TryLock, Stat
    <3>3. QED
      BY <3>1, <3>2, <2>s, <2>c, <2>f DEF Places, callVars
  <2>4. ASSUME NEW p \in Processes, Compute(p) PROVE UNCHANGED Register!vars
    BY <2>4, <2>s, <2>c DEF Compute, CallOf, Places, fileVars
  <2>5. ASSUME NEW p \in Processes, Replace(p)
        PROVE  Register!Next \/ UNCHANGED Register!vars
    <3>1. pc[p] = "replace" /\ CallOf(p) = "asked" /\ UNCHANGED <<asked, told, snap>>
      BY <2>5 DEF Replace, CallOf
    <3>2. CASE config' = work[p] /\ Goto(p, "done")
      <4>1. calls' = [calls EXCEPT ![p] = "applied"]
        BY <3>2, CallChanges DEF Places
      <4>2. /\ Accepted(asked[p], Load(config))
            /\ work[p] = Effect(asked[p], Load(config))
        BY <3>1 DEF WorkCurrent
      <4>3. Load(config') = work[p]
        BY <3>2, NoFileAssumption DEF Load, TypeOK
      <4>4. Register!Apply(p)
        BY <3>1, <4>1, <4>2, <4>3, SameUpdates DEF Accepted, Register!Apply
      <4>5. QED BY <4>4 DEF Register!Next
    <3>3. CASE Goto(p, "undone") /\ config' = config
      BY <3>1, <3>3, <2>s, <2>c DEF Places
    <3>4. QED
      BY <2>5, <3>2, <3>3 DEF Replace, NotReplaced
  <2>6. ASSUME NEW p \in Processes, Release(p) PROVE Register!Next
    <3>1. config' = config /\ snap' = snap
      BY <2>6 DEF Release, fileVars
    <3>2. CASE pc[p] = "done" /\ Report(p, "ok")
      <4>1. calls' = [calls EXCEPT ![p] = "none"] /\ calls[p] = "applied"
        BY <3>2, CallChanges DEF Report, Places, CallOf
      <4>2. Register!Succeed(p)
        BY <3>1, <3>2, <4>1, SameUpdates DEF Report, Register!Succeed
      <4>3. QED BY <4>2 DEF Register!Next
    <3>3. CASE pc[p] = "undone" /\ Report(p, "failed")
      BY <3>1, <3>3, <2>f DEF CallOf
    <3>4. QED
      BY <2>6, <3>2, <3>3 DEF Release
  <2>7. ASSUME NEW p \in Processes, FiveSecondsPass(p) PROVE UNCHANGED Register!vars
    BY <2>7, <2>s DEF FiveSecondsPass, CallOf, fileVars
  <2>8. CASE LockAges
    BY <2>8, <2>s DEF LockAges, CallOf, fileVars
  <2>9. ASSUME NEW p \in Processes, Steal(p) PROVE UNCHANGED Register!vars
    BY <2>9, <2>s, <2>c DEF Steal, CallOf, Places, fileVars
  <2>10. ASSUME NEW p \in Processes, MoveAside(p) \/ MoveIn(p) \/ PutBack(p) PROVE FALSE
    BY <2>10 DEF MoveAside, MoveIn, PutBack, NoneMoved
  <2>11. CASE UNCHANGED vars
    BY <2>11, <2>s DEF vars, fileVars, CallOf
  <2>12. ASSUME NEW p \in Processes, Crash(p) PROVE Register!Next
    <3>1. /\ Goto(p, "dead") /\ UNCHANGED <<config, told>>
          /\ asked' = [asked EXCEPT ![p] = NoUpdate]
          /\ snap' = [snap EXCEPT ![p] = NoSnapshot]
      BY <2>12 DEF Crash, LeftBehind, fileVars
    <3>2. calls' = [calls EXCEPT ![p] = "dead"]
      BY <3>1, CallChanges DEF Places
    <3>3. Register!Crash(p)
      BY <3>1, <3>2, SameUpdates DEF Register!Crash
    <3>4. QED BY <3>3 DEF Register!Next
  <2>13. QED
    BY <2>1, <2>2, <2>3, <2>4, <2>5, <2>6, <2>7, <2>8, <2>9, <2>10, <2>11, <2>12 DEF Next, Step
<1>3. QED
  BY <1>1, <1>2, StoreTypes, LockIsKept, WorkIsCurrent, NeverMoved, PTL
     DEF Spec, IsRegister, Register!Spec
=============================================================================
