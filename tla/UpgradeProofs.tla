---------------------------- MODULE UpgradeProofs ----------------------------
(***************************************************************************)
(* Upgrade for any number of processes, versions and releases: the        *)
(* executable is not lost, an upgrade that runs alone tells the truth, the *)
(* comparison of versions is SemVer's, and what is installed is newer.     *)
(***************************************************************************)
EXTENDS Upgrade, WellFoundedInduction, TLAPS

Swapping == {"in", "validate", "drop"}

\* TypeOK, and what the locals of an upgrade hold by then.
Types ==
    /\ exe \in Versions \cup {NoVersion} /\ rollback \in Versions \cup {NoVersion}
    /\ method \in Methods /\ releases \subseteq Releases /\ page \subseteq releases
    /\ pc \in [Processes -> Places] /\ op \in [Processes -> Upgrade]
    /\ told \in [Processes -> Outcomes] /\ mishaps \subseteq Mishaps

Candidate ==
    \A p \in Processes :
        /\ pc[p] \notin {"idle", "discover"} => op[p].candidate \in Versions
        /\ pc[p] \in {"clear", "aside", "in", "validate", "drop"} =>
               op[p].candidate = op[p].target
        /\ pc[p] # "idle" => op[p].current \in Versions

\* Nothing is under the name only while someone is between the two renames, unless one
\* of them died or could not rename back.
Missed ==
    mishaps \subseteq {"overlap"} /\ exe = NoVersion =>
        \E p \in Processes : pc[p] \in {"in", "back"}

Alone == "overlap" \notin mishaps =>
    \A p, q \in Processes : Active(p) /\ Active(q) => p = q

\* What an upgrade that runs alone finds under the two names.
Swap(p) ==
    /\ pc[p] \in {"discover", "fetch", "prepare", "clear", "aside"} =>
           exe = op[p].current /\ exe # NoVersion
    /\ pc[p] \in {"in", "validate", "back"} =>
           rollback = op[p].current /\ rollback # NoVersion
    /\ pc[p] \in {"validate", "drop"} => exe = op[p].target /\ exe # NoVersion

Swaps == "overlap" \notin mishaps => \A p \in Processes : Swap(p)

Kept == "overlap" \notin mishaps => exe # NoVersion \/ rollback # NoVersion

\* Nothing is reported before the end.
Untold == \A p \in Processes : Active(p) => told[p] = "none"

IInv == Types /\ Candidate /\ Missed /\ Alone /\ Swaps /\ Kept /\ Untold
Step(p) ==
    \/ Start(p) \/ Discover(p) \/ BuildWithGo(p) \/ Fetch(p) \/ Prepare(p)
    \/ ClearRollback(p) \/ MoveAside(p) \/ MoveIn(p) \/ Validate(p) \/ PutBack(p)
    \/ DropRollback(p) \/ Die(p)

-----------------------------------------------------------------------------
\* Only the process that takes a step moves.
LEMMA OthersStay ==
    ASSUME Types, NEW p \in Processes, Step(p)
    PROVE  \A q \in Processes \ {p} :
               pc'[q] = pc[q] /\ op'[q] = op[q] /\ told'[q] = told[q]
  BY DEF Types, Step, Start, Discover, BuildWithGo, Fetch, Prepare, ClearRollback, MoveAside,
         MoveIn, Validate, PutBack, DropRollback, Die, Goto, Return

\* At first nothing has been replaced.
LEMMA InitialStates == Init => IInv
  BY UpgradeReleases DEF Init, IInv, Types, Candidate, Missed, Alone, Swaps, Swap, Kept, Untold,
     Active, NoUpgrade, Upgrade, Places, Outcomes, Mishaps, Methods

\* releases.Latest: what is chosen from the page was published.
LEMMA NewestAreReleases ==
    ASSUME Types, NEW v, NEW r \in Newest(v)
    PROVE  r \in Releases /\ r.tag \in Versions /\ r.reports \in Versions
  BY UpgradeReleases DEF Types, Newest, Candidates

\* What the module proxy calls latest is a version.
LEMMA ModuleLatestAreVersions ==
    ASSUME Types, NEW v \in Versions, NEW w \in ModuleLatest(v)
    PROVE  w \in Versions
  BY UpgradeReleases DEF Types, ModuleLatest

\* The types of one process's step: all that changes for p fits, the others stay.
LEMMA TypesOfStep ==
    ASSUME Types, Candidate, NEW p \in Processes,
           exe' \in Versions \cup {NoVersion}, rollback' \in Versions \cup {NoVersion},
           method' = method, published' = published, mishaps' \subseteq Mishaps,
           NEW place \in Places, pc' = [pc EXCEPT ![p] = place],
           NEW o \in Upgrade, op' = [op EXCEPT ![p] = o],
           NEW outcome \in Outcomes, told' = [told EXCEPT ![p] = outcome],
           place \notin {"idle", "discover"} => o.candidate \in Versions,
           place \in {"clear", "aside", "in", "validate", "drop"} => o.candidate = o.target,
           place # "idle" => o.current \in Versions
    PROVE  Types' /\ Candidate'
  <1>1. Types'
    BY DEF Types, published
  <1>2. ASSUME NEW q \in Processes
        PROVE  /\ pc'[q] \notin {"idle", "discover"} => op'[q].candidate \in Versions
               /\ pc'[q] \in {"clear", "aside", "in", "validate", "drop"} =>
                      op'[q].candidate = op'[q].target
               /\ pc'[q] # "idle" => op'[q].current \in Versions
    <2>1. CASE q = p
      BY <2>1 DEF Types
    <2>2. CASE q # p
      BY <2>2 DEF Types, Candidate
    <2> QED BY <2>1, <2>2
  <1> QED BY <1>1, <1>2 DEF Candidate

\* An upgrade that ends is forgotten.
LEMMA TypesOfReturn ==
    ASSUME Types, Candidate, NEW p \in Processes,
           exe' \in Versions \cup {NoVersion}, rollback' \in Versions \cup {NoVersion},
           method' = method, published' = published, mishaps' \subseteq Mishaps,
           NEW outcome \in Outcomes, Return(p, outcome)
    PROVE  Types' /\ Candidate'
  <1>1. NoUpgrade \in Upgrade /\ "idle" \in Places
    BY DEF NoUpgrade, Upgrade, Places
  <1> HIDE DEF NoUpgrade, Upgrade, Places, Outcomes
  <1> QED BY <1>1, TypesOfStep DEF Return

\* One that goes on keeps what it knows.
LEMMA TypesOfGoto ==
    ASSUME Types, Candidate, NEW p \in Processes,
           exe' \in Versions \cup {NoVersion}, rollback' \in Versions \cup {NoVersion},
           method' = method, published' = published, mishaps' \subseteq Mishaps,
           op' = op, NEW place \in Places, Goto(p, place),
           place \notin {"idle", "discover"} => op[p].candidate \in Versions,
           place \in {"clear", "aside", "in", "validate", "drop"} =>
               op[p].candidate = op[p].target,
           place # "idle" => op[p].current \in Versions
    PROVE  Types' /\ Candidate'
  <1>1. op[p] \in Upgrade /\ told[p] \in Outcomes
    BY DEF Types
  <1>2. op' = [op EXCEPT ![p] = op[p]] /\ told' = [told EXCEPT ![p] = told[p]]
    BY DEF Types, Goto
  <1> QED BY <1>1, <1>2, TypesOfStep DEF Goto

\* A step of one process keeps the types.
LEMMA StepTypes ==
    ASSUME IInv, NEW p \in Processes, Step(p)
    PROVE  Types' /\ Candidate'
  <1>0. Types /\ Candidate
    BY DEF IInv
  <1>a. /\ exe \in Versions \cup {NoVersion} /\ rollback \in Versions \cup {NoVersion}
        /\ mishaps \subseteq Mishaps /\ op[p] \in Upgrade /\ told[p] \in Outcomes
        /\ pc[p] # "idle" => op[p].current \in Versions
        /\ pc[p] \notin {"idle", "discover"} => op[p].candidate \in Versions
        /\ pc[p] \in {"clear", "aside", "in", "validate", "drop"} =>
               op[p].candidate = op[p].target
    BY <1>0 DEF Types, Candidate
  <1>b. \A place \in {"fetch", "prepare", "clear", "aside", "in", "validate", "back", "drop"} :
            place \in Places
    BY DEF Places
  <1>c. \A outcome \in {"none", "delegated", "latest", "upgraded", "failed"} :
            outcome \in Outcomes
    BY DEF Outcomes
  <1>1. CASE Start(p)
    <2>1. CASE method = "package"
      BY <1>0, <1>1, <1>a, <1>c, <2>1, TypesOfReturn DEF Start
    <2>2. CASE method # "package"
      <3> DEFINE o == [op[p] EXCEPT !.current = exe]
      <3>1. o \in Upgrade /\ o.current \in Versions /\ "discover" \in Places
        BY <1>1, <1>a DEF Start, Upgrade, Places
      <3>2. op' = [op EXCEPT ![p] = o] /\ pc' = [pc EXCEPT ![p] = "discover"]
        BY <1>0, <1>1, <2>2 DEF Start, Types
      <3>3. mishaps' \subseteq Mishaps /\ told' = [told EXCEPT ![p] = "none"]
        BY <1>1, <1>a, <2>2 DEF Start, Mishaps
      <3>4. UNCHANGED <<exe, rollback, method, published>>
        BY <1>1 DEF Start
      <3> HIDE DEF o
      <3> QED BY <1>0, <1>a, <1>c, <3>1, <3>2, <3>3, <3>4, TypesOfStep
    <2> QED BY <2>1, <2>2
  <1>2. CASE Discover(p)
    <2>0. UNCHANGED <<exe, rollback, method, published, mishaps>> /\ pc[p] = "discover"
      BY <1>2 DEF Discover
    <2>1. CASE Return(p, "failed") \/ Return(p, "latest")
      BY <1>0, <1>a, <1>c, <2>0, <2>1, TypesOfReturn
    <2>2. CASE \E r \in Newest(op[p].current) :
                 /\ op' = [op EXCEPT ![p] = [@ EXCEPT !.target = r.tag, !.candidate = r.reports]]
                 /\ Goto(p, "fetch")
      <3>1. PICK r \in Newest(op[p].current) :
              /\ op' = [op EXCEPT ![p] = [@ EXCEPT !.target = r.tag, !.candidate = r.reports]]
              /\ Goto(p, "fetch")
        BY <2>2
      <3>2. r.tag \in Versions /\ r.reports \in Versions
        BY <1>0, NewestAreReleases
      <3> DEFINE o == [op[p] EXCEPT !.target = r.tag, !.candidate = r.reports]
      <3>3. o \in Upgrade /\ o.candidate \in Versions /\ o.current \in Versions
        BY <1>a, <2>0, <3>2 DEF Upgrade
      <3>4. /\ op' = [op EXCEPT ![p] = o] /\ pc' = [pc EXCEPT ![p] = "fetch"]
            /\ told' = [told EXCEPT ![p] = told[p]]
        BY <1>0, <3>1 DEF Goto, Types
      <3> HIDE DEF o
      <3> QED BY <1>0, <1>a, <1>b, <2>0, <3>3, <3>4, TypesOfStep
    <2> QED BY <1>2, <2>1, <2>2 DEF Discover
  <1>3. CASE BuildWithGo(p)
    <2>0. UNCHANGED <<exe, rollback, method, published, mishaps>> /\ pc[p] = "discover"
      BY <1>3 DEF BuildWithGo
    <2>1. CASE Return(p, "failed") \/ Return(p, "latest")
      BY <1>0, <1>a, <1>c, <2>0, <2>1, TypesOfReturn
    <2>2. CASE \E v \in ModuleLatest(op[p].current) :
                 /\ op' = [op EXCEPT ![p] = [@ EXCEPT !.target = v, !.candidate = v]]
                 /\ Goto(p, "prepare")
      <3>1. PICK v \in ModuleLatest(op[p].current) :
              /\ op' = [op EXCEPT ![p] = [@ EXCEPT !.target = v, !.candidate = v]]
              /\ Goto(p, "prepare")
        BY <2>2
      <3>2. v \in Versions
        BY <1>0, <1>a, <2>0, ModuleLatestAreVersions
      <3> DEFINE o == [op[p] EXCEPT !.target = v, !.candidate = v]
      <3>3. o \in Upgrade /\ o.candidate \in Versions /\ o.current \in Versions
        BY <1>a, <2>0, <3>2 DEF Upgrade
      <3>4. /\ op' = [op EXCEPT ![p] = o] /\ pc' = [pc EXCEPT ![p] = "prepare"]
            /\ told' = [told EXCEPT ![p] = told[p]]
        BY <1>0, <3>1 DEF Goto, Types
      <3> HIDE DEF o
      <3> QED BY <1>0, <1>a, <1>b, <2>0, <3>3, <3>4, TypesOfStep
    <2> QED BY <1>3, <2>1, <2>2 DEF BuildWithGo
  <1>4. CASE Fetch(p)
    BY <1>0, <1>4, <1>a, <1>b, <1>c, TypesOfReturn, TypesOfGoto DEF Fetch
  <1>5. CASE Prepare(p)
    BY <1>0, <1>5, <1>a, <1>b, <1>c, TypesOfReturn, TypesOfGoto DEF Prepare, Valid
  <1>6. CASE ClearRollback(p)
    BY <1>0, <1>6, <1>a, <1>b, TypesOfGoto DEF ClearRollback
  <1>7. CASE MoveAside(p)
    BY <1>0, <1>7, <1>a, <1>b, <1>c, TypesOfReturn, TypesOfGoto DEF MoveAside
  <1>8. CASE MoveIn(p)
    BY <1>0, <1>8, <1>a, <1>b, TypesOfGoto DEF MoveIn
  <1>9. CASE Validate(p)
    BY <1>0, <1>9, <1>a, <1>b, TypesOfGoto DEF Validate
  <1>10. CASE PutBack(p)
    <2>1. mishaps' \subseteq Mishaps
      BY <1>10, <1>a DEF PutBack, Mishaps
    <2> QED BY <1>0, <1>10, <1>a, <1>c, <2>1, TypesOfReturn DEF PutBack, Restored
  <1>11. CASE DropRollback(p)
    BY <1>0, <1>11, <1>a, <1>c, TypesOfReturn DEF DropRollback
  <1>12. CASE Die(p)
    <2>1. mishaps' \subseteq Mishaps
      BY <1>12, <1>a DEF Die, Mishaps
    <2> QED BY <1>0, <1>12, <1>a, <1>c, <2>1, TypesOfReturn DEF Die
  <1> QED
    BY <1>1, <1>2, <1>3, <1>4, <1>5, <1>6, <1>7, <1>8, <1>9, <1>10, <1>11, <1>12 DEF Step

\* Whoever leaves nothing under the name is between the renames, or is known to have died
\* or failed there.
LEMMA StepMissed ==
    ASSUME IInv, NEW p \in Processes, Step(p)
    PROVE  Missed'
  <1>1. Types /\ Candidate /\ Missed
    BY DEF IInv
  <1>2. SUFFICES ASSUME mishaps' \subseteq {"overlap"}, exe' = NoVersion
                 PROVE  \E q \in Processes : pc'[q] \in {"in", "back"}
    BY DEF Missed
  <1>3. mishaps \subseteq {"overlap"}
    BY <1>2 DEF Step, Start, Discover, BuildWithGo, Fetch, Prepare, ClearRollback, MoveAside,
                MoveIn, Validate, PutBack, DropRollback, Die
  <1>4. CASE exe # NoVersion
    <2>1. MoveAside(p) \/ MoveIn(p) \/ Validate(p) \/ PutBack(p)
      BY <1>2, <1>4 DEF Step, Start, Discover, BuildWithGo, Fetch, Prepare, ClearRollback,
                        DropRollback, Die
    <2>2. CASE MoveAside(p)
      BY <1>1, <1>2, <1>4, <2>2 DEF Types, MoveAside, Goto
    <2>3. ~MoveIn(p)
      BY <1>1, <1>2, <1>4, UpgradeReleases DEF Candidate, MoveIn
    <2>4. CASE Validate(p)
      BY <1>1, <1>2, <1>4, <2>4 DEF Types, Validate, Goto
    <2>5. ~PutBack(p)
      BY <1>2, <1>4 DEF PutBack, Restored
    <2> QED BY <2>1, <2>2, <2>3, <2>4, <2>5
  <1>5. CASE exe = NoVersion
    <2>1. PICK q \in Processes : pc[q] \in {"in", "back"}
      BY <1>1, <1>3, <1>5 DEF Missed
    <2>2. CASE q # p
      BY <2>1, <2>2, <1>1, OthersStay
    <2>3. CASE q = p
      <3>1. MoveIn(p) \/ PutBack(p) \/ Die(p)
        BY <2>1, <2>3 DEF Step, Start, Active, Discover, BuildWithGo, Fetch, Prepare,
                          ClearRollback, MoveAside, Validate, DropRollback
      <3>2. CASE MoveIn(p)
        BY <1>1, <1>2, <3>2, UpgradeReleases DEF Types, Candidate, MoveIn, Goto
      <3>3. ~PutBack(p)
        BY <1>2 DEF PutBack, Restored
      <3>4. ~Die(p)
        BY <1>2, <1>5 DEF Die
      <3> QED BY <3>1, <3>2, <3>3, <3>4
    <2> QED BY <2>2, <2>3
  <1> QED BY <1>4, <1>5

\* Until upgrades have overlapped, at most one is under way.
LEMMA StepAlone ==
    ASSUME IInv, NEW p \in Processes, Step(p)
    PROVE  Alone'
  <1>1. Types /\ Alone
    BY DEF IInv
  <1>2. SUFFICES ASSUME "overlap" \notin mishaps', NEW q \in Processes, NEW r \in Processes,
                        Active(q)', Active(r)'
                 PROVE  q = r
    BY DEF Alone
  <1>3. "overlap" \notin mishaps
    BY <1>2 DEF Step, Start, Discover, BuildWithGo, Fetch, Prepare, ClearRollback, MoveAside,
                MoveIn, Validate, PutBack, DropRollback, Die
  <1>4. CASE Start(p)
    BY <1>1, <1>2, <1>3, <1>4 DEF Types, Alone, Active, Start, Return
  <1>5. CASE ~Start(p)
    <2>1. \A s \in Processes : Active(s)' => Active(s)
      BY <1>1, <1>5, OthersStay
         DEF Types, Active, Step, Discover, BuildWithGo, Fetch, Prepare, ClearRollback,
             MoveAside, MoveIn, Validate, PutBack, DropRollback, Die
    <2> QED BY <1>1, <1>2, <1>3, <2>1 DEF Alone
  <1> QED BY <1>4, <1>5

\* Alone, an upgrade knows what is under the two names.
LEMMA StepSwaps ==
    ASSUME IInv, NEW p \in Processes, Step(p)
    PROVE  Swaps' /\ Kept'
  <1>0. Types /\ Candidate /\ Alone /\ Swaps /\ Kept
    BY DEF IInv
  <1>1. SUFFICES ASSUME "overlap" \notin mishaps'
                 PROVE  (\A q \in Processes : Swap(q)') /\ (exe' # NoVersion \/ rollback' # NoVersion)
    BY DEF Swaps, Kept
  <1>2. "overlap" \notin mishaps
    BY <1>1 DEF Step, Start, Discover, BuildWithGo, Fetch, Prepare, ClearRollback, MoveAside,
                MoveIn, Validate, PutBack, DropRollback, Die
  <1>3. CASE Start(p)
    <2>1. UNCHANGED <<exe, rollback>> /\ exe # NoVersion
      BY <1>3 DEF Start
    <2>2. \A q \in Processes \ {p} : Swap(q)'
      BY <1>0, <1>2, <2>1, OthersStay DEF Swaps, Swap
    <2>3. pc'[p] = "idle" \/ (pc'[p] = "discover" /\ op'[p].current = exe)
      BY <1>0, <1>3 DEF Types, Upgrade, Start, Return
    <2>4. Swap(p)'
      BY <2>1, <2>3 DEF Swap
    <2> QED BY <2>1, <2>2, <2>4
  <1>4. CASE ~Start(p)
    <2>1. Active(p)
      BY <1>4 DEF Step, Active, Discover, BuildWithGo, Fetch, Prepare, ClearRollback, MoveAside,
                  MoveIn, Validate, PutBack, DropRollback, Die
    <2>2. \A q \in Processes \ {p} : pc'[q] = "idle"
      BY <1>0, <1>2, <2>1, OthersStay DEF Alone, Active
    <2>3. Swap(p) /\ (exe # NoVersion \/ rollback # NoVersion)
      BY <1>0, <1>2 DEF Swaps, Kept
    <2>4. Swap(p)' /\ (exe' # NoVersion \/ rollback' # NoVersion)
      <3> USE DEF Types, Swap, Upgrade
      <3>1. CASE Discover(p) \/ BuildWithGo(p)
        BY <1>0, <2>3, <3>1 DEF Discover, BuildWithGo, Goto, Return
      <3>2. CASE Fetch(p) \/ Prepare(p) \/ ClearRollback(p)
        BY <1>0, <2>3, <3>2 DEF Fetch, Prepare, ClearRollback, Goto, Return
      <3>3. CASE MoveAside(p)
        BY <1>0, <2>3, <3>3 DEF MoveAside, Goto, Return
      <3>4. CASE MoveIn(p)
        BY <1>0, <2>3, <3>4, UpgradeReleases DEF MoveIn, Goto, Candidate
      <3>5. CASE Validate(p)
        BY <1>0, <2>3, <3>5 DEF Validate, Goto
      <3>6. CASE PutBack(p)
        BY <1>0, <2>3, <3>6 DEF PutBack, Return, Restored
      <3>7. CASE DropRollback(p) \/ Die(p)
        BY <1>0, <2>3, <3>7 DEF DropRollback, Die, Return
      <3> QED BY <1>4, <3>1, <3>2, <3>3, <3>4, <3>5, <3>6, <3>7 DEF Step
    <2> QED BY <2>2, <2>4 DEF Swap
  <1> QED BY <1>3, <1>4

\* An upgrade that is under way has reported nothing yet.
LEMMA StepUntold ==
    ASSUME IInv, NEW p \in Processes, Step(p)
    PROVE  Untold'
  <1>1. Types /\ Untold
    BY DEF IInv
  <1>2. Active(p)' => told'[p] = "none"
    BY <1>1 DEF Types, Untold, Active, Step, Start, Discover, BuildWithGo, Fetch, Prepare,
                ClearRollback, MoveAside, MoveIn, Validate, PutBack, DropRollback, Die, Goto, Return
  <1>3. \A q \in Processes \ {p} : Active(q)' => told'[q] = "none"
    BY <1>1, OthersStay DEF Untold, Active
  <1> QED BY <1>2, <1>3 DEF Untold

\* Publishing touches no executable.
LEMMA PublishKeeps ==
    ASSUME IInv, NEW r \in Releases, Publish(r)
    PROVE  IInv'
  <1>1. releases' \subseteq Releases /\ page' \subseteq releases'
    BY DEF IInv, Types, Publish, Pages
  <1> QED
    BY <1>1 DEF IInv, Types, Candidate, Missed, Alone, Swaps, Swap, Kept, Untold, Active, Publish

\* Every step keeps the invariant.
LEMMA Inductive == IInv /\ [Next]_vars => IInv'
  <1> SUFFICES ASSUME IInv, [Next]_vars PROVE IInv'
    OBVIOUS
  <1>1. CASE \E p \in Processes : Step(p)
    BY <1>1, StepTypes, StepMissed, StepAlone, StepSwaps, StepUntold DEF IInv
  <1>2. CASE \E r \in Releases : Publish(r)
    BY <1>2, PublishKeeps
  <1>3. CASE UNCHANGED vars
    BY <1>3 DEF vars, published, IInv, Types, Candidate, Missed, Alone, Swaps, Swap, Kept, Untold, Active
  <1> QED BY <1>1, <1>2, <1>3 DEF Next, Step

\* The inductive invariant, in every behaviour.
THEOREM UpgradeSafety == Spec => []IInv
  BY InitialStates, Inductive, PTL DEF Spec

\* However many upgrades run, fail and die, for any releases: alone, there is always an
\* executable under one of the two names; and once all have ended, none of them having
\* died or failed between the renames, it is under its own (replaceExecutable).
THEOREM ExecutableNeverLost == Spec => []ExecutableKept
  <1>1. IInv => ExecutableKept
    BY DEF IInv, Kept, Missed, ExecutableKept, Active
  <1> QED BY <1>1, UpgradeSafety, PTL

\* An upgrade that runs alone reports a failure only where the executable it started
\* from is in place, and success only where the version it names is.
THEOREM ReportsTruly == Spec => ReportTrue
  <1>1. IInv /\ [Next]_vars =>
          [\A p \in Processes :
              pc[p] # "idle" /\ mishaps' = {} =>
                  /\ told'[p] = "failed" => exe' = op[p].current
                  /\ told'[p] = "upgraded" => exe' = op[p].target]_vars
    <2> SUFFICES ASSUME IInv, Next, NEW p \in Processes, pc[p] # "idle", mishaps' = {},
                        told'[p] \in {"failed", "upgraded"}
                 PROVE  /\ told'[p] = "failed" => exe' = op[p].current
                        /\ told'[p] = "upgraded" => exe' = op[p].target
      OBVIOUS
    <2>1. Types /\ Swaps /\ Untold
      BY DEF IInv
    <2>2. told[p] = "none"
      BY <2>1 DEF Untold, Active
    <2>3. Step(p)
      <3>1. PICK q \in Processes : Step(q)
        BY <2>2 DEF Next, Step, Publish
      <3>2. CASE q = p
        BY <3>1, <3>2
      <3>3. CASE q # p
        BY <2>1, <2>2, <3>1, <3>3, OthersStay
      <3> QED BY <3>2, <3>3
    <2>4. mishaps = {}
      BY <2>3 DEF Step, Start, Active, Discover, BuildWithGo, Fetch, Prepare, ClearRollback,
                  MoveAside, MoveIn, Validate, PutBack, DropRollback, Die
    <2>5. Swap(p)
      BY <2>1, <2>4 DEF Swaps
    <2>6. ~Start(p)
      BY DEF Start, Active
    <2>7. told'[p] # told[p]
      BY <2>2
    <2> QED
      BY <2>1, <2>2, <2>3, <2>4, <2>5, <2>6
         DEF Types, Swap, Step, Discover, BuildWithGo, Fetch, Prepare, ClearRollback, MoveAside,
             MoveIn, Validate, PutBack, DropRollback, Die, Goto, Return, Restored
  <1> QED BY <1>1, UpgradeSafety, PTL DEF Spec, ReportTrue

-----------------------------------------------------------------------------
(* Compare finds the order SemVer defines.                                  *)

\* A set of natural numbers has a least.
LEMMA MinIsLeast ==
    ASSUME NEW S, S \subseteq Nat, S # {}
    PROVE  Min(S) \in S /\ \A x \in S : Min(S) <= x
  <1>1. PICK least \in S : \A y \in S : ~ <<y, least>> \in OpToRel(<, Nat)
    BY NatLessThanWellFounded, WFMin, Zenon
  <1>2. \A y \in S : <<y, least>> \in OpToRel(<, Nat) <=> y < least
    BY DEF OpToRel
  <1>3. \A y \in S : ~(y < least)
    BY <1>1, <1>2, Zenon
  <1>4. \A y \in S : least <= y
    BY <1>3
  <1> QED BY <1>4 DEF Min

\* FirstDifference finds where two sequences differ first, and is 0 where neither differs
\* from the other before it ends.
LEMMA FirstDifferenceMeans ==
    ASSUME NEW m \in Nat, NEW n \in Nat, NEW s, NEW t, DOMAIN s = 1..m, DOMAIN t = 1..n
    PROVE  \/ FirstDifference(s, t) = 0 /\ \A i \in DOMAIN s \cap DOMAIN t : s[i] = t[i]
           \/ FirstDifference(s, t) # 0 /\ FirstDiffer(s, t, FirstDifference(s, t))
  <1>1. PICK differ : differ = {i \in DOMAIN s \cap DOMAIN t : s[i] # t[i]}
    OBVIOUS
  <1>2. FirstDifference(s, t) = IF differ = {} THEN 0 ELSE Min(differ)
    BY <1>1 DEF FirstDifference
  <1>3. CASE differ = {}
    BY <1>1, <1>2, <1>3
  <1>4. CASE differ # {}
    <2>1. differ \subseteq Nat /\ differ \subseteq (1..m) \cap (1..n)
      BY <1>1
    <2>2. Min(differ) \in differ /\ \A x \in differ : Min(differ) <= x
      BY <1>4, <2>1, MinIsLeast
    <2>3. PICK i \in differ : i = Min(differ)
      BY <2>2
    <2>4. i \in (1..m) \cap (1..n) /\ s[i] # t[i] /\ i # 0
      BY <1>1, <2>1
    <2>5. ASSUME NEW j \in 1..(i - 1) PROVE s[j] = t[j]
      <3>1. j \in (1..m) \cap (1..n) /\ j < i
        BY <2>4
      <3>2. j \notin differ
        BY <2>2, <2>3, <2>4, <3>1
      <3> QED BY <1>1, <3>1, <3>2
    <2> QED BY <1>2, <1>4, <2>3, <2>4, <2>5 DEF FirstDiffer
  <1> QED BY <1>3, <1>4

\* Two sequences first differ in one place.
LEMMA DifferOnce ==
    ASSUME NEW m \in Nat, NEW n \in Nat, NEW s, NEW t, DOMAIN s = 1..m, DOMAIN t = 1..n,
           NEW i, FirstDiffer(s, t, i)
    PROVE  FirstDifference(s, t) = i /\ FirstDifference(t, s) = i /\ i \in 1..m /\ i \in 1..n
  <1>0. i \in 1..m /\ i \in 1..n /\ s[i] # t[i] /\ i # 0
    BY DEF FirstDiffer
  <1>1. ASSUME NEW k, FirstDiffer(s, t, k) PROVE k = i
    <2>1. k \in 1..m /\ s[k] # t[k]
      BY <1>1 DEF FirstDiffer
    <2>2. ~(k < i) /\ ~(i < k)
      BY <1>0, <1>1, <2>1 DEF FirstDiffer
    <2> QED BY <1>0, <2>1, <2>2
  <1>2. \A k : FirstDiffer(t, s, k) => FirstDiffer(s, t, k)
    BY DEF FirstDiffer
  <1>3. FirstDifference(s, t) = i
    BY <1>0, <1>1, FirstDifferenceMeans
  <1>4. FirstDifference(t, s) = i
    BY <1>0, <1>1, <1>2, FirstDifferenceMeans
  <1> QED BY <1>0, <1>3, <1>4

\* compareIdentifiers, on identifiers that differ.
LEMMA IdentifiersCompared ==
    ASSUME NEW x \in Identifiers, NEW y \in Identifiers, IdentifierPrecedes(x, y)
    PROVE  CompareIdentifiers(x, y) = -1 /\ CompareIdentifiers(y, x) = 1
  BY DEF Identifiers, IdentifierPrecedes, CompareIdentifiers, Numeric, Sign

\* comparePrerelease: a release comes last, a longer prerelease after what it extends.
LEMMA PrereleasesCompared ==
    ASSUME NEW s \in Seq(Identifiers), NEW t \in Seq(Identifiers), PrereleasePrecedes(s, t)
    PROVE  ComparePrerelease(s, t) = -1 /\ ComparePrerelease(t, s) = 1
  <1>0. /\ Len(s) \in Nat /\ Len(t) \in Nat /\ DOMAIN s = 1..Len(s) /\ DOMAIN t = 1..Len(t)
        /\ s # <<>>
    BY DEF PrereleasePrecedes
  <1>1. CASE t = <<>>
    BY <1>0, <1>1 DEF ComparePrerelease
  <1>2. CASE \E i \in DOMAIN s : FirstDiffer(s, t, i) /\ IdentifierPrecedes(s[i], t[i])
    <2>1. PICK i \in DOMAIN s : FirstDiffer(s, t, i) /\ IdentifierPrecedes(s[i], t[i])
      BY <1>2
    <2>2. /\ FirstDifference(s, t) = i /\ FirstDifference(t, s) = i
          /\ i \in 1..Len(s) /\ i \in 1..Len(t)
      BY <1>0, <2>1, DifferOnce
    <2>3. s[i] \in Identifiers /\ t[i] \in Identifiers /\ t # <<>> /\ i # 0
      BY <1>0, <2>2
    <2>4. CompareIdentifiers(s[i], t[i]) = -1 /\ CompareIdentifiers(t[i], s[i]) = 1
      BY <2>1, <2>3, IdentifiersCompared
    <2> QED BY <1>0, <2>2, <2>3, <2>4 DEF ComparePrerelease
  <1>3. CASE Len(s) < Len(t) /\ \A i \in DOMAIN s : s[i] = t[i]
    <2>1. \A i : ~FirstDiffer(s, t, i) /\ ~FirstDiffer(t, s, i)
      BY <1>3 DEF FirstDiffer
    <2>2. FirstDifference(s, t) = 0 /\ FirstDifference(t, s) = 0
      BY <1>0, <2>1, FirstDifferenceMeans
    <2>3. t # <<>>
      BY <1>0, <1>3
    <2> QED BY <1>0, <1>3, <2>2, <2>3 DEF ComparePrerelease, Sign
  <1> QED BY <1>1, <1>2, <1>3 DEF PrereleasePrecedes

\* compare, for every two versions that can be written.
LEMMA VersionsCompared ==
    ASSUME NEW v \in Version, NEW w \in Version, Precedes(v, w)
    PROVE  Compare(v, w) = -1 /\ Compare(w, v) = 1
  <1>0. /\ v.core \in [1..3 -> Nat] /\ w.core \in [1..3 -> Nat]
        /\ v.pre \in Seq(Identifiers) /\ w.pre \in Seq(Identifiers)
    BY DEF Version
  <1>1. CASE \E i \in 1..3 : FirstDiffer(v.core, w.core, i) /\ v.core[i] < w.core[i]
    <2>1. PICK i \in 1..3 : FirstDiffer(v.core, w.core, i) /\ v.core[i] < w.core[i]
      BY <1>1
    <2>2. FirstDifference(v.core, w.core) = i /\ FirstDifference(w.core, v.core) = i
      BY <1>0, <2>1, DifferOnce
    <2>3. Sign(v.core[i], w.core[i]) = -1 /\ Sign(w.core[i], v.core[i]) = 1
      BY <1>0, <2>1 DEF Sign
    <2> QED BY <2>1, <2>2, <2>3 DEF Compare
  <1>2. CASE v.core = w.core /\ PrereleasePrecedes(v.pre, w.pre)
    <2>1. \A i : ~FirstDiffer(v.core, w.core, i) /\ ~FirstDiffer(w.core, v.core, i)
      BY <1>2 DEF FirstDiffer
    <2>2. FirstDifference(v.core, w.core) = 0 /\ FirstDifference(w.core, v.core) = 0
      BY <1>0, <2>1, FirstDifferenceMeans
    <2> QED BY <1>0, <1>2, <2>2, PrereleasesCompared DEF Compare
  <1> QED BY <1>1, <1>2 DEF Precedes

\* Every version has its place in Precedence.
LEMMA RanksAreNumbers ==
    ASSUME NEW v \in Versions
    PROVE  /\ v \in Version /\ Rank(v) \in DOMAIN Precedence /\ Rank(v) \in Nat
           /\ Precedence[Rank(v)] = v
  <1>1. DOMAIN Precedence \subseteq Nat /\ \A i \in DOMAIN Precedence : Precedence[i] \in Version
    BY PrecedenceIsSemVer
  <1> QED BY <1>1 DEF Versions, Rank

\* Compare is the order of Precedence, and 0 only for a version and itself.
THEOREM CompareIsPrecedence ==
    ASSUME NEW v \in Versions, NEW w \in Versions
    PROVE  Compare(v, w) = Sign(Rank(v), Rank(w))
  <1>1. \A x \in Versions : /\ x \in Version /\ Rank(x) \in DOMAIN Precedence /\ Rank(x) \in Nat
                            /\ Precedence[Rank(x)] = x
    BY RanksAreNumbers
  <1>2. ASSUME Rank(v) < Rank(w) PROVE Compare(v, w) = -1
    BY <1>1, <1>2, PrecedenceIsSemVer, VersionsCompared
  <1>3. ASSUME Rank(w) < Rank(v) PROVE Compare(v, w) = 1
    BY <1>1, <1>3, PrecedenceIsSemVer, VersionsCompared
  <1>4. ASSUME v = w PROVE Compare(v, w) = 0
    <2>1. v.core \in [1..3 -> Nat] /\ v.pre \in Seq(Identifiers)
      BY <1>1 DEF Version
    <2>2. \A s, i : ~FirstDiffer(s, s, i)
      BY DEF FirstDiffer
    <2>3. FirstDifference(v.core, v.core) = 0 /\ FirstDifference(v.pre, v.pre) = 0
      <3>1. DOMAIN v.core = 1..3 /\ DOMAIN v.pre = 1..Len(v.pre) /\ Len(v.pre) \in Nat
        BY <2>1
      <3> QED BY <2>2, <3>1, FirstDifferenceMeans
    <2> QED BY <1>4, <2>1, <2>3 DEF Compare, ComparePrerelease, Sign
  <1>5. Rank(v) = Rank(w) => v = w
    BY <1>1
  <1> QED BY <1>1, <1>2, <1>3, <1>4, <1>5 DEF Sign

-----------------------------------------------------------------------------
(* What is chosen is newer.                                                 *)

\* What an upgrade is about to install is newer than what it started from, and a preview
\* only if that is one.
Upgrades(target, current) ==
    /\ target \in Versions
    /\ Compare(target, current) > 0
    /\ SemanticPreview(target) => SemanticPreview(current)

Chosen ==
    \A p \in Processes : pc[p] \notin {"idle", "discover"} =>
        Upgrades(op[p].target, op[p].current)

\* A release of the channel is no preview unless the running version is.
LEMMA ReleaseUpgrades ==
    ASSUME Types, NEW current \in Versions, NEW r \in Newest(current), Newer(r.tag, current)
    PROVE  Upgrades(r.tag, current)
  <1>1. InChannel(r, current)
    BY DEF Newest, Candidates
  <1>2. r.tag \in Versions
    BY NewestAreReleases
  <1> QED BY <1>1, <1>2 DEF Upgrades, Newer, InChannel

\* Nor is what Go builds: of the tags without a prerelease, or of all if there is none, it is
\* the highest, and a higher one than 1.0.0 has no 0 in front.
LEMMA ModuleUpgrades ==
    ASSUME Types, NEW current \in Versions, NEW latest \in ModuleLatest(current),
           Newer(latest, current)
    PROVE  Upgrades(latest, current)
  <1>1. latest \in Versions /\ Compare(latest, current) > 0
    BY ModuleLatestAreVersions DEF Newer
  <1>2. ASSUME ~SemanticPreview(current) PROVE ~SemanticPreview(latest)
    <2>1. current.core[1] # 0 /\ current.pre = <<>>
      BY <1>2 DEF SemanticPreview
    <2>2. latest.pre = <<>>
      <3>1. PICK tags : tags = {current} \cup {r.tag : r \in releases}
        OBVIOUS
      <3>2. PICK plain : plain = {v \in tags : v.pre = <<>>}
        OBVIOUS
      <3>3. latest \in IF plain # {} THEN plain ELSE tags
        <4>1. ModuleLatest(current) \subseteq IF plain # {} THEN plain ELSE tags
          BY <3>1, <3>2, Zenon DEF ModuleLatest
        <4> QED BY <4>1
      <3>4. current \in plain
        BY <2>1, <3>1, <3>2
      <3> QED BY <3>2, <3>3, <3>4
    <2>3. latest.core[1] # 0
      <3>1. /\ latest.core \in [1..3 -> Nat] /\ current.core \in [1..3 -> Nat]
        BY <1>1, RanksAreNumbers DEF Version
      <3>2. ASSUME latest.core[1] = 0 PROVE FALSE
        <4>1. FirstDiffer(latest.core, current.core, 1)
          BY <2>1, <3>1, <3>2 DEF FirstDiffer
        <4>2. FirstDifference(latest.core, current.core) = 1
          BY <3>1, <4>1, DifferOnce
        <4>3. Compare(latest, current) = Sign(0, current.core[1])
          BY <3>2, <4>2 DEF Compare
        <4>4. current.core[1] > 0
          BY <2>1, <3>1
        <4> QED BY <1>1, <4>3, <4>4 DEF Sign
      <3> QED BY <3>2
    <2> QED BY <2>2, <2>3 DEF SemanticPreview
  <1> QED BY <1>1, <1>2 DEF Upgrades

\* What an upgrade has chosen is kept to its end.
LEMMA StepChosen ==
    ASSUME IInv, Chosen, NEW p \in Processes, Step(p)
    PROVE  Chosen'
  <1>0. /\ Types /\ Candidate
        /\ pc \in [Processes -> Places] /\ op \in [Processes -> Upgrade] /\ op[p] \in Upgrade
    BY DEF IInv, Types
  <1> SUFFICES ASSUME pc'[p] \notin {"idle", "discover"}
               PROVE  Upgrades(op'[p].target, op'[p].current)
    BY <1>0, OthersStay DEF Chosen
  <1>1. CASE Discover(p)
    <2>1. op[p].current \in Versions
      BY <1>0, <1>1 DEF Discover, Candidate
    <2>2. ~Return(p, "failed") /\ ~Return(p, "latest")
      BY <1>0 DEF Return
    <2>3. PICK r \in Newest(op[p].current) :
             /\ Newer(r.tag, op[p].current)
             /\ op' = [op EXCEPT ![p] = [@ EXCEPT !.target = r.tag, !.candidate = r.reports]]
      BY <1>1, <2>2 DEF Discover
    <2>4. op'[p].target = r.tag /\ op'[p].current = op[p].current
      BY <1>0, <2>3 DEF Upgrade
    <2> QED BY <1>0, <2>1, <2>3, <2>4, ReleaseUpgrades
  <1>2. CASE BuildWithGo(p)
    <2>1. op[p].current \in Versions
      BY <1>0, <1>2 DEF BuildWithGo, Candidate
    <2>2. ~Return(p, "failed") /\ ~Return(p, "latest")
      BY <1>0 DEF Return
    <2>3. PICK latest \in ModuleLatest(op[p].current) :
             /\ Newer(latest, op[p].current)
             /\ op' = [op EXCEPT ![p] = [@ EXCEPT !.target = latest, !.candidate = latest]]
      BY <1>2, <2>2 DEF BuildWithGo
    <2>4. op'[p].target = latest /\ op'[p].current = op[p].current
      BY <1>0, <2>3 DEF Upgrade
    <2> QED BY <1>0, <2>1, <2>3, <2>4, ModuleUpgrades
  <1>3. CASE ~Discover(p) /\ ~BuildWithGo(p)
    <2>1. op'[p] = op[p] /\ pc[p] \notin {"idle", "discover"}
      BY <1>0, <1>3 DEF Step, Start, Fetch, Prepare, ClearRollback, MoveAside, MoveIn, Validate,
         PutBack, DropRollback, Die, Goto, Return
    <2> QED BY <2>1 DEF Chosen
  <1> QED BY <1>1, <1>2, <1>3

\* What is chosen stays chosen, in every behaviour.
LEMMA AlwaysChosen == Spec => []Chosen
  <1>1. Init => Chosen
    BY DEF Init, Chosen
  <1>2. IInv /\ Chosen /\ [Next]_vars => Chosen'
    <2>1. ASSUME Chosen, NEW r \in Releases, Publish(r) PROVE Chosen'
      BY <2>1 DEF Publish, Chosen
    <2>2. ASSUME Chosen, UNCHANGED vars PROVE Chosen'
      BY <2>2 DEF vars, Chosen
    <2> QED BY <2>1, <2>2, StepChosen DEF Next, Step
  <1> QED BY <1>1, <1>2, UpgradeSafety, PTL DEF Spec

\* No upgrade installs what SemVer orders before the running version, and none makes a
\* stable build a preview, for any versions and whatever is published meanwhile.
THEOREM UpgradesOnly == Spec => NeverDowngrades
  <1>1. IInv /\ Chosen /\ [Next]_vars =>
          [\A p \in Processes :
              pc[p] = "in" /\ pc'[p] = "validate" =>
                  /\ Rank(exe') > Rank(op[p].current)
                  /\ SemanticPreview(exe') => SemanticPreview(op[p].current)]_vars
    <2> SUFFICES ASSUME IInv, Chosen, Next, NEW p \in Processes, pc[p] = "in", pc'[p] = "validate"
                 PROVE  /\ Rank(exe') > Rank(op[p].current)
                        /\ SemanticPreview(exe') => SemanticPreview(op[p].current)
      OBVIOUS
    <2>0. Types /\ Candidate
      BY DEF IInv
    <2>1. PICK q \in Processes : Step(q)
      BY DEF Next, Step, Publish
    <2>2. MoveIn(p)
      <3>1. q = p
        BY <2>0, <2>1, OthersStay
      <3> QED BY <2>0, <2>1, <3>1 DEF Types, Step, Start, Active, Discover, BuildWithGo, Fetch, Prepare,
             ClearRollback, MoveAside, Validate, PutBack, DropRollback, Die, Return
    <2>3. exe' = op[p].target
      BY <2>0, <2>2 DEF MoveIn, Candidate, Goto, Types
    <2>4. op[p].current \in Versions /\ Upgrades(op[p].target, op[p].current)
      BY <2>0 DEF Candidate, Chosen
    <2>5. Sign(Rank(exe'), Rank(op[p].current)) > 0
      BY <2>3, <2>4, CompareIsPrecedence DEF Upgrades
    <2>6. Rank(exe') \in Nat /\ Rank(op[p].current) \in Nat
      BY <2>3, <2>4, RanksAreNumbers DEF Upgrades
    <2>7. Rank(exe') > Rank(op[p].current)
      BY <2>5, <2>6 DEF Sign
    <2> QED BY <2>3, <2>4, <2>7 DEF Upgrades
  <1> QED BY <1>1, UpgradeSafety, AlwaysChosen, PTL DEF Spec, NeverDowngrades

\* An upgrade from the archives says "already the latest available version" only if, of
\* the releases on the page it reads at that moment, none of the channel is newer.
THEOREM LatestIsTrue == Spec => LatestIsNewest
  <1>1. IInv /\ [Next]_vars =>
          [\A p \in Processes :
              method = "archive" /\ pc[p] = "discover" /\ told'[p] = "latest" =>
                  \A r \in Candidates(op[p].current) : Rank(r.tag) <= Rank(op[p].current)]_vars
    <2> SUFFICES ASSUME IInv, Next, NEW p \in Processes, method = "archive", pc[p] = "discover",
                        told'[p] = "latest", NEW other \in Candidates(op[p].current)
                 PROVE  Rank(other.tag) <= Rank(op[p].current)
      OBVIOUS
    <2>0. Types /\ Candidate /\ told[p] = "none"
      BY DEF IInv, Untold, Active
    <2>1. PICK q \in Processes : Step(q)
      BY <2>0 DEF Next, Step, Publish
    <2>2. Discover(p)
      <3>1. q = p
        BY <2>0, <2>1, OthersStay
      <3> QED BY <2>0, <2>1, <3>1 DEF Types, Step, Start, Active, BuildWithGo, Fetch, Prepare,
             ClearRollback, MoveAside, MoveIn, Validate, PutBack, DropRollback, Die, Return
    <2>3. PICK r \in Newest(op[p].current) : ~Newer(r.tag, op[p].current) /\ Parses(op[p].current)
      BY <2>0, <2>2 DEF Discover, Return, Goto, Types
    <2>4. op[p].current \in Versions /\ r.tag \in Versions /\ other.tag \in Versions
      BY <2>0, UpgradeReleases DEF Candidate, Newest, Candidates, Types
    <2>5. Compare(r.tag, op[p].current) <= 0
      <3>1. Compare(r.tag, op[p].current) \in {-1, 0, 1}
        BY <2>4, CompareIsPrecedence DEF Sign
      <3> QED BY <2>3, <3>1 DEF Newer, Newest, Candidates, InChannel
    <2>6. Compare(other.tag, r.tag) <= 0
      BY <2>3 DEF Newest
    <2>7. Sign(Rank(r.tag), Rank(op[p].current)) <= 0 /\ Sign(Rank(other.tag), Rank(r.tag)) <= 0
      BY <2>4, <2>5, <2>6, CompareIsPrecedence
    <2>8. Rank(r.tag) \in Nat /\ Rank(op[p].current) \in Nat /\ Rank(other.tag) \in Nat
      BY <2>4, RanksAreNumbers
    <2> QED BY <2>7, <2>8 DEF Sign
  <1> QED BY <1>1, UpgradeSafety, PTL DEF Spec, LatestIsNewest
=============================================================================
