---------------------------- MODULE ManagedProofs ----------------------------
(***************************************************************************)
(* Managed for any number of processes, agents, commands and edits: what   *)
(* the user wrote is kept, the shared skill stays with those who need it,  *)
(* what nobody touched is not refused, and a command that fails puts       *)
(* everything back.                                                        *)
(***************************************************************************)
EXTENDS Managed, TLAPS

\* TypeOK without the bounds.
Types ==
    /\ content \in [Files -> Contents]
    /\ records \in [Files -> {"none"} \cup Builds]
    /\ backups \in [Files -> [Seconds -> Contents]] /\ second \in Seconds
    /\ pc \in [Processes -> {"idle", "inspect", "change", "rollback", "failed"}]
    /\ op \in [Processes -> Command]
    /\ owed \in [Files -> SUBSET UserContents] /\ touched \subseteq Files
    /\ before \in [Files -> Contents] /\ mishaps \subseteq Mishaps

\* Files are planned before they are changed, and all inspected before one is changed.
Ordered ==
    \A p \in Processes :
        /\ op[p].changed \subseteq op[p].planned
        /\ pc[p] = "inspect" => op[p].changed = {}
        /\ pc[p] # "inspect" => op[p].todo = {}
        /\ ~Active(p) => op[p].planned = {}
        /\ op[p].kind = "install" => op[p].todo \cup op[p].planned \subseteq Targets(op[p].agents)
        /\ Active(p) /\ op[p].kind = "install" => op[p].build \in Builds

\* A copy of what the user wrote and has not replaced.
Copied(f, c) == \E s \in Seconds : backups[f][s] = c

\* There is one of all that is about to be changed.
Kept ==
    mishaps \cap {"raced", "sameSecond"} = {} =>
        \A f \in Files : \A c \in owed[f] :
            /\ content[f] = c \/ Copied(f, c)
            /\ \A p \in Processes : f \in op[p].planned => Copied(f, c)

Alone == "overlap" \notin mishaps =>
    \A p, q \in Processes : Active(p) /\ Active(q) => p = q

\* A removal that runs alone removes what the records say it must.
Removing(p) ==
    Active(p) =>
        /\ op[p].records = records
        /\ op[p].kind = "remove" => op[p].todo \cup op[p].planned
                                        \subseteq RemovalTargets(op[p].agents, records)
        /\ op[p].kind = "remove" /\ pc[p] # "rollback" =>
               RemovalTargets(op[p].agents, records) = op[p].todo \cup op[p].planned

Skill ==
    "overlap" \notin mishaps =>
        /\ \A p \in Processes : Removing(p)
        /\ \A a \in Dependent : records[a] # "none" => records[Shared] # "none"

IInv == Types /\ Ordered /\ Kept /\ Alone /\ Skill

Step(p) ==
    \/ Begin(p) \/ Inspect(p) \/ Planned(p) \/ Change(p) \/ Record(p)
    \/ Rollback(p) \/ RolledBack(p) \/ Die(p)

-----------------------------------------------------------------------------
(* What the steps of a command do.                                          *)

\* Only the process that takes a step moves.
LEMMA OthersStay ==
    ASSUME Types, NEW p \in Processes, Step(p)
    PROVE  /\ \A q \in Processes \ {p} : pc'[q] = pc[q] /\ op'[q] = op[q]
           /\ owed' = owed /\ mishaps \subseteq mishaps'
  <1>1. pc' = [pc EXCEPT ![p] = pc'[p]] /\ op' = [op EXCEPT ![p] = op'[p]]
    BY DEF Types, Step, Begin, Inspect, Planned, Change, Record, Rollback, RolledBack, Die, Return
  <1>2. \A q \in Processes \ {p} : pc'[q] = pc[q] /\ op'[q] = op[q]
    BY <1>1 DEF Types
  <1>3. owed' = owed
    BY DEF Step, Begin, Inspect, Planned, Change, Record, Rollback, RolledBack, Die, user
  <1>4. mishaps \subseteq mishaps'
    BY DEF Step, Begin, Inspect, Planned, Change, Record, Rollback, RolledBack, Die, Befalls,
           BackedUp, BackUp, Unwritten
  <1> QED BY <1>2, <1>3, <1>4

\* A command begins with all its targets to inspect.
LEMMA Begins ==
    ASSUME Types, NEW p \in Processes, Begin(p)
    PROVE  /\ ~Active(p) /\ pc'[p] = "inspect"
           /\ op'[p] \in Command /\ op'[p].records = records
           /\ op'[p].kind = "install" => op'[p].build \in Builds
           /\ op'[p].planned = {} /\ op'[p].changed = {}
           /\ op'[p].kind = "install" => op'[p].todo = Targets(op'[p].agents)
           /\ op'[p].kind = "remove" => op'[p].todo = RemovalTargets(op'[p].agents, records)
           /\ UNCHANGED <<content, records, backups, second, owed, touched>>
  <1>1. PICK kind \in Kinds, build \in {"none"} \cup Builds, agents \in SUBSET Agents \ {{}},
             force \in BOOLEAN :
          /\ kind = "install" <=> build # "none"
          /\ op' = [op EXCEPT ![p] =
              [kind |-> kind, build |-> build, agents |-> agents, force |-> force,
               records |-> records,
               todo |-> IF kind = "install" THEN Targets(agents)
                                            ELSE RemovalTargets(agents, records),
               planned |-> {}, originals |-> Nothing, changed |-> {}]]
    BY DEF Begin
  <1>2. Targets(agents) \subseteq Files /\ RemovalTargets(agents, records) \subseteq Files
    BY DEF Targets, RemovalTargets, Recorded, Files
  <1>3. Nothing \in [Files -> Contents]
    BY DEF Nothing, Contents
  <1>4. op'[p] = [kind |-> kind, build |-> build, agents |-> agents, force |-> force,
                  records |-> records,
                  todo |-> IF kind = "install" THEN Targets(agents)
                                               ELSE RemovalTargets(agents, records),
                  planned |-> {}, originals |-> Nothing, changed |-> {}]
    BY <1>1 DEF Types
  <1>5. op'[p] \in Command
    BY <1>2, <1>3, <1>4 DEF Types, Command
  <1>6. pc'[p] = "inspect" /\ ~Active(p)
    BY DEF Begin, Types
  <1>7. UNCHANGED <<content, records, backups, second, owed, touched>>
    BY DEF Begin, user
  <1>8. /\ op'[p].records = records /\ op'[p].planned = {} /\ op'[p].changed = {}
        /\ op'[p].kind = kind /\ op'[p].build = build /\ op'[p].agents = agents
        /\ op'[p].todo = IF kind = "install" THEN Targets(agents)
                                             ELSE RemovalTargets(agents, records)
    BY <1>4
  <1>9. op'[p].kind = "install" => op'[p].build \in Builds
    <2>1. kind = "install" => build \in Builds
      BY <1>1
    <2> QED BY <1>8, <2>1
  <1> QED BY <1>5, <1>6, <1>7, <1>8, <1>9

\* What a command is does not change while it runs.
SameCommand(p) ==
    /\ op'[p].kind = op[p].kind /\ op'[p].build = op[p].build
    /\ op'[p].agents = op[p].agents /\ op'[p].force = op[p].force
    /\ op'[p].records = op[p].records

\* An inspection leaves a file alone that is installed, or plans to change one that the
\* user did not write, or of which it has made a copy.
LEMMA Inspects ==
    ASSUME Types, NEW p \in Processes, Inspect(p), ~Return(p, "failed")
    PROVE  \E f \in op[p].todo :
             /\ pc[p] = "inspect" /\ pc' = pc /\ before' = before
             /\ op'[p] \in Command
             /\ op'[p].todo = op[p].todo \ {f}
             /\ SameCommand(p) /\ op'[p].changed = op[p].changed
             /\ UNCHANGED <<content, records, owed, touched>>
             /\ \/ /\ op[p].kind = "install" /\ content[f] = op[p].build
                   /\ op'[p].planned = op[p].planned /\ op'[p].originals = op[p].originals
                   /\ UNCHANGED <<backups, second, mishaps>>
                \/ /\ op'[p].planned = op[p].planned \cup {f}
                   /\ op'[p].originals = [op[p].originals EXCEPT ![f] = content[f]]
                   /\ ~UpToDate(op[p], f, content[f])
                   /\ op[p].force \/ content[f] \in {"none", op[p].records[f]}
                   /\ BackedUp(op[p], f, content[f])
  <1>1. PICK f \in First(op[p].todo) :
          \/ /\ UpToDate(op[p], f, content[f])
             /\ op' = [op EXCEPT ![p] = [op[p] EXCEPT !.todo = op[p].todo \ {f}]]
             /\ UNCHANGED <<pc, backups, second, before, mishaps>>
          \/ /\ ~UpToDate(op[p], f, content[f]) /\ ~Refuses(op[p], f, content[f])
             /\ BackedUp(op[p], f, content[f])
             /\ op' = [op EXCEPT ![p] =
                    [op[p] EXCEPT !.todo = op[p].todo \ {f},
                                  !.planned = op[p].planned \cup {f},
                                  !.originals = [op[p].originals EXCEPT ![f] = content[f]]]]
             /\ UNCHANGED <<pc, before>>
    BY DEF Inspect
  <1>2. op[p] \in Command /\ f \in op[p].todo /\ f \in Files /\ content[f] \in Contents
    BY <1>1 DEF Types, First, Command
  <1>3. pc[p] = "inspect" /\ UNCHANGED <<content, records, owed, touched>>
    BY DEF Inspect, user
  <1>4. CASE /\ UpToDate(op[p], f, content[f])
             /\ op' = [op EXCEPT ![p] = [op[p] EXCEPT !.todo = op[p].todo \ {f}]]
             /\ UNCHANGED <<pc, backups, second, before, mishaps>>
    <2>1. op'[p] = [op[p] EXCEPT !.todo = @ \ {f}]
      BY <1>4 DEF Types
    <2>2. op'[p] \in Command
      BY <1>2, <2>1 DEF Command
    <2>3. /\ op'[p].todo = op[p].todo \ {f}
          /\ SameCommand(p) /\ op'[p].changed = op[p].changed
          /\ op'[p].planned = op[p].planned /\ op'[p].originals = op[p].originals
      BY <1>2, <2>1 DEF Command, SameCommand
    <2> QED BY <1>2, <1>3, <1>4, <2>2, <2>3 DEF UpToDate
  <1>5. CASE /\ ~UpToDate(op[p], f, content[f]) /\ ~Refuses(op[p], f, content[f])
             /\ BackedUp(op[p], f, content[f])
             /\ op' = [op EXCEPT ![p] =
                    [op[p] EXCEPT !.todo = op[p].todo \ {f},
                                  !.planned = op[p].planned \cup {f},
                                  !.originals = [op[p].originals EXCEPT ![f] = content[f]]]]
             /\ UNCHANGED <<pc, before>>
    <2> DEFINE was == [op[p].originals EXCEPT ![f] = content[f]]
    <2>1. op'[p] = [op[p] EXCEPT !.todo = op[p].todo \ {f}, !.planned = op[p].planned \cup {f},
                                 !.originals = was]
      BY <1>5 DEF Types
    <2>2. was \in [Files -> Contents]
      BY <1>2 DEF Command
    <2> HIDE DEF was
    <2>3. op'[p] \in Command
      <3>1. op'[p] = [kind |-> op[p].kind, build |-> op[p].build, agents |-> op[p].agents, force |-> op[p].force,
                      records |-> op[p].records, todo |-> op[p].todo \ {f},
                      planned |-> op[p].planned \cup {f}, originals |-> was,
                      changed |-> op[p].changed]
        BY <1>2, <2>1 DEF Command
      <3>2. op[p].todo \ {f} \in SUBSET Files /\ op[p].planned \cup {f} \in SUBSET Files
        BY <1>2 DEF Command
      <3> QED BY <1>2, <2>2, <3>1, <3>2 DEF Command
    <2>4. /\ op'[p].todo = op[p].todo \ {f}
          /\ SameCommand(p) /\ op'[p].changed = op[p].changed
          /\ op'[p].planned = op[p].planned \cup {f} /\ op'[p].originals = was
      BY <1>2, <2>1 DEF Command, SameCommand
    <2>5. /\ ~UpToDate(op[p], f, content[f])
          /\ op[p].force \/ content[f] \in {"none", op[p].records[f]}
      BY <1>5 DEF Refuses, Unmanaged
    <2>6. pc' = pc /\ before' = before
      BY <1>5
    <2>7. BackedUp(op[p], f, content[f])
      BY <1>5
    <2> QED BY <1>2, <1>3, <2>3, <2>4, <2>5, <2>6, <2>7 DEF was
  <1> QED BY <1>1, <1>4, <1>5

\* A change writes or removes one planned file, or leads to the rollback.
LEMMA Changes ==
    ASSUME Types, NEW p \in Processes, Change(p)
    PROVE  /\ pc[p] = "change"
           /\ UNCHANGED <<records, backups, second, owed, touched, before>>
           /\ \E f \in op[p].planned \ op[p].changed :
                \/ /\ pc'[p] = "rollback" /\ op' = op
                   /\ \/ UNCHANGED <<content, mishaps>>
                      \/ /\ content' = [content EXCEPT ![f] = "none"]
                         /\ mishaps' = mishaps \cup {"unrestored"}
                \/ /\ pc'[p] = "change" /\ op'[p] \in Command /\ SameCommand(p)
                   /\ op'[p].changed = op[p].changed \cup {f} /\ op'[p].todo = op[p].todo
                   /\ op'[p].planned = op[p].planned /\ op'[p].originals = op[p].originals
                   /\ content' = [content EXCEPT ![f] = Written(op[p])] /\ mishaps' = mishaps
  <1>1. pc[p] = "change" /\ UNCHANGED <<records, backups, second, owed, touched, before>>
    BY DEF Change, user
  <1>2. PICK f \in op[p].planned \ op[p].changed :
          \/ /\ content' = [content EXCEPT ![f] = Written(op[p])]
             /\ op' = [op EXCEPT ![p] = [op[p] EXCEPT !.changed = op[p].changed \cup {f}]]
             /\ UNCHANGED <<pc, mishaps>>
          \/ /\ pc' = [pc EXCEPT ![p] = "rollback"] /\ UNCHANGED op
             /\ Unwritten(f) \/ UNCHANGED <<content, mishaps>>
    BY DEF Change, First
  <1>3. CASE /\ pc' = [pc EXCEPT ![p] = "rollback"] /\ UNCHANGED op
             /\ Unwritten(f) \/ UNCHANGED <<content, mishaps>>
    BY <1>1, <1>3 DEF Types, Unwritten, Befalls
  <1>4. CASE /\ content' = [content EXCEPT ![f] = Written(op[p])]
             /\ op' = [op EXCEPT ![p] = [op[p] EXCEPT !.changed = op[p].changed \cup {f}]]
             /\ UNCHANGED <<pc, mishaps>>
    <2>1. op'[p] = [op[p] EXCEPT !.changed = op[p].changed \cup {f}] /\ op[p] \in Command
      BY <1>4 DEF Types
    <2>2. op'[p] \in Command
      BY <1>2, <2>1 DEF Command
    <2>3. /\ SameCommand(p)
          /\ op'[p].changed = op[p].changed \cup {f} /\ op'[p].todo = op[p].todo
          /\ op'[p].planned = op[p].planned /\ op'[p].originals = op[p].originals
      BY <2>1 DEF Command, SameCommand
    <2> QED BY <1>1, <1>4, <2>2, <2>3
  <1> QED BY <1>2, <1>3, <1>4

\* A rollback puts back one file, or fails to.
LEMMA RollsBack ==
    ASSUME Types, NEW p \in Processes, Rollback(p)
    PROVE  \E f \in op[p].changed :
             /\ pc[p] = "rollback" /\ pc' = pc
             /\ UNCHANGED <<records, backups, second, owed, touched, before>>
             /\ op'[p] \in Command /\ SameCommand(p)
             /\ op'[p].changed = op[p].changed \ {f} /\ op'[p].todo = op[p].todo
             /\ op'[p].planned = op[p].planned /\ op'[p].originals = op[p].originals
             /\ \/ content' = [content EXCEPT ![f] = Restored(op[p], f)] /\ mishaps' = mishaps
                \/ /\ content' \in {content, [content EXCEPT ![f] = "none"]}
                   /\ mishaps' = mishaps \cup {"unrestored"}
  <1>1. PICK f \in op[p].changed :
          /\ op' = [op EXCEPT ![p] = [op[p] EXCEPT !.changed = op[p].changed \ {f}]]
          /\ \/ content' = [content EXCEPT ![f] = Restored(op[p], f)] /\ mishaps' = mishaps
             \/ /\ content' \in {content, [content EXCEPT ![f] = "none"]}
                /\ mishaps' = mishaps \cup {"unrestored"}
    BY DEF Rollback, Last, Befalls
  <1>2. op'[p] = [op[p] EXCEPT !.changed = op[p].changed \ {f}] /\ op[p] \in Command
    BY <1>1 DEF Types
  <1>3. op'[p] \in Command
    BY <1>2 DEF Command
  <1>4. /\ SameCommand(p)
        /\ op'[p].changed = op[p].changed \ {f} /\ op'[p].todo = op[p].todo
        /\ op'[p].planned = op[p].planned /\ op'[p].originals = op[p].originals
    BY <1>2 DEF Command, SameCommand
  <1>5. pc[p] = "rollback" /\ pc' = pc /\ UNCHANGED <<records, backups, second, owed, touched, before>>
    BY DEF Rollback, user
  <1> QED BY <1>1, <1>3, <1>4, <1>5

\* A death leaves the files as they are, but for one that is aside.
LEMMA Dies ==
    ASSUME Types, Ordered, NEW p \in Processes, Die(p)
    PROVE  /\ Return(p, "idle") /\ Active(p)
           /\ UNCHANGED <<records, backups, second, owed, touched>>
           /\ mishaps' = mishaps \cup IF op[p].changed = {} THEN {} ELSE {"died"}
           /\ content' = content \/ \E f \in op[p].planned : content' = [content EXCEPT ![f] = "none"]
  <1>1. InHand(p) \subseteq op[p].planned
    <2>1. CASE pc[p] = "change" /\ op[p].kind = "install"
      BY <2>1 DEF InHand, First
    <2>2. CASE pc[p] = "rollback"
      BY <2>2 DEF InHand, Last, Ordered
    <2>3. CASE ~(pc[p] = "change" /\ op[p].kind = "install") /\ pc[p] # "rollback"
      BY <2>3 DEF InHand
    <2> QED BY <2>1, <2>2, <2>3
  <1> QED BY <1>1 DEF Die, user

\* A command that ends is forgotten.
LEMMA Returns ==
    ASSUME Types, NEW p \in Processes, NEW outcome \in {"idle", "failed"}, Return(p, outcome)
    PROVE  /\ pc'[p] = outcome /\ op'[p] = NoCommand /\ op'[p] \in Command
           /\ op'[p].planned = {} /\ op'[p].changed = {} /\ op'[p].todo = {}
           /\ before' \in [Files -> Contents]
  <1>1. pc'[p] = outcome /\ op'[p] = NoCommand /\ before' = Nothing
    BY DEF Types, Return
  <1>2. Nothing \in [Files -> {"none"} \cup Builds] /\ Nothing \in [Files -> Contents]
    BY DEF Nothing, Contents
  <1>3. NoCommand \in Command /\ NoCommand.planned = {} /\ NoCommand.changed = {}
        /\ NoCommand.todo = {}
    BY <1>2 DEF NoCommand, Command, Kinds
  <1> QED BY <1>1, <1>2, <1>3

-----------------------------------------------------------------------------
(* What every step keeps.                                                   *)

LEMMA InitialStates == Init => IInv
  <1> SUFFICES ASSUME Init PROVE IInv
    OBVIOUS
  <1>1. Nothing \in [Files -> Contents] /\ Nothing \in [Files -> {"none"} \cup Builds]
    BY DEF Nothing, Contents
  <1>2. NoCommand \in Command /\ NoCommand.planned = {} /\ NoCommand.changed = {}
        /\ NoCommand.todo = {}
    BY <1>1 DEF NoCommand, Command, Kinds
  <1>3. records \in [Files -> {"none"} \cup Builds]
    BY DEF Init
  <1>4. content \in [Files -> Contents]
    BY <1>3 DEF Init, Contents
  <1>5. Types
    <2>1. backups \in [Files -> [Seconds -> Contents]] /\ second \in Seconds
      BY ManagedBounds DEF Init, Contents, Seconds
    <2> QED BY <1>1, <1>2, <1>3, <1>4, <2>1 DEF Init, Types
  <1>6. Ordered /\ Kept /\ Alone
    BY <1>2 DEF Init, Ordered, Kept, Alone, Active
  <1>7. Skill
    <2>1. PICK agents \in SUBSET Agents, build \in Builds :
            records = [f \in Files |-> IF f \in (IF agents = {} THEN {} ELSE Targets(agents))
                                       THEN build ELSE "none"]
      BY DEF Init
    <2>2. /\ Shared \in Files /\ \A a \in Dependent : a \in Files /\ a # Shared
          /\ build # "none"
      BY ManagedBounds DEF Files, Shared
    <2>3. \A a \in Dependent : records[a] # "none" => records[Shared] # "none"
      BY <2>1, <2>2 DEF Targets
    <2> QED BY <2>3 DEF Init, Skill, Removing, Active
  <1> QED BY <1>5, <1>6, <1>7 DEF IInv

LEMMA StepTypes ==
    ASSUME IInv, NEW p \in Processes, Step(p)
    PROVE  Types' /\ Ordered'
  <1>0. Types /\ Ordered
    BY DEF IInv
  <1>1. SUFFICES
          /\ content' \in [Files -> Contents] /\ records' \in [Files -> {"none"} \cup Builds]
          /\ backups' \in [Files -> [Seconds -> Contents]] /\ second' \in Seconds
          /\ touched' \subseteq Files /\ before' \in [Files -> Contents] /\ mishaps' \subseteq Mishaps
          /\ pc'[p] \in {"idle", "inspect", "change", "rollback", "failed"} /\ op'[p] \in Command
          /\ op'[p].changed \subseteq op'[p].planned
          /\ pc'[p] = "inspect" => op'[p].changed = {}
          /\ pc'[p] # "inspect" => op'[p].todo = {}
          /\ ~Active(p)' => op'[p].planned = {}
          /\ op'[p].kind = "install" =>
                 op'[p].todo \cup op'[p].planned \subseteq Targets(op'[p].agents)
          /\ Active(p)' /\ op'[p].kind = "install" => op'[p].build \in Builds
    <2>1. pc' = [pc EXCEPT ![p] = pc'[p]] /\ op' = [op EXCEPT ![p] = op'[p]]
      BY <1>0 DEF Types, Step, Begin, Inspect, Planned, Change, Record, Rollback, RolledBack,
                  Die, Return
    <2>2. \A q \in Processes \ {p} : pc'[q] = pc[q] /\ op'[q] = op[q]
      BY <1>0, OthersStay
    <2>3. owed' = owed
      BY <1>0, OthersStay
    <2>4. Types'
      BY <1>0, <1>1, <2>1, <2>3 DEF Types
    <2>5. Ordered'
      BY <1>0, <1>1, <2>2 DEF Ordered, Active
    <2> QED BY <2>4, <2>5
  <1>2. /\ content \in [Files -> Contents] /\ records \in [Files -> {"none"} \cup Builds]
        /\ backups \in [Files -> [Seconds -> Contents]] /\ second \in Seconds
        /\ touched \subseteq Files /\ before \in [Files -> Contents] /\ mishaps \subseteq Mishaps
        /\ pc \in [Processes -> {"idle", "inspect", "change", "rollback", "failed"}]
        /\ op[p] \in Command
        /\ op[p].changed \subseteq op[p].planned
        /\ pc[p] = "inspect" => op[p].changed = {}
        /\ pc[p] # "inspect" => op[p].todo = {}
        /\ op[p].kind = "install" => op[p].todo \cup op[p].planned \subseteq Targets(op[p].agents)
        /\ Active(p) /\ op[p].kind = "install" => op[p].build \in Builds
    BY <1>0 DEF Types, Ordered
  <1>3. Nothing \in [Files -> Contents]
    BY DEF Nothing, Contents
  <1>4. /\ op[p].todo \subseteq Files /\ op[p].planned \subseteq Files
        /\ op[p].changed \subseteq Files /\ op[p].originals \in [Files -> Contents]
    BY <1>2 DEF Command
  <1>5. CASE Begin(p)
    <2>1. before' \in [Files -> Contents] /\ mishaps' \subseteq Mishaps
      BY <1>2, <1>3, <1>5 DEF Begin, Befalls, Mishaps
    <2> QED BY <1>0, <1>2, <1>5, <2>1, Begins DEF Active
  <1>6. CASE Inspect(p) /\ Return(p, "failed")
    <2>1. UNCHANGED <<content, records, backups, second, touched>> /\ mishaps' \subseteq Mishaps
      <3>1. UNCHANGED <<content, records, touched>>
        BY <1>6 DEF Inspect, user
      <3>2. pc'[p] = "failed" /\ pc[p] = "inspect"
        BY <1>0, <1>6, Returns DEF Inspect
      <3>3. UNCHANGED <<backups, second, mishaps>>
        BY <1>6, <3>2 DEF Inspect
      <3> QED BY <1>2, <3>1, <3>3
    <2> QED BY <1>0, <1>2, <1>6, <2>1, Returns DEF Active
  <1>7. CASE Inspect(p) /\ ~Return(p, "failed")
    <2>1. PICK f \in op[p].todo :
             /\ pc[p] = "inspect" /\ pc' = pc /\ before' = before
             /\ op'[p] \in Command
             /\ op'[p].todo = op[p].todo \ {f}
             /\ op'[p].changed = op[p].changed /\ SameCommand(p)
             /\ UNCHANGED <<content, records, touched>>
             /\ \/ op'[p].planned = op[p].planned /\ UNCHANGED <<backups, second, mishaps>>
                \/ /\ op'[p].planned = op[p].planned \cup {f}
                   /\ BackedUp(op[p], f, content[f])
      BY <1>0, <1>7, Inspects
    <2>2. content[f] \in Contents /\ f \in Files
      BY <1>2, <1>4
    <2>3. /\ backups' \in [Files -> [Seconds -> Contents]] /\ second' \in Seconds
          /\ mishaps' \subseteq Mishaps
      <3>1. CASE BackUp(f, content[f])
        <4>1. PICK now \in Seconds :
                 /\ second' = now /\ backups' = [backups EXCEPT ![f][now] = content[f]]
                 /\ Befalls(IF backups[f][now] \in {"none", content[f]} THEN {}
                                                                     ELSE {"sameSecond"})
          BY <3>1 DEF BackUp
        <4>2. backups' \in [Files -> [Seconds -> Contents]] /\ second' \in Seconds
          BY <1>2, <2>2, <4>1
        <4>3. mishaps' \subseteq Mishaps
          BY <1>2, <4>1 DEF Befalls, Mishaps
        <4> QED BY <4>2, <4>3
      <3>2. CASE UNCHANGED <<backups, second, mishaps>>
        BY <1>2, <3>2
      <3> QED BY <2>1, <3>1, <3>2 DEF BackedUp
    <2> QED BY <1>2, <2>1, <2>3 DEF Active, SameCommand
  <1>8. CASE Planned(p)
    <2>1. pc[p] = "inspect" /\ pc'[p] = "change" /\ op' = op /\ op[p].todo = {}
          /\ UNCHANGED <<content, records, backups, second, touched, before, mishaps>>
      BY <1>2, <1>8 DEF Planned, Inspected, user
    <2> QED BY <1>2, <2>1 DEF Active
  <1>9. CASE Change(p)
    <2>1. PICK f \in op[p].planned \ op[p].changed :
                \/ /\ pc'[p] = "rollback" /\ op' = op
                   /\ \/ UNCHANGED <<content, mishaps>>
                      \/ /\ content' = [content EXCEPT ![f] = "none"]
                         /\ mishaps' = mishaps \cup {"unrestored"}
                \/ /\ pc'[p] = "change" /\ op'[p] \in Command /\ SameCommand(p)
                   /\ op'[p].changed = op[p].changed \cup {f} /\ op'[p].todo = op[p].todo
                   /\ op'[p].planned = op[p].planned
                   /\ content' = [content EXCEPT ![f] = Written(op[p])] /\ mishaps' = mishaps
      BY <1>0, <1>9, Changes
    <2>2. pc[p] = "change" /\ UNCHANGED <<records, backups, second, touched, before>>
      BY <1>0, <1>9, Changes
    <2>3. content' \in [Files -> Contents]
      <3>1. Written(op[p]) \in Contents /\ "none" \in Contents
        BY <1>2 DEF Written, Command, Contents
      <3> QED BY <1>2, <1>4, <2>1, <3>1
    <2>4. mishaps' \subseteq Mishaps
      BY <1>2, <2>1 DEF Mishaps
    <2> QED BY <1>2, <2>1, <2>2, <2>3, <2>4 DEF Active, SameCommand
  <1>10. CASE Record(p)
    <2>1. CASE Return(p, "idle")
      <3>1. UNCHANGED <<content, backups, second, mishaps>> /\ touched' \subseteq Files
        BY <1>2, <1>10 DEF Record
      <3>2. pc'[p] # "rollback"
        BY <1>0, <2>1, Returns
      <3>3. records' \in [Files -> {"none"} \cup Builds]
        <4>1. Written(op[p]) \in {"none"} \cup Builds
          BY <1>2 DEF Written, Command
        <4> QED BY <1>2, <1>10, <3>2, <4>1 DEF Record
      <3> QED BY <1>0, <1>2, <2>1, <3>1, <3>3, Returns DEF Active
    <2>2. CASE ~Return(p, "idle")
      BY <1>2, <1>10, <2>2 DEF Record, Active
    <2> QED BY <2>1, <2>2
  <1>11. CASE Rollback(p)
    <2>1. PICK f \in op[p].changed :
             /\ pc[p] = "rollback" /\ pc' = pc
             /\ UNCHANGED <<records, backups, second, touched, before>>
             /\ op'[p] \in Command /\ SameCommand(p)
             /\ op'[p].changed = op[p].changed \ {f}
             /\ op'[p].todo = op[p].todo /\ op'[p].planned = op[p].planned
             /\ \/ content' = [content EXCEPT ![f] = Restored(op[p], f)] /\ mishaps' = mishaps
                \/ /\ content' \in {content, [content EXCEPT ![f] = "none"]}
                   /\ mishaps' = mishaps \cup {"unrestored"}
      BY <1>0, <1>11, RollsBack
    <2>2. Restored(op[p], f) \in Contents /\ "none" \in Contents
      BY <1>2, <1>4 DEF Restored, Contents
    <2>3. content' \in [Files -> Contents] /\ mishaps' \subseteq Mishaps
      <3>1. content' \in [Files -> Contents]
        BY <1>2, <2>1, <2>2
      <3>2. mishaps' \subseteq Mishaps
        BY <1>2, <2>1 DEF Mishaps
      <3> QED BY <3>1, <3>2
    <2> QED BY <1>2, <2>1, <2>3 DEF Active, SameCommand
  <1>12. CASE RolledBack(p) \/ Die(p)
    <2>1. Return(p, "failed") \/ Return(p, "idle")
      BY <1>12 DEF RolledBack, Die
    <2>2. UNCHANGED <<records, backups, second, touched>>
      BY <1>12 DEF RolledBack, Die, user
    <2>3. content' \in [Files -> Contents]
      <3>1. content' = content \/ \E f \in op[p].planned : content' = [content EXCEPT ![f] = "none"]
        BY <1>0, <1>12, Dies DEF RolledBack
      <3>2. "none" \in Contents
        BY DEF Contents
      <3> QED BY <1>2, <1>4, <3>1, <3>2
    <2>4. mishaps' \subseteq Mishaps
      BY <1>2, <1>12 DEF RolledBack, Die, Mishaps
    <2> QED BY <1>0, <1>2, <2>1, <2>2, <2>3, <2>4, Returns DEF Active
  <1> QED BY <1>5, <1>6, <1>7, <1>8, <1>9, <1>10, <1>11, <1>12 DEF Step

\* Copies are made of all that is not the CLI's own, and no copy is lost.
LEMMA StepKept ==
    ASSUME IInv, NEW p \in Processes, Step(p)
    PROVE  Kept'
  <1>0. Types /\ Ordered /\ Kept /\ Types'
    BY StepTypes DEF IInv
  <1>1. SUFFICES ASSUME mishaps' \cap {"raced", "sameSecond"} = {},
                        NEW f \in Files, NEW c \in owed[f]
                 PROVE  /\ content'[f] = c \/ Copied(f, c)'
                        /\ \A q \in Processes : f \in op'[q].planned => Copied(f, c)'
    BY <1>0, OthersStay DEF Kept
  <1>2. mishaps \cap {"raced", "sameSecond"} = {} /\ c \in UserContents
    BY <1>0, <1>1, OthersStay DEF Types
  <1>3. /\ content[f] = c \/ Copied(f, c)
        /\ \A q \in Processes : f \in op[q].planned => Copied(f, c)
    BY <1>0, <1>2 DEF Kept
  <1>4. c \notin {"none"} \cup Builds
    BY <1>2, ManagedBounds
  <1>5. \A q \in Processes \ {p} : op'[q] = op[q]
    BY <1>0, OthersStay
  <1>6. ASSUME op'[p].planned \subseteq op[p].planned \/ f \notin op'[p].planned,
               backups' = backups, content'[f] = content[f] \/ f \in op[p].planned
        PROVE  /\ content'[f] = c \/ Copied(f, c)'
               /\ \A q \in Processes : f \in op'[q].planned => Copied(f, c)'
    BY <1>3, <1>5, <1>6 DEF Copied
  <1>7. CASE Begin(p)
    BY <1>0, <1>6, <1>7, Begins
  <1>8. CASE Inspect(p) /\ Return(p, "failed")
    <2>1. pc'[p] = "failed" /\ op'[p].planned = {} /\ pc[p] = "inspect"
      BY <1>0, <1>8, Returns DEF Inspect
    <2>2. backups' = backups /\ content' = content
      BY <1>8, <2>1 DEF Inspect
    <2> QED BY <1>6, <2>1, <2>2
  <1>9. CASE Inspect(p) /\ ~Return(p, "failed")
    <2>1. PICK g \in op[p].todo :
             /\ content' = content
             /\ \/ op'[p].planned = op[p].planned /\ UNCHANGED <<backups, mishaps>>
                \/ /\ op'[p].planned = op[p].planned \cup {g}
                   /\ op[p].force \/ content[g] \in {"none", op[p].records[g]}
                   /\ BackedUp(op[p], g, content[g])
      BY <1>0, <1>9, Inspects
    <2>2. CASE op'[p].planned = op[p].planned /\ UNCHANGED <<backups, mishaps>>
      BY <1>6, <2>1, <2>2
    <2>3. CASE /\ op'[p].planned = op[p].planned \cup {g}
               /\ op[p].force \/ content[g] \in {"none", op[p].records[g]}
               /\ BackedUp(op[p], g, content[g])
      <3>1. g \in Files /\ op[p] \in Command /\ op[p].records[g] \in {"none"} \cup Builds
        BY <1>0, <2>1 DEF Types, Command
      <3>2. backups \in [Files -> [Seconds -> Contents]]
        BY <1>0 DEF Types
      <3>3. \A h \in Files : \A s \in Seconds :
              backups[h][s] = "none" \/ backups'[h][s] = backups[h][s]
        <4>1. CASE backups' = backups
          BY <4>1
        <4>2. CASE BackUp(g, content[g])
          <5>1. PICK now \in Seconds :
                   /\ backups' = [backups EXCEPT ![g][now] = content[g]]
                   /\ Befalls(IF backups[g][now] \in {"none", content[g]} THEN {}
                                                                       ELSE {"sameSecond"})
            BY <4>2 DEF BackUp
          <5>2. backups[g][now] \in {"none", content[g]}
            BY <1>1, <5>1 DEF Befalls
          <5> QED BY <3>1, <3>2, <5>1, <5>2
        <4> QED BY <2>3, <4>1, <4>2 DEF BackedUp
      <3>4. Copied(f, c) => Copied(f, c)'
        BY <1>4, <3>3 DEF Copied
      <3>5. f = g /\ content[f] = c => Copied(f, c)'
        <4>1. SUFFICES ASSUME f = g, content[f] = c
                       PROVE  Copied(f, c)'
          OBVIOUS
        <4>2. NeedsBackUp(op[p], g, content[g])
          BY <1>4, <2>3, <3>1, <4>1 DEF NeedsBackUp, Command, Kinds
        <4>3. PICK now \in Seconds : backups' = [backups EXCEPT ![g][now] = content[g]]
          BY <2>3, <4>2 DEF BackedUp, BackUp
        <4>4. backups'[f][now] = c
          BY <3>1, <3>2, <4>1, <4>3
        <4> QED BY <4>4 DEF Copied
      <3> QED BY <1>3, <1>5, <2>1, <2>3, <3>4, <3>5
    <2> QED BY <2>1, <2>2, <2>3
  <1>10. CASE Planned(p)
    BY <1>6, <1>10 DEF Planned
  <1>11. CASE Change(p)
    <2>1. backups' = backups
      BY <1>0, <1>11, Changes
    <2>2. op'[p].planned = op[p].planned
      BY <1>0, <1>11, Changes
    <2>3. content'[f] = content[f] \/ f \in op[p].planned
      <3>1. content \in [Files -> Contents]
        BY <1>0 DEF Types
      <3>2. \/ content' = content
            \/ \E g \in op[p].planned : \E x : content' = [content EXCEPT ![g] = x]
        BY <1>0, <1>11, Changes
      <3> QED BY <3>1, <3>2
    <2> QED BY <1>6, <2>1, <2>2, <2>3
  <1>12. CASE Record(p)
    <2>1. backups' = backups /\ content' = content
      BY <1>12 DEF Record
    <2>2. op' = op \/ op'[p].planned = {}
      BY <1>0, <1>12, Returns DEF Record
    <2> QED BY <1>6, <2>1, <2>2
  <1>13. CASE Rollback(p)
    <2>1. PICK g \in op[p].changed :
             /\ backups' = backups /\ op'[p].planned = op[p].planned
             /\ \/ content' = [content EXCEPT ![g] = Restored(op[p], g)]
                \/ content' \in {content, [content EXCEPT ![g] = "none"]}
      BY <1>0, <1>13, RollsBack
    <2>2. g \in op[p].planned /\ content \in [Files -> Contents]
      BY <1>0, <2>1 DEF Types, Ordered
    <2>3. content'[f] = content[f] \/ f \in op[p].planned
      BY <2>1, <2>2
    <2> QED BY <1>6, <2>1, <2>3
  <1>14. CASE RolledBack(p) \/ Die(p)
    <2>1. backups' = backups
      BY <1>14 DEF RolledBack, Die
    <2>2. op'[p].planned = {}
      BY <1>0, <1>14, Returns DEF RolledBack, Die
    <2>3. content'[f] = content[f] \/ f \in op[p].planned
      <3>1. content' = content \/ \E g \in op[p].planned : content' = [content EXCEPT ![g] = "none"]
        BY <1>0, <1>14, Dies DEF RolledBack
      <3>2. content \in [Files -> Contents]
        BY <1>0 DEF Types
      <3> QED BY <3>1, <3>2
    <2> QED BY <1>6, <2>1, <2>2, <2>3
  <1> QED BY <1>7, <1>8, <1>9, <1>10, <1>11, <1>12, <1>13, <1>14 DEF Step

\* Whoever begins while another command runs leaves a trace.
LEMMA StepAlone ==
    ASSUME IInv, NEW p \in Processes, Step(p)
    PROVE  Alone'
  <1>0. Types /\ Alone
    BY DEF IInv
  <1>1. SUFFICES ASSUME "overlap" \notin mishaps', NEW q \in Processes, NEW r \in Processes,
                        Active(q)', Active(r)'
                 PROVE  q = r
    BY DEF Alone
  <1>2. "overlap" \notin mishaps
    BY <1>0, <1>1, OthersStay
  <1>3. CASE Begin(p)
    <2>1. ~\E s \in Processes : Active(s)
      BY <1>1, <1>3 DEF Begin, Befalls
    <2> QED BY <1>0, <1>1, <1>3, <2>1, OthersStay DEF Active
  <1>4. CASE ~Begin(p)
    <2>1. Active(p)
      BY <1>4 DEF Step, Active, Inspect, Planned, Change, Record, Rollback, RolledBack, Die
    <2>2. \A s \in Processes : Active(s)' => Active(s)
      BY <1>0, <2>1, OthersStay DEF Active
    <2> QED BY <1>0, <1>1, <1>2, <2>2 DEF Alone
  <1> QED BY <1>3, <1>4

\* A removal takes the shared skill only with the last of those who depend on it.
LEMMA StepSkill ==
    ASSUME IInv, NEW p \in Processes, Step(p)
    PROVE  Skill'
  <1>0. Types /\ Ordered /\ Alone /\ Skill
    BY DEF IInv
  <1>1. SUFFICES ASSUME "overlap" \notin mishaps'
                 PROVE  /\ \A q \in Processes : Removing(q)'
                        /\ \A a \in Dependent : records'[a] # "none" => records'[Shared] # "none"
    BY DEF Skill
  <1>2. "overlap" \notin mishaps
    BY <1>0, <1>1, OthersStay
  <1>3. /\ \A q \in Processes : Removing(q)
        /\ \A a \in Dependent : records[a] # "none" => records[Shared] # "none"
        /\ op[p] \in Command
    BY <1>0, <1>2 DEF Skill, Types
  <1>4. \A q \in Processes \ {p} : ~Active(q)'
    <2>1. CASE Begin(p)
      <3>1. ~\E s \in Processes : Active(s)
        BY <1>1, <2>1 DEF Begin, Befalls
      <3> QED BY <1>0, <3>1, OthersStay DEF Active
    <2>2. CASE ~Begin(p)
      <3>1. Active(p)
        BY <2>2 DEF Step, Active, Inspect, Planned, Change, Record, Rollback, RolledBack, Die
      <3>2. \A s \in Processes \ {p} : ~Active(s)
        BY <1>0, <1>2, <3>1 DEF Alone
      <3> QED BY <1>0, <3>2, OthersStay DEF Active
    <2> QED BY <2>1, <2>2
  <1>5. SUFFICES /\ Removing(p)'
                 /\ \A a \in Dependent : records'[a] # "none" => records'[Shared] # "none"
    BY <1>4 DEF Removing
  <1>6. CASE Begin(p)
    BY <1>0, <1>3, <1>6, Begins DEF Removing
  <1>7. CASE Inspect(p) /\ ~Return(p, "failed")
    <2>1. PICK f \in op[p].todo :
             /\ pc[p] = "inspect" /\ pc' = pc
             /\ op'[p].todo = op[p].todo \ {f}
             /\ op'[p].kind = op[p].kind /\ op'[p].agents = op[p].agents
             /\ op'[p].records = op[p].records /\ records' = records
             /\ \/ op[p].kind = "install" /\ op'[p].planned = op[p].planned
                \/ op'[p].planned = op[p].planned \cup {f}
      BY <1>0, <1>7, Inspects DEF SameCommand
    <2>2. Removing(p)'
      BY <1>3, <2>1 DEF Removing, Active
    <2> QED BY <1>3, <2>1, <2>2
  <1>8. CASE Planned(p)
    BY <1>0, <1>3, <1>8 DEF Planned, Removing, Active, Types
  <1>9. CASE Change(p)
    <2>1. /\ pc[p] = "change" /\ pc'[p] \in {"change", "rollback"}
          /\ op'[p].todo = op[p].todo /\ op'[p].planned = op[p].planned
          /\ op'[p].kind = op[p].kind /\ op'[p].agents = op[p].agents
          /\ op'[p].records = op[p].records /\ records' = records
      BY <1>0, <1>9, Changes DEF SameCommand
    <2>2. Removing(p)'
      BY <1>3, <2>1 DEF Removing, Active
    <2> QED BY <1>3, <2>1, <2>2
  <1>10. CASE Record(p) /\ ~Return(p, "idle")
    <2>1. pc[p] = "change" /\ op' = op /\ records' = records /\ pc'[p] = "rollback"
      BY <1>0, <1>10 DEF Record, Types
    <2> QED BY <1>3, <2>1 DEF Removing, Active
  <1>11. CASE Record(p) /\ Return(p, "idle")
    <2>1. pc'[p] = "idle" /\ pc[p] = "change"
      BY <1>0, <1>11, Returns DEF Record
    <2> DEFINE done == IF op[p].kind = "install" THEN Targets(op[p].agents) ELSE op[p].planned
    <2>2. records' = [f \in Files |-> IF f \notin done THEN records[f] ELSE Written(op[p])]
      <3>1. pc' # [pc EXCEPT ![p] = "rollback"]
        BY <1>0, <2>1 DEF Types
      <3> QED BY <1>11, <3>1 DEF Record
    <2>3. Shared \in Files /\ \A a \in Dependent : a \in Files
      BY ManagedBounds DEF Files, Shared
    <2>4. CASE op[p].kind = "install"
      <3>1. Shared \in done
        BY <2>4 DEF Targets
      <3>2. records'[Shared] # "none"
        <4>1. op[p].build # "none"
          BY <1>0, <2>1, <2>4, ManagedBounds DEF Ordered, Active
        <4> QED BY <2>2, <2>3, <2>4, <3>1, <4>1 DEF Written
      <3> QED BY <2>1, <3>2 DEF Removing, Active
    <2>5. CASE op[p].kind = "remove"
      <3>1. op[p].planned = RemovalTargets(op[p].agents, records)
        BY <1>0, <1>3, <2>1, <2>5 DEF Removing, Active, Ordered
      <3>2. ASSUME NEW a \in Dependent, records'[a] # "none"
            PROVE  records'[Shared] # "none"
        <4>1. a \notin op[p].planned /\ records[a] # "none"
          BY <2>2, <2>3, <2>5, <3>2 DEF Written
        <4>2. records[Shared] # "none"
          BY <1>3, <4>1
        <4>3. a \in Recorded(records)
          BY <2>3, <4>1 DEF Recorded
        <4>4. Shared \notin op[p].planned
          <5>1. SUFFICES ASSUME Shared \in op[p].planned PROVE FALSE
            OBVIOUS
          <5>2. Shared \notin op[p].agents
            BY <1>3, ManagedBounds DEF Command, Shared
          <5>3. ~KeepsSharedSkill(op[p].agents, records)
            BY <3>1, <5>1, <5>2 DEF RemovalTargets
          <5>4. a \in op[p].agents
            BY <4>3, <5>3 DEF KeepsSharedSkill
          <5> QED BY <3>1, <4>1, <4>3, <5>3, <5>4 DEF RemovalTargets, Targets
        <4> QED BY <2>2, <2>3, <2>5, <4>2, <4>4
      <3> QED BY <2>1, <3>2 DEF Removing, Active
    <2>6. op[p].kind \in {"install", "remove"}
      BY <1>3 DEF Command, Kinds
    <2>7. Removing(p)'
      BY <2>1 DEF Removing, Active
    <2> QED BY <2>4, <2>5, <2>6, <2>7
  <1>12. CASE Rollback(p)
    <2>1. /\ pc[p] = "rollback" /\ pc' = pc
          /\ op'[p].todo = op[p].todo /\ op'[p].planned = op[p].planned
          /\ op'[p].kind = op[p].kind /\ op'[p].agents = op[p].agents
          /\ op'[p].records = op[p].records /\ records' = records
      BY <1>0, <1>12, RollsBack DEF SameCommand
    <2>2. Removing(p)'
      BY <1>3, <2>1 DEF Removing, Active
    <2> QED BY <1>3, <2>1, <2>2
  <1>13. CASE (Inspect(p) /\ Return(p, "failed")) \/ RolledBack(p) \/ Die(p)
    <2>1. records' = records
      BY <1>13 DEF Inspect, RolledBack, Die
    <2>2. pc'[p] \in {"idle", "failed"}
      BY <1>0, <1>13, Returns DEF RolledBack, Die
    <2> QED BY <1>3, <2>1, <2>2 DEF Removing, Active
  <1> QED
    BY <1>6, <1>7, <1>8, <1>9, <1>10, <1>11, <1>12, <1>13 DEF Step

\* The user changes a file nobody has inspected, or leaves a trace.
LEMMA EditKeeps ==
    ASSUME IInv, NEW f \in Files, Edit(f)
    PROVE  IInv'
  <1>0. Types /\ Ordered /\ Kept /\ Alone /\ Skill
    BY DEF IInv
  <1>1. PICK c \in (UserContents \ owed[f]) \cup {"none"} :
          /\ content' = [content EXCEPT ![f] = c]
          /\ owed' = [owed EXCEPT ![f] = (owed[f] \ {content[f]}) \cup ({c} \cap UserContents)]
    BY <1>0 DEF Edit, Types
  <1>2. /\ UNCHANGED <<records, backups, second, pc, op>> /\ touched' = touched \cup {f}
        /\ mishaps' = mishaps \cup IF \E p \in Processes : f \in op[p].planned
                                   THEN {"raced"} ELSE {}
    BY DEF Edit, Befalls
  <1>3. Types'
    <2>1. c \in Contents /\ content' \in [Files -> Contents]
      BY <1>0, <1>1 DEF Types, Contents
    <2>2. owed' \in [Files -> SUBSET UserContents]
      BY <1>0, <1>1 DEF Types
    <2>3. content'[f] \in Contents
      BY <2>1
    <2>4. before' \in [Files -> Contents]
      BY <1>0, <2>3 DEF Types, Edit
    <2>5. mishaps' \subseteq Mishaps
      BY <1>0, <1>2 DEF Types, Mishaps
    <2> QED BY <1>0, <1>2, <2>1, <2>2, <2>4, <2>5 DEF Types
  <1>4. Kept'
    <2>1. SUFFICES ASSUME mishaps' \cap {"raced", "sameSecond"} = {},
                          NEW g \in Files, NEW d \in owed'[g]
                   PROVE  /\ content'[g] = d \/ Copied(g, d)'
                          /\ \A p \in Processes : g \in op'[p].planned => Copied(g, d)'
      BY DEF Kept
    <2>2. mishaps \cap {"raced", "sameSecond"} = {} /\ \A p \in Processes : f \notin op[p].planned
      BY <1>2, <2>1
    <2>3. Copied(g, d) => Copied(g, d)'
      BY <1>2 DEF Copied
    <2>4. CASE g # f
      <3>1. d \in owed[g] /\ content'[g] = content[g]
        BY <1>0, <1>1, <2>1, <2>4 DEF Types
      <3> QED BY <1>0, <1>2, <2>2, <2>3, <3>1 DEF Kept
    <2>5. CASE g = f
      <3>1. content'[f] = c /\ d \in (owed[f] \ {content[f]}) \cup ({c} \cap UserContents)
        BY <1>0, <1>1, <2>1, <2>5 DEF Types
      <3>2. content'[f] = d \/ (d \in owed[f] /\ d # content[f])
        BY <3>1
      <3>3. content'[g] = d \/ Copied(g, d)
        BY <1>0, <2>2, <2>5, <3>2 DEF Kept
      <3> QED BY <1>2, <2>2, <2>3, <2>5, <3>3
    <2> QED BY <2>4, <2>5
  <1>5. Ordered' /\ Alone'
    BY <1>0, <1>2 DEF Ordered, Alone, Active
  <1>6. Skill'
    BY <1>0, <1>2 DEF Skill, Removing, Active
  <1> QED BY <1>3, <1>4, <1>5, <1>6 DEF IInv

LEMMA Inductive == IInv /\ [Next]_vars => IInv'
  <1> SUFFICES ASSUME IInv, [Next]_vars PROVE IInv'
    OBVIOUS
  <1>1. CASE \E p \in Processes : Step(p)
    BY <1>1, StepTypes, StepKept, StepAlone, StepSkill DEF IInv
  <1>2. CASE \E f \in Files : Edit(f)
    BY <1>2, EditKeeps
  <1>3. CASE UNCHANGED vars
    BY <1>3 DEF vars, user, IInv, Types, Ordered, Kept, Copied, Alone, Active, Skill, Removing
  <1> QED BY <1>1, <1>2, <1>3 DEF Next, Step

\* The inductive invariant, in every behaviour.
THEOREM ManagedSafety == Spec => []IInv
  BY InitialStates, Inductive, PTL DEF Spec

\* However many commands run at once, fail half way and die, for any agents and any
\* edits: what the user wrote is in its file or in a backup of it, unless he changed a
\* file a command had inspected, or two backups of a file were made in one second.
THEOREM NothingOfTheUserLost == Spec => []UserContentKept
  <1>1. IInv => UserContentKept
    BY DEF IInv, Kept, Copied, UserContentKept
  <1> QED BY <1>1, ManagedSafety, PTL

\* Commands that run one at a time never leave an agent recorded whose wrapper refers to
\* a shared skill that is not.
THEOREM SkillStays == Spec => []SharedSkillKept
  <1>1. IInv => SharedSkillKept
    BY DEF IInv, Skill, SharedSkillKept
  <1> QED BY <1>1, ManagedSafety, PTL

\* Then the repair the diagnosis of such an agent names is never refused.
THEOREM RepairAccepted == Spec => []WrapperRepairable
  <1>1. ASSUME IInv, "overlap" \notin mishaps, NEW a \in Dependent, NEW build \in Builds,
               Status(a, build) \in {"stale", "missing"}, NEW f \in Targets({a})
        PROVE  ~Unmanaged(content[f], records[f])
    <2>1. records[a] # "none" /\ records[Shared] # "none"
      BY <1>1 DEF Status, Diagnosed, IInv, Skill
    <2>2. Shared \in Files /\ Diagnosed(a) = {a, Shared}
      BY <2>1 DEF Diagnosed, Recorded, Files
    <2>3. "modified" \notin {Integrity(g) : g \in Diagnosed(a)}
      BY <1>1 DEF Status, Worst
    <2>4. f \in Diagnosed(a)
      BY <1>1, <2>2 DEF Targets
    <2>5. Integrity(f) # "modified"
      BY <2>3, <2>4
    <2> QED BY <2>5 DEF Integrity, Unmanaged
  <1>2. \A kind, build : Plain(kind, build).records = records
    BY DEF Plain, NoCommand
  <1>3. IInv => WrapperRepairable
    BY <1>1, <1>2 DEF WrapperRepairable, Refuses
  <1> QED BY <1>3, ManagedSafety, PTL

-----------------------------------------------------------------------------
(* What a command that fails leaves behind, and what is not refused.        *)

\* Whoever runs alone knows what it has changed, and what was there before.
Restoring(p) ==
    Active(p) => \A f \in Files :
        /\ f \in op[p].planned => op[p].originals[f] = before[f]
        /\ f \notin op[p].changed => content[f] = before[f]
        /\ f \in op[p].changed => content[f] = Written(op[p])

Accounted == mishaps \subseteq {"died"} => \A p \in Processes : Restoring(p)

\* What nobody touched holds nothing or what is recorded,
Untouched(f, c) == c \in {"none", records[f]}

\* but for what the command under way has changed.
Expecting(p, f) ==
    Active(p) =>
        /\ f \in op[p].planned => Untouched(f, op[p].originals[f])
        /\ f \in op[p].changed => content[f] = Written(op[p])
        /\ pc[p] # "rollback" /\ op[p].kind = "install"
               /\ f \in Targets(op[p].agents) \ (op[p].todo \cup op[p].planned) =>
                      content[f] = op[p].build

Expected ==
    mishaps \cap {"overlap", "unrestored", "died"} = {} =>
        \A f \in Files \ touched :
            /\ Untouched(f, content[f]) \/ \E p \in Processes : f \in op[p].changed
            /\ \A p \in Processes : Expecting(p, f)

\* What a command has planned to change it does not refuse, and would not if it began
\* again.
Redoable(p) ==
    Active(p) =>
        /\ op[p].records = records
        /\ \A f \in op[p].planned :
              /\ op[p].force \/ op[p].originals[f] \in {"none", records[f]}
              /\ content[f] \in {op[p].originals[f], Written(op[p]), "none"}
              /\ pc[p] = "change" /\ f \in op[p].changed => content[f] = Written(op[p])

Redo == mishaps \cap {"overlap", "raced"} = {} => \A p \in Processes : Redoable(p)

\* Of processes that run alone, only the one that takes a step may be active after it.
LEMMA OthersIdle ==
    ASSUME Types, Alone, NEW p \in Processes, Step(p), "overlap" \notin mishaps'
    PROVE  \A q \in Processes \ {p} : ~Active(q)'
  <1>1. CASE Begin(p)
    <2>1. ~\E s \in Processes : Active(s)
      BY <1>1 DEF Begin, Befalls
    <2> QED BY <2>1, OthersStay DEF Active
  <1>2. CASE ~Begin(p)
    <2>1. Active(p)
      BY <1>2 DEF Step, Active, Inspect, Planned, Change, Record, Rollback, RolledBack, Die
    <2>2. "overlap" \notin mishaps
      BY OthersStay
    <2>3. \A s \in Processes \ {p} : ~Active(s)
      BY <2>1, <2>2 DEF Alone
    <2> QED BY <2>3, OthersStay DEF Active
  <1> QED BY <1>1, <1>2

LEMMA StepAccounted ==
    ASSUME IInv, Accounted, NEW p \in Processes, Step(p)
    PROVE  Accounted'
  <1>0. Types /\ Ordered /\ Alone
    BY DEF IInv
  <1>1. SUFFICES ASSUME mishaps' \subseteq {"died"}, Active(p)', NEW f \in Files
                 PROVE  /\ f \in op'[p].planned => op'[p].originals[f] = before'[f]
                        /\ f \notin op'[p].changed => content'[f] = before'[f]
                        /\ f \in op'[p].changed => content'[f] = Written(op'[p])
    <2>1. SUFFICES ASSUME mishaps' \subseteq {"died"} PROVE Restoring(p)'
      BY <1>0, OthersIdle DEF Accounted, Restoring
    <2> QED BY <1>1, <2>1 DEF Restoring
  <1>2. mishaps \subseteq {"died"}
    BY <1>0, <1>1, OthersStay
  <1>3. Active(p) =>
            /\ f \in op[p].planned => op[p].originals[f] = before[f]
            /\ f \notin op[p].changed => content[f] = before[f]
            /\ f \in op[p].changed => content[f] = Written(op[p])
    BY <1>2 DEF Accounted, Restoring
  <1>4. /\ op[p] \in Command /\ op[p].changed \subseteq op[p].planned
        /\ content \in [Files -> Contents] /\ op[p].originals \in [Files -> Contents]
        /\ op[p].planned \subseteq Files
    BY <1>0 DEF Types, Ordered, Command
  <1>5. CASE Begin(p)
    <2>1. before' = content
      BY <1>1, <1>5 DEF Begin, Befalls
    <2> QED BY <1>0, <1>5, <2>1, Begins
  <1>6. CASE Inspect(p) /\ ~Return(p, "failed")
    <2>1. PICK g \in op[p].todo :
             /\ pc[p] = "inspect" /\ before' = before /\ content' = content
             /\ SameCommand(p) /\ op'[p].changed = op[p].changed
             /\ \/ op'[p].planned = op[p].planned /\ op'[p].originals = op[p].originals
                \/ /\ op'[p].planned = op[p].planned \cup {g}
                   /\ op'[p].originals = [op[p].originals EXCEPT ![g] = content[g]]
      BY <1>0, <1>6, Inspects
    <2>2. Active(p) /\ op[p].changed = {}
      BY <1>0, <2>1 DEF Active, Ordered
    <2>3. f \in op'[p].planned => op'[p].originals[f] = before'[f]
      BY <1>3, <1>4, <2>1, <2>2
    <2> QED BY <1>3, <2>1, <2>2, <2>3
  <1>7. CASE Planned(p)
    <2>1. Active(p) /\ UNCHANGED <<op, content, before>>
      BY <1>7 DEF Planned, Active
    <2> QED BY <1>3, <2>1
  <1>8. CASE Change(p)
    <2>1. Active(p) /\ before' = before
      BY <1>0, <1>8, Changes DEF Active
    <2>2. PICK g \in op[p].planned \ op[p].changed :
             \/ /\ op' = op
                /\ content' = content \/ mishaps' = mishaps \cup {"unrestored"}
             \/ /\ op'[p].changed = op[p].changed \cup {g} /\ SameCommand(p)
                /\ op'[p].planned = op[p].planned /\ op'[p].originals = op[p].originals
                /\ content' = [content EXCEPT ![g] = Written(op[p])]
      BY <1>0, <1>8, Changes
    <2>3. CASE op' = op
      <3>1. Written(op'[p]) = Written(op[p])
        BY <2>3
      <3> QED BY <1>1, <1>3, <2>1, <2>2, <2>3, <3>1 DEF SameCommand
    <2>4. CASE op' # op
      <3>1. Written(op'[p]) = Written(op[p])
        BY <2>2, <2>4 DEF Written, SameCommand
      <3> QED BY <1>3, <1>4, <2>1, <2>2, <2>4, <3>1
    <2> QED BY <2>3, <2>4
  <1>9. CASE Record(p)
    <2>1. Active(p) /\ content' = content
      BY <1>9 DEF Record, Active
    <2>2. ~Return(p, "idle")
      BY <1>0, <1>1, Returns DEF Active
    <2>3. UNCHANGED <<op, before>>
      BY <1>9, <2>2 DEF Record
    <2> QED BY <1>3, <2>1, <2>3
  <1>10. CASE Rollback(p)
    <2>1. PICK g \in op[p].changed :
             /\ pc[p] = "rollback" /\ before' = before
             /\ op'[p].changed = op[p].changed \ {g} /\ SameCommand(p)
             /\ op'[p].planned = op[p].planned /\ op'[p].originals = op[p].originals
             /\ \/ content' = [content EXCEPT ![g] = Restored(op[p], g)]
                \/ mishaps' = mishaps \cup {"unrestored"}
      BY <1>0, <1>10, RollsBack
    <2>2. content' = [content EXCEPT ![g] = Restored(op[p], g)] /\ Active(p)
      BY <1>1, <2>1 DEF Active
    <2>3. Written(op'[p]) = Written(op[p])
      BY <2>1 DEF Written, SameCommand
    <2>4. f = g => content'[f] = before[f]
      BY <1>3, <1>4, <2>1, <2>2 DEF Restored, Written
    <2> QED BY <1>3, <1>4, <2>1, <2>2, <2>3, <2>4
  <1>11. ~(Inspect(p) /\ Return(p, "failed")) /\ ~RolledBack(p) /\ ~Die(p)
    BY <1>0, <1>1, Returns DEF RolledBack, Die, Active
  <1> QED BY <1>5, <1>6, <1>7, <1>8, <1>9, <1>10, <1>11 DEF Step

LEMMA StepExpected ==
    ASSUME IInv, Expected, NEW p \in Processes, Step(p)
    PROVE  Expected'
  <1>0. Types /\ Ordered /\ Alone /\ Types' /\ Ordered'
    BY StepTypes DEF IInv
  <1>1. SUFFICES ASSUME mishaps' \cap {"overlap", "unrestored", "died"} = {},
                        NEW f \in Files \ touched'
                 PROVE  /\ Untouched(f, content[f])' \/ f \in op'[p].changed
                        /\ Expecting(p, f)'
    <2>1. mishaps' \cap {"overlap", "unrestored", "died"} = {} =>
              \A q \in Processes \ {p} : ~Active(q)'
      BY <1>0, OthersIdle
    <2>2. SUFFICES ASSUME mishaps' \cap {"overlap", "unrestored", "died"} = {},
                          NEW f \in Files \ touched'
                   PROVE  /\ Untouched(f, content[f])' \/ f \in op'[p].changed
                          /\ \A q \in Processes : Expecting(q, f)'
      BY DEF Expected
    <2>3. \A q \in Processes \ {p} : Expecting(q, f)'
      BY <2>1, <2>2 DEF Expecting
    <2> QED BY <1>1, <2>2, <2>3
  <1>2. /\ mishaps \cap {"overlap", "unrestored", "died"} = {}
        /\ \A q \in Processes \ {p} : op[q].changed = {}
    <2>1. mishaps \cap {"overlap", "unrestored", "died"} = {}
      BY <1>0, <1>1, OthersStay
    <2>2. \A q \in Processes \ {p} : ~Active(q)'
      BY <1>0, <1>1, OthersIdle
    <2>3. \A q \in Processes \ {p} : ~Active(q)
      BY <1>0, <2>2, OthersStay DEF Active
    <2> QED BY <1>0, <2>1, <2>3 DEF Ordered
  <1>3. f \notin touched => /\ Untouched(f, content[f]) \/ f \in op[p].changed
                            /\ Expecting(p, f)
    BY <1>1, <1>2 DEF Expected
  <1>4. /\ op[p] \in Command /\ op[p].changed \subseteq op[p].planned
        /\ content \in [Files -> Contents] /\ op[p].originals \in [Files -> Contents]
        /\ op[p].planned \subseteq Files
        /\ pc[p] = "inspect" => op[p].changed = {}
        /\ pc[p] # "inspect" => op[p].todo = {}
        /\ ~Active(p) => op[p].changed = {}
        /\ op[p].kind = "install" => op[p].planned \subseteq Targets(op[p].agents)
    BY <1>0 DEF Types, Ordered, Command
  <1>5. CASE Begin(p)
    <2>1. /\ pc'[p] = "inspect" /\ op'[p].planned = {} /\ op'[p].changed = {} /\ ~Active(p)
          /\ op'[p].kind = "install" => op'[p].todo = Targets(op'[p].agents)
          /\ UNCHANGED <<content, records, touched>>
      BY <1>0, <1>5, Begins
    <2> QED BY <1>1, <1>3, <1>4, <2>1 DEF Expecting, Untouched
  <1>6. CASE Inspect(p) /\ ~Return(p, "failed")
    <2>1. PICK g \in op[p].todo :
             /\ pc[p] = "inspect" /\ pc' = pc
             /\ op'[p].todo = op[p].todo \ {g} /\ SameCommand(p)
             /\ op'[p].changed = op[p].changed
             /\ UNCHANGED <<content, records, touched>>
             /\ \/ /\ content[g] = op[p].build /\ op'[p].planned = op[p].planned
                   /\ op'[p].originals = op[p].originals
                \/ /\ op'[p].planned = op[p].planned \cup {g}
                   /\ op'[p].originals = [op[p].originals EXCEPT ![g] = content[g]]
      BY <1>0, <1>6, Inspects
    <2>2. Active(p) /\ op[p].changed = {}
      BY <1>4, <2>1 DEF Active
    <2>3. Untouched(f, content[f])' /\ Untouched(f, content[f]) /\ Expecting(p, f)
      BY <1>1, <1>3, <2>1, <2>2 DEF Untouched
    <2>4. f \in op'[p].planned => Untouched(f, op[p].originals[f])'
      BY <1>4, <2>1, <2>2, <2>3 DEF Expecting, Untouched
    <2>5. op'[p].kind = "install" /\ f \in Targets(op'[p].agents) \ (op'[p].todo \cup op'[p].planned)
            => content'[f] = op'[p].build
      BY <2>1, <2>2, <2>3 DEF Expecting, SameCommand
    <2> QED BY <2>1, <2>2, <2>3, <2>4, <2>5 DEF Expecting
  <1>7. CASE Planned(p)
    <2>1. pc[p] = "inspect" /\ pc'[p] = "change" /\ UNCHANGED <<op, content, records, touched>>
      BY <1>0, <1>7 DEF Planned, user, Types
    <2>2. Written(op'[p]) = Written(op[p])
      BY <2>1
    <2> QED BY <1>1, <1>3, <2>1, <2>2 DEF Expecting, Untouched, Active
  <1>8. CASE Change(p)
    <2>1. PICK g \in op[p].planned \ op[p].changed :
             \/ /\ pc'[p] = "rollback" /\ op' = op
                /\ content' = content \/ mishaps' = mishaps \cup {"unrestored"}
             \/ /\ pc'[p] = "change" /\ SameCommand(p)
                /\ op'[p].changed = op[p].changed \cup {g} /\ op'[p].todo = op[p].todo
                /\ op'[p].planned = op[p].planned /\ op'[p].originals = op[p].originals
                /\ content' = [content EXCEPT ![g] = Written(op[p])]
      BY <1>0, <1>8, Changes
    <2>2. pc[p] = "change" /\ Active(p) /\ UNCHANGED <<records, touched>>
      BY <1>0, <1>8, Changes DEF Active
    <2>3. f \notin touched /\ Expecting(p, f)
      BY <1>1, <1>3, <2>2
    <2>4. CASE pc'[p] = "rollback"
      <3>1. op' = op /\ content' = content
        BY <1>1, <2>1, <2>4
      <3>2. Written(op'[p]) = Written(op[p])
        BY <3>1
      <3> QED BY <1>1, <1>3, <2>2, <2>3, <2>4, <3>1, <3>2 DEF Expecting, Untouched
    <2>5. CASE pc'[p] = "change"
      <3>1. /\ SameCommand(p)
            /\ op'[p].changed = op[p].changed \cup {g} /\ op'[p].todo = op[p].todo
            /\ op'[p].planned = op[p].planned /\ op'[p].originals = op[p].originals
            /\ content' = [content EXCEPT ![g] = Written(op[p])]
        BY <2>1, <2>5
      <3>2. Written(op'[p]) = Written(op[p])
        BY <3>1 DEF Written, SameCommand
      <3>3. f = g => content'[f] = Written(op[p])
        BY <1>4, <3>1
      <3>4. f # g => content'[f] = content[f]
        BY <1>4, <3>1
      <3>5. Untouched(f, content[f])' \/ f \in op'[p].changed
        BY <1>3, <2>2, <2>3, <3>1, <3>4 DEF Untouched
      <3>6. f \in op'[p].planned => Untouched(f, op[p].originals[f])'
        BY <2>2, <2>3, <3>1 DEF Expecting, Untouched
      <3>7. f \in op'[p].changed => content'[f] = Written(op'[p])
        BY <2>2, <2>3, <3>1, <3>2, <3>3, <3>4 DEF Expecting
      <3>8. op'[p].kind = "install" /\ f \in Targets(op'[p].agents) \ (op'[p].todo \cup op'[p].planned)
              => content'[f] = op'[p].build
        BY <2>2, <2>3, <3>1, <3>4 DEF Expecting, SameCommand
      <3> QED BY <3>5, <3>6, <3>7, <3>8 DEF Expecting
    <2> QED BY <2>1, <2>4, <2>5
  <1>9. CASE Record(p) /\ ~Return(p, "idle")
    <2>1. pc'[p] = "rollback" /\ UNCHANGED <<op, content, records, touched>> /\ Active(p)
      BY <1>0, <1>9 DEF Record, Types, Active
    <2>2. Written(op'[p]) = Written(op[p])
      BY <2>1
    <2> QED BY <1>1, <1>3, <2>1, <2>2 DEF Expecting, Untouched
  <1>10. CASE Record(p) /\ Return(p, "idle")
    <2>1. pc[p] = "change" /\ op[p].planned = op[p].changed /\ pc'[p] = "idle" /\ Active(p)
      BY <1>0, <1>10, Returns DEF Record, Active
    <2> DEFINE done == IF op[p].kind = "install" THEN Targets(op[p].agents) ELSE op[p].planned
    <2>2. /\ records' = [g \in Files |-> IF g \notin done THEN records[g] ELSE Written(op[p])]
          /\ touched' = touched \ {g \in done : content[g] = records'[g]}
          /\ content' = content
      <3>1. pc' # [pc EXCEPT ![p] = "rollback"]
        BY <1>0, <2>1 DEF Types
      <3> QED BY <1>10, <3>1 DEF Record
    <2>3. records'[f] = IF f \notin done THEN records[f] ELSE Written(op[p])
      BY <2>2
    <2>4. op[p].planned \subseteq done
      BY <1>4
    <2>5. CASE f \in touched
      <3>1. content[f] = records'[f]
        BY <1>1, <2>2, <2>5
      <3> QED BY <2>1, <2>2, <3>1 DEF Untouched, Expecting, Active
    <2>6. CASE f \notin touched /\ f \notin done
      <3>1. f \notin op[p].changed
        BY <2>1, <2>4, <2>6
      <3> QED BY <1>3, <2>1, <2>2, <2>3, <2>6, <3>1 DEF Untouched, Expecting, Active
    <2>7. CASE f \notin touched /\ f \in done
      <3>1. Expecting(p, f) /\ op[p].todo = {}
        BY <1>3, <1>4, <2>1, <2>7
      <3>2. content[f] = Written(op[p])
        <4>1. CASE f \in op[p].changed
          BY <2>1, <3>1, <4>1 DEF Expecting
        <4>2. CASE f \notin op[p].changed
          BY <2>1, <2>7, <3>1, <4>2 DEF Expecting, Written
        <4> QED BY <4>1, <4>2
      <3> QED BY <2>1, <2>2, <2>3, <2>7, <3>2 DEF Untouched, Expecting, Active
    <2> QED BY <2>5, <2>6, <2>7
  <1>11. CASE Rollback(p)
    <2>1. PICK g \in op[p].changed :
             /\ pc[p] = "rollback" /\ pc' = pc /\ UNCHANGED <<records, touched>> /\ SameCommand(p)
             /\ op'[p].changed = op[p].changed \ {g}
             /\ op'[p].planned = op[p].planned /\ op'[p].originals = op[p].originals
             /\ \/ content' = [content EXCEPT ![g] = Restored(op[p], g)]
                \/ mishaps' = mishaps \cup {"unrestored"}
      BY <1>0, <1>11, RollsBack
    <2>2. content' = [content EXCEPT ![g] = Restored(op[p], g)]
      BY <1>1, <2>1
    <2>3. Expecting(p, f) /\ Active(p) /\ f \notin touched
      BY <1>1, <1>3, <2>1 DEF Active
    <2>4. CASE f = g
      <3>1. /\ content[f] = Written(op[p]) /\ Untouched(f, op[p].originals[f])
            /\ f \notin op'[p].changed
        BY <1>4, <2>1, <2>3, <2>4 DEF Expecting
      <3>2. content'[f] = Restored(op[p], f)
        BY <1>4, <2>2, <2>4
      <3>3. Restored(op[p], f) \in {op[p].originals[f], "none"}
        BY <3>1 DEF Restored, Written
      <3>4. Untouched(f, content[f])'
        BY <2>1, <3>1, <3>2, <3>3 DEF Untouched
      <3> QED BY <2>1, <2>3, <3>1, <3>4 DEF Expecting, Untouched
    <2>5. CASE f # g
      <3>1. content'[f] = content[f] /\ Written(op'[p]) = Written(op[p])
        BY <1>4, <2>1, <2>2, <2>5 DEF Written, SameCommand
      <3> QED BY <1>3, <2>1, <2>3, <2>5, <3>1 DEF Expecting, Untouched
    <2> QED BY <2>4, <2>5
  <1>12. CASE (Inspect(p) /\ Return(p, "failed")) \/ RolledBack(p)
    <2>1. UNCHANGED <<content, records, touched>>
      BY <1>12 DEF Inspect, RolledBack, user
    <2>2. ~Active(p)' /\ op[p].changed = {}
      BY <1>0, <1>12, <1>4, Returns DEF RolledBack, Inspect, Active
    <2> QED BY <1>1, <1>3, <2>1, <2>2 DEF Untouched, Expecting
  <1>13. CASE Die(p)
    <2>1. UNCHANGED <<records, touched>> /\ ~Active(p)' /\ op[p].changed = {}
      BY <1>0, <1>1, <1>13, Dies, Returns DEF Active
    <2>2. content'[f] \in {content[f], "none"}
      BY <1>0, <1>4, <1>13, Dies
    <2> QED BY <1>1, <1>3, <2>1, <2>2 DEF Untouched, Expecting
  <1> QED BY <1>5, <1>6, <1>7, <1>8, <1>9, <1>10, <1>11, <1>12, <1>13 DEF Step

\* The file a command inspects it has not planned to change: each is inspected once.
LEMMA StepRedo ==
    ASSUME IInv, Redo, NEW p \in Processes, Step(p)
    PROVE  Redo'
  <1>0. Types /\ Ordered /\ Alone
    BY DEF IInv
  <1>1. SUFFICES ASSUME mishaps' \cap {"overlap", "raced"} = {}, Active(p)'
                 PROVE  /\ op'[p].records = records'
                        /\ \A f \in op'[p].planned :
                              /\ op'[p].force \/ op'[p].originals[f] \in {"none", records'[f]}
                              /\ content'[f] \in {op'[p].originals[f], Written(op'[p]), "none"}
                              /\ pc'[p] = "change" /\ f \in op'[p].changed =>
                                     content'[f] = Written(op'[p])
    <2>1. SUFFICES ASSUME mishaps' \cap {"overlap", "raced"} = {} PROVE Redoable(p)'
      BY <1>0, OthersIdle DEF Redo, Redoable
    <2> QED BY <1>1, <2>1 DEF Redoable
  <1>2. mishaps \cap {"overlap", "raced"} = {}
    BY <1>0, <1>1, OthersStay
  <1>3. Active(p) =>
            /\ op[p].records = records
            /\ \A f \in op[p].planned :
                  /\ op[p].force \/ op[p].originals[f] \in {"none", records[f]}
                  /\ content[f] \in {op[p].originals[f], Written(op[p]), "none"}
                  /\ pc[p] = "change" /\ f \in op[p].changed => content[f] = Written(op[p])
    BY <1>2 DEF Redo, Redoable
  <1>4. /\ op[p] \in Command /\ op[p].changed \subseteq op[p].planned
        /\ content \in [Files -> Contents] /\ op[p].originals \in [Files -> Contents]
        /\ op[p].planned \subseteq Files
        /\ pc[p] = "inspect" => op[p].changed = {}
    BY <1>0 DEF Types, Ordered, Command
  <1>5. CASE Begin(p)
    BY <1>0, <1>5, Begins
  <1>6. CASE Inspect(p) /\ ~Return(p, "failed")
    <2>1. PICK g \in op[p].todo :
             /\ pc[p] = "inspect" /\ pc' = pc /\ SameCommand(p)
             /\ op'[p].changed = op[p].changed
             /\ UNCHANGED <<content, records>>
             /\ \/ op'[p].planned = op[p].planned /\ op'[p].originals = op[p].originals
                \/ /\ op'[p].planned = op[p].planned \cup {g}
                   /\ op'[p].originals = [op[p].originals EXCEPT ![g] = content[g]]
                   /\ op[p].force \/ content[g] \in {"none", op[p].records[g]}
      BY <1>0, <1>6, Inspects
    <2>2. Active(p) /\ pc'[p] # "change" /\ Written(op'[p]) = Written(op[p])
      BY <2>1 DEF Active, Written, SameCommand
    <2>3. CASE op'[p].planned = op[p].planned /\ op'[p].originals = op[p].originals
      BY <1>3, <2>1, <2>2, <2>3 DEF SameCommand
    <2>4. CASE /\ op'[p].planned = op[p].planned \cup {g}
               /\ op'[p].originals = [op[p].originals EXCEPT ![g] = content[g]]
               /\ op[p].force \/ content[g] \in {"none", op[p].records[g]}
      <3>1. op'[p].records = records' /\ op'[p].force = op[p].force
        BY <1>3, <2>1, <2>2 DEF SameCommand
      <3>2. ASSUME NEW f \in op'[p].planned
            PROVE  /\ op'[p].force \/ op'[p].originals[f] \in {"none", records'[f]}
                   /\ content'[f] \in {op'[p].originals[f], Written(op'[p]), "none"}
        <4>1. CASE f = g
          <5>1. g \in Files
            BY <2>1, <1>4 DEF Command
          <5>2. op'[p].originals[f] = content[f]
            BY <1>4, <2>4, <4>1, <5>1
          <5> QED BY <1>3, <2>1, <2>2, <2>4, <3>1, <4>1, <5>2
        <4>2. CASE f # g
          <5>1. f \in op[p].planned /\ op'[p].originals[f] = op[p].originals[f]
            BY <1>4, <2>4, <3>2, <4>2
          <5> QED BY <1>3, <2>1, <2>2, <3>1, <5>1
        <4> QED BY <4>1, <4>2
      <3> QED BY <2>2, <3>1, <3>2
    <2> QED BY <2>1, <2>3, <2>4
  <1>7. CASE Planned(p)
    <2>1. Active(p) /\ op[p].changed = {} /\ UNCHANGED <<op, content, records>>
      BY <1>4, <1>7 DEF Planned, Active
    <2>2. Written(op'[p]) = Written(op[p])
      BY <2>1
    <2> QED BY <1>3, <2>1, <2>2
  <1>8. CASE Change(p)
    <2>1. PICK g \in op[p].planned \ op[p].changed :
             \/ /\ pc'[p] = "rollback" /\ op' = op
                /\ content' = content \/ content' = [content EXCEPT ![g] = "none"]
             \/ /\ pc'[p] = "change" /\ SameCommand(p)
                /\ op'[p].changed = op[p].changed \cup {g}
                /\ op'[p].planned = op[p].planned /\ op'[p].originals = op[p].originals
                /\ content' = [content EXCEPT ![g] = Written(op[p])]
      BY <1>0, <1>8, Changes
    <2>2. pc[p] = "change" /\ Active(p) /\ records' = records
      BY <1>0, <1>8, Changes DEF Active
    <2>3. CASE pc'[p] = "rollback"
      <3>1. op' = op /\ \A f \in op[p].planned : content'[f] \in {content[f], "none"}
        BY <1>4, <2>1, <2>3
      <3>2. Written(op'[p]) = Written(op[p])
        BY <3>1
      <3> QED BY <1>3, <2>2, <2>3, <3>1, <3>2
    <2>4. CASE pc'[p] = "change"
      <3>1. /\ SameCommand(p) /\ op'[p].changed = op[p].changed \cup {g}
            /\ op'[p].planned = op[p].planned /\ op'[p].originals = op[p].originals
            /\ content' = [content EXCEPT ![g] = Written(op[p])]
        BY <2>1, <2>4
      <3>2. Written(op'[p]) = Written(op[p])
        BY <3>1 DEF Written, SameCommand
      <3>3. \A f \in op[p].planned :
              content'[f] = IF f = g THEN Written(op[p]) ELSE content[f]
        BY <1>4, <3>1
      <3> QED BY <1>3, <2>2, <3>1, <3>2, <3>3 DEF SameCommand
    <2> QED BY <2>1, <2>3, <2>4
  <1>9. CASE Record(p)
    <2>1. Active(p) /\ content' = content
      BY <1>9 DEF Record, Active
    <2>2. ~Return(p, "idle")
      BY <1>0, <1>1, Returns DEF Active
    <2>3. UNCHANGED <<op, records>> /\ pc'[p] = "rollback"
      BY <1>0, <1>9, <2>2 DEF Record, Types
    <2>4. Written(op'[p]) = Written(op[p])
      BY <2>3
    <2> QED BY <1>3, <2>1, <2>3, <2>4
  <1>10. CASE Rollback(p)
    <2>1. PICK g \in op[p].changed :
             /\ pc[p] = "rollback" /\ pc' = pc /\ records' = records /\ SameCommand(p)
             /\ op'[p].planned = op[p].planned /\ op'[p].originals = op[p].originals
             /\ \/ content' = [content EXCEPT ![g] = Restored(op[p], g)]
                \/ content' \in {content, [content EXCEPT ![g] = "none"]}
      BY <1>0, <1>10, RollsBack
    <2>2. Active(p) /\ pc'[p] # "change" /\ Written(op'[p]) = Written(op[p])
      BY <2>1 DEF Active, Written, SameCommand
    <2>3. \A f \in op[p].planned : content'[f] \in {content[f], op[p].originals[f], "none"}
      BY <1>4, <2>1 DEF Restored
    <2> QED BY <1>3, <2>1, <2>2, <2>3 DEF SameCommand
  <1>11. ~(Inspect(p) /\ Return(p, "failed")) /\ ~RolledBack(p) /\ ~Die(p)
    BY <1>0, <1>1, Returns DEF RolledBack, Die, Active
  <1> QED BY <1>5, <1>6, <1>7, <1>8, <1>9, <1>10, <1>11 DEF Step

LEMMA EditAccounted ==
    ASSUME IInv, Accounted, Expected, Redo, NEW f \in Files, Edit(f)
    PROVE  Accounted' /\ Expected' /\ Redo'
  <1>0. Types /\ Ordered
    BY DEF IInv
  <1>1. PICK c : content' = [content EXCEPT ![f] = c]
    BY DEF Edit
  <1>2. /\ UNCHANGED <<records, pc, op>> /\ touched' = touched \cup {f}
        /\ mishaps \subseteq mishaps'
        /\ "raced" \notin mishaps' => \A p \in Processes : f \notin op[p].planned
    BY DEF Edit, Befalls
  <1>3. \A g \in Files \ {f} : content'[g] = content[g]
    BY <1>0, <1>1 DEF Types
  <1>4. Accounted'
    <2>1. SUFFICES ASSUME mishaps' \subseteq {"died"}, NEW p \in Processes, Active(p), NEW g \in Files
                   PROVE  /\ g \in op[p].planned => op[p].originals[g] = before'[g]
                          /\ g \notin op[p].changed => content'[g] = before'[g]
                          /\ g \in op[p].changed => content'[g] = Written(op[p])
      BY <1>2 DEF Accounted, Restoring, Active, Written
    <2>2. mishaps \subseteq {"died"} /\ f \notin op[p].planned /\ op[p].changed \subseteq op[p].planned
      BY <1>0, <1>2, <2>1 DEF Ordered
    <2>3. before' = [before EXCEPT ![f] = content'[f]] /\ before \in [Files -> Contents]
      BY <1>0, <2>1 DEF Edit, Types
    <2>4. CASE g = f
      BY <2>2, <2>3, <2>4
    <2>5. CASE g # f
      <3>1. before'[g] = before[g] /\ content'[g] = content[g]
        BY <1>3, <2>3, <2>5
      <3> QED BY <2>1, <2>2, <3>1 DEF Accounted, Restoring
    <2> QED BY <2>4, <2>5
  <1>5. Expected'
    <2>1. SUFFICES ASSUME mishaps' \cap {"overlap", "unrestored", "died"} = {},
                          NEW g \in Files \ touched'
                   PROVE  /\ Untouched(g, content[g])' \/ \E p \in Processes : g \in op'[p].changed
                          /\ \A p \in Processes : Expecting(p, g)'
      BY DEF Expected
    <2>2. /\ Untouched(g, content[g]) \/ \E p \in Processes : g \in op[p].changed
          /\ \A p \in Processes : Expecting(p, g)
      BY <1>2, <2>1 DEF Expected
    <2>3. content'[g] = content[g]
      BY <1>2, <1>3, <2>1
    <2> QED BY <1>2, <2>2, <2>3 DEF Untouched, Expecting, Active, Written
  <1>6. Redo'
    <2>1. SUFFICES ASSUME mishaps' \cap {"overlap", "raced"} = {}, NEW p \in Processes
                   PROVE  Redoable(p)'
      BY DEF Redo
    <2>2. Redoable(p) /\ f \notin op[p].planned /\ op[p].planned \subseteq Files
      BY <1>0, <1>2, <2>1 DEF Redo, Types, Command
    <2>3. \A g \in op[p].planned : content'[g] = content[g]
      BY <1>3, <2>2
    <2> QED BY <1>2, <2>2, <2>3 DEF Redoable, Active, Written
  <1> QED BY <1>4, <1>5, <1>6

LEMMA AlsoInductive ==
    IInv /\ Accounted /\ Expected /\ Redo /\ [Next]_vars => Accounted' /\ Expected' /\ Redo'
  <1> SUFFICES ASSUME IInv, Accounted, Expected, Redo, [Next]_vars
               PROVE  Accounted' /\ Expected' /\ Redo'
    OBVIOUS
  <1>1. CASE \E p \in Processes : Step(p)
    BY <1>1, StepAccounted, StepExpected, StepRedo
  <1>2. CASE \E f \in Files : Edit(f)
    BY <1>2, EditAccounted
  <1>3. CASE UNCHANGED vars
    BY <1>3 DEF vars, user, Accounted, Restoring, Expected, Expecting, Untouched,
                Redo, Redoable, Active, Written
  <1> QED BY <1>1, <1>2, <1>3 DEF Next, Step

LEMMA Accounting == Spec => [](Accounted /\ Expected /\ Redo)
  <1>1. Init => Accounted /\ Expected /\ Redo
    <2>1. Init => \A p \in Processes : ~Active(p)
      BY DEF Init, Active
    <2> QED BY <2>1 DEF Init, Accounted, Restoring, Expected, Expecting, Untouched, Redo, Redoable
  <1> QED BY <1>1, AlsoInductive, ManagedSafety, PTL DEF Spec

\* Between commands that run one at a time, whichever of them failed: a file nobody
\* touched is never taken for one the user changed, by a removal or by any build's
\* installation. Of a command that died with files changed this is not so.
THEOREM UntouchedAccepted == Spec => []UntouchedNotRefused
  <1>1. \A kind, build : Plain(kind, build).records = records
    BY DEF Plain, NoCommand
  <1>2. Ordered => \A p \in Processes : ~Active(p) => op[p].changed = {}
    BY DEF Ordered
  <1>3. IInv /\ Expected => UntouchedNotRefused
    BY <1>1, <1>2 DEF IInv, Expected, Untouched, UntouchedNotRefused, Refuses, Unmanaged
  <1> QED BY <1>3, Accounting, ManagedSafety, PTL

\* A command that runs alone can be given again however it ended, in death too.
THEOREM RedoAccepted == Spec => RedoNotRefused
  <1>1. IInv /\ Redo /\ [Next]_vars =>
          [\A p \in Processes :
              Active(p) /\ ~Active(p)' /\ mishaps' \cap {"overlap", "raced"} = {} =>
                  \A f \in op[p].planned :
                      ~Refuses([op[p] EXCEPT !.records = records'], f, content'[f])]_vars
    <2> SUFFICES ASSUME IInv, Redo, Next, NEW p \in Processes, Active(p), ~Active(p)',
                        mishaps' \cap {"overlap", "raced"} = {}, NEW f \in op[p].planned
                 PROVE  ~Refuses([op[p] EXCEPT !.records = records'], f, content'[f])
      OBVIOUS
    <2>0. Types /\ Ordered
      BY DEF IInv
    <2>1. Step(p)
      <3>1. PICK q \in Processes : Step(q)
        BY DEF Next, Step, Edit, Active
      <3>2. q = p
        BY <2>0, <3>1, OthersStay DEF Active
      <3> QED BY <3>1, <3>2
    <2>2. mishaps \cap {"overlap", "raced"} = {}
      BY <2>0, <2>1, OthersStay
    <2>3. /\ op[p].force \/ op[p].originals[f] \in {"none", records[f]}
          /\ content[f] \in {op[p].originals[f], Written(op[p]), "none"}
          /\ pc[p] = "change" /\ f \in op[p].changed => content[f] = Written(op[p])
      BY <2>2 DEF Redo, Redoable
    <2>4. /\ op[p] \in Command /\ op[p].planned \subseteq Files
          /\ content \in [Files -> Contents]
          /\ op[p].kind = "install" => op[p].planned \subseteq Targets(op[p].agents)
      BY <2>0 DEF Types, Ordered, Command
    <2>5. PICK again : again = [op[p] EXCEPT !.records = records']
      OBVIOUS
    <2>6. /\ again.records = records' /\ again.force = op[p].force
          /\ again.kind = op[p].kind /\ again.build = op[p].build
      BY <2>4, <2>5 DEF Command
    <2>7. content'[f] = Written(op[p]) => ~Refuses(again, f, content'[f])
      BY <2>4, <2>6 DEF Refuses, UpToDate, Unmanaged, Written, Command, Kinds
    <2>8. records' = records /\ content'[f] \in {content[f], "none"} =>
              ~Refuses(again, f, content'[f])
      <3>1. content'[f] = "none" => ~Refuses(again, f, content'[f])
        BY DEF Refuses, Unmanaged
      <3>2. records' = records /\ content'[f] = op[p].originals[f] => ~Refuses(again, f, content'[f])
        BY <2>3, <2>6 DEF Refuses, Unmanaged
      <3> QED BY <2>3, <2>7, <3>1, <3>2
    <2>9. CASE (Inspect(p) /\ Return(p, "failed")) \/ RolledBack(p)
      <3>1. UNCHANGED <<content, records>>
        BY <2>9 DEF Inspect, RolledBack
      <3> QED BY <2>5, <2>8, <3>1
    <2>10. CASE Die(p)
      <3>1. records' = records /\ content'[f] \in {content[f], "none"}
        BY <2>0, <2>4, <2>10, Dies
      <3> QED BY <2>5, <2>8, <3>1
    <2>11. CASE Record(p)
      <3>1. pc[p] = "change" /\ op[p].planned = op[p].changed /\ content' = content
        BY <2>11 DEF Record
      <3>2. content'[f] = Written(op[p])
        BY <2>3, <3>1
      <3> QED BY <2>5, <2>7, <3>2
    <2>12. (Inspect(p) /\ Return(p, "failed")) \/ RolledBack(p) \/ Die(p) \/ Record(p)
      BY <2>0, <2>1 DEF Step, Begin, Inspect, Planned, Change, Rollback, Active, Types
    <2> QED BY <2>9, <2>10, <2>11, <2>12
  <1> QED BY <1>1, ManagedSafety, Accounting, PTL DEF Spec, RedoNotRefused

\* A command that runs alone and fails leaves every file as it found it, or as the user
\* has changed it since.
THEOREM FailuresUndone == Spec => FailureRestores
  <1>1. IInv /\ Accounted /\ [Next]_vars =>
          [\A p \in Processes :
              Active(p) /\ pc'[p] = "failed" /\ mishaps' \subseteq {"died"} => content' = before]_vars
    <2> SUFFICES ASSUME IInv, Accounted, Next, NEW p \in Processes, Active(p),
                        pc'[p] = "failed", mishaps' \subseteq {"died"}
                 PROVE  content' = before
      OBVIOUS
    <2>0. Types /\ Ordered
      BY DEF IInv
    <2>1. Step(p)
      <3>1. PICK q \in Processes : Step(q)
        BY DEF Next, Step, Edit, Active
      <3>2. q = p
        BY <2>0, <3>1, OthersStay DEF Active
      <3> QED BY <3>1, <3>2
    <2>2. mishaps \subseteq {"died"}
      BY <2>0, <2>1, OthersStay
    <2>3. (Inspect(p) /\ Return(p, "failed")) \/ RolledBack(p)
      BY <2>0, <2>1 DEF Step, Begin, Inspect, Planned, Change, Record, Rollback, Die, Return,
                        Active, Types
    <2>4. op[p].changed = {} /\ content' = content
      BY <2>0, <2>3 DEF Inspect, RolledBack, Ordered
    <2>5. \A f \in Files : content[f] = before[f]
      BY <2>2, <2>4 DEF Accounted, Restoring
    <2>6. content \in [Files -> Contents] /\ before \in [Files -> Contents]
      BY <2>0 DEF Types
    <2> QED BY <2>4, <2>5, <2>6
  <1> QED BY <1>1, ManagedSafety, Accounting, PTL DEF Spec, FailureRestores
=============================================================================
