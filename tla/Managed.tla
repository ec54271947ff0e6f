------------------------------ MODULE Managed -------------------------------
(***************************************************************************)
(* internal/managed: installing and removing the files that teach a coding *)
(* agent to use the CLI, and the diagnosis of what is installed.           *)
(*                                                                         *)
(* Install and Remove load the records of the configuration, inspect every *)
(* file they are about to change, change the files one by one, and record  *)
(* the outcome; a failure rolls back the files changed so far. No lock is  *)
(* held, so two commands interleave, any call may fail, a process may die  *)
(* between two steps, and the user edits the files meanwhile.              *)
(*                                                                         *)
(* Files are numbered in the order of their paths, in which every loop of  *)
(* the code takes them: 0 is the shared skill, and each agent has a file   *)
(* of its own, the wrapper of an agent that depends on the shared skill or *)
(* a copy of the skill. A file is what it holds: nothing, what a build of  *)
(* the CLI installs, or what the user wrote. A digest is the contents. A   *)
(* command is run by any build: upgrades and downgrades come in between.   *)
(***************************************************************************)
EXTENDS Naturals, FiniteSetsExt

CONSTANTS
    Processes,
    Agents,       \* numbers above 0
    Dependent,    \* those whose wrapper refers to the shared skill
    Builds,       \* what a build of the CLI installs
    UserContents,
    MaxCommands,  \* bound: commands
    MaxEdits,     \* bound: edits of the user
    LastSecond,   \* bound: the clock, of which a backup's name has the seconds
    MaxMishaps    \* bound: kinds of mishap in one behaviour

ASSUME ManagedBounds ==
    /\ Agents \subseteq Nat \ {0} /\ IsFiniteSet(Agents) /\ Dependent \subseteq Agents
    /\ MaxCommands \in Nat /\ MaxEdits \in Nat
    /\ LastSecond \in Nat /\ MaxMishaps \in Nat
    /\ "none" \notin Builds \cup UserContents /\ Builds \cap UserContents = {}

VARIABLES
    content,  \* content[f]
    records,  \* records[f]: the digest recorded for f, "none" if f is not managed
    backups,  \* backups[f][second]
    second,
    pc,
    op,       \* the command of each process and its locals
    owed,     \* owed[f]: what the user wrote and has not replaced since
    touched,  \* the files the user changed and no command has replaced since
    begun,    \* how many commands
    edits,    \* how many
    before,   \* history: the files as a command that runs alone found them
    mishaps   \* history: what happened that the code makes no promise about

vars == <<content, records, backups, second, pc, op, owed, touched, begun, edits, before, mishaps>>
user == <<owed, touched, edits>>

Shared   == 0
Files    == {Shared} \cup Agents
Contents == {"none"} \cup Builds \cup UserContents
Seconds  == 0..LastSecond
Kinds    == {"install", "remove"}
Mishaps  == {"overlap",     \* two commands ran at once
             "raced",       \* the user changed a file a command had inspected
             "sameSecond",  \* a backup replaced another of the same second
             "unrestored",  \* a file could not be put back
             "died"}        \* a process died with files changed and not recorded

Nothing == [f \in Files |-> "none"]

NoCommand == [kind |-> "install", build |-> "none", agents |-> {}, force |-> FALSE,
              records |-> Nothing, todo |-> {}, planned |-> {},
              originals |-> Nothing, changed |-> {}]

Command == [kind : Kinds, build : {"none"} \cup Builds,
            agents : SUBSET Agents, force : BOOLEAN,
            records   : [Files -> {"none"} \cup Builds], \* cfg.ManagedFiles as loaded
            todo      : SUBSET Files,                    \* targets not inspected yet
            planned   : SUBSET Files,                    \* toWrite, removePaths
            originals : [Files -> Contents],
            changed   : SUBSET Files]

TypeOK ==
    /\ content \in [Files -> Contents]
    /\ records \in [Files -> {"none"} \cup Builds]
    /\ backups \in [Files -> [Seconds -> Contents]]
    /\ second \in Seconds
    /\ pc \in [Processes -> {"idle", "inspect", "change", "rollback", "failed"}]
    /\ op \in [Processes -> Command]
    /\ \A p \in Processes :
          /\ op[p].changed \subseteq op[p].planned
          /\ pc[p] # "inspect" => op[p].todo = {}
    /\ owed \in [Files -> SUBSET UserContents]
    /\ touched \subseteq Files /\ begun \in 0..MaxCommands /\ edits \in 0..MaxEdits
    /\ before \in [Files -> Contents] /\ mishaps \subseteq Mishaps

-----------------------------------------------------------------------------
Befalls(reasons) ==
    /\ mishaps' = mishaps \cup reasons
    /\ reasons \subseteq mishaps \/ Cardinality(mishaps' \ {"died"}) <= MaxMishaps

Active(p) == pc[p] \notin {"idle", "failed"}

Return(p, outcome) ==
    /\ pc' = [pc EXCEPT ![p] = outcome]
    /\ op' = [op EXCEPT ![p] = NoCommand]
    /\ before' = Nothing

\* targets: the shared skill is part of every adapter.
Targets(agents) == {Shared} \cup agents

Recorded(r) == {f \in Files : r[f] # "none"}

\* Mutant of KeepsSharedSkill: the skill goes with any agent that was installed.
KeepsSharedSkillUnused(agents, r) == agents \cap Recorded(r) = {}

\* removalTargets and hasRemainingSharedSkillDependent: the shared skill goes with
\* the last recorded agent that depends on it, if any of those named was installed.
KeepsSharedSkill(agents, r) ==
    \/ agents \cap Recorded(r) = {}
    \/ (Dependent \ agents) \cap Recorded(r) # {}

RemovalTargets(agents, r) ==
    (IF KeepsSharedSkill(agents, r) THEN agents ELSE Targets(agents)) \cap Recorded(r)

\* A command loads the records and knows its targets.
Begin(p) ==
    /\ ~Active(p) /\ begun < MaxCommands
    /\ begun' = begun + 1
    /\ \E kind \in Kinds, build \in {"none"} \cup Builds, agents \in SUBSET Agents \ {{}},
          force \in BOOLEAN :
          /\ kind = "install" <=> build # "none"
          /\ op' = [op EXCEPT ![p] =
              [kind |-> kind, build |-> build, agents |-> agents, force |-> force,
               records |-> records,
               todo |-> IF kind = "install" THEN Targets(agents)
                                            ELSE RemovalTargets(agents, records),
               planned |-> {}, originals |-> Nothing, changed |-> {}]]
    /\ pc' = [pc EXCEPT ![p] = "inspect"]
    /\ IF \E q \in Processes : Active(q)
       THEN Befalls({"overlap"}) /\ before' = Nothing
       ELSE UNCHANGED mishaps /\ before' = content
    /\ UNCHANGED <<content, records, backups, second, user>>

\* The files of a set in the order of their paths.
First(files) == {f \in files : \A g \in files : f <= g}
Last(files)  == {f \in files : \A g \in files : f >= g}

-----------------------------------------------------------------------------
(* Inspecting the targets.                                                  *)

\* Mutant of UpToDate: what is installed counts only once it is recorded.
UpToDateIfRecorded(o, f, current) ==
    o.kind = "install" /\ current = o.build /\ o.records[f] = o.build

\* The file is what an installation would write.
UpToDate(o, f, current) == o.kind = "install" /\ current = o.build

\* There is a file that is not the one recorded.
Unmanaged(current, recorded) == current # "none" /\ current # recorded

\* "refusing to overwrite", "refusing to remove".
Refuses(o, f, current) ==
    ~o.force /\ ~UpToDate(o, f, current) /\ Unmanaged(current, o.records[f])

\* A backup is named after the file and the second; nothing else reads the clock. Seconds
\* without a backup are not counted.
BackUp(f, current) ==
    \E now \in Seconds :
        /\ \/ now = second
           \/ now = second + 1 /\ \E g \in Files : backups[g][second] # "none"
        /\ second' = now
        /\ backups' = [backups EXCEPT ![f][now] = current]
        /\ Befalls(IF backups[f][now] \in {"none", current} THEN {} ELSE {"sameSecond"})

NeedsBackUp(o, f, current) ==
    /\ o.force /\ current # "none"
    /\ o.kind = "install" \/ current # o.records[f]

\* Mutant of BackedUp: what is replaced by force is not kept.
BackedUpNot(o, f, current) == UNCHANGED <<backups, second, mishaps>>

BackedUp(o, f, current) ==
    IF NeedsBackUp(o, f, current) THEN BackUp(f, current)
    ELSE UNCHANGED <<backups, second, mishaps>>

\* readOriginal, the digests, and a backup. What is installed already is not written.
Inspect(p) ==
    /\ pc[p] = "inspect" /\ op[p].todo # {}
    /\ \E f \in First(op[p].todo) :
          LET o       == op[p]
              current == content[f]
          IN  \/ Return(p, "failed") /\ UNCHANGED <<backups, second, mishaps>>
              \/ /\ UpToDate(o, f, current)
                 /\ op' = [op EXCEPT ![p] = [o EXCEPT !.todo = o.todo \ {f}]]
                 /\ UNCHANGED <<pc, backups, second, before, mishaps>>
              \/ /\ ~UpToDate(o, f, current) /\ ~Refuses(o, f, current)
                 /\ BackedUp(o, f, current)
                 /\ op' = [op EXCEPT ![p] =
                        [o EXCEPT !.todo = o.todo \ {f}, !.planned = o.planned \cup {f},
                                  !.originals = [o.originals EXCEPT ![f] = current]]]
                 /\ UNCHANGED <<pc, before>>
    /\ UNCHANGED <<content, records, user, begun>>

\* Nothing is written before every target has been inspected.
Inspected(o) == o.todo = {}

Planned(p) ==
    /\ pc[p] = "inspect" /\ Inspected(op[p])
    /\ pc' = [pc EXCEPT ![p] = "change"]
    /\ UNCHANGED <<content, records, backups, second, op, user, begun, before, mishaps>>

-----------------------------------------------------------------------------
(* Changing the files, and recording what was changed.                      *)

\* What a command leaves in a file it changes.
Written(o) == IF o.kind = "install" THEN o.build ELSE "none"

\* atomicWrite on Windows: a file it has set aside it may fail to put back.
Unwritten(f) ==
    \/ UNCHANGED <<content, mishaps>>
    \/ content' = [content EXCEPT ![f] = "none"] /\ Befalls({"unrestored"})

Change(p) ==
    /\ pc[p] = "change" /\ op[p].planned # op[p].changed
    /\ \E f \in First(op[p].planned \ op[p].changed) :
          \/ /\ content' = [content EXCEPT ![f] = Written(op[p])]
             /\ op' = [op EXCEPT ![p] = [op[p] EXCEPT !.changed = op[p].changed \cup {f}]]
             /\ UNCHANGED <<pc, mishaps>>
          \/ /\ pc' = [pc EXCEPT ![p] = "rollback"]
             /\ UNCHANGED op
             /\ IF op[p].kind = "install" THEN Unwritten(f) ELSE UNCHANGED <<content, mishaps>>
    /\ UNCHANGED <<records, backups, second, user, begun, before>>

\* Config.Update: every target of an installation, the ones found unchanged too.
Record(p) ==
    /\ pc[p] = "change" /\ op[p].planned = op[p].changed
    /\ LET o    == op[p]
           done == IF o.kind = "install" THEN Targets(o.agents) ELSE o.planned
       IN  \/ /\ records' = [f \in Files |-> IF f \notin done THEN records[f]
                                                             ELSE Written(o)]
              /\ touched' = touched \ {f \in done : content[f] = records'[f]}
              /\ Return(p, "idle")
           \/ /\ pc' = [pc EXCEPT ![p] = "rollback"]
              /\ UNCHANGED <<records, touched, op, before>>
    /\ UNCHANGED <<content, backups, second, owed, begun, edits, mishaps>>

\* Mutant of Restored: a file that was installed anew is left in place.
RestoredIfReplaced(o, f) == IF o.originals[f] = "none" THEN content[f] ELSE o.originals[f]

\* rollback; rollbackPaths has nothing to do for a file that was missing.
Restored(o, f) ==
    IF o.kind = "remove" /\ o.originals[f] = "none" THEN content[f] ELSE o.originals[f]

Rollback(p) ==
    /\ pc[p] = "rollback" /\ op[p].changed # {}
    /\ \E f \in Last(op[p].changed) :
          /\ op' = [op EXCEPT ![p] = [op[p] EXCEPT !.changed = op[p].changed \ {f}]]
          /\ \/ content' = [content EXCEPT ![f] = Restored(op[p], f)] /\ UNCHANGED mishaps
             \/ /\ content' \in {content, [content EXCEPT ![f] = "none"]}
                /\ Befalls({"unrestored"})
    /\ UNCHANGED <<records, backups, second, pc, user, begun, before>>

RolledBack(p) ==
    /\ pc[p] = "rollback" /\ op[p].changed = {}
    /\ Return(p, "failed")
    /\ UNCHANGED <<content, records, backups, second, user, begun, mishaps>>

-----------------------------------------------------------------------------
\* The file that is being replaced: on Windows it is aside for a moment.
InHand(p) ==
    CASE pc[p] = "change" /\ op[p].kind = "install" -> First(op[p].planned \ op[p].changed)
      [] pc[p] = "rollback" -> Last(op[p].changed)
      [] OTHER -> {}

\* A process dies; another command may follow.
Die(p) ==
    /\ Active(p)
    /\ content' \in {content} \cup {[content EXCEPT ![f] = "none"] : f \in InHand(p)}
    /\ mishaps' = mishaps \cup IF op[p].changed = {} THEN {} ELSE {"died"}
    /\ Return(p, "idle")
    /\ UNCHANGED <<records, backups, second, user, begun>>

\* The user writes or deletes a file.
Edit(f) ==
    /\ edits < MaxEdits
    /\ \E c \in (UserContents \ owed[f]) \cup {"none"} :
          /\ c # content[f]
          /\ content' = [content EXCEPT ![f] = c]
          /\ owed' = [owed EXCEPT ![f] = (@ \ {content[f]}) \cup ({c} \cap UserContents)]
    /\ touched' = touched \cup {f}
    /\ edits' = edits + 1
    /\ Befalls(IF \E p \in Processes : f \in op[p].planned THEN {"raced"} ELSE {})
    /\ before' = IF \E p \in Processes : Active(p) /\ mishaps' \subseteq {"died"}
                 THEN [before EXCEPT ![f] = content'[f]] ELSE before
    /\ UNCHANGED <<records, backups, second, pc, op, begun>>

\* Nothing is managed, or a build has installed some agents.
Init ==
    /\ \E agents \in SUBSET Agents, build \in Builds :
          LET installed == IF agents = {} THEN {} ELSE Targets(agents)
          IN  records = [f \in Files |-> IF f \in installed THEN build ELSE "none"]
    /\ content = records
    /\ backups = [f \in Files |-> [s \in Seconds |-> "none"]]
    /\ second = 0
    /\ pc = [p \in Processes |-> "idle"]
    /\ op = [p \in Processes |-> NoCommand]
    /\ owed = [f \in Files |-> {}]
    /\ touched = {} /\ begun = 0 /\ edits = 0 /\ before = Nothing /\ mishaps = {}

Next ==
    \/ \E p \in Processes :
          \/ Begin(p) \/ Inspect(p) \/ Planned(p) \/ Change(p) \/ Record(p)
          \/ Rollback(p) \/ RolledBack(p) \/ Die(p)
    \/ \E f \in Files : Edit(f)

Spec == Init /\ [][Next]_vars

-----------------------------------------------------------------------------
(* diagnostics.go: what is said of an agent, and the repair it names.       *)

\* Integrity of one record.
Integrity(f) == IF content[f] = records[f] THEN "ok"
                ELSE IF content[f] = "none" THEN "missing" ELSE "modified"

\* The records an agent's diagnosis takes together.
Diagnosed(a) ==
    IF records[a] = "none" THEN {}
    ELSE {a} \cup IF a \in Dependent THEN {Shared} \cap Recorded(records) ELSE {}

\* Mutant of Worst: a file that is missing is worse than one that was modified.
WorstMissing(found) ==
    IF "missing" \in found THEN "missing"
    ELSE IF "modified" \in found THEN "modified" ELSE "healthy"

\* moreSevere, over all of them.
Worst(found) ==
    IF "modified" \in found THEN "modified"
    ELSE IF "missing" \in found THEN "missing" ELSE "healthy"

\* As the running build says it.
Status(a, build) ==
    LET worst == Worst({Integrity(f) : f \in Diagnosed(a)})
    IN  IF Diagnosed(a) = {} THEN "not-installed"
        ELSE IF worst = "healthy" /\ \E f \in Diagnosed(a) : records[f] # build THEN "stale"
        ELSE worst

-----------------------------------------------------------------------------
\* A command without --force that begins now.
Plain(kind, build) == [NoCommand EXCEPT !.kind = kind, !.build = build, !.records = records]

\* What the user wrote is never lost to the CLI: it is in its file, or in a backup
\* of it, until the user replaces it, whatever fails or dies in between (Install and
\* Remove, manager.go:86-214). Two things break this: a change of the user after a
\* command has inspected the file, and two backups of one file in one second.
UserContentKept ==
    mishaps \cap {"raced", "sameSecond"} = {} =>
        \A f \in Files : \A c \in owed[f] :
            content[f] = c \/ \E s \in Seconds : backups[f][s] = c

\* Between commands, a file the user has not touched is never taken for one he modified:
\* neither an installation by any build nor a removal refuses it without --force
\* (manager.go:108, 180), wherever commands before it failed. Two commands at once may
\* break this, since one rolls back what the other has recorded, a rollback that fails,
\* and a death: what the command has written by then is not recorded (see
\* OnlyModifiedRefused).
UntouchedNotRefused ==
    mishaps \cap {"overlap", "unrestored", "died"} = {} /\ (\A p \in Processes : ~Active(p)) =>
        \A f \in Files \ touched, kind \in Kinds, build \in Builds :
            ~Refuses(Plain(kind, build), f, content[f])

\* However a command ends that has planned to change a file, in a failure, in a rollback
\* that failed or in death: the same command of the same build can be given again, and
\* does not refuse the file (Install and Remove, manager.go:103-110, 176-182), unless the
\* user changed it meanwhile or another command ran.
RedoNotRefused ==
    [][\A p \in Processes :
        Active(p) /\ ~Active(p)' /\ mishaps' \cap {"overlap", "raced"} = {} =>
            \A f \in op[p].planned :
                ~Refuses([op[p] EXCEPT !.records = records'], f, content'[f])]_vars

\* "Agent files have the same transactional model" as configuration updates, and
\* "modified files require `--force`" (docs/architecture.md:63-64): what nobody has
\* modified does not, wherever processes died. The code writes the files before it
\* records them (manager.go:127-133), so a death in between leaves files that a removal
\* or the installation of another build refuses as modified.
OnlyModifiedRefused ==
    mishaps \cap {"overlap", "unrestored"} = {} /\ (\A p \in Processes : ~Active(p)) =>
        \A f \in Files \ touched, kind \in Kinds, build \in Builds :
            ~Refuses(Plain(kind, build), f, content[f])

\* An agent whose wrapper refers to the shared skill is not recorded without it, and
\* removing another agent does not take it away (removalTargets, manager.go:216-270).
SharedSkillKept ==
    "overlap" \notin mishaps =>
        \A a \in Dependent : records[a] # "none" => records[Shared] # "none"

\* The update without --force that the diagnosis of a wrapper names (diagnostics.go:
\* 224-230) is not refused: what is worst comes first. (Of an agent with a copy of its
\* own this cannot be said: its diagnosis does not look at the shared skill, which the
\* update installs too.)
WrapperRepairable ==
    "overlap" \notin mishaps =>
        \A a \in Dependent, build \in Builds : Status(a, build) \in {"stale", "missing"} =>
            \A f \in Targets({a}) : ~Refuses(Plain("install", build), f, content[f])

\* A command that fails leaves every file as it found it, but for what the user
\* changed meanwhile (rollback and rollbackPaths, manager.go:534-550).
FailureRestores ==
    [][\A p \in Processes :
        Active(p) /\ pc'[p] = "failed" /\ mishaps' \subseteq {"died"} => content' = before]_vars
=============================================================================
