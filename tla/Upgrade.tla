------------------------------ MODULE Upgrade -------------------------------
(***************************************************************************)
(* internal/upgrade: the upgrade command looks for the newest release of   *)
(* its channel, fetches and verifies it, and swaps it for the executable   *)
(* it runs from, by way of a file next to it, <executable>.rollback.       *)
(* Nothing keeps two upgrades apart, any call may fail, the process may    *)
(* die between two of them, and releases are published meanwhile.          *)
(*                                                                         *)
(* An executable is the version it reports. A version is its three numbers *)
(* and its prerelease identifiers, each a number or a text; texts are      *)
(* numbered in their order.                                                *)
(***************************************************************************)
EXTENDS Integers, Sequences, FiniteSetsExt

CONSTANTS
    Processes,
    Precedence,   \* versions, in the order https://semver.org/#spec-item-11 defines
    Releases,     \* releases that may come to be published
    MaxReleases,  \* bound: how many
    PageSize,     \* releases on a page of the list, 100 in the code
    MaxUint       \* the largest number strconv.ParseUint accepts

NoVersion == [core |-> <<>>, pre |-> <<>>]
Versions  == {Precedence[i] : i \in DOMAIN Precedence}

Identifiers == {"number", "text"} \X Nat
Version     == [core : [1..3 -> Nat], pre : Seq(Identifiers)]

\* Item 11 of the SemVer standard: two versions are told apart where their numbers first
\* differ, or else their identifiers; any number comes before any text.
FirstDiffer(s, t, i) ==
    i \in DOMAIN s \cap DOMAIN t /\ s[i] # t[i] /\ \A j \in 1..(i - 1) : s[j] = t[j]

IdentifierPrecedes(x, y) ==
    \/ x[1] = "number" /\ y[1] = "text"
    \/ x[1] = y[1] /\ x[2] < y[2]

\* A prerelease comes before the release, and before the longer one it begins.
PrereleasePrecedes(s, t) ==
    \/ s # <<>> /\ t = <<>>
    \/ /\ s # <<>>
       /\ \/ \E i \in DOMAIN s : FirstDiffer(s, t, i) /\ IdentifierPrecedes(s[i], t[i])
          \/ Len(s) < Len(t) /\ \A i \in DOMAIN s : s[i] = t[i]

Precedes(v, w) ==
    \/ \E i \in 1..3 : FirstDiffer(v.core, w.core, i) /\ v.core[i] < w.core[i]
    \/ v.core = w.core /\ PrereleasePrecedes(v.pre, w.pre)

ASSUME PrecedenceIsSemVer ==
    /\ Precedence \in Seq(Version)
    /\ \A i, j \in DOMAIN Precedence : i < j => Precedes(Precedence[i], Precedence[j])

\* A release has the version of its tag, GitHub's flags, and what its executable reports.
ASSUME UpgradeReleases ==
    /\ \A r \in Releases : /\ r.tag \in Versions /\ r.reports \in Versions
                           /\ r.prerelease \in BOOLEAN /\ r.draft \in BOOLEAN
    /\ NoVersion \notin Versions
    /\ MaxReleases \in Nat /\ PageSize \in Nat /\ MaxUint \in Nat

VARIABLES
    exe,       \* what is under the executable's name
    rollback,  \* what is under that name with .rollback
    method,    \* how the executable was installed
    releases,  \* published so far
    page,      \* those on the first page of GitHub's list
    pc,
    op,        \* the upgrade of each process
    told,      \* what it reported
    mishaps    \* history: what happened that the code makes no promise about

published == <<releases, page>>
vars == <<exe, rollback, method, published, pc, op, told, mishaps>>

Upgrade  == [current : Versions \cup {NoVersion}, target : Versions \cup {NoVersion},
             candidate : Versions \cup {NoVersion}]
NoUpgrade == [current |-> NoVersion, target |-> NoVersion, candidate |-> NoVersion]
Methods  == {"archive", "go", "package"}
Places   == {"idle", "discover", "fetch", "prepare", "clear", "aside", "in", "validate",
             "back", "drop"}
Outcomes == {"none", "delegated", "latest", "upgraded", "failed"}
Mishaps  == {"overlap",     \* two upgrades ran at once
             "died",        \* a process died while nothing was under the name
             "unrestored"}  \* the previous executable could not be put back

TypeOK ==
    /\ exe \in Versions \cup {NoVersion} /\ rollback \in Versions \cup {NoVersion}
    /\ method \in Methods /\ releases \subseteq Releases /\ page \subseteq releases
    /\ pc \in [Processes -> Places] /\ op \in [Processes -> Upgrade]
    /\ told \in [Processes -> Outcomes] /\ mishaps \subseteq Mishaps
    /\ \A p \in Processes :
          pc[p] \in {"in", "validate", "drop"} => op[p].candidate = op[p].target

-----------------------------------------------------------------------------
(* check.go: versions and the newest release.                               *)

Numeric(id) == id[1] = "number"

Sign(x, y) == IF x < y THEN -1 ELSE IF x > y THEN 1 ELSE 0

\* Two numbers, however long, or two texts; any number comes before any text.
CompareIdentifiers(x, y) ==
    IF Numeric(x) = Numeric(y) THEN Sign(x[2], y[2]) ELSE IF Numeric(x) THEN -1 ELSE 1

FirstDifference(s, t) ==
    LET differ == {i \in DOMAIN s \cap DOMAIN t : s[i] # t[i]}
    IN  IF differ = {} THEN 0 ELSE Min(differ)

\* Mutant of ComparePrerelease: as texts, without a rule for the absent prerelease.
ComparePrereleaseAsTexts(s, t) ==
    LET i == FirstDifference(s, t)
    IN  IF i # 0 THEN CompareIdentifiers(s[i], t[i]) ELSE Sign(Len(s), Len(t))

ComparePrerelease(s, t) ==
    LET i == FirstDifference(s, t)
    IN  IF s = <<>> /\ t # <<>> THEN 1
        ELSE IF s # <<>> /\ t = <<>> THEN -1
        ELSE IF i # 0 THEN CompareIdentifiers(s[i], t[i])
        ELSE Sign(Len(s), Len(t))

Compare(v, w) ==
    LET i == FirstDifference(v.core, w.core)
    IN  IF i # 0 THEN Sign(v.core[i], w.core[i]) ELSE ComparePrerelease(v.pre, w.pre)

\* parseSemanticVersion: a number of more than 64 bits is no version.
Parses(v) == \A i \in DOMAIN v.core : v.core[i] <= MaxUint

SemanticPreview(v) == v.core[1] = 0 \/ v.pre # <<>>

\* The flag decides, and a stable release must also be one by its version.
InChannel(r, current) ==
    /\ ~r.draft /\ Parses(r.tag)
    /\ r.prerelease = SemanticPreview(current)
    /\ SemanticPreview(current) \/ ~SemanticPreview(r.tag)

\* Latest reads one page, per_page=100, and follows no link to the next.
Candidates(current) == {r \in page : InChannel(r, current)}

\* Latest: of two that compare equal the one that is listed first, in any order.
Newest(current) ==
    {r \in Candidates(current) :
        \A other \in Candidates(current) : Compare(other.tag, r.tag) <= 0}

-----------------------------------------------------------------------------
Active(p) == pc[p] # "idle"

Goto(p, place) == pc' = [pc EXCEPT ![p] = place] /\ UNCHANGED told

Return(p, outcome) ==
    /\ pc' = [pc EXCEPT ![p] = "idle"]
    /\ op' = [op EXCEPT ![p] = NoUpgrade]
    /\ told' = [told EXCEPT ![p] = outcome]

\* InstallLatest: the running executable upgrades itself, unless a package manager
\* does that.
Start(p) ==
    /\ ~Active(p) /\ exe # NoVersion
    /\ IF method = "package"
       THEN Return(p, "delegated") /\ UNCHANGED mishaps
       ELSE /\ pc' = [pc EXCEPT ![p] = "discover"]
            /\ told' = [told EXCEPT ![p] = "none"]
            /\ op' = [op EXCEPT ![p].current = exe]
            /\ mishaps' = mishaps \cup
                   IF \E q \in Processes \ {p} : Active(q) THEN {"overlap"} ELSE {}
    /\ UNCHANGED <<exe, rollback, method, published>>

\* Mutant of Newer: what is not older is newer.
NewerOrEqual(v, current) == Compare(v, current) >= 0

\* compareVersions is 0 for what it cannot parse.
Newer(v, current) == Parses(v) /\ Parses(current) /\ Compare(v, current) > 0

Discover(p) ==
    /\ pc[p] = "discover" /\ method = "archive"
    /\ LET current == op[p].current
       IN  \/ Return(p, "failed")
           \/ /\ Parses(current)
              /\ \E r \in Newest(current) :
                    IF Newer(r.tag, current)
                    THEN /\ op' = [op EXCEPT ![p] = [@ EXCEPT !.target = r.tag,
                                                              !.candidate = r.reports]]
                         /\ Goto(p, "fetch")
                    ELSE Return(p, "latest")
    /\ UNCHANGED <<exe, rollback, method, published, mishaps>>

\* go install ...@latest (external): of the tags there are, the one the running version
\* was built from among them, the highest without a prerelease, or else the highest.
ModuleLatest(current) ==
    LET tags   == {current} \cup {r.tag : r \in releases}
        plain  == {v \in tags : v.pre = <<>>}
        chosen == IF plain # {} THEN plain ELSE tags
    IN  {v \in chosen : \A w \in chosen : Compare(w, v) <= 0}

\* installLatestWithGo: what was built reports its own version, which is expected then.
BuildWithGo(p) ==
    /\ pc[p] = "discover" /\ method = "go"
    /\ \/ Return(p, "failed")
       \/ \E latest \in ModuleLatest(op[p].current) :
              IF Newer(latest, op[p].current)
              THEN /\ op' = [op EXCEPT ![p] = [@ EXCEPT !.target = latest,
                                                       !.candidate = latest]]
                   /\ Goto(p, "prepare")
              ELSE Return(p, "latest")
    /\ UNCHANGED <<exe, rollback, method, published, mishaps>>

\* The assets, the signature of the manifest, the checksum and the archive.
Fetch(p) ==
    /\ pc[p] = "fetch"
    /\ \/ Return(p, "failed")
       \/ Goto(p, "prepare") /\ UNCHANGED op
    /\ UNCHANGED <<exe, rollback, method, published, mishaps>>

-----------------------------------------------------------------------------
(* replaceExecutable.                                                       *)

\* Mutant of Valid: the candidate need only run.
ValidIfRuns(o) == TRUE

\* validateBinary: the candidate reports the version of its release.
Valid(o) == o.candidate = o.target

\* The candidate is written to a temporary file, and run.
Prepare(p) ==
    /\ pc[p] = "prepare"
    /\ \/ exe # NoVersion /\ Valid(op[p]) /\ Goto(p, "clear") /\ UNCHANGED op
       \/ Return(p, "failed")
    /\ UNCHANGED <<exe, rollback, method, published, mishaps>>

ClearRollback(p) ==
    /\ pc[p] = "clear"
    /\ rollback' \in {NoVersion, rollback}
    /\ Goto(p, "aside")
    /\ UNCHANGED <<exe, method, published, op, mishaps>>

MoveAside(p) ==
    /\ pc[p] = "aside"
    /\ \/ /\ exe # NoVersion
          /\ rollback' = exe /\ exe' = NoVersion
          /\ Goto(p, "in") /\ UNCHANGED op
       \/ Return(p, "failed") /\ UNCHANGED <<exe, rollback>>
    /\ UNCHANGED <<method, published, mishaps>>

MoveIn(p) ==
    /\ pc[p] = "in"
    /\ \/ exe' = op[p].candidate /\ Goto(p, "validate")
       \/ UNCHANGED exe /\ Goto(p, "back")
    /\ UNCHANGED <<rollback, method, published, op, mishaps>>

\* It is run again under its name, and removed if that fails.
Validate(p) ==
    /\ pc[p] = "validate"
    /\ \/ exe # NoVersion /\ Goto(p, "drop") /\ UNCHANGED exe
       \/ exe' \in {NoVersion, exe} /\ Goto(p, "back")
    /\ UNCHANGED <<rollback, method, published, op, mishaps>>

\* Mutant of Restored: the rollback file is dropped.
RestoredNot(file) == NoVersion

Restored(file) == file

PutBack(p) ==
    /\ pc[p] = "back"
    /\ \/ /\ rollback # NoVersion
          /\ exe' = Restored(rollback) /\ rollback' = NoVersion
          /\ UNCHANGED mishaps
       \/ UNCHANGED <<exe, rollback>> /\ mishaps' = mishaps \cup {"unrestored"}
    /\ Return(p, "failed")
    /\ UNCHANGED <<method, published>>

DropRollback(p) ==
    /\ pc[p] = "drop"
    /\ rollback' \in {NoVersion, rollback}
    /\ Return(p, "upgraded")
    /\ UNCHANGED <<exe, method, published, mishaps>>

-----------------------------------------------------------------------------
Die(p) ==
    /\ Active(p)
    /\ Return(p, "none")
    /\ mishaps' = mishaps \cup IF exe = NoVersion THEN {"died"} ELSE {}
    /\ UNCHANGED <<exe, rollback, method, published>>

\* The first page is full before there is a second. Which releases are on it GitHub
\* decides (external): by the date of what they are made from, not by their version.
Pages(rs) ==
    {s \in SUBSET rs : Cardinality(s) = IF Cardinality(rs) < PageSize THEN Cardinality(rs)
                                                                     ELSE PageSize}

\* A release is published, or changes its flags.
Publish(r) ==
    /\ r \notin releases
    /\ releases' = {other \in releases : other.tag # r.tag} \cup {r}
    /\ Cardinality(releases') <= MaxReleases
    /\ page' \in Pages(releases')
    /\ UNCHANGED <<exe, rollback, method, pc, op, told, mishaps>>

Init ==
    /\ exe \in Versions /\ rollback = NoVersion
    /\ method \in Methods
    /\ releases = {} /\ page = {}
    /\ pc = [p \in Processes |-> "idle"]
    /\ op = [p \in Processes |-> NoUpgrade]
    /\ told = [p \in Processes |-> "none"]
    /\ mishaps = {}

Next ==
    \/ \E p \in Processes :
          \/ Start(p) \/ Discover(p) \/ BuildWithGo(p) \/ Fetch(p) \/ Prepare(p)
          \/ ClearRollback(p) \/ MoveAside(p) \/ MoveIn(p) \/ Validate(p) \/ PutBack(p)
          \/ DropRollback(p) \/ Die(p)
    \/ \E r \in Releases : Publish(r)

Spec == Init /\ [][Next]_vars

-----------------------------------------------------------------------------
\* The place of a version in the order SemVer defines.
Rank(v) == CHOOSE i \in DOMAIN Precedence : Precedence[i] = v

\* However an upgrade that runs alone ends or dies, an executable is there, under its
\* name or as the rollback file (replaceExecutable, install.go:338-384). However many ran
\* at once, none of them dying between the two renames or failing to rename back, there
\* is one under its name when all have ended: one upgrade cannot take away for good what
\* another has put there.
ExecutableKept ==
    /\ "overlap" \notin mishaps => exe # NoVersion \/ rollback # NoVersion
    /\ (\A p \in Processes : ~Active(p)) /\ mishaps \subseteq {"overlap"} => exe # NoVersion

\* Whatever is published or flagged anew meanwhile, an upgrade never installs what SemVer
\* orders before the running version (InstallLatest, install.go:67), and a stable build
\* never becomes a preview, by whatever way it was installed (check.go:86-90).
NeverDowngrades ==
    [][\A p \in Processes :
        pc[p] = "in" /\ pc'[p] = "validate" =>
            /\ Rank(exe') > Rank(op[p].current)
            /\ SemanticPreview(exe') => SemanticPreview(op[p].current)]_vars

\* An upgrade from the archives says "already the latest available version"
\* (install.go:47) only if no release on the page it read is newer, of the running
\* version's channel and with a tag that can be read (Latest, check.go:50-106).
LatestIsNewest ==
    [][\A p \in Processes :
        method = "archive" /\ pc[p] = "discover" /\ told'[p] = "latest" =>
            \A r \in Candidates(op[p].current) : Rank(r.tag) <= Rank(op[p].current)]_vars

\* "Latest returns the highest SemVer release in the current binary's channel"
\* (check.go:45): then no release is newer, on whatever page it is. It does not hold
\* once there are more releases than a page has.
HighestOfChannel ==
    [][\A p \in Processes :
        method = "archive" /\ pc[p] = "discover" /\ told'[p] = "latest" =>
            \A r \in releases :
                InChannel(r, op[p].current) => Rank(r.tag) <= Rank(op[p].current)]_vars

\* "already the latest available version" (install.go:47) where Go installed the
\* executable: then no release of its channel is newer. It does not hold for a
\* prerelease, since go install ...@latest prefers what is not one.
GoLatestIsNewest ==
    [][\A p \in Processes :
        method = "go" /\ pc[p] = "discover" /\ told'[p] = "latest" =>
            \A r \in releases :
                InChannel(r, op[p].current) => Rank(r.tag) <= Rank(op[p].current)]_vars

\* An upgrade that runs alone and fails leaves the executable it started from in place,
\* and one that succeeds leaves the version it reports.
ReportTrue ==
    [][\A p \in Processes :
        pc[p] # "idle" /\ mishaps' = {} =>
            /\ told'[p] = "failed" => exe' = op[p].current
            /\ told'[p] = "upgraded" => exe' = op[p].target]_vars
=============================================================================
