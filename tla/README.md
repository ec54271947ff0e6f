# A verification of talento-cli

TLA+ models of the parts of talento-cli whose correctness depends on the order of things:
the live session with its server previews, the configuration file shared by processes, the update
loop of the interactive workspace, the commands that sign in and out, the installation of agent
files, the upgrade of the executable, the selection of a profile by a project file, and the form
in which arguments are edited. TLC checks the models on small instances; TLAPS proves what matters
most for every instance. Paths below are relative to `src/`.

To repeat the checks: `tlc -config <cfg> <module>` for every run listed under "Runs",
`tlapm` on each of the `*Proofs` modules for the proofs.

## The system

talento is a command-line client of a remote MCP gateway. One process runs one command, or the
interactive workspace (`talento tui`), which is long-lived and concurrent. Several processes of
one user share a configuration file, a credential store (the keyring of the operating system or a
file) and the installed agent files.

| component | where | state | operations |
| --- | --- | --- | --- |
| live session | `internal/app/session.go` | closed, auth changed, generation, map of pending previews, next handle, `opMu`, `mu` | Catalogue, Invoke, Confirm, ReadResource, InvalidatePreviews, Close |
| MCP client | `internal/mcpclient/client.go` | the SDK session, token source with its mutex | RoundTrip (token, guard, send), ListTools, CallTool, ..., classification of results |
| OAuth service | `internal/auth/service.go`, `metadata.go` | none of its own: credentials per profile in the store, profile records in the configuration | Login (with rollback), AccessToken (with refresh), Logout, Status, discovery |
| credential store | `internal/auth/credentials.go` | one entry per profile | Load, Save, Delete, fallback to a file |
| configuration store | `internal/config/store.go` | the file, its lock file, the `.rollback` file on Windows | Update under the lock with seven kinds of profile and trust update, and the managed-file records; Load and SnapshotProfile without it |
| project configuration and trust | `internal/config/project.go` | the project file, the digest that was trusted | discovery, stable read, trust check |
| interactive workspace | `internal/tui/tui.go`, `update.go` | page, overlay, session, request and connection numbers, flags for what is awaited, registry of sessions | keys, messages, commands on their own goroutines |
| rendering, forms | `internal/tui/view.go`, `navigation.go`, `form/` | widths, selections, the edited form | drawing, editing, building arguments |
| one-shot execution | `internal/app/app.go` | none | resolve profile, list, call, confirm |
| managed agent files | `internal/managed/` | skill files and agent configurations, their recorded digests | Install, Remove with rollback, diagnostics |
| self-upgrade | `internal/upgrade/` | the executable and its backups | check, download, verify, replace |
| commands | `internal/commands/` | none | setup, profile, auth: sequences of service and store calls; parsing and output |
| schema | `internal/schema/` | the embedded snapshot | mapping, validation |
| output, surface, release tooling | `internal/output/`, `surface/`, `release*/`, `cmd/` | none | formatting, build-time checks |

How they interact. The workspace calls the live session from commands that Bubble Tea runs on
goroutines, while the update loop calls InvalidatePreviews and the registry calls Close on the same
session at any moment. The session makes its requests through the MCP client, whose transport calls
back into the session twice per request: for a token (`tokenProvider`), and to be allowed to send
(`checkGeneration` as the dispatch guard). The token provider calls the OAuth service, which reads
and replaces the credential store; every other talento process does the same without telling this
one. Login, logout, setup, profile deletion, project trust and managed files all end in
`Store.Update`, the only writer of the configuration.

What is hard, and what correctness means for each component:

- **Live session.** Three mutexes protect different parts of one operation, and two entry points
  take only one of them. A preview must be confirmed at most once, never after the session was
  invalidated; a write that may have been executed must never be reported as a plain failure; a
  session must never act with the credentials of another login.
- **Configuration store.** Advisory lock file with a stale-lock timeout, crash at any system call,
  failing renames, readers without the lock. Updates must be applied one after the other and whole,
  a reported success must be on disk, a failure must leave the old content, and what is on disk must
  load.
- **Interactive workspace.** Answers come back in any order, after the user has cancelled,
  switched to another company or left. Nothing of another company may be shown, a write in flight
  must be waited for, an uncertain write must not be repeated, no session may leak, and the
  workspace must not wait for something that has ended.
- **OAuth service.** Several stores are changed one after the other, with rollback; refresh tokens
  are rotated by the server; other processes do the same concurrently. A failed login must leave
  what it found, a logout must stay a logout, a rotated token must not be lost.
- **Project trust.** The content that is trusted must be the content that is used.
- **Managed files.** Many files and one configuration record change together; failures and crashes in
  between must not lose user files nor leave unowned ones.
- **Self-upgrade.** The executable is replaced by renames, with a backup; a crash must leave a
  working one. Version comparison decides what is newer.
- **Forms, schema, output.** Sequential; the right result for every input.

The hazards these lead to are listed line by line in `PROJECT.json`.

## Modules

| module | models | status |
| --- | --- | --- |
| `PreviewLifecycle` | what a session promises about previews (abstract) | done |
| `Session` | `liveSession` over the client's transport, with other processes logging in and out; implements `PreviewLifecycle` | done |
| `SessionProofs` | types, safety, token pinning and the refinement of `PreviewLifecycle`, for any callers, tools and bounds | done |
| `ConfigUpdates` | the content of the configuration and the effect of each update (operators) | done |
| `ConfigFile` | what the store promises: one register (abstract) | done |
| `ConfigStore` | `Store.Update` by several processes over a lock file; implements `ConfigFile` | done |
| `ConfigStoreProofs` | types, validity, mutual exclusion, the refinement of `ConfigFile` and the Windows path | done |
| `Workspace` | the update loop of the interactive workspace, its commands and messages | done |
| `Accounts` | auth login, refresh, logout, setup, the offered sign-in and profile delete, over server, credential store and configuration | done |
| `Managed` | `managed.Manager`'s Install and Remove, the user's edits, and the diagnosis of what is installed | done |
| `Upgrade` | the choice of a release and the swap of the executable | done |
| `OneShot` | a command that asks the server one thing: selection of its profile, approval of a project file, sign-in, preview and confirmation | done |
| `Form` | the argument form and its JSON view | done |
| `UpgradeProofs` | the four properties of `Upgrade` that hold, and that its comparison is SemVer's, for any versions and releases | done |
| `ManagedProofs` | the six properties of `Managed` that hold, for any processes, agents, builds and edits | done |
| `AccountsProofs` | the four properties of `Accounts`, for any processes, profiles and grants | done |
| `OneShotProofs` | reading, trust and sign-in of a one-shot command, for any directories, contents and processes | done |
| `WorkspaceProofs` | all of `Workspace`'s properties, for any profiles and any number of attempts | done |
| `FormProofs` | the three properties of `Form` that hold, for any schema, values and number of items | done |
| `MC...` | instances for TLC, with the symmetries that are sound | done |

How they compose. `Session` INSTANCEs `PreviewLifecycle` and `ConfigStore` INSTANCEs `ConfigFile`, the
abstract specifications they implement. `Accounts` and `ConfigStore` EXTEND `ConfigUpdates`, the effect
of each update on the content of the file: `ConfigStore` shows that the file is a register under
concurrent processes, and `Accounts` uses it as one, which is what lets it follow three stores at once.
`Session` sees of `Accounts` what other processes do to its profile's credentials, `OneShot` sees the
outcome of a sign-in, and `Workspace` sees a session's answers. `Form` is the state behind the opened
action of `Workspace`.

### Session

State. `closed`, `authChanged`, `version`, `nextID` and `previews` are the fields of `liveSession`;
`nilPreviews` tells the nil map from the empty one. `opMu` and `tokenMu` are the mutexes and their
holders; `mu` needs no variable, since every action that touches what it guards is one critical
section of it. `previousGrant` is the variable captured by `tokenProvider`'s closure. `pc[c]` and
`op[c]` are the place and the locals of the goroutine `c`. `stored` is the profile's entry in the
credential store, told apart by the grant it belongs to; 0 stands for missing or unreadable
credentials. `confirms` and `putBack` are history: what reached the wire, and whether another
process has stored the credentials of an earlier grant again after those of a later one.

Actions. One operation is a sequence of steps: `Begin`, `BeginConfirm` or `Close`; then for each of
its two requests `TokenBefore`, `AccessToken`, perhaps `Refresh`, `TokenAfter`, `Guard` and `Send`;
then an action for each kind of answer. `Invalidate` and `Close` fall between any two of them, as do
the logins, refreshes and logouts of other processes: `LoginSaves`, `LoginEnds` (perhaps with a rollback),
`RefreshSaves` (a refresh that loaded the credentials of any grant there has been and saves them now) and
`Logout`.

Abstractions. The gateway keeps no state: each listing advertises any revision of the tool or none,
each call answers anything. Listings of resources and templates are one request; a tool is described
by its name and schema revision; arguments are acceptable or not. The resumption of an interrupted
stream inside one request is part of waiting for its answer. Connecting is the initial state: a
session that cannot be opened is never used. A refresh renews the token within its grant, and its
`Save` overwrites what is stored by then. The guard and the send are two steps, so a confirmation
the guard has let through may be sent after an invalidation; `PreviewLifecycle` calls it
"authorised" and says so.

### ConfigStore

State. `config` and `rollback` are the two files, `holder` and `old` the lock file: who created it and
whether it is over 30 seconds old. `work[p]` is what `p` is about to write, `late[p]` its expired
5-second deadline, `told[p]` what its last call reported.

Actions. Each is one system call another process can see: `TryLock`, `Stat`, `Steal`, `Compute` (the
load, the callback and the validation), `Replace` or on Windows `MoveAside` and `MoveIn` or `PutBack`,
`Release`. `Crash` may take the place of any of them; `LockAges` and `FiveSecondsPass` are time.
`ConfigUpdates` has one operator per callback.

On Windows every call of `saveAtomic` may fail, the removals of `.rollback` and the rename that puts it
back among them, whose errors the code drops (`store.go:379`, 386, 389). `stranded` is history: the configuration was
left behind as `.rollback` only, by such a rename or by a death between the two.

Abstractions. Managed-file records, timestamps and endpoints are left out, since no update modelled
here reads them. The temporary file has no name others use and is part of the step that moves it.
A process that died stays dead; whoever starts the program again is another process.

`HoldersMayStall` says whether a live process can keep the lock for over 30 seconds (a suspended
laptop, say). It is FALSE in every run: stealing a live holder's lock is what the timeout is for, and
loses an update as it must. `StoreTypes` and `StoredValid` are proved without it.

### Workspace

State. The fields of `model` that decide what a key or a message does: `page`, `overlay`, `profile`,
`session`, `frozen`, `connecting`, `authenticating`, `busy`, `writing`, the opened action and its
result, and `registry`, the `sessionRegistry`. A session is named by the attempt (`connectSequence`)
that opened it, which also stands for the generation: each attempt is connected at most once.
`jobs` are the commands from their start to the handling of their message. A job's `latest` says that
`requestSequence` has not moved since the request; `voided` that `InvalidatePreviews` was called on
its session since.

Actions. One per key that changes the state on each page or overlay (`Key`), one per message and its
branches (`Message`), and the steps of the commands (`Command`), which other goroutines take at any
time: a session is opened, registered, its catalogue loaded, closed. `CloseAll` is the end of `Run`.

Abstractions. Navigation inside a page, the help and schema overlays, small terminals, the list of
profiles (any profile may be chosen), the contents of forms and results, the recent actions and the
failed response kept beside a read are left out. What the session does is any answer it may give;
that a valid handle belongs to the current generation is `Session`'s business. `workspace` stands for
the two pages that list actions.

### Accounts

State. `file` is the configuration, `creds[n]` a profile's entry in the credential store, told apart by
grant and refresh token. `grants`, `live` and `newest` are the authorization server (external): a
grant is live until it is revoked, and a refresh token is accepted while it is the newest of its grant;
grants in `Rotating` get a new one at each refresh. `pc[p]` and `op[p]` are the place and the locals of
the command a process runs, `told[p]` what it reported. `mishaps` is history: which of the things have
happened about which the code can promise nothing.

Actions. Every call of `Login`, `rollbackLogin`, `refresh`, `Logout` and the commands around them that
reads or changes one of the three stores is a step: `CaptureCredentials`, `CaptureProfile`, `Authorize`
(discovery to exchange), `SaveLogin`, `RecordProfile`, `FinishLogin` (which revokes the previous grant),
the rollback `RevokeIssued`, `RestoreCredentials`, `RestoreMetadata`; `LoadCredentials`, `Rotate`,
`StoreRefreshed`; `RevokeGrant`, `Forget`; `CheckSignedOut`, `RemoveProfile`. Each may fail where the
code returns an error, and a process may `Die` anywhere.

Abstractions. Discovery, registration and the browser are one step. `logout --all` is a sequence of
logouts. Credentials that cannot be read are a failed load. Expiry is a choice: an access token may
or may not be used as it is. A token of another form or scope fails `validateToken` and is a choice too.

What breaks the properties is named, and TLC shows that it does. Sign-ins and sign-outs of one profile
that overlap, since nothing locks the credential store across a request (a refresh that loaded
its credentials before a logout stores the renewed ones after it). A rotated token whose answer was lost or which could
not be stored. A process that dies in the middle of a rollback or before it has stored what the server
has already done. A rollback that cannot store what it restores.

### Managed

State. `content`, `records` and `backups` are the files, their recorded digests in the configuration, and the backups
by second; a digest is the content. `op[p]` has the locals of Install and Remove: the records as loaded,
the build that runs it, the targets still to inspect, what is planned, the originals and what was changed so far. `owed`,
`touched`, `before` and `mishaps` are history: what the user wrote and has not replaced, which files he
changed, and the files as a command that runs alone found them.

Actions. `Begin` loads the records; `Inspect` reads one target and decides: unchanged, refused, or
planned, with a backup where `--force` replaces something; `Change` writes or removes one; `Record` is the
update of the configuration; `Rollback` puts one back. `Edit` is the user. The clock is read for backups only, so time passes between
one backup and the next (`BackUp`). The diagnosis
is an operator: `Integrity`, `Diagnosed`, `Worst`, `Status`. Each command is run by any of the `Builds`, as
the user may upgrade and downgrade the CLI in between, or have several.

Abstractions. The files of one skill directory are one file, and any two builds differ in all of them.
`atomicWrite` is one step: on Windows a failure or a death may also leave the file set aside, that is,
nothing under its name (`Unwritten`, `InHand`). Detection of installed agents and probing for their versions are left out, and with them the
states `runtime-missing`, `version-unavailable` and `unreadable`. The symbolic-link and containment
checks of a path are refusals before anything is inspected.

Excused by name: a file changed by the user between its inspection and its replacement (`raced`),
commands that overlap (`overlap`: one rolls back what the other has recorded), a rollback that cannot write
a file (`unrestored`), a process that dies with files changed and not recorded (`died`), and
two backups of one file in one second (`sameSecond`; `manager.go:527` has the resolution of a second,
against "timestamped backups" that a modified file is promised, `docs/architecture.md:64`). Each property
names the ones it needs. `died` matters to whether an untouched file is refused: after such a death the same command can be
given again (`RedoNotRefused`), while a removal, or the installation of another build, refuses what nobody has
modified (`OnlyModifiedRefused`, a finding).

### Upgrade

State. `exe` and `rollback` are what is under the executable's name and under that name with
`.rollback`, a version or nothing. `method` is how it was installed. `releases` is what is published, `page`
the part of it on the first page of GitHub's list, which is all that `Latest` reads (`check.go:14`); the page has
`PageSize` releases, which GitHub orders by their dates and not by their versions.

Actions. `Discover` takes any newest release of the channel on the page, or `BuildWithGo` what the Go module proxy
has; `Fetch` downloads and verifies; `Prepare` writes the candidate beside the executable and runs it;
`ClearRollback`, `MoveAside`, `MoveIn`, `Validate`, `PutBack` and `DropRollback` are the calls of
`replaceExecutable`. `Publish` adds a release or changes its flags at any time. `Die` may come anywhere.

`Compare` translates `compare` of `check.go`. `Precedes` is the order item 11 of the SemVer standard asks for,
stated without reference to the code; `Precedence` lists the versions there are in that order
(`PrecedenceIsSemVer`, which TLC evaluates), and `Rank` is the place in it. `MCUpgrade` has versions with absent, numeric, textual and
longer prereleases, multi-digit identifiers (beta.2 against beta.11), and one with a number over 64 bits.

Abstractions. Parsing is refusing what does not fit; signature, checksum and archive are one step that
may fail. A process that dies between the two renames leaves the executable only under `.rollback`, and
nothing ever looks there (`install.go:370-373`; `docs/distribution.md:61` promises to "swap the
executable with rollback"): `ExecutableKept` counts that file as kept when nothing else ran, and says so.

### OneShot

State. `marker`, `path`, `data` and `stamp` are the file system: the `.talento` directory and the
`config.json` of each level, as inodes, the two halves of a file, and its modification stamp.
`configured`, `default` and `trust` are the configuration. `op[p]` has what a command has read so far:
the copy of the configuration `ResolveProfile` works on, the directory and the file it inspected, the
stamp, the halves, and `projectOnce`. `approved`, `whole`, `known` and `signedIn` are history.

Actions. Locating the nearest selector level by level, `Lstat` of the directory and of the file, `Open`
with the comparison of identity, two reads, the comparisons after it (`Restat`, `Relstat`, `Remarker`),
`Parse` (trust status), `Prompt`, `RecordTrust`; `UseDefault`; `Offer` (the sign-in in between, after which
all is resolved again, and which may fail with a profile created or made default already), `Request`, `Consent`, `Confirm`; `profile trust-project` and `untrust-project`. Others replace,
remove and rewrite the file, replace its directory, and delete or prefer profiles meanwhile.

Abstractions. A selector is a profile and a digest of the exact bytes; a file whose halves do not belong
together does not parse. Permissions, sizes and symbolic links are failures. `--profile` and
`TALENTO_PROFILE` are one flag. A stamp changes with every write: an in-place rewrite within the
resolution of the file system's clock that also keeps the size is out of the model.

### Form

State. The fields of `Model`: `raw` and `rawOnly`, the JSON editor's `text`, the `fields` with their
presence, editor and items, `extra`, `focus`, `item` and `dirty`. `panicked` says that an index was out
of range. `loaded` is history: the arguments the draft started from.

Actions. One per key of `Update`: `Tab`, `BackTab`, `Presence` (Ctrl+O), `AddItem` (Ctrl+N), `DropItem`
(Ctrl+D), `FlipNull` (Ctrl+L), `Choose`, `Type`; `TypeJSON`, `ShowJSON` and `ShowForm` (F4); and `Reopen`,
the update loop's new form for a changed schema, filled in with `SetArguments`.

Abstractions. A text is what it decodes to: a value its control can hold, a value only JSON can
write, null, or a draft that is no value. Booleans and enumerations are selectors, an enumeration of
several types being one; the items of a list are text editors. The 8 MiB and 10000-line limits appear
only where a conversion can fail (`Fits`). Bounds are on the items of a list and the number of edits.

## Runs

States are distinct states of a complete search; the runs of the second table and the configurations of the third stop at the violation.

| run | states | instance | what it shows |
| --- | --- | --- | --- |
| `session_safety` | 1.6 M | 2 callers, 1 preview, 2 generations, 2 grants: a login of others that may be rolled back, their refreshes and logouts | `TypeOK`, `SingleConfirmation`, `LivePreviewsCurrent`, `HonestReport`, `PinnedUnlessPutBack`, and the refinement `KeepsLifecycle` |
| `session_live` | 0.1 M | 2 callers, 1 preview, 1 generation, fairness | `OperationsReturn` |
| `config_updates` | 0.1 M | 2 processes, one of which may die at any step, 1 profile, fairness | `TypeOK`, `OneWriter`, `UpdatesReturn`, and the refinement `IsRegister` |
| `config_windows` | 5.4 M | 2 processes, one of which may die at any step, 2 profiles, stale snapshots, renames and removals any of which may fail | `FileValid`, `LostOnlyIfStranded` |
| `workspace` | 2.5 M | 2 profiles, 3 attempts to connect or to sign in | `TypeOK`, `OneCompany`, `WriteAwaited`, `Awaited`, `SessionsOwned`, `NoReplay`, `ConfirmableCurrent` |
| `accounts` | 2.0 M | 2 processes, 1 profile, 2 grants of which one rotates, 2 kinds of mishap | `StoredUsable`, `NoOrphanGrant`, `CredentialsHaveProfile`, `FailedLoginRestores` |
| `managed` | 2.0 M | 2 processes with 2 commands in all, 2 builds, 2 agents, an edit by the user, a mishap and any death | `UserContentKept`, `UntouchedNotRefused`, `RedoNotRefused`, `SharedSkillKept`, `WrapperRepairable`, `FailureRestores` |
| `upgrade` | 1.2 M | 2 upgrades, at most 2 of 11 releases published, all on the page | `ExecutableKept`, `ReportTrue`, `NeverDowngrades`, `LatestIsNewest` |
| `oneshot` | 4.3 M | 2 processes with 2 commands in all, 2 levels of directories, a change by someone else | `ReadOneMoment`, `ApprovedOnly`, `SignedInUsed` |
| `form` | 1.3 M | a selector and a list, 3 edits | `TypeOK`, `DirtyTold`, `ConversionKeepsArguments` |

Two more runs find what the section "Findings" describes:

| run | instance | what fails |
| --- | --- | --- |
| `config_stale` | 3 processes, one of which dies | `OneWriter` |
| `form_conversion` | as `form` | `DraftOutlivesConversion` |

Five stronger claims are stated beside the properties they strengthen, and TLC refutes each; their configurations are
there to be started by hand:

| configuration | instance | what is refuted |
| --- | --- | --- |
| `MCConfigStore_putback.cfg` | 1 profile, the Windows path, nobody dies | `NothingLost` |
| `MCSession_grants.cfg` | 1 caller, otherwise as `session_safety` | `Pinned` |
| `MCManaged_death.cfg` | commands in turn, 3 builds, no mishap but death | `OnlyModifiedRefused` |
| `MCUpgrade_page.cfg`, `MCUpgrade_go.cfg` | 1 upgrade at a time, at most 3 releases, 2 on the page | `HighestOfChannel`, `GoLatestIsNewest` |

### Bounds

- `Session`: two callers are enough for a double confirmation, one that is sent while another is refused,
  and an invalidation between the checks of a third party. Two generations (`MaxVersion`) allow an
  answer of the previous one. Two grants (`MaxGrants`) are the session's and another's. A tool and two revisions give a
  reviewed read-only tool and its drifted form, a write. The theorems have no bound on any of them.
- `ConfigStore`: two processes are enough for a lost update; `config_stale` needs a third, since one dies.
  One crash (`MaxCrashes`) leaves one dead holder. One profile suffices where the question is whose update, or which
  of the two files, survives, two where the default profile may be another (`config_windows`). `KindsAsked` are the updates whose order matters there;
  a restoration of a profile that was not there is a deletion.
- `Workspace`: `MaxConnects` bounds connection attempts, sign-ins and their cancellations together.
  Three allow a candidate to arrive late while a session is in use, and a sign-in followed by a
  connection. Requests are not bounded.
- `Accounts`: two grants are a login and the one before it, or two logins at once; `Rotating` makes the first
  grant a rotating one and the second not, so both kinds of server occur; `MaxTokens` is one
  rotation. `MaxFaults` counts kinds of mishap, and a kind that has happened may happen again.
  Of another profile a command can only change the default, and `FailedLoginRestores` speaks of the
  default as far as it is the profile's own; the theorems have any number of profiles.
- `Managed`: agent 1 has a copy of its own and agent 2 depends on the shared skill. Two builds are the one that is
  recorded and another; a third one is needed for the installation that `MCManaged_death.cfg` shows refused. `MaxCommands`
  counts commands started in all, `MaxEdits` the user's edits, `MaxMishaps` the kinds of mishap, death apart;
  `LastSecond` bounds the seconds in which backups are made. Two commands are enough for one to fail or die and the next to
  meet what it left. One second is the run's, in which every second backup of a file is of the same second;
  that backups of different seconds keep what the user wrote is in the theorem.
- `Upgrade`: the nine versions, of which eleven releases are made, are chosen pairwise to differ in one thing the
  comparison has to see; two of them published allow a choice, and a change of what is newest while an upgrade runs. The page
  (`PageSize`, 100 in the code) has room for both, and the theorem is for any size; with a third release, `MCUpgrade_page.cfg` shows one missed. `MaxUint` stands for the
  largest 64-bit number: one version lies beyond it.
- `OneShot`: one change by another (`MaxChanges`) may fall between any two steps of a command; two commands are
  two processes beside each other, or one that reads what the other trusted.
- `Form`: `MaxItems` 2 has a first and a last item; three edits (`MaxEdits`) shorten a list in the JSON view,
  return and go on.

`CHECK_DEADLOCK FALSE` is said where the system may really stop: the program of `Workspace` ends when the
user leaves, the commands of `Accounts`, `Managed`, `Upgrade` and `OneShot` are run a bounded number of times
or by processes that may all have died, and the user of `Form` may be done. Symmetry of callers and processes is
used in runs without liveness only.

### Fairness

- `Session` (`session_live`): every request ends, as the network client has a 45-second timeout and a
  cancelled wait returns; Go's mutexes hand over to a waiter that starves, hence strong fairness for taking
  `opMu` and the token mutex. No caller is obliged to ask for anything, no process to log in.
- `ConfigStore` (`config_updates`): a process that is alive keeps executing, and five seconds pass. That a
  lock file grows old is *not* assumed: the deadline alone makes an update return.

The other modules state no fairness: what they have to say is safety. For `Workspace`, `SessionsOwned`
says of every open session that it is in use or that a command is on its way that closes it or
hands it over.

## What is proved

`ASSUME`s on constants are weak: `Nobody` is no process, bounds are naturals, there is at least one
tool or profile, `Absent` is no client, the versions of `Upgrade` are listed in SemVer's order, a form has
a field and a list room for an item, what cannot be sent is no value. The bounds may be any number, so the theorems hold for
behaviours of any length and for any number of processes.

`SessionProofs`. `TypeCorrect` is by cases over the actions. `Safety` proves the inductive
invariant `IInv`. `SingleConfirmation` alone is not inductive: that a confirmation about to be sent has
not been sent before rests on its handle having been consumed, which rests on handles naming one
preview each (`HandlesIssued`), and on a running operation being the only one (`OneRunning`), so that no
second confirmation can look the handle up. `LivePreviewsCurrent` needs `GenerationsPass`: the generation
an operation captured is in the past once the session is closed or poisoned, so the test `version =
o.gen` in `Keep` implies both. `HonestReport` needs `DispatchedWaits`: a dispatched second request is
nowhere but in `wait`, and from there the error returned is chosen by `LossOutcome`. From `IInv` follow
`ConfirmedOnce`, `NoStalePreview`, `HonestlyReported` and, with `NilMapMeansOver`, the action property
`NilMapNeverWritten`. The lemmas group the actions: most neither touch previews nor send
(`CalmKeepsInvariant`), an invalidation only removes (`InvalidationVoids`), and the rest have a lemma
each.

`KeepsPromise` is the refinement of `PreviewLifecycle`, and `IInv` is what it needs. The phase a
preview is in is read off `previews`, the operations under way and the history of confirmations;
`PhaseMeans` says what each phase comes to in a state that satisfies `IInv`. Then each action has a lemma
that says which phases it moves: most none, an invalidation every held one, issuing, taking and losing
a preview one each. `TokenPinned` proves `PinnedUnlessPutBack` from an invariant of its own (`TokenInv`): the
grant the session accepted first is the one `previousGrant` names, until someone stores an earlier grant after a
later one; before that what is stored only moves on, so that what a
token request has read at its first look is either that grant or a token it will refuse.

`ConfigStoreProofs`. `StoreTypes` and `StoredValid` hold in general: crashes, stolen locks, stalled
holders, the Windows path. Validity is inductive once extended to every content in preparation and to
the `.rollback` file. `OneWriterAtATime` and `StoreIsRegister` assume that no live holder stalls
(`HoldersMayStall = FALSE`) and that either none dies (`MaxCrashes = 0`) or there are two processes
(`AtMostTwo`), and the second also that rename replaces a file. This is as far as it goes:
`config_stale` shows what a dead holder and two waiters lead to. Under these assumptions only the file
of a dead holder grows old, whoever is about to remove it is alone by then, and so its creator is the one process between taking and releasing it
(`LockKept`); hence what a process is about to write was computed from what is still stored
(`WorkCurrent`); hence `Replace` maps to `Apply` of `ConfigFile`, and every other step to a step of the
caller, its death or a stutter.
`ConfigurationKept` proves `LostOnlyIfStranded` under the first two of these assumptions, whatever a rename
does: if there is no configuration but a `.rollback` file, it has been stranded, or the process between the
two renames is there to move one of them in (`CopyInUse`), and nobody else removes a file since that process
has the lock. With an overlap of two holders, which `config_stale` shows, it is not proved.

`UpgradeProofs`. `ExecutableKept` and `ReportTrue` speak of upgrades that run alone, and are not inductive:
what `PutBack` can promise depends on where the upgrade is. The invariant of `UpgradeSafety` says, for the
one upgrade that is under way, what is under each of the two names at every place of `replaceExecutable`,
and follows the upgrade through its failures. `CompareIsPrecedence` is about the comparison alone:
`FirstDifference` finds what `Precedes` speaks of because every set of naturals that is not empty has
a least member (`MinIsLeast`, by well-founded induction), and then the cases of `comparePrerelease` are those
of the standard. With it, `UpgradesOnly` follows from an upgrade keeping what it chose (`Chosen`) and the name
having what it fetched, and `LatestIsTrue` from the choice being a maximum of what the upgrade read. It is about upgrades
from the archives and the page they read; `HighestOfChannel` and `GoLatestIsNewest` say what is not so beyond it.

`ManagedProofs`. `ManagedSafety` carries three arguments. User contents: what a command took away is in a
backup or among the originals it will put back, and what it plans to replace without a backup is a
build of its own. Records: a command that runs alone knows the records it has loaded to be current, so
that a dependent agent's record keeps the shared skill out of `RemovalTargets`. Rollback: the files changed so far
are those that differ from `before`, and undoing them last to first ends there. `Accounted` says so as long as
no mishap but a death occurred, and `FailuresUndone` follows. `Expected` says that a file nobody touched holds nothing or
what is recorded, but for what the command under way has changed; since a recorded digest is never refused,
`UntouchedAccepted` follows for any build and for removals, and death is excused because after it there is no
command under way left to account for the difference. `Redo` covers death for the command given again: what a
file holds is what it held, what was to be written, or nothing, and none of these is refused (`RedoAccepted`). `RepairAccepted`
needs the order of `Worst`: a record is `stale` or `missing` only if no file of the agent is modified.

`AccountsProofs`. `CredentialsHaveProfile` needs what a command counts on at each place
(`CountedOn`): from the choice of a profile to the end of its rollback a login's profile is configured, a
snapshot to restore has a profile in it, and a profile about to be removed has no credentials. Each of
these another command could take away; `Apart` says that a sign-in or refresh and a deletion of one profile
are never under way together once overlapping deletions are excused, and it is preserved since a command
keeps its kind and its name until it returns. The other three properties are about the server, the
credential store and the configuration at once, which nothing locks together; their
invariant `StoreInv` says what each command knows at each place, as long as the mishap that would
falsify it has not happened. `Alone` is `Apart` for sign-ins and sign-outs. `Owned` says that a grant is in
one profile's hands, stored or held by a command, so that no command touches a grant of another profile.
`StoreKnown` says what is stored in terms of the command's locals. On it rest `TokensKnown` (stored
credentials are usable, or a command is about to replace them; of refreshes that run side by side only
one can have rotated), `GrantsKnown` (a live grant is stored, or a command will revoke it or put it back)
and `ProfileKnown` (the profile is as the login captured it). At rest no command is left to blame, which
is `StoredUsable` and `NoOrphanGrant`; `FailedLoginRestores` is read off the four steps with which a
login can fail.

`OneShotProofs`. `ReadOneMoment` is about the end of the reading; on the way there the invariant says what
has been read so far (`ReadSoFar`): unless the stamp of the opened file has grown since it was taken, both
halves read are the halves the file holds now, and once the stamp compares equal they were there together.
It rests on `Opened`, since a rewrite grows the stamp and a replacement makes a file nobody has open.
`ApprovedOnly` needs what a command holds between its look at the configuration and the profile it
follows (`Entitled`): every record it holds was approved by the time it looked, and it starts over with
nothing read; `RecordsApproved` says the same of the records in the configuration. `SignedInUsed` needs
that the flag set by the sign-in stays to the connection (`SignedInKept`). The assumption is
`OneShotBounds`: the directories are numbered from the working directory up, and there is one.

`WorkspaceProofs`. `WorkspaceSafety` has one lemma for each key, command and message. Its invariant `WInv` has
two halves that most steps disturb one at a time. `ThreadInv` is about attempts, sign-ins and
closes: each has a number of its own that is not the session's (`Numbered`), the current number belongs to
the attempt or sign-in that is waited for (`Attempts`), and each registered session is in use or has a job
that will close it or hand it over (`Registry`). `ReqInv` is about requests: at most one is answered
to and it is of the session in use (`RequestsCurrent`), none is while an attempt is under way
(`WhileConnecting`), only a refresh of the actions is during a sign-in (`WhileSigningIn`), and what is
executed has neither been invalidated nor follows an unknown outcome (`InFlight`). The properties need both:
`WriteAwaited` holds at the end of a connection because a current attempt means that no request is
answered to, and `NoReplay` because the pages a write starts from are never shown while an outcome is
unknown (`PagesFit`). A step after which nothing is awaited keeps `ReqInv` by `Silences`, one that asks
by `AskedSuffices`, one that leaves requests alone by `RequestsStay`.

`FormProofs`. Its algebra comes first: what fills an editor or a field is what it holds afterwards
(`SetDecodes`, `FilledHolds`), and what a field holds can be sent (`HeldTypes`), so that `loadArguments`
and `arguments` undo each other (`FormSendsText`); that is `ConversionLossless`. The invariant `FormInv` adds that
the item in focus is there unless the workspace has panicked (`ItemShown`), so that every key
edits an item that exists, and that a form which is not dirty is as it was opened (`Clean`), for which
it must know that only a form without a field view is opened filled in. Dropping an item clamps the
focus; the one step that breaks `ItemShown` is the return from the JSON view, the fourth finding below.

Only model-checked are `OperationsReturn` and `UpdatesReturn`: liveness under fairness is out of the
prover's reach.

Nothing recursive is proved about: what a recursive definition computes needs induction over data, which
the installed provers cannot do. `Upgrade` and `Managed` define what they need over sets.

## Findings

Seven disagreements, each of which TLC shows: 1 and 4 as runs, the others under the configurations named after their
properties above. Four are bugs:

1. `OneWriter`, `config_stale`. `acquireLock` decides that a lock file is stale with `os.Stat` and removes it
   by name in a second call (`internal/config/store.go:409-411`). Of two waiters that both see a dead
   holder's file, the slower one removes the lock the faster one has taken since, and one of two
   successful updates is lost. `docs/architecture.md:62` has updates use a lock file.
2. `NothingLost`. On Windows `saveAtomic` drops the error of the rename that puts `.rollback` back
   (`internal/config/store.go:386`). `Load` never looks at `.rollback` and starts from an empty configuration,
   and the next update removes it (`store.go:379`): the configuration is lost, although nobody died, against the
   "Windows rollback path" of `docs/architecture.md:62-63`. A death between the two renames has the same end.
3. `Pinned`. Between the two looks of `tokenProvider` at the grant (`internal/app/session.go:173-196`)
   a login may store another, and then a refresh of the first, begun before the login, may save over it
   (`internal/auth/service.go:374`), or a rollback put it back (`service.go:242`). Both looks show the session's
   own grant, and the token loaded in between is the other's, whereas `session.go:230-232` says that
   another grant, which may be another company's, poisons the connection.
4. `DraftOutlivesConversion`, `form_conversion`. `activeEditor` indexes `f.items[m.item]` (`internal/tui/form/model.go:428`), and
   showing the form again after a list was shortened in the JSON view does not reset `m.item`
   (`model.go:393-417`): the index is out of range and the workspace panics, with every draft in it.
   The comment at `model.go:140` speaks of preserving "an omitted field's hidden draft during JSON conversion".

In three the documentation says more than the code does:

5. `OnlyModifiedRefused`. Install writes the files and records their digests afterwards
   (`internal/managed/manager.go:127-148`). After a death in between, `Remove` (`manager.go:180`) and the `Install`
   of another build (`manager.go:109`) refuse the files as modified, though nobody modified them and
   `docs/architecture.md:63-64` asks for `--force` for modified files only. The same build may install again
   (`RedoNotRefused`).
6. `HighestOfChannel`. `Latest` "returns the highest SemVer release in the current binary's channel"
   (`internal/upgrade/check.go:45`), of the one page of at most 100 releases it reads (`check.go:14`).
7. `GoLatestIsNewest`. `go install ...@latest` prefers versions without a prerelease, and `installLatestWithGo`
   compares only what it built (`internal/upgrade/install.go:144-150`): a preview is told that it "is already
   the latest available version" (`install.go:47`) although a newer one of its channel is published, against
   the channels of `docs/distribution.md:62`.

Others were met while modelling; TLC shows each, and the properties excuse or leave out the case by name:

- `connect` supersedes a sign-in without clearing `authenticating` (`internal/tui/tui.go:234-246`), and the
  message of the superseded sign-in is dropped (`internal/tui/update.go:65-67`). If that happens, every
  action is answered "wait for the connection to finish" (`tui.go:483`) although the connection has
  succeeded, until Escape is pressed. `Awaited` says nothing of `authenticating`.
- A refresh that loaded its credentials before a logout stores the renewed ones after it
  (`internal/auth/service.go:374`): the profile has credentials again, of a grant that is revoked. Where
  the server rotates, two refreshes may also store their tokens in the wrong order.
  `StoredUsable` excuses sign-outs that overlap.
- Backups are named by the second (`internal/managed/manager.go:527`): two of one file within a second
  are one, and the first content is lost, against "timestamped backups" (`docs/architecture.md:64`).
- An upgrade that dies between the two renames leaves the executable only under `.rollback`, where nothing
  ever looks (`internal/upgrade/install.go:370-373`); `docs/distribution.md:61` promises to "swap the executable
  with rollback". `ExecutableKept` counts that file as kept, and says so.
- When an action's schema has changed, the arguments already entered are given to the new form
  and the error of doing so is ignored (`internal/tui/update.go:154`): a draft that does not fit after
  escaping is lost, against `docs/tui.md:61-62`. `ConversionKeepsArguments` speaks of those that fit.

## Not modelled

Rendering, key help, flag parsing, output, sanitising, completion, the command surface and the release
tooling keep no state whose order matters. Schema validation is a recursive function over JSON values
whose verdict is all the other parts see. Of the workspace, navigation inside a page, the overlays of help
and schema, the list of profiles and the contents of results are left out; of the form, cursors and the
limits of typing; of the commands, listings and `doctor`'s probes for executables. Keyring, browser,
gateway, release host, clock and file system are external: they appear as the answers the code
has to expect of them.

Every property of the passing runs is proved but for the two about liveness. A continuation would extend the
models first: what is left out is listed above.
