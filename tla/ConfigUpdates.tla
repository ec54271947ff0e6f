--------------------------- MODULE ConfigUpdates ----------------------------
(***************************************************************************)
(* What the configuration file holds and what each update does to it:      *)
(* the callbacks that internal/config/store.go hands to Store.Update.      *)
(* Timestamps, endpoints and managed-file records are left out: no update  *)
(* here looks at them. A profile is told apart by its OAuth client.        *)
(***************************************************************************)
CONSTANTS
    Profiles,   \* profile names
    NoProfile,  \* "": no default profile, no trust record
    Clients,    \* OAuth client IDs a login may register
    NoClient,   \* a profile no one has logged in to
    Absent,     \* a profile that is not configured
    Projects    \* canonical paths of project configurations

ASSUME ProfilesAssumption ==
    /\ Profiles # {} /\ NoProfile \notin Profiles /\ Projects # {}
    /\ Absent \notin Clients \cup {NoClient}

Entries == Clients \cup {NoClient, Absent}

File == [clients : [Profiles -> Entries],
         default : Profiles \cup {NoProfile},
         trust   : [Projects -> Profiles \cup {NoProfile}]]

\* Mutant of EmptyFile: one of the maps is not made.
EmptyFileWithoutTrust == [clients |-> [p \in Profiles |-> Absent],
                          default |-> NoProfile]

\* emptyFile
EmptyFile == [clients |-> [p \in Profiles |-> Absent],
              default |-> NoProfile,
              trust   |-> [d \in Projects |-> NoProfile]]

Configured(f) == {p \in Profiles : f.clients[p] # Absent}

\* validateFile, of which only the default profile can go wrong.
Valid(f) == f.default # NoProfile => f.default \in Configured(f)

UpdateKinds == {"create", "upsert", "delete", "default", "restore", "trust", "untrust"}

\* The arguments of an update; what a kind does not take is ignored.
Update == [kind    : UpdateKinds,
           name    : Profiles,
           client  : Entries,                  \* upsert; restore: the snapshot's profile
           default : Profiles \cup {NoProfile}, \* restore: the snapshot's default
           project : Projects]                 \* trust, untrust

\* What a process that is not updating has asked for.
NoUpdate == [kind |-> "untrust", name |-> CHOOSE q \in Profiles : TRUE,
             client |-> NoClient, default |-> NoProfile,
             project |-> CHOOSE d \in Projects : TRUE]

\* What a process that has taken no snapshot has kept.
NoSnapshot == [name |-> CHOOSE q \in Profiles : TRUE,
               client |-> NoClient, default |-> NoProfile]

\* The callback does not return an error of its own.
Applicable(u, f) ==
    /\ u.kind = "create" => u.name \notin Configured(f)
    /\ u.kind \in {"delete", "default", "trust"} => u.name \in Configured(f)

\* SnapshotProfile of f, as RestoreProfile takes it.
SnapshotOf(f, name) == [name |-> name, client |-> f.clients[name], default |-> f.default]

SetEntry(f, name, entry) == [f EXCEPT !.clients[name] = entry]

SetDefault(f, name) == [f EXCEPT !.default = name]

SetTrust(f, project, name) == [f EXCEPT !.trust[project] = name]

\* The first profile becomes the default.
CreateProfile(u, f) ==
    IF Configured(f) = {}
    THEN SetDefault(SetEntry(f, u.name, NoClient), u.name)
    ELSE SetEntry(f, u.name, NoClient)

\* An upsert becomes the default if there is none.
UpsertProfile(u, f) ==
    IF f.default = NoProfile
    THEN SetDefault(SetEntry(f, u.name, u.client), u.name)
    ELSE SetEntry(f, u.name, u.client)

DeleteProfile(u, f) ==
    IF f.default = u.name
    THEN SetDefault(SetEntry(f, u.name, Absent), NoProfile)
    ELSE SetEntry(f, u.name, Absent)

\* The profile as it was; the default only if there was none and it is this one.
RestoreProfile(u, f) ==
    IF u.default = NoProfile /\ f.default = u.name
    THEN SetDefault(SetEntry(f, u.name, u.client), NoProfile)
    ELSE SetEntry(f, u.name, u.client)

Effect(u, f) ==
    CASE u.kind = "create"  -> CreateProfile(u, f)
      [] u.kind = "upsert"  -> UpsertProfile(u, f)
      [] u.kind = "delete"  -> DeleteProfile(u, f)
      [] u.kind = "default" -> SetDefault(f, u.name)
      [] u.kind = "restore" -> RestoreProfile(u, f)
      [] u.kind = "trust"   -> SetTrust(f, u.project, u.name)
      [] u.kind = "untrust" -> SetTrust(f, u.project, NoProfile)
=============================================================================
