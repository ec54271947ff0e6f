----------------------------- MODULE Workspace ------------------------------
(***************************************************************************)
(* The interactive workspace: internal/tui/update.go (model.Update) and    *)
(* internal/tui/tui.go. One goroutine updates the model, on keys and on    *)
(* messages. Whatever waits (opening a session, signing in, a request, a   *)
(* close) is a command, run on a goroutine of its own; its message comes   *)
(* back at any time and in any order, and may be out of date by then.      *)
(*                                                                         *)
(* A job is a command from its start to the handling of its message. A     *)
(* session is named by the connection attempt that opened it. Rendering,   *)
(* navigation inside a page, the help and schema overlays and the contents *)
(* of forms and results are left out.                                      *)
(***************************************************************************)
EXTENDS Naturals

CONSTANTS
    Profiles,
    Home,         \* the profile the workspace is started with
    NoEntry,      \* no action has been opened
    NoProfile,    \* no profile is to sign in
    MaxConnects   \* bound: connection attempts, sign-ins and cancellations of both

ASSUME ProfilesAssumption == Home \in Profiles /\ NoProfile \notin Profiles
ASSUME EntryAssumption == NoEntry \notin [kind : {"read", "write"}, from : 1..MaxConnects]
ASSUME MaxConnectsAssumption == MaxConnects \in Nat \ {0}

VARIABLES
    profile, session,   \* session 0: none yet
    frozen, catalogue,  \* catalogue: the session whose actions are listed, or 0
    page, overlay, discardTo,
    button,             \* the second of two buttons is selected
    active,             \* the opened action
    draft,              \* its form was edited (form.Dirty or keepDraft)
    result,             \* the session whose result is shown, or 0
    handle,             \* that result has a valid PreviewHandle
    unknown,            \* an outcome is unknown
    connecting, authenticating, authTarget, connectSequence,
    busy, writing,
    jobs,
    registry, registryClosed,  \* sessionRegistry
    quit

showVars == <<active, draft, result, unknown>>
pageVars == <<page, overlay, discardTo>>
sessVars == <<profile, session, frozen, catalogue>>
signVars == <<authenticating, authTarget>>
linkVars == <<connecting, connectSequence>>
regVars  == <<registry, registryClosed>>
vars == <<showVars, pageVars, sessVars, signVars, linkVars, regVars, button, handle,
          busy, writing, jobs, quit>>

Sessions == 1..MaxConnects
Pages    == {"connecting", "auth", "workspace", "form", "review", "result"}
Overlays == {"none", "palette", "profiles", "discard", "quit"}
Entry    == [kind : {"read", "write"}, from : Sessions]
Requests == {"catalogue", "read", "write", "confirm"}

Job == [kind    : Requests \cup {"connect", "login", "close"},
        profile : Profiles,
        session : Sessions,   \* connect and login: their sequence number
        stage   : {"running", "listing", "done", "failed", "auth"},
        latest  : BOOLEAN,    \* a request: requestSequence has not moved since
        voided  : BOOLEAN]    \* a request: its session's previews were invalidated since

TypeOK ==
    /\ profile \in Profiles /\ session \in 0..MaxConnects
    /\ frozen \in BOOLEAN /\ catalogue \in 0..MaxConnects
    /\ page \in Pages /\ overlay \in Overlays
    /\ discardTo \in {"home", "profiles", "palette"}
    /\ button \in BOOLEAN /\ handle \in BOOLEAN /\ unknown \in BOOLEAN
    /\ active \in Entry \cup {NoEntry} /\ draft \in BOOLEAN
    /\ result \in 0..MaxConnects
    /\ connecting \in BOOLEAN /\ authenticating \in BOOLEAN
    /\ authTarget \in Profiles \cup {NoProfile} /\ connectSequence \in 0..MaxConnects
    /\ busy \in BOOLEAN /\ writing \in BOOLEAN
    /\ jobs \subseteq Job
    /\ registry \subseteq Sessions /\ registryClosed \in BOOLEAN /\ quit \in BOOLEAN

-----------------------------------------------------------------------------
(* Parts of the handlers.                                                   *)
NewJob(kind, p, s) ==
    [kind |-> kind, profile |-> p, session |-> s, stage |-> "running",
     latest |-> kind \in Requests, voided |-> FALSE]

\* requestSequence moves: no message under way carries it any more.
Superseded(js) == {[j EXCEPT !.latest = FALSE] : j \in js}

\* The session drops its previews, and will keep none that was asked for before.
Voided(js) == {[j EXCEPT !.voided = @ \/ (j.kind \in Requests /\ j.session = session)] : j \in js}

\* cancelRead leaves a write in flight alone.
AfterCancelRead(js) == IF writing THEN js ELSE Superseded(js)

\* Mutant of CancelRead: the workspace goes on waiting.
StillBusy == UNCHANGED busy

CancelRead == busy' = (writing /\ busy)

\* invalidatePreviews, apart from the jobs.
HidePreview == handle' = FALSE /\ button' = FALSE

Show(p) == page' = p /\ UNCHANGED <<overlay, discardTo>>

\* connect, from a handler that has already made jobs js of the jobs.
Connect(p, js) ==
    /\ connectSequence < MaxConnects
    /\ connectSequence' = connectSequence + 1
    /\ connecting' = TRUE
    /\ jobs' = Voided(AfterCancelRead(js)) \cup {NewJob("connect", p, connectSequence')}
    /\ CancelRead /\ HidePreview

\* request, after invalidatePreviews.
Ask(kind) ==
    /\ jobs' = Superseded(Voided(jobs)) \cup {NewJob(kind, profile, session)}
    /\ busy' = TRUE /\ HidePreview

\* Mutant of MayInvoke: a connection under way is not looked at.
MayInvokeConnecting == session # 0 /\ active # NoEntry /\ ~frozen

MayInvoke == session # 0 /\ active # NoEntry /\ ~connecting /\ ~frozen

\* invoke: the opened action becomes a request.
Invoke ==
    /\ MayInvoke
    /\ Ask(active.kind)
    /\ writing' = (active.kind = "write")
    /\ unknown' = FALSE
    /\ UNCHANGED <<active, draft, result, pageVars, sessVars, signVars, linkVars, regVars, quit>>

\* leaveAction
LeaveAction ==
    /\ jobs' = Voided(AfterCancelRead(jobs))
    /\ CancelRead /\ HidePreview
    /\ active' = NoEntry /\ result' = 0 /\ draft' = FALSE /\ unknown' = FALSE
    /\ page' = "workspace"

\* unavailable
Available == ~frozen /\ ~connecting /\ ~authenticating /\ session # 0

HasDraft == page \in {"form", "review"} /\ active # NoEntry /\ draft

\* authError, on the message of job j.
AuthError(p, j) ==
    /\ jobs' = Voided(jobs \ {j})
    /\ authTarget' = p
    /\ page' = "auth" /\ overlay' = "none" /\ UNCHANGED discardTo
    /\ HidePreview
    /\ frozen' = (frozen \/ p = profile)
    /\ UNCHANGED <<profile, session, catalogue, authenticating>>

\* freezeChangedSession
Freeze(j) ==
    /\ jobs' = Voided(jobs \ {j})
    /\ frozen' = TRUE
    /\ page' = "connecting" /\ overlay' = "none" /\ UNCHANGED discardTo
    /\ HidePreview
    /\ UNCHANGED <<profile, session, catalogue, signVars>>

-----------------------------------------------------------------------------
(* Keys.                                                                    *)

\* No overlay is open, and the key is not turned away by a write in flight.
Free == ~quit /\ overlay = "none" /\ ~writing

\* openEntry, from the workspace or the palette.
OpenEntry ==
    /\ ~quit
    /\ \/ overlay = "none" /\ page = "workspace" /\ ~writing
       \/ overlay = "palette"
    /\ Available /\ catalogue # 0
    /\ jobs' = Voided(AfterCancelRead(jobs))
    /\ CancelRead /\ HidePreview
    /\ active' \in [kind : {"read", "write"}, from : {catalogue}]
    /\ result' = 0 /\ draft' = FALSE /\ unknown' = FALSE
    /\ page' = "form" /\ overlay' = "none" /\ UNCHANGED discardTo
    /\ UNCHANGED <<sessVars, signVars, linkVars, regVars, writing, quit>>

\* openEntry while the session is not available closes the palette, no more.
NothingOpens ==
    /\ ~quit /\ overlay = "palette" /\ (~Available \/ catalogue = 0)
    /\ overlay' = "none"
    /\ UNCHANGED <<page, discardTo, showVars, sessVars, signVars, linkVars, regVars,
                   button, handle, busy, writing, jobs, quit>>

Edit ==
    /\ Free /\ page = "form" /\ ~busy
    /\ jobs' = Voided(jobs)
    /\ HidePreview
    /\ draft' \in {draft, TRUE}
    /\ UNCHANGED <<active, result, unknown, pageVars, sessVars, signVars, linkVars,
                   regVars, busy, writing, quit>>

\* submitForm: a read goes out, a write goes to its review.
Submit ==
    /\ Free /\ page = "form" /\ ~busy /\ active # NoEntry /\ Available
    /\ \/ active.kind = "read" /\ Invoke
       \/ /\ active.kind = "write"
          /\ Show("review") /\ button' = FALSE
          /\ UNCHANGED <<showVars, sessVars, signVars, linkVars, regVars, handle, busy,
                         writing, jobs, quit>>

\* Tab moves to the other button, where there is one.
Tab ==
    /\ ~quit
    /\ \/ overlay \in {"discard", "quit"}
       \/ overlay = "none" /\ ~writing /\ page = "review"
       \/ overlay = "none" /\ ~writing /\ page = "result" /\ handle /\ ~unknown
    /\ button' = ~button
    /\ UNCHANGED <<showVars, pageVars, sessVars, signVars, linkVars, regVars, handle,
                   busy, writing, jobs, quit>>

\* Enter on the review: edit again, or submit.
Review ==
    /\ Free /\ page = "review"
    /\ \/ button /\ ~busy /\ Invoke
       \/ /\ ~button
          /\ Show("form") /\ HidePreview /\ jobs' = Voided(jobs)
          /\ UNCHANGED <<showVars, sessVars, signVars, linkVars, regVars, busy, writing, quit>>

\* Enter on a preview: confirm. The handle is gone before the command starts.
Confirm ==
    /\ Free /\ page = "result" /\ button
    /\ session # 0 /\ handle /\ ~busy /\ ~frozen /\ ~connecting
    /\ jobs' = Superseded(jobs) \cup {NewJob("confirm", profile, session)}
    /\ busy' = TRUE /\ writing' = TRUE
    /\ HidePreview
    /\ UNCHANGED <<showVars, pageVars, sessVars, signVars, linkVars, regVars, quit>>

\* Ctrl+R on the result of a read asks again; elsewhere it refreshes the actions.
RefreshResult ==
    /\ Free /\ page = "result" /\ active # NoEntry
    /\ ~unknown /\ active.kind = "read"
    /\ Invoke

RefreshCatalogue ==
    /\ Free /\ page # "form" /\ ~(page = "result" /\ active # NoEntry)
    /\ session # 0 /\ ~frozen /\ ~connecting
    /\ Ask("catalogue")
    /\ UNCHANGED <<showVars, pageVars, sessVars, signVars, linkVars, regVars, writing, quit>>

\* "/" opens the palette over a page without a draft.
OpenPalette ==
    /\ Free /\ page # "form" /\ session # 0 /\ ~connecting /\ ~frozen
    /\ IF HasDraft
       THEN /\ jobs' = AfterCancelRead(jobs)
            /\ overlay' = "discard" /\ discardTo' = "palette"
            /\ button' = FALSE /\ UNCHANGED handle
       ELSE /\ jobs' = Voided(AfterCancelRead(jobs))
            /\ overlay' = "palette" /\ UNCHANGED discardTo
            /\ HidePreview
    /\ CancelRead
    /\ UNCHANGED <<page, showVars, sessVars, signVars, linkVars, regVars, writing, quit>>

\* openProfiles
MaySwitch == ~writing /\ ~connecting /\ ~authenticating

\* Ctrl+P
OpenProfiles ==
    /\ Free
    /\ \/ /\ HasDraft
          /\ overlay' = "discard" /\ discardTo' = "profiles" /\ button' = FALSE
       \/ /\ ~HasDraft /\ MaySwitch
          /\ overlay' = "profiles" /\ UNCHANGED <<discardTo, button>>
    /\ jobs' = AfterCancelRead(jobs) /\ CancelRead
    /\ UNCHANGED <<page, showVars, sessVars, signVars, linkVars, regVars, handle, writing, quit>>

SwitchProfile ==
    /\ ~quit /\ overlay = "profiles"
    /\ overlay' = "none" /\ UNCHANGED <<page, discardTo>>
    /\ \E p \in Profiles : Connect(p, jobs)
    /\ UNCHANGED <<showVars, sessVars, signVars, regVars, writing, quit>>

Reconnect ==
    /\ Free /\ page = "connecting" /\ ~connecting
    /\ Connect(profile, jobs)
    /\ UNCHANGED <<showVars, pageVars, sessVars, signVars, regVars, writing, quit>>

\* login: Enter on the sign-in page.
SignIn ==
    /\ Free /\ page = "auth" /\ ~connecting /\ ~authenticating
    /\ connectSequence < MaxConnects
    /\ connectSequence' = connectSequence + 1
    /\ authenticating' = TRUE
    /\ frozen' = (frozen \/ authTarget = profile)
    /\ jobs' = Voided(AfterCancelRead(jobs))
               \cup {NewJob("login", authTarget, connectSequence')}
    /\ CancelRead /\ HidePreview
    /\ UNCHANGED <<showVars, pageVars, profile, session, catalogue, authTarget,
                   connecting, regVars, writing, quit>>

\* Mutant of BackPage: an unknown outcome leads back to the form that caused it.
BackPageToForm == "form"

\* Where Escape leads from a result: after an unknown outcome not to the form.
BackPage == IF unknown THEN "workspace" ELSE "form"

\* back: Escape without an overlay, one step at a time.
BackFromRequest ==
    /\ Free /\ busy
    /\ jobs' = AfterCancelRead(jobs) /\ CancelRead
    /\ UNCHANGED <<showVars, pageVars, sessVars, signVars, linkVars, regVars, button,
                   handle, writing, quit>>

BackFromConnecting ==
    /\ Free /\ ~busy /\ (connecting \/ authenticating)
    /\ connectSequence < MaxConnects
    /\ connectSequence' = connectSequence + 1
    /\ connecting' = FALSE /\ authenticating' = FALSE
    /\ page' = IF session # 0 /\ ~frozen THEN "workspace" ELSE page
    /\ UNCHANGED <<overlay, discardTo, showVars, sessVars, authTarget, regVars, button,
                   handle, busy, writing, jobs, quit>>

BackFromPage ==
    /\ Free /\ ~busy /\ ~connecting /\ ~authenticating
    /\ \/ /\ page = "form" /\ HasDraft
          /\ overlay' = "discard" /\ discardTo' = "home" /\ button' = FALSE
          /\ jobs' = AfterCancelRead(jobs) /\ CancelRead
          /\ UNCHANGED <<page, showVars, handle>>
       \/ /\ page = "form" /\ ~HasDraft
          /\ LeaveAction /\ UNCHANGED <<overlay, discardTo>>
       \/ /\ page = "review" \/ (page = "result" /\ BackPage = "form")
          /\ Show("form") /\ HidePreview /\ jobs' = Voided(jobs)
          /\ UNCHANGED <<showVars, busy>>
       \/ /\ page = "result" /\ BackPage = "workspace"
          /\ LeaveAction /\ UNCHANGED <<overlay, discardTo>>
       \/ /\ page = "auth" /\ session # 0 /\ ~frozen
          /\ Show("workspace")
          /\ UNCHANGED <<showVars, handle, button, busy, jobs>>
    /\ UNCHANGED <<sessVars, signVars, linkVars, regVars, writing, quit>>

CloseOverlay ==
    /\ ~quit /\ overlay # "none"
    /\ overlay' = "none" /\ button' = FALSE
    /\ UNCHANGED <<page, discardTo, showVars, sessVars, signVars, linkVars, regVars,
                   handle, busy, writing, jobs, quit>>

\* Enter on the second button of the discard dialogue.
Discard ==
    /\ ~quit /\ overlay = "discard" /\ button
    /\ LeaveAction /\ UNCHANGED discardTo
    /\ overlay' = IF discardTo = "palette" \/ (discardTo = "profiles" /\ MaySwitch)
                  THEN discardTo ELSE "none"
    /\ UNCHANGED <<sessVars, signVars, linkVars, regVars, writing, quit>>

\* Ctrl+C, whatever is open: it leaves, or asks first.
Leave ==
    /\ ~quit /\ overlay # "quit"
    /\ IF writing \/ HasDraft \/ authenticating
       THEN overlay' = "quit" /\ button' = FALSE /\ UNCHANGED quit
       ELSE quit' = TRUE /\ UNCHANGED <<overlay, button>>
    /\ jobs' = AfterCancelRead(jobs) /\ CancelRead
    /\ UNCHANGED <<page, discardTo, showVars, sessVars, signVars, linkVars, regVars,
                   handle, writing>>

LeaveAnyway ==
    /\ ~quit /\ overlay = "quit" /\ button
    /\ quit' = TRUE
    /\ UNCHANGED <<pageVars, showVars, sessVars, signVars, linkVars, regVars, button,
                   handle, busy, writing, jobs>>

-----------------------------------------------------------------------------
(* Commands, on their own goroutines; they go on after the workspace is left. *)
Becomes(j, stage) == jobs' = (jobs \ {j}) \cup {[j EXCEPT !.stage = stage]}

uiVars == <<showVars, pageVars, sessVars, signVars, linkVars, button, handle, busy,
            writing, quit>>

\* The attempt is still wanted: its context is not cancelled.
Wanted(j) == j.session = connectSequence /\ ~registryClosed

\* Mutant of Registered: a candidate that comes late is kept.
RegisteredLate(s) == registry' = registry \cup {s}

\* sessionRegistry.add
Registered(s) == ~registryClosed /\ registry' = registry \cup {s}

\* connect: the session is opened and entered in the registry, which closes it at
\* once if the workspace has been left.
OpenSession(j) ==
    /\ j.kind = "connect" /\ j.stage = "running"
    /\ \/ Registered(j.session) /\ Becomes(j, "listing")
       \/ registryClosed /\ UNCHANGED registry /\ Becomes(j, "failed")
       \/ UNCHANGED registry /\ \E stage \in {"failed", "auth"} : Becomes(j, stage)
    /\ UNCHANGED <<uiVars, registryClosed>>

\* Its catalogue is loaded; a session without one, or not wanted any more, is closed.
LoadCatalogue(j) ==
    /\ j.kind = "connect" /\ j.stage = "listing"
    /\ \/ Wanted(j) /\ Becomes(j, "done") /\ UNCHANGED registry
       \/ /\ registry' = registry \ {j.session}
          /\ \E stage \in {"failed", "auth"} : Becomes(j, stage)
    /\ UNCHANGED <<uiVars, registryClosed>>

\* closeSession's command.
CloseSession(j) ==
    /\ j.kind = "close"
    /\ registry' = registry \ {j.session} /\ jobs' = jobs \ {j}
    /\ UNCHANGED <<uiVars, registryClosed>>

\* Run returns: closeAll.
CloseAll ==
    /\ quit /\ ~registryClosed
    /\ registryClosed' = TRUE /\ registry' = {}
    /\ UNCHANGED <<uiVars, jobs>>

-----------------------------------------------------------------------------
(* Messages.                                                                *)
Arrives(j) == ~quit /\ j.kind = "connect" /\ j.stage \in {"done", "failed", "auth"}

\* Mutant of Closing: the number of no session is closed, too.
ClosingAny(p, s) == {NewJob("close", p, s)}

\* What closeSession(id) leaves to do, if there is a session of that number.
Closing(p, s) == IF s = 0 THEN {} ELSE {NewJob("close", p, s)}

Unwanted(j) == j.session # connectSequence

\* connectionMsg of an attempt that was superseded or cancelled.
ConnectionUnwanted(j) ==
    /\ Arrives(j) /\ Unwanted(j)
    /\ jobs' = (jobs \ {j})
               \cup (IF j.stage = "done" THEN Closing(j.profile, j.session) ELSE {})
    /\ UNCHANGED <<uiVars, regVars>>

ConnectionFailed(j) ==
    /\ Arrives(j) /\ ~Unwanted(j) /\ j.stage # "done"
    /\ connecting' = FALSE
    /\ IF j.stage = "auth"
       THEN AuthError(j.profile, j)
       ELSE /\ jobs' = jobs \ {j}
            /\ page' = IF session = 0 THEN "connecting" ELSE page
            /\ UNCHANGED <<overlay, discardTo, sessVars, signVars, handle, button>>
    /\ UNCHANGED <<showVars, connectSequence, busy, writing, regVars, quit>>

\* Mutant of CompanyForgotten: the last result survives the switch.
ResultKept == active' = NoEntry /\ draft' = FALSE /\ unknown' = FALSE /\ UNCHANGED result

\* Nothing containing another company's data survives a successful swap.
CompanyForgotten ==
    active' = NoEntry /\ draft' = FALSE /\ unknown' = FALSE /\ result' = 0

\* The candidate takes the place of the session, which is closed.
Connected(j) ==
    /\ Arrives(j) /\ ~Unwanted(j) /\ j.stage = "done"
    /\ connecting' = FALSE
    /\ jobs' = Voided(AfterCancelRead(jobs \ {j})) \cup Closing(profile, session)
    /\ CancelRead /\ HidePreview
    /\ session' = j.session /\ profile' = j.profile /\ frozen' = FALSE
    /\ catalogue' = j.session
    /\ CompanyForgotten
    /\ authTarget' = NoProfile
    /\ page' = "workspace" /\ overlay' = "none" /\ UNCHANGED discardTo
    /\ UNCHANGED <<authenticating, connectSequence, writing, regVars, quit>>

\* loginMsg: a sign-in that succeeded is followed by a connection.
SignedIn(j) ==
    /\ ~quit /\ j.kind = "login"
    /\ \/ /\ j.session # connectSequence
          /\ jobs' = jobs \ {j}
          /\ UNCHANGED <<authenticating, linkVars, busy, handle, button>>
       \/ /\ j.session = connectSequence
          /\ authenticating' = FALSE
          /\ \/ jobs' = jobs \ {j} /\ UNCHANGED <<linkVars, busy, handle, button>>
             \/ Connect(j.profile, jobs \ {j})
    /\ UNCHANGED <<showVars, pageVars, sessVars, authTarget, writing, regVars, quit>>

\* Mutant of Expected: a message is judged by its session alone.
ExpectedOfSession(j) == j.session = session

\* The message carries the current generation and request number.
Expected(j) == j.session = session /\ j.latest

Ignored(j) ==
    /\ ~quit /\ j.kind \in Requests /\ ~Expected(j)
    /\ jobs' = jobs \ {j}
    /\ UNCHANGED <<uiVars, regVars>>

Answered(j) == ~quit /\ Expected(j) /\ busy' = FALSE

\* catalogueMsg
CatalogueRefreshed(j) ==
    /\ j.kind = "catalogue" /\ Answered(j)
    /\ \/ /\ catalogue' \in {catalogue, j.session} /\ jobs' = jobs \ {j}
          /\ UNCHANGED <<profile, session, frozen, pageVars, signVars, handle, button>>
       \/ Freeze(j)
       \/ AuthError(profile, j)
    /\ UNCHANGED <<showVars, linkVars, writing, regVars, quit>>

Executes(j) == j.kind \in {"read", "write", "confirm"} /\ Answered(j) /\ writing' = FALSE

\* executionMsg with a result; only Invoke hands out a preview.
Executed(j) ==
    /\ Executes(j) /\ jobs' = jobs \ {j}
    /\ \/ /\ result' = j.session /\ unknown' = FALSE
          /\ handle' \in BOOLEAN /\ (handle' => j.kind # "confirm")
          /\ button' = FALSE
          /\ page' = "result" /\ overlay' = "none" /\ UNCHANGED discardTo
          /\ UNCHANGED <<active, draft>>
       \/ UNCHANGED <<showVars, pageVars, handle, button>>
    /\ UNCHANGED <<sessVars, signVars, linkVars, regVars, quit>>

\* executionError: the schema has changed, and what was read-only may not be so now.
SchemaChanged(j) ==
    /\ Executes(j) /\ active # NoEntry
    /\ jobs' = Voided(jobs \ {j})
    /\ active' \in [kind : {"read", "write"}, from : {j.session}]
    /\ draft' = TRUE
    /\ Show("form") /\ HidePreview
    /\ UNCHANGED <<result, unknown, sessVars, signVars, linkVars, regVars, quit>>

SessionChanged(j) ==
    /\ Executes(j) /\ Freeze(j)
    /\ UNCHANGED <<showVars, linkVars, regVars, quit>>

\* Only a write can be lost.
OutcomeUnknown(j) ==
    /\ j.kind \in {"write", "confirm"} /\ Executes(j)
    /\ jobs' = Voided(jobs \ {j})
    /\ unknown' = TRUE
    /\ Show("result") /\ HidePreview
    /\ UNCHANGED <<active, draft, result, sessVars, signVars, linkVars, regVars, quit>>

Unauthorized(j) ==
    /\ Executes(j) /\ AuthError(profile, j)
    /\ UNCHANGED <<showVars, linkVars, regVars, quit>>

\* Any other error, with or without a response; a read that worked before stays.
RequestFailed(j) ==
    /\ Executes(j) /\ jobs' = jobs \ {j}
    /\ \/ /\ ~(page = "result" /\ active # NoEntry /\ active.kind = "read" /\ result # 0)
          /\ result' = j.session /\ handle' = FALSE /\ Show("result")
          /\ UNCHANGED <<active, draft, unknown>>
       \/ UNCHANGED <<showVars, pageVars, handle>>
    /\ UNCHANGED <<button, sessVars, signVars, linkVars, regVars, quit>>

-----------------------------------------------------------------------------
Init ==
    /\ profile = Home /\ session = 0 /\ frozen = FALSE /\ catalogue = 0
    /\ page = "connecting" /\ overlay = "none" /\ discardTo = "home"
    /\ button = FALSE /\ active = NoEntry /\ draft = FALSE
    /\ result = 0 /\ handle = FALSE /\ unknown = FALSE
    /\ connecting = TRUE /\ connectSequence = 1
    /\ authenticating = FALSE /\ authTarget = NoProfile
    /\ busy = FALSE /\ writing = FALSE
    /\ jobs = {NewJob("connect", Home, 1)}
    /\ registry = {} /\ registryClosed = FALSE /\ quit = FALSE

Key == \/ OpenEntry \/ NothingOpens \/ Edit \/ Submit \/ Tab \/ Review \/ Confirm
       \/ RefreshResult \/ RefreshCatalogue \/ OpenPalette \/ OpenProfiles
       \/ SwitchProfile \/ Reconnect \/ SignIn \/ BackFromRequest
       \/ BackFromConnecting \/ BackFromPage \/ CloseOverlay \/ Discard
       \/ Leave \/ LeaveAnyway

Command(j) == OpenSession(j) \/ LoadCatalogue(j) \/ CloseSession(j)

Message(j) ==
    \/ ConnectionUnwanted(j) \/ ConnectionFailed(j) \/ Connected(j) \/ SignedIn(j)
    \/ Ignored(j) \/ CatalogueRefreshed(j) \/ Executed(j) \/ SchemaChanged(j)
    \/ SessionChanged(j) \/ OutcomeUnknown(j) \/ Unauthorized(j) \/ RequestFailed(j)

Next == Key \/ CloseAll \/ (\E j \in jobs : Command(j) \/ Message(j))

Spec == Init /\ [][Next]_vars
-----------------------------------------------------------------------------
(* Properties.                                                              *)

\* Everything shown or waiting to be submitted came from the session in use: no
\* answer, however late, brings another company's data back after a switch
\* (docs/tui.md:24-25).
OneCompany ==
    /\ catalogue = session
    /\ result # 0 => result = session
    /\ active # NoEntry => active.from = session

\* The outcome of a write is never thrown away: as long as a write or a
\* confirmation is in flight, its session and its request are the current ones, so
\* that neither a switch, a sign-in nor a cancelled read can make its message a
\* late one.
WriteAwaited ==
    \A j \in jobs : j.kind \in {"write", "confirm"} =>
        j.latest /\ j.session = session /\ busy /\ writing

\* What the status line waits for is under way: a request for busy, a current
\* connection attempt for connecting.
Awaited ==
    /\ busy => \E j \in jobs : j.kind \in Requests /\ j.latest /\ j.session = session
    /\ connecting => \E j \in jobs : j.kind = "connect" /\ j.session = connectSequence

\* The registry holds the session in use, candidates, and sessions whose close is
\* under way; once the workspace is left it is empty for good.
SessionsOwned ==
    /\ registryClosed => registry = {}
    /\ session # 0 /\ ~quit => session \in registry
    /\ \A s \in registry : s = session \/ \E j \in jobs : j.kind # "login" /\ j.session = s

\* A write whose outcome is unknown is not sent again: between it and the next write
\* the opened action is left (docs/tui.md:88-90).
NoReplay ==
    [][\A j \in jobs' \ jobs : j.kind \in {"write", "confirm"} => ~unknown]_vars

\* A confirm button appears only on the result page, for a preview that nothing the
\* workspace did since it was asked for has invalidated.
ConfirmableCurrent ==
    [][/\ handle' => page' = "result"
       /\ handle' /\ ~handle => \E j \in jobs \ jobs' : j.latest /\ ~j.voided]_vars
=============================================================================
