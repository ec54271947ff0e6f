------------------------------ MODULE Session -------------------------------
(***************************************************************************)
(* The persistent connection behind the interactive workspace:             *)
(* internal/app/session.go (liveSession) over internal/mcpclient/client.go *)
(* (bearerTransport, serializedTokenSource).                               *)
(*                                                                         *)
(* Callers are goroutines that run session operations. An operation other  *)
(* than Close holds opMu from its first check to its return and makes two  *)
(* HTTP requests, a listing and the request proper; each request reads a   *)
(* token, is checked by the dispatch guard, goes on the wire and is        *)
(* answered. Every one of those is a step of its own, because mu, opMu and *)
(* the token mutex protect different parts of the way: Close and           *)
(* InvalidatePreviews take only mu and may fall between any two of them.   *)
(*                                                                         *)
(* The gateway keeps no state here: each listing advertises what it likes  *)
(* and each call answers as it likes. The credential store is shared with  *)
(* other processes, which log in, fail a login, save what they refreshed   *)
(* and log out at any time.                                                *)
(***************************************************************************)
EXTENDS Naturals

CONSTANTS
    Callers,          \* goroutines using the session
    Nobody,           \* the holder of a free mutex
    Tools,            \* tools the gateway may advertise, without confirm_action
    ReadOnlyTools,    \* tools whose reviewed snapshot entry has readOnlyHint
    Revisions,        \* schema revisions a listing may show
    ReviewedRevision, \* the revision equal to the embedded snapshot
    NoRevision,       \* a tool that is not advertised
    MaxPreviews,      \* bound: previews the gateway issues
    MaxVersion,       \* bound: at this generation only Close may start
    MaxGrants         \* bound: logins by other processes

ASSUME CallersAssumption == Nobody \notin Callers
ASSUME ToolsAssumption ==
    /\ Tools # {} /\ ReadOnlyTools \subseteq Tools
    /\ ReviewedRevision \in Revisions
    /\ NoRevision \notin Revisions
ASSUME BoundsAssumption ==
    MaxPreviews \in Nat /\ MaxVersion \in Nat /\ MaxGrants \in Nat

VARIABLES
    \* liveSession, guarded by mu (every action that touches them is one
    \* critical section of mu)
    closed, authChanged, version, nextID,
    previews,      \* the pendingPreview entries of the map
    nilPreviews,   \* the map itself is nil
    \* mutexes and the token provider's closure
    opMu, tokenMu, previousGrant,
    \* the callers
    pc, op,
    \* credential store of the profile: 0 is "no credentials", n the n-th grant
    stored,
    login,         \* another process's login: "none", "started", "saved"
    prior,         \* the credentials it found when it started, and would restore
    grants,        \* grants issued so far
    \* history
    putBack,       \* another process stored an earlier grant again after a later one
    confirms       \* confirms[h]: confirmations of handle h put on the wire

sessionVars == <<closed, authChanged, version, nextID, previews, nilPreviews>>
storeVars   == <<stored, login, prior, grants, putBack>>
vars == <<sessionVars, opMu, tokenMu, previousGrant, pc, op, storeVars, confirms>>

Handles  == 1..MaxPreviews
Kinds    == {"catalogue", "read", "invoke", "confirm", "close"}
Outcomes == {"none", "returned", "rejected", "unauthorized", "unknown", "failed"}
Places   == {"idle", "lock", "token", "access", "refresh", "verify", "guard",
             "send", "wait"}

\* pendingPreview, with the revision its origin was described at
PendingPreview == [id : Handles, tool : Tools, rev : Revisions, generation : Nat]

Operation == [kind       : Kinds,
              tool       : Tools,
              rev        : Revisions, \* Invocation.SchemaRevision or pending.origin
              handle     : Nat,       \* 0: the zero handle, or another session's
              gen        : Nat,       \* the generation captured at the start
              phase      : {1, 2},    \* which of the two requests
              before     : Nat,       \* tokenProvider's "before"
              token      : Nat,       \* the grant the bearer token belongs to
              dispatched : BOOLEAN,   \* the second request was put on the wire
              outcome    : Outcomes]  \* what the caller was told

TypeOK ==
    /\ closed \in BOOLEAN /\ authChanged \in BOOLEAN /\ nilPreviews \in BOOLEAN
    /\ version \in Nat /\ nextID \in 0..MaxPreviews
    /\ previews \subseteq PendingPreview
    /\ opMu \in Callers \cup {Nobody} /\ tokenMu \in Callers \cup {Nobody}
    /\ previousGrant \in Nat
    /\ pc \in [Callers -> Places]
    /\ op \in [Callers -> Operation]
    /\ stored \in Nat /\ login \in {"none", "started", "saved"} /\ prior \in Nat
    /\ grants \in Nat /\ putBack \in BOOLEAN
    /\ confirms \in [Handles -> Nat]

-----------------------------------------------------------------------------
(* describeTool: only a tool whose live schema is the reviewed one can be   *)
(* read-only; anything new or drifted is treated as a write.                *)
ReadOnly(tool, rev) == tool \in ReadOnlyTools /\ rev = ReviewedRevision

MayWrite(o) == \/ o.kind = "confirm"
               \/ o.kind = "invoke" /\ ~ReadOnly(o.tool, o.rev)

\* Mutant of LossOutcome: forgets that a confirmation writes.
LossOutcomeOfInvoke(o) ==
    IF o.phase = 2 /\ o.kind = "invoke" /\ ~ReadOnly(o.tool, o.rev)
    THEN "unknown" ELSE "failed"

\* What a caller is told when no usable answer came back: only a second request
\* that may write leaves an unknown outcome, the rest are plain errors.
LossOutcome(o) == IF o.phase = 2 /\ MayWrite(o) THEN "unknown" ELSE "failed"

\* checkGeneration
Current(gen) == ~closed /\ ~authChanged /\ version = gen

InvalidatePreviews ==
    /\ version' = version + 1
    /\ previews' = {}
    /\ nilPreviews' = FALSE
    /\ UNCHANGED <<closed, authChanged, nextID>>

InvalidateAuthentication ==
    /\ authChanged' = TRUE
    /\ version' = version + 1
    /\ previews' = {}
    /\ nilPreviews' = TRUE
    /\ UNCHANGED <<closed, nextID>>

Goto(c, place) == pc' = [pc EXCEPT ![c] = place]

\* Mutant of Consume: leaves the entry until the answer is in.
ConsumeLater(p) == UNCHANGED sessionVars

\* Confirm deletes the entry it is about to send.
Consume(p) ==
    /\ previews' = previews \ {p}
    /\ UNCHANGED <<closed, authChanged, version, nextID, nilPreviews>>

\* Mutants of Keep: an answer of an older generation is kept; the handle is taken
\* from the counter before it moves.
KeepStale(o) ==
    /\ nextID' = nextID + 1
    /\ previews' = previews \cup {[id |-> nextID + 1, tool |-> o.tool,
                                  rev |-> o.rev, generation |-> o.gen]}
    /\ UNCHANGED <<closed, authChanged, version, nilPreviews>>

KeepBeforeCounting(o) ==
    IF ~closed /\ version = o.gen
    THEN /\ nextID' = nextID + 1
         /\ previews' = previews \cup {[id |-> nextID, tool |-> o.tool,
                                       rev |-> o.rev, generation |-> o.gen]}
         /\ UNCHANGED <<closed, authChanged, version, nilPreviews>>
    ELSE UNCHANGED sessionVars

\* Invoke keeps a preview, and issues its handle, only if the session is still the
\* one that was asked.
Keep(o) ==
    IF ~closed /\ version = o.gen
    THEN /\ nextID' = nextID + 1
         /\ previews' = previews \cup {[id |-> nextID + 1, tool |-> o.tool,
                                       rev |-> o.rev, generation |-> o.gen]}
         /\ UNCHANGED <<closed, authChanged, version, nilPreviews>>
    ELSE UNCHANGED sessionVars

NoOperation == [kind |-> "close", tool |-> CHOOSE t \in Tools : TRUE,
                rev |-> ReviewedRevision, handle |-> 0, gen |-> 0, phase |-> 1,
                before |-> 0, token |-> 0, dispatched |-> FALSE, outcome |-> "none"]

\* The operation is over; of its locals only those that a failed write is judged
\* by are kept.
Ended(o, outcome) ==
    IF outcome = "failed" /\ MayWrite(o)
    THEN [o EXCEPT !.outcome = outcome, !.handle = 0, !.gen = 0, !.phase = 1,
                   !.before = 0, !.token = 0]
    ELSE [NoOperation EXCEPT !.outcome = outcome]

\* Mutant of Return: an early return that forgets opMu.
ReturnLocked(c, outcome) ==
    /\ Goto(c, "idle")
    /\ op' = [op EXCEPT ![c] = Ended(@, outcome)]
    /\ opMu' = IF opMu = c /\ outcome # "failed" THEN Nobody ELSE opMu
    /\ tokenMu' = IF tokenMu = c THEN Nobody ELSE tokenMu

\* An operation returns: its deferred unlocks run, its caller is told the outcome.
Return(c, outcome) ==
    /\ Goto(c, "idle")
    /\ op' = [op EXCEPT ![c] = Ended(@, outcome)]
    /\ opMu' = IF opMu = c THEN Nobody ELSE opMu
    /\ tokenMu' = IF tokenMu = c THEN Nobody ELSE tokenMu

-----------------------------------------------------------------------------
(* A caller asks for an operation; it may wait for opMu.                    *)
Request(c) ==
    /\ pc[c] = "idle"
    /\ \E kind \in Kinds, tool \in Tools, rev \in Revisions, handle \in 0..nextID :
          /\ version < MaxVersion \/ kind = "close"
          /\ kind # "confirm" => handle = 0
          /\ kind # "invoke" => tool = CHOOSE t \in Tools : TRUE
          /\ kind # "invoke" => rev = ReviewedRevision
          /\ op' = [op EXCEPT ![c] =
                      [kind |-> kind, tool |-> tool, rev |-> rev, handle |-> handle,
                       gen |-> 0, phase |-> 1, before |-> 0, token |-> 0,
                       dispatched |-> FALSE, outcome |-> "none"]]
    /\ Goto(c, "lock")
    /\ UNCHANGED <<sessionVars, opMu, tokenMu, previousGrant, storeVars, confirms>>

\* Catalogue, ReadResource and Invoke up to their first request: generation()
\* refuses a closed or poisoned session.
Begin(c) ==
    /\ pc[c] = "lock" /\ op[c].kind \in {"catalogue", "read", "invoke"}
    /\ opMu = Nobody
    /\ IF closed \/ authChanged
       THEN Return(c, "failed")
       ELSE /\ opMu' = c
            /\ op' = [op EXCEPT ![c].gen = version]
            /\ Goto(c, "token")
            /\ UNCHANGED tokenMu
    /\ UNCHANGED <<sessionVars, previousGrant, storeVars, confirms>>

\* Confirm up to its listing: the handle is looked up and consumed before any
\* network activity, and before the context is looked at.
BeginConfirm(c) ==
    /\ pc[c] = "lock" /\ op[c].kind = "confirm"
    /\ opMu = Nobody
    /\ \/ /\ ~closed /\ ~authChanged
          /\ \E p \in previews, cancelled \in BOOLEAN :
                /\ p.id = op[c].handle /\ p.generation = version
                /\ Consume(p)
                /\ IF cancelled
                   THEN Return(c, "failed")
                   ELSE /\ opMu' = c
                        /\ op' = [op EXCEPT ![c] =
                              [@ EXCEPT !.gen = p.generation, !.tool = p.tool,
                                        !.rev = p.rev]]
                        /\ Goto(c, "token")
                        /\ UNCHANGED tokenMu
       \/ /\ \/ closed \/ authChanged
             \/ ~\E p \in previews : p.id = op[c].handle /\ p.generation = version
          /\ Return(c, "failed")
          /\ UNCHANGED sessionVars
    /\ UNCHANGED <<previousGrant, storeVars, confirms>>

\* Close takes mu, never opMu. Ending the gateway's session is one more request
\* through the same transport, when the gateway gave out a session ID.
Close(c) ==
    /\ pc[c] = "lock" /\ op[c].kind = "close"
    /\ IF closed
       THEN UNCHANGED sessionVars
       ELSE /\ closed' = TRUE
            /\ version' = version + 1
            /\ previews' = {}
            /\ nilPreviews' = TRUE
            /\ UNCHANGED <<authChanged, nextID>>
    /\ \/ Return(c, "returned")
       \/ ~closed /\ Goto(c, "token") /\ UNCHANGED <<op, opMu, tokenMu>>
    /\ UNCHANGED <<previousGrant, storeVars, confirms>>

\* InvalidatePreviews called from outside an operation (an edited form, a
\* reconnect), at any moment.
Invalidate ==
    /\ version < MaxVersion
    /\ InvalidatePreviews
    /\ UNCHANGED <<opMu, tokenMu, previousGrant, pc, op, storeVars, confirms>>

-----------------------------------------------------------------------------
(* The way of one request: bearerTransport.RoundTrip.                       *)

\* The provider or the preflight refused: nothing was sent (ErrNotDispatched).
NotDispatched(c) == Return(c, "failed")

\* serializedTokenSource.accessToken, and the provider up to its comparison with
\* the grant of the previous request.
TokenBefore(c) ==
    /\ pc[c] = "token" /\ tokenMu = Nobody
    /\ \/ authChanged /\ NotDispatched(c) /\ UNCHANGED sessionVars
       \/ /\ ~authChanged /\ stored = 0
          /\ InvalidatePreviews /\ NotDispatched(c)
       \/ /\ ~authChanged /\ stored # 0 /\ previousGrant # stored
          /\ InvalidateAuthentication /\ NotDispatched(c)
       \/ /\ ~authChanged /\ stored # 0 /\ previousGrant = stored
          /\ tokenMu' = c
          /\ op' = [op EXCEPT ![c].before = stored]
          /\ Goto(c, "access")
          /\ UNCHANGED <<sessionVars, opMu>>
    /\ UNCHANGED <<previousGrant, storeVars, confirms>>

\* AccessToken loads the credentials and returns their token, or finds it about
\* to expire and refreshes it.
AccessToken(c) ==
    /\ pc[c] = "access"
    /\ IF stored = 0
       THEN InvalidatePreviews /\ NotDispatched(c)
       ELSE /\ op' = [op EXCEPT ![c].token = stored]
            /\ Goto(c, "verify") \/ Goto(c, "refresh")
            /\ UNCHANGED <<sessionVars, opMu, tokenMu>>
    /\ UNCHANGED <<previousGrant, storeVars, confirms>>

\* The refresh request ends: the renewed credentials replace whatever is stored
\* by now, or the refresh failed (rejected, lost, or its caller cancelled).
Refresh(c) ==
    /\ pc[c] = "refresh"
    /\ \/ /\ stored' = op[c].token
          /\ Goto(c, "verify")
          /\ UNCHANGED <<sessionVars, op, opMu, tokenMu>>
       \/ InvalidatePreviews /\ NotDispatched(c) /\ UNCHANGED stored
    /\ UNCHANGED <<previousGrant, login, prior, grants, putBack, confirms>>

\* Mutant of SameGrant: the second look at the grant is left out.
SameGrantAssumed(o) == TRUE

\* The grant is still the one the provider started with.
SameGrant(o) == stored = o.before

\* The provider loads the grant again and hands the token over if it is still
\* the one it started with.
TokenAfter(c) ==
    /\ pc[c] = "verify"
    /\ \/ stored = 0 /\ InvalidatePreviews /\ NotDispatched(c) /\ UNCHANGED previousGrant
       \/ /\ stored # 0 /\ ~SameGrant(op[c])
          /\ InvalidateAuthentication /\ NotDispatched(c) /\ UNCHANGED previousGrant
       \/ /\ stored # 0 /\ SameGrant(op[c])
          /\ previousGrant' = stored
          /\ tokenMu' = Nobody
          /\ Goto(c, "guard")
          /\ UNCHANGED <<sessionVars, op, opMu>>
    /\ UNCHANGED <<storeVars, confirms>>

\* Mutant of Guarded: the confirmation goes out without a guard.
GuardedInvoke(o) == o.phase = 2 /\ o.kind \in {"invoke", "read"}

\* WithDispatchGuard is set for the call of Invoke and Confirm and for the read
\* of ReadResource, not for a listing nor for the end of the session.
Guarded(o) == o.phase = 2 /\ o.kind \in {"invoke", "confirm", "read"}

Guard(c) ==
    /\ pc[c] = "guard"
    /\ \/ /\ Guarded(op[c]) => Current(op[c].gen)
          /\ Goto(c, "send")
          /\ UNCHANGED <<op, opMu, tokenMu>>
       \/ /\ Guarded(op[c]) /\ ~Current(op[c].gen)
          /\ NotDispatched(c)
    /\ UNCHANGED <<sessionVars, previousGrant, storeVars, confirms>>

\* The caller's context is cancelled and seen to be so before the token is read
\* or before the guard is run.
Cancelled(c) ==
    /\ pc[c] \in {"token", "guard"} /\ op[c].kind # "close"
    /\ pc[c] = "token" => tokenMu = Nobody
    /\ NotDispatched(c)
    /\ UNCHANGED <<sessionVars, previousGrant, storeVars, confirms>>

\* The request is handed to the transport; from here on it may reach the gateway.
Send(c) ==
    /\ pc[c] = "send"
    /\ op' = [op EXCEPT ![c].dispatched = (op[c].phase = 2)]
    /\ confirms' = IF op[c].kind = "confirm" /\ op[c].phase = 2
                   THEN [confirms EXCEPT ![op[c].handle] = @ + 1]
                   ELSE confirms
    /\ Goto(c, "wait")
    /\ UNCHANGED <<sessionVars, opMu, tokenMu, previousGrant, storeVars>>

-----------------------------------------------------------------------------
(* Answers.                                                                 *)
Answered(c, kinds, phase) ==
    pc[c] = "wait" /\ op[c].kind \in kinds /\ op[c].phase = phase

SecondRequest(c) ==
    /\ op' = [op EXCEPT ![c] = [@ EXCEPT !.phase = 2, !.before = 0, !.token = 0]]
    /\ Goto(c, "token")
    /\ UNCHANGED <<opMu, tokenMu>>

\* Catalogue has its tools and asks for the resources; it checks its generation
\* only when it has both.
CatalogueListed(c) ==
    /\ Answered(c, {"catalogue"}, 1)
    /\ SecondRequest(c)
    /\ UNCHANGED <<sessionVars, previousGrant, storeVars, confirms>>

\* ReadResource has the resources: the one it wants may not be among them.
ResourcesListed(c) ==
    /\ Answered(c, {"read"}, 1)
    /\ \E available \in BOOLEAN :
          IF available /\ Current(op[c].gen)
          THEN SecondRequest(c)
          ELSE Return(c, "failed")
    /\ UNCHANGED <<sessionVars, previousGrant, storeVars, confirms>>

\* Invoke and Confirm have the live tools. The tool (for Confirm, the origin of
\* the preview) must be advertised at the revision the caller reviewed; its
\* arguments, or the schema of confirm_action, must be acceptable.
ToolsListed(c) ==
    /\ Answered(c, {"invoke", "confirm"}, 1)
    /\ \E advertised \in Revisions \cup {NoRevision}, acceptable \in BOOLEAN :
          IF advertised = op[c].rev /\ acceptable /\ Current(op[c].gen)
          THEN SecondRequest(c)
          ELSE Return(c, "failed")
    /\ UNCHANGED <<sessionVars, previousGrant, storeVars, confirms>>

CatalogueLoaded(c) ==
    /\ Answered(c, {"catalogue"}, 2)
    /\ Return(c, IF Current(op[c].gen) THEN "returned" ELSE "failed")
    /\ UNCHANGED <<sessionVars, previousGrant, storeVars, confirms>>

\* A result without a preview ID, or an error result of the tool.
Completed(c) ==
    /\ Answered(c, {"read", "invoke", "confirm"}, 2)
    /\ \/ Return(c, "returned")
       \/ op[c].kind # "read" /\ Return(c, "rejected")
    /\ UNCHANGED <<sessionVars, previousGrant, storeVars, confirms>>

\* Invoke got a preview with an ID.
PreviewReturned(c) ==
    /\ Answered(c, {"invoke"}, 2)
    /\ nextID < MaxPreviews
    /\ Keep(op[c])
    /\ Return(c, "returned")
    /\ UNCHANGED <<previousGrant, storeVars, confirms>>

\* HTTP 401: sessionError drops the previews; nothing was executed.
Unauthorized(c) ==
    /\ pc[c] = "wait" /\ op[c].kind # "close"
    /\ InvalidatePreviews
    /\ Return(c, "unauthorized")
    /\ UNCHANGED <<previousGrant, storeVars, confirms>>

\* No answer, an unusable one, or a cancelled wait.
Lost(c) ==
    /\ pc[c] = "wait" /\ op[c].kind # "close"
    /\ Return(c, LossOutcome(op[c]))
    /\ UNCHANGED <<sessionVars, previousGrant, storeVars, confirms>>

SessionEnded(c) ==
    /\ pc[c] = "wait" /\ op[c].kind = "close"
    /\ Return(c, "returned")
    /\ UNCHANGED <<sessionVars, previousGrant, storeVars, confirms>>

-----------------------------------------------------------------------------
(* Other processes and the credential store.                                *)
EnvironmentKeeps ==
    UNCHANGED <<sessionVars, opMu, tokenMu, previousGrant, pc, op, confirms>>

\* Another process stores the credentials of grant g, 0 for none: they may be those
\* of an earlier grant than one that has been stored since.
Stores(g) ==
    /\ stored' = g
    /\ \/ g \in 1..(grants - 1) /\ putBack' = TRUE
       \/ g \notin 1..(grants - 1) /\ UNCHANGED putBack

\* A login notes the credentials it would restore, and asks for its grant.
LoginStarts ==
    /\ login = "none" /\ grants < MaxGrants
    /\ login' = "started" /\ prior' = stored
    /\ UNCHANGED <<stored, grants, putBack>>
    /\ EnvironmentKeeps

\* It saves the credentials of the new grant; its profile is still to be recorded.
LoginSaves ==
    /\ login = "started"
    /\ login' = "saved"
    /\ grants' = grants + 1
    /\ stored' = grants'
    /\ UNCHANGED <<prior, putBack>>
    /\ EnvironmentKeeps

\* It ends: there is nothing more to do, or rollbackLogin restores what it noted,
\* because its credentials or its profile could not be stored.
LoginEnds ==
    /\ login # "none"
    /\ login' = "none" /\ prior' = 0
    /\ \/ UNCHANGED <<stored, putBack>>
       \/ Stores(prior)
    /\ UNCHANGED grants
    /\ EnvironmentKeeps

\* A refresh of another process saves the credentials it renewed, whatever is stored
\* by now. It loaded them when they were stored, as those of every grant once were;
\* nothing limits how many such refreshes are under way.
RefreshSaves ==
    /\ \E g \in 1..grants : g # stored /\ Stores(g)
    /\ UNCHANGED <<login, prior, grants>>
    /\ EnvironmentKeeps

Logout ==
    /\ stored # 0
    /\ stored' = 0
    /\ UNCHANGED <<login, prior, grants, putBack>>
    /\ EnvironmentKeeps

-----------------------------------------------------------------------------
\* OpenSession has connected with the credentials of grant 1.
Init ==
    /\ closed = FALSE /\ authChanged = FALSE /\ version = 0 /\ nextID = 0
    /\ previews = {} /\ nilPreviews = FALSE
    /\ opMu = Nobody /\ tokenMu = Nobody /\ previousGrant = 1
    /\ pc = [c \in Callers |-> "idle"]
    /\ op = [c \in Callers |-> NoOperation]
    /\ stored = 1 /\ login = "none" /\ prior = 0 /\ grants = 1
    /\ putBack = FALSE
    /\ confirms = [h \in Handles |-> 0]

Start(c) == Begin(c) \/ BeginConfirm(c) \/ Close(c)

RoundTrip(c) ==
    \/ TokenBefore(c) \/ AccessToken(c) \/ Refresh(c) \/ TokenAfter(c)
    \/ Guard(c) \/ Cancelled(c) \/ Send(c)

Answer(c) ==
    \/ CatalogueListed(c) \/ ResourcesListed(c) \/ ToolsListed(c)
    \/ CatalogueLoaded(c) \/ Completed(c) \/ PreviewReturned(c)
    \/ Unauthorized(c) \/ Lost(c) \/ SessionEnded(c)

Environment ==
    Invalidate \/ LoginStarts \/ LoginSaves \/ LoginEnds \/ RefreshSaves \/ Logout

Next == \/ Environment
        \/ \E c \in Callers : Request(c) \/ Start(c) \/ RoundTrip(c) \/ Answer(c)

Spec == Init /\ [][Next]_vars
-----------------------------------------------------------------------------
(* Properties.                                                              *)

\* A confirmation of one handle goes on the wire at most once, whatever the
\* interleaving of double confirmations, losses, cancellations and invalidations
\* (Confirm consumes the handle before any network activity).
SingleConfirmation == \A h \in Handles : confirms[h] <= 1

\* Every preview still held belongs to the current generation of an open session
\* whose grant has not changed: no answer that was on its way when the session was
\* invalidated can leave a confirmable handle behind.
LivePreviewsCurrent ==
    \A p \in previews : p.generation = version /\ ~closed /\ ~authChanged

\* A caller told of a plain error, by any path, has not put a write on the wire: a
\* write that may have reached the gateway is reported as its answer, as rejected
\* by authentication, or as an unknown outcome (OutcomeUnknownError).
HonestReport ==
    \A c \in Callers :
        pc[c] = "idle" /\ op[c].outcome = "failed" /\ MayWrite(op[c])
            => ~op[c].dispatched

\* Every request on the wire carries a token of the grant the session was opened
\* with: a session is of one grant until another is opened (invalidateAuthentication).
Pinned == \A c \in Callers : pc[c] = "wait" => op[c].token = 1

\* It does, although other processes log in and out at any moment of the provider's
\* run (tokenProvider reads the grant before and after the token), as long as none of
\* them stores an earlier grant again after a later one: a login rolled back, or a
\* refresh begun before that login and saved after it. The provider may then see its
\* own grant twice and another's token in between.
PinnedUnlessPutBack == putBack \/ Pinned

\* A handle is never entered in the map after Close or a grant change set it to
\* nil: Invoke relies on the generation alone for that.
NilMapUntouched == [][nextID' # nextID => ~nilPreviews]_vars

\* What SingleConfirmation, LivePreviewsCurrent, HonestReport and NilMapUntouched
\* rest on.

\* An operation that holds opMu, between its first check and its return.
Running(c) == pc[c] \notin {"idle", "lock"} /\ op[c].kind # "close"

\* opMu admits one operation at a time.
OneRunning == \A c \in Callers : Running(c) => opMu = c

\* A generation is only ever left behind, and with it whatever was captured in it.
GenerationsPass ==
    \A c \in Callers : Running(c) =>
        /\ op[c].gen <= version
        /\ op[c].gen = version => ~closed /\ ~authChanged

\* Handles come out of the counter, and name one preview each.
HandlesIssued ==
    /\ \A p, q \in previews : p.id = q.id => p = q
    /\ \A p \in previews : p.id <= nextID
    /\ \A c \in Callers : op[c].handle <= nextID

\* A handle with a preview is not being confirmed, and never was; a running
\* confirmation has not been sent before it is dispatched.
HandlesUnspent ==
    /\ \A h \in Handles : nextID < h => confirms[h] = 0
    /\ \A p \in previews : confirms[p.id] = 0
    /\ \A c \in Callers : Running(c) /\ op[c].kind = "confirm" =>
          /\ op[c].handle \in Handles
          /\ \A p \in previews : p.id # op[c].handle
          /\ ~op[c].dispatched => confirms[op[c].handle] = 0

\* A second request that is on the wire is waited for until the operation ends.
DispatchedWaits ==
    \A c \in Callers : op[c].dispatched =>
        \/ pc[c] = "idle"
        \/ pc[c] = "wait" /\ op[c].phase = 2

NilMapMeansOver == nilPreviews => closed \/ authChanged

IInv == /\ TypeOK
        /\ OneRunning
        /\ GenerationsPass
        /\ HandlesIssued
        /\ HandlesUnspent
        /\ DispatchedWaits
        /\ NilMapMeansOver
        /\ SingleConfirmation
        /\ LivePreviewsCurrent
        /\ HonestReport

\* The life of a handle h as the promise of PreviewLifecycle sees it.
Confirming(c, h) ==
    op[c].kind = "confirm" /\ op[c].handle = h /\ pc[c] \notin {"idle", "lock"}

PhaseOf(h) ==
    IF h > nextID THEN "unissued"
    ELSE IF \E p \in previews : p.id = h THEN "live"
    ELSE IF confirms[h] > 0 THEN "sent"
    ELSE IF \E c \in Callers : Confirming(c, h) /\ op[c].phase = 2 /\ pc[c] = "send"
    THEN "authorised"
    ELSE IF \E c \in Callers : Confirming(c, h) /\ Current(op[c].gen)
    THEN "claimed"
    ELSE "void"

Lifecycle == INSTANCE PreviewLifecycle WITH
                phase <- [h \in Handles |-> PhaseOf(h)]

\* The session implements the promise: handles are spent once, invalidation voids
\* all of them at once, and nothing void is ever authorised or sent.
KeepsLifecycle == Lifecycle!Spec

\* The network client's 45 s timeout ends every wait; Go's mutexes do not starve
\* a waiter. Nothing obliges a caller to ask for anything.
Fairness ==
    \A c \in Callers : /\ SF_vars(Start(c)) /\ SF_vars(TokenBefore(c))
                       /\ WF_vars(RoundTrip(c)) /\ WF_vars(Answer(c))

FairSpec == Spec /\ Fairness

\* Every operation a caller asked for returns, and gives back what it locked.
OperationsReturn ==
    \A c \in Callers : (pc[c] = "lock") ~> (pc[c] = "idle")
=============================================================================
