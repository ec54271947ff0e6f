--------------------------- MODULE SessionProofs ----------------------------
(* Safety of Session, for any callers, tools, revisions and bounds.          *)
EXTENDS Session, TLAPS

\* The part of the type invariant that speaks of the callers and the mutexes.
CallerTypes ==
    /\ opMu \in Callers \cup {Nobody} /\ tokenMu \in Callers \cup {Nobody}
    /\ pc \in [Callers -> Places]
    /\ op \in [Callers -> Operation]

\* The part that speaks of liveSession.
SessionTypes ==
    /\ closed \in BOOLEAN /\ authChanged \in BOOLEAN /\ nilPreviews \in BOOLEAN
    /\ version \in Nat /\ nextID \in 0..MaxPreviews
    /\ previews \subseteq PendingPreview

LEMMA NoOperationType == NoOperation \in Operation
  BY ToolsAssumption DEF NoOperation, Operation, Kinds, Outcomes

\* What is left of an operation that is over: nothing, unless it was a write that
\* was reported as a plain error.
LEMMA EndedFacts ==
    ASSUME NEW o \in Operation, NEW outcome \in Outcomes
    PROVE  /\ Ended(o, outcome) \in Operation
           /\ Ended(o, outcome).handle = 0
           /\ Ended(o, outcome).outcome = outcome
           /\ Ended(o, outcome).dispatched =>
                 outcome = "failed" /\ MayWrite(o) /\ o.dispatched
<1>1. CASE outcome = "failed" /\ MayWrite(o)
  BY <1>1 DEF Ended, Operation
<1>2. CASE ~(outcome = "failed" /\ MayWrite(o))
  <2>1. Ended(o, outcome) = [NoOperation EXCEPT !.outcome = outcome]
    BY <1>2 DEF Ended
  <2>2. NoOperation.handle = 0 /\ NoOperation.dispatched = FALSE
    BY DEF NoOperation
  <2>3. QED BY <1>2, <2>1, <2>2, NoOperationType DEF Operation
<1>3. QED BY <1>1, <1>2

\* Returning with any outcome leaves well-formed callers.
LEMMA ReturnTypes ==
    ASSUME CallerTypes, NEW c \in Callers, NEW outcome \in Outcomes,
           Return(c, outcome)
    PROVE  CallerTypes'
<1>1. pc' \in [Callers -> Places]
  BY DEF CallerTypes, Return, Goto, Places
<1>2. op' \in [Callers -> Operation]
  BY EndedFacts DEF CallerTypes, Return
<1>3. QED
  BY <1>1, <1>2 DEF CallerTypes, Return

\* So does going on with the second request.
LEMMA SecondRequestTypes ==
    ASSUME CallerTypes, NEW c \in Callers, SecondRequest(c)
    PROVE  CallerTypes'
<1>1. pc' \in [Callers -> Places]
  BY DEF CallerTypes, SecondRequest, Goto, Places
<1>2. op' \in [Callers -> Operation]
  BY DEF CallerTypes, SecondRequest, Operation
<1>3. QED
  BY <1>1, <1>2 DEF CallerTypes, SecondRequest

\* Both invalidations leave a well-formed session.
LEMMA InvalidationTypes ==
    ASSUME SessionTypes, InvalidatePreviews \/ InvalidateAuthentication
    PROVE  SessionTypes'
<1>1. closed' \in BOOLEAN /\ authChanged' \in BOOLEAN /\ nilPreviews' \in BOOLEAN
  BY Zenon DEF SessionTypes, InvalidatePreviews, InvalidateAuthentication
<1>2. version' \in Nat /\ nextID' \in 0..MaxPreviews /\ previews' \subseteq PendingPreview
  BY DEF SessionTypes, InvalidatePreviews, InvalidateAuthentication
<1>3. QED
  BY <1>1, <1>2 DEF SessionTypes

\* An operation that adopts a preview's origin is still one.
LEMMA AdoptTypes ==
    ASSUME NEW o \in Operation, NEW g \in Nat, NEW t \in Tools, NEW r \in Revisions
    PROVE  [o EXCEPT !.gen = g, !.tool = t, !.rev = r] \in Operation
  BY DEF Operation

\* So is the array of counters after one more confirmation of any handle.
LEMMA CountTypes ==
    ASSUME NEW f \in [Handles -> Nat], NEW h
    PROVE  [f EXCEPT ![h] = @ + 1] \in [Handles -> Nat]
<1>1. CASE h \in Handles
  <2>1. f[h] + 1 \in Nat
    BY <1>1
  <2>2. QED BY <2>1
<1>2. CASE h \notin Handles
  BY <1>2
<1>3. QED BY <1>1, <1>2

\* The initial states are well formed.
LEMMA InitTypes == Init => TypeOK
<1>1. NoOperation \in Operation
  BY NoOperationType
<1>2. ASSUME Init PROVE SessionTypes
  <2>1. closed \in BOOLEAN /\ authChanged \in BOOLEAN /\ nilPreviews \in BOOLEAN
    BY <1>2, Zenon DEF Init
  <2>2. QED
    BY <1>2, <2>1, BoundsAssumption DEF Init, SessionTypes
<1>3. ASSUME Init PROVE CallerTypes
  BY <1>1, <1>3 DEF Init, CallerTypes, Places
<1>4. ASSUME Init
      PROVE  /\ previousGrant \in Nat /\ stored \in Nat /\ prior \in Nat
             /\ grants \in Nat /\ confirms \in [Handles -> Nat]
  BY <1>4 DEF Init
<1>5. Init => login \in {"none", "started", "saved"}
  BY Zenon DEF Init
<1>6. Init => putBack \in BOOLEAN
  BY Zenon DEF Init
<1>7. QED
  BY <1>2, <1>3, <1>4, <1>5, <1>6 DEF TypeOK, SessionTypes, CallerTypes

\* Only what other processes store touches the record of it.
LEMMA PutBackTypes ==
    ASSUME putBack \in BOOLEAN, [Next]_vars
    PROVE  putBack' \in BOOLEAN
<1>1. CASE LoginEnds \/ RefreshSaves
  BY <1>1, Zenon DEF LoginEnds, RefreshSaves, Stores
<1>2. CASE UNCHANGED putBack
  BY <1>2, Zenon
<1>3. CASE Environment
  BY <1>1, <1>2, <1>3, Zenon DEF Environment, Invalidate, LoginStarts, LoginSaves, Logout,
     storeVars
<1>4. ASSUME NEW c \in Callers, Request(c) \/ Start(c) PROVE UNCHANGED putBack
  BY <1>4, Zenon DEF Request, Start, Begin, BeginConfirm, Close, storeVars
<1>5. ASSUME NEW c \in Callers, RoundTrip(c) PROVE UNCHANGED putBack
  BY <1>5, Zenon DEF RoundTrip, TokenBefore, AccessToken, Refresh, TokenAfter, Guard, Cancelled,
                     Send, storeVars
<1>6. ASSUME NEW c \in Callers, Answer(c) PROVE UNCHANGED putBack
  BY <1>6, Zenon DEF Answer, CatalogueListed, ResourcesListed, ToolsListed, CatalogueLoaded,
                     Completed, PreviewReturned, Unauthorized, Lost, SessionEnded, storeVars
<1>7. CASE UNCHANGED vars
  BY <1>2, <1>7, Zenon DEF vars, storeVars
<1>8. QED
  BY <1>2, <1>3, <1>4, <1>5, <1>6, <1>7, Zenon DEF Next

\* Type correctness: Spec => []TypeOK, action by action.
THEOREM TypeCorrect == Spec => []TypeOK
<1>1. Init => TypeOK
  BY InitTypes
<1>2. TypeOK /\ [Next]_vars => TypeOK'
  <2> SUFFICES ASSUME TypeOK, [Next]_vars PROVE TypeOK'
    OBVIOUS
  <2> USE DEF TypeOK
  <2>t. /\ CallerTypes
        /\ SessionTypes
    BY DEF CallerTypes, SessionTypes
  <2>s. ASSUME CallerTypes', SessionTypes',
               previousGrant' \in Nat, stored' \in Nat, login' \in {"none", "started", "saved"},
               prior' \in Nat, grants' \in Nat, confirms' \in [Handles -> Nat]
        PROVE  TypeOK'
    BY <2>s, PutBackTypes DEF CallerTypes, SessionTypes
  <2>o. {"returned", "rejected", "unauthorized", "unknown", "failed"} \subseteq Outcomes
    BY DEF Outcomes
  <2>1. CASE Environment
    <3>1. SessionTypes'
      <4>1. CASE Invalidate
        BY <4>1, <2>t, InvalidationTypes DEF Invalidate
      <4>2. CASE UNCHANGED sessionVars
        BY <4>2, <2>t DEF sessionVars, SessionTypes
      <4>3. QED
        BY <2>1, <4>1, <4>2 DEF Environment, LoginStarts, LoginSaves, LoginEnds,
                                RefreshSaves, Logout, EnvironmentKeeps
    <3>2. CallerTypes'
      BY <2>1, <2>t DEF Environment, Invalidate, LoginStarts, LoginSaves, LoginEnds, RefreshSaves, Logout,
             EnvironmentKeeps, CallerTypes
    <3>3. login' \in {"none", "started", "saved"}
      BY <2>1, Zenon
         DEF Environment, Invalidate, LoginStarts, LoginSaves, LoginEnds, RefreshSaves, Logout,
             EnvironmentKeeps, storeVars
    <3>4. /\ previousGrant' \in Nat /\ stored' \in Nat /\ prior' \in Nat
          /\ grants' \in Nat /\ confirms' \in [Handles -> Nat]
      BY <2>1 DEF Stores, Environment, Invalidate, LoginStarts, LoginSaves, LoginEnds,
                  RefreshSaves, Logout, EnvironmentKeeps, storeVars
    <3>5. QED
      BY <3>1, <3>2, <3>3, <3>4, <2>s
  <2>2. ASSUME NEW c \in Callers, Request(c) PROVE TypeOK'
    <3>1. op' \in [Callers -> Operation]
      BY <2>2 DEF Request, Operation, Outcomes, Handles
    <3>2. QED
      BY <2>2, <3>1 DEF Request, Goto, Places, sessionVars, storeVars
  <2>3. ASSUME NEW c \in Callers, Begin(c) PROVE TypeOK'
    <3>1. CallerTypes'
      <4>1. CASE Return(c, "failed")
        BY <4>1, <2>t, <2>o, ReturnTypes
      <4>2. CASE ~Return(c, "failed")
        <5>1. /\ opMu' = c /\ UNCHANGED tokenMu
              /\ op' = [op EXCEPT ![c].gen = version]
              /\ Goto(c, "token")
          BY <4>2, <2>3, Zenon DEF Begin
        <5>2. op' \in [Callers -> Operation]
          BY <5>1 DEF Operation
        <5>3. QED
          BY <5>1, <5>2 DEF Goto, Places, CallerTypes
      <4>3. QED BY <4>1, <4>2
    <3>2. QED
      BY <2>3, <3>1, <2>t, <2>s DEF Begin, sessionVars, storeVars, SessionTypes
  <2>4. ASSUME NEW c \in Callers, BeginConfirm(c) PROVE TypeOK'
    <3>1. CallerTypes'
      <4>1. CASE Return(c, "failed")
        BY <4>1, <2>t, <2>o, ReturnTypes
      <4>2. CASE ~Return(c, "failed")
        <5>1. PICK p \in previews :
                 /\ opMu' = c
                 /\ op' = [op EXCEPT ![c] = [@ EXCEPT !.gen = p.generation,
                                    !.tool = p.tool, !.rev = p.rev]]
                 /\ Goto(c, "token")
                 /\ UNCHANGED tokenMu
          BY <4>2, <2>4 DEF BeginConfirm
        <5>2. p \in PendingPreview
          OBVIOUS
        <5>3. op' \in [Callers -> Operation]
          <6>1. p.generation \in Nat /\ p.tool \in Tools /\ p.rev \in Revisions
            BY <5>2 DEF PendingPreview
          <6>2. QED
            BY <5>1, <6>1, AdoptTypes
        <5>4. QED
          BY <5>1, <5>3 DEF Goto, Places, CallerTypes
      <4>3. QED BY <4>1, <4>2
    <3>2. SessionTypes'
      BY <2>4, <2>t DEF BeginConfirm, Consume, SessionTypes, sessionVars
    <3>3. QED
      BY <2>4, <3>1, <3>2, <2>s DEF BeginConfirm, storeVars
  <2>5. ASSUME NEW c \in Callers, Close(c) PROVE TypeOK'
    <3>1. CallerTypes'
      <4>1. CASE Return(c, "returned")
        BY <4>1, <2>t, <2>o, ReturnTypes
      <4>2. CASE ~Return(c, "returned")
        BY <4>2, <2>5 DEF Close, Goto, Places, CallerTypes
      <4>3. QED BY <4>1, <4>2
    <3>2. SessionTypes'
      <4>1. CASE closed
        BY <4>1, <2>5, <2>t DEF Close, SessionTypes, sessionVars
      <4>2. CASE ~closed
        <5>1. closed' \in BOOLEAN /\ authChanged' \in BOOLEAN /\ nilPreviews' \in BOOLEAN
          BY <4>2, <2>5, Zenon DEF Close
        <5>2. QED
          BY <4>2, <2>5, <5>1 DEF Close, SessionTypes
      <4>3. QED BY <4>1, <4>2
    <3>3. QED
      BY <2>5, <3>1, <3>2, <2>s DEF Close, storeVars
  <2>6. ASSUME NEW c \in Callers, RoundTrip(c) PROVE TypeOK'
    <3>1. CASE TokenBefore(c) \/ AccessToken(c) \/ Refresh(c) \/ TokenAfter(c)
      <4>1. CallerTypes'
        <5>1. CASE NotDispatched(c)
          BY <5>1, <2>t, <2>o, ReturnTypes DEF NotDispatched
        <5>2. CASE ~NotDispatched(c) /\ TokenBefore(c)
          BY <5>2 DEF TokenBefore, Goto, Places, Operation, CallerTypes
        <5>3. CASE ~NotDispatched(c) /\ AccessToken(c)
          BY <5>3 DEF AccessToken, Goto, Places, Operation, CallerTypes
        <5>4. CASE ~NotDispatched(c) /\ (Refresh(c) \/ TokenAfter(c))
          BY <5>4 DEF Refresh, TokenAfter, Goto, Places, CallerTypes
        <5>5. QED BY <3>1, <5>1, <5>2, <5>3, <5>4
      <4>2. SessionTypes'
        BY <3>1, <2>t, InvalidationTypes
           DEF TokenBefore, AccessToken, Refresh, TokenAfter, sessionVars, SessionTypes
      <4>3. op[c].token \in Nat
        BY DEF Operation
      <4>4. QED
        BY <3>1, <4>1, <4>2, <4>3, <2>s
           DEF TokenBefore, AccessToken, Refresh, TokenAfter, storeVars
    <3>2. CASE Guard(c) \/ Cancelled(c)
      <4>1. CallerTypes'
        <5>1. CASE NotDispatched(c)
          BY <5>1, <2>t, <2>o, ReturnTypes DEF NotDispatched
        <5>2. CASE ~NotDispatched(c)
          BY <5>2, <3>2 DEF Guard, Cancelled, Goto, Places, CallerTypes
        <5>3. QED BY <5>1, <5>2
      <4>2. QED
        BY <3>2, <4>1, <2>s, <2>t DEF Guard, Cancelled, sessionVars, storeVars, SessionTypes
    <3>3. CASE Send(c)
      <4>1. op' \in [Callers -> Operation]
        <5>1. ASSUME NEW b \in BOOLEAN
              PROVE  [op[c] EXCEPT !.dispatched = b] \in Operation
          BY <5>1 DEF Operation
        <5>2. [op[c] EXCEPT !.dispatched = (op[c].phase = 2)] \in Operation
          BY <5>1
        <5>3. QED
          BY <3>3, <5>2 DEF Send
      <4>2. confirms' \in [Handles -> Nat]
        <5>1. CASE confirms' = confirms
          BY <5>1
        <5>2. CASE confirms' = [confirms EXCEPT ![op[c].handle] = @ + 1]
          BY <5>2, CountTypes
        <5>3. QED
          BY <3>3, <5>1, <5>2 DEF Send
      <4>3. QED
        BY <3>3, <4>1, <4>2 DEF Send, Goto, Places, sessionVars, storeVars
    <3>4. QED BY <2>6, <3>1, <3>2, <3>3 DEF RoundTrip
  <2>7. ASSUME NEW c \in Callers, Answer(c) PROVE TypeOK'
    <3>1. CallerTypes'
      <4>1. CASE SecondRequest(c)
        BY <4>1, <2>t, SecondRequestTypes
      <4>2. CASE \E outcome \in Outcomes : Return(c, outcome)
        BY <4>2, <2>t, ReturnTypes
      <4>3. QED
        BY <2>7, <2>o, <4>1, <4>2
           DEF Answer, CatalogueListed, ResourcesListed, ToolsListed, CatalogueLoaded,
               Completed, PreviewReturned, Unauthorized, Lost, LossOutcome, SessionEnded
    <3>2. SessionTypes'
      <4>1. CASE PreviewReturned(c)
        <5>1. CASE UNCHANGED sessionVars
          BY <5>1, <2>t DEF SessionTypes, sessionVars
        <5>2. CASE ~UNCHANGED sessionVars
          <6>1. /\ nextID' = nextID + 1
                /\ previews' = previews \cup
                      {[id |-> nextID + 1, tool |-> op[c].tool,
                        rev |-> op[c].rev, generation |-> op[c].gen]}
                /\ UNCHANGED <<closed, authChanged, version, nilPreviews>>
            BY <4>1, <5>2 DEF PreviewReturned, Keep
          <6>2. nextID + 1 \in Handles
            BY <4>1, BoundsAssumption DEF PreviewReturned, Handles
          <6>3. [id |-> nextID + 1, tool |-> op[c].tool,
                 rev |-> op[c].rev, generation |-> op[c].gen] \in PendingPreview
            BY <6>2 DEF PendingPreview, Operation
          <6>4. QED
            BY <6>1, <6>2, <6>3, <2>t, BoundsAssumption DEF SessionTypes, Handles
        <5>3. QED BY <5>1, <5>2
      <4>2. CASE ~PreviewReturned(c)
        BY <4>2, <2>7, <2>t, InvalidationTypes
           DEF Answer, CatalogueListed, ResourcesListed, ToolsListed, CatalogueLoaded,
               Completed, Unauthorized, Lost, SessionEnded, SessionTypes, sessionVars
      <4>3. QED BY <4>1, <4>2
    <3>3. QED
      BY <2>7, <3>1, <3>2, <2>s
         DEF Answer, CatalogueListed, ResourcesListed, ToolsListed, CatalogueLoaded,
             Completed, PreviewReturned, Unauthorized, Lost, SessionEnded, storeVars
  <2>8. CASE UNCHANGED vars
    BY <2>8 DEF vars, sessionVars, storeVars
  <2>9. QED
    BY <2>1, <2>2, <2>3, <2>4, <2>5, <2>6, <2>7, <2>8 DEF Next, Start
<1>3. QED BY <1>1, <1>2, PTL DEF Spec

-----------------------------------------------------------------------------
(* Safety. Most steps are calm for the callers: whoever runs afterwards ran  *)
(* before, on the same request, and has not been dispatched in between. What *)
(* is left to look at is what the step does to the session.                  *)
Calm ==
    /\ \A d \in Callers : Running(d)' =>
          /\ Running(d) /\ opMu' = d
          /\ op'[d].kind = op[d].kind /\ op'[d].handle = op[d].handle
          /\ op'[d].gen = op[d].gen /\ op'[d].dispatched = op[d].dispatched
    /\ \A d \in Callers : op'[d].handle <= nextID
    /\ DispatchedWaits'
    /\ HonestReport'
    /\ confirms' = confirms

\* The session moved to the next generation and dropped its previews.
Voided ==
    /\ version' = version + 1
    /\ previews' = {}
    /\ nextID' = nextID
    /\ nilPreviews' => closed' \/ authChanged'

\* Returning is calm, when a plain error is not reported for a dispatched write.
LEMMA CalmReturn ==
    ASSUME IInv, NEW c \in Callers, NEW outcome \in Outcomes, Return(c, outcome),
           outcome = "failed" /\ MayWrite(op[c]) => ~op[c].dispatched,
           confirms' = confirms
    PROVE  Calm
<1> USE DEF IInv, TypeOK
<1>1. /\ pc' = [pc EXCEPT ![c] = "idle"]
      /\ op' = [op EXCEPT ![c] = Ended(op[c], outcome)]
      /\ opMu' = IF opMu = c THEN Nobody ELSE opMu
  BY DEF Return, Goto
<1>2. ~op'[c].dispatched /\ op'[c].handle = 0
  BY <1>1, EndedFacts
<1>3. \A d \in Callers : d # c => pc'[d] = pc[d] /\ op'[d] = op[d]
  BY <1>1
<1>4. \A d \in Callers : Running(d)' => d # c /\ Running(d) /\ opMu' = d
  BY <1>1, <1>3 DEF Running, OneRunning
<1>5. \A d \in Callers : op'[d].handle <= nextID
  BY <1>2, <1>3 DEF HandlesIssued
<1>6. DispatchedWaits'
  BY <1>1, <1>3 DEF DispatchedWaits
<1>7. HonestReport'
  BY <1>1, <1>2, <1>3 DEF HonestReport, MayWrite
<1>8. QED
  BY <1>3, <1>4, <1>5, <1>6, <1>7 DEF Calm

\* So is going on to the next place of the way with a request not yet dispatched.
LEMMA CalmProgress ==
    ASSUME IInv, NEW c \in Callers, NEW place, NEW o,
           pc' = [pc EXCEPT ![c] = place], op' = [op EXCEPT ![c] = o],
           opMu' = opMu, confirms' = confirms,
           place \notin {"idle", "lock"}, Running(c) \/ op[c].kind = "close",
           o.kind = op[c].kind, o.handle = op[c].handle, o.gen = op[c].gen,
           o.dispatched = op[c].dispatched, ~op[c].dispatched
    PROVE  Calm
<1> USE DEF IInv, TypeOK
<1>1. pc'[c] = place /\ op'[c] = o
  OBVIOUS
<1>2. \A d \in Callers : d # c => pc'[d] = pc[d] /\ op'[d] = op[d]
  OBVIOUS
<1>3. \A d \in Callers : Running(d)' => Running(d) /\ opMu' = d
  BY <1>1, <1>2 DEF Running, OneRunning
<1>4. DispatchedWaits' /\ HonestReport'
  BY <1>1, <1>2 DEF DispatchedWaits, HonestReport, MayWrite
<1>5. \A d \in Callers : op'[d].handle <= nextID
  BY <1>1, <1>2 DEF HandlesIssued
<1>6. QED
  BY <1>1, <1>2, <1>3, <1>4, <1>5 DEF Calm

\* A calm step that leaves the session alone, or voids it, keeps the invariant.
LEMMA CalmKeepsInvariant ==
    ASSUME IInv, TypeOK', Calm, UNCHANGED sessionVars \/ Voided
    PROVE  IInv'
<1> USE DEF IInv, TypeOK
<1>1. OneRunning'
  BY DEF Calm, OneRunning
<1>2. CASE UNCHANGED sessionVars
  <2>1. GenerationsPass'
    BY <1>2 DEF Calm, GenerationsPass, sessionVars
  <2>2. HandlesIssued'
    BY <1>2 DEF Calm, HandlesIssued, sessionVars
  <2>3. HandlesUnspent'
    BY <1>2 DEF Calm, HandlesUnspent, sessionVars
  <2>4. NilMapMeansOver' /\ SingleConfirmation' /\ LivePreviewsCurrent'
    BY <1>2, Zenon DEF Calm, NilMapMeansOver, SingleConfirmation, LivePreviewsCurrent,
                       sessionVars
  <2>5. QED
    BY <1>1, <2>1, <2>2, <2>3, <2>4 DEF Calm
<1>3. CASE Voided
  <2>1. GenerationsPass'
    BY <1>3 DEF Calm, GenerationsPass, Voided, Operation
  <2>2. HandlesIssued'
    BY <1>3 DEF Calm, HandlesIssued, Voided
  <2>3. HandlesUnspent'
    BY <1>3 DEF Calm, HandlesUnspent, Voided
  <2>4. NilMapMeansOver' /\ SingleConfirmation' /\ LivePreviewsCurrent'
    BY <1>3 DEF Calm, NilMapMeansOver, SingleConfirmation, LivePreviewsCurrent, Voided
  <2>5. QED
    BY <1>1, <2>1, <2>2, <2>3, <2>4 DEF Calm
<1>4. QED BY <1>2, <1>3

\* Both invalidations void the session.
LEMMA InvalidationVoids ==
    ASSUME TypeOK, IInv, InvalidatePreviews \/ InvalidateAuthentication
    PROVE  Voided
  BY DEF InvalidatePreviews, InvalidateAuthentication, Voided

\* The second request is made for the same handle, in the same generation.
LEMMA SecondRequestKeeps ==
    ASSUME NEW o \in Operation
    PROVE  LET n == [o EXCEPT !.phase = 2, !.before = 0, !.token = 0]
           IN  /\ n.kind = o.kind /\ n.handle = o.handle /\ n.gen = o.gen
               /\ n.dispatched = o.dispatched
  BY DEF Operation

\* So is the rest of the request when a token has been read.
LEMMA TokenKeeps ==
    ASSUME NEW o \in Operation, NEW n \in Nat
    PROVE  /\ LET r == [o EXCEPT !.before = n]
              IN  r.kind = o.kind /\ r.handle = o.handle /\ r.gen = o.gen
                  /\ r.dispatched = o.dispatched
           /\ LET r == [o EXCEPT !.token = n]
              IN  r.kind = o.kind /\ r.handle = o.handle /\ r.gen = o.gen
                  /\ r.dispatched = o.dispatched
  BY DEF Operation

\* Going on from a place of the way with the operation's request unchanged.
LEMMA RequestGoesOn ==
    ASSUME IInv, NEW c \in Callers, NEW place \in Places,
           Goto(c, place), place \notin {"idle", "lock"},
           pc[c] \notin {"idle", "lock", "wait"} \/ (pc[c] = "wait" /\ op[c].phase = 1),
           \/ UNCHANGED op
           \/ \E n \in Nat : op' = [op EXCEPT ![c].before = n]
           \/ \E n \in Nat : op' = [op EXCEPT ![c].token = n]
           \/ op' = [op EXCEPT ![c] = [@ EXCEPT !.phase = 2, !.before = 0, !.token = 0]],
           opMu' = opMu, confirms' = confirms
    PROVE  Calm
<1> USE DEF IInv, TypeOK
<1>1. ~op[c].dispatched
  BY DEF DispatchedWaits
<1>2. PICK o : /\ op' = [op EXCEPT ![c] = o]
               /\ o.kind = op[c].kind /\ o.handle = op[c].handle /\ o.gen = op[c].gen
               /\ o.dispatched = op[c].dispatched
  <2>1. CASE UNCHANGED op
    <3>1. op' = [op EXCEPT ![c] = op[c]]
      BY <2>1
    <3>2. QED BY <3>1
  <2>2. CASE \E n \in Nat : op' = [op EXCEPT ![c].before = n]
    <3>1. PICK n \in Nat : op' = [op EXCEPT ![c] = [op[c] EXCEPT !.before = n]]
      BY <2>2
    <3> DEFINE o == [op[c] EXCEPT !.before = n]
    <3>2. o.kind = op[c].kind /\ o.handle = op[c].handle /\ o.gen = op[c].gen
          /\ o.dispatched = op[c].dispatched
      BY TokenKeeps
    <3>3. op' = [op EXCEPT ![c] = o]
      BY <3>1
    <3> HIDE DEF o
    <3>4. QED BY <3>2, <3>3
  <2>3. CASE \E n \in Nat : op' = [op EXCEPT ![c].token = n]
    <3>1. PICK n \in Nat : op' = [op EXCEPT ![c] = [op[c] EXCEPT !.token = n]]
      BY <2>3
    <3> DEFINE o == [op[c] EXCEPT !.token = n]
    <3>2. o.kind = op[c].kind /\ o.handle = op[c].handle /\ o.gen = op[c].gen
          /\ o.dispatched = op[c].dispatched
      BY TokenKeeps
    <3>3. op' = [op EXCEPT ![c] = o]
      BY <3>1
    <3> HIDE DEF o
    <3>4. QED BY <3>2, <3>3
  <2>4. CASE op' = [op EXCEPT ![c] = [@ EXCEPT !.phase = 2, !.before = 0, !.token = 0]]
    <3>1. op' = [op EXCEPT ![c] = [op[c] EXCEPT !.phase = 2, !.before = 0, !.token = 0]]
      BY <2>4
    <3>2. QED BY <3>1, SecondRequestKeeps
  <2>5. QED BY <2>1, <2>2, <2>3, <2>4
<1>3. Running(c) \/ op[c].kind = "close"
  BY DEF Running
<1>4. pc' = [pc EXCEPT ![c] = place]
  BY DEF Goto
<1>5. QED
  BY <1>1, <1>2, <1>3, <1>4, CalmProgress

-----------------------------------------------------------------------------
(* The steps that are not calm.                                              *)

\* Begin: whatever starts has captured the generation of an open session.
LEMMA BeginKeepsInvariant ==
    ASSUME IInv, TypeOK', NEW c \in Callers, Begin(c)
    PROVE  IInv'
<1> USE DEF IInv, TypeOK
<1>1. CASE closed \/ authChanged
  <2>1. Return(c, "failed") /\ UNCHANGED sessionVars /\ confirms' = confirms
    BY <1>1, Zenon DEF Begin
  <2>2. ~op[c].dispatched
    BY DEF Begin, DispatchedWaits
  <2>3. QED
    BY <2>1, <2>2, CalmReturn, CalmKeepsInvariant DEF Outcomes
<1>2. CASE ~(closed \/ authChanged)
  <2>1. /\ opMu = Nobody /\ opMu' = c /\ pc[c] = "lock"
        /\ op' = [op EXCEPT ![c].gen = version]
        /\ pc' = [pc EXCEPT ![c] = "token"]
        /\ UNCHANGED sessionVars /\ confirms' = confirms
        /\ op[c].kind # "confirm"
    BY <1>2 DEF Begin, Goto
  <2>2. /\ op'[c].gen = version /\ op'[c].kind = op[c].kind
        /\ op'[c].handle = op[c].handle /\ op'[c].dispatched = op[c].dispatched
        /\ pc'[c] = "token"
        /\ \A d \in Callers : d # c => pc'[d] = pc[d] /\ op'[d] = op[d]
    BY <2>1 DEF Operation
  <2>3. \A d \in Callers : ~Running(d)
    BY <2>1, CallersAssumption DEF OneRunning, Running
  <2>4. \A d \in Callers : Running(d)' => d = c
    BY <2>2, <2>3 DEF Running
  <2>5. OneRunning'
    BY <2>1, <2>4 DEF OneRunning
  <2>6. GenerationsPass'
    BY <1>2, <2>1, <2>2, <2>4 DEF GenerationsPass, sessionVars
  <2>7. HandlesIssued'
    BY <2>1, <2>2 DEF HandlesIssued, sessionVars
  <2>8. HandlesUnspent'
    BY <2>1, <2>2, <2>4 DEF HandlesUnspent, sessionVars
  <2>9. DispatchedWaits' /\ HonestReport'
    BY <2>1, <2>2 DEF DispatchedWaits, HonestReport, MayWrite
  <2>10. NilMapMeansOver' /\ SingleConfirmation' /\ LivePreviewsCurrent'
    BY <2>1, Zenon DEF NilMapMeansOver, SingleConfirmation, LivePreviewsCurrent, sessionVars
  <2>11. QED
    BY <2>5, <2>6, <2>7, <2>8, <2>9, <2>10
<1>3. QED BY <1>1, <1>2

\* BeginConfirm: the handle that starts being confirmed leaves the map.
LEMMA BeginConfirmKeepsInvariant ==
    ASSUME IInv, TypeOK', NEW c \in Callers, BeginConfirm(c)
    PROVE  IInv'
<1> USE DEF IInv, TypeOK
<1>1. /\ pc[c] = "lock" /\ op[c].kind = "confirm" /\ opMu = Nobody
      /\ confirms' = confirms /\ ~op[c].dispatched
  BY DEF BeginConfirm, DispatchedWaits
<1>2. CASE Return(c, "failed") /\ UNCHANGED sessionVars
  BY <1>1, <1>2, CalmReturn, CalmKeepsInvariant DEF Outcomes
<1>3. CASE ~(Return(c, "failed") /\ UNCHANGED sessionVars)
  <2>1. PICK p \in previews :
           /\ ~closed /\ ~authChanged
           /\ p.id = op[c].handle /\ p.generation = version
           /\ Consume(p)
           /\ \/ Return(c, "failed")
              \/ /\ opMu' = c
                 /\ op' = [op EXCEPT ![c] =
                       [@ EXCEPT !.gen = p.generation, !.tool = p.tool, !.rev = p.rev]]
                 /\ Goto(c, "token")
    BY <1>3, Zenon DEF BeginConfirm
  <2>2. p.id \in Handles
    BY DEF PendingPreview
  <2>3. /\ previews' = previews \ {p}
        /\ \A q \in previews' : q \in previews /\ q.id # p.id
        /\ UNCHANGED <<closed, authChanged, version, nextID, nilPreviews>>
    BY <2>1 DEF Consume, HandlesIssued
  <2>4. HandlesIssued' <=> \A d \in Callers : op'[d].handle <= nextID
    BY <2>3 DEF HandlesIssued
  <2>5. NilMapMeansOver' /\ SingleConfirmation' /\ LivePreviewsCurrent'
    BY <1>1, <2>3, Zenon DEF NilMapMeansOver, SingleConfirmation, LivePreviewsCurrent
  <2>6. CASE Return(c, "failed")
    <3>1. Calm
      BY <1>1, <2>6, CalmReturn DEF Outcomes
    <3>2. OneRunning' /\ GenerationsPass'
      BY <3>1, <2>3 DEF Calm, OneRunning, GenerationsPass
    <3>3. HandlesIssued' /\ HandlesUnspent'
      BY <3>1, <2>3, <2>4 DEF Calm, HandlesUnspent
    <3>4. QED
      BY <3>1, <3>2, <3>3, <2>5 DEF Calm
  <2>7. CASE ~Return(c, "failed")
    <3>1. /\ opMu' = c
          /\ op' = [op EXCEPT ![c] =
                [op[c] EXCEPT !.gen = p.generation, !.tool = p.tool, !.rev = p.rev]]
          /\ pc' = [pc EXCEPT ![c] = "token"]
      BY <2>1, <2>7 DEF Goto
    <3>2. /\ op'[c].gen = version /\ op'[c].kind = "confirm"
          /\ op'[c].handle = p.id /\ op'[c].dispatched = op[c].dispatched
          /\ pc'[c] = "token"
          /\ \A d \in Callers : d # c => pc'[d] = pc[d] /\ op'[d] = op[d]
      BY <1>1, <2>1, <3>1 DEF Operation
    <3>3. \A d \in Callers : Running(d)' => d = c
      BY <1>1, <3>2, CallersAssumption DEF OneRunning, Running
    <3>4. OneRunning'
      BY <3>1, <3>3 DEF OneRunning
    <3>5. GenerationsPass'
      BY <2>1, <2>3, <3>2, <3>3 DEF GenerationsPass
    <3>6. HandlesIssued'
      BY <1>1, <2>1, <2>4, <3>2 DEF HandlesIssued
    <3>7. HandlesUnspent'
      <4>1. confirms[p.id] = 0
        BY DEF HandlesUnspent
      <4>2. QED
        BY <4>1, <1>1, <2>2, <2>3, <3>2, <3>3 DEF HandlesUnspent
    <3>8. DispatchedWaits' /\ HonestReport'
      BY <1>1, <3>2 DEF DispatchedWaits, HonestReport
    <3>9. QED
      BY <3>4, <3>5, <3>6, <3>7, <3>8, <2>5
  <2>8. QED BY <2>6, <2>7
<1>4. QED BY <1>2, <1>3

\* Send: a confirmation is counted, and its handle is not in the map any more.
LEMMA SendKeepsInvariant ==
    ASSUME IInv, TypeOK', NEW c \in Callers, Send(c)
    PROVE  IInv'
<1> USE DEF IInv, TypeOK
<1>1. /\ pc[c] = "send" /\ ~op[c].dispatched
      /\ UNCHANGED sessionVars /\ opMu' = opMu
  BY DEF Send, DispatchedWaits
<1>2. /\ pc'[c] = "wait"
      /\ op' = [op EXCEPT ![c] = [op[c] EXCEPT !.dispatched = (op[c].phase = 2)]]
      /\ \A d \in Callers : d # c => pc'[d] = pc[d]
  BY DEF Send, Goto
<1>3. /\ op'[c].kind = op[c].kind /\ op'[c].handle = op[c].handle
      /\ op'[c].gen = op[c].gen /\ op'[c].phase = op[c].phase
      /\ op'[c].dispatched <=> op[c].phase = 2
      /\ \A d \in Callers : d # c => op'[d] = op[d]
  BY <1>2 DEF Operation
<1>4. \A d \in Callers : Running(d)' <=> Running(d)
  BY <1>1, <1>2, <1>3 DEF Running
<1>5. \A d \in Callers : op'[d].kind = op[d].kind /\ op'[d].handle = op[d].handle
                         /\ op'[d].gen = op[d].gen
  BY <1>3
<1>6. OneRunning' /\ GenerationsPass' /\ HandlesIssued'
  BY <1>1, <1>4, <1>5 DEF OneRunning, GenerationsPass, HandlesIssued, sessionVars
<1>7. DispatchedWaits' /\ HonestReport'
  BY <1>2, <1>3 DEF DispatchedWaits, HonestReport, MayWrite
<1>8. NilMapMeansOver' /\ LivePreviewsCurrent'
  BY <1>1, Zenon DEF NilMapMeansOver, LivePreviewsCurrent, sessionVars
<1>9. HandlesUnspent' /\ SingleConfirmation'
  <2>1. CASE op[c].kind = "confirm" /\ op[c].phase = 2
    <3>1. Running(c)
      BY <1>1, <2>1 DEF Running
    <3>2. /\ op[c].handle \in Handles /\ op[c].handle <= nextID
          /\ confirms[op[c].handle] = 0
          /\ \A p \in previews : p.id # op[c].handle
      BY <1>1, <2>1, <3>1 DEF HandlesUnspent, HandlesIssued
    <3>3. confirms' = [confirms EXCEPT ![op[c].handle] = @ + 1]
      BY <2>1 DEF Send
    <3>4. /\ confirms'[op[c].handle] = 1
          /\ \A h \in Handles : h # op[c].handle => confirms'[h] = confirms[h]
      BY <3>2, <3>3
    <3>5. SingleConfirmation'
      BY <3>4 DEF SingleConfirmation
    <3>6. \A h \in Handles : nextID' < h => confirms'[h] = 0
      BY <1>1, <3>2, <3>4 DEF HandlesUnspent, sessionVars, Handles
    <3>7. \A p \in previews' : confirms'[p.id] = 0
      BY <1>1, <3>2, <3>4 DEF HandlesUnspent, sessionVars, PendingPreview
    <3>8. \A d \in Callers : Running(d) => d = c
      BY <3>1, CallersAssumption DEF OneRunning
    <3>9. QED
      BY <1>1, <1>3, <1>4, <2>1, <3>2, <3>5, <3>6, <3>7, <3>8
         DEF HandlesUnspent, sessionVars
  <2>2. CASE ~(op[c].kind = "confirm" /\ op[c].phase = 2)
    <3>1. confirms' = confirms
      BY <2>2 DEF Send
    <3>2. \A d \in Callers : op[d].kind = "confirm" /\ ~op'[d].dispatched => ~op[d].dispatched
      BY <1>1, <1>3, <2>2
    <3>3. QED
      BY <1>1, <1>4, <1>5, <3>1, <3>2 DEF HandlesUnspent, SingleConfirmation, sessionVars
  <2>3. QED BY <2>1, <2>2
<1>10. QED
  BY <1>6, <1>7, <1>8, <1>9

\* PreviewReturned: a preview is entered under a handle nobody has used.
LEMMA PreviewReturnedKeepsInvariant ==
    ASSUME IInv, TypeOK', NEW c \in Callers, PreviewReturned(c)
    PROVE  IInv'
<1> USE DEF IInv, TypeOK
<1>1. /\ Return(c, "returned") /\ Keep(op[c]) /\ confirms' = confirms
      /\ Running(c) /\ nextID < MaxPreviews
  BY DEF PreviewReturned, Answered, Running
<1>2. Calm
  BY <1>1, CalmReturn DEF Outcomes
<1>3. CASE UNCHANGED sessionVars
  BY <1>2, <1>3, CalmKeepsInvariant
<1>4. CASE ~UNCHANGED sessionVars
  <2>1. /\ version = op[c].gen /\ ~closed
        /\ nextID' = nextID + 1
        /\ previews' = previews \cup {[id |-> nextID + 1, tool |-> op[c].tool,
                                       rev |-> op[c].rev, generation |-> op[c].gen]}
        /\ UNCHANGED <<closed, authChanged, version, nilPreviews>>
    BY <1>1, <1>4, Zenon DEF Keep
  <2>2. ~authChanged
    BY <1>1, <2>1 DEF GenerationsPass
  <2>3. nextID + 1 \in Handles
    BY <1>1, BoundsAssumption DEF Handles
  <2>4. OneRunning' /\ DispatchedWaits' /\ HonestReport'
    BY <1>2 DEF Calm, OneRunning
  <2>5. GenerationsPass'
    BY <1>2, <2>1 DEF Calm, GenerationsPass
  <2>6. \A p \in previews' : \/ p \in previews /\ p.id <= nextID
                             \/ p.id = nextID + 1 /\ p \notin previews
    BY <2>1 DEF HandlesIssued
  <2>7. \A p, q \in previews' : p.id = q.id => p = q
    BY <2>1 DEF HandlesIssued, PendingPreview, Handles
  <2>8. HandlesIssued'
    <3>1. \A p \in previews' : p.id <= nextID'
      BY <2>1, <2>6 DEF PendingPreview, Handles
    <3>2. \A d \in Callers : op'[d].handle <= nextID'
      BY <1>2, <2>1 DEF Calm, Operation
    <3>3. QED
      BY <2>7, <3>1, <3>2 DEF HandlesIssued
  <2>9. HandlesUnspent'
    <3>1. \A h \in Handles : nextID' < h => confirms'[h] = 0
      BY <1>1, <2>1 DEF HandlesUnspent, Handles
    <3>2. \A p \in previews' : confirms'[p.id] = 0
      BY <1>1, <2>3, <2>6 DEF HandlesUnspent
    <3>3. \A d \in Callers : ~Running(d)'
      <4>1. pc'[c] = "idle"
        BY <1>1 DEF Return, Goto
      <4>2. \A d \in Callers : Running(d) => d = c
        BY <1>1, CallersAssumption DEF OneRunning
      <4>3. QED
        BY <1>2, <4>1, <4>2 DEF Calm, Running
    <3>4. QED
      BY <3>1, <3>2, <3>3 DEF HandlesUnspent
  <2>10. NilMapMeansOver' /\ SingleConfirmation'
    BY <1>1, <2>1 DEF NilMapMeansOver, SingleConfirmation
  <2>11. LivePreviewsCurrent'
    BY <2>1, <2>2 DEF LivePreviewsCurrent
  <2>12. QED
    BY <2>4, <2>5, <2>8, <2>9, <2>10, <2>11
<1>5. QED BY <1>3, <1>4

-----------------------------------------------------------------------------
(* The calm steps.                                                           *)

\* Request: an idle caller that starts waiting disturbs nothing.
LEMMA RequestKeepsInvariant ==
    ASSUME IInv, TypeOK', NEW c \in Callers, Request(c)
    PROVE  IInv'
<1> USE DEF IInv, TypeOK
<1>1. PICK o : /\ op' = [op EXCEPT ![c] = o]
               /\ o.handle <= nextID /\ o.dispatched = FALSE /\ o.outcome = "none"
  <2>1. PICK kind \in Kinds, tool \in Tools, rev \in Revisions, handle \in 0..nextID :
           op' = [op EXCEPT ![c] =
                     [kind |-> kind, tool |-> tool, rev |-> rev, handle |-> handle,
                      gen |-> 0, phase |-> 1, before |-> 0, token |-> 0,
                      dispatched |-> FALSE, outcome |-> "none"]]
    BY Zenon DEF Request
  <2>2. handle <= nextID
    OBVIOUS
  <2> DEFINE asked == [kind |-> kind, tool |-> tool, rev |-> rev, handle |-> handle,
                       gen |-> 0, phase |-> 1, before |-> 0, token |-> 0,
                       dispatched |-> FALSE, outcome |-> "none"]
  <2>3. op' = [op EXCEPT ![c] = asked]
    BY <2>1
  <2>4. asked.handle <= nextID /\ asked.dispatched = FALSE /\ asked.outcome = "none"
    BY <2>2
  <2> HIDE DEF asked
  <2>5. QED BY <2>3, <2>4
<1>2. /\ pc'[c] = "lock" /\ op'[c] = o
      /\ \A d \in Callers : d # c => pc'[d] = pc[d] /\ op'[d] = op[d]
      /\ UNCHANGED sessionVars /\ opMu' = opMu /\ confirms' = confirms
  BY <1>1 DEF Request, Goto
<1>3. \A d \in Callers : Running(d)' => d # c /\ Running(d) /\ opMu' = d
  BY <1>2 DEF Running, OneRunning
<1>4. \A d \in Callers : op'[d].handle <= nextID
  BY <1>1, <1>2 DEF HandlesIssued
<1>5. DispatchedWaits' /\ HonestReport'
  BY <1>1, <1>2 DEF DispatchedWaits, HonestReport, MayWrite
<1>6. Calm
  BY <1>2, <1>3, <1>4, <1>5 DEF Calm
<1>7. QED
  BY <1>2, <1>6, CalmKeepsInvariant

\* Close: it voids an open session, whatever runs.
LEMMA CloseKeepsInvariant ==
    ASSUME IInv, TypeOK', NEW c \in Callers, Close(c)
    PROVE  IInv'
<1> USE DEF IInv, TypeOK
<1>1. /\ pc[c] = "lock" /\ op[c].kind = "close" /\ ~op[c].dispatched
      /\ confirms' = confirms
  BY DEF Close, DispatchedWaits
<1>2. UNCHANGED sessionVars \/ Voided
  BY Zenon DEF Close, Voided
<1>3. CASE Return(c, "returned")
  BY <1>1, <1>2, <1>3, CalmReturn, CalmKeepsInvariant DEF Outcomes
<1>4. CASE ~Return(c, "returned")
  <2>1. /\ pc' = [pc EXCEPT ![c] = "token"] /\ op' = op /\ opMu' = opMu
    BY <1>4 DEF Close, Goto
  <2>2. op' = [op EXCEPT ![c] = op[c]] /\ "token" \notin {"idle", "lock"}
    BY <2>1
  <2>3. Calm
    BY <1>1, <2>1, <2>2, CalmProgress, Zenon
  <2>4. QED
    BY <1>2, <2>3, CalmKeepsInvariant
<1>5. QED BY <1>3, <1>4

\* Environment: other processes and callbacks touch no caller.
LEMMA EnvironmentKeepsInvariant ==
    ASSUME IInv, TypeOK', Environment
    PROVE  IInv'
<1> USE DEF IInv, TypeOK
<1>1. pc' = pc /\ op' = op /\ opMu' = opMu /\ confirms' = confirms
  BY DEF Environment, Invalidate, LoginStarts, LoginSaves, LoginEnds, RefreshSaves, Logout,
             EnvironmentKeeps
<1>2. UNCHANGED sessionVars \/ Voided
  <2>1. CASE Invalidate
    BY <2>1, InvalidationVoids DEF Invalidate
  <2>2. CASE ~Invalidate
    BY <2>2 DEF Environment, LoginStarts, LoginSaves, LoginEnds,
                RefreshSaves, Logout, EnvironmentKeeps
  <2>3. QED BY <2>1, <2>2
<1>3. Calm
  BY <1>1 DEF Calm, Running, OneRunning, DispatchedWaits, HonestReport, MayWrite,
              HandlesIssued
<1>4. QED
  BY <1>2, <1>3, CalmKeepsInvariant

\* RoundTrip up to the wire: the request goes on or is refused undispatched.
LEMMA RoundTripKeepsInvariant ==
    ASSUME IInv, TypeOK', NEW c \in Callers, RoundTrip(c), ~Send(c)
    PROVE  IInv'
<1> USE DEF IInv, TypeOK
<1>1. pc[c] \in {"token", "access", "refresh", "verify", "guard"}
  BY DEF RoundTrip, TokenBefore, AccessToken, Refresh, TokenAfter, Guard, Cancelled
<1>2. ~op[c].dispatched /\ confirms' = confirms
  BY <1>1 DEF DispatchedWaits, RoundTrip, TokenBefore, AccessToken, Refresh, TokenAfter,
              Guard, Cancelled
<1>3. UNCHANGED sessionVars \/ Voided
  <2>1. UNCHANGED sessionVars \/ InvalidatePreviews \/ InvalidateAuthentication
    BY Zenon DEF RoundTrip, TokenBefore, AccessToken, Refresh, TokenAfter, Guard, Cancelled
  <2>2. QED BY <2>1, InvalidationVoids
<1>4. CASE NotDispatched(c)
  <2>1. Calm
    BY <1>2, <1>4, CalmReturn DEF NotDispatched, Outcomes
  <2>2. QED
    BY <1>3, <2>1, CalmKeepsInvariant
<1>5. CASE ~NotDispatched(c)
  <2>1. /\ opMu' = opMu
        /\ \E place \in {"access", "refresh", "verify", "guard", "send"} : Goto(c, place)
    BY <1>5 DEF RoundTrip, TokenBefore, AccessToken, Refresh, TokenAfter, Guard, Cancelled
  <2>2. \/ UNCHANGED op
        \/ \E n \in Nat : op' = [op EXCEPT ![c].before = n]
        \/ \E n \in Nat : op' = [op EXCEPT ![c].token = n]
    BY <1>5 DEF RoundTrip, TokenBefore, AccessToken, Refresh, TokenAfter, Guard, Cancelled
  <2>3. PICK place \in {"access", "refresh", "verify", "guard", "send"} : Goto(c, place)
    BY <2>1
  <2>4. place \in Places /\ place \notin {"idle", "lock"}
    BY DEF Places
  <2>5. Calm
    BY <1>1, <1>2, <2>1, <2>2, <2>3, <2>4, RequestGoesOn
  <2>6. QED
    BY <1>3, <2>5, CalmKeepsInvariant
<1>6. QED BY <1>4, <1>5

\* Answers other than a preview: the operation goes on to its second request or
\* returns; a plain error is never the report of a dispatched write.
LEMMA AnswerKeepsInvariant ==
    ASSUME IInv, TypeOK', NEW c \in Callers, Answer(c), ~PreviewReturned(c)
    PROVE  IInv'
<1> USE DEF IInv, TypeOK
<1>1. pc[c] = "wait" /\ confirms' = confirms
  BY DEF Answer, Answered, CatalogueListed, ResourcesListed, ToolsListed, CatalogueLoaded,
         Completed, Unauthorized, Lost, SessionEnded
<1>2. UNCHANGED sessionVars \/ Voided
  <2>1. CASE Unauthorized(c)
    BY <2>1, InvalidationVoids DEF Unauthorized
  <2>2. CASE ~Unauthorized(c)
    BY <2>2 DEF Answer, CatalogueListed, ResourcesListed, ToolsListed, CatalogueLoaded,
                Completed, Lost, SessionEnded
  <2>3. QED BY <2>1, <2>2
<1>3. op[c].phase = 1 => ~op[c].dispatched
  BY <1>1 DEF DispatchedWaits
<1>4. CASE SecondRequest(c) /\ op[c].phase = 1
  <2>1. Calm
    BY <1>1, <1>4, RequestGoesOn DEF SecondRequest, Places
  <2>2. QED BY <1>2, <2>1, CalmKeepsInvariant
<1>5. CASE \E outcome \in Outcomes :
             /\ Return(c, outcome)
             /\ outcome = "failed" => op[c].phase = 1 \/ ~MayWrite(op[c])
  <2>1. Calm
    BY <1>1, <1>3, <1>5, CalmReturn
  <2>2. QED BY <1>2, <2>1, CalmKeepsInvariant
<1>6. QED
  <2>1. CASE CatalogueListed(c) \/ ResourcesListed(c) \/ ToolsListed(c)
    BY <2>1, <1>4, <1>5
       DEF CatalogueListed, ResourcesListed, ToolsListed, Answered, Outcomes
  <2>2. CASE CatalogueLoaded(c)
    <3>1. ~MayWrite(op[c])
      BY <2>2 DEF CatalogueLoaded, Answered, MayWrite
    <3>2. QED
      BY <2>2, <3>1, <1>5 DEF CatalogueLoaded, Outcomes
  <2>3. CASE Lost(c)
    <3>1. op[c].phase \in {1, 2}
      BY DEF Operation
    <3>2. LossOutcome(op[c]) = "failed" => op[c].phase = 1 \/ ~MayWrite(op[c])
      BY <3>1 DEF LossOutcome
    <3>3. LossOutcome(op[c]) \in Outcomes
      BY DEF LossOutcome, Outcomes
    <3>4. QED
      BY <2>3, <3>2, <3>3, <1>5 DEF Lost
  <2>4. CASE Completed(c) \/ Unauthorized(c) \/ SessionEnded(c)
    BY <2>4, <1>5 DEF Completed, Unauthorized, SessionEnded, Outcomes
  <2>5. QED
    BY <2>1, <2>2, <2>3, <2>4 DEF Answer

-----------------------------------------------------------------------------
\* The inductive invariant holds in every reachable state of every instance.
THEOREM Safety == Spec => []IInv
<1>1. Init => IInv
  <2> SUFFICES ASSUME Init PROVE IInv
    OBVIOUS
  <2>1. TypeOK
    BY InitTypes
  <2>2. /\ \A c \in Callers : pc[c] = "idle" /\ op[c] = NoOperation
        /\ previews = {} /\ nextID = 0 /\ ~nilPreviews
        /\ \A h \in Handles : confirms[h] = 0
    BY Zenon DEF Init
  <2>3. /\ NoOperation.handle = 0 /\ NoOperation.dispatched = FALSE
        /\ NoOperation.outcome = "none"
    BY DEF NoOperation
  <2>4. OneRunning /\ GenerationsPass
    BY <2>2 DEF OneRunning, GenerationsPass, Running
  <2>5. HandlesIssued
    BY <2>2, <2>3 DEF HandlesIssued
  <2>6. HandlesUnspent
    BY <2>2 DEF HandlesUnspent, Running
  <2>7. DispatchedWaits /\ HonestReport
    BY <2>2, <2>3 DEF DispatchedWaits, HonestReport
  <2>8. NilMapMeansOver /\ SingleConfirmation /\ LivePreviewsCurrent
    BY <2>2 DEF NilMapMeansOver, SingleConfirmation, LivePreviewsCurrent
  <2>9. QED
    BY <2>1, <2>4, <2>5, <2>6, <2>7, <2>8 DEF IInv
<1>2. IInv /\ TypeOK' /\ [Next]_vars => IInv'
  <2> SUFFICES ASSUME IInv, TypeOK', [Next]_vars PROVE IInv'
    OBVIOUS
  <2>1. CASE Environment
    BY <2>1, EnvironmentKeepsInvariant
  <2>2. ASSUME NEW c \in Callers, Request(c) PROVE IInv'
    BY <2>2, RequestKeepsInvariant
  <2>3. ASSUME NEW c \in Callers, Start(c) PROVE IInv'
    BY <2>3, BeginKeepsInvariant, BeginConfirmKeepsInvariant, CloseKeepsInvariant DEF Start
  <2>4. ASSUME NEW c \in Callers, RoundTrip(c) PROVE IInv'
    BY <2>4, SendKeepsInvariant, RoundTripKeepsInvariant
  <2>5. ASSUME NEW c \in Callers, Answer(c) PROVE IInv'
    BY <2>5, PreviewReturnedKeepsInvariant, AnswerKeepsInvariant
  <2>6. CASE UNCHANGED vars
    <3>1. UNCHANGED sessionVars /\ confirms' = confirms /\ pc' = pc /\ op' = op /\ opMu' = opMu
      BY <2>6 DEF vars
    <3>2. Calm
      BY <3>1 DEF Calm, Running, OneRunning, DispatchedWaits, HonestReport, MayWrite,
                  HandlesIssued, IInv, TypeOK
    <3>3. QED
      BY <3>1, <3>2, CalmKeepsInvariant DEF IInv
  <2>7. QED
    BY <2>1, <2>2, <2>3, <2>4, <2>5, <2>6 DEF Next
<1>3. QED
  BY <1>1, <1>2, TypeCorrect, PTL DEF Spec

\* A handle is confirmed on the wire at most once: Confirm deletes the preview in
\* the critical section that looks it up, and no later answer brings it back.
THEOREM ConfirmedOnce == Spec => []SingleConfirmation
<1>1. IInv => SingleConfirmation
  BY DEF IInv
<1>2. QED BY <1>1, Safety, PTL

\* No preview outlives its generation, its session or its grant.
THEOREM NoStalePreview == Spec => []LivePreviewsCurrent
<1>1. IInv => LivePreviewsCurrent
  BY DEF IInv
<1>2. QED BY <1>1, Safety, PTL

\* A plain error is never the report of a write that went on the wire.
THEOREM HonestlyReported == Spec => []HonestReport
<1>1. IInv => HonestReport
  BY DEF IInv
<1>2. QED BY <1>1, Safety, PTL

\* Invoke never writes to the map Close or a grant change left nil, because both
\* moved the generation it compares first.
THEOREM NilMapNeverWritten == Spec => NilMapUntouched
<1>1. IInv /\ [Next]_vars => [nextID' # nextID => ~nilPreviews]_vars
  <2> SUFFICES ASSUME IInv, Next, nextID' # nextID PROVE ~nilPreviews
    BY DEF vars, sessionVars
  <2>1. PICK c \in Callers : PreviewReturned(c)
    <3>1. \A c \in Callers : ~Start(c) /\ ~Request(c) /\ ~RoundTrip(c)
      BY Zenon DEF Start, Begin, BeginConfirm, Consume, Close, Request, RoundTrip,
         TokenBefore, AccessToken, Refresh, TokenAfter, Guard, Cancelled, Send,
         InvalidatePreviews, InvalidateAuthentication, sessionVars
    <3>2. ~Environment
      BY DEF Environment, Invalidate, LoginStarts, LoginSaves, LoginEnds, RefreshSaves, Logout,
             EnvironmentKeeps,
             InvalidatePreviews, sessionVars
    <3>3. \A c \in Callers : Answer(c) => PreviewReturned(c)
      BY Zenon DEF Answer, CatalogueListed, ResourcesListed, ToolsListed, CatalogueLoaded,
         Completed, Unauthorized, Lost, SessionEnded, InvalidatePreviews, sessionVars
    <3>4. QED
      BY <3>1, <3>2, <3>3 DEF Next
  <2>2. ~closed /\ version = op[c].gen /\ Running(c)
    BY <2>1 DEF PreviewReturned, Keep, Answered, Running, sessionVars
  <2>3. ~authChanged
    BY <2>2 DEF IInv, GenerationsPass
  <2>4. QED
    BY <2>2, <2>3 DEF IInv, NilMapMeansOver
<1>2. QED
  BY <1>1, Safety, PTL DEF Spec, NilMapUntouched

-----------------------------------------------------------------------------
(* The session keeps the promise of PreviewLifecycle. Every step of it is a *)
(* step of one handle, an invalidation, or none of the handles' business.   *)

\* What the phase of a handle is read from.
Live(h)         == \E p \in previews : p.id = h
SendingBy(c, h) == Confirming(c, h) /\ op[c].phase = 2 /\ pc[c] = "send"
HeldBy(c, h)    == Confirming(c, h) /\ Current(op[c].gen)

LEMMA PhaseMeans ==
    \A h \in Handles :
        PhaseOf(h) = IF h > nextID THEN "unissued"
                     ELSE IF Live(h) THEN "live"
                     ELSE IF confirms[h] > 0 THEN "sent"
                     ELSE IF \E c \in Callers : SendingBy(c, h) THEN "authorised"
                     ELSE IF \E c \in Callers : HeldBy(c, h) THEN "claimed"
                     ELSE "void"
BY DEF PhaseOf, Live, SendingBy, HeldBy

\* The same, after a step.
LEMMA PhaseMeansNext ==
    \A h \in Handles :
        PhaseOf(h)' = IF h > nextID' THEN "unissued"
                      ELSE IF Live(h)' THEN "live"
                      ELSE IF confirms'[h] > 0 THEN "sent"
                      ELSE IF \E c \in Callers : SendingBy(c, h)' THEN "authorised"
                      ELSE IF \E c \in Callers : HeldBy(c, h)' THEN "claimed"
                      ELSE "void"
BY DEF PhaseOf, Live, SendingBy, HeldBy

\* A handle that is being confirmed was issued and is not live; one that may still be
\* authorised or sent has not been sent, and one caller alone is at it.
LEMMA ConfirmingFacts ==
    ASSUME IInv, NEW c \in Callers, NEW h \in Handles, Confirming(c, h)
    PROVE  /\ h <= nextID /\ ~Live(h)
           /\ pc[c] # "wait" => confirms[h] = 0
           /\ op[c].gen <= version
           /\ \A d \in Callers, g \in Handles : Confirming(d, g) => d = c /\ g = h
<1> USE DEF IInv
<1>1. Running(c) /\ op[c].kind = "confirm" /\ op[c].handle = h
  BY DEF Confirming, Running
<1>2. h <= nextID
  BY <1>1 DEF HandlesIssued
<1>3. ~Live(h)
  BY <1>1 DEF HandlesUnspent, Live
<1>4. pc[c] # "wait" => ~op[c].dispatched
  BY <1>1 DEF DispatchedWaits, Running
<1>5. pc[c] # "wait" => confirms[h] = 0
  BY <1>1, <1>4 DEF HandlesUnspent
<1>6. op[c].gen <= version
  BY <1>1 DEF GenerationsPass
<1>7. \A d \in Callers : Running(d) => d = c
  BY <1>1 DEF OneRunning
<1>8. \A d \in Callers, g \in Handles : Confirming(d, g) => d = c /\ g = h
  BY <1>1, <1>7 DEF Confirming, Running
<1> QED BY <1>2, <1>3, <1>5, <1>6, <1>8

\* The confirmations go on as they were, are not authorised or sent, and may end.
Steady ==
    /\ \A c \in Callers, h \in Handles :
          /\ Confirming(c, h)' => Confirming(c, h) /\ op'[c].gen = op[c].gen
          /\ SendingBy(c, h)' <=> SendingBy(c, h)
    /\ confirms' = confirms

\* Where nothing happens to the session, a handle whose confirmation goes on is what
\* it was.
LEMMA PhaseStays ==
    ASSUME Steady, UNCHANGED sessionVars, NEW h \in Handles,
           \A c \in Callers : Confirming(c, h) => Confirming(c, h)'
    PROVE  PhaseOf(h)' = PhaseOf(h)
<1>1. \A c \in Callers : (HeldBy(c, h)' <=> HeldBy(c, h)) /\ (SendingBy(c, h)' <=> SendingBy(c, h))
  BY DEF Steady, HeldBy, Current, sessionVars
<1>2. (Live(h)' <=> Live(h)) /\ nextID' = nextID /\ confirms' = confirms
  BY DEF Live, sessionVars, Steady
<1> HIDE DEF Steady
<1> QED BY <1>1, <1>2, PhaseMeans, PhaseMeansNext

\* What every step does to the handles.
PhaseStep ==
    \/ Lifecycle!Next
    \/ [h \in Handles |-> PhaseOf(h)]' = [h \in Handles |-> PhaseOf(h)]

\* A confirmation that ends without having been authorised loses its handle.
LEMMA ConfirmationEnds ==
    ASSUME IInv, Steady, UNCHANGED sessionVars, NEW c \in Callers,
           \A d \in Callers \ {c}, h \in Handles : Confirming(d, h) => Confirming(d, h)',
           \A h \in Handles : ~Confirming(c, h)'
    PROVE  PhaseStep
<1> USE DEF PhaseStep
<1>1. CASE \A h \in Handles : ~Confirming(c, h)
  <2>1. \A h \in Handles : PhaseOf(h)' = PhaseOf(h)
    BY <1>1, PhaseStays
  <2> QED BY <2>1
<1>2. ASSUME NEW h \in Handles, Confirming(c, h)
      PROVE  PhaseStep
  <2>1. \A g \in Handles : g # h => \A d \in Callers : ~Confirming(d, g)
    BY <1>2, ConfirmingFacts
  <2>2. \A g \in Handles : g # h => PhaseOf(g)' = PhaseOf(g)
    BY <2>1, PhaseStays
  <2>3. \A d \in Callers : ~HeldBy(d, h)'
    BY <1>2, ConfirmingFacts DEF HeldBy, Steady
  <2>4. /\ ~Live(h) /\ h <= nextID /\ (Live(h)' <=> Live(h)) /\ nextID' = nextID
        /\ confirms' = confirms
        /\ \A d \in Callers : SendingBy(d, h)' <=> SendingBy(d, h)
    BY <1>2, ConfirmingFacts DEF Live, sessionVars, Steady
  <2>5. PhaseOf(h)' = PhaseOf(h) \/ (PhaseOf(h) = "claimed" /\ PhaseOf(h)' = "void")
    BY <2>3, <2>4, PhaseMeans, PhaseMeansNext
  <2>6. CASE PhaseOf(h)' = PhaseOf(h)
    BY <2>2, <2>6
  <2>7. CASE PhaseOf(h) = "claimed" /\ PhaseOf(h)' = "void"
    <3>1. [g \in Handles |-> PhaseOf(g)]' = [[g \in Handles |-> PhaseOf(g)] EXCEPT ![h] = "void"]
      BY <2>2, <2>7
    <3>2. Lifecycle!Move(h, "claimed", "void")
      BY <2>7, <3>1 DEF Lifecycle!Move
    <3> QED BY <3>2 DEF Lifecycle!Next, Lifecycle!Drop
  <2> QED BY <2>5, <2>6, <2>7
<1> QED BY <1>1, <1>2

\* An invalidation voids all handles that are live or claimed, whatever else its step
\* does.
LEMMA AllRevoked ==
    ASSUME IInv, Steady, Voided
    PROVE  Lifecycle!Next
<1> SUFFICES ASSUME NEW h \in Handles
             PROVE  PhaseOf(h)' = IF PhaseOf(h) \in {"live", "claimed"} THEN "void" ELSE PhaseOf(h)
  BY DEF Lifecycle!Next, Lifecycle!Revoke
<1>1. ~Live(h)' /\ nextID' = nextID /\ confirms' = confirms
  BY DEF Voided, Live, Steady
<1>2. \A c \in Callers : SendingBy(c, h)' <=> SendingBy(c, h)
  BY DEF Steady
<1>3. \A c \in Callers : ~HeldBy(c, h)'
  <2> SUFFICES ASSUME NEW c \in Callers, Confirming(c, h)', Current(op[c].gen)' PROVE FALSE
    BY DEF HeldBy
  <2>1. op'[c].gen = op[c].gen /\ op[c].gen <= version
    BY ConfirmingFacts DEF Steady
  <2>2. version' = version + 1 /\ version' = op'[c].gen
    BY DEF Voided, Current
  <2>3. version \in Nat /\ op[c].gen \in Nat
    BY DEF IInv, TypeOK, Operation
  <2> QED BY <2>1, <2>2, <2>3
<1>4. Live(h) => confirms[h] = 0 /\ \A c \in Callers : ~SendingBy(c, h)
  BY ConfirmingFacts DEF IInv, HandlesUnspent, Live, SendingBy
<1>5. confirms[h] \in Nat /\ nextID \in Nat /\ h \in Nat
  BY DEF IInv, TypeOK, Handles
<1> QED BY <1>1, <1>2, <1>3, <1>4, <1>5, PhaseMeans, PhaseMeansNext

\* A step that is not about a confirmation leaves the handles alone, unless it
\* invalidates the session.
LEMMA NotConfirming ==
    ASSUME IInv, confirms' = confirms, UNCHANGED sessionVars \/ Voided,
           \A c \in Callers :
              \/ op'[c] = op[c] /\ pc'[c] = pc[c]
              \/ \A h \in Handles : ~Confirming(c, h) /\ ~Confirming(c, h)'
    PROVE  PhaseStep
<1>1. Steady /\ \A c \in Callers, h \in Handles : Confirming(c, h) => Confirming(c, h)'
  BY DEF Steady, Confirming, SendingBy
<1>2. CASE Voided
  BY <1>1, <1>2, AllRevoked DEF PhaseStep
<1>3. CASE UNCHANGED sessionVars
  <2>1. \A h \in Handles : PhaseOf(h)' = PhaseOf(h)
    BY <1>1, <1>3, PhaseStays
  <2> QED BY <2>1 DEF PhaseStep
<1> QED BY <1>2, <1>3

\* So does an operation that goes on, unless its confirmation is authorised or sent.
LEMMA GoingOn ==
    ASSUME IInv, confirms' = confirms, UNCHANGED sessionVars \/ Voided,
           NEW c \in Callers, pc[c] \notin {"idle", "lock"},
           NEW place \in Places \ {"idle", "lock"}, Goto(c, place),
           op'[c].kind = op[c].kind, op'[c].handle = op[c].handle, op'[c].gen = op[c].gen,
           \A d \in Callers \ {c} : op'[d] = op[d],
           \A h \in Handles : ~SendingBy(c, h) /\ ~SendingBy(c, h)'
    PROVE  PhaseStep
<1>1. pc'[c] = place /\ \A d \in Callers \ {c} : pc'[d] = pc[d]
  BY DEF Goto, IInv, TypeOK
<1>2. Steady /\ \A d \in Callers, h \in Handles : Confirming(d, h) => Confirming(d, h)'
  <2>1. ASSUME NEW d \in Callers, NEW h \in Handles
        PROVE  /\ Confirming(d, h)' <=> Confirming(d, h)
               /\ op'[d].gen = op[d].gen
               /\ SendingBy(d, h)' <=> SendingBy(d, h)
    <3>1. CASE d = c
      BY <1>1, <3>1 DEF Confirming, SendingBy
    <3>2. CASE d # c
      BY <1>1, <3>2 DEF Confirming, SendingBy
    <3> QED BY <3>1, <3>2
  <2> QED BY <2>1 DEF Steady
<1>3. CASE Voided
  BY <1>2, <1>3, AllRevoked DEF PhaseStep
<1>4. CASE UNCHANGED sessionVars
  <2>1. \A h \in Handles : PhaseOf(h)' = PhaseOf(h)
    BY <1>2, <1>4, PhaseStays
  <2> QED BY <2>1 DEF PhaseStep
<1> QED BY <1>3, <1>4

\* A return costs at most the handle of the confirmation that ends with it.
LEMMA Returning ==
    ASSUME IInv, confirms' = confirms, UNCHANGED sessionVars \/ Voided,
           NEW c \in Callers, pc[c] # "send", NEW outcome, Return(c, outcome)
    PROVE  PhaseStep
<1>1. pc'[c] = "idle" /\ \A d \in Callers \ {c} : pc'[d] = pc[d] /\ op'[d] = op[d]
  BY DEF Return, Goto, IInv, TypeOK
<1>2. \A h \in Handles : ~Confirming(c, h)' /\ ~SendingBy(c, h)' /\ ~SendingBy(c, h)
  BY <1>1 DEF Confirming, SendingBy
<1>3. \A d \in Callers \ {c}, h \in Handles :
         /\ Confirming(d, h)' <=> Confirming(d, h)
         /\ SendingBy(d, h)' <=> SendingBy(d, h)
  BY <1>1 DEF Confirming, SendingBy
<1>4. Steady
  BY <1>1, <1>2, <1>3 DEF Steady
<1>5. CASE Voided
  BY <1>4, <1>5, AllRevoked DEF PhaseStep
<1>6. CASE UNCHANGED sessionVars
  BY <1>2, <1>3, <1>4, <1>6, ConfirmationEnds
<1> QED BY <1>5, <1>6

\* Other processes and InvalidatePreviews from outside: no caller moves.
LEMMA EnvironmentPhases ==
    ASSUME IInv, Environment PROVE PhaseStep
<1>1. op' = op /\ pc' = pc /\ confirms' = confirms
  BY DEF Environment, Invalidate, LoginStarts, LoginSaves, LoginEnds, RefreshSaves, Logout,
             EnvironmentKeeps
<1>2. UNCHANGED sessionVars \/ Voided
  <2>1. CASE Invalidate
    BY <2>1, InvalidationVoids DEF Invalidate, IInv, TypeOK
  <2>2. CASE ~Invalidate
    BY <2>2 DEF Environment, LoginStarts, LoginSaves, LoginEnds,
                RefreshSaves, Logout, EnvironmentKeeps
  <2> QED BY <2>1, <2>2
<1> QED BY <1>1, <1>2, NotConfirming

\* Asking for an operation, even a confirmation, does nothing to a handle.
LEMMA RequestPhases ==
    ASSUME IInv, NEW c \in Callers, Request(c) PROVE PhaseStep
<1>1. /\ confirms' = confirms /\ UNCHANGED sessionVars
      /\ pc[c] = "idle" /\ pc'[c] = "lock"
      /\ \A d \in Callers \ {c} : pc'[d] = pc[d] /\ op'[d] = op[d]
  BY DEF Request, Goto, IInv, TypeOK
<1>2. \A h \in Handles : ~Confirming(c, h) /\ ~Confirming(c, h)'
  BY <1>1 DEF Confirming
<1> QED BY <1>1, <1>2, NotConfirming

\* Nor does the start of an operation that is not a confirmation, or the refusal of
\* one that is.
LEMMA BeginPhases ==
    ASSUME IInv, NEW c \in Callers, Begin(c) PROVE PhaseStep
<1>1. /\ confirms' = confirms /\ UNCHANGED sessionVars
      /\ pc[c] = "lock" /\ op[c].kind # "confirm"
  BY DEF Begin
<1>2. CASE Return(c, "failed")
  BY <1>1, <1>2, Returning
<1>3. CASE ~Return(c, "failed")
  <2>1. op' = [op EXCEPT ![c].gen = version] /\ Goto(c, "token")
    BY <1>3 DEF Begin
  <2>2. op'[c].kind = op[c].kind /\ \A d \in Callers \ {c} : pc'[d] = pc[d] /\ op'[d] = op[d]
    BY <2>1 DEF Goto, IInv, TypeOK, Operation
  <2>3. \A h \in Handles : ~Confirming(c, h) /\ ~Confirming(c, h)'
    BY <1>1, <2>2 DEF Confirming
  <2> QED BY <1>1, <2>2, <2>3, NotConfirming
<1> QED BY <1>2, <1>3

\* Close invalidates once, and is nobody's confirmation.
LEMMA ClosePhases ==
    ASSUME IInv, NEW c \in Callers, Close(c) PROVE PhaseStep
<1>1. confirms' = confirms /\ pc[c] = "lock" /\ op[c].kind = "close"
  BY DEF Close
<1>2. UNCHANGED sessionVars \/ Voided
  BY DEF Close, Voided
<1>3. CASE Return(c, "returned")
  BY <1>1, <1>2, <1>3, Returning
<1>4. CASE ~Return(c, "returned")
  <2>1. op' = op /\ Goto(c, "token")
    BY <1>4 DEF Close
  <2>2. \A d \in Callers \ {c} : pc'[d] = pc[d] /\ op'[d] = op[d]
    BY <2>1 DEF Goto, IInv, TypeOK
  <2>3. \A h \in Handles : ~Confirming(c, h) /\ ~Confirming(c, h)'
    BY <1>1, <2>1 DEF Confirming
  <2> QED BY <1>1, <1>2, <2>2, <2>3, NotConfirming
<1> QED BY <1>3, <1>4

\* Confirm spends its handle before anything else: the operation now holds it, or it
\* returned at once and nobody does.
LEMMA BeginConfirmPhases ==
    ASSUME IInv, NEW c \in Callers, BeginConfirm(c) PROVE PhaseStep
<1> USE DEF IInv, TypeOK
<1>1. confirms' = confirms /\ pc[c] = "lock" /\ op[c].kind = "confirm"
  BY DEF BeginConfirm
<1>2. CASE Return(c, "failed") /\ UNCHANGED sessionVars
  BY <1>1, <1>2, Returning
<1>3. CASE ~(Return(c, "failed") /\ UNCHANGED sessionVars)
  <2>1. PICK p \in previews :
           /\ p.id = op[c].handle /\ p.generation = version /\ ~closed /\ ~authChanged
           /\ Consume(p)
           /\ \/ Return(c, "failed")
              \/ /\ Goto(c, "token")
                 /\ op' = [op EXCEPT ![c] = [@ EXCEPT !.gen = p.generation,
                                    !.tool = p.tool, !.rev = p.rev]]
    BY <1>3, Zenon DEF BeginConfirm
  <2>2. PICK h \in Handles : h = op[c].handle /\ h = p.id
    BY <2>1 DEF PendingPreview
  <2>l. Live(h) /\ h <= nextID
    BY <2>2 DEF Live, HandlesIssued
  <2>3. /\ \A g \in Handles : Live(g)' <=> (g # h /\ Live(g))
        /\ nextID' = nextID /\ version' = version
        /\ closed' = closed /\ authChanged' = authChanged
    BY <2>1, <2>2 DEF Live, Consume, HandlesIssued
  <2>4. \A d \in Callers \ {c} : pc'[d] = pc[d] /\ op'[d] = op[d]
    BY <2>1 DEF Return, Goto
  <2>5. \A g \in Handles : ~Confirming(c, g)
    BY <1>1 DEF Confirming
  <2>6. \A g \in Handles : ~SendingBy(c, g) /\ ~SendingBy(c, g)'
    BY <1>1, <2>1 DEF SendingBy, Return, Goto
  <2>7. \A d \in Callers \ {c}, g \in Handles :
           /\ SendingBy(d, g)' <=> SendingBy(d, g)
           /\ HeldBy(d, g)' <=> HeldBy(d, g)
    BY <2>3, <2>4 DEF SendingBy, HeldBy, Confirming, Current
  <2>8. \A g \in Handles : ~HeldBy(c, g) /\ (g # h => ~HeldBy(c, g)')
    <3>1. \A g \in Handles : g # h => ~Confirming(c, g)'
      <4>1. CASE Return(c, "failed")
        BY <4>1 DEF Return, Goto, Confirming
      <4>2. CASE ~Return(c, "failed")
        BY <2>1, <2>2, <4>2 DEF Confirming, Operation
      <4> QED BY <4>1, <4>2
    <3> QED BY <2>5, <3>1 DEF HeldBy
  <2>9. confirms[h] = 0 /\ \A d \in Callers : ~Confirming(d, h)
    BY <2>2, <2>l, ConfirmingFacts DEF HandlesUnspent, Live
  <2>10. \A d \in Callers : ~SendingBy(d, h)' /\ (d # c => ~HeldBy(d, h)')
    BY <2>6, <2>7, <2>9 DEF SendingBy, HeldBy
  <2>11. \A g \in Handles : g # h => PhaseOf(g)' = PhaseOf(g)
    <3> SUFFICES ASSUME NEW g \in Handles, g # h PROVE PhaseOf(g)' = PhaseOf(g)
      OBVIOUS
    <3>1. \A d \in Callers : (SendingBy(d, g)' <=> SendingBy(d, g)) /\ (HeldBy(d, g)' <=> HeldBy(d, g))
      BY <2>6, <2>7, <2>8
    <3> QED BY <1>1, <2>3, <3>1, PhaseMeans, PhaseMeansNext
  <2>12. PhaseOf(h) = "live"
    BY <2>l, PhaseMeans DEF Handles
  <2>13. PhaseOf(h)' = IF HeldBy(c, h)' THEN "claimed" ELSE "void"
    BY <1>1, <2>l, <2>3, <2>9, <2>10, PhaseMeansNext DEF Handles
  <2>14. ASSUME NEW to, PhaseOf(h)' = to PROVE Lifecycle!Move(h, "live", to)
    <3>1. [g \in Handles |-> PhaseOf(g)]' = [[g \in Handles |-> PhaseOf(g)] EXCEPT ![h] = to]
      BY <2>2, <2>11, <2>14
    <3> QED BY <2>2, <2>12, <3>1 DEF Lifecycle!Move
  <2>15. Lifecycle!Claim(h) \/ Lifecycle!Drop(h)
    BY <2>13, <2>14 DEF Lifecycle!Claim, Lifecycle!Drop
  <2> QED BY <2>2, <2>15 DEF PhaseStep, Lifecycle!Next
<1> QED BY <1>2, <1>3

\* The way of a request up to its guard: it goes on or returns.
LEMMA RoundTripPhases ==
    ASSUME IInv, NEW c \in Callers, RoundTrip(c), ~Send(c), ~Guard(c)
    PROVE  PhaseStep
<1>1. /\ pc[c] \in {"token", "access", "refresh", "verify", "guard"}
      /\ confirms' = confirms
  BY DEF RoundTrip, TokenBefore, AccessToken, Refresh, TokenAfter, Cancelled
<1>2. UNCHANGED sessionVars \/ Voided
  <2>1. UNCHANGED sessionVars \/ InvalidatePreviews \/ InvalidateAuthentication
    BY Zenon DEF RoundTrip, TokenBefore, AccessToken, Refresh, TokenAfter, Cancelled
  <2> QED BY <2>1, InvalidationVoids DEF IInv
<1>3. CASE NotDispatched(c)
  BY <1>1, <1>2, <1>3, Returning DEF NotDispatched
<1>4. CASE ~NotDispatched(c)
  <2>1. PICK place \in {"access", "refresh", "verify", "guard"} : Goto(c, place)
    BY <1>4 DEF RoundTrip, TokenBefore, AccessToken, Refresh, TokenAfter, Cancelled
  <2>2. \/ UNCHANGED op
        \/ \E n : op' = [op EXCEPT ![c].before = n]
        \/ \E n : op' = [op EXCEPT ![c].token = n]
    BY <1>4 DEF RoundTrip, TokenBefore, AccessToken, Refresh, TokenAfter, Cancelled
  <2>3. /\ op'[c].kind = op[c].kind /\ op'[c].handle = op[c].handle /\ op'[c].gen = op[c].gen
        /\ \A d \in Callers \ {c} : op'[d] = op[d]
    BY <2>2 DEF IInv, TypeOK, Operation
  <2>4. \A h \in Handles : ~SendingBy(c, h) /\ ~SendingBy(c, h)'
    BY <1>1, <2>1 DEF SendingBy, Goto, IInv, TypeOK
  <2>5. place \in Places \ {"idle", "lock"}
    BY DEF Places
  <2> QED BY <1>1, <1>2, <2>1, <2>3, <2>4, <2>5, GoingOn
<1> QED BY <1>3, <1>4

\* The guard authorises a confirmation, of a handle that is still held, only in its
\* second request.
LEMMA GuardPhases ==
    ASSUME IInv, NEW c \in Callers, Guard(c) PROVE PhaseStep
<1> USE DEF IInv, TypeOK
<1>1. pc[c] = "guard" /\ confirms' = confirms /\ UNCHANGED sessionVars
  BY DEF Guard
<1>2. CASE NotDispatched(c)
  BY <1>1, <1>2, Returning DEF NotDispatched
<1>3. CASE ~NotDispatched(c)
  <2>1. (Guarded(op[c]) => Current(op[c].gen)) /\ Goto(c, "send") /\ op' = op
    BY <1>3 DEF Guard
  <2>2. pc'[c] = "send" /\ \A d \in Callers \ {c} : pc'[d] = pc[d]
    BY <2>1 DEF Goto
  <2>3. CASE ~(op[c].kind = "confirm" /\ op[c].phase = 2)
    <3>1. \A h \in Handles : ~SendingBy(c, h) /\ ~SendingBy(c, h)'
      BY <2>1, <2>3 DEF SendingBy, Confirming
    <3>2. "send" \in Places \ {"idle", "lock"}
      BY DEF Places
    <3> QED BY <1>1, <2>1, <3>1, <3>2, GoingOn
  <2>4. CASE op[c].kind = "confirm" /\ op[c].phase = 2
    <3>1. PICK h \in Handles : h = op[c].handle
      BY <1>1, <2>4 DEF HandlesUnspent, Running
    <3>2. Confirming(c, h) /\ Current(op[c].gen)
      BY <1>1, <2>1, <2>4, <3>1 DEF Confirming, Guarded
    <3>3. /\ h <= nextID /\ ~Live(h) /\ confirms[h] = 0
          /\ \A d \in Callers, g \in Handles : Confirming(d, g) => d = c /\ g = h
      BY <1>1, <3>2, ConfirmingFacts
    <3>4. \A g \in Handles : (Live(g)' <=> Live(g)) /\ nextID' = nextID
      BY <1>1 DEF Live, sessionVars
    <3>5. PhaseOf(h) = "claimed"
      <4>1. \A d \in Callers : ~SendingBy(d, h)
        BY <1>1, <3>3 DEF SendingBy
      <4>2. HeldBy(c, h)
        BY <3>2 DEF HeldBy
      <4> QED BY <3>3, <4>1, <4>2, PhaseMeans DEF Handles
    <3>6. PhaseOf(h)' = "authorised"
      <4>1. SendingBy(c, h)'
        BY <2>1, <2>2, <2>4, <3>2 DEF SendingBy, Confirming
      <4> QED BY <1>1, <3>3, <3>4, <4>1, PhaseMeansNext DEF Handles
    <3>7. \A g \in Handles : g # h => PhaseOf(g)' = PhaseOf(g)
      <4> SUFFICES ASSUME NEW g \in Handles, g # h PROVE PhaseOf(g)' = PhaseOf(g)
        OBVIOUS
      <4>1. \A d \in Callers : ~Confirming(d, g) /\ ~Confirming(d, g)'
        BY <1>1, <2>1, <2>2, <3>2, <3>3 DEF Confirming
      <4>2. \A d \in Callers : ~SendingBy(d, g) /\ ~SendingBy(d, g)' /\ ~HeldBy(d, g) /\ ~HeldBy(d, g)'
        BY <4>1 DEF SendingBy, HeldBy
      <4> QED BY <1>1, <3>4, <4>2, PhaseMeans, PhaseMeansNext
    <3>8. [g \in Handles |-> PhaseOf(g)]' = [[g \in Handles |-> PhaseOf(g)] EXCEPT ![h] = "authorised"]
      BY <3>6, <3>7
    <3>9. Lifecycle!Authorise(h)
      BY <3>5, <3>8 DEF Lifecycle!Authorise, Lifecycle!Move
    <3> QED BY <3>9 DEF PhaseStep, Lifecycle!Next
  <2> QED BY <2>3, <2>4
<1> QED BY <1>2, <1>3

\* What goes on the wire had been authorised.
LEMMA SendPhases ==
    ASSUME IInv, NEW c \in Callers, Send(c) PROVE PhaseStep
<1> USE DEF IInv, TypeOK
<1>1. pc[c] = "send" /\ UNCHANGED sessionVars /\ Goto(c, "wait")
  BY DEF Send
<1>2. pc'[c] = "wait" /\ \A d \in Callers \ {c} : pc'[d] = pc[d] /\ op'[d] = op[d]
  BY DEF Send, Goto
<1>3. /\ op'[c].kind = op[c].kind /\ op'[c].handle = op[c].handle /\ op'[c].gen = op[c].gen
      /\ op'[c].phase = op[c].phase
  BY DEF Send, Operation
<1>4. CASE ~(op[c].kind = "confirm" /\ op[c].phase = 2)
  <2>1. \A h \in Handles : ~SendingBy(c, h) /\ ~SendingBy(c, h)'
    BY <1>2, <1>4 DEF SendingBy, Confirming
  <2>2. "wait" \in Places \ {"idle", "lock"} /\ confirms' = confirms
    BY <1>4 DEF Places, Send
  <2> QED BY <1>1, <1>2, <1>3, <2>1, <2>2, GoingOn
<1>5. CASE op[c].kind = "confirm" /\ op[c].phase = 2
  <2>1. PICK h \in Handles : h = op[c].handle
    BY <1>1, <1>5 DEF HandlesUnspent, Running
  <2>2. Confirming(c, h)
    BY <1>1, <1>5, <2>1 DEF Confirming
  <2>3. /\ h <= nextID /\ ~Live(h) /\ confirms[h] = 0
        /\ \A d \in Callers, g \in Handles : Confirming(d, g) => d = c /\ g = h
    BY <1>1, <2>2, ConfirmingFacts
  <2>4. \A g \in Handles : (Live(g)' <=> Live(g)) /\ nextID' = nextID
    BY <1>1 DEF Live, sessionVars
  <2>5. confirms' = [confirms EXCEPT ![h] = @ + 1]
    BY <1>5, <2>1 DEF Send
  <2>6. PhaseOf(h) = "authorised"
    <3>1. SendingBy(c, h)
      BY <1>1, <1>5, <2>2 DEF SendingBy
    <3> QED BY <2>3, <3>1, PhaseMeans DEF Handles
  <2>7. PhaseOf(h)' = "sent"
    <3>1. confirms'[h] = 1
      BY <2>3, <2>5
    <3> QED BY <2>3, <2>4, <3>1, PhaseMeansNext DEF Handles
  <2>8. \A g \in Handles : g # h => PhaseOf(g)' = PhaseOf(g)
    <3> SUFFICES ASSUME NEW g \in Handles, g # h PROVE PhaseOf(g)' = PhaseOf(g)
      OBVIOUS
    <3>1. \A d \in Callers : ~Confirming(d, g) /\ ~Confirming(d, g)'
      BY <1>1, <1>2, <1>3, <2>2, <2>3 DEF Confirming
    <3>2. \A d \in Callers : ~SendingBy(d, g) /\ ~SendingBy(d, g)' /\ ~HeldBy(d, g) /\ ~HeldBy(d, g)'
      BY <3>1 DEF SendingBy, HeldBy
    <3>3. confirms'[g] = confirms[g]
      BY <2>5
    <3> QED BY <2>4, <3>2, <3>3, PhaseMeans, PhaseMeansNext
  <2>9. [g \in Handles |-> PhaseOf(g)]' = [[g \in Handles |-> PhaseOf(g)] EXCEPT ![h] = "sent"]
    BY <2>7, <2>8
  <2>10. Lifecycle!Send(h)
    BY <2>6, <2>9 DEF Lifecycle!Send, Lifecycle!Move
  <2> QED BY <2>10 DEF PhaseStep, Lifecycle!Next
<1> QED BY <1>4, <1>5

\* Answers other than a preview: the second request of the same confirmation, or the
\* end of the operation.
LEMMA AnswerPhases ==
    ASSUME IInv, NEW c \in Callers, Answer(c), ~PreviewReturned(c)
    PROVE  PhaseStep
<1>1. pc[c] = "wait" /\ confirms' = confirms
  BY DEF Answer, Answered, CatalogueListed, ResourcesListed, ToolsListed, CatalogueLoaded,
         Completed, Unauthorized, Lost, SessionEnded
<1>2. UNCHANGED sessionVars \/ Voided
  <2>1. CASE Unauthorized(c)
    BY <2>1, InvalidationVoids DEF Unauthorized, IInv, TypeOK
  <2>2. CASE ~Unauthorized(c)
    BY <2>2 DEF Answer, CatalogueListed, ResourcesListed, ToolsListed, CatalogueLoaded,
                Completed, Lost, SessionEnded
  <2> QED BY <2>1, <2>2
<1>3. CASE SecondRequest(c)
  <2>1. Goto(c, "token") /\ "token" \in Places \ {"idle", "lock"}
    BY <1>3 DEF SecondRequest, Places
  <2>2. /\ op'[c].kind = op[c].kind /\ op'[c].handle = op[c].handle /\ op'[c].gen = op[c].gen
        /\ \A d \in Callers \ {c} : op'[d] = op[d]
    BY <1>3 DEF SecondRequest, IInv, TypeOK, Operation
  <2>3. \A h \in Handles : ~SendingBy(c, h) /\ ~SendingBy(c, h)'
    BY <1>1, <2>1 DEF SendingBy, Goto, IInv, TypeOK
  <2> QED BY <1>1, <1>2, <2>1, <2>2, <2>3, GoingOn
<1>4. CASE \E outcome : Return(c, outcome)
  BY <1>1, <1>2, <1>4, Returning
<1>5. SecondRequest(c) \/ \E outcome : Return(c, outcome)
  BY DEF Answer, CatalogueListed, ResourcesListed, ToolsListed, CatalogueLoaded,
         Completed, Unauthorized, Lost, SessionEnded
<1> QED BY <1>3, <1>4, <1>5

\* A preview issues the next handle, if the session is still the one that was asked.
LEMMA PreviewReturnedPhases ==
    ASSUME IInv, NEW c \in Callers, PreviewReturned(c) PROVE PhaseStep
<1> USE DEF IInv, TypeOK
<1>1. /\ pc[c] = "wait" /\ op[c].kind = "invoke" /\ confirms' = confirms
      /\ Return(c, "returned") /\ nextID < MaxPreviews
  BY DEF PreviewReturned, Answered
<1>2. CASE UNCHANGED sessionVars
  BY <1>1, <1>2, Returning
<1>3. CASE ~UNCHANGED sessionVars
  <2>1. /\ nextID' = nextID + 1
        /\ \E p : p.id = nextID + 1 /\ previews' = previews \cup {p}
        /\ version' = version /\ closed' = closed /\ authChanged' = authChanged
    <3>1. /\ nextID' = nextID + 1
          /\ previews' = previews \cup {[id |-> nextID + 1, tool |-> op[c].tool,
                                        rev |-> op[c].rev, generation |-> op[c].gen]}
          /\ version' = version /\ closed' = closed /\ authChanged' = authChanged
      BY <1>3 DEF PreviewReturned, Keep
    <3> QED BY <3>1
  <2>2. PICK h \in Handles : h = nextID + 1
    BY <1>1, BoundsAssumption DEF Handles
  <2>3. \A g \in Handles : Live(g)' <=> (g = h \/ Live(g))
    BY <2>1, <2>2 DEF Live
  <2>4. PhaseOf(h) = "unissued"
    BY <2>2, PhaseMeans
  <2>5. PhaseOf(h)' = "live"
    BY <2>1, <2>2, <2>3, PhaseMeansNext
  <2>6. /\ pc'[c] = "idle"
        /\ \A d \in Callers \ {c} : pc'[d] = pc[d] /\ op'[d] = op[d]
    BY <1>1 DEF Return, Goto
  <2>7. \A d \in Callers, g \in Handles :
           /\ SendingBy(d, g)' <=> SendingBy(d, g)
           /\ HeldBy(d, g)' <=> HeldBy(d, g)
    <3> SUFFICES ASSUME NEW d \in Callers, NEW g \in Handles
                 PROVE  /\ SendingBy(d, g)' <=> SendingBy(d, g)
                        /\ HeldBy(d, g)' <=> HeldBy(d, g)
      OBVIOUS
    <3>1. CASE d = c
      BY <1>1, <2>6, <3>1 DEF SendingBy, HeldBy, Confirming
    <3>2. CASE d # c
      BY <2>1, <2>6, <3>2 DEF SendingBy, HeldBy, Confirming, Current
    <3> QED BY <3>1, <3>2
  <2>8. \A g \in Handles : g # h => PhaseOf(g)' = PhaseOf(g)
    <3> SUFFICES ASSUME NEW g \in Handles, g # h PROVE PhaseOf(g)' = PhaseOf(g)
      OBVIOUS
    <3>1. g > nextID <=> g > nextID'
      BY <2>1, <2>2 DEF Handles
    <3> QED BY <1>1, <2>3, <2>7, <3>1, PhaseMeans, PhaseMeansNext
  <2>9. [g \in Handles |-> PhaseOf(g)]' = [[g \in Handles |-> PhaseOf(g)] EXCEPT ![h] = "live"]
    BY <2>5, <2>8
  <2>10. Lifecycle!Issue(h)
    BY <2>4, <2>9 DEF Lifecycle!Issue, Lifecycle!Move
  <2> QED BY <2>10 DEF PhaseStep, Lifecycle!Next
<1> QED BY <1>2, <1>3

\* The session implements PreviewLifecycle: through every interleaving a handle goes
\* the way of the promise, spent once, voided with all the others, and never sent
\* without having been authorised while its generation was current.
THEOREM KeepsPromise == Spec => KeepsLifecycle
<1>1. Init => Lifecycle!Init
  <2> SUFFICES ASSUME Init PROVE \A h \in Handles : PhaseOf(h) = "unissued"
    BY DEF Lifecycle!Init
  <2>1. nextID = 0
    BY DEF Init
  <2> QED BY <2>1, PhaseMeans DEF Handles
<1>2. IInv /\ [Next]_vars => [Lifecycle!Next]_([h \in Handles |-> PhaseOf(h)])
  <2> SUFFICES ASSUME IInv, [Next]_vars PROVE PhaseStep
    BY DEF PhaseStep
  <2>1. CASE Environment
    BY <2>1, EnvironmentPhases
  <2>2. ASSUME NEW c \in Callers, Request(c) PROVE PhaseStep
    BY <2>2, RequestPhases
  <2>3. ASSUME NEW c \in Callers, Start(c) PROVE PhaseStep
    BY <2>3, BeginPhases, BeginConfirmPhases, ClosePhases DEF Start
  <2>4. ASSUME NEW c \in Callers, RoundTrip(c) PROVE PhaseStep
    BY <2>4, SendPhases, GuardPhases, RoundTripPhases
  <2>5. ASSUME NEW c \in Callers, Answer(c) PROVE PhaseStep
    BY <2>5, PreviewReturnedPhases, AnswerPhases
  <2>6. CASE UNCHANGED vars
    <3>1. UNCHANGED sessionVars /\ confirms' = confirms /\ pc' = pc /\ op' = op
      BY <2>6 DEF vars
    <3> QED BY <3>1, NotConfirming
  <2> QED
    BY <2>1, <2>2, <2>3, <2>4, <2>5, <2>6 DEF Next
<1> QED
  BY <1>1, <1>2, Safety, PTL DEF Spec, KeepsLifecycle, Lifecycle!Spec

-----------------------------------------------------------------------------
(* The token. Its provider runs under a mutex of its own and compares with   *)
(* the grant of the first request; what the stored credentials are in        *)
(* between is other processes' business.                                     *)

\* One caller at a time is between the two looks at the grant, and the grant they are
\* compared with never moves. Grants are numbered upwards, so that unless an earlier
\* one is put back the first is not stored again once a token of another has been
\* read: only the refresh of the caller itself could bring it back.
TokenInv ==
    /\ previousGrant = 1 /\ grants \in Nat \ {0}
    /\ stored \in 0..grants /\ prior \in 0..grants
    /\ \A c \in Callers :
          pc[c] \in {"access", "refresh", "verify"} => tokenMu = c /\ op[c].before = 1
    /\ \A c \in Callers : pc[c] \in {"refresh", "verify"} => op[c].token \in 1..grants
    /\ putBack \/ \A c \in Callers :
          /\ pc[c] \in {"refresh", "verify"} => op[c].token = 1 \/ stored # 1
          /\ pc[c] \in {"guard", "send", "wait"} => op[c].token = 1

\* A step that leaves the stored credentials alone, or replaces them by none or by the
\* latest grant's, and lets no caller on, keeps the token pinned.
LEMMA TokenKept ==
    ASSUME TypeOK, TokenInv,
           previousGrant' = previousGrant, grants' \in Nat, grants <= grants',
           stored' \in 0..grants', prior' \in 0..grants',
           putBack' \/ /\ putBack' = putBack
                       /\ stored' = stored \/ stored' # 1 \/ grants = 1,
           \A c \in Callers :
              \/ pc'[c] \in {"idle", "lock", "token"}
              \/ pc'[c] = pc[c] /\ op'[c].before = op[c].before /\ op'[c].token = op[c].token,
           \A c \in Callers : tokenMu = c /\ pc'[c] \in {"access", "refresh", "verify"}
                                 => tokenMu' = c
    PROVE  TokenInv'
<1>1. \A c \in Callers :
         pc'[c] \in {"access", "refresh", "verify"} => tokenMu' = c /\ op'[c].before = 1
  BY DEF TokenInv
<1>2. \A c \in Callers : pc'[c] \in {"refresh", "verify"} => op'[c].token \in 1..grants
  BY DEF TokenInv
<1>3. putBack' \/ \A c \in Callers :
         /\ pc'[c] \in {"refresh", "verify"} => op'[c].token = 1 \/ stored' # 1
         /\ pc'[c] \in {"guard", "send", "wait"} => op'[c].token = 1
  BY <1>2 DEF TokenInv
<1>4. grants' \in Nat \ {0} /\ 1..grants \subseteq 1..grants'
  BY DEF TokenInv
<1> QED BY <1>1, <1>2, <1>3, <1>4 DEF TokenInv

\* A return keeps it as well.
LEMMA TokenReturn ==
    ASSUME TypeOK, TokenInv, NEW c \in Callers, NEW outcome, Return(c, outcome),
           UNCHANGED <<previousGrant, storeVars>>
    PROVE  TokenInv'
<1>1. /\ previousGrant' = previousGrant /\ grants' = grants /\ putBack' = putBack
      /\ stored' = stored /\ prior' = prior
  BY DEF storeVars
<1>2. pc'[c] = "idle" /\ \A d \in Callers \ {c} : pc'[d] = pc[d] /\ op'[d] = op[d]
  BY DEF Return, Goto, TypeOK
<1>3. \A d \in Callers \ {c} : tokenMu = d => tokenMu' = d
  BY DEF Return
<1>4. /\ grants' \in Nat /\ grants <= grants'
      /\ stored' \in 0..grants' /\ prior' \in 0..grants'
  BY <1>1 DEF TokenInv
<1> QED BY <1>1, <1>2, <1>3, <1>4, TokenKept

\* The provider and what follows it, without the returns.
LEMMA TokenRound ==
    ASSUME TypeOK, TokenInv, NEW c \in Callers, RoundTrip(c), ~NotDispatched(c)
    PROVE  TokenInv'
<1> USE DEF TypeOK
<1>1. /\ \A d \in Callers \ {c} : pc'[d] = pc[d] /\ op'[d] = op[d]
      /\ grants' = grants /\ prior' = prior /\ putBack' = putBack
  <2>1. /\ \A d \in Callers \ {c} : pc'[d] = pc[d]
        /\ grants' = grants /\ prior' = prior /\ putBack' = putBack
    BY DEF RoundTrip, TokenBefore, AccessToken, Refresh, TokenAfter, Guard, Cancelled, Send,
           Goto, storeVars
  <2>2. \A d \in Callers \ {c} : op'[d] = op[d]
    BY DEF RoundTrip, TokenBefore, AccessToken, Refresh, TokenAfter, Guard, Cancelled, Send
  <2> QED BY <2>1, <2>2
<1>2. grants' \in Nat \ {0} /\ prior' \in 0..grants'
  BY <1>1 DEF TokenInv
<1>3. CASE TokenBefore(c)
  <2>1. /\ tokenMu = Nobody /\ tokenMu' = c /\ stored = previousGrant
        /\ op' = [op EXCEPT ![c].before = stored] /\ pc' = [pc EXCEPT ![c] = "access"]
        /\ previousGrant' = previousGrant /\ stored' = stored
    BY <1>3 DEF TokenBefore, Goto, storeVars
  <2>2. \A d \in Callers : pc[d] \notin {"access", "refresh", "verify"}
    BY <2>1, CallersAssumption DEF TokenInv
  <2>3. op'[c].before = 1 /\ pc'[c] = "access"
    BY <2>1 DEF TokenInv, Operation
  <2>4. \A d \in Callers : pc'[d] \in {"access", "refresh", "verify"}
                              => tokenMu' = d /\ op'[d].before = 1
    BY <1>1, <2>1, <2>2, <2>3
  <2>5. putBack' \/ \A d \in Callers :
           /\ pc'[d] \in {"refresh", "verify"} => op'[d].token = 1 \/ stored' # 1
           /\ pc'[d] \in {"guard", "send", "wait"} => op'[d].token = 1
    BY <1>1, <2>1, <2>3 DEF TokenInv
  <2>9. /\ stored' \in 0..grants'
        /\ \A d \in Callers : pc'[d] \in {"refresh", "verify"} => op'[d].token \in 1..grants'
    BY <1>1, <2>1, <2>2 DEF TokenInv
  <2> QED BY <1>2, <2>1, <2>4, <2>5, <2>9 DEF TokenInv
<1>4. CASE AccessToken(c)
  <2>1. /\ pc[c] = "access" /\ pc'[c] \in {"verify", "refresh"} /\ tokenMu' = tokenMu
        /\ op' = [op EXCEPT ![c].token = stored] /\ stored # 0
        /\ previousGrant' = previousGrant /\ stored' = stored
    BY <1>4 DEF AccessToken, Goto, storeVars
  <2>2. op'[c].before = op[c].before /\ op'[c].token = stored
    BY <2>1 DEF Operation
  <2>3. \A d \in Callers : pc'[d] \in {"access", "refresh", "verify"}
                              => tokenMu' = d /\ op'[d].before = 1
    BY <1>1, <2>1, <2>2 DEF TokenInv
  <2>4. putBack' \/ \A d \in Callers :
           /\ pc'[d] \in {"refresh", "verify"} => op'[d].token = 1 \/ stored' # 1
           /\ pc'[d] \in {"guard", "send", "wait"} => op'[d].token = 1
    BY <1>1, <2>1, <2>2 DEF TokenInv
  <2>9. /\ stored' \in 0..grants'
        /\ \A d \in Callers : pc'[d] \in {"refresh", "verify"} => op'[d].token \in 1..grants'
    BY <1>1, <2>1, <2>2 DEF TokenInv
  <2> QED BY <1>2, <2>1, <2>3, <2>4, <2>9 DEF TokenInv
<1>5. CASE Refresh(c)
  <2>1. /\ pc[c] = "refresh" /\ pc'[c] = "verify" /\ tokenMu' = tokenMu
        /\ op' = op /\ stored' = op[c].token /\ previousGrant' = previousGrant
    BY <1>5 DEF Refresh, Goto
  <2>2. \A d \in Callers \ {c} : pc[d] \notin {"access", "refresh", "verify"}
    BY <2>1 DEF TokenInv
  <2>3. \A d \in Callers : pc'[d] \in {"access", "refresh", "verify"}
                              => tokenMu' = d /\ op'[d].before = 1
    BY <1>1, <2>1, <2>2 DEF TokenInv
  <2>4. putBack' \/ \A d \in Callers :
           /\ pc'[d] \in {"refresh", "verify"} => op'[d].token = 1 \/ stored' # 1
           /\ pc'[d] \in {"guard", "send", "wait"} => op'[d].token = 1
    BY <1>1, <2>1, <2>2 DEF TokenInv
  <2>9. /\ stored' \in 0..grants'
        /\ \A d \in Callers : pc'[d] \in {"refresh", "verify"} => op'[d].token \in 1..grants'
    BY <1>1, <2>1, <2>2 DEF TokenInv
  <2> QED BY <1>2, <2>1, <2>3, <2>4, <2>9 DEF TokenInv
<1>6. CASE TokenAfter(c)
  <2>1. /\ pc[c] = "verify" /\ pc'[c] = "guard" /\ tokenMu' = Nobody
        /\ op' = op /\ stored' = stored /\ previousGrant' = stored /\ stored = op[c].before
    BY <1>6 DEF TokenAfter, Goto, SameGrant, storeVars
  <2>2. tokenMu = c /\ stored = 1 /\ (putBack \/ op[c].token = 1)
    BY <2>1 DEF TokenInv
  <2>3. \A d \in Callers : pc'[d] \notin {"access", "refresh", "verify"}
    BY <1>1, <2>1, <2>2 DEF TokenInv
  <2>4. putBack' \/ \A d \in Callers :
           /\ pc'[d] \in {"refresh", "verify"} => op'[d].token = 1 \/ stored' # 1
           /\ pc'[d] \in {"guard", "send", "wait"} => op'[d].token = 1
    BY <1>1, <2>1, <2>2 DEF TokenInv
  <2>9. /\ stored' \in 0..grants'
        /\ \A d \in Callers : pc'[d] \in {"refresh", "verify"} => op'[d].token \in 1..grants'
    BY <1>1, <2>1, <2>2 DEF TokenInv
  <2> QED BY <1>2, <2>1, <2>2, <2>3, <2>4, <2>9 DEF TokenInv
<1>7. CASE Guard(c) \/ Send(c)
  <2>1. /\ pc[c] \in {"guard", "send"} /\ pc'[c] \in {"send", "wait"} /\ tokenMu' = tokenMu
        /\ stored' = stored /\ previousGrant' = previousGrant
    BY <1>7 DEF Guard, Send, Goto, storeVars
  <2>2. op'[c].token = op[c].token
    BY <1>7 DEF Guard, Send, Operation
  <2>3. \A d \in Callers : pc'[d] \in {"access", "refresh", "verify"}
                              => tokenMu' = d /\ op'[d].before = 1
    BY <1>1, <2>1 DEF TokenInv
  <2>4. putBack' \/ \A d \in Callers :
           /\ pc'[d] \in {"refresh", "verify"} => op'[d].token = 1 \/ stored' # 1
           /\ pc'[d] \in {"guard", "send", "wait"} => op'[d].token = 1
    BY <1>1, <2>1, <2>2 DEF TokenInv
  <2>9. /\ stored' \in 0..grants'
        /\ \A d \in Callers : pc'[d] \in {"refresh", "verify"} => op'[d].token \in 1..grants'
    BY <1>1, <2>1, <2>2 DEF TokenInv
  <2> QED BY <1>2, <2>1, <2>3, <2>4, <2>9 DEF TokenInv
<1> QED BY <1>3, <1>4, <1>5, <1>6, <1>7 DEF RoundTrip, Cancelled

\* Unless another process stores an earlier grant again after a later one, by a
\* rollback or a late refresh, every request on the wire carries a token of the
\* session's own grant, however other processes log in and out around it.
THEOREM TokenPinned == Spec => []PinnedUnlessPutBack
<1>1. Init => TokenInv
  BY DEF Init, TokenInv
<1>2. TypeOK /\ TokenInv /\ [Next]_vars => TokenInv'
  <2> SUFFICES ASSUME TypeOK, TokenInv, [Next]_vars PROVE TokenInv'
    OBVIOUS
  <2>1. CASE Environment
    <3>1. /\ pc' = pc /\ op' = op /\ tokenMu' = tokenMu /\ previousGrant' = previousGrant
      BY <2>1 DEF Environment, Invalidate, LoginStarts, LoginSaves, LoginEnds, RefreshSaves, Logout,
             EnvironmentKeeps
    <3>2. /\ grants' \in Nat /\ grants <= grants'
          /\ stored' \in 0..grants' /\ prior' \in 0..grants'
      <4>1. CASE LoginSaves
        BY <4>1 DEF TokenInv, LoginSaves
      <4>2. CASE LoginEnds
        BY <4>2 DEF TokenInv, LoginEnds, Stores
      <4>3. CASE RefreshSaves
        BY <4>3 DEF TokenInv, RefreshSaves, Stores
      <4>4. CASE Invalidate \/ LoginStarts \/ Logout
        BY <4>4 DEF TokenInv, Invalidate, LoginStarts, Logout, storeVars
      <4> QED BY <2>1, <4>1, <4>2, <4>3, <4>4 DEF Environment
    <3>3. putBack' \/ /\ putBack' = putBack
                      /\ stored' = stored \/ stored' # 1 \/ grants = 1
      <4>1. ASSUME NEW g \in 0..grants, Stores(g)
            PROVE  putBack' \/ (putBack' = putBack /\ (stored' # 1 \/ grants = 1))
        <5>1. CASE g \in 1..(grants - 1)
          <6>1. putBack' = TRUE
            BY <4>1, <5>1, Zenon DEF Stores
          <6> QED BY <6>1
        <5>2. CASE g \notin 1..(grants - 1)
          <6>1. putBack' = putBack /\ stored' = g
            BY <4>1, <5>2, Zenon DEF Stores
          <6>2. g # 1 \/ grants = 1
            BY <5>2 DEF TokenInv
          <6> QED BY <6>1, <6>2
        <5> QED BY <5>1, <5>2
      <4>2. CASE LoginEnds \/ RefreshSaves
        <5>1. 1..grants \subseteq 0..grants /\ prior \in 0..grants
          BY DEF TokenInv
        <5>2. \/ putBack' = putBack /\ stored' = stored
              \/ \E g \in 0..grants : Stores(g)
          BY <4>2, <5>1, Zenon DEF LoginEnds, RefreshSaves
        <5> QED BY <4>1, <5>2
      <4>3. CASE Invalidate \/ LoginStarts \/ LoginSaves \/ Logout
        <5>1. putBack' = putBack
          BY <4>3, Zenon DEF Invalidate, LoginStarts, LoginSaves, Logout, storeVars
        <5>2. stored' = stored \/ stored' # 1
          BY <4>3 DEF TokenInv, Invalidate, LoginStarts, LoginSaves, Logout, storeVars
        <5> QED BY <5>1, <5>2
      <4> QED BY <2>1, <4>2, <4>3 DEF Environment
    <3> QED BY <3>1, <3>2, <3>3, TokenKept
  <2>2. ASSUME NEW c \in Callers, NEW outcome, Return(c, outcome),
               Begin(c) \/ BeginConfirm(c) \/ Close(c) \/ RoundTrip(c) \/ Answer(c)
        PROVE  TokenInv'
    <3>1. UNCHANGED <<previousGrant, storeVars>>
      <4>1. CASE RoundTrip(c)
        <5>1. pc'[c] = "idle"
          BY <2>2 DEF Return, Goto, TypeOK
        <5>2. CASE Refresh(c)
          BY <5>1, <5>2 DEF Refresh, Goto, TypeOK, storeVars
        <5>3. CASE TokenAfter(c)
          BY <5>1, <5>3 DEF TokenAfter, Goto, TypeOK
        <5> QED BY <4>1, <5>2, <5>3
               DEF RoundTrip, TokenBefore, AccessToken, Guard, Cancelled, Send
      <4>2. CASE ~RoundTrip(c)
        BY <2>2, <4>2 DEF Begin, BeginConfirm, Close, Answer, CatalogueListed,
           ResourcesListed, ToolsListed, CatalogueLoaded, Completed, PreviewReturned,
           Unauthorized, Lost, SessionEnded
      <4> QED BY <4>1, <4>2
    <3> QED BY <2>2, <3>1, TokenReturn
  <2>3. ASSUME NEW c \in Callers, Request(c) \/ Start(c) \/ Answer(c),
               \A outcome : ~Return(c, outcome)
        PROVE  TokenInv'
    <3>1. /\ tokenMu' = tokenMu /\ UNCHANGED <<previousGrant, storeVars>>
          /\ Goto(c, "lock") \/ Goto(c, "token")
      BY <2>3 DEF Request, Start, Begin, BeginConfirm, Close, Answer, CatalogueListed,
         ResourcesListed, ToolsListed, SecondRequest, CatalogueLoaded, Completed,
         PreviewReturned, Unauthorized, Lost, SessionEnded
    <3>2. \A d \in Callers \ {c} : op'[d] = op[d]
      BY <2>3 DEF Request, Start, Begin, BeginConfirm, Close, Answer, CatalogueListed,
         ResourcesListed, ToolsListed, SecondRequest, CatalogueLoaded, Completed,
         PreviewReturned, Unauthorized, Lost, SessionEnded, TypeOK
    <3>3. pc'[c] \in {"lock", "token"} /\ \A d \in Callers \ {c} : pc'[d] = pc[d]
      BY <3>1 DEF Goto, TypeOK
    <3>4. /\ previousGrant' = previousGrant /\ grants' = grants /\ prior' = prior
          /\ putBack' = putBack /\ stored' = stored
      BY <3>1 DEF storeVars
    <3>5. /\ grants' \in Nat /\ grants <= grants'
          /\ stored' \in 0..grants' /\ prior' \in 0..grants'
      BY <3>4 DEF TokenInv
    <3> QED BY <3>1, <3>2, <3>3, <3>4, <3>5, TokenKept
  <2>4. ASSUME NEW c \in Callers, RoundTrip(c), ~NotDispatched(c) PROVE TokenInv'
    BY <2>4, TokenRound
  <2>5. CASE UNCHANGED vars
    BY <2>5 DEF vars, storeVars, TokenInv
  <2>6. ASSUME NEW c \in Callers, Request(c), NEW outcome, Return(c, outcome) PROVE FALSE
    BY <2>6 DEF Request, Return, Goto, TypeOK
  <2> QED
    BY <2>1, <2>2, <2>3, <2>4, <2>5, <2>6 DEF Next, Start, NotDispatched
<1>3. TypeOK /\ TokenInv => PinnedUnlessPutBack
  BY DEF TokenInv, PinnedUnlessPutBack, Pinned
<1> QED
  BY <1>1, <1>2, <1>3, TypeCorrect, PTL DEF Spec
=============================================================================
