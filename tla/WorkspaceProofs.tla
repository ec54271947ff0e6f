--------------------------- MODULE WorkspaceProofs ---------------------------
(***************************************************************************)
(* Workspace for any profiles and any number of connection attempts: what  *)
(* is shown is of one company, the outcome of a write is awaited, a lost   *)
(* write is not sent again, and no session is left open.                   *)
(***************************************************************************)
EXTENDS Workspace, TLAPS

Executing == {"read", "write", "confirm"}
Writing   == {"write", "confirm"}

Other(j) == j.kind \notin Requests

\* A request that is still answered to is of the session in use, and is the only one.
RequestsCurrent ==
    /\ \A j \in jobs : j.latest => j.kind \in Requests /\ j.session = session /\ busy
    /\ \A j, k \in jobs : j.latest /\ k.latest => j = k

\* What it shows has not been invalidated since, follows no unknown outcome, and the
\* page it was asked from is still there.
InFlight ==
    \A j \in jobs : j.latest /\ j.kind \in Executing =>
        /\ ~j.voided /\ ~unknown
        /\ j.kind = "read" => page \in {"form", "result"}

\* A number names one attempt, sign-in or close, and none of them is of the session in use.
Numbered ==
    /\ session <= connectSequence
    /\ \A j \in jobs : Other(j) => j.session <= connectSequence /\ j.session # session
    /\ \A j, k \in jobs : Other(j) /\ Other(k) /\ j.session = k.session => j = k

\* A current attempt is waited for.
Attempts ==
    \A j \in jobs : j.session = connectSequence =>
        /\ j.kind = "connect" => connecting
        /\ j.kind = "login" => authenticating

\* Nothing is asked of a session that is about to be replaced.
WhileConnecting == connecting => ~writing /\ ~handle /\ \A j \in jobs : ~j.latest

\* While signing in, the actions may be listed again, no more.
WhileSigningIn ==
    authenticating =>
        /\ ~writing /\ page \in {"auth", "connecting", "workspace"}
        /\ \A j \in jobs : j.latest => j.kind = "catalogue"

\* What each page and overlay is opened on.
PagesFit ==
    /\ page = "review" => active # NoEntry /\ active.kind = "write"
    /\ page = "auth" => authTarget # NoProfile
    /\ handle => page = "result"
    /\ unknown => page \notin {"form", "review"} /\ ~handle
    /\ writing => overlay \in {"none", "quit"}

\* A job that will close a session, or hand it to the workspace.
Owner(j) == \/ j.kind = "close"
            \/ j.kind = "connect" /\ j.stage \in {"listing", "done"}

Registry ==
    /\ registryClosed => registry = {} /\ quit
    /\ session # 0 /\ ~quit => session \in registry
    /\ ~registryClosed => \A j \in jobs : j.kind = "connect" /\ Owner(j) => j.session \in registry
    /\ \A s \in registry : s = session \/ \E j \in jobs : Owner(j) /\ j.session = s

ThreadInv == /\ Numbered /\ Attempts /\ Registry
             /\ connecting => \E j \in jobs : j.kind = "connect" /\ j.session = connectSequence

ReqInv == /\ RequestsCurrent /\ InFlight /\ WhileConnecting /\ WhileSigningIn /\ WriteAwaited
          /\ busy => \E j \in jobs : j.kind \in Requests /\ j.latest /\ j.session = session

WInv == TypeOK /\ OneCompany /\ PagesFit /\ ThreadInv /\ ReqInv

-----------------------------------------------------------------------------
(* What the parts of the handlers do to the jobs.                           *)

\* A job k that was j: the same, but for what a request is told of.
Was(j, k) == /\ k.kind = j.kind /\ k.profile = j.profile /\ k.session = j.session
             /\ k.stage = j.stage
             /\ k.latest => j.latest
             /\ Other(j) => k = j

\* The jobs of ks were jobs of js, and those that are no requests are all there.
Derived(js, ks) ==
    /\ ks \subseteq Job
    /\ \A k \in ks : \E j \in js : Was(j, k)
    /\ \A j \in js : Other(j) => j \in ks

\* A job that is no request is not the latest request.
Plain(js) == js \subseteq Job /\ \A j \in js : j.latest => j.kind \in Requests

\* Jobs whose request numbers are out of date.
LEMMA SupersededFacts ==
    ASSUME NEW js, Plain(js)
    PROVE  /\ Derived(js, Superseded(js)) /\ Plain(Superseded(js))
           /\ \A k \in Superseded(js) : ~k.latest
<1> DEFINE F(j) == [j EXCEPT !.latest = FALSE]
<1>1. \A j \in js : /\ F(j) \in Job /\ Was(j, F(j)) /\ F(j).latest = FALSE
                    /\ Other(j) => F(j) = j
  <2> TAKE j \in js
  <2>1. j \in Job /\ j.latest \in BOOLEAN
    BY DEF Plain, Job
  <2>2. F(j) \in Job /\ F(j).latest = FALSE
        /\ F(j).kind = j.kind /\ F(j).profile = j.profile /\ F(j).session = j.session
        /\ F(j).stage = j.stage /\ F(j).voided = j.voided
    BY <2>1 DEF Job
  <2>3. Other(j) => F(j) = j
    BY <2>1, <2>2 DEF Plain, Other, Job
  <2> QED BY <2>2, <2>3 DEF Was
<1>2. \A k \in Superseded(js) : \E j \in js : k = F(j)
  BY DEF Superseded
<1>3. \A j \in js : F(j) \in Superseded(js)
  BY DEF Superseded
<1> HIDE DEF F
<1> QED BY <1>1, <1>2, <1>3 DEF Derived, Plain

\* Jobs told that the previews of the session were invalidated: their numbers stay.
LEMMA VoidedFacts ==
    ASSUME NEW js, Plain(js)
    PROVE  /\ Derived(js, Voided(js)) /\ Plain(Voided(js))
           /\ \A j \in js : j.latest => \E k \in Voided(js) : k.latest /\ Was(j, k)
           /\ (\A j, k \in js : j.latest /\ k.latest => j = k)
              => \A j, k \in Voided(js) : j.latest /\ k.latest => j = k
<1> DEFINE F(j) == [j EXCEPT !.voided = @ \/ (j.kind \in Requests /\ j.session = session)]
<1>1. \A j \in js : /\ F(j) \in Job /\ Was(j, F(j)) /\ F(j).latest = j.latest
                    /\ Other(j) => F(j) = j
  <2> TAKE j \in js
  <2>1. j \in Job /\ j.latest \in BOOLEAN /\ j.voided \in BOOLEAN
    BY DEF Plain, Job
  <2> DEFINE v == j.voided \/ (j.kind \in Requests /\ j.session = session)
  <2>2. v \in BOOLEAN /\ F(j) = [j EXCEPT !.voided = v]
    BY <2>1
  <2>3. Other(j) => v = j.voided
    BY <2>1 DEF Other
  <2> HIDE DEF v
  <2>4. F(j) \in Job /\ F(j).voided = v
        /\ F(j).kind = j.kind /\ F(j).profile = j.profile /\ F(j).session = j.session
        /\ F(j).stage = j.stage /\ F(j).latest = j.latest
    BY <2>1, <2>2 DEF Job
  <2>5. Other(j) => F(j) = j
    BY <2>1, <2>2, <2>3 DEF Job
  <2> QED BY <2>4, <2>5 DEF Was
<1>2. \A k \in Voided(js) : \E j \in js : k = F(j)
  BY DEF Voided
<1>3. \A j \in js : F(j) \in Voided(js)
  BY DEF Voided
<1> HIDE DEF F
<1>4. Derived(js, Voided(js)) /\ Plain(Voided(js))
  BY <1>1, <1>2, <1>3 DEF Derived, Plain, Was
<1>5. \A j \in js : j.latest => \E k \in Voided(js) : k.latest /\ Was(j, k)
  BY <1>1, <1>3
<1> QED BY <1>1, <1>2, <1>4, <1>5

\* Jobs derived twice are derived.
LEMMA DerivedTwice ==
    ASSUME NEW js, NEW ks, NEW ls, Derived(js, ks), Derived(ks, ls)
    PROVE  Derived(js, ls)
BY DEF Derived, Was, Other

\* Jobs after cancelRead.
LEMMA AfterCancelFacts ==
    ASSUME NEW js, Plain(js)
    PROVE  /\ Derived(js, AfterCancelRead(js)) /\ Plain(AfterCancelRead(js))
           /\ ~writing => \A k \in AfterCancelRead(js) : ~k.latest
<1>1. Derived(js, js)
  BY DEF Derived, Was, Plain
<1> QED BY <1>1, SupersededFacts DEF AfterCancelRead

\* Cancelling and invalidating, while no write is in flight, leaves nothing to answer to.
LEMMA CancelledFacts ==
    ASSUME NEW js, Plain(js)
    PROVE  LET ks == Voided(AfterCancelRead(js))
           IN  /\ Derived(js, ks) /\ Plain(ks)
               /\ ~writing => \A k \in ks : ~k.latest
<1> DEFINE c == AfterCancelRead(js)
<1>1. Derived(js, c) /\ Plain(c) /\ (~writing => \A k \in c : ~k.latest)
  BY AfterCancelFacts
<1> HIDE DEF c
<1>2. Derived(c, Voided(c)) /\ Plain(Voided(c))
  BY <1>1, VoidedFacts
<1>3. ~writing => \A k \in Voided(c) : ~k.latest
  BY <1>1, <1>2 DEF Derived, Was
<1>4. Derived(js, Voided(c))
  BY <1>1, <1>2, DerivedTwice
<1> QED BY <1>2, <1>3, <1>4 DEF c

\* A new job is well formed.
LEMMA NewJobFacts ==
    ASSUME NEW kind \in Requests \cup {"connect", "login", "close"},
           NEW p \in Profiles, NEW s \in Sessions
    PROVE  LET n == NewJob(kind, p, s)
           IN  /\ n \in Job /\ n.kind = kind /\ n.profile = p /\ n.session = s
               /\ n.stage = "running" /\ n.voided = FALSE
               /\ n.latest = (kind \in Requests)
BY DEF NewJob, Job

-----------------------------------------------------------------------------
(* Attempts, sign-ins and closes: what a step must say of them to keep the  *)
(* parts of the invariant about them.                                       *)
Threads(js) == {j \in js : Other(j)}

\* A job is a request, or one of these.
LEMMA KindsApart ==
    /\ \A j : Other(j) <=> j.kind \notin Requests
    /\ {"connect", "login", "close"} \cap Requests = {}
BY DEF Other, Requests

\* What a request is told of changes no attempt, sign-in or close.
LEMMA DerivedThreads ==
    ASSUME NEW js, NEW ks, Derived(js, ks)
    PROVE  Threads(ks) = Threads(js)
BY DEF Derived, Was, Threads, Other

\* The same, of the threads alone.
ThreadFacts ==
    /\ session <= connectSequence
    /\ \A j \in Threads(jobs) : j.session <= connectSequence /\ j.session # session
    /\ \A j, k \in Threads(jobs) : j.session = k.session => j = k
    /\ \A j \in Threads(jobs) : j.session = connectSequence =>
          /\ j.kind = "connect" => connecting
          /\ j.kind = "login" => authenticating
    /\ registryClosed => registry = {} /\ quit
    /\ session # 0 /\ ~quit => session \in registry
    /\ ~registryClosed =>
          \A j \in Threads(jobs) : j.kind = "connect" /\ Owner(j) => j.session \in registry
    /\ \A s \in registry : s = session \/ \E j \in Threads(jobs) : Owner(j) /\ j.session = s
    /\ connecting =>
          \E j \in Threads(jobs) : j.kind = "connect" /\ j.session = connectSequence

\* ThreadInv is about these jobs alone.
LEMMA ThreadsOnly == ThreadInv <=> ThreadFacts
<1>1. \A j : j \in Threads(jobs) <=> j \in jobs /\ Other(j)
  BY DEF Threads
<1>2. \A j : (j.kind \in {"connect", "login", "close"} \/ Owner(j)) => Other(j)
  BY KindsApart DEF Owner
<1>3. Numbered <=>
        /\ session <= connectSequence
        /\ \A j \in Threads(jobs) : j.session <= connectSequence /\ j.session # session
        /\ \A j, k \in Threads(jobs) : j.session = k.session => j = k
  BY <1>1 DEF Numbered
<1>4. Attempts <=>
        \A j \in Threads(jobs) : j.session = connectSequence =>
              /\ j.kind = "connect" => connecting
              /\ j.kind = "login" => authenticating
  BY <1>1, <1>2 DEF Attempts
<1>5. Registry <=>
        /\ registryClosed => registry = {} /\ quit
        /\ session # 0 /\ ~quit => session \in registry
        /\ ~registryClosed =>
              \A j \in Threads(jobs) : j.kind = "connect" /\ Owner(j) => j.session \in registry
        /\ \A s \in registry : s = session \/ \E j \in Threads(jobs) : Owner(j) /\ j.session = s
  BY <1>1, <1>2 DEF Registry
<1>6. (connecting => \E j \in jobs : j.kind = "connect" /\ j.session = connectSequence)
      <=> (connecting =>
              \E j \in Threads(jobs) : j.kind = "connect" /\ j.session = connectSequence)
  BY <1>1, <1>2
<1> QED BY <1>3, <1>4, <1>5, <1>6 DEF ThreadInv, ThreadFacts

\* The same, after a step.
LEMMA ThreadsOnlyNext == ThreadInv' <=> ThreadFacts'
BY ThreadsOnly, PTL

\* A step that leaves them, and what they are about, alone.
LEMMA ThreadsStay ==
    ASSUME ThreadInv, Threads(jobs') = Threads(jobs), quit => quit',
           UNCHANGED <<session, connecting, authenticating, connectSequence, registry,
                       registryClosed>>
    PROVE  ThreadInv'
<1>1. ThreadFacts
  BY ThreadsOnly
<1>2. ThreadFacts'
  BY <1>1 DEF ThreadFacts
<1> QED BY <1>2, ThreadsOnlyNext

\* An attempt, a sign-in or a close answers to nobody.
LEMMA NewThreadFacts ==
    \A kind \in {"connect", "login", "close"}, p \in Profiles, s \in Sessions :
        /\ NewJob(kind, p, s) \in Job /\ NewJob(kind, p, s).kind = kind
        /\ NewJob(kind, p, s).session = s /\ NewJob(kind, p, s).stage = "running"
        /\ NewJob(kind, p, s).latest = FALSE /\ Other(NewJob(kind, p, s))
<1> TAKE kind \in {"connect", "login", "close"}, p \in Profiles, s \in Sessions
<1> DEFINE n == NewJob(kind, p, s)
<1>1. n \in Job /\ n.kind = kind /\ n.session = s /\ n.stage = "running"
  BY DEF NewJob, Job
<1>1a. n.latest = (kind \in Requests)
  BY DEF NewJob
<1>2. kind \notin Requests
  BY DEF Requests
<1>3. (kind \in Requests) = FALSE
  BY <1>2
<1> HIDE DEF n
<1>4. n.latest = FALSE
  BY <1>1a, <1>3
<1>5. Other(n)
  BY <1>1, <1>2 DEF Other
<1> QED BY <1>1, <1>4, <1>5 DEF n

\* What closeSession starts answers to nobody.
LEMMA ClosingFacts ==
    ASSUME NEW p \in Profiles, NEW s \in Sessions \cup {0}
    PROVE  \A k \in Closing(p, s) : k \in Job /\ k.latest = FALSE /\ k.kind = "close"
BY NewThreadFacts DEF Closing

\* A step that starts an attempt or a sign-in, under the next number.
LEMMA ThreadStarts ==
    ASSUME TypeOK, ThreadInv, NEW kind \in {"connect", "login"}, NEW p \in Profiles,
           NEW ended, \A j \in ended : j.kind = "login",
           connectSequence < MaxConnects, connectSequence' = connectSequence + 1,
           Threads(jobs') = (Threads(jobs) \ ended) \cup {NewJob(kind, p, connectSequence')},
           kind = "connect" => connecting',
           kind = "login" => ~connecting' /\ authenticating',
           UNCHANGED <<session, registry, registryClosed, quit>>
    PROVE  ThreadInv'
<1> DEFINE n == NewJob(kind, p, connectSequence')
<1>1. /\ connectSequence \in Nat /\ connectSequence' \in Sessions /\ session \in Nat
      /\ connectSequence' = connectSequence + 1
      /\ \A j \in Threads(jobs) : j.session \in Nat
  BY MaxConnectsAssumption DEF TypeOK, Sessions, Threads, Job
<1>2. n.kind = kind /\ n.session = connectSequence' /\ n.stage = "running"
  BY DEF NewJob
<1>3. ThreadFacts
  BY ThreadsOnly
<1> HIDE DEF n
<1>4. \A j \in Threads(jobs') : j = n \/ (j \in Threads(jobs) /\ j \notin ended)
  BY DEF n
<1>4a. \A j \in Threads(jobs) : j.kind # "login" => j \in Threads(jobs')
  BY DEF n
<1>4b. n \in Threads(jobs')
  BY DEF n
<1>4c. ~Owner(n) /\ (\A j : Owner(j) => j.kind # "login")
  BY <1>2 DEF Owner
<1>5. /\ session' <= connectSequence'
      /\ \A j \in Threads(jobs') : j.session <= connectSequence' /\ j.session # session'
      /\ \A j, k \in Threads(jobs') : j.session = k.session => j = k
  BY <1>1, <1>2, <1>3, <1>4 DEF ThreadFacts
<1>6. \A j \in Threads(jobs') : j.session = connectSequence' =>
              /\ j.kind = "connect" => connecting'
              /\ j.kind = "login" => authenticating'
  BY <1>1, <1>2, <1>3, <1>4 DEF ThreadFacts
<1>7. /\ registryClosed' => registry' = {} /\ quit'
      /\ session' # 0 /\ ~quit' => session' \in registry'
      /\ ~registryClosed' =>
            \A j \in Threads(jobs') : j.kind = "connect" /\ Owner(j) => j.session \in registry'
      /\ \A s \in registry' : s = session' \/ \E j \in Threads(jobs') : Owner(j) /\ j.session = s
  BY <1>3, <1>4, <1>4a, <1>4c DEF ThreadFacts
<1>8. connecting' =>
          \E j \in Threads(jobs') : j.kind = "connect" /\ j.session = connectSequence'
  BY <1>2, <1>4b
<1>9. ThreadFacts'
  BY <1>5, <1>6, <1>7, <1>8 DEF ThreadFacts
<1> QED BY <1>9, ThreadsOnlyNext

\* A sign-in that ends.
LEMMA SignInEnds ==
    ASSUME ThreadInv, NEW j \in jobs, j.kind = "login", Threads(jobs') = Threads(jobs) \ {j},
           authenticating' = (authenticating /\ j.session # connectSequence),
           UNCHANGED <<session, connecting, connectSequence, registry, registryClosed, quit>>
    PROVE  ThreadInv'
<1>1. ThreadFacts
  BY ThreadsOnly
<1>2. j \in Threads(jobs)
  BY KindsApart DEF Threads
<1>3. \A k \in Threads(jobs) : Owner(k) \/ k.kind = "connect" => k \in Threads(jobs')
  BY DEF Owner
<1>4. ThreadFacts'
  BY <1>1, <1>2, <1>3 DEF ThreadFacts
<1> QED BY <1>4, ThreadsOnlyNext

\* An attempt given up: its number is nobody's any more.
LEMMA AttemptGivenUp ==
    ASSUME TypeOK, ThreadInv, Threads(jobs') = Threads(jobs), ~connecting', quit' = quit,
           connectSequence' = connectSequence + 1, UNCHANGED <<session, registry, registryClosed>>
    PROVE  ThreadInv'
<1>1. ThreadFacts
  BY ThreadsOnly
<1>2. /\ connectSequence \in Nat /\ session \in Nat
      /\ \A j \in Threads(jobs) : j.session \in Nat
  BY MaxConnectsAssumption DEF TypeOK, Sessions, Threads, Job
<1>3. ThreadFacts'
  BY <1>1, <1>2 DEF ThreadFacts
<1> QED BY <1>3, ThreadsOnlyNext

\* An attempt that has come one stage further, or has failed.
LEMMA StageFacts ==
    ASSUME TypeOK, NEW j \in jobs, j.kind = "connect",
           NEW stage \in {"listing", "done", "failed", "auth"}, Becomes(j, stage)
    PROVE  \E n \in Job : /\ n.kind = "connect" /\ n.session = j.session /\ n.profile = j.profile
                          /\ n.stage = stage /\ n.latest = j.latest /\ n.voided = j.voided
                          /\ jobs' = (jobs \ {j}) \cup {n}
                          /\ Threads(jobs') = (Threads(jobs) \ {j}) \cup {n}
<1> DEFINE n == [j EXCEPT !.stage = stage]
<1>1. j \in Job
  BY DEF TypeOK
<1>2. /\ n \in Job /\ n.kind = "connect" /\ n.session = j.session /\ n.profile = j.profile
      /\ n.stage = stage /\ n.latest = j.latest /\ n.voided = j.voided
  BY <1>1 DEF Job
<1>3. jobs' = (jobs \ {j}) \cup {n}
  BY DEF Becomes
<1> HIDE DEF n
<1>4. Other(n)
  BY <1>2, KindsApart
<1>5. Threads(jobs') = (Threads(jobs) \ {j}) \cup {n}
  BY <1>3, <1>4 DEF Threads
<1> QED BY <1>2, <1>3, <1>5

\* OpenSession: the registry has the new session, unless it is closed.
LEMMA OpenSessionThreads ==
    ASSUME TypeOK, ThreadInv, NEW j \in jobs, OpenSession(j)
    PROVE  ThreadInv'
<1>1. ThreadFacts
  BY ThreadsOnly
<1>2. j.kind = "connect" /\ j \in Threads(jobs) /\ j.stage = "running" /\ ~Owner(j)
  BY KindsApart DEF OpenSession, Threads, Owner
<1>3. PICK stage \in {"listing", "failed", "auth"} :
         /\ Becomes(j, stage)
         /\ \/ stage = "listing" /\ ~registryClosed /\ registry' = registry \cup {j.session}
            \/ stage # "listing" /\ UNCHANGED registry
  BY DEF OpenSession, Registered
<1>4. PICK n \in Job : /\ n.kind = "connect" /\ n.session = j.session /\ n.stage = stage
                       /\ Threads(jobs') = (Threads(jobs) \ {j}) \cup {n}
  BY <1>2, <1>3, StageFacts
<1>5. UNCHANGED <<session, connecting, authenticating, connectSequence, registryClosed, quit>>
  BY DEF OpenSession, uiVars, sessVars, signVars, linkVars
<1>6. Owner(n) <=> stage = "listing"
  BY <1>3, <1>4 DEF Owner
<1>7. /\ registryClosed' => registry' = {} /\ quit'
      /\ session' # 0 /\ ~quit' => session' \in registry'
  BY <1>1, <1>3, <1>5 DEF ThreadFacts
<1>8. ~registryClosed' =>
         \A k \in Threads(jobs') : k.kind = "connect" /\ Owner(k) => k.session \in registry'
  BY <1>1, <1>3, <1>4, <1>5, <1>6 DEF ThreadFacts
<1>9. \A s \in registry' : s = session' \/ \E k \in Threads(jobs') : Owner(k) /\ k.session = s
  BY <1>1, <1>2, <1>3, <1>4, <1>5, <1>6 DEF ThreadFacts
<1>10. ThreadFacts'
  BY <1>1, <1>2, <1>4, <1>5, <1>7, <1>8, <1>9 DEF ThreadFacts
<1> QED BY <1>10, ThreadsOnlyNext

\* LoadCatalogue: a candidate that is not handed over leaves the registry.
LEMMA LoadCatalogueThreads ==
    ASSUME TypeOK, ThreadInv, NEW j \in jobs, LoadCatalogue(j)
    PROVE  ThreadInv'
<1>1. ThreadFacts
  BY ThreadsOnly
<1>2. j.kind = "connect" /\ j \in Threads(jobs) /\ j.stage = "listing" /\ Owner(j)
  BY KindsApart DEF LoadCatalogue, Threads, Owner
<1>3. PICK stage \in {"done", "failed", "auth"} :
         /\ Becomes(j, stage)
         /\ \/ stage = "done" /\ UNCHANGED registry
            \/ stage # "done" /\ registry' = registry \ {j.session}
  BY DEF LoadCatalogue
<1>4. PICK n \in Job : /\ n.kind = "connect" /\ n.session = j.session /\ n.stage = stage
                       /\ Threads(jobs') = (Threads(jobs) \ {j}) \cup {n}
  BY <1>2, <1>3, StageFacts
<1>5. UNCHANGED <<session, connecting, authenticating, connectSequence, registryClosed, quit>>
  BY DEF LoadCatalogue, uiVars, sessVars, signVars, linkVars
<1>6. Owner(n) <=> stage = "done"
  BY <1>3, <1>4 DEF Owner
<1>7. /\ registryClosed' => registry' = {} /\ quit'
      /\ session' # 0 /\ ~quit' => session' \in registry'
  BY <1>1, <1>2, <1>3, <1>5 DEF ThreadFacts
<1>8. ~registryClosed' =>
         \A k \in Threads(jobs') : k.kind = "connect" /\ Owner(k) => k.session \in registry'
  BY <1>1, <1>2, <1>3, <1>4, <1>5, <1>6 DEF ThreadFacts
<1>9. \A s \in registry' : s = session' \/ \E k \in Threads(jobs') : Owner(k) /\ k.session = s
  BY <1>1, <1>2, <1>3, <1>4, <1>5, <1>6 DEF ThreadFacts
<1>10. ThreadFacts'
  BY <1>1, <1>2, <1>4, <1>5, <1>7, <1>8, <1>9 DEF ThreadFacts
<1> QED BY <1>10, ThreadsOnlyNext

\* CloseSession: the job that owned the session goes with it.
LEMMA CloseSessionThreads ==
    ASSUME TypeOK, ThreadInv, NEW j \in jobs, CloseSession(j)
    PROVE  ThreadInv'
<1>1. ThreadFacts
  BY ThreadsOnly
<1>2. j.kind = "close" /\ j \in Threads(jobs)
  BY KindsApart DEF CloseSession, Threads
<1>3. /\ registry' = registry \ {j.session} /\ Threads(jobs') = Threads(jobs) \ {j}
      /\ UNCHANGED <<session, connecting, authenticating, connectSequence, registryClosed, quit>>
  BY DEF CloseSession, uiVars, sessVars, signVars, linkVars, Threads
<1>4. ThreadFacts'
  BY <1>1, <1>2, <1>3 DEF ThreadFacts
<1> QED BY <1>4, ThreadsOnlyNext

\* ConnectionUnwanted: a session nobody wants is closed.
LEMMA UnwantedThreads ==
    ASSUME TypeOK, ThreadInv, NEW j \in jobs, ConnectionUnwanted(j)
    PROVE  ThreadInv'
<1>1. ThreadFacts
  BY ThreadsOnly
<1>2. /\ j.kind = "connect" /\ j \in Threads(jobs) /\ j.session # connectSequence
      /\ j \in Job /\ j.session \in Sessions /\ j.session # 0 /\ j.profile \in Profiles
  BY KindsApart DEF ConnectionUnwanted, Arrives, Unwanted, Threads, TypeOK, Job, Sessions
<1>3. UNCHANGED <<session, connecting, authenticating, connectSequence, registry,
                  registryClosed, quit>>
  BY DEF ConnectionUnwanted, uiVars, sessVars, signVars, linkVars, regVars
<1>4. CASE j.stage # "done"
  <2>1. ~Owner(j)
    BY <1>2, <1>4 DEF Owner, ConnectionUnwanted, Arrives
  <2>2. Threads(jobs') = Threads(jobs) \ {j}
    BY <1>4 DEF ConnectionUnwanted, Threads
  <2>3. ThreadFacts'
    BY <1>1, <1>2, <1>3, <2>1, <2>2 DEF ThreadFacts
  <2> QED BY <2>3, ThreadsOnlyNext
<1>5. CASE j.stage = "done"
  <2> DEFINE n == NewJob("close", j.profile, j.session)
  <2>1. n.kind = "close" /\ n.session = j.session
    BY DEF NewJob
  <2>2. jobs' = (jobs \ {j}) \cup {n}
    BY <1>2, <1>5 DEF ConnectionUnwanted, Closing
  <2> HIDE DEF n
  <2>3. Other(n) /\ Owner(n)
    BY <2>1, KindsApart DEF Owner
  <2>4. Threads(jobs') = (Threads(jobs) \ {j}) \cup {n}
    BY <2>2, <2>3 DEF Threads
  <2>5. ThreadFacts'
    BY <1>1, <1>2, <1>3, <2>1, <2>3, <2>4 DEF ThreadFacts
  <2> QED BY <2>5, ThreadsOnlyNext
<1> QED BY <1>4, <1>5

\* Fewer jobs are plain, too.
LEMMA PlainSubset ==
    ASSUME NEW js, Plain(js), NEW ks \in SUBSET js
    PROVE  Plain(ks)
BY DEF Plain

\* ConnectionFailed: the current attempt ends, and owns nothing.
LEMMA FailedThreads ==
    ASSUME TypeOK, ThreadInv, Plain(jobs), NEW j \in jobs, ConnectionFailed(j)
    PROVE  ThreadInv'
<1>1. ThreadFacts
  BY ThreadsOnly
<1>2. /\ j.kind = "connect" /\ j \in Threads(jobs) /\ j.session = connectSequence
      /\ ~Owner(j)
  BY KindsApart DEF ConnectionFailed, Arrives, Unwanted, Threads, Owner
<1>3. /\ ~connecting'
      /\ UNCHANGED <<session, authenticating, connectSequence, registry, registryClosed, quit>>
  BY DEF ConnectionFailed, AuthError, sessVars, signVars, regVars
<1>4. jobs' = Voided(jobs \ {j}) \/ jobs' = jobs \ {j}
  BY DEF ConnectionFailed, AuthError
<1>5. Threads(jobs') = Threads(jobs \ {j})
  <2>1. Plain(jobs \ {j})
    BY PlainSubset
  <2> QED BY <1>4, <2>1, VoidedFacts, DerivedThreads
<1>6. Threads(jobs \ {j}) = Threads(jobs) \ {j}
  BY DEF Threads
<1>7. ThreadFacts'
  BY <1>1, <1>2, <1>3, <1>5, <1>6 DEF ThreadFacts
<1> QED BY <1>7, ThreadsOnlyNext

\* Connected: the candidate becomes the session, and the old session has its close.
LEMMA ConnectedThreads ==
    ASSUME TypeOK, ThreadInv, Plain(jobs), NEW j \in jobs, Connected(j)
    PROVE  ThreadInv'
<1>1. ThreadFacts
  BY ThreadsOnly
<1>2. /\ j.kind = "connect" /\ j \in Threads(jobs) /\ j.session = connectSequence
      /\ j.stage = "done" /\ ~quit /\ ~registryClosed /\ j.session \in registry
  BY <1>1, KindsApart DEF Connected, Arrives, Unwanted, Threads, Owner, ThreadFacts
<1>3. /\ ~connecting' /\ session' = j.session
      /\ UNCHANGED <<authenticating, connectSequence, registry, registryClosed, quit>>
  BY DEF Connected, regVars
<1>4. j.session # 0 /\ session \in Sessions \cup {0} /\ profile \in Profiles /\ 0 \notin registry
  BY MaxConnectsAssumption DEF TypeOK, Job, Sessions
<1> DEFINE ks == Voided(AfterCancelRead(jobs \ {j}))
<1>5. Threads(ks) = Threads(jobs) \ {j}
  <2>1. Plain(jobs \ {j})
    BY PlainSubset
  <2>2. Threads(ks) = Threads(jobs \ {j})
    BY <2>1, CancelledFacts, DerivedThreads
  <2> QED BY <2>2 DEF Threads
<1>6. jobs' = ks \cup Closing(profile, session)
  BY DEF Connected
<1> HIDE DEF ks
<1>7. CASE session = 0
  <2>1. Threads(jobs') = Threads(jobs) \ {j}
    BY <1>5, <1>6, <1>7 DEF Closing
  <2>2. ThreadFacts'
    BY <1>1, <1>2, <1>3, <1>4, <1>7, <2>1 DEF ThreadFacts
  <2> QED BY <2>2, ThreadsOnlyNext
<1>8. CASE session # 0
  <2> DEFINE n == NewJob("close", profile, session)
  <2>1. n.kind = "close" /\ n.session = session
    BY DEF NewJob
  <2>2. jobs' = ks \cup {n}
    BY <1>6, <1>8 DEF Closing
  <2> HIDE DEF n
  <2>3. Other(n) /\ Owner(n)
    BY <2>1, KindsApart DEF Owner
  <2>4. Threads(jobs') = (Threads(jobs) \ {j}) \cup {n}
    BY <1>5, <2>2, <2>3 DEF Threads
  <2>5. /\ session' <= connectSequence'
        /\ \A k \in Threads(jobs') : k.session <= connectSequence' /\ k.session # session'
        /\ \A k, l \in Threads(jobs') : k.session = l.session => k = l
    BY <1>1, <1>2, <1>3, <2>1, <2>4, MaxConnectsAssumption DEF ThreadFacts, TypeOK
  <2>6. \A k \in Threads(jobs') : k.session = connectSequence' =>
              /\ k.kind = "connect" => connecting'
              /\ k.kind = "login" => authenticating'
    BY <1>1, <1>2, <1>3, <2>1, <2>4 DEF ThreadFacts
  <2>7. /\ registryClosed' => registry' = {} /\ quit'
        /\ session' # 0 /\ ~quit' => session' \in registry'
        /\ ~registryClosed' =>
            \A k \in Threads(jobs') : k.kind = "connect" /\ Owner(k) => k.session \in registry'
        /\ \A s \in registry' : s = session' \/ \E k \in Threads(jobs') : Owner(k) /\ k.session = s
    BY <1>1, <1>2, <1>3, <2>1, <2>3, <2>4 DEF ThreadFacts
  <2>8. ThreadFacts'
    BY <1>3, <2>5, <2>6, <2>7 DEF ThreadFacts
  <2> QED BY <2>8, ThreadsOnlyNext
<1> QED BY <1>7, <1>8

\* SignedIn: the sign-in ends, and perhaps an attempt starts.
LEMMA SignedInThreads ==
    ASSUME TypeOK, ThreadInv, Plain(jobs), NEW j \in jobs, SignedIn(j)
    PROVE  ThreadInv'
<1>1. j.kind = "login" /\ Other(j) /\ j.profile \in Profiles
  BY KindsApart DEF SignedIn, TypeOK, Job
<1>2. UNCHANGED <<session, registry, registryClosed, quit>>
  BY DEF SignedIn, sessVars, regVars
<1>3. CASE Connect(j.profile, jobs \ {j})
  <2> DEFINE ks == Voided(AfterCancelRead(jobs \ {j}))
             n  == NewJob("connect", j.profile, connectSequence')
  <2>1. Threads(ks) = Threads(jobs) \ {j}
    <3>1. Plain(jobs \ {j})
      BY PlainSubset
    <3>2. Threads(ks) = Threads(jobs \ {j})
      BY <3>1, CancelledFacts, DerivedThreads
    <3> QED BY <3>2 DEF Threads
  <2>2. /\ connectSequence < MaxConnects /\ connectSequence' = connectSequence + 1
        /\ connecting' /\ jobs' = ks \cup {n}
    BY <1>3 DEF Connect
  <2>3. Other(n)
    BY KindsApart DEF NewJob
  <2> HIDE DEF ks, n
  <2>4. Threads(jobs') = (Threads(jobs) \ {j}) \cup {n}
    BY <2>1, <2>2, <2>3 DEF Threads
  <2> QED BY <1>1, <1>2, <2>2, <2>4, ThreadStarts DEF n
<1>4. CASE ~Connect(j.profile, jobs \ {j})
  <2>1. /\ jobs' = jobs \ {j} /\ UNCHANGED <<connecting, connectSequence>>
        /\ authenticating' = (authenticating /\ j.session # connectSequence)
    <3>1. CASE j.session # connectSequence
      BY <1>4, <3>1 DEF SignedIn, linkVars, TypeOK
    <3>2. CASE j.session = connectSequence
      BY <1>4, <3>2 DEF SignedIn, linkVars
    <3> QED BY <3>1, <3>2
  <2>2. Threads(jobs') = Threads(jobs) \ {j}
    BY <2>1 DEF Threads
  <2> QED BY <1>1, <1>2, <2>1, <2>2, SignInEnds
<1> QED BY <1>3, <1>4

-----------------------------------------------------------------------------
(* Keys: the jobs afterwards.                                               *)

\* A request is all there is to answer to, or nothing is.
OnlyAsked(n) ==
    /\ n \in jobs /\ n.latest /\ ~n.voided /\ n.session = session
    /\ \A k \in jobs : k = n \/ ~k.latest

Silent == ~busy /\ \A j \in jobs : ~j.latest

\* A request is sent, and all others are out of date.
LEMMA RequestSent ==
    ASSUME TypeOK, session # 0, NEW kind \in Requests, NEW ks, Derived(jobs, ks),
           \A k \in ks : ~k.latest, jobs' = ks \cup {NewJob(kind, profile, session)},
           session' = session
    PROVE  /\ jobs' \subseteq Job /\ Threads(jobs') = Threads(jobs)
           /\ \A k \in jobs' : k.latest \/ \E j \in jobs : Was(j, k)
           /\ \E n \in Job : n.kind = kind /\ OnlyAsked(n)'
<1>0. NewJob(kind, profile, session) \in Job
  <2>1. session \in Sessions /\ profile \in Profiles
    BY MaxConnectsAssumption DEF TypeOK, Sessions
  <2> QED BY <2>1, NewJobFacts
<1>1. PICK n \in Job : n = NewJob(kind, profile, session)
  BY <1>0
<1>2. /\ n.kind = kind /\ n.session = session /\ n.latest = TRUE /\ n.voided = FALSE
      /\ jobs' = ks \cup {n}
  BY <1>1 DEF NewJob
<1>3. ~Other(n)
  BY <1>2, KindsApart
<1>4. Threads(jobs') = Threads(ks)
  BY <1>2, <1>3 DEF Threads
<1>5. Threads(ks) = Threads(jobs)
  BY DerivedThreads
<1>6. OnlyAsked(n)'
  BY <1>2 DEF OnlyAsked
<1>7. jobs' \subseteq Job /\ \A k \in jobs' : k.latest \/ \E j \in jobs : Was(j, k)
  BY <1>2 DEF Derived
<1> QED BY <1>2, <1>4, <1>5, <1>6, <1>7

\* Ask sends a request.
LEMMA AskSends ==
    ASSUME TypeOK, Plain(jobs), session # 0, NEW kind \in Requests, Ask(kind), session' = session
    PROVE  /\ jobs' \subseteq Job /\ Threads(jobs') = Threads(jobs)
           /\ \A k \in jobs' : k.latest \/ \E j \in jobs : Was(j, k)
           /\ \E n \in Job : n.kind = kind /\ OnlyAsked(n)'
           /\ busy' = TRUE /\ handle' = FALSE /\ button' = FALSE
<1> DEFINE v  == Voided(jobs)
           ks == Superseded(v)
<1>1. Derived(jobs, v) /\ Plain(v)
  BY VoidedFacts
<1> HIDE DEF v
<1>2. Derived(v, ks) /\ \A k \in ks : ~k.latest
  BY <1>1, SupersededFacts
<1>3. jobs' = ks \cup {NewJob(kind, profile, session)}
      /\ busy' = TRUE /\ handle' = FALSE /\ button' = FALSE
  BY DEF Ask, HidePreview, v
<1> HIDE DEF ks
<1>4. Derived(jobs, ks)
  BY <1>1, <1>2, DerivedTwice
<1> QED BY <1>2, <1>3, <1>4, RequestSent

\* What Invoke sends.
LEMMA InvokeSends ==
    ASSUME TypeOK, Plain(jobs), Invoke
    PROVE  /\ jobs' \subseteq Job /\ Threads(jobs') = Threads(jobs)
           /\ \A k \in jobs' : k.latest \/ \E j \in jobs : Was(j, k)
           /\ \E n \in Job : n.kind = active.kind /\ OnlyAsked(n)'
           /\ busy' = TRUE /\ handle' = FALSE /\ button' = FALSE
           /\ active.kind \in {"read", "write"} /\ writing' = (active.kind = "write")
           /\ session # 0 /\ ~connecting /\ active # NoEntry /\ unknown' = FALSE
           /\ UNCHANGED <<active, draft, result, page, overlay, discardTo, profile, session,
                           frozen, catalogue, authenticating, authTarget, connecting,
                           connectSequence, registry, registryClosed, quit>>
<1>1. MayInvoke /\ Ask(active.kind) /\ writing' = (active.kind = "write") /\ unknown' = FALSE
  BY DEF Invoke
<1>2. UNCHANGED <<active, draft, result, page, overlay, discardTo, profile, session,
                           frozen, catalogue, authenticating, authTarget, connecting,
                           connectSequence, registry, registryClosed, quit>>
  BY DEF Invoke, pageVars, sessVars, signVars, linkVars, regVars
<1>3. active # NoEntry /\ session # 0 /\ ~connecting
  BY <1>1 DEF MayInvoke
<1>4. active.kind \in {"read", "write"}
  BY <1>3 DEF TypeOK, Entry
<1>5. active.kind \in Requests
  BY <1>4 DEF Requests
<1> QED BY <1>1, <1>2, <1>3, <1>4, <1>5, AskSends

\* What is under way after a cancellation, unless a write is.
LEMMA CancelSilences ==
    ASSUME Plain(jobs), ~writing, CancelRead,
           jobs' = Voided(AfterCancelRead(jobs)) \/ jobs' = AfterCancelRead(jobs)
    PROVE  Silent' /\ Derived(jobs, jobs')
BY CancelledFacts, AfterCancelFacts DEF Silent, CancelRead

-----------------------------------------------------------------------------
(* Requests: what a step must say of them to keep the parts of the          *)
(* invariant about them.                                                    *)
Elsewhere == page \in {"auth", "connecting", "workspace"}

\* There is nothing to answer to.
SilentState ==
    /\ Silent /\ \A j \in jobs : j.kind \notin Writing
    /\ connecting => ~writing /\ ~handle
    /\ authenticating => ~writing /\ Elsewhere

\* There is one request to answer to.
AskedState ==
    \E n \in Job :
        /\ OnlyAsked(n) /\ n.kind \in Requests /\ busy /\ ~connecting
        /\ \A j \in jobs : j.kind \in Writing => j = n
        /\ n.kind \in Executing => ~unknown /\ ~authenticating
        /\ n.kind = "read" => page \in {"form", "result"}
        /\ n.kind \in Writing => writing
        /\ authenticating => ~writing /\ Elsewhere

\* With nothing to answer to, ReqInv holds.
LEMMA SilentSuffices == SilentState => ReqInv
BY DEF SilentState, Silent, Elsewhere, ReqInv, RequestsCurrent, InFlight, WhileConnecting,
       WhileSigningIn, WriteAwaited, Writing

\* With one request to answer to, it holds as well.
LEMMA AskedSuffices == AskedState => ReqInv
<1> SUFFICES ASSUME AskedState PROVE ReqInv
  OBVIOUS
<1>1. PICK n \in Job :
        /\ OnlyAsked(n) /\ n.kind \in Requests /\ busy /\ ~connecting
        /\ \A j \in jobs : j.kind \in Writing => j = n
        /\ n.kind \in Executing => ~unknown /\ ~authenticating
        /\ n.kind = "read" => page \in {"form", "result"}
        /\ n.kind \in Writing => writing
        /\ authenticating => ~writing /\ Elsewhere
  BY DEF AskedState
<1>2. n \in jobs /\ n.latest /\ ~n.voided /\ n.session = session
      /\ \A k \in jobs : k = n \/ ~k.latest
  BY <1>1 DEF OnlyAsked
<1>3. RequestsCurrent /\ InFlight
  BY <1>1, <1>2 DEF RequestsCurrent, InFlight
<1>4. n.kind \in Executing \/ n.kind = "catalogue"
  BY <1>1 DEF Requests, Executing
<1>5. WhileConnecting /\ WhileSigningIn
  BY <1>1, <1>2, <1>4 DEF WhileConnecting, WhileSigningIn, Elsewhere
<1>6. WriteAwaited
  BY <1>1, <1>2 DEF WriteAwaited, Writing
<1> QED BY <1>1, <1>2, <1>3, <1>5, <1>6 DEF ReqInv

\* The same, after a step.
LEMMA SilentNext == SilentState' => ReqInv'
BY SilentSuffices, PTL

\* The same, after a step.
LEMMA AskedNext == AskedState' => ReqInv'
BY AskedSuffices, PTL

\* While no write is in flight there is none, and while nothing is awaited no request.
LEMMA NoWrites ==
    ASSUME ReqInv, ~writing \/ ~busy
    PROVE  /\ \A j \in jobs : j.kind \notin Writing
           /\ ~busy => \A j \in jobs : ~j.latest
BY DEF ReqInv, WriteAwaited, RequestsCurrent, Writing

\* A step after which there is nothing to answer to.
LEMMA Silences ==
    ASSUME ReqInv, ~writing \/ ~busy, Silent',
           \A k \in jobs' : k.kind \notin Writing \/ \E j \in jobs : Was(j, k),
           connecting' => ~writing' /\ ~handle',
           authenticating' => ~writing' /\ Elsewhere'
    PROVE  ReqInv'
<1>1. \A k \in jobs' : k.kind \notin Writing
  BY NoWrites DEF Was
<1>2. SilentState'
  BY <1>1 DEF SilentState
<1> QED BY <1>2, SilentNext

\* A step that leaves the requests, and what they are about, alone.
LEMMA RequestsStay ==
    ASSUME ReqInv,
           \A k \in jobs' : k.latest \/ k.kind \in Writing => k \in jobs,
           \A k \in jobs : k.latest => k \in jobs',
           connecting' => connecting, authenticating' => authenticating, handle' => handle,
           UNCHANGED <<session, busy, writing, unknown, page>>
    PROVE  ReqInv'
<1>1. RequestsCurrent' /\ InFlight'
  BY DEF ReqInv, RequestsCurrent, InFlight
<1>2. WhileConnecting' /\ WhileSigningIn'
  BY DEF ReqInv, WhileConnecting, WhileSigningIn
<1>3. WriteAwaited'
  BY DEF ReqInv, WriteAwaited, Writing
<1>4. (busy => \E j \in jobs : j.kind \in Requests /\ j.latest /\ j.session = session)'
  BY DEF ReqInv
<1> QED BY <1>1, <1>2, <1>3, <1>4 DEF ReqInv

\* In a state of the workspace the jobs are plain.
LEMMA InvPlain == WInv => Plain(jobs)
BY DEF WInv, ReqInv, RequestsCurrent, TypeOK, Plain

\* Jobs left alone are derived.
LEMMA DerivedSame ==
    ASSUME Plain(jobs)
    PROVE  Derived(jobs, jobs)
BY DEF Plain, Derived, Was

-----------------------------------------------------------------------------
(* Types, in groups that the steps change together.                         *)
SessTypes == /\ profile \in Profiles /\ session \in 0..MaxConnects
             /\ frozen \in BOOLEAN /\ catalogue \in 0..MaxConnects
PageTypes == /\ page \in Pages /\ overlay \in Overlays
             /\ discardTo \in {"home", "profiles", "palette"}
MarkTypes == button \in BOOLEAN /\ handle \in BOOLEAN
ShowTypes == /\ active \in Entry \cup {NoEntry}
             /\ draft \in BOOLEAN /\ unknown \in BOOLEAN
             /\ result \in 0..MaxConnects
SignTypes == authenticating \in BOOLEAN /\ authTarget \in Profiles \cup {NoProfile}
LinkTypes == connecting \in BOOLEAN /\ connectSequence \in 0..MaxConnects
BusyTypes == busy \in BOOLEAN /\ writing \in BOOLEAN /\ quit \in BOOLEAN
RegTypes  == registry \subseteq Sessions /\ registryClosed \in BOOLEAN
JobTypes  == jobs \subseteq Job

AllTypes == /\ SessTypes /\ PageTypes /\ MarkTypes /\ ShowTypes /\ SignTypes
            /\ LinkTypes /\ BusyTypes /\ RegTypes /\ JobTypes

\* The groups make up TypeOK.
LEMMA TypeParts == TypeOK <=> AllTypes
BY DEF TypeOK, AllTypes, SessTypes, PageTypes, MarkTypes, ShowTypes, SignTypes, LinkTypes,
       BusyTypes, RegTypes, JobTypes

\* The same, after a step.
LEMMA TypePartsNext == TypeOK' <=> AllTypes'
BY TypeParts, PTL

\* What a step leaves alone keeps its type.
LEMMA TypesStay ==
    ASSUME TypeOK
    PROVE  /\ UNCHANGED sessVars => SessTypes'
           /\ UNCHANGED pageVars => PageTypes'
           /\ UNCHANGED <<button, handle>> => MarkTypes'
           /\ button' = FALSE /\ handle' = FALSE => MarkTypes'
           /\ UNCHANGED showVars => ShowTypes'
           /\ UNCHANGED signVars => SignTypes'
           /\ UNCHANGED linkVars => LinkTypes'
           /\ UNCHANGED regVars => RegTypes'
<1>1. SessTypes /\ PageTypes /\ MarkTypes /\ ShowTypes
  BY TypeParts DEF AllTypes
<1>2. SignTypes /\ LinkTypes /\ RegTypes
  BY TypeParts DEF AllTypes
<1>3. /\ UNCHANGED sessVars => SessTypes'
      /\ UNCHANGED pageVars => PageTypes'
  BY <1>1 DEF SessTypes, PageTypes, sessVars, pageVars
<1>4. /\ UNCHANGED <<button, handle>> => MarkTypes'
      /\ button' = FALSE /\ handle' = FALSE => MarkTypes'
  BY <1>1 DEF MarkTypes
<1>5. UNCHANGED showVars => ShowTypes'
  BY <1>1 DEF ShowTypes, showVars
<1>6. UNCHANGED signVars => SignTypes'
  BY <1>2 DEF SignTypes, signVars
<1>7. UNCHANGED linkVars => LinkTypes'
  BY <1>2 DEF LinkTypes, linkVars
<1>8. UNCHANGED regVars => RegTypes'
  BY <1>2 DEF RegTypes, regVars
<1> QED BY <1>3, <1>4, <1>5, <1>6, <1>7, <1>8

\* What the parts of the handlers set has its type.
LEMMA MoreTypes ==
    ASSUME TypeOK
    PROVE  /\ HidePreview => MarkTypes'
           /\ active' = NoEntry /\ draft' = FALSE /\ unknown' = FALSE /\ result' = 0 => ShowTypes'
           /\ CancelRead /\ UNCHANGED <<writing, quit>> => BusyTypes'
           /\ UNCHANGED <<busy, writing, quit>> => BusyTypes'
<1>1. BusyTypes
  BY TypeParts DEF AllTypes
<1>2. HidePreview => MarkTypes'
  BY DEF HidePreview, MarkTypes
<1>3. active' = NoEntry /\ draft' = FALSE /\ unknown' = FALSE /\ result' = 0 => ShowTypes'
  <2> SUFFICES ASSUME active' = NoEntry, draft' = FALSE, unknown' = FALSE, result' = 0
               PROVE  ShowTypes'
    OBVIOUS
  <2>1. active' \in Entry \cup {NoEntry} /\ draft' \in BOOLEAN /\ unknown' \in BOOLEAN
    OBVIOUS
  <2>2. result' \in 0..MaxConnects
    BY MaxConnectsAssumption
  <2> QED BY <2>1, <2>2 DEF ShowTypes
<1>4. CancelRead => busy' \in BOOLEAN
  BY Zenon DEF CancelRead
<1>5. /\ CancelRead /\ UNCHANGED <<writing, quit>> => BusyTypes'
      /\ UNCHANGED <<busy, writing, quit>> => BusyTypes'
  BY <1>1, <1>4 DEF BusyTypes
<1> QED BY <1>2, <1>3, <1>5

-----------------------------------------------------------------------------
(* Keys.                                                                    *)

\* Opening an action.
LEMMA OpenEntryKeeps ==
    ASSUME WInv, OpenEntry
    PROVE  WInv'
<1> USE DEF WInv
<1>1. ~writing /\ ~connecting /\ ~authenticating /\ catalogue # 0
  BY DEF OpenEntry, PagesFit, Available
<1>2. Silent' /\ Derived(jobs, jobs')
  BY <1>1, InvPlain, CancelSilences DEF OpenEntry
<1>3. /\ active' \in [kind : {"read", "write"}, from : {catalogue}]
      /\ result' = 0 /\ draft' = FALSE /\ unknown' = FALSE
      /\ page' = "form" /\ overlay' = "none" /\ discardTo' = discardTo
      /\ CancelRead /\ HidePreview
      /\ UNCHANGED <<sessVars, signVars, linkVars, regVars, writing, quit>>
  BY Zenon DEF OpenEntry
<1>4. active' \in Entry /\ active'.from = catalogue
  BY <1>1, <1>3 DEF Entry, Sessions, TypeOK
<1>5. TypeOK'
  <2>1. PageTypes'
    BY <1>3 DEF PageTypes, TypeOK, Pages, Overlays
  <2>2. ShowTypes'
    <3>1. active' \in Entry \cup {NoEntry}
      BY <1>4
    <3>2. draft' \in BOOLEAN /\ unknown' \in BOOLEAN
      BY <1>3
    <3>3. result' \in 0..MaxConnects
      BY <1>3, MaxConnectsAssumption
    <3> QED BY <3>1, <3>2, <3>3 DEF ShowTypes
  <2>3. JobTypes'
    BY <1>2 DEF Derived, JobTypes
  <2> QED BY <1>3, <2>1, <2>2, <2>3, TypesStay, MoreTypes, TypePartsNext DEF AllTypes
<1>6. OneCompany' /\ PagesFit'
  BY <1>1, <1>3, <1>4 DEF OneCompany, PagesFit, HidePreview, sessVars
<1>7. ThreadInv'
  BY <1>2, <1>3, DerivedThreads, ThreadsStay DEF sessVars, signVars, linkVars, regVars
<1>8. ReqInv'
  BY <1>1, <1>2, <1>3, Silences DEF Derived, linkVars, signVars
<1> QED BY <1>5, <1>6, <1>7, <1>8

\* Keys that neither ask nor cancel anything: the palette finds nothing to open, the
\* other button is selected, an overlay is closed, or the workspace is left at last.
LEMMA QuietKeysKeep ==
    ASSUME WInv, NothingOpens \/ Tab \/ CloseOverlay \/ LeaveAnyway
    PROVE  WInv'
<1> USE DEF WInv
<1>1. /\ UNCHANGED <<showVars, sessVars, signVars, linkVars, regVars, page, discardTo, handle,
                     busy, writing, jobs>>
      /\ quit => quit'
  BY DEF NothingOpens, Tab, CloseOverlay, LeaveAnyway, pageVars
<1>2. overlay' = overlay \/ overlay' = "none"
  BY DEF NothingOpens, Tab, CloseOverlay, LeaveAnyway, pageVars
<1>3. button' \in BOOLEAN /\ quit' \in BOOLEAN
  BY DEF NothingOpens, Tab, CloseOverlay, LeaveAnyway, TypeOK
<1>4. TypeOK'
  <2>1. PageTypes'
    BY <1>1, <1>2 DEF PageTypes, TypeOK, Overlays
  <2>2. MarkTypes' /\ BusyTypes'
    BY <1>1, <1>3 DEF MarkTypes, BusyTypes, TypeOK
  <2>3. JobTypes'
    BY <1>1 DEF JobTypes, TypeOK
  <2> QED BY <1>1, <2>1, <2>2, <2>3, TypesStay, TypePartsNext DEF AllTypes
<1>5. OneCompany' /\ PagesFit'
  BY <1>1, <1>2 DEF OneCompany, PagesFit, sessVars, showVars, signVars
<1>6. ThreadInv'
  BY <1>1, ThreadsStay DEF sessVars, signVars, linkVars, regVars
<1>7. ReqInv'
  BY <1>1, RequestsStay DEF sessVars, showVars, signVars, linkVars
<1> QED BY <1>4, <1>5, <1>6, <1>7

\* Invoke, from the form of a read, the review of a write or the result of a read.
LEMMA InvokeKeeps ==
    ASSUME WInv, Invoke, ~writing, overlay = "none", page \in {"form", "review", "result"},
           active.kind = "read" => page \in {"form", "result"},
           active.kind = "write" => page = "review"
    PROVE  WInv'
<1> USE DEF WInv
<1>1. /\ jobs' \subseteq Job /\ Threads(jobs') = Threads(jobs)
      /\ \A k \in jobs' : k.latest \/ \E j \in jobs : Was(j, k)
      /\ \E n \in Job : n.kind = active.kind /\ OnlyAsked(n)'
      /\ busy' = TRUE /\ handle' = FALSE /\ button' = FALSE
      /\ active.kind \in {"read", "write"} /\ writing' = (active.kind = "write")
      /\ session # 0 /\ ~connecting /\ active # NoEntry /\ unknown' = FALSE
      /\ UNCHANGED <<active, draft, result, page, overlay, discardTo, profile, session,
                     frozen, catalogue, authenticating, authTarget, connecting,
                     connectSequence, registry, registryClosed, quit>>
  BY InvPlain, InvokeSends
<1>2. ~authenticating /\ \A j \in jobs : j.kind \notin Writing
  BY NoWrites DEF ReqInv, WhileSigningIn
<1>3. TypeOK'
  <2>1. ShowTypes'
    <3>1. UNCHANGED <<active, draft, result>> /\ unknown' \in BOOLEAN
      BY <1>1
    <3> QED BY <3>1 DEF ShowTypes, TypeOK
  <2>2. BusyTypes'
    <3>1. busy' \in BOOLEAN /\ writing' \in BOOLEAN /\ quit' = quit
      BY <1>1, Zenon
    <3> QED BY <3>1 DEF BusyTypes, TypeOK
  <2>3. JobTypes'
    BY <1>1 DEF JobTypes
  <2>4. SessTypes' /\ PageTypes' /\ MarkTypes' /\ SignTypes' /\ LinkTypes' /\ RegTypes'
    BY <1>1, TypesStay DEF sessVars, pageVars, signVars, linkVars, regVars
  <2> QED BY <2>1, <2>2, <2>3, <2>4, TypePartsNext DEF AllTypes
<1>4. OneCompany'
  BY <1>1 DEF OneCompany
<1>5. PagesFit'
  BY <1>1 DEF PagesFit
<1>6. ThreadInv'
  BY <1>1, ThreadsStay
<1>7. ReqInv'
  <2>1. PICK n \in Job : n.kind = active.kind /\ OnlyAsked(n)'
    BY <1>1
  <2>2. \A k \in jobs' : k.kind \in Writing => k = n
    BY <1>1, <1>2, <2>1 DEF Was, OnlyAsked
  <2>3. n.kind \in Requests /\ (n.kind \in Writing => n.kind = "write")
    BY <1>1, <2>1 DEF Requests, Writing
  <2>4. AskedState'
    BY <1>1, <1>2, <2>1, <2>2, <2>3 DEF AskedState
  <2> QED BY <2>4, AskedNext
<1> QED BY <1>3, <1>4, <1>5, <1>6, <1>7

\* Editing a form: nothing is under way then.
LEMMA EditKeeps ==
    ASSUME WInv, Edit
    PROVE  WInv'
<1> USE DEF WInv
<1>1. /\ ~busy /\ page = "form" /\ HidePreview /\ jobs' = Voided(jobs) /\ draft' \in {draft, TRUE}
      /\ UNCHANGED <<active, result, unknown, pageVars, sessVars, signVars, linkVars, regVars,
                     busy, writing, quit>>
  BY DEF Edit
<1>2. Derived(jobs, jobs') /\ \A j \in jobs : ~j.latest
  BY <1>1, InvPlain, VoidedFacts, NoWrites
<1>3. TypeOK'
  <2>1. ShowTypes'
    <3>1. UNCHANGED <<active, unknown, result>> /\ draft' \in BOOLEAN
      BY <1>1, Zenon DEF TypeOK
    <3> QED BY <3>1 DEF ShowTypes, TypeOK
  <2>2. JobTypes'
    BY <1>2 DEF Derived, JobTypes
  <2> QED BY <1>1, <2>1, <2>2, TypesStay, MoreTypes, TypePartsNext DEF AllTypes
<1>4. OneCompany' /\ PagesFit'
  BY <1>1 DEF OneCompany, PagesFit, sessVars, signVars, pageVars, HidePreview
<1>5. ThreadInv'
  BY <1>1, <1>2, DerivedThreads, ThreadsStay DEF sessVars, signVars, linkVars, regVars
<1>6. ReqInv'
  <2>1. Silent'
    BY <1>1, <1>2 DEF Silent, Derived, Was
  <2>2. ~authenticating /\ (connecting' => ~writing' /\ ~handle')
    BY <1>1 DEF ReqInv, WhileSigningIn, WhileConnecting, HidePreview, linkVars
  <2> QED BY <1>1, <1>2, <2>1, <2>2, Silences DEF Derived, signVars
<1> QED BY <1>3, <1>4, <1>5, <1>6

\* Submitting a form: a read goes out, a write is reviewed.
LEMMA SubmitKeeps ==
    ASSUME WInv, Submit
    PROVE  WInv'
<1> USE DEF WInv
<1>1. /\ ~busy /\ ~writing /\ overlay = "none" /\ page = "form" /\ active # NoEntry
      /\ ~connecting /\ ~authenticating
  BY DEF Submit, Free, Available
<1>2. CASE Invoke /\ active.kind = "read"
  BY <1>1, <1>2, InvokeKeeps
<1>3. CASE ~(Invoke /\ active.kind = "read")
  <2>1. /\ active.kind = "write" /\ page' = "review" /\ button' = FALSE
        /\ UNCHANGED <<overlay, discardTo, showVars, sessVars, signVars, linkVars, regVars, handle,
                       busy, writing, jobs, quit>>
    BY <1>3 DEF Submit, Show
  <2>2. TypeOK'
    <3>1. PageTypes'
      BY <2>1 DEF PageTypes, Pages, TypeOK
    <3>2. MarkTypes' /\ JobTypes'
      BY <2>1 DEF MarkTypes, JobTypes, TypeOK
    <3> QED BY <2>1, <3>1, <3>2, TypesStay, MoreTypes, TypePartsNext DEF AllTypes
  <2>3. OneCompany' /\ PagesFit'
    BY <1>1, <2>1 DEF OneCompany, PagesFit, sessVars, signVars, showVars
  <2>4. ThreadInv'
    BY <2>1, ThreadsStay DEF sessVars, signVars, linkVars, regVars
  <2>5. ReqInv'
    <3>1. Silent'
      BY <1>1, <2>1, NoWrites DEF Silent
    <3>2. \A k \in jobs' : k.kind \notin Writing
      BY <1>1, <2>1, NoWrites
    <3> QED BY <1>1, <2>1, <3>1, <3>2, Silences DEF linkVars, signVars
  <2> QED BY <2>2, <2>3, <2>4, <2>5
<1> QED BY <1>2, <1>3

\* Enter on the review; the actions may be under way of being listed again then.
LEMMA ReviewKeeps ==
    ASSUME WInv, Review
    PROVE  WInv'
<1> USE DEF WInv
<1>1. /\ ~writing /\ overlay = "none" /\ page = "review" /\ active # NoEntry
      /\ active.kind = "write"
  BY DEF Review, Free, PagesFit
<1>2. CASE Invoke
  BY <1>1, <1>2, InvokeKeeps
<1>3. CASE ~Invoke
  <2>1. /\ page' = "form" /\ HidePreview /\ jobs' = Voided(jobs)
        /\ UNCHANGED <<overlay, discardTo, showVars, sessVars, signVars, linkVars, regVars,
                       busy, writing, quit>>
    BY <1>3 DEF Review, Show
  <2>2. /\ Derived(jobs, jobs')
        /\ \A j \in jobs : j.latest => \E k \in jobs' : k.latest /\ Was(j, k)
        /\ \A j, k \in jobs' : j.latest /\ k.latest => j = k
    BY <2>1, InvPlain, VoidedFacts DEF ReqInv, RequestsCurrent
  <2>3. ~authenticating /\ \A j \in jobs : j.kind \notin Writing
    BY <1>1, NoWrites DEF ReqInv, WhileSigningIn
  <2>4. \A j \in jobs : j.latest => j.kind \notin Executing
    BY <1>1, <2>3 DEF ReqInv, InFlight, Executing, Writing
  <2>5. TypeOK'
    <3>1. PageTypes'
      BY <2>1 DEF PageTypes, Pages, TypeOK
    <3>2. JobTypes'
      BY <2>2 DEF Derived, JobTypes
    <3> QED BY <2>1, <3>1, <3>2, TypesStay, MoreTypes, TypePartsNext DEF AllTypes
  <2>6. OneCompany' /\ PagesFit'
    BY <1>1, <2>1 DEF OneCompany, PagesFit, sessVars, signVars, showVars, HidePreview
  <2>7. ThreadInv'
    BY <2>1, <2>2, DerivedThreads, ThreadsStay DEF sessVars, signVars, linkVars, regVars
  <2>8. ReqInv'
    <3>1. \A k \in jobs' : /\ k.latest => \E j \in jobs : j.latest /\ Was(j, k)
                           /\ k.kind \notin Writing
      BY <2>2, <2>3 DEF Derived, Was
    <3>2. RequestsCurrent'
      BY <2>1, <2>2, <3>1 DEF ReqInv, RequestsCurrent, Was, sessVars
    <3>3. InFlight'
      BY <2>4, <3>1 DEF InFlight, Was
    <3>4. WhileConnecting' /\ WhileSigningIn'
      BY <2>1, <2>3, <3>1 DEF ReqInv, WhileConnecting, WhileSigningIn, HidePreview, linkVars,
                              signVars
    <3>5. WriteAwaited'
      BY <3>1 DEF WriteAwaited, Writing
    <3>6. (busy => \E j \in jobs : j.kind \in Requests /\ j.latest /\ j.session = session)'
      BY <2>1, <2>2 DEF ReqInv, Was, sessVars
    <3> QED BY <3>2, <3>3, <3>4, <3>5, <3>6 DEF ReqInv
  <2> QED BY <2>5, <2>6, <2>7, <2>8
<1> QED BY <1>2, <1>3

\* Confirming a preview.
LEMMA ConfirmKeeps ==
    ASSUME WInv, Confirm
    PROVE  WInv'
<1> USE DEF WInv
<1>1. /\ ~writing /\ overlay = "none" /\ page = "result" /\ session # 0 /\ ~connecting /\ ~unknown
      /\ ~authenticating
  BY DEF Confirm, Free, PagesFit, ReqInv, WhileSigningIn
<1>2. /\ jobs' = Superseded(jobs) \cup {NewJob("confirm", profile, session)}
      /\ busy' = TRUE /\ writing' = TRUE /\ HidePreview
      /\ UNCHANGED <<showVars, pageVars, sessVars, signVars, linkVars, regVars, quit>>
  BY DEF Confirm
<1>3. /\ jobs' \subseteq Job /\ Threads(jobs') = Threads(jobs)
      /\ \A k \in jobs' : k.latest \/ \E j \in jobs : Was(j, k)
      /\ \E n \in Job : n.kind = "confirm" /\ OnlyAsked(n)'
  <2> DEFINE ks == Superseded(jobs)
  <2>1. Derived(jobs, ks) /\ \A k \in ks : ~k.latest
    BY InvPlain, SupersededFacts
  <2>2. "confirm" \in Requests /\ session' = session
    BY <1>2 DEF Requests, sessVars
  <2>3. jobs' = ks \cup {NewJob("confirm", profile, session)}
    BY <1>2
  <2> HIDE DEF ks
  <2> QED BY <1>1, <2>1, <2>2, <2>3, RequestSent
<1>4. TypeOK'
  <2>1. BusyTypes'
    <3>1. busy' \in BOOLEAN /\ writing' \in BOOLEAN /\ quit' = quit
      BY <1>2
    <3> QED BY <3>1 DEF BusyTypes, TypeOK
  <2>2. JobTypes'
    BY <1>3 DEF JobTypes
  <2> QED BY <1>2, <2>1, <2>2, TypesStay, MoreTypes, TypePartsNext DEF AllTypes
<1>5. OneCompany' /\ PagesFit'
  BY <1>1, <1>2 DEF OneCompany, PagesFit, sessVars, signVars, showVars, pageVars, HidePreview
<1>6. ThreadInv'
  BY <1>2, <1>3, ThreadsStay DEF sessVars, signVars, linkVars, regVars
<1>7. ReqInv'
  <2>1. PICK n \in Job : n.kind = "confirm" /\ OnlyAsked(n)'
    BY <1>3
  <2>2. \A k \in jobs' : k.kind \in Writing => k = n
    BY <1>1, <1>3, <2>1, NoWrites DEF Was, OnlyAsked
  <2>3. AskedState'
    BY <1>1, <1>2, <2>1, <2>2 DEF AskedState, Requests, showVars, linkVars, signVars
  <2> QED BY <2>3, AskedNext
<1> QED BY <1>4, <1>5, <1>6, <1>7

\* Asking again for a result.
LEMMA RefreshResultKeeps ==
    ASSUME WInv, RefreshResult
    PROVE  WInv'
BY InvokeKeeps DEF RefreshResult, Free

\* Listing the actions again, from any page but a form.
LEMMA RefreshCatalogueKeeps ==
    ASSUME WInv, RefreshCatalogue
    PROVE  WInv'
<1> USE DEF WInv
<1>1. ~writing /\ session # 0 /\ ~connecting /\ Ask("catalogue") /\ session' = session
      /\ UNCHANGED <<showVars, pageVars, sessVars, signVars, linkVars, regVars, writing, quit>>
  BY DEF RefreshCatalogue, Free, sessVars
<1>2. /\ jobs' \subseteq Job /\ Threads(jobs') = Threads(jobs)
      /\ \A k \in jobs' : k.latest \/ \E j \in jobs : Was(j, k)
      /\ \E n \in Job : n.kind = "catalogue" /\ OnlyAsked(n)'
      /\ busy' = TRUE /\ handle' = FALSE /\ button' = FALSE
  <2>1. "catalogue" \in Requests
    BY DEF Requests
  <2> QED BY <1>1, <2>1, InvPlain, AskSends
<1>3. TypeOK'
  <2>1. BusyTypes'
    <3>1. busy' \in BOOLEAN /\ UNCHANGED <<writing, quit>>
      BY <1>1, <1>2
    <3> QED BY <3>1 DEF BusyTypes, TypeOK
  <2>2. JobTypes'
    BY <1>2 DEF JobTypes
  <2> QED BY <1>1, <1>2, <2>1, <2>2, TypesStay, MoreTypes, TypePartsNext DEF AllTypes
<1>4. OneCompany' /\ PagesFit'
  BY <1>1, <1>2 DEF OneCompany, PagesFit, sessVars, signVars, showVars, pageVars
<1>5. ThreadInv'
  BY <1>1, <1>2, ThreadsStay DEF sessVars, signVars, linkVars, regVars
<1>6. ReqInv'
  <2>1. PICK n \in Job : n.kind = "catalogue" /\ OnlyAsked(n)'
    BY <1>2
  <2>2. \A k \in jobs' : k.kind \notin Writing
    BY <1>1, <1>2, <2>1, NoWrites DEF Was, OnlyAsked, Writing
  <2>3. authenticating => ~writing /\ Elsewhere
    BY DEF ReqInv, WhileSigningIn, Elsewhere
  <2>4. AskedState'
    BY <1>1, <1>2, <2>1, <2>2, <2>3
       DEF AskedState, Requests, Executing, Writing, Elsewhere, linkVars, signVars, pageVars
  <2> QED BY <2>4, AskedNext
<1> QED BY <1>3, <1>4, <1>5, <1>6

\* What is common to the keys that cancel a read.
LEMMA CancelKeeps ==
    ASSUME WInv, ~writing, CancelRead,
           jobs' = Voided(AfterCancelRead(jobs)) \/ jobs' = AfterCancelRead(jobs),
           UNCHANGED <<sessVars, signVars, linkVars, regVars, writing>>, quit => quit',
           handle' => handle, Elsewhere => Elsewhere'
    PROVE  ThreadInv' /\ ReqInv' /\ JobTypes' /\ SessTypes' /\ SignTypes' /\ LinkTypes' /\ RegTypes'
<1> USE DEF WInv
<1>1. Silent' /\ Derived(jobs, jobs')
  BY InvPlain, CancelSilences
<1>2. ThreadInv'
  BY <1>1, DerivedThreads, ThreadsStay DEF sessVars, signVars, linkVars, regVars
<1>3. ReqInv'
  <2>1. connecting' => ~writing' /\ ~handle'
    BY DEF ReqInv, WhileConnecting, linkVars
  <2>2. authenticating' => ~writing' /\ Elsewhere'
    BY DEF ReqInv, WhileSigningIn, Elsewhere, signVars
  <2> QED BY <1>1, <2>1, <2>2, Silences DEF Derived
<1>4. JobTypes'
  BY <1>1 DEF Derived, JobTypes
<1> QED BY <1>2, <1>3, <1>4, TypesStay

\* Opening the palette or the profiles, or asking first.
LEMMA OpenOverlayKeeps ==
    ASSUME WInv, OpenPalette \/ OpenProfiles
    PROVE  WInv'
<1> USE DEF WInv
<1>1. /\ ~writing /\ CancelRead
      /\ jobs' = Voided(AfterCancelRead(jobs)) \/ jobs' = AfterCancelRead(jobs)
      /\ UNCHANGED <<page, showVars, sessVars, signVars, linkVars, regVars, writing, quit>>
  BY DEF OpenPalette, OpenProfiles, Free
<1>2. /\ overlay' \in Overlays /\ discardTo' \in {"home", "profiles", "palette"}
  BY DEF OpenPalette, OpenProfiles, Overlays, TypeOK
<1>3. /\ button' = FALSE \/ button' = button
      /\ handle' = FALSE \/ handle' = handle
  BY Zenon DEF OpenPalette, OpenProfiles, HidePreview
<1>4. ThreadInv' /\ ReqInv' /\ JobTypes' /\ SessTypes' /\ SignTypes' /\ LinkTypes' /\ RegTypes'
  BY <1>1, <1>3, CancelKeeps DEF Elsewhere
<1>5. TypeOK'
  <2>1. PageTypes'
    BY <1>1, <1>2 DEF PageTypes, TypeOK
  <2>2. MarkTypes'
    BY <1>3 DEF MarkTypes, TypeOK
  <2> QED BY <1>1, <1>4, <2>1, <2>2, TypesStay, MoreTypes, TypePartsNext DEF AllTypes
<1>6. OneCompany' /\ PagesFit'
  BY <1>1, <1>3 DEF OneCompany, PagesFit, sessVars, signVars, showVars
<1> QED BY <1>4, <1>5, <1>6

\* What an action leaves behind when it is left.
LEMMA LeaveActionFacts ==
    ASSUME LeaveAction
    PROVE  /\ jobs' = Voided(AfterCancelRead(jobs)) /\ CancelRead
           /\ handle' = FALSE /\ button' = FALSE
           /\ active' = NoEntry /\ result' = 0 /\ draft' = FALSE /\ unknown' = FALSE
           /\ page' = "workspace"
BY DEF LeaveAction, HidePreview

\* Leaving an action with its draft.
LEMMA DiscardKeeps ==
    ASSUME WInv, Discard
    PROVE  WInv'
<1> USE DEF WInv
<1>1. ~writing
  BY DEF Discard, PagesFit
<1>2. /\ LeaveAction /\ overlay' \in {"palette", "profiles", "none"} /\ discardTo' = discardTo
      /\ UNCHANGED <<sessVars, signVars, linkVars, regVars, writing, quit>>
  BY DEF Discard
<1>3. ThreadInv' /\ ReqInv' /\ JobTypes' /\ SessTypes' /\ SignTypes' /\ LinkTypes' /\ RegTypes'
  BY <1>1, <1>2, LeaveActionFacts, CancelKeeps DEF Elsewhere
<1>4. TypeOK'
  <2>1. PageTypes'
    BY <1>2, LeaveActionFacts DEF PageTypes, TypeOK, Pages, Overlays
  <2> QED BY <1>2, <1>3, <2>1, LeaveActionFacts, TypesStay, MoreTypes, TypePartsNext DEF AllTypes
<1>5. OneCompany' /\ PagesFit'
  BY <1>1, <1>2, LeaveActionFacts DEF OneCompany, PagesFit, sessVars, signVars
<1> QED BY <1>3, <1>4, <1>5

\* Leaving the workspace, or asking first: a write in flight is left alone.
LEMMA LeaveKeeps ==
    ASSUME WInv, Leave
    PROVE  WInv'
<1> USE DEF WInv
<1>1. /\ CancelRead /\ jobs' = AfterCancelRead(jobs)
      /\ UNCHANGED <<page, discardTo, showVars, sessVars, signVars, linkVars, regVars, handle,
                     writing>>
      /\ quit => quit'
  BY DEF Leave
<1>2. /\ overlay' = overlay \/ overlay' = "quit"
      /\ button' = button \/ button' = FALSE
      /\ quit' = quit \/ quit' = TRUE
  BY Zenon DEF Leave
<1>3. ThreadInv' /\ ReqInv' /\ JobTypes' /\ SessTypes' /\ SignTypes' /\ LinkTypes' /\ RegTypes'
  <2>1. CASE ~writing
    BY <1>1, <2>1, CancelKeeps DEF Elsewhere
  <2>2. CASE writing
    <3>1. jobs' = jobs /\ busy' = busy
      BY <1>1, <2>2 DEF AfterCancelRead, CancelRead, TypeOK
    <3>2. ThreadInv'
      BY <1>1, <3>1, ThreadsStay DEF sessVars, signVars, linkVars, regVars
    <3>3. ReqInv'
      BY <1>1, <3>1, RequestsStay DEF sessVars, showVars, signVars, linkVars
    <3>4. JobTypes'
      BY <3>1 DEF JobTypes, TypeOK
    <3> QED BY <1>1, <3>2, <3>3, <3>4, TypesStay
  <2> QED BY <2>1, <2>2
<1>4. TypeOK'
  <2>1. PageTypes'
    BY <1>1, <1>2 DEF PageTypes, TypeOK, Overlays
  <2>2. MarkTypes'
    BY <1>1, <1>2 DEF MarkTypes, TypeOK
  <2>3. BusyTypes'
    <3>1. busy' \in BOOLEAN
      BY <1>1, Zenon DEF CancelRead
    <3>2. quit' \in BOOLEAN /\ writing' \in BOOLEAN
      BY <1>1, <1>2 DEF TypeOK
    <3> QED BY <3>1, <3>2 DEF BusyTypes
  <2> QED BY <1>1, <1>3, <2>1, <2>2, <2>3, TypesStay, TypePartsNext DEF AllTypes
<1>5. OneCompany' /\ PagesFit'
  BY <1>1, <1>2 DEF OneCompany, PagesFit, sessVars, signVars, showVars
<1> QED BY <1>3, <1>4, <1>5

\* Escape while something is awaited.
LEMMA BackFromRequestKeeps ==
    ASSUME WInv, BackFromRequest
    PROVE  WInv'
<1> USE DEF WInv
<1>1. /\ ~writing /\ CancelRead /\ jobs' = AfterCancelRead(jobs)
      /\ UNCHANGED <<showVars, pageVars, sessVars, signVars, linkVars, regVars, button, handle,
                     writing, quit>>
  BY DEF BackFromRequest, Free
<1>2. ThreadInv' /\ ReqInv' /\ JobTypes'
  BY <1>1, CancelKeeps DEF Elsewhere, pageVars
<1>3. TypeOK'
  BY <1>1, <1>2, TypesStay, MoreTypes, TypePartsNext DEF AllTypes
<1>4. OneCompany' /\ PagesFit'
  BY <1>1 DEF OneCompany, PagesFit, sessVars, signVars, showVars, pageVars
<1> QED BY <1>2, <1>3, <1>4

\* Escape while connecting or signing in.
LEMMA BackFromConnectingKeeps ==
    ASSUME WInv, BackFromConnecting
    PROVE  WInv'
<1> USE DEF WInv
<1>1. /\ ~writing /\ ~busy /\ overlay = "none" /\ connectSequence < MaxConnects
      /\ connectSequence' = connectSequence + 1
      /\ connecting' = FALSE /\ authenticating' = FALSE
      /\ page' = "workspace" \/ page' = page
      /\ UNCHANGED <<overlay, discardTo, showVars, sessVars, authTarget, regVars, button,
                     handle, busy, writing, jobs, quit>>
  BY DEF BackFromConnecting, Free
<1>2. ~handle
  BY DEF BackFromConnecting, ReqInv, WhileConnecting, WhileSigningIn, PagesFit
<1>3. TypeOK'
  <2>1. PageTypes'
    BY <1>1 DEF PageTypes, TypeOK, Pages
  <2>2. JobTypes' /\ SignTypes'
    BY <1>1 DEF JobTypes, SignTypes, TypeOK
  <2>3. LinkTypes'
    <3>1. connecting' \in BOOLEAN
      BY <1>1
    <3>2. connectSequence' \in 0..MaxConnects
      BY <1>1, MaxConnectsAssumption DEF TypeOK
    <3> QED BY <3>1, <3>2 DEF LinkTypes
  <2> QED BY <1>1, <2>1, <2>2, <2>3, TypesStay, MoreTypes, TypePartsNext DEF AllTypes
<1>4. OneCompany' /\ PagesFit'
  BY <1>1, <1>2 DEF OneCompany, PagesFit, sessVars, showVars
<1>5. ThreadInv'
  BY <1>1, AttemptGivenUp DEF sessVars, regVars
<1>6. ReqInv'
  <2>1. Silent' /\ \A j \in jobs' : j.kind \notin Writing
    BY <1>1, NoWrites DEF Silent
  <2> QED BY <1>1, <2>1, Silences
<1> QED BY <1>3, <1>4, <1>5, <1>6

\* Escape on a page: nothing is awaited there.
LEMMA BackFromPageKeeps ==
    ASSUME WInv, BackFromPage
    PROVE  WInv'
<1> USE DEF WInv
<1>1. /\ ~writing /\ ~busy /\ overlay = "none" /\ ~connecting /\ ~authenticating
      /\ UNCHANGED <<sessVars, signVars, linkVars, regVars, writing, quit>>
  BY DEF BackFromPage, Free
<1>2. \/ /\ page = "form" /\ overlay' = "discard" /\ discardTo' = "home" /\ button' = FALSE
         /\ jobs' = AfterCancelRead(jobs) /\ CancelRead /\ UNCHANGED <<page, showVars, handle>>
      \/ LeaveAction /\ UNCHANGED <<overlay, discardTo>>
      \/ /\ page \in {"review", "result"} /\ (page = "result" => ~unknown)
         /\ page' = "form" /\ UNCHANGED <<overlay, discardTo>>
         /\ HidePreview /\ jobs' = Voided(jobs) /\ UNCHANGED <<showVars, busy>>
      \/ /\ page = "auth" /\ page' = "workspace" /\ UNCHANGED <<overlay, discardTo>>
         /\ UNCHANGED <<showVars, handle, button, busy, jobs>>
  BY DEF BackFromPage, BackPage, Show
<1>3. busy' = FALSE
  BY <1>1, <1>2 DEF CancelRead, LeaveAction, TypeOK
<1>4. Derived(jobs, jobs')
  BY <1>2, InvPlain, CancelledFacts, AfterCancelFacts, VoidedFacts, DerivedSame DEF LeaveAction
<1>5. Silent'
  BY <1>1, <1>3, <1>4, NoWrites DEF Silent, Derived, Was
<1>6. TypeOK'
  <2>1. PageTypes'
    BY <1>1, <1>2, LeaveActionFacts DEF PageTypes, TypeOK, Pages, Overlays
  <2>2. MarkTypes'
    BY <1>2, LeaveActionFacts DEF MarkTypes, TypeOK, HidePreview
  <2>3. ShowTypes'
    BY <1>2, LeaveActionFacts, TypesStay, MoreTypes
  <2>4. BusyTypes'
    <3>1. busy' \in BOOLEAN
      BY <1>3
    <3> QED BY <1>1, <3>1 DEF BusyTypes, TypeOK
  <2>5. JobTypes'
    BY <1>4 DEF Derived, JobTypes
  <2> QED BY <1>1, <2>1, <2>2, <2>3, <2>4, <2>5, TypesStay, TypePartsNext DEF AllTypes
<1>7. OneCompany'
  BY <1>1, <1>2, LeaveActionFacts DEF OneCompany, sessVars, showVars
<1>8. PagesFit'
  <2>1. PagesFit /\ ~writing' /\ authTarget' = authTarget
    BY <1>1 DEF signVars
  <2>2. CASE LeaveAction
    BY <2>1, <2>2, LeaveActionFacts DEF PagesFit
  <2>3. CASE ~LeaveAction
    <3>1. \/ page' = page /\ handle' = handle /\ UNCHANGED showVars
          \/ page' = "form" /\ ~unknown /\ handle' = FALSE /\ UNCHANGED showVars
          \/ page' = "workspace" /\ ~handle /\ handle' = handle /\ UNCHANGED showVars
      BY <1>2, <2>1, <2>3 DEF PagesFit, HidePreview
    <3> QED BY <2>1, <3>1 DEF PagesFit, showVars
  <2> QED BY <2>2, <2>3
<1>9. ThreadInv'
  BY <1>1, <1>4, DerivedThreads, ThreadsStay DEF sessVars, signVars, linkVars, regVars
<1>10. ReqInv'
  BY <1>1, <1>4, <1>5, Silences DEF Derived, linkVars, signVars
<1> QED BY <1>6, <1>7, <1>8, <1>9, <1>10

\* connect, from a key.
LEMMA ConnectKeeps ==
    ASSUME WInv, NEW p \in Profiles, Connect(p, jobs), ~writing, overlay' = "none",
           UNCHANGED <<page, discardTo, showVars, sessVars, signVars, regVars, writing, quit>>
    PROVE  WInv'
<1> USE DEF WInv
<1> DEFINE ks == Voided(AfterCancelRead(jobs))
<1>1. /\ connectSequence < MaxConnects /\ connectSequence' = connectSequence + 1
      /\ connecting' = TRUE /\ CancelRead /\ HidePreview
      /\ jobs' = ks \cup {NewJob("connect", p, connectSequence')}
  BY DEF Connect
<1>2. Derived(jobs, ks) /\ \A k \in ks : ~k.latest
  BY InvPlain, CancelledFacts
<1>3. PICK n \in Job : n = NewJob("connect", p, connectSequence')
                        /\ n.kind = "connect" /\ n.latest = FALSE /\ Other(n)
  <2>1. connectSequence' \in Sessions
    BY <1>1, MaxConnectsAssumption DEF TypeOK, Sessions
  <2> QED BY <2>1, NewThreadFacts
<1>4. /\ n.kind = "connect" /\ n.latest = FALSE /\ Other(n)
      /\ jobs' = ks \cup {n}
  BY <1>1, <1>3
<1> HIDE DEF ks
<1>5. Threads(jobs') = Threads(jobs) \cup {n}
  <2>1. Threads(ks) = Threads(jobs)
    BY <1>2, DerivedThreads
  <2> QED BY <1>4, <2>1 DEF Threads
<1>6. TypeOK'
  <2>1. PageTypes'
    BY DEF PageTypes, TypeOK, Overlays
  <2>2. LinkTypes'
    <3>1. connecting' \in BOOLEAN
      BY <1>1
    <3>2. connectSequence' \in 0..MaxConnects
      BY <1>1, MaxConnectsAssumption DEF TypeOK
    <3> QED BY <3>1, <3>2 DEF LinkTypes
  <2>3. JobTypes'
    BY <1>2, <1>4 DEF Derived, JobTypes
  <2> QED BY <1>1, <2>1, <2>2, <2>3, TypesStay, MoreTypes, TypePartsNext DEF AllTypes
<1>7. OneCompany' /\ PagesFit'
  BY <1>1 DEF OneCompany, PagesFit, sessVars, signVars, showVars, HidePreview
<1>8. ThreadInv'
  <2> DEFINE ended == {}
  <2>1. Threads(jobs') = (Threads(jobs) \ ended) \cup {NewJob("connect", p, connectSequence')}
    BY <1>3, <1>5
  <2>2. \A j \in ended : j.kind = "login"
    OBVIOUS
  <2>3. /\ UNCHANGED <<session, registry, registryClosed, quit>>
        /\ connectSequence < MaxConnects /\ connectSequence' = connectSequence + 1
        /\ connecting'
    BY <1>1 DEF sessVars, regVars
  <2> HIDE DEF ended
  <2> QED BY <2>1, <2>2, <2>3, ThreadStarts
<1>9. ReqInv'
  <2>1. Silent'
    BY <1>1, <1>2, <1>4 DEF Silent, CancelRead
  <2>2. \A k \in jobs' : k.kind \notin Writing \/ \E j \in jobs : Was(j, k)
    BY <1>2, <1>4 DEF Derived, Writing
  <2>3. ~writing' /\ ~handle' /\ (authenticating' => Elsewhere')
    BY <1>1 DEF HidePreview, ReqInv, WhileSigningIn, Elsewhere, signVars
  <2> QED BY <2>1, <2>2, <2>3, Silences
<1> QED BY <1>6, <1>7, <1>8, <1>9

\* Switching the profile, or trying again.
LEMMA ConnectingKeysKeep ==
    ASSUME WInv, SwitchProfile \/ Reconnect
    PROVE  WInv'
<1>1. CASE SwitchProfile
  <2>1. PICK p \in Profiles : Connect(p, jobs)
    BY <1>1 DEF SwitchProfile
  <2>2. ~writing
    BY <1>1 DEF SwitchProfile, WInv, PagesFit
  <2> QED BY <1>1, <2>1, <2>2, ConnectKeeps DEF SwitchProfile
<1>2. CASE Reconnect
  <2>1. profile \in Profiles
    BY DEF WInv, TypeOK
  <2> QED BY <1>2, <2>1, ConnectKeeps DEF Reconnect, Free, pageVars
<1> QED BY <1>1, <1>2

\* Signing in.
LEMMA SignInKeeps ==
    ASSUME WInv, SignIn
    PROVE  WInv'
<1> USE DEF WInv
<1> DEFINE ks == Voided(AfterCancelRead(jobs))
<1>1. /\ connectSequence < MaxConnects /\ connectSequence' = connectSequence + 1
      /\ ~writing /\ overlay = "none" /\ page = "auth" /\ ~connecting
      /\ authenticating' = TRUE /\ CancelRead /\ HidePreview
      /\ frozen' = (frozen \/ authTarget = profile)
      /\ jobs' = ks \cup {NewJob("login", authTarget, connectSequence')}
      /\ UNCHANGED <<showVars, pageVars, profile, session, catalogue, authTarget,
                     connecting, regVars, writing, quit>>
  BY DEF SignIn, Free
<1>2. Derived(jobs, ks) /\ \A k \in ks : ~k.latest
  BY <1>1, InvPlain, CancelledFacts
<1>3. authTarget \in Profiles
  BY <1>1 DEF TypeOK, PagesFit
<1>3a. PICK n \in Job : n = NewJob("login", authTarget, connectSequence')
                         /\ n.kind = "login" /\ n.latest = FALSE /\ Other(n)
  <2>1. connectSequence' \in Sessions
    BY <1>1, MaxConnectsAssumption DEF TypeOK, Sessions
  <2> QED BY <1>3, <2>1, NewThreadFacts
<1>4. /\ n.kind = "login" /\ n.latest = FALSE /\ Other(n)
      /\ jobs' = ks \cup {n}
  BY <1>1, <1>3a
<1> HIDE DEF ks
<1>5. Threads(jobs') = Threads(jobs) \cup {n}
  <2>1. Threads(ks) = Threads(jobs)
    BY <1>2, DerivedThreads
  <2> QED BY <1>4, <2>1 DEF Threads
<1>6. TypeOK'
  <2>1. SessTypes'
    <3>1. frozen' \in BOOLEAN
      BY <1>1, Zenon
    <3> QED BY <1>1, <3>1 DEF SessTypes, TypeOK
  <2>2. LinkTypes'
    BY <1>1, MaxConnectsAssumption DEF LinkTypes, TypeOK
  <2>3. JobTypes'
    BY <1>2, <1>4 DEF Derived, JobTypes
  <2>4. SignTypes'
    <3>1. authenticating' \in BOOLEAN /\ authTarget' = authTarget
      BY <1>1
    <3> QED BY <3>1 DEF SignTypes, TypeOK
  <2> QED BY <1>1, <2>1, <2>2, <2>3, <2>4, TypesStay, MoreTypes, TypePartsNext DEF AllTypes
<1>7. OneCompany' /\ PagesFit'
  BY <1>1 DEF OneCompany, PagesFit, pageVars, showVars, HidePreview
<1>8. ThreadInv'
  <2> DEFINE ended == {}
  <2>1. Threads(jobs') = (Threads(jobs) \ ended) \cup {NewJob("login", authTarget, connectSequence')}
    BY <1>3a, <1>5
  <2>2. \A j \in ended : j.kind = "login"
    OBVIOUS
  <2>3. /\ UNCHANGED <<session, registry, registryClosed, quit>>
        /\ connectSequence < MaxConnects /\ connectSequence' = connectSequence + 1
        /\ ~connecting' /\ authenticating'
    BY <1>1 DEF regVars
  <2>4. PICK p \in Profiles : p = authTarget
    BY <1>3
  <2> HIDE DEF ended
  <2> QED BY <2>1, <2>2, <2>3, <2>4, ThreadStarts
<1>9. ReqInv'
  <2>1. Silent'
    BY <1>1, <1>2, <1>4 DEF Silent, CancelRead
  <2>2. \A k \in jobs' : k.kind \notin Writing \/ \E j \in jobs : Was(j, k)
    BY <1>2, <1>4 DEF Derived, Writing
  <2>3. ~connecting' /\ ~writing' /\ Elsewhere'
    BY <1>1 DEF Elsewhere, pageVars
  <2> QED BY <1>1, <2>1, <2>2, <2>3, Silences
<1> QED BY <1>6, <1>7, <1>8, <1>9

-----------------------------------------------------------------------------
(* Commands.                                                                *)

\* A command changes its own job and the registry; that job answers to nobody.
LEMMA CommandKeeps ==
    ASSUME WInv, ThreadInv', NEW j \in jobs, Other(j),
           \/ jobs' = jobs \ {j}
           \/ \E n \in Job : /\ n.kind = j.kind /\ n.latest = j.latest
                             /\ jobs' = (jobs \ {j}) \cup {n},
           UNCHANGED <<uiVars, registryClosed>>, registry' \subseteq Sessions
    PROVE  WInv'
<1> USE DEF WInv
<1>1. ~j.latest /\ j.kind \notin Writing
  BY InvPlain DEF Plain, Other, Requests, Writing
<1>2. UNCHANGED <<showVars, pageVars, sessVars, signVars, linkVars, button, handle, busy,
                  writing, quit>>
  BY DEF uiVars
<1>3. /\ jobs' \subseteq Job
      /\ \A k \in jobs' : k.latest \/ k.kind \in Writing => k \in jobs
      /\ \A k \in jobs : k.latest => k \in jobs'
  BY <1>1 DEF TypeOK
<1>4. TypeOK'
  <2>1. RegTypes' /\ JobTypes'
    BY <1>3 DEF RegTypes, JobTypes, TypeOK
  <2> QED BY <1>2, <2>1, TypesStay, MoreTypes, TypePartsNext DEF AllTypes
<1>5. OneCompany' /\ PagesFit'
  BY <1>2 DEF OneCompany, PagesFit, sessVars, signVars, showVars, pageVars
<1>6. ReqInv'
  BY <1>2, <1>3, RequestsStay DEF sessVars, signVars, linkVars, showVars, pageVars
<1> QED BY <1>4, <1>5, <1>6

\* The commands of a job.
LEMMA CommandsKeep ==
    ASSUME WInv, NEW j \in jobs, Command(j)
    PROVE  WInv'
<1> USE DEF WInv
<1>0. j.session \in Sessions /\ registry \subseteq Sessions
  BY DEF TypeOK, Job
<1>1. CASE OpenSession(j)
  <2>1. ThreadInv'
    BY <1>1, OpenSessionThreads
  <2>2. PICK stage \in {"listing", "failed", "auth"} : Becomes(j, stage)
    BY <1>1 DEF OpenSession
  <2>3. j.kind = "connect" /\ Other(j)
    BY <1>1, KindsApart DEF OpenSession
  <2>4. \E n \in Job : /\ n.kind = j.kind /\ n.latest = j.latest
                       /\ jobs' = (jobs \ {j}) \cup {n}
    BY <2>2, <2>3, StageFacts
  <2>5. registry' \subseteq Sessions /\ UNCHANGED <<uiVars, registryClosed>>
    BY <1>0, <1>1 DEF OpenSession, Registered
  <2> QED BY <2>1, <2>3, <2>4, <2>5, CommandKeeps
<1>2. CASE LoadCatalogue(j)
  <2>1. ThreadInv'
    BY <1>2, LoadCatalogueThreads
  <2>2. PICK stage \in {"done", "failed", "auth"} : Becomes(j, stage)
    BY <1>2 DEF LoadCatalogue
  <2>3. j.kind = "connect" /\ Other(j)
    BY <1>2, KindsApart DEF LoadCatalogue
  <2>4. \E n \in Job : /\ n.kind = j.kind /\ n.latest = j.latest
                       /\ jobs' = (jobs \ {j}) \cup {n}
    BY <2>2, <2>3, StageFacts
  <2>5. registry' \subseteq Sessions /\ UNCHANGED <<uiVars, registryClosed>>
    BY <1>0, <1>2 DEF LoadCatalogue
  <2> QED BY <2>1, <2>3, <2>4, <2>5, CommandKeeps
<1>3. CASE CloseSession(j)
  <2>1. ThreadInv'
    BY <1>3, CloseSessionThreads
  <2>2. j.kind = "close" /\ Other(j)
    BY <1>3, KindsApart DEF CloseSession
  <2>3. /\ jobs' = jobs \ {j} /\ registry' \subseteq Sessions
        /\ UNCHANGED <<uiVars, registryClosed>>
    BY <1>0, <1>3 DEF CloseSession
  <2> QED BY <2>1, <2>2, <2>3, CommandKeeps
<1> QED BY <1>1, <1>2, <1>3 DEF Command

\* Leaving closes what is registered, once the workspace has been left.
LEMMA CloseAllKeeps ==
    ASSUME WInv, CloseAll
    PROVE  WInv'
<1> USE DEF WInv
<1>1. /\ quit /\ registryClosed' = TRUE /\ registry' = {} /\ jobs' = jobs
      /\ UNCHANGED <<showVars, pageVars, sessVars, signVars, linkVars, button, handle, busy,
                     writing, quit>>
  BY DEF CloseAll, uiVars
<1>2. TypeOK'
  <2>1. RegTypes' /\ JobTypes'
    BY <1>1 DEF RegTypes, JobTypes, TypeOK
  <2> QED BY <1>1, <2>1, TypesStay, MoreTypes, TypePartsNext DEF AllTypes
<1>3. OneCompany' /\ PagesFit'
  BY <1>1 DEF OneCompany, PagesFit, sessVars, signVars, showVars, pageVars
<1>4. ThreadInv'
  <2>1. UNCHANGED <<session, connecting, authenticating, connectSequence, jobs, quit>>
    BY <1>1 DEF sessVars, signVars, linkVars
  <2>2. Numbered' /\ Attempts'
    BY <2>1 DEF ThreadInv, Numbered, Attempts
  <2>3. Registry'
    BY <1>1, <2>1 DEF Registry
  <2> QED BY <2>1, <2>2, <2>3 DEF ThreadInv
<1>5. ReqInv'
  BY <1>1, RequestsStay DEF sessVars, signVars, linkVars, showVars, pageVars
<1> QED BY <1>2, <1>3, <1>4, <1>5

-----------------------------------------------------------------------------
(* Messages of attempts and sign-ins.                                       *)

\* An attempt nobody wants.
LEMMA UnwantedKeeps ==
    ASSUME WInv, NEW j \in jobs, ConnectionUnwanted(j)
    PROVE  WInv'
<1> USE DEF WInv
<1>1. /\ j.kind = "connect" /\ Other(j) /\ j.session \in Sessions /\ j.session # 0
      /\ j.profile \in Profiles
  BY KindsApart DEF ConnectionUnwanted, Arrives, TypeOK, Job, Sessions
<1>2. UNCHANGED <<showVars, pageVars, sessVars, signVars, linkVars, regVars, button, handle,
                  busy, writing, quit>>
  BY DEF ConnectionUnwanted, uiVars
<1>3. ~j.latest /\ j.kind \notin Writing
  BY <1>1, InvPlain DEF Plain, Other, Requests, Writing
<1>4. \A k \in Closing(j.profile, j.session) :
          k \in Job /\ k.latest = FALSE /\ k.kind \notin Writing
  BY <1>1, ClosingFacts DEF Writing
<1>5. \A k \in jobs' : (k \in jobs /\ k # j) \/ k \in Closing(j.profile, j.session)
  BY DEF ConnectionUnwanted
<1>6. \A k \in jobs : k # j => k \in jobs'
  BY DEF ConnectionUnwanted
<1>7. TypeOK'
  <2>1. JobTypes'
    BY <1>4, <1>5 DEF JobTypes, TypeOK
  <2> QED BY <1>2, <2>1, TypesStay, MoreTypes, TypePartsNext DEF AllTypes
<1>8. OneCompany' /\ PagesFit'
  BY <1>2 DEF OneCompany, PagesFit, sessVars, signVars, showVars, pageVars
<1>9. ThreadInv'
  BY UnwantedThreads
<1>10. ReqInv'
  BY <1>2, <1>3, <1>4, <1>5, <1>6, RequestsStay DEF sessVars, signVars, linkVars, showVars, pageVars
<1> QED BY <1>7, <1>8, <1>9, <1>10

\* The current attempt is waited for, and nothing else is.
LEMMA WhileAttempt ==
    ASSUME WInv, NEW j \in jobs, j.kind = "connect", j.session = connectSequence
    PROVE  /\ connecting /\ ~writing /\ ~handle /\ ~busy
           /\ \A k \in jobs : ~k.latest /\ k.kind \notin Writing
<1> USE DEF WInv
<1>1. connecting
  BY DEF ThreadInv, Attempts
<1>2. ~writing /\ ~handle /\ \A k \in jobs : ~k.latest
  BY <1>1 DEF ReqInv, WhileConnecting
<1>3. ~busy
  BY <1>2 DEF ReqInv
<1> QED BY <1>1, <1>2, <1>3, NoWrites

\* The attempt failed, or needs a sign-in.
LEMMA FailedKeeps ==
    ASSUME WInv, NEW j \in jobs, ConnectionFailed(j)
    PROVE  WInv'
<1> USE DEF WInv
<1>1. /\ ~writing /\ ~handle /\ ~busy
      /\ \A k \in jobs : ~k.latest /\ k.kind \notin Writing
  BY WhileAttempt DEF ConnectionFailed, Arrives, Unwanted
<1>2. /\ connecting' = FALSE
      /\ UNCHANGED <<showVars, connectSequence, busy, writing, regVars, quit>>
      /\ UNCHANGED <<discardTo, profile, session, catalogue, authenticating>>
  BY DEF ConnectionFailed, AuthError, sessVars, signVars
<1>3. /\ j.profile \in Profiles
      /\ \/ /\ authTarget' = j.profile /\ page' = "auth" /\ overlay' = "none"
            /\ HidePreview /\ frozen' = (frozen \/ j.profile = profile)
         \/ /\ page' = (IF session = 0 THEN "connecting" ELSE page)
            /\ UNCHANGED <<overlay, frozen, authTarget, handle, button>>
  BY DEF ConnectionFailed, AuthError, TypeOK, Job, sessVars, signVars
<1>4. Derived(jobs \ {j}, jobs')
  <2>1. Plain(jobs \ {j})
    BY InvPlain, PlainSubset
  <2>2. Derived(jobs \ {j}, jobs \ {j})
    BY <2>1 DEF Plain, Derived, Was
  <2>3. jobs' = jobs \ {j} \/ jobs' = Voided(jobs \ {j})
    BY DEF ConnectionFailed, AuthError
  <2> QED BY <2>1, <2>2, <2>3, VoidedFacts
<1>5. \A k \in jobs' : k.latest = FALSE /\ \E i \in jobs : Was(i, k)
  <2>1. \A k \in jobs' : k.latest \in BOOLEAN
    BY <1>4 DEF Derived, Job
  <2> QED BY <1>1, <1>4, <2>1 DEF Derived, Was
<1>6. TypeOK'
  <2>1. SessTypes'
    <3>1. frozen' \in BOOLEAN
      BY <1>3, Zenon DEF TypeOK
    <3> QED BY <1>2, <3>1 DEF SessTypes, TypeOK
  <2>2. PageTypes'
    BY <1>2, <1>3 DEF PageTypes, Pages, Overlays, TypeOK
  <2>3. MarkTypes' /\ SignTypes'
    <3>1. MarkTypes'
      BY <1>3, TypesStay, MoreTypes
    <3>2. SignTypes'
      BY <1>2, <1>3 DEF SignTypes, TypeOK
    <3> QED BY <3>1, <3>2
  <2>4. LinkTypes'
    <3>1. connecting' \in BOOLEAN
      BY <1>2
    <3> QED BY <1>2, <3>1 DEF LinkTypes, TypeOK
  <2>5. JobTypes'
    BY <1>4 DEF Derived, JobTypes
  <2> QED BY <1>2, <2>1, <2>2, <2>3, <2>4, <2>5, TypesStay, MoreTypes, TypePartsNext DEF AllTypes
<1>7. OneCompany'
  BY <1>2 DEF OneCompany, showVars
<1>8. PagesFit'
  <2>1. PagesFit /\ ~writing' /\ handle' = FALSE
    <3>1. handle' = FALSE
      BY <1>1, <1>3 DEF HidePreview, TypeOK
    <3> QED BY <1>1, <1>2, <3>1
  <2>2. j.profile # NoProfile
    BY <1>3, ProfilesAssumption
  <2> QED BY <1>2, <1>3, <2>1, <2>2 DEF PagesFit, showVars
<1>9. ThreadInv'
  BY InvPlain, FailedThreads
<1>10. ReqInv'
  <2>1. Silent'
    BY <1>1, <1>2, <1>5 DEF Silent
  <2>2. authenticating' => ~writing' /\ Elsewhere'
    BY <1>1, <1>2, <1>3 DEF ReqInv, WhileSigningIn, Elsewhere
  <2> QED BY <1>1, <1>2, <1>5, <2>1, <2>2, Silences
<1> QED BY <1>6, <1>7, <1>8, <1>9, <1>10

\* The candidate takes the place of the session.
LEMMA ConnectedKeeps ==
    ASSUME WInv, NEW j \in jobs, Connected(j)
    PROVE  WInv'
<1> USE DEF WInv
<1>1. /\ ~writing /\ ~handle /\ ~busy
      /\ \A k \in jobs : ~k.latest /\ k.kind \notin Writing
  BY WhileAttempt DEF Connected, Arrives, Unwanted
<1>2. /\ connecting' = FALSE /\ CancelRead /\ HidePreview
      /\ session' = j.session /\ profile' = j.profile /\ frozen' = FALSE
      /\ catalogue' = j.session /\ authTarget' = NoProfile
      /\ active' = NoEntry /\ draft' = FALSE /\ unknown' = FALSE /\ result' = 0
      /\ page' = "workspace" /\ overlay' = "none"
      /\ UNCHANGED <<discardTo, authenticating, connectSequence, writing, regVars, quit>>
  BY DEF Connected, CompanyForgotten
<1>3. j.profile \in Profiles /\ j.session \in 0..MaxConnects
  BY MaxConnectsAssumption DEF TypeOK, Job, Sessions
<1> DEFINE ks == Voided(AfterCancelRead(jobs \ {j}))
<1>4. Derived(jobs \ {j}, ks) /\ \A k \in ks : ~k.latest
  <2>1. Plain(jobs \ {j})
    BY InvPlain, PlainSubset
  <2> QED BY <1>1, <2>1, CancelledFacts
<1>5. \A k \in Closing(profile, session) :
          k \in Job /\ ~k.latest /\ k.kind \notin Writing
  <2>1. session \in Sessions \cup {0} /\ profile \in Profiles
    BY MaxConnectsAssumption DEF TypeOK, Sessions
  <2> QED BY <2>1, ClosingFacts DEF Writing
<1>6. jobs' = ks \cup Closing(profile, session)
  BY DEF Connected
<1> HIDE DEF ks
<1>7. TypeOK'
  <2>1. SessTypes'
    <3>1. frozen' \in BOOLEAN
      BY <1>2
    <3>2. profile' \in Profiles /\ session' \in 0..MaxConnects /\ catalogue' \in 0..MaxConnects
      BY <1>2, <1>3
    <3> QED BY <3>1, <3>2 DEF SessTypes
  <2>2. PageTypes'
    BY <1>2 DEF PageTypes, Pages, Overlays, TypeOK
  <2>3. SignTypes'
    BY <1>2 DEF SignTypes, TypeOK
  <2>4. LinkTypes'
    <3>1. connecting' \in BOOLEAN
      BY <1>2
    <3> QED BY <1>2, <3>1 DEF LinkTypes, TypeOK
  <2>5. JobTypes'
    BY <1>4, <1>5, <1>6 DEF Derived, JobTypes
  <2> QED BY <1>2, <2>1, <2>2, <2>3, <2>4, <2>5, TypesStay, MoreTypes, TypePartsNext DEF AllTypes
<1>8. OneCompany' /\ PagesFit'
  BY <1>1, <1>2 DEF OneCompany, PagesFit, HidePreview
<1>9. ThreadInv'
  BY InvPlain, ConnectedThreads
<1>10. ReqInv'
  <2>1. Silent'
    BY <1>1, <1>2, <1>4, <1>5, <1>6 DEF Silent, CancelRead
  <2>2. \A k \in jobs' : k.kind \notin Writing \/ \E i \in jobs : Was(i, k)
    BY <1>4, <1>5, <1>6 DEF Derived
  <2>3. authenticating' => ~writing' /\ Elsewhere'
    BY <1>1, <1>2 DEF Elsewhere
  <2> QED BY <1>1, <1>2, <2>1, <2>2, <2>3, Silences
<1> QED BY <1>7, <1>8, <1>9, <1>10

\* A sign-in ends; after one that is current nothing is awaited, unless the actions are
\* being listed again.
LEMMA SignedInKeeps ==
    ASSUME WInv, NEW j \in jobs, SignedIn(j)
    PROVE  WInv'
<1> USE DEF WInv
<1>1. /\ j.kind = "login" /\ Other(j) /\ j.profile \in Profiles
      /\ UNCHANGED <<showVars, pageVars, sessVars, authTarget, writing, regVars, quit>>
  BY KindsApart DEF SignedIn, TypeOK, Job
<1>2. ~j.latest /\ j.kind \notin Writing
  BY <1>1, InvPlain DEF Plain, Other, Requests, Writing
<1>3. ThreadInv'
  BY InvPlain, SignedInThreads
<1>4. OneCompany'
  BY <1>1 DEF OneCompany, showVars, sessVars
<1>5. CASE Connect(j.profile, jobs \ {j}) /\ authenticating' = FALSE /\ j.session = connectSequence
  <2>1. ~writing
    BY <1>1, <1>5 DEF ThreadInv, Attempts, ReqInv, WhileSigningIn
  <2> DEFINE ks == Voided(AfterCancelRead(jobs \ {j}))
  <2>2. Derived(jobs \ {j}, ks) /\ \A k \in ks : ~k.latest
    <3>1. Plain(jobs \ {j})
      BY InvPlain, PlainSubset
    <3> QED BY <2>1, <3>1, CancelledFacts
  <2>3. /\ connectSequence < MaxConnects /\ connectSequence' = connectSequence + 1
        /\ connecting' = TRUE /\ CancelRead /\ HidePreview
        /\ jobs' = ks \cup {NewJob("connect", j.profile, connectSequence')}
    BY <1>5 DEF Connect
  <2>4. connectSequence' \in Sessions
    BY <2>3, MaxConnectsAssumption DEF TypeOK, Sessions
  <2>5. PICK n \in Job : /\ n = NewJob("connect", j.profile, connectSequence')
                         /\ n.kind = "connect" /\ n.latest = FALSE /\ Other(n)
    BY <1>1, <2>4, NewThreadFacts
  <2> HIDE DEF ks
  <2>6. TypeOK'
    <3>1. LinkTypes'
      <4>1. connecting' \in BOOLEAN
        BY <2>3
      <4>2. connectSequence' \in 0..MaxConnects
        BY <2>4 DEF Sessions
      <4> QED BY <4>1, <4>2 DEF LinkTypes
    <3>2. SignTypes'
      <4>1. authenticating' \in BOOLEAN
        BY <1>5
      <4> QED BY <1>1, <4>1 DEF SignTypes, TypeOK
    <3>3. JobTypes'
      BY <2>2, <2>3, <2>5 DEF Derived, JobTypes
    <3> QED BY <1>1, <2>3, <3>1, <3>2, <3>3, TypesStay, MoreTypes, TypePartsNext DEF AllTypes
  <2>7. PagesFit'
    BY <1>1, <2>1, <2>3 DEF PagesFit, HidePreview, showVars, pageVars
  <2>8. ReqInv'
    <3>1. Silent'
      BY <2>1, <2>2, <2>3, <2>5 DEF Silent, CancelRead
    <3>2. \A k \in jobs' : k.kind \notin Writing \/ \E i \in jobs : Was(i, k)
      BY <2>2, <2>3, <2>5 DEF Derived, Writing
    <3>3. connecting' => ~writing' /\ ~handle'
      BY <1>1, <2>1, <2>3 DEF HidePreview
    <3> QED BY <1>5, <2>1, <3>1, <3>2, <3>3, Silences
  <2> QED BY <1>3, <1>4, <2>6, <2>7, <2>8
<1>6. CASE /\ jobs' = jobs \ {j} /\ UNCHANGED <<linkVars, busy, handle, button>>
           /\ authenticating' = FALSE \/ authenticating' = authenticating
  <2>1. TypeOK'
    <3>1. SignTypes'
      <4>1. authenticating' \in BOOLEAN
        BY <1>6 DEF TypeOK
      <4> QED BY <1>1, <4>1 DEF SignTypes, TypeOK
    <3>2. JobTypes'
      BY <1>6 DEF JobTypes, TypeOK
    <3> QED BY <1>1, <1>6, <3>1, <3>2, TypesStay, MoreTypes, TypePartsNext DEF AllTypes
  <2>2. PagesFit'
    BY <1>1, <1>6 DEF PagesFit, showVars, pageVars
  <2>3. ReqInv'
    BY <1>1, <1>2, <1>6, RequestsStay DEF showVars, pageVars, sessVars, linkVars
  <2> QED BY <1>3, <1>4, <2>1, <2>2, <2>3
<1> QED BY <1>5, <1>6 DEF SignedIn

-----------------------------------------------------------------------------
(* Messages of requests.                                                    *)

\* A late answer.
LEMMA IgnoredKeeps ==
    ASSUME WInv, NEW j \in jobs, Ignored(j)
    PROVE  WInv'
<1> USE DEF WInv
<1>1. /\ j.kind \in Requests /\ jobs' = jobs \ {j}
      /\ UNCHANGED <<showVars, pageVars, sessVars, signVars, linkVars, regVars, button, handle,
                     busy, writing, quit>>
  BY DEF Ignored, uiVars
<1>2. ~j.latest
  BY DEF Ignored, Expected, ReqInv, RequestsCurrent
<1>3. TypeOK'
  <2>1. JobTypes'
    BY <1>1 DEF JobTypes, TypeOK
  <2> QED BY <1>1, <2>1, TypesStay, MoreTypes, TypePartsNext DEF AllTypes
<1>4. OneCompany' /\ PagesFit'
  BY <1>1 DEF OneCompany, PagesFit, sessVars, signVars, showVars, pageVars
<1>5. ThreadInv'
  <2>1. Threads(jobs') = Threads(jobs)
    BY <1>1 DEF Threads, Other
  <2> QED BY <1>1, <2>1, ThreadsStay DEF sessVars, signVars, linkVars, regVars
<1>6. ReqInv'
  BY <1>1, <1>2, RequestsStay DEF sessVars, signVars, linkVars, showVars, pageVars
<1> QED BY <1>3, <1>4, <1>5, <1>6

\* The request that is answered to is the only one.
LEMMA AnswerFacts ==
    ASSUME WInv, NEW j \in jobs, Expected(j)
    PROVE  /\ j.kind \in Requests /\ j.session = session /\ ~connecting
           /\ \A k \in jobs \ {j} : ~k.latest /\ k.kind \notin Writing
           /\ j.kind \in Executing => ~unknown /\ ~j.voided /\ ~authenticating
           /\ authenticating => ~writing /\ Elsewhere
<1> USE DEF WInv
<1>1. j.latest /\ j.session = session
  BY DEF Expected
<1>2. j.kind \in Requests /\ \A k \in jobs : k.latest => k = j
  BY <1>1 DEF ReqInv, RequestsCurrent
<1>3. \A k \in jobs \ {j} : ~k.latest /\ k.kind \notin Writing
  BY <1>2 DEF ReqInv, WriteAwaited, Writing
<1>4. ~connecting
  BY <1>1 DEF ReqInv, WhileConnecting
<1>5. j.kind \in Executing => ~unknown /\ ~j.voided
  BY <1>1 DEF ReqInv, InFlight
<1>6. j.kind \in Executing => ~authenticating
  BY <1>1 DEF ReqInv, WhileSigningIn, Executing
<1>7. authenticating => ~writing /\ Elsewhere
  BY DEF ReqInv, WhileSigningIn, Elsewhere
<1> QED BY <1>1, <1>2, <1>3, <1>4, <1>5, <1>6, <1>7

\* Once it has come, there is nothing to answer to.
LEMMA AnswerEnds ==
    ASSUME WInv, NEW j \in jobs, Expected(j), busy' = FALSE,
           jobs' = jobs \ {j} \/ jobs' = Voided(jobs \ {j}),
           UNCHANGED <<session, linkVars, authenticating, regVars, quit>>,
           writing' = writing \/ writing' = FALSE,
           page' = page \/ page' \in {"auth", "connecting"} \/ j.kind \in Executing
    PROVE  JobTypes' /\ BusyTypes' /\ ThreadInv' /\ ReqInv'
<1> USE DEF WInv
<1>1. /\ j.kind \in Requests /\ ~connecting
      /\ \A k \in jobs \ {j} : ~k.latest /\ k.kind \notin Writing
      /\ j.kind \in Executing => ~authenticating
      /\ authenticating => ~writing /\ Elsewhere
  BY AnswerFacts
<1>2. Derived(jobs \ {j}, jobs')
  <2>1. Plain(jobs \ {j})
    BY InvPlain, PlainSubset
  <2>2. Derived(jobs \ {j}, jobs \ {j})
    BY <2>1 DEF Plain, Derived, Was
  <2> QED BY <2>1, <2>2, VoidedFacts
<1>3. JobTypes'
  BY <1>2 DEF Derived, JobTypes
<1>4. BusyTypes'
  <2>1. busy' \in BOOLEAN
    OBVIOUS
  <2>2. writing' \in BOOLEAN
    BY DEF TypeOK
  <2> QED BY <2>1, <2>2 DEF BusyTypes, TypeOK
<1>5. ThreadInv'
  <2>1. Threads(jobs') = Threads(jobs \ {j})
    BY <1>2, DerivedThreads
  <2>2. Threads(jobs \ {j}) = Threads(jobs)
    BY <1>1 DEF Threads, Other
  <2> QED BY <2>1, <2>2, ThreadsStay DEF linkVars, regVars
<1>6. \A k \in jobs' : ~k.latest /\ k.kind \notin Writing
  BY <1>1, <1>2 DEF Derived, Was
<1>7. authenticating' => ~writing' /\ Elsewhere'
  BY <1>1 DEF Elsewhere
<1>8. SilentState'
  BY <1>1, <1>6, <1>7 DEF SilentState, Silent, linkVars
<1> QED BY <1>3, <1>4, <1>5, <1>8, SilentNext

\* A sign-in is asked for.
LEMMA AuthErrorFacts ==
    ASSUME WInv, NEW j \in jobs, AuthError(profile, j), UNCHANGED showVars
    PROVE  /\ jobs' = Voided(jobs \ {j}) /\ page' = "auth"
           /\ UNCHANGED <<session, authenticating>>
           /\ SessTypes' /\ PageTypes' /\ MarkTypes' /\ SignTypes'
           /\ OneCompany' /\ PagesFit'
<1> USE DEF WInv
<1>1. /\ jobs' = Voided(jobs \ {j}) /\ authTarget' = profile
      /\ page' = "auth" /\ overlay' = "none" /\ discardTo' = discardTo
      /\ HidePreview /\ frozen' = (frozen \/ profile = profile)
      /\ UNCHANGED <<profile, session, catalogue, authenticating>>
  BY DEF AuthError
<1>2. SessTypes'
  <2>1. frozen' \in BOOLEAN
    BY <1>1, Zenon
  <2> QED BY <1>1, <2>1 DEF SessTypes, TypeOK
<1>3. PageTypes' /\ SignTypes'
  BY <1>1 DEF PageTypes, SignTypes, Pages, Overlays, TypeOK
<1>4. MarkTypes'
  BY <1>1, MoreTypes
<1>5. OneCompany'
  BY <1>1 DEF OneCompany, showVars
<1>6. PagesFit'
  <2>1. profile # NoProfile
    BY ProfilesAssumption DEF TypeOK
  <2> QED BY <1>1, <2>1 DEF PagesFit, HidePreview
<1> QED BY <1>1, <1>2, <1>3, <1>4, <1>5, <1>6

\* The session is not used any more.
LEMMA FreezeFacts ==
    ASSUME WInv, NEW j \in jobs, Freeze(j), UNCHANGED showVars
    PROVE  /\ jobs' = Voided(jobs \ {j}) /\ page' = "connecting"
           /\ UNCHANGED <<session, authenticating>>
           /\ SessTypes' /\ PageTypes' /\ MarkTypes' /\ SignTypes'
           /\ OneCompany' /\ PagesFit'
<1> USE DEF WInv
<1>1. /\ jobs' = Voided(jobs \ {j}) /\ frozen' = TRUE
      /\ page' = "connecting" /\ overlay' = "none" /\ discardTo' = discardTo
      /\ HidePreview
      /\ UNCHANGED <<profile, session, catalogue, signVars>>
  BY DEF Freeze
<1>2. SessTypes'
  <2>1. frozen' \in BOOLEAN
    BY <1>1
  <2> QED BY <1>1, <2>1 DEF SessTypes, TypeOK
<1>3. PageTypes' /\ SignTypes'
  BY <1>1 DEF PageTypes, SignTypes, Pages, Overlays, TypeOK, signVars
<1>4. MarkTypes'
  BY <1>1, MoreTypes
<1>5. OneCompany'
  BY <1>1 DEF OneCompany, showVars
<1>6. PagesFit'
  BY <1>1 DEF PagesFit, HidePreview
<1> QED BY <1>1, <1>2, <1>3, <1>4, <1>5, <1>6 DEF signVars

\* What is shown is as it was.
LEMMA CatalogueRefreshedKeeps ==
    ASSUME WInv, NEW j \in jobs, CatalogueRefreshed(j)
    PROVE  WInv'
<1> USE DEF WInv
<1>1. /\ Expected(j) /\ busy' = FALSE
      /\ UNCHANGED <<showVars, linkVars, writing, regVars, quit>>
  BY DEF CatalogueRefreshed, Answered
<1>2. /\ jobs' = jobs \ {j} \/ jobs' = Voided(jobs \ {j})
      /\ UNCHANGED <<session, authenticating>>
      /\ page' = page \/ page' \in {"auth", "connecting"}
      /\ SessTypes' /\ PageTypes' /\ MarkTypes' /\ SignTypes' /\ OneCompany' /\ PagesFit'
  <2>1. CASE Freeze(j)
    BY <1>1, <2>1, FreezeFacts
  <2>2. CASE AuthError(profile, j)
    BY <1>1, <2>2, AuthErrorFacts
  <2>3. CASE ~Freeze(j) /\ ~AuthError(profile, j)
    <3>1. /\ catalogue' \in {catalogue, j.session} /\ jobs' = jobs \ {j}
          /\ UNCHANGED <<profile, session, frozen, pageVars, signVars, handle, button>>
      BY <2>3 DEF CatalogueRefreshed
    <3>2. catalogue' = session /\ catalogue = session
      BY <1>1, <3>1 DEF OneCompany, Expected
    <3>3. SessTypes' /\ OneCompany'
      BY <1>1, <3>1, <3>2 DEF SessTypes, OneCompany, TypeOK, showVars
    <3>4. PagesFit'
      BY <1>1, <3>1 DEF PagesFit, showVars, pageVars, signVars
    <3> QED BY <3>1, <3>3, <3>4, TypesStay DEF pageVars, signVars
  <2> QED BY <2>1, <2>2, <2>3
<1>3. JobTypes' /\ BusyTypes' /\ ThreadInv' /\ ReqInv'
  BY <1>1, <1>2, AnswerEnds
<1>4. TypeOK'
  BY <1>1, <1>2, <1>3, TypesStay, TypePartsNext DEF AllTypes
<1> QED BY <1>2, <1>3, <1>4

\* A result, or an answer that is shown nowhere.
LEMMA ExecutedKeeps ==
    ASSUME WInv, NEW j \in jobs, Executed(j)
    PROVE  WInv'
<1> USE DEF WInv
<1>1. /\ Expected(j) /\ busy' = FALSE /\ writing' = FALSE /\ jobs' = jobs \ {j}
      /\ j.kind \in Executing
      /\ UNCHANGED <<sessVars, signVars, linkVars, regVars, quit>>
  BY DEF Executed, Executes, Answered, Executing
<1>2. \/ /\ result' = j.session /\ unknown' = FALSE /\ handle' \in BOOLEAN /\ button' = FALSE
         /\ page' = "result" /\ overlay' = "none"
         /\ UNCHANGED <<discardTo, active, draft>>
      \/ UNCHANGED <<showVars, pageVars, handle, button>>
  BY DEF Executed
<1>3. JobTypes' /\ BusyTypes' /\ ThreadInv' /\ ReqInv'
  BY <1>1, AnswerEnds DEF sessVars, signVars
<1>4. OneCompany' /\ PagesFit'
  BY <1>1, <1>2 DEF OneCompany, PagesFit, Expected, sessVars, signVars, showVars, pageVars
<1>5. TypeOK'
  <2>1. PageTypes'
    BY <1>2 DEF PageTypes, Pages, Overlays, TypeOK, pageVars
  <2>2. MarkTypes'
    BY <1>2 DEF MarkTypes, TypeOK
  <2>3. ShowTypes'
    <3>1. CASE UNCHANGED showVars
      BY <3>1, TypesStay
    <3>2. CASE result' = session /\ unknown' = FALSE /\ UNCHANGED <<active, draft>>
      <4>1. unknown' \in BOOLEAN
        BY <3>2
      <4> QED BY <3>2, <4>1 DEF ShowTypes, TypeOK
    <3> QED BY <1>1, <1>2, <3>1, <3>2 DEF Expected
  <2> QED BY <1>1, <1>3, <2>1, <2>2, <2>3, TypesStay, TypePartsNext DEF AllTypes
<1> QED BY <1>3, <1>4, <1>5

\* The action has changed: its form again, of the same session.
LEMMA SchemaChangedKeeps ==
    ASSUME WInv, NEW j \in jobs, SchemaChanged(j)
    PROVE  WInv'
<1> USE DEF WInv
<1>1. /\ Expected(j) /\ busy' = FALSE /\ writing' = FALSE /\ jobs' = Voided(jobs \ {j})
      /\ j.kind \in Executing
      /\ UNCHANGED <<sessVars, signVars, linkVars, regVars, quit>>
  BY DEF SchemaChanged, Executes, Answered, Executing
<1>2. /\ active' \in [kind : {"read", "write"}, from : {j.session}] /\ draft' = TRUE
      /\ page' = "form" /\ HidePreview
      /\ UNCHANGED <<overlay, discardTo, result, unknown>>
  BY DEF SchemaChanged, Show
<1>3. ~unknown /\ j.session = session
  BY <1>1, AnswerFacts
<1>4. JobTypes' /\ BusyTypes' /\ ThreadInv' /\ ReqInv'
  BY <1>1, AnswerEnds DEF sessVars, signVars
<1>5. active' \in Entry /\ active'.from = session
  <2>1. j.session \in Sessions
    BY DEF TypeOK, Job
  <2> QED BY <1>2, <1>3, <2>1 DEF Entry
<1>6. OneCompany' /\ PagesFit'
  BY <1>1, <1>2, <1>3, <1>5 DEF OneCompany, PagesFit, HidePreview, sessVars
<1>7. TypeOK'
  <2>1. PageTypes'
    BY <1>2 DEF PageTypes, Pages, TypeOK
  <2>2. ShowTypes'
    <3>1. draft' \in BOOLEAN
      BY <1>2
    <3> QED BY <1>2, <1>5, <3>1 DEF ShowTypes, TypeOK
  <2> QED BY <1>1, <1>2, <1>4, <2>1, <2>2, TypesStay, MoreTypes, TypePartsNext DEF AllTypes
<1> QED BY <1>4, <1>6, <1>7

\* The session has changed underneath, or a sign-in is needed.
LEMMA SessionLostKeeps ==
    ASSUME WInv, NEW j \in jobs, SessionChanged(j) \/ Unauthorized(j)
    PROVE  WInv'
<1> USE DEF WInv
<1>1. /\ Expected(j) /\ busy' = FALSE /\ writing' = FALSE
      /\ UNCHANGED <<showVars, linkVars, regVars, quit>>
      /\ Freeze(j) \/ AuthError(profile, j)
  BY DEF SessionChanged, Unauthorized, Executes, Answered
<1>2. /\ jobs' = Voided(jobs \ {j}) /\ page' \in {"auth", "connecting"}
      /\ UNCHANGED <<session, authenticating>>
      /\ SessTypes' /\ PageTypes' /\ MarkTypes' /\ SignTypes' /\ OneCompany' /\ PagesFit'
  BY <1>1, FreezeFacts, AuthErrorFacts
<1>3. JobTypes' /\ BusyTypes' /\ ThreadInv' /\ ReqInv'
  BY <1>1, <1>2, AnswerEnds
<1>4. TypeOK'
  BY <1>1, <1>2, <1>3, TypesStay, TypePartsNext DEF AllTypes
<1> QED BY <1>2, <1>3, <1>4

\* Nobody knows what has become of the write.
LEMMA OutcomeUnknownKeeps ==
    ASSUME WInv, NEW j \in jobs, OutcomeUnknown(j)
    PROVE  WInv'
<1> USE DEF WInv
<1>1. /\ Expected(j) /\ busy' = FALSE /\ writing' = FALSE /\ jobs' = Voided(jobs \ {j})
      /\ j.kind \in Executing
      /\ UNCHANGED <<sessVars, signVars, linkVars, regVars, quit>>
  BY DEF OutcomeUnknown, Executes, Answered, Executing
<1>2. /\ unknown' = TRUE /\ page' = "result" /\ HidePreview
      /\ UNCHANGED <<overlay, discardTo, active, draft, result>>
  BY DEF OutcomeUnknown, Show
<1>3. JobTypes' /\ BusyTypes' /\ ThreadInv' /\ ReqInv'
  BY <1>1, AnswerEnds DEF sessVars, signVars
<1>4. OneCompany' /\ PagesFit'
  BY <1>1, <1>2 DEF OneCompany, PagesFit, HidePreview, sessVars
<1>5. TypeOK'
  <2>1. PageTypes'
    BY <1>2 DEF PageTypes, Pages, TypeOK
  <2>2. ShowTypes'
    <3>1. unknown' \in BOOLEAN
      BY <1>2
    <3> QED BY <1>2, <3>1 DEF ShowTypes, TypeOK
  <2> QED BY <1>1, <1>2, <1>3, <2>1, <2>2, TypesStay, MoreTypes, TypePartsNext DEF AllTypes
<1> QED BY <1>3, <1>4, <1>5

\* Any other error.
LEMMA RequestFailedKeeps ==
    ASSUME WInv, NEW j \in jobs, RequestFailed(j)
    PROVE  WInv'
<1> USE DEF WInv
<1>1. /\ Expected(j) /\ busy' = FALSE /\ writing' = FALSE /\ jobs' = jobs \ {j}
      /\ j.kind \in Executing
      /\ UNCHANGED <<button, sessVars, signVars, linkVars, regVars, quit>>
  BY DEF RequestFailed, Executes, Answered, Executing
<1>2. \/ /\ result' = session /\ handle' = FALSE /\ page' = "result"
         /\ UNCHANGED <<overlay, discardTo, active, draft, unknown>>
      \/ UNCHANGED <<showVars, pageVars, handle>>
  BY <1>1 DEF RequestFailed, Show, Expected
<1>3. JobTypes' /\ BusyTypes' /\ ThreadInv' /\ ReqInv'
  BY <1>1, AnswerEnds DEF sessVars, signVars
<1>4. OneCompany' /\ PagesFit'
  BY <1>1, <1>2 DEF OneCompany, PagesFit, sessVars, signVars, showVars, pageVars
<1>5. TypeOK'
  <2>1. PageTypes'
    BY <1>2 DEF PageTypes, Pages, TypeOK, pageVars
  <2>2. MarkTypes'
    <3>1. handle' \in BOOLEAN
      BY <1>2 DEF TypeOK
    <3> QED BY <1>1, <3>1 DEF MarkTypes, TypeOK
  <2>3. ShowTypes'
    BY <1>2, TypesStay DEF ShowTypes, TypeOK
  <2> QED BY <1>1, <1>3, <2>1, <2>2, <2>3, TypesStay, TypePartsNext DEF AllTypes
<1> QED BY <1>3, <1>4, <1>5

\* Every message.
LEMMA MessagesKeep ==
    ASSUME WInv, NEW j \in jobs, Message(j)
    PROVE  WInv'
BY UnwantedKeeps, FailedKeeps, ConnectedKeeps, SignedInKeeps, IgnoredKeeps,
   CatalogueRefreshedKeeps, ExecutedKeeps, SchemaChangedKeeps, SessionLostKeeps,
   OutcomeUnknownKeeps, RequestFailedKeeps DEF Message

-----------------------------------------------------------------------------
(* The invariant, and what it says.                                         *)

\* The workspace starts with one attempt.
LEMMA InitHolds == Init => WInv
<1> SUFFICES ASSUME Init PROVE WInv
  OBVIOUS
<1>1. PICK n \in Job : /\ n = NewJob("connect", Home, 1)
                       /\ n.kind = "connect" /\ n.session = 1 /\ n.stage = "running"
                       /\ n.latest = FALSE /\ Other(n)
  <2>1. \A p \in Profiles, i \in Sessions :
            \E n \in Job : /\ n = NewJob("connect", p, i)
                          /\ n.kind = "connect" /\ n.session = i /\ n.stage = "running"
                          /\ n.latest = FALSE /\ Other(n)
    BY NewThreadFacts
  <2>2. Home \in Profiles /\ 1 \in Sessions
    BY ProfilesAssumption, MaxConnectsAssumption DEF Sessions
  <2> QED BY <2>1, <2>2
<1>2. jobs = {n} /\ connectSequence = 1 /\ session = 0 /\ connecting = TRUE
  BY <1>1 DEF Init
<1>3. TypeOK
  <2>0. 0 \in 0..MaxConnects /\ 1 \in 0..MaxConnects
    BY MaxConnectsAssumption
  <2>1. SessTypes /\ PageTypes /\ MarkTypes
    BY <2>0, ProfilesAssumption DEF Init, SessTypes, PageTypes, MarkTypes, Pages, Overlays
  <2>2. ShowTypes /\ SignTypes
    BY <2>0 DEF Init, ShowTypes, SignTypes
  <2>3. LinkTypes /\ BusyTypes /\ RegTypes
    BY <2>0 DEF Init, LinkTypes, BusyTypes, RegTypes
  <2>4. JobTypes
    BY <1>2 DEF JobTypes
  <2> QED BY <2>1, <2>2, <2>3, <2>4, TypeParts DEF AllTypes
<1>4. OneCompany /\ PagesFit
  BY DEF Init, OneCompany, PagesFit
<1>5. ThreadInv
  <2>1. ~Owner(n)
    BY <1>1 DEF Owner
  <2>2. Numbered /\ Attempts
    BY <1>1, <1>2 DEF Numbered, Attempts
  <2>3. Registry
    BY <1>1, <1>2, <2>1 DEF Init, Registry
  <2> QED BY <1>1, <1>2, <2>2, <2>3 DEF ThreadInv
<1>6. ReqInv
  <2>1. SilentState
    BY <1>1, <1>2 DEF Init, SilentState, Silent, Writing
  <2> QED BY <2>1, SilentSuffices
<1> QED BY <1>3, <1>4, <1>5, <1>6 DEF WInv

\* Every key.
LEMMA KeysKeep ==
    ASSUME WInv, Key
    PROVE  WInv'
BY OpenEntryKeeps, QuietKeysKeep, EditKeeps, SubmitKeeps, ReviewKeeps, ConfirmKeeps,
   RefreshResultKeeps, RefreshCatalogueKeeps, OpenOverlayKeeps, ConnectingKeysKeep, SignInKeeps,
   BackFromRequestKeeps, BackFromConnectingKeeps, BackFromPageKeeps, DiscardKeeps, LeaveKeeps
   DEF Key

\* Nothing happens.
LEMMA StutterKeeps ==
    ASSUME WInv, UNCHANGED vars
    PROVE  WInv'
<1> USE DEF WInv
<1>1. UNCHANGED <<showVars, pageVars, sessVars, signVars, linkVars, regVars, button, handle,
                  busy, writing, jobs, quit>>
  BY DEF vars
<1>2. TypeOK'
  <2>1. JobTypes'
    BY <1>1 DEF JobTypes, TypeOK
  <2> QED BY <1>1, <2>1, TypesStay, MoreTypes, TypePartsNext DEF AllTypes
<1>3. OneCompany' /\ PagesFit'
  BY <1>1 DEF OneCompany, PagesFit, sessVars, signVars, showVars, pageVars
<1>4. ThreadInv'
  BY <1>1, ThreadsStay DEF sessVars, signVars, linkVars, regVars
<1>5. ReqInv'
  BY <1>1, RequestsStay DEF sessVars, signVars, linkVars, showVars, pageVars
<1> QED BY <1>2, <1>3, <1>4, <1>5

\* Every step.
LEMMA NextKeeps ==
    ASSUME WInv, [Next]_vars
    PROVE  WInv'
BY KeysKeep, CloseAllKeeps, CommandsKeep, MessagesKeep, StutterKeeps DEF Next

\* The inductive invariant holds, whatever key is pressed while whatever message is late.
THEOREM WorkspaceSafety == Spec => []WInv
<1>1. Init => WInv
  BY InitHolds
<1>2. WInv /\ [Next]_vars => WInv'
  BY NextKeeps
<1> QED BY <1>1, <1>2, PTL DEF Spec

\* Every variable of the workspace keeps its type.
THEOREM WorkspaceTyped == Spec => []TypeOK
<1>1. WInv => TypeOK
  BY DEF WInv
<1> QED BY <1>1, WorkspaceSafety, PTL

\* Nothing shown or waiting to be submitted is of a company other than the one in use.
THEOREM ShowsOneCompany == Spec => []OneCompany
<1>1. WInv => OneCompany
  BY DEF WInv
<1> QED BY <1>1, WorkspaceSafety, PTL

\* The message of a write in flight is never a late one.
THEOREM WritesAwaited == Spec => []WriteAwaited
<1>1. WInv => WriteAwaited
  BY DEF WInv, ReqInv
<1> QED BY <1>1, WorkspaceSafety, PTL

\* What the status line waits for is under way.
THEOREM WaitsForSomething == Spec => []Awaited
<1>1. WInv => Awaited
  BY DEF WInv, ReqInv, ThreadInv, Awaited
<1> QED BY <1>1, WorkspaceSafety, PTL

\* Every registered session is in use, a candidate, or about to be closed.
THEOREM RegistryOwned == Spec => []SessionsOwned
<1>1. WInv => SessionsOwned
  BY DEF WInv, ThreadInv, Registry, Owner, SessionsOwned
<1> QED BY <1>1, WorkspaceSafety, PTL

-----------------------------------------------------------------------------
(* A write that may have been done is not sent again.                       *)

\* While an outcome is unknown, no write is in flight.
LEMMA NoneInFlight ==
    ASSUME WInv, unknown
    PROVE  \A j \in jobs : j.kind \notin Writing
BY DEF WInv, ReqInv, InFlight, WriteAwaited, Writing, Executing

\* The keys after which an outcome is not unknown any more send no write.
LEMMA KeysSendNoWrite ==
    ASSUME WInv, unknown, Key, ~unknown'
    PROVE  \A k \in jobs' : k.kind \notin Writing
<1> USE DEF WInv
<1>1. page \notin {"form", "review"} /\ ~handle /\ \A j \in jobs : j.kind \notin Writing
  BY NoneInFlight DEF PagesFit
<1>2. \/ OpenEntry \/ Discard \/ BackFromPage
  <2>1. ~Submit /\ ~Review /\ ~RefreshResult /\ ~Confirm
    BY <1>1 DEF Submit, Review, RefreshResult, Confirm
  <2>2. ~NothingOpens /\ ~Edit /\ ~Tab /\ ~CloseOverlay /\ ~LeaveAnyway
    BY DEF NothingOpens, Edit, Tab, CloseOverlay, LeaveAnyway, showVars
  <2>3. ~RefreshCatalogue /\ ~OpenPalette /\ ~OpenProfiles /\ ~SwitchProfile /\ ~Reconnect
    BY DEF RefreshCatalogue, OpenPalette, OpenProfiles, SwitchProfile, Reconnect, showVars
  <2>4. ~SignIn /\ ~BackFromRequest /\ ~BackFromConnecting /\ ~Leave
    BY DEF SignIn, BackFromRequest, BackFromConnecting, Leave, showVars
  <2> QED BY <2>1, <2>2, <2>3, <2>4 DEF Key
<1>3. jobs' = jobs \/ jobs' = Voided(jobs) \/ jobs' = AfterCancelRead(jobs)
      \/ jobs' = Voided(AfterCancelRead(jobs))
  BY <1>2, LeaveActionFacts DEF OpenEntry, Discard, BackFromPage
<1>4. Derived(jobs, jobs')
  BY <1>3, InvPlain, DerivedSame, VoidedFacts, AfterCancelFacts, CancelledFacts
<1> QED BY <1>1, <1>4 DEF Derived, Was

\* Nor do the messages.
LEMMA MessagesSendNoWrite ==
    ASSUME WInv, unknown, NEW j \in jobs, Message(j), ~unknown'
    PROVE  \A k \in jobs' : k.kind \notin Writing
<1> USE DEF WInv
<1>1. \A i \in jobs : i.kind \notin Writing
  BY NoneInFlight
<1>2. Executed(j) \/ Connected(j)
  <2>1. ~ConnectionUnwanted(j) /\ ~Ignored(j)
    BY DEF ConnectionUnwanted, Ignored, uiVars, showVars
  <2>2. ~ConnectionFailed(j) /\ ~SignedIn(j) /\ ~CatalogueRefreshed(j)
    BY DEF ConnectionFailed, SignedIn, CatalogueRefreshed, showVars
  <2>3. ~SchemaChanged(j) /\ ~SessionChanged(j) /\ ~Unauthorized(j)
    BY DEF SchemaChanged, SessionChanged, Unauthorized, showVars
  <2>4. ~OutcomeUnknown(j) /\ ~RequestFailed(j)
    BY DEF OutcomeUnknown, RequestFailed, showVars
  <2> QED BY <2>1, <2>2, <2>3, <2>4 DEF Message
<1>3. CASE Executed(j)
  BY <1>1, <1>3 DEF Executed
<1>4. CASE Connected(j)
  <2>1. Plain(jobs \ {j})
    BY InvPlain, PlainSubset
  <2> DEFINE ks == Voided(AfterCancelRead(jobs \ {j}))
  <2>2. Derived(jobs \ {j}, ks)
    BY <2>1, CancelledFacts
  <2>3. jobs' = ks \cup Closing(profile, session)
    BY <1>4 DEF Connected
  <2> HIDE DEF ks
  <2>4. session \in Sessions \cup {0} /\ profile \in Profiles
    BY MaxConnectsAssumption DEF TypeOK, Sessions
  <2>5. \A k \in Closing(profile, session) : k.kind \notin Writing
    BY <2>4, ClosingFacts DEF Writing
  <2> QED BY <1>1, <2>2, <2>3, <2>5 DEF Derived, Was
<1> QED BY <1>2, <1>3, <1>4

\* Between a write whose outcome is unknown and the next write, the opened action is left.
THEOREM WriteNotReplayed == Spec => NoReplay
<1>1. WInv /\ WInv' /\ [Next]_vars =>
          [\A j \in jobs' \ jobs : j.kind \in {"write", "confirm"} => ~unknown]_vars
  <2> SUFFICES ASSUME WInv, WInv', Next, NEW k \in jobs' \ jobs, k.kind \in Writing, unknown
               PROVE  FALSE
    BY DEF Writing
  <2>1. ~unknown'
    BY DEF WInv, ReqInv, WriteAwaited, InFlight, Writing, Executing
  <2>2. CASE Key
    BY <2>1, <2>2, KeysSendNoWrite
  <2>3. CASE CloseAll
    BY <2>3 DEF CloseAll
  <2>4. ASSUME NEW j \in jobs, Command(j) PROVE FALSE
    BY <2>1, <2>4 DEF Command, OpenSession, LoadCatalogue, CloseSession, uiVars, showVars
  <2>5. ASSUME NEW j \in jobs, Message(j) PROVE FALSE
    BY <2>1, <2>5, MessagesSendNoWrite
  <2> QED BY <2>2, <2>3, <2>4, <2>5 DEF Next
<1> QED BY <1>1, WorkspaceSafety, PTL DEF Spec, NoReplay

-----------------------------------------------------------------------------
(* Only a current preview can be confirmed.                                 *)

\* No key makes a result confirmable.
LEMMA KeysHandOutNothing ==
    ASSUME Key, handle'
    PROVE  handle
<1> SUFFICES ASSUME handle' # FALSE, handle' # handle
             PROVE  FALSE
  OBVIOUS
<1>1. ~OpenEntry /\ ~NothingOpens /\ ~Edit /\ ~Tab /\ ~Confirm
  BY DEF OpenEntry, NothingOpens, Edit, Tab, Confirm, HidePreview
<1>2. ~Invoke /\ ~RefreshCatalogue
  BY DEF Invoke, Ask, RefreshCatalogue, HidePreview
<1>3. ~Submit /\ ~Review /\ ~RefreshResult
  BY <1>2 DEF Submit, Review, RefreshResult, HidePreview
<1>4. \A p \in Profiles : \A js : ~Connect(p, js)
  BY DEF Connect, HidePreview
<1>5. ~OpenPalette /\ ~OpenProfiles /\ ~SwitchProfile /\ ~SignIn
  BY <1>4 DEF OpenPalette, OpenProfiles, SwitchProfile, SignIn, HidePreview
<1>6. ~Reconnect
  BY DEF Reconnect, Connect, HidePreview
<1>7. ~LeaveAction
  BY LeaveActionFacts
<1>8. ~BackFromRequest /\ ~BackFromConnecting /\ ~BackFromPage /\ ~CloseOverlay /\ ~Discard
  BY <1>7 DEF BackFromRequest, BackFromConnecting, BackFromPage, CloseOverlay, Discard, HidePreview
<1>9. ~Leave /\ ~LeaveAnyway
  BY DEF Leave, LeaveAnyway
<1> QED BY <1>1, <1>2, <1>3, <1>5, <1>6, <1>8, <1>9 DEF Key

\* Of the messages, only the answer to the latest request does.
LEMMA MessagesHandOut ==
    ASSUME WInv, NEW j \in jobs, Message(j), handle', ~handle
    PROVE  j \notin jobs' /\ j.latest /\ ~j.voided
<1> SUFFICES ASSUME handle' # FALSE, handle' # handle
             PROVE  j \notin jobs' /\ j.latest /\ ~j.voided
  OBVIOUS
<1>1. ~ConnectionUnwanted(j) /\ ~Ignored(j)
  BY DEF ConnectionUnwanted, Ignored, uiVars
<1>2. ~Freeze(j) /\ (\A p \in Profiles : ~AuthError(p, j)) /\ ~AuthError(profile, j)
      /\ ~AuthError(j.profile, j)
  BY DEF Freeze, AuthError, HidePreview
<1>3. ~ConnectionFailed(j) /\ ~Connected(j)
  BY <1>2 DEF ConnectionFailed, Connected, HidePreview
<1>4. ~SignedIn(j)
  BY DEF SignedIn, Connect, HidePreview
<1>5. ~CatalogueRefreshed(j) /\ ~SessionChanged(j) /\ ~Unauthorized(j)
  BY <1>2 DEF CatalogueRefreshed, SessionChanged, Unauthorized
<1>6. ~SchemaChanged(j) /\ ~OutcomeUnknown(j) /\ ~RequestFailed(j)
  BY DEF SchemaChanged, OutcomeUnknown, RequestFailed, HidePreview
<1>7. Executed(j)
  BY <1>1, <1>3, <1>4, <1>5, <1>6 DEF Message
<1>8. Expected(j) /\ j.kind \in Executing /\ jobs' = jobs \ {j}
  BY <1>7 DEF Executed, Executes, Answered, Executing
<1> QED BY <1>8, AnswerFacts DEF Expected

\* A confirm button appears only for a preview that nothing has invalidated.
THEOREM OnlyCurrentConfirmable == Spec => ConfirmableCurrent
<1>1. WInv /\ WInv' /\ [Next]_vars =>
          [/\ handle' => page' = "result"
           /\ handle' /\ ~handle => \E j \in jobs \ jobs' : j.latest /\ ~j.voided]_vars
  <2> SUFFICES ASSUME WInv, WInv', Next
               PROVE  /\ handle' => page' = "result"
                      /\ handle' /\ ~handle => \E j \in jobs \ jobs' : j.latest /\ ~j.voided
    OBVIOUS
  <2> SUFFICES ASSUME handle'
               PROVE  /\ page' = "result"
                      /\ ~handle => \E j \in jobs \ jobs' : j.latest /\ ~j.voided
    OBVIOUS
  <2>1. page' = "result"
    BY DEF WInv, PagesFit
  <2>2. CASE Key
    BY <2>1, <2>2, KeysHandOutNothing
  <2>3. CASE CloseAll
    BY <2>1, <2>3 DEF CloseAll, uiVars
  <2>4. ASSUME NEW j \in jobs, Command(j) PROVE handle
    BY <2>4 DEF Command, OpenSession, LoadCatalogue, CloseSession, uiVars
  <2>5. ASSUME NEW j \in jobs, Message(j), ~handle
        PROVE  \E i \in jobs \ jobs' : i.latest /\ ~i.voided
    BY <2>5, MessagesHandOut
  <2> QED BY <2>1, <2>2, <2>3, <2>4, <2>5 DEF Next
<1> QED BY <1>1, WorkspaceSafety, PTL DEF Spec, ConfirmableCurrent
=============================================================================
