------------------------------ MODULE Discovery ------------------------------
(***************************************************************************)
(* GET /v1/models and GET /v1/health/providers: asyncio.gather over the    *)
(* registered providers, whose list_models or health_check runs as a task  *)
(* of its own and may answer, fail or time out in any order.  gather gives *)
(* up at the first exception and leaves the other tasks running.           *)
(***************************************************************************)
EXTENDS Providers

CONSTANTS
  Request,   \* the requests of a run
  Breakable  \* providers whose configuration may be wrong

ASSUME DiscoveryAssumption ==
  /\ Breakable \subseteq ProviderName
  /\ None \notin {"health", "models"}

VARIABLES
  registry, \* app.state.provider_registry, built by lifespan
  broken,   \* providers whose client cannot be built (a malformed base URL)
  what,     \* which of the two endpoints a request asked
  phase,    \* idle, gather, answered (200) or failed (500)
  task,     \* per request and provider: none, ready, asking, done or raised
  result,   \* what a task returned: up, down or models, or None
  report    \* the providers of the response, in order

env   == <<registry, broken>>
local == <<what, phase, task, result, report>>
vars  == <<env, local>>

Checks(p) == Adapter(p).checks
Names     == {registry[i] : i \in DOMAIN registry}

\* An SDK client that cannot be built, outside the try block.
Raises(r, p) == what[r] = "health" /\ p \in broken /\ ~Checks(p).guarded

\* A list that is part of the code.
Listed(r, p) == what[r] = "models" /\ Checks(p).static

Init ==
  /\ \E keys \in SUBSET Credential : registry = BuildProviderRegistry(keys)
  /\ broken \in SUBSET Breakable
  /\ what   = [r \in Request |-> None]
  /\ phase  = [r \in Request |-> "idle"]
  /\ task   = [r \in Request |-> [p \in ProviderName |-> "none"]]
  /\ result = [r \in Request |-> [p \in ProviderName |-> None]]
  /\ report = [r \in Request |-> <<>>]

Go(r, from, to) == phase[r] = from /\ phase' = [phase EXCEPT ![r] = to]

\* gather makes a task of every provider's coroutine.
Gather(r) ==
  /\ Go(r, "idle", "gather")
  /\ \E w \in {"health", "models"} : what' = [what EXCEPT ![r] = w]
  /\ task'  = [task EXCEPT ![r] =
       [p \in ProviderName |-> IF p \in Names THEN "ready" ELSE "none"]]
  /\ UNCHANGED <<env, result, report>>

Becomes(r, p, from, to) ==
  /\ task[r][p] = from
  /\ task' = [task EXCEPT ![r][p] = to]

Returns(r, p, value) == result' = [result EXCEPT ![r][p] = value]

\* The error is reported instead of the status.
FailureText(r) == "error"

\* What a call that failed is reported as.
Failure(r) == IF what[r] = "health" THEN "down" ELSE "nothing"

ListStatic(r, p) ==
  /\ Becomes(r, p, "ready", "done")
  /\ Listed(r, p)
  /\ Returns(r, p, "models")
  /\ UNCHANGED <<env, what, phase, report>>

AskProvider(r, p) ==
  /\ Becomes(r, p, "ready", "asking")
  /\ ~Listed(r, p) /\ p \notin broken
  /\ UNCHANGED <<env, what, phase, result, report>>

ClientRaises(r, p) ==
  /\ Becomes(r, p, "ready", "raised")
  /\ Raises(r, p)
  /\ UNCHANGED <<env, what, phase, result, report>>

ClientFails(r, p) ==
  /\ Becomes(r, p, "ready", "done")
  /\ ~Listed(r, p) /\ p \in broken /\ ~Raises(r, p)
  /\ Returns(r, p, Failure(r))
  /\ UNCHANGED <<env, what, phase, report>>

Answers(r, p) ==
  /\ Becomes(r, p, "asking", "done")
  /\ Returns(r, p, IF what[r] = "health" THEN "up" ELSE "models")
  /\ UNCHANGED <<env, what, phase, report>>

\* An exception of the call is not caught.
CallRaises(r, p) ==
  /\ Becomes(r, p, "asking", "raised")
  /\ UNCHANGED <<env, what, phase, result, report>>

\* No connection, a timeout, an error status, an answer that is no JSON.
CallFails(r, p) ==
  /\ Becomes(r, p, "asking", "done")
  /\ Returns(r, p, Failure(r))
  /\ UNCHANGED <<env, what, phase, report>>

\* A provider that is down, or lists nothing, has no models in the report, but
\* it has an entry in the report on health.
Reported(r) == Filter(registry, {p \in ProviderName : result[r][p] # "nothing"})

\* The first task that is done is enough.
CollectFirst(r) ==
  /\ \E p \in Names : task[r][p] = "done"
  /\ Go(r, "gather", "answered")
  /\ report' = [report EXCEPT ![r] =
       Filter(registry, {p \in ProviderName : task[r][p] = "done"})]
  /\ UNCHANGED <<env, what, task, result>>

Collect(r) ==
  /\ \A p \in Names : task[r][p] = "done"
  /\ Go(r, "gather", "answered")
  /\ report' = [report EXCEPT ![r] = Reported(r)]
  /\ UNCHANGED <<env, what, task, result>>

\* The exception passes the route and becomes a 500; the other tasks go on.
Propagate(r) ==
  /\ \E p \in Names : task[r][p] = "raised"
  /\ Go(r, "gather", "failed")
  /\ UNCHANGED <<env, what, task, result, report>>

Idle(r) == \A p \in ProviderName : task[r][p] \in {"none", "done", "raised"}

Quiet ==
  /\ \A r \in Request : phase[r] \in {"answered", "failed"} /\ Idle(r)
  /\ UNCHANGED vars

Run(r, p) ==
  \/ ListStatic(r, p) \/ AskProvider(r, p)
  \/ ClientRaises(r, p) \/ ClientFails(r, p)

Step(r) ==
  \/ Gather(r) \/ Collect(r) \/ Propagate(r)
  \/ \E p \in ProviderName : Run(r, p) \/ Answers(r, p) \/ CallFails(r, p)

Next == (\E r \in Request : Step(r)) \/ Quiet

Spec == Init /\ [][Next]_vars

\* asyncio runs what is ready; a call with a timeout ends.
FairSpec == Spec /\ \A r \in Request :
  /\ WF_vars(Collect(r)) /\ WF_vars(Propagate(r))
  /\ \A p \in ProviderName : WF_vars(Run(r, p))
  /\ \A p \in {q \in ProviderName : Checks(q).timed} : WF_vars(CallFails(r, p))

-----------------------------------------------------------------------------
\* Every variable holds values of its type in every reachable state.
TypeOK ==
  /\ Names \subseteq ProviderName
  /\ broken \subseteq ProviderName
  /\ what \in [Request -> {"health", "models", None}]
  /\ phase \in [Request -> {"idle", "gather", "answered", "failed"}]
  /\ task \in [Request -> [ProviderName -> {"none", "ready", "asking", "done", "raised"}]]
  /\ result \in [Request -> [ProviderName -> {"up", "down", "models", "nothing", None}]]

\* A report on health has every registered provider once, in the order of the
\* registry, whatever order they answered in; a report on models has those of
\* every provider whose models are part of the code, reachable or not.
NobodyMissing == \A r \in Request : phase[r] = "answered" =>
  IF what[r] = "health" THEN report[r] = registry
  ELSE \A p \in Names : Checks(p).static =>
         \E i \in DOMAIN report[r] : report[r][i] = p

\* A provider that is down, slow or talks nonsense never fails a report: only
\* the report on health can fail, and only if an SDK client cannot be built.
FailsForAClientOnly == \A r \in Request : phase[r] = "failed" =>
  /\ what[r] = "health"
  /\ \E p \in Names : p \in broken \cap {"openai", "anthropic"}

\* Every report ends, and so do the calls of a report that failed and is
\* waited for by nobody.
EveryReportEnds == \A r \in Request :
  phase[r] = "gather" ~> phase[r] \in {"answered", "failed"} /\ Idle(r)

=============================================================================
