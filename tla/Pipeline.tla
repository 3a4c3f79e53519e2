------------------------------ MODULE Pipeline ------------------------------
(***************************************************************************)
(* The way of a request through the middleware stack and back:             *)
(*                                                                         *)
(*   ExceptionHandling - RequestID - Timing - Authentication - RateLimit   *)
(*     - Logging - CostTracking - route                                    *)
(*                                                                         *)
(* and the database connections it takes from the engine's pool on the     *)
(* way, for its authentication and for its record.  What authentication,   *)
(* limiter and chat completion decide is modelled by ApiKeyAuth,           *)
(* RateLimiter and ChatGateway; here they decide anything they can.        *)
(***************************************************************************)
EXTENDS Integers, FiniteSets

CONSTANTS
  Request, \* the requests of a run; a request id that is minted is the request
  Id,      \* request ids that clients send
  None,    \* no header, no response
  Pool     \* connections of the engine's pool

VARIABLES
  phase,   \* where the request is
  ask,     \* [public, key, inbound, stream]: what of it the stack looks at
  id,      \* request.state.request_id
  holds,   \* it has a connection checked out
  left,    \* transactions its running database work still needs
  answer,  \* [status, layer]: its response and the layer that made it
  reply,   \* what the client received
  row      \* the request_id in its row of request_logs, None without a row

vars == <<phase, ask, id, holds, left, answer, reply, row>>

Ask == [public : BOOLEAN, key : BOOLEAN, inbound : Id \cup {None}, stream : BOOLEAN]

\* The layers that make a response, and the statuses they make.
Made == [status : {200, 404, 422, 502}, layer : {"route"}]
   \cup [status : {429}, layer : {"limiter"}]
   \cup [status : {401}, layer : {"auth"}]
   \cup [status : {500}, layer : {"exceptions"}]

Reply == [status : {200, 401, 404, 422, 429, 500, 502}, error : Id \cup Request \cup {None},
          header : Id \cup Request \cup {None}, timed : BOOLEAN]

ASSUME PipelineAssumption ==
  /\ Pool \in Nat \ {0}
  /\ None \notin Id \cup Request
  /\ Id \cap Request = {}
  /\ None \notin Reply

InDatabase == {"authDb", "logDb"}

-----------------------------------------------------------------------------
Init ==
  /\ phase  = [r \in Request |-> "idle"]
  /\ ask    = [r \in Request |-> None]
  /\ id     = [r \in Request |-> None]
  /\ holds  = [r \in Request |-> FALSE]
  /\ left   = [r \in Request |-> 0]
  /\ answer = [r \in Request |-> None]
  /\ reply  = [r \in Request |-> None]
  /\ row    = [r \in Request |-> None]

Go(r, from, to) == phase[r] = from /\ phase' = [phase EXCEPT ![r] = to]

Answer(r, status, layer) ==
  answer' = [answer EXCEPT ![r] = [status |-> status, layer |-> layer]]

RequestId(r, inbound) == IF inbound = None THEN r ELSE inbound

\* Every path needs a key.
NothingIsPublic(a) == FALSE

Public(a) == a.public

Enter(r, a, to) ==
  /\ Go(r, "idle", to)
  /\ ask' = [ask EXCEPT ![r] = a]
  /\ id' = [id EXCEPT ![r] = RequestId(r, a.inbound)]
  /\ UNCHANGED <<holds, left, reply, row>>

\* A public path passes both gates without a look at the key.
EnterPublic(r) ==
  /\ \E a \in Ask : Public(a) /\ Enter(r, a, "route")
  /\ UNCHANGED answer

EnterWithKey(r) ==
  /\ \E a \in Ask : ~Public(a) /\ a.key /\ Enter(r, a, "auth")
  /\ UNCHANGED answer

\* Without a key the answer is a 401 before anything is awaited.
EnterWithoutKey(r) ==
  /\ \E a \in Ask : ~Public(a) /\ ~a.key /\ Enter(r, a, "respond")
  /\ Answer(r, 401, "auth")

-----------------------------------------------------------------------------
(* The pool.  A session takes a connection for each transaction: one for   *)
(* an authentication, and for a record one per insert and one for the      *)
(* refresh of the row it inserted last.                                    *)

Free == Pool - Cardinality({r \in Request : holds[r]})

Connect(r, from, to) ==
  /\ Free > 0
  /\ Go(r, from, to)
  /\ holds' = [holds EXCEPT ![r] = TRUE]
  /\ UNCHANGED <<ask, id, left, answer, reply, row>>

\* The session of the authentication stays open for the whole request.
SessionStaysOpen(r) == UNCHANGED holds

SessionCloses(r) == holds' = [holds EXCEPT ![r] = FALSE]

\* The pool has had no connection for its timeout: an authentication becomes
\* a 500, a record is given up.
AuthTimesOut(r) ==
  /\ Free = 0
  /\ Go(r, "auth", "respond")
  /\ Answer(r, 500, "exceptions")
  /\ UNCHANGED <<ask, id, holds, left, reply, row>>

AfterLog(r) == IF reply[r] = None THEN "respond" ELSE "ended"

LogTimesOut(r) ==
  /\ Free = 0
  /\ Go(r, "log", AfterLog(r))
  /\ left' = [left EXCEPT ![r] = 0]
  /\ UNCHANGED <<ask, id, holds, answer, reply, row>>

-----------------------------------------------------------------------------
(* AuthenticationMiddleware and RateLimitMiddleware.                       *)

AuthConnect(r) == Connect(r, "auth", "authDb")

\* The session is closed before the next layer is called.
Admit(r) ==
  /\ Go(r, "authDb", "limiter")
  /\ SessionCloses(r)
  /\ UNCHANGED <<ask, id, left, answer, reply, row>>

Refuse(r) ==
  /\ Go(r, "authDb", "respond")
  /\ SessionCloses(r)
  /\ Answer(r, 401, "auth")
  /\ UNCHANGED <<ask, id, left, reply, row>>

\* An exception of the database is no AuthenticationError.
AuthFails(r) ==
  /\ Go(r, "authDb", "respond")
  /\ SessionCloses(r)
  /\ Answer(r, 500, "exceptions")
  /\ UNCHANGED <<ask, id, left, reply, row>>

\* Counted, or let through because Redis failed.
LetThrough(r) ==
  /\ Go(r, "limiter", "route")
  /\ UNCHANGED <<ask, id, holds, left, answer, reply, row>>

LimitExceeded(r) ==
  /\ Go(r, "limiter", "respond")
  /\ Answer(r, 429, "limiter")
  /\ UNCHANGED <<ask, id, holds, left, reply, row>>

-----------------------------------------------------------------------------
(* The route and its record.                                               *)

\* A response of which nothing is recorded: public paths, discovery, unknown
\* paths, invalid bodies.
RouteAnswers(r) ==
  /\ Go(r, "route", "respond")
  /\ \E s \in IF ask[r].public THEN {200} ELSE {200, 404, 422} :
       Answer(r, s, "route")
  /\ UNCHANGED <<ask, id, holds, left, reply, row>>

\* An exception no layer below ExceptionHandling knows.
RouteRaises(r) ==
  /\ Go(r, "route", "respond")
  /\ ~ask[r].public
  /\ Answer(r, 500, "exceptions")
  /\ UNCHANGED <<ask, id, holds, left, reply, row>>

\* Every insert and every refresh has a transaction of its own.
TransactionsApart(usage) == IF usage THEN 4 ELSE 2

Transactions(usage) == IF usage THEN 3 ELSE 2

\* A JSON completion, or a chain that is exhausted: recorded before the
\* response leaves CostTracking.
ChatEnds(r) ==
  /\ Go(r, "route", "log")
  /\ ~ask[r].public
  /\ \E s \in IF ask[r].stream THEN {502} ELSE {200, 502}, usage \in BOOLEAN :
       /\ s = 502 => ~usage
       /\ Answer(r, s, "route")
       /\ left' = [left EXCEPT ![r] = Transactions(usage)]
  /\ UNCHANGED <<ask, id, holds, reply, row>>

\* A stream has its first chunk: its response leaves before it is recorded.
StreamBegins(r) ==
  /\ Go(r, "route", "respond")
  /\ ~ask[r].public /\ ask[r].stream
  /\ Answer(r, 200, "route")
  /\ left' = [left EXCEPT ![r] = 1]
  /\ UNCHANGED <<ask, id, holds, reply, row>>

\* The generator has sent [DONE].
StreamEnds(r) ==
  /\ Go(r, "stream", "log")
  /\ \E usage \in BOOLEAN : left' = [left EXCEPT ![r] = Transactions(usage)]
  /\ UNCHANGED <<ask, id, holds, answer, reply, row>>

\* The server cancels the generator of a client that is gone.
StreamIsLeft(r) ==
  /\ phase[r] \in {"stream", "log", "logDb"}
  /\ reply[r] # None
  /\ phase' = [phase EXCEPT ![r] = "ended"]
  /\ holds' = [holds EXCEPT ![r] = FALSE]
  /\ UNCHANGED <<ask, id, left, answer, reply, row>>

LogConnect(r) == Connect(r, "log", "logDb")

\* A transaction ends and gives its connection back.  The first one of a
\* record inserts the row.
Transaction(r) ==
  /\ Go(r, "logDb", IF left[r] = 1 THEN AfterLog(r) ELSE "log")
  /\ left' = [left EXCEPT ![r] = @ - 1]
  /\ SessionCloses(r)
  /\ row' = [row EXCEPT ![r] = id[r]]
  /\ UNCHANGED <<ask, id, answer, reply>>

\* The database raises, before or after its commit: logged and swallowed.
LogFails(r) ==
  /\ Go(r, "logDb", AfterLog(r))
  /\ row' \in {row, [row EXCEPT ![r] = id[r]]}
  /\ left' = [left EXCEPT ![r] = 0]
  /\ SessionCloses(r)
  /\ UNCHANGED <<ask, id, answer, reply>>

-----------------------------------------------------------------------------
(* The way back.                                                           *)

\* The id is left to the RequestID layer.
NoErrorId(r) == None

\* build_error_response and the exception handlers put the id into the body
\* and the header of an error.
ErrorId(r) == id[r]

\* RequestID and Timing stamp what passes them on its way out; a response of
\* ExceptionHandling is made outside of them.
Stamped(r) ==
  LET made   == answer[r]
      passes == made.layer # "exceptions"
  IN  [status |-> made.status,
       error  |-> IF made.status = 200 THEN None ELSE ErrorId(r),
       header |-> IF passes THEN id[r] ELSE ErrorId(r),
       timed  |-> passes]

\* Of the responses, a stream has work left when it goes out.
Respond(r) ==
  /\ Go(r, "respond", IF left[r] > 0 THEN "stream" ELSE "ended")
  /\ reply' = [reply EXCEPT ![r] = Stamped(r)]
  /\ left' = [left EXCEPT ![r] = 0]
  /\ UNCHANGED <<ask, id, holds, answer, row>>

-----------------------------------------------------------------------------
\* Nothing is left to do.
Quiet == (\A r \in Request : phase[r] = "ended") /\ UNCHANGED vars

Arrive(r) == EnterPublic(r) \/ EnterWithKey(r) \/ EnterWithoutKey(r)

\* What the gateway does next, or learns from database, Redis and provider.
Progress(r) ==
  \/ AuthConnect(r) \/ Admit(r) \/ Refuse(r) \/ AuthFails(r)
  \/ LetThrough(r) \/ LimitExceeded(r)
  \/ RouteAnswers(r) \/ RouteRaises(r) \/ ChatEnds(r)
  \/ StreamBegins(r) \/ StreamEnds(r)
  \/ LogConnect(r) \/ Transaction(r) \/ LogFails(r)
  \/ Respond(r)

\* What may happen to it, or not.
Mishap(r) == AuthTimesOut(r) \/ LogTimesOut(r) \/ StreamIsLeft(r)

Next == (\E r \in Request : Arrive(r) \/ Progress(r) \/ Mishap(r)) \/ Quiet

Spec == Init /\ [][Next]_vars

\* The gateway's own tasks go on; nothing is assumed of database, Redis,
\* providers and pool.
FairSpec == Spec /\ \A r \in Request :
  WF_vars(Respond(r)) /\ WF_vars(ask[r] # None /\ ask[r].public /\ RouteAnswers(r))

\* Database, Redis and providers answer or fail, and the pool serves who
\* waits; its timeout is not needed for anything.
EverybodyAnswers == \A r \in Request : WF_vars(Progress(r))

-----------------------------------------------------------------------------
\* Every variable holds values of its type in every reachable state.
TypeOK ==
  /\ phase \in [Request -> {"idle", "auth", "authDb", "limiter", "route",
                            "stream", "log", "logDb", "respond", "ended"}]
  /\ ask \in [Request -> Ask \cup {None}]
  /\ id \in [Request -> Id \cup Request \cup {None}]
  /\ holds \in [Request -> BOOLEAN]
  /\ left \in [Request -> 0 .. 3]
  /\ answer \in [Request -> Made \cup {None}]
  /\ reply \in [Request -> Reply \cup {None}]
  /\ row \in [Request -> Id \cup Request \cup {None}]

\* Client, logs and tables name a request alike: whichever layer made the
\* response, its header, the body of an error and the row agree, on the id the
\* client sent if it sent one.
Traceable == \A r \in Request : reply[r] # None =>
  /\ reply[r].header # None
  /\ ask[r].inbound # None => reply[r].header = ask[r].inbound
  /\ reply[r].status # 200 => reply[r].error = reply[r].header
  /\ row[r] \in {None, reply[r].header}

\* A connection is out of the pool only while the database works for the
\* request: nobody keeps one over a call to Redis, to a provider or to the
\* client, or while waiting for another one.
OnlyWorkersHold == \A r \in Request : holds[r] => phase[r] \in InDatabase

\* If everybody answers every request ends, however small the pool: no request
\* waits for a connection that is held by one that waits too.
EveryRequestEnds ==
  EverybodyAnswers => \A r \in Request : ask[r] # None ~> phase[r] = "ended"

\* A liveness probe, like a request without a key, is answered by the gateway
\* alone, whatever state database, Redis and providers are in.
ProbesAreAnswered == \A r \in Request :
  ask[r] # None /\ (ask[r].public \/ ~ask[r].key) ~> phase[r] = "ended"

=============================================================================
