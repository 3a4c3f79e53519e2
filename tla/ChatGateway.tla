---------------------------- MODULE ChatGateway ----------------------------
(***************************************************************************)
(* A chat completion from the moment its body is accepted to the moment    *)
(* nothing more will happen to it: the walk along the fallback chain, the  *)
(* JSON reply or the SSE stream, and the request and usage rows that are   *)
(* written about it.                                                       *)
(*                                                                         *)
(* Four pieces of code take turns on a request: the route and its service  *)
(* (phases walk, calling), CostTrackingMiddleware (track), the ASGI server *)
(* that transmits the response (respond) and the SSE generator (stream to  *)
(* ending).  persist_chat_outcome (log, usage) runs on behalf of three of  *)
(* them.  Each await is a point where a provider, the database or the      *)
(* client decides what happens next, or where the process dies.            *)
(***************************************************************************)
EXTENDS FallbackChain

CONSTANTS
  Request,    \* the requests of a run
  Body,       \* the bodies clients send, a subset of ChatRequest
  Settings,   \* [chain, model]: the configured default chain and models
  Registered, \* providers with an entry in the registry
  Timed,      \* providers whose client is given the request timeout
  MaxDeltas   \* bound: text deltas of one stream

ASSUME GatewayAssumption ==
  /\ Body \subseteq ChatRequest
  /\ None \notin Body
  /\ MaxDeltas \in Nat
  /\ Settings \in SettingsType

VARIABLES
  phase,    \* where the request is
  body,     \* the ChatRequest
  pos,      \* index of the chain entry being tried, or that answered
  attempts, \* the FallbackAttempts collected so far
  chunk,    \* the StreamChunk the generator holds
  errored,  \* the generator caught a ProviderCallError
  response, \* what the route answers: a status and, for JSON, the completion
  stash,    \* request.state.chat_outcome
  saving,   \* the running persist_chat_outcome: who awaits it, the outcome
  http,     \* the status line the client received
  sent,     \* the completion or the SSE events the client was sent
  logs,     \* rows of request_logs about this request
  usages,   \* rows of usage_logs about this request
  warned    \* a persistence failure was logged

walkVars  == <<body, pos, attempts>>
replyVars == <<response, http, sent>>
sseVars   == <<chunk, errored>>
saveVars  == <<stash, saving, logs, usages, warned>>
vars      == <<phase, walkVars, sseVars, replyVars, saveVars>>

-----------------------------------------------------------------------------
(* Values.                                                                 *)

Settled  == {"done", "cancelled", "lost"}
InFlight == {"walk", "calling", "track", "respond", "stream", "pulling",
             "closing", "ending", "log", "usage"}

Cost  == Nat \cup {None}
Spent == Usage \cup {None}

Attempt == [target : Target, why : {"unregistered", "failed", "empty"}]

\* What an adapter yields: text, or the final chunk with the usage if known.
TextChunk     == [delta |-> TRUE, final |-> FALSE, usage |-> None]
FinalChunk(u) == [delta |-> FALSE, final |-> TRUE, usage |-> u]
Chunk         == {TextChunk} \cup {FinalChunk(u) : u \in Spent}

Outcome == [provider : Provider, model : Model, usage : Spent, cost : Cost,
            status : {"success", "fallback", "error"}]

Completion == [type : {"completion"}, provider : Provider, model : Model,
               usage : Spent, cost : Cost, fallback : BOOLEAN]
Event == Completion
  \cup [type : {"delta"}, provider : Provider, model : Model]
  \cup [type : {"usage"}, usage : Usage, cost : Cost]
  \cup [type : {"error", "done"}]

Answer == [status : {200, 500, 502}, event : Completion \cup {None}]

\* None is none of them.
ASSUME NoneAssumption ==
  None \notin Outcome /\ None \notin Completion /\ None \notin Answer

Saver == {"middleware", "route", "generator"}

LogRows   == [provider : Provider, model : Model,
              status : {"success", "fallback", "error"}]
UsageRows == [provider : Provider, model : Model, usage : Usage, cost : Cost,
              log : Nat]

Chain(r)  == BuildFallbackChain(body[r], Settings)
Entry(r) == Chain(r)[pos[r]]
Stream(r) == body[r].stream

-----------------------------------------------------------------------------
(* The outcomes that are recorded.                                         *)

\* A status no reader of the table knows.
StatusOfVerbose(p, b) ==
  IF p # b.provider THEN "fallback_used" ELSE "success"

StatusOf(p, b) == IF p # b.provider THEN "fallback" ELSE "success"

ErrorOutcome(b) ==
  [provider |-> b.provider, model |-> b.model, status |-> "error",
   usage |-> None, cost |-> None]

\* The streaming route leaves its error for the middleware as well.
ErrorStashBoth(b) == ErrorOutcome(b)

\* No outcome is left behind when the chain is exhausted.
ErrorStashNone(b) == None

\* The outcome an exhausted chain leaves on request.state: the streaming
\* route persists it itself and leaves nothing.
ErrorStash(b) == IF b.stream THEN None ELSE ErrorOutcome(b)

JsonOutcome(b, t, u) ==
  [provider |-> t[1], model |-> t[2], status |-> StatusOf(t[1], b),
   usage |-> u, cost |-> CalculateCost(t[1], t[2], u)]

JsonCompletion(b, t, u) ==
  [type |-> "completion", provider |-> t[1], model |-> t[2], usage |-> u,
   cost |-> IF u = None THEN None ELSE CalculateCost(t[1], t[2], u),
   fallback |-> t[1] # b.provider]

\* The stream is priced and recorded with the model of the request, whoever
\* serves it.
StreamCost(b, p, u) ==
  IF u = None THEN None ELSE CalculateCost(p, b.model, u)

\* A broken stream that is recorded like a complete one.
StreamOutcomeDeaf(b, p, u, failed) ==
  [provider |-> p, model |-> b.model, status |-> StatusOf(p, b),
   usage |-> u, cost |-> StreamCost(b, p, u)]

StreamOutcome(b, p, u, failed) ==
  [provider |-> p, model |-> b.model,
   status |-> IF failed THEN "error" ELSE StatusOf(p, b),
   usage |-> u, cost |-> StreamCost(b, p, u)]

-----------------------------------------------------------------------------
Init ==
  /\ phase    = [r \in Request |-> "idle"]
  /\ body     = [r \in Request |-> None]
  /\ pos      = [r \in Request |-> 0]
  /\ attempts = [r \in Request |-> <<>>]
  /\ chunk    = [r \in Request |-> None]
  /\ errored  = [r \in Request |-> FALSE]
  /\ response = [r \in Request |-> None]
  /\ stash    = [r \in Request |-> None]
  /\ saving   = [r \in Request |-> None]
  /\ http     = [r \in Request |-> 0]
  /\ sent     = [r \in Request |-> <<>>]
  /\ logs     = [r \in Request |-> <<>>]
  /\ usages   = [r \in Request |-> <<>>]
  /\ warned   = [r \in Request |-> FALSE]

Go(r, from, to) == phase[r] = from /\ phase' = [phase EXCEPT ![r] = to]

SendIf(r, given, e) ==
  sent' = [sent EXCEPT ![r] = IF given THEN Append(@, e) ELSE @]

Send(r, e) == SendIf(r, TRUE, e)

\* A validated body reaches the route.
Accept(r) ==
  /\ Go(r, "idle", "walk")
  /\ \E b \in Body : body' = [body EXCEPT ![r] = b]
  /\ pos' = [pos EXCEPT ![r] = 1]
  /\ UNCHANGED <<attempts, sseVars, replyVars, saveVars>>

-----------------------------------------------------------------------------
(* The walk along the chain: FallbackExecutor.run and .run_streaming.      *)

\* An entry that is tried again and again until it answers.
TryAgain(r, from, why) ==
  /\ Go(r, from, "walk")
  /\ UNCHANGED <<walkVars, sseVars, replyVars, saveVars>>

TryNext(r, from, why) ==
  /\ Go(r, from, "walk")
  /\ attempts' = [attempts EXCEPT ![r] =
                    Append(@, [target |-> Entry(r), why |-> why])]
  /\ pos' = [pos EXCEPT ![r] = @ + 1]
  /\ UNCHANGED <<body, sseVars, replyVars, saveVars>>

\* The last entry of the chain is never tried.
ChainEndsEarly(r) == pos[r] >= Len(Chain(r))

ChainEnds(r) == pos[r] > Len(Chain(r))

SkipUnregistered(r) ==
  /\ phase[r] = "walk"
  /\ ~ChainEnds(r)
  /\ Entry(r)[1] \notin Registered
  /\ TryNext(r, "walk", "unregistered")

CallProvider(r) ==
  /\ Go(r, "walk", "calling")
  /\ ~ChainEnds(r)
  /\ Entry(r)[1] \in Registered
  /\ UNCHANGED <<walkVars, sseVars, replyVars, saveVars>>

\* A ProviderCallError: the SDK raised, or its timeout expired.
CallFails(r) == TryNext(r, "calling", "failed")

\* stream() ended before its first chunk.
StreamEmpty(r) == /\ phase[r] = "calling"
                  /\ Stream(r)
                  /\ TryNext(r, "calling", "empty")

\* An exception no adapter normalised (building the SDK client raised): it
\* passes the executor, the service and CostTrackingMiddleware and becomes
\* the 500 of ExceptionHandlingMiddleware.
CallRaises(r) ==
  /\ Go(r, "calling", "respond")
  /\ response' = [response EXCEPT ![r] = [status |-> 500, event |-> None]]
  /\ UNCHANGED <<walkVars, sseVars, http, sent, saveVars>>

\* ChatService.complete with a result.
CallAnswers(r) ==
  /\ Go(r, "calling", "track")
  /\ ~Stream(r)
  /\ \E u \in Spent :
       /\ stash' = [stash EXCEPT ![r] = JsonOutcome(body[r], Entry(r), u)]
       /\ response' = [response EXCEPT ![r] =
            [status |-> 200, event |-> JsonCompletion(body[r], Entry(r), u)]]
  /\ UNCHANGED <<walkVars, sseVars, http, sent, saving, logs, usages, warned>>

\* stream_chat_completion with a first chunk: committed to this provider.
FirstChunk(r) ==
  /\ Go(r, "calling", "track")
  /\ Stream(r)
  /\ \E c \in Chunk : chunk' = [chunk EXCEPT ![r] = c]
  /\ response' = [response EXCEPT ![r] = [status |-> 200, event |-> None]]
  /\ UNCHANGED <<walkVars, errored, http, sent, saveVars>>

\* AllProvidersFailedError: a 502 either way.  The service leaves its outcome
\* to the middleware, the streaming route persists it before it raises.
Exhausted(r) ==
  /\ Go(r, "walk", IF Stream(r) THEN "log" ELSE "track")
  /\ ChainEnds(r)
  /\ stash' = [stash EXCEPT ![r] = ErrorStash(body[r])]
  /\ saving' = [saving EXCEPT ![r] =
       IF Stream(r)
       THEN [by |-> "route", outcome |-> ErrorOutcome(body[r])] ELSE None]
  /\ response' = [response EXCEPT ![r] = [status |-> 502, event |-> None]]
  /\ UNCHANGED <<walkVars, sseVars, http, sent, logs, usages, warned>>

-----------------------------------------------------------------------------
(* CostTrackingMiddleware, once call_next has returned, and the transport. *)

NothingToTrack(r) ==
  /\ Go(r, "track", "respond")
  /\ stash[r] = None
  /\ UNCHANGED <<walkVars, sseVars, replyVars, saveVars>>

TrackOutcome(r) ==
  /\ Go(r, "track", "log")
  /\ stash[r] # None
  /\ saving' = [saving EXCEPT ![r] = [by |-> "middleware", outcome |-> stash[r]]]
  /\ UNCHANGED <<walkVars, sseVars, replyVars, stash, logs, usages, warned>>

CostTracking(r) == NothingToTrack(r) \/ TrackOutcome(r)

Respond(r) ==
  /\ Go(r, "respond",
        IF Stream(r) /\ response[r].status = 200 THEN "stream" ELSE "done")
  /\ http' = [http EXCEPT ![r] = response[r].status]
  /\ SendIf(r, response[r].event # None, response[r].event)
  /\ UNCHANGED <<walkVars, sseVars, response, saveVars>>

-----------------------------------------------------------------------------
(* The SSE generator.                                                      *)

DeltaEvent(r) ==
  [type |-> "delta", provider |-> Entry(r)[1], model |-> body[r].model]

FinalUsage(r) == IF chunk[r].final THEN chunk[r].usage ELSE None

\* The told cost is looked up with the model that served, the recorded one
\* still with the model that was asked for.
UsageEventServed(r) ==
  [type |-> "usage", usage |-> FinalUsage(r),
   cost |-> CalculateCost(Entry(r)[1], Entry(r)[2], FinalUsage(r))]

UsageEvent(r) ==
  [type |-> "usage", usage |-> FinalUsage(r),
   cost |-> StreamCost(body[r], Entry(r)[1], FinalUsage(r))]

\* Forward the delta of the chunk in hand, then leave the loop or pull.
EmitChunk(r) ==
  /\ Go(r, "stream", IF chunk[r].final THEN "closing" ELSE "pulling")
  /\ SendIf(r, chunk[r].delta, DeltaEvent(r))
  /\ UNCHANGED <<walkVars, sseVars, response, http, saveVars>>

NextChunk(r) ==
  /\ Go(r, "pulling", "stream")
  /\ \E c \in Chunk :
       /\ c.delta => Len(sent[r]) < MaxDeltas
       /\ chunk' = [chunk EXCEPT ![r] = c]
  /\ UNCHANGED <<walkVars, errored, replyVars, saveVars>>

\* StopAsyncIteration without a final chunk.
StreamStops(r) ==
  /\ Go(r, "pulling", "closing")
  /\ UNCHANGED <<walkVars, sseVars, replyVars, saveVars>>

\* A broken stream is continued by the next provider of the chain.
StreamFailsOver(r) == TryNext(r, "pulling", "failed")

\* A broken stream ends at the error event.
StreamFailsRaw(r) ==
  /\ Go(r, "pulling", "log")
  /\ errored' = [errored EXCEPT ![r] = TRUE]
  /\ Send(r, [type |-> "error"])
  /\ saving' = [saving EXCEPT ![r] =
       [by |-> "generator",
        outcome |-> StreamOutcome(body[r], Entry(r)[1], None, TRUE)]]
  /\ UNCHANGED <<walkVars, chunk, response, http, stash, logs, usages, warned>>

\* A ProviderCallError after the first chunk: no fallback any more.
StreamFails(r) ==
  /\ Go(r, "pulling", "closing")
  /\ errored' = [errored EXCEPT ![r] = TRUE]
  /\ Send(r, [type |-> "error"])
  /\ UNCHANGED <<walkVars, chunk, response, http, saveVars>>

EmitUsage(r) ==
  /\ Go(r, "closing", "ending")
  /\ SendIf(r, FinalUsage(r) # None, UsageEvent(r))
  /\ UNCHANGED <<walkVars, sseVars, response, http, saveVars>>

EmitDone(r) ==
  /\ Go(r, "ending", "log")
  /\ Send(r, [type |-> "done"])
  /\ saving' = [saving EXCEPT ![r] =
       [by |-> "generator",
        outcome |-> StreamOutcome(body[r], Entry(r)[1], FinalUsage(r),
                                  errored[r])]]
  /\ UNCHANGED <<walkVars, sseVars, response, http, stash, logs, usages, warned>>

-----------------------------------------------------------------------------
(* persist_chat_outcome: two inserts, each committed on its own.           *)

AfterSave(by) ==
  CASE by = "middleware" -> "respond"
    [] by = "route"      -> "track"
    [] by = "generator"  -> "done"

\* The end of persist_chat_outcome: whoever awaited it goes on.
Saved(r, from) ==
  /\ Go(r, from, AfterSave(saving[r].by))
  /\ saving' = [saving EXCEPT ![r] = None]

LogRow(o) == [provider |-> o.provider, model |-> o.model, status |-> o.status]

\* The usage row points at the request_logs row created just before.
UsageRow(o, id) == [provider |-> o.provider, model |-> o.model,
                    usage |-> o.usage, cost |-> o.cost, log |-> id]

AddLog(r) ==
  logs' = [logs EXCEPT ![r] = Append(@, LogRow(saving[r].outcome))]

AddUsage(r) ==
  usages' = [usages EXCEPT ![r] =
               Append(@, UsageRow(saving[r].outcome, Len(logs[r])))]

\* Without a usage the request row is all there is to write.
LogOnly(r) ==
  /\ Saved(r, "log")
  /\ saving[r].outcome.usage = None
  /\ AddLog(r)
  /\ UNCHANGED <<walkVars, sseVars, replyVars, stash, usages, warned>>

LogCommits(r) ==
  /\ Go(r, "log", "usage")
  /\ saving[r].outcome.usage # None
  /\ AddLog(r)
  /\ UNCHANGED <<walkVars, sseVars, replyVars, stash, saving, usages, warned>>

UsageCommits(r) ==
  /\ Saved(r, "usage")
  /\ AddUsage(r)
  /\ UNCHANGED <<walkVars, sseVars, replyVars, stash, logs, warned>>

Warn(r) == warned' = [warned EXCEPT ![r] = TRUE]

\* Connecting, inserting, committing or the refresh after a commit raised:
\* the row is there or not, and the exception is logged and swallowed.
LogFails(r) ==
  /\ Saved(r, "log")
  /\ AddLog(r) \/ UNCHANGED logs
  /\ Warn(r)
  /\ UNCHANGED <<walkVars, sseVars, replyVars, stash, usages>>

UsageFails(r) ==
  /\ Saved(r, "usage")
  /\ AddUsage(r) \/ UNCHANGED usages
  /\ Warn(r)
  /\ UNCHANGED <<walkVars, sseVars, replyVars, stash, logs>>

-----------------------------------------------------------------------------
(* The client and the process.                                             *)

\* The server learns that an SSE client is gone and cancels the generator.
\* CancelledError is no Exception, and the yields of the finally block let it
\* out: what the generator has not persisted by now it never will.
Disconnect(r) ==
  /\ \/ phase[r] \in {"stream", "pulling", "closing", "ending"}
     \/ phase[r] \in {"log", "usage"} /\ saving[r].by = "generator"
  /\ phase' = [phase EXCEPT ![r] = "cancelled"]
  /\ UNCHANGED <<walkVars, sseVars, replyVars, saveVars>>

\* The process dies: committed rows survive, everything in flight is lost.
Crash ==
  /\ \E r \in Request : phase[r] \in InFlight
  /\ phase' = [r \in Request |->
                 IF phase[r] \in InFlight THEN "lost" ELSE phase[r]]
  /\ UNCHANGED <<walkVars, sseVars, replyVars, saveVars>>

\* Nothing is left to do.
Quiet == (\A r \in Request : phase[r] \in Settled) /\ UNCHANGED vars

-----------------------------------------------------------------------------
(* Who takes the next step.                                                *)

Gateway(r) ==
  \/ SkipUnregistered(r) \/ CallProvider(r) \/ Exhausted(r)
  \/ CostTracking(r) \/ Respond(r)
  \/ EmitChunk(r) \/ EmitUsage(r) \/ EmitDone(r)

Upstream(r) ==
  \/ CallFails(r) \/ StreamEmpty(r) \/ CallRaises(r) \/ CallAnswers(r)
  \/ FirstChunk(r) \/ NextChunk(r) \/ StreamStops(r) \/ StreamFails(r)

Database(r) ==
  LogOnly(r) \/ LogCommits(r) \/ UsageCommits(r) \/ LogFails(r) \/ UsageFails(r)

Step(r) == Accept(r) \/ Gateway(r) \/ Upstream(r) \/ Database(r) \/ Disconnect(r)

Next == (\E r \in Request : Step(r)) \/ Crash \/ Quiet

Spec == Init /\ [][Next]_vars

\* A provider with a timeout answers or fails, and so does the database; a
\* provider without one may stay silent for ever.
TimedUpstream(r) ==
  /\ phase[r] \in {"calling", "pulling"}
  /\ Entry(r)[1] \in Timed
  /\ Upstream(r)

Fairness == \A r \in Request :
  WF_vars(Gateway(r)) /\ WF_vars(TimedUpstream(r)) /\ WF_vars(Database(r))

FairSpec == Spec /\ Fairness

-----------------------------------------------------------------------------
\* Every variable holds values of its type in every reachable state.
TypeOK ==
  /\ phase \in [Request -> {"idle"} \cup InFlight \cup Settled]
  /\ body \in [Request -> Body \cup {None}]
  /\ pos \in [Request -> Nat]
  /\ attempts \in [Request -> Seq(Attempt)]
  /\ chunk \in [Request -> Chunk \cup {None}]
  /\ errored \in [Request -> BOOLEAN]
  /\ response \in [Request -> Answer \cup {None}]
  /\ stash \in [Request -> Outcome \cup {None}]
  /\ saving \in [Request -> [by : Saver, outcome : Outcome] \cup {None}]
  /\ http \in [Request -> {0, 200, 500, 502}]
  /\ sent \in [Request -> Seq(Event)]
  /\ logs \in [Request -> Seq(LogRows)]
  /\ usages \in [Request -> Seq(UsageRows)]
  /\ warned \in [Request -> BOOLEAN]

=============================================================================
