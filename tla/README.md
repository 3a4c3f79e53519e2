# AI Gateway Service: TLA+ models and proofs

Formal models of the gateway under `src/`: a FastAPI service that puts one
`/v1/chat/completions` endpoint in front of OpenAI, Anthropic, Gemini and
Ollama, with fallback chains, SSE streaming, a Redis rate limiter and request
and usage tables.  Every definition is translated from the code; `PROJECT.json`
maps each one to the lines it stands for, lists the runs, and names for every
checked property a mutation of the code model that breaks it.

Run a model with `tlc -config MCChatOne.cfg MCChatGateway`, check the proofs
with `tlapm ChatGatewayProofs.tla` and likewise the other proof modules of
section 2.

## 1. The system

A request passes CORS → ExceptionHandling → RequestID → Timing →
Authentication → RateLimit → Logging → CostTracking → route
(`main.py:70-97`), then a service, the fallback executor and a provider
adapter.  One asyncio process serves all requests; every `await` is a point
where another request, Redis, the database, a provider or the client may act.

| Component | State it keeps | Operations | Talks to |
|---|---|---|---|
| Chat route and `ChatService` | `request.state.chat_outcome` | build the chain, run it, stash the outcome, 200 or 502 | executor, pricing, CostTracking (through the stash) |
| SSE streaming (`chat_streaming.py`) | the generator's locals: chunk in hand, final usage, error | obtain the first chunk, forward deltas, error/usage/[DONE] events, persist | executor, persistence, the ASGI server that pulls it |
| `FallbackExecutor` | the attempts of a walk | `run`, `run_streaming` | registry, adapters |
| Fallback chain, pricing | none (pure) | `build_fallback_chain`, `calculate_cost` | settings, `PRICING_TABLE` |
| Provider registry, adapters | the registered adapters, built once | `generate`, `stream`, `list_models`, `health_check` | the providers' SDKs |
| Outcome persistence, CostTracking | `request_logs`, `usage_logs` | two inserts, each committed on its own; failures swallowed | database |
| Rate limiter | Redis counters with a TTL | `INCR`, `EXPIRE`, reject or pass, fail open | Redis, the clock |
| API key authentication | `api_keys` | look up, check active and expiry, touch `last_used_at` | database, the clock |
| Request id, timing, logging, exception middleware | `request.state.request_id` | add headers, turn an unhandled exception into a 500 | all layers inside |
| Discovery | none | `gather` over `list_models` / `health_check` | adapters |
| Audit log | a table nobody writes | none | none |
| Configuration, wiring, migrations, key script | settings | start-up only; the script inserts a key | database |

**What is hard here.**  Three pieces of code may persist one request
(middleware, streaming route, SSE generator), so a record may be doubled or
missing.  A stream is written by a generator that runs after its middleware has
returned, whose `finally` block yields and awaits, and that the server cancels
when the client goes away.  A provider may fail before or after its first
chunk, with different obligations.  The two inserts of an outcome are separate
commits.  The rate limiter reads the clock, awaits, and reads it again, and its
two Redis commands are not atomic.  A provider without a timeout can hold a
request.  `PROJECT.json` lists each hazard at its line, with the properties
that would catch it going wrong.

**What makes each component correct.**

* Chat completion: the entries of the chain are tried in order, none is skipped
  and none is retried; what the client sees, what is recorded and what is
  billed agree; one verdict per request.
* Streaming: the text of a stream comes from one provider; events keep their
  order; a stream that ends normally ends with [DONE] and is recorded once.
* Persistence: at most one row of each kind per request, a usage row only under
  its request row; nothing is lost without a warning (section 6 has the cases
  where the code loses something).
* Chain and pricing: explicit list over defaults, no repeat of the primary
  provider; an unknown price never looks free.
* Rate limiter: at most `Limit` per window (twice that across a boundary), no
  client pays for another, `Retry-After` helps, keys do not leak.
* Authentication: no inactive or expired key is admitted on the state that was
  read, no valid one is refused; the touch of `last_used_at` does not undo a
  concurrent deactivation and is left to requests that passed the checks.
* Adapters: no text is lost, nor the usage, whichever chunk carried it; a caller
  gets texts and then exactly one end, and every failure is a
  `ProviderCallError`.  The code keeps this in part: before the first text other
  exceptions get out, and a usage reported in pieces is not added up (section 6).
* Discovery: no registered provider is missing from a report, a provider that is
  down fails no report, every report ends.
* Reports over the tables: the summaries of the keys add up to the summary of
  all, a key is charged what its requests spent, at every moment and for every
  period.
* Pipeline: no database connection is held across `call_next`, so requests
  cannot starve one another; every response names its request in the same way,
  whichever layer made it; probes need nobody but the gateway.

## 2. Modules

| Module | Models | Kind |
|---|---|---|
| `Sublists` | the list comprehension with a condition (`[x for x in s if ...]`) | pure operator |
| `FallbackChain` | `chat_service.py:49-62` `build_fallback_chain`, `pricing.py` `calculate_cost` | pure operators |
| `ChatGateway` | chat route, `ChatService`, `FallbackExecutor`, streaming, CostTracking, persistence; extends `FallbackChain` | state machine |
| `ChatGatewayProperties` | what that machine promises | properties |
| `ChatContract` | the abstract chat completion | abstract specification |
| `RateLimiter` | `RateLimitMiddleware.dispatch`, Redis, the clock | state machine |
| `ApiKeyAuth` | `AuthenticationMiddleware`, `ApiKeyAuthBackend`, the `api_keys` repository and table | state machine |
| `Pipeline` | the middleware stack around the route, the exception handlers, the database pool | state machine |
| `Providers` | `providers/registry.py`, the differences between the four adapters, the conversions of `common.py` | pure operators |
| `ProviderAdapter` | `generate` and `stream` of the adapters, for a caller that pulls, waits or leaves; extends `Providers` | state machine |
| `ProviderContract` | what the executor and the SSE generator rely on when they call a provider | abstract specification |
| `Discovery` | `GET /v1/models`, `GET /v1/health/providers`, `list_models` and `health_check`; extends `Providers` | state machine |
| `UsageLedger` | `request_logs` and `usage_logs` of several keys over time, `list_recent`, `aggregate_cost` | state machine |
| `ChatGatewayProofs` | types, `RecordedOnce`, the other safety properties of the chat completion, the refinement of `ChatContract`, the chain and its price | proofs |
| `RateLimiterProofs`, `ApiKeyAuthProofs`, `PipelineProofs`, `ProviderAdapterProofs`, `DiscoveryProofs`, `UsageLedgerProofs` | theorems about the module of that name | proofs |
| `DataLemmas` | what `Filter`, `FlattenSeq` and sums over finite sets compute | proofs |
| `MCChatGateway`, `MCRateLimiter`, `MCApiKeyAuth`, `MCPipeline`, `MCProviderAdapter`, `MCDiscovery`, `MCUsageLedger` | instances for TLC | model checking |

Next to some definitions stands a variant that no specification uses
(`FoldLast` beside `Fold`, `KeyOfClient` beside `Key`): a plausible bug of that
code.  `PROJECT.json` pairs each with the property that fails when it takes the
place of the definition beside it.

### ChatGateway: state and actions

Each variable is a function of the request.  `phase` says whose turn it is:

| Phase | Code that is running or awaited |
|---|---|
| `walk` | the loop over the chain, between two entries |
| `calling` | `await provider.generate(...)` or `await stream.__anext__()` for the first chunk |
| `track` | `CostTrackingMiddleware` after `call_next` returned |
| `log`, `usage` | the first and the second insert of `persist_chat_outcome`; `saving.by` says who awaits it |
| `respond` | the response on its way through the outer layers |
| `stream` | the generator with a chunk in hand; `pulling`: awaiting the next one |
| `closing`, `ending` | the `finally` block before the usage event, before [DONE] |
| `done`, `cancelled`, `lost` | finished; cancelled by a disconnect; the process died |

`stash` is `request.state.chat_outcome`, `saving` the arguments of a running
`persist_chat_outcome`, `response` what the route answered, `http` and `sent`
what the client received, `logs` and `usages` the committed rows about this
request, `warned` the logged persistence failure.

| Action | Code |
|---|---|
| `Accept` | a validated body reaches the route |
| `SkipUnregistered`, `CallProvider` | the two branches at the head of the executor's loop |
| `CallFails`, `StreamEmpty` | a `ProviderCallError`; a stream that ends before its first chunk: note the attempt, go on |
| `CallRaises` | an exception no adapter normalised (the SDK client is built outside the `try`): 500 |
| `CallAnswers`, `FirstChunk` | the result of `complete`; the first chunk of `stream_chat_completion` |
| `Exhausted` | `AllProvidersFailedError`: stash the error outcome (JSON) or persist it from the route (SSE), 502 |
| `NothingToTrack`, `TrackOutcome`, `Respond` | the middleware and the transport |
| `EmitChunk`, `NextChunk`, `StreamStops`, `StreamFails`, `EmitUsage`, `EmitDone` | the generator, one action between two suspension points |
| `LogOnly`, `LogCommits`, `UsageCommits`, `LogFails`, `UsageFails` | the inserts and their failures; a failure may leave the row committed or not, since the refresh after a commit may be what raised |
| `Disconnect`, `Crash` | the server cancels the generator; the process dies |

`StreamEmpty` and `StreamStops` are allowed by `BaseProvider.stream` and
handled by the executor and the generator; the four adapters in the repository
always yield a final chunk last.

Abstracted: message contents, temperature, `max_tokens`, error texts,
durations, ids and timestamps decide nothing and are left out.  A usage is a
record of prompt and completion tokens, a rate a pair of integers; Python's
float rounding is not modelled, so costs compare exactly.  Sampling the request
body, a provider's answer or a chunk is a `\E` over a small set.

What a run says about the providers is not made up for it: `MCChatGateway` takes
the names, the registry and the clients with a timeout from `Providers`, as the
adapters and the registry of the code define them.

### ChatContract and the refinement

`ChatContract` knows nothing of chains, chunks or middleware: a request gets
one verdict, decided once; the status line, the request row and the usage row
follow from it, each at most once, a usage row only under a row that is not an
error.  `ChatGatewayProperties` maps the gateway's variables to it (the verdict
is the route's response, the row and the charge are projections of the tables).
`Contract == Abstract!Spec` is checked in `chat_one` and proved in
`ChatGatewayProofs`.

### ProviderAdapter, ProviderContract: state and actions

The four adapters share the text of `generate` and `stream` up to names; where
they differ (name, credential, the timeout of the client, the checks of
`Discovery`), `Factories` has it; a call of any of them takes the same steps, so
`ask` only names the adapter.  A call goes from `build` to `answer` (awaiting
`ainvoke`) or `chunk` (awaiting the next chunk), and is suspended at a yield in
`text` and `final`.  `final_usage` is the local of `stream`, `given` what the
caller got, `sdk` a history of what the SDK delivered.

| Action | Code |
|---|---|
| `Start`, `Build`, `BuildRaises` | the call; `_build_chat_model` and the conversion of the messages, outside the `try` of `stream` |
| `Answers`, `AnswerUnusable` | `generate` gets a message; its conversion is outside the `try` |
| `PullText`, `PullSilence`, `PullEnd` | a chunk with text, one without, the end: the final item with the usage |
| `SdkFails` | anything raised inside the `try`: `ProviderCallError` |
| `Resume`, `Exhaust`, `Leave` | the caller pulls again, exhausts the generator, or is cancelled |

An SDK may report a usage with any chunk, or with none: a running total, or
what is new since the last report.  `Arrive` takes any member of `Metadata`, and
the stream may end whether or not something was reported: whether a backend
counts, and how, is up to it.  `Fold` keeps the last report that is not empty.
`UsageKept` says what the caller can count on then: it gets one of the reports,
none only if there was none, and if each report contains those before it
(`Cumulative`) it gets one that has room for all.  That reports in pieces are
counted too is what `AllTokensCounted` says, and the code does not do.

`ProviderContract` says what a caller gets by with: texts, then one final item or
one `ProviderCallError`; any other exception only before the first text.
`base.py:53-55` promises more, that there is no other exception at all; the code
does not keep it, and `doc_error_record` shows what a request comes to then.
`ChatGateway` relies on just this: `CallProvider` begins a call; `FirstChunk`,
`NextChunk` and `CallAnswers` take texts and the final item; `CallFails` and
`StreamFails` take a `ProviderCallError`; and `CallRaises` is an action of the
walk only, since nothing but a `ProviderCallError` follows a text.

### Discovery: state and actions

`registry` is what `lifespan` built from the credentials, `broken` the providers
whose client cannot be built.  A request goes from `idle` to `gather` to
`answered` or `failed` (500); each provider's check is a task of its own.

| Action | Code |
|---|---|
| `Gather`, `Collect`, `Propagate` | `asyncio.gather`: a task per provider; all results; the first exception, with the other tasks left running |
| `ListStatic`, `AskProvider` | a `list_models` from the code; a call of the provider |
| `ClientRaises`, `ClientFails` | a client that cannot be built, outside the `try` (OpenAI, Anthropic) or inside it |
| `Answers`, `CallFails` | the call answers; it fails or times out: `down`, or no models |

### UsageLedger: state and actions

`ChatGateway` has the rows of one request and who writes them; here requests of
several keys write into the same tables while reports are read.  A request goes
through `log`, `logged`, `usage` and `used` (each insert: executed, which reads
`created_at`, then committed) to `done`, `warned` or `dead`.  `AggregateCost`
and `ListRecent` are the two queries, with the join, the comparison of
`created_at`, `SUM` over `NULL`, `COALESCE`, the order and the limit; they change
nothing, so they are evaluated in every state, for every key and period.
`ListRecent` is the set of answers the database may give: `ORDER BY created_at`
leaves the order of rows of the same time open.

| Action | Code |
|---|---|
| `Persist` | `persist_chat_outcome` is called, for any key and spending |
| `Insert`, `CommitLog`, `CommitUsage` | the two statements and the two commits |
| `LogFails`, `UsageFails` | the exception that is logged and swallowed, the row committed or not |
| `Tick`, `Crash` | time; the process dies between any two steps |

### RateLimiter: state and actions

`now`, the Redis keys with value (`counter`) and deletion time (`expires`), and
per request the locals of `dispatch`: the first clock reading (`stamp`), its
window (`bucket`), the answer of `INCR` (`count`), the second clock reading
(`at`) and `Retry-After` (`retry`); `hit`, when Redis executed `INCR`, is a
history variable.  `Arrive`, `Incr`, `Expire`, `Pass` and
`Reject` are the steps between two awaits, `IncrFails` and `ExpireFails` the
`except RedisError` branches (Redis may have executed the command or not),
`Tick` the clock and Redis's deletion of expired keys, `Crash` the death of the
process while Redis keeps its keys.

### ApiKeyAuth: state and actions

`now` is the clock, `keys` the table.  A request goes from `lookup` (awaiting
`get_by_hash`) through `check` (comparing what it read with the clock), `touch`
(awaiting the second read, in `touch_last_used`) and `commit` to `admitted`,
`denied` (401) or `failed` (an exception of the database, which is not an
`AuthenticationError`: 500).  Its locals are `key`, the record it read (`seen`)
and the time it writes (`stamp`).

| Action | Code |
|---|---|
| `Create` | `ApiKeyRepository.create`, by the key script |
| `Arrive` | the middleware with the header, or without it: 401 |
| `Lookup`, `Deny`, `Accept` | `get_by_hash`; unknown, inactive or expired: 401; else go on |
| `LoadForTouch`, `CommitTouch` | the two awaits of `touch_last_used` |
| `ReadFails`, `CommitFails` | the database raises, a commit before or after it took effect |
| `LoadForSwitch`, `CommitSwitch` | the two awaits of `set_active`, by an operator |
| `Tick` | time passes |

The identity map of a session holds rows weakly and nobody keeps the row of
`get_by_hash`, so `touch_last_used` reads the row again.  The ORM's `UPDATE`
names only the columns that were assigned a value other than the one loaded:
`Touched` changes `used` alone, and `CommitSwitch` writes nothing if the value
loaded was already the one wanted, even if another operator has changed it in
the meantime.  Expiry is compared with `<`: in the instant it expires a key is
still valid.

### Pipeline: state and actions

What authentication, limiter and chat completion decide is modelled by their
own modules; here they decide anything they can, and the module keeps what they
share: the order of the layers, the request id, the connections of the engine's
pool, the response on its way out and the row.

| Action | Code |
|---|---|
| `EnterPublic`, `EnterWithKey`, `EnterWithoutKey` | RequestID and Timing on the way in; the first branches of the authentication |
| `AuthConnect`, `Admit`, `Refuse`, `AuthFails`, `AuthTimesOut` | `async with AsyncSessionLocal()` around `authenticate`, and the pool's timeout |
| `LetThrough`, `LimitExceeded` | the limiter's verdict |
| `RouteAnswers`, `RouteRaises`, `ChatEnds`, `StreamBegins` | the route: a response that is not recorded, an unhandled exception, a chat completion, a stream |
| `StreamEnds`, `StreamIsLeft` | the generator after its last event; its cancellation |
| `LogConnect`, `Transaction`, `LogFails`, `LogTimesOut` | the transactions of `persist_chat_outcome`: one per insert, and the refresh of the last inserted row begins another |
| `Respond` | the layers on the way out: `X-Request-ID`, `X-Response-Time-ms`, the error envelope |

`ask` holds what the stack looks at: whether the path is public, a key and a
request id were sent, a stream was asked for.  `answer` is the response and the
layer that made it, `reply` what the client got, `holds` the connection.  A
response of ExceptionHandling is made outside RequestID and Timing: it carries
the id (`build_error_response` adds it) but no time.

## 3. Runs

| Run | Instance | Shows |
|---|---|---|
| `chat_one` | 1 request, 10 bodies, 2 deltas, 3 usages or none; 5 499 states | the safety properties of `ChatGatewayProperties`, the refinement `Contract`, and `TimedRequestsSettle` |
| `rate` | 3 requests, 2 clients, limit 1, window 2, clock to 4, lag 1; 2 771 488 states | `WindowLimit`, `RejectedForCause`, `RetryAfterHelps`, `NoKeyLeaks` |
| `auth` | 2 requests, 2 operators, 1 key, expiry none, 0 or 1, clock to 2; 122 874 states | `UsedByTheAdmitted`, `InvalidKeyStaysOut`, `ValidKeyIsNotDenied`, `OnlyOperatorsSwitch` |
| `pipeline` | 2 requests, 1 connection, 1 inbound id; 31 257 states | `Traceable`, `OnlyWorkersHold`, `EveryRequestEnds`, `ProbesAreAnswered` |
| `adapter` | 1 call of any adapter, 3 chunks of 4 kinds, 5 usage reports; 219 053 states | `UsageKept`, `TextKept`, the refinement `Contract` of `ProviderContract` |
| `discovery` | 1 request, every registry, clients of OpenAI and Ollama that may be broken; 1 862 states | `NobodyMissing`, `FailsForAClientOnly`, `EveryReportEnds` |
| `ledger` | 3 requests, 2 keys, 2 spendings, clock to 1; 401 503 states | `KeysAddUp`, `ChargedWhatWasSpent`, `CountedAreListed` |
| `doc_stream_model`, `doc_stream_record`, `doc_error_record`, `doc_timeout`, `doc_usage_pieces` | small instances | disagreements between code and documentation, section 6 |

Every run of a state machine that is expected to pass also checks its type
invariant.

**Bounds and why they are enough.**

* One request in the chat runs: two requests share no variable of this module
  (each has its own generator, request state and rows); the one thing that
  happens to both at once is `Crash`, which treats each row alone.  The proofs
  cover any set of requests.
* `MaxDeltas` = 2 text chunks.  The generator's loop carries only the chunk in
  hand, so a second delta already repeats each of its states; two deltas are
  what `OneServer` needs to tell a splice.
* Ten bodies, JSON and SSE each: the default chain for two primary providers, an
  explicit chain whose first entry is not registered, one that stays with its
  provider and comes back to the model it began with, and one that falls back to
  the free provider.  The default chain has a repeated, unregistered name at its
  end and a mistyped one in its midst, and names either primary.  The usages are
  one, one without input and one of no tokens.
* Rate limiter: with `Window` = 2 a second can lie inside a window, at its end
  and across its boundary; with limit 1 and three requests the limit is exceeded
  in one window and in two neighbouring ones, by one client or by two.  `MaxLag`
  bounds the seconds between the first clock reading and `INCR`: 1, which already
  carries an `INCR` into the next window.  `MaxTime` stops
  the clock after one window beyond the two that can interact.  Requests are
  symmetric.  The proofs have none of these bounds.
* Authentication: the hazards are between one touch and one switch, or between
  a look and a switch or a tick; with two requests and two operators each of
  them also meets its own kind.  A key's expiry can lie before, at and after
  each of the three clock values.  The rows of two keys never meet in one
  statement, so one key is enough.
* Pipeline: one connection and two requests make every wait for a connection a
  wait for the other request; a larger pool only removes waits.
* Adapter: calls share nothing.  Three chunks are what it takes to put a chunk
  without a report, and a text, after a report; the reports are none, one that
  knows the input only, a complete one, a larger one, and one that has only what
  came after the first, so that both running totals and pieces occur.
* Discovery: requests share only `registry` and `broken`, which never change.
  `broken` may hold a provider that builds its client outside the `try` and one
  that does so inside.
* Ledger: three requests give two of one key and one of another, with a price
  and without; two clock values put the two rows of one request before and
  after the start of a period.  Keys and requests are symmetric.

**Fairness.**  `FairSpec` has weak fairness of the gateway's own steps per
request (asyncio runs a task that is ready), of the answers of a provider whose
client was given the request timeout (it answers or raises), and of the
database (it commits or raises).  Nothing is assumed of a provider without a
timeout, of disconnects or of crashes.  `EmitChunk`, `EmitUsage` and `EmitDone`
are among the gateway's steps: a client that stops reading without closing is
assumed to be noticed by the server, and streams are finite because
`max_tokens` and the providers' own limits end them (`MaxDeltas`).

`FairSpec` of `Discovery` has weak fairness of the gateway's own steps and of the
failure of calls with a timeout.  All checks have one (`ollama_provider.py`
gives it to its HTTP client there, unlike to `ChatOllama`), so nothing is assumed
of the providers' answers.

`FairSpec` of `ApiKeyAuth` has weak fairness of a request's own steps.
In `Pipeline` `FairSpec` is only that of the gateway's own tasks, and
`EveryRequestEnds` assumes in addition, as its premise `EverybodyAnswers`, that
database, Redis and providers answer or fail and that the pool serves who waits.
That premise is needed: neither Redis nor Ollama is given a timeout by the code.
`ProbesAreAnswered` does without it.

## 4. What is proved

Every safety property and every refinement that a passing run checks is also a
theorem, for all values of the constants.  What the code promises in a document
and does not keep is no theorem: see section 6.

### ChatGateway

`ChatGatewayProofs` proves for every set of requests, bodies, settings,
registered providers, prices and every `MaxDeltas`:

* `TypeCorrectness == Spec => []TypeOK`
* `CountedOnce == Spec => []RecordedOnce`: no interleaving of the walk, the
  stream, the client, the database and a crash records a request or its tokens
  twice.

Neither `TypeOK` nor `RecordedOnce` is inductive.  A state in phase `track` that
already has a row, or a usage insert without usage, would break them in one
step.  `IInv` adds two parts per request:

* `Shape`: what a phase may rely on.  A request past `idle` has a body; one that
  is calling has a chain entry; one that streams has a chunk; one that persists
  has an outcome in hand, with a usage if it is at the second insert.
* `Rows`: what may be in the tables when a phase is entered.  Nothing is
  recorded before the walk ends; a middleware finds a stash only if nothing was
  recorded yet; a response that will be streamed has no rows; the streaming
  route persists only for a 502 and leaves no stash, so the middleware that runs
  after it adds nothing.

The last item is the argument of the whole proof: the three callers of
`persist_chat_outcome` exclude one another because of what they find in
`request.state` and in the response.

The proof has one lemma per action (`AcceptStep` ... `CrashStep`), each showing
that the acting request keeps `Shape` and `Rows`; `Frame` shows that a request
whose own state did not change keeps them, `OneMoves` that an action of `r`
leaves every other request as it was.  A second part states what each action does
to its own request, for use by the parts that follow.  `CostType`, `ChainType`, `EntryType`,
`OutcomeTypes` and `SendType` type the values the actions build.

**Assumptions.**  `PricingAssumption`: `None` is neither a number nor a usage,
usages and rates are pairs of naturals, the table prices only known pairs.
`GatewayAssumption`: bodies are `ChatRequest`s and the settings are settings
(`SettingsType`: any sequence of names, and a default model per provider).
`NoneAssumption`: `None` is no
outcome, completion event or answer.

The second part proves the other safety properties, over streams of any
length and chains of any kind.  It says what a request has been through, in three
invariants, each resting on the ones before it:

* `Walked`: position and attempts tell the same story in the order of the chain,
  the entry that is called is registered, and a 502 stands only behind the end of
  the chain.  Gives `WalkKeepsTheOrder` and `CommittedOnceAnswered`.
* `Heard`: what was sent is `n` texts, then the closing event (an error, a usage
  or nothing, as `errored` and the final usage decide), then [DONE], cut at the
  place the phase says; every text bears the name of the entry in hand.
  Gives `StreamsAreWellFormed`.
* `Written`: a row and an outcome that is about to be written agree with the
  response and with what the client heard (`Agrees`), and there is a row wherever
  a phase has passed its insert without a warning (`Entrusted`).  Gives
  `NothingIsLost`, `RecordsTellTheTruth`, `NoSecondServer` and `BilledRight`.
  `NothingIsLost` speaks of answers other than a 500: whether a 500 should leave a
  row is a question to the documentation (`EveryAnswerRecorded`).

None of the three is inductive without the ones before it: what is written is
read from the position of the walk, and the walk no longer moves because the
response is out.

The third part proves `KeepsTheContract == Spec => Contract`.  Every step
is, for the request that moves, one of `Asks`, `Decides`, `Replies`, `Records`
and `Charges`, or the contract sees nothing of it; a crash and a disconnect are
unseen.  `Booked` carries what the contract demands of the tables: a row only
after the verdict, about its server and with a status that fits its code, and a
usage row only under a row that is no error.  `VerdictAssumption`: `None` is no
provider and no verdict.

The last part is about the chain and its prices, for all bodies and settings, every
usage and every price list:

* `ChainIsAsAsked == Spec => []ChainAsAsked`
* `NothingIsSilentlyFree == Spec => []NeverSilentlyFree`

By `Walked` the targets tried before a 502 are the chain, and `BuiltAsAsked` says
what that is: `AsAsked` counts the names of the default chain that come before one
to say where it ends up, and `FilterPlaces` of `DataLemmas` is the fact that a filter puts
elements there.  `NeverSilentlyFree` follows from `Written`, and needs that rates are positive
(`PricingAssumption`, as the rates of `PRICING_TABLE` are): then a sum of two
products is zero only for a completion without tokens.

### DataLemmas

`DataLemmas` has the facts about data that several proofs need.  Induction is
stated for sets (`NatSetInduction`, `SeqSetInduction`, `FinSetInduction`: a set
that is closed under one step holds everything), since the prover cannot
instantiate the theorems of the library that take an operator.  From it follow
what `FlattenSeq` computes (`FlattenSeqAppend`, by existence and uniqueness of the
recursive function it is defined by), what `Filter` keeps, drops and in which
place (`FilterKeeps`, `FilterFinds`, `FilterAll`, `FilterNone`, `FilterConcat`,
`FilterPlaces`), and the rules for sums over a finite set (`SumAdd`, `SumUnion`,
`SumPart`, `SumZero`, `SumOnes`, `SumRename`, `SumGroups`).

### RateLimiter

`RateLimiterProofs` proves for any limit, window, delay, finite set of requests
and set of clients:

* `TypeCorrectness == Spec => []TypeOK`
* `NeverOverTheLimit == Spec => []WindowLimit`
* `OnlyForItsOwn == Spec => []RejectedForCause`
* `WaitingHelps == Spec => []RetryAfterHelps`
* `KeysExpire == Spec => []NoKeyLeaks`
* `TwiceOfWhatIsCountedInTime == Spec => []TwiceInTime`, the documented factor of
  two for all requests whose `INCR` is executed in the window of their stamp.

`WindowLimit` says nothing of the counter and so is far from inductive.  The
invariant has four parts.  `Known`: a request knows its window from its stamp,
and its verdict from its number.  `Order`: a key with a TTL lives to the end of
its window, until then its counter is no less than any number it has given, and
two requests that were counted in time have different numbers; hence at most
`Limit` of them have one that passes.  `Charged`: a counter is no more than the
requests that were counted, which is what a rejection needs.  `NoKeyLeaks` is
inductive by itself.  `LimiterAssumption`: limit and window are positive, `None`
is no number, and a run has finitely many requests.

### ApiKeyAuth

`ApiKeyAuthProofs` proves for any requests, operators, keys, expiries and clock:

* `Invariance == Spec => []IInv`, the type invariant and the strengthening;
* `OnlyTheAdmittedTouch == Spec => []UsedByTheAdmitted`;
* `TouchKeepsTheSwitch == Spec => OnlyOperatorsSwitch`;
* `InvalidKeysStayOut == Spec => InvalidKeyStaysOut` and
  `ValidKeysAreNotDenied == Spec => ValidKeyIsNotDenied`, which speak of the future
  of a request.

`UsedByTheAdmitted` is not inductive: a request about to commit a touch needs a
row to touch, a stamp to write and an active record behind it.  `Holds` says
this of every request past the check, `Calls` that an operator about to commit
has arguments about a key that exists.  The assumption is `AuthAssumption`:
`None` is no number, key, row or call, and expiries are numbers or `None`.
`TypeCorrectness == Spec => []TypeOK` follows from the same invariant.

The last two start at the moment a request presents its key.  Each is a
predicate that holds there, is kept by every step as long as the key stays as
the property says (`ReadExpired`, `ReadInactive`, `ReadValid`: what the request has
read, or will read, of its key), and excludes the outcome; the temporal steps
are left to the decision procedure for propositional temporal logic.

### Pipeline

`PipelineProofs` proves for any requests, inbound ids and pool size:

* `Invariance == Spec => []IInv`;
* `NobodyHoardsConnections == Spec => []OnlyWorkersHold`;
* `EveryResponseIsTraceable == Spec => []Traceable`.

`Traceable` is not inductive: a request about to respond needs a response and an
id that is the client's, and a record on its way needs that id too.  `Arrived`,
`Equipped` and `Named` say so per request; `Frame` carries them to the requests
that do not move.  `PipelineAssumption`: the pool is not empty, `None` is no id
and no reply, and a minted id is never one that a client sent (`uuid4`).

`TypeCorrectness == Spec => []TypeOK` is proved as well.

### ProviderAdapter

`ProviderAdapterProofs` proves for any calls, any usage metadata and streams of
any length:

* `TypeCorrectness == Spec => []TypeOK`
* `UsageIsAReport == Spec => []UsageKept`
* `NoTextIsLost == Spec => []TextKept`
* `AdaptersKeepTheContract == Spec => Contract`, the refinement of
  `ProviderContract`.

Nothing is assumed of the order or the kind of the reports.  `UsageKept` speaks
of the end of a call; `Kept` says during the stream that `final_usage` fits what
was reported so far (`Fits`: one of the reports, none if there was none, and room
for all of them as long as they are cumulative), and `Handed` that the last item
of a call that is over has it.  `FoldFits` is the step of the loop: a report that
says something contains the earlier ones if they are cumulative with it, one that
says nothing leaves everything as it is.  `Told` says of the texts that the caller has heard what the SDK has said
but for the item in hand; both sides are flattened sequences, so each step rests
on `FlattenSeqAppend`.  `View` is what the contract sees of a call, and every
action changes it by one step of the contract or not at all.
`AdapterAssumption`: usage metadata maps some of the three fields to numbers, `None`
is no call and no usage.

### Discovery

`DiscoveryProofs` proves for any number of concurrent reports:

* `TypeCorrectness == Spec => []TypeOK`
* `NoProviderFailsAReport == Spec => []FailsForAClientOnly`
* `NobodyIsMissing == Spec => []NobodyMissing`

A failure is seen after its cause: `Blamed` says that a task raised, or a report
failed, only for a health check of a broken client outside the `try`.
`Gathered` says what a task that is done may have returned, from which follows
whom the list comprehension of a report leaves out.  `DiscoveryAssumption`: the
broken clients are those of providers, `None` is no endpoint.

### UsageLedger

`UsageLedgerProofs` proves for any finite sets of requests and keys, any spending
and any clock:

* `TypesHold == Spec => []TypeOK`
* `SummariesAddUp == Spec => []KeysAddUp`
* `ChargesAreTrue == Spec => []ChargedWhatWasSpent`
* `CountedAreShown == Spec => []CountedAreListed`

The reports are functions of the tables, so none of the last three is inductive.
`LedgerInv` says that the tables are true: every row of `request_logs` is about one
request, and has its key (`LogsAreTrue`); every row of `usage_logs` says what its
request spent, stands under a row of `request_logs`, and is the only one
(`UsagesAreTrue`); and a request that is done, or past its first insert, has the
rows it should have (`NothingIsMissing`).  Then the rows of the keys are the groups
into which the join sorts all rows (`SumGroups`); the rows of a key and the
requests it pays for correspond one to one (`SumRename`), and those are at least
the ones that are done and at most the ones that may have saved something
(`SumUnion`, `SumPart`).  For the lists, each order of the rows of a key shows each
row once; `ThereIsAnAnswer` shows that there is one.  `LedgerAssumption`: requests
and keys are finitely many, tokens and costs are numbers, `None` is no number, key
or spending.

### Only model-checked

* Liveness: `TimedRequestsSettle`, `EveryRequestEnds`, `ProbesAreAnswered`,
  `EveryReportEnds` (the prover has neither fairness nor ENABLED).
* The five runs of section 6, which refute what a document says.

## 5. Not modelled

* Configuration, dependency wiring, logging, migrations: start-up code or pure
  output.
* Validation of request bodies: pydantic's; a model starts at a valid body.
* Float rounding of costs and the `float` conversions of the ORM.
* The audit log: a stub, no code of the application writes it.
* External, modelled from how `src/` uses them: Redis (atomic `INCR`,
  `EXPIRE`, deletion at the TTL), the database (a commit happens or not), the
  clock, Starlette's cancellation of a streaming response.
* CORS, which Starlette answers, and the contents of log lines.
* Time in the pipeline: the pool's timeout may strike whenever the pool is
  empty.

## 6. Findings

1. **A fallback stream is recorded and priced with the wrong model**
   (`chat_streaming.py:90,108,129`, run `doc_stream_model`).  The generator uses
   `chat_request.model` with the provider that served.  After `openai/gpt`
   failed and `anthropic/claude` streamed, events and rows say `anthropic/gpt`,
   and the cost is unknown.  The JSON path records the served model.
2. **A finished stream may leave no record** (`chat_streaming.py:121-136`, run
   `doc_stream_record`).  Persistence starts after [DONE] was yielded; a client
   that closes on [DONE] cancels it, and `CancelledError` is not an
   `Exception`, so not even the warning is logged.
3. **The Ollama client has no timeout** (`ollama_provider.py:38`, run
   `doc_timeout`): a request that reaches it may wait for ever and the fallback
   behind it is never tried.
4. **A request that ends in a 500 leaves no row** (`cost_tracking.py:23`, run
   `doc_error_record`).  `README.md:36` has "every request's" tokens and provider
   persisted; an exception passes `call_next` and nothing is stashed or written,
   although providers may have been called.  `NothingLostSilently` says what
   remains true of all other answers.  A
   request gets there by an exception other than `ProviderCallError`, of which
   `base.py:53-55` says that business logic "only ever needs to catch this".  The
   adapters build their client before the `try` and convert the answer of
   `generate` after it (`openai_provider.py:69,75-80,90` and the same places of the
   others); the executor catches `ProviderCallError` alone, and the run shows that
   the second entry of the chain is not tried.  After the first text of a stream
   nothing else can come, which `AdaptersKeepTheContract` proves.
5. **A usage reported in pieces is counted with its last piece**
   (`claude_provider.py:82`, `gemini_provider.py:83`, run `doc_usage_pieces`).
   The comment above the line has the input tokens come first, the output tokens
   later, and LangChain aggregate them; that holds for chunks that are added up,
   and the loop looks at each by itself.  Whether an SDK repeats the input on its
   last report is up to its version, and the model lets it do either.  What holds
   in both cases is `UsageKept`.

One more disagreement is found by reading, and has no run: `rate_limit.py:3-7` says
that a burst gets up to about twice the limit.  The window is fixed before `INCR` is
awaited (`rate_limit.py:49-55`); an `INCR` delayed beyond the life of its key counts
from one again, so that a client may get three times the limit in the seconds of one
window.  For the requests that are counted before their window is over the factor of
two holds, however long others are delayed: `WindowLimit` in the run `rate`, and the
theorem `TwiceOfWhatIsCountedInTime`.

Two remarks in the source that no run can refute, since they are about what is
called and not about states: `config.py:51` has Ollama "always registered if its
base URL responds", while `registry.py` registers it without asking (`Factories`
gives it no need), and `base.py:91` says of `list_models` "No network call", while
Ollama's asks its server (`OllamaChecks` is not static).

## 7. What could follow

The plan of sections 1 and 2 is carried out: every component that decides
something is modelled, and the safety properties of section 4 are proved.  An extension would start here:

1. A contract for one request through `Pipeline` (exactly one response, and none of
   an inner layer after an outer one rejected it) and its refinement.
2. A composition of `ProviderAdapter` with the walk of `ChatGateway`, in place of
   the contract that now stands between them.
