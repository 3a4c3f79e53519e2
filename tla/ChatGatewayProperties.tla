----------------------- MODULE ChatGatewayProperties -----------------------
(***************************************************************************)
(* What a chat completion promises to its client and to the operator who   *)
(* reads the request and usage tables, across every order of provider      *)
(* answers, stream failures, persistence failures, disconnects and crashes *)
(***************************************************************************)
EXTENDS ChatGateway, FiniteSets

Told(r, type) == {i \in DOMAIN sent[r] : sent[r][i].type = type}

\* The usage the client was told, with its cost: in the completion or in the
\* usage event.
Bills(r) == {<<sent[r][i].usage, sent[r][i].cost>> :
               i \in {j \in Told(r, "completion") \cup Told(r, "usage") :
                        sent[r][j].usage # None}}

-----------------------------------------------------------------------------
\* A request is never counted twice: three pieces of code may persist its
\* outcome (the middleware, the streaming route, the SSE generator) and they
\* leave at most one request row, at most one usage row, and no usage row
\* without the request row it points at.
RecordedOnce == \A r \in Request :
  /\ Len(logs[r]) <= 1
  /\ Len(usages[r]) <= Len(logs[r])
  /\ \A i \in DOMAIN usages[r] : usages[r][i].log = 1

\* A request that ran to its end left its row, unless the persistence failure
\* was logged; its tokens are recorded exactly when the client was told about
\* them.  Whether a 500 leaves a row is not said here: EveryAnswerRecorded.
NothingLostSilently == \A r \in Request :
  phase[r] = "done" /\ ~warned[r] =>
    /\ http[r] # 500 => Len(logs[r]) = 1
    /\ usages[r] # <<>> <=> Bills(r) # {}

\* The recorded status agrees with what the client saw: "error" after a 502
\* or an error event, "fallback" when another provider than the one asked
\* for answered, "success" otherwise.
StatusTellsTheTruth == \A r \in Request :
  phase[r] = "done" /\ logs[r] # <<>> =>
    LET failed == http[r] = 502 \/ Told(r, "error") # {}
    IN  /\ logs[r][1].status = "error" <=> failed
        /\ logs[r][1].status = "fallback" <=>
             ~failed /\ Entry(r)[1] # body[r].provider

\* The walk is in the order of the chain and skips nothing: whatever is
\* answered, each entry before the answering one failed or is not
\* registered, and a 502 means that every entry was given its try.
WalkedInOrder == \A r \in Request :
  response[r] # None =>
    /\ Len(attempts[r]) = pos[r] - 1
    /\ response[r].status = 502 => Len(attempts[r]) = Len(Chain(r))
    /\ \A i \in DOMAIN attempts[r] :
         /\ attempts[r][i].target = Chain(r)[i]
         /\ attempts[r][i].why = "unregistered"
              <=> Chain(r)[i][1] \notin Registered

\* The targets that were tried, in the order of the tries.
Tried(r) == [i \in DOMAIN attempts[r] |-> attempts[r][i].target]

\* The places of the default chain that a request for provider p makes use of.
Places(p, s) == {i \in DOMAIN s.chain : s.chain[i] \in Provider \ {p}}

\* The request's own target comes first.  A fallback list given with the request
\* replaces the default chain, in its own order and with its repeats.  Without one
\* each known name of the default chain except the primary provider follows, in
\* the configured order and with the provider's own default model.
AsAsked(tried, b, s) ==
  LET used == Places(b.provider, s) IN
  /\ tried[1] = <<b.provider, b.model>>
  /\ b.fallback # <<>> => Tail(tried) = b.fallback
  /\ b.fallback = <<>> =>
       /\ Len(tried) = 1 + Cardinality(used)
       /\ \A i \in used : tried[1 + Cardinality({j \in used : j <= i})] =
                            <<s.chain[i], s.model[s.chain[i]]>>

\* When every provider has failed, exactly the targets that were asked for had
\* their try, in that order: the provider that failed first is not tried again
\* because the default chain names it too, and a mistyped name costs no try.
ChainAsAsked == \A r \in Request :
  response[r] # None /\ response[r].status = 502 =>
    AsAsked(Tried(r), body[r], Settings)

\* No silent fallback after the first byte: all the text of a stream comes
\* from one provider, and that provider is the one on record.
OneServer == \A r \in Request :
  \A i, j \in Told(r, "delta") :
    /\ sent[r][i].provider = sent[r][j].provider
    /\ \A k \in DOMAIN logs[r] : logs[r][k].provider = sent[r][i].provider

\* An SSE stream is text, then at most one of an error event and a usage
\* event, then [DONE] and nothing after it; a stream that runs to its end,
\* broken or not, has its [DONE].
StreamWellFormed == \A r \in Request :
  body[r] # None /\ Stream(r) =>
    LET last == Len(sent[r]) IN
    /\ \A i \in DOMAIN sent[r] :
         /\ sent[r][i].type \in {"error", "usage"} =>
              /\ \A j \in 1 .. i - 1 : sent[r][j].type = "delta"
              /\ \A j \in i + 1 .. last : sent[r][j].type = "done"
         /\ sent[r][i].type = "done" => i = last
    /\ phase[r] = "done" /\ http[r] = 200 =>
         last > 0 /\ sent[r][last].type = "done"

\* What the tokens cost with the entry that answered.
PriceOfEntry(r, usage) ==
  IF Entry(r)[1] = FreeProvider THEN 0
  ELSE IF Entry(r) \notin DOMAIN Rate THEN None
  ELSE usage.prompt * Rate[Entry(r)].input + usage.completion * Rate[Entry(r)].output

\* A usage row holds the tokens and the cost the client was told, of the JSON
\* completion as of the stream.  A JSON completion is recorded with the
\* provider and the model that served it, and its tokens are priced by the
\* table entry of exactly that pair: free for Ollama, unknown and never zero
\* for a pair without a price.
BilledAsServedAndTold == \A r \in Request :
  /\ phase[r] = "done" => \A i \in DOMAIN usages[r] :
       <<usages[r][i].usage, usages[r][i].cost>> \in Bills(r)
  /\ body[r] # None /\ ~Stream(r) /\ response[r] # None =>
       /\ response[r].status = 200 => \A i \in DOMAIN logs[r] :
            <<logs[r][i].provider, logs[r][i].model>> = Entry(r)
       /\ \A i \in DOMAIN usages[r] :
            usages[r][i].cost = PriceOfEntry(r, usages[r][i].usage)

\* A cost of zero on record is a statement, not a default: it means Ollama or no
\* tokens.  Ollama is free, and what a pair without a price costs is unknown,
\* of the JSON completion as of the stream and whoever served it.
NeverSilentlyFree == \A r \in Request : \A i \in DOMAIN usages[r] :
  LET row == usages[r][i] IN
  /\ row.cost = 0 => \/ row.provider = FreeProvider
                     \/ row.usage.prompt = 0 /\ row.usage.completion = 0
  /\ row.provider = FreeProvider => row.cost = 0
  /\ row.provider # FreeProvider =>
       (row.cost = None <=> <<row.provider, row.model>> \notin DOMAIN Rate)

-----------------------------------------------------------------------------
\* Once a status line is out the walk is over: no further provider is tried,
\* and the status is never revised.
CommittedOnReply ==
  [][\A r \in Request : http[r] # 0 =>
       UNCHANGED <<pos[r], attempts[r], http[r], response[r]>>]_vars

\* A request whose chain names only providers that have a timeout or are not
\* registered ends, whatever the providers, the database and the client do.
TimedRequestsSettle == \A r \in Request :
  /\ phase[r] = "walk"
  /\ \A i \in DOMAIN Chain(r) : Chain(r)[i][1] \in Timed \/ Chain(r)[i][1] \notin Registered
  ~> phase[r] \in Settled

-----------------------------------------------------------------------------
(* The contract of a chat completion, and what of the gateway it sees.     *)

Asked(r) == IF phase[r] = "idle" THEN None ELSE body[r].provider

VerdictOn(r) ==
  IF response[r] = None THEN None
  ELSE [code |-> response[r].status,
        server |-> IF response[r].status = 200 THEN Entry(r)[1]
                                               ELSE body[r].provider]

RecordOf(r) == [i \in DOMAIN logs[r] |->
  [provider |-> logs[r][i].provider, status |-> logs[r][i].status]]

ChargedTo(r) == [i \in DOMAIN usages[r] |-> usages[r][i].provider]

\* None is neither a provider nor a verdict.
ASSUME VerdictAssumption ==
  None \notin Provider /\ None \notin [code : {200, 500, 502}, server : Provider]

Abstract == INSTANCE ChatContract WITH
  asked   <- [r \in Request |-> Asked(r)],
  verdict <- [r \in Request |-> VerdictOn(r)],
  told    <- http,
  record  <- [r \in Request |-> RecordOf(r)],
  charged <- [r \in Request |-> ChargedTo(r)]

\* A chat completion implements its contract: the verdict falls once, and
\* the reply, the request row and the usage row follow it.
Contract == Abstract!Spec

-----------------------------------------------------------------------------
(* What the documentation says and the code does not do.                   *)

\* A stream that was sent to its [DONE] is on record, unless the persistence
\* failure was logged (README.md:36 promises it for every request).
FinishedStreamRecorded == \A r \in Request :
  phase[r] \in {"done", "cancelled"} /\ ~warned[r] /\ Told(r, "done") # {}
    => logs[r] # <<>>

\* A request that was answered is on record, unless the persistence failure was
\* logged (README.md:36), also when an adapter let through another exception than
\* ProviderCallError, which base.py:53-55 says it never does.
EveryAnswerRecorded == \A r \in Request :
  phase[r] = "done" /\ ~warned[r] => logs[r] # <<>>

\* The row of a request that was served names the model that served it
\* (README.md:36).
RecordNamesServedModel == \A r \in Request :
  \A i \in DOMAIN logs[r] :
    logs[r][i].status # "error" => <<logs[r][i].provider, logs[r][i].model>> = Entry(r)

\* Every request ends (config.py:66 gives every provider request a timeout).
EveryRequestSettles == \A r \in Request :
  phase[r] = "walk" ~> phase[r] \in Settled

=============================================================================
