------------------------- MODULE ChatGatewayProofs -------------------------
(***************************************************************************)
(* Proofs about ChatGateway for every set of requests, bodies, settings,   *)
(* registries and prices.  The inductive invariant has three parts: the    *)
(* types; Shape, what each phase may rely on (a chain entry to name, a     *)
(* chunk, a response, an outcome in hand); and Rows, what may already be   *)
(* in the database when a phase is entered, which is where double counting *)
(* is excluded.                                                            *)
(*                                                                         *)
(* The second part is what a request has been through, in every phase: how *)
(* far it walked (Walked), what its client has heard (Heard), and what the *)
(* tables say about it (Written).  Each is an invariant, proved from IInv  *)
(* and the one before it, and together they give every safety property of  *)
(* ChatGatewayProperties.                                                  *)
(*                                                                         *)
(* The third part is the refinement: the gateway implements the contract   *)
(* of a chat completion.  What the contract sees of a request changes by   *)
(* Ask when the body is accepted, by Decide when the route knows its       *)
(* answer, by Reply when the response goes out and by Record and Charge    *)
(* when a row is committed; every other step, a crash and a disconnect     *)
(* included, changes nothing of it.                                        *)
(*                                                                         *)
(* The last part is about the chain itself and its prices.                 *)
(***************************************************************************)
EXTENDS ChatGatewayProperties, DataLemmas

Saving == [by : Saver, outcome : Outcome]

\* The request that streams has a provider and a chunk.
Streams(r) == pos[r] \in 1 .. Len(Chain(r)) /\ chunk[r] \in Chunk

\* The route will answer a stream.
StreamAnswer(r) == Stream(r) /\ response[r].status = 200

Shape(r) ==
  /\ phase[r] # "idle" => body[r] \in Body /\ pos[r] \in Nat \ {0}
  /\ phase[r] = "calling" => pos[r] \in 1 .. Len(Chain(r))
  /\ phase[r] \in {"track", "respond", "log", "usage",
                   "stream", "pulling", "closing", "ending"} =>
       response[r] \in Answer /\ (StreamAnswer(r) => Streams(r))
  /\ phase[r] \in {"stream", "pulling", "closing", "ending"} => Streams(r)
  /\ phase[r] \in {"log", "usage"} => saving[r] \in Saving
  /\ phase[r] = "usage" => saving[r].outcome.usage # None

NoRows(r) == logs[r] = <<>> /\ usages[r] = <<>>

Rows(r) ==
  /\ phase[r] \notin {"track", "respond", "usage"} \cup Settled => NoRows(r)
  /\ phase[r] = "usage" => Len(logs[r]) = 1 /\ usages[r] = <<>>
  /\ phase[r] \in {"idle", "walk", "calling"} => stash[r] = None
  /\ phase[r] = "track" => \/ stash[r] = None
                           \/ ~Stream(r) /\ NoRows(r)
  /\ phase[r] \in {"track", "respond"} => (StreamAnswer(r) => NoRows(r))
  /\ phase[r] \in {"log", "usage"} =>
       \/ saving[r].by = "middleware" /\ ~Stream(r)
       \/ saving[r].by = "route" /\ response[r].status = 502 /\ stash[r] = None
       \/ saving[r].by = "generator"
  /\ Len(logs[r]) <= 1
  /\ Len(usages[r]) <= Len(logs[r])
  /\ \A i \in DOMAIN usages[r] : usages[r][i].log = 1

IInv == TypeOK /\ \A r \in Request : Shape(r) /\ Rows(r)

-----------------------------------------------------------------------------
(* The values the actions build.                                           *)

\* A price is a natural number or unknown: pricing.py never guesses.
LEMMA CostType ==
  ASSUME NEW p \in Provider, NEW m \in Model, NEW u \in Spent
  PROVE  CalculateCost(p, m, u) \in Cost
<1>1. CASE p = FreeProvider \/ u = None \/ <<p, m>> \notin DOMAIN Rate
  BY <1>1 DEF CalculateCost, Cost
<1>2. CASE p # FreeProvider /\ u # None /\ <<p, m>> \in DOMAIN Rate
  <2>1. u.prompt \in Nat /\ u.completion \in Nat
    BY <1>2, PricingAssumption DEF Spent
  <2>2. Rate[<<p, m>>].input \in Nat /\ Rate[<<p, m>>].output \in Nat
    BY <1>2, PricingAssumption
  <2>3. \A a, b, c, d \in Nat : a * b + c * d \in Nat
    OBVIOUS
  <2> QED
    BY <1>2, <2>1, <2>2, <2>3 DEF CalculateCost, Cost
<1> QED
  BY <1>1, <1>2

\* The default chain contributes known providers, each with its own model.
LEMMA ExtrasType ==
  ASSUME NEW p, NEW s \in SettingsType
  PROVE  DefaultExtras(p, s) \in Seq(Target)
<1> DEFINE names == Filter(s.chain, Eligible(p))
<1>1. s.chain \in Seq(Name) /\ s.model \in [Provider -> Model]
  BY DEF SettingsType
<1>2. names \in Seq(Name \cap Eligible(p))
  BY <1>1, FilterKeeps, Zenon
<1>3. DefaultExtras(p, s) = [i \in DOMAIN names |-> <<names[i], s.model[names[i]]>>]
  BY DEF DefaultExtras
<1> HIDE DEF names
<1>4. Len(names) \in Nat /\ DOMAIN names = 1 .. Len(names)
  BY <1>2, LenProperties
<1>5. \A i \in 1 .. Len(names) : names[i] \in Provider
  BY <1>2, ElementOfSeq DEF Eligible
<1>6. [i \in 1 .. Len(names) |-> <<names[i], s.model[names[i]]>>] \in Seq(Target)
  BY <1>1, <1>4, <1>5 DEF Target
<1> QED
  BY <1>3, <1>4, <1>6

\* The chain of a request is a sequence of targets.
LEMMA BuiltType ==
  ASSUME NEW b \in ChatRequest, NEW s \in SettingsType
  PROVE  /\ BuildFallbackChain(b, s) \in Seq(Target)
         /\ Len(BuildFallbackChain(b, s)) >= 1
<1>1. <<<<b.provider, b.model>>>> \in Seq(Target)
  BY DEF ChatRequest, Target
<1>2. b.fallback \in Seq(Target) /\ DefaultExtras(b.provider, s) \in Seq(Target)
  BY ExtrasType DEF ChatRequest
<1> QED
  BY <1>1, <1>2 DEF BuildFallbackChain

\* The chain of a body is one, and it is never empty.
LEMMA ChainType ==
  ASSUME NEW b \in Body
  PROVE  /\ BuildFallbackChain(b, Settings) \in Seq(Target)
         /\ Len(BuildFallbackChain(b, Settings)) >= 1
BY BuiltType, GatewayAssumption

\* The entry a request is at is a provider and a model.
LEMMA EntryType ==
  ASSUME NEW r \in Request, body[r] \in Body, pos[r] \in 1 .. Len(Chain(r))
  PROVE  /\ Entry(r) \in Target
         /\ Entry(r)[1] \in Provider
         /\ Entry(r)[2] \in Model
<1>1. Chain(r) \in Seq(Target)
  BY ChainType DEF Chain
<1>2. Entry(r) \in Target
  BY <1>1 DEF Entry
<1> QED
  BY <1>2 DEF Target

\* The outcomes that are recorded and the completion a client gets are of
\* their types.
LEMMA OutcomeTypes ==
  ASSUME NEW b \in Body, NEW p \in Provider, NEW m \in Model, NEW u \in Spent,
         NEW failed \in BOOLEAN
  PROVE  /\ ErrorOutcome(b) \in Outcome
         /\ JsonOutcome(b, <<p, m>>, u) \in Outcome
         /\ JsonCompletion(b, <<p, m>>, u) \in Completion
         /\ StreamCost(b, p, u) \in Cost
         /\ StreamOutcome(b, p, u, failed) \in Outcome
<1>1. b.provider \in Provider /\ b.model \in Model
  BY GatewayAssumption DEF ChatRequest
<1>2. None \in Spent /\ None \in Cost
  BY DEF Spent, Cost
<1>3. CalculateCost(p, m, u) \in Cost /\ CalculateCost(p, b.model, u) \in Cost
  BY <1>1, CostType
<1>4. StreamCost(b, p, u) \in Cost
  BY <1>2, <1>3 DEF StreamCost
<1>5. ErrorOutcome(b) \in Outcome
  BY <1>1, <1>2 DEF ErrorOutcome, Outcome
<1>6. JsonOutcome(b, <<p, m>>, u) \in Outcome
  BY <1>1, <1>3 DEF JsonOutcome, Outcome, StatusOf
<1>7. JsonCompletion(b, <<p, m>>, u) \in Completion
  BY <1>1, <1>2, <1>3 DEF JsonCompletion, Completion
<1>8. StreamOutcome(b, p, u, failed) \in Outcome
  BY <1>1, <1>4 DEF StreamOutcome, Outcome, StatusOf
<1> QED
  BY <1>4, <1>5, <1>6, <1>7, <1>8

-----------------------------------------------------------------------------
(* One step of one request.                                                *)

\* What is sent are events.
LEMMA SendType ==
  ASSUME NEW r \in Request, NEW given, NEW e,
         sent \in [Request -> Seq(Event)], given => e \in Event,
         SendIf(r, given, e)
  PROVE  sent' \in [Request -> Seq(Event)]
<1>1. CASE given
  BY <1>1 DEF SendIf
<1>2. CASE ~given
  BY <1>2 DEF SendIf
<1> QED
  BY <1>1, <1>2

\* Nothing about request q changes.
Same(q) ==
  /\ phase'[q] = phase[q] /\ body'[q] = body[q] /\ pos'[q] = pos[q]
  /\ chunk'[q] = chunk[q] /\ response'[q] = response[q]
  /\ stash'[q] = stash[q] /\ saving'[q] = saving[q]
  /\ logs'[q] = logs[q] /\ usages'[q] = usages[q]

\* A request that a step leaves alone keeps its part of the invariant.
LEMMA Frame ==
  ASSUME NEW q \in Request, Shape(q), Rows(q), Same(q)
  PROVE  Shape(q)' /\ Rows(q)'
BY DEF Shape, Rows, Same, NoRows, Streams, StreamAnswer, Stream, Chain

\* It suffices to look at the request that moves.
LEMMA OneMoves ==
  ASSUME IInv, NEW r \in Request, TypeOK', Shape(r)', Rows(r)',
         \A q \in Request \ {r} : Same(q)
  PROVE  IInv'
<1>1. \A q \in Request : Shape(q)' /\ Rows(q)'
  <2> TAKE q \in Request
  <2>1. CASE q = r
    BY <2>1
  <2>2. CASE q # r
    BY <2>2, Frame DEF IInv
  <2> QED
    BY <2>1, <2>2
<1> QED
  BY <1>1 DEF IInv

\* Accept: a body from the client, the walk starts at the first entry.
LEMMA AcceptStep ==
  ASSUME IInv, NEW r \in Request, Accept(r)
  PROVE  IInv'
<1> USE DEF walkVars, sseVars, replyVars, saveVars, Go
<1>1. TypeOK'
  BY SMTT(30) DEF IInv, TypeOK, Accept, InFlight
<1>2. \A q \in Request \ {r} : Same(q)
  BY DEF IInv, TypeOK, Accept, Same
<1>3. Shape(r)'
  BY DEF IInv, TypeOK, Accept, Shape, Settled
<1>4. Rows(r)'
  <2>1. phase[r] = "idle" /\ phase'[r] = "walk"
        /\ stash'[r] = stash[r] /\ logs'[r] = logs[r] /\ usages'[r] = usages[r]
    BY DEF IInv, TypeOK, Accept
  <2>2. NoRows(r) /\ stash[r] = None
    BY <2>1 DEF IInv, Rows, Settled
  <2> QED
    BY <2>1, <2>2 DEF Rows, NoRows, Settled
<1> QED
  BY <1>1, <1>2, <1>3, <1>4, OneMoves

\* The next entry of the chain, after an attempt that is put on record.
LEMMA TryNextStep ==
  ASSUME IInv, NEW r \in Request, NEW from \in {"walk", "calling"},
         NEW why \in {"unregistered", "failed", "empty"},
         pos[r] \in 1 .. Len(Chain(r)), TryNext(r, from, why)
  PROVE  IInv'
<1> USE DEF walkVars, sseVars, replyVars, saveVars, Go
<1>0. [target |-> Entry(r), why |-> why] \in Attempt
  <2>1. phase[r] # "idle"
    BY DEF TryNext
  <2>2. body[r] \in Body
    BY <2>1 DEF IInv, Shape
  <2> QED
    BY <2>2, EntryType DEF Attempt
<1>1. TypeOK'
  BY <1>0, SMTT(30) DEF IInv, TypeOK, TryNext, InFlight
<1>2. \A q \in Request \ {r} : Same(q)
  BY <1>0 DEF IInv, TypeOK, Same, TryNext
<1>3. Shape(r)'
  BY DEF IInv, TypeOK, Shape, Streams, StreamAnswer, TryNext, Stream, Chain,
     Settled
<1>4. Rows(r)'
  BY DEF IInv, TypeOK, Rows, NoRows, TryNext, Settled
<1> QED
  BY <1>1, <1>2, <1>3, <1>4, OneMoves

\* A registered entry is called.
LEMMA CallProviderStep ==
  ASSUME IInv, NEW r \in Request, CallProvider(r)
  PROVE  IInv'
<1> USE DEF walkVars, sseVars, replyVars, saveVars, Go
<1>0. pos[r] \in 1 .. Len(Chain(r))
  BY ChainType DEF IInv, TypeOK, Shape, CallProvider, ChainEnds, Chain
<1>1. TypeOK'
  BY <1>0, SMTT(30) DEF IInv, TypeOK, CallProvider, InFlight
<1>2. \A q \in Request \ {r} : Same(q)
  BY <1>0 DEF IInv, TypeOK, Same, CallProvider, ChainEnds
<1>3. Shape(r)'
  BY <1>0 DEF IInv, TypeOK, Shape, Streams, StreamAnswer, CallProvider, Stream, Chain, Settled, ChainEnds
<1>4. Rows(r)'
  <2>1. phase[r] = "walk" /\ phase'[r] = "calling"
        /\ stash'[r] = stash[r] /\ logs'[r] = logs[r] /\ usages'[r] = usages[r]
    BY DEF IInv, TypeOK, CallProvider
  <2>2. NoRows(r) /\ stash[r] = None
    BY <2>1 DEF IInv, Rows, Settled
  <2> QED
    BY <2>1, <2>2 DEF Rows, NoRows, Settled
<1> QED
  BY <1>1, <1>2, <1>3, <1>4, OneMoves

\* An exception nobody normalised becomes a 500.
LEMMA CallRaisesStep ==
  ASSUME IInv, NEW r \in Request, CallRaises(r)
  PROVE  IInv'
<1> USE DEF walkVars, sseVars, replyVars, saveVars, Go
<1>1. TypeOK'
  BY SMTT(30) DEF IInv, TypeOK, CallRaises, InFlight, Answer
<1>2. \A q \in Request \ {r} : Same(q)
  BY DEF IInv, TypeOK, Same, CallRaises, Answer
<1>3. Shape(r)'
  BY DEF IInv, TypeOK, Shape, Streams, StreamAnswer, CallRaises, Stream, Chain, Settled, Answer
<1>4. Rows(r)'
  BY DEF IInv, TypeOK, Rows, Shape, NoRows, StreamAnswer, CallRaises, Stream, Chain,
     Settled
<1> QED
  BY <1>1, <1>2, <1>3, <1>4, OneMoves

\* A JSON answer: the outcome is left to the middleware.
LEMMA CallAnswersStep ==
  ASSUME IInv, NEW r \in Request, CallAnswers(r)
  PROVE  IInv'
<1> USE DEF walkVars, sseVars, replyVars, saveVars, Go
<1>0. body[r] \in Body /\ Entry(r) = <<Entry(r)[1], Entry(r)[2]>>
      /\ Entry(r)[1] \in Provider /\ Entry(r)[2] \in Model
  <2>1. body[r] \in Body /\ pos[r] \in 1 .. Len(Chain(r))
    BY DEF IInv, Shape, CallAnswers
  <2> QED
    BY <2>1, EntryType DEF Target
<1>a. \A u \in Spent :
        /\ JsonOutcome(body[r], Entry(r), u) \in Outcome
        /\ [status |-> 200, event |-> JsonCompletion(body[r], Entry(r), u)]
             \in Answer
  BY <1>0, OutcomeTypes, ZenonT(60) DEF Answer
<1>1. TypeOK'
  BY <1>a, SMTT(30) DEF IInv, TypeOK, CallAnswers, InFlight
<1>2. \A q \in Request \ {r} : Same(q)
  BY DEF IInv, TypeOK, Same, CallAnswers
<1>3. Shape(r)'
  BY <1>a DEF IInv, TypeOK, Shape, Streams, StreamAnswer, CallAnswers,
     Stream, Chain, Settled
<1>4. Rows(r)'
  BY ZenonT(60) DEF IInv, TypeOK, Rows, NoRows, StreamAnswer, CallAnswers, Stream,
     Settled
<1> QED
  BY <1>1, <1>2, <1>3, <1>4, OneMoves

\* A stream is committed to its provider with the first chunk.
LEMMA FirstChunkStep ==
  ASSUME IInv, NEW r \in Request, FirstChunk(r)
  PROVE  IInv'
<1> USE DEF walkVars, sseVars, replyVars, saveVars, Go
<1>a. [status |-> 200, event |-> None] \in Answer
  BY DEF Answer
<1>1. TypeOK'
  BY <1>a, SMTT(30) DEF IInv, TypeOK, FirstChunk, InFlight
<1>2. \A q \in Request \ {r} : Same(q)
  BY DEF IInv, TypeOK, Same, FirstChunk
<1>3. Shape(r)'
  BY <1>a DEF IInv, TypeOK, Shape, Streams, StreamAnswer, FirstChunk,
     Stream, Chain, Settled
<1>4. Rows(r)'
  <2>1. /\ phase[r] = "calling" /\ phase'[r] = "track"
        /\ stash'[r] = stash[r] /\ logs'[r] = logs[r] /\ usages'[r] = usages[r]
    BY DEF IInv, TypeOK, FirstChunk
  <2> QED
    BY <2>1 DEF IInv, Rows, NoRows, Settled
<1> QED
  BY <1>1, <1>2, <1>3, <1>4, OneMoves

\* The chain is exhausted: a 502, recorded by the route or the middleware.
LEMMA ExhaustedStep ==
  ASSUME IInv, NEW r \in Request, Exhausted(r)
  PROVE  IInv'
<1> USE DEF walkVars, sseVars, replyVars, saveVars, Go
<1>0. body[r] \in Body
  BY DEF IInv, Shape, Exhausted
<1>a. [status |-> 502, event |-> None] \in Answer
  BY DEF Answer
<1>b. ErrorOutcome(body[r]) \in Outcome
  BY <1>0, EntryType, OutcomeTypes, GatewayAssumption DEF ErrorOutcome, Outcome, ChatRequest, Spent, Cost
<1>c. [by |-> "route", outcome |-> ErrorOutcome(body[r])] \in Saving
  BY <1>b DEF Saving, Saver
<1>d. ErrorStash(body[r]) \in Outcome \cup {None} /\ (Stream(r) => ErrorStash(body[r]) = None)
  BY <1>b DEF ErrorStash, Stream
<1>1. TypeOK'
  BY <1>a, <1>c, <1>d, SMTT(30) DEF IInv, TypeOK, Exhausted, InFlight, Saving
<1>2. \A q \in Request \ {r} : Same(q)
  BY DEF IInv, TypeOK, Same, Exhausted
<1>3. Shape(r)'
  BY <1>a, <1>c DEF IInv, TypeOK, Shape, Streams, StreamAnswer, Exhausted,
     Stream, Chain, Settled
<1>4. Rows(r)'
  <2>1. /\ phase[r] = "walk" /\ phase'[r] = IF Stream(r) THEN "log" ELSE "track"
        /\ body'[r] = body[r] /\ response'[r].status = 502
        /\ Stream(r) => saving'[r].by = "route" /\ stash'[r] = None
        /\ logs'[r] = logs[r] /\ usages'[r] = usages[r]
    BY <1>d DEF IInv, TypeOK, Exhausted
  <2> QED
    BY <2>1 DEF IInv, Rows, NoRows, StreamAnswer, Stream, Settled
<1> QED
  BY <1>1, <1>2, <1>3, <1>4, OneMoves

\* The middleware has nothing to persist and passes the response on.
LEMMA NothingToTrackStep ==
  ASSUME IInv, NEW r \in Request, NothingToTrack(r)
  PROVE  IInv'
<1> USE DEF walkVars, sseVars, replyVars, saveVars, Go
<1>1. TypeOK'
  BY SMTT(30) DEF IInv, TypeOK, NothingToTrack, InFlight
<1>2. \A q \in Request \ {r} : Same(q)
  BY DEF IInv, TypeOK, Same, NothingToTrack
<1>3. Shape(r)'
  BY DEF IInv, TypeOK, Shape, Streams, StreamAnswer, NothingToTrack, Stream,
     Chain, Settled
<1>4. Rows(r)'
  BY DEF IInv, TypeOK, Rows, NoRows, StreamAnswer, NothingToTrack, Stream,
     Settled
<1> QED
  BY <1>1, <1>2, <1>3, <1>4, OneMoves

\* The middleware persists the outcome that was left for it.
LEMMA TrackOutcomeStep ==
  ASSUME IInv, NEW r \in Request, TrackOutcome(r)
  PROVE  IInv'
<1> USE DEF walkVars, sseVars, replyVars, saveVars, Go
<1>a. [by |-> "middleware", outcome |-> stash[r]] \in Saving
  BY DEF IInv, TypeOK, Saving, Saver, TrackOutcome
<1>1. TypeOK'
  BY <1>a, SMTT(30) DEF IInv, TypeOK, TrackOutcome, InFlight, Saving
<1>2. \A q \in Request \ {r} : Same(q)
  BY DEF IInv, TypeOK, Same, TrackOutcome
<1>3. Shape(r)'
  BY <1>a DEF IInv, TypeOK, Shape, Streams, StreamAnswer, TrackOutcome,
     Stream, Chain, Settled
<1>4. Rows(r)'
  BY <1>a DEF IInv, TypeOK, Rows, NoRows, StreamAnswer, TrackOutcome,
     Stream, Settled
<1> QED
  BY <1>1, <1>2, <1>3, <1>4, OneMoves

\* The response reaches the transport: a stream starts, or the request is over.
LEMMA RespondStep ==
  ASSUME IInv, NEW r \in Request, Respond(r)
  PROVE  IInv'
<1> USE DEF walkVars, sseVars, replyVars, saveVars, Go
<1>a. response[r] \in Answer
  BY DEF IInv, Shape, Respond
<1>b. sent' \in [Request -> Seq(Event)]
  <2>1. response[r].event # None => response[r].event \in Event
    BY <1>a DEF Answer, Event
  <2>2. SendIf(r, response[r].event # None, response[r].event)
    BY DEF Respond
  <2> QED
    BY <2>1, <2>2, SendType DEF IInv, TypeOK
<1>c. response[r].status \in {0, 200, 500, 502}
  BY <1>a DEF Answer
<1>1. TypeOK'
  BY <1>b, <1>c, ZenonT(60) DEF IInv, TypeOK, Respond, InFlight, Settled
<1>2. \A q \in Request \ {r} : Same(q)
  BY DEF IInv, TypeOK, Same, Respond
<1>3. Shape(r)'
  BY DEF IInv, TypeOK, Shape, Streams, StreamAnswer, Respond, Stream, Chain,
     Settled
<1>4. Rows(r)'
  BY DEF IInv, TypeOK, Rows, NoRows, StreamAnswer, Respond, Stream, Settled
<1> QED
  BY <1>1, <1>2, <1>3, <1>4, OneMoves

\* The text of the chunk in hand is sent.
LEMMA EmitChunkStep ==
  ASSUME IInv, NEW r \in Request, EmitChunk(r)
  PROVE  IInv'
<1> USE DEF walkVars, sseVars, replyVars, saveVars, Go
<1>0. body[r] \in Body /\ Streams(r)
  BY DEF IInv, Shape, EmitChunk
<1>a. Entry(r)[1] \in Provider /\ body[r].model \in Model
  BY <1>0, EntryType, GatewayAssumption DEF Streams, ChatRequest
<1>c. DeltaEvent(r) \in Event
  BY <1>a DEF DeltaEvent, Event
<1>d. sent' \in [Request -> Seq(Event)]
  <2>1. SendIf(r, chunk[r].delta, DeltaEvent(r))
    BY DEF EmitChunk, Send
  <2> QED
    BY <1>c, <2>1, SendType DEF IInv, TypeOK
<1>1. TypeOK'
  BY <1>d DEF IInv, TypeOK, EmitChunk, InFlight
<1>2. \A q \in Request \ {r} : Same(q)
  BY DEF IInv, TypeOK, Same, EmitChunk
<1>3. Shape(r)'
  BY DEF IInv, TypeOK, Shape, Streams, StreamAnswer, EmitChunk, Stream,
     Chain, Settled
<1>4. Rows(r)'
  BY ZenonT(60) DEF IInv, TypeOK, Rows, NoRows, StreamAnswer, EmitChunk, Stream,
     Settled
<1> QED
  BY <1>1, <1>2, <1>3, <1>4, OneMoves

\* The provider yields another chunk.
LEMMA NextChunkStep ==
  ASSUME IInv, NEW r \in Request, NextChunk(r)
  PROVE  IInv'
<1> USE DEF walkVars, sseVars, replyVars, saveVars, Go
<1>1. TypeOK'
  BY SMTT(30) DEF IInv, TypeOK, NextChunk, InFlight
<1>2. \A q \in Request \ {r} : Same(q)
  BY DEF IInv, TypeOK, Same, NextChunk
<1>3. Shape(r)'
  BY DEF IInv, TypeOK, Shape, Streams, StreamAnswer, NextChunk, Stream,
     Chain, Settled
<1>4. Rows(r)'
  BY ZenonT(60) DEF IInv, TypeOK, Rows, NoRows, StreamAnswer, NextChunk, Stream,
     Settled
<1> QED
  BY <1>1, <1>2, <1>3, <1>4, OneMoves

\* The provider's stream ends without a final chunk.
LEMMA StreamStopsStep ==
  ASSUME IInv, NEW r \in Request, StreamStops(r)
  PROVE  IInv'
<1> USE DEF walkVars, sseVars, replyVars, saveVars, Go
<1>1. TypeOK'
  BY SMTT(30) DEF IInv, TypeOK, StreamStops, InFlight
<1>2. \A q \in Request \ {r} : Same(q)
  BY DEF IInv, TypeOK, Same, StreamStops
<1>3. Shape(r)'
  BY DEF IInv, TypeOK, Shape, Streams, StreamAnswer, StreamStops, Stream,
     Chain, Settled
<1>4. Rows(r)'
  BY ZenonT(60) DEF IInv, TypeOK, Rows, NoRows, StreamAnswer, StreamStops, Stream,
     Settled
<1> QED
  BY <1>1, <1>2, <1>3, <1>4, OneMoves

\* The provider's stream breaks and an error event is sent.
LEMMA StreamFailsStep ==
  ASSUME IInv, NEW r \in Request, StreamFails(r)
  PROVE  IInv'
<1> USE DEF walkVars, sseVars, replyVars, saveVars, Go
<1>c. [type |-> "error"] \in Event
  BY DEF Event
<1>d. sent' \in [Request -> Seq(Event)]
  <2>1. SendIf(r, TRUE, [type |-> "error"])
    BY DEF StreamFails, Send
  <2> QED
    BY <1>c, <2>1, SendType DEF IInv, TypeOK
<1>1. TypeOK'
  BY <1>d DEF IInv, TypeOK, StreamFails, InFlight
<1>2. \A q \in Request \ {r} : Same(q)
  BY DEF IInv, TypeOK, Same, StreamFails
<1>3. Shape(r)'
  BY DEF IInv, TypeOK, Shape, Streams, StreamAnswer, StreamFails, Stream,
     Chain, Settled
<1>4. Rows(r)'
  BY ZenonT(60) DEF IInv, TypeOK, Rows, NoRows, StreamAnswer, StreamFails, Stream,
     Settled
<1> QED
  BY <1>1, <1>2, <1>3, <1>4, OneMoves

\* The usage is sent, if the final chunk brought one.
LEMMA EmitUsageStep ==
  ASSUME IInv, NEW r \in Request, EmitUsage(r)
  PROVE  IInv'
<1> USE DEF walkVars, sseVars, replyVars, saveVars, Go
<1>0. body[r] \in Body /\ Streams(r)
  BY DEF IInv, Shape, EmitUsage
<1>a. Entry(r)[1] \in Provider /\ body[r].model \in Model
  BY <1>0, EntryType, GatewayAssumption DEF Streams, ChatRequest
<1>b. FinalUsage(r) \in Spent
  BY <1>0 DEF FinalUsage, Streams, Chunk, TextChunk, FinalChunk, Spent
<1>c. FinalUsage(r) # None => UsageEvent(r) \in Event
  <2>1. StreamCost(body[r], Entry(r)[1], FinalUsage(r)) \in Cost
    BY <1>0, <1>a, <1>b, OutcomeTypes
  <2> QED
    BY <1>b, <2>1 DEF UsageEvent, Event, Spent
<1>d. sent' \in [Request -> Seq(Event)]
  <2>1. SendIf(r, FinalUsage(r) # None, UsageEvent(r))
    BY DEF EmitUsage, Send
  <2> QED
    BY <1>c, <2>1, SendType DEF IInv, TypeOK
<1>1. TypeOK'
  BY <1>d DEF IInv, TypeOK, EmitUsage, InFlight
<1>2. \A q \in Request \ {r} : Same(q)
  BY DEF IInv, TypeOK, Same, EmitUsage
<1>3. Shape(r)'
  BY DEF IInv, TypeOK, Shape, Streams, StreamAnswer, EmitUsage, Stream,
     Chain, Settled
<1>4. Rows(r)'
  BY ZenonT(60) DEF IInv, TypeOK, Rows, NoRows, StreamAnswer, EmitUsage, Stream,
     Settled
<1> QED
  BY <1>1, <1>2, <1>3, <1>4, OneMoves

\* [DONE] is sent and the generator persists the outcome of its stream.
LEMMA EmitDoneStep ==
  ASSUME IInv, NEW r \in Request, EmitDone(r)
  PROVE  IInv'
<1> USE DEF walkVars, sseVars, replyVars, saveVars, Go
<1>0. body[r] \in Body /\ Streams(r)
  BY DEF IInv, Shape, EmitDone
<1>a. Entry(r)[1] \in Provider /\ body[r].model \in Model
  BY <1>0, EntryType, GatewayAssumption DEF Streams, ChatRequest
<1>b. FinalUsage(r) \in Spent
  BY <1>0 DEF FinalUsage, Streams, Chunk, TextChunk, FinalChunk, Spent
<1>c. [type |-> "done"] \in Event
  BY DEF Event
<1>d. sent' \in [Request -> Seq(Event)]
  <2>1. SendIf(r, TRUE, [type |-> "done"])
    BY DEF EmitDone, Send
  <2> QED
    BY <1>c, <2>1, SendType DEF IInv, TypeOK
<1>e. \E o \in Outcome :
        saving' = [saving EXCEPT ![r] = [by |-> "generator", outcome |-> o]]
  <2>1. errored[r] \in BOOLEAN
    BY DEF IInv, TypeOK
  <2>2. StreamOutcome(body[r], Entry(r)[1], FinalUsage(r), errored[r]) \in Outcome
    BY <1>0, <1>a, <1>b, <2>1, OutcomeTypes
  <2> QED
    BY <2>2 DEF EmitDone
<1>f. /\ saving' \in [Request -> Saving \cup {None}]
      /\ saving'[r] \in Saving /\ saving'[r].by = "generator"
  BY <1>e DEF IInv, TypeOK, Saving, Saver
<1>1. TypeOK'
  BY <1>d, <1>f, SMTT(30) DEF IInv, TypeOK, EmitDone, InFlight, Saving
<1>2. \A q \in Request \ {r} : Same(q)
  BY DEF IInv, TypeOK, Same, EmitDone
<1>3. Shape(r)'
  BY <1>f DEF IInv, TypeOK, Shape, Streams, StreamAnswer, EmitDone, Stream,
     Chain, Settled
<1>4. Rows(r)'
  BY <1>f, ZenonT(60) DEF IInv, TypeOK, Rows, NoRows, StreamAnswer, EmitDone, Stream,
     Settled
<1> QED
  BY <1>1, <1>2, <1>3, <1>4, OneMoves

\* The request row is committed and there is no usage to record.
LEMMA LogOnlyStep ==
  ASSUME IInv, NEW r \in Request, LogOnly(r)
  PROVE  IInv'
<1> USE DEF walkVars, sseVars, replyVars, saveVars, Go
<1>a. /\ saving[r].outcome \in Outcome /\ saving[r].by \in Saver
      /\ phase[r] = "log"
  BY DEF IInv, Shape, Saving, Saved, LogOnly
<1>b. AfterSave(saving[r].by) \in {"respond", "track", "done"}
  BY <1>a DEF AfterSave, Saver
<1>c. LogRow(saving[r].outcome) \in LogRows
  BY <1>a DEF LogRow, LogRows, Outcome
<1>d. logs[r] = <<>> /\ usages[r] = <<>>
  BY <1>a DEF IInv, Rows, NoRows, Settled
<1>e. AddLog(r) => /\ logs' \in [Request -> Seq(LogRows)]
                   /\ logs'[r] = <<LogRow(saving[r].outcome)>>
  BY <1>c, <1>d DEF IInv, TypeOK, AddLog
<1>1. TypeOK'
  BY <1>a, <1>b, <1>c, <1>d, <1>e DEF IInv, TypeOK, InFlight, Settled, Saved, LogOnly
<1>2. \A q \in Request \ {r} : Same(q)
  BY DEF IInv, TypeOK, Same, Saved, LogOnly, AddLog
<1>3. /\ phase'[r] = AfterSave(saving[r].by)
      /\ body'[r] = body[r] /\ pos'[r] = pos[r] /\ chunk'[r] = chunk[r]
      /\ response'[r] = response[r] /\ stash'[r] = stash[r]
      /\ saving'[r] = None
  BY DEF IInv, TypeOK, Saved, LogOnly
<1>4. /\ Len(logs'[r]) = 1 /\ usages'[r] = <<>>
  <2>1. logs'[r] = <<LogRow(saving[r].outcome)>> /\ usages'[r] = usages[r]
    BY <1>e DEF LogOnly
  <2> QED
    BY <1>d, <2>1
<1>5. Shape(r)'
  BY <1>a, <1>b, <1>3 DEF IInv, Shape, Streams, StreamAnswer, Stream, Chain
<1>6. Rows(r)'
  <2>1. saving[r].by \in Saver
    BY <1>a
  <2> QED
    BY <1>a, <1>3, <1>4, <2>1 DEF IInv, Rows, NoRows, StreamAnswer, Stream, Settled, AfterSave, Saver
<1> QED
  BY <1>1, <1>2, <1>5, <1>6, OneMoves

\* The request row is committed, its usage comes next.
LEMMA LogCommitsStep ==
  ASSUME IInv, NEW r \in Request, LogCommits(r)
  PROVE  IInv'
<1> USE DEF walkVars, sseVars, replyVars, saveVars, Go
<1>a. /\ saving[r].outcome \in Outcome /\ saving[r].by \in Saver
      /\ phase[r] = "log"
  BY DEF IInv, Shape, Saving, LogCommits
<1>c. LogRow(saving[r].outcome) \in LogRows
  BY <1>a DEF LogRow, LogRows, Outcome
<1>d. logs[r] = <<>> /\ usages[r] = <<>>
  BY <1>a DEF IInv, Rows, NoRows, Settled
<1>e. AddLog(r) => /\ logs' \in [Request -> Seq(LogRows)]
                   /\ logs'[r] = <<LogRow(saving[r].outcome)>>
  BY <1>c, <1>d DEF IInv, TypeOK, AddLog
<1>1. TypeOK'
  BY <1>a, <1>c, <1>d, <1>e DEF IInv, TypeOK, InFlight, Settled, LogCommits
<1>2. \A q \in Request \ {r} : Same(q)
  BY DEF IInv, TypeOK, Same, LogCommits, AddLog
<1>3. /\ phase'[r] = "usage"
      /\ body'[r] = body[r] /\ pos'[r] = pos[r] /\ chunk'[r] = chunk[r]
      /\ response'[r] = response[r] /\ stash'[r] = stash[r]
      /\ saving'[r] = saving[r] /\ saving[r].outcome.usage # None
  BY DEF IInv, TypeOK, LogCommits
<1>4. /\ Len(logs'[r]) = 1 /\ usages'[r] = <<>>
  <2>1. logs'[r] = <<LogRow(saving[r].outcome)>> /\ usages'[r] = usages[r]
    BY <1>e DEF LogCommits
  <2> QED
    BY <1>d, <2>1
<1>5. Shape(r)'
  BY <1>a, <1>3 DEF IInv, Shape, Streams, StreamAnswer, Stream, Chain
<1>6. Rows(r)'
  <2>1. /\ phase'[r] = "usage" /\ saving[r].by \in Saver
    BY <1>a, <1>3
  <2> QED
    BY <1>a, <1>3, <1>4, <2>1 DEF IInv, Rows, NoRows, StreamAnswer, Stream, Settled, AfterSave, Saver
<1> QED
  BY <1>1, <1>2, <1>5, <1>6, OneMoves

\* Persisting the request row failed, with or without the row.
LEMMA LogFailsStep ==
  ASSUME IInv, NEW r \in Request, LogFails(r)
  PROVE  IInv'
<1> USE DEF walkVars, sseVars, replyVars, saveVars, Go
<1>a. /\ saving[r].outcome \in Outcome /\ saving[r].by \in Saver
      /\ phase[r] = "log"
  BY DEF IInv, Shape, Saving, Saved, LogFails
<1>b. AfterSave(saving[r].by) \in {"respond", "track", "done"}
  BY <1>a DEF AfterSave, Saver
<1>c. LogRow(saving[r].outcome) \in LogRows
  BY <1>a DEF LogRow, LogRows, Outcome
<1>d. logs[r] = <<>> /\ usages[r] = <<>>
  BY <1>a DEF IInv, Rows, NoRows, Settled
<1>e. AddLog(r) => /\ logs' \in [Request -> Seq(LogRows)]
                   /\ logs'[r] = <<LogRow(saving[r].outcome)>>
  BY <1>c, <1>d DEF IInv, TypeOK, AddLog
<1>1. TypeOK'
  BY <1>a, <1>b, <1>c, <1>d, <1>e, SMTT(30) DEF IInv, TypeOK, InFlight, Settled, Saved, LogFails, Warn
<1>2. \A q \in Request \ {r} : Same(q)
  BY DEF IInv, TypeOK, Same, Saved, LogFails, Warn, AddLog
<1>3. /\ phase'[r] = AfterSave(saving[r].by)
      /\ body'[r] = body[r] /\ pos'[r] = pos[r] /\ chunk'[r] = chunk[r]
      /\ response'[r] = response[r] /\ stash'[r] = stash[r]
      /\ saving'[r] = None
  BY DEF IInv, TypeOK, Saved, LogFails, Warn
<1>4. Len(logs'[r]) <= 1 /\ usages'[r] = <<>>
  <2>1. CASE AddLog(r)
    <3>1. logs'[r] = <<LogRow(saving[r].outcome)>> /\ usages'[r] = usages[r]
      BY <1>e, <2>1 DEF LogFails
    <3> QED
      BY <1>d, <3>1
  <2>2. CASE UNCHANGED logs
    <3>1. logs'[r] = logs[r] /\ usages'[r] = usages[r]
      BY <2>2 DEF LogFails
    <3> QED
      BY <1>d, <3>1
  <2> QED
    BY <2>1, <2>2 DEF LogFails
<1>5. Shape(r)'
  BY <1>a, <1>b, <1>3 DEF IInv, Shape, Streams, StreamAnswer, Stream, Chain
<1>6. Rows(r)'
  <2>1. saving[r].by \in Saver
    BY <1>a
  <2> QED
    BY <1>a, <1>3, <1>4, <2>1 DEF IInv, Rows, NoRows, StreamAnswer, Stream, Settled, AfterSave, Saver
<1> QED
  BY <1>1, <1>2, <1>5, <1>6, OneMoves

\* The usage row is committed.
LEMMA UsageCommitsStep ==
  ASSUME IInv, NEW r \in Request, UsageCommits(r)
  PROVE  IInv'
<1> USE DEF walkVars, sseVars, replyVars, saveVars, Go
<1>a. /\ saving[r].outcome \in Outcome /\ saving[r].by \in Saver
      /\ phase[r] = "usage"
  BY DEF IInv, Shape, Saving, Saved, UsageCommits
<1>b. AfterSave(saving[r].by) \in {"respond", "track", "done"}
  BY <1>a DEF AfterSave, Saver
<1>c. UsageRow(saving[r].outcome, 1) \in UsageRows
  BY <1>a DEF IInv, Shape, UsageRow, UsageRows, Outcome, Spent
<1>d. Len(logs[r]) = 1 /\ usages[r] = <<>>
  BY <1>a DEF IInv, Rows
<1>e. AddUsage(r) => /\ usages' \in [Request -> Seq(UsageRows)]
                   /\ usages'[r] = <<UsageRow(saving[r].outcome, 1)>>
  BY <1>c, <1>d DEF IInv, TypeOK, AddUsage
<1>1. TypeOK'
  BY <1>a, <1>b, <1>c, <1>d, <1>e, ZenonT(60) DEF IInv, TypeOK, InFlight, Settled, Saved, UsageCommits
<1>2. \A q \in Request \ {r} : Same(q)
  BY DEF IInv, TypeOK, Same, Saved, UsageCommits, AddUsage
<1>3. /\ phase'[r] = AfterSave(saving[r].by)
      /\ body'[r] = body[r] /\ pos'[r] = pos[r] /\ chunk'[r] = chunk[r]
      /\ response'[r] = response[r] /\ stash'[r] = stash[r]
      /\ saving'[r] = None
  BY DEF IInv, TypeOK, Saved, UsageCommits
<1>4. /\ Len(logs'[r]) = 1 /\ Len(usages'[r]) <= 1
      /\ \A i \in DOMAIN usages'[r] : usages'[r][i].log = 1
  <2>1. usages'[r] = <<UsageRow(saving[r].outcome, 1)>> /\ logs'[r] = logs[r]
    BY <1>e DEF UsageCommits
  <2> QED
    BY <1>d, <2>1 DEF UsageRow
<1>5. Shape(r)'
  BY <1>a, <1>b, <1>3 DEF IInv, Shape, Streams, StreamAnswer, Stream, Chain
<1>6. Rows(r)'
  <2>1. saving[r].by \in Saver
    BY <1>a
  <2> QED
    BY <1>a, <1>3, <1>4, <2>1 DEF IInv, Rows, NoRows, StreamAnswer, Stream, Settled, AfterSave, Saver
<1> QED
  BY <1>1, <1>2, <1>5, <1>6, OneMoves

\* Persisting the usage row failed, with or without the row.
LEMMA UsageFailsStep ==
  ASSUME IInv, NEW r \in Request, UsageFails(r)
  PROVE  IInv'
<1> USE DEF walkVars, sseVars, replyVars, saveVars, Go
<1>a. /\ saving[r].outcome \in Outcome /\ saving[r].by \in Saver
      /\ phase[r] = "usage"
  BY DEF IInv, Shape, Saving, Saved, UsageFails
<1>b. AfterSave(saving[r].by) \in {"respond", "track", "done"}
  BY <1>a DEF AfterSave, Saver
<1>c. UsageRow(saving[r].outcome, 1) \in UsageRows
  BY <1>a DEF IInv, Shape, UsageRow, UsageRows, Outcome, Spent
<1>d. Len(logs[r]) = 1 /\ usages[r] = <<>>
  BY <1>a DEF IInv, Rows
<1>e. AddUsage(r) => /\ usages' \in [Request -> Seq(UsageRows)]
                   /\ usages'[r] = <<UsageRow(saving[r].outcome, 1)>>
  BY <1>c, <1>d DEF IInv, TypeOK, AddUsage
<1>1. TypeOK'
  BY <1>a, <1>b, <1>c, <1>d, <1>e, SMTT(30) DEF IInv, TypeOK, InFlight, Settled, Saved, UsageFails, Warn
<1>2. \A q \in Request \ {r} : Same(q)
  BY DEF IInv, TypeOK, Same, Saved, UsageFails, Warn, AddUsage
<1>3. /\ phase'[r] = AfterSave(saving[r].by)
      /\ body'[r] = body[r] /\ pos'[r] = pos[r] /\ chunk'[r] = chunk[r]
      /\ response'[r] = response[r] /\ stash'[r] = stash[r]
      /\ saving'[r] = None
  BY DEF IInv, TypeOK, Saved, UsageFails, Warn
<1>4. /\ Len(logs'[r]) = 1 /\ Len(usages'[r]) <= 1
      /\ \A i \in DOMAIN usages'[r] : usages'[r][i].log = 1
  <2>1. CASE AddUsage(r)
    <3>1. usages'[r] = <<UsageRow(saving[r].outcome, 1)>> /\ logs'[r] = logs[r]
      BY <1>e, <2>1 DEF UsageFails
    <3> QED
      BY <1>d, <3>1 DEF UsageRow
  <2>2. CASE UNCHANGED usages
    <3>1. usages'[r] = usages[r] /\ logs'[r] = logs[r]
      BY <2>2 DEF UsageFails
    <3> QED
      BY <1>d, <3>1
  <2> QED
    BY <2>1, <2>2 DEF UsageFails
<1>5. Shape(r)'
  BY <1>a, <1>b, <1>3 DEF IInv, Shape, Streams, StreamAnswer, Stream, Chain
<1>6. Rows(r)'
  <2>1. saving[r].by \in Saver
    BY <1>a
  <2> QED
    BY <1>a, <1>3, <1>4, <2>1 DEF IInv, Rows, NoRows, StreamAnswer, Stream, Settled, AfterSave, Saver
<1> QED
  BY <1>1, <1>2, <1>5, <1>6, OneMoves

\* The generator of a client that is gone is cancelled: its rows stay as they are.
LEMMA DisconnectStep ==
  ASSUME IInv, NEW r \in Request, Disconnect(r)
  PROVE  IInv'
<1> USE DEF walkVars, sseVars, replyVars, saveVars, Go
<1>1. TypeOK'
  BY SMTT(30) DEF IInv, TypeOK, Disconnect, InFlight, Settled
<1>2. \A q \in Request \ {r} : Same(q)
  BY DEF IInv, TypeOK, Same, Disconnect
<1>3. Shape(r)'
  BY DEF IInv, TypeOK, Shape, Streams, StreamAnswer, Disconnect, Stream,
     Chain, Settled
<1>4. Rows(r)'
  BY DEF IInv, TypeOK, Rows, NoRows, StreamAnswer, Disconnect, Stream,
     Settled
<1> QED
  BY <1>1, <1>2, <1>3, <1>4, OneMoves

\* A crash leaves the rows of every request as they are.
LEMMA CrashStep ==
  ASSUME IInv, Crash
  PROVE  IInv'
<1> USE DEF walkVars, sseVars, replyVars, saveVars
<1>1. TypeOK'
  BY SMTT(30) DEF IInv, TypeOK, Crash, Settled
<1>2. \A q \in Request : Shape(q)' /\ Rows(q)'
  <2> TAKE q \in Request
  <2>1. CASE phase[q] \in InFlight
    <3>1. phase'[q] = "lost" /\ UNCHANGED <<body[q], pos[q], logs[q], usages[q]>>
      BY <2>1 DEF Crash
    <3>2. phase[q] # "idle"
      BY <2>1 DEF InFlight
    <3>3. Shape(q)'
      BY <3>1, <3>2 DEF IInv, Shape
    <3>4. Rows(q)'
      BY <3>1 DEF IInv, Rows, Settled
    <3> QED
      BY <3>3, <3>4
  <2>2. CASE phase[q] \notin InFlight
    <3>1. Same(q)
      BY <2>2 DEF Crash, Same
    <3> QED
      BY <3>1, Frame DEF IInv
  <2> QED
    BY <2>1, <2>2
<1> QED
  BY <1>1, <1>2 DEF IInv

\* The invariant holds before any request is accepted.
LEMMA InitInv == Init => IInv
<1> SUFFICES ASSUME Init PROVE IInv
  OBVIOUS
<1>1. TypeOK
  BY DEF Init, TypeOK
<1>2. \A r \in Request : Shape(r) /\ Rows(r)
  BY DEF Init, Shape, Rows, NoRows, Settled
<1> QED
  BY <1>1, <1>2 DEF IInv

\* Every step keeps the invariant.
LEMMA NextInv == IInv /\ [Next]_vars => IInv'
<1> SUFFICES ASSUME IInv, [Next]_vars PROVE IInv'
  OBVIOUS
<1>1. ASSUME NEW r \in Request, Step(r) PROVE IInv'
  <2>1. CASE Accept(r)
    BY <2>1, AcceptStep
  <2>2. CASE SkipUnregistered(r)
    <3>1. phase[r] = "walk" /\ TryNext(r, "walk", "unregistered") /\ ~ChainEnds(r)
      BY <2>2 DEF SkipUnregistered
    <3>2. pos[r] \in 1 .. Len(Chain(r))
      BY <3>1, ChainType DEF IInv, TypeOK, Shape, ChainEnds, Chain
    <3> QED
      BY <3>1, <3>2, TryNextStep
  <2>3. CASE CallFails(r) \/ StreamEmpty(r)
    <3>1. \E why \in {"failed", "empty"} : TryNext(r, "calling", why)
      BY <2>3 DEF CallFails, StreamEmpty
    <3>2. pos[r] \in 1 .. Len(Chain(r))
      BY <3>1 DEF IInv, Shape, TryNext, Go
    <3> QED
      BY <3>1, <3>2, TryNextStep
  <2>4. CASE CallProvider(r)
    BY <2>4, CallProviderStep
  <2>5. CASE CallRaises(r)
    BY <2>5, CallRaisesStep
  <2>6. CASE CallAnswers(r)
    BY <2>6, CallAnswersStep
  <2>7. CASE FirstChunk(r)
    BY <2>7, FirstChunkStep
  <2>8. CASE Exhausted(r)
    BY <2>8, ExhaustedStep
  <2>9. CASE CostTracking(r)
    BY <2>9, NothingToTrackStep, TrackOutcomeStep DEF CostTracking
  <2>10. CASE Respond(r)
    BY <2>10, RespondStep
  <2>11. CASE EmitChunk(r) \/ NextChunk(r)
    BY <2>11, EmitChunkStep, NextChunkStep
  <2>12. CASE StreamStops(r) \/ StreamFails(r)
    BY <2>12, StreamStopsStep, StreamFailsStep
  <2>13. CASE EmitUsage(r) \/ EmitDone(r)
    BY <2>13, EmitUsageStep, EmitDoneStep
  <2>14. CASE Database(r)
    BY <2>14, LogOnlyStep, LogCommitsStep, UsageCommitsStep, LogFailsStep,
       UsageFailsStep DEF Database
  <2>15. CASE Disconnect(r)
    BY <2>15, DisconnectStep
  <2> QED
    BY <1>1, <2>1, <2>2, <2>3, <2>4, <2>5, <2>6, <2>7, <2>8, <2>9, <2>10, <2>11,
       <2>12, <2>13, <2>14, <2>15 DEF Step, Gateway, Upstream
<1>2. CASE Crash
  BY <1>2, CrashStep
<1>3. CASE UNCHANGED vars
  <2> USE <1>3 DEF vars, walkVars, sseVars, replyVars, saveVars
  <2>1. TypeOK'
    BY DEF IInv, TypeOK
  <2>2. \A q \in Request : Same(q)
    BY DEF Same
  <2> QED
    BY <2>1, <2>2, Frame DEF IInv
<1> QED
  BY <1>1, <1>2, <1>3 DEF Next, Quiet

-----------------------------------------------------------------------------
\* The inductive invariant holds in every reachable state.
THEOREM Invariance == Spec => []IInv
<1> QED
  BY InitInv, NextInv, PTL DEF Spec

\* Type correctness, for any number of requests, any bodies, settings and
\* registry: prices and usages stay what the tables store.
THEOREM TypeCorrectness == Spec => []TypeOK
<1>1. IInv => TypeOK
  BY DEF IInv
<1> QED
  BY <1>1, Invariance, PTL

\* No request is counted twice, in any interleaving of walk, stream, client,
\* database and crash: of the three places that persist an outcome, one does.
THEOREM CountedOnce == Spec => []RecordedOnce
<1>1. IInv => RecordedOnce
  BY DEF IInv, Rows, RecordedOnce
<1> QED
  BY <1>1, Invariance, PTL

-----------------------------------------------------------------------------
(* How each action moves its own request, and that it moves no other.      *)

SameWalk(q)  == body'[q] = body[q] /\ pos'[q] = pos[q] /\ attempts'[q] = attempts[q]
SameSse(q)   == chunk'[q] = chunk[q] /\ errored'[q] = errored[q]
SameReply(q) == response'[q] = response[q] /\ http'[q] = http[q] /\ sent'[q] = sent[q]
SameRows(q)  == logs'[q] = logs[q] /\ usages'[q] = usages[q] /\ warned'[q] = warned[q]
SameSave(q)  == stash'[q] = stash[q] /\ saving'[q] = saving[q] /\ SameRows(q)

Still(q) ==
  phase'[q] = phase[q] /\ SameWalk(q) /\ SameSse(q) /\ SameReply(q) /\ SameSave(q)

Moves(q, from, to) == phase[q] = from /\ phase'[q] = to

\* What a client was sent has one more event, or none.
Sends(q, given, e) == sent'[q] = IF given THEN Append(sent[q], e) ELSE sent[q]

-----------------------------------------------------------------------------
\* A body is accepted.
LEMMA AcceptMoves ==
  ASSUME TypeOK, NEW r \in Request, Accept(r)
  PROVE  /\ Moves(r, "idle", "walk")
         /\ body'[r] \in Body /\ pos'[r] = 1 /\ attempts'[r] = attempts[r]
         /\ SameSse(r) /\ SameReply(r) /\ SameSave(r)
         /\ \A q \in Request \ {r} : Still(q)
BY DEF TypeOK, Accept, Go, Moves, SameWalk, SameSse, SameReply, SameRows, SameSave, Still,
       walkVars, sseVars, replyVars, saveVars

\* An attempt failed and the next entry is due.
LEMMA TryNextMoves ==
  ASSUME TypeOK, NEW r \in Request, NEW from, NEW why, TryNext(r, from, why)
  PROVE  /\ Moves(r, from, "walk")
         /\ body'[r] = body[r] /\ pos'[r] = pos[r] + 1
         /\ attempts'[r] = Append(attempts[r], [target |-> Entry(r), why |-> why])
         /\ SameSse(r) /\ SameReply(r) /\ SameSave(r)
         /\ \A q \in Request \ {r} : Still(q)
BY DEF TypeOK, TryNext, Go, Moves, SameWalk, SameSse, SameReply, SameRows, SameSave, Still,
       walkVars, sseVars, replyVars, saveVars

\* A registered provider is called.
LEMMA CallProviderMoves ==
  ASSUME TypeOK, NEW r \in Request, CallProvider(r)
  PROVE  /\ Moves(r, "walk", "calling")
         /\ ~ChainEnds(r) /\ Entry(r)[1] \in Registered
         /\ SameWalk(r) /\ SameSse(r) /\ SameReply(r) /\ SameSave(r)
         /\ \A q \in Request \ {r} : Still(q)
BY DEF TypeOK, CallProvider, Go, Moves, SameWalk, SameSse, SameReply, SameRows, SameSave, Still,
       walkVars, sseVars, replyVars, saveVars

\* An exception becomes a 500.
LEMMA CallRaisesMoves ==
  ASSUME TypeOK, NEW r \in Request, CallRaises(r)
  PROVE  /\ Moves(r, "calling", "respond")
         /\ response'[r] = [status |-> 500, event |-> None]
         /\ http'[r] = http[r] /\ sent'[r] = sent[r]
         /\ SameWalk(r) /\ SameSse(r) /\ SameSave(r)
         /\ \A q \in Request \ {r} : Still(q)
BY DEF TypeOK, CallRaises, Go, Moves, SameWalk, SameSse, SameReply, SameRows, SameSave, Still,
       walkVars, sseVars, replyVars, saveVars

\* A JSON answer.
LEMMA CallAnswersMoves ==
  ASSUME TypeOK, NEW r \in Request, CallAnswers(r)
  PROVE  /\ Moves(r, "calling", "track") /\ ~Stream(r)
         /\ \E u \in Spent :
              /\ stash'[r] = JsonOutcome(body[r], Entry(r), u)
              /\ response'[r] = [status |-> 200, event |-> JsonCompletion(body[r], Entry(r), u)]
         /\ http'[r] = http[r] /\ sent'[r] = sent[r] /\ saving'[r] = saving[r]
         /\ SameWalk(r) /\ SameSse(r) /\ SameRows(r)
         /\ \A q \in Request \ {r} : Still(q)
BY DEF TypeOK, CallAnswers, Go, Moves, SameWalk, SameSse, SameReply, SameRows, SameSave, Still,
       walkVars, sseVars, replyVars, saveVars

\* The first chunk of a stream.
LEMMA FirstChunkMoves ==
  ASSUME TypeOK, NEW r \in Request, FirstChunk(r)
  PROVE  /\ Moves(r, "calling", "track") /\ Stream(r)
         /\ chunk'[r] \in Chunk /\ errored'[r] = errored[r]
         /\ response'[r] = [status |-> 200, event |-> None]
         /\ http'[r] = http[r] /\ sent'[r] = sent[r]
         /\ SameWalk(r) /\ SameSave(r)
         /\ \A q \in Request \ {r} : Still(q)
BY DEF TypeOK, FirstChunk, Go, Moves, SameWalk, SameSse, SameReply, SameRows, SameSave, Still,
       walkVars, sseVars, replyVars, saveVars

\* The chain is exhausted.
LEMMA ExhaustedMoves ==
  ASSUME TypeOK, NEW r \in Request, Exhausted(r)
  PROVE  /\ Moves(r, "walk", IF Stream(r) THEN "log" ELSE "track") /\ ChainEnds(r)
         /\ stash'[r] = ErrorStash(body[r])
         /\ saving'[r] = IF Stream(r) THEN [by |-> "route", outcome |-> ErrorOutcome(body[r])] ELSE None
         /\ response'[r] = [status |-> 502, event |-> None]
         /\ http'[r] = http[r] /\ sent'[r] = sent[r]
         /\ SameWalk(r) /\ SameSse(r) /\ SameRows(r)
         /\ \A q \in Request \ {r} : Still(q)
BY DEF TypeOK, Exhausted, Go, Moves, SameWalk, SameSse, SameReply, SameRows, SameSave, Still,
       walkVars, sseVars, replyVars, saveVars

\* There is nothing to persist.
LEMMA NothingToTrackMoves ==
  ASSUME TypeOK, NEW r \in Request, NothingToTrack(r)
  PROVE  /\ Moves(r, "track", "respond") /\ stash[r] = None
         /\ SameWalk(r) /\ SameSse(r) /\ SameReply(r) /\ SameSave(r)
         /\ \A q \in Request \ {r} : Still(q)
BY DEF TypeOK, NothingToTrack, Go, Moves, SameWalk, SameSse, SameReply, SameRows, SameSave, Still,
       walkVars, sseVars, replyVars, saveVars

\* The middleware persists an outcome.
LEMMA TrackOutcomeMoves ==
  ASSUME TypeOK, NEW r \in Request, TrackOutcome(r)
  PROVE  /\ Moves(r, "track", "log") /\ stash[r] # None
         /\ saving'[r] = [by |-> "middleware", outcome |-> stash[r]] /\ stash'[r] = stash[r]
         /\ SameWalk(r) /\ SameSse(r) /\ SameReply(r) /\ SameRows(r)
         /\ \A q \in Request \ {r} : Still(q)
BY DEF TypeOK, TrackOutcome, Go, Moves, SameWalk, SameSse, SameReply, SameRows, SameSave, Still,
       walkVars, sseVars, replyVars, saveVars

\* The response goes out.
LEMMA RespondMoves ==
  ASSUME TypeOK, NEW r \in Request, Respond(r)
  PROVE  /\ Moves(r, "respond", IF Stream(r) /\ response[r].status = 200 THEN "stream" ELSE "done")
         /\ http'[r] = response[r].status /\ response'[r] = response[r]
         /\ Sends(r, response[r].event # None, response[r].event)
         /\ SameWalk(r) /\ SameSse(r) /\ SameSave(r)
         /\ \A q \in Request \ {r} : Still(q)
BY DEF TypeOK, Respond, Go, Moves, SameWalk, SameSse, SameReply, SameRows, SameSave, Still,
       walkVars, sseVars, replyVars, saveVars, Send, SendIf, Sends

\* The delta of a chunk goes out.
LEMMA EmitChunkMoves ==
  ASSUME TypeOK, NEW r \in Request, EmitChunk(r)
  PROVE  /\ Moves(r, "stream", IF chunk[r].final THEN "closing" ELSE "pulling")
         /\ Sends(r, chunk[r].delta, DeltaEvent(r))
         /\ response'[r] = response[r] /\ http'[r] = http[r]
         /\ SameWalk(r) /\ SameSse(r) /\ SameSave(r)
         /\ \A q \in Request \ {r} : Still(q)
BY DEF TypeOK, EmitChunk, Go, Moves, SameWalk, SameSse, SameReply, SameRows, SameSave, Still,
       walkVars, sseVars, replyVars, saveVars, Send, SendIf, Sends

\* Another chunk arrives.
LEMMA NextChunkMoves ==
  ASSUME TypeOK, NEW r \in Request, NextChunk(r)
  PROVE  /\ Moves(r, "pulling", "stream")
         /\ chunk'[r] \in Chunk /\ errored'[r] = errored[r]
         /\ SameWalk(r) /\ SameReply(r) /\ SameSave(r)
         /\ \A q \in Request \ {r} : Still(q)
BY DEF TypeOK, NextChunk, Go, Moves, SameWalk, SameSse, SameReply, SameRows, SameSave, Still,
       walkVars, sseVars, replyVars, saveVars

\* The stream ends.
LEMMA StreamStopsMoves ==
  ASSUME TypeOK, NEW r \in Request, StreamStops(r)
  PROVE  /\ Moves(r, "pulling", "closing")
         /\ SameWalk(r) /\ SameSse(r) /\ SameReply(r) /\ SameSave(r)
         /\ \A q \in Request \ {r} : Still(q)
BY DEF TypeOK, StreamStops, Go, Moves, SameWalk, SameSse, SameReply, SameRows, SameSave, Still,
       walkVars, sseVars, replyVars, saveVars

\* The stream fails.
LEMMA StreamFailsMoves ==
  ASSUME TypeOK, NEW r \in Request, StreamFails(r)
  PROVE  /\ Moves(r, "pulling", "closing")
         /\ errored'[r] = TRUE /\ chunk'[r] = chunk[r]
         /\ Sends(r, TRUE, [type |-> "error"])
         /\ response'[r] = response[r] /\ http'[r] = http[r]
         /\ SameWalk(r) /\ SameSave(r)
         /\ \A q \in Request \ {r} : Still(q)
BY DEF TypeOK, StreamFails, Go, Moves, SameWalk, SameSse, SameReply, SameRows, SameSave, Still,
       walkVars, sseVars, replyVars, saveVars, Send, SendIf, Sends

\* The usage event goes out.
LEMMA EmitUsageMoves ==
  ASSUME TypeOK, NEW r \in Request, EmitUsage(r)
  PROVE  /\ Moves(r, "closing", "ending")
         /\ Sends(r, FinalUsage(r) # None, UsageEvent(r))
         /\ response'[r] = response[r] /\ http'[r] = http[r]
         /\ SameWalk(r) /\ SameSse(r) /\ SameSave(r)
         /\ \A q \in Request \ {r} : Still(q)
BY DEF TypeOK, EmitUsage, Go, Moves, SameWalk, SameSse, SameReply, SameRows, SameSave, Still,
       walkVars, sseVars, replyVars, saveVars, Send, SendIf, Sends

\* [DONE] goes out and the generator persists.
LEMMA EmitDoneMoves ==
  ASSUME TypeOK, NEW r \in Request, EmitDone(r)
  PROVE  /\ Moves(r, "ending", "log")
         /\ Sends(r, TRUE, [type |-> "done"])
         /\ saving'[r] = [by |-> "generator", outcome |->
              StreamOutcome(body[r], Entry(r)[1], FinalUsage(r), errored[r])]
         /\ response'[r] = response[r] /\ http'[r] = http[r] /\ stash'[r] = stash[r]
         /\ SameWalk(r) /\ SameSse(r) /\ SameRows(r)
         /\ \A q \in Request \ {r} : Still(q)
BY DEF TypeOK, EmitDone, Go, Moves, SameWalk, SameSse, SameReply, SameRows, SameSave, Still,
       walkVars, sseVars, replyVars, saveVars, Send, SendIf, Sends

\* A request row is all there is to write.
LEMMA LogOnlyMoves ==
  ASSUME TypeOK, NEW r \in Request, LogOnly(r)
  PROVE  /\ Moves(r, "log", AfterSave(saving[r].by)) /\ saving[r].outcome.usage = None
         /\ logs'[r] = Append(logs[r], LogRow(saving[r].outcome))
         /\ saving'[r] = None /\ stash'[r] = stash[r] /\ usages'[r] = usages[r] /\ warned'[r] = warned[r]
         /\ SameWalk(r) /\ SameSse(r) /\ SameReply(r)
         /\ \A q \in Request \ {r} : Still(q)
BY DEF TypeOK, LogOnly, Saved, AddLog, Go, Moves, SameWalk, SameSse, SameReply, SameRows, SameSave, Still,
       walkVars, sseVars, replyVars, saveVars

\* The request row is committed, the usage row is due.
LEMMA LogCommitsMoves ==
  ASSUME TypeOK, NEW r \in Request, LogCommits(r)
  PROVE  /\ Moves(r, "log", "usage") /\ saving[r].outcome.usage # None
         /\ logs'[r] = Append(logs[r], LogRow(saving[r].outcome))
         /\ saving'[r] = saving[r] /\ stash'[r] = stash[r] /\ usages'[r] = usages[r] /\ warned'[r] = warned[r]
         /\ SameWalk(r) /\ SameSse(r) /\ SameReply(r)
         /\ \A q \in Request \ {r} : Still(q)
BY DEF TypeOK, LogCommits, AddLog, Go, Moves, SameWalk, SameSse, SameReply, SameRows, SameSave, Still,
       walkVars, sseVars, replyVars, saveVars

\* The usage row is committed.
LEMMA UsageCommitsMoves ==
  ASSUME TypeOK, NEW r \in Request, UsageCommits(r)
  PROVE  /\ Moves(r, "usage", AfterSave(saving[r].by))
         /\ usages'[r] = Append(usages[r], UsageRow(saving[r].outcome, Len(logs[r])))
         /\ saving'[r] = None /\ stash'[r] = stash[r] /\ logs'[r] = logs[r] /\ warned'[r] = warned[r]
         /\ SameWalk(r) /\ SameSse(r) /\ SameReply(r)
         /\ \A q \in Request \ {r} : Still(q)
BY DEF TypeOK, UsageCommits, Saved, AddUsage, Go, Moves, SameWalk, SameSse, SameReply, SameRows, SameSave, Still,
       walkVars, sseVars, replyVars, saveVars

\* Persisting the request row fails.
LEMMA LogFailsMoves ==
  ASSUME TypeOK, NEW r \in Request, LogFails(r)
  PROVE  /\ Moves(r, "log", AfterSave(saving[r].by))
         /\ logs'[r] \in {logs[r], Append(logs[r], LogRow(saving[r].outcome))}
         /\ saving'[r] = None /\ stash'[r] = stash[r] /\ usages'[r] = usages[r] /\ warned'[r] = TRUE
         /\ SameWalk(r) /\ SameSse(r) /\ SameReply(r)
         /\ \A q \in Request \ {r} : Still(q)
BY DEF TypeOK, LogFails, Saved, AddLog, Warn, Go, Moves, SameWalk, SameSse, SameReply, SameRows, SameSave, Still,
       walkVars, sseVars, replyVars, saveVars

\* Persisting the usage row fails.
LEMMA UsageFailsMoves ==
  ASSUME TypeOK, NEW r \in Request, UsageFails(r)
  PROVE  /\ Moves(r, "usage", AfterSave(saving[r].by))
         /\ usages'[r] \in {usages[r], Append(usages[r], UsageRow(saving[r].outcome, Len(logs[r])))}
         /\ saving'[r] = None /\ stash'[r] = stash[r] /\ logs'[r] = logs[r] /\ warned'[r] = TRUE
         /\ SameWalk(r) /\ SameSse(r) /\ SameReply(r)
         /\ \A q \in Request \ {r} : Still(q)
BY DEF TypeOK, UsageFails, Saved, AddUsage, Warn, Go, Moves, SameWalk, SameSse, SameReply, SameRows, SameSave, Still,
       walkVars, sseVars, replyVars, saveVars

\* The generator is cancelled.
LEMMA DisconnectMoves ==
  ASSUME TypeOK, NEW r \in Request, Disconnect(r)
  PROVE  /\ \/ phase[r] \in {"stream", "pulling", "closing", "ending"}
            \/ phase[r] \in {"log", "usage"} /\ saving[r].by = "generator"
         /\ phase'[r] = "cancelled"
         /\ SameWalk(r) /\ SameSse(r) /\ SameReply(r) /\ SameSave(r)
         /\ \A q \in Request \ {r} : Still(q)
BY DEF TypeOK, Disconnect, Go, Moves, SameWalk, SameSse, SameReply, SameRows, SameSave, Still,
       walkVars, sseVars, replyVars, saveVars

-----------------------------------------------------------------------------
(* What a request has been through.                                        *)

\* The route has decided nothing yet.
Undecided == {"idle", "walk", "calling"}

\* pos and attempts tell the same story, in the order of the chain.
Walked(r) ==
  /\ phase[r] = "idle" => attempts[r] = <<>>
  /\ phase[r] \in Undecided => response[r] = None
  /\ phase[r] = "calling" => Entry(r)[1] \in Registered
  /\ phase[r] # "idle" =>
       /\ pos[r] <= Len(Chain(r)) + 1
       /\ Len(attempts[r]) = pos[r] - 1
       /\ \A i \in DOMAIN attempts[r] :
            /\ attempts[r][i].target = Chain(r)[i]
            /\ attempts[r][i].why = "unregistered"
                 <=> Chain(r)[i][1] \notin Registered
  /\ response[r] # None /\ response[r].status = 502 =>
       pos[r] = Len(Chain(r)) + 1

\* There is a response, and somebody is still there to give it out.
Answered(r) == phase[r] \notin Undecided \cup {"cancelled", "lost"}

\* Nothing has been sent yet.
Silent(r) ==
  \/ phase[r] \in Undecided \cup {"track", "respond"}
  \/ phase[r] \in {"log", "usage"} /\ saving[r].by # "generator"

\* The generator has been started and [DONE] is not behind it, or is.
Telling(r) == phase[r] \in {"stream", "pulling", "closing", "ending"}
Finished(r) == \/ phase[r] \in {"log", "usage"} /\ saving[r].by = "generator"
               \/ phase[r] = "done" /\ StreamAnswer(r)

\* The client was sent n deltas, then an error, a usage or no event, then
\* [DONE] or not yet.
Tale(r, n, event, done) ==
  /\ Len(sent[r]) = n + (IF event = "none" THEN 0 ELSE 1) + (IF done THEN 1 ELSE 0)
  /\ \A i \in 1 .. n : sent[r][i] = DeltaEvent(r)
  /\ event = "error" => sent[r][n + 1] = [type |-> "error"]
  /\ event = "usage" => sent[r][n + 1] = UsageEvent(r)
  /\ done => sent[r][Len(sent[r])] = [type |-> "done"]

Tells(r, event, done) == \E n \in 0 .. Len(sent[r]) : Tale(r, n, event, done)

\* The event that follows the text of a stream.
Closing(r) == IF errored[r] THEN "error"
              ELSE IF FinalUsage(r) # None THEN "usage" ELSE "none"

Heard(r) ==
  /\ Silent(r) => http[r] = 0 /\ sent[r] = <<>> /\ ~errored[r]
  /\ Telling(r) \/ Finished(r) \/ phase[r] = "cancelled" =>
       StreamAnswer(r) /\ http[r] = 200 /\ Streams(r)
  /\ phase[r] = "done" => response[r] \in Answer /\ http[r] = response[r].status
  /\ phase[r] = "pulling" \/ errored[r] => ~chunk[r].final
  /\ phase[r] \in {"stream", "pulling"} => ~errored[r] /\ Tells(r, "none", FALSE)
  /\ phase[r] = "closing" =>
       Tells(r, IF errored[r] THEN "error" ELSE "none", FALSE)
  /\ phase[r] = "ending" => Tells(r, Closing(r), FALSE)
  /\ Finished(r) => Tells(r, Closing(r), TRUE)
  /\ phase[r] \in {"cancelled", "lost"} =>
       \/ sent[r] = <<>>
       \/ /\ StreamAnswer(r) /\ response[r] \in Answer
          /\ \E event \in {"none", "error", "usage"}, done \in BOOLEAN :
               Tells(r, event, done)
  /\ Answered(r) /\ response[r].event # None =>
       ~Stream(r) /\ response[r].status = 200
  /\ phase[r] = "done" /\ ~StreamAnswer(r) =>
       sent[r] = IF response[r].event = None THEN <<>> ELSE <<response[r].event>>

\* What is to be recorded of a request, given what it was answered.
Due(r) ==
  IF response[r].status = 502 THEN ErrorOutcome(body[r])
  ELSE IF Stream(r)
       THEN StreamOutcome(body[r], Entry(r)[1], FinalUsage(r), errored[r])
       ELSE JsonOutcome(body[r], Entry(r), response[r].event.usage)

Recorded(r) ==
  warned[r] \/ /\ Len(logs[r]) = 1
               /\ usages[r] # <<>> <=> Due(r).usage # None

\* The rows agree with what is due, whatever happens next.
Agrees(r) ==
  /\ response[r] # None /\ ~Stream(r) /\ response[r].status = 200 =>
       /\ pos[r] \in 1 .. Len(Chain(r))
       /\ \E u \in Spent : response[r].event = JsonCompletion(body[r], Entry(r), u)
  /\ response[r] = None \/ response[r].status = 500 => NoRows(r)
  /\ \A i \in DOMAIN logs[r] : logs[r][i] = LogRow(Due(r))
  /\ \A i \in DOMAIN usages[r] :
       usages[r][i] = UsageRow(Due(r), 1) /\ Due(r).usage # None

\* What is due is with the one who persists it, or persisted.
Entrusted(r) ==
  /\ phase[r] = "track" =>
       /\ response[r].status # 500
       /\ IF Stream(r) THEN response[r].status = 502 => Recorded(r)
                       ELSE stash[r] = Due(r)
  /\ phase[r] \in {"log", "usage"} =>
       /\ saving[r].outcome = Due(r)
       /\ response[r].status # 500
       /\ saving[r].by = "route" => Stream(r)
  /\ phase[r] \in {"respond", "done"} =>
       \/ response[r].status = 500 \/ Recorded(r)
       \/ phase[r] = "respond" /\ StreamAnswer(r)

Written(r) == Agrees(r) /\ Entrusted(r)

-----------------------------------------------------------------------------
(* Who moves.                                                              *)

\* The crash hits a request.
Dies(q) ==
  /\ phase[q] \in InFlight /\ phase'[q] = "lost"
  /\ SameWalk(q) /\ SameSse(q) /\ SameReply(q) /\ SameSave(q)

\* A step of one request leaves the others as they are.
LEMMA OthersStill ==
  ASSUME TypeOK, NEW r \in Request, Step(r), NEW q \in Request \ {r}
  PROVE  Still(q)
<1>1. ASSUME NEW from, NEW why, TryNext(r, from, why) PROVE Still(q)
  BY <1>1, TryNextMoves
<1>2. CASE SkipUnregistered(r) \/ CallFails(r) \/ StreamEmpty(r)
  BY <1>1, <1>2 DEF SkipUnregistered, CallFails, StreamEmpty
<1>3. CASE Accept(r) \/ CallProvider(r) \/ Respond(r)
  BY <1>3, AcceptMoves, CallProviderMoves, RespondMoves
<1>4. CASE CostTracking(r)
  BY <1>4, NothingToTrackMoves, TrackOutcomeMoves DEF CostTracking
<1>5. CASE Exhausted(r)
  BY <1>5, ExhaustedMoves
<1>6. CASE EmitChunk(r) \/ EmitUsage(r) \/ EmitDone(r) \/ Disconnect(r)
  BY <1>6, EmitChunkMoves, EmitUsageMoves, EmitDoneMoves, DisconnectMoves
<1>7. CASE NextChunk(r) \/ StreamStops(r) \/ StreamFails(r)
  BY <1>7, NextChunkMoves, StreamStopsMoves, StreamFailsMoves
<1>8. CASE CallAnswers(r)
  BY <1>8, CallAnswersMoves
<1>9. CASE FirstChunk(r)
  BY <1>9, FirstChunkMoves
<1>10. CASE CallRaises(r)
  BY <1>10, CallRaisesMoves
<1>11. CASE Database(r)
  BY <1>11, LogOnlyMoves, LogCommitsMoves, UsageCommitsMoves, LogFailsMoves,
     UsageFailsMoves DEF Database
<1> QED
  BY <1>2, <1>3, <1>4, <1>5, <1>6, <1>7, <1>8, <1>9, <1>10, <1>11
     DEF Step, Gateway, Upstream

\* A request stands still, dies with the process or takes a step of its own.
LEMMA Who ==
  ASSUME TypeOK, [Next]_vars, NEW q \in Request
  PROVE  Still(q) \/ Dies(q) \/ Step(q)
<1>1. ASSUME NEW r \in Request, Step(r), r # q PROVE Still(q)
  BY <1>1, OthersStill
<1> USE DEF SameWalk, SameSse, SameReply, SameRows, SameSave,
           walkVars, sseVars, replyVars, saveVars
<1>2. CASE Crash
  BY <1>2 DEF TypeOK, Crash, Still, Dies
<1>3. CASE UNCHANGED vars
  BY <1>3 DEF vars, Still
<1> QED
  BY <1>1, <1>2, <1>3 DEF Next, Quiet

\* What is decided stays decided: the walk and the response change while the
\* route is at work, and never later.
Decided(q) ==
  /\ phase[q] \notin Undecided /\ phase'[q] \notin Undecided
  /\ SameWalk(q) /\ response'[q] = response[q]

\* A step is one that may change the outcome, or it leaves it alone.
LEMMA DecidedOnce ==
  ASSUME IInv, NEW q \in Request, Step(q)
  PROVE  \/ Decided(q)
         \/ Accept(q) \/ CallProvider(q) \/ Exhausted(q)
         \/ CallRaises(q) \/ CallAnswers(q) \/ FirstChunk(q)
         \/ SkipUnregistered(q) \/ CallFails(q) \/ StreamEmpty(q)
<1>0. TypeOK
  BY DEF IInv
<1> USE DEF Decided, Undecided, SameReply, Moves
<1>1. CASE NothingToTrack(q) \/ TrackOutcome(q) \/ Respond(q)
  BY <1>0, <1>1, NothingToTrackMoves, TrackOutcomeMoves, RespondMoves
<1>2. CASE EmitChunk(q) \/ NextChunk(q) \/ StreamStops(q) \/ StreamFails(q)
  BY <1>0, <1>2, EmitChunkMoves, NextChunkMoves, StreamStopsMoves,
     StreamFailsMoves, ZenonT(60)
<1>3. CASE EmitUsage(q) \/ EmitDone(q) \/ Disconnect(q)
  BY <1>0, <1>3, EmitUsageMoves, EmitDoneMoves, DisconnectMoves
<1>4. CASE Database(q)
  <2>1. phase[q] \in {"log", "usage"}
    BY <1>0, <1>4, LogOnlyMoves, LogCommitsMoves, UsageCommitsMoves,
       LogFailsMoves, UsageFailsMoves DEF Database
  <2>2. AfterSave(saving[q].by) \in {"respond", "track", "done"}
    BY <2>1 DEF IInv, Shape, Saving, Saver, AfterSave
  <2> QED
    BY <1>0, <1>4, <2>2, LogOnlyMoves, LogCommitsMoves, UsageCommitsMoves,
       LogFailsMoves, UsageFailsMoves, ZenonT(60) DEF Database
<1> QED
  BY <1>1, <1>2, <1>3, <1>4 DEF Step, Gateway, Upstream, CostTracking

-----------------------------------------------------------------------------
(* The walk.                                                               *)

\* An attempt on record: the walk grows by the entry it was at.
LEMMA WalkedOn ==
  ASSUME IInv, NEW q \in Request, Walked(q), NEW from \in {"walk", "calling"},
         NEW why, TryNext(q, from, why), pos[q] \in 1 .. Len(Chain(q)),
         why = "unregistered" <=> Entry(q)[1] \notin Registered
  PROVE  Walked(q)'
<1>0. TypeOK
  BY DEF IInv
<1>1. /\ phase[q] = from /\ phase'[q] = "walk" /\ response'[q] = response[q]
      /\ body'[q] = body[q] /\ pos'[q] = pos[q] + 1
      /\ attempts'[q] = Append(attempts[q], [target |-> Entry(q), why |-> why])
  BY <1>0, TryNextMoves DEF Moves, SameReply
<1>2. Chain(q)' = Chain(q)
  BY <1>1 DEF Chain
<1>3. /\ attempts[q] \in Seq(Attempt) /\ pos[q] \in Nat
      /\ Len(attempts[q]) = pos[q] - 1 /\ response[q] = None
  BY <1>0, <1>1 DEF TypeOK, Walked, Undecided
<1>4. Len(attempts'[q]) = pos'[q] - 1
  BY <1>1, <1>3
<1>5. ASSUME NEW i \in DOMAIN attempts'[q]
      PROVE  /\ attempts'[q][i].target = Chain(q)[i]
             /\ attempts'[q][i].why = "unregistered"
                  <=> Chain(q)[i][1] \notin Registered
  <2>1. CASE i = pos[q]
    BY <1>1, <1>3, <2>1 DEF Entry
  <2>2. CASE i # pos[q]
    <3>1. i \in DOMAIN attempts[q] /\ attempts'[q][i] = attempts[q][i]
      BY <1>1, <1>3, <2>2
    <3> QED
      BY <1>1, <3>1 DEF Walked
  <2> QED
    BY <2>1, <2>2
<1>6. Len(Chain(q)) \in Nat
  OBVIOUS
<1> QED
  BY <1>1, <1>2, <1>3, <1>4, <1>5, <1>6 DEF Walked

\* Every step keeps Walked.
LEMMA WalkedStep ==
  ASSUME IInv, [Next]_vars, NEW q \in Request, Walked(q)
  PROVE  Walked(q)'
<1>0. TypeOK
  BY DEF IInv
<1>1. CASE Still(q)
  BY <1>1 DEF Still, SameWalk, SameReply, Walked, Chain, Entry
<1>2. CASE Decided(q) \/ Dies(q)
  BY <1>2 DEF Decided, Dies, SameWalk, SameReply, Walked, Chain, Entry, Undecided,
     InFlight
<1>3. CASE Accept(q)
  <2>1. /\ phase[q] = "idle" /\ phase'[q] = "walk" /\ pos'[q] = 1
        /\ body'[q] \in Body /\ attempts'[q] = <<>> /\ response'[q] = None
    BY <1>0, <1>3, AcceptMoves DEF Moves, SameReply, Walked, Undecided
  <2>2. Len(Chain(q)') >= 1 /\ Len(Chain(q)') \in Nat
    BY <2>1, ChainType DEF Chain
  <2> QED
    BY <2>1, <2>2 DEF Walked
<1>4. CASE CallProvider(q)
  BY <1>0, <1>4, CallProviderMoves DEF Moves, SameWalk, SameReply, Walked,
     Undecided, Chain, Entry
<1>5. CASE Exhausted(q)
  <2>1. /\ phase[q] = "walk" /\ phase'[q] \in {"log", "track"}
        /\ SameWalk(q) /\ pos[q] > Len(Chain(q))
    BY <1>0, <1>5, ExhaustedMoves, ZenonT(60) DEF Moves, ChainEnds
  <2>2. pos[q] = Len(Chain(q)) + 1
    BY <1>0, <2>1 DEF Walked, TypeOK
  <2> QED
    BY <2>1, <2>2 DEF SameWalk, Walked, Undecided, Chain
<1>6. CASE CallRaises(q) \/ CallAnswers(q) \/ FirstChunk(q)
  <2> DEFINE Answers == /\ phase[q] = "calling" /\ phase'[q] \in {"track", "respond"}
                        /\ SameWalk(q) /\ response'[q].status \in {200, 500}
  <2>1. Answers
    <3>1. CASE CallRaises(q)
      BY <1>0, <3>1, CallRaisesMoves DEF Moves
    <3>2. CASE CallAnswers(q)
      <4>1. /\ phase[q] = "calling" /\ phase'[q] = "track" /\ SameWalk(q)
            /\ \E e : response'[q] = [status |-> 200, event |-> e]
        BY <1>0, <3>2, CallAnswersMoves, ZenonT(60) DEF Moves
      <4> QED
        BY <4>1
    <3>3. CASE FirstChunk(q)
      BY <1>0, <3>3, FirstChunkMoves DEF Moves
    <3> QED
      BY <1>6, <3>1, <3>2, <3>3
  <2> QED
    BY <2>1 DEF SameWalk, Walked, Undecided, Chain
<1>7. CASE SkipUnregistered(q)
  <2>1. /\ TryNext(q, "walk", "unregistered") /\ phase[q] = "walk"
        /\ ~ChainEnds(q) /\ Entry(q)[1] \notin Registered
    BY <1>7 DEF SkipUnregistered
  <2>2. pos[q] \in 1 .. Len(Chain(q))
    BY <2>1, ChainType DEF IInv, TypeOK, Shape, ChainEnds, Chain
  <2> QED
    BY <2>1, <2>2, WalkedOn
<1>8. CASE CallFails(q) \/ StreamEmpty(q)
  <2>1. PICK why \in {"failed", "empty"} : TryNext(q, "calling", why)
    BY <1>8 DEF CallFails, StreamEmpty
  <2>2. phase[q] = "calling"
    BY <1>0, <2>1, TryNextMoves DEF Moves
  <2>3. pos[q] \in 1 .. Len(Chain(q)) /\ Entry(q)[1] \in Registered
    BY <2>2 DEF IInv, Shape, Walked
  <2> QED
    BY <2>1, <2>3, WalkedOn
<1> QED
  BY <1>0, <1>1, <1>2, <1>3, <1>4, <1>5, <1>6, <1>7, <1>8, Who, DecidedOnce

-----------------------------------------------------------------------------
(* What the client hears.                                                  *)

\* The text of a stream is named the same before and after a step.
LEMMA SameNames ==
  ASSUME NEW q \in Request, SameWalk(q)
  PROVE  /\ Chain(q)' = Chain(q) /\ Entry(q)' = Entry(q) /\ Stream(q)' = Stream(q)
         /\ DeltaEvent(q)' = DeltaEvent(q)
         /\ response'[q] = response[q] => StreamAnswer(q)' = StreamAnswer(q)
         /\ chunk'[q] = chunk[q] => /\ FinalUsage(q)' = FinalUsage(q)
                                   /\ UsageEvent(q)' = UsageEvent(q)
                                   /\ Streams(q)' = Streams(q)
BY DEF SameWalk, Chain, Entry, Stream, DeltaEvent, StreamAnswer, FinalUsage,
       UsageEvent, Streams

\* A tale is not changed by a step that sends nothing.
LEMMA TellsStill ==
  ASSUME NEW q \in Request, NEW event, NEW done, SameWalk(q),
         chunk'[q] = chunk[q] \/ event # "usage", sent'[q] = sent[q],
         Tells(q, event, done)
  PROVE  Tells(q, event, done)'
<1>1. /\ DeltaEvent(q)' = DeltaEvent(q)
      /\ event = "usage" => UsageEvent(q)' = UsageEvent(q)
  BY SameNames
<1>2. PICK n \in 0 .. Len(sent[q]) : Tale(q, n, event, done)
  BY DEF Tells
<1>3. Tale(q, n, event, done)'
  BY <1>1, <1>2 DEF Tale
<1> QED
  BY <1>2, <1>3 DEF Tells

\* A tale that is not over goes on with one more event.
LEMMA TellsOn ==
  ASSUME TypeOK, NEW q \in Request, SameWalk(q), chunk'[q] = chunk[q],
         NEW x, sent'[q] = Append(sent[q], x)
  PROVE  /\ Tells(q, "none", FALSE) =>
              /\ x = DeltaEvent(q) => Tells(q, "none", FALSE)'
              /\ x = [type |-> "error"] => Tells(q, "error", FALSE)'
              /\ x = UsageEvent(q) => Tells(q, "usage", FALSE)'
         /\ \A event \in {"none", "error", "usage"} :
              Tells(q, event, FALSE) /\ x = [type |-> "done"] =>
                Tells(q, event, TRUE)'
<1>1. DeltaEvent(q)' = DeltaEvent(q) /\ UsageEvent(q)' = UsageEvent(q)
  BY SameNames
<1>2. sent[q] \in Seq(Event)
  BY DEF TypeOK
<1>3. /\ Len(sent[q]) \in Nat /\ Len(sent'[q]) = Len(sent[q]) + 1
      /\ sent'[q][Len(sent[q]) + 1] = x
      /\ \A i \in 1 .. Len(sent[q]) : sent'[q][i] = sent[q][i]
  BY <1>2
<1>4. ASSUME Tells(q, "none", FALSE)
      PROVE  /\ x = DeltaEvent(q) => Tells(q, "none", FALSE)'
             /\ x = [type |-> "error"] => Tells(q, "error", FALSE)'
             /\ x = UsageEvent(q) => Tells(q, "usage", FALSE)'
  <2>1. PICK n \in 0 .. Len(sent[q]) : Tale(q, n, "none", FALSE)
    BY <1>4 DEF Tells
  <2>2. n = Len(sent[q])
    BY <1>3, <2>1 DEF Tale
  <2>3. x = DeltaEvent(q) => Tale(q, n + 1, "none", FALSE)'
    BY <1>1, <1>3, <2>1, <2>2 DEF Tale
  <2>4. x = [type |-> "error"] => Tale(q, n, "error", FALSE)'
    BY <1>1, <1>3, <2>1, <2>2 DEF Tale
  <2>5. x = UsageEvent(q) => Tale(q, n, "usage", FALSE)'
    BY <1>1, <1>3, <2>1, <2>2 DEF Tale
  <2>6. n \in 0 .. Len(sent'[q]) /\ n + 1 \in 0 .. Len(sent'[q])
    BY <1>3, <2>2
  <2> QED
    BY <2>3, <2>4, <2>5, <2>6 DEF Tells
<1>5. ASSUME NEW event \in {"none", "error", "usage"}, Tells(q, event, FALSE),
             x = [type |-> "done"]
      PROVE  Tells(q, event, TRUE)'
  <2>1. PICK n \in 0 .. Len(sent[q]) : Tale(q, n, event, FALSE)
    BY <1>5 DEF Tells
  <2>2. n \in 0 .. Len(sent'[q])
    BY <1>3
  <2>3. Tale(q, n, event, TRUE)'
    BY <1>1, <1>3, <1>5, <2>1 DEF Tale
  <2> QED
    BY <2>2, <2>3 DEF Tells
<1> QED
  BY <1>4, <1>5

\* Before the response is given out, steps say nothing.
LEMMA StaysSilent ==
  ASSUME IInv', NEW q \in Request, Heard(q), Silent(q), Silent(q)',
         http'[q] = http[q], sent'[q] = sent[q], errored'[q] = errored[q],
         Answered(q)' /\ response'[q].event # None =>
           ~Stream(q)' /\ response'[q].status = 200
  PROVE  Heard(q)'
<1>1. http'[q] = 0 /\ sent'[q] = <<>> /\ ~errored'[q]
  BY DEF Heard
<1>2. ~Telling(q)' /\ ~Finished(q)' /\ phase'[q] \notin {"cancelled", "done", "lost"}
      /\ phase'[q] \notin {"stream", "pulling", "closing", "ending"}
  BY DEF Silent, Telling, Finished, Undecided
<1> QED
  BY <1>1, <1>2 DEF Heard

\* A request that dies, or whose generator is cancelled, keeps its tale.
LEMMA Interrupted ==
  ASSUME IInv, NEW q \in Request, Heard(q),
         \/ Silent(q) /\ phase'[q] = "lost"
         \/ (Telling(q) \/ Finished(q)) /\ phase'[q] \in {"cancelled", "lost"},
         SameWalk(q), SameSse(q), SameReply(q), phase[q] # "done"
  PROVE  Heard(q)'
<1> USE DEF SameSse, SameReply
<1>1. StreamAnswer(q)' = StreamAnswer(q) /\ Stream(q)' = Stream(q) /\ Streams(q)' = Streams(q)
  BY SameNames
<1>2. /\ ~Telling(q)' /\ ~Finished(q)' /\ ~Silent(q)' /\ phase'[q] # "done"
      /\ phase'[q] \notin {"stream", "pulling", "closing", "ending"}
  BY DEF Telling, Finished, Silent, Undecided, Answered
<1>3. phase'[q] = "cancelled" => StreamAnswer(q)' /\ http'[q] = 200 /\ Streams(q)'
  BY <1>1 DEF Heard, Silent, Telling, Finished, Undecided
<1>4. \/ sent'[q] = <<>>
      \/ /\ StreamAnswer(q)' /\ response'[q] \in Answer
         /\ \E event \in {"none", "error", "usage"}, done \in BOOLEAN :
              Tells(q, event, done)'
  <2>1. CASE Silent(q)
    BY <2>1 DEF Heard
  <2>2. CASE Telling(q) \/ Finished(q)
    <3>1. StreamAnswer(q) /\ response[q] \in Answer
      BY <2>2 DEF IInv, Shape, Heard, Telling, Finished
    <3>2. \E event \in {"none", "error", "usage"}, done \in BOOLEAN :
            Tells(q, event, done)
      BY <2>2, ZenonT(60) DEF Heard, Telling, Finished, Closing
    <3> QED
      BY <1>1, <3>1, <3>2, TellsStill
  <2> QED
    BY <2>1, <2>2
<1>5. errored'[q] => ~chunk'[q].final
  BY DEF Heard
<1>6. Answered(q)' /\ response'[q].event # None =>
        ~Stream(q)' /\ response'[q].status = 200
  BY DEF Answered
<1> QED
  BY <1>2, <1>3, <1>4, <1>5, <1>6 DEF Heard

\* The steps of the route and of the middleware say nothing.
LEMMA RouteSaysNothing ==
  ASSUME IInv, IInv', NEW q \in Request, Walked(q), Heard(q),
         \/ Accept(q) \/ CallProvider(q) \/ Exhausted(q) \/ CallRaises(q)
         \/ CallAnswers(q) \/ FirstChunk(q)
         \/ SkipUnregistered(q) \/ CallFails(q) \/ StreamEmpty(q)
         \/ CostTracking(q)
  PROVE  Heard(q)'
<1>0. TypeOK
  BY DEF IInv
<1> DEFINE Quietly ==
      /\ Silent(q) /\ Silent(q)'
      /\ http'[q] = http[q] /\ sent'[q] = sent[q] /\ errored'[q] = errored[q]
      /\ (Answered(q)' /\ response'[q].event # None =>
             ~Stream(q)' /\ response'[q].status = 200)
<1>1. CASE Accept(q)
  <2>1. /\ phase[q] = "idle" /\ phase'[q] = "walk" /\ SameSse(q) /\ SameReply(q)
    BY <1>0, <1>1, AcceptMoves DEF Moves
  <2>2. Quietly
    BY <2>1 DEF SameSse, SameReply, Silent, Undecided, Answered, Walked
  <2> QED
    BY <2>2, StaysSilent
<1>2. CASE SkipUnregistered(q) \/ CallFails(q) \/ StreamEmpty(q)
  <2>1. PICK from \in {"walk", "calling"}, why \in {"unregistered", "failed", "empty"} :
          TryNext(q, from, why)
    BY <1>2 DEF SkipUnregistered, CallFails, StreamEmpty
  <2>2. /\ phase[q] = from /\ phase'[q] = "walk" /\ SameSse(q) /\ SameReply(q)
    BY <1>0, <2>1, TryNextMoves DEF Moves
  <2>3. Quietly
    BY <2>2 DEF SameSse, SameReply, Silent, Undecided, Answered, Walked
  <2> QED
    BY <2>3, StaysSilent
<1>3. CASE CallProvider(q) \/ NothingToTrack(q)
  <2>1. /\ \/ phase[q] = "walk" /\ phase'[q] = "calling"
           \/ phase[q] = "track" /\ phase'[q] = "respond"
        /\ SameSse(q) /\ SameReply(q) /\ SameWalk(q)
    BY <1>0, <1>3, CallProviderMoves, NothingToTrackMoves DEF Moves
  <2>2. Quietly
    BY <2>1, SameNames DEF SameSse, SameReply, Silent, Undecided, Answered, Heard
  <2> QED
    BY <2>2, StaysSilent
<1>4. CASE TrackOutcome(q)
  <2>1. /\ phase[q] = "track" /\ phase'[q] = "log" /\ saving'[q].by = "middleware"
        /\ SameSse(q) /\ SameReply(q) /\ SameWalk(q)
    <3>1. /\ phase[q] = "track" /\ phase'[q] = "log"
          /\ saving'[q] = [by |-> "middleware", outcome |-> stash[q]]
          /\ SameSse(q) /\ SameReply(q) /\ SameWalk(q)
      BY <1>0, <1>4, TrackOutcomeMoves, ZenonT(60) DEF Moves
    <3> QED
      BY <3>1
  <2>2. Quietly
    BY <2>1, SameNames DEF SameSse, SameReply, Silent, Heard, Answered, Undecided
  <2> QED
    BY <2>2, StaysSilent
<1>5. CASE Exhausted(q)
  <2>1. /\ phase[q] = "walk"
        /\ (phase'[q] = "track" \/ (phase'[q] = "log" /\ saving'[q].by = "route"))
        /\ SameSse(q) /\ http'[q] = http[q] /\ sent'[q] = sent[q]
        /\ response'[q].event = None
    <3>1. /\ phase[q] = "walk"
          /\ phase'[q] = IF Stream(q) THEN "log" ELSE "track"
          /\ saving'[q] = IF Stream(q)
                          THEN [by |-> "route", outcome |-> ErrorOutcome(body[q])]
                          ELSE None
          /\ response'[q] = [status |-> 502, event |-> None]
          /\ SameSse(q) /\ http'[q] = http[q] /\ sent'[q] = sent[q]
      BY <1>0, <1>5, ExhaustedMoves, SMTT(60) DEF Moves
    <3> QED
      BY <3>1
  <2>2. Quietly
    BY <2>1 DEF SameSse, Silent, Undecided, Answered
  <2> QED
    BY <2>2, StaysSilent
<1>6. CASE CallRaises(q)
  <2>1. /\ phase[q] = "calling" /\ phase'[q] = "respond"
        /\ SameSse(q) /\ http'[q] = http[q] /\ sent'[q] = sent[q]
        /\ response'[q].event = None
    BY <1>0, <1>6, CallRaisesMoves DEF Moves
  <2>2. Quietly
    BY <2>1 DEF SameSse, Silent, Undecided, Answered
  <2> QED
    BY <2>2, StaysSilent
<1>7. CASE FirstChunk(q)
  <2>1. /\ phase[q] = "calling" /\ phase'[q] = "track"
        /\ errored'[q] = errored[q] /\ http'[q] = http[q] /\ sent'[q] = sent[q]
        /\ response'[q].event = None
    BY <1>0, <1>7, FirstChunkMoves DEF Moves
  <2>2. Quietly
    BY <2>1 DEF Silent, Undecided, Answered
  <2> QED
    BY <2>2, StaysSilent
<1>8. CASE CallAnswers(q)
  <2>1. /\ phase[q] = "calling" /\ phase'[q] = "track" /\ ~Stream(q)
        /\ SameSse(q) /\ SameWalk(q) /\ http'[q] = http[q] /\ sent'[q] = sent[q]
        /\ \E e : response'[q] = [status |-> 200, event |-> e]
    BY <1>0, <1>8, CallAnswersMoves, ZenonT(60) DEF Moves
  <2>2. Quietly
    BY <2>1, SameNames DEF SameSse, Silent, Undecided, Answered
  <2> QED
    BY <2>2, StaysSilent
<1> QED
  BY <1>1, <1>2, <1>3, <1>4, <1>5, <1>6, <1>7, <1>8 DEF CostTracking

\* Neither does the database, but when it has finished for the generator the
\* request is over.
LEMMA DatabaseSaysNothing ==
  ASSUME IInv, IInv', NEW q \in Request, Heard(q), Database(q)
  PROVE  Heard(q)'
<1>0. TypeOK
  BY DEF IInv
<1>1. /\ phase[q] \in {"log", "usage"} /\ SameWalk(q) /\ SameSse(q) /\ SameReply(q)
      /\ \/ phase'[q] = AfterSave(saving[q].by)
         \/ phase'[q] = "usage" /\ saving'[q] = saving[q]
  BY <1>0, LogOnlyMoves, LogCommitsMoves, UsageCommitsMoves, LogFailsMoves,
     UsageFailsMoves, ZenonT(60) DEF Database, Moves
<1>2. saving[q].by \in Saver /\ response[q] \in Answer
  BY <1>1 DEF IInv, Shape, Saving
<1>3. CASE saving[q].by # "generator"
  <2>1. Silent(q) /\ Silent(q)'
    BY <1>1, <1>2, <1>3 DEF Silent, AfterSave, Saver
  <2> QED
    BY <1>1, <2>1, StaysSilent, SameNames, ZenonT(60) DEF SameSse, SameReply, Heard, Answered,
       Undecided
<1>4. CASE saving[q].by = "generator"
  <2>1. Finished(q) /\ ~Silent(q)' /\ ~Telling(q)'
        /\ phase'[q] \notin {"stream", "pulling", "closing", "ending", "cancelled", "lost"}
        /\ (phase'[q] = "usage" \/ phase'[q] = "done")
    BY <1>1, <1>4 DEF Finished, Silent, Telling, Undecided, AfterSave
  <2>2. StreamAnswer(q) /\ http[q] = 200 /\ Streams(q) /\ Tells(q, Closing(q), TRUE)
    BY <2>1 DEF Heard
  <2>3. StreamAnswer(q)' /\ http'[q] = 200 /\ Streams(q)' /\ Stream(q)' = Stream(q)
    BY <1>1, <2>2, SameNames DEF SameSse, SameReply
  <2>4. Closing(q)' = Closing(q)
    BY <1>1, SameNames DEF SameSse, Closing
  <2>5. Tells(q, Closing(q), TRUE)'
    <3>1. PICK event : event = Closing(q)
      OBVIOUS
    <3>2. Tells(q, event, TRUE)'
      BY <1>1, <2>2, <3>1, TellsStill DEF SameSse, SameReply
    <3> QED
      BY <2>4, <3>1, <3>2
  <2>6. /\ response'[q] = response[q] /\ response'[q].status = 200
        /\ errored'[q] => ~chunk'[q].final
        /\ (Answered(q)' /\ response'[q].event # None =>
               ~Stream(q)' /\ response'[q].status = 200)
    BY <1>1, <2>2, <2>3 DEF SameSse, SameReply, Heard, StreamAnswer, Answered,
       Undecided
  <2> QED
    BY <1>2, <2>1, <2>3, <2>5, <2>6 DEF Heard
<1> QED
  BY <1>3, <1>4

\* The response goes out: the status line, and the completion or nothing yet.
LEMMA RespondHeard ==
  ASSUME IInv, IInv', NEW q \in Request, Heard(q), Respond(q)
  PROVE  Heard(q)'
<1>0. TypeOK
  BY DEF IInv
<1>1. /\ phase[q] = "respond"
      /\ phase'[q] = IF StreamAnswer(q) THEN "stream" ELSE "done"
      /\ http'[q] = response[q].status /\ response'[q] = response[q]
      /\ Sends(q, response[q].event # None, response[q].event)
      /\ SameWalk(q) /\ SameSse(q)
  BY <1>0, RespondMoves, ZenonT(60) DEF Moves, StreamAnswer
<1>2. sent[q] = <<>> /\ ~errored[q] /\ response[q] \in Answer /\ Len(sent[q]) = 0
  BY <1>1 DEF Heard, Silent, IInv, Shape
<1>3. ~Silent(q)' /\ phase'[q] \notin {"pulling", "closing", "ending", "cancelled", "lost"}
  BY <1>1 DEF Silent, Undecided, Answered
<1>4. /\ StreamAnswer(q)' = StreamAnswer(q) /\ Stream(q)' = Stream(q)
      /\ Streams(q)' = Streams(q)
  BY <1>1, SameNames DEF SameSse
<1>5. /\ ~errored'[q]
      /\ (Answered(q)' /\ response'[q].event # None =>
             ~Stream(q)' /\ response'[q].status = 200)
  BY <1>1, <1>2, <1>4 DEF SameSse, Heard, Answered, Undecided
<1>6. CASE StreamAnswer(q)
  <2>1. Streams(q) /\ response[q].status = 200 /\ response[q].event = None
    BY <1>1, <1>6 DEF IInv, Shape, StreamAnswer, Heard, Answered, Undecided
  <2>2. sent'[q] = sent[q] /\ phase'[q] = "stream" /\ http'[q] = 200
    BY <1>1, <1>6, <2>1 DEF Sends
  <2>3. Tells(q, "none", FALSE)'
    BY <1>2, <2>2 DEF Tells, Tale
  <2>4. ~Finished(q)'
    BY <2>2 DEF Finished
  <2> QED
    BY <1>3, <1>4, <1>5, <1>6, <2>1, <2>2, <2>3, <2>4 DEF Heard
<1>7. CASE ~StreamAnswer(q)
  <2>1. sent'[q] = IF response[q].event = None THEN <<>> ELSE <<response[q].event>>
    BY <1>1, <1>2 DEF Sends
  <2>2. phase'[q] = "done" /\ ~Telling(q)' /\ ~Finished(q)'
    BY <1>1, <1>4, <1>7 DEF Telling, Finished
  <2> QED
    <3>1. /\ phase'[q] = "done" /\ response'[q] \in Answer
          /\ http'[q] = response'[q].status
          /\ sent'[q] = IF response'[q].event = None
                        THEN <<>> ELSE <<response'[q].event>>
      BY <1>1, <1>2, <2>1, <2>2
    <3> QED
      BY <1>3, <1>5, <2>2, <3>1 DEF Heard
<1> QED
  BY <1>6, <1>7

\* A generator at work stays the generator of the stream it answers.
LEMMA KeepsTelling ==
  ASSUME IInv, NEW q \in Request, Heard(q), Telling(q),
         phase'[q] \in {"stream", "pulling", "closing", "ending", "log"},
         phase'[q] = "log" => saving'[q].by = "generator",
         SameWalk(q), chunk'[q] \in Chunk,
         response'[q] = response[q], http'[q] = http[q],
         phase'[q] = "pulling" \/ errored'[q] => ~chunk'[q].final,
         phase'[q] \in {"stream", "pulling"} => ~errored'[q] /\ Tells(q, "none", FALSE)',
         phase'[q] = "closing" =>
           Tells(q, IF errored[q] THEN "error" ELSE "none", FALSE)',
         phase'[q] = "ending" => Tells(q, Closing(q), FALSE)',
         phase'[q] = "log" => Tells(q, Closing(q), TRUE)'
  PROVE  Heard(q)'
<1>1. /\ ~Silent(q)' /\ phase'[q] \notin {"cancelled", "lost", "done"}
      /\ Finished(q)' => phase'[q] = "log"
  BY DEF Silent, Undecided, Answered, Finished
<1>2. StreamAnswer(q) /\ http[q] = 200 /\ Streams(q)
  BY DEF Heard
<1>3. StreamAnswer(q)' /\ http'[q] = 200 /\ Streams(q)' /\ Stream(q)' = Stream(q)
  BY <1>2, SameNames DEF Streams, SameWalk
<1>4. Answered(q)' /\ response'[q].event # None =>
        ~Stream(q)' /\ response'[q].status = 200
  BY <1>3 DEF Heard, Answered, Undecided, Telling
<1> QED
  BY <1>1, <1>3, <1>4 DEF Heard

\* Text, and the end of the text.
LEMMA TextHeard ==
  ASSUME IInv, NEW q \in Request, Heard(q),
         EmitChunk(q) \/ NextChunk(q) \/ StreamStops(q) \/ StreamFails(q)
  PROVE  Heard(q)'
<1>0. TypeOK
  BY DEF IInv
<1>1. CASE EmitChunk(q)
  <2>1. /\ phase[q] = "stream" /\ phase'[q] = IF chunk[q].final THEN "closing" ELSE "pulling"
        /\ Sends(q, chunk[q].delta, DeltaEvent(q))
        /\ response'[q] = response[q] /\ http'[q] = http[q]
        /\ SameWalk(q) /\ SameSse(q)
    BY <1>0, <1>1, EmitChunkMoves, ZenonT(60) DEF Moves
  <2>2. /\ Telling(q) /\ ~errored[q] /\ Tells(q, "none", FALSE) /\ Streams(q)
    BY <2>1 DEF Telling, Heard
  <2>3. Tells(q, "none", FALSE)'
    BY <1>0, <2>1, <2>2, TellsOn, TellsStill DEF Sends, SameSse
  <2>4. chunk'[q] = chunk[q] /\ chunk[q] \in Chunk /\ ~errored'[q]
    BY <2>1, <2>2 DEF SameSse, Streams
  <2> QED
    BY <2>1, <2>2, <2>3, <2>4, KeepsTelling
<1>2. CASE NextChunk(q)
  <2>1. /\ phase[q] = "pulling" /\ phase'[q] = "stream"
        /\ chunk'[q] \in Chunk /\ errored'[q] = errored[q]
        /\ SameWalk(q) /\ SameReply(q)
    BY <1>0, <1>2, NextChunkMoves, ZenonT(60) DEF Moves
  <2>2. /\ Telling(q) /\ ~errored[q] /\ Tells(q, "none", FALSE)
    BY <2>1 DEF Telling, Heard
  <2>3. Tells(q, "none", FALSE)'
    BY <2>1, <2>2, TellsStill DEF SameReply
  <2> QED
    BY <2>1, <2>2, <2>3, KeepsTelling DEF SameReply
<1>3. CASE StreamStops(q)
  <2>1. /\ phase[q] = "pulling" /\ phase'[q] = "closing"
        /\ SameWalk(q) /\ SameReply(q) /\ SameSse(q)
    BY <1>0, <1>3, StreamStopsMoves, ZenonT(60) DEF Moves
  <2>2. /\ Telling(q) /\ ~errored[q] /\ Tells(q, "none", FALSE) /\ Streams(q)
    BY <2>1 DEF Telling, Heard
  <2>3. Tells(q, "none", FALSE)'
    BY <2>1, <2>2, TellsStill DEF SameReply
  <2> QED
    BY <2>1, <2>2, <2>3, KeepsTelling DEF SameReply, SameSse, Streams
<1>4. CASE StreamFails(q)
  <2>1. /\ phase[q] = "pulling" /\ phase'[q] = "closing"
        /\ errored'[q] = TRUE /\ chunk'[q] = chunk[q]
        /\ Sends(q, TRUE, [type |-> "error"])
        /\ response'[q] = response[q] /\ http'[q] = http[q]
        /\ SameWalk(q)
    BY <1>0, <1>4, StreamFailsMoves, ZenonT(60) DEF Moves
  <2>2. /\ Telling(q) /\ Tells(q, "none", FALSE) /\ Streams(q) /\ ~chunk[q].final
    BY <2>1 DEF Telling, Heard
  <2>3. Tells(q, "error", FALSE)'
    BY <1>0, <2>1, <2>2, TellsOn DEF Sends
  <2> QED
    BY <2>1, <2>2, <2>3, KeepsTelling DEF Streams
<1> QED
  BY <1>1, <1>2, <1>3, <1>4

\* The usage, unless the stream broke, and [DONE].
LEMMA EndHeard ==
  ASSUME IInv, NEW q \in Request, Heard(q), EmitUsage(q) \/ EmitDone(q)
  PROVE  Heard(q)'
<1>0. TypeOK
  BY DEF IInv
<1>1. CASE EmitUsage(q)
  <2>1. /\ phase[q] = "closing" /\ phase'[q] = "ending"
        /\ Sends(q, FinalUsage(q) # None, UsageEvent(q))
        /\ response'[q] = response[q] /\ http'[q] = http[q]
        /\ SameWalk(q) /\ SameSse(q)
    BY <1>0, <1>1, EmitUsageMoves, ZenonT(60) DEF Moves
  <2>2. /\ Telling(q) /\ Streams(q) /\ (errored[q] => ~chunk[q].final)
        /\ Tells(q, IF errored[q] THEN "error" ELSE "none", FALSE)
    BY <2>1 DEF Telling, Heard
  <2>3. Closing(q)' = Closing(q)
    BY <2>1, SameNames DEF Closing, SameSse
  <2>4. Tells(q, Closing(q), FALSE)'
    <3>1. CASE errored[q]
      <4>1. FinalUsage(q) = None
        BY <2>2, <3>1 DEF FinalUsage
      <4>2. Tells(q, "error", FALSE)'
        BY <2>1, <2>2, <3>1, <4>1, TellsStill DEF Sends, SameSse
      <4> QED
        BY <2>3, <3>1, <4>2 DEF Closing
    <3>2. CASE ~errored[q] /\ FinalUsage(q) = None
      <4>1. Tells(q, "none", FALSE)'
        BY <2>1, <2>2, <3>2, TellsStill DEF Sends, SameSse
      <4> QED
        BY <2>3, <3>2, <4>1 DEF Closing
    <3>3. CASE ~errored[q] /\ FinalUsage(q) # None
      <4>1. Tells(q, "usage", FALSE)'
        BY <1>0, <2>1, <2>2, <3>3, TellsOn DEF Sends, SameSse
      <4> QED
        BY <2>3, <3>3, <4>1 DEF Closing
    <3> QED
      BY <3>1, <3>2, <3>3
  <2> QED
    BY <2>1, <2>2, <2>4, KeepsTelling DEF SameSse, Streams
<1>2. CASE EmitDone(q)
  <2>1. /\ phase[q] = "ending" /\ phase'[q] = "log"
        /\ Sends(q, TRUE, [type |-> "done"])
        /\ \E o : saving'[q] = [by |-> "generator", outcome |-> o]
        /\ response'[q] = response[q] /\ http'[q] = http[q]
        /\ SameWalk(q) /\ SameSse(q)
    BY <1>0, <1>2, EmitDoneMoves, ZenonT(60) DEF Moves
  <2>2. /\ Telling(q) /\ Streams(q) /\ (errored[q] => ~chunk[q].final)
        /\ Tells(q, Closing(q), FALSE)
    BY <2>1 DEF Telling, Heard
  <2>3. PICK event \in {"none", "error", "usage"} : event = Closing(q)
    BY DEF Closing
  <2>4. Tells(q, event, TRUE)'
    BY <1>0, <2>1, <2>2, <2>3, TellsOn DEF Sends, SameSse
  <2>5. Closing(q)' = Closing(q)
    BY <2>1, SameNames DEF Closing, SameSse
  <2>6. Tells(q, Closing(q), TRUE)'
    BY <2>3, <2>4, <2>5
  <2>7. saving'[q].by = "generator"
    BY <2>1
  <2> QED
    BY <2>1, <2>2, <2>6, <2>7, KeepsTelling DEF SameSse, Streams
<1> QED
  BY <1>1, <1>2

\* Every step keeps Heard.
LEMMA HeardStep ==
  ASSUME IInv, IInv', [Next]_vars, NEW q \in Request, Walked(q), Heard(q)
  PROVE  Heard(q)'
<1>0. TypeOK
  BY DEF IInv
<1>1. CASE Still(q)
  <2>1. /\ (StreamAnswer(q)' <=> StreamAnswer(q)) /\ Stream(q)' = Stream(q)
        /\ (Streams(q)' <=> Streams(q)) /\ Closing(q)' = Closing(q)
    BY <1>1, SameNames DEF Still, SameSse, SameReply, Closing
  <2>3. Silent(q)' <=> Silent(q)
    BY <1>1 DEF Still, SameSave, Silent
  <2>4. (Telling(q)' <=> Telling(q)) /\ (Finished(q)' <=> Finished(q))
    BY <1>1, <2>1 DEF Still, SameSave, Telling, Finished
  <2>5. Answered(q)' <=> Answered(q)
    BY <1>1 DEF Still, Answered
  <2>2. ASSUME NEW event, NEW done PROVE Tells(q, event, done)' <=> Tells(q, event, done)
    BY <1>1 DEF Still, SameWalk, SameSse, SameReply, Tells, Tale, DeltaEvent,
       UsageEvent, FinalUsage, Entry, Chain
  <2> QED
    <3>1. /\ phase'[q] = phase[q] /\ errored'[q] = errored[q] /\ chunk'[q] = chunk[q]
          /\ response'[q] = response[q] /\ http'[q] = http[q] /\ sent'[q] = sent[q]
      BY <1>1 DEF Still, SameSse, SameReply
    <3>2. /\ Silent(q)' => http'[q] = 0 /\ sent'[q] = <<>> /\ ~errored'[q]
          /\ Telling(q)' \/ Finished(q)' \/ phase'[q] = "cancelled" =>
               StreamAnswer(q)' /\ http'[q] = 200 /\ Streams(q)'
          /\ phase'[q] = "done" => response'[q] \in Answer /\ http'[q] = response'[q].status
          /\ phase'[q] = "pulling" \/ errored'[q] => ~chunk'[q].final
          /\ (Answered(q)' /\ response'[q].event # None =>
                ~Stream(q)' /\ response'[q].status = 200)
          /\ phase'[q] = "done" /\ ~StreamAnswer(q)' =>
               sent'[q] = IF response'[q].event = None THEN <<>> ELSE <<response'[q].event>>
      BY <2>1, <2>3, <2>4, <2>5, <3>1 DEF Heard
    <3>3. /\ phase'[q] \in {"stream", "pulling"} => ~errored'[q] /\ Tells(q, "none", FALSE)'
          /\ phase'[q] = "closing" =>
               Tells(q, IF errored[q] THEN "error" ELSE "none", FALSE)'
          /\ phase'[q] = "ending" => Tells(q, Closing(q), FALSE)'
          /\ Finished(q)' => Tells(q, Closing(q), TRUE)'
      BY <2>1, <2>2, <2>4, <3>1, ZenonT(60) DEF Heard
    <3>4. phase'[q] \in {"cancelled", "lost"} =>
            \/ sent'[q] = <<>>
            \/ /\ StreamAnswer(q)' /\ response'[q] \in Answer
               /\ \E event \in {"none", "error", "usage"}, done \in BOOLEAN :
                    Tells(q, event, done)'
      BY <2>1, <2>2, <3>1 DEF Heard
    <3> QED
      BY <3>2, <3>3, <3>4 DEF Heard
<1>2. CASE Dies(q) \/ Disconnect(q)
  <2>1. CASE Dies(q)
    <3>1. Silent(q) \/ Telling(q) \/ Finished(q)
      BY <2>1 DEF Dies, InFlight, Silent, Telling, Finished, Undecided
    <3> QED
      BY <2>1, <3>1, Interrupted DEF Dies, InFlight
  <2>2. CASE Disconnect(q)
    <3>1. /\ Telling(q) \/ Finished(q)
          /\ phase[q] # "done" /\ phase'[q] = "cancelled"
          /\ SameWalk(q) /\ SameSse(q) /\ SameReply(q)
      BY <1>0, <2>2, DisconnectMoves DEF Telling, Finished
    <3> QED
      BY <3>1, Interrupted
  <2> QED
    BY <1>2, <2>1, <2>2
<1> QED
  BY <1>0, <1>1, <1>2, Who, RouteSaysNothing, DatabaseSaysNothing, RespondHeard,
     TextHeard, EndHeard DEF Step, Gateway, Upstream

-----------------------------------------------------------------------------
(* What the tables say.                                                    *)

\* A step that leaves the walk, the stream and the response alone changes
\* nothing about what is due, and with the rows as they are all agrees.
LEMMA DueStill ==
  ASSUME NEW q \in Request, SameWalk(q), SameSse(q), response'[q] = response[q]
  PROVE  /\ Due(q)' = Due(q) /\ Stream(q)' = Stream(q)
         /\ StreamAnswer(q)' <=> StreamAnswer(q)
         /\ SameRows(q) => /\ Recorded(q)' <=> Recorded(q)
                           /\ Agrees(q) => Agrees(q)'
<1>1. /\ Chain(q)' = Chain(q) /\ Entry(q)' = Entry(q) /\ Stream(q)' = Stream(q)
      /\ FinalUsage(q)' = FinalUsage(q) /\ body'[q] = body[q] /\ pos'[q] = pos[q]
      /\ errored'[q] = errored[q]
  BY SameNames DEF SameSse, SameWalk
<1>2. Due(q)' = Due(q)
  BY <1>1 DEF Due
<1>3. StreamAnswer(q)' <=> StreamAnswer(q)
  BY SameNames
<1>4. ASSUME SameRows(q)
      PROVE  /\ Recorded(q)' <=> Recorded(q)
             /\ Agrees(q) => Agrees(q)'
  BY <1>1, <1>2, <1>4 DEF SameRows, Recorded, Agrees, NoRows
<1> QED
  BY <1>1, <1>2, <1>3, <1>4

\* Without rows there is nothing to disagree with.
LEMMA AgreesEmpty ==
  ASSUME NEW q \in Request, NoRows(q)',
         \/ response'[q] = None \/ Stream(q)' \/ response'[q].status # 200
  PROVE  Agrees(q)'
BY DEF Agrees, NoRows

\* What is due after a JSON request is an outcome.
LEMMA DueIsOutcome ==
  ASSUME IInv, NEW q \in Request, Agrees(q), phase[q] # "idle", ~Stream(q),
         response[q] \in Answer, response[q].status \in {200, 502}
  PROVE  Due(q) \in Outcome
<1>1. body[q] \in Body
  BY DEF IInv, Shape
<1>2. CASE response[q].status = 502
  BY <1>1, <1>2, GatewayAssumption DEF Due, ErrorOutcome, Outcome, ChatRequest, Spent, Cost
<1>3. CASE response[q].status = 200
  <2>1. PICK u \in Spent : response[q].event = JsonCompletion(body[q], Entry(q), u)
    BY <1>3, NoneAssumption DEF Agrees
  <2>2. Entry(q)[1] \in Provider /\ Entry(q)[2] \in Model
    <3>1. pos[q] \in 1 .. Len(Chain(q))
      BY <1>3, NoneAssumption DEF Agrees
    <3> QED
      BY <1>1, <3>1, EntryType
  <2>3. response[q].event.usage = u
    BY <2>1 DEF JsonCompletion
  <2>4. Due(q) = JsonOutcome(body[q], Entry(q), u)
    BY <1>3, <2>3 DEF Due
  <2>5. CalculateCost(Entry(q)[1], Entry(q)[2], u) \in Cost
    BY <2>2, CostType
  <2> QED
    BY <2>2, <2>4, <2>5 DEF JsonOutcome, Outcome, StatusOf
<1> QED
  BY <1>2, <1>3

\* The route and the middleware pass on what is due.
LEMMA RouteEntrusts ==
  ASSUME IInv, IInv', NEW q \in Request, Walked(q), Walked(q)', Written(q),
         \/ Accept(q) \/ CallProvider(q) \/ Exhausted(q) \/ CallRaises(q)
         \/ CallAnswers(q) \/ FirstChunk(q)
         \/ SkipUnregistered(q) \/ CallFails(q) \/ StreamEmpty(q)
  PROVE  Written(q)'
<1>0. TypeOK
  BY DEF IInv
<1>1. CASE \/ Accept(q) \/ CallProvider(q)
           \/ SkipUnregistered(q) \/ CallFails(q) \/ StreamEmpty(q)
  <2>1. phase'[q] \in {"walk", "calling"}
    <3>1. CASE Accept(q) \/ CallProvider(q)
      BY <1>0, <3>1, AcceptMoves, CallProviderMoves DEF Moves
    <3>2. CASE SkipUnregistered(q) \/ CallFails(q) \/ StreamEmpty(q)
      <4>1. PICK from, why : TryNext(q, from, why)
        BY <3>2 DEF SkipUnregistered, CallFails, StreamEmpty
      <4> QED
        BY <1>0, <4>1, TryNextMoves DEF Moves
    <3> QED
      BY <1>1, <3>1, <3>2
  <2>2. NoRows(q)' /\ response'[q] = None
    BY <2>1 DEF IInv, Rows, Walked, Undecided, Settled
  <2> QED
    BY <2>1, <2>2, AgreesEmpty DEF Written, Entrusted
<1>2. CASE CallRaises(q)
  <2>1. /\ phase[q] = "calling" /\ phase'[q] = "respond"
        /\ response'[q].status = 500 /\ SameRows(q)
    <3>1. /\ phase[q] = "calling" /\ phase'[q] = "respond"
          /\ response'[q] = [status |-> 500, event |-> None] /\ SameRows(q)
      BY <1>0, <1>2, CallRaisesMoves, ZenonT(60) DEF Moves, SameSave
    <3> QED
      BY <3>1
  <2>2. NoRows(q)'
    BY <2>1 DEF IInv, Rows, Settled, NoRows, SameRows
  <2> QED
    BY <2>1, <2>2, AgreesEmpty DEF Written, Entrusted
<1>3. CASE FirstChunk(q)
  <2>1. /\ phase[q] = "calling" /\ phase'[q] = "track" /\ Stream(q)
        /\ response'[q].status = 200 /\ SameRows(q) /\ SameWalk(q)
    BY <1>0, <1>3, FirstChunkMoves DEF Moves, SameSave
  <2>2. NoRows(q)' /\ Stream(q)'
    BY <2>1, SameNames DEF IInv, Rows, Settled, NoRows, SameRows
  <2> QED
    BY <2>1, <2>2, AgreesEmpty DEF Written, Entrusted
<1>4. CASE CallAnswers(q)
  <2>1. PICK u \in Spent :
          /\ stash'[q] = JsonOutcome(body[q], Entry(q), u)
          /\ response'[q] = [status |-> 200, event |-> JsonCompletion(body[q], Entry(q), u)]
    BY <1>0, <1>4, CallAnswersMoves, ZenonT(60)
  <2>2. /\ phase[q] = "calling" /\ phase'[q] = "track" /\ ~Stream(q)
        /\ SameRows(q) /\ SameWalk(q)
    BY <1>0, <1>4, CallAnswersMoves, ZenonT(60) DEF Moves, SameSave
  <2>3. /\ ~Stream(q)' /\ body'[q] = body[q] /\ Entry(q)' = Entry(q)
        /\ Chain(q)' = Chain(q) /\ pos'[q] = pos[q]
    BY <2>2, SameNames DEF SameWalk
  <2>4. NoRows(q)' /\ pos'[q] \in 1 .. Len(Chain(q)')
    BY <2>2, <2>3 DEF IInv, Rows, Settled, NoRows, SameRows, Shape
  <2>5. response'[q].status = 200 /\ response'[q].event.usage = u
        /\ response'[q].event = JsonCompletion(body[q], Entry(q), u)
    BY <2>1 DEF JsonCompletion
  <2>6. stash'[q] = Due(q)'
    BY <2>1, <2>3, <2>5 DEF Due
  <2>7. Agrees(q)'
    BY <2>3, <2>4, <2>5 DEF Agrees, NoRows
  <2> QED
    BY <2>2, <2>3, <2>5, <2>6, <2>7 DEF Written, Entrusted
<1>5. CASE Exhausted(q)
  <2>1. /\ phase[q] = "walk"
        /\ phase'[q] = IF Stream(q) THEN "log" ELSE "track"
        /\ stash'[q] = ErrorStash(body[q])
        /\ saving'[q] = IF Stream(q)
                        THEN [by |-> "route", outcome |-> ErrorOutcome(body[q])]
                        ELSE None
        /\ response'[q] = [status |-> 502, event |-> None]
        /\ SameWalk(q) /\ SameRows(q)
    BY <1>0, <1>5, ExhaustedMoves, SMTT(60) DEF Moves
  <2>2. response'[q].status = 502 /\ Stream(q)' = Stream(q) /\ body'[q] = body[q]
    BY <2>1, SameNames DEF SameWalk
  <2>3. NoRows(q)' /\ Due(q)' = ErrorOutcome(body[q])
    BY <2>1, <2>2 DEF IInv, Rows, Settled, NoRows, SameRows, Due
  <2>4. Stream(q) => saving'[q].outcome = ErrorOutcome(body[q])
    BY <2>1
  <2>5. ~Stream(q) => stash'[q] = ErrorOutcome(body[q])
    BY <2>1 DEF ErrorStash, Stream
  <2>6. phase'[q] = "log" => Stream(q)
    BY <2>1
  <2>7. phase'[q] = "track" => ~Stream(q)
    BY <2>1
  <2>8. phase'[q] \in {"log", "track"}
    BY <2>1
  <2> QED
    BY <2>2, <2>3, <2>4, <2>5, <2>6, <2>7, <2>8, AgreesEmpty DEF Written, Entrusted
<1> QED
  BY <1>1, <1>2, <1>3, <1>4, <1>5

\* The middleware and the transport.
LEMMA ReplyEntrusts ==
  ASSUME IInv, IInv', NEW q \in Request, Written(q), CostTracking(q) \/ Respond(q)
  PROVE  Written(q)'
<1>0. TypeOK
  BY DEF IInv
<1>1. CASE NothingToTrack(q)
  <2>1. /\ phase[q] = "track" /\ phase'[q] = "respond" /\ stash[q] = None
        /\ SameWalk(q) /\ SameSse(q) /\ response'[q] = response[q] /\ SameRows(q)
    BY <1>0, <1>1, NothingToTrackMoves DEF Moves, SameReply, SameSave
  <2>2. response[q] \in Answer /\ response[q].status \in {200, 502}
    BY <2>1 DEF IInv, Shape, Written, Entrusted, Answer
  <2>3. Stream(q)
    <3> SUFFICES ASSUME ~Stream(q) PROVE FALSE
      OBVIOUS
    <3>1. Due(q) = None
      BY <2>1 DEF Written, Entrusted
    <3>2. Due(q) \in Outcome
      BY <2>1, <2>2, DueIsOutcome DEF Written
    <3> QED
      BY <3>1, <3>2, NoneAssumption
  <2> QED
    BY <2>1, <2>2, <2>3, DueStill DEF Written, Entrusted, StreamAnswer
<1>2. CASE TrackOutcome(q)
  <2>1. /\ phase[q] = "track" /\ phase'[q] = "log" /\ stash[q] # None
        /\ saving'[q] = [by |-> "middleware", outcome |-> stash[q]]
        /\ SameWalk(q) /\ SameSse(q) /\ response'[q] = response[q] /\ SameRows(q)
    BY <1>0, <1>2, TrackOutcomeMoves, ZenonT(60) DEF Moves, SameReply
  <2>2. ~Stream(q)
    BY <2>1 DEF IInv, Rows
  <2>3. saving'[q].outcome = stash[q] /\ saving'[q].by = "middleware"
    BY <2>1
  <2> QED
    BY <2>1, <2>2, <2>3, DueStill DEF Written, Entrusted
<1>3. CASE Respond(q)
  <2>1. /\ phase[q] = "respond"
        /\ phase'[q] = IF StreamAnswer(q) THEN "stream" ELSE "done"
        /\ SameWalk(q) /\ SameSse(q) /\ response'[q] = response[q] /\ SameRows(q)
    BY <1>0, <1>3, RespondMoves, ZenonT(60) DEF Moves, StreamAnswer, SameSave
  <2> QED
    BY <2>1, DueStill DEF Written, Entrusted
<1> QED
  BY <1>1, <1>2, <1>3 DEF CostTracking

\* The generator writes nothing before [DONE], and then what is due.
LEMMA GeneratorEntrusts ==
  ASSUME IInv, IInv', NEW q \in Request, Heard(q), Heard(q)', Written(q),
         \/ EmitChunk(q) \/ NextChunk(q) \/ StreamStops(q) \/ StreamFails(q)
         \/ EmitUsage(q) \/ EmitDone(q)
  PROVE  Written(q)'
<1>0. TypeOK
  BY DEF IInv
<1>1. CASE \/ EmitChunk(q) \/ NextChunk(q) \/ StreamStops(q) \/ StreamFails(q)
           \/ EmitUsage(q)
  <2>1. /\ Telling(q) /\ SameWalk(q) /\ response'[q] = response[q] /\ SameRows(q)
        /\ phase'[q] \in {"stream", "pulling", "closing", "ending"}
    <3>1. CASE EmitChunk(q) \/ NextChunk(q)
      BY <1>0, <3>1, EmitChunkMoves, NextChunkMoves DEF Moves, Telling, SameSave, SameReply
    <3>2. CASE StreamStops(q) \/ StreamFails(q)
      BY <1>0, <3>2, StreamStopsMoves, StreamFailsMoves DEF Moves, Telling, SameSave, SameReply
    <3>3. CASE EmitUsage(q)
      BY <1>0, <3>3, EmitUsageMoves DEF Moves, Telling, SameSave
    <3> QED
      BY <1>1, <3>1, <3>2, <3>3
  <2>2. NoRows(q) /\ Stream(q)
    BY <2>1 DEF Telling, IInv, Rows, Settled, Heard, StreamAnswer
  <2>3. NoRows(q)' /\ Stream(q)'
    BY <2>1, <2>2, SameNames DEF NoRows, SameRows
  <2> QED
    BY <2>1, <2>3, AgreesEmpty DEF Written, Entrusted
<1>2. CASE EmitDone(q)
  <2>1. /\ phase[q] = "ending" /\ phase'[q] = "log"
        /\ saving'[q] = [by |-> "generator", outcome |->
             StreamOutcome(body[q], Entry(q)[1], FinalUsage(q), errored[q])]
        /\ response'[q] = response[q] /\ SameWalk(q) /\ SameSse(q) /\ SameRows(q)
    BY <1>0, <1>2, EmitDoneMoves, ZenonT(60) DEF Moves
  <2>2. /\ saving'[q].by = "generator"
        /\ saving'[q].outcome = StreamOutcome(body[q], Entry(q)[1], FinalUsage(q), errored[q])
    BY <2>1
  <2>3. NoRows(q) /\ Stream(q) /\ response[q].status = 200
    BY <2>1 DEF Telling, IInv, Rows, Settled, Heard, StreamAnswer
  <2>4. saving'[q].outcome = Due(q)
    BY <2>2, <2>3 DEF Due
  <2>5. NoRows(q)' /\ Stream(q)' /\ Due(q)' = Due(q)
    BY <2>1, <2>3, SameNames, DueStill DEF NoRows, SameRows
  <2> QED
    BY <2>1, <2>2, <2>3, <2>4, <2>5, AgreesEmpty DEF Written, Entrusted
<1> QED
  BY <1>1, <1>2

\* Whoever awaited persist_chat_outcome goes on with the outcome recorded, or
\* with the failure logged.
LEMMA SavedEntrusts ==
  ASSUME IInv, IInv', NEW q \in Request, Written(q), phase[q] \in {"log", "usage"},
         phase'[q] = AfterSave(saving[q].by),
         SameWalk(q), SameSse(q), response'[q] = response[q], Recorded(q)'
  PROVE  Entrusted(q)'
<1>1. /\ saving[q].by \in Saver /\ response[q].status # 500
      /\ saving[q].by = "route" => Stream(q)
  BY DEF IInv, Shape, Saving, Written, Entrusted
<1>2. Stream(q)' = Stream(q)
  BY DueStill
<1>3. CASE saving[q].by = "route"
  BY <1>1, <1>2, <1>3 DEF AfterSave, Entrusted
<1>4. CASE saving[q].by # "route"
  <2>1. phase'[q] \in {"respond", "done"}
    BY <1>1, <1>4 DEF AfterSave, Saver
  <2> QED
    BY <2>1 DEF Entrusted
<1> QED
  BY <1>3, <1>4

\* The first row of a request.
LEMMA FirstRow ==
  ASSUME NEW e
  PROVE  Append(<<>>, e) = <<e>>
OBVIOUS

\* The rows of persist_chat_outcome are those of the outcome that is due.
LEMMA DatabaseWrites ==
  ASSUME IInv, IInv', NEW q \in Request, Written(q), Database(q)
  PROVE  Written(q)'
<1>0. TypeOK
  BY DEF IInv
<1>d. PICK d : d = Due(q)
  OBVIOUS
<1>1. /\ phase[q] \in {"log", "usage"} /\ SameWalk(q) /\ SameSse(q)
      /\ response'[q] = response[q]
  BY <1>0, LogOnlyMoves, LogCommitsMoves, UsageCommitsMoves, LogFailsMoves,
     UsageFailsMoves, ZenonT(60) DEF Database, Moves, SameReply
<1>2. /\ saving[q].outcome = d /\ response[q].status # 500
      /\ response[q] \in Answer /\ response[q] # None
      /\ phase[q] = "log" => NoRows(q)
      /\ phase[q] = "usage" => Len(logs[q]) = 1 /\ usages[q] = <<>> /\ d.usage # None
  BY <1>1, <1>d, NoneAssumption DEF Written, Entrusted, IInv, Shape, Rows, Settled
<1>3. Due(q)' = d
  BY <1>1, <1>d, DueStill
\* Agreement with these rows.
<1>4. ASSUME \A i \in DOMAIN logs'[q] : logs'[q][i] = LogRow(d),
             \A i \in DOMAIN usages'[q] : usages'[q][i] = UsageRow(d, 1) /\ d.usage # None
      PROVE  Agrees(q)'
  <2>1. /\ body'[q] = body[q] /\ pos'[q] = pos[q] /\ Stream(q)' = Stream(q)
        /\ Entry(q)' = Entry(q) /\ Chain(q)' = Chain(q)
    BY <1>1, SameNames DEF SameWalk
  <2>2. response'[q] # None /\ response'[q].status # 500
    BY <1>1, <1>2
  <2>3. response'[q] # None /\ ~Stream(q)' /\ response'[q].status = 200 =>
          /\ pos'[q] \in 1 .. Len(Chain(q)')
          /\ \E u \in Spent : response'[q].event = JsonCompletion(body'[q], Entry(q)', u)
    BY <1>1, <2>1 DEF Written, Agrees
  <2> QED
    BY <1>3, <1>4, <2>2, <2>3 DEF Agrees
<1>5. CASE LogOnly(q)
  <2>1. /\ phase[q] = "log" /\ phase'[q] = AfterSave(saving[q].by)
        /\ d.usage = None /\ logs'[q] = Append(logs[q], LogRow(d)) /\ usages'[q] = usages[q]
    <3>1. /\ phase[q] = "log" /\ phase'[q] = AfterSave(saving[q].by)
          /\ saving[q].outcome.usage = None /\ logs'[q] = Append(logs[q], LogRow(saving[q].outcome)) /\ usages'[q] = usages[q]
      BY <1>0, <1>5, LogOnlyMoves, ZenonT(60) DEF Moves
    <3> QED
      BY <1>2, <3>1
  <2>2. logs'[q] = <<LogRow(d)>> /\ usages'[q] = <<>>
    <3>1. logs[q] = <<>> /\ usages[q] = <<>>
      BY <1>2, <2>1 DEF NoRows
    <3>2. Append(<<>>, LogRow(d)) = <<LogRow(d)>>
      BY FirstRow
    <3> QED
      BY <2>1, <3>1, <3>2, ZenonT(60)
  <2>3. Recorded(q)' /\ Agrees(q)'
    BY <1>3, <1>4, <2>1, <2>2 DEF Recorded
  <2> QED
    BY <1>1, <2>1, <2>3, SavedEntrusts DEF Written
<1>6. CASE LogCommits(q)
  <2>1. /\ phase[q] = "log" /\ phase'[q] = "usage" /\ saving'[q] = saving[q]
        /\ logs'[q] = Append(logs[q], LogRow(d)) /\ usages'[q] = usages[q]
    <3>1. /\ phase[q] = "log" /\ phase'[q] = "usage" /\ saving'[q] = saving[q]
          /\ logs'[q] = Append(logs[q], LogRow(saving[q].outcome)) /\ usages'[q] = usages[q]
      BY <1>0, <1>6, LogCommitsMoves, ZenonT(60) DEF Moves
    <3> QED
      BY <1>2, <3>1
  <2>2. logs'[q] = <<LogRow(d)>> /\ usages'[q] = <<>>
    <3>1. logs[q] = <<>> /\ usages[q] = <<>>
      BY <1>2, <2>1 DEF NoRows
    <3>2. Append(<<>>, LogRow(d)) = <<LogRow(d)>>
      BY FirstRow
    <3> QED
      BY <2>1, <3>1, <3>2, ZenonT(60)
  <2>3. Agrees(q)'
    BY <1>4, <2>2
  <2>4. Entrusted(q)'
    BY <1>1, <1>2, <1>3, <2>1, DueStill DEF Written, Entrusted
  <2> QED
    BY <2>3, <2>4 DEF Written
<1>7. CASE UsageCommits(q)
  <2>1. /\ phase[q] = "usage" /\ phase'[q] = AfterSave(saving[q].by)
        /\ usages'[q] = Append(usages[q], UsageRow(d, Len(logs[q]))) /\ logs'[q] = logs[q]
    <3>1. /\ phase[q] = "usage" /\ phase'[q] = AfterSave(saving[q].by)
          /\ usages'[q] = Append(usages[q], UsageRow(saving[q].outcome, Len(logs[q]))) /\ logs'[q] = logs[q]
      BY <1>0, <1>7, UsageCommitsMoves, ZenonT(60) DEF Moves
    <3> QED
      BY <1>2, <3>1
  <2>2. usages'[q] = <<UsageRow(d, 1)>> /\ d.usage # None /\ Len(logs'[q]) = 1
    <3>1. Len(logs[q]) = 1 /\ usages[q] = <<>> /\ d.usage # None
      BY <1>2, <2>1
    <3>2. Append(<<>>, UsageRow(d, 1)) = <<UsageRow(d, 1)>>
      BY FirstRow
    <3> QED
      BY <2>1, <3>1, <3>2, ZenonT(60)
  <2>3. \A i \in DOMAIN logs'[q] : logs'[q][i] = LogRow(d)
    BY <1>d, <2>1 DEF Written, Agrees
  <2>4. Recorded(q)' /\ Agrees(q)'
    BY <1>3, <1>4, <2>2, <2>3 DEF Recorded
  <2> QED
    BY <1>1, <2>1, <2>4, SavedEntrusts DEF Written
<1>8. CASE LogFails(q)
  <2>1. /\ phase[q] = "log" /\ phase'[q] = AfterSave(saving[q].by) /\ warned'[q] = TRUE
        /\ logs'[q] \in {logs[q], Append(logs[q], LogRow(d))} /\ usages'[q] = usages[q]
    <3>1. /\ phase[q] = "log" /\ phase'[q] = AfterSave(saving[q].by) /\ warned'[q] = TRUE
          /\ logs'[q] \in {logs[q], Append(logs[q], LogRow(saving[q].outcome))} /\ usages'[q] = usages[q]
      BY <1>0, <1>8, LogFailsMoves, ZenonT(60) DEF Moves
    <3> QED
      BY <1>2, <3>1
  <2>2. logs'[q] \in {<<>>, <<LogRow(d)>>} /\ usages'[q] = <<>>
    <3>1. logs[q] = <<>> /\ usages[q] = <<>>
      BY <1>2, <2>1 DEF NoRows
    <3>2. Append(<<>>, LogRow(d)) = <<LogRow(d)>>
      BY FirstRow
    <3> QED
      BY <2>1, <3>1, <3>2, ZenonT(60)
  <2>3. Recorded(q)' /\ Agrees(q)'
    BY <1>4, <2>1, <2>2 DEF Recorded
  <2> QED
    BY <1>1, <2>1, <2>3, SavedEntrusts DEF Written
<1>9. CASE UsageFails(q)
  <2>1. /\ phase[q] = "usage" /\ phase'[q] = AfterSave(saving[q].by) /\ warned'[q] = TRUE
        /\ usages'[q] \in {usages[q], Append(usages[q], UsageRow(d, Len(logs[q])))}
        /\ logs'[q] = logs[q]
    <3>1. /\ phase[q] = "usage" /\ phase'[q] = AfterSave(saving[q].by) /\ warned'[q] = TRUE
          /\ usages'[q] \in {usages[q], Append(usages[q], UsageRow(saving[q].outcome, Len(logs[q])))}
          /\ logs'[q] = logs[q]
      BY <1>0, <1>9, UsageFailsMoves, ZenonT(60) DEF Moves
    <3> QED
      BY <1>2, <3>1
  <2>2. usages'[q] \in {<<>>, <<UsageRow(d, 1)>>} /\ d.usage # None
    <3>1. Len(logs[q]) = 1 /\ usages[q] = <<>> /\ d.usage # None
      BY <1>2, <2>1
    <3>2. Append(<<>>, UsageRow(d, 1)) = <<UsageRow(d, 1)>>
      BY FirstRow
    <3> QED
      BY <2>1, <3>1, <3>2, ZenonT(60)
  <2>3. \A i \in DOMAIN logs'[q] : logs'[q][i] = LogRow(d)
    BY <1>d, <2>1 DEF Written, Agrees
  <2>4. Recorded(q)' /\ Agrees(q)'
    BY <1>4, <2>1, <2>2, <2>3 DEF Recorded
  <2> QED
    BY <1>1, <2>1, <2>4, SavedEntrusts DEF Written
<1> QED
  BY <1>5, <1>6, <1>7, <1>8, <1>9 DEF Database

\* Every step keeps Written.
LEMMA WrittenStep ==
  ASSUME IInv, IInv', [Next]_vars, NEW q \in Request,
         Walked(q), Walked(q)', Heard(q), Heard(q)', Written(q)
  PROVE  Written(q)'
<1>0. TypeOK
  BY DEF IInv
<1>1. CASE Still(q)
  <2>1. /\ SameWalk(q) /\ SameSse(q) /\ response'[q] = response[q] /\ SameRows(q)
        /\ phase'[q] = phase[q] /\ stash'[q] = stash[q] /\ saving'[q] = saving[q]
    BY <1>1 DEF Still, SameReply, SameSave
  <2>2. /\ Due(q)' = Due(q) /\ Stream(q)' = Stream(q) /\ Agrees(q)'
        /\ (StreamAnswer(q)' <=> StreamAnswer(q)) /\ (Recorded(q)' <=> Recorded(q))
    BY <2>1, DueStill DEF Written
  <2> QED
    BY <2>1, <2>2 DEF Written, Entrusted
<1>2. CASE Dies(q) \/ Disconnect(q)
  <2>1. /\ SameWalk(q) /\ SameSse(q) /\ response'[q] = response[q] /\ SameRows(q)
        /\ phase'[q] \in {"lost", "cancelled"}
    BY <1>0, <1>2, DisconnectMoves DEF Dies, SameReply, SameSave
  <2>2. Agrees(q)'
    BY <2>1, DueStill DEF Written
  <2> QED
    BY <2>1, <2>2 DEF Written, Entrusted
<1> QED
  BY <1>0, <1>1, <1>2, Who, RouteEntrusts, ReplyEntrusts, GeneratorEntrusts,
     DatabaseWrites DEF Step, Gateway, Upstream

-----------------------------------------------------------------------------
\* The whole story.
Story == IInv /\ \A r \in Request : Walked(r) /\ Heard(r) /\ Written(r)

\* Nothing was asked, so nothing was walked, told or written.
LEMMA StoryInit == Init => Story
<1> SUFFICES ASSUME Init PROVE \A r \in Request : Walked(r) /\ Heard(r) /\ Written(r)
  BY InitInv DEF Story
<1> TAKE r \in Request
<1>1. /\ phase[r] = "idle" /\ attempts[r] = <<>> /\ response[r] = None
      /\ http[r] = 0 /\ sent[r] = <<>> /\ errored[r] = FALSE
      /\ logs[r] = <<>> /\ usages[r] = <<>>
  BY DEF Init
<1>2. Walked(r)
  BY <1>1 DEF Walked
<1>3. Heard(r)
  BY <1>1 DEF Heard, Telling, Finished, Answered, Undecided
<1>4. Written(r)
  BY <1>1 DEF Written, Agrees, Entrusted, NoRows
<1> QED
  BY <1>2, <1>3, <1>4

\* Each part of the story needs those before it, as they are after the step.
LEMMA StoryStep == Story /\ [Next]_vars => Story'
<1> SUFFICES ASSUME Story, [Next]_vars PROVE Story'
  OBVIOUS
<1>1. IInv /\ IInv'
  BY NextInv DEF Story
<1>2. ASSUME NEW q \in Request PROVE Walked(q)' /\ Heard(q)' /\ Written(q)'
  <2>1. Walked(q) /\ Heard(q) /\ Written(q)
    BY DEF Story
  <2>2. Walked(q)'
    BY <1>1, <2>1, WalkedStep
  <2>3. Heard(q)'
    BY <1>1, <2>1, HeardStep
  <2> QED
    BY <1>1, <2>1, <2>2, <2>3, WrittenStep
<1> QED
  BY <1>1, <1>2 DEF Story

\* In every reachable state the rows tell what the client was told, and that
\* is what the walk along the chain made of the request.
THEOREM StoryHolds == Spec => []Story
<1> QED
  BY StoryInit, StoryStep, PTL DEF Spec

-----------------------------------------------------------------------------
(* What follows for the client and the operator.                           *)

\* The walk is in the order of the chain and skips nothing, and a 502 means
\* that every entry of the chain was given its try.
THEOREM WalkKeepsTheOrder == Spec => []WalkedInOrder
<1>1. Story => WalkedInOrder
  <2> SUFFICES ASSUME Story, NEW r \in Request, response[r] # None
               PROVE  /\ Len(attempts[r]) = pos[r] - 1
                      /\ response[r].status = 502 => Len(attempts[r]) = Len(Chain(r))
                      /\ \A i \in DOMAIN attempts[r] :
                           /\ attempts[r][i].target = Chain(r)[i]
                           /\ attempts[r][i].why = "unregistered"
                                <=> Chain(r)[i][1] \notin Registered
    BY DEF WalkedInOrder
  <2>1. Walked(r) /\ phase[r] # "idle"
    BY DEF Story, Walked, Undecided
  <2>2. Len(Chain(r)) \in Nat
    <3>1. body[r] \in Body
      BY <2>1 DEF Story, IInv, Shape
    <3> QED
      BY <3>1, ChainType DEF Chain
  <2> QED
    BY <2>1, <2>2 DEF Walked
<1> QED
  BY <1>1, StoryHolds, PTL

\* No fallback once the client has a status line: the walk, the response and
\* the status stay as they are, whatever breaks afterwards.
THEOREM CommittedOnceAnswered == Spec => CommittedOnReply
<1> DEFINE Committed == \A r \in Request : http[r] # 0 =>
             UNCHANGED <<pos[r], attempts[r], http[r], response[r]>>
<1>1. Story /\ [Next]_vars => Committed
  <2> SUFFICES ASSUME Story, [Next]_vars, NEW q \in Request, http[q] # 0
               PROVE  UNCHANGED <<pos[q], attempts[q], http[q], response[q]>>
    OBVIOUS
  <2>1. IInv /\ TypeOK /\ ~Silent(q)
    BY DEF Story, IInv, Heard
  <2>2. phase[q] \notin {"idle", "walk", "calling", "track", "respond"}
    BY <2>1 DEF Silent, Undecided
  <2>3. CASE Still(q) \/ Dies(q)
    BY <2>3 DEF Still, Dies, SameWalk, SameReply
  <2>4. CASE Decided(q) /\ Step(q)
    <3>1. http'[q] = http[q]
      <4>1. CASE EmitChunk(q) \/ NextChunk(q) \/ StreamStops(q)
        BY <2>1, <4>1, EmitChunkMoves, NextChunkMoves, StreamStopsMoves DEF SameReply
      <4>2. CASE StreamFails(q) \/ EmitUsage(q) \/ EmitDone(q) \/ Disconnect(q)
        BY <2>1, <4>2, StreamFailsMoves, EmitUsageMoves, EmitDoneMoves, DisconnectMoves
           DEF SameReply
      <4>3. CASE Database(q)
        BY <2>1, <4>3, LogOnlyMoves, LogCommitsMoves, UsageCommitsMoves, LogFailsMoves,
           UsageFailsMoves DEF Database, SameReply
      <4>4. CASE CostTracking(q) \/ Respond(q)
        BY <2>1, <2>2, <4>4, NothingToTrackMoves, TrackOutcomeMoves, RespondMoves
           DEF CostTracking, Moves
      <4>5. CASE \/ Accept(q) \/ CallProvider(q) \/ Exhausted(q) \/ CallRaises(q)
                 \/ CallAnswers(q) \/ FirstChunk(q)
                 \/ SkipUnregistered(q) \/ CallFails(q) \/ StreamEmpty(q)
        BY <2>2, <4>5 DEF Accept, CallProvider, Exhausted, CallRaises, CallAnswers,
           FirstChunk, SkipUnregistered, CallFails, StreamEmpty, TryNext, Go
      <4> QED
        BY <2>4, <4>1, <4>2, <4>3, <4>4, <4>5 DEF Step, Gateway, Upstream
    <3> QED
      BY <2>4, <3>1 DEF Decided, SameWalk
  <2>5. CASE \/ Accept(q) \/ CallProvider(q) \/ Exhausted(q) \/ CallRaises(q)
             \/ CallAnswers(q) \/ FirstChunk(q)
             \/ SkipUnregistered(q) \/ CallFails(q) \/ StreamEmpty(q)
    BY <2>2, <2>5 DEF Accept, CallProvider, Exhausted, CallRaises, CallAnswers,
       FirstChunk, SkipUnregistered, CallFails, StreamEmpty, TryNext, Go
  <2> QED
    BY <2>1, <2>3, <2>4, <2>5, Who, DecidedOnce
<1> QED
  BY <1>1, StoryHolds, PTL DEF Spec, CommittedOnReply

\* Event i of a tale with n deltas.
Part(r, n, event, done, i) ==
  \/ i <= n /\ sent[r][i] = DeltaEvent(r)
  \/ /\ i = n + 1 /\ event = "error"
     /\ sent[r][i] = [type |-> "error"]
     /\ Len(sent[r]) = i \/ (done /\ Len(sent[r]) = i + 1)
  \/ /\ i = n + 1 /\ event = "usage"
     /\ sent[r][i] = UsageEvent(r)
     /\ Len(sent[r]) = i \/ (done /\ Len(sent[r]) = i + 1)
  \/ i = Len(sent[r]) /\ i > n /\ done /\ sent[r][i] = [type |-> "done"]

\* What a tale is made of: text first, then the event, then [DONE].
LEMMA TaleParts ==
  ASSUME TypeOK, NEW r \in Request, NEW event \in {"none", "error", "usage"},
         NEW done \in BOOLEAN, NEW n \in 0 .. Len(sent[r]), Tale(r, n, event, done),
         NEW i \in 1 .. Len(sent[r])
  PROVE  Part(r, n, event, done, i)
<1>1. Len(sent[r]) \in Nat /\ n \in Nat /\ i \in Nat
  OBVIOUS
<1>2. /\ i <= n => sent[r][i] = DeltaEvent(r)
      /\ event = "error" => sent[r][n + 1] = [type |-> "error"]
      /\ event = "usage" => sent[r][n + 1] = UsageEvent(r)
      /\ done => sent[r][Len(sent[r])] = [type |-> "done"]
      /\ Len(sent[r]) = n + (IF event = "none" THEN 0 ELSE 1) + (IF done THEN 1 ELSE 0)
  BY <1>1 DEF Tale
<1>3. CASE event = "none"
  BY <1>1, <1>2, <1>3 DEF Part
<1>4. CASE event = "error"
  BY <1>1, <1>2, <1>4 DEF Part
<1>5. CASE event = "usage"
  BY <1>1, <1>2, <1>5 DEF Part
<1> QED
  BY <1>3, <1>4, <1>5

\* The types of the events of a stream.
LEMMA EventTypes ==
  ASSUME NEW r \in Request
  PROVE  /\ DeltaEvent(r).type = "delta" /\ UsageEvent(r).type = "usage"
         /\ DeltaEvent(r).provider = Entry(r)[1]
         /\ UsageEvent(r).usage = FinalUsage(r)
         /\ UsageEvent(r).cost = StreamCost(body[r], Entry(r)[1], FinalUsage(r))
         /\ [type |-> "error"].type = "error" /\ [type |-> "done"].type = "done"
BY DEF DeltaEvent, UsageEvent

\* Every SSE stream is text, then at most one of an error event and a usage
\* event, then [DONE] and nothing after it, and one that runs to its end has
\* its [DONE].
THEOREM StreamsAreWellFormed == Spec => []StreamWellFormed
<1>1. Story => StreamWellFormed
  <2> SUFFICES ASSUME Story, NEW r \in Request, body[r] # None, Stream(r)
               PROVE  /\ \A i \in DOMAIN sent[r] :
                           /\ sent[r][i].type \in {"error", "usage"} =>
                                /\ \A j \in 1 .. i - 1 : sent[r][j].type = "delta"
                                /\ \A j \in i + 1 .. Len(sent[r]) : sent[r][j].type = "done"
                           /\ sent[r][i].type = "done" => i = Len(sent[r])
                      /\ phase[r] = "done" /\ http[r] = 200 =>
                           Len(sent[r]) > 0 /\ sent[r][Len(sent[r])].type = "done"
    BY DEF StreamWellFormed
  <2>0. TypeOK /\ Heard(r) /\ sent[r] \in Seq(Event)
    BY DEF Story, IInv, TypeOK
  <2>1. CASE sent[r] = <<>>
    <3>1. ~(phase[r] = "done" /\ http[r] = 200)
      <4> SUFFICES ASSUME phase[r] = "done", http[r] = 200 PROVE FALSE
        OBVIOUS
      <4>1. Finished(r)
        BY <2>0 DEF Heard, Finished, StreamAnswer
      <4>2. Tells(r, Closing(r), TRUE)
        BY <2>0, <4>1 DEF Heard
      <4> QED
        BY <2>1, <4>2 DEF Tells, Tale
    <3> QED
      BY <2>1, <3>1
  <2>2. CASE sent[r] # <<>>
    <3>1. PICK event \in {"none", "error", "usage"}, done \in BOOLEAN :
            Tells(r, event, done) /\ (phase[r] = "done" => done)
      <4>1. phase[r] \in {"idle"} \cup InFlight \cup Settled
        BY <2>0 DEF TypeOK
      <4>2. phase[r] = "done" => Finished(r)
        BY <2>0, <2>2 DEF Heard, Finished, StreamAnswer, Answered, Undecided
      <4>3. CASE Telling(r)
        BY <2>0, <4>3 DEF Heard, Telling, Closing
      <4>4. CASE Finished(r)
        BY <2>0, <4>4 DEF Heard, Finished, Closing
      <4>5. CASE phase[r] \in {"cancelled", "lost"}
        BY <2>0, <2>2, <4>5 DEF Heard
      <4>6. ~Silent(r)
        BY <2>0, <2>2 DEF Heard
      <4> QED
        BY <4>1, <4>2, <4>3, <4>4, <4>5, <4>6
           DEF InFlight, Settled, Silent, Telling, Finished, Undecided
    <3>2. PICK n \in 0 .. Len(sent[r]) : Tale(r, n, event, done)
      BY <3>1 DEF Tells
    <3>3. Len(sent[r]) \in Nat /\ Len(sent[r]) > 0 /\ DOMAIN sent[r] = 1 .. Len(sent[r])
      BY <2>0, <2>2
    <3>4. ASSUME NEW i \in 1 .. Len(sent[r])
          PROVE  \/ i <= n /\ sent[r][i].type = "delta"
                 \/ /\ i = n + 1 /\ sent[r][i].type \in {"error", "usage"}
                    /\ Len(sent[r]) = i \/ (done /\ Len(sent[r]) = i + 1)
                 \/ i = Len(sent[r]) /\ i > n /\ done /\ sent[r][i].type = "done"
      <4>1. Part(r, n, event, done, i)
        BY <2>0, <3>1, <3>2, TaleParts
      <4>2. \A e : /\ e = [type |-> "error"] => e.type = "error"
                   /\ e = [type |-> "done"] => e.type = "done"
        OBVIOUS
      <4> QED
        BY <4>1, <4>2, EventTypes DEF Part
    <3>5. done => sent[r][Len(sent[r])].type = "done"
      BY <3>2 DEF Tale
    <3>6. ASSUME NEW i \in DOMAIN sent[r], sent[r][i].type \in {"error", "usage"}
          PROVE  /\ \A j \in 1 .. i - 1 : sent[r][j].type = "delta"
                 /\ \A j \in i + 1 .. Len(sent[r]) : sent[r][j].type = "done"
      <4>1. i \in 1 .. Len(sent[r]) /\ n \in Nat /\ i = n + 1
            /\ (Len(sent[r]) = i \/ Len(sent[r]) = i + 1)
        BY <3>3, <3>4, <3>6
      <4>2. ASSUME NEW j \in 1 .. i - 1 PROVE sent[r][j].type = "delta"
        BY <3>3, <3>4, <4>1
      <4>3. ASSUME NEW j \in i + 1 .. Len(sent[r]) PROVE sent[r][j].type = "done"
        BY <3>3, <3>4, <4>1
      <4> QED
        BY <4>2, <4>3
    <3>7. ASSUME NEW i \in DOMAIN sent[r], sent[r][i].type = "done"
          PROVE  i = Len(sent[r])
      BY <3>3, <3>4, <3>7
    <3> QED
      BY <3>1, <3>3, <3>5, <3>6, <3>7
  <2> QED
    BY <2>1, <2>2
<1> QED
  BY <1>1, StoryHolds, PTL

\* What a stream bills and tells: the usage event alone carries a bill, and
\* all text is from the entry that answered.
LEMMA StreamTold ==
  ASSUME TypeOK, NEW r \in Request, NEW event \in {"none", "error", "usage"},
         NEW done \in BOOLEAN, Tells(r, event, done),
         event = "usage" => FinalUsage(r) # None
  PROVE  /\ Told(r, "error") # {} <=> event = "error"
         /\ Bills(r) = IF event = "usage"
                       THEN {<<FinalUsage(r), StreamCost(body[r], Entry(r)[1], FinalUsage(r))>>}
                       ELSE {}
         /\ \A i \in Told(r, "delta") : sent[r][i].provider = Entry(r)[1]
<1>1. PICK n \in 0 .. Len(sent[r]) : Tale(r, n, event, done)
  BY DEF Tells
<1>2. sent[r] \in Seq(Event) /\ DOMAIN sent[r] = 1 .. Len(sent[r]) /\ Len(sent[r]) \in Nat
  BY DEF TypeOK
<1>3. ASSUME NEW i \in DOMAIN sent[r]
      PROVE  /\ sent[r][i].type \in {"delta", "error", "usage", "done"}
             /\ sent[r][i].type = "delta" => sent[r][i].provider = Entry(r)[1]
             /\ sent[r][i].type = "error" => event = "error"
             /\ sent[r][i].type = "usage" =>
                  /\ event = "usage" /\ sent[r][i].usage = FinalUsage(r)
                  /\ sent[r][i].cost = StreamCost(body[r], Entry(r)[1], FinalUsage(r))
  <2>1. Part(r, n, event, done, i)
    BY <1>1, <1>2, TaleParts
  <2>2. \A e : /\ e = [type |-> "error"] => e.type = "error"
               /\ e = [type |-> "done"] => e.type = "done"
    OBVIOUS
  <2> QED
    BY <2>1, <2>2, EventTypes DEF Part
<1>4. event # "none" => /\ n + 1 \in DOMAIN sent[r] /\ sent[r][n + 1].type = event
  <2>1. event # "none" => n + 1 \in DOMAIN sent[r]
    BY <1>1, <1>2 DEF Tale
  <2>2. event = "usage" => sent[r][n + 1].type = "usage"
    BY <1>1, EventTypes DEF Tale
  <2>3. event = "error" => sent[r][n + 1].type = "error"
    BY <1>1 DEF Tale
  <2> QED
    BY <2>1, <2>2, <2>3
<1>5. Told(r, "error") # {} <=> event = "error"
  BY <1>3, <1>4 DEF Told
<1>6. \A i \in Told(r, "delta") : sent[r][i].provider = Entry(r)[1]
  BY <1>3 DEF Told
<1>7. CASE event = "usage"
  <2> DEFINE due == <<FinalUsage(r), StreamCost(body[r], Entry(r)[1], FinalUsage(r))>>
  <2>1. \A i \in Told(r, "completion") \cup Told(r, "usage") :
          <<sent[r][i].usage, sent[r][i].cost>> = due
    BY <1>3 DEF Told
  <2>2. n + 1 \in Told(r, "completion") \cup Told(r, "usage")
    BY <1>4, <1>7 DEF Told
  <2>3. sent[r][n + 1].usage # None
    BY <1>3, <1>4, <1>7
  <2> DEFINE T == {j \in Told(r, "completion") \cup Told(r, "usage") : sent[r][j].usage # None}
  <2>4. (\A i \in T : <<sent[r][i].usage, sent[r][i].cost>> = due) /\ n + 1 \in T
    BY <2>1, <2>2, <2>3
  <2>5. Bills(r) = {<<sent[r][i].usage, sent[r][i].cost>> : i \in T}
    BY DEF Bills
  <2> HIDE DEF T, due
  <2>6. ASSUME NEW x PROVE x \in Bills(r) <=> x \in {due}
    <3>1. x \in Bills(r) <=> \E i \in T : x = <<sent[r][i].usage, sent[r][i].cost>>
      BY <2>5
    <3> QED
      BY <2>4, <3>1
  <2>7. Bills(r) = {due}
    <3>1. \A x : x \in Bills(r) <=> x \in {due}
      BY <2>6
    <3>2. Bills(r) \subseteq {due} /\ {due} \subseteq Bills(r)
      BY <3>1
    <3> QED
      BY <3>2
  <2> QED
    BY <1>5, <1>6, <1>7, <2>7 DEF due
<1>8. CASE event # "usage"
  <2> DEFINE T == {j \in Told(r, "completion") \cup Told(r, "usage") : sent[r][j].usage # None}
  <2>1. T = {}
    BY <1>3, <1>8 DEF Told
  <2>2. Bills(r) = {<<sent[r][i].usage, sent[r][i].cost>> : i \in T}
    BY DEF Bills
  <2> HIDE DEF T
  <2>3. Bills(r) = {}
    <3>1. ASSUME NEW x PROVE x \notin Bills(r)
      <4>1. x \in Bills(r) <=> \E i \in T : x = <<sent[r][i].usage, sent[r][i].cost>>
        BY <2>2
      <4> QED
        BY <2>1, <4>1
    <3> QED
      BY <3>1
  <2> QED
    BY <1>5, <1>6, <1>8, <2>3
<1> QED
  BY <1>7, <1>8

\* What a JSON reply bills and tells.
LEMMA JsonTold ==
  ASSUME NEW r \in Request, NEW b, NEW t, NEW u, sent[r] = <<JsonCompletion(b, t, u)>>
  PROVE  /\ Told(r, "error") = {} /\ Told(r, "delta") = {}
         /\ Bills(r) = IF u = None THEN {} ELSE {<<u, CalculateCost(t[1], t[2], u)>>}
<1>1. /\ DOMAIN sent[r] = {1} /\ sent[r][1].type = "completion"
      /\ sent[r][1].usage = u
      /\ u # None => sent[r][1].cost = CalculateCost(t[1], t[2], u)
  BY DEF JsonCompletion
<1>2. /\ Told(r, "error") = {} /\ Told(r, "delta") = {} /\ Told(r, "usage") = {}
      /\ Told(r, "completion") = {1}
  BY <1>1 DEF Told
<1> QED
  BY <1>1, <1>2 DEF Bills

\* A client that was sent nothing was told nothing.
LEMMA NothingTold ==
  ASSUME NEW r \in Request, sent[r] = <<>>
  PROVE  Bills(r) = {} /\ \A type : Told(r, type) = {}
<1>1. \A type : Told(r, type) = {}
  BY DEF Told
<1> QED
  BY <1>1 DEF Bills

\* What is due, and what the client of a finished request knows, by the way
\* the request ended.
LEMMA Endings ==
  ASSUME Story, NEW r \in Request, phase[r] = "done", response[r].status # 500
  PROVE  /\ http[r] \in {200, 502} /\ http[r] = response[r].status
         /\ Due(r).usage # None =>
              Bills(r) = {<<Due(r).usage, Due(r).cost>>}
         /\ Due(r).usage = None => Bills(r) = {}
         /\ Due(r).status = "error" <=> http[r] = 502 \/ Told(r, "error") # {}
         /\ Due(r).status = "fallback" <=>
              /\ ~(http[r] = 502 \/ Told(r, "error") # {})
              /\ Entry(r)[1] # body[r].provider
<1>1. /\ TypeOK /\ Heard(r) /\ Agrees(r) /\ body[r] \in Body
      /\ response[r] \in Answer /\ http[r] = response[r].status
      /\ response[r].status \in {200, 502}
  <2>1. Heard(r) /\ Agrees(r) /\ TypeOK /\ Shape(r)
    BY DEF Story, IInv, Written
  <2>2. response[r] \in Answer /\ http[r] = response[r].status /\ body[r] \in Body
    BY <2>1 DEF Heard, Shape
  <2> QED
    BY <2>1, <2>2 DEF Answer
<1>2. CASE response[r].status = 502
  <2>1. Due(r) = ErrorOutcome(body[r])
    BY <1>2 DEF Due
  <2>2. Due(r).usage = None /\ Due(r).status = "error"
    BY <2>1 DEF ErrorOutcome
  <2>3. sent[r] = <<>>
    BY <1>1, <1>2 DEF Heard, StreamAnswer, Answered, Undecided
  <2> QED
    BY <1>1, <1>2, <2>2, <2>3, NothingTold
<1>3. CASE response[r].status = 200 /\ Stream(r)
  <2>1. Tells(r, Closing(r), TRUE) /\ (errored[r] => ~chunk[r].final)
    BY <1>1, <1>3 DEF Heard, Finished, StreamAnswer
  <2>2. PICK event \in {"none", "error", "usage"} : event = Closing(r)
    BY DEF Closing
  <2>3. event = "usage" <=> FinalUsage(r) # None
    BY <2>1, <2>2 DEF Closing, FinalUsage
  <2>4. event = "error" <=> errored[r]
    BY <2>2 DEF Closing
  <2>5. Due(r) = StreamOutcome(body[r], Entry(r)[1], FinalUsage(r), errored[r])
    BY <1>3 DEF Due
  <2>6. /\ Due(r).usage = FinalUsage(r)
        /\ Due(r).cost = StreamCost(body[r], Entry(r)[1], FinalUsage(r))
        /\ Due(r).status = IF errored[r] THEN "error" ELSE StatusOf(Entry(r)[1], body[r])
    BY <2>5 DEF StreamOutcome
  <2>7. /\ Told(r, "error") # {} <=> event = "error"
        /\ Bills(r) = IF event = "usage"
                      THEN {<<FinalUsage(r), StreamCost(body[r], Entry(r)[1], FinalUsage(r))>>}
                      ELSE {}
    <3>1. PICK done \in BOOLEAN : Tells(r, event, done)
      BY <2>1, <2>2
    <3>2. TypeOK /\ (event = "usage" => FinalUsage(r) # None)
      BY <1>1, <2>3
    <3> QED
      BY <3>1, <3>2, StreamTold
  <2> QED
    BY <1>1, <1>3, <2>3, <2>4, <2>6, <2>7 DEF StatusOf
<1>4. CASE response[r].status = 200 /\ ~Stream(r)
  <2>1. PICK u \in Spent : response[r].event = JsonCompletion(body[r], Entry(r), u)
    BY <1>1, <1>4, NoneAssumption DEF Agrees
  <2>2. Due(r) = JsonOutcome(body[r], Entry(r), u)
    <3>1. response[r].event.usage = u
      BY <2>1 DEF JsonCompletion
    <3> QED
      BY <1>4, <3>1 DEF Due
  <2>3. /\ Due(r).usage = u /\ Due(r).cost = CalculateCost(Entry(r)[1], Entry(r)[2], u)
        /\ Due(r).status = StatusOf(Entry(r)[1], body[r])
    BY <2>2 DEF JsonOutcome
  <2>4. response[r].event # None
    <3>1. JsonCompletion(body[r], Entry(r), u) \in Completion
      <4>1. pos[r] \in 1 .. Len(Chain(r))
        BY <1>1, <1>4, NoneAssumption DEF Agrees
      <4>2. Entry(r)[1] \in Provider /\ Entry(r)[2] \in Model
        BY <1>1, <4>1, EntryType
      <4>3. CalculateCost(Entry(r)[1], Entry(r)[2], u) \in Cost /\ None \in Cost
        BY <4>2, CostType DEF Cost
      <4> QED
        BY <4>2, <4>3 DEF JsonCompletion, Completion
    <3> QED
      BY <2>1, <3>1, NoneAssumption
  <2>5. sent[r] = <<JsonCompletion(body[r], Entry(r), u)>>
    BY <1>1, <1>4, <2>1, <2>4 DEF Heard, StreamAnswer
  <2>6. /\ Told(r, "error") = {}
        /\ Bills(r) = IF u = None THEN {} ELSE {<<u, CalculateCost(Entry(r)[1], Entry(r)[2], u)>>}
    BY <2>5, JsonTold
  <2> QED
    BY <1>1, <1>4, <2>3, <2>6 DEF StatusOf
<1> QED
  BY <1>1, <1>2, <1>3, <1>4

\* The rows of a finished request.
LEMMA RowsOfTheEnd ==
  ASSUME Story, NEW r \in Request, phase[r] = "done"
  PROVE  /\ response[r].status = 500 => logs[r] = <<>> /\ usages[r] = <<>>
         /\ response[r].status # 500 /\ ~warned[r] =>
              /\ Len(logs[r]) = 1
              /\ usages[r] # <<>> <=> Due(r).usage # None
         /\ logs[r] # <<>> => logs[r][1] = LogRow(Due(r))
         /\ \A i \in DOMAIN usages[r] :
              usages[r][i] = UsageRow(Due(r), 1) /\ Due(r).usage # None
<1>1. /\ Agrees(r) /\ Entrusted(r) /\ response[r] \in Answer /\ TypeOK
  BY DEF Story, IInv, Written, Heard
<1>2. response[r].status = 500 => logs[r] = <<>> /\ usages[r] = <<>>
  BY <1>1 DEF Agrees, NoRows
<1>3. response[r].status # 500 /\ ~warned[r] =>
        /\ Len(logs[r]) = 1
        /\ usages[r] # <<>> <=> Due(r).usage # None
  BY <1>1 DEF Entrusted, Recorded
<1>4. logs[r] # <<>> => logs[r][1] = LogRow(Due(r))
  <2> SUFFICES ASSUME logs[r] # <<>> PROVE 1 \in DOMAIN logs[r]
    BY <1>1 DEF Agrees
  <2>1. logs[r] \in Seq(LogRows)
    BY <1>1 DEF TypeOK
  <2> QED
    BY <2>1
<1>5. \A i \in DOMAIN usages[r] :
        usages[r][i] = UsageRow(Due(r), 1) /\ Due(r).usage # None
  BY <1>1 DEF Agrees
<1> QED
  BY <1>2, <1>3, <1>4, <1>5

\* A request that ran to its end is on record if it was answered, with its tokens
\* exactly when the client was told about them, unless the failure to persist was
\* logged.
THEOREM NothingIsLost == Spec => []NothingLostSilently
<1>1. Story => NothingLostSilently
  <2> SUFFICES ASSUME Story, NEW r \in Request, phase[r] = "done", ~warned[r]
               PROVE  /\ http[r] # 500 => Len(logs[r]) = 1
                      /\ usages[r] # <<>> <=> Bills(r) # {}
    BY DEF NothingLostSilently
  <2>1. http[r] = response[r].status
    BY DEF Story, Heard
  <2>2. CASE http[r] = 500
    <3>1. usages[r] = <<>>
      <4>1. response[r].status = 500
        BY <2>1, <2>2
      <4>2. response[r].status = 500 => usages[r] = <<>>
        BY RowsOfTheEnd
      <4> QED
        BY <4>1, <4>2
    <3>2. sent[r] = <<>>
      <4>1. Heard(r)
        BY DEF Story
      <4>2. response[r].status # 200
        BY <2>1, <2>2
      <4> QED
        BY <4>1, <4>2 DEF Heard, Answered, Undecided, StreamAnswer
    <3>3. Bills(r) = {}
      BY <3>2, NothingTold
    <3> QED
      BY <2>2, <3>1, <3>3, ZenonT(60)
  <2>3. CASE http[r] # 500
    <3>1. Bills(r) # {} <=> Due(r).usage # None
      <4>1. /\ Due(r).usage # None => Bills(r) = {<<Due(r).usage, Due(r).cost>>}
            /\ Due(r).usage = None => Bills(r) = {}
        BY <2>1, <2>3, Endings
      <4>2. {<<Due(r).usage, Due(r).cost>>} # {}
        OBVIOUS
      <4> QED
        BY <4>1, <4>2, ZenonT(60)
    <3>2. Len(logs[r]) = 1 /\ (usages[r] # <<>> <=> Due(r).usage # None)
      BY <2>1, <2>3, RowsOfTheEnd
    <3> QED
      BY <2>3, <3>1, <3>2
  <2> QED
    BY <2>2, <2>3
<1> QED
  BY <1>1, StoryHolds, PTL

\* The status on record is what the client saw.
THEOREM RecordsTellTheTruth == Spec => []StatusTellsTheTruth
<1>1. Story => StatusTellsTheTruth
  <2> SUFFICES ASSUME Story, NEW r \in Request, phase[r] = "done", logs[r] # <<>>
               PROVE  LET failed == http[r] = 502 \/ Told(r, "error") # {}
                      IN  /\ logs[r][1].status = "error" <=> failed
                          /\ logs[r][1].status = "fallback" <=>
                               ~failed /\ Entry(r)[1] # body[r].provider
    BY DEF StatusTellsTheTruth
  <2>1. response[r].status # 500 /\ logs[r][1] = LogRow(Due(r))
    BY RowsOfTheEnd
  <2>2. logs[r][1].status = Due(r).status
    BY <2>1 DEF LogRow
  <2>3. /\ Due(r).status = "error" <=> http[r] = 502 \/ Told(r, "error") # {}
        /\ Due(r).status = "fallback" <=>
             /\ ~(http[r] = 502 \/ Told(r, "error") # {})
             /\ Entry(r)[1] # body[r].provider
    BY <2>1, Endings
  <2> QED
    BY <2>2, <2>3
<1> QED
  BY <1>1, StoryHolds, PTL

\* All the text of a stream is from one provider, the one on record.
THEOREM NoSecondServer == Spec => []OneServer
<1>1. Story => OneServer
  <2> SUFFICES ASSUME Story, NEW r \in Request, NEW i \in Told(r, "delta")
               PROVE  /\ sent[r][i].provider = Entry(r)[1]
                      /\ \A k \in DOMAIN logs[r] : logs[r][k].provider = Entry(r)[1]
    BY DEF OneServer
  <2>1. /\ Heard(r) /\ Agrees(r) /\ TypeOK /\ i \in DOMAIN sent[r]
        /\ sent[r][i].type = "delta"
    BY DEF Story, IInv, Written, Told
  <2>2. sent[r] # <<>> /\ ~Silent(r)
    BY <2>1 DEF Heard
  <2>3. phase[r] \in {"idle"} \cup InFlight \cup Settled
    BY <2>1 DEF TypeOK
  <2>4. PICK event \in {"none", "error", "usage"}, done \in BOOLEAN :
          /\ Tells(r, event, done) /\ StreamAnswer(r)
    <3>1. CASE Telling(r)
      BY <2>1, <3>1 DEF Heard, Telling, Closing
    <3>2. CASE Finished(r)
      BY <2>1, <3>2 DEF Heard, Finished, Closing
    <3>3. CASE phase[r] \in {"cancelled", "lost"}
      BY <2>1, <2>2, <3>3 DEF Heard
    <3>4. CASE phase[r] = "done" /\ ~StreamAnswer(r)
      <4>1. /\ response[r] \in Answer
            /\ sent[r] = IF response[r].event = None THEN <<>> ELSE <<response[r].event>>
        BY <2>1, <3>4 DEF Heard
      <4>2. sent[r] = <<response[r].event>> /\ response[r].event \in Completion
        BY <2>2, <4>1 DEF Answer
      <4>3. i = 1 /\ sent[r][1].type = "completion"
        BY <2>1, <4>2 DEF Completion
      <4> QED
        BY <2>1, <4>3
    <3> QED
      BY <2>2, <2>3, <3>1, <3>2, <3>3, <3>4
         DEF InFlight, Settled, Silent, Telling, Finished, Undecided
  <2>5. sent[r][i].provider = Entry(r)[1]
    <3>1. PICK n \in 0 .. Len(sent[r]) : Tale(r, n, event, done)
      BY <2>4 DEF Tells
    <3>2. i \in 1 .. Len(sent[r])
      <4>1. sent[r] \in Seq(Event)
        BY <2>1 DEF TypeOK
      <4> QED
        BY <2>1, <4>1
    <3>3. Part(r, n, event, done, i)
      BY <2>1, <3>1, <3>2, TaleParts
    <3>4. \A e : /\ e = [type |-> "error"] => e.type = "error"
                 /\ e = [type |-> "done"] => e.type = "done"
      OBVIOUS
    <3> QED
      BY <2>1, <3>3, <3>4, EventTypes DEF Part
  <2>6. ASSUME NEW k \in DOMAIN logs[r] PROVE logs[r][k].provider = Entry(r)[1]
    <3>1. logs[r][k] = LogRow(Due(r))
      BY <2>1 DEF Agrees
    <3>2. Due(r) = StreamOutcome(body[r], Entry(r)[1], FinalUsage(r), errored[r])
      BY <2>4 DEF Due, StreamAnswer
    <3> QED
      BY <3>1, <3>2 DEF LogRow, StreamOutcome
  <2> QED
    BY <2>5, <2>6
<1> QED
  BY <1>1, StoryHolds, PTL

\* A usage row holds the tokens and the cost the client was told, and a JSON
\* completion is recorded and priced as the entry that served it.
THEOREM BilledRight == Spec => []BilledAsServedAndTold
<1>1. Story => BilledAsServedAndTold
  <2> SUFFICES ASSUME Story, NEW r \in Request
               PROVE  /\ phase[r] = "done" => \A i \in DOMAIN usages[r] :
                           <<usages[r][i].usage, usages[r][i].cost>> \in Bills(r)
                      /\ body[r] # None /\ ~Stream(r) /\ response[r] # None =>
                           /\ response[r].status = 200 => \A i \in DOMAIN logs[r] :
                                <<logs[r][i].provider, logs[r][i].model>> = Entry(r)
                           /\ \A i \in DOMAIN usages[r] :
                                usages[r][i].cost = PriceOfEntry(r, usages[r][i].usage)
    BY DEF BilledAsServedAndTold
  <2>0. Agrees(r) /\ TypeOK /\ Shape(r) /\ Walked(r)
    BY DEF Story, IInv, Written
  <2>1. ASSUME phase[r] = "done", NEW i \in DOMAIN usages[r]
        PROVE  <<usages[r][i].usage, usages[r][i].cost>> \in Bills(r)
    <3>1. usages[r][i] = UsageRow(Due(r), 1) /\ Due(r).usage # None
      BY <2>1, RowsOfTheEnd
    <3>2. response[r].status # 500
      <4> SUFFICES ASSUME response[r].status = 500 PROVE FALSE
        OBVIOUS
      <4>1. usages[r] = <<>>
        BY <2>1, RowsOfTheEnd
      <4> QED
        BY <2>1, <4>1
    <3>3. Bills(r) = {<<Due(r).usage, Due(r).cost>>}
      BY <2>1, <3>1, <3>2, Endings
    <3> QED
      BY <3>1, <3>3 DEF UsageRow
  <2>2. ASSUME ~Stream(r), response[r] # None
        PROVE  /\ response[r].status = 200 => \A i \in DOMAIN logs[r] :
                    <<logs[r][i].provider, logs[r][i].model>> = Entry(r)
               /\ \A i \in DOMAIN usages[r] :
                    usages[r][i].cost = PriceOfEntry(r, usages[r][i].usage)
    <3>1. response[r] \in Answer
      BY <2>0, <2>2 DEF TypeOK
    <3>2. CASE response[r].status = 200
      <4>1. PICK u \in Spent : response[r].event = JsonCompletion(body[r], Entry(r), u)
        BY <2>0, <2>2, <3>2 DEF Agrees
      <4>2. response[r].event.usage = u
        BY <4>1 DEF JsonCompletion
      <4>3. Due(r) = JsonOutcome(body[r], Entry(r), u)
        BY <2>2, <3>2, <4>2 DEF Due
      <4>4. Entry(r) \in Target
        <5>1. phase[r] # "idle" /\ pos[r] \in 1 .. Len(Chain(r))
          BY <2>0, <2>2, <3>2 DEF Agrees, Walked, Undecided
        <5>2. body[r] \in Body
          BY <2>0, <5>1 DEF Shape
        <5> QED
          BY <5>1, <5>2, EntryType
      <4>5. ASSUME NEW i \in DOMAIN logs[r]
            PROVE  <<logs[r][i].provider, logs[r][i].model>> = Entry(r)
        <5>1. logs[r][i] = LogRow(JsonOutcome(body[r], Entry(r), u))
          BY <2>0, <4>3 DEF Agrees
        <5>2. /\ logs[r][i].provider = Entry(r)[1] /\ logs[r][i].model = Entry(r)[2]
          BY <5>1 DEF LogRow, JsonOutcome
        <5> QED
          BY <4>4, <5>2 DEF Target
      <4>6. ASSUME NEW i \in DOMAIN usages[r]
            PROVE  usages[r][i].cost = PriceOfEntry(r, usages[r][i].usage)
        <5>1. usages[r][i] = UsageRow(JsonOutcome(body[r], Entry(r), u), 1) /\ u # None
          <6>1. usages[r][i] = UsageRow(Due(r), 1) /\ Due(r).usage # None
            BY <2>0 DEF Agrees
          <6>2. JsonOutcome(body[r], Entry(r), u).usage = u
            BY DEF JsonOutcome
          <6> QED
            BY <4>3, <6>1, <6>2
        <5>2. /\ usages[r][i].usage = u
              /\ usages[r][i].cost = CalculateCost(Entry(r)[1], Entry(r)[2], u)
          BY <5>1 DEF UsageRow, JsonOutcome
        <5>3. Entry(r) = <<Entry(r)[1], Entry(r)[2]>>
          BY <4>4 DEF Target
        <5> QED
          BY <5>1, <5>2, <5>3 DEF CalculateCost, PriceOfEntry
      <4> QED
        BY <4>5, <4>6
    <3>3. CASE response[r].status = 502
      <4>1. Due(r).usage = None
        BY <3>3 DEF Due, ErrorOutcome
      <4> QED
        BY <2>0, <3>3, <4>1 DEF Agrees
    <3>4. CASE response[r].status = 500
      BY <2>0, <3>4 DEF Agrees, NoRows
    <3> QED
      BY <3>1, <3>2, <3>3, <3>4 DEF Answer
  <2> QED
    BY <2>1, <2>2
<1> QED
  BY <1>1, StoryHolds, PTL

-----------------------------------------------------------------------------
(* The contract.                                                           *)

SameRecord(q) == RecordOf(q)' = RecordOf(q) /\ ChargedTo(q)' = ChargedTo(q)

SameView(q) ==
  /\ Asked(q)' = Asked(q) /\ VerdictOn(q)' = VerdictOn(q) /\ http'[q] = http[q]
  /\ SameRecord(q)

\* The rows of a request follow its verdict.
Booked(r) ==
  /\ RecordOf(r) = <<>> <=> logs[r] = <<>>
  /\ ChargedTo(r) = <<>> <=> usages[r] = <<>>
  /\ logs[r] # <<>> =>
       /\ VerdictOn(r) # None
       /\ \E s \in Abstract!Status(r) :
            RecordOf(r) = <<[provider |-> VerdictOn(r).server, status |-> s]>>
  /\ usages[r] # <<>> =>
       /\ logs[r] # <<>> /\ logs[r][1].status # "error"
       /\ ChargedTo(r) = <<VerdictOn(r).server>>

-----------------------------------------------------------------------------
\* Who is on the rows, and how they call the outcome.
LEMMA DueFollows ==
  ASSUME Story, NEW r \in Request, logs[r] # <<>>
  PROVE  /\ response[r] # None /\ response[r].status \in {200, 502}
         /\ response[r].status = 502 =>
              /\ Due(r).provider = body[r].provider
              /\ Due(r).status = "error" /\ Due(r).usage = None
         /\ response[r].status = 200 =>
              /\ Due(r).provider = Entry(r)[1]
              /\ Due(r).status \in {"error", StatusOf(Entry(r)[1], body[r])}
         /\ Due(r).usage # None => Due(r).status # "error"
<1>1. TypeOK /\ Agrees(r) /\ Heard(r)
  BY DEF Story, IInv, Written
<1>2. response[r] \in Answer /\ response[r] # None /\ response[r].status # 500
  BY <1>1 DEF TypeOK, Agrees, NoRows
<1>3. response[r].status \in {200, 502}
  BY <1>2 DEF Answer
<1>4. CASE response[r].status = 502
  BY <1>2, <1>4 DEF Due, ErrorOutcome
<1>5. CASE response[r].status = 200 /\ Stream(r)
  <2>1. Due(r) = StreamOutcome(body[r], Entry(r)[1], FinalUsage(r), errored[r])
    BY <1>5 DEF Due
  <2>2. errored[r] => FinalUsage(r) = None
    BY <1>1 DEF Heard, FinalUsage
  <2>3. StatusOf(Entry(r)[1], body[r]) # "error"
    BY DEF StatusOf
  <2> QED
    BY <1>2, <1>5, <2>1, <2>2, <2>3 DEF StreamOutcome
<1>6. CASE response[r].status = 200 /\ ~Stream(r)
  <2>1. Due(r) = JsonOutcome(body[r], Entry(r), response[r].event.usage)
    BY <1>6 DEF Due
  <2>2. StatusOf(Entry(r)[1], body[r]) # "error"
    BY DEF StatusOf
  <2> QED
    BY <1>2, <1>6, <2>1, <2>2 DEF JsonOutcome
<1> QED
  BY <1>3, <1>4, <1>5, <1>6

\* A sequence that has no room for a second element.
LEMMA AtMostOne ==
  ASSUME NEW S, NEW s \in Seq(S), Len(s) <= 1, s # <<>>
  PROVE  Len(s) = 1 /\ DOMAIN s = {1} /\ s[1] \in S
<1>1. Len(s) \in Nat /\ DOMAIN s = 1 .. Len(s)
  OBVIOUS
<1>2. CASE Len(s) = 0
  BY <1>2
<1>3. CASE Len(s) = 1
  <2>1. DOMAIN s = {1}
    BY <1>1, <1>3
  <2> QED
    BY <1>3, <2>1
<1> QED
  BY <1>1, <1>2, <1>3

\* Whatever rows there are follow the verdict.
LEMMA RowsFollow == Story => \A r \in Request : Booked(r)
<1> SUFFICES ASSUME Story, NEW r \in Request PROVE Booked(r)
  OBVIOUS
<1>1. /\ logs[r] \in Seq(LogRows) /\ usages[r] \in Seq(UsageRows)
      /\ Len(logs[r]) <= 1 /\ Len(usages[r]) <= Len(logs[r])
      /\ Agrees(r)
  BY DEF Story, IInv, TypeOK, Rows, Written
<1>2. CASE logs[r] = <<>>
  <2>1. usages[r] = <<>>
    BY <1>1, <1>2
  <2> QED
    BY <1>2, <2>1 DEF Booked, RecordOf, ChargedTo
<1>3. CASE logs[r] # <<>>
  <2>1. /\ Len(logs[r]) = 1 /\ DOMAIN logs[r] = {1} /\ logs[r][1] \in LogRows
        /\ usages[r] = <<>> \/ (Len(usages[r]) = 1 /\ DOMAIN usages[r] = {1})
    BY <1>1, <1>3, AtMostOne
  <2>2. /\ logs[r][1] = LogRow(Due(r))
        /\ usages[r] # <<>> => usages[r][1] = UsageRow(Due(r), 1) /\ Due(r).usage # None
    BY <1>1, <2>1 DEF Agrees
  <2>3. /\ logs[r][1].provider = Due(r).provider /\ logs[r][1].status = Due(r).status
        /\ usages[r] # <<>> => usages[r][1].provider = Due(r).provider
    BY <2>2 DEF LogRow, UsageRow
  <2>4. RecordOf(r) = <<[provider |-> Due(r).provider, status |-> Due(r).status]>>
    BY <2>1, <2>3 DEF RecordOf
  <2>5. usages[r] # <<>> => ChargedTo(r) = <<Due(r).provider>>
    BY <2>1, <2>3 DEF ChargedTo
  <2>6. /\ VerdictOn(r) # None /\ VerdictOn(r).server = Due(r).provider
        /\ Due(r).status \in Abstract!Status(r)
    <3>1. body[r].provider \in Provider /\ phase[r] # "idle"
      BY <1>3, GatewayAssumption DEF Story, IInv, Shape, Rows, NoRows, ChatRequest, Settled
    <3>2. VerdictOn(r) = [code |-> response[r].status, server |-> Due(r).provider]
      BY <1>3, DueFollows DEF VerdictOn
    <3>3. Due(r).provider \in Provider
      BY <1>1, <2>1, <2>3 DEF LogRows
    <3>4. VerdictOn(r) \in [code : {200, 500, 502}, server : Provider]
      BY <3>2, <3>3, <1>3, DueFollows
    <3>5. Due(r).status \in Abstract!Status(r)
      <4>1. /\ [q \in Request |-> VerdictOn(q)][r].code = response[r].status
            /\ [q \in Request |-> VerdictOn(q)][r].server = Due(r).provider
            /\ [q \in Request |-> Asked(q)][r] = body[r].provider
        BY <3>1, <3>2 DEF Asked
      <4> QED
        BY <4>1, <1>3, DueFollows DEF Abstract!Status, StatusOf
    <3> QED
      BY <3>2, <3>4, <3>5, VerdictAssumption
  <2>7. RecordOf(r) # <<>> /\ (usages[r] = <<>> => ChargedTo(r) = <<>>)
    BY <2>4 DEF ChargedTo
  <2>8. usages[r] # <<>> => ChargedTo(r) # <<>> /\ logs[r][1].status # "error"
    <3>1. \A p : <<p>> # <<>>
      OBVIOUS
    <3>2. Due(r).usage # None => Due(r).status # "error"
      BY <1>3, DueFollows
    <3> QED
      BY <2>2, <2>3, <2>5, <3>1, <3>2
  <2> QED
    BY <1>3, <2>4, <2>5, <2>6, <2>7, <2>8 DEF Booked
<1> QED
  BY <1>2, <1>3

-----------------------------------------------------------------------------
(* What one request does to what the contract sees.                        *)

Asks(q) ==
  /\ Asked(q) = None /\ Asked(q)' \in Provider
  /\ VerdictOn(q)' = VerdictOn(q) /\ http'[q] = http[q] /\ SameRecord(q)

Decides(q) ==
  /\ Asked(q) # None /\ VerdictOn(q) = None
  /\ VerdictOn(q)' \in Abstract!Verdict(Asked(q))
  /\ Asked(q)' = Asked(q) /\ http'[q] = http[q] /\ SameRecord(q)

Replies(q) ==
  /\ VerdictOn(q) # None /\ http[q] = 0 /\ http'[q] = VerdictOn(q).code
  /\ Asked(q)' = Asked(q) /\ VerdictOn(q)' = VerdictOn(q) /\ SameRecord(q)

Records(q) ==
  /\ VerdictOn(q) # None /\ RecordOf(q) = <<>>
  /\ \E s \in Abstract!Status(q) :
       RecordOf(q)' = <<[provider |-> VerdictOn(q).server, status |-> s]>>
  /\ Asked(q)' = Asked(q) /\ VerdictOn(q)' = VerdictOn(q) /\ http'[q] = http[q]
  /\ ChargedTo(q)' = ChargedTo(q)

Charges(q) ==
  /\ RecordOf(q) # <<>> /\ ChargedTo(q) = <<>> /\ RecordOf(q)[1].status # "error"
  /\ ChargedTo(q)' = <<VerdictOn(q).server>>
  /\ Asked(q)' = Asked(q) /\ VerdictOn(q)' = VerdictOn(q) /\ http'[q] = http[q]
  /\ RecordOf(q)' = RecordOf(q)

Seen(q) == Asks(q) \/ Decides(q) \/ Replies(q) \/ Records(q) \/ Charges(q)

\* A step of one request is a step of the contract.
LEMMA SeenIsAbstract ==
  ASSUME NEW q \in Request, TypeOK, TypeOK', Seen(q),
         \A p \in Request \ {q} : SameView(p)
  PROVE  Abstract!Next
<1>h. /\ http \in [Request -> {0, 200, 500, 502}]
      /\ http' \in [Request -> {0, 200, 500, 502}]
  BY ZenonT(60) DEF TypeOK
<1>s. \A p \in Request \ {q} :
        /\ Asked(p)' = Asked(p) /\ VerdictOn(p)' = VerdictOn(p) /\ http'[p] = http[p]
        /\ RecordOf(p)' = RecordOf(p) /\ ChargedTo(p)' = ChargedTo(p)
  BY DEF SameView, SameRecord
<1>f. PICK as, vs, rs, cs :
        /\ as = [r \in Request |-> Asked(r)] /\ vs = [r \in Request |-> VerdictOn(r)]
        /\ rs = [r \in Request |-> RecordOf(r)] /\ cs = [r \in Request |-> ChargedTo(r)]
  OBVIOUS
<1>g. PICK a, v, c, d :
        /\ a = Asked(q)' /\ v = VerdictOn(q)' /\ c = RecordOf(q)' /\ d = ChargedTo(q)'
  OBVIOUS
<1>a. [r \in Request |-> Asked(r)]' = [as EXCEPT ![q] = a]
  BY <1>f, <1>g, <1>s
<1>v. [r \in Request |-> VerdictOn(r)]' = [vs EXCEPT ![q] = v]
  BY <1>f, <1>g, <1>s
<1>r. [r \in Request |-> RecordOf(r)]' = [rs EXCEPT ![q] = c]
  BY <1>f, <1>g, <1>s
<1>c. [r \in Request |-> ChargedTo(r)]' = [cs EXCEPT ![q] = d]
  BY <1>f, <1>g, <1>s
<1>k. /\ as[q] = a => [r \in Request |-> Asked(r)]' = as
      /\ vs[q] = v => [r \in Request |-> VerdictOn(r)]' = vs
      /\ rs[q] = c => [r \in Request |-> RecordOf(r)]' = rs
      /\ cs[q] = d => [r \in Request |-> ChargedTo(r)]' = cs
      /\ http'[q] = http[q] => http' = http
  BY <1>f, <1>a, <1>v, <1>r, <1>c, <1>h, <1>s
<1>q. as[q] = Asked(q) /\ vs[q] = VerdictOn(q) /\ rs[q] = RecordOf(q) /\ cs[q] = ChargedTo(q)
  BY <1>f
<1>1. CASE Asks(q)
  <2>1. Abstract!Ask(q)
    <3>1. /\ as[q] = None /\ a \in Provider /\ v = vs[q] /\ c = rs[q] /\ d = cs[q]
          /\ http'[q] = http[q]
      BY <1>1, <1>g, <1>q DEF Asks, SameRecord
    <3> QED
      BY <3>1, <1>f, <1>a, <1>k DEF Abstract!Ask
  <2> QED
    BY <2>1 DEF Abstract!Next
<1>2. CASE Decides(q)
  <2>1. Abstract!Decide(q)
    <3>1. /\ as[q] # None /\ vs[q] = None /\ v \in Abstract!Verdict(as[q])
          /\ a = as[q] /\ c = rs[q] /\ d = cs[q] /\ http'[q] = http[q]
      BY <1>2, <1>g, <1>q DEF Decides, SameRecord
    <3> QED
      BY <3>1, <1>f, <1>v, <1>k DEF Abstract!Decide
  <2> QED
    BY <2>1 DEF Abstract!Next
<1>3. CASE Replies(q)
  <2>1. Abstract!Reply(q)
    BY <1>3, <1>h, <1>s DEF Replies, SameRecord, Abstract!Reply
  <2> QED
    BY <2>1 DEF Abstract!Next
<1>4. CASE Records(q)
  <2>1. Abstract!Record(q)
    <3>1. PICK s \in Abstract!Status(q) : c = <<[provider |-> vs[q].server, status |-> s]>>
      BY <1>4, <1>g, <1>q DEF Records
    <3>2. /\ vs[q] # None /\ rs[q] = <<>> /\ a = as[q] /\ v = vs[q] /\ d = cs[q]
          /\ http'[q] = http[q]
      BY <1>4, <1>g, <1>q DEF Records
    <3> QED
      BY <3>1, <3>2, <1>f, <1>r, <1>k DEF Abstract!Record
  <2> QED
    BY <2>1 DEF Abstract!Next
<1>5. CASE Charges(q)
  <2>1. Abstract!Charge(q)
    <3>1. /\ rs[q] # <<>> /\ cs[q] = <<>> /\ rs[q][1].status # "error"
          /\ d = <<vs[q].server>> /\ a = as[q] /\ v = vs[q] /\ c = rs[q]
          /\ http'[q] = http[q]
      BY <1>5, <1>g, <1>q DEF Charges
    <3> QED
      BY <3>1, <1>f, <1>c, <1>k DEF Abstract!Charge
  <2> QED
    BY <2>1 DEF Abstract!Next
<1> QED
  BY <1>1, <1>2, <1>3, <1>4, <1>5 DEF Seen

\* Rows that stay are seen as they were.
LEMMA RowsStay ==
  ASSUME NEW q \in Request, logs'[q] = logs[q], usages'[q] = usages[q]
  PROVE  SameRecord(q)
BY DEF SameRecord, RecordOf, ChargedTo

\* What was asked and decided stays, where the walk and the response stay.
LEMMA WalkStays ==
  ASSUME NEW q \in Request, SameWalk(q), response'[q] = response[q],
         phase[q] = "idle" <=> phase'[q] = "idle"
  PROVE  Asked(q)' = Asked(q) /\ VerdictOn(q)' = VerdictOn(q)
<1>1. Entry(q)' = Entry(q) /\ body'[q] = body[q]
  BY SameNames DEF SameWalk
<1> QED
  BY <1>1 DEF Asked, VerdictOn

\* Nobody sees a request that stands still, nor the crash.
LEMMA StillUnseen ==
  ASSUME NEW q \in Request, Still(q) \/ Dies(q)
  PROVE  SameView(q)
<1>1. /\ SameWalk(q) /\ SameReply(q) /\ SameRows(q)
      /\ phase[q] = "idle" <=> phase'[q] = "idle"
  BY DEF Still, Dies, SameSave, InFlight
<1>2. SameRecord(q)
  BY <1>1, RowsStay DEF SameRows
<1> QED
  BY <1>1, <1>2, WalkStays DEF SameReply, SameView

\* A body that is accepted is asked, and the walk is not seen.
LEMMA WalkSeen ==
  ASSUME TypeOK, NEW q \in Request, Walked(q), Walked(q)',
         \/ Accept(q) \/ CallProvider(q)
         \/ SkipUnregistered(q) \/ CallFails(q) \/ StreamEmpty(q)
  PROVE  Seen(q) \/ SameView(q)
<1>1. /\ phase[q] \in Undecided /\ phase'[q] \in {"walk", "calling"}
      /\ Accept(q) => phase[q] = "idle" /\ body'[q] \in Body
      /\ ~Accept(q) => phase[q] # "idle" /\ body'[q] = body[q]
      /\ http'[q] = http[q] /\ SameRows(q)
  <2> USE DEF Moves, SameReply, SameSave, Undecided, SameWalk
  <2>1. CASE Accept(q)
    BY <2>1, AcceptMoves
  <2>2. CASE CallProvider(q)
    BY <2>2, CallProviderMoves DEF CallProvider, Go, Accept
  <2>3. ASSUME NEW from \in {"walk", "calling"}, NEW why, TryNext(q, from, why)
        PROVE  /\ phase[q] \in Undecided /\ phase'[q] = "walk" /\ phase[q] # "idle"
               /\ body'[q] = body[q] /\ http'[q] = http[q] /\ SameRows(q)
    BY <2>3, TryNextMoves
  <2>4. CASE SkipUnregistered(q) \/ CallFails(q) \/ StreamEmpty(q)
    BY <2>3, <2>4 DEF SkipUnregistered, CallFails, StreamEmpty, Accept, Go
  <2> QED
    BY <2>1, <2>2, <2>4
<1>2. VerdictOn(q) = None /\ VerdictOn(q)' = None
  BY <1>1 DEF Walked, VerdictOn, Undecided
<1>3. SameRecord(q)
  BY <1>1, RowsStay DEF SameRows
<1>4. CASE Accept(q)
  <2>1. Asked(q) = None /\ Asked(q)' \in Provider
    BY <1>1, <1>4, GatewayAssumption DEF Asked, ChatRequest
  <2> QED
    BY <1>1, <1>2, <1>3, <2>1 DEF Asks, Seen
<1>5. CASE ~Accept(q)
  BY <1>1, <1>2, <1>3, <1>5 DEF Asked, SameView
<1> QED
  BY <1>4, <1>5

\* What the end of the chain means for the client and the tables.
LEMMA ExhaustedAnswers ==
  ASSUME TypeOK, NEW q \in Request, Exhausted(q)
  PROVE  /\ phase[q] = "walk" /\ phase'[q] = IF Stream(q) THEN "log" ELSE "track"
         /\ response'[q] = [status |-> 502, event |-> None]
         /\ SameWalk(q) /\ http'[q] = http[q] /\ SameRows(q)
BY ExhaustedMoves, ZenonT(60) DEF Moves

\* The route decides.
LEMMA RouteSeen ==
  ASSUME IInv, IInv', NEW q \in Request, Walked(q),
         Exhausted(q) \/ CallRaises(q) \/ CallAnswers(q) \/ FirstChunk(q)
  PROVE  Decides(q)
<1>0. TypeOK
  BY DEF IInv
<1>1. /\ phase[q] \in {"walk", "calling"} /\ phase'[q] \in {"track", "respond", "log"}
      /\ SameWalk(q) /\ http'[q] = http[q] /\ SameRows(q)
      /\ \/ phase[q] = "calling" /\ response'[q].status = 200
         \/ response'[q].status \in {500, 502}
  <2> USE DEF Moves, SameSave
  <2>1. CASE Exhausted(q)
    <3>1. /\ phase[q] = "walk" /\ phase'[q] = IF Stream(q) THEN "log" ELSE "track"
          /\ response'[q] = [status |-> 502, event |-> None]
          /\ SameWalk(q) /\ http'[q] = http[q] /\ SameRows(q)
      BY <1>0, <2>1, ExhaustedAnswers
    <3> QED
      BY <3>1
  <2>2. CASE CallRaises(q)
    BY <1>0, <2>2, CallRaisesMoves
  <2>3. CASE CallAnswers(q)
    <3>1. /\ phase[q] = "calling" /\ phase'[q] = "track" /\ SameWalk(q)
          /\ http'[q] = http[q] /\ SameRows(q)
          /\ \E e : response'[q] = [status |-> 200, event |-> e]
      BY <1>0, <2>3, CallAnswersMoves, ZenonT(60)
    <3> QED
      BY <3>1
  <2>4. CASE FirstChunk(q)
    BY <1>0, <2>4, FirstChunkMoves
  <2> QED
    BY <2>1, <2>2, <2>3, <2>4
<1>2. /\ body'[q] = body[q] /\ body[q] \in Body /\ body[q].provider \in Provider
      /\ Entry(q)' = Entry(q)
      /\ response'[q] \in Answer /\ response'[q] # None /\ response[q] = None
      /\ phase[q] = "calling" => Entry(q)[1] \in Provider
  <2>1. body'[q] = body[q] /\ Entry(q)' = Entry(q)
    BY <1>1, SameNames DEF SameWalk
  <2>2. body[q] \in Body /\ (phase[q] = "calling" => pos[q] \in 1 .. Len(Chain(q)))
    BY <1>1 DEF IInv, Shape
  <2>3. response'[q] \in Answer
    BY <1>1 DEF IInv, Shape
  <2>4. body[q].provider \in Provider
    BY <2>2, GatewayAssumption DEF ChatRequest
  <2>5. phase[q] = "calling" => Entry(q)[1] \in Provider
    BY <2>2, EntryType
  <2>6. response[q] = None
    BY <1>1 DEF Walked, Undecided
  <2> QED
    BY <2>1, <2>2, <2>3, <2>4, <2>5, <2>6, NoneAssumption
<1>3. Asked(q) = body[q].provider /\ Asked(q)' = Asked(q) /\ Asked(q) # None
  BY <1>1, <1>2, VerdictAssumption DEF Asked
<1>4. VerdictOn(q) = None
  BY <1>2 DEF VerdictOn
<1>5. VerdictOn(q)' = [code |-> response'[q].status,
                      server |-> IF response'[q].status = 200 THEN Entry(q)[1]
                                                              ELSE body[q].provider]
  BY <1>2 DEF VerdictOn
<1>6. VerdictOn(q)' \in Abstract!Verdict(Asked(q))
  BY <1>1, <1>2, <1>3, <1>5 DEF Abstract!Verdict
<1>7. SameRecord(q)
  BY <1>1, RowsStay DEF SameRows
<1> QED
  BY <1>1, <1>3, <1>4, <1>6, <1>7 DEF Decides

\* Of what happens later only the reply and the rows are seen.
LEMMA LaterSeen ==
  ASSUME IInv, IInv', NEW q \in Request, Heard(q), Agrees(q), Booked(q), Booked(q)',
         Decided(q), Step(q)
  PROVE  Seen(q) \/ SameView(q)
<1>0. TypeOK
  BY DEF IInv
<1>1. Asked(q)' = Asked(q) /\ VerdictOn(q)' = VerdictOn(q)
  BY WalkStays DEF Decided, Undecided
<1>2. CASE NothingToTrack(q) \/ TrackOutcome(q) \/ Disconnect(q)
  <2>1. http'[q] = http[q] /\ SameRows(q)
    BY <1>0, <1>2, NothingToTrackMoves, TrackOutcomeMoves, DisconnectMoves
       DEF SameReply, SameSave
  <2> QED
    BY <1>1, <2>1, RowsStay DEF SameRows, SameView
<1>3. CASE \/ EmitChunk(q) \/ NextChunk(q) \/ StreamStops(q) \/ StreamFails(q)
           \/ EmitUsage(q) \/ EmitDone(q)
  <2>1. http'[q] = http[q] /\ SameRows(q)
    BY <1>0, <1>3, EmitChunkMoves, NextChunkMoves, StreamStopsMoves, StreamFailsMoves,
       EmitUsageMoves, EmitDoneMoves DEF SameReply, SameSave
  <2> QED
    BY <1>1, <2>1, RowsStay DEF SameRows, SameView
<1>4. CASE Respond(q)
  <2>1. phase[q] = "respond" /\ http'[q] = response[q].status /\ SameRows(q)
    BY <1>0, <1>4, RespondMoves DEF Moves, SameSave
  <2>2. http[q] = 0 /\ response[q] \in Answer
    BY <2>1 DEF Heard, Silent, IInv, Shape
  <2>3. VerdictOn(q).code = response[q].status /\ VerdictOn(q) # None
    <3>1. response[q] # None /\ response[q].status \in {200, 500, 502}
      BY <2>2, NoneAssumption DEF Answer
    <3>2. /\ body[q] \in Body /\ body[q].provider \in Provider
          /\ response[q].status = 200 => Entry(q)[1] \in Provider
      <4>1. body[q] \in Body
        BY <2>1 DEF IInv, Shape
      <4>2. response[q].status = 200 => pos[q] \in 1 .. Len(Chain(q))
        BY <2>1, <3>1 DEF Agrees, IInv, Shape, StreamAnswer, Streams
      <4> QED
        BY <4>1, <4>2, EntryType, GatewayAssumption DEF ChatRequest
    <3>3. VerdictOn(q) \in [code : {200, 500, 502}, server : Provider]
      BY <3>1, <3>2 DEF VerdictOn
    <3> QED
      BY <3>1, <3>3, VerdictAssumption DEF VerdictOn
  <2> QED
    BY <1>1, <2>1, <2>2, <2>3, RowsStay DEF SameRows, Seen, Replies
<1>5. CASE Database(q)
  <2>1. /\ http'[q] = http[q]
        /\ \/ usages'[q] = usages[q] /\ phase[q] = "log"
           \/ logs'[q] = logs[q] /\ phase[q] = "usage"
    BY <1>0, <1>5, LogOnlyMoves, LogCommitsMoves, UsageCommitsMoves, LogFailsMoves,
       UsageFailsMoves, ZenonT(60) DEF Database, SameReply, Moves
  <2>2. /\ phase[q] = "log" => logs[q] = <<>>
        /\ phase[q] = "usage" => logs[q] # <<>> /\ usages[q] = <<>>
    <3>1. phase[q] = "log" => logs[q] = <<>>
      BY DEF IInv, Rows, NoRows, Settled
    <3>2. phase[q] = "usage" => Len(logs[q]) = 1 /\ usages[q] = <<>>
      BY DEF IInv, Rows
    <3>3. logs[q] = <<>> => Len(logs[q]) = 0
      OBVIOUS
    <3>4. Len(logs[q]) = 1 => logs[q] # <<>>
      BY <3>3
    <3> QED
      BY <3>1, <3>2, <3>4
  <2>3. CASE logs'[q] = logs[q] /\ usages'[q] = usages[q]
    BY <1>1, <2>1, <2>3, RowsStay DEF SameView
  <2>4. CASE phase[q] = "log" /\ usages'[q] = usages[q] /\ logs'[q] # logs[q]
    <3>1. logs[q] = <<>> /\ logs'[q] # <<>>
      BY <2>2, <2>4
    <3>2. Abstract!Status(q)' = Abstract!Status(q)
      BY <1>1 DEF Abstract!Status
    <3>3. RecordOf(q) = <<>>
      BY <3>1 DEF Booked
    <3>4. /\ VerdictOn(q) # None
          /\ \E s \in Abstract!Status(q) :
               RecordOf(q)' = <<[provider |-> VerdictOn(q).server, status |-> s]>>
      BY <1>1, <3>1, <3>2 DEF Booked
    <3>5. ChargedTo(q)' = ChargedTo(q)
      BY <2>4 DEF ChargedTo
    <3> QED
      BY <1>1, <2>1, <3>3, <3>4, <3>5 DEF Records, Seen
  <2>5. CASE phase[q] = "usage" /\ logs'[q] = logs[q] /\ usages'[q] # usages[q]
    <3>1. usages[q] = <<>> /\ usages'[q] # <<>> /\ logs[q] # <<>>
      BY <2>2, <2>5
    <3>2. RecordOf(q) # <<>> /\ ChargedTo(q) = <<>>
      BY <3>1 DEF Booked
    <3>3. ChargedTo(q)' = <<VerdictOn(q).server>> /\ logs[q][1].status # "error"
      BY <1>1, <2>5, <3>1 DEF Booked
    <3>4. RecordOf(q)' = RecordOf(q)
      BY <2>5 DEF RecordOf
    <3>5. RecordOf(q)[1].status = logs[q][1].status
      <4>1. logs[q] \in Seq(LogRows) /\ Len(logs[q]) = 1
        BY <2>5 DEF IInv, TypeOK, Rows
      <4>2. 1 \in DOMAIN logs[q]
        BY <4>1
      <4> QED
        BY <4>2 DEF RecordOf
    <3> QED
      BY <1>1, <2>1, <3>2, <3>3, <3>4, <3>5 DEF Charges, Seen
  <2> QED
    BY <2>1, <2>3, <2>4, <2>5
<1>6. CASE \/ Accept(q) \/ CallProvider(q) \/ Exhausted(q) \/ CallRaises(q)
           \/ CallAnswers(q) \/ FirstChunk(q)
           \/ SkipUnregistered(q) \/ CallFails(q) \/ StreamEmpty(q)
  <2>1. phase[q] \in Undecided
    BY <1>6 DEF Accept, CallProvider, Exhausted, CallRaises, CallAnswers, FirstChunk,
       SkipUnregistered, CallFails, StreamEmpty, TryNext, Go, Undecided
  <2> QED
    BY <2>1 DEF Decided
<1> QED
  BY <1>2, <1>3, <1>4, <1>5, <1>6 DEF Step, Gateway, Upstream, CostTracking

-----------------------------------------------------------------------------
\* Nothing has been asked, told or written.
LEMMA InitMaps == Init => Abstract!Init
<1> SUFFICES ASSUME Init PROVE Abstract!Init
  OBVIOUS
<1>1. \A r \in Request :
        /\ Asked(r) = None /\ VerdictOn(r) = None
        /\ RecordOf(r) = <<>> /\ ChargedTo(r) = <<>>
  BY DEF Init, Asked, VerdictOn, RecordOf, ChargedTo
<1>2. http = [r \in Request |-> 0]
  BY DEF Init
<1> QED
  BY <1>1, <1>2 DEF Abstract!Init

\* Every step is a step of the contract or a stutter.
LEMMA NextMaps ==
  ASSUME Story, Story', [Next]_vars, \A r \in Request : Booked(r) /\ Booked(r)'
  PROVE  [Abstract!Next]_Abstract!contract
<1>1. IInv /\ IInv' /\ TypeOK /\ TypeOK'
  BY DEF Story, IInv
<1>2. ASSUME NEW q \in Request, Step(q) PROVE Seen(q) \/ SameView(q)
  <2>1. Walked(q) /\ Walked(q)' /\ Heard(q) /\ Agrees(q) /\ Booked(q) /\ Booked(q)'
    BY DEF Story, Written
  <2> QED
    BY <1>1, <1>2, <2>1, DecidedOnce, WalkSeen, RouteSeen, LaterSeen DEF Seen
<1>3. ASSUME NEW q \in Request, Seen(q), \A p \in Request \ {q} : SameView(p)
      PROVE  Abstract!Next
  BY <1>1, <1>3, SeenIsAbstract
<1>4. ASSUME \A q \in Request : SameView(q) PROVE UNCHANGED Abstract!contract
  <2>1. http' = http
    BY <1>1, <1>4 DEF TypeOK, SameView
  <2> QED
    BY <1>4, <2>1 DEF SameView, SameRecord, Abstract!contract
<1>5. ASSUME NEW q \in Request, Step(q) PROVE \A p \in Request \ {q} : SameView(p)
  BY <1>1, <1>5, OthersStill, StillUnseen
<1>6. CASE \E q \in Request : Step(q)
  BY <1>2, <1>3, <1>4, <1>5, <1>6
<1>7. CASE Crash \/ UNCHANGED vars
  <2>1. \A q \in Request : Still(q) \/ Dies(q)
    <3> USE DEF SameWalk, SameSse, SameReply, SameRows, SameSave,
               walkVars, sseVars, replyVars, saveVars
    <3>1. CASE Crash
      BY <1>1, <3>1 DEF TypeOK, Crash, Still, Dies
    <3>2. CASE UNCHANGED vars
      BY <3>2 DEF vars, Still
    <3> QED
      BY <1>7, <3>1, <3>2
  <2> QED
    BY <1>4, <2>1, StillUnseen
<1> QED
  BY <1>6, <1>7 DEF Next, Quiet

\* The gateway implements the contract, for any number of requests, any
\* chains, prices and registries, across crashes, disconnects and failing
\* writes: one verdict, and a reply, a request row and a usage row that
\* follow it, each at most once.
THEOREM KeepsTheContract == Spec => Contract
<1>1. Init => Abstract!Init
  BY InitMaps
<1>2. Story => \A r \in Request : Booked(r)
  BY RowsFollow
<1>3. Story' => (\A r \in Request : Booked(r))'
  BY <1>2, PTL
<1>4. Story /\ Story' /\ [Next]_vars => [Abstract!Next]_Abstract!contract
  BY <1>2, <1>3, NextMaps
<1> QED
  BY <1>1, <1>4, StoryHolds, PTL DEF Spec, Contract, Abstract!Spec

-----------------------------------------------------------------------------
(* The chain and its price, for every request, every configuration and     *)
(* every price list.                                                       *)

\* The default chain contributes its known names, except the primary provider,
\* in the configured order and with the provider's own default model.
LEMMA ExtrasPlaces ==
  ASSUME NEW p, NEW s \in SettingsType
  PROVE  /\ Len(DefaultExtras(p, s)) = Cardinality(Places(p, s))
         /\ \A i \in Places(p, s) :
              LET k == Cardinality({j \in Places(p, s) : j <= i})
              IN  /\ k \in 1 .. Len(DefaultExtras(p, s))
                  /\ DefaultExtras(p, s)[k] = <<s.chain[i], s.model[s.chain[i]]>>
<1> DEFINE c == s.chain
           S == Provider \ {p}
           names == Filter(c, S)
<1>1. c \in Seq(Name)
  BY DEF SettingsType
<1>2. DefaultExtras(p, s) = [i \in DOMAIN names |-> <<names[i], s.model[names[i]]>>]
  BY DEF DefaultExtras, Eligible
<1>3. Places(p, s) = KeptAt(c, S)
  <2>1. DOMAIN c = 1 .. Len(c)
    BY <1>1, LenProperties
  <2> QED
    BY <2>1 DEF Places, KeptAt
<1>5. /\ Len(names) = Cardinality(KeptAt(c, S))
      /\ \A i \in KeptAt(c, S) : /\ RankOf(c, S, i) \in 1 .. Len(names)
                               /\ names[RankOf(c, S, i)] = c[i]
  <2> HIDE DEF c, S
  <2> QED
    BY <1>1, FilterPlaces
<1>6. names \in Seq(Name)
  <2> HIDE DEF c, S
  <2> QED
    BY <1>1, FilterType, Zenon
<1> DEFINE D == DefaultExtras(p, s)
<1>7. Len(names) \in Nat /\ DOMAIN names = 1 .. Len(names)
  <2> HIDE DEF names
  <2> QED
    BY <1>6, LenProperties
<1>8. /\ Len(D) = Len(names)
      /\ \A k \in 1 .. Len(names) : D[k] = <<names[k], s.model[names[k]]>>
  <2> HIDE DEF names
  <2> QED
    BY <1>2, <1>7
<1> HIDE DEF names, c, S, D
<1>9. ASSUME NEW i \in Places(p, s)
      PROVE  LET k == Cardinality({j \in Places(p, s) : j <= i})
             IN  k \in 1 .. Len(D) /\ D[k] = <<c[i], s.model[c[i]]>>
  <2>1. i \in KeptAt(c, S) /\ RankOf(c, S, i) = Cardinality({j \in Places(p, s) : j <= i})
    BY <1>3, <1>9 DEF RankOf
  <2> DEFINE k == RankOf(c, S, i)
  <2>2. k \in 1 .. Len(names) /\ names[k] = c[i]
    BY <1>5, <2>1
  <2> HIDE DEF k
  <2>3. k \in 1 .. Len(D) /\ D[k] = <<c[i], s.model[c[i]]>>
    BY <1>8, <2>2
  <2> QED
    BY <2>1, <2>3 DEF k
<1> QED
  BY <1>3, <1>5, <1>8, <1>9 DEF D, c

\* What comes after the head of a sequence put together from one element and
\* another sequence.
LEMMA TailOfChain ==
  ASSUME NEW D, NEW d \in D, NEW t \in Seq(D)
  PROVE  /\ (<<d>> \o t)[1] = d
         /\ Len(<<d>> \o t) = 1 + Len(t)
         /\ \A k \in 1 .. Len(t) : (<<d>> \o t)[1 + k] = t[k]
         /\ Tail(<<d>> \o t) = t
         /\ <<d>> \o t # <<>>
         /\ <<d>> \o t \in Seq(D)
OBVIOUS

\* The chain of a request: its own target, then its own list or the places of
\* the default chain.
LEMMA BuiltAsAsked ==
  ASSUME NEW b \in ChatRequest, NEW s \in SettingsType
  PROVE  AsAsked(BuildFallbackChain(b, s), b, s)
<1> DEFINE head == <<b.provider, b.model>>
           E == DefaultExtras(b.provider, s)
           P == Places(b.provider, s)
           F == b.fallback
           plan == BuildFallbackChain(b, s)
<1>1. head \in Target /\ F \in Seq(Target)
  BY DEF ChatRequest, Target
<1>2. E \in Seq(Target)
  BY ExtrasType
<1>3. CASE F # <<>>
  <2>1. plan = <<head>> \o F
    BY <1>3 DEF BuildFallbackChain
  <2> HIDE DEF head, F, plan
  <2>2. plan[1] = head /\ Tail(plan) = F
    BY <1>1, <2>1, TailOfChain
  <2> QED
    BY <1>3, <2>2 DEF AsAsked, head, F, plan
<1>4. CASE F = <<>>
  <2>1. plan = <<head>> \o E
    BY <1>4 DEF BuildFallbackChain
  <2>2. /\ Len(E) = Cardinality(P)
        /\ \A i \in P : LET k == Cardinality({j \in P : j <= i})
                        IN  /\ k \in 1 .. Len(E)
                            /\ E[k] = <<s.chain[i], s.model[s.chain[i]]>>
    BY ExtrasPlaces
  <2> HIDE DEF head, E, P, plan
  <2>3. /\ plan[1] = head /\ Len(plan) = 1 + Len(E)
        /\ \A k \in 1 .. Len(E) : plan[1 + k] = E[k]
    BY <1>1, <1>2, <2>1, TailOfChain
  <2>4. /\ Len(plan) = 1 + Cardinality(P)
        /\ \A i \in P : plan[1 + Cardinality({j \in P : j <= i})] =
                          <<s.chain[i], s.model[s.chain[i]]>>
    BY <2>2, <2>3
  <2> QED
    BY <1>4, <2>3, <2>4, Zenon DEF AsAsked, head, P, F, plan
<1> QED
  BY <1>3, <1>4

\* A product of natural numbers is zero only if one of them is.
LEMMA ZeroProduct ==
  ASSUME NEW a \in Nat, NEW b \in Nat \ {0}, NEW c \in Nat, NEW d \in Nat \ {0}
  PROVE  /\ a * b + c * d \in Nat
         /\ a * b + c * d = 0 => a = 0 /\ c = 0
<1>1. a * b \in Nat /\ c * d \in Nat
  OBVIOUS
<1>2. a * b = 0 => a = 0
  OBVIOUS
<1>3. c * d = 0 => c = 0
  OBVIOUS
<1> QED
  BY <1>1, <1>2, <1>3

\* What a price says: zero means free of charge or no tokens, None unknown.
LEMMA PriceSays ==
  ASSUME NEW t \in Target, NEW u \in Spent
  PROVE  LET price == CalculateCost(t[1], t[2], u)
         IN  /\ price = 0 => \/ t[1] = FreeProvider
                             \/ u # None /\ u.prompt = 0 /\ u.completion = 0
             /\ t[1] = FreeProvider => price = 0
             /\ t[1] # FreeProvider =>
                  (price = None <=> u = None \/ t \notin DOMAIN Rate)
<1> DEFINE price == CalculateCost(t[1], t[2], u)
<1>1. t = <<t[1], t[2]>>
  BY DEF Target
<1>2. None # 0
  BY PricingAssumption
<1>3. CASE t[1] = FreeProvider
  BY <1>2, <1>3 DEF CalculateCost
<1>4. CASE t[1] # FreeProvider /\ (u = None \/ t \notin DOMAIN Rate)
  <2>1. price = None
    BY <1>1, <1>4 DEF CalculateCost
  <2> HIDE DEF price
  <2>2. price # 0
    BY <1>2, <2>1
  <2> QED
    BY <1>4, <2>1, <2>2 DEF price
<1>5. CASE t[1] # FreeProvider /\ u # None /\ t \in DOMAIN Rate
  <2> DEFINE rate == Rate[t]
  <2>1. price = u.prompt * rate.input + u.completion * rate.output
    BY <1>1, <1>5 DEF CalculateCost
  <2>2. /\ u.prompt \in Nat /\ u.completion \in Nat
        /\ rate.input \in Nat \ {0} /\ rate.output \in Nat \ {0}
    BY <1>5, PricingAssumption DEF Spent
  <2> HIDE DEF price, rate
  <2>3. price \in Nat /\ (price = 0 => u.prompt = 0 /\ u.completion = 0)
    <3> DEFINE a == u.prompt
               b == rate.input
               c == u.completion
               d == rate.output
    <3>1. a \in Nat /\ b \in Nat \ {0} /\ c \in Nat /\ d \in Nat \ {0}
      BY <2>2
    <3>2. price = a * b + c * d
      BY <2>1
    <3> HIDE DEF a, b, c, d
    <3>3. a * b + c * d \in Nat /\ (a * b + c * d = 0 => a = 0 /\ c = 0)
      BY <3>1, ZeroProduct
    <3> QED
      BY <3>2, <3>3 DEF a, c
  <2>4. price # None
    BY <2>3, PricingAssumption
  <2> QED
    BY <1>5, <2>3, <2>4 DEF price
<1> QED
  BY <1>3, <1>4, <1>5

\* When every provider has failed, what was tried is what was asked for: the
\* request's own target first, then its own list, or else each configured provider
\* but the primary one, once per mention and in order.
THEOREM ChainIsAsAsked == Spec => []ChainAsAsked
<1>1. Story => ChainAsAsked
  <2> SUFFICES ASSUME Story, NEW r \in Request,
                      response[r] # None, response[r].status = 502
               PROVE  AsAsked(Tried(r), body[r], Settings)
    BY DEF ChainAsAsked
  <2>1. Walked(r) /\ TypeOK /\ Shape(r) /\ phase[r] # "idle"
    BY DEF Story, IInv, Walked, Undecided
  <2>2. body[r] \in Body /\ Chain(r) \in Seq(Target)
    <3>1. body[r] \in Body
      BY <2>1 DEF Shape
    <3> QED
      BY <3>1, ChainType DEF Chain
  <2>3. attempts[r] \in Seq(Attempt)
    BY <2>1 DEF TypeOK
  <2>4. Len(attempts[r]) = Len(Chain(r))
    <3>1. Len(Chain(r)) \in Nat /\ pos[r] = Len(Chain(r)) + 1
      BY <2>1, <2>2 DEF Walked
    <3> QED
      BY <2>1, <3>1 DEF Walked
  <2>5. \A i \in DOMAIN attempts[r] : attempts[r][i].target = Chain(r)[i]
    BY <2>1 DEF Walked
  <2>6. Tried(r) = Chain(r)
    <3>1. DOMAIN attempts[r] = DOMAIN Chain(r)
      BY <2>2, <2>3, <2>4, LenProperties
    <3>2. Chain(r) = [i \in DOMAIN Chain(r) |-> Chain(r)[i]]
      BY <2>2
    <3> QED
      BY <2>5, <3>1, <3>2 DEF Tried
  <2>7. body[r] \in ChatRequest /\ Settings \in SettingsType
    BY <2>2, GatewayAssumption
  <2>8. AsAsked(Chain(r), body[r], Settings)
    BY <2>7, BuiltAsAsked DEF Chain
  <2> QED
    BY <2>6, <2>8
<1> QED
  BY <1>1, StoryHolds, PTL

\* What is due for a request that used tokens is priced as the pair it names.
LEMMA DueIsPriced ==
  ASSUME NEW r \in Request, Due(r).usage # None
  PROVE  Due(r).cost = CalculateCost(Due(r).provider, Due(r).model, Due(r).usage)
<1>1. CASE response[r].status = 502
  <2>1. Due(r).usage = None
    BY <1>1 DEF Due, ErrorOutcome
  <2> QED
    BY <2>1
<1>2. CASE response[r].status # 502 /\ Stream(r)
  BY <1>2 DEF Due, StreamOutcome, StreamCost
<1>3. CASE response[r].status # 502 /\ ~Stream(r)
  BY <1>3 DEF Due, JsonOutcome
<1> QED
  BY <1>1, <1>2, <1>3

\* No tokens are free by default: a cost of zero is Ollama's or that of no tokens,
\* and what has no price costs an unknown amount.
THEOREM NothingIsSilentlyFree == Spec => []NeverSilentlyFree
<1>1. Story => NeverSilentlyFree
  <2> SUFFICES ASSUME Story, NEW r \in Request, NEW i \in DOMAIN usages[r]
               PROVE  LET row == usages[r][i] IN
                      /\ row.cost = 0 => \/ row.provider = FreeProvider
                                         \/ row.usage.prompt = 0 /\ row.usage.completion = 0
                      /\ row.provider = FreeProvider => row.cost = 0
                      /\ row.provider # FreeProvider =>
                           (row.cost = None <=> <<row.provider, row.model>> \notin DOMAIN Rate)
    BY Zenon DEF NeverSilentlyFree
  <2> DEFINE row == usages[r][i]
             t == <<row.provider, row.model>>
             price == CalculateCost(t[1], t[2], row.usage)
  <2>1. row = UsageRow(Due(r), 1) /\ Due(r).usage # None
    BY DEF Story, Written, Agrees
  <2>2. row.cost = price
    <3>1. /\ row.provider = Due(r).provider /\ row.model = Due(r).model
          /\ row.usage = Due(r).usage /\ row.cost = Due(r).cost
      BY <2>1 DEF UsageRow
    <3> QED
      BY <2>1, <3>1, DueIsPriced
  <2>3. t \in Target /\ row.usage \in Usage
    <3>1. usages[r] \in Seq(UsageRows)
      BY DEF Story, IInv, TypeOK
    <3>2. row \in UsageRows
      BY <3>1
    <3> QED
      BY <3>2 DEF UsageRows, Target
  <2>4. row.usage \in Spent /\ row.usage # None
    BY <2>3, PricingAssumption DEF Spent
  <2>5. /\ price = 0 => \/ t[1] = FreeProvider
                        \/ row.usage.prompt = 0 /\ row.usage.completion = 0
        /\ t[1] = FreeProvider => price = 0
        /\ t[1] # FreeProvider => (price = None <=> t \notin DOMAIN Rate)
    BY <2>3, <2>4, PriceSays
  <2> QED
    BY <2>2, <2>5
<1> QED
  BY <1>1, StoryHolds, PTL

=============================================================================
