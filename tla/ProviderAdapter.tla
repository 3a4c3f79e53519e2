--------------------------- MODULE ProviderAdapter ---------------------------
(***************************************************************************)
(* generate and stream of the adapters: what they make of the messages and *)
(* chunks of an SDK for a caller that pulls, waits or goes away.  The four *)
(* adapters share this code; their clients differ, the steps of a call do  *)
(* not.                                                                    *)
(***************************************************************************)
EXTENDS Providers

CONSTANTS
  Call,      \* the calls of a run
  Metadata,  \* what an SDK may report as usage_metadata
  MaxPulls   \* bound: chunks an SDK delivers per call

ASSUME AdapterAssumption ==
  /\ \A m \in Metadata : DOMAIN m \subseteq Field /\ m \in [DOMAIN m -> Nat]
  /\ MaxPulls \in Nat
  /\ None \notin [provider : ProviderName, stream : BOOLEAN]
  /\ None \notin [prompt : Nat, completion : Nat, total : Nat]

VARIABLES
  phase,       \* idle, build, answer or chunk (awaiting the SDK), text or
               \* final (suspended at a yield), or how the call ended
  ask,         \* which adapter is called, and for a stream or an answer
  sdk,         \* history: what the SDK delivered, [content, metadata]
  final_usage, \* the local of stream
  given        \* what the caller got: StreamChunks, or one ProviderResult

vars == <<phase, ask, sdk, final_usage, given>>

Awaiting  == {"answer", "chunk"}
Suspended == {"text", "final"}
Ended     == {"returned", "exhausted", "failed", "raised", "left"}

\* The k-th message or chunk of an SDK: empty, text, another kind of block, or
\* a mix.  Texts are numbered in the order they are said.
Content(k) == {<<>>, <<2 * k>>, <<None>>, <<2 * k, None, 2 * k + 1>>}

Item(delta, final, usage) == [delta |-> delta, final |-> final, usage |-> usage]

-----------------------------------------------------------------------------
Init ==
  /\ phase       = [c \in Call |-> "idle"]
  /\ ask         = [c \in Call |-> None]
  /\ sdk         = [c \in Call |-> <<>>]
  /\ final_usage = [c \in Call |-> None]
  /\ given       = [c \in Call |-> <<>>]

Go(c, from, to) == phase[c] = from /\ phase' = [phase EXCEPT ![c] = to]

Give(c, item) == given' = [given EXCEPT ![c] = Append(@, item)]

\* generate is awaited, or the first item of stream is.
Start(c) ==
  /\ Go(c, "idle", "build")
  /\ \E p \in ProviderName, s \in BOOLEAN :
       ask' = [ask EXCEPT ![c] = [provider |-> p, stream |-> s]]
  /\ UNCHANGED <<sdk, final_usage, given>>

Build(c) ==
  /\ Go(c, "build", IF ask[c].stream THEN "chunk" ELSE "answer")
  /\ UNCHANGED <<ask, sdk, final_usage, given>>

\* Building the client, and for a stream converting the messages, is outside
\* the try block.
BuildRaises(c) ==
  /\ Go(c, "build", "raised")
  /\ UNCHANGED <<ask, sdk, final_usage, given>>

Deliver(c, content, metadata) ==
  sdk' = [sdk EXCEPT ![c] =
            Append(@, [content |-> content, metadata |-> metadata])]

\* ainvoke returns a message that the conversions accept.
Answers(c) ==
  /\ Go(c, "answer", "returned")
  /\ \E content \in Content(1), m \in Metadata :
       /\ Deliver(c, content, m)
       /\ Give(c, Item(NormalizeContent(content), TRUE, UsageFromMetadata(m)))
  /\ UNCHANGED <<ask, final_usage>>

\* The conversions of an answer are outside the try block.
AnswerUnusable(c) ==
  /\ Go(c, "answer", "raised")
  /\ UNCHANGED <<ask, sdk, final_usage, given>>

\* A chunk without metadata erases what was reported.
FoldLast(usage, metadata) == UsageFromMetadata(metadata)

Fold(usage, metadata) ==
  IF UsageFromMetadata(metadata) # None THEN UsageFromMetadata(metadata)
  ELSE usage

\* A chunk arrives, with a report of any kind: none, the usage so far, or what
\* is new since the last one.  The latest report counts, with a text or without.
Arrive(c, content) ==
  /\ Len(sdk[c]) < MaxPulls
  /\ \E m \in Metadata :
       /\ Deliver(c, content, m)
       /\ final_usage' = [final_usage EXCEPT ![c] = Fold(@, m)]
  /\ UNCHANGED ask

PullText(c) == \E content \in Content(Len(sdk[c]) + 1) :
  /\ NormalizeContent(content) # <<>>
  /\ Go(c, "chunk", "text")
  /\ Arrive(c, content)
  /\ Give(c, Item(NormalizeContent(content), FALSE, None))

PullSilence(c) == \E content \in Content(Len(sdk[c]) + 1) :
  /\ NormalizeContent(content) = <<>>
  /\ phase[c] = "chunk"
  /\ Arrive(c, content)
  /\ UNCHANGED <<phase, given>>

\* The end of the SDK's stream, whether or not it reported a usage: the final
\* item.
PullEnd(c) ==
  /\ Go(c, "chunk", "final")
  /\ Give(c, Item(<<>>, TRUE, final_usage[c]))
  /\ UNCHANGED <<ask, sdk, final_usage>>

\* The adapter calls the SDK again instead of reporting the failure.
SdkFailsRetried(c) ==
  /\ phase[c] \in Awaiting
  /\ phase' = [phase EXCEPT ![c] = "build"]
  /\ UNCHANGED <<ask, sdk, final_usage, given>>

\* Anything the SDK raises, a chunk that cannot be converted included, becomes
\* a ProviderCallError; a streamed usage seen so far is dropped.
SdkFails(c) ==
  /\ phase[c] \in Awaiting
  /\ phase' = [phase EXCEPT ![c] = "failed"]
  /\ UNCHANGED <<ask, sdk, final_usage, given>>

Resume(c) ==
  /\ Go(c, "text", "chunk")
  /\ UNCHANGED <<ask, sdk, final_usage, given>>

Exhaust(c) ==
  /\ Go(c, "final", "exhausted")
  /\ UNCHANGED <<ask, sdk, final_usage, given>>

\* The caller is cancelled while it waits, or closes the generator at a yield:
\* CancelledError and GeneratorExit are no Exception and are let through.
Leave(c) ==
  /\ phase[c] \in Awaiting \cup Suspended
  /\ phase' = [phase EXCEPT ![c] = "left"]
  /\ UNCHANGED <<ask, sdk, final_usage, given>>

Quiet ==
  /\ \A c \in Call : phase[c] \in Ended
  /\ UNCHANGED vars

Step(c) ==
  \/ Start(c) \/ Build(c) \/ BuildRaises(c)
  \/ Answers(c) \/ AnswerUnusable(c)
  \/ PullText(c) \/ PullSilence(c) \/ PullEnd(c) \/ SdkFails(c)
  \/ Resume(c) \/ Exhaust(c) \/ Leave(c)

Next == (\E c \in Call : Step(c)) \/ Quiet

Spec == Init /\ [][Next]_vars

-----------------------------------------------------------------------------
Usage == [prompt : Nat, completion : Nat, total : Nat]

\* Every variable holds values of its type in every reachable state.
TypeOK ==
  /\ phase \in [Call -> {"idle", "build"} \cup Awaiting \cup Suspended \cup Ended]
  /\ ask \in [Call -> [provider : ProviderName, stream : BOOLEAN] \cup {None}]
  /\ final_usage \in [Call -> Usage \cup {None}]
  /\ \A c \in Call :
       /\ ask[c] = None <=> phase[c] = "idle"
       /\ \A i \in DOMAIN given[c] : given[c][i].usage \in Usage \cup {None}

\* A usage that has room for what a report says.
Covers(usage, metadata) ==
  DOMAIN metadata # {} =>
    /\ usage # None
    /\ Tokens(metadata, "input_tokens") <= usage.prompt
    /\ Tokens(metadata, "output_tokens") <= usage.completion
    /\ Tokens(metadata, "total_tokens") <= usage.total

Closed(c) == phase[c] \in {"returned", "final", "exhausted"}

LastUsage(c) == given[c][Len(given[c])].usage

\* Each report of a call contains those before it, as "LangChain aggregates both
\* onto usage_metadata" (claude_provider.py:81) supposes.
Cumulative(c) == \A i, j \in DOMAIN sdk[c] :
  i <= j /\ DOMAIN sdk[c][j].metadata # {} =>
    \A f \in DOMAIN sdk[c][i].metadata :
      f \in DOMAIN sdk[c][j].metadata /\ sdk[c][i].metadata[f] <= sdk[c][j].metadata[f]

\* Whatever an SDK reports, in pieces or not, on whichever chunk and whatever
\* comes after it: a call that is complete has a usage exactly if something was
\* reported, and it is one of the reports, never made up of several.  If each
\* report contains those before it, nothing that was reported is lost.
UsageKept == \A c \in Call : Closed(c) =>
  /\ LastUsage(c) = None <=> \A i \in DOMAIN sdk[c] : DOMAIN sdk[c][i].metadata = {}
  /\ LastUsage(c) # None =>
       \E i \in DOMAIN sdk[c] : LastUsage(c) = UsageFromMetadata(sdk[c][i].metadata)
  /\ Cumulative(c) => \A i \in DOMAIN sdk[c] : Covers(LastUsage(c), sdk[c][i].metadata)

Heard(c) == FlattenSeq([i \in DOMAIN given[c] |-> given[c][i].delta])

Said(c) ==
  Filter(FlattenSeq([i \in DOMAIN sdk[c] |-> sdk[c][i].content]), Nat)

\* The caller hears every text the provider has said so far, in that order and
\* once, also when the stream fails or is left later; blocks that are no text
\* are dropped and never become an empty delta.
TextKept == \A c \in Call :
  /\ Heard(c) = Said(c)
  /\ \A i \in DOMAIN given[c] : given[c][i].delta = <<>> => given[c][i].final

HasFinal(c) == \E i \in DOMAIN given[c] : given[c][i].final

\* Where a call is, for its caller.
StateOf(c) ==
  IF phase[c] = "idle" THEN "new"
  ELSE IF phase[c] \in {"failed", "raised", "left"} THEN phase[c]
  ELSE IF HasFinal(c) THEN "complete" ELSE "open"

Abstract == INSTANCE ProviderContract WITH
  state <- [c \in Call |-> StateOf(c)],
  texts <- [c \in Call |-> Len(Heard(c))]

\* An adapter implements the contract that the executor and the SSE generator
\* get by with: texts, then exactly one end, and nothing but ProviderCallError
\* once a text was given.  base.py:53-55 promises more, no other exception ever;
\* ChatGateway has what becomes of one (CallRaises, EveryAnswerRecorded).
Contract == Abstract!Spec

-----------------------------------------------------------------------------
(* What the documentation says and the code does not do.                   *)

\* The usage of a complete stream of Claude or Gemini has room for every report
\* on any of its chunks: the two that claude_provider.py:79-81 tells of, the
\* input first and the output later, are aggregated, and the tokens of every
\* request are persisted (README.md:36).
AllTokensCounted == \A c \in Call :
  Closed(c) /\ ask[c].stream /\ ask[c].provider \in {"anthropic", "gemini"} =>
    \A i \in DOMAIN sdk[c] : Covers(LastUsage(c), sdk[c][i].metadata)

=============================================================================
