------------------------------ MODULE Providers ------------------------------
(***************************************************************************)
(* The four adapters, as far as they differ, the registry that is built    *)
(* from them at start-up, and the two conversions they share (common.py).  *)
(***************************************************************************)
EXTENDS Naturals, Sublists

CONSTANT None \* no usage, no credential, a block that is not text

ASSUME ProvidersAssumption == None \notin Nat

\* What _build_chat_model gives the SDK: whether a timeout is set.  That OpenAI
\* is asked to report the usage of a stream binds no other backend behind its
\* base_url, so it decides nothing here.
OpenAIChatModel == [timed |-> TRUE]
ClaudeChatModel == [timed |-> TRUE]
GeminiChatModel == [timed |-> TRUE]
OllamaChatModel == [timed |-> FALSE]

\* list_models and health_check: whether models are listed from the code or by
\* asking, whether a client is built inside the try block, and whether the
\* calls have a timeout.
OllamaChecksUntimed == [static |-> FALSE, guarded |-> TRUE, timed |-> FALSE]

OpenAIChecks == [static |-> TRUE, guarded |-> FALSE, timed |-> TRUE]
ClaudeChecks == [static |-> TRUE, guarded |-> FALSE, timed |-> TRUE]
GeminiChecks == [static |-> TRUE, guarded |-> TRUE, timed |-> TRUE]
OllamaChecks == [static |-> FALSE, guarded |-> TRUE, timed |-> TRUE]

\* _PROVIDER_FACTORIES: the order of the registry and what a provider needs.
Factories ==
  << [name |-> "openai",    needs |-> "openai_api_key",
      chat |-> OpenAIChatModel, checks |-> OpenAIChecks],
     [name |-> "anthropic", needs |-> "anthropic_api_key",
      chat |-> ClaudeChatModel, checks |-> ClaudeChecks],
     [name |-> "gemini",    needs |-> "google_api_key",
      chat |-> GeminiChatModel, checks |-> GeminiChecks],
     [name |-> "ollama",    needs |-> None,
      chat |-> OllamaChatModel, checks |-> OllamaChecks] >>

ProviderName == {Factories[i].name : i \in DOMAIN Factories}
Credential   == {"openai_api_key", "anthropic_api_key", "google_api_key"}

Adapter(p) == LET i == CHOOSE i \in DOMAIN Factories : Factories[i].name = p
              IN  Factories[i]

\* The names of the registry, in order, given the credentials that are set.
BuildProviderRegistry(keys) ==
  LET kept == Filter(Factories, {f \in Range(Factories) : f.needs \in keys \cup {None}})
  IN  [i \in DOMAIN kept |-> kept[i].name]

-----------------------------------------------------------------------------
\* Only the first block is looked at.
FirstBlock(content) ==
  IF content = <<>> \/ content[1] = None THEN <<>> ELSE <<content[1]>>

\* A content is a sequence of blocks, a number standing for the text of a text
\* block and None for any other block; a delta is the texts it consists of.
NormalizeContent(content) == Filter(content, Nat)

\* usage_metadata maps some of these fields to numbers; it may be empty.
Field == {"input_tokens", "output_tokens", "total_tokens"}

Tokens(metadata, field) ==
  IF field \in DOMAIN metadata THEN metadata[field] ELSE 0

\* The fields under the names of the SDK.
UsageRaw(metadata) == IF DOMAIN metadata = {} THEN None ELSE metadata

UsageFromMetadata(metadata) ==
  IF DOMAIN metadata = {} THEN None
  ELSE [prompt     |-> Tokens(metadata, "input_tokens"),
        completion |-> Tokens(metadata, "output_tokens"),
        total      |-> Tokens(metadata, "total_tokens")]

=============================================================================
