--------------------------- MODULE MCChatGateway ---------------------------
(***************************************************************************)
(* Small instances of the chat completion: the four providers the gateway  *)
(* knows, gemini without an API key, a default chain with a repeated and a *)
(* mistyped name, and bodies that reach each way a chain can be built.     *)
(***************************************************************************)
EXTENDS ChatGatewayProperties

Adapters == INSTANCE Providers

MCProvider   == Adapters!ProviderName
MCModel      == {"gpt", "mini", "claude", "flash", "llama"}
MCUsage      == {[prompt |-> 3, completion |-> 2]}
MCUsages     == MCUsage \cup {[prompt |-> 0, completion |-> 0], [prompt |-> 0, completion |-> 2]}
MCName       == MCProvider \cup {"mistyped"}

\* What build_provider_registry makes of the two keys that are set, and the
\* providers whose chat client gets a timeout.
MCRegistered ==
  LET built == Adapters!BuildProviderRegistry({"openai_api_key", "anthropic_api_key"})
  IN  {built[i] : i \in DOMAIN built}
MCTimed == {p \in MCProvider : Adapters!Adapter(p).chat.timed}

\* The priced pairs; <<"openai", "gpt">> has a price, <<"openai", "claude">>
\* and <<"anthropic", "gpt">> have none.
MCRate ==
  [t \in {<<"openai", "gpt">>, <<"openai", "mini">>, <<"anthropic", "claude">>} |->
     CASE t[2] = "gpt"    -> [input |-> 250, output |-> 1000]
       [] t[2] = "mini"   -> [input |-> 15, output |-> 60]
       [] t[2] = "claude" -> [input |-> 100, output |-> 500]]

MCSettings ==
  [chain |-> <<"openai", "gemini", "mistyped", "anthropic", "gemini">>,
   model |-> [p \in MCProvider |->
                CASE p = "openai" -> "mini" [] p = "anthropic" -> "claude"
                  [] p = "gemini" -> "flash" [] p = "ollama" -> "llama"]]

Ask(p, m, f, s) == [provider |-> p, model |-> m, fallback |-> f, stream |-> s]

\* Every kind of chain: the default one, an explicit one, one whose first
\* entry is not registered, one that stays with its provider, and Ollama.
MCBody ==
  {Ask("openai", "gpt", <<>>, s) : s \in BOOLEAN}
    \cup {Ask("anthropic", "claude", <<>>, s) : s \in BOOLEAN}
    \cup {Ask("gemini", "flash", <<<<"anthropic", "claude">>>>, s) : s \in BOOLEAN}
    \cup {Ask("openai", "gpt", <<<<"openai", "mini">>, <<"openai", "gpt">>>>, s) : s \in BOOLEAN}
    \cup {Ask("openai", "llama", <<<<"ollama", "llama">>>>, s) : s \in BOOLEAN}

\* One body, JSON and SSE, that may be served by either of two providers.
MCBodyPair == {Ask("openai", "gpt", <<<<"anthropic", "claude">>>>, s) : s \in BOOLEAN}

\* One body that can be served by a timed provider only, and one that may
\* have to wait for Ollama.
MCBodySettle ==
  {Ask("openai", "gpt", <<>>, s) : s \in BOOLEAN}
    \cup {Ask("openai", "gpt", <<<<"ollama", "llama">>>>, TRUE)}

=============================================================================
