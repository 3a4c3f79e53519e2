--------------------------- MODULE FallbackChain ---------------------------
(***************************************************************************)
(* The pure part of a chat completion: which (provider, model) pairs a     *)
(* request may be served by, in which order, and what a completion costs.  *)
(*                                                                         *)
(* A request body is a record of the fields of ChatRequest that decide     *)
(* anything: provider, model, fallback (a sequence of targets) and stream. *)
(* The settings are a record of default_fallback_chain_list and of the     *)
(* per-provider default models.                                            *)
(***************************************************************************)
EXTENDS Integers, Sublists

CONSTANTS
  Provider,     \* the names ChatRequest.provider accepts (a Literal type)
  Model,        \* model names
  Name,         \* what DEFAULT_FALLBACK_CHAIN may hold, a mistyped name included
  Usage,        \* the token usages a provider may report: [prompt, completion]
  None,         \* Python's None
  FreeProvider, \* the provider calculate_cost never prices ("ollama")
  Rate          \* PRICING_TABLE: a partial function from targets to rates

Target == Provider \X Model

ChatRequest == [provider : Provider, model : Model,
                fallback : Seq(Target), stream : BOOLEAN]

\* default_fallback_chain_list and the four *_default_model settings.
SettingsType == [chain : Seq(Name), model : [Provider -> Model]]

ASSUME PricingAssumption ==
  /\ None \notin Nat
  /\ None \notin Usage
  /\ Usage \subseteq [prompt : Nat, completion : Nat]
  /\ DOMAIN Rate \subseteq Target
  /\ \A t \in DOMAIN Rate : Rate[t] \in [input : Nat \ {0}, output : Nat \ {0}]

-----------------------------------------------------------------------------
(* The chain a request is tried along.                                     *)

\* A default chain that offers the primary provider a second time.
EligibleWithPrimary(p) == Provider

\* The names of the default chain that may follow a request for provider p:
\* neither p itself nor a name without a configured default model.
Eligible(p) == Provider \ {p}

DefaultExtras(p, settings) ==
  LET names == Filter(settings.chain, Eligible(p))
  IN  [i \in DOMAIN names |-> <<names[i], settings.model[names[i]]>>]

BuildFallbackChain(b, settings) ==
  <<<<b.provider, b.model>>>> \o
    (IF b.fallback # <<>> THEN b.fallback
                          ELSE DefaultExtras(b.provider, settings))

-----------------------------------------------------------------------------
(* Pricing, in millionths of the unit the rates are given in: the rates    *)
(* are per million tokens, so the products need no division.               *)

\* A price for a pair that is not in the table: zero instead of unknown.
CostOrZero(p, m, u) ==
  IF p = FreeProvider \/ u = None \/ <<p, m>> \notin DOMAIN Rate
  THEN 0
  ELSE u.prompt * Rate[<<p, m>>].input + u.completion * Rate[<<p, m>>].output

CalculateCost(p, m, u) ==
  IF p = FreeProvider THEN 0
  ELSE IF u = None \/ <<p, m>> \notin DOMAIN Rate THEN None
  ELSE u.prompt * Rate[<<p, m>>].input + u.completion * Rate[<<p, m>>].output

=============================================================================
