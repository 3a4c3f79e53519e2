--------------------------- MODULE DiscoveryProofs ---------------------------
(***************************************************************************)
(* Proofs about Discovery for any number of requests and any providers     *)
(* whose client may not be buildable.  The invariant adds to the types     *)
(* that a task which raised is a health check which built its client       *)
(* outside the try block, and what a task that is done may have returned:  *)
(* a status in a report on health, and the models if they are part of the  *)
(* code.  The registry is a sequence of provider names, and what a report  *)
(* leaves out of it is decided by these results.                           *)
(***************************************************************************)
EXTENDS Discovery, DataLemmas

Unguarded == {"openai", "anthropic"}

Blamed(r) ==
  /\ \A p \in ProviderName : task[r][p] = "raised" =>
       what[r] = "health" /\ p \in broken \cap Unguarded
  /\ phase[r] = "failed" =>
       what[r] = "health" /\ \E p \in Names : p \in broken \cap Unguarded

\* The report leaves out nobody who should be in it.
Complete(r) ==
  IF what[r] = "health" THEN report[r] = registry
  ELSE \A p \in Names : Checks(p).static => \E i \in DOMAIN report[r] : report[r][i] = p

\* What the tasks of a request returned, and what became of it.
Gathered(r) ==
  /\ \A p \in ProviderName : task[r][p] = "asking" => ~Listed(r, p)
  /\ \A p \in ProviderName : task[r][p] = "done" =>
       /\ what[r] = "health" => result[r][p] # "nothing"
       /\ what[r] = "models" /\ Checks(p).static => result[r][p] # "nothing"
  /\ phase[r] = "idle" => \A p \in ProviderName : task[r][p] = "none"
  /\ phase[r] # "idle" => what[r] \in {"health", "models"}
  /\ phase[r] = "answered" => Complete(r)

IInv ==
  /\ TypeOK
  /\ registry \in Seq(ProviderName)
  /\ report \in [Request -> Seq(ProviderName)]
  /\ \A r \in Request : Blamed(r) /\ Gathered(r)

-----------------------------------------------------------------------------
\* Which health checks let the exception of a client out.
LEMMA OnlyTheUnguarded ==
  ASSUME NEW p \in ProviderName, ~Checks(p).guarded
  PROVE  p \in Unguarded
<1>1. /\ DOMAIN Factories = 1 .. 4
      /\ Factories[1].name = "openai" /\ Factories[2].name = "anthropic"
      /\ Factories[3].name = "gemini" /\ Factories[4].name = "ollama"
  BY DEF Factories
<1>2. Factories[3].checks.guarded /\ Factories[4].checks.guarded
  BY DEF Factories, GeminiChecks, OllamaChecks
<1>3. PICK i \in DOMAIN Factories : Factories[i].name = p /\ Adapter(p) = Factories[i]
  <2>1. \E i \in DOMAIN Factories : Factories[i].name = p
    BY DEF ProviderName
  <2> QED
    BY <2>1 DEF Adapter
<1>4. i \notin {3, 4}
  BY <1>2, <1>3 DEF Checks
<1> QED
  BY <1>1, <1>3, <1>4 DEF Unguarded

\* The registry lists names of providers, whatever credentials are set.
LEMMA RegistryType ==
  ASSUME NEW keys
  PROVE  BuildProviderRegistry(keys) \in Seq(ProviderName)
<1> DEFINE D == Range(Factories)
           kept == Filter(Factories, {f \in D : f.needs \in keys \cup {None}})
<1>1. Factories \in Seq(D) /\ DOMAIN Factories = 1 .. 4
  BY DEF Factories, Range
<1>2. kept \in Seq(D)
  <2> HIDE DEF D
  <2> QED
    BY <1>1, FilterType
<1>3. \A f \in D : f.name \in ProviderName
  BY DEF Range, ProviderName
<1> HIDE DEF D, kept
<1>4. /\ DOMAIN kept = 1 .. Len(kept) /\ Len(kept) \in Nat
      /\ \A i \in 1 .. Len(kept) : kept[i].name \in ProviderName
  BY <1>2, <1>3, LenProperties, ElementOfSeq
<1>5. [i \in 1 .. Len(kept) |-> kept[i].name] \in Seq(ProviderName)
  BY <1>4, IsASeq
<1> QED
  BY <1>4, <1>5 DEF BuildProviderRegistry, kept, D

\* Whatever is left out of the registry, names of providers are left.
LEMMA RegistryNames ==
  ASSUME registry \in Seq(ProviderName)
  PROVE  Names \subseteq ProviderName /\ DOMAIN registry = 1 .. Len(registry)
BY LenProperties, ElementOfSeq DEF Names

\* No request has come.
LEMMA InitInv == Init => IInv
<1> SUFFICES ASSUME Init PROVE IInv
  OBVIOUS
<1>1. registry \in Seq(ProviderName)
  BY RegistryType DEF Init
<1>2. TypeOK
  BY <1>1, RegistryNames, DiscoveryAssumption DEF Init, TypeOK
<1>3. \A r \in Request : Blamed(r) /\ Gathered(r)
  BY DEF Init, Blamed, Gathered
<1>4. report \in [Request -> Seq(ProviderName)]
  BY EmptySeq DEF Init
<1> QED
  BY <1>1, <1>2, <1>3, <1>4 DEF IInv

\* A request gathers tasks, none of which has raised.
LEMMA GatherStep ==
  ASSUME IInv, NEW r \in Request, Gather(r)
  PROVE  IInv'
<1>1. PICK w \in {"health", "models"} : what' = [what EXCEPT ![r] = w]
  BY DEF Gather
<1>2. /\ phase[r] = "idle" /\ phase' = [phase EXCEPT ![r] = "gather"]
      /\ task' = [task EXCEPT ![r] =
           [p \in ProviderName |-> IF p \in Names THEN "ready" ELSE "none"]]
      /\ registry' = registry /\ broken' = broken
      /\ result' = result /\ report' = report
  BY DEF Gather, Go, env
<1>3. TypeOK'
  BY <1>1, <1>2 DEF IInv, TypeOK, Names
<1>4. Blamed(r)' /\ Gathered(r)'
  BY <1>1, <1>2 DEF IInv, TypeOK, Blamed, Gathered, Listed
<1>5. ASSUME NEW q \in Request \ {r} PROVE Blamed(q)' /\ Gathered(q)'
  <2>1. /\ phase'[q] = phase[q] /\ task'[q] = task[q] /\ what'[q] = what[q]
        /\ result'[q] = result[q] /\ report'[q] = report[q]
    BY <1>1, <1>2, <1>5 DEF IInv, TypeOK
  <2> QED
    BY <1>2, <2>1 DEF IInv, Blamed, Gathered, Complete, Listed, Names
<1> QED
  BY <1>2, <1>3, <1>4, <1>5 DEF IInv

\* A task goes on; if it raises, a client could not be built.
LEMMA TaskStep ==
  ASSUME IInv, NEW r \in Request, NEW p \in ProviderName,
         Run(r, p) \/ Answers(r, p) \/ CallFails(r, p)
  PROVE  IInv'
<1>1. PICK to \in {"asking", "done", "raised"} :
        /\ task[r][p] \in {"ready", "asking"}
        /\ task' = [task EXCEPT ![r][p] = to]
        /\ to = "raised" => Raises(r, p)
  BY DEF Run, Answers, CallFails, ListStatic, AskProvider, ClientRaises, ClientFails,
     Becomes
<1>2. /\ registry' = registry /\ broken' = broken /\ what' = what /\ phase' = phase
      /\ report' = report
      /\ \/ result' = result
         \/ \E v \in {"up", "down", "models", "nothing"} :
              result' = [result EXCEPT ![r][p] = v]
  BY DEF Run, Answers, CallFails, ListStatic, AskProvider, ClientRaises, ClientFails,
     Returns, Failure, env
<1>3. TypeOK'
  <2>1. task' \in [Request -> [ProviderName -> {"none", "ready", "asking", "done", "raised"}]]
    BY <1>1 DEF IInv, TypeOK
  <2>2. result' \in [Request -> [ProviderName -> {"up", "down", "models", "nothing", None}]]
    <3>1. result \in [Request -> [ProviderName -> {"up", "down", "models", "nothing", None}]]
      BY DEF IInv, TypeOK
    <3>2. CASE result' = result
      BY <3>1, <3>2
    <3>3. CASE \E v \in {"up", "down", "models", "nothing"} :
                 result' = [result EXCEPT ![r][p] = v]
      <4>1. PICK v \in {"up", "down", "models", "nothing", None} :
              result' = [result EXCEPT ![r][p] = v]
        BY <3>3
      <4> QED
        BY <3>1, <4>1
    <3> QED
      BY <1>2, <3>2, <3>3
  <2> QED
    BY <1>2, <2>1, <2>2 DEF IInv, TypeOK, Names
<1>4. \A q \in Request, o \in ProviderName : task'[q][o] = "raised" =>
        task[q][o] = "raised" \/ (q = r /\ o = p /\ Raises(r, p))
  BY <1>1 DEF IInv, TypeOK
<1>5. Raises(r, p) => what[r] = "health" /\ p \in broken \cap Unguarded
  BY OnlyTheUnguarded DEF Raises
<1>6. \A q \in Request : Blamed(q)'
  BY <1>2, <1>4, <1>5 DEF IInv, Blamed, Names
<1>7. \A q \in Request, o \in ProviderName : ~(q = r /\ o = p) =>
        task'[q][o] = task[q][o] /\ result'[q][o] = result[q][o]
  BY <1>1, <1>2 DEF IInv, TypeOK
<1>8. to = "done" =>
        /\ what[r] = "health" => result'[r][p] # "nothing"
        /\ what[r] = "models" /\ Checks(p).static => result'[r][p] # "nothing"
  <2> SUFFICES ASSUME to = "done"
               PROVE  \/ what[r] = "health" /\ result'[r][p] # "nothing"
                      \/ what[r] # "health" /\ ~Listed(r, p)
                      \/ result'[r][p] = "models"
    BY DEF Listed
  <2>1. /\ task'[r][p] = "done"
        /\ \A v : result' = [result EXCEPT ![r][p] = v] => result'[r][p] = v
    BY <1>1 DEF IInv, TypeOK
  <2>2. CASE ListStatic(r, p)
    BY <2>1, <2>2 DEF ListStatic, Returns
  <2>3. CASE ClientFails(r, p)
    BY <2>1, <2>3 DEF ClientFails, Returns, Failure
  <2>4. CASE Answers(r, p) \/ CallFails(r, p)
    <3>1. ~Listed(r, p)
      BY <2>4 DEF Answers, CallFails, Becomes, IInv, Gathered
    <3> QED
      BY <2>1, <2>4, <3>1 DEF Answers, CallFails, Returns, Failure
  <2>5. CASE AskProvider(r, p) \/ ClientRaises(r, p)
    BY <1>1, <2>1, <2>5 DEF AskProvider, ClientRaises, Becomes, IInv, TypeOK
  <2> QED
    BY <2>2, <2>3, <2>4, <2>5 DEF Run
<1>9. \A q \in Request : Gathered(q)'
  <2> SUFFICES ASSUME NEW q \in Request PROVE Gathered(q)'
    OBVIOUS
  <2>1. \A o \in ProviderName : task'[q][o] = "asking" => ~Listed(q, o)'
    <3>1. to = "asking" => ~Listed(r, p)
      BY <1>1 DEF Run, Answers, CallFails, ListStatic, AskProvider, ClientRaises,
         ClientFails, Becomes, IInv, TypeOK
    <3>2. task'[r][p] = to
      BY <1>1 DEF IInv, TypeOK
    <3> QED
      BY <1>2, <1>7, <3>1, <3>2 DEF IInv, Gathered, Listed
  <2>2. \A o \in ProviderName : task'[q][o] = "done" =>
          /\ what'[q] = "health" => result'[q][o] # "nothing"
          /\ what'[q] = "models" /\ Checks(o).static => result'[q][o] # "nothing"
    <3>1. task'[r][p] = to
      BY <1>1 DEF IInv, TypeOK
    <3> SUFFICES ASSUME NEW o \in ProviderName, task'[q][o] = "done"
                 PROVE  /\ what'[q] = "health" => result'[q][o] # "nothing"
                        /\ what'[q] = "models" /\ Checks(o).static =>
                             result'[q][o] # "nothing"
      OBVIOUS
    <3>2. CASE q = r /\ o = p
      BY <1>2, <1>8, <3>1, <3>2
    <3>3. CASE ~(q = r /\ o = p)
      BY <1>2, <1>7, <3>3 DEF IInv, Gathered
    <3> QED
      BY <3>2, <3>3
  <2>3. phase[q] = "idle" => \A o \in ProviderName : task'[q][o] = "none"
    BY <1>1, <1>7 DEF IInv, Gathered
  <2>4. Complete(q) => Complete(q)'
    BY <1>2 DEF Complete, Names
  <2> QED
    BY <1>2, <2>1, <2>2, <2>3, <2>4 DEF IInv, Gathered
<1> QED
  BY <1>2, <1>3, <1>6, <1>9 DEF IInv

\* What the answers of all tasks make a report on health, and one on models.
LEMMA ReportedAll ==
  ASSUME IInv, NEW r \in Request
  PROVE  /\ Reported(r) \in Seq(ProviderName)
         /\ (\A p \in Names : task[r][p] = "done") =>
              /\ what[r] = "health" => Reported(r) = registry
              /\ what[r] = "models" => \A p \in Names : Checks(p).static =>
                   \E i \in DOMAIN Reported(r) : Reported(r)[i] = p
<1> DEFINE S == {p \in ProviderName : result[r][p] # "nothing"}
<1>1. registry \in Seq(ProviderName) /\ Names \subseteq ProviderName
  BY RegistryNames DEF IInv
<1>2. Reported(r) = Filter(registry, S)
  BY DEF Reported
<1>3. Reported(r) \in Seq(ProviderName)
  BY <1>1, <1>2, FilterType
<1>4. ASSUME \A p \in Names : task[r][p] = "done", what[r] = "health"
      PROVE  Reported(r) = registry
  <2>1. \A p \in Names : p \in S
    BY <1>1, <1>4 DEF IInv, Gathered
  <2> HIDE DEF S
  <2>2. registry \in Seq(S)
    <3>1. \A i \in 1 .. Len(registry) : registry[i] \in S
      BY <1>1, <2>1, RegistryNames DEF Names
    <3>2. Len(registry) \in Nat /\ registry = [i \in 1 .. Len(registry) |-> registry[i]]
      BY <1>1, LenProperties
    <3> QED
      BY <3>1, <3>2, IsASeq
  <2> QED
    BY <1>2, <2>2, FilterAll
<1>5. ASSUME \A p \in Names : task[r][p] = "done", what[r] = "models",
             NEW p \in Names, Checks(p).static
      PROVE  \E i \in DOMAIN Reported(r) : Reported(r)[i] = p
  <2>1. p \in S
    BY <1>1, <1>5 DEF IInv, Gathered
  <2>2. PICK j \in DOMAIN registry : registry[j] = p
    BY DEF Names
  <2> HIDE DEF S
  <2> QED
    <3>1. \A i \in DOMAIN registry : registry[i] \in S =>
            \E k \in DOMAIN Filter(registry, S) : Filter(registry, S)[k] = registry[i]
      BY <1>1, FilterFinds
    <3> QED
      BY <1>2, <2>1, <2>2, <3>1, Zenon
<1> QED
  BY <1>3, <1>4, <1>5

\* gather returns, or passes an exception on.
LEMMA EndStep ==
  ASSUME IInv, NEW r \in Request, Collect(r) \/ Propagate(r)
  PROVE  IInv'
<1>1. PICK to \in {"answered", "failed"} :
        /\ phase' = [phase EXCEPT ![r] = to]
        /\ to = "failed" => \E p \in Names : task[r][p] = "raised"
  BY DEF Collect, Propagate, Go
<1>2. /\ registry' = registry /\ broken' = broken /\ what' = what
      /\ task' = task /\ result' = result
  BY DEF Collect, Propagate, env
<1>3. TypeOK'
  BY <1>1, <1>2 DEF IInv, TypeOK, Names
<1>4. to = "failed" =>
        what[r] = "health" /\ \E p \in Names : p \in broken \cap Unguarded
  BY <1>1 DEF IInv, TypeOK, Blamed
<1>5. \A q \in Request : Blamed(q)'
  BY <1>1, <1>2, <1>4 DEF IInv, TypeOK, Blamed, Names
<1>6. report' \in [Request -> Seq(ProviderName)]
  <2>1. CASE Propagate(r)
    BY <2>1 DEF Propagate, IInv
  <2>2. CASE Collect(r)
    BY <2>2, ReportedAll DEF Collect, IInv
  <2> QED
    BY <2>1, <2>2
<1>7. \A q \in Request : q # r => Gathered(q)'
  <2> SUFFICES ASSUME NEW q \in Request, q # r PROVE Gathered(q)'
    OBVIOUS
  <2>1. phase'[q] = phase[q] /\ report'[q] = report[q]
    BY DEF Collect, Propagate, Go, IInv, TypeOK
  <2> QED
    BY <1>2, <2>1 DEF IInv, Gathered, Complete, Listed, Names
<1>8. Gathered(r)'
  <2>1. CASE Propagate(r)
    BY <1>2, <2>1 DEF Propagate, Go, IInv, TypeOK, Gathered, Listed, Names
  <2>2. CASE Collect(r)
    <3>1. report'[r] = Reported(r) /\ phase'[r] = "answered" /\ phase[r] = "gather"
      BY <2>2 DEF Collect, Go, IInv, TypeOK
    <3>2. \A p \in Names : task[r][p] = "done"
      BY <2>2 DEF Collect
    <3>3. what[r] \in {"health", "models"}
      BY <3>1 DEF IInv, Gathered
    <3>4. /\ what[r] = "health" => Reported(r) = registry
          /\ what[r] = "models" => \A p \in Names : Checks(p).static =>
               \E i \in DOMAIN Reported(r) : Reported(r)[i] = p
      BY <3>2, ReportedAll, Zenon
    <3>5. Names' = Names
      BY <1>2 DEF Names
    <3>6. Complete(r)'
      <4>1. CASE what[r] = "health"
        BY <1>2, <3>1, <3>4, <4>1 DEF Complete
      <4>2. CASE what[r] = "models"
        BY <1>2, <3>1, <3>4, <3>5, <4>2 DEF Complete
      <4> QED
        BY <3>3, <4>1, <4>2
    <3> QED
      BY <1>2, <3>1, <3>6 DEF IInv, Gathered, Listed
  <2> QED
    BY <2>1, <2>2
<1> QED
  BY <1>2, <1>3, <1>5, <1>6, <1>7, <1>8 DEF IInv

\* Every step keeps the invariant.
LEMMA NextInv == IInv /\ [Next]_vars => IInv'
<1> SUFFICES ASSUME IInv, [Next]_vars PROVE IInv'
  OBVIOUS
<1>1. ASSUME NEW r \in Request, Step(r) PROVE IInv'
  BY <1>1, GatherStep, TaskStep, EndStep DEF Step
<1>2. CASE UNCHANGED vars
  BY <1>2 DEF vars, env, local, IInv, TypeOK, Blamed, Gathered, Complete, Listed, Names
<1> QED
  BY <1>1, <1>2 DEF Next, Quiet

\* The invariant holds in every reachable state.
THEOREM Invariance == Spec => []IInv
BY InitInv, NextInv, PTL DEF Spec

\* Every variable keeps its type.
THEOREM TypeCorrectness == Spec => []TypeOK
<1>1. IInv => TypeOK
  BY DEF IInv
<1> QED
  BY <1>1, Invariance, PTL

\* However many requests ask, in whatever order the providers answer, fail or
\* time out: a report fails only because an SDK client could not be built, and
\* only a report on health.
THEOREM NoProviderFailsAReport == Spec => []FailsForAClientOnly
<1>1. IInv => FailsForAClientOnly
  BY DEF IInv, Blamed, Unguarded, FailsForAClientOnly
<1> QED
  BY <1>1, Invariance, PTL

\* A report on health has every registered provider once and in order, and one
\* on models those of every provider whose models are part of the code, in
\* whatever order the tasks end and however many of the calls fail.
THEOREM NobodyIsMissing == Spec => []NobodyMissing
<1>1. IInv => NobodyMissing
  BY DEF IInv, Gathered, Complete, NobodyMissing
<1> QED
  BY <1>1, Invariance, PTL

=============================================================================
