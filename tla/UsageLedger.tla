----------------------------- MODULE UsageLedger -----------------------------
(***************************************************************************)
(* request_logs and usage_logs as the requests of several API keys write   *)
(* them, two commits each, and the reports that are read from them at any  *)
(* moment: list_recent and aggregate_cost.                                 *)
(***************************************************************************)
EXTENDS Integers, SequencesExt

CONSTANTS
  Request,  \* the requests of a run
  Key,      \* API keys
  None,     \* no key given, no usage, no price
  Spending, \* what a request may cost: [tokens, cost]
  MaxTime   \* bound: the clock stops here

ASSUME LedgerAssumption ==
  /\ IsFiniteSet(Request) /\ IsFiniteSet(Key)
  /\ Spending \subseteq [tokens : Nat, cost : Nat \cup {None}]
  /\ MaxTime \in Nat
  /\ None \notin Nat \cup Key \cup Spending

VARIABLES
  now,    \* the clock
  phase,  \* idle, then log and usage (to be inserted), logged and used
          \* (inserted, not committed), done, warned or dead
  key,    \* auth_context.api_key_id
  spent,  \* the usage of the outcome, None if there is none
  stamp,  \* created_at of the row that is being inserted
  logs,   \* the committed rows of request_logs, in the order of the commits
  usages  \* those of usage_logs

vars == <<now, phase, key, spent, stamp, logs, usages>>

Times    == 0 .. MaxTime
Writing  == {"log", "logged", "usage", "used"}
Finished == {"done", "warned", "dead"}

\* The key is not passed on.
LogRowAnonymous(r) == [id |-> r, key |-> None, at |-> stamp[r]]

LogRow(r)   == [id |-> r, key |-> key[r], at |-> stamp[r]]
UsageRow(r) == [log |-> r, tokens |-> spent[r].tokens, cost |-> spent[r].cost,
                at |-> stamp[r]]

-----------------------------------------------------------------------------
\* aggregate_cost.  A request is one row of usage_logs.
OfKey(u, k) == k = None \/ \E i \in DOMAIN logs : logs[i].id = u.log /\ logs[i].key = k

\* With a key, the rows of request_logs are compared with since.
SinceOfLog(u, k, since) ==
  \/ k = None /\ u.at >= since
  \/ \E i \in DOMAIN logs : logs[i].id = u.log /\ logs[i].at >= since

Since(u, k, since) == u.at >= since

\* A single row without a price hides the sum.
SumOrNone(values) ==
  IF \E i \in DOMAIN values : values[i] = None THEN 0 ELSE SumFunction(values)

\* SUM leaves out what is NULL, COALESCE makes the empty sum 0.
Sum(values) ==
  SumFunction([i \in DOMAIN values |-> IF values[i] = None THEN 0 ELSE values[i]])

AggregateCost(k, since) ==
  LET rows == {i \in DOMAIN usages : OfKey(usages[i], k) /\ Since(usages[i], k, since)}
  IN  [requests |-> Cardinality(rows),
       tokens   |-> Sum([i \in rows |-> usages[i].tokens]),
       cost     |-> Sum([i \in rows |-> usages[i].cost])]

\* list_recent: the answers it may give, the newest rows of a key first, at most
\* limit of them; rows of the same time come in any order.
ListRecent(k, limit) ==
  LET rows   == {i \in DOMAIN logs : k = None \/ logs[i].key = k}
      orders == {o \in SetToSeqs(rows) :
                   \A a, b \in DOMAIN o : a < b => logs[o[a]].at >= logs[o[b]].at}
      last   == IF limit < Cardinality(rows) THEN limit ELSE Cardinality(rows)
  IN  {[a \in 1 .. last |-> logs[o[a]]] : o \in orders}

-----------------------------------------------------------------------------
Init ==
  /\ now    = 0
  /\ phase  = [r \in Request |-> "idle"]
  /\ key    = [r \in Request |-> None]
  /\ spent  = [r \in Request |-> None]
  /\ stamp  = [r \in Request |-> 0]
  /\ logs   = <<>>
  /\ usages = <<>>

Go(r, from, to) == phase[r] = from /\ phase' = [phase EXCEPT ![r] = to]

\* persist_chat_outcome is called; an error has no usage.
Persist(r) ==
  /\ Go(r, "idle", "log")
  /\ \E k \in Key : key' = [key EXCEPT ![r] = k]
  /\ \E s \in Spending \cup {None} : spent' = [spent EXCEPT ![r] = s]
  /\ UNCHANGED <<now, stamp, logs, usages>>

\* created_at is read when the INSERT is executed, before the commit.
Insert(r) ==
  /\ \/ Go(r, "log", "logged")
     \/ Go(r, "usage", "used")
  /\ stamp' = [stamp EXCEPT ![r] = now]
  /\ UNCHANGED <<now, key, spent, logs, usages>>

CommitLog(r) ==
  /\ Go(r, "logged", IF spent[r] = None THEN "done" ELSE "usage")
  /\ logs' = Append(logs, LogRow(r))
  /\ UNCHANGED <<now, key, spent, stamp, usages>>

CommitUsage(r) ==
  /\ Go(r, "used", "done")
  /\ usages' = Append(usages, UsageRow(r))
  /\ UNCHANGED <<now, key, spent, stamp, logs>>

\* The insert, the commit or the refresh after it raises: a warning is logged
\* and nothing is tried again.
LogFails(r) ==
  /\ Go(r, "logged", "warned")
  /\ logs' = Append(logs, LogRow(r)) \/ UNCHANGED logs
  /\ UNCHANGED <<now, key, spent, stamp, usages>>

\* An insert that failed is repeated.
UsageRetried(r) ==
  /\ Go(r, "used", "usage")
  /\ usages' = Append(usages, UsageRow(r)) \/ UNCHANGED usages
  /\ UNCHANGED <<now, key, spent, stamp, logs>>

UsageFails(r) ==
  /\ Go(r, "used", "warned")
  /\ usages' = Append(usages, UsageRow(r)) \/ UNCHANGED usages
  /\ UNCHANGED <<now, key, spent, stamp, logs>>

Tick ==
  /\ now < MaxTime
  /\ now' = now + 1
  /\ UNCHANGED <<phase, key, spent, stamp, logs, usages>>

\* The gateway dies; what is committed stays.
Crash ==
  /\ \E r \in Request : phase[r] \in Writing
  /\ phase' = [r \in Request |-> IF phase[r] \in Writing THEN "dead" ELSE phase[r]]
  /\ UNCHANGED <<now, key, spent, stamp, logs, usages>>

Quiet ==
  /\ now = MaxTime
  /\ \A r \in Request : phase[r] \in Finished
  /\ UNCHANGED vars

Step(r) ==
  \/ Persist(r) \/ Insert(r) \/ CommitLog(r) \/ CommitUsage(r)
  \/ LogFails(r) \/ UsageFails(r)

Next == (\E r \in Request : Step(r)) \/ Tick \/ Crash \/ Quiet

Spec == Init /\ [][Next]_vars

-----------------------------------------------------------------------------
\* Every variable holds values of its type in every reachable state.
TypeOK ==
  /\ now \in Times
  /\ phase \in [Request -> {"idle"} \cup Writing \cup Finished]
  /\ key \in [Request -> Key \cup {None}]
  /\ spent \in [Request -> Spending \cup {None}]
  /\ stamp \in [Request -> Times]
  /\ logs \in Seq([id : Request, key : Key, at : Times])
  /\ usages \in Seq([log : Request, tokens : Nat, cost : Nat \cup {None}, at : Times])

\* At every moment and for every period the summaries of the keys add up to the
\* summary of all: the join loses no usage, neither of a request that is being
\* persisted nor of one that was cut short or crosses the start of the period.
KeysAddUp ==
  \A since \in Times : \A field \in {"requests", "tokens", "cost"} :
    SumFunction([k \in Key |-> AggregateCost(k, since)[field]])
      = AggregateCost(None, since)[field]

Tokens == [r \in Request |-> IF spent[r] = None THEN 0 ELSE spent[r].tokens]
Cost   == [r \in Request |-> IF spent[r] = None THEN 0
                             ELSE IF spent[r].cost = None THEN 0 ELSE spent[r].cost]

\* A key is charged for everything its finished requests spent and for no more
\* than its requests may have saved; a request without a price adds its tokens
\* and hides no other cost.
ChargedWhatWasSpent == \A k \in Key :
  LET sure  == {r \in Request : key[r] = k /\ phase[r] = "done"}
      maybe == {r \in Request : key[r] = k /\ phase[r] \in {"done", "warned", "dead"}}
      all   == AggregateCost(k, 0)
  IN  /\ all.tokens \in SumFunctionOnSet(Tokens, sure) .. SumFunctionOnSet(Tokens, maybe)
      /\ all.cost \in SumFunctionOnSet(Cost, sure) .. SumFunctionOnSet(Cost, maybe)

\* The requests a summary counts are a part of those that list_recent shows for
\* the key: the ones with a usage.  Errors, and requests whose second insert
\* was lost, are listed and not counted.
CountedAreListed == \A k \in Key : \A shown \in ListRecent(k, Len(logs)) :
  AggregateCost(k, 0).requests
    = Cardinality({i \in DOMAIN shown : \E j \in DOMAIN usages :
                     usages[j].log = shown[i].id})

=============================================================================
