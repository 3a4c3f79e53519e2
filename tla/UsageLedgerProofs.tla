------------------------- MODULE UsageLedgerProofs -------------------------
(***************************************************************************)
(* Proofs about UsageLedger for any number of requests and keys and any    *)
(* spending.  The tables are true at every moment: no request has two rows *)
(* in one of them, a row says what its request knows, a usage has a row of *)
(* request_logs, and a request that is done has every row it should have.  *)
(* What the reports promise follows from that by rules for sums: summands  *)
(* may be renamed one to one, and grouped.                                 *)
(***************************************************************************)
EXTENDS UsageLedger, DataLemmas

Logged(r)  == \E l \in DOMAIN logs : logs[l].id = r
Recorded(r) == \E u \in DOMAIN usages : usages[u].log = r

KeysAreKnown == \A r \in Request : phase[r] # "idle" => key[r] \in Key

LogsAreTrue ==
  /\ \A l \in DOMAIN logs : /\ logs[l].key = key[logs[l].id]
                            /\ phase[logs[l].id] \in {"usage", "used"} \cup Finished
  /\ \A l, m \in DOMAIN logs : logs[l].id = logs[m].id => l = m

\* What a row of usage_logs says of the request r.
Says(u, r) ==
  /\ phase[r] \in {"done", "warned"} /\ spent[r] # None /\ Logged(r)
  /\ u.tokens = spent[r].tokens /\ u.cost = spent[r].cost

UsagesAreTrue ==
  /\ \A u \in DOMAIN usages : Says(usages[u], usages[u].log)
  /\ \A u, v \in DOMAIN usages : usages[u].log = usages[v].log => u = v

NothingIsMissing == \A r \in Request :
  /\ phase[r] \in {"usage", "used"} => spent[r] # None /\ Logged(r)
  /\ phase[r] = "done" /\ spent[r] # None => Recorded(r)

LedgerInv == TypeOK /\ KeysAreKnown /\ LogsAreTrue /\ UsagesAreTrue /\ NothingIsMissing

LogType   == [id : Request, key : Key, at : Times]
UsageType == [log : Request, tokens : Nat, cost : Nat \cup {None}, at : Times]

-----------------------------------------------------------------------------
(* The tables are true.                                                    *)

\* A row is appended behind those that were there.
LEMMA AppendAt ==
  ASSUME NEW T, NEW s \in Seq(T), NEW e \in T
  PROVE  /\ Append(s, e) \in Seq(T)
         /\ DOMAIN Append(s, e) = DOMAIN s \cup {Len(s) + 1}
         /\ Len(s) + 1 \notin DOMAIN s
         /\ \A i \in DOMAIN s : Append(s, e)[i] = s[i]
         /\ Append(s, e)[Len(s) + 1] = e
<1>1. Append(s, e) \in Seq(T) /\ Len(Append(s, e)) = Len(s) + 1
      /\ \A i \in 1 .. Len(s) : Append(s, e)[i] = s[i]
      /\ Append(s, e)[Len(s) + 1] = e
  BY AppendProperties
<1>2. Len(s) \in Nat /\ DOMAIN s = 1 .. Len(s) /\ DOMAIN Append(s, e) = 1 .. Len(Append(s, e))
  BY <1>1, LenProperties
<1> QED
  BY <1>1, <1>2

\* The ledger starts empty.
LEMMA LedgerInit == Init => LedgerInv
<1> SUFFICES ASSUME Init PROVE LedgerInv
  OBVIOUS
<1>1. logs = <<>> /\ usages = <<>> /\ DOMAIN logs = {} /\ DOMAIN usages = {}
  BY DEF Init
<1>2. TypeOK
  BY <1>1, LedgerAssumption DEF Init, TypeOK, Times
<1>3. KeysAreKnown /\ NothingIsMissing
  BY DEF Init, KeysAreKnown, NothingIsMissing
<1>4. LogsAreTrue /\ UsagesAreTrue
  BY <1>1 DEF LogsAreTrue, UsagesAreTrue
<1> QED
  BY <1>2, <1>3, <1>4 DEF LedgerInv

\* The rows are rows of requests.
LEMMA RowsOfRequests ==
  ASSUME TypeOK
  PROVE  /\ \A l \in DOMAIN logs : logs[l].id \in Request
         /\ \A u \in DOMAIN usages : usages[u].log \in Request
<1>0. logs \in Seq(LogType) /\ usages \in Seq(UsageType)
  BY DEF TypeOK, LogType, UsageType
<1>1. \A l \in DOMAIN logs : logs[l] \in LogType
  BY <1>0, ElementOfSeq
<1>2. \A u \in DOMAIN usages : usages[u] \in UsageType
  BY <1>0, ElementOfSeq
<1> QED
  BY <1>1, <1>2 DEF LogType, UsageType

\* A call of persist_chat_outcome.
LEMMA PersistInv ==
  ASSUME LedgerInv, NEW r \in Request, Persist(r)
  PROVE  LedgerInv'
<1>1. phase[r] = "idle" /\ phase' = [phase EXCEPT ![r] = "log"]
      /\ UNCHANGED <<now, stamp, logs, usages>>
  BY DEF Persist, Go
<1>2. PICK k \in Key, s \in Spending \cup {None} :
        key' = [key EXCEPT ![r] = k] /\ spent' = [spent EXCEPT ![r] = s]
  BY DEF Persist
<1>a. \A q \in Request \ {r} : phase'[q] = phase[q] /\ key'[q] = key[q] /\ spent'[q] = spent[q]
  BY <1>1, <1>2 DEF LedgerInv, TypeOK
<1>3. /\ \A l \in DOMAIN logs : logs[l].id \in Request \ {r}
      /\ \A u \in DOMAIN usages : usages[u].log \in Request \ {r}
  BY <1>1, RowsOfRequests DEF LedgerInv, LogsAreTrue, UsagesAreTrue, Says, Finished
<1>4. TypeOK'
  BY <1>1, <1>2 DEF LedgerInv, TypeOK, Writing
<1>5. KeysAreKnown'
  BY <1>1, <1>2 DEF LedgerInv, TypeOK, KeysAreKnown
<1>6. LogsAreTrue'
  BY <1>1, <1>a, <1>3 DEF LedgerInv, LogsAreTrue
<1>7. UsagesAreTrue'
  BY <1>1, <1>a, <1>3 DEF LedgerInv, UsagesAreTrue, Says, Logged
<1>8. NothingIsMissing'
  BY <1>1, <1>2 DEF LedgerInv, TypeOK, NothingIsMissing, Logged, Recorded
<1> QED
  BY <1>4, <1>5, <1>6, <1>7, <1>8 DEF LedgerInv

\* An insert, not committed yet.
LEMMA InsertInv ==
  ASSUME LedgerInv, NEW r \in Request, Insert(r)
  PROVE  LedgerInv'
<1>1. /\ stamp' = [stamp EXCEPT ![r] = now]
      /\ UNCHANGED <<now, key, spent, logs, usages>>
  BY DEF Insert
<1>2. PICK p \in Writing : phase' = [phase EXCEPT ![r] = p]
        /\ \/ phase[r] = "log" /\ p = "logged"
           \/ phase[r] = "usage" /\ p = "used"
  BY DEF Insert, Go, Writing
<1>3. TypeOK'
  BY <1>1, <1>2 DEF LedgerInv, TypeOK
<1>4. KeysAreKnown'
  BY <1>1, <1>2 DEF LedgerInv, TypeOK, KeysAreKnown
<1>a. (\A q \in Request \ {r} : phase'[q] = phase[q]) /\ phase'[r] = p
  BY <1>2 DEF LedgerInv, TypeOK
<1>5. LogsAreTrue'
  BY <1>1, <1>2, <1>a, RowsOfRequests DEF LedgerInv, LogsAreTrue, Finished
<1>6. UsagesAreTrue'
  BY <1>1, <1>2, <1>a, RowsOfRequests DEF LedgerInv, UsagesAreTrue, Says, Logged
<1>7. NothingIsMissing'
  BY <1>1, <1>2 DEF LedgerInv, TypeOK, NothingIsMissing, Logged, Recorded
<1> QED
  BY <1>3, <1>4, <1>5, <1>6, <1>7 DEF LedgerInv

\* The gateway dies.
LEMMA CrashInv ==
  ASSUME LedgerInv, Crash
  PROVE  LedgerInv'
<1>1. UNCHANGED <<now, key, spent, stamp, logs, usages>>
  BY DEF Crash
<1>2. \A r \in Request : /\ phase[r] \in Writing => phase'[r] = "dead"
                         /\ phase[r] \notin Writing => phase'[r] = phase[r]
  BY DEF Crash
<1>3. phase' \in [Request -> {"idle"} \cup Writing \cup Finished]
  BY DEF LedgerInv, TypeOK, Crash, Finished
<1>4. TypeOK'
  BY <1>1, <1>3 DEF LedgerInv, TypeOK, Times
<1>5. KeysAreKnown'
  BY <1>1, <1>2 DEF LedgerInv, KeysAreKnown, Writing
<1>6. LogsAreTrue'
  BY <1>1, <1>2, RowsOfRequests DEF LedgerInv, LogsAreTrue, Finished, Writing
<1>7. UsagesAreTrue'
  BY <1>1, <1>2, RowsOfRequests DEF LedgerInv, UsagesAreTrue, Says, Logged, Writing
<1>8. NothingIsMissing'
  BY <1>1, <1>2 DEF LedgerInv, NothingIsMissing, Logged, Recorded, Writing
<1> QED
  BY <1>4, <1>5, <1>6, <1>7, <1>8 DEF LedgerInv

\* The clock ticks, or nothing happens.
LEMMA TickInv ==
  ASSUME LedgerInv, Tick \/ UNCHANGED vars
  PROVE  LedgerInv'
<1>1. UNCHANGED <<phase, key, spent, stamp, logs, usages>> /\ now' \in Times
  BY LedgerAssumption DEF LedgerInv, TypeOK, Tick, vars, Times
<1>2. TypeOK'
  BY <1>1 DEF LedgerInv, TypeOK
<1>3. KeysAreKnown' /\ LogsAreTrue' /\ UsagesAreTrue' /\ NothingIsMissing'
  BY <1>1 DEF LedgerInv, KeysAreKnown, LogsAreTrue, UsagesAreTrue, NothingIsMissing,
              Says, Logged, Recorded
<1> QED
  BY <1>2, <1>3 DEF LedgerInv

\* A row of request_logs is written: r goes on to p.
LEMMA LogRowInv ==
  ASSUME LedgerInv, NEW r \in Request, phase[r] = "logged",
         NEW p \in {"usage", "done", "warned"}, phase' = [phase EXCEPT ![r] = p],
         p = "usage" => spent[r] # None, p = "done" => spent[r] = None,
         logs' = Append(logs, LogRow(r)), UNCHANGED <<now, key, spent, stamp, usages>>
  PROVE  LedgerInv'
<1> DEFINE n == Len(logs) + 1
<1>1. LogRow(r) \in LogType /\ LogRow(r).id = r /\ LogRow(r).key = key[r]
  BY DEF LogRow, LogType, LedgerInv, TypeOK, KeysAreKnown
<1>2. /\ logs' \in Seq(LogType) /\ DOMAIN logs' = DOMAIN logs \cup {n} /\ n \notin DOMAIN logs
      /\ \A l \in DOMAIN logs : logs'[l] = logs[l]
      /\ logs'[n] = LogRow(r)
  <2>1. logs \in Seq(LogType)
    BY DEF LedgerInv, TypeOK, LogType
  <2> QED
    BY <1>1, <2>1, AppendAt
<1> HIDE DEF n
<1>a. (\A q \in Request \ {r} : phase'[q] = phase[q]) /\ phase'[r] = p
  BY DEF LedgerInv, TypeOK
<1>3. \A l \in DOMAIN logs : logs[l].id \in Request \ {r}
  BY RowsOfRequests DEF LedgerInv, LogsAreTrue, Finished
<1>4. \A u \in DOMAIN usages : usages[u].log \in Request \ {r}
  BY RowsOfRequests DEF LedgerInv, UsagesAreTrue, Says
<1>5. \A q \in Request : Logged(q) => Logged(q)'
  BY <1>2 DEF Logged
<1>6. Logged(r)'
  BY <1>1, <1>2 DEF Logged
<1>7. TypeOK'
  BY <1>2 DEF LedgerInv, TypeOK, LogType, Writing, Finished, Times
<1>8. KeysAreKnown'
  BY DEF LedgerInv, TypeOK, KeysAreKnown
<1>9. LogsAreTrue'
  <2>1. \A l \in DOMAIN logs' : /\ logs'[l].key = key[logs'[l].id]
                                /\ phase'[logs'[l].id] \in {"usage", "used"} \cup Finished
    BY <1>1, <1>2, <1>a, <1>3 DEF LedgerInv, LogsAreTrue, Finished
  <2>2. \A l, m \in DOMAIN logs' : logs'[l].id = logs'[m].id => l = m
    BY <1>1, <1>2, <1>3 DEF LedgerInv, LogsAreTrue
  <2> QED
    BY <2>1, <2>2 DEF LogsAreTrue
<1>10. UsagesAreTrue'
  BY <1>a, <1>4, <1>5 DEF LedgerInv, UsagesAreTrue, Says
<1>11. NothingIsMissing'
  BY <1>5, <1>6 DEF LedgerInv, TypeOK, NothingIsMissing, Recorded
<1> QED
  BY <1>7, <1>8, <1>9, <1>10, <1>11 DEF LedgerInv

\* A row of usage_logs is written: r goes on to p.
LEMMA UsageRowInv ==
  ASSUME LedgerInv, NEW r \in Request, phase[r] = "used",
         NEW p \in {"done", "warned"}, phase' = [phase EXCEPT ![r] = p],
         usages' = Append(usages, UsageRow(r)), UNCHANGED <<now, key, spent, stamp, logs>>
  PROVE  LedgerInv'
<1> DEFINE n == Len(usages) + 1
<1>0. spent[r] # None /\ Logged(r)
  BY DEF LedgerInv, NothingIsMissing
<1>1. /\ UsageRow(r) \in UsageType /\ UsageRow(r).log = r
      /\ UsageRow(r).tokens = spent[r].tokens /\ UsageRow(r).cost = spent[r].cost
  <2>1. spent[r] \in Spending
    BY <1>0 DEF LedgerInv, TypeOK
  <2> QED
    BY <2>1, LedgerAssumption DEF UsageRow, UsageType, LedgerInv, TypeOK
<1>2. /\ usages' \in Seq(UsageType) /\ DOMAIN usages' = DOMAIN usages \cup {n}
      /\ n \notin DOMAIN usages
      /\ \A u \in DOMAIN usages : usages'[u] = usages[u]
      /\ usages'[n] = UsageRow(r)
  <2>1. usages \in Seq(UsageType)
    BY DEF LedgerInv, TypeOK, UsageType
  <2> QED
    BY <1>1, <2>1, AppendAt
<1> HIDE DEF n
<1>a. (\A q \in Request \ {r} : phase'[q] = phase[q]) /\ phase'[r] = p
  BY DEF LedgerInv, TypeOK
<1>3. \A u \in DOMAIN usages : usages[u].log \in Request \ {r}
  BY RowsOfRequests DEF LedgerInv, UsagesAreTrue, Says
<1>4. \A q : Logged(q)' <=> Logged(q)
  BY DEF Logged
<1>5. \A q \in Request : Recorded(q) => Recorded(q)'
  BY <1>2 DEF Recorded
<1>6. Recorded(r)'
  BY <1>1, <1>2 DEF Recorded
<1>7. TypeOK'
  BY <1>2 DEF LedgerInv, TypeOK, UsageType, Writing, Finished, Times
<1>8. KeysAreKnown'
  BY DEF LedgerInv, TypeOK, KeysAreKnown
<1>9. LogsAreTrue'
  BY <1>a, RowsOfRequests DEF LedgerInv, LogsAreTrue, Finished
<1>10. UsagesAreTrue'
  <2>1. (\A u \in DOMAIN usages : Says(usages[u], usages[u].log))'
    <3> SUFFICES ASSUME NEW u \in DOMAIN usages' PROVE Says(usages[u], usages[u].log)'
      OBVIOUS
    <3>1. CASE u = n
      BY <1>0, <1>1, <1>2, <1>a, <1>4, <3>1 DEF Says
    <3>2. CASE u \in DOMAIN usages
      BY <1>2, <1>a, <1>3, <1>4, <3>2 DEF Says, LedgerInv, UsagesAreTrue
    <3> QED
      BY <1>2, <3>1, <3>2
  <2>2. \A u, v \in DOMAIN usages' : usages'[u].log = usages'[v].log => u = v
    BY <1>1, <1>2, <1>3 DEF LedgerInv, UsagesAreTrue
  <2> QED
    BY <2>1, <2>2 DEF UsagesAreTrue
<1>11. NothingIsMissing'
  BY <1>4, <1>5, <1>6 DEF LedgerInv, TypeOK, NothingIsMissing
<1> QED
  BY <1>7, <1>8, <1>9, <1>10, <1>11 DEF LedgerInv

\* A write fails and leaves no row.
LEMMA NoRowInv ==
  ASSUME LedgerInv, NEW r \in Request, phase[r] \in {"logged", "used"},
         phase' = [phase EXCEPT ![r] = "warned"],
         UNCHANGED <<now, key, spent, stamp, logs, usages>>
  PROVE  LedgerInv'
<1>1. TypeOK'
  BY DEF LedgerInv, TypeOK, Writing, Finished, Times
<1>a. (\A q \in Request \ {r} : phase'[q] = phase[q]) /\ phase'[r] = "warned"
  BY DEF LedgerInv, TypeOK
<1>2. KeysAreKnown' /\ LogsAreTrue'
  BY <1>a, RowsOfRequests DEF LedgerInv, KeysAreKnown, LogsAreTrue, Finished
<1>3. UsagesAreTrue'
  BY <1>a, RowsOfRequests DEF LedgerInv, UsagesAreTrue, Says, Logged
<1>4. NothingIsMissing'
  BY DEF LedgerInv, TypeOK, NothingIsMissing, Logged, Recorded
<1> QED
  BY <1>1, <1>2, <1>3, <1>4 DEF LedgerInv

\* Every step keeps the tables true.
LEMMA LedgerStep == LedgerInv /\ [Next]_vars => LedgerInv'
<1> SUFFICES ASSUME LedgerInv, [Next]_vars PROVE LedgerInv'
  OBVIOUS
<1>1. CASE \E r \in Request : Step(r)
  <2> PICK r \in Request : Step(r)
    BY <1>1
  <2>1. CASE Persist(r)
    BY <2>1, PersistInv
  <2>2. CASE Insert(r)
    BY <2>2, InsertInv
  <2>3. CASE CommitLog(r)
    <3>1. CASE spent[r] = None
      <4>1. phase[r] = "logged" /\ phase' = [phase EXCEPT ![r] = "done"]
        BY <2>3, <3>1 DEF CommitLog, Go
      <4> QED
        BY <2>3, <3>1, <4>1, LogRowInv DEF CommitLog
    <3>2. CASE spent[r] # None
      <4>1. phase[r] = "logged" /\ phase' = [phase EXCEPT ![r] = "usage"]
        BY <2>3, <3>2 DEF CommitLog, Go
      <4> QED
        BY <2>3, <3>2, <4>1, LogRowInv DEF CommitLog
    <3> QED
      BY <3>1, <3>2
  <2>4. CASE CommitUsage(r)
    BY <2>4, UsageRowInv DEF CommitUsage, Go
  <2>5. CASE LogFails(r)
    <3>1. phase[r] = "logged" /\ phase' = [phase EXCEPT ![r] = "warned"]
          /\ UNCHANGED <<now, key, spent, stamp, usages>>
      BY <2>5 DEF LogFails, Go
    <3>2. CASE logs' = Append(logs, LogRow(r))
      BY <3>1, <3>2, LogRowInv
    <3>3. CASE UNCHANGED logs
      BY <3>1, <3>3, NoRowInv
    <3> QED
      BY <2>5, <3>2, <3>3 DEF LogFails
  <2>6. CASE UsageFails(r)
    <3>1. phase[r] = "used" /\ phase' = [phase EXCEPT ![r] = "warned"]
          /\ UNCHANGED <<now, key, spent, stamp, logs>>
      BY <2>6 DEF UsageFails, Go
    <3>2. CASE usages' = Append(usages, UsageRow(r))
      BY <3>1, <3>2, UsageRowInv
    <3>3. CASE UNCHANGED usages
      BY <3>1, <3>3, NoRowInv
    <3> QED
      BY <2>6, <3>2, <3>3 DEF UsageFails
  <2> QED
    BY <2>1, <2>2, <2>3, <2>4, <2>5, <2>6 DEF Step
<1>2. CASE Tick \/ Quiet \/ UNCHANGED vars
  BY <1>2, TickInv DEF Quiet
<1>3. CASE Crash
  BY <1>3, CrashInv
<1> QED
  BY <1>1, <1>2, <1>3 DEF Next

\* The tables are true at every moment.
LEMMA LedgerIsTrue == Spec => []LedgerInv
<1>1. Init => LedgerInv
  BY LedgerInit
<1>2. LedgerInv /\ [Next]_vars => LedgerInv'
  BY LedgerStep
<1> QED
  BY <1>1, <1>2, PTL DEF Spec

\* Every variable holds values of its type: a row of request_logs names a key,
\* and a row of usage_logs a number of tokens.
THEOREM TypesHold == Spec => []TypeOK
<1>1. LedgerInv => TypeOK
  BY DEF LedgerInv
<1> QED
  BY <1>1, LedgerIsTrue, PTL

-----------------------------------------------------------------------------
(* The reports.                                                            *)

TokensIn == [u \in DOMAIN usages |-> usages[u].tokens]
CostIn   == [u \in DOMAIN usages |-> IF usages[u].cost = None THEN 0 ELSE usages[u].cost]
OneEach  == [u \in DOMAIN usages |-> 1]

RowsOf(k, since) ==
  {u \in DOMAIN usages : OfKey(usages[u], k) /\ Since(usages[u], k, since)}

\* The tables are finite, and their rows have the types of rows.
LEMMA TablesAreFinite ==
  ASSUME TypeOK
  PROVE  /\ IsFiniteSet(DOMAIN logs) /\ DOMAIN logs = 1 .. Len(logs) /\ Len(logs) \in Nat
         /\ IsFiniteSet(DOMAIN usages)
         /\ \A u \in DOMAIN usages : usages[u] \in UsageType
         /\ \A l \in DOMAIN logs : logs[l] \in LogType
<1>0. logs \in Seq(LogType) /\ usages \in Seq(UsageType)
  BY DEF TypeOK, LogType, UsageType
<1>1. /\ Len(logs) \in Nat /\ DOMAIN logs = 1 .. Len(logs)
      /\ Len(usages) \in Nat /\ DOMAIN usages = 1 .. Len(usages)
  BY <1>0, LenProperties
<1>2. IsFiniteSet(DOMAIN logs) /\ IsFiniteSet(DOMAIN usages)
  BY <1>1, FS_Interval
<1>3. /\ \A u \in DOMAIN usages : usages[u] \in UsageType
      /\ \A l \in DOMAIN logs : logs[l] \in LogType
  BY <1>0, <1>1, ElementOfSeq
<1> QED
  BY <1>1, <1>2, <1>3

\* SUM with COALESCE adds what is there.
LEMMA SumOfValues ==
  ASSUME NEW R, IsFiniteSet(R), NEW v \in [R -> Nat \cup {None}],
         NEW E, R \in SUBSET E, NEW g \in [E -> Nat],
         \A i \in R : (v[i] = None => g[i] = 0) /\ (v[i] # None => g[i] = v[i])
  PROVE  Sum(v) = SumFunctionOnSet(g, R)
<1> DEFINE w == [i \in DOMAIN v |-> IF v[i] = None THEN 0 ELSE v[i]]
<1>1. Sum(v) = SumFunctionOnSet(w, DOMAIN w)
  BY DEF Sum, SumFunction
<1>2. w \in [R -> Nat] /\ DOMAIN w = R /\ \A i \in R : w[i] = g[i]
  OBVIOUS
<1> HIDE DEF w
<1>3. SumFunctionOnSet(w, R) = SumFunctionOnSet(g, R)
  BY <1>2, SumSame
<1> QED
  BY <1>1, <1>2, <1>3, Zenon

\* The columns that are summed up.
LEMMA Columns ==
  ASSUME TypeOK
  PROVE  /\ TokensIn \in [DOMAIN usages -> Nat]
         /\ CostIn \in [DOMAIN usages -> Nat]
         /\ OneEach \in [DOMAIN usages -> Nat]
<1>1. \A u \in DOMAIN usages : usages[u].tokens \in Nat /\ usages[u].cost \in Nat \cup {None}
  BY TablesAreFinite DEF UsageType
<1>2. \A u \in DOMAIN usages : (IF usages[u].cost = None THEN 0 ELSE usages[u].cost) \in Nat
  BY <1>1
<1> QED
  BY <1>1, <1>2 DEF TokensIn, CostIn, OneEach

\* A summary is made of sums over rows of usage_logs.
LEMMA Reported ==
  ASSUME TypeOK, NEW k, NEW since
  PROVE  /\ RowsOf(k, since) \in SUBSET DOMAIN usages /\ IsFiniteSet(RowsOf(k, since))
         /\ AggregateCost(k, since).requests = SumFunctionOnSet(OneEach, RowsOf(k, since))
         /\ AggregateCost(k, since).tokens   = SumFunctionOnSet(TokensIn, RowsOf(k, since))
         /\ AggregateCost(k, since).cost     = SumFunctionOnSet(CostIn, RowsOf(k, since))
<1> DEFINE R == RowsOf(k, since)
           t == [i \in R |-> usages[i].tokens]
           c == [i \in R |-> usages[i].cost]
<1>1. /\ AggregateCost(k, since).requests = Cardinality(R)
      /\ AggregateCost(k, since).tokens = Sum(t)
      /\ AggregateCost(k, since).cost = Sum(c)
  BY DEF AggregateCost, RowsOf
<1>2. R \in SUBSET DOMAIN usages /\ IsFiniteSet(R)
  BY TablesAreFinite, FS_Subset DEF RowsOf
<1> HIDE DEF R
<1>3. \A i \in R : usages[i].tokens \in Nat /\ usages[i].cost \in Nat \cup {None}
  BY <1>2, TablesAreFinite DEF UsageType
<1>4. Cardinality(R) = SumFunctionOnSet(OneEach, R)
  <2>1. OneEach \in [DOMAIN usages -> Nat] /\ \A u \in R : OneEach[u] = 1
    BY <1>2 DEF OneEach
  <2> QED
    BY <1>2, <2>1, SumOnes
<1>5. None \notin Nat
  BY LedgerAssumption
<1>6. Sum(t) = SumFunctionOnSet(TokensIn, R)
  <2>1. t \in [R -> Nat \cup {None}] /\ \A i \in R : t[i] = TokensIn[i] /\ t[i] # None
    BY <1>2, <1>3, <1>5 DEF TokensIn
  <2> HIDE DEF t
  <2> QED
    BY <1>2, <2>1, Columns, SumOfValues
<1>7. Sum(c) = SumFunctionOnSet(CostIn, R)
  <2>1. c \in [R -> Nat \cup {None}] /\ \A i \in R : c[i] = usages[i].cost
    BY <1>3
  <2>2. \A i \in R : (c[i] = None => CostIn[i] = 0) /\ (c[i] # None => CostIn[i] = c[i])
    BY <1>2, <2>1 DEF CostIn
  <2> HIDE DEF c
  <2> QED
    BY <1>2, <2>1, <2>2, Columns, SumOfValues
<1> QED
  BY <1>1, <1>2, <1>4, <1>6, <1>7 DEF R

\* The join finds the key of the request.
LEMMA KeyOfUsage ==
  ASSUME LedgerInv, NEW u \in DOMAIN usages
  PROVE  /\ key[usages[u].log] \in Key
         /\ \A k \in Key : OfKey(usages[u], k) <=> key[usages[u].log] = k
<1>1. usages[u].log \in Request /\ Logged(usages[u].log) /\ phase[usages[u].log] # "idle"
  BY RowsOfRequests DEF LedgerInv, UsagesAreTrue, Says
<1>2. \A l \in DOMAIN logs : logs[l].key = key[logs[l].id]
  BY DEF LedgerInv, LogsAreTrue
<1>3. \A k \in Key : k # None
  BY LedgerAssumption
<1>4. key[usages[u].log] \in Key
  BY <1>1 DEF LedgerInv, KeysAreKnown
<1> QED
  BY <1>1, <1>2, <1>3, <1>4 DEF OfKey, Logged

\* What is summed up key by key adds up to the sum over all keys.
LEMMA GroupedByKey ==
  ASSUME LedgerInv, NEW since, NEW f \in [DOMAIN usages -> Nat],
         NEW total \in [Key -> Nat],
         \A k \in Key : total[k] = SumFunctionOnSet(f, RowsOf(k, since))
  PROVE  SumFunction(total) = SumFunctionOnSet(f, RowsOf(None, since))
<1> DEFINE A == RowsOf(None, since)
           h == [u \in A |-> key[usages[u].log]]
<1>0. TypeOK
  BY DEF LedgerInv
<1>1. A \in SUBSET DOMAIN usages /\ IsFiniteSet(A)
  BY <1>0, Reported
<1>2. h \in [A -> Key] /\ \A u \in A : h[u] = key[usages[u].log]
  BY <1>1, KeyOfUsage
<1>3. \A k \in Key : RowsOf(k, since) = {u \in A : h[u] = k}
  <2>1. \A k \in Key : \A u \in DOMAIN usages : u \in RowsOf(k, since) <=> u \in A /\ h[u] = k
    BY KeyOfUsage DEF RowsOf, OfKey, Since
  <2> HIDE DEF A, h
  <2>2. \A k \in Key : RowsOf(k, since) \in SUBSET DOMAIN usages
    BY <1>0, Reported
  <2> QED
    BY <1>1, <2>1, <2>2
<1> HIDE DEF A, h
<1>4. \A k \in Key : total[k] = SumFunctionOnSet(f, {u \in A : h[u] = k})
  BY <1>3
<1>5. IsFiniteSet(Key)
  BY LedgerAssumption
<1>6. h \in [A -> Key]
  BY <1>2
<1>7. SumFunctionOnSet(total, Key) = SumFunctionOnSet(f, A)
  BY <1>1, <1>4, <1>5, <1>6, SumGroups
<1> QED
  BY <1>7 DEF SumFunction, A

\* In every such state the summaries of the keys add up.
LEMMA InvAddsUp == LedgerInv => KeysAddUp
<1> SUFFICES ASSUME LedgerInv, NEW since \in Times, NEW field \in {"requests", "tokens", "cost"}
             PROVE  SumFunction([k \in Key |-> AggregateCost(k, since)[field]])
                      = AggregateCost(None, since)[field]
  BY DEF KeysAddUp
<1> DEFINE total == [k \in Key |-> AggregateCost(k, since)[field]]
<1>0. TypeOK
  BY DEF LedgerInv
<1>1. PICK f \in [DOMAIN usages -> Nat] :
        \A k : AggregateCost(k, since)[field] = SumFunctionOnSet(f, RowsOf(k, since))
  <2>1. CASE field = "requests"
    BY <1>0, <2>1, Columns, Reported
  <2>2. CASE field = "tokens"
    BY <1>0, <2>2, Columns, Reported
  <2>3. CASE field = "cost"
    BY <1>0, <2>3, Columns, Reported
  <2> QED
    BY <2>1, <2>2, <2>3
<1>2. \A k \in Key : SumFunctionOnSet(f, RowsOf(k, since)) \in Nat
  BY <1>0, Reported, SumType
<1>3. total \in [Key -> Nat] /\ \A k \in Key : total[k] = SumFunctionOnSet(f, RowsOf(k, since))
  BY <1>1, <1>2
<1> HIDE DEF total
<1>4. SumFunction(total) = SumFunctionOnSet(f, RowsOf(None, since))
  BY <1>3, GroupedByKey
<1> QED
  BY <1>1, <1>4 DEF total

\* At every moment and for every period the summaries of the keys add up to the
\* summary of all, whatever is still being persisted.
THEOREM SummariesAddUp == Spec => []KeysAddUp
  BY LedgerIsTrue, InvAddsUp, PTL

\* The requests of a key whose usage is in the table.
PaidBy(k) == {r \in Request : Recorded(r) /\ key[r] = k}

\* The rows of a key and the requests it pays for correspond one to one.
LEMMA RowsArePaid ==
  ASSUME LedgerInv, NEW k \in Key, NEW f \in [DOMAIN usages -> Nat], NEW g \in [Request -> Nat],
         \A u \in DOMAIN usages : f[u] = g[usages[u].log]
  PROVE  SumFunctionOnSet(f, RowsOf(k, 0)) = SumFunctionOnSet(g, PaidBy(k))
<1> DEFINE A == RowsOf(k, 0)
           h == [u \in A |-> usages[u].log]
<1>0. TypeOK
  BY DEF LedgerInv
<1>1. A \in SUBSET DOMAIN usages /\ IsFiniteSet(A)
  BY <1>0, Reported
<1>2. \A u \in DOMAIN usages : usages[u].log \in Request
  BY <1>0, RowsOfRequests
<1>3. \A u \in DOMAIN usages : u \in A <=> key[usages[u].log] = k
  <2>1. \A u \in DOMAIN usages : usages[u].at >= 0
    BY <1>0, TablesAreFinite DEF UsageType, Times
  <2> QED
    BY <2>1, KeyOfUsage DEF RowsOf, Since
<1> HIDE DEF A
<1>4. h \in [A -> Request] /\ \A u \in A : h[u] = usages[u].log
  BY <1>1, <1>2
<1>5. /\ \A u, v \in A : h[u] = h[v] => u = v
      /\ \A u \in A : f[u] = g[h[u]]
  BY <1>1, <1>4 DEF LedgerInv, UsagesAreTrue
<1>6. {h[u] : u \in A} = PaidBy(k)
  BY <1>1, <1>2, <1>3, <1>4 DEF PaidBy, Recorded
<1> HIDE DEF h
<1>7. SumFunctionOnSet(f, A) = SumFunctionOnSet(g, {h[u] : u \in A})
  BY <1>1, <1>4, <1>5, SumRename
<1> QED
  BY <1>6, <1>7 DEF A

\* What is paid lies between the sure and the possible.
LEMMA PaidBetween ==
  ASSUME LedgerInv, NEW k \in Key, NEW g \in [Request -> Nat],
         \A r \in Request : spent[r] = None => g[r] = 0,
         NEW sure, sure = {r \in Request : key[r] = k /\ phase[r] = "done"},
         NEW maybe, maybe = {r \in Request : key[r] = k /\ phase[r] \in {"done", "warned", "dead"}}
  PROVE  SumFunctionOnSet(g, PaidBy(k))
           \in SumFunctionOnSet(g, sure) .. SumFunctionOnSet(g, maybe)
<1> DEFINE L == PaidBy(k)
           M == sure \cap L
           Z == sure \ L
<1>1. L \in SUBSET maybe /\ M \in SUBSET L
  BY DEF PaidBy, Recorded, LedgerInv, UsagesAreTrue, Says
<1>2. \A r \in Z : g[r] = 0
  BY DEF PaidBy, LedgerInv, NothingIsMissing
<1>3. /\ L \in SUBSET Request /\ M \in SUBSET Request /\ Z \in SUBSET Request
      /\ sure \in SUBSET Request /\ maybe \in SUBSET Request
      /\ M \cup Z = sure /\ M \cap Z = {}
  BY DEF PaidBy
<1>4. \A S \in SUBSET Request : IsFiniteSet(S) /\ SumFunctionOnSet(g, S) \in Nat
  BY LedgerAssumption, FS_Subset, SumType
<1> HIDE DEF L, M, Z
<1>5. SumFunctionOnSet(g, L) <= SumFunctionOnSet(g, maybe)
  BY <1>1, <1>3, <1>4, SumPart
<1>6. SumFunctionOnSet(g, M) <= SumFunctionOnSet(g, L)
  BY <1>1, <1>3, <1>4, SumPart
<1>7. SumFunctionOnSet(g, Z) = 0
  BY <1>2, <1>3, <1>4, SumZero
<1>8. SumFunctionOnSet(g, sure) = SumFunctionOnSet(g, M) + SumFunctionOnSet(g, Z)
  <2>1. SumFunctionOnSet(g, M \cup Z) = SumFunctionOnSet(g, M) + SumFunctionOnSet(g, Z)
    BY <1>3, <1>4, SumUnion
  <2> QED
    BY <1>3, <2>1, Zenon
<1> DEFINE l == SumFunctionOnSet(g, L)
           m == SumFunctionOnSet(g, M)
           s == SumFunctionOnSet(g, sure)
           t == SumFunctionOnSet(g, maybe)
<1>9. l \in Nat /\ m \in Nat /\ s \in Nat /\ t \in Nat /\ m <= l /\ l <= t /\ s = m + 0
  <2>1. SumFunctionOnSet(g, L) \in Nat /\ SumFunctionOnSet(g, M) \in Nat
        /\ SumFunctionOnSet(g, sure) \in Nat /\ SumFunctionOnSet(g, maybe) \in Nat
    BY <1>3, <1>4
  <2> QED
    BY <1>5, <1>6, <1>7, <1>8, <2>1
<1> HIDE DEF l, m, s, t
<1>10. l \in s .. t
  BY <1>9
<1> QED
  BY <1>10 DEF l, s, t, L

\* In every such state a key is charged for what it spent.
LEMMA InvCharges == LedgerInv => ChargedWhatWasSpent
<1> SUFFICES ASSUME LedgerInv, NEW k \in Key,
                    NEW sure, sure = {r \in Request : key[r] = k /\ phase[r] = "done"},
                    NEW maybe, maybe = {r \in Request : key[r] = k
                                          /\ phase[r] \in {"done", "warned", "dead"}}
             PROVE  /\ AggregateCost(k, 0).tokens \in
                         SumFunctionOnSet(Tokens, sure) .. SumFunctionOnSet(Tokens, maybe)
                    /\ AggregateCost(k, 0).cost \in
                         SumFunctionOnSet(Cost, sure) .. SumFunctionOnSet(Cost, maybe)
  BY Zenon DEF ChargedWhatWasSpent
<1>0. TypeOK
  BY DEF LedgerInv
<1>1. \A r \in Request : spent[r] # None => spent[r].tokens \in Nat /\ spent[r].cost \in Nat \cup {None}
  BY <1>0, LedgerAssumption DEF TypeOK
<1>2. Tokens \in [Request -> Nat] /\ \A r \in Request : spent[r] = None => Tokens[r] = 0
  BY <1>1 DEF Tokens
<1>3. Cost \in [Request -> Nat] /\ \A r \in Request : spent[r] = None => Cost[r] = 0
  BY <1>1 DEF Cost
<1>4. \A u \in DOMAIN usages : /\ usages[u].log \in Request
                               /\ spent[usages[u].log] # None
                               /\ usages[u].tokens = spent[usages[u].log].tokens
                               /\ usages[u].cost = spent[usages[u].log].cost
  BY <1>0, RowsOfRequests DEF LedgerInv, UsagesAreTrue, Says
<1>5. \A u \in DOMAIN usages : TokensIn[u] = Tokens[usages[u].log]
  BY <1>4 DEF TokensIn, Tokens
<1>6. \A u \in DOMAIN usages : CostIn[u] = Cost[usages[u].log]
  BY <1>4 DEF CostIn, Cost
<1>7. TokensIn \in [DOMAIN usages -> Nat] /\ CostIn \in [DOMAIN usages -> Nat]
  BY <1>0, Columns
<1>8. /\ SumFunctionOnSet(TokensIn, RowsOf(k, 0)) = SumFunctionOnSet(Tokens, PaidBy(k))
      /\ SumFunctionOnSet(CostIn, RowsOf(k, 0)) = SumFunctionOnSet(Cost, PaidBy(k))
  BY <1>2, <1>3, <1>5, <1>6, <1>7, RowsArePaid
<1>9. /\ SumFunctionOnSet(Tokens, PaidBy(k))
           \in SumFunctionOnSet(Tokens, sure) .. SumFunctionOnSet(Tokens, maybe)
      /\ SumFunctionOnSet(Cost, PaidBy(k))
           \in SumFunctionOnSet(Cost, sure) .. SumFunctionOnSet(Cost, maybe)
  BY <1>2, <1>3, PaidBetween
<1> QED
  BY <1>0, <1>8, <1>9, Reported

\* A key is charged for everything its finished requests spent, and for no more
\* than its requests may have saved, however many writes fail and wherever the
\* gateway dies.
THEOREM ChargesAreTrue == Spec => []ChargedWhatWasSpent
  BY LedgerIsTrue, InvCharges, PTL

MineOf(k) == {l \in DOMAIN logs : k = None \/ logs[l].key = k}

\* The numbers from one to n are n.
LEMMA UpToCounts ==
  ASSUME NEW n \in Nat
  PROVE  IsFiniteSet(1 .. n) /\ Cardinality(1 .. n) = n
BY FS_Interval

\* An order of a set lists each element once.
LEMMA OrderOf ==
  ASSUME NEW S, IsFiniteSet(S), NEW o \in SetToSeqs(S)
  PROVE  /\ o \in [1 .. Cardinality(S) -> S] /\ Cardinality(S) \in Nat
         /\ \A i, j \in 1 .. Cardinality(S) : o[i] = o[j] => i = j
         /\ \A s \in S : \E i \in 1 .. Cardinality(S) : o[i] = s
<1> DEFINE n == Cardinality(S)
<1>1. n \in Nat
  BY FS_CardinalityType
<1>2. o \in [1 .. n -> S] /\ \A i, j \in 1 .. n : o[i] = o[j] => i = j
  BY DEF SetToSeqs
<1>3. IsFiniteSet(1 .. n) /\ Cardinality(1 .. n) = n
  BY <1>1, UpToCounts
<1>4. o \in Injection(1 .. n, S)
  BY <1>2 DEF Injection, IsInjective
<1>5. o \in Surjection(1 .. n, S)
  BY <1>3, <1>4, FS_Injection
<1> QED
  BY <1>1, <1>2, <1>5 DEF Surjection

\* An answer that is not cut shows every row of the key once.
LEMMA ShownInFull ==
  ASSUME LedgerInv, NEW k, NEW shown \in ListRecent(k, Len(logs))
  PROVE  \E o : /\ o \in [DOMAIN shown -> MineOf(k)]
                /\ \A i, j \in DOMAIN shown : o[i] = o[j] => i = j
                /\ \A l \in MineOf(k) : \E i \in DOMAIN shown : o[i] = l
                /\ \A i \in DOMAIN shown : shown[i] = logs[o[i]]
<1> DEFINE n == Cardinality(MineOf(k))
           last == IF Len(logs) < n THEN Len(logs) ELSE n
<1>1. PICK o \in SetToSeqs(MineOf(k)) : shown = [a \in 1 .. last |-> logs[o[a]]]
  BY DEF ListRecent, MineOf
<1>2. IsFiniteSet(MineOf(k)) /\ n <= Len(logs) /\ Len(logs) \in Nat
  <2>1. TypeOK
    BY DEF LedgerInv
  <2>2. /\ IsFiniteSet(DOMAIN logs) /\ DOMAIN logs = 1 .. Len(logs) /\ Len(logs) \in Nat
    BY <2>1, TablesAreFinite
  <2>3. Cardinality(DOMAIN logs) = Len(logs)
    <3>1. Cardinality(1 .. Len(logs)) = Len(logs)
      BY <2>2, UpToCounts
    <3> QED
      BY <2>2, <3>1, Zenon
  <2>4. MineOf(k) \in SUBSET DOMAIN logs
    BY DEF MineOf
  <2>5. IsFiniteSet(MineOf(k)) /\ Cardinality(MineOf(k)) <= Cardinality(DOMAIN logs)
    BY <2>2, <2>4, FS_Subset
  <2> QED
    BY <2>2, <2>3, <2>5
<1>3. /\ o \in [1 .. n -> MineOf(k)] /\ n \in Nat
      /\ \A i, j \in 1 .. n : o[i] = o[j] => i = j
      /\ \A l \in MineOf(k) : \E i \in 1 .. n : o[i] = l
  BY <1>2, OrderOf
<1> HIDE DEF n
<1>4. last = n
  BY <1>2, <1>3
<1>5. DOMAIN shown = 1 .. n /\ \A i \in 1 .. n : shown[i] = logs[o[i]]
  BY <1>1, <1>4
<1> QED
  BY <1>3, <1>5

\* Any finite set can be put in an order in which the numbers do not rise.
LEMMA OrderExists ==
  ASSUME NEW S, IsFiniteSet(S), NEW at \in [S -> Nat]
  PROVE  \E o \in SetToSeqs(S) : \A a, b \in DOMAIN o : a < b => at[o[a]] >= at[o[b]]
<1> DEFINE Orders(A, n, o) == /\ o \in [1 .. n -> A]
                              /\ \A i, j \in 1 .. n : o[i] = o[j] => i = j
                              /\ \A i, j \in 1 .. n : i < j => at[o[i]] >= at[o[j]]
           N == {n \in Nat : \A A \in SUBSET S : Cardinality(A) = n => \E o : Orders(A, n, o)}
<1>0. \A A \in SUBSET S : IsFiniteSet(A) /\ Cardinality(A) \in Nat
  BY FS_Subset, FS_CardinalityType
<1>1. 0 \in N
  <2> SUFFICES ASSUME NEW A \in SUBSET S PROVE \E o : Orders(A, 0, o)
    OBVIOUS
  <2>1. Orders(A, 0, [i \in 1 .. 0 |-> i])
    OBVIOUS
  <2> QED
    BY <2>1
<1>2. ASSUME NEW n \in Nat, n \in N PROVE n + 1 \in N
  <2> SUFFICES ASSUME NEW A \in SUBSET S, Cardinality(A) = n + 1
               PROVE  \E o : Orders(A, n + 1, o)
    OBVIOUS
  <2>1. A # {}
    <3>1. Cardinality({}) = 0
      BY FS_EmptySet
    <3>2. Cardinality(A) # 0
      OBVIOUS
    <3> QED
      BY <3>1, <3>2, Zenon
  <2>2. PICK m \in A : \A x \in A : at[m] <= at[x]
    <3> DEFINE V == {at[x] : x \in A}
    <3>1. V \subseteq Nat /\ V # {}
      BY <2>1
    <3>2. PICK v \in V : \A w \in V : v <= w
      <4> HIDE DEF V
      <4> QED
        BY <3>1, NatMin
    <3> QED
      BY <3>2
  <2> DEFINE B == A \ {m}
  <2>3. B \in SUBSET S /\ Cardinality(B) = n
    <3>1. IsFiniteSet(A)
      BY <1>0
    <3>2. Cardinality(B) = Cardinality(A) - 1
      BY <3>1, FS_RemoveElement
    <3>3. B \in SUBSET S
      OBVIOUS
    <3> HIDE DEF B
    <3> QED
      BY <3>2, <3>3
  <2> HIDE DEF B
  <2>4. PICK o : Orders(B, n, o)
    BY <1>2, <2>3
  <2> DEFINE p == [i \in 1 .. n + 1 |-> IF i = n + 1 THEN m ELSE o[i]]
  <2>5. /\ p[n + 1] = m
        /\ \A i \in 1 .. n : p[i] = o[i] /\ o[i] \in A /\ o[i] # m
    BY <2>4 DEF B
  <2>6. \A i \in 1 .. n + 1 : i = n + 1 \/ i \in 1 .. n
    OBVIOUS
  <2>7. p \in [1 .. n + 1 -> A]
    <3>1. \A i \in 1 .. n + 1 : p[i] \in A
      BY <2>5, <2>6
    <3> QED
      BY <3>1
  <2> HIDE DEF p
  <2>8. \A i, j \in 1 .. n + 1 : p[i] = p[j] => i = j
    BY <2>4, <2>5, <2>6
  <2>9. \A i, j \in 1 .. n + 1 : i < j => at[p[i]] >= at[p[j]]
    <3> SUFFICES ASSUME NEW i \in 1 .. n + 1, NEW j \in 1 .. n + 1, i < j
                 PROVE  at[p[i]] >= at[p[j]]
      OBVIOUS
    <3>1. i \in 1 .. n
      OBVIOUS
    <3>2. CASE j = n + 1
      BY <2>2, <2>5, <3>1, <3>2
    <3>3. CASE j \in 1 .. n
      BY <2>4, <2>5, <3>1, <3>3
    <3> QED
      BY <2>6, <3>2, <3>3
  <2> QED
    BY <2>7, <2>8, <2>9
<1>3. \A n \in Nat : n \in N
  <2> HIDE DEF N
  <2> QED
    BY <1>1, <1>2, NatSetInduction
<1>4. PICK o : Orders(S, Cardinality(S), o)
  BY <1>0, <1>3
<1>5. o \in SetToSeqs(S) /\ DOMAIN o = 1 .. Cardinality(S)
  BY <1>4 DEF SetToSeqs
<1> QED
  BY <1>4, <1>5

\* list_recent always has an answer.
LEMMA ThereIsAnAnswer ==
  ASSUME TypeOK, NEW k, NEW limit
  PROVE  ListRecent(k, limit) # {}
<1> DEFINE at == [l \in MineOf(k) |-> logs[l].at]
<1>1. MineOf(k) \in SUBSET DOMAIN logs /\ IsFiniteSet(MineOf(k))
  BY TablesAreFinite, FS_Subset DEF MineOf
<1>2. at \in [MineOf(k) -> Nat] /\ \A l \in MineOf(k) : at[l] = logs[l].at
  BY <1>1, TablesAreFinite DEF LogType, Times
<1> HIDE DEF at
<1>3. PICK o \in SetToSeqs(MineOf(k)) : \A a, b \in DOMAIN o : a < b => at[o[a]] >= at[o[b]]
  BY <1>1, <1>2, OrderExists
<1>4. \A a \in DOMAIN o : o[a] \in MineOf(k)
  BY DEF SetToSeqs
<1>5. \A a, b \in DOMAIN o : a < b => logs[o[a]].at >= logs[o[b]].at
  BY <1>2, <1>3, <1>4
<1> QED
  BY <1>5 DEF ListRecent, MineOf

\* In every such state what is counted is listed.
LEMMA InvLists == LedgerInv => CountedAreListed
<1> SUFFICES ASSUME LedgerInv, NEW k \in Key, NEW shown \in ListRecent(k, Len(logs))
             PROVE  AggregateCost(k, 0).requests
                      = Cardinality({i \in DOMAIN shown : \E j \in DOMAIN usages :
                                       usages[j].log = shown[i].id})
  BY DEF CountedAreListed
<1> DEFINE A == RowsOf(k, 0)
           X == {i \in DOMAIN shown : \E j \in DOMAIN usages : usages[j].log = shown[i].id}
           c == [u \in A |-> CHOOSE i \in X : shown[i].id = usages[u].log]
<1>0. TypeOK
  BY DEF LedgerInv
<1>1. A \in SUBSET DOMAIN usages /\ IsFiniteSet(A) /\ AggregateCost(k, 0).requests = Cardinality(A)
  BY <1>0, Reported DEF AggregateCost, RowsOf
<1>2. \A u \in DOMAIN usages : u \in A <=> key[usages[u].log] = k
  <2>1. \A u \in DOMAIN usages : usages[u].at >= 0
    BY <1>0, TablesAreFinite DEF UsageType, Times
  <2> QED
    BY <2>1, KeyOfUsage DEF RowsOf, Since
<1>3. PICK o : /\ o \in [DOMAIN shown -> MineOf(k)]
               /\ \A i, j \in DOMAIN shown : o[i] = o[j] => i = j
               /\ \A l \in MineOf(k) : \E i \in DOMAIN shown : o[i] = l
               /\ \A i \in DOMAIN shown : shown[i] = logs[o[i]]
  BY ShownInFull
<1>4. \A l \in DOMAIN logs : l \in MineOf(k) <=> key[logs[l].id] = k
  BY LedgerAssumption DEF MineOf, LedgerInv, LogsAreTrue
<1> HIDE DEF A
<1>5. \A u \in A : \E i \in X : shown[i].id = usages[u].log
  <2> SUFFICES ASSUME NEW u \in A PROVE \E i \in X : shown[i].id = usages[u].log
    OBVIOUS
  <2>1. PICK l \in DOMAIN logs : logs[l].id = usages[u].log
    BY <1>1 DEF LedgerInv, UsagesAreTrue, Says, Logged
  <2>2. l \in MineOf(k)
    BY <1>1, <1>2, <1>4, <2>1
  <2>3. PICK i \in DOMAIN shown : o[i] = l
    BY <1>3, <2>2
  <2> QED
    BY <1>1, <1>3, <2>1, <2>3
<1>6. \A i \in X : \E u \in A : shown[i].id = usages[u].log
  BY <1>2, <1>3, <1>4 DEF MineOf
<1>7. \A i, j \in X : shown[i].id = shown[j].id => i = j
  BY <1>3 DEF MineOf, LedgerInv, LogsAreTrue
<1>8. \A u, v \in A : usages[u].log = usages[v].log => u = v
  BY <1>1 DEF LedgerInv, UsagesAreTrue
<1> HIDE DEF X
<1>9. c \in [A -> X] /\ \A u \in A : shown[c[u]].id = usages[u].log
  BY <1>5
<1> HIDE DEF c
<1>10. c \in Bijection(A, X)
  <2>1. \A u, v \in A : c[u] = c[v] => u = v
    BY <1>8, <1>9
  <2>2. \A i \in X : \E u \in A : c[u] = i
    BY <1>6, <1>7, <1>9
  <2> QED
    BY <1>9, <2>1, <2>2 DEF Bijection, Injection, IsInjective, Surjection
<1>11. Cardinality(X) = Cardinality(A)
  BY <1>1, <1>10, FS_Bijection DEF ExistsBijection
<1> QED
  BY <1>1, <1>11 DEF X

\* The requests a summary counts are, at every moment, those list_recent shows
\* for the key with a usage: neither report knows of one the other does not.
THEOREM CountedAreShown == Spec => []CountedAreListed
  BY LedgerIsTrue, InvLists, PTL

=============================================================================
