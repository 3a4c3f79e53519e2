------------------------- MODULE RateLimiterProofs -------------------------
(***************************************************************************)
(* Proofs about RateLimiter for any number of requests and clients, any    *)
(* limit, window and delay.  The heart of it: among the requests that      *)
(* Redis counts before their window is over, no two of one window get the  *)
(* same number, because the counter does not restart before that.          *)
(***************************************************************************)
EXTENDS RateLimiter, FiniteSetTheorems, TLAPS

\* INCR has answered.
Numbered(r) == phase[r] \in {"expire", "decide", "passed", "limited"}

\* What a request knows: its window is the one of its stamp, Redis counted it
\* later than that, and its verdict follows from its number.
Knows(r) ==
  /\ phase[r] # "idle" => stamp[r] <= now /\ bucket[r] = stamp[r] \div Window
  /\ Numbered(r) => count[r] >= 1 /\ hit[r] \in stamp[r] .. now
  /\ phase[r] = "passed" => count[r] <= Limit
  /\ phase[r] = "limited" =>
       count[r] > Limit /\ at[r] >= stamp[r] /\ retry[r] = RetryAfter(at[r])

End(k) == (k[2] + 1) * Window

\* A key with a TTL lives until its window is over.
Lives == \A k \in Keys : expires[k] # None => expires[k] >= End(k)

\* Until then the counter is no less than any number it has given.
Ranked(r) == Numbered(r) /\ InTime(r) /\ now < End(Key(r)) => count[r] <= counter[Key(r)]

Apart(q, r) ==
  q # r /\ Numbered(q) /\ Numbered(r) /\ InTime(q) /\ InTime(r) /\ Key(q) = Key(r)
    => count[q] # count[r]

\* The requests Redis may have counted.
Counted(k) == {r \in Request : phase[r] \notin {"idle", "incr"} /\ Key(r) = k}

Charged ==
  /\ \A k \in Keys : counter[k] <= Cardinality(Counted(k))
  /\ \A r \in Request : Numbered(r) => count[r] <= Cardinality(Counted(Key(r)))

Order == Lives /\ (\A r \in Request : Ranked(r)) /\ \A q, r \in Request : Apart(q, r)

Known == TypeOK /\ \A r \in Request : Knows(r)

IInv == Known /\ Order /\ Charged /\ NoKeyLeaks

-----------------------------------------------------------------------------
\* Division by the window.
LEMMA Division ==
  ASSUME NEW t \in Nat, NEW w \in Nat \ {0}
  PROVE  /\ t \div w \in Nat
         /\ (t \div w) * w <= t
         /\ t < ((t \div w) + 1) * w
         /\ t % w \in 0 .. w - 1
         /\ t = (t \div w) * w + (t % w)
<1>1. t \div w \in Nat /\ t % w \in 0 .. w - 1
  OBVIOUS
<1>2. t = w * (t \div w) + (t % w)
  OBVIOUS
<1> QED
  BY <1>1, <1>2

\* Later windows start after earlier ones are over.
LEMMA Later ==
  ASSUME NEW a \in Nat, NEW b \in Nat, NEW w \in Nat \ {0}, a < b
  PROVE  (a + 1) * w <= b * w
OBVIOUS

\* Who comes after the start of a window is in it or in a later one.
LEMMA WindowAt ==
  ASSUME NEW b \in Nat, NEW t \in Nat, NEW w \in Nat \ {0}, b * w <= t
  PROVE  b <= t \div w
<1> DEFINE x == t \div w
<1>1. x \in Nat /\ t < (x + 1) * w
  BY Division
<1> HIDE DEF x
<1>2. SUFFICES ASSUME x < b PROVE FALSE
  BY <1>1 DEF x
<1>3. (x + 1) * w <= b * w
  BY <1>1, <1>2, Later
<1>4. (x + 1) * w \in Nat /\ b * w \in Nat
  BY <1>1
<1> QED
  BY <1>1, <1>3, <1>4

\* The window of a moment is one of the buckets.
LEMMA InBucket ==
  ASSUME NEW t \in 0 .. MaxTime
  PROVE  t \div Window \in Bucket
<1> USE LimiterAssumption
<1> DEFINE b == t \div Window
<1>1. t \in Nat /\ MaxTime \in Nat /\ b \in Nat /\ b * Window <= t
  BY Division
<1> HIDE DEF b
<1>2. b * Window \in Nat
  BY <1>1
<1>3. b * Window <= MaxTime
  BY <1>1, <1>2
<1>4. b <= MaxTime \div Window
  BY <1>1, <1>3, WindowAt
<1>5. MaxTime \div Window \in Nat
  BY Division
<1> QED
  BY <1>1, <1>4, <1>5 DEF b, Bucket

-----------------------------------------------------------------------------
\* The variables of a request that its own steps change.
Same(q) ==
  /\ phase'[q] = phase[q] /\ client'[q] = client[q] /\ stamp'[q] = stamp[q]
  /\ bucket'[q] = bucket[q] /\ count'[q] = count[q] /\ hit'[q] = hit[q]
  /\ retry'[q] = retry[q] /\ at'[q] = at[q]

\* A request that has arrived counts under a key.
LEMMA KeyType ==
  ASSUME TypeOK, NEW r \in Request, phase[r] # "idle"
  PROVE  Key(r) \in Keys
BY DEF TypeOK, Key, Keys

\* Another request knows what it knew.
LEMMA Frame ==
  ASSUME NEW q, Same(q), now' = now, Knows(q)
  PROVE  Knows(q)'
BY DEF Same, Knows, Numbered, RetryAfter

\* A request takes its stamp and its bucket.
LEMMA ArriveStep ==
  ASSUME Known, NEW r \in Request, Arrive(r)
  PROVE  TypeOK' /\ Knows(r)' /\ \A q \in Request \ {r} : Same(q)
<1> USE LimiterAssumption
<1>1. now \div Window \in Bucket
  BY InBucket DEF Known, TypeOK
<1>2. TypeOK'
  BY <1>1 DEF Known, TypeOK, Arrive, Go, redis, Running, Finished
<1>3. Knows(r)'
  BY DEF Known, TypeOK, Arrive, Go, Knows, Numbered
<1>4. \A q \in Request \ {r} : Same(q)
  BY DEF Known, TypeOK, Arrive, Go, Same
<1> QED
  BY <1>2, <1>3, <1>4

\* Redis counts a request.
LEMMA IncrStep ==
  ASSUME Known, NEW r \in Request, Incr(r) \/ IncrFails(r)
  PROVE  TypeOK' /\ Knows(r)' /\ \A q \in Request \ {r} : Same(q)
<1> USE LimiterAssumption
<1>1. Key(r) \in Keys /\ counter[Key(r)] \in Nat
  BY KeyType DEF Known, TypeOK, Incr, IncrFails, Go
<1> DEFINE k == Key(r)
<1>2. counter' = [counter EXCEPT ![k] = counter[k] + 1] \/ counter' = counter
  BY DEF Incr, IncrFails, Add
<1> HIDE DEF k
<1>3. counter' \in [Keys -> Nat]
  BY <1>1, <1>2 DEF k, Known, TypeOK
<1>4. CASE Incr(r)
  <2>1. TypeOK'
    BY <1>1, <1>3, <1>4 DEF Known, TypeOK, Incr, Go, Running, Finished
  <2>2. Knows(r)' /\ \A q \in Request \ {r} : Same(q)
    BY <1>1, <1>4 DEF Known, TypeOK, Incr, Go, Knows, Numbered, Same
  <2> QED
    BY <2>1, <2>2
<1>5. CASE IncrFails(r)
  BY <1>3, <1>5 DEF Known, TypeOK, IncrFails, Go, Running, Finished, Knows, Numbered, Same, local
<1> QED
  BY <1>4, <1>5

\* The counter gets its TTL.
LEMMA ExpireStep ==
  ASSUME Known, NEW r \in Request, Expire(r) \/ ExpireFails(r)
  PROVE  TypeOK' /\ Knows(r)' /\ \A q \in Request \ {r} : Same(q)
<1> USE LimiterAssumption
<1> DEFINE k == Key(r)
<1>1. expires' = [expires EXCEPT ![k] = now + Window] \/ expires' = expires
  BY DEF Expire, ExpireFails, SetTTL
<1> HIDE DEF k
<1>2. expires' \in [Keys -> Nat \cup {None}]
  BY <1>1 DEF Known, TypeOK
<1> QED
  BY <1>2 DEF Known, TypeOK, Expire, ExpireFails, Go, Running, Finished, Knows, Numbered, Same, local

\* A request is let through or limited.
LEMMA VerdictStep ==
  ASSUME Known, NEW r \in Request, Pass(r) \/ Reject(r)
  PROVE  TypeOK' /\ Knows(r)' /\ \A q \in Request \ {r} : Same(q)
<1> USE LimiterAssumption
<1>1. CASE Pass(r)
  BY <1>1 DEF Known, TypeOK, Pass, Go, OverLimit, redis, local, Running, Finished, Knows, Numbered, Same
<1>2. CASE Reject(r)
  <2> DEFINE wait == RetryAfter(now)
  <2>1. wait \in 0 .. Window
    BY Division DEF RetryAfter, Known, TypeOK
  <2>2. retry' = [retry EXCEPT ![r] = wait]
    BY <1>2 DEF Reject
  <2>3. wait = RetryAfter(now)
    OBVIOUS
  <2> HIDE DEF wait
  <2>4. TypeOK'
    BY <1>2, <2>1, <2>2 DEF Known, TypeOK, Reject, Go, redis, Running, Finished
  <2>5. at'[r] = now /\ retry'[r] = RetryAfter(at'[r])
    BY <1>2, <2>2, <2>3 DEF Reject, Known, TypeOK
  <2>6. Knows(r)' /\ \A q \in Request \ {r} : Same(q)
    BY <1>2, <2>2, <2>5 DEF Known, TypeOK, Reject, Go, OverLimit, Knows, Numbered, Same, RetryAfter
  <2> QED
    BY <2>4, <2>6
<1> QED
  BY <1>1, <1>2

\* The clock ticks, and keys expire.
LEMMA TickStep ==
  ASSUME Known, Tick
  PROVE  Known'
<1> USE LimiterAssumption
<1>1. counter' \in [Keys -> Nat] /\ expires' \in [Keys -> Nat \cup {None}]
  BY DEF Known, TypeOK, Tick
<1>2. TypeOK'
  BY <1>1 DEF Known, TypeOK, Tick, local
<1>3. \A q \in Request : Knows(q)'
  BY DEF Known, TypeOK, Tick, local, Knows, Numbered, RetryAfter
<1> QED
  BY <1>2, <1>3 DEF Known

\* The gateway dies.
LEMMA CrashStep ==
  ASSUME Known, Crash
  PROVE  Known'
<1> USE LimiterAssumption
<1>1. TypeOK'
  BY DEF Known, TypeOK, Crash, redis, local, Running, Finished
<1>2. \A q \in Request : Knows(q)'
  BY DEF Known, TypeOK, Crash, redis, local, Running, Finished, Knows, Numbered, RetryAfter
<1> QED
  BY <1>1, <1>2 DEF Known

\* A step of a request is one of those above.
LEMMA StepOfOne ==
  ASSUME Known, NEW r \in Request, Step(r)
  PROVE  now' = now /\ TypeOK' /\ Knows(r)' /\ \A q \in Request \ {r} : Same(q)
<1>1. now' = now
  BY DEF Step, Arrive, Incr, IncrFails, Expire, ExpireFails, Pass, Reject
<1> QED
  BY <1>1, ArriveStep, IncrStep, ExpireStep, VerdictStep DEF Step

\* Types and what a request knows are preserved by every step.
LEMMA KnownStep == Known /\ [Next]_vars => Known'
<1> SUFFICES ASSUME Known, [Next]_vars PROVE Known'
  OBVIOUS
<1>1. ASSUME NEW r \in Request, Step(r) PROVE Known'
  <2>1. now' = now /\ TypeOK' /\ Knows(r)' /\ \A q \in Request \ {r} : Same(q)
    BY <1>1, StepOfOne
  <2>2. \A q \in Request : Knows(q)'
    BY <2>1, Frame DEF Known
  <2> QED
    BY <2>1, <2>2 DEF Known
<1>2. CASE UNCHANGED vars
  BY <1>2 DEF Known, TypeOK, Knows, Numbered, RetryAfter, vars, redis, local
<1> QED
  BY <1>1, <1>2, TickStep, CrashStep DEF Next, Quiet

-----------------------------------------------------------------------------
\* The life of a key.
LEMMA LivesStep == Known /\ Lives /\ [Next]_vars => Lives'
<1> SUFFICES ASSUME Known, Lives, [Next]_vars PROVE Lives'
  OBVIOUS
<1> USE LimiterAssumption
<1>1. CASE expires' = expires
  BY <1>1 DEF Lives, End
<1>2. ASSUME NEW r \in Request, Expire(r) \/ ExpireFails(r) PROVE Lives'
  <2>1. stamp[r] <= now /\ bucket[r] = stamp[r] \div Window /\ now \in Nat /\ stamp[r] \in Nat
    BY <1>2 DEF Known, TypeOK, Knows, Expire, ExpireFails, Go
  <2>2. bucket[r] \in Nat /\ bucket[r] * Window <= stamp[r]
    BY <2>1, Division, ZenonT(60)
  <2>3. End(Key(r)) = bucket[r] * Window + Window
    BY <2>2 DEF End, Key
  <2>4. bucket[r] * Window \in Nat
    BY <2>2
  <2>5. now + Window >= End(Key(r))
    BY <2>1, <2>2, <2>3, <2>4
  <2> DEFINE k == Key(r)
             e == End(k)
  <2>6. expires' = [expires EXCEPT ![k] = now + Window] \/ expires' = expires
    BY <1>2 DEF Expire, ExpireFails, SetTTL
  <2>7. now + Window >= e /\ e = End(k)
    BY <2>5
  <2> HIDE DEF k, e
  <2>8. \A j \in Keys : expires'[j] = expires[j] \/ (j = k /\ expires'[j] = now + Window)
    BY <2>6 DEF Known, TypeOK
  <2> QED
    BY <2>7, <2>8 DEF Lives, End
<1>3. CASE Tick
  <2>1. \A k \in Keys : expires'[k] = expires[k] \/ expires'[k] = None
    BY <1>3 DEF Tick
  <2> QED
    BY <2>1 DEF Lives, End
<1> QED
  BY <1>1, <1>2, <1>3
     DEF Next, Step, Arrive, Incr, IncrFails, Pass, Reject, Crash, Quiet, vars, redis

\* A request keeps its number, its key and its place among the counted.
Kept(q) ==
  /\ client'[q] = client[q] /\ bucket'[q] = bucket[q]
  /\ count'[q] = count[q] /\ hit'[q] = hit[q]
  /\ Numbered(q)' => Numbered(q)
  /\ phase[q] \notin {"idle", "incr"} => phase'[q] \notin {"idle", "incr"}

\* All do, but for the one that arrives or is counted.
LEMMA OthersKept ==
  ASSUME Known, [Next]_vars
  PROVE  \/ \A q \in Request : Kept(q)
         \/ \E r \in Request :
              /\ Arrive(r) \/ Incr(r) \/ IncrFails(r)
              /\ \A q \in Request \ {r} : Kept(q)
<1>1. ASSUME NEW r \in Request, Arrive(r) \/ Incr(r) \/ IncrFails(r)
      PROVE  \A q \in Request \ {r} : Kept(q)
  BY <1>1, ArriveStep, IncrStep DEF Same, Kept, Numbered
<1>2. ASSUME NEW r \in Request, Expire(r) \/ ExpireFails(r) \/ Pass(r) \/ Reject(r)
      PROVE  \A q \in Request : Kept(q)
  <2>1. \A q \in Request \ {r} : Kept(q)
    BY <1>2, ExpireStep, VerdictStep DEF Same, Kept, Numbered
  <2>2. Kept(r)
    BY <1>2 DEF Known, TypeOK, Expire, ExpireFails, Pass, Reject, Go, local, Kept, Numbered
  <2> QED
    BY <2>1, <2>2
<1>3. CASE Tick \/ UNCHANGED vars
  BY <1>3 DEF Tick, vars, local, Kept, Numbered
<1>4. CASE Crash
  BY <1>4 DEF Known, TypeOK, Crash, local, Kept, Numbered, Running
<1> QED
  BY <1>1, <1>2, <1>3, <1>4 DEF Next, Step, Quiet

\* What INCR answers a request, and what it does to the counters.
LEMMA Counting ==
  ASSUME Known, NEW r \in Request, Incr(r) \/ IncrFails(r)
  PROVE  /\ now' = now /\ expires' = expires
         /\ Key(r) \in Keys /\ Key(r)' = Key(r)
         /\ counter[Key(r)] \in Nat
         /\ phase[r] = "incr" /\ phase'[r] \notin {"idle", "incr"}
         /\ counter'[Key(r)] \in {counter[Key(r)], counter[Key(r)] + 1}
         /\ \A k \in Keys \ {Key(r)} : counter'[k] = counter[k]
         /\ Incr(r) =>
              /\ count'[r] = counter[Key(r)] + 1 /\ counter'[Key(r)] = counter[Key(r)] + 1
              /\ hit'[r] = now /\ bucket'[r] = bucket[r]
         /\ IncrFails(r) => phase'[r] = "open"
<1>1. Key(r) \in Keys /\ counter[Key(r)] \in Nat
  BY KeyType DEF Known, TypeOK, Incr, IncrFails, Go
<1> DEFINE k == Key(r)
<1>2. \/ counter' = [counter EXCEPT ![k] = counter[k] + 1]
      \/ counter' = counter /\ IncrFails(r) /\ phase'[r] = "open"
  BY DEF Known, TypeOK, Incr, IncrFails, Add, Go
<1>3. Key(r)' = Key(r)
  BY DEF Incr, IncrFails, local, Key
<1> HIDE DEF k
<1>4. /\ counter'[k] \in {counter[k], counter[k] + 1}
      /\ Incr(r) => counter'[k] = counter[k] + 1
      /\ \A j \in Keys \ {k} : counter'[j] = counter[j]
  BY <1>1, <1>2 DEF k, Known, TypeOK, Incr, Go
<1> QED
  BY <1>1, <1>3, <1>4 DEF k, Known, TypeOK, Incr, IncrFails, Go, local

-----------------------------------------------------------------------------
\* A request that keeps its number keeps its rank while the counter does not
\* fall, and stays apart from others that do.
LEMMA RankKept ==
  ASSUME NEW r, Kept(r), Ranked(r), now <= now', now \in Int, now' \in Int,
         End(Key(r)) \in Int, count[r] \in Int,
         counter[Key(r)] \in Int, counter'[Key(r)] \in Int,
         now' < End(Key(r)) => counter[Key(r)] <= counter'[Key(r)]
  PROVE  Ranked(r)'
<1>1. Key(r)' = Key(r) /\ End(Key(r))' = End(Key(r)) /\ (InTime(r)' <=> InTime(r))
  BY DEF Kept, Key, End, InTime
<1>2. counter[Key(r)]' = counter'[Key(r)]
  BY <1>1
<1>3. Numbered(r)' => Numbered(r)
  BY DEF Kept
<1>4. count'[r] = count[r]
  BY DEF Kept
<1> QED
  BY <1>1, <1>2, <1>3, <1>4 DEF Ranked

\* Two requests that keep their numbers stay apart.
LEMMA ApartKept ==
  ASSUME NEW q, NEW r, Kept(q), Kept(r), Apart(q, r)
  PROVE  Apart(q, r)'
BY DEF Kept, Apart, InTime, Key

\* The end of a window is a moment.
LEMMA EndType ==
  ASSUME TypeOK, NEW r \in Request, phase[r] # "idle"
  PROVE  End(Key(r)) \in Nat /\ End(Key(r)) = (bucket[r] + 1) * Window
<1> USE LimiterAssumption
<1>1. MaxTime \div Window \in Nat
  BY Division
<1>2. bucket[r] \in Nat
  BY <1>1 DEF TypeOK, Bucket
<1> QED
  BY <1>2 DEF End, Key

\* No two requests of a window get the same number.
LEMMA OrderStep == Known /\ Order /\ [Next]_vars => Order'
<1> SUFFICES ASSUME Known, Order, [Next]_vars PROVE Order'
  OBVIOUS
<1> USE LimiterAssumption
<1>1. Known' /\ Lives'
  BY KnownStep, LivesStep DEF Order
<1>2. \A q \in Request : ~Numbered(q)' => Ranked(q)'
  BY DEF Ranked
<1>3. ASSUME NEW k \in Keys, now' < End(k), End(k) \in Nat PROVE counter[k] <= counter'[k]
  <2>1. CASE Tick
    <3>1. expires[k] = None \/ ~(expires[k] \in 0 .. now + 1)
      BY <1>3, <2>1 DEF Order, Lives, Tick, Known, TypeOK
    <3> QED
      BY <2>1, <3>1 DEF Tick, Known, TypeOK
  <2>2. ASSUME NEW r \in Request, Incr(r) \/ IncrFails(r) PROVE counter[k] <= counter'[k]
    BY <2>2, Counting DEF Known, TypeOK
  <2>3. CASE counter' = counter
    BY <2>3 DEF Known, TypeOK
  <2> QED
    BY <2>1, <2>2, <2>3
       DEF Next, Step, Arrive, Expire, ExpireFails, Pass, Reject, Crash, Quiet, vars, redis
<1>4. ASSUME NEW q \in Request, Kept(q) PROVE Ranked(q)'
  <2>1. SUFFICES ASSUME Numbered(q)' PROVE Ranked(q)'
    BY <1>2
  <2>2. phase[q] # "idle"
    BY <1>4, <2>1 DEF Kept, Numbered
  <2>3. Key(q) \in Keys /\ End(Key(q)) \in Nat
    BY <2>2, KeyType, EndType DEF Known
  <2>4. now \in Int /\ now' \in Int /\ now <= now'
    <3>1. now' = now \/ now' = now + 1
      BY DEF Next, Step, Arrive, Incr, IncrFails, Expire, ExpireFails, Pass, Reject, Tick, Crash, Quiet, vars
    <3> QED
      BY <3>1 DEF Known, TypeOK
  <2>5. counter[Key(q)] \in Int /\ counter'[Key(q)] \in Int /\ count[q] \in Int
    BY <2>3, <1>1 DEF Known, TypeOK
  <2>6. now' < End(Key(q)) => counter[Key(q)] <= counter'[Key(q)]
    BY <1>3, <2>3
  <2>7. Ranked(q)
    BY DEF Order
  <2> QED
    BY <1>4, <2>3, <2>4, <2>5, <2>6, <2>7, RankKept
<1>5. CASE \A q \in Request : Kept(q)
  <2>1. \A q \in Request : Ranked(q)'
    BY <1>4, <1>5
  <2>2. \A q, r \in Request : Apart(q, r)'
    BY <1>5, ApartKept DEF Order
  <2> QED
    BY <1>1, <2>1, <2>2 DEF Order
<1>6. ASSUME NEW r \in Request, Arrive(r) \/ IncrFails(r), \A q \in Request \ {r} : Kept(q)
      PROVE  Order'
  <2>1. ~Numbered(r)'
    BY <1>6, Counting DEF Known, TypeOK, Arrive, Go, Numbered
  <2>2. \A q \in Request : Ranked(q)'
    BY <1>2, <1>4, <1>6, <2>1
  <2>3. \A p, q \in Request : Apart(p, q)'
    BY <1>6, <2>1, ApartKept DEF Order, Apart
  <2> QED
    BY <1>1, <2>2, <2>3 DEF Order
<1>7. ASSUME NEW r \in Request, Incr(r), \A q \in Request \ {r} : Kept(q)
      PROVE  Order'
  <2> DEFINE k == Key(r)
             n == counter[k]
  <2>1. /\ now' = now /\ k \in Keys /\ Key(r)' = k /\ n \in Nat /\ phase[r] = "incr"
        /\ count'[r] = n + 1 /\ counter'[k] = n + 1 /\ hit'[r] = now /\ bucket'[r] = bucket[r]
    BY <1>7, Counting
  <2>2. End(k) \in Nat /\ (InTime(r)' <=> now < End(k))
    BY <2>1, EndType DEF InTime, Known
  <2>3. Ranked(r)'
    BY <2>1 DEF Ranked
  <2>4. \A q \in Request : Ranked(q)'
    BY <1>4, <1>7, <2>3
  <2>5. ASSUME NEW q \in Request, q # r, Numbered(q)', InTime(q)', InTime(r)', Key(q)' = k
        PROVE  count'[q] # count'[r]
    <3>1. Kept(q)
      BY <1>7, <2>5
    <3>2. Numbered(q) /\ InTime(q) /\ Key(q) = k /\ count'[q] = count[q]
      BY <2>5, <3>1 DEF Kept, InTime, Key
    <3>3. count[q] <= n
      BY <2>2, <2>5, <3>2 DEF Order, Ranked
    <3> QED
      BY <2>1, <3>2, <3>3 DEF Known, TypeOK
  <2>6. \A p, q \in Request : Apart(p, q)'
    <3>1. ASSUME NEW p \in Request, NEW q \in Request PROVE Apart(p, q)'
      <4>1. CASE p # r /\ q # r
        BY <1>7, <4>1, ApartKept DEF Order
      <4>2. CASE p = r
        BY <2>1, <2>5, <4>2 DEF Apart
      <4>3. CASE q = r
        BY <2>1, <2>5, <4>3 DEF Apart
      <4> QED
        BY <4>1, <4>2, <4>3
    <3> QED
      BY <3>1
  <2> QED
    BY <1>1, <2>4, <2>6 DEF Order
<1> QED
  BY <1>5, <1>6, <1>7, OthersKept

-----------------------------------------------------------------------------
\* The requests that count under a key are finitely many.
LEMMA CountedFinite ==
  ASSUME NEW k
  PROVE  IsFiniteSet(Counted(k)) /\ Cardinality(Counted(k)) \in Nat
<1>1. Counted(k) \in SUBSET Request
  BY DEF Counted
<1> QED
  BY <1>1, LimiterAssumption, FS_Subset, FS_CardinalityType

\* Who is counted stays counted, and Redis counts no more than there are.
LEMMA ChargedStep == Known /\ Charged /\ [Next]_vars => Charged'
<1> SUFFICES ASSUME Known, Charged, [Next]_vars PROVE Charged'
  OBVIOUS
<1> USE LimiterAssumption
<1>1. ASSUME NEW k
      PROVE  /\ Cardinality(Counted(k)) \in Nat /\ Cardinality(Counted(k)') \in Nat
             /\ Cardinality(Counted(k)) <= Cardinality(Counted(k)')
  <2> DEFINE before == Counted(k)
             after == Counted(k)'
  <2>1. before \in SUBSET after
    BY OthersKept DEF Counted, Kept, Key, Known, TypeOK, Arrive, Incr, IncrFails, Go
  <2>2. after \in SUBSET Request
    BY DEF Counted
  <2>3. IsFiniteSet(after)
    BY <2>2, FS_Subset
  <2> HIDE DEF before, after
  <2>4. Cardinality(before) <= Cardinality(after)
    BY <2>1, <2>3, FS_Subset
  <2>5. Cardinality(after) \in Nat
    BY <2>3, FS_CardinalityType
  <2>6. IsFiniteSet(before)
    BY CountedFinite DEF before
  <2>7. Cardinality(before) \in Nat
    BY <2>6, FS_CardinalityType
  <2> QED
    BY <2>4, <2>5, <2>7 DEF before, after
<1>2. Known'
  BY KnownStep
<1>3. ASSUME NEW q \in Request, Kept(q), Numbered(q)'
      PROVE  count'[q] <= Cardinality(Counted(Key(q)))'
  <2>1. Numbered(q) /\ Key(q)' = Key(q) /\ count'[q] = count[q]
    BY <1>3 DEF Kept, Key
  <2>2. count[q] <= Cardinality(Counted(Key(q))) /\ count[q] \in Nat
    BY <2>1 DEF Charged, Known, TypeOK
  <2> PICK k : k = Key(q)
    OBVIOUS
  <2>3. Cardinality(Counted(Key(q)))' = Cardinality(Counted(k)')
    BY <2>1 DEF Counted
  <2>4. /\ Cardinality(Counted(k)) \in Nat /\ Cardinality(Counted(k)') \in Nat
        /\ Cardinality(Counted(k)) <= Cardinality(Counted(k)')
    BY <1>1
  <2>5. count[q] <= Cardinality(Counted(k))
    BY <2>2
  <2> QED
    BY <2>1, <2>2, <2>3, <2>4, <2>5
<1>4. ASSUME NEW k \in Keys, counter'[k] <= counter[k]
      PROVE  counter'[k] <= Cardinality(Counted(k)')
  BY <1>1, <1>2, <1>4 DEF Charged, Known, TypeOK
<1>5. ASSUME NEW r \in Request, Incr(r) \/ IncrFails(r) PROVE Charged'
  <2> PICK k, n : k = Key(r) /\ n = counter[k]
    OBVIOUS
  <2>1. /\ k \in Keys /\ Key(r)' = k /\ n \in Nat
        /\ phase[r] = "incr" /\ phase'[r] \notin {"idle", "incr"}
        /\ counter'[k] \in {n, n + 1}
        /\ \A j \in Keys \ {k} : counter'[j] = counter[j]
        /\ Incr(r) => count'[r] = n + 1
        /\ IncrFails(r) => phase'[r] = "open"
    BY <1>5, Counting
  <2>2. \A q \in Request \ {r} : Kept(q)
    BY <1>5, IncrStep DEF Same, Kept, Numbered
  <2>3. n + 1 <= Cardinality(Counted(k)')
    <3> DEFINE before == Counted(k)
               after == Counted(k)'
    <3>1. r \notin before /\ before \cup {r} \in SUBSET after
      BY <2>1, <2>2 DEF Counted, Kept, Key
    <3>2. IsFiniteSet(after)
      <4>1. after \in SUBSET Request
        BY DEF Counted
      <4> QED
        BY <4>1, FS_Subset
    <3>3. IsFiniteSet(before) /\ Cardinality(before) \in Nat
      BY CountedFinite
    <3>4. n <= Cardinality(before)
      BY <2>1 DEF Charged
    <3> HIDE DEF before, after
    <3>5. Cardinality(before \cup {r}) = Cardinality(before) + 1
      BY <3>1, <3>3, FS_AddElement
    <3>6. Cardinality(before \cup {r}) <= Cardinality(after) /\ Cardinality(after) \in Nat
      BY <3>1, <3>2, FS_Subset, FS_CardinalityType
    <3>7. n + 1 <= Cardinality(after)
      BY <2>1, <3>3, <3>4, <3>5, <3>6
    <3> QED
      BY <3>7 DEF after
  <2>4. \A j \in Keys : counter'[j] <= Cardinality(Counted(j)')
    <3>1. counter'[k] <= Cardinality(Counted(k)')
      BY <1>1, <2>1, <2>3
    <3>2. \A j \in Keys \ {k} : counter'[j] <= counter[j]
      BY <2>1 DEF Known, TypeOK
    <3> QED
      BY <1>4, <3>1, <3>2
  <2>5. Numbered(r)' => count'[r] <= Cardinality(Counted(Key(r)))'
    <3>1. Cardinality(Counted(Key(r)))' = Cardinality(Counted(k)')
      BY <2>1 DEF Counted
    <3>2. Numbered(r)' => count'[r] = n + 1
      BY <1>5, <2>1 DEF Numbered
    <3> QED
      BY <2>3, <3>1, <3>2
  <2> QED
    BY <1>3, <2>2, <2>4, <2>5 DEF Charged
<1>6. ASSUME \A k \in Keys : counter'[k] <= counter[k],
             \A q \in Request : Kept(q) \/ ~Numbered(q)'
      PROVE  Charged'
  BY <1>3, <1>4, <1>6 DEF Charged
<1>7. ASSUME NEW r \in Request, Arrive(r) PROVE Charged'
  <2>1. \A q \in Request : Kept(q) \/ ~Numbered(q)'
    BY <1>7, ArriveStep DEF Same, Kept, Known, TypeOK, Arrive, Go, Numbered
  <2>2. \A k \in Keys : counter'[k] <= counter[k]
    BY <1>7 DEF Arrive, redis, Known, TypeOK
  <2> QED
    BY <1>6, <2>1, <2>2
<1>8. ASSUME ~ \E r \in Request : Arrive(r) \/ Incr(r) \/ IncrFails(r) PROVE Charged'
  <2>1. \A q \in Request : Kept(q)
    BY <1>8, OthersKept
  <2>2. CASE counter' = counter
    <3>1. \A k \in Keys : counter'[k] <= counter[k]
      BY <2>2 DEF Known, TypeOK
    <3> QED
      BY <1>6, <2>1, <3>1
  <2>3. CASE Tick
    <3>1. \A k \in Keys : counter'[k] <= counter[k]
      BY <2>3 DEF Known, TypeOK, Tick
    <3> QED
      BY <1>6, <2>1, <3>1
  <2> QED
    BY <1>8, <2>2, <2>3
       DEF Next, Step, Expire, ExpireFails, Pass, Reject, Crash, Quiet, vars, redis
<1> QED
  BY <1>5, <1>7, <1>8

-----------------------------------------------------------------------------
\* A key without a TTL has a request that has not set it, or never will.
Keeps(r, k) == phase[r] \in {"expire", "open", "dead"} /\ Key(r) = k

\* No step leaves a counter without a TTL.
LEMMA LeakStep == Known /\ NoKeyLeaks /\ [Next]_vars => NoKeyLeaks'
<1> SUFFICES ASSUME Known, NoKeyLeaks, [Next]_vars,
                    NEW k \in Keys, counter'[k] > 0, expires'[k] = None
             PROVE  \E r \in Request : Keeps(r, k)'
  BY DEF NoKeyLeaks, Keeps, Key
<1> USE LimiterAssumption
<1>1. counter[k] > 0 /\ expires[k] = None => \E r \in Request : Keeps(r, k)
  BY DEF NoKeyLeaks, Keeps
<1>2. ASSUME NEW r \in Request, Incr(r) \/ IncrFails(r)
      PROVE  \E q \in Request : Keeps(q, k)'
  <2>1. ASSUME NEW q \in Request, Keeps(q, k) PROVE Keeps(q, k)'
    BY <1>2, <2>1, IncrStep DEF Keeps, Same, Key, Incr, IncrFails, Go
  <2>2. CASE k # Key(r)
    BY <1>1, <1>2, <2>1, <2>2, Counting
  <2>3. CASE k = Key(r)
    <3>1. CASE counter[k] > 0
      BY <1>1, <1>2, <2>1, <3>1, Counting
    <3>2. CASE ~(counter[k] > 0)
      <4>1. counter[k] = 0
        BY <3>2 DEF Known, TypeOK
      <4>2. phase'[r] \in {"expire", "open"}
        BY <1>2, <2>3, <4>1 DEF Known, TypeOK, Incr, IncrFails, Go, SetsTTL
      <4> QED
        BY <1>2, <2>3, <4>2, Counting DEF Keeps
    <3> QED
      BY <3>1, <3>2
  <2> QED
    BY <2>2, <2>3
<1>3. ASSUME NEW r \in Request, Expire(r) \/ ExpireFails(r)
      PROVE  \E q \in Request : Keeps(q, k)'
  <2>1. /\ counter' = counter /\ now + Window \in Nat
        /\ expires' = [expires EXCEPT ![Key(r)] = now + Window] \/ expires' = expires
    BY <1>3 DEF Expire, ExpireFails, SetTTL, Known, TypeOK
  <2>2. expires[k] = None
    BY <2>1 DEF Known, TypeOK
  <2>3. Expire(r) => Key(r) # k
    BY <1>3, <2>1 DEF Expire, SetTTL, Known, TypeOK
  <2>4. \A q \in Request : Keeps(q, k) => Keeps(q, k)'
    <3>1. ASSUME NEW q \in Request, Keeps(q, k), q # r PROVE Keeps(q, k)'
      BY <1>3, <3>1, ExpireStep DEF Keeps, Same, Key
    <3>2. Keeps(r, k) => Keeps(r, k)'
      BY <1>3, <2>3 DEF Keeps, Key, Expire, ExpireFails, Go, local, Known, TypeOK
    <3> QED
      BY <3>1, <3>2
  <2> QED
    BY <1>1, <2>1, <2>2, <2>4
<1>4. ASSUME NEW r \in Request, Arrive(r) \/ Pass(r) \/ Reject(r)
      PROVE  \E q \in Request : Keeps(q, k)'
  <2>1. \A q \in Request \ {r} : Same(q)
    BY <1>4, ArriveStep, VerdictStep
  <2>2. phase[r] \in {"idle", "decide"} /\ counter' = counter /\ expires' = expires
    BY <1>4 DEF Arrive, Pass, Reject, Go, redis
  <2>3. \A q \in Request : Keeps(q, k) => Keeps(q, k)'
    BY <2>1, <2>2 DEF Keeps, Same, Key
  <2> QED
    BY <1>1, <2>2, <2>3
<1>5. CASE Tick
  <2>1. counter[k] > 0 /\ expires[k] = None
    BY <1>5 DEF Tick, Known, TypeOK
  <2> QED
    BY <1>1, <1>5, <2>1 DEF Tick, Keeps, Key, local
<1>6. CASE Crash
  BY <1>1, <1>6 DEF Crash, redis, local, Keeps, Key, Running, Known, TypeOK
<1>7. CASE UNCHANGED vars
  BY <1>1, <1>7 DEF vars, redis, local, Keeps, Key
<1> QED
  BY <1>2, <1>3, <1>4, <1>5, <1>6, <1>7 DEF Next, Step, Quiet

-----------------------------------------------------------------------------
\* Before the first request nothing is counted.
LEMMA InitInv == Init => IInv
<1> SUFFICES ASSUME Init PROVE IInv
  OBVIOUS
<1> USE LimiterAssumption
<1>1. 0 \in Bucket
  <2>1. MaxTime \div Window \in Nat
    BY Division
  <2> QED
    BY <2>1 DEF Bucket
<1>2. Known
  BY <1>1 DEF Init, Known, TypeOK, Knows, Numbered
<1>3. Order
  BY DEF Init, Order, Lives, Ranked, Apart, Numbered
<1>4. Charged
  BY CountedFinite DEF Init, Charged, Numbered
<1>5. NoKeyLeaks
  BY DEF Init, NoKeyLeaks
<1> QED
  BY <1>2, <1>3, <1>4, <1>5 DEF IInv

\* Every step preserves the invariant.
LEMMA NextInv == IInv /\ [Next]_vars => IInv'
BY KnownStep, OrderStep, ChargedStep, LeakStep DEF IInv

\* The invariant holds at every moment.
LEMMA Invariant == Spec => []IInv
BY InitInv, NextInv, PTL DEF Spec

\* The numbers of the requests a window admits are different numbers from 1
\* to Limit: there are at most Limit of them.
LEMMA LimitFromOrder == IInv => WindowLimit
<1> SUFFICES ASSUME IInv, NEW c \in Client, NEW b \in Bucket
             PROVE  Cardinality({r \in Passed(c) : bucket[r] = b /\ InTime(r)}) <= Limit
  BY DEF WindowLimit
<1> DEFINE S == {r \in Passed(c) : bucket[r] = b /\ InTime(r)}
           f == [r \in S |-> count[r]]
<1>1. \A r \in S : r \in Request /\ Numbered(r) /\ InTime(r) /\ Key(r) = <<c, b>>
  BY DEF Passed, Numbered, Key
<1>2. \A r \in S : f[r] \in 1 .. Limit
  BY <1>1, LimiterAssumption DEF IInv, Known, TypeOK, Knows, Passed
<1>3. \A q, r \in S : q # r => f[q] # f[r]
  BY <1>1 DEF IInv, Order, Apart
<1>4. f \in [S -> 1 .. Limit]
  BY <1>2
<1> HIDE DEF S, f
<1>5. f \in Injection(S, 1 .. Limit)
  BY <1>3, <1>4 DEF Injection, IsInjective
<1>6. IsFiniteSet(1 .. Limit) /\ Cardinality(1 .. Limit) = Limit
  BY LimiterAssumption, FS_Interval
<1>7. Cardinality(S) <= Cardinality(1 .. Limit)
  BY <1>5, <1>6, FS_Injection
<1> QED
  BY <1>6, <1>7 DEF S

\* A request over the limit has a number that is too high for the requests
\* counted with it to be fewer.
LEMMA CauseFromCharges == IInv => RejectedForCause
<1> SUFFICES ASSUME IInv, NEW r \in Request, phase[r] = "limited"
             PROVE  Cardinality({q \in Request \ {r} :
                      /\ client[q] = client[r] /\ bucket[q] = bucket[r]
                      /\ phase[q] \notin {"idle", "incr"}}) >= Limit
  BY DEF RejectedForCause
<1> DEFINE others == {q \in Request \ {r} :
                        /\ client[q] = client[r] /\ bucket[q] = bucket[r]
                        /\ phase[q] \notin {"idle", "incr"}}
           all == Counted(Key(r))
<1>1. others = all \ {r} /\ r \in all
  BY DEF Counted, Key
<1>2. IsFiniteSet(all) /\ Cardinality(all) \in Nat
  BY CountedFinite
<1>3. count[r] > Limit /\ count[r] <= Cardinality(all) /\ count[r] \in Nat
  BY DEF IInv, Known, TypeOK, Knows, Charged, Numbered
<1> HIDE DEF others, all
<1>4. Cardinality(others) = Cardinality(all) - 1
  BY <1>1, <1>2, FS_RemoveElement
<1>5. Cardinality(others) >= Limit
  BY <1>2, <1>3, <1>4, LimiterAssumption
<1> QED
  BY <1>5 DEF others

\* Waiting for the rest of the window one is in leads to the next one.
LEMMA HelpFromKnowledge == IInv => RetryAfterHelps
<1> SUFFICES ASSUME IInv, NEW r \in Request, phase[r] = "limited"
             PROVE  (at[r] + retry[r]) \div Window > bucket[r] /\ retry[r] \in 1 .. Window
  BY DEF RetryAfterHelps
<1> USE LimiterAssumption
<1>1. /\ at[r] \in Nat /\ stamp[r] \in Nat /\ stamp[r] <= at[r]
      /\ bucket[r] = stamp[r] \div Window /\ retry[r] = Window - (at[r] % Window)
  BY DEF IInv, Known, TypeOK, Knows, RetryAfter
<1> DEFINE b == bucket[r]
           d == at[r] \div Window
           m == at[r] % Window
<1>2. b \in Nat /\ b * Window <= stamp[r]
  BY <1>1, Division
<1>3. d \in Nat /\ m \in 0 .. Window - 1 /\ at[r] = d * Window + m
  BY <1>1, Division
<1>4. b <= d
  <2>1. b * Window \in Nat
    BY <1>2
  <2>2. b * Window <= at[r]
    BY <1>1, <1>2, <2>1
  <2> QED
    BY <1>1, <1>2, <2>2, WindowAt
<1>5. retry[r] = Window - m
  BY <1>1
<1> HIDE DEF b, d, m
<1>6. retry[r] \in 1 .. Window
  BY <1>3, <1>5
<1>7. at[r] + retry[r] = (d + 1) * Window
  <2>1. (d + 1) * Window = d * Window + Window /\ d * Window \in Nat
    BY <1>3
  <2> QED
    BY <1>3, <1>5, <2>1
<1>8. d + 1 <= (at[r] + retry[r]) \div Window
  BY <1>1, <1>3, <1>6, <1>7, WindowAt
<1>9. (at[r] + retry[r]) \div Window \in Nat
  BY <1>1, <1>6, Division, SMTT(30)
<1> QED
  BY <1>2, <1>3, <1>4, <1>6, <1>8, <1>9 DEF b

-----------------------------------------------------------------------------
\* TypeCorrectness: every reachable state of the limiter is well typed, with
\* any number of requests and clients.
THEOREM TypeCorrectness == Spec => []TypeOK
BY Invariant, PTL DEF IInv, Known

\* NeverOverTheLimit: whatever the order in which requests read the clock, are
\* counted and set the TTL, and whatever fails or dies in between, a window
\* admits at most Limit of the requests counted before its end.
THEOREM NeverOverTheLimit == Spec => []WindowLimit
BY Invariant, LimitFromOrder, PTL

\* OnlyForItsOwn: a client is rejected because of its own requests in that
\* window, never because of another client or window.
THEOREM OnlyForItsOwn == Spec => []RejectedForCause
BY Invariant, CauseFromCharges, PTL

\* WaitingHelps: Retry-After always leads out of the window the request was
\* rejected in, also when the clock moved on since.
THEOREM WaitingHelps == Spec => []RetryAfterHelps
BY Invariant, HelpFromKnowledge, PTL

\* KeysExpire: only a failure of Redis or of the gateway between INCR and
\* EXPIRE leaves a key without a TTL.
THEOREM KeysExpire == Spec => []NoKeyLeaks
BY Invariant, PTL DEF IInv

-----------------------------------------------------------------------------
\* The requests of a client that a window admits, as WindowLimit counts them.
Admitted(c, b) == {r \in Passed(c) : bucket[r] = b /\ InTime(r)}

\* What rate_limit.py:3-7 grants, for the requests counted in time: in any
\* Window consecutive seconds at most twice the limit.
TwiceInTime == \A c \in Client, t \in 0 .. MaxTime :
  Cardinality({r \in Passed(c) : stamp[r] \in t .. t + Window - 1 /\ InTime(r)}) <= 2 * Limit

\* Window consecutive seconds lie in two windows.
LEMMA TwoWindows ==
  ASSUME NEW t \in Nat, NEW s \in t .. t + Window - 1
  PROVE  s \div Window \in {t \div Window, t \div Window + 1}
<1> USE LimiterAssumption
<1> DEFINE b == t \div Window
           d == s \div Window
<1>1. b \in Nat /\ b * Window <= t /\ t < (b + 1) * Window
  BY Division
<1>2. s \in Nat /\ d \in Nat /\ d * Window <= s
  <2>1. s \in Nat
    OBVIOUS
  <2> QED
    BY <2>1, Division
<1> HIDE DEF b, d
<1>3. b * Window \in Nat /\ d * Window \in Nat /\ (b + 1) * Window = b * Window + Window
  BY <1>1, <1>2
<1>4. b <= d
  <2>1. b * Window <= s
    BY <1>1, <1>3
  <2> QED
    BY <1>1, <1>2, <2>1, WindowAt DEF d
<1>5. ~(b + 1 < d)
  <2>1. b + 1 < d => (b + 1 + 1) * Window <= d * Window
    BY <1>1, <1>2, Later
  <2>2. (b + 1 + 1) * Window = b * Window + Window + Window
    BY <1>1
  <2> QED
    BY <1>1, <1>2, <1>3, <2>1, <2>2
<1> QED
  BY <1>1, <1>2, <1>4, <1>5 DEF b, d

\* Two windows admit twice what one does.
LEMMA TwiceFromLimit == IInv => TwiceInTime
<1> SUFFICES ASSUME IInv, NEW c \in Client, NEW t \in 0 .. MaxTime
             PROVE  Cardinality({r \in Passed(c) :
                      stamp[r] \in t .. t + Window - 1 /\ InTime(r)}) <= 2 * Limit
  BY DEF TwiceInTime
<1> USE LimiterAssumption
<1> DEFINE b == t \div Window
           S == {r \in Passed(c) : stamp[r] \in t .. t + Window - 1 /\ InTime(r)}
           both == Admitted(c, b) \cup Admitted(c, b + 1)
<1>1. t \in Nat
  OBVIOUS
<1>2. \A r \in S : bucket[r] \in {b, b + 1}
  BY <1>1, TwoWindows DEF IInv, Known, Knows, Passed
<1>3. S \in SUBSET both
  BY <1>2 DEF Admitted
<1>4. ASSUME NEW a
      PROVE  /\ IsFiniteSet(Admitted(c, a)) /\ Cardinality(Admitted(c, a)) \in Nat
             /\ Cardinality(Admitted(c, a)) <= Limit
  <2>1. Admitted(c, a) \in SUBSET Request
    BY DEF Admitted, Passed
  <2>2. IsFiniteSet(Admitted(c, a)) /\ Cardinality(Admitted(c, a)) \in Nat
    BY <2>1, FS_Subset, FS_CardinalityType
  <2>3. CASE a \in Bucket
    BY <2>2, <2>3, LimitFromOrder DEF WindowLimit, Admitted
  <2>4. CASE a \notin Bucket
    <3>1. Admitted(c, a) = {}
      BY <2>4 DEF Admitted, Passed, IInv, Known, TypeOK
    <3> QED
      BY <2>2, <3>1, FS_EmptySet
  <2> QED
    BY <2>3, <2>4
<1> HIDE DEF b, S
<1>5. IsFiniteSet(both) /\ Cardinality(both) <= 2 * Limit
  <2> DEFINE one == Admitted(c, b)
             next == Admitted(c, b + 1)
  <2>1. /\ IsFiniteSet(one) /\ Cardinality(one) \in Nat /\ Cardinality(one) <= Limit
        /\ IsFiniteSet(next) /\ Cardinality(next) \in Nat /\ Cardinality(next) <= Limit
    BY <1>4
  <2> HIDE DEF one, next
  <2>2. /\ IsFiniteSet(one \cup next)
        /\ Cardinality(one \cup next) = Cardinality(one) + Cardinality(next)
             - Cardinality(one \cap next)
    BY <2>1, FS_Union
  <2>3. Cardinality(one \cap next) \in Nat
    <3>1. one \cap next \in SUBSET one
      OBVIOUS
    <3> QED
      BY <2>1, <3>1, FS_Subset, FS_CardinalityType
  <2>4. IsFiniteSet(one \cup next) /\ Cardinality(one \cup next) <= 2 * Limit
    BY <2>1, <2>2, <2>3
  <2> QED
    BY <2>4 DEF one, next
<1> HIDE DEF both
<1>6. IsFiniteSet(S) /\ Cardinality(S) <= Cardinality(both)
  BY <1>3, <1>5, FS_Subset
<1>7. Cardinality(S) \in Nat /\ Cardinality(both) \in Nat
  BY <1>5, <1>6, FS_CardinalityType
<1>8. Cardinality(S) <= 2 * Limit
  BY <1>5, <1>6, <1>7
<1> QED
  BY <1>8 DEF S

\* TwiceOfWhatIsCountedInTime: the documented factor of two, which a delayed
\* INCR breaks, holds for all requests that are counted in time.
THEOREM TwiceOfWhatIsCountedInTime == Spec => []TwiceInTime
BY Invariant, TwiceFromLimit, PTL

=============================================================================
