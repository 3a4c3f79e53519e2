---------------------------- MODULE RateLimiter ----------------------------
(***************************************************************************)
(* RateLimitMiddleware.dispatch: a fixed window per API key, counted in    *)
(* Redis with INCR and EXPIRE, and let through when Redis fails.           *)
(*                                                                         *)
(* The middleware reads the clock, then awaits Redis twice, then reads the *)
(* clock again.  Time passes, keys expire and other requests (of this or   *)
(* another gateway process) run between those steps.                       *)
(***************************************************************************)
EXTENDS Integers, FiniteSets

CONSTANTS
  Request,  \* the requests of a run
  Client,   \* authenticated API keys
  None,     \* no expiry
  Limit,    \* rate_limit_requests_per_window
  Window,   \* rate_limit_window_seconds
  MaxTime,  \* bound: the clock stops here
  MaxLag    \* bound: seconds between the first clock reading and INCR

ASSUME LimiterAssumption ==
  /\ Limit \in Nat \ {0} /\ Window \in Nat \ {0}
  /\ MaxTime \in Nat /\ MaxLag \in Nat
  /\ None \notin Nat
  /\ IsFiniteSet(Request)

VARIABLES
  now,     \* seconds
  counter, \* Redis: the value of each key, 0 when it does not exist
  expires, \* Redis: when the key is deleted, None without a TTL
  phase,   \* idle, incr, expire, decide, then passed, limited, open or dead
  client,  \* auth_context.api_key_id
  stamp,   \* when the request read the clock
  bucket,  \* the window it counts in
  count,   \* what INCR answered
  hit,     \* history: when Redis executed it
  retry,   \* Retry-After
  at       \* when the request was rejected

redis == <<counter, expires>>
local == <<client, stamp, bucket, count, hit, retry, at>>
vars  == <<now, redis, phase, local>>

Bucket   == 0 .. MaxTime \div Window
Keys     == Client \X Bucket
Running  == {"incr", "expire", "decide"}
Finished == {"passed", "limited", "open", "dead"}

\* One key per client for all windows.
KeyOfClient(r) == <<client[r], 0>>

Key(r) == <<client[r], bucket[r]>>

\* Only the request that goes over the limit gives the key its TTL.
SetsTTLLate(n) == n = Limit + 1

SetsTTL(n) == n = 1

\* A client is told to come back within the window it is limited in.
RetryAfterElapsed(t) == t % Window

\* The second at which to come back instead of the seconds to wait.
RetryAfterDate(t) == t + Window

RetryAfter(t) == Window - (t % Window)

\* One request too many.
OverLimitByOne(n) == n > Limit + 1

OverLimit(n) == n > Limit

-----------------------------------------------------------------------------
Init ==
  /\ now = 0
  /\ counter = [k \in Keys |-> 0]
  /\ expires = [k \in Keys |-> None]
  /\ phase   = [r \in Request |-> "idle"]
  /\ client  = [r \in Request |-> None]
  /\ stamp   = [r \in Request |-> 0]
  /\ bucket  = [r \in Request |-> 0]
  /\ count   = [r \in Request |-> 0]
  /\ hit     = [r \in Request |-> 0]
  /\ retry   = [r \in Request |-> 0]
  /\ at      = [r \in Request |-> 0]

Go(r, from, to) == phase[r] = from /\ phase' = [phase EXCEPT ![r] = to]

Arrive(r) ==
  /\ Go(r, "idle", "incr")
  /\ \E c \in Client : client' = [client EXCEPT ![r] = c]
  /\ stamp'  = [stamp EXCEPT ![r] = now]
  /\ bucket' = [bucket EXCEPT ![r] = now \div Window]
  /\ UNCHANGED <<now, redis, count, hit, retry, at>>

\* Redis executes INCR, which creates a missing key without a TTL.
Add(r) == counter' = [counter EXCEPT ![Key(r)] = @ + 1]

Incr(r) ==
  /\ Go(r, "incr", IF SetsTTL(counter[Key(r)] + 1) THEN "expire" ELSE "decide")
  /\ Add(r)
  /\ count' = [count EXCEPT ![r] = counter[Key(r)] + 1]
  /\ hit'   = [hit EXCEPT ![r] = now]
  /\ UNCHANGED <<now, expires, client, stamp, bucket, retry, at>>

\* The call raised, before or after Redis executed it: fail open.
IncrFails(r) ==
  /\ Go(r, "incr", "open")
  /\ Add(r) \/ UNCHANGED counter
  /\ UNCHANGED <<now, expires, local>>

SetTTL(r) == expires' = [expires EXCEPT ![Key(r)] = now + Window]

Expire(r) ==
  /\ Go(r, "expire", "decide")
  /\ SetTTL(r)
  /\ UNCHANGED <<now, counter, local>>

ExpireFails(r) ==
  /\ Go(r, "expire", "open")
  /\ SetTTL(r) \/ UNCHANGED expires
  /\ UNCHANGED <<now, counter, local>>

Pass(r) ==
  /\ ~OverLimit(count[r])
  /\ Go(r, "decide", "passed")
  /\ UNCHANGED <<now, redis, local>>

Reject(r) ==
  /\ OverLimit(count[r])
  /\ Go(r, "decide", "limited")
  /\ retry' = [retry EXCEPT ![r] = RetryAfter(now)]
  /\ at'    = [at EXCEPT ![r] = now]
  /\ UNCHANGED <<now, redis, client, stamp, bucket, count, hit>>

-----------------------------------------------------------------------------
\* A second passes and Redis deletes the keys whose TTL is over.
Tick ==
  /\ now < MaxTime
  /\ \A r \in Request : phase[r] = "incr" => now - stamp[r] < MaxLag
  /\ now' = now + 1
  /\ LET over == {k \in Keys : expires[k] # None /\ expires[k] \in 0 .. now + 1}
     IN  /\ counter' = [k \in Keys |-> IF k \in over THEN 0 ELSE counter[k]]
         /\ expires' = [k \in Keys |-> IF k \in over THEN None ELSE expires[k]]
  /\ UNCHANGED <<phase, local>>

\* The gateway dies; Redis keeps what it has.
Crash ==
  /\ \E r \in Request : phase[r] \in Running
  /\ phase' = [r \in Request |->
                 IF phase[r] \in Running THEN "dead" ELSE phase[r]]
  /\ UNCHANGED <<now, redis, local>>

Quiet ==
  /\ now = MaxTime
  /\ \A r \in Request : phase[r] \in Finished
  /\ UNCHANGED vars

Step(r) ==
  \/ Arrive(r) \/ Incr(r) \/ IncrFails(r)
  \/ Expire(r) \/ ExpireFails(r) \/ Pass(r) \/ Reject(r)

Next == (\E r \in Request : Step(r)) \/ Tick \/ Crash \/ Quiet

Spec == Init /\ [][Next]_vars

-----------------------------------------------------------------------------
\* Every variable holds values of its type in every reachable state.
TypeOK ==
  /\ now \in 0 .. MaxTime
  /\ counter \in [Keys -> Nat]
  /\ expires \in [Keys -> Nat \cup {None}]
  /\ phase \in [Request -> {"idle"} \cup Running \cup Finished]
  /\ client \in [Request -> Client \cup {None}]
  /\ \A r \in Request : phase[r] # "idle" => client[r] \in Client
  /\ stamp \in [Request -> 0 .. MaxTime]
  /\ bucket \in [Request -> Bucket]
  /\ count \in [Request -> Nat]
  /\ hit \in [Request -> 0 .. MaxTime]
  /\ retry \in [Request -> 0 .. Window]
  /\ at \in [Request -> 0 .. MaxTime]

Passed(c) == {r \in Request : phase[r] = "passed" /\ client[r] = c}

\* INCR was executed before the window of the request was over.
InTime(r) == hit[r] < (bucket[r] + 1) * Window

\* Of the requests that Redis counts before their window is over, a window
\* admits at most Limit of a client, however the others interleave and however
\* late they are counted; those aside that were let through because Redis
\* failed.
WindowLimit == \A c \in Client, b \in Bucket :
  Cardinality({r \in Passed(c) : bucket[r] = b /\ InTime(r)}) <= Limit

\* A client is rejected for its own requests only, and for those of the same
\* window: Limit others were counted in it.
RejectedForCause == \A r \in Request :
  phase[r] = "limited" =>
    Cardinality({q \in Request \ {r} :
      /\ client[q] = client[r] /\ bucket[q] = bucket[r]
      /\ phase[q] \notin {"idle", "incr"}}) >= Limit

\* A rejected client that waits as long as Retry-After says counts in a window
\* it has not been rejected in, and it is never told to wait longer than one
\* window.
RetryAfterHelps == \A r \in Request :
  phase[r] = "limited" =>
    /\ (at[r] + retry[r]) \div Window > bucket[r]
    /\ retry[r] \in 1 .. Window

\* A key without a TTL stays in Redis for ever: that needs a failing Redis
\* call or a gateway that died between INCR and EXPIRE.
NoKeyLeaks == \A k \in Keys :
  counter[k] > 0 /\ expires[k] = None =>
    \E r \in Request :
      /\ phase[r] \in {"expire", "open", "dead"}
      /\ Key(r) = k

=============================================================================
