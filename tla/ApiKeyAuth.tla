----------------------------- MODULE ApiKeyAuth -----------------------------
(***************************************************************************)
(* API key authentication: AuthenticationMiddleware, ApiKeyAuthBackend and *)
(* the api_keys table, while keys are created, activated and deactivated   *)
(* by whoever has access to the repository.                                *)
(*                                                                         *)
(* A request reads the row of its key, compares it with the clock, reads   *)
(* the row again and writes last_used_at: three database awaits, between   *)
(* which time passes and operators and other requests change the row.      *)
(***************************************************************************)
EXTENDS Integers, FiniteSets

CONSTANTS
  Request,  \* the requests of a run
  Operator, \* callers of set_active; bound: each calls it once
  Key,      \* the keys clients may present, created or not
  Expiry,   \* the expires_at a key may be created with
  None,     \* no header, no row, no expiry, never used
  MaxTime   \* bound: the clock stops here

\* ApiKeyORM, and the arguments of set_active with the is_active it loads.
Row  == [active : BOOLEAN, expires : Nat \cup {None}, used : Nat \cup {None}]
Call == [key : Key, to : BOOLEAN, loaded : BOOLEAN]

ASSUME AuthAssumption ==
  /\ MaxTime \in Nat
  /\ Expiry \subseteq Nat \cup {None}
  /\ None \notin Nat /\ None \notin Key
  /\ None \notin Row /\ None \notin Call

VARIABLES
  now,   \* the clock
  keys,  \* the rows of api_keys, None for a key that was never created
  phase, \* where the authentication of a request is
  key,   \* the key in its header
  seen,  \* the ApiKeyRecord that get_by_hash returned
  stamp, \* the last_used_at it writes
  opens, \* idle, loaded or done: where the set_active of an operator is
  call   \* its arguments, and the is_active it loaded

local    == <<phase, key, seen, stamp>>
operator == <<opens, call>>
vars     == <<now, keys, local, operator>>

Finished == {"denied", "admitted", "failed"}

-----------------------------------------------------------------------------
Init ==
  /\ now   = 0
  /\ keys  = [k \in Key |-> None]
  /\ phase = [r \in Request |-> "idle"]
  /\ key   = [r \in Request |-> None]
  /\ seen  = [r \in Request |-> None]
  /\ stamp = [r \in Request |-> None]
  /\ opens = [o \in Operator |-> "idle"]
  /\ call  = [o \in Operator |-> None]

\* ApiKeyRepository.create, which the key script calls without an expiry.
Create(k) ==
  /\ keys[k] = None
  /\ \E e \in Expiry :
       keys' = [keys EXCEPT ![k] = [active |-> TRUE, expires |-> e, used |-> None]]
  /\ UNCHANGED <<now, local, operator>>

-----------------------------------------------------------------------------
(* ApiKeyAuthBackend.authenticate.                                         *)

Go(r, from, to) == phase[r] = from /\ phase' = [phase EXCEPT ![r] = to]

\* A request without the header is answered at once.
Arrive(r) ==
  \E k \in Key \cup {None} :
    /\ Go(r, "idle", IF k = None THEN "denied" ELSE "lookup")
    /\ key' = [key EXCEPT ![r] = k]
    /\ UNCHANGED <<now, keys, seen, stamp, operator>>

\* One session for all requests: its identity map answers with the row that
\* another request has loaded.
RowOfSharedSession(r) ==
  LET others == {q \in Request : key[q] = key[r] /\ seen[q] # None}
  IN  IF others = {} THEN keys[key[r]] ELSE seen[CHOOSE q \in others : TRUE]

RowOf(r) == keys[key[r]]

\* last_used_at is written when the key is looked up.
LookupTouches(r) ==
  /\ Go(r, "lookup", "check")
  /\ RowOf(r) # None
  /\ seen' = [seen EXCEPT ![r] = RowOf(r)]
  /\ keys' = [keys EXCEPT ![key[r]].used = now]
  /\ UNCHANGED <<now, key, stamp, operator>>

Lookup(r) ==
  /\ Go(r, "lookup", "check")
  /\ seen' = [seen EXCEPT ![r] = RowOf(r)]
  /\ UNCHANGED <<now, keys, key, stamp, operator>>

\* A key that is no longer accepted in the second it expires in.
ExpiredAtOnce(e, t) == e # None /\ e <= t

Expired(e, t) == e # None /\ e < t

Valid(row, t) == row # None /\ row.active /\ ~Expired(row.expires, t)

\* AuthenticationError: a 401.
Deny(r) ==
  /\ Go(r, "check", "denied")
  /\ ~Valid(seen[r], now)
  /\ UNCHANGED <<now, keys, key, seen, stamp, operator>>

Accept(r) ==
  /\ Go(r, "check", "touch")
  /\ Valid(seen[r], now)
  /\ UNCHANGED <<now, keys, key, seen, stamp, operator>>

\* touch_last_used loads the row again; a row that is gone is not written.
LoadForTouch(r) ==
  /\ Go(r, "touch", IF RowOf(r) = None THEN "admitted" ELSE "commit")
  /\ stamp' = [stamp EXCEPT ![r] = now]
  /\ UNCHANGED <<now, keys, key, seen, operator>>

\* The record that was looked up is saved as a whole.
TouchedRecord(r) == [seen[r] EXCEPT !.used = stamp[r]]

\* The local time of a server one second west of UTC.
TouchedLocally(r) == [keys[key[r]] EXCEPT !.used = stamp[r] - 1]

\* The UPDATE names the one column that was assigned.
Touched(r) == [keys[key[r]] EXCEPT !.used = stamp[r]]

Touch(r) == keys' = [keys EXCEPT ![key[r]] = Touched(r)]

CommitTouch(r) ==
  /\ Go(r, "commit", "admitted")
  /\ Touch(r)
  /\ UNCHANGED <<now, key, seen, stamp, operator>>

\* The database raised: no AuthenticationError, so a 500.
ReadFails(r) ==
  /\ Go(r, "lookup", "failed") \/ Go(r, "touch", "failed")
  /\ UNCHANGED <<now, keys, key, seen, stamp, operator>>

\* The commit raised, before or after it took effect.
CommitFails(r) ==
  /\ Go(r, "commit", "failed")
  /\ Touch(r) \/ UNCHANGED keys
  /\ UNCHANGED <<now, key, seen, stamp, operator>>

-----------------------------------------------------------------------------
(* ApiKeyRepository.set_active.                                            *)

LoadForSwitch(o) ==
  /\ opens[o] = "idle"
  /\ \E k \in {c \in Key : keys[c] # None}, to \in BOOLEAN :
       call' = [call EXCEPT ![o] =
                  [key |-> k, to |-> to, loaded |-> keys[k].active]]
  /\ opens' = [opens EXCEPT ![o] = "loaded"]
  /\ UNCHANGED <<now, keys, local>>

\* The ORM writes a column only if it differs from what was loaded.
CommitSwitch(o) ==
  /\ opens[o] = "loaded"
  /\ opens' = [opens EXCEPT ![o] = "done"]
  /\ keys' = [keys EXCEPT ![call[o].key].active =
                IF call[o].to # call[o].loaded THEN call[o].to ELSE @]
  /\ UNCHANGED <<now, local, call>>

Tick ==
  /\ now < MaxTime
  /\ now' = now + 1
  /\ UNCHANGED <<keys, local, operator>>

\* Every request has its answer and every operator is done.
Quiet ==
  /\ now = MaxTime
  /\ \A r \in Request : phase[r] \in Finished
  /\ \A o \in Operator : opens[o] = "done"
  /\ UNCHANGED vars

Authenticate(r) ==
  \/ Lookup(r) \/ Deny(r) \/ Accept(r) \/ LoadForTouch(r) \/ CommitTouch(r)
  \/ ReadFails(r) \/ CommitFails(r)

Next ==
  \/ \E k \in Key : Create(k)
  \/ \E r \in Request : Arrive(r) \/ Authenticate(r)
  \/ \E o \in Operator : LoadForSwitch(o) \/ CommitSwitch(o)
  \/ Tick \/ Quiet

Spec == Init /\ [][Next]_vars

\* The gateway and its database do not stop while an authentication runs.
FairSpec == Spec /\ \A r \in Request : WF_vars(Authenticate(r))

-----------------------------------------------------------------------------
\* Every variable holds values of its type in every reachable state.
TypeOK ==
  /\ now \in Nat
  /\ keys \in [Key -> Row \cup {None}]
  /\ phase \in [Request ->
       {"idle", "lookup", "check", "touch", "commit"} \cup Finished]
  /\ key \in [Request -> Key \cup {None}]
  /\ seen \in [Request -> Row \cup {None}]
  /\ stamp \in [Request -> Nat \cup {None}]
  /\ opens \in [Operator -> {"idle", "loaded", "done"}]
  /\ call \in [Operator -> Call \cup {None}]

Active(k) == keys[k] # None /\ keys[k].active
Over(k)   == keys[k] # None /\ keys[k].expires # None /\ keys[k].expires < now

\* A request with this key is about to be authenticated.
Knocks(r, k) == phase[r] = "lookup" /\ key[r] = k

\* A key that has expired when the request comes, or is deactivated then and
\* not activated again, does not let it in: nothing an earlier request read
\* still counts.
InvalidKeyStaysOut == \A r \in Request, k \in Key :
  [](Knocks(r, k) /\ (Over(k) \/ []~Active(k)) => [](phase[r] # "admitted"))

\* A key that is active and not over its expiry all along is not refused with
\* a 401, not even in the second it expires in.
ValidKeyIsNotDenied == \A r \in Request, k \in Key :
  [](Knocks(r, k) /\ [](Active(k) /\ ~Over(k)) => [](phase[r] # "denied"))

\* Requests do not switch keys: is_active changes only by the commit of a
\* set_active with that value, so a touch that was under way while the key
\* was deactivated does not activate it again.
OnlyOperatorsSwitch ==
  [][\A k \in Key : keys[k] # None /\ keys'[k].active # keys[k].active =>
       \E o \in Operator :
         /\ opens[o] = "loaded" /\ opens'[o] = "done"
         /\ call[o].key = k /\ call[o].to = keys'[k].active]_vars

\* last_used_at is the time of a request that presented the key and passed
\* the checks: a refused request leaves no trace.
UsedByTheAdmitted == \A k \in Key :
  keys[k] # None /\ keys[k].used # None =>
    \E r \in Request :
      /\ phase[r] \in {"commit", "admitted", "failed"}
      /\ key[r] = k /\ stamp[r] = keys[k].used
      /\ seen[r] # None /\ seen[r].active

=============================================================================
