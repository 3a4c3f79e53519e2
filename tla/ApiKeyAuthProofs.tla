-------------------------- MODULE ApiKeyAuthProofs --------------------------
(***************************************************************************)
(* Proofs about ApiKeyAuth for any number of requests, operators and keys. *)
(* The invariant adds to the types and to UsedByTheAdmitted what each      *)
(* phase of an authentication has in hand: a row, once created, stays, and *)
(* a request that touches it has seen it active.                           *)
(***************************************************************************)
EXTENDS ApiKeyAuth, TLAPS

Holds(r) ==
  /\ phase[r] = "idle" => seen[r] = None
  /\ phase[r] \in {"lookup", "check", "touch", "commit"} => key[r] \in Key
  /\ seen[r] # None => key[r] \in Key /\ keys[key[r]] # None
  /\ phase[r] \in {"touch", "commit"} => seen[r] # None /\ seen[r].active
  /\ phase[r] = "commit" => stamp[r] \in Nat

Calls(o) == opens[o] = "loaded" => call[o] \in Call /\ keys[call[o].key] # None

IInv ==
  /\ TypeOK
  /\ UsedByTheAdmitted
  /\ \A r \in Request : Holds(r)
  /\ \A o \in Operator : Calls(o)

-----------------------------------------------------------------------------
\* Assigning one column of a row leaves a row.
LEMMA RowType ==
  ASSUME NEW row \in Row
  PROVE  /\ \A u \in Nat \cup {None} : [row EXCEPT !.used = u] \in Row
         /\ \A b \in BOOLEAN : [row EXCEPT !.active = b] \in Row
BY DEF Row

\* Nothing is created, presented or called at first.
LEMMA InitInv == Init => IInv
<1> SUFFICES ASSUME Init PROVE IInv
  OBVIOUS
<1> USE DEF Init
<1>1. TypeOK
  BY DEF TypeOK
<1>2. UsedByTheAdmitted
  BY DEF UsedByTheAdmitted
<1>3. \A r \in Request : Holds(r)
  BY DEF Holds
<1>4. \A o \in Operator : Calls(o)
  BY DEF Calls
<1> QED
  BY <1>1, <1>2, <1>3, <1>4 DEF IInv

\* A key is created.
LEMMA CreateStep == ASSUME IInv, NEW k \in Key, Create(k) PROVE IInv'
<1> USE DEF Create, local, operator
<1>1. PICK e \in Expiry : keys' =
        [keys EXCEPT ![k] = [active |-> TRUE, expires |-> e, used |-> None]]
  OBVIOUS
<1>2. \A c \in Key : keys[c] # None => keys'[c] = keys[c]
  BY <1>1 DEF IInv, TypeOK
<1>3. TypeOK'
  BY <1>1, AuthAssumption DEF IInv, TypeOK, Row
<1>4. UsedByTheAdmitted'
  BY <1>1, <1>2 DEF IInv, TypeOK, UsedByTheAdmitted
<1>5. keys'[k] # None
  <2>1. [active |-> TRUE, expires |-> e, used |-> None] \in Row
    BY AuthAssumption DEF Row
  <2> QED
    BY <1>1, <2>1, AuthAssumption DEF IInv, TypeOK
<1>6. \A c \in Key : keys[c] # None => keys'[c] # None
  BY <1>2
<1>7. \A r \in Request : Holds(r)'
  BY <1>6 DEF IInv, Holds
<1>8. \A o \in Operator : Calls(o)'
  BY <1>6 DEF IInv, Calls, Call
<1> QED
  BY <1>3, <1>4, <1>7, <1>8 DEF IInv

\* A request arrives.
LEMMA ArriveStep == ASSUME IInv, NEW r \in Request, Arrive(r) PROVE IInv'
<1> USE DEF Arrive, Go, operator, local
<1>1. PICK k \in Key \cup {None} :
        /\ phase[r] = "idle"
        /\ phase' = [phase EXCEPT ![r] = IF k = None THEN "denied" ELSE "lookup"]
        /\ key' = [key EXCEPT ![r] = k]
        /\ UNCHANGED <<now, keys, seen, stamp, operator>>
  OBVIOUS
<1>2. TypeOK'
  BY <1>1 DEF IInv, TypeOK, Finished
<1>3. UsedByTheAdmitted'
  BY <1>1 DEF IInv, TypeOK, UsedByTheAdmitted
<1>4. \A q \in Request : Holds(q)'
  BY <1>1, AuthAssumption DEF IInv, TypeOK, Holds
<1>5. \A o \in Operator : Calls(o)'
  BY <1>1 DEF IInv, Calls
<1> QED
  BY <1>2, <1>3, <1>4, <1>5 DEF IInv

\* A step of a request that leaves the rows alone and neither enters nor
\* leaves the phases in which it has touched.
LEMMA ReadStep ==
  ASSUME IInv, NEW r \in Request,
         \/ Lookup(r) \/ Deny(r) \/ Accept(r) \/ LoadForTouch(r) \/ ReadFails(r)
  PROVE  IInv'
<1> USE DEF Lookup, Deny, Accept, LoadForTouch, ReadFails, Go, operator, local
<1>1. UNCHANGED <<now, keys, key, operator>>
  OBVIOUS
<1>2. TypeOK'
  BY DEF IInv, TypeOK, Finished, RowOf, Holds
<1>3. UsedByTheAdmitted'
  BY <1>1 DEF IInv, TypeOK, UsedByTheAdmitted
<1>4. \A q \in Request : Holds(q)'
  BY <1>1 DEF IInv, TypeOK, Holds, Valid, RowOf
<1>5. \A o \in Operator : Calls(o)'
  BY <1>1 DEF IInv, Calls
<1> QED
  BY <1>2, <1>3, <1>4, <1>5 DEF IInv

\* The write of last_used_at is committed or fails.
LEMMA TouchStep ==
  ASSUME IInv, NEW r \in Request, CommitTouch(r) \/ CommitFails(r)
  PROVE  IInv'
<1> USE DEF CommitTouch, CommitFails, Go, Touch, Touched, operator, local
<1>1. /\ phase[r] = "commit" /\ key[r] \in Key /\ keys[key[r]] \in Row
      /\ seen[r] # None /\ seen[r].active /\ stamp[r] \in Nat
  BY DEF IInv, TypeOK, Holds
<1>2. [keys[key[r]] EXCEPT !.used = stamp[r]] \in Row
  BY <1>1, RowType
<1>3. keys' = keys \/ keys' = [keys EXCEPT ![key[r]] = [@ EXCEPT !.used = stamp[r]]]
  BY <1>1
<1>4. UNCHANGED <<now, key, seen, stamp, operator>>
  OBVIOUS
<1>5. TypeOK'
  BY <1>1, <1>2, <1>3, <1>4 DEF IInv, TypeOK, Finished
<1>6. UsedByTheAdmitted'
  <2> SUFFICES ASSUME NEW k \in Key, keys'[k] # None, keys'[k].used # None
               PROVE  \E q \in Request :
                        /\ phase'[q] \in {"commit", "admitted", "failed"}
                        /\ key'[q] = k /\ stamp'[q] = keys'[k].used
                        /\ seen'[q] # None /\ seen'[q].active
    BY DEF UsedByTheAdmitted
  <2>1. phase'[r] \in {"admitted", "failed"}
    BY DEF IInv, TypeOK
  <2>2. CASE keys'[k] = keys[k]
    <3>1. PICK q \in Request :
            /\ phase[q] \in {"commit", "admitted", "failed"}
            /\ key[q] = k /\ stamp[q] = keys[k].used
            /\ seen[q] # None /\ seen[q].active
      BY <2>2 DEF IInv, UsedByTheAdmitted
    <3>2. phase'[q] \in {"commit", "admitted", "failed"}
      BY <3>1 DEF IInv, TypeOK
    <3> QED
      BY <3>1, <3>2, <2>2, <1>4
  <2>3. CASE keys'[k] # keys[k]
    <3>1. k = key[r] /\ keys'[k].used = stamp[r]
      BY <2>3, <1>1, <1>2, <1>3 DEF IInv, TypeOK, Row
    <3> QED
      BY <3>1, <2>1, <1>1, <1>4
  <2> QED
    BY <2>2, <2>3
<1>7. \A k \in Key : keys[k] # None => keys'[k] # None
  BY <1>1, <1>2, <1>3, AuthAssumption DEF IInv, TypeOK
<1>8. \A q \in Request : Holds(q)'
  BY <1>4, <1>7 DEF IInv, TypeOK, Holds
<1>9. \A o \in Operator : Calls(o)'
  BY <1>4, <1>7 DEF IInv, Calls, Call
<1> QED
  BY <1>5, <1>6, <1>8, <1>9 DEF IInv

\* The row is read to switch the key.
LEMMA LoadForSwitchStep ==
  ASSUME IInv, NEW o \in Operator, LoadForSwitch(o) PROVE IInv'
<1> USE DEF LoadForSwitch, local
<1>1. PICK k \in Key, to \in BOOLEAN :
        /\ keys[k] # None
        /\ call' = [call EXCEPT ![o] =
                      [key |-> k, to |-> to, loaded |-> keys[k].active]]
  OBVIOUS
<1>2. [key |-> k, to |-> to, loaded |-> keys[k].active] \in Call
  <2>1. keys[k] \in Row
    BY <1>1 DEF IInv, TypeOK
  <2>2. keys[k].active \in BOOLEAN
    BY <2>1 DEF Row
  <2> QED
    BY <2>2 DEF Call
<1>3. TypeOK'
  BY <1>1, <1>2 DEF IInv, TypeOK
<1>4. UsedByTheAdmitted'
  BY DEF IInv, UsedByTheAdmitted
<1>5. \A r \in Request : Holds(r)'
  BY DEF IInv, Holds
<1>6. \A p \in Operator : Calls(p)'
  BY <1>1, <1>2 DEF IInv, TypeOK, Calls
<1> QED
  BY <1>3, <1>4, <1>5, <1>6 DEF IInv

\* The switch of the key is committed.
LEMMA CommitSwitchStep ==
  ASSUME IInv, NEW o \in Operator, CommitSwitch(o) PROVE IInv'
<1> USE DEF CommitSwitch, local
<1> DEFINE k == call[o].key
           b == IF call[o].to # call[o].loaded THEN call[o].to ELSE keys[k].active
<1>1. k \in Key /\ keys[k] \in Row /\ call[o] \in Call
  BY DEF IInv, TypeOK, Calls, Call
<1>2. keys' = [keys EXCEPT ![k] = [@ EXCEPT !.active = b]]
  BY <1>1 DEF IInv, TypeOK
<1>3. b \in BOOLEAN
  BY <1>1 DEF Call, Row
<1>4. [keys[k] EXCEPT !.active = b] \in Row
  BY <1>1, <1>3, RowType
<1> HIDE DEF k, b
<1>5. \A c \in Key : keys[c] # None => keys'[c] # None /\ keys'[c].used = keys[c].used
  BY <1>1, <1>2, <1>4, AuthAssumption DEF IInv, TypeOK, Row
<1>6. \A c \in Key : keys'[c] # None => keys[c] # None
  BY <1>1, <1>2, AuthAssumption DEF IInv, TypeOK
<1>7. TypeOK'
  BY <1>1, <1>2, <1>4, ZenonT(60) DEF IInv, TypeOK
<1>8. UsedByTheAdmitted'
  BY <1>5, <1>6 DEF IInv, UsedByTheAdmitted
<1>9. \A r \in Request : Holds(r)'
  BY <1>5 DEF IInv, Holds
<1>10. \A p \in Operator : Calls(p)'
  BY <1>5 DEF IInv, TypeOK, Calls, Call
<1> QED
  BY <1>7, <1>8, <1>9, <1>10 DEF IInv

\* Every step keeps the invariant.
LEMMA NextInv == IInv /\ [Next]_vars => IInv'
<1> SUFFICES ASSUME IInv, [Next]_vars PROVE IInv'
  OBVIOUS
<1>1. ASSUME NEW k \in Key, Create(k) PROVE IInv'
  BY <1>1, CreateStep
<1>2. ASSUME NEW r \in Request, Arrive(r) PROVE IInv'
  BY <1>2, ArriveStep
<1>3. ASSUME NEW r \in Request, Authenticate(r) PROVE IInv'
  BY <1>3, ReadStep, TouchStep DEF Authenticate
<1>4. ASSUME NEW o \in Operator, LoadForSwitch(o) \/ CommitSwitch(o) PROVE IInv'
  BY <1>4, LoadForSwitchStep, CommitSwitchStep
<1>5. CASE Tick
  BY <1>5 DEF Tick, local, operator, IInv, TypeOK, UsedByTheAdmitted, Holds, Calls
<1>6. CASE UNCHANGED vars
  BY <1>6 DEF vars, local, operator, IInv, TypeOK, UsedByTheAdmitted, Holds, Calls
<1> QED
  BY <1>1, <1>2, <1>3, <1>4, <1>5, <1>6 DEF Next, Quiet

-----------------------------------------------------------------------------
\* The inductive invariant holds in every reachable state.
THEOREM Invariance == Spec => []IInv
<1> QED
  BY InitInv, NextInv, PTL DEF Spec

\* Every variable keeps its type: whatever requests and operators write into a
\* row at the same time, it stays a row.
THEOREM TypeCorrectness == Spec => []TypeOK
<1>1. IInv => TypeOK
  BY DEF IInv
<1> QED
  BY <1>1, Invariance, PTL

\* last_used_at is always the time of a request that presented the key and
\* passed the checks, however many requests and operators share the row.
THEOREM OnlyTheAdmittedTouch == Spec => []UsedByTheAdmitted
<1>1. IInv => UsedByTheAdmitted
  BY DEF IInv
<1> QED
  BY <1>1, Invariance, PTL

\* No authentication changes is_active: a touch that is under way while the
\* key is deactivated does not bring the key back.
THEOREM TouchKeepsTheSwitch == Spec => OnlyOperatorsSwitch
<1> DEFINE Switched ==
      \A k \in Key : keys[k] # None /\ keys'[k].active # keys[k].active =>
        \E o \in Operator :
          /\ opens[o] = "loaded" /\ opens'[o] = "done"
          /\ call[o].key = k /\ call[o].to = keys'[k].active
<1>1. IInv /\ [Next]_vars => Switched
  <2> SUFFICES ASSUME IInv, [Next]_vars, NEW k \in Key, keys[k] # None,
                      keys'[k].active # keys[k].active
               PROVE  \E o \in Operator :
                        /\ opens[o] = "loaded" /\ opens'[o] = "done"
                        /\ call[o].key = k /\ call[o].to = keys'[k].active
    OBVIOUS
  <2>1. ASSUME NEW c \in Key, Create(c) PROVE FALSE
    BY <2>1 DEF Create, IInv, TypeOK
  <2>2. ASSUME NEW r \in Request, CommitTouch(r) \/ CommitFails(r) PROVE FALSE
    <3>1. key[r] \in Key /\ keys[key[r]] \in Row
      BY <2>2 DEF CommitTouch, CommitFails, Go, IInv, TypeOK, Holds
    <3>2. keys' = keys \/ keys' = [keys EXCEPT ![key[r]] = [@ EXCEPT !.used = stamp[r]]]
      BY <2>2 DEF CommitTouch, CommitFails, Touch, Touched
    <3> QED
      BY <3>1, <3>2 DEF IInv, TypeOK, Row
  <2>3. ASSUME NEW o \in Operator, CommitSwitch(o)
        PROVE  /\ opens[o] = "loaded" /\ opens'[o] = "done"
               /\ call[o].key = k /\ call[o].to = keys'[k].active
    <3>1. call[o].key \in Key /\ keys[call[o].key] \in Row
      BY <2>3 DEF CommitSwitch, IInv, TypeOK, Calls, Call
    <3> DEFINE c == call[o].key
               b == IF call[o].to # call[o].loaded THEN call[o].to ELSE keys[c].active
    <3>2. keys' = [keys EXCEPT ![c] = [@ EXCEPT !.active = b]]
      BY <2>3, <3>1 DEF CommitSwitch, IInv, TypeOK
    <3>3. k = c
      BY <3>1, <3>2 DEF IInv, TypeOK
    <3>4. keys'[k].active = b
      <4> HIDE DEF b, c
      <4> QED
        BY <3>1, <3>2, <3>3 DEF IInv, TypeOK, Row, c
    <3>5. opens[o] = "loaded" /\ opens'[o] = "done"
      BY <2>3 DEF CommitSwitch, IInv, TypeOK
    <3> QED
      BY <3>3, <3>4, <3>5
  <2>4. CASE UNCHANGED keys
    BY <2>4
  <2>5. \/ \E c \in Key : Create(c)
        \/ \E r \in Request : CommitTouch(r) \/ CommitFails(r)
        \/ \E o \in Operator : CommitSwitch(o)
        \/ UNCHANGED keys
    BY DEF Next, Arrive, Authenticate, Lookup, Deny, Accept, LoadForTouch,
           ReadFails, LoadForSwitch, Tick, Quiet, vars
  <2> QED
    BY <2>1, <2>2, <2>3, <2>4, <2>5
<1> QED
  BY <1>1, Invariance, PTL DEF Spec, OnlyOperatorsSwitch

-----------------------------------------------------------------------------
(* Who is let in: the two properties that follow a request through the     *)
(* awaits, from the lookup to the answer.                                  *)

\* The request has not passed the checks, and the row it read has expired.
ReadExpired(r, k) ==
  /\ key[r] = k /\ Over(k)
  /\ phase[r] \in {"lookup", "check", "denied", "failed"}
  /\ phase[r] = "check" /\ seen[r] # None => Expired(seen[r].expires, now)

\* The request has not passed the checks, and the row it read was not active.
ReadInactive(r, k) ==
  /\ key[r] = k
  /\ phase[r] \in {"lookup", "check", "denied", "failed"}
  /\ phase[r] = "check" /\ seen[r] # None => ~seen[r].active

\* The expiry of a row that exists never changes.
LEMMA ExpiryStays ==
  ASSUME IInv, [Next]_vars, NEW k \in Key, keys[k] # None
  PROVE  keys'[k] # None /\ keys'[k].expires = keys[k].expires
<1>1. ASSUME NEW c \in Key, Create(c) PROVE keys'[k] = keys[k]
  BY <1>1 DEF Create, IInv, TypeOK
<1>2. ASSUME NEW r \in Request, CommitTouch(r) \/ CommitFails(r)
      PROVE  keys'[k] # None /\ keys'[k].expires = keys[k].expires
  <2>1. key[r] \in Key /\ keys[key[r]] \in Row /\ stamp[r] \in Nat
    BY <1>2 DEF CommitTouch, CommitFails, Go, IInv, TypeOK, Holds
  <2>2. keys' = keys \/ keys' = [keys EXCEPT ![key[r]] = [@ EXCEPT !.used = stamp[r]]]
    BY <1>2 DEF CommitTouch, CommitFails, Touch, Touched
  <2>3. [keys[key[r]] EXCEPT !.used = stamp[r]] \in Row
    BY <2>1, RowType
  <2> QED
    BY <2>1, <2>2, <2>3, AuthAssumption DEF IInv, TypeOK, Row
<1>3. ASSUME NEW o \in Operator, CommitSwitch(o)
      PROVE  keys'[k] # None /\ keys'[k].expires = keys[k].expires
  <2> DEFINE c == call[o].key
             b == IF call[o].to # call[o].loaded THEN call[o].to ELSE keys[c].active
  <2>1. c \in Key /\ keys[c] \in Row /\ b \in BOOLEAN
    BY <1>3 DEF CommitSwitch, IInv, TypeOK, Calls, Call, Row
  <2>2. keys' = [keys EXCEPT ![c] = [@ EXCEPT !.active = b]]
    BY <1>3, <2>1 DEF CommitSwitch, IInv, TypeOK
  <2>3. [keys[c] EXCEPT !.active = b] \in Row
    BY <2>1, RowType
  <2> HIDE DEF b, c
  <2> QED
    BY <2>1, <2>2, <2>3, AuthAssumption DEF IInv, TypeOK, Row
<1> QED
  BY <1>1, <1>2, <1>3
  DEF Next, Arrive, Authenticate, Lookup, Deny, Accept, LoadForTouch,
      ReadFails, LoadForSwitch, Tick, Quiet, vars

\* The clock does not go back.
LEMMA ClockGoesOn == ASSUME IInv, [Next]_vars PROVE now' \in Nat /\ now <= now'
<1>1. now' = now \/ now' = now + 1
  BY DEF Next, Create, Arrive, Authenticate, Lookup, Deny, Accept, LoadForTouch,
         CommitTouch, ReadFails, CommitFails, LoadForSwitch, CommitSwitch, Tick,
         Quiet, vars
<1>2. now \in Nat
  BY DEF IInv, TypeOK
<1> QED
  BY <1>1, <1>2

\* A key that is over its expiry stays so.
LEMMA OverStays ==
  ASSUME IInv, [Next]_vars, NEW k \in Key, Over(k)
  PROVE  Over(k)'
<1>1. keys[k] \in Row /\ keys[k].expires \in Nat
  BY DEF Over, IInv, TypeOK, Row
<1>2. keys'[k] # None /\ keys'[k].expires = keys[k].expires
  BY ExpiryStays DEF Over
<1>3. now \in Nat /\ now' \in Nat /\ now <= now'
  BY ClockGoesOn DEF IInv, TypeOK
<1> QED
  BY <1>1, <1>2, <1>3 DEF Over

-----------------------------------------------------------------------------
\* What a step can do to a request that waits for its row or for the checks.
LEMMA RefusedStep ==
  ASSUME IInv, [Next]_vars, NEW r \in Request,
         phase[r] \in {"lookup", "check", "denied", "failed"}
  PROVE  /\ key'[r] = key[r]
         /\ \/ phase'[r] = phase[r] /\ seen'[r] = seen[r]
            \/ /\ phase[r] = "lookup" /\ phase'[r] = "check"
               /\ seen'[r] = keys[key[r]] /\ now' = now
            \/ phase[r] = "check" /\ phase'[r] = "touch" /\ Valid(seen[r], now)
            \/ phase[r] = "check" /\ phase'[r] = "denied" /\ ~Valid(seen[r], now)
            \/ phase'[r] = "failed"
<1>1. ASSUME NEW q \in Request, Arrive(q) \/ Authenticate(q), q # r
      PROVE  key'[r] = key[r] /\ phase'[r] = phase[r] /\ seen'[r] = seen[r]
  BY <1>1 DEF Arrive, Authenticate, Lookup, Deny, Accept, LoadForTouch,
       CommitTouch, ReadFails, CommitFails, Go, IInv, TypeOK
<1>2. CASE Arrive(r) \/ Authenticate(r)
  BY <1>2 DEF Arrive, Authenticate, Lookup, Deny, Accept, LoadForTouch,
       CommitTouch, ReadFails, CommitFails, Go, IInv, TypeOK, RowOf
<1>3. CASE UNCHANGED <<phase, key, seen>>
  BY <1>3
<1>4. \/ \E q \in Request : Arrive(q) \/ Authenticate(q)
      \/ UNCHANGED <<phase, key, seen>>
  BY DEF Next, Create, LoadForSwitch, CommitSwitch, Tick, Quiet, vars, local
<1> QED
  BY <1>1, <1>2, <1>3, <1>4

\* No step lets a request in whose row had expired when it came.
LEMMA ReadExpiredStep ==
  ASSUME IInv, [Next]_vars, NEW r \in Request, NEW k \in Key, ReadExpired(r, k)
  PROVE  ReadExpired(r, k)'
<1>1. Over(k)'
  BY OverStays DEF ReadExpired
<1>2. now \in Nat /\ now' \in Nat /\ now <= now'
  BY ClockGoesOn DEF IInv, TypeOK
<1>3. seen[r] # None => seen[r].expires \in Nat \cup {None}
  BY DEF IInv, TypeOK, Row
<1>4. phase[r] = "check" => ~Valid(seen[r], now)
  BY DEF ReadExpired, Valid
<1>5. keys[k].expires \in Nat /\ Expired(keys[k].expires, now)
  BY DEF ReadExpired, Over, Expired, IInv, TypeOK, Row
<1> QED
  BY <1>1, <1>2, <1>3, <1>4, <1>5, RefusedStep, AuthAssumption DEF ReadExpired, Expired

\* No step lets a request in whose row was inactive and stays so.
LEMMA ReadInactiveStep ==
  ASSUME IInv, [Next]_vars, NEW r \in Request, NEW k \in Key,
         ReadInactive(r, k), ~Active(k)
  PROVE  ReadInactive(r, k)'
<1>1. phase[r] = "check" => ~Valid(seen[r], now)
  BY DEF ReadInactive, Valid
<1> QED
  BY <1>1, RefusedStep DEF ReadInactive, Active

\* A key that has expired when the request comes, or is deactivated then and
\* not activated again, does not let it in, at whatever point of the three
\* database awaits the clock or the switch moves.
THEOREM InvalidKeysStayOut == Spec => InvalidKeyStaysOut
<1> SUFFICES ASSUME NEW r \in Request, NEW k \in Key
    PROVE Spec => [](Knocks(r, k) /\ (Over(k) \/ []~Active(k)) => [](phase[r] # "admitted"))
  BY DEF InvalidKeyStaysOut
<1>1. Knocks(r, k) /\ Over(k) => ReadExpired(r, k)
  BY DEF Knocks, ReadExpired
<1>2. Knocks(r, k) => ReadInactive(r, k)
  BY DEF Knocks, ReadInactive
<1>3. IInv /\ [Next]_vars /\ ReadExpired(r, k) => ReadExpired(r, k)'
  BY ReadExpiredStep
<1>4. IInv /\ [Next]_vars /\ ~Active(k) /\ ReadInactive(r, k) => ReadInactive(r, k)'
  BY ReadInactiveStep
<1>5. ReadExpired(r, k) \/ ReadInactive(r, k) => phase[r] # "admitted"
  BY DEF ReadExpired, ReadInactive
<1> QED
  BY <1>1, <1>2, <1>3, <1>4, <1>5, Invariance, PTL DEF Spec

\* The request has not been refused, and the row it read is valid.
ReadValid(r, k) ==
  /\ key[r] = k
  /\ phase[r] \in {"lookup", "check", "touch", "commit", "admitted", "failed"}
  /\ phase[r] = "check" => /\ seen[r] # None /\ seen[r].active
                           /\ seen[r].expires = keys[k].expires /\ keys[k] # None

\* A request that passed the checks is not refused any more.
LEMMA PassedStep ==
  ASSUME IInv, [Next]_vars, NEW r \in Request,
         phase[r] \in {"touch", "commit", "admitted"}
  PROVE  key'[r] = key[r] /\ phase'[r] \in {"touch", "commit", "admitted", "failed"}
<1>1. ASSUME NEW q \in Request, Arrive(q) \/ Authenticate(q), q # r
      PROVE  key'[r] = key[r] /\ phase'[r] = phase[r]
  BY <1>1 DEF Arrive, Authenticate, Lookup, Deny, Accept, LoadForTouch,
       CommitTouch, ReadFails, CommitFails, Go, IInv, TypeOK
<1>2. CASE Arrive(r) \/ Authenticate(r)
  BY <1>2 DEF Arrive, Authenticate, Lookup, Deny, Accept, LoadForTouch,
       CommitTouch, ReadFails, CommitFails, Go, IInv, TypeOK, RowOf
<1>4. \/ \E q \in Request : Arrive(q) \/ Authenticate(q)
      \/ UNCHANGED <<phase, key, seen>>
  BY DEF Next, Create, LoadForSwitch, CommitSwitch, Tick, Quiet, vars, local
<1> QED
  BY <1>1, <1>2, <1>4

\* No step refuses a request whose row is active and within its expiry.
LEMMA ReadValidStep ==
  ASSUME IInv, [Next]_vars, NEW r \in Request, NEW k \in Key,
         ReadValid(r, k), Active(k), ~Over(k)
  PROVE  ReadValid(r, k)'
<1>1. keys'[k] # None /\ keys'[k].expires = keys[k].expires
  BY ExpiryStays DEF Active
<1>2. phase[r] = "check" => Valid(seen[r], now)
  BY DEF ReadValid, Valid, Over, Expired
<1>3. CASE phase[r] \in {"touch", "commit", "admitted"}
  BY <1>3, PassedStep DEF ReadValid
<1>4. CASE phase[r] \in {"lookup", "check", "failed"}
  BY <1>1, <1>2, <1>4, RefusedStep DEF ReadValid, Active
<1> QED
  BY <1>3, <1>4 DEF ReadValid

\* A key that is active and not over its expiry from the request's arrival on
\* is not refused with a 401, whoever else uses or switches it meanwhile.
THEOREM ValidKeysAreNotDenied == Spec => ValidKeyIsNotDenied
<1> SUFFICES ASSUME NEW r \in Request, NEW k \in Key
    PROVE Spec => [](Knocks(r, k) /\ [](Active(k) /\ ~Over(k)) => [](phase[r] # "denied"))
  BY DEF ValidKeyIsNotDenied
<1>1. Knocks(r, k) => ReadValid(r, k)
  BY DEF Knocks, ReadValid
<1>2. IInv /\ [Next]_vars /\ (Active(k) /\ ~Over(k)) /\ ReadValid(r, k)
        => ReadValid(r, k)'
  BY ReadValidStep
<1>3. ReadValid(r, k) => phase[r] # "denied"
  BY DEF ReadValid
<1> QED
  BY <1>1, <1>2, <1>3, Invariance, PTL DEF Spec

=============================================================================
