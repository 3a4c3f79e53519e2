--------------------------- MODULE PipelineProofs ---------------------------
(***************************************************************************)
(* Proofs about Pipeline for any number of requests and any size of the    *)
(* pool.  The invariant adds to the types what a request relies on where   *)
(* it is: past its arrival it has an id, the client's if there was one, on *)
(* its way out a response, in its stream a reply that is out already, and  *)
(* in its record a transaction to do.                                      *)
(***************************************************************************)
EXTENDS Pipeline, TLAPS

Arrived(r) == phase[r] # "idle" => ask[r] \in Ask /\ id[r] = RequestId(r, ask[r].inbound)

Equipped(r) ==
  /\ phase[r] = "respond" => answer[r] \in Made
  /\ phase[r] = "stream" => reply[r] # None
  /\ phase[r] \in {"log", "logDb"} => left[r] \in 1 .. 3
  /\ phase[r] \in {"log", "logDb"} /\ reply[r] = None => answer[r] \in Made

Named(r) ==
  /\ phase[r] = "idle" => reply[r] = None /\ row[r] = None
  /\ row[r] \in {None, id[r]}
  /\ reply[r] # None =>
       /\ reply[r].header = id[r]
       /\ reply[r].status # 200 => reply[r].error = id[r]

Fits(r) == Arrived(r) /\ Equipped(r) /\ Named(r) /\ (holds[r] => phase[r] \in InDatabase)

IInv == TypeOK /\ \A r \in Request : Fits(r)

\* What the invariant says of a request changes only with its variables.
Same(r) ==
  /\ phase'[r] = phase[r] /\ ask'[r] = ask[r] /\ id'[r] = id[r]
  /\ holds'[r] = holds[r] /\ left'[r] = left[r] /\ answer'[r] = answer[r]
  /\ reply'[r] = reply[r] /\ row'[r] = row[r]

-----------------------------------------------------------------------------
\* The response of any layer goes out as a reply that carries the id.
LEMMA StampedType ==
  ASSUME NEW r, answer[r] \in Made, id[r] \in Id \cup Request
  PROVE  /\ Stamped(r) \in Reply
         /\ Stamped(r).header = id[r]
         /\ Stamped(r).status # 200 => Stamped(r).error = id[r]
BY DEF Made, Reply, Stamped, ErrorId

\* A request without variables changed fits as before.
LEMMA Frame == ASSUME NEW q, Same(q), Fits(q) PROVE Fits(q)'
BY DEF Same, Fits, Arrived, Equipped, Named, RequestId, InDatabase

\* Before the first request there is nothing to hold or to name.
LEMMA InitInv == Init => IInv
BY PipelineAssumption DEF Init, IInv, TypeOK, Fits, Arrived, Equipped, Named

-----------------------------------------------------------------------------
\* A request arrives, with its id.
LEMMA ArriveStep ==
  ASSUME IInv, NEW r \in Request, Arrive(r)
  PROVE  TypeOK' /\ Fits(r)' /\ \A q \in Request \ {r} : Same(q)
<1> USE PipelineAssumption
    DEF IInv, TypeOK, Fits, Arrived, Equipped, Named, Same, InDatabase, RequestId
<1>1. \A a \in Ask : a.inbound \in Id \cup {None}
  BY DEF Ask
<1>2. CASE EnterPublic(r)
  BY <1>1, <1>2 DEF EnterPublic, Enter, Go
<1>3. CASE EnterWithKey(r)
  BY <1>1, <1>3 DEF EnterWithKey, Enter, Go
<1>4. CASE EnterWithoutKey(r)
  <2>1. [status |-> 401, layer |-> "auth"] \in Made
    BY DEF Made
  <2> QED
    BY <1>1, <1>4, <2>1 DEF EnterWithoutKey, Enter, Go, Answer
<1> QED
  BY <1>2, <1>3, <1>4 DEF Arrive

\* Taking a connection, and waiting in vain for one.
LEMMA WaitStep ==
  ASSUME IInv, NEW r \in Request, AuthConnect(r) \/ LogConnect(r) \/ AuthTimesOut(r) \/ LogTimesOut(r)
  PROVE  TypeOK' /\ Fits(r)' /\ \A q \in Request \ {r} : Same(q)
<1> USE PipelineAssumption
    DEF IInv, TypeOK, Fits, Arrived, Equipped, Named, Same, InDatabase, RequestId
<1>1. [status |-> 500, layer |-> "exceptions"] \in Made
  BY DEF Made
<1>2. CASE AuthConnect(r)
  BY <1>2 DEF AuthConnect, Connect, Go
<1>3. CASE LogConnect(r)
  BY <1>3 DEF LogConnect, Connect, Go
<1>4. CASE AuthTimesOut(r)
  BY <1>4, <1>1 DEF AuthTimesOut, Go, Answer
<1>5. CASE LogTimesOut(r)
  BY <1>5 DEF LogTimesOut, Go, AfterLog
<1> QED
  BY <1>2, <1>3, <1>4, <1>5

\* The two gates: each lets the request pass or answers in its place.
LEMMA GateStep ==
  ASSUME IInv, NEW r \in Request, Admit(r) \/ Refuse(r) \/ AuthFails(r) \/ LetThrough(r) \/ LimitExceeded(r)
  PROVE  TypeOK' /\ Fits(r)' /\ \A q \in Request \ {r} : Same(q)
<1> USE PipelineAssumption
    DEF IInv, TypeOK, Fits, Arrived, Equipped, Named, Same, InDatabase, RequestId
<1>1. /\ [status |-> 500, layer |-> "exceptions"] \in Made
      /\ [status |-> 401, layer |-> "auth"] \in Made
      /\ [status |-> 429, layer |-> "limiter"] \in Made
  BY DEF Made
<1>2. CASE Admit(r)
  BY <1>2 DEF Admit, Go, SessionCloses
<1>3. CASE Refuse(r)
  BY <1>3, <1>1 DEF Refuse, Go, SessionCloses, Answer
<1>4. CASE AuthFails(r)
  BY <1>4, <1>1 DEF AuthFails, Go, SessionCloses, Answer
<1>5. CASE LetThrough(r)
  BY <1>5 DEF LetThrough, Go
<1>6. CASE LimitExceeded(r)
  BY <1>6, <1>1 DEF LimitExceeded, Go, Answer
<1> QED
  BY <1>2, <1>3, <1>4, <1>5, <1>6

\* The route answers, raises, completes or begins a stream.
LEMMA RouteStep ==
  ASSUME IInv, NEW r \in Request, RouteAnswers(r) \/ RouteRaises(r) \/ ChatEnds(r) \/ StreamBegins(r)
  PROVE  TypeOK' /\ Fits(r)' /\ \A q \in Request \ {r} : Same(q)
<1> USE PipelineAssumption
    DEF IInv, TypeOK, Fits, Arrived, Equipped, Named, Same, InDatabase, RequestId
<1>1. /\ \A s \in {200, 404, 422, 502} : [status |-> s, layer |-> "route"] \in Made
      /\ [status |-> 500, layer |-> "exceptions"] \in Made
  BY DEF Made
<1>2. CASE RouteAnswers(r)
  BY <1>2, <1>1 DEF RouteAnswers, Go, Answer
<1>3. CASE RouteRaises(r)
  BY <1>3, <1>1 DEF RouteRaises, Go, Answer
<1>4. CASE ChatEnds(r)
  BY <1>4, <1>1 DEF ChatEnds, Go, Answer, Transactions
<1>5. CASE StreamBegins(r)
  BY <1>5, <1>1 DEF StreamBegins, Go, Answer
<1> QED
  BY <1>2, <1>3, <1>4, <1>5

\* A stream ends or is left, and a record is written or given up.
LEMMA RecordStep ==
  ASSUME IInv, NEW r \in Request, StreamEnds(r) \/ StreamIsLeft(r) \/ Transaction(r) \/ LogFails(r)
  PROVE  TypeOK' /\ Fits(r)' /\ \A q \in Request \ {r} : Same(q)
<1> USE PipelineAssumption
    DEF IInv, TypeOK, Fits, Arrived, Equipped, Named, Same, InDatabase, RequestId
<1>1. CASE StreamEnds(r)
  BY <1>1 DEF StreamEnds, Go, Transactions
<1>2. CASE StreamIsLeft(r)
  BY <1>2 DEF StreamIsLeft
<1>3. CASE Transaction(r)
  BY <1>3 DEF Transaction, Go, AfterLog, SessionCloses
<1>4. CASE LogFails(r)
  BY <1>4 DEF LogFails, Go, AfterLog, SessionCloses
<1> QED
  BY <1>1, <1>2, <1>3, <1>4

\* The response passes the layers on its way out.
LEMMA RespondStep ==
  ASSUME IInv, NEW r \in Request, Respond(r)
  PROVE  TypeOK' /\ Fits(r)' /\ \A q \in Request \ {r} : Same(q)
<1>1. answer[r] \in Made /\ id[r] \in Id \cup Request
  BY PipelineAssumption
  DEF IInv, TypeOK, Fits, Arrived, Equipped, Respond, Go, RequestId, Ask
<1>2. /\ Stamped(r) \in Reply
      /\ Stamped(r).header = id[r]
      /\ Stamped(r).status # 200 => Stamped(r).error = id[r]
  BY <1>1, StampedType
<1>3. reply' = [reply EXCEPT ![r] = Stamped(r)]
  BY DEF Respond
<1> HIDE DEF Stamped
<1> QED
  BY <1>1, <1>2, <1>3, PipelineAssumption
  DEF IInv, TypeOK, Fits, Arrived, Equipped, Named, Same, InDatabase, RequestId,
      Respond, Go

-----------------------------------------------------------------------------
\* Every step keeps the invariant.
LEMMA NextInv == IInv /\ [Next]_vars => IInv'
<1> SUFFICES ASSUME IInv, [Next]_vars PROVE IInv'
  OBVIOUS
<1>1. ASSUME NEW r \in Request, Arrive(r) \/ Progress(r) \/ Mishap(r)
      PROVE  IInv'
  <2>1. TypeOK' /\ Fits(r)' /\ \A q \in Request \ {r} : Same(q)
    BY <1>1, ArriveStep, WaitStep, GateStep, RouteStep, RecordStep, RespondStep
    DEF Progress, Mishap
  <2>2. \A q \in Request \ {r} : Fits(q)'
    BY <2>1, Frame DEF IInv
  <2> QED
    BY <2>1, <2>2 DEF IInv
<1>2. CASE UNCHANGED vars
  BY <1>2 DEF vars, IInv, TypeOK, Fits, Arrived, Equipped, Named, InDatabase, RequestId
<1> QED
  BY <1>1, <1>2 DEF Next, Quiet

\* The invariant holds in every reachable state.
THEOREM Invariance == Spec => []IInv
<1> QED
  BY InitInv, NextInv, PTL DEF Spec

\* Every variable keeps its type: the pool, the connections taken from it and
\* the rows the requests leave behind are never anything else.
THEOREM TypeCorrectness == Spec => []TypeOK
<1>1. IInv => TypeOK
  BY DEF IInv
<1> QED
  BY <1>1, Invariance, PTL

\* A connection is out of the pool only while the database works for the
\* request: no request, whatever the others do, holds one while it waits for
\* Redis, a provider, the client or another connection.
THEOREM NobodyHoardsConnections == Spec => []OnlyWorkersHold
<1>1. IInv => OnlyWorkersHold
  BY DEF IInv, Fits, OnlyWorkersHold
<1> QED
  BY <1>1, Invariance, PTL

\* Header, error body and row of a request agree on its id, the client's own
\* if it sent one, for every layer that may have made its response.
THEOREM EveryResponseIsTraceable == Spec => []Traceable
<1>1. IInv => Traceable
  <2> SUFFICES ASSUME IInv, NEW r \in Request, reply[r] # None
               PROVE  /\ reply[r].header # None
                      /\ ask[r].inbound # None => reply[r].header = ask[r].inbound
                      /\ reply[r].status # 200 => reply[r].error = reply[r].header
                      /\ row[r] \in {None, reply[r].header}
    BY DEF Traceable
  <2>1. Named(r) /\ Arrived(r)
    BY DEF IInv, Fits
  <2>2. phase[r] # "idle" /\ reply[r].header = id[r]
    BY <2>1 DEF Named
  <2>3. id[r] = RequestId(r, ask[r].inbound)
    BY <2>1, <2>2 DEF Arrived
  <2> QED
    BY <2>1, <2>2, <2>3, PipelineAssumption DEF Named, RequestId
<1> QED
  BY <1>1, Invariance, PTL

=============================================================================
