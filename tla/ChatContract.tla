---------------------------- MODULE ChatContract ----------------------------
(***************************************************************************)
(* What a chat completion is, whoever produces it: one verdict, decided    *)
(* once; a status line, a request row and a usage row that follow from it, *)
(* each given out at most once and never before or against it.             *)
(***************************************************************************)
EXTENDS Integers, Sequences

CONSTANTS Request, Provider, None

VARIABLES
  asked,   \* the provider a request names, once it is accepted
  verdict, \* [code, server]: how the request ends and who serves it
  told,    \* the status the client received, 0 before
  record,  \* the request rows: [provider, status]
  charged  \* the providers of the usage rows

contract == <<asked, verdict, told, record, charged>>

Verdict(p) == {[code |-> c, server |-> s] : c \in {200}, s \in Provider}
         \cup {[code |-> c, server |-> p] : c \in {500, 502}}

Init ==
  /\ asked   = [r \in Request |-> None]
  /\ verdict = [r \in Request |-> None]
  /\ told    = [r \in Request |-> 0]
  /\ record  = [r \in Request |-> <<>>]
  /\ charged = [r \in Request |-> <<>>]

Ask(r) ==
  /\ asked[r] = None
  /\ \E p \in Provider : asked' = [asked EXCEPT ![r] = p]
  /\ UNCHANGED <<verdict, told, record, charged>>

Decide(r) ==
  /\ asked[r] # None /\ verdict[r] = None
  /\ \E v \in Verdict(asked[r]) : verdict' = [verdict EXCEPT ![r] = v]
  /\ UNCHANGED <<asked, told, record, charged>>

Reply(r) ==
  /\ verdict[r] # None /\ told[r] = 0
  /\ told' = [told EXCEPT ![r] = verdict[r].code]
  /\ UNCHANGED <<asked, verdict, record, charged>>

\* A request that was served may still break after its first byte.
Status(r) ==
  CASE verdict[r].code = 502 -> {"error"}
    [] verdict[r].code = 200 ->
         {"error", IF verdict[r].server = asked[r] THEN "success" ELSE "fallback"}
    [] OTHER -> {}

Record(r) ==
  /\ verdict[r] # None /\ record[r] = <<>>
  /\ \E s \in Status(r) : record' = [record EXCEPT ![r] =
       <<[provider |-> verdict[r].server, status |-> s]>>]
  /\ UNCHANGED <<asked, verdict, told, charged>>

Charge(r) ==
  /\ record[r] # <<>> /\ charged[r] = <<>>
  /\ record[r][1].status # "error"
  /\ charged' = [charged EXCEPT ![r] = <<verdict[r].server>>]
  /\ UNCHANGED <<asked, verdict, told, record>>

Next == \E r \in Request :
  Ask(r) \/ Decide(r) \/ Reply(r) \/ Record(r) \/ Charge(r)

Spec == Init /\ [][Next]_contract

=============================================================================
