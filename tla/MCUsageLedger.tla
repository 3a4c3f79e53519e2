--------------------------- MODULE MCUsageLedger ---------------------------
(* Three requests of two keys; one spending has a price, one has none.     *)
EXTENDS UsageLedger

MCSpending == {[tokens |-> 3, cost |-> 2], [tokens |-> 5, cost |-> None]}

\* Requests are interchangeable, and so are keys.
LedgerSymmetry == Permutations(Request) \cup Permutations(Key)

=============================================================================
