------------------------------ MODULE Sublists ------------------------------
(***************************************************************************)
(* A list comprehension with a condition, as the code writes it to leave   *)
(* out what it does not want: [x for x in s if x in S].                    *)
(***************************************************************************)
EXTENDS SequencesExt

Filter(s, S) ==
  FlattenSeq([i \in DOMAIN s |-> IF s[i] \in S THEN <<s[i]>> ELSE <<>>])

=============================================================================
