--------------------------- MODULE ProviderContract ---------------------------
(***************************************************************************)
(* What the executor and the SSE generator get by with when they call a    *)
(* provider, whichever it is: texts, then one final item with the usage,   *)
(* or one ProviderCallError at any point; any other exception only before  *)
(* the first text; nothing after the end, and no end without one of these  *)
(* unless the caller left.                                                 *)
(*                                                                         *)
(* base.py documents a contract without Raise.  Raise is what the adapters *)
(* do beyond it, and the callers survive with a 500 and no fallback.       *)
(***************************************************************************)
EXTENDS Naturals

CONSTANT Call

VARIABLES
  state, \* new, open, complete, failed, raised or left
  texts  \* how many texts the caller got

contract == <<state, texts>>

Init ==
  /\ state = [c \in Call |-> "new"]
  /\ texts = [c \in Call |-> 0]

Moves(c, from, to) == state[c] = from /\ state' = [state EXCEPT ![c] = to]

Begin(c) == Moves(c, "new", "open") /\ UNCHANGED texts

\* The texts of a call only grow, by those of a call that is open.
Grow(c) ==
  /\ texts' = [texts EXCEPT ![c] = texts'[c]]
  /\ texts'[c] > texts[c]

Give(c) == state[c] = "open" /\ Grow(c) /\ UNCHANGED state

\* The final item of a stream has no text; an answer that is not streamed is
\* one item.
Complete(c) ==
  /\ Moves(c, "open", "complete")
  /\ UNCHANGED texts \/ (texts[c] = 0 /\ Grow(c))

Fail(c) == Moves(c, "open", "failed") /\ UNCHANGED texts

\* An exception that is no ProviderCallError: nobody but ExceptionHandling
\* catches it.
Raise(c) == texts[c] = 0 /\ Moves(c, "open", "raised") /\ UNCHANGED texts

Leave(c) ==
  /\ state[c] \in {"open", "complete"}
  /\ state' = [state EXCEPT ![c] = "left"]
  /\ UNCHANGED texts

Next == \E c \in Call :
  Begin(c) \/ Give(c) \/ Complete(c) \/ Fail(c) \/ Raise(c) \/ Leave(c)

Spec == Init /\ [][Next]_contract

=============================================================================
