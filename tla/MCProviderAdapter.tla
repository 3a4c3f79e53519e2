-------------------------- MODULE MCProviderAdapter --------------------------
(***************************************************************************)
(* One call of every adapter, with chunks of every kind.                   *)
(***************************************************************************)
EXTENDS ProviderAdapter

\* Nothing, a first report that knows the input only, two complete ones, and
\* one of what is new since an earlier one.
MCMetadata ==
  { <<>>,
    [input_tokens |-> 3, total_tokens |-> 3],
    [input_tokens |-> 3, output_tokens |-> 1, total_tokens |-> 4],
    [input_tokens |-> 3, output_tokens |-> 2, total_tokens |-> 5],
    [input_tokens |-> 0, output_tokens |-> 2, total_tokens |-> 2] }

=============================================================================
