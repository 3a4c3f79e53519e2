---------------------------- MODULE MCApiKeyAuth ----------------------------
(* A small instance of API key authentication: one key that may expire     *)
(* before, during or after a request, or never.                            *)
EXTENDS ApiKeyAuth

MCExpiry == {None, 0, 1}

=============================================================================
