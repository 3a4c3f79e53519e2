--------------------------- MODULE MCRateLimiter ---------------------------
(* Small instances of the rate limiter.  Requests are interchangeable: no  *)
(* action and no property tells one from another.                          *)
EXTENDS RateLimiter, TLC

RequestSymmetry == Permutations(Request)

=============================================================================
