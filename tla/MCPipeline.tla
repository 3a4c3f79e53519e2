----------------------------- MODULE MCPipeline -----------------------------
(* A small instance of the pipeline: two requests and one connection, so   *)
(* that whatever a request holds the other one misses.                     *)
EXTENDS Pipeline

MCId == {"inbound"}

=============================================================================
