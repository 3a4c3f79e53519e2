---------------------------- MODULE MCDiscovery ----------------------------
(* One report over every registry; a provider of either kind may have a    *)
(* client that cannot be built.                                            *)
EXTENDS Discovery

MCBreakable == {"openai", "ollama"}

=============================================================================
