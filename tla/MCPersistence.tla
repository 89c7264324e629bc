--------------------------- MODULE MCPersistence ---------------------------
(* A book of two places, and another one. *)
EXTENDS Persistence

MCBooks == {"a", "b"}
MCPagesOf == [a |-> {1, 2}, b |-> {1}]
=============================================================================
