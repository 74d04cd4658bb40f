--------------------------- MODULE MCPipeSessions ----------------------------
(* Small instances of PipeSessions. *)
EXTENDS PipeSessions

OneEach == [p \in Pipes |-> 1]
=============================================================================
