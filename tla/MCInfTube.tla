----------------------------- MODULE MCInfTube -----------------------------
(* One contact shares two tubes with the user, another one; a tube offered *)
(* from the contact list has its documents opened by the handler.          *)
EXTENDS InfTube, TLC

CONSTANTS a, b, o1, o2, i1, i2

MCContactOf == o1 :> a @@ o2 :> a @@ i1 :> a @@ i2 :> b
MCPaths     == o1 :> 1 @@ o2 :> 0 @@ i1 :> 1 @@ i2 :> 0
MCTcpPort   == i1 :> 101 @@ i2 :> 102
=============================================================================
