-------------------------- MODULE MCPluginConnections --------------------------
(* Instances of PluginConnections for model checking. *)
EXTENDS PluginConnections, TLC

CONSTANTS d1, d2, d3, h1, h2

\* Two documents of one host, and one of another
MCHostOf == (d1 :> h1) @@ (d2 :> h1) @@ (d3 :> h2)
=============================================================================
