------------------------------ MODULE MCKioSlave ------------------------------
(* The instances of KioSlave for model checking. *)
EXTENDS KioSlave

CONSTANTS host1, host2
=============================================================================
