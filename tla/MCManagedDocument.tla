--------------------------- MODULE MCManagedDocument ---------------------------
(* Instances of ManagedDocument for model checking. *)
EXTENDS ManagedDocument
=============================================================================
