------------------------------ MODULE MCSharing ------------------------------
(* Two requests, of any kind. *)
EXTENDS Sharing
=============================================================================
