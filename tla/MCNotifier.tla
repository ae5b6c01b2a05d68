------------------------------ MODULE MCNotifier ------------------------------
(* Instances of Notifier for model checking. *)
EXTENDS Notifier, TLC

CONSTANTS u1, u2, u3, h1, h2

\* Two directories of one host and one of another
MCHostOf == u1 :> h1 @@ u2 :> h1 @@ u3 :> h2

\* Connections are told apart by nothing but what becomes of them.
Symmetry == Permutations(Conns)
=============================================================================
