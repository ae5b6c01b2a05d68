---------------------------- MODULE MCPluginView ----------------------------
(* Views are alike, and so are users. *)
EXTENDS UserLists, TLC
Symmetry == Permutations(Views) \cup Permutations(Users)
=============================================================================
