----------------------------- MODULE SharedText -----------------------------
(***************************************************************************)
(* What a collaborative document promises, without buffers, flags or       *)
(* signals.  There is one shared text, the one all participants of an      *)
(* infinote session edit, and one text shown in the local editor.  While   *)
(* the editor is attached to the session the two are the same text after   *)
(* every edit, whoever made it; an editor that lost the session may be     *)
(* edited on, but what is typed there never reaches the shared text.       *)
(*                                                                         *)
(* TextSync.tla is shown to implement this module.                         *)
(***************************************************************************)
EXTENDS Sequences

CONSTANT Char       \* the code points a text is made of

VARIABLES
    shown,          \* the text in the local editor
    shared,         \* the text of the session
    attached        \* whether the editor takes part in the session

sharedVars == <<shown, shared, attached>>

SharedInit ==
    /\ shown = << >>
    /\ shared = << >>
    /\ attached = TRUE

\* One participant, local or remote, edits; both texts change together.
EditTogether ==
    /\ attached
    /\ shared' \in Seq(Char)
    /\ shown' = shared'
    /\ UNCHANGED attached

\* The editor is cut off.  The step that notices a difference between the
\* texts may be the one that made it, so both may change in it.
Detach ==
    /\ attached
    /\ attached' = FALSE
    /\ shared' \in Seq(Char)
    /\ shown' \in Seq(Char)

\* Editing goes on, separately, on one of the two sides.
EditApart ==
    /\ ~attached
    /\ UNCHANGED attached
    /\ shared' \in Seq(Char)
    /\ shown' \in Seq(Char)
    /\ shown' # shown => shared' = shared

SharedNext == EditTogether \/ Detach \/ EditApart

SharedSpec == SharedInit /\ [][SharedNext]_sharedVars
=============================================================================
