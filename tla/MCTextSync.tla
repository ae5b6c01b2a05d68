----------------------------- MODULE MCTextSync -----------------------------
(* Instances of TextSync for model checking. *)
EXTENDS TextSync

\* One insertion carries one character or a character and a tab.
MCTexts == {<<c>> : c \in Char \ {Space}} \cup {<<CHOOSE c \in Char \ {Tab, Space} : TRUE, Tab>>}
=============================================================================
