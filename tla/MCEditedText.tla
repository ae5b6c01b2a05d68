---------------------------- MODULE MCEditedText ----------------------------
(***************************************************************************)
(* An instance of EditedText for model checking.  The hashes of all names  *)
(* give the same hue.  There are two starts: an empty session in which Me  *)
(* and P4 write, and a later one, after the four others have written, all  *)
(* that was erased and the highlighting cleared: their colours are still   *)
(* in use, and Me finds no free one.                                       *)
(***************************************************************************)
EXTENDS EditedText

CONSTANTS P1, P2, P3, P4

MCPeers == {P1, P2, P3, P4}
MCContents == {<<>>, <<"plain", "return">>}
MCTyped == {<<"plain">>, <<"wide">>, <<"newline">>}
MCReceived == {<<"plain", "plain">>, <<"wide">>, <<"plain", "newline", "plain">>, <<"return">>}
\* Names that collide, in one of the 19 hues (hash % 19) * 4129 % 360
MCHashHue == [u \in Users |-> 37]

Earlier == <<P1, P2, P3, P4>>

\* All of Earlier write one character each, before what is there
EarlierDoc ==
    LET top == Cursor(0, 0)
        wrote[n \in 0 .. Len(Earlier)] ==
            IF n = 0 THEN NoText
            ELSE LET i == insertText(wrote[n - 1], top, <<"plain">>, Earlier[n])
                 IN  userChangedText(i.doc, Range2(top, i.at), Earlier[n])
    IN  clearHighlight(removeText(wrote[Len(Earlier)], top, Cursor(0, Len(Earlier))))

\* bound: the edits that are left for the later start
LaterEdits == 3

MCInit ==
    \/ Init
    \/ /\ doc = EarlierDoc /\ buffer = <<>> /\ phase = "joined"
       /\ edits = MaxEdits - LaterEdits

\* bound: in the first start only two write
TwoWrite == DOMAIN doc.colors \subseteq {Initially, Me, P4}
AllWrote == Range(Earlier) \subseteq DOMAIN doc.colors

MCNext == Next /\ (TwoWrite \/ AllWrote)'

MCSpec == MCInit /\ [][MCNext]_vars
=============================================================================
