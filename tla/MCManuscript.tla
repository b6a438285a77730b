---------------------------- MODULE MCManuscript ----------------------------
(***************************************************************************)
(* Two generations and two polishes of one chapter; a generation and a     *)
(* polish apply their text by themselves.                                  *)
(***************************************************************************)
EXTENDS ManuscriptProperties, TLC

CONSTANTS g1, g2, p1, p2

BothGen == {g1, g2}
BothPolish == {p1, p2}
AutoMain == {g1, p1}
=============================================================================
