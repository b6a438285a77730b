---------------------------- MODULE MCTaskManager ----------------------------
(***************************************************************************)
(* Small instances of the task manager for TLC.                            *)
(***************************************************************************)
EXTENDS TaskManagerProperties, TLC

CONSTANTS chapter, outline, other, k1, k2, k3

\* One project's tasks: a chapter and two outlines, the latter for one target.
MCTypeOf == [t \in Task |->
  IF t = chapter THEN "chapter-generation" ELSE "outline-generation"]
MCKeyOf == [t \in Task |-> CASE t = chapter -> k1 [] t = outline -> k2 [] OTHER -> k3]

Symmetry == Permutations(Token)

=============================================================================
