------------------------------- MODULE MCProject -------------------------------
(***************************************************************************)
(* Two projects of a few rows, and one that is ready for its first         *)
(* chapters, for TLC.                                                      *)
(***************************************************************************)
EXTENDS FirstChapter

\* The tables whose rows are made in one behaviour: what links to what.
Families == {
  {"character", "organization", "relation"}, {"worldview", "relation"},
  {"character", "material"}, {"material", "volume", "volume outline"},
  {"material", "volume", "chapter outline"},
  {"volume", "volume outline", "chapter outline"}}

RowOf(kind, links) == New(kind, 1, links, Own)
WithText(r, n) == [r EXCEPT !.text = n]
Agreed(r) == [r EXCEPT !.status = "confirmed"]

\* What the wizard makes, confirmed, and a second volume in draft.
ReadyProject == <<
  NewProject(1),
  RowOf("character", {}), WithText(RowOf("character", {}), 2),
  RowOf("relation", Ends(2, 3)), RowOf("worldview", {}), RowOf("material", {}),
  RowOf("volume", {}),
  Agreed(RowOf("volume outline", {Link("volume", 7)} \cup Cites({6}))),
  Agreed(RowOf("chapter outline", {Link("volume", 7)})),
  RowOf("volume", {}), RowOf("volume outline", {Link("volume", 10)}),
  RowOf("chapter outline", {Link("volume", 10)})>>

SomeStarts == {
  [row |-> <<NewProject(1)>>, made |-> Families, spent |-> 0],
  [row |-> ReadyProject, made |-> {{}}, spent |-> 2]}
=============================================================================
