----------------------------- MODULE ProjectTables -----------------------------
(***************************************************************************)
(* The tables of a project: the statements that the repositories under     *)
(* main/database/repositories execute on them, and what the schema of      *)
(* main/database/migrations does by itself when a row is deleted.          *)
(*                                                                         *)
(* A row's id is its place in the sequence row; ids are not used again.    *)
(* Its links are the columns that name other rows, "cites" the ids inside  *)
(* source_material_ids_json; from is the crush or fragment it was made of. *)
(* Every statement may name the version its caller expects.  The caller    *)
(* that does is a form: it was filled from a row and is saved once.        *)
(***************************************************************************)
EXTENDS Naturals, Sequences, FiniteSets

CONSTANTS
  MaxRows,     \* bound: rows the user makes
  MaxWork,     \* bound: rows made, written and deleted
  Legacy       \* crushes and fragments of the older program

ASSUME TablesAssumption == MaxRows \in Nat /\ MaxWork \in Nat

VARIABLES
  row,            \* every row ever made
  begun,          \* how many there were at first
  changes,        \* writes and deletions so far
  current,        \* workbench_state.current_project_id, 0 for NULL
  form            \* the row a form was filled from, and its version

Own == 0    \* made by the user, not of a crush or fragment
Gone == [kind |-> "none", project |-> 0, links |-> {}, live |-> FALSE]
NoForm == [id |-> 0]

RowId == DOMAIN row
Live == {i \in RowId : row[i].live}
LiveOf(kind, p) == {i \in Live : row[i].kind = kind /\ row[i].project = p}
Projects == {i \in Live : row[i].kind = "project"}
Outlines == {"volume outline", "chapter outline"}

Link(column, i) == [column |-> column, id |-> i]
Linked(i, column) == {l.id : l \in {k \in row[i].links : k.column = column}}
Cites(ms) == {Link("cites", m) : m \in ms}

-----------------------------------------------------------------------------
(* Statements.                                                             *)

\* assertExpectedVersion: no version is named, or the row still has it.
Expected(i) ==
  \/ form' = form
  \/ form # NoForm /\ form.id = i /\ form.version = row[i].version /\ form' = NoForm

Room == (Len(row) - begun) + changes < MaxWork
RoomForRow == Room /\ Len(row) - begun < MaxRows
Counted == Room /\ changes' = changes + 1

New(kind, p, links, from) ==
  [kind |-> kind, project |-> p, links |-> links, from |-> from, live |-> TRUE,
   status |-> "draft", text |-> 1, version |-> 1, config |-> 1]
\* A project's settings are made in the transaction that makes it; config is their
\* version.  Other rows have none.
NewProject(p) == New("project", p, {}, Own)

Insert(kind, p, links, from) ==
  /\ RoomForRow
  /\ row' = Append(row, New(kind, p, links, from))
  /\ UNCHANGED <<begun, current, form, changes>>

\* UPDATE ... SET version = version + 1 WHERE id = ? AND version = ?
Write(i, change) ==
  /\ Counted /\ Expected(i)
  /\ row' = [row EXCEPT ![i] = [change EXCEPT !.version = @ + 1]]
  /\ UNCHANGED <<begun, current>>
\* Texts alternate.
SetText(i, change) == Write(i, [change EXCEPT !.text = 3 - @])

\* ON DELETE CASCADE of project_id; the triggers on relations.
DeletedWith_NoTrigger(i) == {i} \cup {j \in Live : row[j].project = i}
DeletedWith(i) ==
  LET owned == {i} \cup {j \in Live : row[j].project = i}
  IN owned \cup {j \in Live : /\ row[j].kind = "relation"
                              /\ (Linked(j, "source") \cup Linked(j, "target"))
                                   \cap owned # {}}

\* ON DELETE SET NULL of character_id; ids inside a JSON column stay.
Unlinked(links, gone) ==
  {l \in links : ~(l.column = "character" /\ l.id \in gone)}

Delete(i) ==
  /\ Counted /\ Expected(i)
  /\ LET gone == DeletedWith(i) IN
       row' = [j \in RowId |->
                 IF j \in gone THEN Gone
                 ELSE [row[j] EXCEPT !.links = Unlinked(@, gone)]]
  /\ UNCHANGED <<begun, current>>

-----------------------------------------------------------------------------
(* The repositories.                                                       *)

InsertProject(selected) ==
  /\ RoomForRow
  /\ row' = Append(row, NewProject(Len(row) + 1))
  /\ current' = IF selected THEN Len(row) + 1 ELSE current
  /\ UNCHANGED <<begun, form, changes>>
SetProject(p) == SetText(p, row[p])
DropProject(p) == p # current /\ Delete(p)
Select(p) == current' = p /\ UNCHANGED <<row, begun, form, changes>>

\* save: writes the one row of a project, which is there as long as the project is.
SaveConfig(p) ==
  /\ Counted
  /\ row' = [row EXCEPT ![p].config = @ + 1]
  /\ UNCHANGED <<begun, current, form>>

\* The unique index on crush_slug in a project.
CrushOwner(p, from) == {i \in LiveOf("character", p) : row[i].from = from}
InsertCharacter(p, from) ==
  (from = Own \/ CrushOwner(p, from) = {}) /\ Insert("character", p, {}, from)
SetCharacter(i, from) ==
  /\ from = Own \/ CrushOwner(row[i].project, from) \subseteq {i}
  /\ SetText(i, [row[i] EXCEPT !.from = from])
DropCharacter(i) == Delete(i)

InsertWorldviewEntry(p) == Insert("worldview", p, {}, Own)
SetWorldviewEntry(i) == SetText(i, row[i])
DropWorldviewEntry(i) == Delete(i)

InsertOrganization(p) == Insert("organization", p, {}, Own)
SetOrganization(i) == SetText(i, row[i])
DropOrganization(i) == Delete(i)

\* assertDistinctEndpoints, assertEndpointBelongsToProject.
Ends(a, b) == {Link("source", a), Link("target", b)}
EndpointsAllowed(p, a, b) ==
  /\ a # b
  /\ {a, b} \subseteq UNION {LiveOf(kind, p) : kind \in {"character", "organization", "worldview"}}
InsertRelation(p, a, b) ==
  EndpointsAllowed(p, a, b) /\ Insert("relation", p, Ends(a, b), Own)
SetRelation(i, a, b) ==
  /\ EndpointsAllowed(row[i].project, a, b)
  /\ SetText(i, [row[i] EXCEPT !.links = Ends(a, b)])
DropRelation(i) == Delete(i)

\* The unique index on fragment_id in a project.
FragmentOwner(p, from) == {i \in LiveOf("material", p) : row[i].from = from}
OfCharacter(c) == IF c = 0 THEN {} ELSE {Link("character", c)}
InsertMaterial(p, c, from) ==
  /\ from = Own \/ FragmentOwner(p, from) = {}
  /\ Insert("material", p, OfCharacter(c), from)
SetMaterial(i, c) == SetText(i, [row[i] EXCEPT !.links = OfCharacter(c)])
DropMaterial(i) == Delete(i)

OutlinesOf(v) == {i \in Live : row[i].kind \in Outlines /\ v \in Linked(i, "volume")}
InsertVolume(p) == Insert("volume", p, {}, Own)
SetVolume(i) == SetText(i, row[i])
DropVolume(i) == OutlinesOf(i) = {} /\ Delete(i)

Editable(i) == row[i].status = "draft"
Transition(i, to) ==
  <<row[i].status, to>> \in {<<"draft", "confirmed">>, <<"confirmed", "locked">>,
                             <<"confirmed", "draft">>, <<"locked", "draft">>}
SetStatus_Silent(i, to) ==
  /\ Transition(i, to) /\ Expected(i)
  /\ row' = [row EXCEPT ![i].status = to] /\ UNCHANGED <<begun, current, changes>>
SetStatus(i, to) == Transition(i, to) /\ Write(i, [row[i] EXCEPT !.status = to])

VolumeOfProject(p, v) == v \in LiveOf("volume", p)

\* One outline for a volume.
InsertVolumeOutline(p, v, ms) ==
  /\ VolumeOfProject(p, v)
  /\ \A i \in OutlinesOf(v) : row[i].kind # "volume outline"
  /\ Insert("volume outline", p, {Link("volume", v)} \cup Cites(ms), Own)
SetVolumeOutline(i, ms) ==
  /\ Editable(i)
  /\ SetText(i, [row[i] EXCEPT !.links = {l \in @ : l.column = "volume"} \cup Cites(ms)])
DropVolumeOutline(i) == Editable(i) /\ Delete(i)
SetVolumeOutlineStatus(i, to) == SetStatus(i, to)

InsertChapterOutline(p, v, ms) ==
  /\ VolumeOfProject(p, v)
  /\ Insert("chapter outline", p, {Link("volume", v)} \cup Cites(ms), Own)
SetChapterOutline(i, v, ms) ==
  /\ Editable(i) /\ VolumeOfProject(row[i].project, v)
  /\ SetText(i, [row[i] EXCEPT !.links = {Link("volume", v)} \cup Cites(ms)])
DropChapterOutline(i) == Editable(i) /\ Delete(i)
SetChapterOutlineStatus(i, to) == SetStatus(i, to)
=============================================================================
