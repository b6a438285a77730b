----------------------------- MODULE ProjectGraph -----------------------------
(***************************************************************************)
(* The requests of the renderer about a project (main/workbench/ipc.ts),   *)
(* with any ids that name a row, and the export and import of a project    *)
(* (projectPortability/projectPortabilityService.ts), over ProjectService  *)
(* and ProjectTables.                                                      *)
(***************************************************************************)
EXTENDS ProjectService

CONSTANTS
  MaxProjects,  \* bound: projects the user makes
  MaxImports,   \* bound: imports
  Starts        \* bound: records [row, made, spent]: the rows a run begins with, the
                \*   tables whose rows are made in it and the work it has less

ASSUME ProjectGraphAssumption == MaxProjects \in Nat /\ MaxImports \in Nat

-----------------------------------------------------------------------------
(* What the rows of a program are, whatever made them.                     *)

Kind == {"project", "character", "worldview", "organization", "relation", "material",
         "volume"} \cup Outlines
Status == {"draft", "confirmed", "locked"}
Source == {Own} \cup Legacy

\* The tables that have a column.
Bearer == [source |-> {"relation"}, target |-> {"relation"}, character |-> {"material"},
           volume |-> Outlines, cites |-> Outlines]
\* The tables that a column names.
Target == [source |-> {"character", "organization", "worldview"},
           target |-> {"character", "organization", "worldview"},
           character |-> {"character"}, volume |-> {"volume"}]
Columns == {"source", "target", "character", "volume", "cites"}

LiveRow == [kind : Kind, project : Nat, links : SUBSET [column : Columns, id : Nat],
            from : Source, live : {TRUE}, status : Status, text : {1, 2}, version : Nat,
            config : Nat \ {0}]
AnyRow == LiveRow \cup {Gone}

IsRow(R, i, kinds, p) ==
  i \in DOMAIN R /\ R[i].live /\ R[i].kind \in kinds /\ R[i].project = p

\* What a link may name: a row of its own project that its column speaks of; a cited
\* material may be gone.
Refers(R, l, p) ==
  IF l.column = "cites" THEN l.id \in DOMAIN R /\ (R[l.id].live => IsRow(R, l.id, {"material"}, p))
  ELSE IsRow(R, l.id, Target[l.column], p)

\* What the links of a row are: a relation has two ends, which differ, an outline
\* one volume.
Shaped(r) ==
  /\ \A l \in r.links : r.kind \in Bearer[l.column]
  /\ \A l, k \in r.links : l.column = "source" /\ k.column = "target" => l.id # k.id
  /\ r.kind = "relation" =>
       \A c \in {"source", "target"} : \E l \in r.links : l.column = c
  /\ r.kind \in Outlines =>
       \E l \in r.links : l.column = "volume" /\ \A k \in r.links : k.column = "volume" => k = l

\* A row has its place among the others.
Fits(R, r) ==
  /\ r \in LiveRow /\ Shaped(r)
  /\ \A l \in r.links : Refers(R, l, r.project)

\* The rows of R, of which c is the current project.
SoundTable(R, c) ==
  /\ R \in Seq(AnyRow)
  /\ \A i \in DOMAIN R : R[i].live =>
       /\ Fits(R, R[i])
       /\ IsRow(R, R[i].project, {"project"}, R[i].project)
       /\ R[i].kind = "project" => R[i].project = i
  /\ \A i, j \in DOMAIN R :
       R[i].live /\ R[j].live /\ R[i].kind = "volume outline" /\ R[j].kind = "volume outline"
         => \A l \in R[i].links : l.column = "volume" /\ l \in R[j].links => i = j
  /\ c = 0 \/ IsRow(R, c, {"project"}, c)

\* A run begins with sound rows, of which the first is the current project.
ASSUME StartsAssumption == \A s \in Starts : SoundTable(s.row, 1)

-----------------------------------------------------------------------------

VARIABLES
  archives,       \* archives imported so far
  made            \* the tables the user makes rows of

graphVars == <<row, begun, changes, current, form, archives, made>>

\* One project, selected.  Bound: the user makes rows of some tables only.
GraphInit ==
  /\ \E s \in Starts :
       row = s.row /\ begun = Len(s.row) /\ made \in s.made /\ changes = s.spent
  /\ current = 1
  /\ form = NoForm
  /\ archives = 0

-----------------------------------------------------------------------------
(* Forms: the page shows a row and names its version when it saves.        *)

Shown(i) == [id |-> i, version |-> row[i].version, text |-> row[i].text,
             status |-> row[i].status, links |-> row[i].links]
\* Bound: a form is filled before the first change.
FillForm ==
  /\ form = NoForm /\ changes = 0
  /\ \E i \in Live : form' = Shown(i)
  /\ UNCHANGED <<row, begun, changes, current>>

-----------------------------------------------------------------------------
(* Requests.                                                               *)

\* Bound: at most one material is named.
Materials == {{}} \cup {{m} : m \in Live}

ProjectRequest ==
  \/ /\ Cardinality({i \in RowId : row[i].kind = "project"}) < MaxProjects
     /\ \E selected \in BOOLEAN : CreateProject(selected)
  \/ \E p \in Projects : SelectProject(p) \/ UpdateProject(p) \/ DeleteProject(p)
ConfigRequest == \E p \in Projects : UpdateProjectConfig(p)

CharacterChange == \E p \in Projects, i \in Live, from \in {Own} \cup Legacy :
  CreateCharacter(p, from) \/ UpdateCharacter(p, i, from)
CharacterRemoval == \E p \in Projects, i \in Live : DeleteCharacter(p, i)
CrushRequest == \E p \in Projects, from \in Legacy, named \in {0} \cup Live :
  MapCrushToCharacter(p, from, named)

WorldviewRequest == \E p \in Projects :
  \/ CreateWorldviewEntry(p)
  \/ \E i \in Live : UpdateWorldviewEntry(p, i) \/ DeleteWorldviewEntry(p, i)
OrganizationRequest == \E p \in Projects :
  \/ CreateOrganization(p)
  \/ \E i \in Live : UpdateOrganization(p, i) \/ DeleteOrganization(p, i)
RelationRequest == \E p \in Projects, a, b \in Live :
  \/ CreateRelation(p, a, b)
  \/ \E i \in Live : UpdateRelation(p, i, a, b) \/ DeleteRelation(p, i)

MaterialRequest == \E p \in Projects, c \in {0} \cup Live, from \in {Own} \cup Legacy :
  \/ CreateSourceMaterial(p, c, from)
  \/ \E i \in Live : UpdateSourceMaterial(p, i, c) \/ DeleteSourceMaterial(p, i)
FragmentRequest ==
  \E p \in Projects, from \in Legacy, named \in BOOLEAN, c \in {0} \cup Live :
    CreateSourceMaterialFromFragment(p, from, named, c)

VolumeRequest == \E p \in Projects :
  CreateVolume(p) \/ \E i \in Live : UpdateVolume(p, i) \/ DeleteVolume(p, i)
VolumeOutlineRequest == \E p \in Projects, i \in Live, ms \in Materials :
  \/ CreateVolumeOutline(p, i, ms)
  \/ \E listed \in BOOLEAN : UpdateVolumeOutline(p, i, listed, ms)
  \/ DeleteVolumeOutline(p, i)
ChapterOutlineRequest == \E p \in Projects, i, v \in Live, ms \in Materials :
  \/ CreateChapterOutline(p, v, ms)
  \/ \E listed \in BOOLEAN : UpdateChapterOutline(p, i, v, listed, ms)
  \/ DeleteChapterOutline(p, i)
StatusRequest == \E p \in Projects, i \in Live, to \in {"draft", "confirmed", "locked"} :
  ChangeVolumeOutlineStatus(p, i, to) \/ ChangeChapterOutlineStatus(p, i, to)

-----------------------------------------------------------------------------
(* Export and import.                                                      *)

\* readPayload.
Payload(p) == {i \in Live : row[i].project = p}

\* sanitizeExternalLinks: nothing of the older program leaves the machine.
Portable(r) == [r EXCEPT !.from = Own]

\* validateSourceIds.
SourceIdsKnown(p, i) == Linked(i, "cites") \subseteq {m \in Payload(p) : row[m].kind = "material"}

\* validateReferences: one project with its settings; what a row names is in
\* the payload, of the table its column says; the ends of a relation differ.
ReferencesValid(p) ==
  /\ row[p].config > 0
  /\ \A i \in Payload(p) :
       /\ \A l \in row[i].links : l.column # "cites"
            => l.id \in Payload(p) /\ row[l.id].kind \in Target[l.column]
       /\ SourceIdsKnown(p, i)
       /\ Linked(i, "source") \cap Linked(i, "target") = {}
  /\ \A i, j \in Payload(p) :
       row[i].kind = "volume outline" /\ row[j].kind = "volume outline"
         /\ VolumeOf(i) = VolumeOf(j) => i = j

\* remapPayload: every row and every id it names gets a new id, in the same order;
\* the ids that would be those of other projects' rows stay unused.
Renamed(p) ==
  LET new(i) == Len(row) + i
  IN [k \in RowId |->
       IF k \notin Payload(p) THEN Gone
       ELSE [Portable(row[k]) EXCEPT !.project = new(p),
                                     !.links = {Link(l.column, new(l.id)) : l \in @}]]

\* importArchive: all rows enter in one transaction, or none.
ImportProject(p) ==
  /\ archives < MaxImports /\ archives' = archives + 1
  /\ ReferencesValid(p)
  /\ row' = row \o Renamed(p)
  /\ UNCHANGED <<begun, changes, current, form>>

\* Bound: nothing is asked after the last import.
KindsOf(rows) ==
  {rows[i].kind : i \in {k \in DOMAIN rows : k > begun}} \ {"project", "none"}
Request ==
  \/ FillForm
  \/ ProjectRequest \/ ConfigRequest
  \/ CharacterChange \/ CharacterRemoval \/ CrushRequest
  \/ WorldviewRequest \/ OrganizationRequest \/ RelationRequest
  \/ MaterialRequest \/ FragmentRequest
  \/ VolumeRequest \/ VolumeOutlineRequest \/ ChapterOutlineRequest
  \/ StatusRequest

GraphNext ==
  /\ UNCHANGED made
  /\ \/ archives < MaxImports /\ UNCHANGED archives
        /\ Request /\ KindsOf(row') \subseteq made
     \/ \E p \in Projects : ImportProject(p)

GraphSpec == GraphInit /\ [][GraphNext]_graphVars
-----------------------------------------------------------------------------
\* Rows are of known kinds and in a project; the current project exists.
GraphTypeInv ==
  /\ \A i \in Live :
       /\ row[i].kind \in {"project", "character", "worldview", "organization",
                           "relation", "material", "volume"} \cup Outlines
       /\ row[i].status \in {"draft", "confirmed", "locked"}
       /\ row[i].from \in {Own} \cup Legacy
       /\ \A l \in row[i].links : l.id \in RowId
  /\ \A i \in Live : row[i].project \in Projects
  /\ current \in {0} \cup Projects

\* An outline names a material that is deleted.
CitesDeleted(p) ==
  \E i \in Live : /\ row[i].kind \in Outlines /\ row[i].project = p
                  /\ \E m \in Linked(i, "cites") : ~row[m].live

\* The checks of the service, the schema's cascades and the validation of the
\* archive agree: whatever is created, changed, deleted and imported, in
\* whatever order, every row is in a project that exists, and every project can
\* be exported, with its settings, unless an outline of it cites a source
\* material that was deleted since.
ExportBlockedOnlyByDeletedMaterial ==
  /\ GraphTypeInv
  /\ \A p \in Projects : ReferencesValid(p) \/ CitesDeleted(p)

\* assertExpectedVersion and the updates: a form that is saved, or a deletion it
\* confirms, replaces the row that the form shows and not a later one.  Only the
\* character of a material may be gone, with the character.
SavedFormReplacesWhatItShows ==
  [][form # NoForm /\ form' = NoForm =>
       LET i == form.id IN
         /\ row[i].live
         /\ row[i].text = form.text /\ row[i].status = form.status
         /\ row[i].links = {l \in form.links : l.column = "character" => row[l.id].live}]_graphVars
=============================================================================
