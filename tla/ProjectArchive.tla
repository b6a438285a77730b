----------------------------- MODULE ProjectArchive -----------------------------
(***************************************************************************)
(* What a cell of a project may hold, from the request that writes it to    *)
(* the copy that an import makes of it: the readers of arguments            *)
(* (workbench/ipc.ts), the rows (the repositories), the archive             *)
(* (projectPortabilityService.ts) and its schema (archiveSchema.ts).        *)
(*                                                                         *)
(* A value is abstracted to what readers and schema tell apart. The ids and *)
(* references of the rows are in ProjectGraph; tables that nothing writes   *)
(* any more (llm_configs, arcs, roadmap_items) are left out.                *)
(***************************************************************************)
EXTENDS Naturals, Sequences, FiniteSets

CONSTANTS
  SkillName,   \* skills a project may have set
  MaxOdd,      \* bound: cells of a project that hold anything but the plain value
  MaxCopies    \* bound: imports

ASSUME ArchiveAssumption == MaxOdd \in Nat /\ MaxCopies \in Nat

VARIABLES
  oddCells,   \* the cells of the project that are not plain
  skillsSet,  \* the skills it has set
  archive,    \* the exported file, if any
  landed,     \* the projects imported from it
  portAnswer  \* what the last export or import answered

archiveVars == <<oddCells, skillsSet, archive, landed, portAnswer>>

-----------------------------------------------------------------------------
(* Values.                                                                 *)

\* Texts, by their length: up to 256, 8192, 16384, two million, longer.
WrittenTexts == {"blank", "name", "line", "page", "book", "tome"}
Prose == {"empty"} \cup WrittenTexts
Links == {"link", "link?query", "file path"}
Numbers == {"minus", "zero", "half", "one", "vast"}      \* vast: above 1e15
Lists == {"none", "list", "long items", "twice"}          \* twice: an item occurs again
Objects == {"object", "deep"}                             \* deep: more than six levels
Settings ==
  Objects \cup {"local path", "credential", "endpoint", "raw endpoint", "no endpoint"}
Moments == {"iso", "sqlite"}

\* The argument readers: what each lets through.
Accepts(reader) ==
  CASE reader = "readString" -> WrittenTexts \ {"blank"}
    [] reader = "readOptionalString" -> Prose
    [] reader = "readOptionalNullableString" -> Prose \cup {"null"}
    [] reader = "readUri" -> Links \cup {"empty", "null"}
    [] reader = "readOptionalInteger 0" -> {"zero", "one", "vast"}
    [] reader = "readOptionalInteger 1" -> {"one", "vast"}
    [] reader = "readOptionalNullableInteger 1" -> {"null", "one", "vast"}
    [] reader = "readOptionalNumber" -> Numbers \cup {"null"}
    [] reader = "readOptionalJsonObject" -> Objects
    [] reader = "settings" -> Settings
    [] reader = "readOptionalArrayOfStrings" -> Lists
    [] reader = "evidence" -> Lists
    [] reader = "clampConfidence" -> {"zero", "half", "one"}
    [] reader = "clock" -> Moments
    [] reader = "parseProjectStatus" -> {"active", "archived"}
    [] reader = "parseVolumeStatus" ->
         {"planned", "drafting", "active", "completed", "archived"}
    [] reader = "outline actions" -> {"draft", "confirmed", "locked"}
    [] reader = "foreshadowTransitions" ->
         {"suggested", "planned", "planted", "active", "revealed", "paid_off", "resolved",
          "abandoned"}
    [] reader = "eventTypes" ->
         {"suggested", "planned", "planted", "activated", "revealed", "paid_off", "resolved",
          "abandoned"}
    [] reader = "memory type" -> {"fact", "event", "relationship", "character", "worldview",
                                  "emotion", "theme", "custom"}
    [] reader = "proposal actions" -> {"proposed", "approved", "rejected"}
    [] reader = "chapter stages" -> {"planned", "drafting", "review", "completed"}
    [] reader = "version actions" -> {"review", "approved", "rejected"}
    [] reader = "revision operations" -> {"paragraph_revision", "polish"}

-----------------------------------------------------------------------------
(* The archive's schema.                                                   *)

\* checkColumn and, word for word the same, the schema of each kind.
CheckColumn(kind) ==
  CASE kind = "string" -> {"empty", "blank", "name", "line"}
    [] kind = "nonEmptyString" -> {"blank", "name", "line"}
    [] kind = "longString" -> Prose \ {"tome"}
    [] kind = "nullableString" -> {"null", "empty", "blank", "name", "line", "page"}
    [] kind = "nullablePortableUri" -> {"null", "link"}
    [] kind = "number" -> Numbers \ {"vast"}
    [] kind = "nullableNumber" -> {"null"} \cup (Numbers \ {"vast"})
    [] kind = "positiveInteger" -> {"one"}
    [] kind = "nonNegativeInteger" -> {"zero", "one"}
    [] kind = "nullablePositiveInteger" -> {"null", "one"}
    [] kind = "unitNumber" -> {"zero", "half", "one"}
    [] kind = "json" -> Settings \ {"deep"}
    [] kind = "stringArray" -> {"none", "list"}
    [] kind = "date" -> {"iso"}
    [] kind = "projectStatus" -> {"active", "archived"}
    [] kind = "volumeStatus" -> {"planned", "drafting", "active", "completed", "archived"}
    [] kind = "outlineStatus" -> {"draft", "confirmed", "locked"}
    [] kind = "foreshadowStatus" ->
         {"suggested", "planned", "planted", "active", "revealed", "paid_off", "resolved",
          "abandoned"}
    [] kind = "foreshadowEventType" ->
         {"suggested", "planned", "planted", "activated", "revealed", "paid_off", "resolved",
          "abandoned", "note"}
    [] kind = "memoryType" -> {"fact", "event", "relationship", "character", "worldview",
                               "emotion", "theme", "custom"}
    [] kind = "proposalStatus" -> {"proposed", "approved", "rejected"}
    [] kind = "chapterStatus" -> {"planned", "drafting", "review", "completed"}
    [] kind = "versionStatus" -> {"review", "approved", "rejected"}
    [] kind = "revisionOperation" -> {"manual", "paragraph_revision", "polish", "fallback"}

\* A column: who reads it when its row is made and when it is changed, what it
\* holds if the request leaves it out, and its kind in ARCHIVE_TABLES.
Of(tables, names, make, change, plain, kind) ==
  {[table |-> t, column |-> c, make |-> make, change |-> change, plain |-> plain,
    kind |-> kind] : t \in tables, c \in names}

Titled(tables, names, kind) ==
  Of(tables, names, "readString", "readOptionalString", "name", kind)
Told(table, names, kind) ==
  Of({table}, names, "readOptionalString", "readOptionalString", "empty", kind)
Same(tables, names, reader, plain, kind) == Of(tables, names, reader, reader, plain, kind)

\* The columns of each table that requests fill.
ProjectColumns ==
  Titled({"projects"}, {"slug", "name"}, "nonEmptyString")
  \cup Told("projects", {"description"}, "longString")
  \cup Same({"projects"}, {"status"}, "parseProjectStatus", "active", "projectStatus")
  \cup Same({"projects"}, {"created_at"}, "clock", "iso", "date")
ConfigColumns ==
  Told("project_configs", {"genre", "tone"}, "string")
  \cup Same({"project_configs"}, {"target_words", "context_budget"},
            "readOptionalNullableInteger 1", "null", "nullableNumber")
  \cup Same({"project_configs"}, {"settings_json"}, "settings", "object", "json")
VolumeColumns ==
  Titled({"volumes"}, {"title"}, "nonEmptyString")
  \cup Told("volumes", {"synopsis"}, "longString")
  \cup Same({"volumes"}, {"target_words"}, "readOptionalNullableInteger 1", "null",
            "nullablePositiveInteger")
  \cup Same({"volumes"}, {"volume_number"}, "readOptionalInteger 1", "one", "positiveInteger")
  \cup Same({"volumes"}, {"sort_order"}, "readOptionalInteger 0", "one",
            "nonNegativeInteger")
  \cup Same({"volumes"}, {"status"}, "parseVolumeStatus", "planned", "volumeStatus")
OutlineColumns(table) ==
  Same({table}, {"outline_json", "metadata_json"}, "readOptionalJsonObject", "object", "json")
  \cup Same({table}, {"status"}, "outline actions", "draft", "outlineStatus")
VolumeOutlineColumns ==
  OutlineColumns("volume_outlines")
  \cup Told("volume_outlines", {"summary", "theme", "main_conflict", "ending"}, "longString")
  \cup Same({"volume_outlines"}, {"key_turning_points_json"}, "readOptionalArrayOfStrings",
            "none", "stringArray")
ChapterOutlineColumns ==
  OutlineColumns("chapter_outlines")
  \cup Titled({"chapter_outlines"}, {"title"}, "nonEmptyString")
  \cup Told("chapter_outlines", {"summary", "purpose", "opening", "conflict", "ending",
                                 "ending_hook"}, "longString")
  \cup Same({"chapter_outlines"}, {"chapter_number"}, "readOptionalInteger 1", "one",
            "positiveInteger")
  \cup Same({"chapter_outlines"}, {"sort_order"}, "readOptionalInteger 0", "one",
            "nonNegativeInteger")
  \cup Same({"chapter_outlines"}, {"key_events_json"}, "readOptionalArrayOfStrings", "none",
            "stringArray")
CharacterColumns ==
  Titled({"characters"}, {"name"}, "string")
  \cup Told("characters", {"role"}, "string") \cup Told("characters", {"notes"}, "longString")
  \cup Same({"characters"}, {"crush_slug"}, "readOptionalNullableString", "null",
            "nullableString")
  \cup Same({"characters"}, {"sort_order"}, "readOptionalInteger 0", "zero", "number")
  \cup Same({"characters"}, {"profile_json"}, "readOptionalJsonObject", "object", "json")
WorldviewColumns ==
  Titled({"worldview_entries"}, {"title"}, "string")
  \cup Told("worldview_entries", {"category"}, "string")
  \cup Told("worldview_entries", {"content"}, "longString")
  \cup Same({"worldview_entries"}, {"sort_order"}, "readOptionalInteger 0", "zero", "number")
  \cup Same({"worldview_entries"}, {"metadata_json"}, "readOptionalJsonObject", "object",
            "json")
OrganizationColumns ==
  Titled({"organizations"}, {"name"}, "string")
  \cup Told("organizations", {"description"}, "longString")
  \cup Same({"organizations"}, {"sort_order"}, "readOptionalInteger 0", "zero", "number")
  \cup Same({"organizations"}, {"metadata_json"}, "readOptionalJsonObject", "object", "json")
RelationColumns ==
  Titled({"relations"}, {"relation_type"}, "string")
  \cup Told("relations", {"description"}, "longString")
  \cup Same({"relations"}, {"strength"}, "readOptionalNumber", "null", "nullableNumber")
  \cup Same({"relations"}, {"metadata_json"}, "readOptionalJsonObject", "object", "json")
MaterialColumns ==
  Titled({"source_materials"}, {"title"}, "string")
  \cup Told("source_materials", {"content"}, "longString")
  \cup Same({"source_materials"}, {"material_type"}, "readOptionalString", "name", "string")
  \cup Same({"source_materials"}, {"uri"}, "readUri", "null", "nullablePortableUri")
  \cup Same({"source_materials"}, {"fragment_id"}, "readOptionalNullableString", "null",
            "nullableString")
  \cup Same({"source_materials"}, {"metadata_json"}, "readOptionalJsonObject", "object",
            "json")
\* Chapters are made from their outline; the texts of versions and revisions are
\* the model's.
ChapterColumns ==
  Same({"chapters"}, {"title"}, "readString", "name", "string")
  \cup Same({"chapters"}, {"synopsis", "content"}, "readOptionalString", "empty", "longString")
  \cup Same({"chapters"}, {"target_words"}, "readOptionalNullableInteger 1", "null",
            "nullableNumber")
  \cup Same({"chapters"}, {"status"}, "chapter stages", "planned", "chapterStatus")
VersionColumns ==
  Same({"chapter_versions"}, {"content"}, "readString", "page", "longString")
  \cup Same({"chapter_versions"}, {"summary"}, "readOptionalString", "line", "longString")
  \cup Same({"chapter_versions"}, {"status"}, "version actions", "review", "versionStatus")
RevisionColumns ==
  Same({"chapter_revisions"}, {"content"}, "readString", "page", "longString")
  \cup Same({"chapter_revisions"}, {"summary", "reason"}, "readOptionalString", "empty",
            "longString")
  \cup Same({"chapter_revisions"}, {"operation"}, "revision operations", "polish",
            "revisionOperation")
ForeshadowColumns ==
  Same({"foreshadows"}, {"status"}, "foreshadowTransitions", "suggested", "foreshadowStatus")
ForeshadowEventColumns ==
  Same({"foreshadow_events"}, {"event_type"}, "eventTypes", "suggested",
       "foreshadowEventType")
MemoryColumns(table) ==
  Same({table}, {"memory_type"}, "memory type", "event", "memoryType")
  \cup Same({table}, {"evidence_json"}, "evidence", "list", "stringArray")
ProposalColumns ==
  MemoryColumns("narrative_memory_proposals")
  \cup Same({"narrative_memory_proposals"}, {"status"}, "proposal actions", "proposed",
            "proposalStatus")
  \cup Same({"narrative_memory_proposals"}, {"confidence"}, "clampConfidence", "half",
            "unitNumber")

ArchiveColumns ==
  ProjectColumns \cup ConfigColumns \cup VolumeColumns \cup VolumeOutlineColumns
  \cup ChapterOutlineColumns \cup CharacterColumns \cup WorldviewColumns
  \cup OrganizationColumns \cup RelationColumns \cup MaterialColumns
  \cup ChapterColumns \cup VersionColumns \cup RevisionColumns
  \cup ForeshadowColumns \cup ForeshadowEventColumns
  \cup MemoryColumns("narrative_memories") \cup ProposalColumns

Cell(cells, c) == IF c \in DOMAIN cells THEN cells[c] ELSE c.plain
WithCell(cells, c, v) ==
  IF v = c.plain THEN [d \in DOMAIN cells \ {c} |-> cells[d]]
  ELSE [d \in DOMAIN cells \cup {c} |-> IF d = c THEN v ELSE cells[d]]

-----------------------------------------------------------------------------
(* Export and import.                                                      *)

\* portableSourceUri.
PortableSourceUri_KeepsQuery(v) == IF v \in {"link", "link?query"} THEN v ELSE "null"
PortableSourceUri(v) == IF v \in {"link", "link?query"} THEN "link" ELSE "null"
\* sanitizePortableConfiguration: what it takes out and what it normalises.
SanitizePortableConfiguration(v) ==
  IF v \in {"local path", "credential"} THEN "object"
  ELSE IF v = "raw endpoint" THEN "endpoint" ELSE v
\* inspectPortableConfiguration accepts.
ConfigurationIsPortable(v) == v \in {"object", "endpoint"}
\* The walk itself fails.
ConfigurationUnreadable(v) == v \in {"deep", "no endpoint"}

\* toArchiveRow with normalizeDatabaseTimestamp, then sanitizeExternalLinks.
ToArchiveRow(c, v) ==
  CASE c.kind = "date" -> "iso"
    [] c.column \in {"crush_slug", "fragment_id"} -> "null"
    [] c.column = "uri" -> PortableSourceUri(v)
    [] c.column = "settings_json" -> SanitizePortableConfiguration(v)
    [] OTHER -> v
ReadPayload(cells) ==
  LET row(c) == ToArchiveRow(c, cells[c])
      odd == {c \in DOMAIN cells : row(c) # c.plain}
  IN [c \in odd |-> row(c)]

\* manuallyCheckArchive.
CellsFitTheSchema(a) == \A c \in DOMAIN a.cells : a.cells[c] \in CheckColumn(c.kind)
\* validateProjectArchive, validateArchive and validateReferences.
ValidateArchive(a) ==
  IF a.formatVersion # 1 THEN "PROJECT_IMPORT_UNSUPPORTED_VERSION"
  ELSE IF ~CellsFitTheSchema(a) THEN "PROJECT_IMPORT_INVALID"
  ELSE IF ~a.digestMatches THEN "PROJECT_IMPORT_CHECKSUM_MISMATCH"
  ELSE IF \E c \in DOMAIN a.cells :
            c.column = "settings_json" /\ ~ConfigurationIsPortable(a.cells[c])
  THEN "PROJECT_IMPORT_INVALID"
  ELSE "ok"

\* buildArchive.
Built(cells, skills) ==
  [cells |-> ReadPayload(cells), skills |-> skills, formatVersion |-> 1,
   digestMatches |-> TRUE]
BuildArchive(cells, skills) ==
  IF \E c \in DOMAIN cells :
       c.column = "settings_json" /\ ConfigurationUnreadable(cells[c])
  THEN "PROJECT_EXPORT_FAILED"
  ELSE ValidateArchive(Built(cells, skills))

\* uniqueSlug.
UniqueSlug == Len(landed) + 1

-----------------------------------------------------------------------------
(* Steps.                                                                  *)

ArchiveInit ==
  /\ oddCells = <<>> /\ skillsSet = {} /\ archive = <<>> /\ landed = <<>>
  /\ portAnswer = "none"

\* A request that makes or changes a row.
\* Bound: the project is left alone once it has been exported.
WriteCell ==
  /\ archive = <<>>
  /\ \E c \in ArchiveColumns : \E v \in Accepts(c.make) \cup Accepts(c.change) :
       /\ Cell(oddCells, c) # v /\ oddCells' = WithCell(oddCells, c, v)
       /\ Cardinality(DOMAIN oddCells') <= MaxOdd
  /\ UNCHANGED <<skillsSet, archive, landed, portAnswer>>

\* setSkillEnabled.
\* Bound: a skill is set only while every cell is plain.
SetSkill ==
  /\ oddCells = <<>> /\ archive = <<>>
  /\ \E s \in SkillName \ skillsSet : skillsSet' = skillsSet \cup {s}
  /\ UNCHANGED <<oddCells, archive, landed, portAnswer>>

\* exportToFile: the file is written aside and renamed into its place.
ExportToFile ==
  /\ portAnswer' \in {BuildArchive(oddCells, skillsSet), "LOCAL_IO_ERROR"}
  /\ archive' = IF portAnswer' = "ok" THEN <<Built(oddCells, skillsSet)>> ELSE archive
  /\ UNCHANGED <<oddCells, skillsSet, landed>>

\* The file outside: bytes change, or it comes from another version.
HarmArchive ==
  /\ archive # <<>> /\ archive[1].digestMatches /\ archive[1].formatVersion = 1
  /\ \/ archive' = <<[archive[1] EXCEPT !.digestMatches = FALSE]>>
     \/ archive' = <<[archive[1] EXCEPT !.formatVersion = 2]>>
  /\ UNCHANGED <<oddCells, skillsSet, landed, portAnswer>>

\* inspectArchiveJson, importArchive and verifyImported: one transaction, on a
\* machine that knows some of the skills; insertProjectSkills leaves out the rest.
ImportArchive ==
  /\ archive # <<>> /\ Len(landed) < MaxCopies
  /\ \/ /\ ValidateArchive(archive[1]) = "ok" /\ portAnswer' = "ok"
        /\ \E here \in SUBSET SkillName :
             landed' = Append(landed, [slug |-> UniqueSlug, cells |-> archive[1].cells,
                                       skills |-> archive[1].skills \cap here,
                                       missing |-> archive[1].skills \ here])
     \/ /\ ValidateArchive(archive[1]) = "ok" /\ portAnswer' = "PROJECT_IMPORT_FAILED"
        /\ UNCHANGED landed
     \/ /\ ValidateArchive(archive[1]) # "ok" /\ portAnswer' = ValidateArchive(archive[1])
        /\ UNCHANGED landed
  /\ UNCHANGED <<oddCells, skillsSet, archive>>

ArchiveNext == WriteCell \/ SetSkill \/ ExportToFile \/ HarmArchive \/ ImportArchive

ArchiveSpec == ArchiveInit /\ [][ArchiveNext]_archiveVars

-----------------------------------------------------------------------------
ArchiveTypeInv ==
  /\ DOMAIN oddCells \subseteq ArchiveColumns /\ skillsSet \subseteq SkillName
  /\ Len(archive) <= 1 /\ Len(landed) <= MaxCopies

\* What a request may store and no archive carries: a title emptied by a change, a
\* text longer than its column of the archive, a number beyond 1e15, a list with a
\* long or a repeated item, an object too deep, settings with a useless endpoint.
Unportable(c, v) ==
  \/ v \in {"tome", "vast", "deep", "no endpoint", "long items", "twice"}
  \/ v \in {"page", "book"} /\ c.kind \in {"string", "nonEmptyString"}
  \/ v = "empty" /\ c.kind = "nonEmptyString"
\* What an export is told to leave behind.
StaysBehind(c) ==
  c.column \in {"crush_slug", "fragment_id", "uri", "settings_json", "created_at"}

\* buildArchive validates what it built with the rules of an import: whatever else
\* the requests may store is exported; a file nobody touched is imported; a copy
\* differs from its source only in what an export leaves behind, and exports to the
\* very same archive again.
ArchiveRoundTrips ==
  /\ ArchiveTypeInv
  /\ (BuildArchive(oddCells, skillsSet) = "ok") =
       \A c \in DOMAIN oddCells :
         Unportable(c, oddCells[c]) => StaysBehind(c) /\ c.column # "settings_json"
  /\ \A c \in ArchiveColumns :
       c.plain \in CheckColumn(c.kind) /\ ToArchiveRow(c, c.plain) = c.plain
  /\ \A i \in DOMAIN archive :
       archive[i].digestMatches /\ archive[i].formatVersion = 1 =>
         ValidateArchive(archive[i]) = "ok"
  /\ \A i \in DOMAIN landed :
       /\ BuildArchive(landed[i].cells, {}) = "ok"
       /\ ReadPayload(landed[i].cells) = landed[i].cells
  /\ LET lost == {c \in DOMAIN oddCells :
                    Cell(Built(oddCells, {}).cells, c) # oddCells[c]}
     IN \A c \in lost : StaysBehind(c)
=============================================================================
