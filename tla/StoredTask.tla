------------------------------ MODULE StoredTask ------------------------------
(***************************************************************************)
(* One row of tasks as bytes: how a request becomes its input_json          *)
(* (tasks/input.ts, taskManager.ts), how the runners write and read its     *)
(* checkpoint_json (chapterGeneration/service.ts,                           *)
(* taskRecovery/checkpoints.ts), and what becomes of a row that does not    *)
(* read (taskRepository.ts).                                                *)
(*                                                                         *)
(* A JSON value is abstracted to what the parsers tell apart: absent, null, *)
(* a blank or other text, a number, a flag, a record, a record of the shape *)
(* the reader needs.                                                        *)
(***************************************************************************)
EXTENDS Naturals, FiniteSets

CONSTANTS MaxDamages   \* bound: columns or fields harmed from outside

ASSUME StoredTaskAssumption == MaxDamages \in Nat

VARIABLES
  demand,     \* the request of the first execution
  taskRow,    \* the row
  inHand,     \* the checkpoint in the runner's memory
  damages     \* columns and fields harmed so far

storedVars == <<demand, taskRow, inHand, damages>>

Absent == "absent"
Texts == {"blank", "text", "key", "snapshot"}   \* key: a text that looks secret
Json == {Absent, "null", "blank", "text", "number", "record"}

-----------------------------------------------------------------------------
(* Requests.                                                               *)

\* What a window may send.
ChapterForm == [chapter_outline_id : {"text", "key"},
                chapter_id : {Absent, "null", "text"},
                auto_confirm : {Absent, "yes", "no"}, debug : {Absent, "yes"}]
PolishForm == [chapter_id : {"text"}, mode : {Absent, "chapter", "paragraph"},
               block_id : {Absent, "null", "text"},
               instruction : {Absent, "blank", "text", "key"},
               source_revision_id : {Absent, "null", "text"},
               auto_apply : {Absent, "yes", "no"}]
LlmForm == [temperature : {Absent, "number"}, contextBudget : {Absent, "number"},
            maxOutputTokens : {Absent, "number"}, timeoutMs : {Absent, "number"}]

Otherwise(v, instead) == IF v = Absent THEN instead ELSE v
Unset(v, values) == IF v \in values THEN Absent ELSE v

\* parseChapterGenerationStartParams and chapterRequest.
ParseChapterForm(f) == [f EXCEPT !.chapter_id = Unset(@, {"null"})]

\* parseChapterPolishStartParams: a paragraph has a block.
PolishFormAccepted(f) == f.mode = "paragraph" => f.block_id = "text"
ParsePolishForm(f) ==
  [f EXCEPT !.block_id = Unset(@, {"null"}), !.source_revision_id = Unset(@, {"null"})]
\* chapterPolishRequest.
ChapterPolishRequest(f) ==
  [f EXCEPT !.mode = Otherwise(@, "chapter"),
            !.instruction = Unset(@, {"blank"})]

\* assertSafeTaskStartSecrets, assertNoSensitiveTaskInput.
NoSensitiveInput(r) == \A k \in DOMAIN r : r[k] # "key"

\* minimizePersistedRequest: a field is kept if it has its type.
Kept(v, values) == IF v \in values THEN v ELSE Absent
MinimizePersistedRequest(type, r) ==
  IF type = "chapter-generation"
  THEN [chapter_outline_id |-> Kept(r.chapter_outline_id, Texts),
        chapter_id |-> Kept(r.chapter_id, Texts),
        auto_confirm |-> Kept(r.auto_confirm, {"yes", "no"}),
        debug |-> Kept(r.debug, {"yes", "no"})]
  ELSE [chapter_id |-> Kept(r.chapter_id, Texts),
        mode |-> Kept(r.mode, {"chapter", "paragraph"}),
        block_id |-> Kept(r.block_id, Texts),
        instruction |-> Kept(r.instruction, Texts),
        source_revision_id |-> Kept(r.source_revision_id, Texts),
        auto_apply |-> Kept(r.auto_apply, {"yes", "no"})]

\* toPersistedInput: the prompt, the key and the time-outs stay in memory.
ToPersistedInput(type, r, llm) ==
  [request |-> MinimizePersistedRequest(type, r),
   llm |-> [k \in DOMAIN llm \ {"timeoutMs"} |-> llm[k]]]

\* inputFromTask; normalizeLlmConfig supplies what is absent.
InputFromTask(input) == [request |-> input.request, llm |-> input.llm]
ModelParams(llm) ==
  [temperature |-> Otherwise(llm.temperature, "null"),
   max_output_tokens |-> Otherwise(llm.maxOutputTokens, "default"),
   context_budget |-> Otherwise(llm.contextBudget, "default")]

\* readRequest of the two runners.
ReadChapterRequest(r, llm) ==
  [r |-> [r EXCEPT !.chapter_id = Unset(@, {"blank"})], params |-> ModelParams(llm)]
ReadPolishRequest(r) ==
  [chapter_id |-> r.chapter_id, mode |-> Otherwise(r.mode, "chapter"),
   block_id |-> r.block_id, instruction |-> Otherwise(r.instruction, "blank"),
   source_revision_id |-> Otherwise(r.source_revision_id, "null"),
   auto_apply |-> Otherwise(r.auto_apply, "no")]
ReadRequest(type, r, llm) ==
  IF type = "chapter-generation" THEN ReadChapterRequest(r, llm) ELSE ReadPolishRequest(r)

-----------------------------------------------------------------------------
(* The checkpoint of a chapter generation.                                 *)

Stages == {"body", "summary", "fact_check", "saving", "review"}
TextFields == {"body", "summary", "fact_check_text"}

\* The writer of whole and hollow records: a report or a compilation that has
\* all its fields, or lacks one.
CheckpointToJson(c) ==
  [schema_version |-> "current", stage |-> c.stage,
   body |-> c.body, summary |-> c.summary, fact_check_text |-> c.fact_check_text,
   fact_check |-> c.fact_check, version_id |-> c.version_id,
   source_content |-> c.source_content,
   source_chapter_version |-> c.source_chapter_version,
   context_source_snapshot |-> c.context_source_snapshot,
   stage_compiles |-> c.stage_compiles]

EmptyCheckpoint ==
  [stage |-> "body", body |-> "blank", summary |-> "blank", fact_check_text |-> "blank",
   fact_check |-> "null", version_id |-> "null", source_content |-> Absent,
   source_chapter_version |-> Absent, context_source_snapshot |-> Absent,
   stage_compiles |-> "record"]

\* parseFactCheck.
ParseFactCheck(v) == IF v = "whole" THEN v ELSE "null"
\* parseTraceItem, parseCompileTrace, parseModelParams, parseStageCompile,
\* parseStageCompiles: the stages whose compilation has all its fields.
ParseStageCompiles(v) == IF v = "compiles" THEN v ELSE "record"

\* checkpointFromJson: what the runner goes on from.
GoOnFrom(v) ==
  LET text(x) == IF x \in Texts THEN x ELSE "blank" IN
  [stage |-> v.stage, body |-> text(v.body), summary |-> text(v.summary),
   fact_check_text |-> text(v.fact_check_text),
   fact_check |-> ParseFactCheck(v.fact_check),
   version_id |-> IF v.version_id \in Texts THEN v.version_id ELSE "null",
   source_content |-> Kept(v.source_content, Texts),
   source_chapter_version |-> Kept(v.source_chapter_version, {"number"}),
   context_source_snapshot |-> Kept(v.context_source_snapshot, Texts),
   stage_compiles |-> ParseStageCompiles(v.stage_compiles)]
CheckpointFromJson_NoVersion(v) ==
  IF v.stage \notin Stages THEN EmptyCheckpoint
  ELSE [GoOnFrom(v) EXCEPT !.source_chapter_version = Absent]
CheckpointFromJson(v) == IF v.stage \notin Stages THEN EmptyCheckpoint ELSE GoOnFrom(v)

\* hasValidContextStageCompile, hasValidStageCompileMetadata.
StageCompilesValid(v) == v \in {Absent, "record", "compiles"}
\* validCompilerSourceSnapshot.
SnapshotValid(v) == v \in {Absent, "snapshot"}

\* parseStrictGenerationCheckpoint: what the classifier goes by.
StrictAccepts(v) ==
  /\ v.schema_version = "current" /\ v.stage \in Stages
  /\ \A f \in TextFields \cup {"source_content"} : v[f] \in Texts \cup {Absent}
  /\ v.source_chapter_version \in {Absent, "number"}
  /\ SnapshotValid(v.context_source_snapshot)
  /\ StageCompilesValid(v.stage_compiles)
  /\ v.stage_compiles = "compiles" => v.context_source_snapshot = "snapshot"
  /\ v.version_id \in Texts \cup {Absent, "null"}
  /\ v.fact_check \in {Absent, "null", "record", "whole"}
StrictCheckpoint(v) ==
  LET text(x) == IF x \in Texts THEN x ELSE "blank" IN
  [stage |-> v.stage, body |-> text(v.body), summary |-> text(v.summary),
   fact_check_text |-> text(v.fact_check_text),
   version_id |-> IF v.version_id \in Texts THEN v.version_id ELSE "null",
   source_content |-> Kept(v.source_content, Texts),
   source_chapter_version |-> Kept(v.source_chapter_version, {"number"})]

-----------------------------------------------------------------------------
(* The checkpoint of a polish.                                             *)

PolishStatus == {"running", "completed", "fallback", "cancelled"}

\* polishCheckpointToJson.
PolishCheckpointToJson(c) ==
  [schema_version |-> "current", operation |-> c.operation, status |-> c.status,
   source_content |-> c.source_content, generated_content |-> c.generated_content,
   revision_id |-> c.revision_id, error |-> c.error, applied |-> c.applied]

\* parseStrictPolishCheckpoint, for the classifier and the runner.
StrictPolishAccepts(v) ==
  /\ v.schema_version = "current"
  /\ v.operation \in {"paragraph_revision", "chapter_polish"} /\ v.status \in PolishStatus
  /\ \A f \in {"revision_id", "error"} : v[f] \in Texts \cup {Absent, "null"}
  /\ \A f \in {"source_content", "generated_content"} : v[f] \in Texts \cup {Absent}
StrictPolishCheckpoint(v) ==
  LET text(x) == IF x \in Texts THEN x ELSE "blank"
      nullable(x) == IF x \in Texts THEN x ELSE "null"
  IN [operation |-> v.operation, status |-> v.status,
      source_content |-> text(v.source_content),
      generated_content |-> text(v.generated_content),
      revision_id |-> nullable(v.revision_id), error |-> nullable(v.error),
      applied |-> IF v.applied = "yes" THEN "yes" ELSE "no"]

StrictlyReads(type, v) ==
  IF type = "chapter-generation" THEN StrictAccepts(v) ELSE StrictPolishAccepts(v)
Written(type, c) ==
  IF type = "chapter-generation" THEN CheckpointToJson(c) ELSE PolishCheckpointToJson(c)
ReadBack(type, v) ==
  IF type = "chapter-generation" THEN CheckpointFromJson(v) ELSE StrictPolishCheckpoint(v)

-----------------------------------------------------------------------------
(* The row.                                                                *)

Statuses == {"pending", "running", "completed", "failed", "cancelled"}
Phases == {"queued", "preparing", "awaiting_model", "model_in_flight",
           "persisting_result", "finalizing", "completed", "cancelled", "failed"}
Columns == {"input", "checkpoint", "result"}

\* create, and the lease that start takes.
NewTaskRow(type, input) ==
  [type |-> type, status |-> "running", phase |-> "queued",
   input |-> "object", checkpoint |-> "null", result |-> "null",
   classification |-> "null", leased |-> TRUE, fields |-> input, content |-> <<>>]

\* parseExecutionPhase, toTask: the row reads.
RowReads(r) ==
  /\ r.status \in Statuses /\ r.phase \in Phases
  /\ \A c \in Columns : r[c] # "broken"

\* markTaskUnsupportedPhase.
ClosedRow(r) == [r EXCEPT !.status = "failed", !.phase = "failed",
                       !.classification = "non-recoverable", !.leased = FALSE]
\* isValidJsonObject, preserveJsonObject: only bytes that do not read are lost.
Preserved(v, instead) == IF v = "broken" THEN instead ELSE v
\* markTaskCorrupt.
MarkTaskCorrupt(r) ==
  [ClosedRow(r) EXCEPT !.input = Preserved(@, "object"),
                    !.checkpoint = Preserved(@, "null"), !.result = Preserved(@, "null")]
\* normalizeUnreadableRow: a phase of another version first, then the bytes.
NormalizeUnreadableRow(r) ==
  IF r.phase \notin Phases /\ RowReads(ClosedRow(r)) THEN ClosedRow(r)
  ELSE MarkTaskCorrupt(r)

-----------------------------------------------------------------------------
(* Steps.                                                                  *)

\* Bound: the key of a model is varied for generations only.
PlainLlm == [temperature |-> "number", contextBudget |-> Absent,
             maxOutputTokens |-> Absent, timeoutMs |-> Absent]
Requests ==
  {[type |-> "chapter-generation", request |-> ParseChapterForm(f), llm |-> l] :
     f \in ChapterForm, l \in {x \in LlmForm : x.maxOutputTokens = Absent}}
  \cup {[type |-> "chapter-polish", llm |-> PlainLlm,
         request |-> ChapterPolishRequest(ParsePolishForm(f))] :
          f \in {x \in PolishForm : PolishFormAccepted(x)}}
StartAccepted(a) == NoSensitiveInput(a.request)

Plain == [type |-> "chapter-generation", llm |-> PlainLlm,
          request |-> [chapter_outline_id |-> "text", chapter_id |-> Absent,
                       auto_confirm |-> Absent, debug |-> Absent]]

FirstCheckpoint(a) ==
  IF a.type = "chapter-generation" THEN EmptyCheckpoint
  ELSE [operation |-> IF a.request.mode = "paragraph" THEN "paragraph_revision"
                      ELSE "chapter_polish",
        status |-> "running", source_content |-> "text", generated_content |-> "blank",
        revision_id |-> "null", error |-> "null", applied |-> "no"]

StoredInit ==
  /\ demand \in {a \in Requests : StartAccepted(a)}
  /\ taskRow = NewTaskRow(demand.type,
                          ToPersistedInput(demand.type, demand.request, demand.llm))
  /\ inHand = <<FirstCheckpoint(demand)>>
  /\ damages = 0

\* What is fixed before the first call of the model.
Prepared(c) == [c EXCEPT !.source_content = "text", !.source_chapter_version = "number",
                         !.context_source_snapshot = "snapshot"]
FixSources ==
  /\ demand.type = "chapter-generation" /\ inHand # <<>>
  /\ inHand' = <<Prepared(inHand[1])>> /\ UNCHANGED <<demand, taskRow, damages>>

\* The checkpoints that generate publishes after c.
GenerationGoesOn(c) ==
  IF c.context_source_snapshot = Absent THEN {}
  ELSE {[c EXCEPT !.stage_compiles = "compiles"]} \cup
    CASE c.stage = "body" -> {[c EXCEPT !.body = "text"],
                              [c EXCEPT !.body = "text", !.stage = "summary"]}
      [] c.stage = "summary" -> {[c EXCEPT !.summary = "text"],
                                 [c EXCEPT !.summary = "text", !.stage = "fact_check"]}
      [] c.stage = "fact_check" ->
           {[c EXCEPT !.fact_check_text = "text"],
            [c EXCEPT !.fact_check_text = "text", !.fact_check = "whole", !.stage = "saving"]}
      [] OTHER -> {[c EXCEPT !.stage = "review", !.version_id = "text"]}
\* The checkpoints of a polish.  While the text g comes, and when the run gives up
\* on it,
Streaming(c, g) == [c EXCEPT !.status = "running", !.generated_content = g,
                             !.error = "null", !.revision_id = "null"]
GivenUp(c, end, g) == [Streaming(c, g) EXCEPT !.status = end, !.error = "text"]
\* when its revision is stored, and when that is applied or found again, with the
\* source of the checkpoint that the execution began with, if there was one.
Polished(c) == [Streaming(c, "text") EXCEPT !.status = "completed", !.revision_id = "text"]
Reapplied(c, source) ==
  [c EXCEPT !.applied = IF demand.request.auto_apply = "yes" THEN "yes" ELSE @,
            !.source_content = source]
\* A run that goes on from anything but a stored revision starts anew.
PolishGoesOn(c) ==
  IF c.status = "completed" THEN {Reapplied(c, t) : t \in {"blank", "text"}}
  ELSE {Streaming(c, g) : g \in {"blank", "text"}}
       \cup {GivenUp(c, end, g) : end \in {"fallback", "cancelled"}, g \in {"blank", "text"}}
       \cup {Polished(c)}

SaveCheckpoint ==
  /\ inHand # <<>> /\ taskRow.status = "running"
  /\ \E c \in IF demand.type = "chapter-generation" THEN GenerationGoesOn(inHand[1])
              ELSE PolishGoesOn(inHand[1]) :
       /\ inHand' = <<c>>
       /\ taskRow' = [taskRow EXCEPT !.checkpoint = "object", !.phase = "persisting_result",
                                     !.content = <<Written(demand.type, c)>>]
  /\ UNCHANGED <<demand, damages>>

Finish ==
  /\ inHand # <<>> /\ taskRow.status = "running"
  /\ \/ demand.type = "chapter-generation" /\ inHand[1].stage = "review"
     \/ demand.type = "chapter-polish" /\ inHand[1].status # "running"
  /\ LET end == IF demand.type = "chapter-polish" /\ inHand[1].status = "cancelled"
                THEN "cancelled" ELSE "completed"
     IN taskRow' = [taskRow EXCEPT !.status = end, !.phase = end,
                                 !.result = "object", !.leased = FALSE]
  /\ inHand' = <<>> /\ UNCHANGED <<demand, damages>>

\* The program dies.
Die == inHand # <<>> /\ inHand' = <<>> /\ UNCHANGED <<demand, taskRow, damages>>

\* The disk, or a program of another version, in between.
\* Bound: only the plainest task is harmed.
Harm ==
  /\ inHand = <<>> /\ demand = Plain /\ damages < MaxDamages /\ damages' = damages + 1
  /\ \/ taskRow' = [taskRow EXCEPT !.status = "foreign"]
     \/ taskRow' = [taskRow EXCEPT !.phase = "foreign"]
     \/ \E c \in Columns : taskRow' = [taskRow EXCEPT ![c] = "broken"]
     \/ /\ taskRow.content # <<>> /\ damages = 0
        /\ \E f \in DOMAIN taskRow.content[1], v \in Json :
             taskRow' = [taskRow EXCEPT !.content[1][f] = v]
  /\ UNCHANGED <<demand, inHand>>

\* getById, mapRowsIsolatingCorrupt: whoever reads the row first closes it.
ReadRow ==
  /\ ~RowReads(taskRow)
  /\ taskRow' = NormalizeUnreadableRow(taskRow)
  /\ UNCHANGED <<demand, inHand, damages>>

\* The next start: the classifier's verdict, then the runner's reading.
Resume ==
  /\ inHand = <<>> /\ RowReads(taskRow) /\ taskRow.status = "running"
  /\ IF taskRow.content = <<>>
     THEN inHand' = <<FirstCheckpoint(demand)>> /\ UNCHANGED taskRow
     ELSE IF StrictlyReads(demand.type, taskRow.content[1])
     THEN inHand' = <<ReadBack(demand.type, taskRow.content[1])>> /\ UNCHANGED taskRow
     ELSE taskRow' = ClosedRow(taskRow) /\ UNCHANGED inHand
  /\ UNCHANGED <<demand, damages>>

StoredNext ==
  FixSources \/ SaveCheckpoint \/ Finish \/ Die \/ Harm \/ ReadRow \/ Resume

StoredSpec == StoredInit /\ [][StoredNext]_storedVars
-----------------------------------------------------------------------------
\* normalizeUnreadableRow: a row that does not read is closed by whoever reads it
\* first, whatever is wrong with it: it reads from then on, is never recovered,
\* and keeps every column that could be read.
UnreadableRowIsClosed ==
  LET closed == NormalizeUnreadableRow(taskRow) IN
  ~RowReads(taskRow) =>
    /\ RowReads(closed) /\ ~closed.leased
    /\ closed.status = "failed" /\ closed.classification = "non-recoverable"
    /\ \A c \in Columns : taskRow[c] # "broken" => closed[c] = taskRow[c]

\* What the writers write the strict parser accepts and the runner reads back as
\* it was; where bytes were changed, the classifier decides on the texts, the
\* version and the source boundary that the runner then goes on from; and a
\* resumed execution has the request and the parameters of the first.  A row that
\* cannot be read does not stand in the way of the others.
ResumesWhatWasLeft ==
  /\ UnreadableRowIsClosed
  /\ LET input == InputFromTask(taskRow.fields) IN
       ReadRequest(demand.type, input.request, input.llm)
         = ReadRequest(demand.type, demand.request, demand.llm)
  /\ taskRow.content # <<>> =>
       LET v == taskRow.content[1] IN
       /\ damages = 0 => /\ StrictlyReads(demand.type, v)
                         /\ Written(demand.type, ReadBack(demand.type, v)) = v
       /\ demand.type = "chapter-generation" /\ StrictlyReads(demand.type, v) =>
            \A f \in DOMAIN StrictCheckpoint(v) :
              ReadBack(demand.type, v)[f] = StrictCheckpoint(v)[f]

=============================================================================
