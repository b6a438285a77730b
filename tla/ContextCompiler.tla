-------------------------- MODULE ContextCompiler ---------------------------
(***************************************************************************)
(* What goes into a prompt: the services choose what of a project a task   *)
(* is told (chapterGeneration/contextAssembly.ts, outlineGeneration/       *)
(* service.ts); the compiler (shared/contextCompiler) makes candidates of  *)
(* it, gates them by the strategy of the task, orders them and packs them  *)
(* into the tokens left for the prompt.  The strategy's required           *)
(* candidates all go in or the compilation fails; the others are tried one *)
(* by one, each at what the whole prompt would then cost.                  *)
(*                                                                         *)
(* A text is what the estimate sees of it: the bytes before its first      *)
(* ideograph (`head'), the tokens from there to its last one (`body') and  *)
(* the bytes after it (`tail'); without an ideograph, body = tail = 0.     *)
(* The relevance of a fact to the task, in percent, is an input of the     *)
(* model, and texts are shorter than the excerpts the code makes of them.  *)
(* The rows of a project have distinct ids: there are no duplicates.       *)
(***************************************************************************)
EXTENDS Naturals, Sequences, FiniteSets, Functions

CONSTANTS
  Fact,        \* what projects hold: records [id, kind, weight, relevance, status,
               \*   chosen, text, brief, volume]; of a chapter, weight is its number
               \*   and brief its synopsis
  Optional,    \* the facts a project may also lack
  ChapterHere, \* the chapter, and the volume, that a prompt is for
  VolumeHere,
  Scale,       \* bound: the code's capacities are divided by it
  Budgets      \* the tokens a prompt may have

NoText == [head |-> 0, body |-> 0, tail |-> 0]
TextSize == [head : Nat, body : Nat, tail : Nat]

\* contextCompiler/models.ts
ContextSourceKind ==
  {"system_prompt", "task_instruction", "project_config", "volume_goal", "chapter_goal",
   "character", "relation", "worldview", "source_material", "prior_chapter_summary",
   "recent_body", "narrative_memory", "foreshadow", "stage_body", "continuation"}

FactRecord ==
  [id : Nat, kind : ContextSourceKind \cup {"chapter"}, weight : Nat, relevance : Nat,
   status : STRING, chosen : BOOLEAN, text : TextSize, brief : TextSize, volume : Nat]

\* narrativeWorkbench/models.ts
StatusOfForeshadow ==
  {"suggested", "planned", "planted", "active", "revealed", "paid_off", "resolved",
   "abandoned"}

\* An empty body is refused before it is summarised or checked
\* (chapterGeneration/service.ts), and available_for_prompt is no less than 0.
ASSUME CompilerAssumption ==
  /\ Optional \subseteq Fact /\ Scale \in Nat \ {0} /\ Budgets \subseteq Nat
  /\ Fact \subseteq FactRecord /\ IsFiniteSet(Fact)
  /\ \A f, g \in Fact : f.id = g.id => f = g
  /\ \A f \in Fact : f.kind = "foreshadow" => f.status \in StatusOfForeshadow
  /\ \E f \in Fact \ Optional : f.kind = "stage_body"

VARIABLES
  promptOf,  \* the prompt that is compiled
  given,     \* the facts of the project
  available, \* available_for_prompt
  stage,     \* how far compileContext is
  queue,     \* the accepted candidates not yet tried, in order
  selected,  \* the candidates of the prompt, in order
  discarded  \* pairs <<candidate, code>>

compileVars == <<promptOf, given, available, stage, queue, selected, discarded>>

TaskKind == {"chapter_body", "summary", "fact_check", "outline"}

(***************************************************************************)
(* What a task is told                                                     *)
(***************************************************************************)
OfKind(kinds) == {f \in given : f.kind \in kinds}

\* mapCharacters, mapRelations, mapWorldview, mapSourceMaterials: the library,
\* and of the materials those the outlines name.
Library ==
  OfKind({"character", "relation", "worldview"})
    \cup {f \in OfKind({"source_material"}) : f.chosen}

\* mapPriorChapters: only adopted chapters are told to the next one.
PriorChapters ==
  {f \in OfKind({"chapter"}) : f.weight < ChapterHere /\ f.status = "completed"}

\* OutlineGenerationService.load: and an outline is told those of the volumes
\* before its own.
PriorVolumes ==
  {f \in OfKind({"chapter"}) : f.volume < VolumeHere /\ f.status = "completed"}

ApprovedMemories == {f \in OfKind({"narrative_memory"}) : f.status = "approved"}

OpenForeshadows ==
  {f \in OfKind({"foreshadow"}) :
     f.status \notin {"revealed", "paid_off", "resolved", "abandoned"}}

\* What is always said of the task, its project and its volume.
Goals == OfKind({"task_instruction", "project_config", "volume_goal"})

\* assembleContextCompilerInput: the summary and the check are of the body; what
\* was written of the present text before an interruption is continued.
ChapterInput ==
  Goals \cup OfKind({"chapter_goal", "continuation"}) \cup Library \cup PriorChapters
    \cup ApprovedMemories \cup OpenForeshadows
    \cup (IF promptOf = "chapter_body" THEN {} ELSE OfKind({"stage_body"}))

\* assembleOutlineCompilerInput
OutlineInput ==
  Goals \cup Library \cup PriorVolumes \cup ApprovedMemories \cup OpenForeshadows

Input == IF promptOf = "outline" THEN OutlineInput ELSE ChapterInput

(***************************************************************************)
(* Strategies                                                              *)
(***************************************************************************)
Scaled(n) == (n + Scale - 1) \div Scale

ChapterBodyStrategy ==
  [allowed |-> {"task_instruction", "project_config", "volume_goal", "chapter_goal",
                "character", "relation", "worldview", "source_material",
                "prior_chapter_summary", "recent_body", "narrative_memory", "foreshadow",
                "continuation"},
   required |-> {"task_instruction", "project_config", "chapter_goal"},
   capacity |-> [character |-> 12, relation |-> 12, worldview |-> 16,
                 source_material |-> 12, prior_chapter_summary |-> 8, recent_body |-> 2,
                 narrative_memory |-> 16, foreshadow |-> 12],
   minRelevance |-> 5, recent |-> 2, summaries |-> 8]

OutlineStrategy ==
  [allowed |-> {"task_instruction", "project_config", "volume_goal", "character",
                "relation", "worldview", "source_material", "prior_chapter_summary",
                "narrative_memory", "foreshadow"},
   required |-> {"task_instruction", "project_config"},
   capacity |-> [character |-> 16, relation |-> 12, worldview |-> 20,
                 source_material |-> 16, prior_chapter_summary |-> 12,
                 narrative_memory |-> 20, foreshadow |-> 16],
   minRelevance |-> 2, recent |-> 0, summaries |-> 12]

SummaryStrategy ==
  [allowed |-> {"task_instruction", "project_config", "chapter_goal", "stage_body",
                "continuation"},
   required |-> {"task_instruction", "stage_body"},
   capacity |-> <<>>, minRelevance |-> 0, recent |-> 0, summaries |-> 0]

FactCheckStrategy ==
  [allowed |-> {"task_instruction", "project_config", "volume_goal", "chapter_goal",
                "source_material", "narrative_memory", "foreshadow", "stage_body",
                "continuation"},
   required |-> {"task_instruction", "chapter_goal", "stage_body"},
   capacity |-> [source_material |-> 12, narrative_memory |-> 16, foreshadow |-> 12],
   minRelevance |-> 2, recent |-> 0, summaries |-> 0]

\* getContextTaskStrategy
Strategy ==
  CASE promptOf = "chapter_body" -> ChapterBodyStrategy
    [] promptOf = "outline" -> OutlineStrategy
    [] promptOf = "summary" -> SummaryStrategy
    [] promptOf = "fact_check" -> FactCheckStrategy

(***************************************************************************)
(* Candidates                                                              *)
(***************************************************************************)
\* Of memories the approved ones are live, of foreshadows those not over.
Live(f) ==
  CASE f.kind = "narrative_memory" -> f.status = "approved"
    [] f.kind = "foreshadow" ->
         f.status \notin {"archived", "cancelled", "resolved", "closed", "dropped"}
    [] OTHER -> TRUE

\* priority and rank by priorityRank; a status that is not active is low.
Rank(f) ==
  CASE f.kind \in {"task_instruction", "project_config", "chapter_goal", "stage_body"} -> 4
    [] ~Live(f) -> 1
    [] f.kind \in {"volume_goal", "character", "recent_body", "continuation"} -> 3
    [] f.kind = "source_material" /\ f.chosen -> 3
    [] f.kind \in {"narrative_memory", "foreshadow"} /\ f.weight >= 70 -> 3
    [] OTHER -> 2

\* A prior chapter gives its synopsis, or else the head of its text, and may give
\* its text.
SynopsisOf(f) == [f EXCEPT !.kind = "prior_chapter_summary", !.weight = 400 + @,
                           !.text = IF f.brief = NoText THEN @ ELSE f.brief]
RecentBodyOf(f) == [f EXCEPT !.kind = "recent_body", !.weight = 600 + @]

CandidatesOf(f) ==
  IF f.kind # "chapter" THEN {f}
  ELSE {c \in {SynopsisOf(f), RecentBodyOf(f)} : c.text # NoText}

Later(a, b) == a.weight > b.weight

\* Relevance, then importance, then the id.
Closer(a, b) ==
  \/ a.relevance > b.relevance
  \/ a.relevance = b.relevance /\ a.weight > b.weight
  \/ a.relevance = b.relevance /\ a.weight = b.weight /\ a.id < b.id

\* c is one of the first n of its kind in S.
Among(c, n, S, First(_, _)) ==
  Cardinality({e \in S : e.kind = c.kind /\ First(e, c)}) < n

Required(c) == c.kind \in Strategy.required \/ Rank(c) = 4

\* buildContextCandidates and buildRecentBodyCandidates: only the latest
\* chapters give their text.
Candidates ==
  LET all == UNION {CandidatesOf(f) : f \in Input}
  IN {c \in all : c.kind = "recent_body" =>
                     /\ "recent_body" \in Strategy.allowed
                     /\ Among(c, Scaled(Strategy.recent), all, Later)}

\* The prior summaries beyond the limit of the strategy.
OverPriorLimit ==
  {c \in Candidates : /\ c.kind = "prior_chapter_summary" /\ Strategy.summaries > 0
                      /\ ~Among(c, Scaled(Strategy.summaries), Candidates, Later)}

Allowed == {c \in Candidates \ OverPriorLimit : c.kind \in Strategy.allowed}

Active == {c \in Allowed : Live(c)}

WithinCapacity ==
  {c \in Active : c.kind \in DOMAIN Strategy.capacity =>
                     Among(c, Scaled(Strategy.capacity[c.kind]), Active, Closer)}

Accepted ==
  {c \in WithinCapacity : Required(c) \/ (c.kind = "source_material" /\ c.chosen)
                            \/ c.relevance >= Strategy.minRelevance}

\* assembleGatedCandidates: why each of the others is left out.
GatedOut ==
  (OverPriorLimit \cup (Active \ WithinCapacity)) \X {"capacity_limit"}
    \cup (Candidates \ (OverPriorLimit \cup Allowed)) \X {"strategy_excluded"}
    \cup (Allowed \ Active) \X {"status_filtered"}
    \cup (WithinCapacity \ Accepted) \X {"below_relevance_threshold"}

\* compareCandidates
Precedes(a, b) == Rank(a) > Rank(b) \/ (Rank(a) = Rank(b) /\ Closer(a, b))

Ordered(S) ==
  [n \in 1..Cardinality(S) |->
     CHOOSE c \in S : Cardinality({e \in S : Precedes(e, c)}) = n - 1]

(***************************************************************************)
(* Tokens                                                                  *)
(***************************************************************************)
Tokens(bytes) == (bytes + 3) \div 4

\* One more text, behind a separator of two bytes.
Extend(sofar, t) ==
  LET run == sofar.run + (IF sofar.first THEN 0 ELSE 2) + t.head
  IN IF t.body = 0 THEN [first |-> FALSE, tokens |-> sofar.tokens, run |-> run]
     ELSE [first |-> FALSE, tokens |-> sofar.tokens + Tokens(run) + t.body, run |-> t.tail]

\* estimateCandidatesJoinedTokens.
NothingYet == [first |-> TRUE, tokens |-> 0, run |-> 0]
Estimates(cs) ==
  LET sofar[n \in 0..Len(cs)] ==
        IF n = 0 THEN NothingYet ELSE Extend(sofar[n - 1], cs[n].text)
  IN sofar
Total(sofar) == sofar.tokens + Tokens(sofar.run)
Joined(cs) == Total(Estimates(cs)[Len(cs)])

(***************************************************************************)
(* compileContext                                                          *)
(***************************************************************************)
CompilerInit ==
  /\ promptOf \in TaskKind
  /\ given \in {(Fact \ Optional) \cup S : S \in SUBSET Optional}
  /\ available \in Budgets
  /\ stage = "gate" /\ queue = <<>> /\ selected = <<>> /\ discarded = {}

Gate ==
  /\ stage = "gate"
  /\ stage' = "required"
  /\ queue' = Ordered(Accepted) /\ discarded' = GatedOut
  /\ UNCHANGED <<promptOf, given, available, selected>>

\* ordered.filter: what is sorted and then chosen is the chosen in order.
RequiredOrdered == Ordered({c \in Accepted : Required(c)})
OptionalOrdered == Ordered({c \in Accepted : ~Required(c)})

\* ContextBudgetExceededError: nothing is selected.
RequiredTooLarge ==
  /\ stage = "required" /\ Joined(RequiredOrdered) > available
  /\ stage' = "failed" /\ queue' = <<>>
  /\ discarded' = discarded \cup (Range(queue) \X {"budget_exhausted"})
  /\ UNCHANGED <<promptOf, given, available, selected>>

TakeRequired ==
  /\ stage = "required" /\ Joined(RequiredOrdered) <= available
  /\ stage' = "optional"
  /\ selected' = RequiredOrdered /\ queue' = OptionalOrdered
  /\ UNCHANGED <<promptOf, given, available, discarded>>

\* A bug to test the properties with: the next text at its own cost, without the
\* separator.
Fits_Alone(c) == Joined(selected) + Joined(<<c>>) <= available

Fits(c) == Joined(Append(selected, c)) <= available

TryOptional ==
  /\ stage = "optional" /\ queue # <<>>
  /\ queue' = Tail(queue)
  /\ IF Fits(Head(queue))
     THEN selected' = Append(selected, Head(queue)) /\ UNCHANGED discarded
     ELSE /\ discarded' = discarded \cup {<<Head(queue), "budget_exhausted">>}
          /\ UNCHANGED selected
  /\ UNCHANGED <<promptOf, given, available, stage>>

\* The prompt is put together; one over the budget is refused
\* (ContextCompilerInvariantError).
Assemble ==
  /\ stage = "optional" /\ queue = <<>>
  /\ stage' = IF Joined(selected) > available THEN "refused" ELSE "compiled"
  /\ UNCHANGED <<promptOf, given, available, queue, selected, discarded>>

CompilerNext == Gate \/ RequiredTooLarge \/ TakeRequired \/ TryOptional \/ Assemble

CompilerSpec == CompilerInit /\ [][CompilerNext]_compileVars

(***************************************************************************)
(* Properties                                                              *)
(***************************************************************************)
CompilerTypeInv ==
  /\ promptOf \in TaskKind /\ given \subseteq Fact /\ available \in Budgets
  /\ stage \in {"gate", "required", "optional", "compiled", "failed", "refused"}
  /\ Range(queue) \subseteq Candidates /\ Range(selected) \subseteq Candidates

LeftOutFor(code) == {p[1] : p \in {d \in discarded : d[2] = code}}

\* The prompt holds the text it is about, and nothing the author has not adopted:
\* of other chapters completed ones alone, no proposal and no spent foreshadow.
\* The compiler's own test of statuses agrees with that of the services: it never
\* drops what they sent.
HoldsWhatIsAdopted ==
  /\ promptOf \in {"summary", "fact_check"} => \E c \in Range(selected) : c.kind = "stage_body"
  /\ \A c \in Range(selected) :
       /\ c.kind \in {"prior_chapter_summary", "recent_body"} => c.status = "completed"
       /\ c.kind \in {"narrative_memory", "foreshadow"} =>
            c.status \in {"approved", "suggested", "planned", "planted", "active"}
  /\ LeftOutFor("status_filtered") = {}

\* The prompt that is compiled costs no more than there is, separators
\* included: the last test of compileContext never fires, as its comment says
\* ("selection used the same join estimator; this must never fire").  Every
\* candidate is either in it or in the trace of what was left out, for one
\* reason; everything required is in it; and what was left out for the budget
\* would not fit now either, though the prompt has grown since it was tried.
PromptIsWellPacked ==
  /\ CompilerTypeInv /\ stage # "refused"
  /\ stage = "compiled" =>
       /\ HoldsWhatIsAdopted
       /\ Joined(selected) <= available
       /\ Len(selected) + Cardinality(discarded) = Cardinality(Candidates)
       /\ Range(selected) = Accepted \ LeftOutFor("budget_exhausted")
       /\ \A c \in LeftOutFor("budget_exhausted") :
            ~Required(c) /\ Joined(Append(selected, c)) > available
=============================================================================
