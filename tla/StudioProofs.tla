---------------------------- MODULE StudioProofs ----------------------------
(***************************************************************************)
(* Proofs about what an author works with: the notes of a chapter come     *)
(* from one run, an outline is only replaced as it was asked for, the      *)
(* agent's changes were agreed, the diary keeps what was chosen, a task    *)
(* only runs again by itself while no call to a model is known of it, what *)
(* a resumed task reads is what was written, and a prompt holds what fits, *)
(* what is required and nothing the author has not adopted.                *)
(***************************************************************************)
EXTENDS NarrativeNotes, AgentTools, OutlineGeneration, Diary, RecoveryFacts,
        StoredTask, ContextCompiler, FiniteSetTheorems, WellFoundedInduction, TLAPS

-----------------------------------------------------------------------------
(* NarrativeNotes                                                          *)

Extraction == [at : {"unasked", "waiting", "answered", "failed"}, of : Notebook,
               run : Asker \cup {0}]
Rows == [Notebook -> SUBSET Note]

NotesTypes ==
  /\ extraction \in [Asker -> Extraction]
  /\ shared \in [Notebook -> Asker \cup {0}]
  /\ notes \in Rows

\* Who waits for a notebook waits for the run its map holds; the notebook of a run
\* in flight has no notes yet.
RunsAreShared ==
  /\ \A q \in Asker : extraction[q].at = "waiting" =>
       shared[extraction[q].of] = extraction[q].run /\ extraction[q].run # 0
  /\ \A b \in Notebook : shared[b] # 0 =>
       /\ notes[b] = {}
       /\ extraction[shared[b]].at = "waiting" /\ extraction[shared[b]].of = b

\* The rows of one reading.
OneReading(rows) ==
  \A m, n \in rows : /\ m.by = n.by /\ (m.item = n.item => m = n)
                     /\ n.memories = 1 <=> n.status = "approved"

NotesInv == NotesTypes /\ RunsAreShared /\ \A b \in Notebook : OneReading(notes[b])

\* What one run inserts is one reading, if it inserts anything.
LEMMA InsertedIsOneReading ==
  ASSUME NEW q \in Asker \cup {0}, NEW k \in 0..MaxItems, q = 0 => k = 0
  PROVE  LET new == [by : {q}, item : 1..k, status : {"proposed"}, memories : {0}] IN
         /\ new \subseteq Note /\ OneReading(new)
         /\ k = 0 => new = {}
<1> DEFINE new == [by : {q}, item : 1..k, status : {"proposed"}, memories : {0}]
<1>1. k \in Nat /\ k <= MaxItems
  BY NotesAssumption
<1>2. k = 0 => new = {}
  <2> SUFFICES ASSUME k = 0, NEW n \in new PROVE FALSE
    OBVIOUS
  <2> QED
    OBVIOUS
<1>3. new \subseteq Note
  BY <1>1, <1>2, NotesAssumption DEF Note
<1>4. OneReading(new)
  BY DEF OneReading
<1> QED
  BY <1>2, <1>3, <1>4

\* The author decides on a row once: it stays of its run, with one memory if
\* approved.
LEMMA DecidedIsOneReading ==
  ASSUME NEW rows \in SUBSET Note, OneReading(rows), NEW n \in rows, n.status = "proposed",
         NEW m, m \in {[n EXCEPT !.status = "approved", !.memories = @ + 1],
                       [n EXCEPT !.status = "rejected"]}
  PROVE  /\ (rows \ {n}) \cup {m} \subseteq Note /\ OneReading((rows \ {n}) \cup {m})
<1>1. n \in Note /\ n.memories = 0
  BY DEF OneReading, Note
<1>2. m \in Note /\ m.by = n.by /\ m.item = n.item /\ (m.memories = 1 <=> m.status = "approved")
  <2>1. CASE m = [n EXCEPT !.status = "approved", !.memories = @ + 1]
    <3>1. m = [n EXCEPT !.status = "approved", !.memories = 1]
      BY <1>1, <2>1
    <3>2. 1 \in 0..1 /\ n \in [by : Asker, item : 1..MaxItems, memories : 0..1,
                              status : {"proposed", "approved", "rejected"}]
      BY <1>1 DEF Note
    <3>3. m \in Note
      BY <3>1, <3>2 DEF Note
    <3>4. m.by = n.by /\ m.item = n.item /\ m.memories = 1 /\ m.status = "approved"
      BY <3>1, <3>2
    <3> QED
      BY <3>3, <3>4
  <2>2. CASE m = [n EXCEPT !.status = "rejected"]
    BY <1>1, <2>2 DEF Note
  <2> QED
    BY <2>1, <2>2
<1> QED
  BY <1>1, <1>2 DEF OneReading

\* What a step of the requests does to the three maps, seen from one notebook.
LEMMA NotesStep == NotesInv /\ [NotesNext]_noteVars => NotesInv'
<1> SUFFICES ASSUME NotesInv, [NotesNext]_noteVars PROVE NotesInv'
  OBVIOUS
<1> USE NotesAssumption
<1>i. NotesTypes /\ RunsAreShared /\ \A b \in Notebook : OneReading(notes[b])
  BY DEF NotesInv
<1>1. ASSUME NEW q \in Asker, AskForNotes(q) PROVE NotesInv'
  <2> DEFINE b == extraction[q].of
  <2>0. b \in Notebook /\ extraction[q] \in Extraction /\ notes' = notes
        /\ extraction[q].at = "unasked"
    BY <1>1, <1>i DEF AskForNotes, NotesTypes, Extraction
  <2>1. CASE shared[b] # 0 /\ Joins(q, shared[b]) /\ UNCHANGED shared
    <3>1. /\ extraction' \in [Asker -> Extraction] /\ extraction'[q].at = "waiting"
          /\ extraction'[q].of = b /\ extraction'[q].run = shared[b]
          /\ \A p \in Asker \ {q} : extraction'[p] = extraction[p]
      BY <2>0, <2>1, <1>i DEF Joins, NotesTypes, Extraction
    <3>2. NotesTypes'
      BY <2>0, <2>1, <3>1, <1>i DEF NotesTypes
    <3>3. RunsAreShared'
      BY <2>0, <2>1, <3>1, <1>i DEF RunsAreShared, NotesTypes
    <3> QED
      BY <2>0, <3>2, <3>3, <1>i DEF NotesInv
  <2>2. CASE /\ extraction' = [extraction EXCEPT ![q].at = "answered"] /\ UNCHANGED shared
    <3>1. /\ extraction' \in [Asker -> Extraction] /\ extraction'[q].at = "answered"
          /\ \A p \in Asker \ {q} : extraction'[p] = extraction[p]
      BY <2>0, <2>2, <1>i DEF NotesTypes, Extraction
    <3>2. NotesTypes'
      BY <2>0, <2>2, <3>1, <1>i DEF NotesTypes
    <3>3. RunsAreShared'
      BY <2>0, <2>2, <3>1, <1>i DEF RunsAreShared, NotesTypes
    <3> QED
      BY <2>0, <3>2, <3>3, <1>i DEF NotesInv
  <2>3. CASE shared[b] = 0 /\ notes[b] = {} /\ Joins(q, q) /\ shared' = [shared EXCEPT ![b] = q]
    <3>1. /\ extraction' \in [Asker -> Extraction] /\ extraction'[q].at = "waiting"
          /\ extraction'[q].of = b /\ extraction'[q].run = q
          /\ \A p \in Asker \ {q} : extraction'[p] = extraction[p]
      BY <2>0, <2>3, <1>i DEF Joins, NotesTypes, Extraction
    <3>2. NotesTypes' /\ shared'[b] = q /\ \A c \in Notebook \ {b} : shared'[c] = shared[c]
      BY <2>0, <2>3, <3>1, <1>i DEF NotesTypes
    <3>3. RunsAreShared'
      BY <2>0, <2>3, <3>1, <3>2, <1>i DEF RunsAreShared, NotesTypes
    <3> QED
      BY <2>0, <3>2, <3>3, <1>i DEF NotesInv
  <2> QED
    BY <1>1, <2>1, <2>2, <2>3 DEF AskForNotes, RunOf
<1>2. ASSUME NEW q \in Asker, RunEnds(q) PROVE NotesInv'
  <2> DEFINE b == extraction[q].of
  <2>0. /\ b \in Notebook /\ extraction[q].at = "waiting" /\ extraction[q].run = q /\ q # 0
        /\ shared[b] = q /\ notes[b] = {}
    BY <1>2, <1>i DEF RunEnds, NotesTypes, Extraction, RunsAreShared
  <2>1. PICK found \in 0..MaxItems : \E inserted \in 0..found :
          /\ notes' = [notes EXCEPT ![b] = @ \cup
                         [by : {q}, item : 1..inserted, status : {"proposed"}, memories : {0}]]
          /\ extraction' = [p \in Asker |->
               IF extraction[p].at = "waiting" /\ extraction[p].run = q
               THEN [extraction[p] EXCEPT !.at = IF inserted = found THEN "answered" ELSE "failed"]
               ELSE extraction[p]]
    BY <1>2 DEF RunEnds
  <2>2. PICK inserted \in 0..found :
          /\ notes' = [notes EXCEPT ![b] = @ \cup
                         [by : {q}, item : 1..inserted, status : {"proposed"}, memories : {0}]]
          /\ extraction' = [p \in Asker |->
               IF extraction[p].at = "waiting" /\ extraction[p].run = q
               THEN [extraction[p] EXCEPT !.at = IF inserted = found THEN "answered" ELSE "failed"]
               ELSE extraction[p]]
    BY <2>1
  <2> DEFINE new == [by : {q}, item : 1..inserted, status : {"proposed"}, memories : {0}]
  <2>3. new \subseteq Note /\ OneReading(new)
    BY <2>0, InsertedIsOneReading
  <2>4. notes' \in Rows /\ notes'[b] = new /\ \A c \in Notebook \ {b} : notes'[c] = notes[c]
    <3>1. notes' = [notes EXCEPT ![b] = notes[b] \cup new]
      BY <2>2
    <3> HIDE DEF new
    <3> QED
      BY <2>0, <2>3, <3>1, <1>i DEF NotesTypes, Rows
  <2>5. /\ shared' \in [Notebook -> Asker \cup {0}] /\ shared'[b] = 0
        /\ \A c \in Notebook \ {b} : shared'[c] = shared[c]
    BY <1>2, <2>0, <1>i DEF RunEnds, NotesTypes
  <2>6. /\ extraction' \in [Asker -> Extraction]
        /\ \A p \in Asker : extraction[p].at = "waiting" /\ extraction[p].run = q
                              => extraction'[p].at # "waiting"
        /\ \A p \in Asker : ~ (extraction[p].at = "waiting" /\ extraction[p].run = q)
                              => extraction'[p] = extraction[p]
    BY <2>2, <1>i DEF NotesTypes, Extraction
  <2>7. NotesTypes'
    BY <2>4, <2>5, <2>6 DEF NotesTypes
  <2>8. RunsAreShared'
    <3>1. ASSUME NEW p \in Asker, extraction'[p].at = "waiting"
          PROVE  shared'[extraction'[p].of] = extraction'[p].run /\ extraction'[p].run # 0
      <4>1. extraction'[p] = extraction[p] /\ extraction[p].run # q
        BY <3>1, <2>6
      <4>2. extraction[p].of # b /\ extraction[p].of \in Notebook
        BY <4>1, <3>1, <2>0, <1>i DEF RunsAreShared, NotesTypes, Extraction
      <4> QED
        BY <4>1, <4>2, <3>1, <2>5, <1>i DEF RunsAreShared
    <3>2. ASSUME NEW c \in Notebook, shared'[c] # 0
          PROVE  /\ notes'[c] = {} /\ extraction'[shared'[c]].at = "waiting"
                 /\ extraction'[shared'[c]].of = c
      <4>1. c # b /\ shared'[c] = shared[c] /\ shared[c] \in Asker /\ notes'[c] = {}
        BY <3>2, <2>0, <2>4, <2>5, <1>i DEF RunsAreShared, NotesTypes
      <4>2. extraction[shared[c]].at = "waiting" /\ extraction[shared[c]].of = c
        BY <4>1, <3>2, <1>i DEF RunsAreShared
      <4>3. extraction[shared[c]].run = shared[c] /\ shared[c] # q
        BY <4>1, <4>2, <2>0, <1>i DEF RunsAreShared
      <4> QED
        BY <4>1, <4>2, <4>3, <2>6
    <3> QED
      BY <3>1, <3>2 DEF RunsAreShared
  <2> QED
    BY <2>0, <2>3, <2>4, <2>7, <2>8, <1>i DEF NotesInv
<1>3. ASSUME NEW b \in Notebook, NEW n \in notes[b], ApproveNote(b, n) \/ RejectNote(b, n)
      PROVE  NotesInv'
  <2>1. PICK m \in {[n EXCEPT !.status = "approved", !.memories = @ + 1],
                    [n EXCEPT !.status = "rejected"]} : Replaces(b, n, m)
    BY <1>3 DEF ApproveNote, RejectNote
  <2>2. n.status = "proposed" /\ UNCHANGED <<extraction, shared>> /\ notes[b] \in SUBSET Note
    BY <1>3, <1>i DEF ApproveNote, RejectNote, NotesTypes, Rows
  <2>3. /\ (notes[b] \ {n}) \cup {m} \subseteq Note
        /\ OneReading((notes[b] \ {n}) \cup {m})
    BY <2>1, <2>2, <1>i, DecidedIsOneReading
  <2>4. /\ notes' \in Rows /\ notes'[b] = (notes[b] \ {n}) \cup {m}
        /\ \A c \in Notebook \ {b} : notes'[c] = notes[c]
    BY <2>1, <2>3, <1>i DEF Replaces, NotesTypes, Rows
  <2>5. NotesTypes'
    BY <2>2, <2>4, <1>i DEF NotesTypes
  <2>6. shared[b] = 0
    BY <1>i, <1>3 DEF RunsAreShared
  <2>7. RunsAreShared'
    BY <2>2, <2>4, <2>6, <1>i DEF RunsAreShared
  <2>8. \A c \in Notebook : OneReading(notes'[c])
    BY <2>3, <2>4, <1>i
  <2> QED
    BY <2>5, <2>7, <2>8 DEF NotesInv
<1>4. CASE NotesCrash
  <2>1. PICK partial \in [Notebook -> 0..MaxItems] :
          /\ \A b \in Notebook : shared[b] = 0 => partial[b] = 0
          /\ notes' = [b \in Notebook |-> notes[b] \cup
               [by : {shared[b]}, item : 1..partial[b], status : {"proposed"}, memories : {0}]]
    BY <1>4 DEF NotesCrash
  <2>2. ASSUME NEW b \in Notebook PROVE notes'[b] \subseteq Note /\ OneReading(notes'[b])
    <3> DEFINE new == [by : {shared[b]}, item : 1..partial[b], status : {"proposed"},
                       memories : {0}]
    <3>1. shared[b] \in Asker \cup {0} /\ partial[b] \in 0..MaxItems
          /\ (shared[b] = 0 => partial[b] = 0)
      BY <2>1, <1>i DEF NotesTypes
    <3>2. new \subseteq Note /\ OneReading(new) /\ (partial[b] = 0 => new = {})
      BY <3>1, InsertedIsOneReading
    <3>3. notes'[b] = notes[b] \cup new
      BY <2>1
    <3>4. notes'[b] = new \/ notes'[b] = notes[b]
      <4> HIDE DEF new
      <4> QED
        BY <2>2, <3>1, <3>2, <3>3, <1>i DEF RunsAreShared
    <3>5. notes[b] \subseteq Note /\ OneReading(notes[b])
      BY <1>i DEF NotesTypes, Rows
    <3> HIDE DEF new
    <3> QED
      BY <3>2, <3>4, <3>5
  <2>3. notes' \in Rows
    <3>1. notes' = [b \in Notebook |-> notes'[b]]
      BY <2>1
    <3> QED
      BY <2>2, <3>1 DEF Rows
  <2>4. /\ extraction' \in [Asker -> Extraction]
        /\ \A q \in Asker : extraction'[q].at # "waiting"
    BY <1>4, <1>i DEF NotesCrash, NotesTypes, Extraction
  <2>5. shared' = [b \in Notebook |-> 0]
    BY <1>4 DEF NotesCrash
  <2>6. NotesTypes' /\ RunsAreShared'
    BY <2>3, <2>4, <2>5 DEF NotesTypes, RunsAreShared
  <2> QED
    BY <2>2, <2>6 DEF NotesInv
<1>5. CASE UNCHANGED noteVars
  BY <1>5, <1>i DEF noteVars, NotesInv, NotesTypes, RunsAreShared
<1> QED
  BY <1>1, <1>2, <1>3, <1>4, <1>5 DEF NotesNext

\* narrativeWorkbench/service.ts: the notes of a chapter come from one reading of it
\* by the model, however requests overlap, inserts fail and the author decides.
THEOREM NotesAreOfOneRun == NotesSpec => []NotesComeFromOneRun
<1>1. NotesInit => NotesInv
  <2> SUFFICES ASSUME NotesInit PROVE NotesInv
    OBVIOUS
  <2>1. extraction \in [Asker -> Extraction] /\ \A q \in Asker : extraction[q].at = "unasked"
    BY DEF NotesInit, Extraction
  <2> QED
    BY <2>1 DEF NotesInit, NotesInv, NotesTypes, RunsAreShared, OneReading, Rows
<1>2. NotesInv => NotesComeFromOneRun
  BY DEF NotesInv, NotesTypes, Rows, Extraction, OneReading, NotesComeFromOneRun, NotesTypeInv
<1> QED
  BY <1>1, <1>2, NotesStep, PTL DEF NotesSpec

-----------------------------------------------------------------------------
(* AgentTools                                                              *)

CallAt == {"made", "asking", "running", "ran", "blocked"}
UnderWay == {"asking", "running"}
ToolAction == UNION {ActionOf(tool) : tool \in Tool}

ToolsTypes ==
  /\ called \in [ToolCall -> [tool : Tool, action : ToolAction, at : CallAt]]
  /\ \A c \in ToolCall : called[c].action \in ActionOf(called[c].tool)

\* Two calls are under way together only where all the calls are parallel.
ActiveTogether ==
  \A c, d \in ToolCall :
    c # d /\ called[c].at \in UnderWay /\ called[d].at \in UnderWay =>
      \A e \in ToolCall : RunsParallel(called[e].tool)

ToolsInv == ToolsTypes /\ ActiveTogether

\* permissions.ts: the tools there are, and what each policy says.
LEMMA TheTools ==
  /\ Tool = {"novel_context", "chapter_context", "outline_manager", "narrative_manager",
             "creative_task", "crush_manager", "fragment_manager", "day_writer"}
  /\ \A tool \in Tool : RunsParallel(tool) => tool \in {"novel_context", "chapter_context"}
BY DEF Tool, ToolPolicies, ToolPolicy, RunsParallel, PolicyMayMutate, HasResolver

\* A tool that may run beside others changes nothing, whatever it is asked for.
LEMMA ParallelToolsRead ==
  ASSUME NEW tool \in Tool, NEW action \in ActionOf(tool), RunsParallel(tool)
  PROVE  ToolEffects[tool][action] = "none"
BY TheTools DEF ActionOf, ToolEffects

\* Every action that changes the novel or deletes from the diary asks first.
LEMMA ChangesAsk ==
  ASSUME NEW tool \in Tool, NEW action \in ActionOf(tool),
         ToolEffects[tool][action] \in {"novel", "deletion"}
  PROVE  RequiresToolConfirmation(ToolCallRisk(tool, action), ToolPolicies[tool])
<1>1. CASE tool \in {"novel_context", "chapter_context", "day_writer"}
  BY <1>1 DEF ActionOf, ToolEffects
<1>2. CASE tool = "outline_manager"
  BY <1>2 DEF ActionOf, ToolEffects, ToolPolicies, ToolPolicy, RequiresToolConfirmation
<1>3. CASE tool = "narrative_manager"
  BY <1>3 DEF ActionOf, ToolEffects, RequiresToolConfirmation, ToolCallRisk, NarrativeToolRisk
<1>4. CASE tool = "creative_task"
  BY <1>4 DEF RequiresToolConfirmation, ToolCallRisk
<1>5. CASE tool = "crush_manager"
  BY <1>5 DEF ActionOf, ToolEffects, RequiresToolConfirmation, ToolCallRisk, CrushToolRisk
<1>6. CASE tool = "fragment_manager"
  BY <1>6 DEF ActionOf, ToolEffects, RequiresToolConfirmation, ToolCallRisk, FragmentToolRisk
<1> QED
  BY <1>1, <1>2, <1>3, <1>4, <1>5, <1>6, TheTools

\* A call goes on: its tool and action stay.
LEMMA CallMoves ==
  ASSUME ToolsTypes, NEW c \in ToolCall, NEW at \in CallAt, CallGoes(c, at)
  PROVE  /\ ToolsTypes' /\ called'[c].at = at
         /\ \A d \in ToolCall : /\ called'[d].tool = called[d].tool
                                /\ called'[d].action = called[d].action
                                /\ d # c => called'[d].at = called[d].at
<1>1. /\ called' \in [ToolCall -> [tool : Tool, action : ToolAction, at : CallAt]]
      /\ called'[c].at = at /\ called'[c].tool = called[c].tool
      /\ called'[c].action = called[c].action
      /\ \A d \in ToolCall \ {c} : called'[d] = called[d]
  BY DEF ToolsTypes, CallGoes
<1> QED
  BY <1>1 DEF ToolsTypes

\* A call begins alone or where all are parallel; the others only end.
LEMMA ToolsStep == ToolsInv /\ [ToolsNext]_toolVars => ToolsInv'
<1> SUFFICES ASSUME ToolsInv, [ToolsNext]_toolVars PROVE ToolsInv'
  OBVIOUS
<1>i. ToolsTypes /\ ActiveTogether
  BY DEF ToolsInv
<1>1. ASSUME NEW c \in ToolCall, NEW at \in CallAt, CallGoes(c, at),
             at \in UnderWay => called[c].at \in UnderWay \/ MayBegin(c)
      PROVE  ToolsInv'
  <2>1. /\ ToolsTypes' /\ called'[c].at = at
        /\ \A d \in ToolCall : /\ called'[d].tool = called[d].tool
                               /\ d # c => called'[d].at = called[d].at
    BY <1>1, <1>i, CallMoves
  <2>2. ActiveTogether'
    BY <1>1, <2>1, <1>i DEF ActiveTogether, MayBegin, UnderWay
  <2> QED
    BY <2>1, <2>2 DEF ToolsInv
<1>2. ASSUME NEW c \in ToolCall, BeginCall(c) PROVE ToolsInv'
  <2>1. MayBegin(c) /\ \E at \in {"blocked", "running", "asking"} : CallGoes(c, at)
    BY <1>2, Zenon DEF BeginCall
  <2> QED
    BY <1>1, <2>1 DEF CallAt
<1>3. ASSUME NEW c \in ToolCall, HookGoesOn(c) \/ EndCall(c) PROVE ToolsInv'
  <2>1. /\ called[c].at \in UnderWay
        /\ \E at \in {"blocked", "running", "ran"} : CallGoes(c, at)
    BY <1>3 DEF HookGoesOn, EndCall, UnderWay
  <2> QED
    BY <1>1, <2>1 DEF CallAt
<1>4. ASSUME UNCHANGED called PROVE ToolsInv'
  BY <1>4, <1>i DEF ToolsInv, ToolsTypes, ActiveTogether
<1> QED
  BY <1>2, <1>3, <1>4 DEF ToolsNext, AnswerCall, StopTools, toolVars

\* A call begins to run only as ChangesWereAgreed says.
LEMMA RunsAsAgreed ==
  ASSUME ToolsInv, [ToolsNext]_toolVars, NEW c \in ToolCall,
         called[c].at # "running", called'[c].at = "running"
  PROVE  /\ ~toolsStopped
         /\ EffectOf(c) \in {"novel", "deletion"} => agreed[c] = "yes"
         /\ \A d \in ToolCall \ {c} :
              called[d].at = "running" => {EffectOf(c), EffectOf(d)} = {"none"}
<1>i. ToolsTypes /\ ActiveTogether
  BY DEF ToolsInv
<1>1. \A d \in ToolCall : called[d].tool \in Tool /\ called[d].action \in ActionOf(called[d].tool)
                         /\ called[d].at \in CallAt
  BY <1>i DEF ToolsTypes
<1>2. ASSUME NEW d \in ToolCall, NEW at \in CallAt, CallGoes(d, at)
      PROVE  d = c /\ at = "running"
  BY <1>2, <1>i, CallMoves
<1>3. ASSUME NEW d \in ToolCall, BeginCall(d)
      PROVE  /\ d = c /\ MayBegin(c) /\ ~toolsStopped
             /\ ~RequiresToolConfirmation(ToolCallRisk(called[c].tool, called[c].action),
                                          ToolPolicies[called[c].tool])
  <2> DEFINE asks == RequiresToolConfirmation(ToolCallRisk(called[d].tool, called[d].action),
                                              ToolPolicies[called[d].tool])
  <2>1. /\ MayBegin(d)
        /\ \/ CallGoes(d, "blocked") \/ CallGoes(d, "asking")
           \/ ~toolsStopped /\ ~asks /\ CallGoes(d, "running")
    BY <1>3, Zenon DEF BeginCall
  <2>2. {"blocked", "asking", "running"} \subseteq CallAt
    BY DEF CallAt
  <2> HIDE DEF asks
  <2>3. d = c /\ MayBegin(d) /\ ~toolsStopped /\ ~asks
    BY <2>1, <2>2, <1>2
  <2> QED
    BY <2>3 DEF asks
<1>4. ASSUME NEW d \in ToolCall, HookGoesOn(d)
      PROVE  d = c /\ called[c].at = "asking" /\ ~toolsStopped /\ agreed[c] = "yes"
  BY <1>4, <1>2 DEF HookGoesOn, CallAt
<1>5. ASSUME NEW d \in ToolCall, EndCall(d) PROVE FALSE
  BY <1>5, <1>2 DEF EndCall, CallAt
<1>6. called' # called
  OBVIOUS
<1>7. \/ \E d \in ToolCall : BeginCall(d)
      \/ \E d \in ToolCall : HookGoesOn(d)
  BY <1>5, <1>6 DEF ToolsNext, AnswerCall, StopTools, toolVars
<1>8. ~toolsStopped /\ (EffectOf(c) \in {"novel", "deletion"} => agreed[c] = "yes")
  BY <1>1, <1>3, <1>4, <1>7, ChangesAsk DEF EffectOf
<1>9. ASSUME NEW d \in ToolCall \ {c}, called[d].at = "running"
      PROVE  {EffectOf(c), EffectOf(d)} = {"none"}
  <2>1. \A e \in ToolCall : RunsParallel(called[e].tool)
    BY <1>3, <1>4, <1>7, <1>9, <1>i DEF MayBegin, ActiveTogether, UnderWay
  <2>2. EffectOf(c) = "none" /\ EffectOf(d) = "none"
    BY <1>1, <2>1, ParallelToolsRead DEF EffectOf
  <2> QED
    BY <2>2
<1> QED
  BY <1>8, <1>9

\* agent/permissions.ts: a call runs only before its prompt is stopped, one that
\* changes the novel or deletes from the diary only after the user agreed to that
\* very call, and no other call beside it.
THEOREM ChangesAreAgreed == ToolsSpec => ChangesWereAgreed
<1>1. ToolsInit => ToolsInv
  <2> SUFFICES ASSUME ToolsInit PROVE ToolsInv
    OBVIOUS
  <2>1. ASSUME NEW c \in ToolCall
        PROVE  /\ called[c] \in [tool : Tool, action : ToolAction, at : CallAt]
               /\ called[c].action \in ActionOf(called[c].tool) /\ called[c].at = "made"
    <3>u. PICK use \in UNION {{t} \X ActionOf(t) : t \in ToolsOf(agentOf)} :
            called[c] = [tool |-> use[1], action |-> use[2], at |-> "made"]
      BY DEF ToolsInit
    <3>t. PICK t \in ToolsOf(agentOf) : use \in {t} \X ActionOf(t)
      BY <3>u
    <3> DEFINE a == use[2]
    <3>1. a \in ActionOf(t) /\ called[c] = [tool |-> t, action |-> a, at |-> "made"]
      BY <3>u, <3>t
    <3>2. t \in Tool
      BY <3>1, TheTools DEF ToolsOf, DefaultTool
    <3>3. a \in ToolAction
      BY <3>1, <3>2 DEF ToolAction
    <3> QED
      BY <3>1, <3>2, <3>3 DEF CallAt
  <2>2. called = [c \in ToolCall |-> called[c]]
    BY DEF ToolsInit
  <2> QED
    BY <2>1, <2>2 DEF ToolsInv, ToolsTypes, ActiveTogether, UnderWay
<1>2. ToolsInv /\ [ToolsNext]_toolVars =>
        [\A c \in ToolCall :
           (called[c].at # "running" /\ called'[c].at = "running") =>
             /\ ~toolsStopped
             /\ EffectOf(c) \in {"novel", "deletion"} => agreed[c] = "yes"
             /\ \A d \in ToolCall \ {c} :
                  called[d].at = "running" => {EffectOf(c), EffectOf(d)} = {"none"}]_toolVars
  BY RunsAsAgreed
<1> QED
  BY <1>1, <1>2, ToolsStep, PTL DEF ToolsSpec, ChangesWereAgreed

-----------------------------------------------------------------------------
(* OutlineGeneration                                                       *)

Sourced == [version : 0..MaxRevisions, facts : BOOLEAN]
DraftAt == {"queued", "compiling", "starting", "asking", "validating", "applying",
            "finishing", "completed", "failed", "cancelled"}
DraftState == [at : DraftAt, source : Sourced]
SavedDraft == [stage : {"none", "prepared", "model", "ready", "applied"}, source : Sourced,
               version : 0..MaxRevisions]
OutlineRow == [status : {"draft", "confirmed", "locked"}, version : 1..MaxRevisions,
               text : Drafter \cup {Author}, task : Drafter \cup {Author}]

OutlineTypes ==
  /\ outline \in OutlineRow /\ facts \in BOOLEAN
  /\ draft \in [Drafter -> DraftState]
  /\ saved \in [Drafter -> SavedDraft]
  /\ asked \in [Drafter -> Sourced]

\* What a runner goes on from, given its place, its checkpoint and the snapshot its
\* model was asked about: an answer in the checkpoint is the answer to the snapshot
\* in the checkpoint.
GoesOnFrom(d, c, a) ==
  /\ c.stage # "applied" => c.version = 0
  /\ c.stage = "ready" => a = c.source
  /\ d.at = "starting" => c.stage \in {"prepared", "model"} /\ d.source = c.source
  /\ d.at = "asking" => c.stage = "model" /\ a = c.source
  /\ d.at \in {"validating", "applying"} => c.stage = "ready"

OutlineInv ==
  OutlineTypes /\ \A t \in Drafter : GoesOnFrom(draft[t], saved[t], asked[t])

\* A snapshot of now is one.
LEMMA SourcesAreTyped ==
  ASSUME OutlineTypes, NEW t \in Drafter
  PROVE  /\ Sources(t) \in Sourced /\ NothingRead \in Sourced
         /\ draft[t] \in DraftState /\ draft[t].source \in Sourced
         /\ saved[t] \in SavedDraft /\ saved[t].source \in Sourced /\ asked[t] \in Sourced
<1>1. /\ draft[t] \in DraftState /\ saved[t] \in SavedDraft /\ asked[t] \in Sourced
      /\ MaxRevisions \in Nat
  BY OutlineAssumption DEF OutlineTypes
<1>2. draft[t].source \in Sourced /\ saved[t].source \in Sourced
  BY <1>1 DEF DraftState, SavedDraft
<1>3. outline.version \in 0..MaxRevisions /\ saved[t].source.version \in 0..MaxRevisions
  BY <1>1, <1>2 DEF OutlineTypes, OutlineRow, Sourced
<1>4. NothingRead \in Sourced
  BY <1>1 DEF NothingRead, Sourced
<1>5. Sources(t) \in Sourced
  BY <1>3 DEF Sources, Sourced, OutlineTypes
<1> QED
  BY <1>1, <1>2, <1>4, <1>5

\* The runner of a task moves: its place and its checkpoint, and no other's.
LEMMA RunnerMoves ==
  ASSUME OutlineInv, NEW t \in Drafter, NEW at \in DraftAt, NEW source \in Sourced,
         DraftGoes(t, at, source), NEW c \in SavedDraft, Save(t, c),
         NEW a \in Sourced, asked' = [asked EXCEPT ![t] = a],
         outline' \in OutlineRow, facts' = facts,
         GoesOnFrom([at |-> at, source |-> source], c, a)
  PROVE  /\ OutlineInv' /\ saved'[t] = c
         /\ \A u \in Drafter \ {t} : saved'[u] = saved[u]
<1>1. /\ draft'[t] = [at |-> at, source |-> source] /\ saved'[t] = c /\ asked'[t] = a
      /\ \A u \in Drafter \ {t} : /\ draft'[u] = draft[u] /\ saved'[u] = saved[u]
                                   /\ asked'[u] = asked[u]
  BY DEF OutlineInv, OutlineTypes, DraftGoes, Save
<1>2. [at |-> at, source |-> source] \in DraftState
  BY DEF DraftState
<1>3. OutlineTypes'
  BY <1>2 DEF OutlineInv, OutlineTypes, DraftGoes, Save
<1>4. \A u \in Drafter : GoesOnFrom(draft'[u], saved'[u], asked'[u])
  BY <1>1 DEF OutlineInv
<1> QED
  BY <1>1, <1>3, <1>4 DEF OutlineInv, GoesOnFrom

\* The same, where the checkpoint and what was asked stay.
LEMMA RunnerGoes ==
  ASSUME OutlineInv, NEW t \in Drafter, NEW at \in DraftAt, NEW source \in Sourced,
         DraftGoes(t, at, source), UNCHANGED <<outline, facts, saved, asked>>,
         at \notin {"starting", "asking", "validating", "applying"}
           \/ GoesOnFrom([at |-> at, source |-> source], saved[t], asked[t])
  PROVE  OutlineInv'
<1>1. saved[t] \in SavedDraft /\ asked[t] \in Sourced /\ outline' \in OutlineRow
  BY SourcesAreTyped DEF OutlineInv, OutlineTypes
<1>2. Save(t, saved[t]) /\ asked' = [asked EXCEPT ![t] = asked[t]]
  BY DEF Save, OutlineInv, OutlineTypes
<1>3. GoesOnFrom([at |-> at, source |-> source], saved[t], asked[t])
  BY DEF OutlineInv, GoesOnFrom
<1> QED
  BY <1>1, <1>2, <1>3, RunnerMoves

\* What every step of a runner keeps, and what it may write.
LEMMA RunnerSteps ==
  ASSUME OutlineInv, NEW t \in Drafter,
         \/ Prepare(t) \/ ContextCompiled(t) \/ OverBudget(t) \/ AskModel(t)
         \/ ModelAnswers(t) \/ Validated(t) \/ ReportOutline(t) \/ StopDraft(t)
  PROVE  /\ OutlineInv' /\ outline' = outline
         /\ \A u \in Drafter : saved'[u].version = saved[u].version
<1>t. /\ Sources(t) \in Sourced /\ NothingRead \in Sourced
      /\ draft[t] \in DraftState /\ draft[t].source \in Sourced
      /\ saved[t] \in SavedDraft /\ saved[t].source \in Sourced /\ asked[t] \in Sourced
      /\ outline \in OutlineRow
  BY SourcesAreTyped DEF OutlineInv, OutlineTypes
<1>i. GoesOnFrom(draft[t], saved[t], asked[t])
  BY DEF OutlineInv
<1>a. asked = [asked EXCEPT ![t] = asked[t]]
  BY DEF OutlineInv, OutlineTypes
<1>1. ASSUME NEW at \in DraftAt, NEW source \in Sourced, DraftGoes(t, at, source),
             UNCHANGED <<outline, facts, saved, asked>>,
             at \notin {"starting", "asking", "validating", "applying"}
               \/ GoesOnFrom([at |-> at, source |-> source], saved[t], asked[t])
      PROVE  /\ OutlineInv' /\ outline' = outline
             /\ \A u \in Drafter : saved'[u].version = saved[u].version
  BY <1>1, RunnerGoes
<1>2. CASE Prepare(t) \/ ReportOutline(t) \/ StopDraft(t)
  <2>1. UNCHANGED <<outline, facts, saved, asked>>
    BY <1>2 DEF Prepare, ReportOutline, StopDraft, Refuses
  <2>2. \/ DraftGoes(t, "compiling", Sources(t)) \/ DraftGoes(t, "failed", NothingRead)
        \/ DraftGoes(t, "completed", NothingRead) \/ DraftGoes(t, "cancelled", NothingRead)
    BY <1>2 DEF Prepare, ReportOutline, StopDraft, Refuses, DraftEnds
  <2> QED
    BY <1>1, <1>t, <2>1, <2>2 DEF DraftAt
<1>3. ASSUME NEW at \in DraftAt, NEW source \in Sourced, DraftGoes(t, at, source),
             NEW c \in SavedDraft, Save(t, c), c.version = saved[t].version,
             NEW a \in Sourced, asked' = [asked EXCEPT ![t] = a],
             UNCHANGED <<outline, facts>>,
             GoesOnFrom([at |-> at, source |-> source], c, a)
      PROVE  /\ OutlineInv' /\ outline' = outline
             /\ \A u \in Drafter : saved'[u].version = saved[u].version
  <2>1. /\ OutlineInv' /\ saved'[t] = c
        /\ \A u \in Drafter \ {t} : saved'[u] = saved[u]
    BY <1>3, <1>t, RunnerMoves
  <2> QED
    BY <1>3, <2>1
<1>c. /\ saved[t].version \in 0..MaxRevisions
      /\ \A s \in {"none", "prepared", "model", "ready", "applied"} :
           /\ [saved[t] EXCEPT !.stage = s] \in SavedDraft
           /\ [saved[t] EXCEPT !.stage = s].source = saved[t].source
           /\ [saved[t] EXCEPT !.stage = s].version = saved[t].version
           /\ [saved[t] EXCEPT !.stage = s].stage = s
  BY <1>t DEF SavedDraft
<1>p. ASSUME saved[t].stage = "none"
      PROVE  /\ saved[t].version = 0
             /\ [stage |-> "prepared", source |-> draft[t].source, version |-> 0] \in SavedDraft
  BY <1>p, <1>t, <1>i, <1>c DEF SavedDraft, GoesOnFrom
<1>4. CASE ContextCompiled(t)
  <2>1. CASE Refuses(t) /\ UNCHANGED <<outline, facts>>
    BY <2>1, <1>1, <1>t DEF Refuses, DraftEnds, DraftAt
  <2> DEFINE c == IF saved[t].stage = "none"
                  THEN [stage |-> "prepared", source |-> draft[t].source, version |-> 0]
                  ELSE saved[t]
  <2>2. CASE StillTheSame(t)
    <3>1. /\ Save(t, c) /\ UNCHANGED <<outline, facts, asked>>
          /\ \/ saved[t].stage = "applied" /\ DraftGoes(t, "finishing", NothingRead)
             \/ saved[t].stage = "ready" /\ DraftGoes(t, "validating", Sources(t))
             \/ /\ saved[t].stage \in {"none", "prepared", "model"}
                /\ DraftGoes(t, "starting", draft[t].source)
      BY <1>4, <2>2, <1>t DEF ContextCompiled, SavedDraft
    <3>2. c \in SavedDraft /\ c.version = saved[t].version
      BY <1>p, <1>t
    <3>3. saved[t].stage \in {"prepared", "model"} => saved[t].source = draft[t].source
      BY <2>2 DEF StillTheSame, SourcesAgree
    <3>4. saved[t].stage = "none" =>
            c.stage = "prepared" /\ c.source = draft[t].source /\ c.version = 0
      OBVIOUS
    <3>5. saved[t].stage # "none" => c = saved[t]
      OBVIOUS
    <3> HIDE DEF c
    <3>6. PICK at \in DraftAt, source \in Sourced :
            DraftGoes(t, at, source) /\ GoesOnFrom([at |-> at, source |-> source], c, asked[t])
      <4>1. GoesOnFrom([at |-> "finishing", source |-> NothingRead], saved[t], asked[t])
        BY <1>i DEF GoesOnFrom
      <4>2. saved[t].stage = "ready" =>
              GoesOnFrom([at |-> "validating", source |-> Sources(t)], saved[t], asked[t])
        BY <1>i DEF GoesOnFrom
      <4>3. saved[t].stage \in {"none", "prepared", "model"} =>
              GoesOnFrom([at |-> "starting", source |-> draft[t].source], c, asked[t])
        BY <1>i, <3>3, <3>4, <3>5 DEF GoesOnFrom
      <4> QED
        BY <3>1, <3>5, <4>1, <4>2, <4>3, <1>t DEF DraftAt
    <3> QED
      BY <1>3, <1>a, <1>t, <3>1, <3>2, <3>6
  <2> QED
    BY <1>4, <2>1, <2>2 DEF ContextCompiled
<1>5. CASE OverBudget(t)
  <2>1. UNCHANGED <<outline, facts, asked>> /\ DraftGoes(t, "failed", NothingRead)
    BY <1>5 DEF OverBudget, DraftEnds
  <2>2. CASE saved' = saved
    BY <1>1, <1>t, <2>1, <2>2 DEF DraftAt
  <2>3. CASE Save(t, [stage |-> "prepared", source |-> draft[t].source, version |-> 0])
    <3>1. saved[t].stage = "none"
      BY <1>5 DEF OverBudget
    <3>2. GoesOnFrom([at |-> "failed", source |-> NothingRead],
                     [stage |-> "prepared", source |-> draft[t].source, version |-> 0], asked[t])
      BY DEF GoesOnFrom
    <3> DEFINE c == [stage |-> "prepared", source |-> draft[t].source, version |-> 0]
    <3>3. c \in SavedDraft /\ c.version = saved[t].version /\ Save(t, c)
      BY <1>p, <2>3, <3>1
    <3> HIDE DEF c
    <3>4. GoesOnFrom([at |-> "failed", source |-> NothingRead], c, asked[t])
      BY <3>2 DEF c
    <3> QED
      BY <1>3, <1>a, <1>t, <2>1, <3>3, <3>4 DEF DraftAt
  <2> QED
    BY <1>5, <2>2, <2>3 DEF OverBudget
<1>6. CASE AskModel(t)
  <2>1. /\ Save(t, [saved[t] EXCEPT !.stage = "model"]) /\ UNCHANGED <<outline, facts>>
        /\ asked' = [asked EXCEPT ![t] = draft[t].source]
        /\ DraftGoes(t, "asking", NothingRead) /\ draft[t].at = "starting"
    BY <1>6 DEF AskModel, At
  <2>2. draft[t].source = saved[t].source /\ saved[t].version = 0
    BY <2>1, <1>i DEF GoesOnFrom
  <2>3. GoesOnFrom([at |-> "asking", source |-> NothingRead],
                   [saved[t] EXCEPT !.stage = "model"], draft[t].source)
    BY <2>2, <1>c DEF GoesOnFrom
  <2> QED
    BY <1>3, <1>c, <1>t, <2>1, <2>3 DEF DraftAt
<1>7. CASE ModelAnswers(t)
  <2>1. UNCHANGED <<outline, facts, asked>> /\ draft[t].at = "asking"
    BY <1>7 DEF ModelAnswers, At
  <2>2. CASE DraftEnds(t, "failed") /\ UNCHANGED saved
    BY <1>1, <1>t, <2>1, <2>2 DEF DraftAt, DraftEnds
  <2>3. CASE /\ Save(t, [saved[t] EXCEPT !.stage = "ready"])
             /\ DraftGoes(t, "validating", Sources(t)) \/ DraftGoes(t, "failed", NothingRead)
    <3>1. asked[t] = saved[t].source /\ saved[t].version = 0
      BY <2>1, <1>i DEF GoesOnFrom
    <3>2. \A at \in {"validating", "failed"} : \A source \in Sourced :
            GoesOnFrom([at |-> at, source |-> source], [saved[t] EXCEPT !.stage = "ready"],
                       asked[t])
      BY <3>1, <1>c DEF GoesOnFrom
    <3>3. PICK at \in {"validating", "failed"}, source \in Sourced : DraftGoes(t, at, source)
      BY <2>3, <1>t
    <3> DEFINE c == [saved[t] EXCEPT !.stage = "ready"]
    <3>4. /\ c \in SavedDraft /\ c.version = saved[t].version /\ Save(t, c) /\ at \in DraftAt
          /\ GoesOnFrom([at |-> at, source |-> source], c, asked[t])
      BY <1>c, <2>3, <3>2 DEF DraftAt
    <3> HIDE DEF c
    <3> QED
      BY <1>3, <1>a, <1>t, <2>1, <3>3, <3>4
  <2> QED
    BY <1>7, <2>2, <2>3 DEF ModelAnswers, DraftEnds
<1>8. CASE Validated(t)
  <2>1. /\ UNCHANGED <<outline, facts, saved, asked>> /\ draft[t].at = "validating"
        /\ DraftGoes(t, "applying", NothingRead) \/ DraftGoes(t, "failed", NothingRead)
    BY <1>8 DEF Validated, At, Refuses, DraftEnds
  <2>2. \A at \in {"applying", "failed"} :
          GoesOnFrom([at |-> at, source |-> NothingRead], saved[t], asked[t])
    BY <2>1, <1>i DEF GoesOnFrom
  <2> QED
    BY <1>1, <1>t, <2>1, <2>2 DEF DraftAt
<1> QED
  BY <1>2, <1>4, <1>5, <1>6, <1>7, <1>8

\* The proposal replaces what was asked about, or nothing.
LEMMA Applying ==
  ASSUME OutlineInv, NEW t \in Drafter, ApplyProposal(t)
  PROVE  /\ OutlineInv'
         /\ \/ outline' = outline /\ \A u \in Drafter : saved'[u].version = saved[u].version
            \/ /\ outline.status = "draft" /\ outline'.status = "draft" /\ outline'.text = t
               /\ asked[t] = [version |-> outline.version, facts |-> facts]
               /\ saved[t].version = 0 /\ saved'[t].version = outline'.version
               /\ \A u \in Drafter \ {t} : saved'[u] = saved[u]
<1>t. /\ NothingRead \in Sourced /\ saved[t] \in SavedDraft /\ asked[t] \in Sourced
      /\ outline \in OutlineRow
  BY SourcesAreTyped DEF OutlineInv, OutlineTypes
<1>i. GoesOnFrom(draft[t], saved[t], asked[t])
  BY DEF OutlineInv
<1>at. draft[t].at = "applying"
  BY DEF ApplyProposal, At
<1>1. CASE Refuses(t) /\ UNCHANGED <<outline, facts>>
  BY <1>1, <1>t, RunnerGoes DEF Refuses, DraftEnds, DraftAt
<1>2. CASE /\ Readable /\ saved[t].source = Sources(t) /\ UNCHANGED <<facts, asked>>
           /\ outline.version < MaxRevisions
           /\ outline' = [outline EXCEPT !.version = @ + 1, !.text = t, !.task = t]
           /\ Save(t, [saved[t] EXCEPT !.stage = "applied", !.version = outline.version + 1])
           /\ DraftGoes(t, "finishing", NothingRead)
  <2>1. saved[t].stage = "ready" /\ asked[t] = saved[t].source /\ saved[t].version = 0
    BY <1>2, <1>i, <1>at DEF GoesOnFrom
  <2>2. Sources(t) = [version |-> outline.version, facts |-> facts]
    BY <2>1 DEF Sources, StillApplied
  <2> DEFINE c == [saved[t] EXCEPT !.stage = "applied", !.version = outline.version + 1]
  <2>3. /\ outline.version + 1 \in 1..MaxRevisions /\ outline.version + 1 \in 0..MaxRevisions
    BY <1>2, <1>t, OutlineAssumption DEF OutlineRow
  <2>4. /\ outline' \in OutlineRow /\ outline'.status = outline.status /\ outline'.text = t
        /\ outline'.version = outline.version + 1
    BY <1>2, <1>t, <2>3 DEF OutlineRow
  <2>5. c \in SavedDraft /\ c.version = outline.version + 1 /\ c.stage = "applied"
    BY <1>t, <2>3 DEF SavedDraft
  <2>6. Save(t, c)
    BY <1>2
  <2> HIDE DEF c
  <2>7. GoesOnFrom([at |-> "finishing", source |-> NothingRead], c, asked[t])
    BY <2>5 DEF GoesOnFrom
  <2>8. /\ asked' = [asked EXCEPT ![t] = asked[t]] /\ facts' = facts
        /\ DraftGoes(t, "finishing", NothingRead) /\ "finishing" \in DraftAt
    BY <1>2 DEF OutlineInv, OutlineTypes, DraftAt
  <2>9. /\ OutlineInv' /\ saved'[t] = c
        /\ \A u \in Drafter \ {t} : saved'[u] = saved[u]
    <3>1. ASSUME NEW at \in DraftAt, DraftGoes(t, at, NothingRead), NEW d \in SavedDraft,
                 Save(t, d), NEW a \in Sourced, asked' = [asked EXCEPT ![t] = a],
                 GoesOnFrom([at |-> at, source |-> NothingRead], d, a)
          PROVE  /\ OutlineInv' /\ saved'[t] = d
                 /\ \A u \in Drafter \ {t} : saved'[u] = saved[u]
      BY <1>t, <2>4, <2>8, <3>1, RunnerMoves
    <3> QED
      BY <1>t, <2>5, <2>6, <2>7, <2>8, <3>1
  <2> QED
    BY <1>2, <2>1, <2>2, <2>4, <2>5, <2>9 DEF Readable
<1> QED
  BY <1>1, <1>2 DEF ApplyProposal

\* The user and the machine: what the runners hold stays, or they begin again.
LEMMA OutlineUserSteps ==
  ASSUME OutlineInv, EditOutline \/ ChangeOutlineStatus \/ EditFacts \/ OutlineCrash
  PROVE  OutlineInv' /\ saved' = saved /\ outline'.text \in {outline.text, Author}
<1>t. /\ outline \in OutlineRow /\ MaxRevisions \in Nat
      /\ outline.version \in 1..MaxRevisions
  BY OutlineAssumption DEF OutlineInv, OutlineTypes, OutlineRow
<1>1. CASE EditOutline \/ ChangeOutlineStatus
  <2>1. outline.version < MaxRevisions
    BY <1>1, Zenon DEF EditOutline, ChangeOutlineStatus
  <2>n. outline.version + 1 \in 1..MaxRevisions
    BY <1>t, <2>1
  <2>2. outline' \in OutlineRow /\ outline'.text \in {outline.text, Author}
    BY <1>1, <1>t, <2>n DEF EditOutline, ChangeOutlineStatus, OutlineRow
  <2>3. UNCHANGED <<facts, draft, saved, asked>>
    BY <1>1 DEF EditOutline, ChangeOutlineStatus
  <2> QED
    BY <2>2, <2>3 DEF OutlineInv, OutlineTypes, GoesOnFrom
<1>2. CASE EditFacts
  BY <1>2 DEF EditFacts, OutlineInv, OutlineTypes, GoesOnFrom
<1>3. CASE OutlineCrash
  <2>1. UNCHANGED <<outline, facts, saved, asked>>
    BY <1>3 DEF OutlineCrash
  <2>2. /\ draft' \in [Drafter -> DraftState]
        /\ \A t \in Drafter : draft'[t] = draft[t] \/ draft'[t].at = "queued"
    <3>1. [at |-> "queued", source |-> NothingRead] \in DraftState
      BY <1>t DEF DraftState, DraftAt, NothingRead, Sourced
    <3> QED
      BY <1>3, <3>1 DEF OutlineCrash, OutlineInv, OutlineTypes
  <2> QED
    BY <2>1, <2>2 DEF OutlineInv, OutlineTypes, GoesOnFrom
<1> QED
  BY <1>1, <1>2, <1>3

\* What a step of the outline may do is what ProposalReplacesWhatWasAsked says.
LEMMA OutlineStep ==
  ASSUME OutlineInv, [OutlineNext]_outlineVars
  PROVE  /\ OutlineInv'
         /\ \A t \in Drafter :
              (saved'[t].version # saved[t].version \/ (outline'.text = t /\ outline.text # t)) =>
                /\ outline.status = "draft" /\ outline'.status = "draft"
                /\ asked[t] = [version |-> outline.version, facts |-> facts]
                /\ saved[t].version = 0 /\ saved'[t].version = outline'.version
<1>1. ASSUME NEW u \in Drafter, ApplyProposal(u)
      PROVE  /\ OutlineInv'
             /\ \A t \in Drafter :
                  (saved'[t].version # saved[t].version
                     \/ (outline'.text = t /\ outline.text # t)) =>
                    /\ outline.status = "draft" /\ outline'.status = "draft"
                    /\ asked[t] = [version |-> outline.version, facts |-> facts]
                    /\ saved[t].version = 0 /\ saved'[t].version = outline'.version
  BY <1>1, Applying
<1>2. ASSUME NEW u \in Drafter,
             \/ Prepare(u) \/ ContextCompiled(u) \/ OverBudget(u) \/ AskModel(u)
             \/ ModelAnswers(u) \/ Validated(u) \/ ReportOutline(u) \/ StopDraft(u)
      PROVE  /\ OutlineInv' /\ outline' = outline
             /\ \A t \in Drafter : saved'[t].version = saved[t].version
  BY <1>2, RunnerSteps
<1>3. CASE EditOutline \/ ChangeOutlineStatus \/ EditFacts \/ OutlineCrash
  BY <1>3, OutlineUserSteps, OutlineAssumption
<1>4. CASE UNCHANGED outlineVars
  BY <1>4 DEF outlineVars, OutlineInv, OutlineTypes, GoesOnFrom
<1> QED
  BY <1>1, <1>2, <1>3, <1>4 DEF OutlineNext

\* outlineGeneration/service.ts: a task writes over the outline only while it is a
\* draft, over the very version and under the very sources its model was asked
\* about, and once.
THEOREM ProposalsReplaceWhatWasAsked == OutlineSpec => ProposalReplacesWhatWasAsked
<1>1. OutlineInit => OutlineInv
  <2> SUFFICES ASSUME OutlineInit PROVE OutlineInv
    OBVIOUS
  <2>n. NothingRead \in Sourced
    BY OutlineAssumption DEF NothingRead, Sourced
  <2>d. [at |-> "queued", source |-> NothingRead] \in DraftState
    BY <2>n DEF DraftState, DraftAt
  <2>c. Unsaved \in SavedDraft
    BY <2>n, OutlineAssumption DEF Unsaved, SavedDraft
  <2>o. outline \in OutlineRow
    BY OutlineAssumption DEF OutlineInit, OutlineRow
  <2>1. OutlineTypes
    BY <2>n, <2>d, <2>c, <2>o DEF OutlineInit, OutlineTypes
  <2>2. \A t \in Drafter : GoesOnFrom(draft[t], saved[t], asked[t])
    BY DEF OutlineInit, GoesOnFrom, Unsaved
  <2> QED
    BY <2>1, <2>2 DEF OutlineInv
<1>2. OutlineInv /\ [OutlineNext]_outlineVars =>
        /\ OutlineInv'
        /\ [\A t \in Drafter :
              (saved'[t].version # saved[t].version \/ (outline'.text = t /\ outline.text # t)) =>
                /\ outline.status = "draft" /\ outline'.status = "draft"
                /\ asked[t] = [version |-> outline.version, facts |-> facts]
                /\ saved[t].version = 0 /\ saved'[t].version = outline'.version]_outlineVars
  BY OutlineStep
<1> QED
  BY <1>1, <1>2, PTL DEF OutlineSpec, ProposalReplacesWhatWasAsked

-----------------------------------------------------------------------------
(* Diary                                                                   *)

Relation == [file : {"whole"}, phase : RelationshipPhase, score : Nat, narratives : Nat]
FragmentRow == [id : Nat, text : Nat]
FragmentDay == [file : {"whole"}, version : Nat, items : SUBSET FragmentRow,
                completed : BOOLEAN]
PenState == [at : {"idle", "writing", "done"}, day : DiaryDay, seen : Relation]

DiaryTypes ==
  /\ folder \in {"none", "ghost", "character"} /\ dayText \subseteq DiaryDay
  /\ progress \in Relation \cup {NoFile, Torn}
  /\ fragments \in FragmentDay \cup {NoFile, Torn}
  /\ pen \in [Pen -> PenState]
  /\ sight \in [Reader -> FragmentDay]
  /\ made \in 0..MaxMade /\ mishaps \in 0..MaxMishaps

\* A directory that is not there has no files; what was saved is what is due.
ProgressIsDue ==
  /\ folder = "none" => dayText = {} /\ progress = NoFile
  /\ Progress(progress) = due

\* Numbers are never used twice; and who saw a fragment that is still there saw it
\* in no later version of the file, and in this version saw all of it.
SeenInVersion(seen, day) ==
  (\E f \in seen.items, g \in day.items : f.id = g.id) =>
    seen.version <= day.version /\ (seen.version = day.version => seen.items = day.items)
FragmentsAreNumbered ==
  /\ \A f \in Fragments(fragments).items : f.id <= made
  /\ \A r \in Reader : /\ \A f \in sight[r].items : f.id <= made
                        /\ SeenInVersion(sight[r], Fragments(fragments))
  /\ ~uninformed

DiaryInv == DiaryTypes /\ ProgressIsDue /\ FragmentsAreNumbered

\* What is read from a file is a relationship, or a day of fragments.
LEMMA FilesAreRead ==
  ASSUME DiaryTypes
  PROVE  /\ Progress(progress) \in Relation /\ Fragments(fragments) \in FragmentDay
         /\ NewDay \in FragmentDay /\ NewDay.items = {}
         /\ Fragments(NoFile) = NewDay /\ Fragments(Torn) = NewDay
         /\ \A p \in RelationshipPhase : Start(p) \in Relation
         /\ Progress(NoFile) = Start(0) /\ Progress(Torn) = Start(0)
         /\ \A p \in Relation : Progress(p) = p
         /\ \A d \in FragmentDay : Fragments(d) = d
         /\ progress.file = "none" => progress = NoFile
         /\ progress = NoFile => progress.file = "none"
<1>1. NewDay \in FragmentDay /\ NewDay.items = {}
  BY DEF NewDay, FragmentDay
<1>2. \A p \in RelationshipPhase : Start(p) \in Relation
  BY DEF Start, Relation, RelationshipPhase
<1>3. 0 \in RelationshipPhase
  BY DEF RelationshipPhase
<1>4. /\ NoFile.file = "none" /\ Torn.file = "torn"
      /\ \A p \in Relation : p.file = "whole"
      /\ \A d \in FragmentDay : d.file = "whole"
  BY DEF NoFile, Torn, Relation, FragmentDay
<1> HIDE DEF Relation, FragmentDay, NoFile, Torn, NewDay, Start
<1>5. /\ Fragments(NoFile) = NewDay /\ Fragments(Torn) = NewDay
      /\ Progress(NoFile) = Start(0) /\ Progress(Torn) = Start(0)
      /\ \A p \in Relation : Progress(p) = p
      /\ \A d \in FragmentDay : Fragments(d) = d
  BY <1>4 DEF Fragments, Progress
<1>6. progress \in Relation \cup {NoFile, Torn} /\ fragments \in FragmentDay \cup {NoFile, Torn}
  BY DEF DiaryTypes
<1>7. Progress(progress) \in Relation /\ Fragments(fragments) \in FragmentDay
  BY <1>1, <1>2, <1>3, <1>5, <1>6
<1>8. (progress.file = "none" => progress = NoFile) /\ (progress = NoFile => progress.file = "none")
  BY <1>4, <1>6
<1>9. \A p \in RelationshipPhase : Start(p) \in Relation
  BY <1>2
<1> QED
  BY <1>1, <1>5, <1>7, <1>8, <1>9, Zenon

\* A narrative takes its phase from what the file said when it ended.
LEMMA NarrativesAdd ==
  ASSUME NEW p \in Relation, NEW score \in 0..1
  PROVE  /\ WithNarrative(p, score) \in Relation
         /\ WithNarrative(p, score) = [WithNarrative(p, 0) EXCEPT !.score =
                                         WithNarrative(p, score).score]
<1>1. p.score + score \in Nat /\ p.narratives + 1 \in Nat /\ p.score + 0 \in Nat
  BY DEF Relation
<1> DEFINE R(n, s) == [p EXCEPT !.narratives = n, !.score = s]
<1>2. ASSUME NEW n \in Nat, NEW s \in Nat
      PROVE  /\ R(n, s) \in Relation /\ R(n, s).score = s
             /\ \A z \in Nat : [R(n, z) EXCEPT !.score = s] = R(n, s)
  BY <1>2 DEF Relation
<1>3. /\ WithNarrative(p, score) = R(p.narratives + 1, p.score + score)
      /\ WithNarrative(p, 0) = R(p.narratives + 1, p.score + 0)
  BY DEF WithNarrative
<1> HIDE DEF R
<1> QED
  BY <1>1, <1>2, <1>3

\* The fragments are not touched, or looked at.
LEMMA FragmentsStay ==
  ASSUME DiaryInv, UNCHANGED <<fragments, sight, made, uninformed>>
  PROVE  FragmentsAreNumbered'
BY DEF DiaryInv, FragmentsAreNumbered, SeenInVersion

\* The relationship and the days are not touched.
LEMMA ProgressStays ==
  ASSUME DiaryInv, UNCHANGED <<progress, due>>,
         folder' \in {"none", "ghost", "character"}, folder' = "none" => folder = "none",
         dayText' \subseteq DiaryDay, folder' # "none" \/ dayText' \subseteq dayText
  PROVE  ProgressIsDue'
BY DEF DiaryInv, ProgressIsDue

\* Characters and phases.
LEMMA CrushSteps ==
  ASSUME DiaryInv, (\E p \in {0, 2} : CreateCrush(p)) \/ DeleteCrush \/ AdvancePhase \/ SetPhase
  PROVE  DiaryInv'
<1>i. DiaryTypes /\ ProgressIsDue
  BY DEF DiaryInv
<1>r. /\ Progress(progress) \in Relation
      /\ \A p \in RelationshipPhase : Start(p) \in Relation
      /\ Progress(NoFile) = Start(0) /\ \A p \in Relation : Progress(p) = p
      /\ {0, 2} \subseteq RelationshipPhase
      /\ MaxMishaps \in Nat
  BY <1>i, FilesAreRead, DiaryAssumption DEF RelationshipPhase
<1>m. (Mishap \/ UNCHANGED mishaps) => mishaps' \in 0..MaxMishaps
  BY <1>i, <1>r DEF Mishap, DiaryTypes
<1>1. ASSUME NEW p \in {0, 2}, CreateCrush(p) PROVE DiaryInv'
  <2>1. /\ UNCHANGED <<dayText, fragments, pen, sight, made, uninformed>>
        /\ folder' = "character" /\ (Mishap \/ UNCHANGED mishaps)
        /\ UNCHANGED <<progress, due>> \/ (progress' = Start(p) /\ due' = Start(p))
    BY <1>1 DEF CreateCrush
  <2>2. DiaryTypes'
    BY <2>1, <1>i, <1>m, <1>r DEF DiaryTypes
  <2>3. ProgressIsDue'
    BY <2>1, <1>i, <1>r DEF ProgressIsDue
  <2> QED
    BY <2>1, <2>2, <2>3, FragmentsStay DEF DiaryInv
<1>2. CASE DeleteCrush
  <2>1. DiaryTypes'
    BY <1>2, <1>i DEF DeleteCrush, DiaryTypes
  <2>2. ProgressIsDue'
    BY <1>2, <1>r DEF DeleteCrush, ProgressIsDue
  <2>3. Fragments(fragments').items = {}
    BY <1>2, <1>i, FilesAreRead DEF DeleteCrush
  <2>4. FragmentsAreNumbered'
    BY <1>2, <2>3 DEF DeleteCrush, DiaryInv, FragmentsAreNumbered, SeenInVersion
  <2> QED
    BY <2>1, <2>2, <2>4 DEF DiaryInv
<1>3. ASSUME NEW p \in RelationshipPhase, GoToPhase(p) PROVE DiaryInv'
  <2> DEFINE next == [Progress(progress) EXCEPT !.phase = p, !.score = 0]
  <2>1. next \in Relation
    BY <1>r DEF Relation
  <2>2. /\ UNCHANGED <<dayText, fragments, pen, sight, made, uninformed>>
        /\ folder' \in {"ghost", "character"} /\ (Mishap \/ UNCHANGED mishaps)
        /\ UNCHANGED <<progress, due>> \/ (progress' = next /\ due' = next)
    BY <1>3, <1>i DEF GoToPhase, Saves, MakeFolder, DiaryTypes
  <2> HIDE DEF next
  <2>3. DiaryTypes'
    BY <2>1, <2>2, <1>i, <1>m DEF DiaryTypes
  <2>4. ProgressIsDue'
    BY <2>1, <2>2, <1>i, <1>r DEF ProgressIsDue
  <2> QED
    BY <2>2, <2>3, <2>4, FragmentsStay DEF DiaryInv
<1>4. CASE AdvancePhase \/ SetPhase
  <2>1. AdvancePhase => Progress(progress).phase + 1 \in RelationshipPhase
    BY <1>r DEF AdvancePhase, Relation, RelationshipPhase
  <2> QED
    BY <1>3, <1>4, <2>1 DEF AdvancePhase, SetPhase
<1> QED
  BY <1>1, <1>2, <1>4

\* Days.
LEMMA DaySteps ==
  ASSUME DiaryInv,
         \/ \E w \in Pen : FinishDay(w) \/ FailDay(w) \/ (\E d \in DiaryDay : BeginDay(w, d))
         \/ \E d \in DiaryDay : DeleteDay(d)
  PROVE  DiaryInv'
<1>i. DiaryTypes /\ ProgressIsDue
  BY DEF DiaryInv
<1>r. /\ Progress(progress) \in Relation /\ \A p \in Relation : Progress(p) = p
      /\ MaxMishaps \in Nat
  BY <1>i, FilesAreRead, DiaryAssumption
<1>m. (Mishap \/ UNCHANGED mishaps) => mishaps' \in 0..MaxMishaps
  BY <1>i, <1>r DEF Mishap, DiaryTypes
<1>p. ASSUME NEW w \in Pen, PenRests(w) PROVE pen' \in [Pen -> PenState]
  BY <1>p, <1>i DEF PenRests, DiaryTypes, PenState
<1>1. ASSUME NEW w \in Pen, FinishDay(w) PROVE DiaryInv'
  <2>1. /\ UNCHANGED <<fragments, sight, made, uninformed>> /\ PenRests(w)
        /\ folder' \in {"ghost", "character"} /\ (Mishap \/ UNCHANGED mishaps)
        /\ dayText' = dayText \cup {pen[w].day} /\ pen[w].day \in DiaryDay
        /\ \/ UNCHANGED <<progress, due>>
           \/ \E score \in 0..1 :
                /\ progress' = WithNarrative(Progress(progress), score)
                /\ due' = [WithNarrative(due, 0) EXCEPT !.score = progress'.score]
    BY <1>1, <1>i DEF FinishDay, ProgressBefore, MakeFolder, DiaryTypes, PenState
  <2>2. \/ UNCHANGED <<progress, due>>
        \/ progress' \in Relation /\ due' = progress'
    BY <2>1, <1>i, <1>r, NarrativesAdd DEF ProgressIsDue
  <2>3. DiaryTypes'
    BY <2>1, <2>2, <1>i, <1>m, <1>p DEF DiaryTypes
  <2>4. ProgressIsDue'
    BY <2>1, <2>2, <1>i, <1>r DEF ProgressIsDue
  <2> QED
    BY <2>1, <2>3, <2>4, FragmentsStay DEF DiaryInv
<1>2. ASSUME NEW w \in Pen, FailDay(w) \/ (\E d \in DiaryDay : BeginDay(w, d))
      PROVE  DiaryInv'
  <2>1. /\ UNCHANGED <<folder, dayText, progress, fragments, sight, made, mishaps, due,
                       uninformed>>
        /\ pen' \in [Pen -> PenState]
    BY <1>2, <1>i, <1>p, <1>r DEF FailDay, BeginDay, DiaryTypes, PenState
  <2> QED
    BY <2>1, <1>i, FragmentsStay DEF DiaryInv, DiaryTypes, ProgressIsDue
<1>3. ASSUME NEW d \in DiaryDay, DeleteDay(d) PROVE DiaryInv'
  BY <1>3, <1>i, FragmentsStay DEF DeleteDay, DiaryInv, DiaryTypes, ProgressIsDue
<1> QED
  BY <1>1, <1>2, <1>3

\* The fragments of a day are written over: the next version has rows of this one,
\* and at most the row that is made now.
LEMMA FragmentsSaved ==
  ASSUME DiaryInv, made < MaxMade, made' = made + 1,
         NEW items, SavesFragments(items),
         \A f \in items : f \in FragmentRow /\
           (f.id = made' \/ \E g \in Fragments(fragments).items : g.id = f.id),
         ~uninformed'
  PROVE  DiaryInv'
<1> DEFINE day == Fragments(fragments)
<1>i. DiaryTypes /\ ProgressIsDue /\ FragmentsAreNumbered
  BY DEF DiaryInv
<1>1. day \in FragmentDay /\ day.version \in Nat /\ made \in Nat /\ MaxMade \in Nat
  BY <1>i, FilesAreRead, DiaryAssumption DEF FragmentDay, DiaryTypes
<1>2. /\ UNCHANGED <<dayText, progress, pen, sight, mishaps, due>>
      /\ folder' \in {"ghost", "character"}
      /\ fragments' = [day EXCEPT !.items = items, !.version = day.version + 1]
  BY <1>i DEF SavesFragments, MakeFolder, DiaryTypes
<1>3. /\ fragments' \in FragmentDay /\ fragments'.items = items
      /\ fragments'.version = day.version + 1
  <2>1. items \in SUBSET FragmentRow /\ day.version + 1 \in Nat
    BY <1>1
  <2> HIDE DEF day
  <2> QED
    BY <1>1, <1>2, <2>1 DEF FragmentDay
<1>4. Fragments(fragments') = fragments'
  BY <1>3, <1>i, FilesAreRead
<1>5. DiaryTypes'
  BY <1>1, <1>2, <1>3, <1>i DEF DiaryTypes
<1>6. ProgressIsDue'
  BY <1>2, <1>i DEF ProgressIsDue
<1>7. /\ \A f \in day.items : f.id \in Nat /\ f.id <= made
      /\ \A f \in items : f.id \in Nat
      /\ \A r \in Reader : /\ sight[r] \in FragmentDay /\ sight[r].version \in Nat
                            /\ \A f \in sight[r].items : f.id \in Nat /\ f.id <= made
                            /\ SeenInVersion(sight[r], day)
  BY <1>1, <1>i DEF FragmentsAreNumbered, DiaryTypes, FragmentDay, FragmentRow
<1> HIDE DEF day
<1>8. \A f \in items : f.id <= made + 1
  BY <1>1, <1>7 DEF day
<1>9. ASSUME NEW r \in Reader, NEW f \in sight[r].items, NEW g \in items, f.id = g.id
      PROVE  sight[r].version < day.version + 1
  <2>1. g.id # made + 1
    BY <1>1, <1>7, <1>9
  <2>2. \E h \in day.items : f.id = h.id
    BY <2>1, <1>9 DEF day
  <2>3. sight[r].version <= day.version
    BY <2>2, <1>7 DEF SeenInVersion
  <2> QED
    BY <2>3, <1>1, <1>7
<1>10. \A r \in Reader : SeenInVersion(sight[r], fragments')
  BY <1>1, <1>3, <1>7, <1>9 DEF SeenInVersion
<1>11. \A r \in Reader : \A f \in sight[r].items : f.id <= made + 1
  BY <1>1, <1>7
<1>12. FragmentsAreNumbered'
  BY <1>2, <1>3, <1>4, <1>8, <1>10, <1>11 DEF FragmentsAreNumbered
<1> QED
  BY <1>5, <1>6, <1>12 DEF DiaryInv

\* Fragments, and the end of the program.
LEMMA FragmentSteps ==
  ASSUME DiaryInv, RecordFragment \/ DiaryCrash \/ \E r \in Reader : Look(r) \/ EditFragment(r)
  PROVE  DiaryInv'
<1> DEFINE day == Fragments(fragments)
<1>i. DiaryTypes /\ ProgressIsDue /\ FragmentsAreNumbered
  BY DEF DiaryInv
<1>1. /\ day \in FragmentDay /\ day.version \in Nat /\ made \in Nat /\ MaxMade \in Nat
      /\ \A f \in day.items : f \in FragmentRow
      /\ MaxMishaps \in Nat
  BY <1>i, FilesAreRead, DiaryAssumption DEF FragmentDay, DiaryTypes
<1>2. CASE RecordFragment
  <2>1. [id |-> made', text |-> made'] \in FragmentRow
    BY <1>1, <1>2 DEF RecordFragment, FragmentRow
  <2> DEFINE items == day.items \cup {[id |-> made', text |-> made']}
  <2>2. \A f \in items : f \in FragmentRow /\ (f.id = made' \/ \E g \in day.items : g.id = f.id)
    BY <1>1, <2>1
  <2>3. SavesFragments(items) /\ made < MaxMade /\ made' = made + 1 /\ ~uninformed'
    BY <1>2, <1>i DEF RecordFragment, FragmentsAreNumbered
  <2> HIDE DEF items
  <2> QED
    BY <2>2, <2>3, FragmentsSaved
<1>3. ASSUME NEW r \in Reader, EditFragment(r) PROVE DiaryInv'
  <2>1. PICK f \in day.items, named \in BOOLEAN :
          /\ f.id \in {g.id : g \in sight[r].items}
          /\ named => sight[r].version = day.version
          /\ \E edited \in {{}, {[f EXCEPT !.text = made']}} :
               SavesFragments((day.items \ {f}) \cup edited)
          /\ uninformed' = (uninformed \/ (named /\ sight[r].items # day.items))
    BY <1>3 DEF EditFragment
  <2>2. PICK edited \in {{}, {[f EXCEPT !.text = made']}} :
          SavesFragments((day.items \ {f}) \cup edited)
    BY <2>1
  <2>3. made < MaxMade /\ made' = made + 1
    BY <1>3 DEF EditFragment
  <2>4. \A g \in edited : g \in FragmentRow /\ g.id = f.id
    BY <1>1, <2>2, <2>3 DEF FragmentRow
  <2>5. ~uninformed'
    BY <1>i, <2>1 DEF FragmentsAreNumbered, SeenInVersion
  <2> DEFINE items == (day.items \ {f}) \cup edited
  <2>6. \A g \in items : g \in FragmentRow /\ (g.id = made' \/ \E h \in day.items : h.id = g.id)
    BY <1>1, <2>4
  <2>7. SavesFragments(items)
    BY <2>2
  <2> HIDE DEF items
  <2> QED
    BY <2>3, <2>5, <2>6, <2>7, FragmentsSaved
<1>4. ASSUME NEW r \in Reader, Look(r) PROVE DiaryInv'
  <2>1. /\ UNCHANGED <<folder, dayText, progress, fragments, pen, made, mishaps, due, uninformed>>
        /\ sight' = [sight EXCEPT ![r] = day]
    BY <1>4 DEF Look
  <2>2. sight' \in [Reader -> FragmentDay] /\ \A q \in Reader : sight'[q] \in {sight[q], day}
    BY <1>1, <1>i, <2>1 DEF DiaryTypes
  <2>3. DiaryTypes' /\ ProgressIsDue'
    BY <1>i, <2>1, <2>2 DEF DiaryTypes, ProgressIsDue
  <2>4. FragmentsAreNumbered'
    BY <1>1, <1>i, <2>1, <2>2 DEF FragmentsAreNumbered, SeenInVersion
  <2> QED
    BY <2>3, <2>4 DEF DiaryInv
<1>5. CASE DiaryCrash
  <2>1. /\ UNCHANGED <<folder, dayText, sight, made, uninformed>> /\ Mishap
        /\ \/ UNCHANGED <<progress, fragments, due>>
           \/ /\ progress.file # "none" /\ progress' = Torn /\ due' = Start(0)
              /\ UNCHANGED fragments
           \/ fragments' = Torn /\ UNCHANGED <<progress, due>>
    BY <1>5 DEF DiaryCrash
  <2>2. pen' \in [Pen -> PenState]
    BY <1>5, <1>i DEF DiaryCrash, DiaryTypes, PenState
  <2>3. mishaps' \in 0..MaxMishaps
    BY <1>1, <1>i, <2>1 DEF Mishap, DiaryTypes
  <2>4. DiaryTypes'
    BY <1>i, <2>1, <2>2, <2>3 DEF DiaryTypes
  <2>5. ProgressIsDue'
    BY <1>i, <2>1, FilesAreRead DEF ProgressIsDue
  <2>6. Fragments(fragments') = day \/ Fragments(fragments').items = {}
    BY <1>i, <2>1, FilesAreRead
  <2>7. FragmentsAreNumbered'
    BY <1>i, <2>1, <2>6 DEF FragmentsAreNumbered, SeenInVersion
  <2> QED
    BY <2>4, <2>5, <2>7 DEF DiaryInv
<1> QED
  BY <1>2, <1>3, <1>4, <1>5

\* shared/day, shared/relationship and shared/fragment: short of a damaged file or a
\* deleted character, a narrative that ends takes back neither a phase the user chose
\* nor another narrative, and an edit that names the version its author saw is
\* applied to exactly what he saw.
THEOREM DiaryStays == DiarySpec => []DiaryIsKept
<1>1. DiaryInit => DiaryInv
  <2> SUFFICES ASSUME DiaryInit PROVE DiaryInv
    OBVIOUS
  <2>a. NewDay \in FragmentDay /\ NewDay.items = {}
    BY DEF NewDay, FragmentDay
  <2>b. /\ [NewDay EXCEPT !.completed = TRUE] \in FragmentDay
        /\ [NewDay EXCEPT !.completed = TRUE].items = {}
    <3> HIDE DEF NewDay
    <3> QED
      BY <2>a DEF FragmentDay
  <2>c. Start(0) \in Relation
    BY DEF Start, Relation, RelationshipPhase
  <2>0. /\ NewDay \in FragmentDay /\ [NewDay EXCEPT !.completed = TRUE] \in FragmentDay
        /\ Start(0) \in Relation /\ NewDay.items = {}
        /\ [NewDay EXCEPT !.completed = TRUE].items = {}
    BY <2>a, <2>b, <2>c
  <2>1. (CHOOSE d \in DiaryDay : TRUE) \in DiaryDay
    BY DiaryAssumption
  <2>2. pen \in [Pen -> PenState]
    BY <2>0, <2>1 DEF DiaryInit, PenState
  <2>3. Fragments(fragments).items = {} /\ Progress(progress) = Start(0)
    BY <2>0 DEF DiaryInit, Fragments, Progress, NoFile, NewDay
  <2>s. sight \in [Reader -> FragmentDay]
    BY <2>0 DEF DiaryInit
  <2>m. made \in 0..MaxMade /\ mishaps \in 0..MaxMishaps
    BY DiaryAssumption DEF DiaryInit
  <2>4. DiaryTypes
    BY <2>0, <2>2, <2>s, <2>m DEF DiaryInit, DiaryTypes
  <2>5. ProgressIsDue
    BY <2>3 DEF DiaryInit, ProgressIsDue
  <2>6. FragmentsAreNumbered
    BY <2>0, <2>3 DEF DiaryInit, FragmentsAreNumbered, SeenInVersion
  <2> QED
    BY <2>4, <2>5, <2>6 DEF DiaryInv
<1>2. DiaryInv /\ [DiaryNext]_diaryVars => DiaryInv'
  <2>1. ASSUME DiaryInv, UNCHANGED diaryVars PROVE DiaryInv'
    BY <2>1 DEF diaryVars, DiaryInv, DiaryTypes, ProgressIsDue, FragmentsAreNumbered,
       SeenInVersion
  <2> QED
    BY <2>1, CrushSteps, DaySteps, FragmentSteps DEF DiaryNext
<1>3. DiaryInv => DiaryIsKept
  <2> SUFFICES ASSUME DiaryInv PROVE DiaryIsKept
    OBVIOUS
  <2>1. Progress(progress) \in Relation
    BY FilesAreRead DEF DiaryInv
  <2>2. Progress(progress).phase \in RelationshipPhase
    BY <2>1 DEF Relation
  <2> QED
    BY <2>2 DEF DiaryInv, DiaryTypes, ProgressIsDue, FragmentsAreNumbered, DiaryIsKept,
       DiaryTypeInv
<1> QED
  BY <1>1, <1>2, <1>3, PTL DEF DiarySpec

-----------------------------------------------------------------------------
(* RecoveryFacts                                                           *)

\* The inductive invariant: a row holds facts, and a checkpoint that the runner of
\* its task writes.
FactsInv == rowFacts \in Facts /\ rowFacts.checkpoint \in CheckpointsOf(rowFacts.taskType)

\* The classifier's tests of a task that is to run by itself, in no order.
MayRunByItself(f) ==
  /\ f.gateOpen /\ f.taskType \in RecoverableTask \cup DirectTask
  /\ f.status \notin {"completed", "cancelled"} /\ ~f.cancelRequested
  /\ f.projectExists /\ f.targetExists /\ f.metadata = "current"
  /\ \/ FinalEntity(f)
     \/ /\ f.attemptsLeft /\ ~f.graceful /\ f.parse = "readable"
        /\ ClassifyByType(f).auto
        /\ ClassifyByType(f).action = "auto-restart" => f.credential

\* What the five decisions say of restarting and of running by itself.
LEMMA DecisionFields ==
  /\ NonRecoverable.action = "none" /\ NonRecoverable.auto = FALSE
  /\ \A b \in BOOLEAN : /\ ManualRequired(b).action # "auto-restart"
                        /\ ManualRequired(b).auto = FALSE
  /\ Resumable.action = "auto-resume" /\ Resumable.auto = TRUE
  /\ Restartable.action = "auto-restart" /\ Restartable.auto = TRUE
BY DEF NonRecoverable, ManualRequired, Resumable, Restartable, Decision

\* Nothing but a row that reads runs by itself, unless its final entity is stored.
LEMMA OnlyReadableRunsByType ==
  ASSUME NEW f, f.parse = "corrupt" PROVE ClassifyByType(f).auto = FALSE
BY DecisionFields
DEF ClassifyByType, ClassifyChapterGeneration, ClassifyOutlineGeneration, ClassifyChapterPolish

\* classifyTaskRecovery lets a task run by itself exactly if every one of its tests
\* would.
LEMMA RunsByItself ==
  ASSUME NEW f \in Facts
  PROVE  /\ ClassifyTaskRecovery(f).auto <=> MayRunByItself(f)
         /\ ClassifyTaskRecovery(f).action = "auto-restart" =>
              /\ ClassifyByType(f).action = "auto-restart" /\ f.credential
<1>1. /\ f.parse \in {"readable", "corrupt", "unsupported"}
      /\ f.metadata \in {"older", "current", "future"}
      /\ f.gateOpen \in BOOLEAN /\ f.cancelRequested \in BOOLEAN /\ f.projectExists \in BOOLEAN
      /\ f.targetExists \in BOOLEAN /\ f.attemptsLeft \in BOOLEAN /\ f.graceful \in BOOLEAN
      /\ f.credential \in BOOLEAN
  BY DEF Facts
<1>2. ClassifyByType(f).auto \in BOOLEAN
  BY DecisionFields
  DEF ClassifyByType, ClassifyChapterGeneration, ClassifyOutlineGeneration, ClassifyChapterPolish
<1> DEFINE d == ClassifyByType(f)
<1>3. f.parse = "corrupt" => d.auto = FALSE
  BY OnlyReadableRunsByType
<1> HIDE DEF d
<1>4. /\ NeedsCredential(f, d).auto <=> d.auto /\ (d.action = "auto-restart" => f.credential)
      /\ NeedsCredential(f, d).action = "auto-restart" => d.action = "auto-restart" /\ f.credential
  <2>1. CASE d.action = "auto-restart" /\ ~f.credential
    BY <2>1, DecisionFields DEF NeedsCredential
  <2>2. CASE ~(d.action = "auto-restart" /\ ~f.credential)
    <3>1. NeedsCredential(f, d) = d
      BY <2>2 DEF NeedsCredential
    <3> QED
      BY <3>1, <2>2
  <2> QED
    BY <2>1, <2>2
<1> QED
  BY <1>1, <1>2, <1>3, <1>4, DecisionFields DEF ClassifyTaskRecovery, MayRunByItself, d

\* What is left of a classification when facts got worse: no fact that recovery
\* relies on came back, and the task is the one it was.
NoBetter(g, f) ==
  /\ g.taskType = f.taskType /\ g.status = f.status /\ g.checkpoint = f.checkpoint
  /\ g.requestValid = f.requestValid /\ g.entity = f.entity
  /\ \/ g.phase = f.phase
     \/ g.cancelRequested \/ g.graceful
  /\ f.cancelRequested => g.cancelRequested
  /\ f.graceful => g.graceful
  /\ g.attemptsLeft => f.attemptsLeft
  /\ g.projectExists => f.projectExists
  /\ g.targetExists => f.targetExists
  /\ g.credential => f.credential
  /\ g.gateOpen => f.gateOpen
  /\ g.parse = "readable" => f.parse = "readable"
  /\ g.metadata = "current" => f.metadata = "current"

\* A late decision is as safe as an early one.
LEMMA LateIsAsSafe ==
  ASSUME NEW f \in Facts, NEW g \in Facts, NoBetter(g, f), ClassifyTaskRecovery(g).auto
  PROVE  ClassifyTaskRecovery(f).auto
<1>1. MayRunByItself(g)
  BY RunsByItself
<1>2. FinalEntity(f) <=> FinalEntity(g)
  BY DEF FinalEntity, NoBetter
<1>3. ASSUME ~FinalEntity(g)
      PROVE  ClassifyByType(f) = ClassifyByType(g)
  <2>1. f.phase = g.phase /\ f.parse = "readable" /\ g.parse = "readable"
    BY <1>1, <1>3 DEF MayRunByItself, NoBetter
  <2> QED
    BY <2>1, <1>2, <1>3 DEF NoBetter, ClassifyByType, ClassifyChapterGeneration,
       ClassifyOutlineGeneration, ClassifyChapterPolish
<1>4. MayRunByItself(f)
  BY <1>1, <1>2, <1>3 DEF MayRunByItself, NoBetter
<1> QED
  BY <1>4, RunsByItself

\* A restart is decided only before anything shows a call of the model.
LEMMA RestartsBeforeTheCall ==
  ASSUME FactsInv, Decided.action = "auto-restart"
  PROVE  NoCallWasMade /\ rowFacts.credential
<1> DEFINE c == rowFacts.checkpoint
           type == rowFacts.taskType
<1>1. rowFacts.credential /\ ClassifyByType(rowFacts).action = "auto-restart"
  BY RunsByItself DEF FactsInv, Decided
<1>2. /\ c \in CheckpointsOf(type) /\ rowFacts.phase \in Phase
  BY DEF FactsInv, Facts
<1>3. CASE type = "chapter-generation"
  <2>1. rowFacts.phase \in BeforeModel /\ ~c.body
    BY <1>1, <1>3, DecisionFields DEF ClassifyByType, ClassifyChapterGeneration
  <2>2. c.stage \in {"null"} \cup ChapterStage
    BY <1>2, <1>3 DEF CheckpointsOf, NoCheckpoint, Checkpoint, ChapterStage
  <2> QED
    BY <1>1, <2>1, <2>2 DEF NoCallWasMade, ChapterStage
<1>4. CASE type = "outline-generation"
  <2>1. rowFacts.phase \in BeforeModel /\ c.stage # "model" /\ ~OutlineComplete(c)
    BY <1>1, <1>4, DecisionFields DEF ClassifyByType, ClassifyOutlineGeneration
  <2>2. c.stage \in {"null"} \cup OutlineStage /\ ~c.body
    BY <1>2, <1>4 DEF CheckpointsOf, NoCheckpoint, Checkpoint, OutlineStage
  <2> QED
    BY <1>1, <2>1, <2>2 DEF NoCallWasMade, OutlineComplete, OutlineStage
<1>5. CASE type = "chapter-polish"
  <2>1. rowFacts.phase \in BeforeModel /\ c.stage = "null"
    BY <1>1, <1>5, DecisionFields DEF ClassifyByType, ClassifyChapterPolish
  <2>2. ~c.body
    BY <1>2, <1>5 DEF CheckpointsOf, NoCheckpoint, Checkpoint, PolishStage
  <2> QED
    BY <1>1, <2>1, <2>2 DEF NoCallWasMade
<1>6. CASE type \notin {"chapter-generation", "outline-generation", "chapter-polish"}
  <2>1. ClassifyByType(rowFacts) = NonRecoverable
    BY <1>6 DEF ClassifyByType
  <2> QED
    BY <1>1, <2>1, DecisionFields
<1> QED
  BY <1>3, <1>4, <1>5, <1>6

\* The combinations a run begins with are facts.
LEMMA FactsBegin == ClassifierInit => FactsInv
<1> SUFFICES ASSUME ClassifierInit PROVE FactsInv
  OBVIOUS
<1>1. PICK type \in Types, s \in Status, e \in BOOLEAN :
        \E c \in CheckpointsOf(type), p \in PhasesOf(s) :
          /\ Consistent(type, s, p, c, e)
          /\ rowFacts = [taskType |-> type, status |-> s,
                  cancelRequested |-> s = "cancelled",
                  phase |-> p, checkpoint |-> c, parse |-> "readable",
                  metadata |-> "current", requestValid |-> TRUE, entity |-> e,
                  attemptsLeft |-> TRUE, graceful |-> FALSE,
                  projectExists |-> TRUE, targetExists |-> TRUE,
                  credential |-> TRUE, gateOpen |-> TRUE]
  BY Zenon DEF ClassifierInit
<1>7. PICK c \in CheckpointsOf(type), p \in PhasesOf(s) :
        rowFacts = [taskType |-> type, status |-> s, cancelRequested |-> s = "cancelled",
                    phase |-> p, checkpoint |-> c, parse |-> "readable",
                    metadata |-> "current", requestValid |-> TRUE, entity |-> e,
                    attemptsLeft |-> TRUE, graceful |-> FALSE,
                    projectExists |-> TRUE, targetExists |-> TRUE,
                    credential |-> TRUE, gateOpen |-> TRUE]
  BY <1>1, Zenon
<1>2. type \in TaskType
  BY BoundsAssumption
<1>3. p \in Phase
  BY DEF PhasesOf, Phase, Status
<1>4. c \in CheckpointRecord
  BY DEF CheckpointsOf
<1>5. (s = "cancelled") \in BOOLEAN
  OBVIOUS
<1> HIDE DEF CheckpointsOf
<1> QED
  BY <1>7, <1>2, <1>3, <1>4, <1>5 DEF FactsInv, Facts

\* The facts stay facts, of the same task, and no better than they were.
LEMMA FactsStep ==
  ASSUME FactsInv, ClassifierNext
  PROVE  FactsInv' /\ NoBetter(rowFacts', rowFacts)
<1> DEFINE f == rowFacts
<1>0. f \in Facts /\ f.checkpoint \in CheckpointsOf(f.taskType)
  BY DEF FactsInv
<1>1. CASE Interrupt
  <2>1. CASE f' = [f EXCEPT !.cancelRequested = TRUE, !.phase = "cancelled"]
    <3>1. f' \in Facts /\ NoBetter(f', f)
      BY <1>0, <2>1 DEF Facts, Phase, NoBetter
    <3> QED
      BY <1>0, <3>1 DEF FactsInv, NoBetter
  <2>2. CASE f' = [f EXCEPT !.graceful = TRUE, !.phase = "queued"]
    <3>1. f' \in Facts /\ NoBetter(f', f)
      BY <1>0, <2>2 DEF Facts, Phase, NoBetter
    <3> QED
      BY <1>0, <3>1 DEF FactsInv, NoBetter
  <2> QED
    BY <1>1, <2>1, <2>2 DEF Interrupt
<1>2. CASE Lose
  <2>1. PICK x \in {"attemptsLeft", "projectExists", "targetExists", "credential", "gateOpen"} :
          f' = [f EXCEPT ![x] = FALSE]
    BY <1>2 DEF Lose
  <2>2. f' \in Facts /\ NoBetter(f', f)
    BY <1>0, <2>1 DEF Facts, NoBetter
  <2> QED
    BY <1>0, <2>2 DEF FactsInv, NoBetter
<1>3. CASE Misread
  <2>1. f' \in Facts /\ NoBetter(f', f)
    BY <1>0, <1>3 DEF Misread, Facts, NoBetter
  <2> QED
    BY <1>0, <2>1 DEF FactsInv, NoBetter
<1> QED
  BY <1>1, <1>2, <1>3 DEF ClassifierNext

\* classifyTaskRecovery, at the start and again when a worker comes to the task: a
\* restart is decided only before any sign of a model call, and whatever is lost
\* between two decisions the second allows nothing that the first did not.
THEOREM LateDecisionsAreSafe == ClassifierSpec => AutoRepeatsNoCall
<1>1. FactsInv /\ [ClassifierNext]_rowFacts => FactsInv'
  BY FactsStep DEF FactsInv
<1>2. FactsInv /\ [ClassifierNext]_rowFacts =>
        [/\ Decided.action = "auto-restart" => NoCallWasMade /\ rowFacts.credential
         /\ ClassifyTaskRecovery(rowFacts').auto => Decided.auto]_rowFacts
  <2> SUFFICES ASSUME FactsInv, ClassifierNext
               PROVE  /\ Decided.action = "auto-restart" => NoCallWasMade /\ rowFacts.credential
                      /\ ClassifyTaskRecovery(rowFacts').auto => Decided.auto
    OBVIOUS
  <2>1. FactsInv' /\ NoBetter(rowFacts', rowFacts)
    BY FactsStep
  <2>2. rowFacts \in Facts /\ rowFacts' \in Facts
    BY <2>1 DEF FactsInv
  <2> QED
    BY <2>1, <2>2, RestartsBeforeTheCall, LateIsAsSafe DEF Decided
<1> QED
  BY <1>1, <1>2, FactsBegin, PTL DEF ClassifierSpec, AutoRepeatsNoCall

-----------------------------------------------------------------------------
(* StoredTask                                                              *)

\* The columns that decisions read.
RowFields == {"type", "status", "phase", "input", "checkpoint", "result",
              "classification", "leased", "fields", "content"}

\* What a runner of a generation, or of a polish, holds between two damages.
ChapterCheckpoint ==
  {c \in [stage : Stages, body : Texts, summary : Texts, fact_check_text : Texts,
          fact_check : {"null", "whole"}, version_id : {"null", "text"},
          source_content : {Absent, "text"}, source_chapter_version : {Absent, "number"},
          context_source_snapshot : {Absent, "snapshot"},
          stage_compiles : {"record", "compiles"}] :
     c.stage_compiles = "compiles" => c.context_source_snapshot = "snapshot"}
PolishCheckpoint ==
  [operation : {"paragraph_revision", "chapter_polish"}, status : PolishStatus,
   source_content : Texts, generated_content : Texts, revision_id : {"null", "text"},
   error : {"null", "text"}, applied : {"yes", "no"}]
RunnerCheckpoint(type) ==
  IF type = "chapter-generation" THEN ChapterCheckpoint ELSE PolishCheckpoint

\* The request a row is written for, and the row's copy of it.
RowIsOfItsRequest ==
  /\ demand \in Requests
  /\ DOMAIN taskRow = RowFields
  /\ taskRow.fields = ToPersistedInput(demand.type, demand.request, demand.llm)
\* Until bytes are harmed, memory and row hold what a runner writes.
NothingIsHarmed ==
  /\ inHand # <<>> => \E c \in RunnerCheckpoint(demand.type) : inHand = <<c>>
  /\ taskRow.content # <<>> =>
       \E c \in RunnerCheckpoint(demand.type) : taskRow.content = <<Written(demand.type, c)>>
StoredInv ==
  /\ RowIsOfItsRequest
  /\ damages \in Nat
  /\ damages = 0 => NothingIsHarmed

\* A row that does not read is closed, and keeps what read.
LEMMA ClosingARow ==
  ASSUME DOMAIN taskRow = RowFields PROVE UnreadableRowIsClosed
<1> DEFINE closed == ClosedRow(taskRow)
           corrupt == MarkTaskCorrupt(taskRow)
<1>1. /\ closed.status = "failed" /\ closed.phase = "failed" /\ closed.leased = FALSE
      /\ closed.classification = "non-recoverable"
      /\ closed.input = taskRow.input /\ closed.checkpoint = taskRow.checkpoint
      /\ closed.result = taskRow.result /\ DOMAIN closed = RowFields
  BY DEF ClosedRow, RowFields
<1>2. /\ corrupt.status = "failed" /\ corrupt.phase = "failed" /\ corrupt.leased = FALSE
      /\ corrupt.classification = "non-recoverable"
      /\ corrupt.input = Preserved(closed.input, "object")
      /\ corrupt.checkpoint = Preserved(closed.checkpoint, "null")
      /\ corrupt.result = Preserved(closed.result, "null")
  BY <1>1 DEF MarkTaskCorrupt, RowFields
<1>3. RowReads(corrupt)
  BY <1>2 DEF RowReads, Columns, Preserved, Statuses, Phases
<1>4. \A c \in Columns : taskRow[c] # "broken" => corrupt[c] = taskRow[c]
  BY <1>1, <1>2 DEF Columns, Preserved
<1>5. \A c \in Columns : closed[c] = taskRow[c]
  BY <1>1 DEF Columns
<1> HIDE DEF closed, corrupt
<1>6. NormalizeUnreadableRow(taskRow) \in {closed, corrupt}
  BY DEF NormalizeUnreadableRow, closed, corrupt
<1>7. NormalizeUnreadableRow(taskRow) = closed => RowReads(closed) \/ closed = corrupt
  BY DEF NormalizeUnreadableRow, closed, corrupt
<1> DEFINE chosen == NormalizeUnreadableRow(taskRow)
<1> HIDE DEF chosen
<1>8. /\ RowReads(chosen) /\ ~chosen.leased
      /\ chosen.status = "failed" /\ chosen.classification = "non-recoverable"
      /\ \A c \in Columns : taskRow[c] # "broken" => chosen[c] = taskRow[c]
  <2>1. CASE chosen = corrupt  BY <2>1, <1>2, <1>3, <1>4
  <2>2. CASE chosen = closed  BY <2>2, <1>1, <1>2, <1>3, <1>4, <1>5, <1>7 DEF chosen
  <2> QED  BY <2>1, <2>2, <1>6 DEF chosen
<1> QED  BY <1>8 DEF UnreadableRowIsClosed, chosen

\* What a writer writes the strict parser accepts, and the runner reads back as it
\* was: for a generation,
LEMMA GenerationReadsBack ==
  ASSUME NEW c \in ChapterCheckpoint
  PROVE  /\ StrictAccepts(CheckpointToJson(c))
         /\ CheckpointFromJson(CheckpointToJson(c)) = c
<1> DEFINE v == CheckpointToJson(c)
<1>1. /\ v.schema_version = "current" /\ v.stage = c.stage /\ v.body = c.body
      /\ v.summary = c.summary /\ v.fact_check_text = c.fact_check_text
      /\ v.fact_check = c.fact_check /\ v.version_id = c.version_id
      /\ v.source_content = c.source_content
      /\ v.source_chapter_version = c.source_chapter_version
      /\ v.context_source_snapshot = c.context_source_snapshot
      /\ v.stage_compiles = c.stage_compiles
  BY DEF CheckpointToJson
<1> HIDE DEF v
<1>2. StrictAccepts(v)
  BY <1>1 DEF StrictAccepts, ChapterCheckpoint, TextFields, Texts, SnapshotValid,
              StageCompilesValid, Absent
<1>3. GoOnFrom(v) =
        [stage |-> c.stage, body |-> c.body, summary |-> c.summary,
         fact_check_text |-> c.fact_check_text, fact_check |-> c.fact_check,
         version_id |-> c.version_id, source_content |-> c.source_content,
         source_chapter_version |-> c.source_chapter_version,
         context_source_snapshot |-> c.context_source_snapshot,
         stage_compiles |-> c.stage_compiles]
  BY <1>1 DEF GoOnFrom, ChapterCheckpoint, Texts, Absent, Kept, ParseFactCheck,
              ParseStageCompiles
<1>4. GoOnFrom(v) = c
  BY <1>3 DEF ChapterCheckpoint
<1>5. CheckpointFromJson(v) = c
  BY <1>1, <1>4 DEF CheckpointFromJson, ChapterCheckpoint
<1> QED  BY <1>2, <1>5 DEF v

\* and for a polish.
LEMMA PolishReadsBack ==
  ASSUME NEW c \in PolishCheckpoint
  PROVE  /\ StrictPolishAccepts(PolishCheckpointToJson(c))
         /\ StrictPolishCheckpoint(PolishCheckpointToJson(c)) = c
<1> DEFINE v == PolishCheckpointToJson(c)
<1>1. /\ v.schema_version = "current" /\ v.operation = c.operation
      /\ v.status = c.status /\ v.source_content = c.source_content
      /\ v.generated_content = c.generated_content /\ v.revision_id = c.revision_id
      /\ v.error = c.error /\ v.applied = c.applied
  BY DEF PolishCheckpointToJson
<1> HIDE DEF v
<1>2. StrictPolishAccepts(v)
  BY <1>1 DEF StrictPolishAccepts, PolishCheckpoint, Texts, Absent
<1>3. StrictPolishCheckpoint(v) =
        [operation |-> c.operation, status |-> c.status,
         source_content |-> c.source_content, generated_content |-> c.generated_content,
         revision_id |-> c.revision_id, error |-> c.error, applied |-> c.applied]
  BY <1>1 DEF StrictPolishCheckpoint, PolishCheckpoint, Texts
<1>4. StrictPolishCheckpoint(v) = c
  BY <1>3 DEF PolishCheckpoint
<1> QED  BY <1>2, <1>4 DEF v

\* Together.
LEMMA WrittenReadsBack ==
  ASSUME NEW type, NEW c \in RunnerCheckpoint(type)
  PROVE  StrictlyReads(type, Written(type, c)) /\ ReadBack(type, Written(type, c)) = c
BY GenerationReadsBack, PolishReadsBack DEF RunnerCheckpoint, StrictlyReads, ReadBack, Written

\* Where bytes were changed, classifier and runner still agree.
LEMMA ParsersAgree ==
  ASSUME NEW v, StrictAccepts(v)
  PROVE  \A f \in DOMAIN StrictCheckpoint(v) :
           CheckpointFromJson(v)[f] = StrictCheckpoint(v)[f]
<1>1. CheckpointFromJson(v) = GoOnFrom(v)
  BY DEF CheckpointFromJson, StrictAccepts
<1> QED  BY <1>1 DEF GoOnFrom, StrictCheckpoint

\* The parsed requests.
ChapterRequests ==
  [chapter_outline_id : {"text", "key"}, chapter_id : {Absent, "text"},
   auto_confirm : {Absent, "yes", "no"}, debug : {Absent, "yes"}]
PolishRequests ==
  [chapter_id : {"text"}, mode : {"chapter", "paragraph"}, block_id : {Absent, "text"},
   instruction : {Absent, "text", "key"}, source_revision_id : {Absent, "text"},
   auto_apply : {Absent, "yes", "no"}]

\* What a request is made of.
LEMMA RequestsAreParsed ==
  ASSUME NEW a \in Requests
  PROVE  /\ a.type \in {"chapter-generation", "chapter-polish"}
         /\ a.llm \in LlmForm
         /\ a.type = "chapter-generation" => a.request \in ChapterRequests
         /\ a.type = "chapter-polish" => a.request \in PolishRequests
<1>1. CASE \E f \in ChapterForm, l \in {x \in LlmForm : x.maxOutputTokens = Absent} :
             a = [type |-> "chapter-generation", request |-> ParseChapterForm(f), llm |-> l]
  <2>1. PICK f \in ChapterForm, l \in LlmForm :
          a = [type |-> "chapter-generation", request |-> ParseChapterForm(f), llm |-> l]
    BY <1>1
  <2>2. ParseChapterForm(f) \in ChapterRequests
    BY DEF ParseChapterForm, ChapterForm, ChapterRequests, Unset, Absent
  <2> QED  BY <2>1, <2>2
<1>2. CASE \E f \in {x \in PolishForm : PolishFormAccepted(x)} :
             a = [type |-> "chapter-polish", llm |-> PlainLlm,
                  request |-> ChapterPolishRequest(ParsePolishForm(f))]
  <2>1. PICK f \in PolishForm :
          a = [type |-> "chapter-polish", llm |-> PlainLlm,
               request |-> ChapterPolishRequest(ParsePolishForm(f))]
    BY <1>2
  <2>3. ChapterPolishRequest(ParsePolishForm(f)) \in PolishRequests
    BY DEF ParsePolishForm, ChapterPolishRequest, PolishForm, PolishRequests, Unset,
           Otherwise, Absent
  <2>4. PlainLlm \in LlmForm
    BY DEF PlainLlm, LlmForm, Absent
  <2> QED  BY <2>1, <2>3, <2>4
<1> QED  BY <1>1, <1>2 DEF Requests

\* A row keeps of a request all that its runner reads.
LEMMA RequestIsKept ==
  ASSUME NEW a \in Requests
  PROVE  LET input == InputFromTask(ToPersistedInput(a.type, a.request, a.llm)) IN
           ReadRequest(a.type, input.request, input.llm)
             = ReadRequest(a.type, a.request, a.llm)
<1> DEFINE kept == [k \in DOMAIN a.llm \ {"timeoutMs"} |-> a.llm[k]]
<1>1. /\ a.type \in {"chapter-generation", "chapter-polish"}
      /\ a.llm \in LlmForm
      /\ a.type = "chapter-generation" => a.request \in ChapterRequests
      /\ a.type = "chapter-polish" => a.request \in PolishRequests
  BY RequestsAreParsed
<1>2. MinimizePersistedRequest(a.type, a.request) = a.request
  <2>1. CASE a.type = "chapter-generation"
    BY <1>1, <2>1 DEF MinimizePersistedRequest, ChapterRequests, Kept, Texts, Absent
  <2>2. CASE a.type = "chapter-polish"
    BY <1>1, <2>2 DEF MinimizePersistedRequest, PolishRequests, Kept, Texts, Absent
  <2> QED  BY <1>1, <2>1, <2>2
<1>3. /\ kept.temperature = a.llm.temperature
      /\ kept.maxOutputTokens = a.llm.maxOutputTokens
      /\ kept.contextBudget = a.llm.contextBudget
  BY <1>1 DEF LlmForm
<1> HIDE DEF kept
<1>4. ModelParams(kept) = ModelParams(a.llm)
  BY <1>3 DEF ModelParams
<1>5. InputFromTask(ToPersistedInput(a.type, a.request, a.llm))
        = [request |-> a.request, llm |-> kept]
  BY <1>2 DEF InputFromTask, ToPersistedInput, kept
<1>6. ReadRequest(a.type, a.request, kept) = ReadRequest(a.type, a.request, a.llm)
  BY <1>4 DEF ReadRequest, ReadChapterRequest
<1> QED  BY <1>5, <1>6

\* A generation and a polish write what they may write, whatever they go on from.
LEMMA RunnersGoOn ==
  ASSUME NEW type \in {"chapter-generation", "chapter-polish"}, NEW b \in RunnerCheckpoint(type),
         NEW c \in IF type = "chapter-generation" THEN GenerationGoesOn(b)
                   ELSE PolishGoesOn(b)
  PROVE  c \in RunnerCheckpoint(type)
<1>1. CASE type = "chapter-generation"
  <2>1. b \in ChapterCheckpoint /\ c \in GenerationGoesOn(b)
    BY <1>1 DEF RunnerCheckpoint
  <2>2. b.context_source_snapshot = "snapshot"
    BY <2>1 DEF GenerationGoesOn, ChapterCheckpoint
  <2>3. \/ c = [b EXCEPT !.stage_compiles = "compiles"]
        \/ c = [b EXCEPT !.body = "text"]
        \/ c = [b EXCEPT !.body = "text", !.stage = "summary"]
        \/ c = [b EXCEPT !.summary = "text"]
        \/ c = [b EXCEPT !.summary = "text", !.stage = "fact_check"]
        \/ c = [b EXCEPT !.fact_check_text = "text"]
        \/ c = [b EXCEPT !.fact_check_text = "text", !.fact_check = "whole",
                         !.stage = "saving"]
        \/ c = [b EXCEPT !.stage = "review", !.version_id = "text"]
    <3>1. CASE c = [b EXCEPT !.stage_compiles = "compiles"]  BY <3>1
    <3>2. CASE c # [b EXCEPT !.stage_compiles = "compiles"]
      <4>1. CASE b.stage = "body"  BY <2>1, <2>2, <3>2, <4>1 DEF GenerationGoesOn, Absent
      <4>2. CASE b.stage = "summary"  BY <2>1, <2>2, <3>2, <4>2 DEF GenerationGoesOn, Absent
      <4>3. CASE b.stage = "fact_check"
        BY <2>1, <2>2, <3>2, <4>3 DEF GenerationGoesOn, Absent
      <4>4. CASE b.stage \notin {"body", "summary", "fact_check"}
        BY <2>1, <2>2, <3>2, <4>4 DEF GenerationGoesOn, Absent
      <4> QED  BY <4>1, <4>2, <4>3, <4>4
    <3> QED  BY <3>1, <3>2, Zenon
  <2>4. c \in ChapterCheckpoint
    <3> USE <2>1, <2>2 DEF ChapterCheckpoint, Stages, Texts
    <3>1. CASE c = [b EXCEPT !.stage_compiles = "compiles"]  BY <3>1
    <3>2. CASE c = [b EXCEPT !.body = "text"]  BY <3>2
    <3>3. CASE c = [b EXCEPT !.body = "text", !.stage = "summary"]  BY <3>3
    <3>4. CASE c = [b EXCEPT !.summary = "text"]  BY <3>4
    <3>5. CASE c = [b EXCEPT !.summary = "text", !.stage = "fact_check"]  BY <3>5
    <3>6. CASE c = [b EXCEPT !.fact_check_text = "text"]  BY <3>6
    <3>7. CASE c = [b EXCEPT !.fact_check_text = "text", !.fact_check = "whole",
                            !.stage = "saving"]  BY <3>7
    <3>8. CASE c = [b EXCEPT !.stage = "review", !.version_id = "text"]  BY <3>8
    <3> QED  BY <2>3, <3>1, <3>2, <3>3, <3>4, <3>5, <3>6, <3>7, <3>8
  <2> QED  BY <1>1, <2>4 DEF RunnerCheckpoint
<1>2. CASE type = "chapter-polish"
  <2>1. b \in PolishCheckpoint /\ c \in PolishGoesOn(b)
    BY <1>2 DEF RunnerCheckpoint
  <2>2. ASSUME NEW t \in {"blank", "text"} PROVE Reapplied(b, t) \in PolishCheckpoint
    BY <2>1 DEF Reapplied, PolishCheckpoint, Texts
  <2>3. ASSUME NEW g \in Texts PROVE Streaming(b, g) \in PolishCheckpoint
    BY <2>1 DEF Streaming, PolishCheckpoint, PolishStatus
  <2>4. ASSUME NEW end \in {"fallback", "cancelled"}, NEW g \in Texts
        PROVE  GivenUp(b, end, g) \in PolishCheckpoint
    BY <2>3 DEF GivenUp, PolishCheckpoint, PolishStatus
  <2>5. Polished(b) \in PolishCheckpoint
    <3>1. Streaming(b, "text") \in PolishCheckpoint
      BY <2>3 DEF Texts
    <3> QED  BY <3>1 DEF Polished, PolishCheckpoint, PolishStatus
  <2>6. c \in PolishCheckpoint
    BY <2>1, <2>2, <2>3, <2>4, <2>5 DEF PolishGoesOn, Texts
  <2> QED  BY <1>2, <2>6 DEF RunnerCheckpoint
<1> QED  BY <1>1, <1>2

\* What the first checkpoint holds, and what fixing the sources adds.
LEMMA FirstIsACheckpoint ==
  ASSUME NEW a \in Requests PROVE FirstCheckpoint(a) \in RunnerCheckpoint(a.type)
<1>1. a.type \in {"chapter-generation", "chapter-polish"}
  BY RequestsAreParsed
<1>2. EmptyCheckpoint \in ChapterCheckpoint
  BY DEF EmptyCheckpoint, ChapterCheckpoint, Stages, Texts, Absent
<1>3. [operation |-> IF a.request.mode = "paragraph" THEN "paragraph_revision"
                     ELSE "chapter_polish",
       status |-> "running", source_content |-> "text", generated_content |-> "blank",
       revision_id |-> "null", error |-> "null", applied |-> "no"] \in PolishCheckpoint
  BY DEF PolishCheckpoint, PolishStatus, Texts
<1> QED  BY <1>1, <1>2, <1>3 DEF FirstCheckpoint, RunnerCheckpoint

\* Fixing the sources makes no other kind of checkpoint.
LEMMA PreparedIsACheckpoint ==
  ASSUME NEW c \in ChapterCheckpoint PROVE Prepared(c) \in ChapterCheckpoint
BY DEF Prepared, ChapterCheckpoint, Stages, Texts

\* The invariant holds first,
LEMMA StoredStart ==
  ASSUME StoredInit PROVE StoredInv
<1>1. /\ demand \in Requests /\ inHand = <<FirstCheckpoint(demand)>> /\ damages = 0
      /\ taskRow = NewTaskRow(demand.type,
                              ToPersistedInput(demand.type, demand.request, demand.llm))
  BY DEF StoredInit
<1>2. /\ DOMAIN taskRow = RowFields /\ taskRow.content = <<>>
      /\ taskRow.fields = ToPersistedInput(demand.type, demand.request, demand.llm)
  BY <1>1 DEF NewTaskRow, RowFields
<1>3. FirstCheckpoint(demand) \in RunnerCheckpoint(demand.type)
  BY <1>1, FirstIsACheckpoint
<1> QED  BY <1>1, <1>2, <1>3 DEF StoredInv, RowIsOfItsRequest, NothingIsHarmed

\* and every step of a runner, of the disk or of a reader keeps it.
LEMMA StoredStep ==
  ASSUME StoredInv, [StoredNext]_storedVars PROVE StoredInv'
<1> USE DEF StoredInv
<1>1. CASE FixSources
  <2>1. /\ demand.type = "chapter-generation" /\ inHand # <<>>
        /\ inHand' = <<Prepared(inHand[1])>> /\ UNCHANGED <<demand, taskRow, damages>>
    BY <1>1 DEF FixSources
  <2>2. RowIsOfItsRequest'
    BY <2>1 DEF RowIsOfItsRequest
  <2>3. ASSUME damages = 0 PROVE NothingIsHarmed'
    <3>1. PICK c \in RunnerCheckpoint(demand.type) : inHand = <<c>>
      BY <2>1, <2>3 DEF NothingIsHarmed
    <3>2. Prepared(c) \in RunnerCheckpoint(demand.type) /\ inHand' = <<Prepared(c)>>
      BY <2>1, <3>1, PreparedIsACheckpoint DEF RunnerCheckpoint
    <3> QED  BY <2>1, <2>3, <3>2 DEF NothingIsHarmed
  <2> QED  BY <2>1, <2>2, <2>3
<1>2. CASE SaveCheckpoint
  <2>1. PICK c \in IF demand.type = "chapter-generation" THEN GenerationGoesOn(inHand[1])
                   ELSE PolishGoesOn(inHand[1]) :
          /\ inHand' = <<c>>
          /\ taskRow' = [taskRow EXCEPT !.checkpoint = "object",
                                        !.phase = "persisting_result",
                                        !.content = <<Written(demand.type, c)>>]
    BY <1>2 DEF SaveCheckpoint
  <2>2. inHand # <<>> /\ UNCHANGED <<demand, damages>>
    BY <1>2 DEF SaveCheckpoint
  <2>3. /\ DOMAIN taskRow' = RowFields /\ taskRow'.fields = taskRow.fields
        /\ taskRow'.content = <<Written(demand.type, c)>>
    BY <2>1 DEF RowIsOfItsRequest, RowFields
  <2>4. RowIsOfItsRequest'
    BY <2>2, <2>3 DEF RowIsOfItsRequest
  <2>5. ASSUME damages = 0 PROVE NothingIsHarmed'
    <3>1. PICK b \in RunnerCheckpoint(demand.type) : inHand = <<b>>
      BY <2>2, <2>5 DEF NothingIsHarmed
    <3>2. c \in IF demand.type = "chapter-generation" THEN GenerationGoesOn(b)
                ELSE PolishGoesOn(b)
      BY <2>1, <3>1
    <3>3. demand.type \in {"chapter-generation", "chapter-polish"}
      BY RequestsAreParsed DEF RowIsOfItsRequest
    <3>4. c \in RunnerCheckpoint(demand.type)
      BY <3>2, <3>3, RunnersGoOn
    <3> QED  BY <2>1, <2>2, <2>3, <3>4 DEF NothingIsHarmed
  <2> QED  BY <2>2, <2>4, <2>5
<1>3. CASE Finish
  <2>1. PICK end : taskRow' = [taskRow EXCEPT !.status = end, !.phase = end,
                                              !.result = "object", !.leased = FALSE]
    BY <1>3 DEF Finish
  <2>2. inHand' = <<>> /\ UNCHANGED <<demand, damages>>
    BY <1>3 DEF Finish
  <2>3. /\ DOMAIN taskRow' = RowFields /\ taskRow'.fields = taskRow.fields
        /\ taskRow'.content = taskRow.content
    BY <2>1 DEF RowIsOfItsRequest, RowFields
  <2> QED  BY <2>2, <2>3 DEF RowIsOfItsRequest, NothingIsHarmed
<1>4. CASE Die
  BY <1>4 DEF Die, RowIsOfItsRequest, NothingIsHarmed
<1>5. CASE Harm
  <2>1. damages' = damages + 1 /\ UNCHANGED demand
    BY <1>5 DEF Harm
  <2>2. DOMAIN taskRow' = RowFields /\ taskRow'.fields = taskRow.fields
    <3>1. CASE taskRow' = [taskRow EXCEPT !.status = "foreign"]
      BY <3>1 DEF RowIsOfItsRequest, RowFields
    <3>2. CASE taskRow' = [taskRow EXCEPT !.phase = "foreign"]
      BY <3>2 DEF RowIsOfItsRequest, RowFields
    <3>3. ASSUME NEW c \in Columns, taskRow' = [taskRow EXCEPT ![c] = "broken"]
          PROVE  DOMAIN taskRow' = RowFields /\ taskRow'.fields = taskRow.fields
      BY <3>3 DEF RowIsOfItsRequest, RowFields, Columns
    <3>4. ASSUME NEW f, NEW v, taskRow' = [taskRow EXCEPT !.content[1][f] = v]
          PROVE  DOMAIN taskRow' = RowFields /\ taskRow'.fields = taskRow.fields
      BY <3>4 DEF RowIsOfItsRequest, RowFields
    <3> QED  BY <1>5, <3>1, <3>2, <3>3, <3>4 DEF Harm
  <2>3. damages' # 0 /\ damages' \in Nat
    BY <2>1
  <2> QED  BY <2>1, <2>2, <2>3 DEF RowIsOfItsRequest
<1>6. CASE ReadRow
  <2>1. taskRow' = NormalizeUnreadableRow(taskRow) /\ UNCHANGED <<demand, inHand, damages>>
    BY <1>6 DEF ReadRow
  <2>2. taskRow' = ClosedRow(taskRow) \/ taskRow' = MarkTaskCorrupt(taskRow)
    BY <2>1 DEF NormalizeUnreadableRow
  <2>3. /\ DOMAIN taskRow' = RowFields /\ taskRow'.fields = taskRow.fields
        /\ taskRow'.content = taskRow.content
    BY <2>2 DEF ClosedRow, MarkTaskCorrupt, RowIsOfItsRequest, RowFields
  <2> QED  BY <2>1, <2>3 DEF RowIsOfItsRequest, NothingIsHarmed
<1>7. CASE Resume
  <2>1. inHand = <<>> /\ UNCHANGED <<demand, damages>>
    BY <1>7 DEF Resume
  <2>2. CASE taskRow.content = <<>>
    <3>1. inHand' = <<FirstCheckpoint(demand)>> /\ UNCHANGED taskRow
      BY <1>7, <2>2 DEF Resume
    <3>2. FirstCheckpoint(demand) \in RunnerCheckpoint(demand.type)
      BY FirstIsACheckpoint DEF RowIsOfItsRequest
    <3> QED  BY <2>1, <3>1, <3>2 DEF RowIsOfItsRequest, NothingIsHarmed
  <2>3. CASE /\ taskRow.content # <<>>
             /\ StrictlyReads(demand.type, taskRow.content[1])
    <3>1. inHand' = <<ReadBack(demand.type, taskRow.content[1])>> /\ UNCHANGED taskRow
      BY <1>7, <2>3 DEF Resume
    <3>2. RowIsOfItsRequest'
      BY <2>1, <3>1 DEF RowIsOfItsRequest
    <3>3. ASSUME damages = 0 PROVE NothingIsHarmed'
      <4>1. PICK c \in RunnerCheckpoint(demand.type) :
              taskRow.content = <<Written(demand.type, c)>>
        BY <2>3, <3>3 DEF NothingIsHarmed
      <4>2. inHand' = <<c>>
        BY <3>1, <4>1, WrittenReadsBack
      <4> QED  BY <2>1, <3>1, <3>3, <4>2 DEF NothingIsHarmed
    <3> QED  BY <2>1, <3>2, <3>3
  <2>4. CASE /\ taskRow.content # <<>>
             /\ ~StrictlyReads(demand.type, taskRow.content[1])
    <3>1. taskRow' = ClosedRow(taskRow) /\ UNCHANGED inHand
      BY <1>7, <2>4 DEF Resume
    <3>2. /\ DOMAIN taskRow' = RowFields /\ taskRow'.fields = taskRow.fields
          /\ taskRow'.content = taskRow.content
      BY <3>1 DEF ClosedRow, RowIsOfItsRequest, RowFields
    <3> QED  BY <2>1, <3>1, <3>2 DEF RowIsOfItsRequest, NothingIsHarmed
  <2> QED  BY <2>2, <2>3, <2>4
<1>8. CASE UNCHANGED storedVars
  BY <1>8 DEF storedVars, RowIsOfItsRequest, NothingIsHarmed
<1> QED  BY <1>1, <1>2, <1>3, <1>4, <1>5, <1>6, <1>7, <1>8 DEF StoredNext

\* From the invariant follows what is resumed.
LEMMA StoredMeans ==
  ASSUME StoredInv PROVE ResumesWhatWasLeft
<1>1. UnreadableRowIsClosed
  BY ClosingARow DEF StoredInv, RowIsOfItsRequest
<1>2. LET input == InputFromTask(taskRow.fields) IN
        ReadRequest(demand.type, input.request, input.llm)
          = ReadRequest(demand.type, demand.request, demand.llm)
  BY RequestIsKept DEF StoredInv, RowIsOfItsRequest
<1>3. ASSUME taskRow.content # <<>>, damages = 0
      PROVE  /\ StrictlyReads(demand.type, taskRow.content[1])
             /\ Written(demand.type, ReadBack(demand.type, taskRow.content[1]))
                  = taskRow.content[1]
  <2>1. PICK c \in RunnerCheckpoint(demand.type) : taskRow.content = <<Written(demand.type, c)>>
    BY <1>3 DEF StoredInv, NothingIsHarmed
  <2>2. taskRow.content[1] = Written(demand.type, c)
    BY <2>1
  <2> QED  BY <2>2, WrittenReadsBack
<1>4. ASSUME demand.type = "chapter-generation",
             StrictlyReads(demand.type, taskRow.content[1])
      PROVE  \A f \in DOMAIN StrictCheckpoint(taskRow.content[1]) :
               ReadBack(demand.type, taskRow.content[1])[f]
                 = StrictCheckpoint(taskRow.content[1])[f]
  <2>1. StrictAccepts(taskRow.content[1])
    BY <1>4 DEF StrictlyReads
  <2>2. ReadBack(demand.type, taskRow.content[1])
          = CheckpointFromJson(taskRow.content[1])
    BY <1>4 DEF ReadBack
  <2> QED  BY <2>1, <2>2, ParsersAgree
<1> QED  BY <1>1, <1>2, <1>3, <1>4 DEF ResumesWhatWasLeft

\* A resumed execution has the request and the stage that were left: what the
\* runner reads back is what it wrote, where bytes were changed it goes on from
\* what the classifier decided on, and a row that does not read is closed
\* (taskRepository.ts, chapterGeneration/service.ts, taskRecovery/checkpoints.ts).
THEOREM RunsAreResumedAsLeft == StoredSpec => []ResumesWhatWasLeft
<1>1. StoredInit => StoredInv  BY StoredStart
<1>2. StoredInv /\ [StoredNext]_storedVars => StoredInv'  BY StoredStep
<1>3. StoredInv => ResumesWhatWasLeft  BY StoredMeans
<1> QED  BY <1>1, <1>2, <1>3, PTL DEF StoredSpec

-----------------------------------------------------------------------------
(* The prompt: tokens.                                                     *)

\* Tokens grow with the bytes, and two runs cost no less than one of both.
LEMMA TokensGrow ==
  ASSUME NEW m \in Nat, NEW n \in Nat
  PROVE  /\ Tokens(m) \in Nat
         /\ m <= n => Tokens(m) <= Tokens(n)
         /\ Tokens(m + n) <= Tokens(m) + Tokens(n)
BY DEF Tokens

SofarType == [first : BOOLEAN, tokens : Nat, run : Nat]

\* What the estimate knows after one more text.
LEMMA ExtendType ==
  ASSUME NEW x \in SofarType, NEW t \in TextSize
  PROVE  Extend(x, t) \in SofarType /\ Total(x) \in Nat
<1>1. x.run + (IF x.first THEN 0 ELSE 2) + t.head \in Nat
  BY DEF SofarType, TextSize
<1>2. Tokens(x.run + (IF x.first THEN 0 ELSE 2) + t.head) \in Nat /\ Tokens(x.run) \in Nat
  BY <1>1, TokensGrow DEF SofarType
<1>. QED
  BY <1>1, <1>2 DEF Extend, Total, SofarType, TextSize

\* A separator more, or a run cut in two, costs no less.
LEMMA RunsBetween ==
  ASSUME NEW a \in Nat, NEW c \in Nat, NEW h \in Nat, NEW e \in Nat
  PROVE  /\ Tokens(a + c) \in Nat /\ Tokens(a + h) \in Nat /\ Tokens(e) \in Nat
         /\ Tokens(a + h + 2 + c) \in Nat /\ Tokens(e + 2 + c) \in Nat
         /\ Tokens(a + c) <= Tokens(a + h + 2 + c)
         /\ Tokens(a + c) <= Tokens(a + h) + Tokens(e + 2 + c)
BY DEF Tokens

(***************************************************************************)
(* A text put between never makes the next one cheaper: rounding up and    *)
(* separators only add (estimateTextTokens).                               *)
(***************************************************************************)
LEMMA BetweenCostsMore ==
  ASSUME NEW x \in SofarType, NEW d \in TextSize, NEW c \in TextSize
  PROVE  Total(Extend(x, c)) <= Total(Extend(Extend(x, d), c))
<1>. DEFINE a == x.run + (IF x.first THEN 0 ELSE 2)
            y == Extend(x, d)
            z == Extend(x, c)
            w == Extend(y, c)
<1>1. /\ a \in Nat /\ x.tokens \in Nat
      /\ d.head \in Nat /\ d.body \in Nat /\ d.tail \in Nat
      /\ c.head \in Nat /\ c.body \in Nat /\ c.tail \in Nat
  BY DEF SofarType, TextSize
<1>2. /\ c.body = 0 => z.tokens = x.tokens /\ z.run = a + c.head
      /\ c.body # 0 => /\ z.tokens = x.tokens + Tokens(a + c.head) + c.body
                       /\ z.run = c.tail
      /\ d.body = 0 => y.tokens = x.tokens /\ y.run = a + d.head
      /\ d.body # 0 => /\ y.tokens = x.tokens + Tokens(a + d.head) + d.body
                       /\ y.run = d.tail
      /\ c.body = 0 => w.tokens = y.tokens /\ w.run = y.run + 2 + c.head
      /\ c.body # 0 => /\ w.tokens = y.tokens + Tokens(y.run + 2 + c.head) + c.body
                       /\ w.run = c.tail
  BY DEF Extend
<1>. HIDE DEF a, y, z, w
<1>3. /\ Tokens(a + c.head) \in Nat /\ Tokens(a + d.head) \in Nat
      /\ Tokens(a + d.head + 2 + c.head) \in Nat
      /\ Tokens(d.tail + 2 + c.head) \in Nat
      /\ Tokens(a + c.head) <= Tokens(a + d.head + 2 + c.head)
      /\ Tokens(a + c.head) <= Tokens(a + d.head) + Tokens(d.tail + 2 + c.head)
  BY <1>1, RunsBetween
<1>4. Tokens(c.tail) \in Nat
  BY <1>1, RunsBetween
<1>5. z.tokens + Tokens(z.run) <= w.tokens + Tokens(w.run)
  <2>1. CASE d.body = 0 /\ c.body = 0
    BY <1>1, <1>2, <1>3, <2>1
  <2>2. CASE d.body = 0 /\ c.body # 0
    BY <1>1, <1>2, <1>3, <1>4, <2>2
  <2>3. CASE d.body # 0 /\ c.body = 0
    BY <1>1, <1>2, <1>3, <2>3
  <2>4. CASE d.body # 0 /\ c.body # 0
    BY <1>1, <1>2, <1>3, <1>4, <2>4
  <2>. QED
    BY <2>1, <2>2, <2>3, <2>4
<1>. QED
  BY <1>5 DEF Total, z, w, y

\* Some numbers have a least one.
LEMMA LeastIsThere ==
  ASSUME NEW S, S \subseteq Nat, S # {}
  PROVE  \E m \in S : \A k \in S : m <= k
<1>1. PICK m \in S : \A k \in S : ~(<<k, m>> \in OpToRel(<, Nat))
  BY NatLessThanWellFounded, WFMin
<1>2. ASSUME NEW k \in S PROVE m <= k
  <2>1. k \in Nat /\ m \in Nat
    OBVIOUS
  <2>2. ~(k < m)
    BY <1>1, <2>1 DEF OpToRel
  <2>. QED
    BY <2>1, <2>2
<1>. QED
  BY <1>2

(***************************************************************************)
(* The estimates of a sequence of candidates are there: each is its text   *)
(* behind the estimate of what comes before.                               *)
(***************************************************************************)
LEMMA EstimatesAre ==
  ASSUME NEW cs \in Seq(FactRecord)
  PROVE  Estimates(cs) = [n \in 0..Len(cs) |->
           IF n = 0 THEN NothingYet ELSE Extend(Estimates(cs)[n - 1], cs[n].text)]
<1>. DEFINE Good(f, m) == f = [n \in 0..m |->
              IF n = 0 THEN NothingYet ELSE Extend(f[n - 1], cs[n].text)]
            Bad == {m \in 0..Len(cs) : ~\E f : Good(f, m)}
<1>1. Bad = {}
  <2>. SUFFICES ASSUME Bad # {} PROVE FALSE
    OBVIOUS
  <2>1. PICK m \in Bad : \A k \in Bad : m <= k
    <3>1. Bad \subseteq Nat
      OBVIOUS
    <3>. HIDE DEF Bad
    <3>. QED
      BY <3>1, LeastIsThere
  <2>2. m # 0
    <3>1. Good([n \in 0..0 |-> NothingYet], 0)
      OBVIOUS
    <3>. QED
      BY <2>1, <3>1
  <2>3. m - 1 \in 0..Len(cs) /\ m - 1 \notin Bad
    BY <2>1, <2>2
  <2>4. PICK f : Good(f, m - 1)
    BY <2>3
  <2>. DEFINE g == [n \in 0..m |-> IF n <= m - 1 THEN f[n]
                                   ELSE Extend(f[m - 1], cs[m].text)]
  <2>5. Good(g, m)
    <3>1. ASSUME NEW n \in 0..m
          PROVE  g[n] = IF n = 0 THEN NothingYet ELSE Extend(g[n - 1], cs[n].text)
      <4>1. CASE n = m
        BY <2>1, <2>2, <4>1
      <4>2. CASE n # m
        <5>1. n \in 0..(m - 1) /\ g[n] = f[n]
          BY <2>1, <2>2, <4>2
        <5>2. n # 0 => g[n - 1] = f[n - 1]
          BY <2>1, <2>2, <5>1
        <5>3. f[n] = IF n = 0 THEN NothingYet ELSE Extend(f[n - 1], cs[n].text)
          BY <2>4, <5>1
        <5>. QED
          BY <5>1, <5>2, <5>3
      <4>. QED
        BY <4>1, <4>2
    <3>. QED
      BY <3>1
  <2>. QED
    BY <2>1, <2>5
<1>2. Len(cs) \in 0..Len(cs)
  OBVIOUS
<1>3. \E f : Good(f, Len(cs))
  BY <1>1, <1>2
<1>. QED
  BY <1>3 DEF Estimates

\* So the estimate after a sequence and one text more extends the one before.
LEMMA EstimateOfAppend ==
  ASSUME NEW cs \in Seq(FactRecord), NEW c \in FactRecord
  PROVE  /\ Estimates(cs)[Len(cs)] \in SofarType
         /\ Joined(Append(cs, c)) = Total(Extend(Estimates(cs)[Len(cs)], c.text))
         /\ Estimates(Append(cs, c))[Len(Append(cs, c))]
              = Extend(Estimates(cs)[Len(cs)], c.text)
         /\ Joined(cs) \in Nat
<1>. DEFINE e == Estimates(cs)
            ds == Append(cs, c)
            f == Estimates(ds)
            Bad == {m \in 0..Len(cs) : e[m] \notin SofarType \/ e[m] # f[m]}
<1>1. /\ ds \in Seq(FactRecord) /\ Len(ds) = Len(cs) + 1 /\ ds[Len(ds)] = c
      /\ \A n \in 1..Len(cs) : ds[n] = cs[n] /\ cs[n] \in FactRecord
  OBVIOUS
<1>2. /\ \A n \in 0..Len(cs) :
           e[n] = IF n = 0 THEN NothingYet ELSE Extend(e[n - 1], cs[n].text)
      /\ \A n \in 0..Len(ds) :
           f[n] = IF n = 0 THEN NothingYet ELSE Extend(f[n - 1], ds[n].text)
  BY <1>1, EstimatesAre
<1>. HIDE DEF e, f, ds
<1>3. Bad = {}
  <2>. SUFFICES ASSUME Bad # {} PROVE FALSE
    OBVIOUS
  <2>1. PICK m \in Bad : \A k \in Bad : m <= k
    <3>1. Bad \subseteq Nat
      OBVIOUS
    <3>. HIDE DEF Bad
    <3>. QED
      BY <3>1, LeastIsThere
  <2>2. m # 0
    <3>1. Len(cs) \in Nat /\ 0 \in 0..Len(cs) /\ 0 \in 0..Len(ds)
      BY <1>1
    <3>2. e[0] = NothingYet /\ f[0] = NothingYet
      BY <1>2, <3>1
    <3>3. NothingYet \in SofarType
      BY DEF NothingYet, SofarType
    <3>. QED
      BY <2>1, <3>2, <3>3
  <2>3. m - 1 \in 0..Len(cs) /\ m - 1 \notin Bad
    BY <2>1, <2>2
  <2>4. /\ e[m] = Extend(e[m - 1], cs[m].text) /\ e[m - 1] \in SofarType
        /\ f[m] = Extend(f[m - 1], cs[m].text) /\ f[m - 1] = e[m - 1]
        /\ cs[m] \in FactRecord
    BY <1>1, <1>2, <2>1, <2>2, <2>3
  <2>5. e[m] \in SofarType
    BY <2>4, ExtendType DEF FactRecord
  <2>. QED
    BY <2>1, <2>4, <2>5
<1>4. e[Len(cs)] \in SofarType /\ f[Len(cs)] = e[Len(cs)]
  BY <1>3
<1>5. f[Len(ds)] = Extend(e[Len(cs)], c.text)
  BY <1>1, <1>2, <1>4
<1>6. Total(e[Len(cs)]) \in Nat
  <2>1. NoText \in TextSize
    BY DEF NoText, TextSize
  <2>. QED
    BY <1>4, <2>1, ExtendType
<1>. QED
  BY <1>4, <1>5, <1>6 DEF Joined, e, f, ds

(***************************************************************************)
(* What does not fit behind some texts does not fit behind one more.       *)
(***************************************************************************)
LEMMA WhatDidNotFit ==
  ASSUME NEW cs \in Seq(FactRecord), NEW d \in FactRecord, NEW c \in FactRecord
  PROVE  Joined(Append(cs, c)) <= Joined(Append(Append(cs, d), c))
<1>1. Append(cs, d) \in Seq(FactRecord)
  OBVIOUS
<1>2. c.text \in TextSize /\ d.text \in TextSize
  BY DEF FactRecord
<1>. QED
  BY <1>1, <1>2, EstimateOfAppend, BetweenCostsMore

-----------------------------------------------------------------------------
(* The prompt: candidates and their order.                                 *)

\* What can become a candidate of some prompt.
Tellable == UNION {CandidatesOf(f) : f \in Fact}

\* A record told as something else is a record.
LEMMA Renamed ==
  ASSUME NEW f \in FactRecord, NEW k \in ContextSourceKind, NEW w \in Nat
  PROVE  [f EXCEPT !.kind = k, !.weight = w] \in FactRecord
BY DEF FactRecord

\* The same, in another text.
LEMMA Retold ==
  ASSUME NEW f \in FactRecord, NEW k \in ContextSourceKind, NEW w \in Nat,
         NEW t \in TextSize
  PROVE  [f EXCEPT !.kind = k, !.weight = w, !.text = t] \in FactRecord
BY DEF FactRecord

\* What a prior chapter is told as keeps its id and its status.
LEMMA RetoldChapters ==
  ASSUME NEW f \in FactRecord
  PROVE  /\ SynopsisOf(f) \in FactRecord /\ SynopsisOf(f).id = f.id
         /\ SynopsisOf(f).status = f.status
         /\ SynopsisOf(f).kind = "prior_chapter_summary"
         /\ SynopsisOf(f).weight = 400 + f.weight
         /\ RecentBodyOf(f) \in FactRecord /\ RecentBodyOf(f).id = f.id
         /\ RecentBodyOf(f).status = f.status
         /\ RecentBodyOf(f).kind = "recent_body"
         /\ RecentBodyOf(f).weight = 600 + f.weight
<1>1. f.weight \in Nat /\ f.text \in TextSize /\ f.brief \in TextSize
  BY DEF FactRecord
<1>2. PICK v \in Nat, w \in Nat : v = 400 + f.weight /\ w = 600 + f.weight
  BY <1>1
<1>3. PICK j \in ContextSourceKind, k \in ContextSourceKind :
        j = "prior_chapter_summary" /\ k = "recent_body"
  BY DEF ContextSourceKind
<1>4. PICK t \in TextSize : t = IF f.brief = NoText THEN f.text ELSE f.brief
  BY <1>1
<1>5. SynopsisOf(f) = [f EXCEPT !.kind = j, !.weight = v, !.text = t]
  BY <1>2, <1>3, <1>4 DEF SynopsisOf
<1>6. RecentBodyOf(f) = [f EXCEPT !.kind = k, !.weight = w]
  BY <1>2, <1>3 DEF RecentBodyOf
<1>7. RecentBodyOf(f) \in FactRecord
  <2>1. [f EXCEPT !.kind = k, !.weight = w] \in FactRecord
    BY Renamed, Zenon
  <2>. QED
    BY <1>6, <2>1
<1>8. SynopsisOf(f) \in FactRecord
  <2>1. [f EXCEPT !.kind = j, !.weight = v, !.text = t] \in FactRecord
    BY Retold, Zenon
  <2>. QED
    BY <1>5, <2>1
<1>9. /\ SynopsisOf(f).id = f.id /\ SynopsisOf(f).status = f.status
      /\ SynopsisOf(f).kind = j /\ SynopsisOf(f).weight = v
  BY <1>5 DEF FactRecord
<1>10. /\ RecentBodyOf(f).id = f.id /\ RecentBodyOf(f).status = f.status
       /\ RecentBodyOf(f).kind = k /\ RecentBodyOf(f).weight = w
  BY <1>6 DEF FactRecord
<1>. QED
  BY <1>2, <1>3, <1>7, <1>8, <1>9, <1>10

\* A candidate is a record that names its fact.
LEMMA CandidateShape ==
  ASSUME NEW f \in Fact, NEW c \in CandidatesOf(f)
  PROVE  /\ c \in FactRecord /\ c.id = f.id /\ c.status = f.status
         /\ f.kind # "chapter" => c = f
         /\ f.kind = "chapter" =>
              \/ c = SynopsisOf(f) /\ c.kind = "prior_chapter_summary"
                                   /\ c.weight = 400 + f.weight
              \/ c = RecentBodyOf(f) /\ c.kind = "recent_body"
                                     /\ c.weight = 600 + f.weight
<1>1. f \in FactRecord
  BY CompilerAssumption
<1>2. CASE f.kind # "chapter"
  BY <1>1, <1>2 DEF CandidatesOf
<1>3. CASE f.kind = "chapter"
  <2>1. c \in {SynopsisOf(f), RecentBodyOf(f)}
    BY <1>3 DEF CandidatesOf
  <2>. QED
    BY <1>1, <1>3, <2>1, RetoldChapters
<1>. QED
  BY <1>2, <1>3

\* A function on a finite set has finitely many values.
LEMMA ImageIsFinite ==
  ASSUME NEW S, NEW g, g \in [S -> Range(g)], IsFiniteSet(S)
  PROVE  IsFiniteSet(Range(g))
<1>1. g \in Surjection(S, Range(g))
  BY DEF Surjection, Range
<1>. QED
  BY <1>1, FS_Surjection

\* There are finitely many of them.
LEMMA TellableIsFinite == IsFiniteSet(Tellable)
<1>. DEFINE g == [f \in Fact |-> SynopsisOf(f)]
            h == [f \in Fact |-> RecentBodyOf(f)]
<1>1. IsFiniteSet(Fact)
  BY CompilerAssumption
<1>2. \A f \in Fact : SynopsisOf(f) = g[f] /\ RecentBodyOf(f) = h[f]
  OBVIOUS
<1>3. DOMAIN g = Fact /\ DOMAIN h = Fact /\ g = [f \in Fact |-> g[f]] /\ h = [f \in Fact |-> h[f]]
  OBVIOUS
<1>. HIDE DEF g, h
<1>4. IsFiniteSet(Range(g)) /\ IsFiniteSet(Range(h))
  <2>1. g \in [Fact -> Range(g)] /\ h \in [Fact -> Range(h)]
    BY <1>3 DEF Range
  <2>. QED
    BY <1>1, <2>1, ImageIsFinite
<1>5. IsFiniteSet((Range(g) \cup Range(h)) \cup Fact)
  BY <1>1, <1>4, FS_Union
<1>6. \A f \in Fact : SynopsisOf(f) \in Range(g) /\ RecentBodyOf(f) \in Range(h)
  BY <1>2, <1>3 DEF Range
<1>7. Tellable \subseteq (Range(g) \cup Range(h)) \cup Fact
  BY <1>6 DEF Tellable, CandidatesOf
<1>. QED
  BY <1>5, <1>7, FS_Subset

\* Each is a record, and no two have both the id and the weight in common.
LEMMA TellableDiffer ==
  /\ Tellable \subseteq FactRecord
  /\ \A a, b \in Tellable : a # b => a.id # b.id \/ a.weight # b.weight
<1>1. ASSUME NEW a \in Tellable PROVE a \in FactRecord
  <2>1. PICK f \in Fact : a \in CandidatesOf(f)
    BY DEF Tellable
  <2>. QED
    BY <2>1, CandidateShape
<1>2. ASSUME NEW a \in Tellable, NEW b \in Tellable, a # b, a.id = b.id
      PROVE  a.weight # b.weight
  <2>1. PICK f \in Fact : a \in CandidatesOf(f)
    BY DEF Tellable
  <2>2. PICK g \in Fact : b \in CandidatesOf(g)
    BY DEF Tellable
  <2>3. f = g /\ f.weight \in Nat
    BY <1>2, <2>1, <2>2, CandidateShape, CompilerAssumption DEF FactRecord
  <2>4. f.kind = "chapter"
    BY <1>2, <2>1, <2>2, <2>3, CandidateShape
  <2>5. \/ a = SynopsisOf(f) /\ a.weight = 400 + f.weight
        \/ a = RecentBodyOf(f) /\ a.weight = 600 + f.weight
    BY <2>1, <2>4, CandidateShape
  <2>6. \/ b = SynopsisOf(f) /\ b.weight = 400 + f.weight
        \/ b = RecentBodyOf(f) /\ b.weight = 600 + f.weight
    BY <2>2, <2>3, <2>4, CandidateShape
  <2>. QED
    BY <1>2, <2>3, <2>5, <2>6
<1>. QED
  BY <1>1, <1>2

\* compareCandidates is a strict order, and leaves no two candidates equal.
LEMMA PrecedesIsTotal ==
  /\ \A a \in Tellable : ~Precedes(a, a)
  /\ \A a, b \in Tellable : a # b => Precedes(a, b) \/ Precedes(b, a)
  /\ \A a, b, c \in Tellable :
       Precedes(a, b) /\ Precedes(b, c) => Precedes(a, c)
<1>1. \A a \in Tellable : /\ Rank(a) \in Nat /\ a.relevance \in Nat
                          /\ a.weight \in Nat /\ a.id \in Nat
  BY TellableDiffer DEF Rank, FactRecord
<1>. QED
  BY <1>1, TellableDiffer DEF Precedes, Closer

\* A sequence without repetition.
OnceEach(s) == \A i, j \in 1..Len(s) : s[i] = s[j] => i = j

(***************************************************************************)
(* To order a set of candidates is to list each of its members once.       *)
(***************************************************************************)
LEMMA OrderedListsAll ==
  ASSUME NEW S \in SUBSET Tellable
  PROVE  /\ Ordered(S) \in Seq(S) /\ Range(Ordered(S)) = S
         /\ OnceEach(Ordered(S))
<1>. DEFINE n == Cardinality(S)
            Before(c) == {e \in S : Precedes(e, c)}
            place(c) == Cardinality(Before(c))
            f == [c \in S |-> place(c)]
            s == Ordered(S)
<1>1. IsFiniteSet(S) /\ n \in Nat
  BY TellableIsFinite, FS_Subset, FS_CardinalityType
<1>2. ASSUME NEW c \in S
      PROVE  IsFiniteSet(Before(c)) /\ place(c) \in 0..(n - 1)
  <2>1. Before(c) \in SUBSET (S \ {c})
    BY PrecedesIsTotal
  <2>2. IsFiniteSet(S \ {c}) /\ Cardinality(S \ {c}) = n - 1
    BY <1>1, FS_RemoveElement
  <2>3. IsFiniteSet(Before(c)) /\ place(c) <= n - 1
    BY <2>1, <2>2, FS_Subset
  <2>4. place(c) \in Nat
    BY <2>3, FS_CardinalityType
  <2>. QED
    BY <1>1, <2>3, <2>4
<1>3. ASSUME NEW a \in S, NEW b \in S, Precedes(a, b)
      PROVE  place(a) # place(b)
  <2>1. Before(a) \in SUBSET Before(b)
    BY <1>3, PrecedesIsTotal
  <2>2. a \in Before(b) /\ a \notin Before(a)
    BY <1>3, PrecedesIsTotal
  <2>. HIDE DEF Before
  <2>. QED
    BY <1>2, <2>1, <2>2, FS_Subset
<1>4. \A a, b \in S : place(a) = place(b) => a = b
  BY <1>3, PrecedesIsTotal
<1>5. IsFiniteSet(0..(n - 1)) /\ Cardinality(0..(n - 1)) = n
  <2>. HIDE DEF n
  <2>. QED
    BY <1>1, FS_Interval
<1>6. f \in Injection(S, 0..(n - 1))
  <2>1. f \in [S -> 0..(n - 1)]
    BY <1>2
  <2>2. ASSUME NEW a \in S, NEW b \in S, f[a] = f[b] PROVE a = b
    <3>1. place(a) = place(b)
      BY <2>2
    <3>. QED
      BY <1>4, <3>1
  <2>. HIDE DEF f
  <2>3. DOMAIN f = S
    BY <2>1
  <2>. QED
    BY <2>1, <2>2, <2>3 DEF Injection, IsInjective
<1>7. f \in Surjection(S, 0..(n - 1))
  <2>. HIDE DEF f
  <2>. QED
    BY <1>1, <1>5, <1>6, FS_Injection
<1>8. ASSUME NEW m \in 0..(n - 1) PROVE \E c \in S : place(c) = m
  <2>1. PICK c \in S : f[c] = m
    BY <1>7 DEF Surjection
  <2>. QED
    BY <2>1
<1>9. s = [m \in 1..n |-> CHOOSE c \in S : place(c) = m - 1]
  BY DEF Ordered
<1>. HIDE DEF n, place, s
<1>10. ASSUME NEW m \in 1..n PROVE s[m] \in S /\ place(s[m]) = m - 1
  <2>1. m - 1 \in 0..(n - 1)
    BY <1>1
  <2>2. PICK c \in S : place(c) = m - 1
    BY <1>8, <2>1
  <2>. QED
    BY <1>9, <2>2
<1>11. s \in Seq(S) /\ Len(s) = n /\ DOMAIN s = 1..n
  BY <1>1, <1>9, <1>10
<1>12. OnceEach(s)
  <2>. SUFFICES ASSUME NEW i \in 1..n, NEW j \in 1..n, s[i] = s[j]
                PROVE  i = j
    BY <1>11 DEF OnceEach
  <2>1. i - 1 = j - 1
    BY <1>10
  <2>. QED
    BY <1>1, <2>1
<1>13. ASSUME NEW c \in S PROVE c \in Range(s)
  <2>1. place(c) \in 0..(n - 1)
    BY <1>2
  <2>2. place(c) + 1 \in 1..n /\ (place(c) + 1) - 1 = place(c)
    BY <1>1, <2>1
  <2>3. s[place(c) + 1] = c
    BY <1>4, <1>10, <2>2
  <2>. QED
    BY <1>11, <2>2, <2>3 DEF Range
<1>14. Range(s) \subseteq S
  BY <1>10, <1>11 DEF Range
<1>. QED
  BY <1>11, <1>12, <1>13, <1>14 DEF s
\* One more at the end.
LEMMA OneMore ==
  ASSUME NEW S, NEW s \in Seq(S), NEW c \in S
  PROVE  /\ Append(s, c) \in Seq(S) /\ Range(Append(s, c)) = Range(s) \cup {c}
         /\ OnceEach(s) /\ c \notin Range(s) => OnceEach(Append(s, c))
<1>1. /\ Append(s, c) \in Seq(S) /\ Len(Append(s, c)) = Len(s) + 1
      /\ DOMAIN Append(s, c) = 1..(Len(s) + 1) /\ DOMAIN s = 1..Len(s)
      /\ \A i \in 1..Len(s) : Append(s, c)[i] = s[i]
      /\ Append(s, c)[Len(s) + 1] = c /\ Len(s) \in Nat
  OBVIOUS
<1>2. \A i \in 1..(Len(s) + 1) : i \in 1..Len(s) \/ i = Len(s) + 1
  BY <1>1
<1>3. 1..Len(s) \subseteq 1..(Len(s) + 1) /\ Len(s) + 1 \in 1..(Len(s) + 1)
  BY <1>1
<1>. DEFINE t == Append(s, c)  n == Len(s) + 1
<1>4. \A i \in 1..Len(s) : s[i] \in Range(s)
  BY <1>1 DEF Range
<1>. HIDE DEF t, n
<1>5. Range(t) = Range(s) \cup {c}
  BY <1>1, <1>2, <1>3 DEF Range, t, n
<1>6. ASSUME OnceEach(s), c \notin Range(s), NEW i \in 1..n, NEW j \in 1..n, t[i] = t[j]
      PROVE  i = j
  BY <1>1, <1>2, <1>4, <1>6 DEF OnceEach, t, n
<1>. QED
  BY <1>1, <1>5, <1>6 DEF OnceEach, t, n

\* One less at the front.
LEMMA OneLess ==
  ASSUME NEW S, NEW s \in Seq(S), s # <<>>
  PROVE  /\ Head(s) \in S /\ Tail(s) \in Seq(S)
         /\ Range(s) = Range(Tail(s)) \cup {Head(s)}
         /\ OnceEach(s) => OnceEach(Tail(s)) /\ Head(s) \notin Range(Tail(s))
<1>. DEFINE t == Tail(s)  n == Len(s)
<1>1. /\ Head(s) \in S /\ t \in Seq(S) /\ n \in Nat /\ n >= 1 /\ Len(t) = n - 1
      /\ DOMAIN t = 1..(n - 1) /\ DOMAIN s = 1..n
      /\ \A i \in 1..(n - 1) : t[i] = s[i + 1]
      /\ Head(s) = s[1]
  OBVIOUS
<1>. HIDE DEF t, n
<1>2. \A i \in 1..n : i = 1 \/ (i - 1 \in 1..(n - 1) /\ (i - 1) + 1 = i)
  BY <1>1
<1>3. 1 \in 1..n /\ \A i \in 1..(n - 1) : i + 1 \in 1..n /\ i + 1 # 1
  BY <1>1
<1>4. ASSUME NEW i \in 1..n PROVE s[i] \in Range(t) \cup {Head(s)}
  <2>1. CASE i = 1
    BY <1>1, <2>1
  <2>2. CASE i # 1
    <3>1. i - 1 \in DOMAIN t /\ t[i - 1] = s[i]
      BY <1>1, <1>2, <2>2
    <3>. QED
      BY <3>1 DEF Range
  <2>. QED
    BY <2>1, <2>2
<1>5. Range(s) \subseteq Range(t) \cup {Head(s)}
  BY <1>1, <1>4 DEF Range
<1>6. Range(t) \cup {Head(s)} \subseteq Range(s)
  BY <1>1, <1>3 DEF Range
<1>7. ASSUME OnceEach(s)
      PROVE  OnceEach(t) /\ Head(s) \notin Range(t)
  <2>1. \A i, j \in 1..n : s[i] = s[j] => i = j
    BY <1>7 DEF OnceEach, n
  <2>2. ASSUME NEW i \in 1..(n - 1), NEW j \in 1..(n - 1), t[i] = t[j] PROVE i = j
    <3>1. i + 1 = j + 1
      BY <1>1, <1>3, <2>1, <2>2
    <3>. QED
      BY <1>1, <3>1
  <2>3. ASSUME NEW i \in 1..(n - 1) PROVE t[i] # Head(s)
    <3>1. i + 1 \in 1..n /\ i + 1 # 1 /\ 1 \in 1..n
      BY <1>3
    <3>2. s[i + 1] # s[1]
      BY <2>1, <3>1
    <3>. QED
      BY <1>1, <3>2
  <2>. QED
    BY <1>1, <2>2, <2>3 DEF OnceEach, Range
<1>. QED
  BY <1>1, <1>5, <1>6, <1>7 DEF t, n

\* The length of a sequence without repetition counts what is in it.
LEMMA LengthCounts ==
  ASSUME NEW S, NEW s \in Seq(S), OnceEach(s)
  PROVE  IsFiniteSet(Range(s)) /\ Cardinality(Range(s)) = Len(s)
<1>1. DOMAIN s = 1..Len(s) /\ Len(s) \in Nat
  OBVIOUS
<1>2. s \in Surjection(1..Len(s), Range(s))
  <2>1. s \in [1..Len(s) -> Range(s)]
    BY <1>1 DEF Range
  <2>. QED
    BY <1>1, <2>1 DEF Surjection, Range
<1>3. s \in Injection(1..Len(s), Range(s))
  BY <1>1, <1>2 DEF Injection, IsInjective, Surjection, OnceEach
<1>4. IsFiniteSet(1..Len(s)) /\ Cardinality(1..Len(s)) = Len(s)
  BY <1>1, FS_Interval
<1>. QED
  BY <1>2, <1>3, <1>4, FS_Surjection

(***************************************************************************)
(* Pairs that differ in what they name are as many as what they name.      *)
(***************************************************************************)
LEMMA TracesCount ==
  ASSUME NEW D, NEW C, IsFiniteSet(C),
         \A p \in D : p[1] \in C,
         \A p, q \in D : p[1] = q[1] => p = q,
         \A c \in C : \E p \in D : p[1] = c
  PROVE  IsFiniteSet(D) /\ Cardinality(D) = Cardinality(C)
<1>. DEFINE f == [p \in D |-> p[1]]
<1>1. f \in [D -> C] /\ DOMAIN f = D /\ \A p \in D : f[p] = p[1]
  OBVIOUS
<1>. HIDE DEF f
<1>2. f \in Injection(D, C)
  BY <1>1 DEF Injection, IsInjective
<1>3. f \in Surjection(D, C)
  BY <1>1 DEF Surjection
<1>. QED
  BY <1>2, <1>3, FS_Injection

-----------------------------------------------------------------------------
(* The prompt: the gates.                                                  *)

\* What is accepted passed each gate.
LEMMA GatesNarrow ==
  ASSUME given \subseteq Fact
  PROVE  /\ Candidates \subseteq Tellable
         /\ OverPriorLimit \subseteq Candidates
         /\ Allowed \subseteq Candidates \ OverPriorLimit
         /\ Active \subseteq Allowed /\ WithinCapacity \subseteq Active
         /\ Accepted \subseteq WithinCapacity
         /\ Accepted \subseteq Tellable /\ Accepted \subseteq FactRecord
<1>1. Input \subseteq given
  BY DEF Input, OutlineInput, ChapterInput, Goals, OpenForeshadows, ApprovedMemories,
         PriorVolumes, PriorChapters, Library, OfKind
<1>2. Candidates \subseteq Tellable
  BY <1>1 DEF Candidates, Tellable, Among, Later
<1>3. OverPriorLimit \subseteq Candidates
  BY DEF OverPriorLimit, Among, Later
<1>4. Allowed \subseteq Candidates \ OverPriorLimit
  BY DEF Allowed
<1>5. Active \subseteq Allowed
  BY DEF Active
<1>6. WithinCapacity \subseteq Active
  BY DEF WithinCapacity, Among, Closer
<1>7. Accepted \subseteq WithinCapacity
  BY DEF Accepted
<1>. QED
  BY <1>2, <1>3, <1>4, <1>5, <1>6, <1>7, TellableDiffer

\* The gates do not move while a prompt is compiled.
LEMMA GatesStand ==
  ASSUME UNCHANGED <<promptOf, given>>
  PROVE  /\ Candidates' = Candidates /\ Accepted' = Accepted /\ GatedOut' = GatedOut
         /\ RequiredOrdered' = RequiredOrdered /\ OptionalOrdered' = OptionalOrdered
<1>1. Strategy' = Strategy
  BY DEF Strategy
<1>2. Input' = Input
  BY DEF Input, OutlineInput, ChapterInput, Goals, OpenForeshadows, ApprovedMemories,
         PriorVolumes, PriorChapters, Library, OfKind
<1>3. Candidates' = Candidates
  BY <1>1, <1>2 DEF Candidates, Among, Later
<1>4. OverPriorLimit' = OverPriorLimit
  BY <1>1, <1>3 DEF OverPriorLimit, Among, Later
<1>5. Allowed' = Allowed
  BY <1>1, <1>3, <1>4 DEF Allowed
<1>6. Active' = Active
  BY <1>5 DEF Active
<1>7. WithinCapacity' = WithinCapacity
  BY <1>1, <1>6 DEF WithinCapacity, Among, Closer
<1>8. Accepted' = Accepted
  BY <1>1, <1>7 DEF Accepted, Required
<1>9. GatedOut' = GatedOut
  BY <1>3, <1>4, <1>5, <1>6, <1>7, <1>8 DEF GatedOut
<1>10. RequiredOrdered' = RequiredOrdered
  BY <1>1, <1>8 DEF RequiredOrdered, Required
<1>11. OptionalOrdered' = OptionalOrdered
  BY <1>1, <1>8 DEF OptionalOrdered, Required
<1>. QED
  BY <1>3, <1>8, <1>9, <1>10, <1>11

\* Nor does what is required.
LEMMA RequiredStands ==
  ASSUME UNCHANGED promptOf, NEW c
  PROVE  Required(c)' <=> Required(c)
BY DEF Required, Strategy

(***************************************************************************)
(* Every candidate that is not accepted is left out by one gate; the       *)
(* accepted are left out by none.                                          *)
(***************************************************************************)
LEMMA GatesSayWhy ==
  ASSUME given \subseteq Fact
  PROVE  /\ \A p \in GatedOut : /\ p = <<p[1], p[2]>>
                                /\ p[1] \in Candidates \ Accepted
                                /\ p[2] # "budget_exhausted"
         /\ \A p, q \in GatedOut : p[1] = q[1] => p = q
         /\ \A c \in Candidates \ Accepted : \E p \in GatedOut : p[1] = c
<1>. DEFINE A == OverPriorLimit \cup (Active \ WithinCapacity)
            B == Candidates \ (OverPriorLimit \cup Allowed)
            C == Allowed \ Active
            D == WithinCapacity \ Accepted
<1>1. /\ A \cup B \cup C \cup D = Candidates \ Accepted
      /\ A \cap B = {} /\ A \cap C = {} /\ A \cap D = {} /\ B \cap C = {} /\ B \cap D = {}
      /\ C \cap D = {}
  BY GatesNarrow
<1>2. GatedOut = A \X {"capacity_limit"} \cup B \X {"strategy_excluded"}
                   \cup C \X {"status_filtered"} \cup D \X {"below_relevance_threshold"}
  BY DEF GatedOut
<1>. HIDE DEF A, B, C, D
<1>3. \A p \in GatedOut :
        /\ p = <<p[1], p[2]>>
        /\ \/ p[1] \in A /\ p[2] = "capacity_limit"
           \/ p[1] \in B /\ p[2] = "strategy_excluded"
           \/ p[1] \in C /\ p[2] = "status_filtered"
           \/ p[1] \in D /\ p[2] = "below_relevance_threshold"
  BY <1>2
<1>4. ASSUME NEW c \in Candidates \ Accepted PROVE \E p \in GatedOut : p[1] = c
  <2>1. \/ <<c, "capacity_limit">> \in GatedOut \/ <<c, "strategy_excluded">> \in GatedOut
        \/ <<c, "status_filtered">> \in GatedOut
        \/ <<c, "below_relevance_threshold">> \in GatedOut
    BY <1>1, <1>2
  <2>. QED
    BY <2>1
<1>5. ASSUME NEW p \in GatedOut, NEW q \in GatedOut, p[1] = q[1] PROVE p = q
  <2>1. p[2] = q[2]
    BY <1>1, <1>3, <1>5
  <2>. QED
    BY <1>3, <1>5, <2>1
<1>. QED
  BY <1>1, <1>3, <1>4, <1>5
-----------------------------------------------------------------------------
(* The prompt: packing.                                                    *)

\* What was tried and not taken.
LeftOver == Accepted \ (Range(queue) \cup Range(selected))

PackTypes ==
  /\ promptOf \in TaskKind /\ given \subseteq Fact /\ Fact \ Optional \subseteq given
  /\ available \in Budgets
  /\ stage \in {"gate", "required", "optional", "compiled", "failed"}
  /\ queue \in Seq(Accepted) /\ selected \in Seq(Accepted)

\* Before anything is selected.
NotYetPacked ==
  /\ stage = "gate" => selected = <<>>
  /\ stage = "required" => selected = <<>> /\ discarded = GatedOut

\* While the others are tried: everything accepted waits, is in, or is left out.
Sorted ==
  /\ OnceEach(queue) /\ OnceEach(selected) /\ Range(queue) \cap Range(selected) = {}
  /\ {c \in Accepted : Required(c)} \subseteq Range(selected)
  /\ discarded = GatedOut \cup (LeftOver \X {"budget_exhausted"})

\* And what is left out would not fit.
Filled ==
  /\ Joined(selected) <= available
  /\ \A c \in LeftOver : Joined(Append(selected, c)) > available

Packing ==
  /\ stage \in {"optional", "compiled"} => Sorted /\ Filled
  /\ stage = "compiled" => queue = <<>>

PackInv == PackTypes /\ NotYetPacked /\ Packing

\* A prompt begins well packed.
LEMMA PackInit == CompilerInit => PackInv
<1>. SUFFICES ASSUME CompilerInit PROVE PackInv
  OBVIOUS
<1>1. given \subseteq Fact /\ Fact \ Optional \subseteq given
  BY CompilerAssumption DEF CompilerInit
<1>. QED
  BY <1>1 DEF CompilerInit, PackInv, PackTypes, NotYetPacked, Packing

\* The gates keep it: what is accepted queues in order.
LEMMA GateKeepsPacking == ASSUME PackInv, Gate PROVE PackInv'
<1>. USE DEF PackInv
<1>1. Accepted' = Accepted /\ GatedOut' = GatedOut
  BY GatesStand DEF Gate
<1>2. Ordered(Accepted) \in Seq(Accepted)
  BY GatesNarrow, OrderedListsAll DEF PackTypes
<1>3. PackTypes'
  BY <1>1, <1>2 DEF Gate, PackTypes
<1>. QED
  BY <1>1, <1>3 DEF Gate, NotYetPacked, Packing

\* Required candidates that are too large leave nothing selected.
LEMMA FailureKeepsPacking == ASSUME PackInv, RequiredTooLarge PROVE PackInv'
<1>. USE DEF PackInv
<1>1. Accepted' = Accepted
  BY GatesStand DEF RequiredTooLarge
<1>2. PackTypes'
  BY <1>1 DEF RequiredTooLarge, PackTypes
<1>. QED
  BY <1>2 DEF RequiredTooLarge, NotYetPacked, Packing

\* The required go in together, and the others queue.
LEMMA RequiredKeepsPacking == ASSUME PackInv, TakeRequired PROVE PackInv'
<1>. USE DEF PackInv
<1>. DEFINE R == {c \in Accepted : Required(c)}
            O == {c \in Accepted : ~Required(c)}
<1>1. /\ Accepted' = Accepted /\ GatedOut' = GatedOut
      /\ promptOf' = promptOf /\ stage = "required" /\ stage' = "optional"
      /\ selected' = Ordered(R) /\ queue' = Ordered(O) /\ discarded' = discarded
      /\ available' = available /\ Joined(Ordered(R)) <= available
  BY GatesStand DEF TakeRequired, RequiredOrdered, OptionalOrdered
<1>2. \A c : Required(c)' <=> Required(c)
  BY <1>1, RequiredStands
<1>3. R \in SUBSET Tellable /\ O \in SUBSET Tellable
  BY GatesNarrow DEF PackTypes
<1>4. R \cup O = Accepted /\ R \cap O = {}
  OBVIOUS
<1>5. {c \in Accepted : Required(c)}' = R
  BY <1>1, <1>2
<1>. HIDE DEF R, O
<1>6. /\ Ordered(R) \in Seq(R) /\ Range(Ordered(R)) = R /\ OnceEach(Ordered(R))
      /\ Ordered(O) \in Seq(O) /\ Range(Ordered(O)) = O /\ OnceEach(Ordered(O))
  BY <1>3, OrderedListsAll
<1>7. queue' \in Seq(Accepted') /\ selected' \in Seq(Accepted')
  BY <1>1, <1>4, <1>6
<1>8. PackTypes'
  BY <1>7 DEF TakeRequired, PackTypes
<1>9. LeftOver' = {}
  BY <1>1, <1>4, <1>6 DEF LeftOver
<1>10. Sorted'
  BY <1>1, <1>4, <1>5, <1>6, <1>9 DEF Sorted, NotYetPacked
<1>11. Filled'
  BY <1>1, <1>9 DEF Filled
<1>. QED
  BY <1>1, <1>8, <1>10, <1>11 DEF NotYetPacked, Packing

\* The next one either goes in or never fits again.
LEMMA TryingKeepsPacking == ASSUME PackInv, TryOptional PROVE PackInv'
<1>. USE DEF PackInv
<1>. DEFINE c == Head(queue)
<1>1. /\ Accepted' = Accepted /\ GatedOut' = GatedOut
      /\ promptOf' = promptOf /\ given' = given /\ available' = available
      /\ stage = "optional" /\ stage' = "optional"
      /\ queue # <<>> /\ queue' = Tail(queue)
      /\ \/ Fits(c) /\ selected' = Append(selected, c) /\ discarded' = discarded
         \/ /\ ~Fits(c) /\ selected' = selected
            /\ discarded' = discarded \cup {<<c, "budget_exhausted">>}
  BY GatesStand DEF TryOptional
<1>2. /\ queue \in Seq(Accepted) /\ selected \in Seq(Accepted)
      /\ Accepted \subseteq FactRecord /\ Sorted /\ Filled
  BY <1>1, GatesNarrow DEF PackTypes, Packing
<1>3. available \in Nat
  BY CompilerAssumption DEF PackTypes
<1>4. \A d : Required(d)' <=> Required(d)
  BY <1>1, RequiredStands
<1>5. /\ c \in Accepted /\ queue' \in Seq(Accepted)
      /\ Range(queue) = Range(queue') \cup {c}
      /\ OnceEach(queue') /\ c \notin Range(queue')
  BY <1>1, <1>2, OneLess DEF Sorted
<1>6. c \notin Range(selected) /\ c \notin LeftOver
  BY <1>2, <1>5 DEF Sorted, LeftOver
<1>7. {d \in Accepted : Required(d)}' = {d \in Accepted : Required(d)}
  BY <1>1, <1>4
<1>. HIDE DEF c
<1>8. CASE Fits(c) /\ selected' = Append(selected, c) /\ discarded' = discarded
  <2>1. /\ selected' \in Seq(Accepted) /\ Range(selected') = Range(selected) \cup {c}
        /\ OnceEach(selected')
    BY <1>2, <1>5, <1>6, <1>8, OneMore DEF Sorted
  <2>2. LeftOver' = LeftOver
    BY <1>1, <1>5, <2>1 DEF LeftOver
  <2>3. PackTypes'
    BY <1>1, <1>5, <2>1 DEF PackTypes
  <2>4. Sorted'
    BY <1>1, <1>2, <1>5, <1>6, <1>7, <1>8, <2>1, <2>2 DEF Sorted
  <2>5. ASSUME NEW d \in LeftOver PROVE Joined(Append(selected', d)) > available
    <3>1. d \in FactRecord /\ c \in FactRecord /\ selected \in Seq(FactRecord)
      BY <1>2, <1>5 DEF LeftOver
    <3>2. Joined(Append(selected, d)) <= Joined(Append(selected', d))
      BY <1>8, <3>1, WhatDidNotFit
    <3>3. Joined(Append(selected, d)) \in Nat /\ Joined(Append(selected', d)) \in Nat
      <4>1. Append(selected, d) \in Seq(FactRecord) /\ Append(selected', d) \in Seq(FactRecord)
        BY <1>2, <2>1, <3>1
      <4>. QED
        BY <3>1, <4>1, EstimateOfAppend
    <3>4. Joined(Append(selected, d)) > available
      BY <1>2 DEF Filled
    <3>. QED
      BY <1>3, <3>2, <3>3, <3>4
  <2>6. Filled'
    BY <1>1, <1>8, <2>2, <2>5 DEF Filled, Fits
  <2>. QED
    BY <1>1, <2>3, <2>4, <2>6 DEF NotYetPacked, Packing
<1>9. CASE /\ ~Fits(c) /\ selected' = selected
           /\ discarded' = discarded \cup {<<c, "budget_exhausted">>}
  <2>1. LeftOver' = LeftOver \cup {c}
    BY <1>1, <1>5, <1>6, <1>9 DEF LeftOver
  <2>2. PackTypes'
    BY <1>1, <1>2, <1>5, <1>9 DEF PackTypes
  <2>3. Sorted'
    <3>1. discarded' = (GatedOut \cup (LeftOver \cup {c}) \X {"budget_exhausted"})
      BY <1>2, <1>9 DEF Sorted
    <3>. QED
      BY <1>1, <1>2, <1>5, <1>7, <1>9, <2>1, <3>1 DEF Sorted
  <2>4. Joined(Append(selected, c)) > available
    <3>1. selected \in Seq(FactRecord) /\ c \in FactRecord
      BY <1>2, <1>5
    <3>2. Append(selected, c) \in Seq(FactRecord)
      BY <3>1
    <3>3. Joined(Append(selected, c)) \in Nat
      BY <3>1, <3>2, EstimateOfAppend
    <3>. QED
      BY <1>3, <1>9, <3>3 DEF Fits
  <2>5. Filled'
    BY <1>1, <1>2, <1>9, <2>1, <2>4 DEF Filled
  <2>. QED
    BY <1>1, <2>2, <2>3, <2>5 DEF NotYetPacked, Packing
<1>. QED
  BY <1>1, <1>8, <1>9

\* The prompt that is put together is never over the budget.
LEMMA AssemblyKeepsPacking == ASSUME PackInv, Assemble PROVE PackInv'
<1>. USE DEF PackInv
<1>1. /\ Accepted' = Accepted /\ GatedOut' = GatedOut
      /\ UNCHANGED <<promptOf, given, available, queue, selected, discarded>>
      /\ stage = "optional" /\ queue = <<>>
      /\ stage' = IF Joined(selected) > available THEN "refused" ELSE "compiled"
  BY GatesStand DEF Assemble
<1>2. Sorted /\ Filled
  BY <1>1 DEF Packing
<1>3. stage' = "compiled"
  <2>1. selected \in Seq(FactRecord) /\ available \in Nat
    BY GatesNarrow, CompilerAssumption DEF PackTypes
  <2>2. Joined(selected) <= available
    BY <1>2 DEF Filled
  <2>3. Joined(selected) \in Nat
    <3>1. PICK f \in Fact : TRUE
      BY CompilerAssumption
    <3>2. f \in FactRecord
      BY CompilerAssumption
    <3>. QED
      BY <2>1, <3>2, EstimateOfAppend
  <2>. QED
    BY <1>1, <2>1, <2>2, <2>3
<1>4. \A d : Required(d)' <=> Required(d)
  BY <1>1, RequiredStands
<1>5. LeftOver' = LeftOver
  BY <1>1 DEF LeftOver
<1>6. Sorted'
  BY <1>1, <1>2, <1>4, <1>5 DEF Sorted
<1>7. Filled'
  BY <1>1, <1>2, <1>5 DEF Filled
<1>8. PackTypes'
  BY <1>1, <1>3 DEF PackTypes
<1>. QED
  BY <1>1, <1>3, <1>6, <1>7, <1>8 DEF NotYetPacked, Packing

\* So does a step of the compiler, and none.
LEMMA PackStep == ASSUME PackInv, [CompilerNext]_compileVars PROVE PackInv'
<1>1. CASE UNCHANGED compileVars
  <2>1. Accepted' = Accepted /\ GatedOut' = GatedOut
    BY <1>1, GatesStand DEF compileVars
  <2>2. \A d : Required(d)' <=> Required(d)
    BY <1>1, RequiredStands DEF compileVars
  <2>3. UNCHANGED <<promptOf, given, available, stage, queue, selected, discarded>>
    BY <1>1 DEF compileVars
  <2>4. LeftOver' = LeftOver
    BY <2>1, <2>3 DEF LeftOver
  <2>5. PackTypes' /\ NotYetPacked'
    BY <2>1, <2>3 DEF PackInv, PackTypes, NotYetPacked
  <2>6. Sorted => Sorted'
    BY <2>1, <2>2, <2>3, <2>4 DEF Sorted
  <2>7. Filled => Filled'
    BY <2>3, <2>4 DEF Filled
  <2>. QED
    BY <2>3, <2>5, <2>6, <2>7 DEF PackInv, Packing
<1>2. CASE Gate
  BY <1>2, GateKeepsPacking
<1>3. CASE RequiredTooLarge
  BY <1>3, FailureKeepsPacking
<1>4. CASE TakeRequired
  BY <1>4, RequiredKeepsPacking
<1>5. CASE TryOptional
  BY <1>5, TryingKeepsPacking
<1>6. CASE Assemble
  BY <1>6, AssemblyKeepsPacking
<1>. QED
  BY <1>1, <1>2, <1>3, <1>4, <1>5, <1>6 DEF CompilerNext
\* What a task is told of chapters, memories and foreshadows is adopted.
LEMMA ToldIsAdopted ==
  ASSUME given \subseteq Fact, NEW c \in Candidates
  PROVE  /\ c.kind \in {"prior_chapter_summary", "recent_body"} => c.status = "completed"
         /\ c.kind = "narrative_memory" => c.status = "approved"
         /\ c.kind = "foreshadow" =>
              c.status \in {"suggested", "planned", "planted", "active"}
<1>1. PICK f \in Input : c \in CandidatesOf(f)
  BY DEF Candidates, Among, Later
<1>2. /\ f \in given
      /\ f.kind \in {"task_instruction", "project_config", "volume_goal", "chapter_goal",
                     "continuation", "character", "relation", "worldview",
                     "source_material", "chapter", "narrative_memory", "foreshadow",
                     "stage_body"}
      /\ f.kind = "chapter" => f.status = "completed"
      /\ f.kind = "narrative_memory" => f.status = "approved"
      /\ f.kind = "foreshadow" => f.status \notin {"revealed", "paid_off", "resolved",
                                                   "abandoned"}
  BY <1>1 DEF Input, OutlineInput, ChapterInput, Goals, OpenForeshadows, ApprovedMemories,
              PriorVolumes, PriorChapters, Library, OfKind
<1>3. f \in Fact
  BY <1>2
<1>4. CASE f.kind = "chapter"
  BY <1>1, <1>2, <1>3, <1>4, CandidateShape
<1>5. CASE f.kind # "chapter"
  <2>1. c = f
    BY <1>1, <1>3, <1>5, CandidateShape
  <2>2. f.kind = "foreshadow" => f.status \in StatusOfForeshadow
    BY <1>3, CompilerAssumption
  <2>. QED
    BY <1>2, <1>5, <2>1, <2>2 DEF StatusOfForeshadow
<1>. QED
  BY <1>4, <1>5

\* So no status is ever filtered.
LEMMA ToldIsLive ==
  ASSUME given \subseteq Fact
  PROVE  Allowed \subseteq Active
<1>. SUFFICES ASSUME NEW c \in Allowed PROVE Live(c)
  BY DEF Active
<1>1. c \in Candidates
  BY GatesNarrow
<1>. QED
  BY <1>1, ToldIsAdopted DEF Live

\* The body that is summarised or checked is accepted, and required.
LEMMA BodyIsAccepted ==
  ASSUME Fact \ Optional \subseteq given, promptOf \in {"summary", "fact_check"}
  PROVE  \E c \in Accepted : c.kind = "stage_body" /\ Required(c)
<1>1. PICK f \in Fact \ Optional : f.kind = "stage_body"
  BY CompilerAssumption
<1>2. f \in Input
  BY <1>1 DEF Input, ChapterInput, OfKind
<1>3. f \in Candidates
  <2>1. f \in UNION {CandidatesOf(g) : g \in Input}
    BY <1>1, <1>2 DEF CandidatesOf
  <2>. QED
    BY <1>1, <2>1 DEF Candidates
<1>4. /\ "stage_body" \in Strategy.allowed /\ "stage_body" \in Strategy.required
      /\ "stage_body" \notin DOMAIN Strategy.capacity
  BY DEF Strategy, SummaryStrategy, FactCheckStrategy
<1>5. f \in Allowed
  BY <1>1, <1>3, <1>4 DEF Allowed, OverPriorLimit
<1>6. f \in Active
  BY <1>1, <1>5 DEF Active, Live
<1>7. f \in WithinCapacity
  BY <1>1, <1>4, <1>6 DEF WithinCapacity
<1>8. Required(f)
  BY <1>1, <1>4 DEF Required
<1>. QED
  BY <1>1, <1>7, <1>8 DEF Accepted

\* What a pair is of.
LEMMA LeftOutForBudget ==
  ASSUME PackInv, stage \in {"optional", "compiled"}
  PROVE  LeftOutFor("budget_exhausted") = LeftOver
<1>1. discarded = GatedOut \cup (LeftOver \X {"budget_exhausted"})
  BY DEF PackInv, Packing, Sorted
<1>2. \A p \in GatedOut : p[2] # "budget_exhausted"
  BY GatesSayWhy DEF PackInv, PackTypes
<1>3. \A c \in LeftOver : <<c, "budget_exhausted">> \in discarded
  BY <1>1
<1>4. \A p \in discarded : p[2] = "budget_exhausted" => p[1] \in LeftOver
  BY <1>1, <1>2
<1>5. ASSUME NEW c \in LeftOver PROVE c \in LeftOutFor("budget_exhausted")
  <2>1. PICK p \in discarded : p = <<c, "budget_exhausted">>
    BY <1>3
  <2>. QED
    BY <2>1 DEF LeftOutFor
<1>. QED
  BY <1>4, <1>5 DEF LeftOutFor

\* A compiled prompt holds what is adopted.
LEMMA CompiledIsAdopted ==
  ASSUME PackInv, stage = "compiled"
  PROVE  HoldsWhatIsAdopted
<1>1. /\ given \subseteq Fact /\ Fact \ Optional \subseteq given /\ Sorted
      /\ selected \in Seq(Accepted)
  BY DEF PackInv, PackTypes, Packing
<1>2. Range(selected) \subseteq Accepted
  BY <1>1 DEF Range
<1>3. promptOf \in {"summary", "fact_check"} =>
        \E c \in Range(selected) : c.kind = "stage_body"
  BY <1>1, BodyIsAccepted DEF Sorted
<1>4. ASSUME NEW c \in Range(selected)
      PROVE  /\ c.kind \in {"prior_chapter_summary", "recent_body"} =>
                  c.status = "completed"
             /\ c.kind \in {"narrative_memory", "foreshadow"} =>
                  c.status \in {"approved", "suggested", "planned", "planted", "active"}
  <2>1. c \in Candidates
    BY <1>1, <1>2, GatesNarrow
  <2>. QED
    BY <1>1, <2>1, ToldIsAdopted
<1>5. LeftOutFor("status_filtered") = {}
  <2>1. discarded = GatedOut \cup (LeftOver \X {"budget_exhausted"})
    BY <1>1 DEF Sorted
  <2>2. Allowed \ Active = {}
    BY <1>1, ToldIsLive
  <2>3. \A p \in GatedOut : p[2] # "status_filtered"
    BY <2>2 DEF GatedOut
  <2>. QED
    BY <2>1, <2>3 DEF LeftOutFor
<1>. QED
  BY <1>3, <1>4, <1>5 DEF HoldsWhatIsAdopted

\* Every candidate is in it or was left out once.
LEMMA CompiledCounts ==
  ASSUME PackInv, stage = "compiled"
  PROVE  Len(selected) + Cardinality(discarded) = Cardinality(Candidates)
<1>1. /\ given \subseteq Fact /\ Sorted /\ selected \in Seq(Accepted) /\ queue = <<>>
      /\ discarded = GatedOut \cup (LeftOver \X {"budget_exhausted"})
      /\ OnceEach(selected)
  BY DEF PackInv, PackTypes, Packing, Sorted
<1>. DEFINE In == Range(selected)
            Out == Candidates \ In
<1>2. Range(queue) = {}
  BY <1>1 DEF Range
<1>3. /\ In \subseteq Accepted /\ Accepted \subseteq Candidates
      /\ LeftOver = Accepted \ In
  BY <1>1, <1>2, GatesNarrow DEF Range, LeftOver
<1>. HIDE DEF In
<1>4. IsFiniteSet(Candidates)
  BY <1>1, GatesNarrow, TellableIsFinite, FS_Subset
<1>5. IsFiniteSet(In) /\ Cardinality(In) = Len(selected)
  BY <1>1, LengthCounts DEF In
<1>6. IsFiniteSet(Out) /\ Cardinality(Candidates) = Cardinality(In) + Cardinality(Out)
  <2>1. IsFiniteSet(Out)
    BY <1>4, FS_Subset
  <2>2. In \cup Out = Candidates /\ In \cap Out = {}
    BY <1>3
  <2>. HIDE DEF Out
  <2>3. Cardinality(In \cup Out) = Cardinality(In) + Cardinality(Out) - Cardinality({})
    BY <1>5, <2>1, <2>2, FS_Union
  <2>4. Cardinality(In) \in Nat /\ Cardinality(Out) \in Nat
    BY <1>5, <2>1, FS_CardinalityType
  <2>. QED
    BY <2>1, <2>2, <2>3, <2>4, FS_EmptySet
<1>7. /\ \A p \in GatedOut : /\ p = <<p[1], p[2]>> /\ p[1] \in Candidates \ Accepted
      /\ \A p, q \in GatedOut : p[1] = q[1] => p = q
      /\ \A c \in Candidates \ Accepted : \E p \in GatedOut : p[1] = c
  BY <1>1, GatesSayWhy
<1>8. \A p \in discarded : \/ p \in GatedOut
                           \/ p = <<p[1], "budget_exhausted">> /\ p[1] \in LeftOver
  BY <1>1
<1>9. \A p \in discarded : p[1] \in Out
  BY <1>3, <1>7, <1>8
<1>10. ASSUME NEW p \in discarded, NEW q \in discarded, p[1] = q[1] PROVE p = q
  <2>1. CASE p[1] \in Accepted
    BY <1>7, <1>8, <1>10, <2>1
  <2>2. CASE p[1] \notin Accepted
    <3>1. p \in GatedOut /\ q \in GatedOut
      BY <1>3, <1>8, <1>10, <2>2
    <3>. QED
      BY <1>7, <1>10, <3>1
  <2>. QED
    BY <2>1, <2>2
<1>11. ASSUME NEW c \in Out PROVE \E p \in discarded : p[1] = c
  <2>1. CASE c \in Accepted
    <3>1. PICK p \in discarded : p = <<c, "budget_exhausted">>
      BY <1>1, <1>3, <2>1
    <3>. QED
      BY <3>1
  <2>2. CASE c \notin Accepted
    BY <1>1, <1>7, <2>2
  <2>. QED
    BY <2>1, <2>2
<1>12. Cardinality(discarded) = Cardinality(Out)
  <2>. HIDE DEF Out
  <2>. QED
    BY <1>6, <1>9, <1>10, <1>11, TracesCount
<1>13. Len(selected) \in Nat /\ Cardinality(Out) \in Nat
  BY <1>1, <1>6, FS_CardinalityType
<1>. QED
  BY <1>5, <1>6, <1>12, <1>13

\* The invariant says all of it.
LEMMA PackInvSuffices == PackInv => PromptIsWellPacked
<1>. SUFFICES ASSUME PackInv PROVE PromptIsWellPacked
  OBVIOUS
<1>1. /\ given \subseteq Fact /\ queue \in Seq(Accepted) /\ selected \in Seq(Accepted)
  BY DEF PackInv, PackTypes
<1>2. Range(queue) \subseteq Candidates /\ Range(selected) \subseteq Candidates
  <2>1. Range(queue) \subseteq Accepted /\ Range(selected) \subseteq Accepted
    BY <1>1 DEF Range
  <2>. QED
    BY <1>1, <2>1, GatesNarrow
<1>3. CompilerTypeInv /\ stage # "refused"
  BY <1>2 DEF PackInv, PackTypes, CompilerTypeInv
<1>4. ASSUME stage = "compiled"
      PROVE  /\ Joined(selected) <= available
             /\ Range(selected) = Accepted \ LeftOutFor("budget_exhausted")
             /\ \A c \in LeftOutFor("budget_exhausted") :
                  ~Required(c) /\ Joined(Append(selected, c)) > available
  <2>1. LeftOutFor("budget_exhausted") = LeftOver /\ queue = <<>> /\ Sorted /\ Filled
    BY <1>4, LeftOutForBudget DEF PackInv, Packing
  <2>2. LeftOver = Accepted \ Range(selected) /\ Range(selected) \subseteq Accepted
    BY <1>1, <2>1 DEF LeftOver, Range
  <2>. QED
    BY <2>1, <2>2 DEF Sorted, Filled
<1>. QED
  BY <1>3, <1>4, CompiledIsAdopted, CompiledCounts DEF PromptIsWellPacked

(***************************************************************************)
(* Whatever a project holds and whatever the budget, a prompt that is      *)
(* compiled fits it, separators included; it holds everything required and *)
(* nothing the author has not adopted; every candidate is in it or left    *)
(* out for one reason, and what the budget left out would not fit now      *)
(* (compileContext; the status and source filters before it).              *)
(***************************************************************************)
THEOREM PromptsAreWellPacked == CompilerSpec => []PromptIsWellPacked
<1>. QED
  BY PackInit, PackStep, PackInvSuffices, PTL DEF CompilerSpec
=============================================================================
