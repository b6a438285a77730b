SPECIFICATION StudioSpec
CONSTANTS
  d1 = d1
  d2 = d2
  author = author
  n1 = n1
  n2 = n2
  q1 = q1
  q2 = q2
  q3 = q3
  p1 = p1
  day1 = day1
  look1 = look1
  c1 = c1
  c2 = c2
  x1 = x1
  x2 = x2
  g1 = g1
  g2 = g2
  \* RecoveryFacts
  Types = {"chapter-generation", "chapter-polish", "outline-generation", "assistant"}
  MaxLosses = 4
  \* StoredTask
  MaxDamages = 2
  \* OutlineGeneration
  Drafter = {d1, d2}
  Author = author
  MaxRevisions = 3
  MaxResumes = 2
  \* NarrativeNotes
  Notebook = {n1, n2}
  Asker = {q1, q2, q3}
  MaxItems = 2
  \* ProjectArchive
  SkillName = {"continuity", "mine"}
  MaxOdd = 1
  MaxCopies = 1
  \* ContextCompiler
  Fact <- SomeFacts
  Optional <- SomeOptional
  ChapterHere = 3
  VolumeHere = 2
  Scale = 12
  Budgets = {0, 6, 9, 12, 15, 20}
  \* Diary
  Pen = {p1}
  DiaryDay = {day1}
  Reader = {look1}
  MaxMade = 2
  MaxMishaps = 2
  \* AgentTools
  ToolCall = {c1, c2}
  \* Workbench
  Project = {"a", "b"}
  NoProject = "none"
  MaxClicks = 4
  \* TaskBoard
  BoardTask = {x1, x2}
  BoardProject = {"a", "b"}
  ProjectOf <- MCProjectOf
  NoTask = NoTask
  NoBoard = "none"
  MaxBoardClicks = 3
  MaxNews = 2
  \* NarrativeDesk
  DeskProject = {"a", "b"}
  Nowhere = Nowhere
  MaxDeskClicks = 4
  MaxDeskFaults = 1
  \* AssistantDesk
  Session = {g1, g2}
  SessionOf <- MCSessionOf
  NoSession = NoSession
  MaxPageClicks = 4
  MaxSaid = 3
INVARIANTS
  ResumesWhatWasLeft
  NotesComeFromOneRun
  ArchiveRoundTrips
  PromptIsWellPacked
  DiaryIsKept
  ListsFollowTheShown
  BoardIsOfItsProject
  DeskIsCoherent
  PageIsOfItsSession
PROPERTIES
  AutoRepeatsNoCall
  ProposalReplacesWhatWasAsked
  ChangesWereAgreed
CHECK_DEADLOCK FALSE
