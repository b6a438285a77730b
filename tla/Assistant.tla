----------------------------- MODULE Assistant ------------------------------
(***************************************************************************)
(* Chat sessions of the assistant (main/assistant, agent/agent.ts,         *)
(* agent/permissions.ts).                                                  *)
(*                                                                         *)
(* A prompt makes sure of a runtime for its session, which awaits the      *)
(* creation of an agent, then runs on it; a dangerous tool call waits for  *)
(* the user's confirmation.  Cancelling, archiving and disposing abort     *)
(* what the map of runtimes holds.  A runtime is named by the prompt that  *)
(* created it: two first prompts of a session may each create one.         *)
(***************************************************************************)
EXTENDS Naturals, FiniteSets

CONSTANTS
  Chat,        \* the sessions
  Prompt,      \* the prompts the user sends
  Unmapped

ASSUME AssistantAssumption == Unmapped \notin Prompt

VARIABLES
  archived,     \* the sessions whose row is archived
  runtimes,     \* the map of runtimes: each session's, or Unmapped
  chat,         \* each prompt: where its handler is, its session and runtime
  busy,         \* each runtime's activeController: a prompt, or Unmapped
  aborted,      \* the prompts whose signal is aborted
  confirmation  \* each prompt's tool call: no, waiting, allowed, denied

assistantVars == <<archived, runtimes, chat, busy, aborted, confirmation>>

AssistantInit ==
  /\ archived = {} /\ runtimes = [s \in Chat |-> Unmapped]
  /\ chat \in [Prompt -> [at : {"unsent"}, in : Chat, on : {Unmapped}]]
  /\ busy = [r \in Prompt |-> Unmapped]
  /\ aborted = {} /\ confirmation = [p \in Prompt |-> "no"]

ChatGoes(p, at) == chat' = [chat EXCEPT ![p].at = at]
ChatGetsRuntime(p, r) == chat' = [chat EXCEPT ![p].at = "ready", ![p].on = r]

-----------------------------------------------------------------------------
(* prompt.                                                                 *)

\* The session must be active; ensureRuntime finds its runtime or begins one.
SendPrompt(p) ==
  LET s == chat[p].in IN
  /\ chat[p].at = "unsent"
  /\ IF s \in archived THEN ChatGoes(p, "error")
     ELSE IF runtimes[s] # Unmapped THEN ChatGetsRuntime(p, runtimes[s])
     ELSE ChatGoes(p, "creating")
  /\ UNCHANGED <<archived, runtimes, busy, aborted, confirmation>>

\* The tools are loaded and the agent is created, or not; nothing is asked
\* again before the runtime is put into the map.
CreateRuntime(p) ==
  /\ chat[p].at = "creating"
  /\ \/ /\ runtimes' = [runtimes EXCEPT ![chat[p].in] = p]
        /\ ChatGetsRuntime(p, p)
     \/ ChatGoes(p, "error") /\ UNCHANGED runtimes
  /\ UNCHANGED <<archived, busy, aborted, confirmation>>

\* Without the test of activeController after the await.
BeginPrompt_WhileBusy(p) ==
  /\ chat[p].at = "ready"
  /\ busy' = [busy EXCEPT ![chat[p].on] = p]
  /\ ChatGoes(p, IF chat[p].in \in archived THEN "error" ELSE "running")
  /\ UNCHANGED <<archived, runtimes, aborted, confirmation>>

\* The runtime must not be busy; it is taken, the user's message is persisted and
\* the agent runs.  A session archived since takes no message: the error leaves
\* the runtime taken.
BeginPrompt(p) ==
  LET r == chat[p].on IN
  /\ chat[p].at = "ready"
  /\ \/ /\ busy[r] # Unmapped
        /\ ChatGoes(p, "error") /\ UNCHANGED busy
     \/ /\ busy[r] = Unmapped /\ busy' = [busy EXCEPT ![r] = p]
        /\ ChatGoes(p, IF chat[p].in \in archived THEN "error" ELSE "running")
  /\ UNCHANGED <<archived, runtimes, aborted, confirmation>>

\* createDangerousOperationHook and requestConfirmation: an aborted call is
\* blocked, any other waits.
RequestConfirmation(p) ==
  /\ chat[p].at = "running" /\ confirmation[p] # "waiting" /\ p \notin aborted
  /\ confirmation' = [confirmation EXCEPT ![p] = "waiting"]
  /\ UNCHANGED <<archived, runtimes, chat, busy, aborted>>

\* confirmOperation: the first answer counts.
ConfirmOperation(p) ==
  /\ confirmation[p] = "waiting"
  /\ \E answer \in {"allowed", "denied"} :
       confirmation' = [confirmation EXCEPT ![p] = answer]
  /\ UNCHANGED <<archived, runtimes, chat, busy, aborted>>

\* The agent's loop ends: it is never waiting for a confirmation then.
PromptEnds(p) ==
  /\ chat[p].at = "running" /\ confirmation[p] # "waiting"
  /\ ChatGoes(p, IF p \in aborted THEN "cancelled" ELSE "completed")
  /\ busy' = [busy EXCEPT ![chat[p].on] = Unmapped]
  /\ UNCHANGED <<archived, runtimes, aborted, confirmation>>

-----------------------------------------------------------------------------
(* cancel, archiveSession and dispose.                                     *)

\* The prompts the controllers of these runtimes belong to.
ActiveOn(rs) == {busy[r] : r \in rs} \ {Unmapped}

\* Without the listener of requestConfirmation.
AbortPrompts_Deaf(ps) == aborted' = aborted \cup ps /\ UNCHANGED confirmation

\* Aborting a controller denies the confirmation that waits on its signal.
AbortPrompts(ps) ==
  /\ aborted' = aborted \cup ps
  /\ confirmation' = [p \in Prompt |->
                       IF p \in ps /\ confirmation[p] = "waiting" THEN "denied"
                       ELSE confirmation[p]]

Mapped(ss) == {runtimes[s] : s \in ss} \ {Unmapped}

CancelPrompt(s) ==
  /\ ActiveOn(Mapped({s})) # {} /\ AbortPrompts(ActiveOn(Mapped({s})))
  /\ UNCHANGED <<archived, runtimes, chat, busy>>

ArchiveSession(s) ==
  /\ s \notin archived /\ archived' = archived \cup {s}
  /\ AbortPrompts(ActiveOn(Mapped({s})))
  /\ runtimes' = [runtimes EXCEPT ![s] = Unmapped]
  /\ UNCHANGED <<chat, busy>>

\* Also when a credential changes: every runtime of the map is aborted and
\* forgotten, every confirmation denied.
DisposeAssistant ==
  /\ \E s \in Chat : runtimes[s] # Unmapped
  /\ aborted' = aborted \cup ActiveOn(Mapped(Chat))
  /\ confirmation' = [p \in Prompt |->
                       IF confirmation[p] = "waiting" THEN "denied" ELSE confirmation[p]]
  /\ runtimes' = [s \in Chat |-> Unmapped]
  /\ UNCHANGED <<archived, chat, busy>>

AssistantNext ==
  \/ \E p \in Prompt : \/ SendPrompt(p) \/ CreateRuntime(p) \/ BeginPrompt(p)
                       \/ RequestConfirmation(p) \/ ConfirmOperation(p) \/ PromptEnds(p)
  \/ \E s \in Chat : CancelPrompt(s) \/ ArchiveSession(s)
  \/ DisposeAssistant

\* An aborted agent's loop ends when no confirmation holds it; the user need
\* not answer, nor the model be quick, for anything else.
AssistantFairness ==
  \A p \in Prompt : WF_assistantVars(p \in aborted /\ PromptEnds(p))

AssistantSpec == AssistantInit /\ [][AssistantNext]_assistantVars /\ AssistantFairness

-----------------------------------------------------------------------------
AssistantTypeInv ==
  /\ archived \subseteq Chat /\ runtimes \in [Chat -> Prompt \cup {Unmapped}]
  /\ chat \in [Prompt -> [at : {"unsent", "creating", "ready", "running", "completed",
                                "cancelled", "error"},
                          in : Chat, on : Prompt \cup {Unmapped}]]
  /\ busy \in [Prompt -> Prompt \cup {Unmapped}]
  /\ aborted \subseteq Prompt
  /\ confirmation \in [Prompt -> {"no", "waiting", "allowed", "denied"}]

\* A prompt runs on one runtime, which runs no other and holds the controller it is
\* stopped with; only a prompt that runs and was not stopped waits for the user, and
\* only what was stopped ends as cancelled, however sending, cancelling, archiving
\* and disposing overlap (main/assistant/service.ts:218, 280, 457).
OneRunARuntime ==
  /\ \A p \in Prompt : chat[p].at = "running" =>
       chat[p].on \in Prompt /\ busy[chat[p].on] = p
  /\ \A p \in Prompt : confirmation[p] = "waiting" =>
       chat[p].at = "running" /\ p \notin aborted
  /\ \A p \in aborted : chat[p].at \in {"running", "cancelled", "error"}
  /\ \A p \in Prompt : chat[p].at = "cancelled" => p \in aborted

\* Whoever is told that a prompt was stopped sees it end: a prompt that is
\* cancelled, archived or disposed of comes to its end although it waits for a
\* confirmation the user never gives (main/assistant/service.ts:449).
StoppedPromptEnds ==
  \A p \in Prompt : p \in aborted ~> chat[p].at \notin {"ready", "running"}
=============================================================================
