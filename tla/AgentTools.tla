----------------------------- MODULE AgentTools ------------------------------
(***************************************************************************)
(* The tools an agent may call and what lets a call through                *)
(* (agent/permissions.ts, agent/tools, the factory of agent/agent.ts).     *)
(*                                                                         *)
(* A tool declares a policy; the calls of one message of the model run at  *)
(* the same time if every one of them is of a parallel tool, and one after *)
(* the other otherwise, which is the loop of the agent library.  Before a  *)
(* call runs, a hook finds its risk and may ask the user, and the signal   *)
(* of the prompt may be aborted before, while and after it asks.  The      *)
(* agent of a chapter's task is given no tools of its own, so it has the   *)
(* default ones, and no way to ask.                                        *)
(***************************************************************************)
EXTENDS Naturals, FiniteSets

CONSTANT ToolCall   \* the calls of a message

VARIABLES
  agentOf,       \* whose agent it is: the assistant's, or a writing task's
  called,       \* each call: its tool, its action and where it is
  agreed,       \* what the user said to it
  toolsStopped  \* the signal of the prompt is aborted

toolVars == <<agentOf, called, agreed, toolsStopped>>

-----------------------------------------------------------------------------
(* The tools and what their actions do.                                    *)

ToolPolicy(risk, when, mode) ==
  [risk |-> risk, confirmation |-> when, mode |-> mode]
FailClosed == ToolPolicy("destructive", "always", "sequential")

ToolPolicies ==
  [novel_context |-> ToolPolicy("read", "never", "parallel"),
   chapter_context |-> ToolPolicy("read", "never", "parallel"),
   outline_manager |-> ToolPolicy("write", "always", "sequential"),
   narrative_manager |-> ToolPolicy("destructive", "destructive", "sequential"),
   creative_task |-> ToolPolicy("destructive", "destructive", "sequential"),
   crush_manager |-> ToolPolicy("write", "destructive", "sequential"),
   fragment_manager |-> ToolPolicy("write", "destructive", "sequential"),
   day_writer |-> ToolPolicy("write", "destructive", "sequential")]

\* What a call of a tool does to the novel, or to the diary, for each action.
ToolEffects ==
  [novel_context |-> [read |-> "none"],
   chapter_context |-> [list |-> "none", get |-> "none"],
   outline_manager |-> [create |-> "novel", update |-> "novel", confirm |-> "novel",
                        lock |-> "novel"],
   narrative_manager |-> [list |-> "none", get_blocks |-> "none", diff |-> "none",
                          approve_memory |-> "novel", reject_memory |-> "novel",
                          apply_revision |-> "novel", transition_foreshadow |-> "novel",
                          toggle_skill |-> "novel"],
   creative_task |-> [start |-> "novel"],
   crush_manager |-> [list |-> "none", get |-> "none", create |-> "diary",
                      update |-> "diary", delete |-> "deletion"],
   fragment_manager |-> [list |-> "none", get |-> "none", integrate |-> "none",
                         recommend |-> "none", record |-> "diary", update |-> "diary",
                         delete |-> "deletion"],
   day_writer |-> [write |-> "diary"]]

Tool == DOMAIN ToolPolicies
ActionOf(tool) == DOMAIN ToolEffects[tool]
EffectOf(c) == ToolEffects[called[c].tool][called[c].action]

\* The tools that find the risk of a call from its action.
OutlineToolRisk(action) ==
  IF action \in {"create", "update"} THEN "write" ELSE "destructive"
NarrativeToolRisk(action) ==
  IF action \in {"list", "get_blocks", "diff"} THEN "read" ELSE "destructive"
CrushToolRisk(action) ==
  CASE action \in {"list", "get"} -> "read" [] action \in {"create", "update"} -> "write"
    [] OTHER -> "destructive"
FragmentToolRisk(action) ==
  CASE action \in {"list", "get", "integrate", "recommend"} -> "read"
    [] action \in {"record", "update"} -> "write" [] OTHER -> "destructive"

HasResolver == {"outline_manager", "narrative_manager", "creative_task", "crush_manager",
                "fragment_manager"}

\* resolveToolCallRisk.
ToolCallRisk(tool, action) ==
  CASE tool = "outline_manager" -> OutlineToolRisk(action)
    [] tool = "narrative_manager" -> NarrativeToolRisk(action)
    [] tool = "creative_task" -> "destructive"
    [] tool = "crush_manager" -> CrushToolRisk(action)
    [] tool = "fragment_manager" -> FragmentToolRisk(action)
    [] OTHER -> ToolPolicies[tool].risk

RequiresToolConfirmation_Destructive(risk, policy) == risk = "destructive"
RequiresToolConfirmation(risk, policy) ==
  risk = "destructive" \/ policy.confirmation = "always"

PolicyMayMutate(tool) == ToolPolicies[tool].risk # "read" \/ tool \in HasResolver
\* resolveToolExecutionMode: a tool that may change something is never parallel; one
\* that says it is cannot be defined.
RunsParallel(tool) == ToolPolicies[tool].mode = "parallel" /\ ~PolicyMayMutate(tool)

-----------------------------------------------------------------------------
(* The calls of a message.                                                 *)

DefaultTool == {"crush_manager", "fragment_manager", "day_writer"}
ToolsOf(whose) == IF whose = "assistant" THEN Tool ELSE DefaultTool

ToolsInit ==
  /\ agentOf \in {"assistant", "task"}
  /\ called \in [ToolCall -> {[tool |-> use[1], action |-> use[2], at |-> "made"] :
                               use \in UNION {{t} \X ActionOf(t) : t \in ToolsOf(agentOf)}}]
  /\ agreed = [c \in ToolCall |-> "unasked"] /\ toolsStopped = FALSE

CallGoes(c, at) == called' = [called EXCEPT ![c].at = at]

\* The loop turns to a call: alone, or beside the others where all are parallel.
MayBegin(c) ==
  \/ \A d \in ToolCall : RunsParallel(called[d].tool)
  \/ \A d \in ToolCall \ {c} : called[d].at \notin {"asking", "running"}

\* The hook: blocked, run, or put before the user.
BeginCall(c) ==
  LET policy == ToolPolicies[called[c].tool]
      risk == ToolCallRisk(called[c].tool, called[c].action)
      asks == RequiresToolConfirmation(risk, policy)
  IN
  /\ called[c].at = "made" /\ MayBegin(c)
  /\ CASE toolsStopped -> CallGoes(c, "blocked")
       [] ~toolsStopped /\ ~asks -> CallGoes(c, "running")
       [] ~toolsStopped /\ asks /\ agentOf = "task" -> CallGoes(c, "blocked")
       [] OTHER -> CallGoes(c, "asking")
  /\ UNCHANGED <<agentOf, agreed, toolsStopped>>

\* The user answers, the signal is aborted while asking, or asking fails.
AnswerCall(c) ==
  /\ called[c].at = "asking" /\ agreed[c] = "unasked"
  /\ \E yesOrNo \in {"yes", "no", "failed"} : agreed' = [agreed EXCEPT ![c] = yesOrNo]
  /\ UNCHANGED <<agentOf, called, toolsStopped>>

\* The hook goes on with the answer.
HookGoesOn(c) ==
  /\ called[c].at = "asking" /\ agreed[c] # "unasked"
  /\ CallGoes(c, IF toolsStopped \/ agreed[c] # "yes" THEN "blocked" ELSE "running")
  /\ UNCHANGED <<agentOf, agreed, toolsStopped>>

\* The tool is done, whether it could do it or not.
EndCall(c) ==
  /\ called[c].at = "running" /\ CallGoes(c, "ran")
  /\ UNCHANGED <<agentOf, agreed, toolsStopped>>

StopTools == ~toolsStopped /\ toolsStopped' = TRUE /\ UNCHANGED <<agentOf, called, agreed>>

ToolsNext ==
  \/ \E c \in ToolCall : BeginCall(c) \/ AnswerCall(c) \/ HookGoesOn(c) \/ EndCall(c)
  \/ StopTools

ToolsSpec == ToolsInit /\ [][ToolsNext]_toolVars

-----------------------------------------------------------------------------
\* A call runs only before its prompt is stopped; one that changes the novel or
\* deletes from the diary only after the user agreed to that very call, and with no
\* other call beside it, whatever the model puts into one message (README.md:134:
\* writing, confirming and locking pass a confirmation in the application).
ChangesWereAgreed ==
  [][\A c \in ToolCall :
       (called[c].at # "running" /\ called'[c].at = "running") =>
         /\ ~toolsStopped
         /\ EffectOf(c) \in {"novel", "deletion"} => agreed[c] = "yes"
         /\ \A d \in ToolCall \ {c} :
              called[d].at = "running" => {EffectOf(c), EffectOf(d)} = {"none"}]_toolVars
=============================================================================
