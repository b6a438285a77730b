---------------------------- MODULE AssistantDesk ----------------------------
(***************************************************************************)
(* The assistant's page (renderer/stores/assistantStore.ts) and the        *)
(* channel to the service behind it (main/assistant/ipc.ts).               *)
(*                                                                         *)
(* What the page asks and what the service answers or tells of its own     *)
(* accord each travel in order; between them anything may happen.  The     *)
(* prompts of Assistant are seen from the page here: a prompt is under     *)
(* way for a session, says something, asks the user, and ends.             *)
(***************************************************************************)
EXTENDS Naturals, Sequences, SequencesExt

CONSTANTS
  Session,       \* the sessions there may be
  SessionOf,     \* the project of each
  NoSession,
  MaxPageClicks, \* bound: what the user does
  MaxSaid        \* bound: what is said in all sessions

ASSUME AssistantDeskAssumption ==
  NoSession \notin Session /\ MaxPageClicks \in Nat /\ MaxSaid \in Nat

VARIABLES
  talks,      \* in the database: the sessions, the closed ones, what was said in each
  prompting,  \* the sessions a prompt is under way for
  page,       \* the state of the page's store
  toService, toPage, \* on the way to the service, and to the page
  pageClicks

pageVars == <<talks, prompting, page, toService, toPage, pageClicks>>

EmptyPage == [project |-> "none", sessions |-> {}, active |-> NoSession, messages |-> <<>>,
              busy |-> FALSE, confirmation |-> NoSession]

PageInit ==
  /\ talks = [there |-> {}, closed |-> {}, said |-> [s \in Session |-> <<>>], next |-> 1]
  /\ prompting = {} /\ page = EmptyPage
  /\ toService = <<>> /\ toPage = <<>> /\ pageClicks = 0

Ask(kind, of) == [kind |-> kind, of |-> of]
Tell(kind, of, what) == [kind |-> kind, of |-> of, what |-> what]

-----------------------------------------------------------------------------
(* What the user does.                                                     *)

PageClick == pageClicks < MaxPageClicks /\ pageClicks' = pageClicks + 1

\* initialize: the sessions of the project are asked for.
InitializeAssistant(p) ==
  /\ PageClick /\ page' = [page EXCEPT !.project = p]
  /\ toService' = Append(toService, Ask("list", p))
  /\ UNCHANGED <<talks, prompting, toPage>>

\* createSession, loadSession, archiveSession.
PageAsks(kind, of) ==
  /\ PageClick /\ toService' = Append(toService, Ask(kind, of))
  /\ kind = "create" => page.project = of /\ of # "none"
  /\ kind \in {"get", "archive"} => of \in page.sessions
  /\ UNCHANGED <<talks, prompting, page, toPage>>

\* sendPrompt, stop and confirm speak of the session that is shown.
SendFromPage ==
  /\ PageClick /\ page.active # NoSession /\ page' = [page EXCEPT !.busy = TRUE]
  /\ toService' = Append(toService, Ask("prompt", page.active))
  /\ UNCHANGED <<talks, prompting, toPage>>
StopFromPage ==
  /\ PageClick /\ page.active # NoSession
  /\ toService' = Append(toService, Ask("cancel", page.active))
  /\ UNCHANGED <<talks, prompting, page, toPage>>
ConfirmFromPage ==
  /\ PageClick /\ page.confirmation # NoSession
  /\ toService' = Append(toService, Ask("confirm", page.confirmation))
  /\ UNCHANGED <<talks, prompting, page, toPage>>

-----------------------------------------------------------------------------
(* The service.                                                            *)

\* append: a message of the session, told to the page.
Say(t, s) == [t EXCEPT !.said[s] = Append(@, t.next), !.next = @ + 1]
Said(s) == Tell("message", s, talks.next)

ServeAsk ==
  LET ask == Head(toService)
      p == ask.of
  IN
  /\ toService # <<>> /\ toService' = Tail(toService) /\ UNCHANGED <<page, pageClicks>>
  /\ \/ /\ ask.kind = "list" /\ UNCHANGED <<talks, prompting>>
        /\ LET of == {s \in talks.there : SessionOf[s] = p}
               list == [all |-> of, open |-> of \ talks.closed]
           IN toPage' = Append(toPage, Tell("list", p, list))
     \/ /\ ask.kind \in {"create", "createFirst"} /\ UNCHANGED prompting
        /\ \E s \in Session \ talks.there :
             /\ SessionOf[s] = p /\ talks' = [talks EXCEPT !.there = @ \cup {s}]
             /\ toPage' = Append(toPage, Tell(ask.kind, p, s))
     \/ /\ ask.kind = "get" /\ UNCHANGED <<talks, prompting>>
        /\ toPage' = Append(toPage, Tell("get", p, talks.said[p]))
     \/ /\ ask.kind = "archive" /\ talks' = [talks EXCEPT !.closed = @ \cup {p}]
        /\ UNCHANGED prompting /\ toPage' = Append(toPage, Tell("archive", p, 0))
     \/ /\ ask.kind = "prompt" /\ (p \in prompting \/ p \in talks.closed)
        /\ toPage' = Append(toPage, Tell("failed", p, 0)) /\ UNCHANGED <<talks, prompting>>
     \/ /\ ask.kind = "prompt" /\ p \notin prompting \cup talks.closed
        /\ talks.next <= MaxSaid
        /\ talks' = Say(talks, p) /\ prompting' = prompting \cup {p}
        /\ toPage' = Append(toPage, Said(p))
     \/ /\ ask.kind \in {"cancel", "confirm"} /\ UNCHANGED <<talks, prompting>>
        /\ toPage' = Append(toPage, Tell(ask.kind, p, 0))

\* The agent of a prompt says something, or asks before a tool is used.
AgentSays(s) ==
  /\ s \in prompting \ talks.closed /\ talks.next <= MaxSaid /\ talks' = Say(talks, s)
  /\ toPage' = Append(toPage, Said(s))
  /\ UNCHANGED <<prompting, page, toService, pageClicks>>
AgentAsks(s) ==
  /\ s \in prompting \ talks.closed
  /\ ~\E i \in DOMAIN toPage : toPage[i].kind = "confirmation"
  /\ toPage' = Append(toPage, Tell("confirmation", s, 0))
  /\ UNCHANGED <<talks, prompting, page, toService, pageClicks>>

\* assistant:end, and the answer to the prompt after it.
TalkEnds(s) ==
  /\ s \in prompting /\ prompting' = prompting \ {s}
  /\ toPage' = toPage \o <<Tell("end", s, 0), Tell("prompt", s, 0)>>
  /\ UNCHANGED <<talks, page, toService, pageClicks>>

-----------------------------------------------------------------------------
(* What the page makes of what it is told.                                   *)

\* Every event of another session than the one shown is passed over.
HearsEvent_OfAny(t) == TRUE
HearsEvent(t) == t.of = page.active

AfterEvent(t) ==
  CASE t.kind = "message" -> IF Contains(page.messages, t.what) THEN page
                             ELSE [page EXCEPT !.messages = Append(@, t.what)]
    [] t.kind = "confirmation" -> [page EXCEPT !.confirmation = t.of]
    [] t.kind = "end" -> [page EXCEPT !.busy = FALSE]

PageHears ==
  LET t == Head(toPage) IN
  /\ toPage # <<>> /\ toPage' = Tail(toPage) /\ UNCHANGED <<talks, prompting, pageClicks>>
  /\ \/ /\ t.kind \in {"message", "confirmation", "end"} /\ UNCHANGED toService
        /\ page' = IF HearsEvent(t) THEN AfterEvent(t) ELSE page
     \* initialize: one is created where there is none, an open one preferred.
     \/ /\ t.kind = "list" /\ t.what.all = {} /\ UNCHANGED page
        /\ toService' = Append(toService, Ask("createFirst", t.of))
     \/ /\ t.kind = "list" /\ page' = [page EXCEPT !.sessions = t.what.all]
        /\ \E s \in t.what.all :
             /\ s \in t.what.open \/ t.what.open = {}
             /\ toService' = Append(toService, Ask("get", s))
     \/ /\ t.kind \in {"create", "createFirst"}
        /\ toService' = Append(toService, Ask("get", t.what))
        /\ page' = [page EXCEPT !.sessions =
                      IF t.kind = "create" THEN @ \cup {t.what} ELSE {t.what}]
     \/ /\ t.kind = "get" /\ UNCHANGED toService
        /\ page' = [page EXCEPT !.active = t.of, !.messages = t.what,
                                !.confirmation = NoSession]
     \/ /\ t.kind = "archive" /\ UNCHANGED toService
        /\ page' = IF page.active # t.of THEN page
                   ELSE [page EXCEPT !.active = NoSession, !.messages = <<>>]
     \/ /\ t.kind \in {"prompt", "failed", "cancel"} /\ UNCHANGED toService
        /\ page' = [page EXCEPT !.busy = FALSE]
     \/ /\ t.kind = "confirm" /\ UNCHANGED toService
        /\ page' = [page EXCEPT !.confirmation = NoSession]

PageNext ==
  \/ \E p \in {SessionOf[s] : s \in Session} :
       InitializeAssistant(p) \/ PageAsks("create", p)
  \/ \E s \in Session : PageAsks("get", s) \/ PageAsks("archive", s)
  \/ SendFromPage \/ StopFromPage \/ ConfirmFromPage \/ ServeAsk \/ PageHears
  \/ \E s \in Session : AgentSays(s) \/ AgentAsks(s) \/ TalkEnds(s)

PageSpec == PageInit /\ [][PageNext]_pageVars

-----------------------------------------------------------------------------
\* The page shows what was said in its session, in order, each message once and
\* none of another session, whatever is asked while a prompt is under way; once
\* nothing is on its way it shows all of it.  A question it puts to the user is of
\* the session it shows, unless that one was archived under it.
PageIsOfItsSession ==
  LET said == talks.said[page.active] IN
  IF page.active = NoSession THEN page.messages = <<>>
  ELSE /\ IsPrefix(page.messages, said)
       /\ toService = <<>> /\ toPage = <<>> => page.messages = said
       /\ page.confirmation \in {NoSession, page.active}
=============================================================================
