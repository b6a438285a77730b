----------------------------- MODULE ListStore ------------------------------
(***************************************************************************)
(* The list stores of the renderer's pages (renderer/stores/               *)
(* createCrudStore.ts): one list, loaded for the character the page shows, *)
(* and calls that change an item and then load the list again.  Every      *)
(* await is a point where another call runs.  The main process answers the *)
(* list requests in the order it gets them, which is the kindest order the *)
(* store can meet; what the calls themselves do is theirs, only when they  *)
(* answer matters here.                                                    *)
(***************************************************************************)
EXTENDS Naturals, Sequences

CONSTANTS
    Slug,        \* the characters a page can show
    Call,        \* the calls that change an item (config.mutations)
    NoSlug,      \* no list was loaded yet
    MaxFetches   \* bound on the loads of a list

VARIABLES
    items,          \* whose items the store holds; NoSlug: the empty list
    loading,
    lastFetchArgs,  \* _lastFetchArgs
    fetchSeq,       \* _fetchSeq
    mutationCount,  \* _mutationCount
    calling,        \* the calls the main process has not answered
    listRequests    \* the list requests on their way, oldest first

listVars == <<items, loading, lastFetchArgs, fetchSeq, mutationCount,
              calling, listRequests>>

\* A request by a fetch carries the sequence number it was made under; one
\* by a call (seq 0) carries none.
RequestOf(slug, seq) == [of |-> slug, seq |-> seq]

ListInit ==
    /\ items = NoSlug /\ loading = FALSE /\ lastFetchArgs = NoSlug
    /\ fetchSeq = 0 /\ mutationCount = 0 /\ calling = {} /\ listRequests = <<>>

\* fetch, up to its await; refetch is a fetch of the same character.
FetchList(slug) ==
    /\ fetchSeq < MaxFetches
    /\ fetchSeq' = fetchSeq + 1
    /\ items' = NoSlug /\ loading' = TRUE /\ lastFetchArgs' = slug
    /\ listRequests' = Append(listRequests, RequestOf(slug, fetchSeq + 1))
    /\ UNCHANGED <<mutationCount, calling>>

\* A wrapped mutation, up to the await of its service call.
StartCall(c) ==
    /\ c \notin calling /\ mutationCount < MaxFetches
    /\ mutationCount' = mutationCount + 1 /\ calling' = calling \cup {c}
    /\ loading' = TRUE
    /\ UNCHANGED <<items, lastFetchArgs, fetchSeq, listRequests>>

\* The call failed, or no list was ever loaded: it only ends the loading.
CallEnds(c) ==
    /\ c \in calling
    /\ calling' = calling \ {c} /\ mutationCount' = mutationCount - 1
    /\ loading' = FALSE
    /\ UNCHANGED <<items, lastFetchArgs, fetchSeq, listRequests>>

\* The call succeeded: the list of the last fetch is asked for again.
CallSucceeds(c) ==
    /\ c \in calling /\ lastFetchArgs # NoSlug
    /\ calling' = calling \ {c}
    /\ listRequests' = Append(listRequests, RequestOf(lastFetchArgs, 0))
    /\ UNCHANGED <<items, loading, lastFetchArgs, fetchSeq, mutationCount>>

\* applyListResponse.  The answer to a call's request is applied under the
\* sequence number of the moment it arrives, so its test always passes.
Takes(request, seq) == seq = fetchSeq

ListAnswered ==
    /\ listRequests # <<>>
    /\ LET request == Head(listRequests)
           byCall == request.seq = 0
           applied == IF byCall THEN mutationCount <= 1 /\ Takes(request, fetchSeq)
                                ELSE Takes(request, request.seq)
       IN  /\ listRequests' = Tail(listRequests)
           /\ mutationCount' = IF byCall THEN mutationCount - 1 ELSE mutationCount
           /\ \/ /\ items' = IF applied THEN request.of ELSE items
                 /\ loading' = IF applied THEN FALSE ELSE loading
              \/ /\ items' = items   \* the list could not be read
                 /\ loading' \in IF applied THEN {FALSE}
                                 ELSE IF byCall THEN {FALSE, loading}
                                 ELSE {loading}
           /\ UNCHANGED <<lastFetchArgs, fetchSeq, calling>>

ListNext ==
    \/ \E slug \in Slug : FetchList(slug)
    \/ \E c \in Call : StartCall(c) \/ CallEnds(c) \/ CallSucceeds(c)
    \/ ListAnswered

ListSpec == ListInit /\ [][ListNext]_listVars

(***************************************************************************)
(* The store never shows one character's items after another character's   *)
(* list was asked for: what createCrudStore.ts says of its sequence number *)
(* (line 10) and of the clearing of old items (line 149).  The request a   *)
(* call makes for itself does not carry the number, so the list of the     *)
(* character the page has left is put in the place of the new one.         *)
(***************************************************************************)
ListIsOfTheLastFetch == items \in {NoSlug, lastFetchArgs}
=============================================================================
