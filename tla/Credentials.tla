---------------------------- MODULE Credentials -----------------------------
(***************************************************************************)
(* Keys of the model services (main/security and main/ipc/credentials).    *)
(*                                                                         *)
(* An encrypted file holds, per configuration, a key and the endpoint it   *)
(* is bound to; the configuration (settings file, llm_configs row, project *)
(* settings) holds only a reference.  The two are written one after the    *)
(* other: a write may fail, and the program may die in between.  Plaintext *)
(* keys of older releases are moved into the file at start.  Agents take a *)
(* key in several awaited steps.  Every synchronous operation is broken    *)
(* where the program can die; nothing else happens while one is pending.   *)
(***************************************************************************)
EXTENDS Naturals, FiniteSets

CONSTANTS
  Config,     \* the configurations
  App,        \* the global one
  Endpoint,   \* provider and base URL
  Key,        \* the keys, each entered once
  NoKey,
  KeyUser     \* the agents being made: tasks, prompts of the assistant

ASSUME CredentialsAssumption == App \in Config /\ NoKey \notin Key

VARIABLES
  keyring,    \* safeStorage is available in this session
  vault,      \* the encrypted file: key and binding of each configuration
  refers,     \* the configurations that hold a reference
  plaintext,  \* each configuration's legacy key
  endpoint,   \* each configuration's provider and base URL
  unmigrated, \* the configurations the migration of this start has not seen
  step,       \* the operation between its two writes
  agent,      \* each agent being made or in use: its config, endpoint and key
  told,       \* (history) the keys the user may expect each configuration to use
  meant       \* (history) the endpoint each key was entered or migrated for

credentialVars == <<keyring, vault, refers, plaintext, endpoint, unmigrated, step,
                    agent, told, meant>>

Empty == [key |-> NoKey, endpoint |-> CHOOSE e \in Endpoint : TRUE]
Rest == [op |-> "none", of |-> App, before |-> [c \in Config |-> Empty]]
NoAgent == [at |-> "none", of |-> App, endpoint |-> Empty.endpoint, key |-> NoKey]

Stored(c) == vault[c].key # NoKey
Bound(c) == Stored(c) /\ vault[c].endpoint = endpoint[c]
\* hasUsableRuntimeCredential, runtimeConfig.
Usable(c) == refers[c] /\ Bound(c)
\* The key of a configuration nobody deleted: its plaintext.
LeftBehind(c) == {plaintext[c]} \ {NoKey}

CredentialsInit ==
  /\ keyring \in BOOLEAN
  /\ vault = [c \in Config |-> Empty] /\ refers = [c \in Config |-> FALSE]
  /\ plaintext \in {f \in [Config -> Key \cup {NoKey}] :
                      \A c, d \in Config : f[c] = f[d] => c = d \/ f[c] = NoKey}
  /\ endpoint \in [Config -> Endpoint]
  /\ unmigrated = Config /\ step = Rest
  /\ agent = [u \in KeyUser |-> NoAgent]
  /\ told = [c \in Config |-> LeftBehind(c)]
  /\ meant = [k \in Key |-> Empty.endpoint]

Idle == step = Rest
Serving == Idle /\ unmigrated = {}
InStep(op) == step.op = op
\* invalidateRuntimes: the agents in use are disposed of; one still being made
\* is in no map yet.
Invalidated == [u \in KeyUser |-> IF agent[u].at = "ready" THEN NoAgent ELSE agent[u]]
Fresh(k) == /\ \A c \in Config : plaintext[c] # k /\ vault[c].key # k /\ k \notin told[c]
            /\ \A u \in KeyUser : agent[u].key # k

-----------------------------------------------------------------------------
(* Migration at start (llmCredentials.ts).                                 *)

\* No plaintext, no keyring, a binding that is refused, or a reference taken by
\* another key: the plaintext stays.
LeavePlaintext(c) ==
  /\ Idle /\ c \in unmigrated /\ unmigrated' = unmigrated \ {c}
  /\ UNCHANGED <<keyring, vault, refers, plaintext, endpoint, step, agent, told, meant>>

\* saveCredential, read back before the plaintext goes.
MigrateKey(c) ==
  /\ Idle /\ c \in unmigrated /\ keyring /\ plaintext[c] # NoKey
  /\ c = App \/ vault[c].key \in {NoKey, plaintext[c]}
  /\ vault' = [vault EXCEPT ![c] = [key |-> plaintext[c], endpoint |-> endpoint[c]]]
  /\ meant' = [meant EXCEPT ![plaintext[c]] = endpoint[c]]
  /\ step' = [Rest EXCEPT !.op = "migrate", !.of = c]
  /\ unmigrated' = unmigrated \ {c}
  /\ UNCHANGED <<keyring, refers, plaintext, endpoint, agent, told>>

\* The reference replaces the plaintext in one write, or the write fails.
ReplacePlaintext ==
  /\ InStep("migrate") /\ step' = Rest
  /\ \/ /\ refers' = [refers EXCEPT ![step.of] = TRUE]
        /\ plaintext' = [plaintext EXCEPT ![step.of] = NoKey]
     \/ UNCHANGED <<refers, plaintext>>
  /\ UNCHANGED <<keyring, vault, endpoint, unmigrated, agent, told, meant>>

-----------------------------------------------------------------------------
(* save, delete and deleteAll (llmCredentialController.ts).                *)

\* saveCredentialWithCommit: the encrypted file first.
SaveKey(c, k) ==
  /\ Serving /\ keyring /\ Fresh(k)
  /\ vault' = [vault EXCEPT ![c] = [key |-> k, endpoint |-> endpoint[c]]]
  /\ meant' = [meant EXCEPT ![k] = endpoint[c]]
  /\ told' = [told EXCEPT ![c] = @ \cup {k}]
  /\ step' = [op |-> "save", of |-> c, before |-> vault]
  /\ UNCHANGED <<keyring, refers, plaintext, endpoint, unmigrated, agent>>

\* commitReference: the reference is written, a plaintext key goes with it.
CommitReference ==
  /\ InStep("save") /\ step' = Rest
  /\ refers' = [refers EXCEPT ![step.of] = TRUE]
  /\ plaintext' = [plaintext EXCEPT ![step.of] = NoKey]
  /\ told' = [told EXCEPT ![step.of] = {vault[step.of].key}]
  /\ agent' = Invalidated
  /\ UNCHANGED <<keyring, vault, endpoint, unmigrated, meant>>

\* The user is told that the earlier key is back although it is not.
RestoreKeys_Forgotten ==
  /\ InStep("save") /\ step' = Rest
  /\ told' = [told EXCEPT ![step.of] = @ \ {vault[step.of].key}]
  /\ UNCHANGED <<keyring, vault, refers, plaintext, endpoint, unmigrated, agent, meant>>

\* The reference could not be written: the earlier file is put back.
RestoreKeys ==
  /\ InStep("save") /\ step' = Rest
  /\ vault' = step.before
  /\ told' = [told EXCEPT ![step.of] = @ \ {vault[step.of].key}]
  /\ UNCHANGED <<keyring, refers, plaintext, endpoint, unmigrated, agent, meant>>

\* ROLLBACK_FAILED: neither write succeeded.
RestoreFails ==
  /\ InStep("save") /\ step' = Rest
  /\ UNCHANGED <<keyring, vault, refers, plaintext, endpoint, unmigrated, agent, told, meant>>

\* delete: the key, verified gone, then the runtimes, then the reference.
DeleteKey(c) ==
  /\ Serving /\ refers[c]
  /\ vault' = [vault EXCEPT ![c] = Empty]
  /\ told' = [told EXCEPT ![c] = LeftBehind(c)]
  /\ agent' = Invalidated
  /\ step' = [Rest EXCEPT !.op = "delete", !.of = c]
  /\ UNCHANGED <<keyring, refers, plaintext, endpoint, unmigrated, meant>>

\* deleteAll.
DeleteAllKeys ==
  /\ Serving
  /\ vault' = [c \in Config |-> Empty]
  /\ told' = [c \in Config |-> LeftBehind(c)]
  /\ agent' = Invalidated
  /\ step' = [Rest EXCEPT !.op = "deleteAll"]
  /\ UNCHANGED <<keyring, refers, plaintext, endpoint, unmigrated, meant>>

\* clearReference, clearAllReferences (the settings first); PARTIAL_FAILURE
\* leaves references to keys that are gone.
ClearReferences ==
  /\ step.op \in {"delete", "deleteAll"} /\ step' = Rest
  /\ \E cleared \in SUBSET (IF InStep("delete") THEN {step.of} ELSE Config) :
       /\ InStep("deleteAll") /\ cleared # {} => App \in cleared
       /\ refers' = [c \in Config |-> refers[c] /\ c \notin cleared]
  /\ UNCHANGED <<keyring, vault, plaintext, endpoint, unmigrated, agent, told, meant>>

\* The user chooses another provider or address for a configuration.
ChangeEndpoint(c) ==
  /\ Serving
  /\ \E e \in Endpoint \ {endpoint[c]} : endpoint' = [endpoint EXCEPT ![c] = e]
  /\ UNCHANGED <<keyring, vault, refers, plaintext, unmigrated, step, agent, told, meant>>

-----------------------------------------------------------------------------
(* An agent takes a key (runtimeConfig, resolveCredential, AgentFactory).  *)

RequestAgent(u, c) ==
  /\ Serving /\ agent[u] = NoAgent /\ Usable(c)
  /\ agent' = [agent EXCEPT ![u] = [at |-> "config", of |-> c, endpoint |-> endpoint[c],
                                    key |-> NoKey]]
  /\ UNCHANGED <<keyring, vault, refers, plaintext, endpoint, unmigrated, step, told, meant>>

Resolves(u, ok) ==
  LET c == agent[u].of IN
  /\ Serving /\ agent[u].at = "config"
  /\ agent' = [agent EXCEPT ![u] =
                 IF ok /\ keyring THEN [@ EXCEPT !.at = "key", !.key = vault[c].key] ELSE NoAgent]
  /\ UNCHANGED <<keyring, vault, refers, plaintext, endpoint, unmigrated, step, told, meant>>

\* The binding is trusted since runtimeConfig compared it.
ResolveKey_Trusting(u) == Resolves(u, Stored(agent[u].of))

\* The binding is compared again, with the address the agent will use.
ResolveKey(u) ==
  Resolves(u, Stored(agent[u].of) /\ vault[agent[u].of].endpoint = agent[u].endpoint)

\* The tools are loaded and the agent enters its map, or is done with.
AgentMade(u) ==
  /\ Serving /\ agent[u].at = "key"
  /\ agent' = [agent EXCEPT ![u].at = "ready"]
  /\ UNCHANGED <<keyring, vault, refers, plaintext, endpoint, unmigrated, step, told, meant>>

AgentDone(u) ==
  /\ Serving /\ agent[u].at \in {"key", "ready"}
  /\ agent' = [agent EXCEPT ![u] = NoAgent]
  /\ UNCHANGED <<keyring, vault, refers, plaintext, endpoint, unmigrated, step, told, meant>>

\* The program ends, between two writes or elsewhere, and starts again.
CredentialsRestart ==
  /\ keyring' \in BOOLEAN
  /\ unmigrated' = Config /\ step' = Rest
  /\ agent' = [u \in KeyUser |-> NoAgent]
  /\ UNCHANGED <<vault, refers, plaintext, endpoint, told, meant>>

CredentialsNext ==
  \/ \E c \in Config :
       \/ LeavePlaintext(c) \/ MigrateKey(c) \/ DeleteKey(c) \/ ChangeEndpoint(c)
       \/ \E k \in Key : SaveKey(c, k)
       \/ \E u \in KeyUser : RequestAgent(u, c)
  \/ ReplacePlaintext \/ CommitReference \/ RestoreKeys \/ RestoreFails
  \/ DeleteAllKeys \/ ClearReferences \/ CredentialsRestart
  \/ \E u \in KeyUser : ResolveKey(u) \/ AgentMade(u) \/ AgentDone(u)

CredentialsSpec == CredentialsInit /\ [][CredentialsNext]_credentialVars

-----------------------------------------------------------------------------
CredentialsTypeInv ==
  /\ keyring \in BOOLEAN
  /\ vault \in [Config -> [key : Key \cup {NoKey}, endpoint : Endpoint]]
  /\ refers \in [Config -> BOOLEAN]
  /\ plaintext \in [Config -> Key \cup {NoKey}] /\ endpoint \in [Config -> Endpoint]
  /\ unmigrated \subseteq Config
  /\ step \in [op : {"none", "migrate", "save", "delete", "deleteAll"}, of : Config,
               before : [Config -> [key : Key \cup {NoKey}, endpoint : Endpoint]]]
  /\ agent \in [KeyUser -> [at : {"none", "config", "key", "ready"}, of : Config,
                            endpoint : Endpoint, key : Key \cup {NoKey}]]
  /\ told \in [Config -> SUBSET Key] /\ meant \in [Key -> Endpoint]

\* A key reaches only the endpoint it was entered for, although an agent reads
\* the configuration, the binding and the key in different turns and the user
\* changes endpoint and key in between (main.ts:322, resolveCredential).
KeyGoesToItsEndpoint ==
  \A u \in KeyUser : agent[u].key # NoKey => meant[agent[u].key] = agent[u].endpoint

\* A key that can be used is one the user was told, or may believe, to have
\* saved: a failed save leaves no new key behind, a deleted key is unusable even
\* when its reference could not be cleared, a crash between two writes included
\* (llmCredentialController.ts:302, credentialService.ts:183).
UsableKeyIsTheOneTold == \A c \in Config : Idle /\ Usable(c) => vault[c].key \in told[c]

\* Both: a key is used as the user was told, and for nothing else.
KeyIsUsedAsTold == KeyGoesToItsEndpoint /\ UsableKeyIsTheOneTold
=============================================================================
