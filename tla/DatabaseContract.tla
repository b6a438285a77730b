-------------------------- MODULE DatabaseContract --------------------------
(***************************************************************************)
(* What the database file is to the rest of the program: one content that  *)
(* changes as a whole.  Edits and migrations take it forward; a restore or *)
(* a rollback installs a verified content in one step, and may take that   *)
(* step back.  Only while the path is vacant can a start find nothing and  *)
(* begin an empty database.                                                *)
(***************************************************************************)
EXTENDS Naturals

CONSTANTS
  DbContent,  \* the contents
  Blank       \* the empty one

VARIABLES
  data,      \* the content
  prior,     \* the contents a replacement has moved aside
  sources,   \* the contents that may be installed
  vacant     \* nothing is at the path, for the moment

ContractVars == <<data, prior, sources, vacant>>

Rank == [old |-> 0, boundary |-> 1, new |-> 2]

ContractInit ==
  /\ data \in DbContent /\ prior = {} /\ vacant = FALSE
  /\ sources \subseteq DbContent

Advance == /\ ~vacant /\ ~vacant'
           /\ data'.edit >= data.edit
           /\ Rank[data'.schema] >= Rank[data.schema]
Install == vacant /\ ~vacant' /\ data' \in sources
TakeBack == ~vacant /\ vacant' /\ data \in sources /\ data' \in prior
Keep == data' = data
Forget == vacant /\ ~vacant' /\ data' = Blank

\* Whatever the step, what the path held is not deleted before its place is
\* taken.
ContractNext ==
  /\ Advance \/ Install \/ TakeBack \/ Keep \/ Forget
  /\ vacant' => data' \in prior'
  /\ data' \in DbContent /\ sources' \subseteq DbContent

ContractSpec == ContractInit /\ [][ContractNext]_ContractVars
=============================================================================
