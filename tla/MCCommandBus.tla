---------------------------- MODULE MCCommandBus ----------------------------
(***************************************************************************)
(* Small instances of CommandBus.  A call is a model value; the attributes  *)
(* of every call a configuration may use are fixed here.                    *)
(***************************************************************************)
EXTENDS CommandBusInvariant

CONSTANTS
  create1, create2,    \* createWorkspace, twice for the same id
  claimA, claimA2,     \* two calls that want the title A
  releaseA,            \* a call that frees it
  keyed, again,        \* a claim with an idempotency key, and its repetition
  add,                 \* a call that always emits
  idK,                 \* the key
  node1, node2         \* processes

\* The repetition of the key asks for another title, so that the key alone, and
\* not the title, stands between it and a second effect.
MCTitle == [c \in Commands |-> IF c = again THEN "B" ELSE "A"]
MCSize == [c \in Commands |-> IF c \in {claimA, keyed} THEN 2 ELSE 1]
MCCommandId == [c \in Commands |-> IF c \in {keyed, again} THEN idK ELSE NoId]
\* One of two racing claims has a key.
MCKeyedClaim == [c \in Commands |-> IF c = claimA THEN idK ELSE NoId]

\* Every process runs the same models.
SameModels == [p \in Processes |-> {}]

\* An event of a commit, both of them.
WholeCommit(c) == [cmd : {c} \cap Commands, first : BOOLEAN]

\* node1 runs older models than claimA was written with.
OlderModels == [p \in Processes |-> IF p = node1 THEN WholeCommit(claimA) ELSE {}]

\* node2 can fold the first event of claimA's commit and not the second, as
\* when a commit touches pages of two types and only one of them is newer.
SplitCommit == [p \in Processes |-> IF p = node2 THEN {[cmd |-> claimA, first |-> FALSE]} ELSE {}]

=============================================================================
