------------------------- MODULE WorkspaceCommands -------------------------
(***************************************************************************)
(* What the commit pipeline needs to know of a command: whether the folded *)
(* history lets it decide, how many events the decision emits, and whether *)
(* the call carries an idempotency key.                                     *)
(*                                                                          *)
(* A decision is pure (command-bus.ts: "everything before commit is pure") *)
(* and is one of three things, each represented by a family of commands    *)
(* over titles:                                                             *)
(*   - it throws when the state forbids the command: a claim of a title    *)
(*     somebody holds (createPage, setPageTitle);                           *)
(*   - it emits nothing when the state is already as asked: a release of a *)
(*     title nobody holds (archivePage on an archived page, assignSerials);*)
(*   - it always emits: every other command (an addElement, the             *)
(*     WorkspaceCreated of createWorkspace).                                *)
(* Releases make the first two non-monotone: what one prefix of the history*)
(* refuses, a longer one may accept.                                        *)
(***************************************************************************)
EXTENDS Integers, Sequences

CONSTANTS
  Commands,     \* the calls clients make; each is made at most once
  Claims,       \* the calls that throw when their title is held
  Releases,     \* the calls that are no-ops when their title is free
  Title,        \* the title a call is about
  Size,         \* how many events its decision emits
  CommandId,    \* its idempotency key, or NoId
  NoId

ASSUME CommandFamilies ==
  /\ Claims \subseteq Commands
  /\ Releases \subseteq Commands
  /\ Claims \cap Releases = {}

ASSUME CommandAttributes ==
  /\ Size \in [Commands -> Nat \ {0}]
  /\ DOMAIN Title = Commands
  /\ DOMAIN CommandId = Commands

\* An event: its place in the workspace's order, the call that decided it, and
\* whether it opens the commit (the one stored message) it was appended in.
Event == [version : Nat, cmd : Commands, first : BOOLEAN]

\* The events of one decision, enveloped from the expected head on.
Envelopes(c, expected) ==
  [i \in 1..Size[c] |-> [version |-> expected + i - 1, cmd |-> c, first |-> i = 1]]

\* A title is held from a claim to the next release.
Held(t, history) ==
  \E i \in DOMAIN history :
    /\ history[i].cmd \in Claims
    /\ Title[history[i].cmd] = t
    /\ \A j \in (i + 1)..Len(history) :
         ~ (history[j].cmd \in Releases /\ Title[history[j].cmd] = t)

Refused(c, history) == c \in Claims /\ Held(Title[c], history)

DecidesNothing(c, history) == c \in Releases /\ ~ Held(Title[c], history)

Emits(c, history) == ~ Refused(c, history) /\ ~ DecidesNothing(c, history)

CommandRepeated(c, history) == \E i \in DOMAIN history : history[i].cmd = c    \* mutant

\* The effect of this idempotency key is already in the history.
CommandSeen(c, history) ==
  /\ CommandId[c] # NoId
  /\ \E i \in DOMAIN history : CommandId[history[i].cmd] = CommandId[c]

=============================================================================
