------------------------- MODULE CommandBusInvariant -------------------------
(***************************************************************************)
(* The inductive invariant of CommandBus when no process can fold a part   *)
(* of a commit: what is true of the stream, of the requests on the wire and *)
(* of the projections between any two steps, and why no two appends ever    *)
(* disagree about a version.                                                *)
(***************************************************************************)
EXTENDS CommandBus

\* A process that cannot fold one event of a commit can fold none of it, and what
\* outlives an unhandled rejection can fold everything.
WholeCommits ==
  \A p \in Processes :
    /\ \A c \in Commands :
         [cmd |-> c, first |-> TRUE] \in Unknown[p] <=> [cmd |-> c, first |-> FALSE] \in Unknown[p]
    /\ p \in Survivors => Unknown[p] = {}

Boundary(n) == n <= Len(log) /\ MessageBoundary(n)

\* The host's sequence number is the version at which the last message starts;
\* nothing after it starts a message.  A message is of one command.
StreamShape ==
  /\ Boundary(0)
  /\ \A i \in DOMAIN log : ~ log[i].first => i > 1 /\ log[i - 1].cmd = log[i].cmd
  /\ IF log = << >> THEN lastSeq = -1
     ELSE /\ lastSeq \in 0..(Len(log) - 1)
          /\ \A i \in (lastSeq + 2)..Len(log) : ~ log[i].first

\* A request on the wire was decided on the whole history up to its expected
\* head, and that head is between two messages.  So it is admitted only at the
\* end of the stream: any earlier boundary is not above lastSeq.
InFlightDecided ==
  \A m \in inflight :
    /\ Boundary(m.seq)
    /\ ~ CommandSeen(m.cmd, Between(0, m.seq))
    /\ Emits(m.cmd, Between(0, m.seq))

\* A projection is a whole number of messages, its cursor and its subscription
\* are not ahead of it, and a handle that is not registered, or not yet, has no
\* subscription.
ProjectionExact(p) ==
  /\ Complete(p)
  /\ pc[p] # "down" =>
       /\ MessageBoundary(version[p])
       /\ cursor[p] <= version[p]
       /\ tail[p] # NoTail => tail[p] <= version[p]
  /\ pc[p] = "down" \/ running[p] \in Creates => tail[p] = NoTail

\* An acknowledged append sits in the stream right where the projection ends.
OwnCommitStored(p) ==
  pc[p] = "acked" =>
    LET v == version[p]
        n == Size[running[p]]
    IN  /\ Boundary(v + n)
        /\ SubSeq(log, v + 1, v + n) = Envelopes(running[p], v)

\* A process runs a command exactly while it is inside a commit.
Busy(p) == running[p] = NoCommand <=> pc[p] \in {"down", "idle"}

\* The invariant, which nothing but its parts makes inductive: admission alone
\* does not give contiguity unless every request starts at a message boundary,
\* and boundaries are kept only because projections fold whole messages.
BusInvariant ==
  /\ LogContiguous
  /\ StreamShape
  /\ InFlightDecided
  /\ \A p \in Processes : Busy(p) /\ ProjectionExact(p) /\ OwnCommitStored(p)

-----------------------------------------------------------------------------
(* The calls: what the answers say of the stream.                           *)

\* A process runs a call nobody else runs and that is not answered.
OneRunner ==
  \A p \in Processes : running[p] # NoCommand =>
    /\ answer[running[p]] = "pending"
    /\ \A q \in Processes : running[q] = running[p] => q = p

\* A request on the wire is one a process waits for, or one whose process gave up.
RequestsOwned ==
  \A m \in inflight :
    answer[m.cmd] = "unknown" \/ (answer[m.cmd] = "pending" /\ Waiting(m))

\* What is in the stream was called, and was not refused if it had a key.
StoredWasCalled ==
  \A i \in DOMAIN log :
    /\ answer[log[i].cmd] # "none"
    /\ CommandId[log[i].cmd] # NoId => answer[log[i].cmd] # "rejected"

\* What was acknowledged is in the stream before its token, itself or under its key.
AcknowledgedIsStored ==
  \A c \in Commands \ Releases : answer[c] = "ok" =>
    \E i \in DOMAIN log : i <= token[c] /\ SameEffect(c, log[i].cmd)

\* A process that has folded its own commit holds it.
AbsorbedIsHeld(p) ==
  pc[p] = "absorbed" => \E i \in 1..version[p] : log[i].cmd = running[p]

\* The read model is not ahead of the projection, and starts from nothing.
AppliedBehind(p) ==
  /\ applied[p] <= version[p]
  /\ pc[p] = "down" \/ running[p] \in Creates => applied[p] = 0

Commits(from, to) == {i \in (from + 1)..to : log[i].first}

\* Every turn a process has lost was lost to a commit that it has folded since the
\* call began.
TurnsLost(p) ==
  /\ pc[p] \in {"appending", "stale"} =>
       /\ since[running[p]] <= version[p]
       /\ Cardinality(Commits(since[running[p]], version[p])) >= attempts[p]
  /\ pc[p] = "stale" => lastSeq >= version[p]

\* ConflictsAreReal, without its part on keyed calls, which follows from AppliedOnce.
ConflictsMet ==
  \A c \in Commands : answer[c] = "conflict" => Cardinality(Met(c)) >= MaxAttempts

CallsInvariant ==
  /\ OneRunner /\ RequestsOwned /\ StoredWasCalled /\ AcknowledgedIsStored
  /\ \A p \in Processes : AbsorbedIsHeld(p) /\ AppliedBehind(p) /\ TurnsLost(p)
  /\ ConflictsMet
  /\ SnapshotResumable

=============================================================================
