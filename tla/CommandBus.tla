----------------------------- MODULE CommandBus -----------------------------
(***************************************************************************)
(* Several processes (the MCP host, a browser worker, a mirror) hold the    *)
(* same workspace open.  Each keeps a projection: the folded history, its   *)
(* version, a stream cursor.  A write is decided on the projection and      *)
(* appended under optimistic concurrency; a conflict rebases and retries.   *)
(* Other writers' commits arrive by rebase and by the live tail.            *)
(* (wiki/src/core/command-bus.ts, wiki/src/core/wiki.ts.)                   *)
(*                                                                          *)
(* The handle's mutex serialises commands and tail batches within one       *)
(* process, so a process runs one command at a time; pc says at which await *)
(* it is.  Between two awaits JavaScript runs atomically, and so do the     *)
(* actions here.                                                            *)
(***************************************************************************)
EXTENDS EventLog, FiniteSetsExt

CONSTANTS
  Processes,
  Creates,        \* the calls to createWorkspace
  MaxAttempts,    \* MAX_REBASE_ATTEMPTS
  SnapshotEvery,  \* 0 turns snapshots off
  Unknown,        \* the events, by call and place, a process's page types cannot fold
  Survivors,      \* processes that outlive an unhandled rejection (a browser's)
  NoCommand

ASSUME BusConstants ==
  /\ Creates \subseteq Commands \ (Claims \cup Releases)
  /\ \A c \in Creates : CommandId[c] = NoId
  /\ MaxAttempts \in Nat \ {0}
  /\ SnapshotEvery \in Nat
  /\ Unknown \in [Processes -> SUBSET [cmd : Commands \ Creates, first : BOOLEAN]]
  /\ NoCommand \notin Commands

VARIABLES
  inflight,   \* append requests between a process and the host
  pc,         \* where each process's mutex span is
  running,    \* the command it is running
  attempts,   \* turns of the commit loop already spent on it
  version,    \* projection.state.version
  cursor,     \* projection.cursor
  events,     \* projection.events: the full history, of which state is the fold
  tail,       \* offset of the live subscription, NoTail when there is none
  applied,    \* the in-memory read model's applied version
  heard,      \* what fanOut handed to the handle's subscribers
  unsnapped,  \* projection.eventsSinceSnapshot
  answer,     \* what each call returned
  token,      \* the committedVersion returned with an "ok"
  since,      \* history, which no action reads: the head a call took its first turn on
  snapshot    \* the last message of the snapshot stream

projVars == <<version, cursor, events, heard, unsnapped>>
callVars == <<running, attempts, answer, token, since>>
vars == <<logVars, inflight, pc, callVars, projVars, tail, applied, snapshot>>

NoTail == -1
NoSnapshot == [version |-> 0, cursor |-> 0, events |-> << >>]

TypeOK ==
  /\ log \in Seq(Event)
  /\ lastSeq \in Nat \cup {-1}
  /\ inflight \subseteq [proc : Processes, cmd : Commands, seq : Nat]
  /\ pc \in [Processes -> {"down", "idle", "appending", "acked", "stale", "absorbed"}]
  /\ running \in [Processes -> Commands \cup {NoCommand}]
  /\ attempts \in [Processes -> Nat]
  /\ version \in [Processes -> Nat]
  /\ cursor \in [Processes -> Nat]
  /\ events \in [Processes -> Seq(Event)]
  /\ tail \in [Processes -> Nat \cup {NoTail}]
  /\ applied \in [Processes -> Nat]
  /\ heard \in [Processes -> Seq(Event)]
  /\ unsnapped \in [Processes -> Nat]
  /\ answer \in [Commands -> {"none", "pending", "ok", "rejected", "conflict", "unknown"}]
  /\ token \in [Commands -> Nat]
  /\ since \in [Commands -> Nat]
  /\ snapshot \in [version : Nat, cursor : Nat, events : Seq(Event)]

Init ==
  /\ LogInit
  /\ inflight = {}
  /\ pc = [p \in Processes |-> "down"]
  /\ running = [p \in Processes |-> NoCommand]
  /\ attempts = [p \in Processes |-> 0]
  /\ version = [p \in Processes |-> 0]
  /\ cursor = [p \in Processes |-> 0]
  /\ events = [p \in Processes |-> << >>]
  /\ tail = [p \in Processes |-> NoTail]
  /\ applied = [p \in Processes |-> 0]
  /\ heard = [p \in Processes |-> << >>]
  /\ unsnapped = [p \in Processes |-> 0]
  /\ answer = [c \in Commands |-> "none"]
  /\ token = [c \in Commands |-> 0]
  /\ since = [c \in Commands |-> 0]
  /\ snapshot = NoSnapshot

-----------------------------------------------------------------------------
(* Folding a batch of the stream into a projection.                         *)

\* The events of a batch the projection has not folded.  In a contiguous log
\* they are the batch's suffix: the overlap a coarse cursor brings comes first.
FreshUnskipped(batch, v) == batch    \* mutant: no skip

Fresh(batch, v) ==
  LET ahead == {i \in DOMAIN batch : batch[i].version >= v}
  IN  IF ahead = {} THEN << >> ELSE SubSeq(batch, Min(ahead), Len(batch))

\* The reducer throws at the first event the registry's page types cannot fold
\* (a schemaVersion above the registered one), and the loop stops there.
Unfoldable(p, batch) ==
  {i \in DOMAIN batch : [cmd |-> batch[i].cmd, first |-> batch[i].first] \in Unknown[p]}

FoldableFiltered(p, batch) ==    \* mutant: skips what it cannot fold
  SelectSeq(batch, LAMBDA e : [cmd |-> e.cmd, first |-> e.first] \notin Unknown[p])

Foldable(p, batch) ==
  IF Unfoldable(p, batch) = {} THEN batch
  ELSE SubSeq(batch, 1, Min(Unfoldable(p, batch)) - 1)

FoldIntoLast(p, batch) ==    \* mutant: the head is the last event's version
  /\ events' = [events EXCEPT ![p] = @ \o batch]
  /\ version' = [version EXCEPT ![p] = IF batch = << >> THEN @ ELSE batch[Len(batch)].version - 1]
  /\ heard' = [heard EXCEPT ![p] = @ \o batch]

FoldIntoPast(p, batch) ==    \* mutant: the head is one past the next version
  /\ events' = [events EXCEPT ![p] = @ \o batch]
  /\ version' = [version EXCEPT ![p] = IF batch = << >> THEN @ ELSE batch[Len(batch)].version + 2]
  /\ heard' = [heard EXCEPT ![p] = @ \o batch]

\* Fold `batch` (already fresh) into p's projection and fan it out.
FoldInto(p, batch) ==
  /\ events' = [events EXCEPT ![p] = @ \o batch]
  /\ version' = [version EXCEPT ![p] = IF batch = << >> THEN @ ELSE batch[Len(batch)].version + 1]
  /\ heard' = [heard EXCEPT ![p] = @ \o batch]

NotifyHead(p, v) == applied' = [applied EXCEPT ![p] = Len(log)]    \* mutant: the stream's head
NotifyLate(p, v) == applied' = [applied EXCEPT ![p] = IF v > @ + 1 THEN v ELSE @]    \* mutant

\* readModel.notifyApplied keeps the maximum.
Notify(p, v) == applied' = [applied EXCEPT ![p] = IF v > @ THEN v ELSE @]

-----------------------------------------------------------------------------
(* The commit loop.                                                         *)

\* The call returns: the mutex is released.  createWorkspace registers a handle
\* and starts its tail only after its commit has succeeded.
Return(p, c, a, v) ==
  /\ answer' = [answer EXCEPT ![c] = a]
  /\ token' = [token EXCEPT ![c] = v]
  /\ running' = [running EXCEPT ![p] = NoCommand]
  /\ attempts' = [attempts EXCEPT ![p] = 0]
  /\ IF c \notin Creates
     THEN pc' = [pc EXCEPT ![p] = "idle"] /\ UNCHANGED tail
     ELSE IF a = "ok"
          THEN pc' = [pc EXCEPT ![p] = "idle"] /\ tail' = [tail EXCEPT ![p] = cursor[p]]
          ELSE pc' = [pc EXCEPT ![p] = "down"] /\ UNCHANGED tail

ExhaustedEarly(n) == n >= MaxAttempts - 1    \* mutant

Exhausted(n) == n >= MaxAttempts

\* decide throws; it is not reached when the idempotency key has been seen.
ThrowsUnkeyed(c, history) == Refused(c, history)    \* mutant: decides first

Throws(c, history) == ~ CommandSeen(c, history) /\ Refused(c, history)

\* One turn of the loop on a projection holding `history` at `head`, after n
\* turns: idempotency check, decide, send the append.  All up to the await.
Turn(p, c, n, head, history) ==
  \/ /\ Exhausted(n)
     /\ Return(p, c, "conflict", 0)
     /\ UNCHANGED <<inflight, applied>>
  \/ /\ ~ Exhausted(n)
     /\ CommandSeen(c, history) \/ DecidesNothing(c, history)
     /\ Return(p, c, "ok", head)
     /\ Notify(p, head)
     /\ UNCHANGED inflight
  \/ /\ ~ Exhausted(n)
     /\ Throws(c, history)
     /\ Return(p, c, "rejected", 0)
     /\ UNCHANGED <<inflight, applied>>
  \/ /\ ~ Exhausted(n)
     /\ ~ CommandSeen(c, history)
     /\ Emits(c, history)
     /\ inflight' = inflight \cup {[proc |-> p, cmd |-> c, seq |-> head]}
     /\ pc' = [pc EXCEPT ![p] = "appending"]
     /\ running' = [running EXCEPT ![p] = c]
     /\ attempts' = [attempts EXCEPT ![p] = n]
     /\ answer' = [answer EXCEPT ![c] = "pending"]
     /\ UNCHANGED <<token, tail, applied>>

\* The page types that decide a command are those that fold its events.
Knows(p, c) == \A first \in BOOLEAN : [cmd |-> c, first |-> first] \notin Unknown[p]

\* A command enters the mutex of an open handle.
Begin(p, c) ==
  /\ pc[p] = "idle"
  /\ c \notin Creates
  /\ answer[c] = "none"
  /\ Knows(p, c)
  /\ Turn(p, c, 0, version[p], events[p])
  /\ since' = [since EXCEPT ![c] = version[p]]
  /\ UNCHANGED <<logVars, projVars, snapshot>>

\* createWorkspace commits WorkspaceCreated on an empty projection at version 0,
\* whether or not the stream it names already has a history.
Create(p, c) ==
  /\ pc[p] = "down"
  /\ c \in Creates
  /\ answer[c] = "none"
  /\ Turn(p, c, 0, 0, << >>)
  /\ since' = [since EXCEPT ![c] = 0]
  /\ version' = [version EXCEPT ![p] = 0]
  /\ cursor' = [cursor EXCEPT ![p] = 0]
  /\ events' = [events EXCEPT ![p] = << >>]
  /\ heard' = [heard EXCEPT ![p] = << >>]
  /\ unsnapped' = [unsnapped EXCEPT ![p] = 0]
  /\ UNCHANGED <<logVars, snapshot>>

-----------------------------------------------------------------------------
(* The append on the wire.                                                  *)

Waiting(m) ==
  /\ pc[m.proc] = "appending"
  /\ running[m.proc] = m.cmd
  /\ version[m.proc] = m.seq

ServeAdmitted(m) ==    \* mutant: the 409 is never reported
  /\ m \in inflight
  /\ Waiting(m)
  /\ inflight' = inflight \ {m}
  /\ Admits(m.seq)
  /\ Store(m.cmd, m.seq)
  /\ pc' = [pc EXCEPT ![m.proc] = "acked"]
  /\ UNCHANGED <<callVars, projVars, tail, applied, snapshot>>

\* The host handles a request and its reply reaches the process.
ServeAnswered(m) ==
  /\ m \in inflight
  /\ Waiting(m)
  /\ inflight' = inflight \ {m}
  /\ IF Admits(m.seq)
     THEN Store(m.cmd, m.seq) /\ pc' = [pc EXCEPT ![m.proc] = "acked"]
     ELSE UNCHANGED logVars /\ pc' = [pc EXCEPT ![m.proc] = "stale"]
  /\ UNCHANGED <<callVars, projVars, tail, applied, snapshot>>

\* The reply is lost.  The stream client retries transport failures, so a
\* process that still waits sends the same request again: it stays in flight.
ServeUnanswered(m) ==
  /\ m \in inflight
  /\ Admits(m.seq)
  /\ Store(m.cmd, m.seq)
  /\ inflight' = IF Waiting(m) THEN inflight ELSE inflight \ {m}
  /\ UNCHANGED <<pc, callVars, projVars, tail, applied, snapshot>>

\* append (or the read of a rebase) throws anything but a conflict: a 401, say.
\* commit rethrows it; the request may have landed or be on its way.
Fail(p) ==
  /\ pc[p] \in {"appending", "stale"}
  /\ Return(p, running[p], "unknown", 0)
  /\ \/ UNCHANGED inflight
     \/ inflight' = {m \in inflight : ~ (m.proc = p /\ Waiting(m))}
  /\ UNCHANGED <<logVars, since, projVars, applied, snapshot>>

\* append resolved: fold our own envelopes and fan them out.
Absorb(p) ==
  /\ pc[p] = "acked"
  /\ LET c == running[p] IN
       /\ FoldInto(p, Envelopes(c, version[p]))
       /\ unsnapped' = [unsnapped EXCEPT ![p] = @ + Size[c]]
  /\ pc' = [pc EXCEPT ![p] = "absorbed"]
  /\ UNCHANGED <<logVars, inflight, callVars, cursor, tail, applied, snapshot>>

SnapshotPast(p) ==    \* mutant: covers one event it has not folded
  [version |-> version[p] + 1, cursor |-> cursor[p], events |-> events[p]]

SnapshotOf(p) == [version |-> version[p], cursor |-> cursor[p], events |-> events[p]]

\* maybeSnapshot, whose failure is swallowed; then the token of the new head.
Settle(p) ==
  /\ pc[p] = "absorbed"
  /\ \/ /\ SnapshotEvery > 0
        /\ unsnapped[p] >= SnapshotEvery
        /\ snapshot' = SnapshotOf(p)
        /\ unsnapped' = [unsnapped EXCEPT ![p] = 0]
     \/ UNCHANGED <<snapshot, unsnapped>>
  /\ Return(p, running[p], "ok", version[p])
  /\ Notify(p, version[p])
  /\ UNCHANGED <<logVars, inflight, since, version, cursor, events, heard>>

\* A conflict: read the stream past the cursor, fold it, and take the next turn.
\* An event that cannot be folded throws out of commit: what came before it stays
\* folded and the cursor is not advanced.
Rebase(p) ==
  /\ pc[p] = "stale"
  /\ LET c    == running[p]
         new  == Fresh(Between(cursor[p], Len(log)), version[p])
         done == Foldable(p, new)
     IN  /\ FoldInto(p, done)
         /\ unsnapped' = [unsnapped EXCEPT ![p] = @ + Len(done)]
         /\ IF done = new
            THEN /\ cursor' = [cursor EXCEPT ![p] = Len(log)]
                 /\ Turn(p, c, attempts[p] + 1, version'[p], events'[p])
            ELSE /\ Return(p, c, "unknown", 0)
                 /\ UNCHANGED <<cursor, inflight, applied>>
  /\ UNCHANGED <<logVars, since, snapshot>>

-----------------------------------------------------------------------------
(* The live tail, and the handle's lifecycle.                               *)

\* One batch of the subscription, up to some message boundary, in the mutex.
TailBatch(p, to) ==
  /\ pc[p] = "idle"
  /\ tail[p] # NoTail
  /\ to \in (tail[p] + 1)..Len(log)
  /\ MessageBoundary(to)
  /\ LET new == Fresh(Between(tail[p], to), version[p]) IN
       /\ Unfoldable(p, new) = {}
       /\ FoldInto(p, new)
       /\ Notify(p, version'[p])
  /\ cursor' = [cursor EXCEPT ![p] = to]
  /\ tail' = [tail EXCEPT ![p] = to]
  /\ UNCHANGED <<logVars, inflight, pc, callVars, unsnapped, snapshot>>

Discard(p) ==
  /\ pc' = [pc EXCEPT ![p] = "down"]
  /\ running' = [running EXCEPT ![p] = NoCommand]
  /\ attempts' = [attempts EXCEPT ![p] = 0]
  /\ version' = [version EXCEPT ![p] = 0]
  /\ cursor' = [cursor EXCEPT ![p] = 0]
  /\ events' = [events EXCEPT ![p] = << >>]
  /\ heard' = [heard EXCEPT ![p] = << >>]
  /\ unsnapped' = [unsnapped EXCEPT ![p] = 0]
  /\ tail' = [tail EXCEPT ![p] = NoTail]
  /\ applied' = [applied EXCEPT ![p] = 0]

\* A batch with an event that cannot be folded rejects the mutex task, which
\* nothing awaits: Node exits, a browser worker carries on with the next batch.
TailThrows(p, to) ==
  /\ pc[p] = "idle"
  /\ tail[p] # NoTail
  /\ to \in (tail[p] + 1)..Len(log)
  /\ MessageBoundary(to)
  /\ LET new == Fresh(Between(tail[p], to), version[p]) IN
       /\ Unfoldable(p, new) # {}
       /\ IF p \in Survivors
          THEN /\ FoldInto(p, Foldable(p, new))
               /\ tail' = [tail EXCEPT ![p] = to]
               /\ UNCHANGED <<pc, running, attempts, cursor, unsnapped, applied>>
          ELSE Discard(p)
  /\ UNCHANGED <<logVars, inflight, answer, token, since, snapshot>>

\* The client gives a subscription up for good on a 4xx.
LoseTail(p) ==
  /\ tail[p] # NoTail
  /\ tail' = [tail EXCEPT ![p] = NoTail]
  /\ UNCHANGED <<logVars, inflight, pc, callVars, projVars, applied, snapshot>>

\* openWorkspace: read from the start, fold from zero, subscribe from there.  It
\* throws on an empty history, on a gap and on an event it cannot fold.
Open(p) ==
  /\ pc[p] = "down"
  /\ log # << >>
  /\ LogContiguous
  /\ Unfoldable(p, log) = {}
  /\ pc' = [pc EXCEPT ![p] = "idle"]
  /\ events' = [events EXCEPT ![p] = log]
  /\ version' = [version EXCEPT ![p] = log[Len(log)].version + 1]
  /\ cursor' = [cursor EXCEPT ![p] = Len(log)]
  /\ heard' = [heard EXCEPT ![p] = << >>]
  /\ unsnapped' = [unsnapped EXCEPT ![p] = 0]
  /\ tail' = [tail EXCEPT ![p] = Len(log)]
  /\ applied' = [applied EXCEPT ![p] = log[Len(log)].version + 1]
  /\ UNCHANGED <<logVars, inflight, callVars, snapshot>>

\* The process stops, wherever it is; what it sent may still arrive.
Crash(p) ==
  /\ pc[p] # "down"
  /\ answer' = [c \in Commands |-> IF c = running[p] THEN "unknown" ELSE answer[c]]
  /\ Discard(p)
  /\ UNCHANGED <<logVars, inflight, token, since, snapshot>>

Next ==
  \/ \E p \in Processes, c \in Commands : Begin(p, c) \/ Create(p, c)
  \/ \E m \in inflight : ServeAnswered(m) \/ ServeUnanswered(m)
  \/ \E p \in Processes :
       \/ Fail(p) \/ Absorb(p) \/ Settle(p) \/ Rebase(p)
       \/ LoseTail(p) \/ Open(p) \/ Crash(p)
       \/ \E to \in 1..Len(log) : TailBatch(p, to) \/ TailThrows(p, to)

\* The stream client retries until it is answered, the event loop runs every
\* continuation, and a live subscription delivers: nothing else is assumed.
Fairness ==
  /\ \A p \in Processes :
       /\ WF_vars(\E m \in inflight : m.proc = p /\ ServeAnswered(m))
       /\ WF_vars(Absorb(p))
       /\ WF_vars(Settle(p))
       /\ WF_vars(Rebase(p))
       /\ WF_vars(\E to \in 1..Len(log) : TailBatch(p, to))

Spec == Init /\ [][Next]_vars

FairSpec == Spec /\ Fairness

-----------------------------------------------------------------------------
(* Properties.                                                              *)

\* The projection of an open handle is exactly a prefix of the stream, with the
\* version that says how long: nothing skipped, doubled or out of order, whichever
\* of the three ways (own append, rebase, live tail) each event came in by.
Complete(p) ==
  pc[p] # "down" => version[p] <= Len(log) /\ events[p] = Between(0, version[p])

HistoryComplete == \A p \in Processes : Complete(p)

\* Decisions are serialised: a title is claimed again only after a release,
\* though two processes may decide to claim it at the same time.
TitlesUnique ==
  \A i, j \in DOMAIN log :
    /\ i < j
    /\ log[i].first /\ log[i].cmd \in Claims
    /\ log[j].first /\ log[j].cmd \in Claims
    /\ Title[log[i].cmd] = Title[log[j].cmd]
    => \E k \in (i + 1)..(j - 1) :
         log[k].cmd \in Releases /\ Title[log[k].cmd] = Title[log[i].cmd]

\* The events of an idempotency key are one commit, whatever was resent by the
\* stream client, retried by the loop or repeated by the caller.
AppliedOnce ==
  \A i, j \in DOMAIN log :
    /\ log[i].first
    /\ log[j].first
    /\ CommandId[log[i].cmd] # NoId
    /\ CommandId[log[i].cmd] = CommandId[log[j].cmd]
    => i = j

SameEffect(c, d) == c = d \/ (CommandId[c] # NoId /\ CommandId[c] = CommandId[d])

\* A read gated on the token of an acknowledged write sees that write, in every
\* process whose read model has applied the token.
ReadYourWrites ==
  \A p \in Processes, c \in Commands \ Releases :
    /\ answer[c] = "ok"
    /\ pc[p] # "down"
    /\ applied[p] >= token[c]
    => \E i \in DOMAIN events[p] :
         /\ events[p][i].version < token[c]
         /\ SameEffect(c, events[p][i].cmd)

\* A keyed call that was refused left nothing in the stream.
RefusedLeavesNoTrace ==
  \A c \in Commands :
    answer[c] = "rejected" /\ CommandId[c] # NoId =>
      \A i \in DOMAIN log : log[i].cmd # c

\* The commits a call met: those after the head it took its first turn on.
Met(c) == {i \in DOMAIN log : i > since[c] /\ log[i].first}
MetOfOthers(c) == {i \in Met(c) : log[i].cmd # c}

\* A ConcurrencyError is the price of contention that came while the call ran: each
\* turn of the loop was lost to another commit the call had not seen when it began.
\* It is a commit of somebody else or the call's own, stored by a turn before whose
\* reply was lost; a call with an idempotency key meets its own at most once, so
\* that all its turns but one were lost to others.
ConflictsAreReal ==
  \A c \in Commands : answer[c] = "conflict" =>
    /\ Cardinality(Met(c)) >= MaxAttempts
    /\ CommandId[c] # NoId => Cardinality(MetOfOthers(c)) >= MaxAttempts - 1

\* The latest snapshot is a prefix of the stream, and the tail read from its
\* cursor starts no later than that prefix ends: resuming from it loses nothing.
SnapshotResumable ==
  /\ snapshot.version <= Len(log)
  /\ snapshot.events = Between(0, snapshot.version)
  /\ snapshot.cursor <= snapshot.version

\* Every call returns, unless its process is never heard of again.
CallsReturn == \A c \in Commands : answer[c] = "pending" ~> answer[c] # "pending"

\* An idle handle whose subscription lives catches up with the stream, and its
\* read model with it, so a parked token-gated read is released.
TailCatchesUp ==
  \A p \in Processes :
    []<>(pc[p] = "down" \/ tail[p] = NoTail \/ (version[p] = Len(log) /\ applied[p] = Len(log)))

\* The promise the bus implements: one workspace, decided serially.
Serial == INSTANCE SerialWorkspace
ImplementsSerial == Serial!Spec

=============================================================================
