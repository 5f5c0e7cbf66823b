---------------------------- MODULE SearchReindex ----------------------------
(***************************************************************************)
(* The full-text index of one workspace, fed off the write path by the     *)
(* handle (scheduleReindex in wiki/src/core/wiki.ts) and read through       *)
(* SqlSearchIndex (wiki/src/search/sql-search-index.ts).                     *)
(*                                                                          *)
(* A fold schedules a job: the documents are rendered then and there, the   *)
(* write waits its turn on the search mutex.  A job carries the pages the   *)
(* events since the last successful write could have changed, or the whole  *)
(* workspace when this process has not indexed anything yet.  Documents and *)
(* offset are written in one transaction; the parked reads are told after.  *)
(*                                                                          *)
(* A document is represented by the version that last changed its page.     *)
(***************************************************************************)
EXTENDS VersionWaiters, Sequences

CONSTANTS
  Pages,
  Changes,     \* the sets of pages a commit may change
  MaxCommits,  \* bounds the stream
  NoRead       \* no hydration query is under way

ASSUME ReindexConstants ==
  /\ Changes \subseteq SUBSET Pages
  /\ MaxCommits \in Nat
  /\ Versions = 1..MaxCommits
  /\ NoRead \notin 0..MaxCommits

VARIABLES
  history,      \* for each commit of the stream, the pages it changes
  folded,       \* the handle's version
  open,         \* whether the wiki is open
  queue,        \* the jobs behind the search mutex, the first one in progress
  lastIndexed,  \* lastIndexedVersion
  docs,         \* search_doc: the version of each page's document
  offset,       \* search_offset, 0 when there is no row
  hydration,    \* the memoised query: "none", "sent", "answered" or "done"
  row,          \* the offset that query has read
  opening       \* the reads that wait for it, with their version

streamVars == <<history, folded, open>>
indexVars == <<queue, lastIndexed>>
tableVars == <<docs, offset>>
hydrateVars == <<hydration, row, opening>>
vars == <<registryVars, streamVars, indexVars, tableVars, hydrateVars>>

Job == [since : 0..MaxCommits, version : 1..MaxCommits]

TypeOK ==
  /\ RegistryTypeOK
  /\ history \in Seq(Changes) /\ Len(history) <= MaxCommits
  /\ folded \in 0..Len(history)
  /\ open \in BOOLEAN
  /\ queue \in Seq(Job)
  /\ lastIndexed \in 0..MaxCommits
  /\ docs \in [Pages -> 0..MaxCommits]
  /\ offset \in 0..MaxCommits
  /\ hydration \in {"none", "sent", "answered", "done"}
  /\ row \in 0..MaxCommits \cup {NoRead}
  /\ opening \in [Readers -> 0..MaxCommits]

Init ==
  /\ RegistryInit
  /\ history = << >>
  /\ folded = 0
  /\ open = TRUE
  /\ queue = << >>
  /\ lastIndexed = 0
  /\ docs = [p \in Pages |-> 0]
  /\ offset = 0
  /\ hydration = "none"
  /\ row = NoRead
  /\ opening = [r \in Readers |-> 0]

-----------------------------------------------------------------------------
(* Feeding the index.                                                       *)

ChangedBetween(since, v) == UNION {history[n] : n \in (since + 1)..v}

LastChange(p, v) ==
  LET changes == {n \in 1..v : p \in history[n]}
  IN  IF changes = {} THEN 0 ELSE CHOOSE n \in changes : \A m \in changes : m <= n

\* Anybody commits to the stream.
Commit ==
  /\ Len(history) < MaxCommits
  /\ \E A \in Changes : history' = Append(history, A)
  /\ UNCHANGED <<registryVars, folded, open, indexVars, tableVars, hydrateVars>>

ScheduleReindex(v) ==
  IF v <= lastIndexed THEN UNCHANGED queue
  ELSE queue' = Append(queue, [since |-> lastIndexed, version |-> v])

\* The handle folds forward, by its own commit or by a batch of the tail.
Fold(v) ==
  /\ open
  /\ v \in (folded + 1)..Len(history)
  /\ folded' = v
  /\ ScheduleReindex(v)
  /\ UNCHANGED <<registryVars, history, open, lastIndexed, tableVars, hydrateVars>>

\* The first job of a process rebuilds the workspace, the others send a delta.
PagesOf(job) ==
  IF job.since = 0 THEN Pages ELSE ChangedBetween(job.since, job.version)

Write(job) ==
  /\ docs' = [p \in Pages |-> IF p \in PagesOf(job) THEN LastChange(p, job.version) ELSE docs[p]]
  /\ offset' = job.version

IndexedPast ==    \* mutant: lastIndexedVersion is off by one
  /\ queue # << >>
  /\ Write(Head(queue))
  /\ NotifyApplied(Head(queue).version)
  /\ queue' = Tail(queue)
  /\ lastIndexed' = Head(queue).version + 1
  /\ UNCHANGED <<streamVars, hydrateVars>>

\* The transaction of the first job commits: the registry is told, and the
\* continuation that follows advances lastIndexedVersion.
Indexed ==
  /\ queue # << >>
  /\ Write(Head(queue))
  /\ NotifyApplied(Head(queue).version)
  /\ queue' = Tail(queue)
  /\ lastIndexed' = IF Head(queue).version > lastIndexed THEN Head(queue).version ELSE lastIndexed
  /\ UNCHANGED <<streamVars, hydrateVars>>

DroppedAdvancing ==    \* mutant: a failed write counts as indexed
  /\ queue # << >>
  /\ UNCHANGED tableVars
  /\ FailWaiters(Head(queue).version)
  /\ queue' = Tail(queue)
  /\ lastIndexed' = IF Head(queue).version > lastIndexed THEN Head(queue).version ELSE lastIndexed
  /\ UNCHANGED <<streamVars, hydrateVars>>

\* The write fails, or commits and its answer is lost.  The reads it would have
\* released are refused; the next job starts from the same lastIndexedVersion.
Dropped ==
  /\ queue # << >>
  /\ UNCHANGED tableVars \/ Write(Head(queue))
  /\ FailWaiters(Head(queue).version)
  /\ queue' = Tail(queue)
  /\ UNCHANGED <<streamVars, lastIndexed, hydrateVars>>

-----------------------------------------------------------------------------
(* Reading the index.                                                       *)

\* A query gated on a token of the stream.  While nothing is known to be applied
\* it waits for the persisted offset first; all such reads share one query.
Query(r, v) ==
  /\ open
  /\ v \in 1..Len(history)
  /\ opening[r] = 0
  /\ IF applied > 0 \/ hydration = "done"
     THEN WaitFor(r, v) /\ UNCHANGED hydrateVars
     ELSE /\ ~ Parked(r)
          /\ opening' = [opening EXCEPT ![r] = v]
          /\ hydration' = IF hydration = "none" THEN "sent" ELSE hydration
          /\ UNCHANGED <<registryVars, row>>
  /\ UNCHANGED <<streamVars, indexVars, tableVars>>

\* The database answers the hydration query; the answer is on its way.
ReadOffset ==
  /\ hydration = "sent"
  /\ hydration' = "answered"
  /\ row' = offset
  /\ UNCHANGED <<registryVars, streamVars, indexVars, tableVars, opening>>

\* It arrives: the offset, if there is a row, counts as applied.
Hydrate ==
  /\ hydration = "answered"
  /\ hydration' = "done"
  /\ IF row = 0 THEN UNCHANGED registryVars ELSE NotifyApplied(row)
  /\ row' = NoRead
  /\ UNCHANGED <<streamVars, indexVars, tableVars, opening>>

\* A read that waited for the hydration goes on to the registry.
Enter(r) ==
  /\ opening[r] # 0
  /\ hydration = "done"
  /\ WaitFor(r, opening[r])
  /\ opening' = [opening EXCEPT ![r] = 0]
  /\ UNCHANGED <<streamVars, indexVars, tableVars, hydration, row>>

\* Every read that waits for the hydration ends with the answer a.
OpeningEnd(a) ==
  /\ opening' = [r \in Readers |-> 0]
  /\ target' = [r \in Readers |-> IF opening[r] # 0 THEN opening[r] ELSE target[r]]
  /\ outcome' = [r \in Readers |-> IF opening[r] # 0 \/ (Parked(r) /\ a = "closed") THEN a ELSE outcome[r]]

\* The query fails: the memo is dropped, so that the next read asks again.
HydrationFails ==
  /\ hydration \in {"sent", "answered"}
  /\ hydration' = "none"
  /\ row' = NoRead
  /\ OpeningEnd("failed")
  /\ UNCHANGED <<applied, lastFailed, streamVars, indexVars, tableVars>>

Expire(r) ==
  /\ TimeOut(r)
  /\ UNCHANGED <<streamVars, indexVars, tableVars, hydrateVars>>

-----------------------------------------------------------------------------
(* The life of the process.                                                 *)

\* wiki.close: parked reads are rejected; jobs already queued still run.
Close ==
  /\ open
  /\ open' = FALSE
  /\ Forget
  /\ UNCHANGED <<history, folded, indexVars, tableVars, hydrateVars>>

\* The process stops, and the transaction under way commits or not.  The next one
\* opens the workspace at the head of the stream and rebuilds the index.
Restart ==
  /\ UNCHANGED tableVars \/ (queue # << >> /\ Write(Head(queue)))
  /\ open' = TRUE
  /\ folded' = Len(history)
  /\ lastIndexed' = 0
  /\ queue' = IF history = << >> THEN << >> ELSE << [since |-> 0, version |-> Len(history)] >>
  /\ applied' = 0
  /\ lastFailed' = 0
  /\ hydration' = "none"
  /\ row' = NoRead
  /\ OpeningEnd("closed")
  /\ UNCHANGED history

Next ==
  \/ Commit
  \/ \E v \in 1..Len(history) : Fold(v)
  \/ Indexed \/ Dropped
  \/ \E r \in Readers : Enter(r) \/ Expire(r) \/ \E v \in 1..Len(history) : Query(r, v)
  \/ ReadOffset \/ Hydrate \/ HydrationFails
  \/ Close \/ Restart

\* The event loop runs what the database and the tail have answered.  No timer is
\* assumed to fire.
Fairness ==
  /\ WF_vars(\E v \in 1..Len(history) : Fold(v))
  /\ WF_vars(Indexed \/ Dropped)
  /\ WF_vars(ReadOffset \/ Hydrate \/ HydrationFails)
  /\ \A r \in Readers : WF_vars(Enter(r))

Spec == Init /\ [][Next]_vars

FairSpec == Spec /\ Fairness

-----------------------------------------------------------------------------
(* Properties.                                                              *)

\* A read gated on a token of the stream is answered, with the documents or with
\* the failure, without any help of its timer, as long as the wiki stays open.
AnsweredWithoutTimer ==
  \A r \in Readers :
    (Parked(r) \/ opening[r] # 0) ~> (~ open \/ ~ (Parked(r) \/ opening[r] # 0))

Asked == [r \in Readers |-> IF opening[r] # 0 THEN opening[r] ELSE target[r]]

Answered ==
  [r \in Readers |->
    IF opening[r] # 0 \/ outcome[r] \in {"none", "parked"} THEN "no"
    ELSE IF outcome[r] = "ok" THEN "ok" ELSE "refused"]

\* Seen from outside it is an index that moves from version to version and answers
\* a gated read from documents at least that new.
Promise == INSTANCE DerivedIndex WITH asked <- Asked, answered <- Answered

ImplementsDerivedIndex == Promise!Spec

=============================================================================
