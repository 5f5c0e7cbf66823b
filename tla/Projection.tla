----------------------------- MODULE Projection -----------------------------
(***************************************************************************)
(* The MCP host's read side for one workspace: the live tail that projects  *)
(* the stream into SQL (wiki-mcp/src/tail/projection.ts), the apply step     *)
(* (readmodel/project.ts), the search index it feeds, the sessions' tokens  *)
(* (mcp/tokens.ts), the reload of page types and restarts (main.ts).         *)
(*                                                                          *)
(* A projection reads the history the handle holds, reads the offset,        *)
(* writes rows and offset in one transaction, asks the search index how far  *)
(* it is and writes there.  Every one of these is an await, and the writes   *)
(* do not look again at what was read before them.  What the code says of a  *)
(* workspace - one projection at a time - does not hold of two closures, or  *)
(* of a closure whose tail was stopped; `overlapped' records that it failed, *)
(* and the properties say what holds until then.  A reload that fails half   *)
(* way leaves no tail at all; the properties name that state too.            *)
(*                                                                          *)
(* A version is a number of commits, one event each.  A document is          *)
(* represented by the version that last changed its page, and a set of page  *)
(* types by the number of reloads that had reached the projection service.   *)
(***************************************************************************)
EXTENDS Integers

CONSTANTS
  Runners,        \* the closures attach creates, each with its own running and pending
  Reprojector,    \* the loop of reproject, which runs without a closure
  None,           \* no closure is attached
  Pages,
  Change,         \* the page each commit changes
  MaxCommits, MaxReloads, MaxCrashes, MaxFailures   \* bounds

ASSUME ProjectionConstants ==
  /\ MaxCommits \in Nat \ {0}
  /\ {MaxReloads, MaxCrashes, MaxFailures} \subseteq Nat
  /\ Change \in [1..MaxCommits -> Pages]
  /\ Reprojector \notin Runners /\ None \notin Runners

VARIABLES
  head,      \* the length of the stream
  held,      \* what the engine's handle has folded of it, 0 while it is not open
  offset,    \* projection_offsets.applied_version, -1 without a row
  rows,      \* the version the projected rows are of
  rowTypes,  \* the page types they were folded with
  docs,      \* the search documents
  indexed,   \* search_offset
  told,      \* what the index's registry of waiters remembers of it
  live,      \* whether the tail is running
  serving,   \* whether the tools are served
  entry,     \* the closure in the attached map
  subs,      \* the closures subscribed to the handle
  work,      \* where each projection is
  again,     \* pending of a closure
  stopped,   \* the closures of a tail that was stopped
  upto,      \* the head of the history a projection has read
  types,     \* the page types it folds with
  already,   \* the offset it has read
  seen,      \* the search offset it has read
  unsent,    \* a write tool that has committed and not yet notified the tail
  mark,      \* the session's high-water mark
  reading,   \* its read: "no", "waiting" for the token, or "released"
  token,     \* the token of that read
  reload,    \* the reaction to a change of page types
  registry,  \* the page types of the projection service
  behind,    \* the last projection failed
  overlapped,  \* two projections were at work at the same time, or a reload passed one
  crashes, failures

sqlVars == <<offset, rows, rowTypes>>
indexVars == <<docs, indexed, told>>
tailVars == <<live, serving, entry, subs>>
runVars == <<work, again, stopped, upto, types, already, seen, overlapped>>
sessionVars == <<mark, reading, token>>
reloadVars == <<reload, registry>>
boundVars == <<crashes, failures>>
vars == <<head, held, sqlVars, indexVars, tailVars, runVars, unsent, sessionVars, reloadVars, behind, boundVars>>

All == Runners \cup {Reprojector}
Versions == 0..MaxCommits
Offsets == -1..MaxCommits
Steps == {"starting", "read", "folded", "applied", "writing"}

TypeOK ==
  /\ head \in 1..MaxCommits /\ held \in 0..head
  /\ offset \in Offsets /\ rows \in Offsets /\ rowTypes \in 0..MaxReloads
  /\ docs \in [Pages -> Versions] /\ indexed \in Versions /\ told \in Versions
  /\ live \in BOOLEAN /\ serving \in BOOLEAN
  /\ entry \in Runners \cup {None} /\ subs \subseteq Runners
  /\ work \in [All -> Steps \cup {"free", "subscribing", "idle"}]
  /\ again \subseteq Runners /\ stopped \subseteq Runners
  /\ upto \in [All -> Versions] /\ types \in [All -> 0..MaxReloads]
  /\ already \in [All -> Offsets] /\ seen \in [All -> Versions]
  /\ unsent \in BOOLEAN /\ behind \in BOOLEAN /\ overlapped \in BOOLEAN
  /\ mark \in Versions /\ token \in Versions /\ reading \in {"no", "waiting", "released"}
  /\ reload \in {"no", "rebound", "listed", "projecting"} /\ registry \in 0..MaxReloads
  /\ crashes \in 0..MaxCrashes /\ failures \in 0..MaxFailures

\* The workspace was there when the host booted, or has been created since.
Init ==
  /\ head = 1 /\ held = 0
  /\ offset = -1 /\ rows = -1 /\ rowTypes = 0
  /\ docs = [p \in Pages |-> 0] /\ indexed = 0 /\ told = 0
  /\ live = TRUE /\ serving \in BOOLEAN /\ entry = None /\ subs = {}
  /\ work = [r \in All |-> "free"] /\ again = {} /\ stopped = {}
  /\ upto = [r \in All |-> 0] /\ types = [r \in All |-> 0]
  /\ already = [r \in All |-> -1] /\ seen = [r \in All |-> 0]
  /\ unsent = FALSE /\ behind = FALSE /\ overlapped = FALSE
  /\ mark = 0 /\ reading = "no" /\ token = 0
  /\ reload = "no" /\ registry = 0
  /\ crashes = 0 /\ failures = 0

Working(r) == work[r] \in Steps
Atwork == {r \in All : Working(r)}

LastChange(p, v) ==
  LET changes == {n \in 1..v : Change[n] = p}
  IN  IF changes = {} THEN 0 ELSE CHOOSE n \in changes : \A m \in changes : m <= n

Greater(m, n) == IF m < n THEN n ELSE m

ScheduledOnlyIdle(S) ==    \* mutant: a run already under way is not repeated
  /\ work' = [r \in All |-> IF r \in S /\ work[r] = "idle" THEN "starting" ELSE work[r]]
  /\ overlapped' = (overlapped \/ \E q, r \in All : q # r /\ {work'[q], work'[r]} \subseteq Steps)
  /\ UNCHANGED again

\* The run function of the closures S: start, or leave word to start again.
Scheduled(S) ==
  /\ work' = [r \in All |-> IF r \in S /\ work[r] = "idle" THEN "starting" ELSE work[r]]
  /\ again' = again \cup {r \in S \ stopped : Working(r)}
  /\ overlapped' = (overlapped \/ \E q, r \in All : q # r /\ {work'[q], work'[r]} \subseteq Steps)

\* Opening the engine's handle: the cached one, or a fold of the whole stream.
Opened == IF held = 0 THEN head ELSE held

-----------------------------------------------------------------------------
(* Commits.                                                                 *)

\* Another client appends.
CommitElsewhere ==
  /\ head < MaxCommits
  /\ head' = head + 1
  /\ UNCHANGED <<held, sqlVars, indexVars, tailVars, runVars, unsent, sessionVars, reloadVars, behind, boundVars>>

\* The handle's tail brings what others appended, and tells the subscribers.
Deliver ==
  /\ held \in 1..(head - 1)
  /\ held' = head
  /\ Scheduled(subs)
  /\ UNCHANGED <<head, sqlVars, indexVars, tailVars, stopped, upto, types, already, seen, unsent,
                 sessionVars, reloadVars, behind, boundVars>>

\* A write tool opens the handle and commits through it.  The bus tells the
\* subscribers of what it had missed and of its own event.  The session records
\* the token.
WriteTool ==
  /\ serving /\ head < MaxCommits /\ ~ unsent
  /\ head' = head + 1 /\ held' = head + 1
  /\ mark' = head + 1 /\ unsent' = TRUE
  /\ Scheduled(subs)
  /\ UNCHANGED <<sqlVars, indexVars, tailVars, stopped, upto, types, already, seen, reading, token,
                 reloadVars, behind, boundVars>>

-----------------------------------------------------------------------------
(* The tail.                                                                *)

\* attach has seen that the workspace is not attached, and subscribes: from the
\* discovery poll, or from a notification.  Polls come once the first one is over.
BeginAttach(r) ==
  /\ live /\ entry = None
  /\ serving \/ \A q \in Runners : work[q] # "subscribing"
  /\ work[r] = "free"
  /\ work' = [work EXCEPT ![r] = "subscribing"]
  /\ UNCHANGED <<head, held, sqlVars, indexVars, tailVars, again, stopped, upto, types, already, seen, overlapped,
                 unsent, sessionVars, reloadVars, behind, boundVars>>

AttachSilently(r) ==    \* mutant: no first projection
  /\ work[r] = "subscribing" /\ r \notin stopped
  /\ held' = Opened
  /\ work' = [work EXCEPT ![r] = "idle"]
  /\ entry' = r /\ subs' = subs \cup {r} /\ serving' = TRUE
  /\ UNCHANGED <<head, sqlVars, indexVars, live, again, stopped, upto, types, already, seen, overlapped, unsent,
                 sessionVars, reloadVars, behind, boundVars>>

\* Subscribed: the entry is set, over another's if there is one, and the first
\* projection starts.  The closure of a stopped tail does nothing.
FinishAttach(r) ==
  /\ work[r] = "subscribing"
  /\ held' = Opened
  /\ IF r \in stopped
     THEN /\ work' = [work EXCEPT ![r] = "free"]
          /\ stopped' = stopped \ {r}
          /\ UNCHANGED <<entry, subs, overlapped, serving>>
     ELSE /\ work' = [work EXCEPT ![r] = "starting"]
          /\ entry' = r /\ subs' = subs \cup {r} /\ serving' = TRUE
          /\ overlapped' = (overlapped \/ Atwork # {})
          /\ UNCHANGED stopped
  /\ UNCHANGED <<head, sqlVars, indexVars, live, again, upto, types, already, seen, unsent, sessionVars,
                 reloadVars, behind, boundVars>>

\* afterWrite: the tail is told of the host's own commit.
Notify ==
  /\ unsent /\ unsent' = FALSE
  /\ \/ /\ live /\ entry # None
        /\ Scheduled({entry})
     \/ /\ live /\ entry = None
        /\ \E r \in Runners : work[r] = "free" /\ work' = [work EXCEPT ![r] = "subscribing"]
        /\ UNCHANGED <<again, overlapped>>
     \/ /\ ~ live
        /\ UNCHANGED <<work, again, overlapped>>
  /\ UNCHANGED <<head, held, sqlVars, indexVars, tailVars, stopped, upto, types, already, seen, sessionVars,
                 reloadVars, behind, boundVars>>

-----------------------------------------------------------------------------
(* A projection.                                                            *)

\* It has the history the handle holds, and the page types of this moment.
Read(r) ==
  /\ work[r] = "starting"
  /\ held' = Opened
  /\ upto' = [upto EXCEPT ![r] = Opened]
  /\ types' = [types EXCEPT ![r] = registry]
  /\ work' = [work EXCEPT ![r] = "read"]
  /\ behind' = FALSE
  /\ UNCHANGED <<head, sqlVars, indexVars, tailVars, again, stopped, already, seen, overlapped, unsent,
                 sessionVars, reloadVars, boundVars>>

\* It has read the offset.  Without new events there is nothing to write.
ReadOffset(r) ==
  /\ work[r] = "read"
  /\ already' = [already EXCEPT ![r] = offset]
  /\ work' = [work EXCEPT ![r] = IF upto[r] <= offset THEN "applied" ELSE "folded"]
  /\ UNCHANGED <<head, held, sqlVars, indexVars, tailVars, again, stopped, upto, types, seen, overlapped, unsent,
                 sessionVars, reloadVars, behind, boundVars>>

RowsApart(r) ==    \* mutant: the offset advances and the rows are not replaced
  /\ work[r] = "folded"
  /\ offset' = upto[r] /\ UNCHANGED <<rows, rowTypes>>
  /\ work' = [work EXCEPT ![r] = "applied"]
  /\ UNCHANGED <<head, held, indexVars, tailVars, again, stopped, upto, types, already, seen, overlapped, unsent,
                 sessionVars, reloadVars, behind, boundVars>>

\* The transaction replaces the rows and advances the offset.
Apply(r) ==
  /\ work[r] = "folded"
  /\ offset' = upto[r] /\ rows' = upto[r] /\ rowTypes' = types[r]
  /\ work' = [work EXCEPT ![r] = "applied"]
  /\ UNCHANGED <<head, held, indexVars, tailVars, again, stopped, upto, types, already, seen, overlapped, unsent,
                 sessionVars, reloadVars, behind, boundVars>>

\* The index says how far it is: from memory, or from its row when memory is empty.
AskIndex(r) ==
  /\ work[r] = "applied"
  /\ told' = (IF told = 0 THEN indexed ELSE told)
  /\ seen' = [seen EXCEPT ![r] = told']
  /\ work' = [work EXCEPT ![r] = "writing"]
  /\ UNCHANGED <<head, held, sqlVars, docs, indexed, tailVars, again, stopped, upto, types, already, overlapped,
                 unsent, sessionVars, reloadVars, behind, boundVars>>

\* What a projection has read is forgotten with it.
Forgotten(r) ==
  /\ upto' = [upto EXCEPT ![r] = 0] /\ types' = [types EXCEPT ![r] = 0]
  /\ already' = [already EXCEPT ![r] = -1] /\ seen' = [seen EXCEPT ![r] = 0]

\* Where a projection is when it is over: repeated if somebody asked for it.
Over(r) ==
  /\ Forgotten(r)
  /\ work' = [work EXCEPT ![r] = IF r \in again THEN "starting"
                                 ELSE IF r \in stopped \/ r = Reprojector THEN "free" ELSE "idle"]
  /\ again' = again \ {r}
  /\ stopped' = stopped \ {r}

VersionPast(r) == upto[r] + 1    \* mutant: the position after the head

\* The version the result of applyCommit stands for: its own, or the offset when
\* that was no less.
Version(r) == IF upto[r] <= already[r] THEN already[r] ELSE upto[r]
AlwaysContiguous(r) == upto[r] > already[r]    \* mutant: a delta on an index that lags
Contiguous(r) == upto[r] > already[r] /\ seen[r] >= Greater(already[r], 0)
ChangedSince(r) == {Change[n] : n \in (Greater(already[r], 0) + 1)..upto[r]}

\* The pages the new events changed, if the index has all before them; the whole
\* workspace if it is behind; nothing if it is current.
WriteIndex(r) ==
  /\ work[r] = "writing"
  /\ IF Contiguous(r) \/ seen[r] < Version(r)
     THEN LET written == IF Contiguous(r) THEN ChangedSince(r) ELSE Pages
          IN  /\ docs' = [p \in Pages |-> IF p \in written THEN LastChange(p, upto[r]) ELSE docs[p]]
              /\ indexed' = Version(r)
              /\ told' = Greater(told, Version(r))
     ELSE UNCHANGED indexVars
  /\ Over(r)
  /\ UNCHANGED <<head, held, sqlVars, tailVars, overlapped, unsent, sessionVars,
                 reloadVars, behind, boundVars>>

\* The transaction fails: the closure swallows it, and nothing retries before the
\* next event.
ApplyFails(r) ==
  /\ work[r] = "folded" /\ failures < MaxFailures
  /\ failures' = failures + 1 /\ behind' = (r \notin again)
  /\ Over(r)
  /\ UNCHANGED <<head, held, sqlVars, indexVars, tailVars, overlapped, unsent,
                 sessionVars, reloadVars, crashes>>

\* The index fails: sink.fail, and the projection is over.
IndexFails(r) ==
  /\ work[r] = "writing" /\ failures < MaxFailures
  /\ failures' = failures + 1
  /\ Over(r)
  /\ UNCHANGED <<head, held, sqlVars, indexVars, tailVars, overlapped, unsent,
                 sessionVars, reloadVars, behind, crashes>>

-----------------------------------------------------------------------------
(* A change of page types.                                                  *)

\* The tail is stopped, if there is one, without a word to the projections under
\* way, and the engine is rebuilt: no handle is open.
Rebind ==
  /\ reload = "no" /\ serving /\ registry < MaxReloads
  /\ reload' = "rebound"
  /\ live' = FALSE /\ entry' = None /\ subs' = {}
  /\ work' = [r \in All |-> IF work[r] = "idle" THEN "free" ELSE work[r]]
  /\ stopped' = {r \in Runners : work'[r] # "free"}
  /\ again' = {}
  /\ held' = 0
  /\ UNCHANGED <<head, sqlVars, indexVars, serving, upto, types, already, seen, overlapped, unsent, sessionVars,
                 registry, behind, boundVars>>

\* The projection service has the new page types, and lists the offsets.
ListOffsets ==
  /\ reload = "rebound"
  /\ registry' = registry + 1
  /\ reload' = (IF offset = -1 THEN "projecting" ELSE "listed")
  /\ work' = [work EXCEPT ![Reprojector] = IF offset = -1 THEN "starting" ELSE "free"]
  /\ overlapped' = (overlapped \/ Atwork # {})
  /\ UNCHANGED <<head, held, sqlVars, indexVars, tailVars, again, stopped, upto, types, already, seen, unsent,
                 sessionVars, behind, boundVars>>

\* The offset is deleted; the rows stay until the fold replaces them.
ForgetOffset ==
  /\ reload = "listed"
  /\ reload' = "projecting" /\ offset' = -1
  /\ work' = [work EXCEPT ![Reprojector] = "starting"]
  /\ overlapped' = (overlapped \/ Atwork # {})
  /\ UNCHANGED <<head, held, rows, rowTypes, indexVars, tailVars, again, stopped, upto, types, already, seen,
                 unsent, sessionVars, registry, behind, boundVars>>

\* The old engine's close or the query of the offsets throws, before or after the
\* projection service has the new page types.  onChange is rejected, and nothing
\* starts the tail it stopped.
ListFails ==
  /\ reload = "rebound" /\ failures < MaxFailures
  /\ failures' = failures + 1
  /\ reload' = "no"
  /\ registry' \in {registry, registry + 1}
  /\ overlapped' = (overlapped \/ (registry' # registry /\ Atwork # {}))
  /\ UNCHANGED <<head, held, sqlVars, indexVars, tailVars, work, again, stopped, upto, types, already, seen,
                 unsent, sessionVars, behind, crashes>>

\* The deletion throws, or, once it is done, the list of the workspaces.
ForgetFails ==
  /\ reload = "listed" /\ failures < MaxFailures
  /\ failures' = failures + 1
  /\ reload' = "no"
  /\ offset' \in {offset, -1}
  /\ UNCHANGED <<head, held, rows, rowTypes, indexVars, tailVars, runVars, unsent, sessionVars, registry,
                 behind, crashes>>

\* A new tail, once everything is projected.
StartTail ==
  /\ reload = "projecting" /\ work[Reprojector] = "free"
  /\ reload' = "no" /\ live' = TRUE
  /\ UNCHANGED <<head, held, sqlVars, indexVars, serving, entry, subs, runVars, unsent, sessionVars, registry,
                 behind, boundVars>>

-----------------------------------------------------------------------------
(* Restarts and sessions.                                                   *)

\* The host stops and boots again: what is in the database stays.  Loaded page
\* types are loaded again after the boot, by the same reaction.
Restart ==
  /\ crashes < MaxCrashes
  /\ crashes' = crashes + 1
  /\ held' = 0 /\ told' = 0
  /\ live' = TRUE /\ serving' = FALSE /\ entry' = None /\ subs' = {}
  /\ work' = [r \in All |-> "free"] /\ again' = {} /\ stopped' = {}
  /\ upto' = [r \in All |-> 0] /\ types' = [r \in All |-> 0]
  /\ already' = [r \in All |-> -1] /\ seen' = [r \in All |-> 0]
  /\ unsent' = FALSE /\ behind' = FALSE
  /\ mark' = 0 /\ reading' = "no" /\ token' = 0
  /\ reload' = "no" /\ registry' = 0
  /\ UNCHANGED <<head, sqlVars, docs, indexed, overlapped, failures>>

\* A read of the session waits for the session's own writes.
BeginRead ==
  /\ serving /\ reading = "no" /\ mark > 0
  /\ reading' = "waiting" /\ token' = mark
  /\ UNCHANGED <<head, held, sqlVars, indexVars, tailVars, runVars, unsent, mark, reloadVars, behind, boundVars>>

\* waitFor sees the offset at or past the token, and the query follows.
Release ==
  /\ reading = "waiting" /\ offset >= token
  /\ reading' = "released"
  /\ UNCHANGED <<head, held, sqlVars, indexVars, tailVars, runVars, unsent, mark, token, reloadVars, behind, boundVars>>

\* The query is answered, or the wait times out.
EndRead ==
  /\ reading # "no"
  /\ reading' = "no" /\ token' = 0
  /\ UNCHANGED <<head, held, sqlVars, indexVars, tailVars, runVars, unsent, mark, reloadVars, behind, boundVars>>

-----------------------------------------------------------------------------
Project(r) ==
  Read(r) \/ ReadOffset(r) \/ Apply(r) \/ AskIndex(r) \/ WriteIndex(r)

Next ==
  \/ CommitElsewhere \/ Deliver \/ WriteTool \/ Notify
  \/ \E r \in Runners : BeginAttach(r) \/ FinishAttach(r)
  \/ \E r \in All : Read(r) \/ ReadOffset(r) \/ Apply(r) \/ AskIndex(r) \/ WriteIndex(r)
  \/ \E r \in All : ApplyFails(r) \/ IndexFails(r)
  \/ Rebind \/ ListOffsets \/ ForgetOffset \/ StartTail
  \/ ListFails \/ ForgetFails
  \/ Restart
  \/ BeginRead \/ Release \/ EndRead

Spec == Init /\ [][Next]_vars

\* Awaits answer, the handle's tail delivers, the discovery poll goes on.
Fairness ==
  /\ WF_vars(Deliver) /\ WF_vars(Notify)
  /\ WF_vars(\E r \in Runners : BeginAttach(r))
  /\ \A r \in Runners : WF_vars(FinishAttach(r))
  /\ \A r \in All : WF_vars(Project(r))
  /\ WF_vars(ListOffsets) /\ WF_vars(ForgetOffset) /\ WF_vars(StartTail)

FairSpec == Spec /\ Fairness

-----------------------------------------------------------------------------
(* Properties.                                                              *)

\* As long as no two projections of the workspace have overlapped, a read that
\* waited for its session's writes is answered from rows that contain them, also
\* when page types are reloaded between the wait and the query.
OwnWritesServed == reading = "released" /\ ~ overlapped => rows >= token

\* The tail is attached and has nothing left to do, and no failure is waiting for
\* the next event.
AtRest ==
  /\ live /\ entry # None /\ Atwork = {} /\ ~ unsent /\ ~ behind
  /\ held = head

\* As long as no two projections have overlapped, a tail at rest has projected the
\* whole stream with the current page types: an event or a notification that
\* arrives while a closure is at work is not lost, nor a reload that found none at
\* work.  A reload that overlaps a projection is lost (ReloadRefolds).
RestIsCurrent ==
  AtRest /\ ~ overlapped =>
    /\ offset = head /\ rows = head /\ rowTypes >= registry
    /\ failures = 0 => indexed = head

\* The offset of the search index is honest: every document is of the last change
\* of its page, however the index lagged, failed or was restarted.
IndexHonest == ~ overlapped => \A p \in Pages : docs[p] = LastChange(p, indexed)

\* A reload failed after it had stopped the tail: nothing projects until the next
\* one, or a restart.
TailLost == ~ live /\ reload = "no"

\* What is appended to the stream is projected in the end, unless the projection
\* that read it failed, or a reload that failed left no tail.
CatchesUp ==
  \A n \in 1..MaxCommits : head >= n ~> (offset >= n \/ behind \/ overlapped \/ TailLost)

\* After an overlap none of the properties above says anything.
NotOverlapped == ~ overlapped

\* reproject refolds the workspace with the page types that were just loaded.
ReloadRefolds == AtRest => rowTypes >= registry

=============================================================================
