# Hotseat wiki: TLA+ models and proofs

This directory models the wiki engine of this repository and the programs built
on it, checks the models with TLC on small instances and proves what matters
most with TLAPS. Everything is translated from the source; line references
are to files of the repository.

## 1. The system

A workspace is one append-only stream of events on a Durable Streams host. There
is no central writer: every program that uses the engine (`wiki`) reads the
stream, folds it into a projection and decides its own commands on that
projection. What keeps the writers consistent is optimistic concurrency on
append: a commit is one stored message, sent with the version it was decided on,
and the host refuses a message whose sequence number is not above the last one.

| component | state | operations | interacts by |
|---|---|---|---|
| command bus (`wiki/src/core/command-bus.ts`) | per open handle: folded state, version, stream cursor, full history, subscribers, events since the last snapshot | decide, commit (append, conflict, rebase, retry), absorb, fan out, snapshot | calls the event log; called by handles under a mutex |
| event log (`wiki/src/stores/event-log.ts`) | the workspace stream, the snapshot stream, the catalog stream | append with `Stream-Seq`, read from an offset, subscribe | HTTP to the host; the client resends on transport failure |
| handles and live tail (`wiki/src/core/wiki.ts`) | open handles, their mutex, tail subscription, read model | create, open, mutate, subscribe, token-gated reads, close | shares the projection between commands and tail batches |
| version waiters (`wiki/src/core/version-waiters.ts`) | applied version, parked waits, last failure | waitFor, notifyApplied, failWaiters, forget | called by handles, search index |
| reducer and page tree (`workspace.ts`, `structure.ts`) | pages, links, serials, pending moves, forwards | create, reparent, reorder, archive, link, move items | pure; run inside decide and fold |
| page behaviour (`operations.ts`, `guard.ts`, `registry.ts`) | per page: status, sections | FSM commands, batches, cascades | pure; run inside decide |
| move saga (`move.ts`, `move-saga.ts`) | pending moves on the source, imports on the target | begin, import, complete, abort, resume | two workspaces and a blob copy, no transaction |
| replication (`replicate.ts`) | none of its own | copy a stream verbatim, resumable | two hosts |
| snapshots (`snapshot.ts`) | the snapshot stream | write, load | event log |
| search index (`wiki/src/search`) | rows per page, last indexed version | update, reconcile, query | queued off the write path |
| MCP host (`wiki-mcp`) | SQL read model with an offset per workspace, halted set, attached set, session tokens | project, halt, reproject, attach, notify, waitFor | subscribes to handles; serves tools |
| stream host (`wiki-server`) | access ledger, signed tokens, blobs | claim, add and remove members, grants, put and copy blobs | proxies the streams |
| mirror (`wiki-mirror`) | files, manifest, supervisor and probe state | sync, rebuild, retry, restart | tails a handle, probes the host |
| web worker (`wiki-ui/lib/wiki-host.worker.ts`) | one engine, ports, workspace hosts | boot, subscribe, reap, shut down | RPC from tabs |

What is hard: writes of several processes interleave at every await; the stream
client resends a request whose answer was lost; the stream cursor is coarse, so
what a process wrote itself comes back to it through rebase and tail; a process may
stop at any await; processes run different versions of the page types, and an
event one of them cannot fold throws in the middle of a batch; several
derived stores (read models, search, the mirror's files) lag behind the stream,
and reads gated on a token wait for them.

What makes it correct: versions are contiguous; a projection is exactly a prefix of
the stream; every decision holds at the place its commit is stored; a key applies
once; a read gated on a token sees the write; no call and no parked read is left
hanging; a move leaves each page in one workspace; a derived store catches up.

## 2. Modules

| module | models | of |
|---|---|---|
| `WorkspaceCommands` | the decisions, abstracted to three families of calls | decide functions, `commandSeen`, `envelope` |
| `EventLog` | one stream and the host's test on an append | `event-log.ts` |
| `CommandBus` | several processes: commit loop, wire, live tail, open, create, snapshot, crash | `command-bus.ts`, `wiki.ts` |
| `SerialWorkspace` | what the bus promises: one history, decided serially | abstract |
| `CommandBusInvariant` | the inductive invariant | |
| `VersionWaiters` | the registry of parked reads | `version-waiters.ts` |
| `SearchReindex` | scheduling, writing and reading the search index of one workspace | `wiki.ts`, `sql-search-index.ts` |
| `DerivedIndex` | what an index of a workspace promises: documents of one version, reads new enough or refused | abstract |
| `PageTree` | one workspace: pages, tree, links, serials, pending moves, forwards; one action per structural command with its fold | `structure.ts`, `workspace.ts`, `move.ts` |
| `TreeIndex` | a derived store kept up to date by deltas of rendered pages | `render-docs.ts` |
| `PageMove` | the saga that moves pages between workspaces | `move-saga.ts`, `move.ts` |
| `PageHome` | what a move promises: one workspace per page, pages that move at once | abstract |
| `PageOps` | what the engine does with a page's state machine, lists and fields whatever its type: gates, operations, derived transitions | `operations.ts`, `guard.ts`, `command-bus.ts`, `registry.ts` |
| `SpecRestatement` | one page type whole: a spec that an agent drafts and a human restates, every declared and generated command, and `moveItem` | `spec-restatement.ts` |
| `Feature` | four page types that read each other: a brief, its plans, its testing plan and its spec, with the cascade and `moveItem` | `wiki-models/src/feature` |
| `Projection` | the MCP host's read side: attach, project, discover, reproject, a reload that may fail, a session's gated reads | `projection.ts`, `project.ts`, `tokens.ts` |
| `MarkdownDisk` | what the disk projector computes from a fold and its manifest | `markdown-projection.ts` |
| `Mirror` | the mirror service: supervisor, loop, lock of the root, probe, restarts | `mirror.ts`, `supervisor.ts`, `server-probe.ts`, `main.ts` |
| `WorkerHost` | the shared worker of the web UI and the pages that use it | `wiki-host.worker.ts`, `host-client.ts`, `live.tsx` |
| `*_proofs` | the theorems about `CommandBus`, `SearchReindex` (with `VersionWaiters`), `PageTree` (with `TreeIndex`), `PageMove`, `SpecRestatement` and `Feature` (`PageTypes_proofs`), `Projection`, `Mirror` and `WorkerHost` | |
| `MC*` | instances for TLC | |

`CommandBus` uses `WorkspaceCommands` and `EventLog`; `SearchReindex` extends `VersionWaiters`;
`TreeIndex` extends `PageTree`; `Mirror` extends `MarkdownDisk`; `SpecRestatement` instantiates
`PageOps`. `CommandBus` shows that a decision holds at the place where its commit is stored: this is why
a command is one step in the modules about the content of a workspace, and why a
version is a number in the modules about the stores derived from it.

### How CommandBus corresponds to the code

One action is what happens between two awaits: JavaScript runs it atomically. `pc`
says at which await a process's mutex span is.

- `Begin`: a command enters the mutex and runs `commit` (1051-1108) down to
  `eventLog.append`: the key is looked up (`commandSeen`), `decide` may throw (the
  call is `rejected`) or emit nothing (`ok`), else the request goes out. A process decides a command only with page types that
  fold its events (`Knows`); `since` remembers, for a property, how much of the stream it had folded.
- `Create`: `createWorkspace` does the same on an empty projection at version 0,
  whatever the stream holds; the handle is registered, and tails, on success only.
- `ServeAnswered`, `ServeUnanswered`: the host handles a request. Its answer
  reaches the process, or is lost, and then the client, which retries transport
  failures, sends the same request again as long as the process waits for it.
- `Fail`: append throws something else than a conflict. `Absorb`: fold and fan
  out our own events. `Settle`: snapshot if due, whose failure is swallowed, release
  the mutex, return the token, notify the read model.
- `Rebase`: read from the cursor, skip what is folded, fold the rest, and take the
  next turn of the loop in the same step, since nothing is awaited in between.
- `TailBatch`, `TailThrows`, `LoseTail`: the live subscription; a fold that throws
  rejects a promise nobody awaits, which ends a Node process and leaves a
  browser's running (`Survivors`).
- `Open`, `Crash`.

A call is made once. A call without a key that is answered `unknown` may still take
effect, and a resent one may take effect twice: the handles of `wiki.ts` never pass
a `commandId`, so this is the promise that `SerialWorkspace` states.

### How VersionWaiters and SearchReindex correspond to the code

`VersionWaiters` has one action per method of the registry; a timer is an action that
may or may not happen. `applied` and `lastFailed` are 0 where the code has no entry.
`SearchReindex` extends it with what feeds it. `queue` is the search mutex: a
fold appends a job with the `since` that was current when the documents were
rendered (`ScheduleReindex`), and the first job ends by `Indexed` or `Dropped`. `Dropped`
also covers a transaction that commits and whose answer is lost. A document is
represented by the version that last changed its page, so `docs` is right for a
version exactly when it equals `LastChange` there; which pages an event affects is
an input here (`Changes`), since `affectedPageIds` is about the page tree. `Query`,
`ReadOffset`, `Hydrate` and `Enter` are the awaits of a gated read before any version is
known to be applied; concurrent first readers share one query.

### How PageTree and TreeIndex correspond to the code

A command is decided on the folded state and its events are folded at once; the races
between processes are in `CommandBus`, and what it proves (a decision holds where it is
stored) is why one step is enough here. An action is one structural handler: its
conjuncts are the handler's checks in `structure.ts` and `move.ts`, its primed variables what
`applyStructural` in `workspace.ts` changes. `Active` is the check of the bus that the
workspace is not archived, `Editable` the lookups plus `assertNotMoving`. Pages
that leave (`CompletePageMove`) take their links along; a link into them becomes one
to the other workspace (`StayingLinks`). What an import brings (`Imports`) is any forest of
pages that are not here, with links of its own; its parent may be any page. The
order of siblings is left out, and content is represented by what depends on it: a
title, a serial number and the links. `TreeIndex` adds the search index's view:
`Render` is what a document shows (its title, its children's and those its links show),
`stale` holds the pages whose document a commit since the last write has outdated,
`AffectedPageIds` is computed by the code's rules from the events since then, and `WriteDelta`
re-renders just those.

### How PageMove corresponds to the code

`step[f]` is what the run `f` of `movePages`, `resumePageMove` or the recovery at the
start of the MCP host does next; an action is one commit or copy of it. `Begin` has the
checks that `movePages` makes before it freezes the pages. `Stop` is the death of the
process or an error that is not a `WikiError`: the run ends and the journal keeps the
move pending. `Refuse` is the catch clause's `WikiError`: no copier, or the target does
not want the pages, for any reason (a title, a missing parent, an archived
workspace, an unknown type), which may differ between two attempts. A text is how
often the copy was edited, so that a lost edit shows. Commits read the current state:
`CommandBus` shows that a decision holds where it is stored. A `ConcurrencyError` for
an import that was in fact stored (a lost answer, then five conflicts) is not modelled.

### How PageOps and SpecRestatement correspond to the code

`PageOps` has what `decidePage` does around a command of any type: whether the event is
legal in the status (`Edge`), whether a field or list may be written in it, whether an element may
be edited in its own status, the application of the operations one after the other, and
the derived transitions (`withAutoTransitions`; one round settles). `SpecRestatement` gives it the
declaration of one type and has one operator per command. Sections are addressed by their
position and ids are numbered again after each command: no command compares ids of
different moments. A body is the set of texts it holds; a draft is a title with a text. The engine does not know who calls: commands are
split into the agent's and the human's by their descriptions, and any of them takes any text. `signed` is the set of texts that were given
to a command that verifies (`restateSections`, `addSection`, `splitSection` of a verified section) or accepted as
they stood. `splitSection` takes any two texts, as the command does, not only the halves of what is there.
`restateSections` replaces a list of sections, in any order and also with an id named twice, by a list of drafts. The
generated commands of the lists are included, but for a note's field setters and for an added element that takes the id of another. A
batch is a sequence of commands. `moveItem` is a command of the workspace: what it takes out or puts in passes no gate, and no
transition is derived afterwards (`Moved`), so the properties of the status and of approval are about the steps of the
page's own commands. A section that arrives verified brings words that were signed where it comes from. How long a
human looked at the screen before accepting is not modelled.

### How Feature corresponds to the code

An action is one command of one of the four pages with the whole commit it makes: `ship` is
`decidePageCascading`, which finalizes each pinned child that is not at its end, on the state
before the commit. A gate of one page reads another through `requiredChildren`, which looks for the first
child of a type: `Plans` holds the pinned plan and strays that `reparent` may put beside or
before it (the same could be done to the testing plan, and is left out). Lists are sets: no gate reads
an order. Ids of questions, steps and cases are new or come back by `moveItem`. Archived and
moving pages are left out.

### How Projection corresponds to the code

A closure of `attach` is a member of `Runners`, with its own `running` and `pending`; the loop of
`reproject` is `Reprojector`. `work` says at which await a projection is: after the
history is read, after the offset is read, after the transaction of rows and offset, after the search
offset is read. None looks again at what was read before it. `rows` and `rowTypes` say of which
version and of which page types the rows are, and that is all the content they have here. `Rebind`,
`ListOffsets`, `ForgetOffset` and `StartTail` are the reaction of `main.ts` to reloaded page types; `ListFails` and `ForgetFails`
are a throw in it, of the old engine's close or of a query, which rejects the handler before it starts a tail. `overlapped`
records that two projections, or a projection and a reload, were at work at once, which the code means to exclude. The halt of
a workspace on an unknown event is not modelled.

### How MarkdownDisk and Mirror correspond to the code

The workspace at a version is a constant: which pages it has, where the file of each belongs and what it
says. `MarkdownDisk` has what a rebuild expects, freezes (a page whose type, or an ancestor's type, this process
does not know), writes, removes and records. In `Mirror` an emitter is one engine, one supervisor, one tail
loop and one projector with its manifest in memory; a restart makes another, and the old one may
still be queued at the lock of the root. A rebuild is a job at that lock: it writes one file
at a time, removes one at a time and then replaces the manifest. `Crash` keeps the files and
the manifest file only. A round of the probe is one step; a tail delivers its backlog at once; files are
written in a fixed order. `misled`, `leaked` and `failing` are history, and so is `knew` of a manifest (the pages its rebuild knew the types
of): they name the states in which the code itself knows, or could know, that a promise is suspended.

### How WorkerHost corresponds to the code

The worker handles one message at a time. `boots` has every boot of the engine ever made: `queued`
behind the teardown before it, `opening`, `up`, `failed`, `closing`, `closed`; `bootP` is the one calls are answered with.
A call that awaits `boot()` is in `waiters` until the boot settles. `host` is the entry of the one
workspace in `workspaceHosts`, with its subscribers, the state of its snapshot and its tail. A page
is one load of the app, so a reload is another page; connecting and handing over the stored token
are one step (nothing in the worker comes between). Pages may vanish or have their timers stopped at any moment; a page that
comes back pings before anything else, as its `visibilitychange` handler does. One assumption about
time: a boot or a teardown is shorter than the ping timeout (90 s), so the last page is not reaped
while one is under way; otherwise `shutdownIdle` would not wait for the boot it no longer
has in hand, and two engines could hold the database. `restart()` is left out: it cuts the pages off by design.

## 3. Runs

| run | question | expected |
|---|---|---|
| `bus_titles` | do the stream, the projections and the snapshots stay consistent when two processes of different models race two claims of a title, does a refused call leave no trace, and does the loop implement `SerialWorkspace`? | pass |
| `bus_calls` | does a key apply once, does a gated read see the write, is a `ConcurrencyError` always the price of commits that came while the call ran, does every call return, and every idle tail catch up? | pass |
| `split_commit` | do versions stay contiguous when a process cannot fold a part of another's commit? | violation |
| `page_tree` | do the tree, the links and the frozen subtrees stay consistent, and do deltas re-render all that changed? | pass |
| `page_move` | has a page one home wherever a move stops, do forwards and attachments follow, is `PageHome` implemented? | pass |
| `search_index` | is no parked read missed, is `DerivedIndex` implemented through failures and restarts, are gated reads answered without their timer? | pass |
| `spec_page` | does any order of commands put a text that no verifying command was given into a verified section, or any command of the page leave a derived status wrong, make an approved spec incomplete, lose a required slot? | pass |
| `feature` | does a sealed spec cite every answered question, has a ready plan a data model, and does shipping leave the pinned pages at their end? | pass |
| `mcp_tail` | until two projections overlap: is an own write served, are rows at rest those of the head, is the search offset honest; is everything projected in the end, but for failures? | pass |
| `reload_skipped` | does a reload of page types always refold the rows? | violation |
| `mirror` | does a settled root hold exactly the pages of its version, is a page never off the disk on the way, does the mirror catch up? | pass |
| `worker_host` | has the search database one writer, is a page that stays shown the head, is everything closed when every page is gone? | pass |

`page_tree`, `page_move` and `bus_titles` also check what the proofs show for every
instance: the proofs need the invariants to be right, and TLC found out first.
The type invariant `TypeOK` of a module is not listed with its run: it is proved where the module has proofs of all its
variables (section 4), and holds of every state of the other runs (add `INVARIANT TypeOK` to the configuration).

### Bounds

The bus: two processes, as every race in it is between a process that decides and
one that commits meanwhile; a third adds a second instance of the same role.
Three calls: one creates the workspace, two race (`split_commit` has a fourth, appended inside the message); sizes 1 and 2, so that
a commit has an inside. `MaxAttempts` is 2 in `bus_titles` instead of 5, which separates the first
turn, a retry and giving up, and 1 in `bus_calls`, where liveness makes states dear and
a call that gives up must return too. `ConflictsAreReal` is checked there: a call that gives up met a commit that came after it
began, or, with a key, may have met its own; the count for more turns is the theorem's. Each call is made once, which bounds the stream. A
process may crash and reopen as often as it likes. Deadlock is not checked where every call may have been made, or
every budget be spent.

The index: one reader, two pages and three commits, so that a version
can be below, at and above an advance and a failure, and a job can fail, another span
its gap and a third be queued between them. Readers do not interact, except by sharing a
hydration, which two readers would add at ten times the states.

The tree: a feature, the record it requires and another record, numbered alike
(`MCPageTree`), and two subtrees that another workspace may send; a cycle, a pinned page away from its owner, a link whose two ends
leave one after the other need no more. `MaxLag` (how many commits a delta spans)
is 2: what an event touched may have changed again by the time the delta is rendered.
`MaxSerial` is 2, so numbers run out and are minted again after a page left.

The saga: three workspaces, so that forwards form a chain and a page can come back to
a place it left while its first move is not complete; two pages, one with an attachment; three
moves; one edit per copy, enough to tell a lost one. One run at a time
(`OneAtATime`): with two runs of one move the model violates `OneHome`, as the code
does (section 5).

The spec page: two sections of two levels, one note, one required slot, and the first section at the top
level (`FirstAtTop`, a constraint: the code lets it be deeper). Two sections are what it takes to have one verified and
one not, to join, split and move, to restate two by two, and to name one twice. There is one title and there are two texts: one that suits the slot and was
never signed, and one that does not, was signed elsewhere and cites a title no section has. So a citation either asks nothing or cannot be
resolved, and a section whose title another cites is not renamed or removed in the run; that case is left to the theorem. That a moved block arrives
whole is an assumption TLC evaluates for every block of every list of up to six (`BlocksTravelWhole`).

The feature: two questions, alike, one step, one case and one data model, the pinned plan and one stray.

The MCP host: two closures and the loop of `reproject`; three commits, one reload, one crash, one failed write. The failure may be one
of the reload. States after an overlap of two projections, or of a projection and a reload, are cut off (`NotOverlapped`), since the
code keeps none of the properties there: `reload_skipped` shows one case, section 5 tells of others.

The mirror: a folder and a page over four paths, a commit that moves the folder with the page in it, and one that edits it and takes the page out again; two
emitters; one failure of any kind and one timeout, and either process knows all types or not the folder's.

The worker: two pages, three boots, one commit, one sign-in, two troubles (a page that sleeps, a lost stream, a
failed boot, a page that came without a token).

### Fairness

`bus_calls`: weak fairness of the host answering a waiting process (the
client retries until it is answered), of the continuations after an await, and of a
live subscription delivering. Nothing is assumed of callers, crashes, failures,
lost answers or lost subscriptions. `search_index`: weak fairness of the tail, of
the database answering a job or the hydration query (with success or an error), and
of the continuation of each read; no timer is assumed to fire. `mcp_tail`: of every await of a projection,
of the handle's tail and of the discovery poll. `mirror`: of the job at the front of the lock, of timers and continuations of the supervisor, of the
tail of an engine that is not severed, and of a probe that gets its answer. `worker_host`: boots and
teardowns end, the timers of pages that are awake and of the worker's reaper fire, a live stream
delivers, and a stream that is down is in the end reachable. Nobody has to open, close or wake a page. The liveness
properties name what they except: `CatchesUp` of `Projection` a failed projection (it is only tried again at the
next event), an overlap, and a reload that failed and left no tail (`TailLost`), `CatchesUp` of `Mirror` a probe that believes the loop level (section 5), `Watched` a session that
loses its token and an engine whose boot failed, which the code keeps until the last page is gone.

## 4. Proofs

All for any processes, commands, sizes, titles, keys, pages and bounds that satisfy the
assumptions of the modules.

### The commit pipeline

- `TypeCorrect`: `TypeOK` of the bus, also when page types differ.
- With `WholeCommits` (a process that cannot fold one event of a commit can fold none of it, and one that outlives the
  rejection of its tail can fold everything; `split_commit` and section 5 show that both are needed):
  `BusInvariantHolds`, `VersionsContiguous`, `HistoryIsComplete`, `KeysApplyOnce`, `TitlesStayUnique`,
  `CallsInvariantHolds`, `TokensAreHonest`, `RefusalsLeaveNoTrace`, `ConflictsAreEarned`, `SnapshotsResume` and
  `BusImplementsSerial`, the refinement of `SerialWorkspace`.

The argument. The host compares sequence numbers, not lengths, so an admitted
append is at the end of the stream only if no message starts between its
sequence number and the end. `StreamShape` says the last sequence number is where the
last message starts, and `InFlightDecided` says a request was decided at a message
boundary; a boundary above `lastSeq` can only be the end (`AdmittedAtEnd`). Hence
contiguity. Boundaries are kept because a projection folds whole messages
(`ProjectionExact`), its own acknowledged append (`OwnCommitStored`), and a batch's
fresh part, which is a suffix when versions are contiguous (`FreshOfLog`). As a
request carries the decision's prefix and is stored right after that prefix
(`CommitsDecidedAtHead`), what the decision checked (key unseen, title free) holds
where it is stored.

`CallsInvariant` is about the answers. A call has one process that runs it (`OneRunner`), and every request of its
on the wire is that process's (`RequestsOwned`); what is stored of a call was called (`StoredWasCalled`), and an
acknowledged call is stored below its token (`AcknowledgedIsStored`). The read model never passes the fold
(`AppliedBehind`), which is complete: hence a token's reader sees the write. `TurnsLost` counts for each turn lost to a conflict
a commit that the process has folded since the call began (`since`); commits before the call do not count. One of them may be the call's own, whose reply was
lost; a call with a key meets its own at most once (`KeysApplyOnce`), so all its turns but one were lost to others. For the refinement a call takes effect
in `SerialWorkspace` when the host stores it, which is before the process learns of it: an acknowledgment is a
stutter there, and a refusal names the prefix it was decided on.

### The other components

`SearchReindex_proofs`. Of the registry alone: `NoWaiterMissed` is inductive with the types alone, because every
action that raises `applied` or `lastFailed` settles what it covers in the same step;
`FailuresStayCovered` follows from `NotifyApplied` clearing a marker only when it reaches it. Of the index that uses it: `SearchTypes`,
`QueriesNotMissed`, and `IndexIsDerived`, the refinement of `DerivedIndex`. `SearchInv` says that the jobs are in the order of
their versions, that each delta begins where the documents were written already (`lastIndexedVersion` belongs to the process
and may be behind the table), and that nothing is said to be applied that is not. A delta is then enough: what it
leaves out has not changed since the documents were written (`LastChangeGrows`). A step of the index serves, asks, commits,
or is a stutter of the promise.

`PageTree_proofs`, for any pages, links and imports that are forests (`ImportsAreTrees`):
`TreeTypeCorrect`, `TreeStaysWellFormed`, `LinksAlwaysResolve`, `FrozenStaysClosed`,
`PinnedStaysWithOwner`, `FrozenStaysUnchanged`; and with the index, `DocumentsStayCurrent` (`IndexedTreeIsTree`
says that the index does not change the tree). Acyclicity is stated without recursion: no
nonempty set of pages has every parent inside itself. For a reparent, suppose such a set
afterwards: it contains the moved page, since it would have been one before; the check that
the new parent is not in the moved subtree puts that parent outside the smallest closed set
around the page, and the pages of the set outside the subtree would have been a cycle before.
`FrozenClosed` is part of the induction, not only a promise: the pages that leave must
take their children along, or those would keep a parent that is gone; `TreeWellFormed` in turn
gives the subtree of a move its shape. For `DocsCurrent` the invariant (`Covered`) is that each document that is behind
would be rendered if the delta were written now: dependents are looked up at the end, so an event that takes a
child or a link away has to name the page that showed it.

`PageMove_proofs`, for any workspaces, pages and moves. `MoveTypeCorrect` needs nothing; the rest
assumes that runs do not overlap and that each can copy attachments (section 5 says what happens otherwise):
`PagesHaveOneHome`, `AttachmentsAlwaysFollow`, `ForwardsAlwaysLead`, and `SagaMovesAtOnce`, the refinement of `PageHome`.
`Journal` says that pending moves hold disjoint pages of their source; `RunsExact` that a
run past its export has a pending move, completes what has landed, aborts what has not,
and carries the text the source still holds. Then only an import changes a page's home:
it supersedes the source's copy in the same step. For the forwards a superseded
copy is taken to lead to the importing workspace (`Led`), which completing replaces by a
forward to the same place; every set of workspaces led from where a page was holds its home.

`PageTypes_proofs`, about two page types. Of the spec page, for any rubric, drafts, titles and sizes of its lists:
`SpecInvHolds`, `SpecTypes`, `VerifiedIsSigned`, `StatusStaysDerived`, `ApprovedStaysComplete`, `SlotsStayKept`. A command applies a list of
operations of any length, so the argument goes by chains: `Applied` is the chain of pages a decision leaves behind it, and what
each legal operation keeps of a page, the chain keeps (`ChainKeeps`). An operation is `Harmless` to a kind of section when
it leads from pages of such sections to such pages; the sections are `Clean`: a verified one holds signed words only, but for
those the command is about to rewrite, and a section that is born verified brings the words its command signs (`Vouched`). The element gate is what makes it so: a verified section's words are only written after
its downgrade, and a downgrade comes back as verified only with the words that `rewriteBody` was given. Then `StatusIsDerived`
holds because the derived transitions undo each other's cause, so one round settles the page whatever it was
before, also after `moveItem` left a status that is wrong. In an approved page no list is writable and the only operations that pass the gates are lifecycle
transitions (`ApprovedIsClosed`), and those change no slot, title, word or summary (`StaysComplete`). `moveItem` passes no gate and is excepted; that it keeps provenance and the ids is
`MoveItemKeeps`. `IdsArePositions` is part of the induction: an operation addresses the element a command
looked at only if ids and positions agree when the command is decided.
`SlotsStayKept` counts: an operation changes how often a slot is filled by its `Delta`, one less for a tagged section
removed and one more for one added, and the counts of a chain are those of its first page with the deltas summed
(`ApplyCounts`). No declared command writes the slot of a section, so a section that a later operation
addresses has the slot it was found with (`Rooted`). A declared command other than a restatement changes none of the
counts (`RegularKeeps`). A restatement is of any length on both sides. It takes each section it names away once, however often it
names it, and carries the tag of each name (`slotsOf`, `RidesExist`): a slot comes back at least as often as it
went, and exactly so if no section is named twice (`RestateKeeps`, by counting along both lists with `Times` and `Upto`).

Of the feature, for any plans, questions, steps, cases and models: `FeatureTypeCorrect`, `DecisionsStayThreaded`,
`ReadyKeepsModel`, `ShipsAreAligned`. Each is inductive over the types: a question is answered after sealing, and is
then `late`, or was cited when the spec was sealed, and citations change only in a spec that is open.
For the shipping commit the type invariant is needed because the pinned plan is among the
children, and `ReadyHasModel` because a plan that is already ready is skipped.

`WorkerHost_proofs`: `DatabaseHasOneWriter`, for any number of pages, boots and sign-ins. The invariant is about the
order of boots (`InOrder`): one that has left the queue finds all the earlier ones over. A new boot
joins the queue unless the last one is over, and only the end of a boot releases the next; so of two that have the
database open, the later one contradicts the earlier. It does not depend on who waits
for what, which is why `EngineInv` says nothing of hosts or pages.

`Projection_proofs`, for any closures, commits, reloads, crashes and failures: `ProjectionTypes`, `ServesOwnWrites`,
`RestHasProjected`, `IndexStaysHonest`. As long as no two projections have overlapped, `Alone` says that at most one closure is
at work, though a stopped one may be behind the reload (`Closures`); so what it read before an await still holds after
it (`ReadHolds`): the offset is that of the rows, and the history it folds begins there. `RestIsHeld` says that a closure with nothing pending
has projected what its handle holds, `TypesCurrent` that rows of old types are forgotten before the offset is believed again.
`DocsHonest` needs that the documents of a delta are those of the last change up to its version: that a page which did not change
between the search offset and there has the same last change is an induction over versions, done by the
least counterexample.

`Mirror_proofs`, for any workspace, emitters and budgets: `MirrorTypes`, `MirrorInvariantHolds`, `RestHoldsThePages`,
`RestHoldsNothingElse`, `PagesAreKept`. The manifest on the disk is that of a rebuild that ended (`SavedIsExact`: every
visible page has its file in it, and every file in it is that of a visible page or the last known one of a page that was
not), the one in memory is what the disk holds (`KnowsDisk`, `KnowsAll`) but for what the rebuild at the front of the
lock has written and not recorded (`WorkIsRebuild`, `GoneIsGone`, `GoneWasOrphan`), and only a failure can leave an emitter
behind the disk. `writeIfChanged`, which compares hashes with the manifest and never looks at the
file, is right because of `KnowsDisk`. `PagesAreKept` is where the proof changed the property: see `Unrecorded` in section 5.

Only model-checked: what `moveSubtreeOps` computes for a block (`BlocksTravelWhole`), a fact about
one pure function and every list up to the bound. The liveness properties are out of the prover's reach.

## 5. Findings

With a run:

- `split_commit`: a process that is behind another's commit decides a command it knows, gets a 409, and throws in the rebase at
  the second event of that commit, whose type its models lack: the head is left inside a stored
  message. Its next append is admitted (its sequence number is above that
  message's) and duplicates versions; the workspace can not be opened afterwards.
- `reload_skipped`: `stopLive` (`projection.ts:447`) drops the subscriptions and does not wait for a projection under way.
  That one writes the offset back after `reproject` deleted it, and the rows of the old page types are
  marked current, although `main.ts:173-176` says the tail is stopped first so that nothing is projected beside the reload. With Postgres, whose pool (`readmodel/store.ts`) lets the two transactions overlap, nothing else prevents it.

Refuted by TLC with other constants, without a run of its own:

- `OneHome` of `PageMove` with a run that has no copier (`HasCopier` smaller than `Finishers`): `finish` reports a missing blob copier
  as a rejection before it asks the target whether the import has landed (`move-saga.ts:116`). A resumed move whose import had landed is
  aborted, and the pages are editable in both workspaces. The MCP host resumes moves with a copier only when one is
  configured. And with `OneAtATime` false: two runs of one move overlap, and one
  aborts after the other's import.
- `PageKept` of `Mirror` without `Unrecorded`, with two troubles instead of one: `markdown-projection.ts:451` says that the pages a fold
  could not see are never swept. A process starts without knowing a folder's type, on an empty root; the page
  in the folder is frozen and has no path. A commit moves it out: a rebuild writes its file and then fails at another
  page, so that the file is recorded and the page's path is not. A commit moves it back in before the retry, which
  freezes the page, finds no path to keep, and sweeps the file as an orphan. The attempt to prove `PageKept` led here.
- `EndsAtHead` of `Mirror`: a commit between the first sync and the subscription kicks nobody (`mirror.ts:70`); the probe
  anchors on what it saw and takes the lag for level, although `server-probe.ts:13-15` says a wedged loop is noticed.
- `SignInHolds` of `WorkerHost` with three pages: p1 signs out while p2's host is connecting without the token; the next sign-in
  hands the worker a token, which drops the hosts that were refused (`wiki-host.worker.ts:393`) but not one that is still
  connecting; the late 401 reaches p2, which clears the new token. `live.tsx:79-83` says this is guarded against.
- `RestIsMirror` and `NoOrphans` of `Mirror` without `misled`: a restart waits for a loop that runs, not for an attempt that is under way
  (`supervisor.ts:108-117`). The first sync of the old attempt, of a later version, can then run after the first sync of the new loop, whose
  manifest in memory says what the disk no longer holds; `writeIfChanged` trusts the hash it remembers, so a file stays doubled or missing until the manifest is
  verified at the next start. An attempt that timed out goes on in the same way (`supervisor.ts:158`).
- `IndexHonest` of `Projection` without `overlapped`, even without a reload: `attach` awaits between `has` and `set`
  (`projection.ts:495`), two closures attach and project the same workspace, and the one that read the earlier head
  writes documents and offset last. `RestIsCurrent` without it, with a reload: as in `reload_skipped`.
- `CatchesUp` of `Projection` without `TailLost`: `projection.ts:380` says that `reproject` never throws, but only the
  projections are in its `try`. A throw of the query of the offsets, of a deletion or of the list of workspaces, or of the old engine's `close` before
  it, rejects `models.onChange` between `stopLive` and `start` (`main.ts:186-190`): there is no tail until the next change of
  models or a restart.
- `StatusIsDerived`, `ApprovedIsComplete` and `SlotsKept` of `SpecRestatement` without `moveItem`: the public structural command
  (`structure.ts:520`) takes sections out of an approved spec or puts unverified ones in, derives nothing, and drops a required slot.
- `SlotsKept` without `NamesTwice`: `restateSections` does not look for a `removeId` that is named twice (`spec-restatement.ts:684-691`);
  the slot of that section rides on two of the new ones.
- `HistoryComplete` of `CommandBus` with models that differ and a process that survives the rejection of its tail (`Survivors`): the tail's task is not awaited,
  and the next batch is folded past the hole.

Met while modelling:

- `reparent` makes no title check (`structure.ts:277`), so a page is put beside a sibling
  of its title, which creating, renaming and importing refuse and the mirror relies on.
- A serial number is minted again after the page that held the highest one moved out (`structure.ts:119` says numbers are never reused).
- A second `WorkspaceCreated` resets the name and the status of the workspace (`workspace.ts:309`).
- Resuming from a snapshot skips one event too many (`snapshot.ts:119`); nothing calls it.
- A read that awaits the hydration query when its workspace is forgotten parks until its timer
  (`sql-search-index.ts:58`; `version-waiters.ts:130` says such a read fails fast).
- The discovery poll has one `try` around all workspaces, so one that fails stops the others of that turn (`projection.ts:515`); and nothing an engine-backed source delivers reaches the halt of an unknown event.
- Spec pages: moving, adding or restating sections can leave a skipped heading level (`spec-restatement.ts:835` says it cannot);
  a section revised during the review does not stop `approve`; `acceptSections` verifies what is there, not what was read; any
  caller's text that `splitSection` puts into a verified section stays verified, and `restateSections` and `addSection` trust their caller alike.
- Features: a sealed spec is skipped by the cascade although questions were answered since (`feature-brief.ts:241` says a child that is not ready
  rejects the ship): this is what `late` in `DecisionsThreaded` is for. A referenced question can be removed, and the spec that refers to it
  can then neither be edited nor reopened; two dangling decisions cannot be removed one by one. A
  stray plan that stands first satisfies the gates for the pinned one, although that one is still
  finalized past its own gate. `moveItem` (`structure.ts:520`) looks at no `mutableIn`: it
  moves steps and cases out of ready plans, and open questions into a shipped brief. A pinned page can be reopened after the ship.
- Worker: the continuation of `ensureHost` after a boot that was torn down meanwhile installs a host of the old engine (`wiki-host.worker.ts:299`);
  `primeSearchIndex` sets its flag after the reset (312); pages that did not cause a teardown
  lose their subscription without being told; a tail that ended with a 401 leaves its host live; a search database that fails to
  open rejects every call until the last page is reaped (`search-db.ts:54` says search just returns nothing).

## 6. Not modelled

- Rendering, Markdown, ingestion, ranking of search results: conversions of text without state.
- `replicate.ts`: one writer, a script run by hand. `loadSnapshot`: no caller.
- The stream server's authorization, OAuth grants and blobs: each request is decided alone; the models have a request that is
  refused and a copy that fails.
- The tools of the MCP host, the components of the web UI, the menu bar application, the import scripts: adapters
  and views over the calls that are modelled.
- Page types other than the spec and the feature: one page, a status and lists, with no gate on another page. `PageOps` has what
  the engine does with them.
- In `PageTree`: the order of siblings, retired page types, a second `WorkspaceCreated`; `DocsCurrent`
  therefore says nothing of references inside content, nor of `@children-content` sections,
  which inline other pages (`read-model.ts:415`).
- In `PageMove`: a `ConcurrencyError` for an import that was in fact stored.
- In `Projection`: the halt of a workspace on an unknown event.
- In `Mirror`: attachments, a mirrored subtree, the names of files, the health endpoint.
- In `WorkerHost`: the commands and reads the worker passes on, `restart()`, the priming of the search index.
