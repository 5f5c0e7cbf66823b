------------------------------- MODULE Mirror -------------------------------
(***************************************************************************)
(* The mirror of one workspace under one root: the service and its restarts *)
(* (wiki-mirror/src/main.ts), the supervisor of the emitter (supervisor.ts), *)
(* the tail loop (mirror.ts), the disk projector under the lock of its root  *)
(* (markdown-projection.ts), and the probe of the stream host                *)
(* (server-probe.ts).                                                        *)
(*                                                                          *)
(* A restart makes a new engine, a new supervisor and a new projector: here   *)
(* an emitter is one such set.  The old one is not waited for when it is in   *)
(* the middle of an attempt, so both may be queued at the lock.              *)
(*                                                                          *)
(* Everything that can go wrong is drawn from one budget: an attempt that     *)
(* times out, a write, a removal or a save that fails, a tail that dies, a    *)
(* probe that gets no answer, a crash.                                       *)
(***************************************************************************)
EXTENDS MarkdownDisk, Sequences, FiniteSets

CONSTANTS
  Emitters,     \* an old one and a new one
  Types,        \* the sets of pages whose type a boot may fail to load
  MaxTimeouts, MaxTrouble    \* bounds

ASSUME MirrorConstants ==
  /\ {MaxTimeouts, MaxTrouble} \subseteq Nat
  /\ Types \subseteq SUBSET Pages /\ {} \in Types
  /\ Emitters # {}

VARIABLES
  head,        \* the length of the stream
  disk,        \* the files under the root
  saved,       \* the manifest file
  blind,       \* the pages whose type this process does not know
  current,     \* the emitter of the service's list
  phase,       \* how far each supervisor is
  stopped,     \* the supervisors that were told to stop
  held,        \* what each engine's handle has folded, 0 before it is open
  severed,     \* the engines whose tail is dead: closed, or refused by the host
  due,         \* the emitters with a kick that has not been served
  mem,         \* the manifest each projector has in memory
  queue,       \* the lock of the root: the first job is the one at work
  work,        \* how far that job is
  service,     \* a restart: "no", "stopping", or "starting"
  wanted,      \* a restart that was asked for, or deferred
  failing,     \* the emitters whose last rebuild failed: lastReconcileError
  probe,       \* the probe's bookkeeping
  misled,      \* the emitters whose memory the disk has left behind
  leaked,      \* a file was written that no manifest remembers
  timeouts, trouble

diskVars == <<disk, saved>>
tailVars == <<held, severed, due>>
lockVars == <<mem, queue, work, failing>>
serviceVars == <<current, service, wanted>>
historyVars == <<misled, leaked>>
boundVars == <<timeouts, trouble>>
vars == <<head, diskVars, blind, serviceVars, phase, stopped, tailVars, lockVars, probe, historyVars, boundVars>>

Inits == {"prepare", "load", "late"}          \* the attempt's init, the loop's, an abandoned loop's
Rebuilds == {"sync", "follow", "lateSync"}    \* the first sync, a kick's, an abandoned loop's first
Idle == [gone |-> {}, changed |-> FALSE]
Unprobed == [on |-> FALSE, healthy |-> "unknown", offset |-> "unknown", behind |-> FALSE,
             sinceRound |-> FALSE, sinceAnchor |-> FALSE]

Phases == {"free", "preparing", "opening", "loading", "syncing", "draining", "running", "retrying"}
Jobs == [by : Emitters, kind : Inits, version : {0}] \cup [by : Emitters, kind : Rebuilds, version : 1..MaxCommits]

TypeOK ==
  /\ head \in 1..MaxCommits
  /\ disk \in [Paths -> Contents \cup {Nothing}] /\ saved \in Manifests
  /\ blind \in Types /\ current \in Emitters
  /\ phase \in [Emitters -> Phases]
  /\ stopped \subseteq Emitters /\ failing \subseteq Emitters /\ severed \subseteq Emitters /\ due \subseteq Emitters
  /\ held \in [Emitters -> 0..head] /\ mem \in [Emitters -> Manifests]
  /\ queue \in Seq(Jobs) /\ work \in [gone : SUBSET Paths, changed : BOOLEAN]
  /\ service \in {"no", "stopping", "starting"} /\ wanted \in BOOLEAN
  /\ probe \in [on : BOOLEAN, healthy : {"unknown", "yes", "no"}, offset : {"unknown", "level", "moved"},
                 behind : BOOLEAN, sinceRound : BOOLEAN, sinceAnchor : BOOLEAN]
  /\ misled \subseteq Emitters /\ leaked \in BOOLEAN /\ timeouts \in 0..MaxTimeouts /\ trouble \in 0..MaxTrouble

Job(e, kind, v) == [by |-> e, kind |-> kind, version |-> v]
Queued(e, kinds) == \E i \in DOMAIN queue : queue[i].by = e /\ queue[i].kind \in kinds

\* The state of a process that has just started the emitters.
Boot ==
  /\ current = CHOOSE e \in Emitters : TRUE
  /\ phase = [e \in Emitters |-> IF e = current THEN "preparing" ELSE "free"]
  /\ queue = <<Job(current, "prepare", 0)>>
  /\ stopped = {} /\ severed = {} /\ due = {} /\ held = [e \in Emitters |-> 0]
  /\ mem = [e \in Emitters |-> Fresh] /\ work = Idle /\ failing = {}
  /\ service = "starting" /\ wanted = FALSE /\ probe = Unprobed
  /\ misled = {}

Init ==
  /\ head = 1 /\ disk = [x \in Paths |-> Nothing] /\ saved = Fresh /\ blind = {}
  /\ leaked = FALSE /\ timeouts = 0 /\ trouble = 0
  /\ Boot

Commit ==
  /\ head < MaxCommits /\ head' = head + 1
  /\ probe' = [probe EXCEPT !.offset = IF @ = "unknown" THEN @ ELSE "moved"]
  /\ UNCHANGED <<diskVars, blind, serviceVars, phase, stopped, tailVars, lockVars, historyVars, boundVars>>

Trouble == trouble < MaxTrouble /\ trouble' = trouble + 1 /\ UNCHANGED timeouts

\* The tail hands the engine a batch; a subscribed loop is kicked.
Deliver(e) ==
  /\ held[e] \in 1..(head - 1) /\ e \notin severed
  /\ held' = [held EXCEPT ![e] = head]
  /\ due' = IF phase[e] = "running" /\ e \notin stopped THEN due \cup {e} ELSE due
  /\ UNCHANGED <<head, diskVars, blind, serviceVars, phase, stopped, severed, lockVars, probe, historyVars, boundVars>>

TailDies ==
  /\ Trouble
  /\ current \notin severed /\ severed' = severed \cup {current}
  /\ UNCHANGED <<head, diskVars, blind, serviceVars, phase, stopped, held, due, lockVars, probe, historyVars>>
-----------------------------------------------------------------------------
(* The supervisor. *)

\* An attempt that ends without a running loop is repeated, unless the supervisor was stopped.
Retried(e) == IF e \in stopped THEN "free" ELSE "retrying"

\* The backoff's timer, or retryNow.
Attempt(e) ==
  /\ phase[e] = "retrying"
  /\ phase' = [phase EXCEPT ![e] = "preparing"]
  /\ queue' = Append(queue, Job(e, "prepare", 0))
  /\ UNCHANGED <<head, diskVars, blind, serviceVars, stopped, tailVars, mem, work, failing, probe, historyVars, boundVars>>

\* openWorkspace answers, with the handle the engine already has or with a new one, and the
\* loop's start asks for the lock.
OpenWorkspace(e) ==
  /\ phase[e] = "opening"
  /\ phase' = [phase EXCEPT ![e] = "loading"]
  /\ held' = IF held[e] = 0 THEN [held EXCEPT ![e] = head] ELSE held
  /\ queue' = Append(queue, Job(e, "load", 0))
  /\ UNCHANGED <<head, diskVars, blind, serviceVars, stopped, severed, due, mem, work, failing, probe, historyVars, boundVars>>

\* The attempt is given up, not what it has started: a loop that was loading goes on alone,
\* a reconcile under way is waited for.
TimedOut(e) ==
  /\ timeouts < MaxTimeouts /\ timeouts' = timeouts + 1
  /\ phase[e] \in {"opening", "loading", "syncing"}
  /\ phase' = [phase EXCEPT ![e] = IF @ = "syncing" THEN "draining" ELSE Retried(e)]
  /\ queue' = [i \in DOMAIN queue |->
                 IF queue[i].by = e /\ queue[i].kind = "load" THEN [queue[i] EXCEPT !.kind = "late"] ELSE queue[i]]
  /\ UNCHANGED <<head, diskVars, blind, serviceVars, stopped, tailVars, mem, work, failing, probe, historyVars, trouble>>
-----------------------------------------------------------------------------
(* The loop and the projector, under the lock of the root. *)

Front == queue[1]
AtFront(kinds) == queue # <<>> /\ Front.kind \in kinds

\* A reconcile of e succeeded: what the probe compares with its rounds.  Only the loop of
\* the supervisor counts, not one that was abandoned.
Noted(pr) == [pr EXCEPT !.sinceRound = pr.on, !.sinceAnchor = pr.behind]

\* The loop has its first sync behind it, and subscribes.
Subscribed(e) == IF e \in stopped THEN "free" ELSE "running"

\* init reads and verifies the manifest.  A loop goes on, without letting another in
\* between, to read the history and to queue its rebuild, unless it is current.
LoadManifest ==
  /\ AtFront(Inits)
  /\ LET e == Front.by
         m == Verified(saved, disk)
         behind == m.version < held[e]
     IN  /\ mem' = [mem EXCEPT ![e] = m]
         /\ misled' = misled \ {e} /\ failing' = failing \ {e}
         /\ leaked' = (leaked \/ \E x \in Paths : disk[x] # Nothing /\ m.files[x] = Nothing)
         /\ queue' = Tail(queue) \o
              (CASE Front.kind = "load" /\ behind -> <<Job(e, "sync", held[e])>>
                 [] Front.kind = "late" /\ behind -> <<Job(e, "lateSync", held[e])>>
                 [] OTHER -> <<>>)
         /\ phase' = [phase EXCEPT ![e] = CASE Front.kind = "prepare" /\ @ = "preparing" -> "opening"
                                            [] Front.kind = "load" /\ behind -> "syncing"
                                            [] Front.kind = "load" /\ ~behind -> Subscribed(e)
                                            [] OTHER -> @]
         /\ probe' = IF Front.kind = "load" /\ ~behind /\ e = current THEN Noted(probe) ELSE probe
  /\ UNCHANGED <<head, diskVars, blind, serviceVars, stopped, tailVars, work, boundVars>>

\* The next link of the loop's chain: it reads the history and queues a rebuild.
Reconcile(e) ==
  /\ phase[e] = "running" /\ e \in due /\ ~Queued(e, {"follow"})
  /\ due' = due \ {e}
  /\ IF mem[e].version >= held[e]
     THEN probe' = (IF e = current THEN Noted(probe) ELSE probe) /\ UNCHANGED queue
     ELSE queue' = Append(queue, Job(e, "follow", held[e])) /\ UNCHANGED probe
  /\ UNCHANGED <<head, diskVars, blind, serviceVars, phase, stopped, held, severed, mem, work, failing, historyVars, boundVars>>

\* The rebuild at the front ends, and the loop it belongs to goes on.
RebuildEnds(ok) ==
  LET e == Front.by
  IN  /\ queue' = Tail(queue) /\ work' = Idle
      /\ failing' = IF ok THEN failing \ {e} ELSE failing \cup {e}
      /\ phase' = [phase EXCEPT ![e] =
           CASE Front.kind = "sync" /\ @ = "syncing" -> IF ok THEN Subscribed(e) ELSE Retried(e)
             [] Front.kind = "sync" /\ @ = "draining" -> Retried(e)
             [] OTHER -> @]
      /\ probe' = IF ok /\ e = current /\ phase[e] \in {"syncing", "running"} /\ Front.kind # "lateSync"
                  THEN Noted(probe) ELSE probe

Others == Emitters \ {Front.by}

\* The map of the expected files is walked in one order, that of the pages.
First(S) == CHOOSE x \in S : TRUE

WriteFile ==
  /\ AtFront(Rebuilds)
  /\ LET e == Front.by
         v == Front.version
         p == First(Differing(mem[e], v, blind))
     IN  /\ Differing(mem[e], v, blind) # {}
         /\ disk' = [disk EXCEPT ![Tree[v][p].path] = File(v, p)]
         /\ mem' = [mem EXCEPT ![e].files[Tree[v][p].path] = File(v, p)]
  /\ misled' = misled \cup Others
  /\ work' = [work EXCEPT !.changed = TRUE]
  /\ UNCHANGED <<head, saved, blind, serviceVars, phase, stopped, tailVars, queue, failing, probe, leaked, boundVars>>

RemoveFile ==
  /\ AtFront(Rebuilds)
  /\ LET e == Front.by
         v == Front.version
         orphans == Orphans(mem[e], v, blind) \ work.gone
     IN  /\ Differing(mem[e], v, blind) = {} /\ orphans # {}
         /\ disk' = [disk EXCEPT ![First(orphans)] = Nothing]
         /\ work' = [work EXCEPT !.gone = @ \cup {First(orphans)}]
  /\ misled' = misled \cup Others
  /\ UNCHANGED <<head, saved, blind, serviceVars, phase, stopped, tailVars, mem, queue, failing, probe, leaked, boundVars>>

\* The manifest in memory is replaced when every file is; it is saved when more than its
\* version has changed.  A save that fails leaves the replaced one in memory.
Replace ==
  /\ AtFront(Rebuilds)
  /\ LET e == Front.by
         v == Front.version
         m == mem[e]
         n == Rebuilt(m, v, blind)
         saves == work.changed \/ n.files # m.files \/ n.pages # m.pages
     IN  /\ Differing(m, v, blind) = {} /\ Orphans(m, v, blind) \subseteq work.gone
         /\ mem' = [mem EXCEPT ![e] = n]
         /\ leaked' = (leaked \/ e \in misled)
         /\ \/ saved' = (IF saves THEN n ELSE saved) /\ RebuildEnds(TRUE) /\ UNCHANGED boundVars
            \/ saves /\ Trouble /\ RebuildEnds(FALSE) /\ UNCHANGED saved
  /\ UNCHANGED <<head, disk, blind, serviceVars, stopped, tailVars, misled>>

\* A write or a removal fails.  The files already removed stay in the manifest.
RebuildFails ==
  /\ Trouble
  /\ AtFront(Rebuilds)
  /\ LET e == Front.by
     IN  \/ Differing(mem[e], Front.version, blind) # {} /\ UNCHANGED misled
         \/ /\ Orphans(mem[e], Front.version, blind) \ work.gone # {}
            /\ misled' = IF work.gone # {} THEN misled \cup {e} ELSE misled
  /\ RebuildEnds(FALSE)
  /\ UNCHANGED <<head, diskVars, blind, serviceVars, stopped, tailVars, mem, leaked>>
-----------------------------------------------------------------------------
(* The probe.  A round asks the emitters for their state and then the host for the head of  *)
(* the stream; a reconcile that comes between the two counts for the next round.            *)

\* trackPace: the anchor of a lag is the round before the one that found the head moved, and
\* a reconcile since that round is taken for having followed it.
Pace ==
  LET followed == IF probe.behind THEN probe.sinceAnchor ELSE probe.sinceRound
      lag == phase[current] = "running" /\ (probe.behind \/ probe.offset = "moved") /\ ~followed
  IN  [probe EXCEPT !.offset = "level", !.behind = lag, !.sinceRound = FALSE, !.sinceAnchor = FALSE]

\* While the emitters are being stopped there is none to look at.
Paced == IF service = "stopping" THEN probe ELSE Pace

\* A lag that one round has found, and a later round finds again, is a wedge.
Wedged == Paced.behind /\ probe.behind

RestartDropped(asked) == wanted' = FALSE    \* mutant: a restart too soon after the last is not done

RestartAsked(asked) == wanted' = (wanted \/ (asked /\ service = "no"))

ProbeFinds ==
  /\ probe.on
  /\ probe' = [Paced EXCEPT !.healthy = "yes"]
  /\ RestartAsked(probe.healthy = "no" \/ Wedged)
  /\ UNCHANGED <<head, diskVars, blind, current, service, phase, stopped, tailVars, lockVars, historyVars, boundVars>>

ProbeFails ==
  /\ Trouble
  /\ probe.on
  /\ probe' = [probe EXCEPT !.healthy = "no", !.offset = "unknown", !.behind = FALSE,
                            !.sinceRound = FALSE, !.sinceAnchor = FALSE]
  /\ UNCHANGED <<head, diskVars, blind, serviceVars, phase, stopped, tailVars, lockVars, historyVars>>
-----------------------------------------------------------------------------
(* The service. *)

\* The emitters were started, with or without success.
Started ==
  /\ service = "starting" /\ phase[current] \in {"running", "retrying"}
  /\ service' = "no" /\ probe' = [probe EXCEPT !.on = TRUE]
  /\ UNCHANGED <<head, diskVars, blind, current, wanted, phase, stopped, tailVars, lockVars, historyVars, boundVars>>

\* stopEmitters: a pending retry is cancelled; an attempt under way goes on.
StopEmitters ==
  /\ wanted /\ service = "no"
  /\ wanted' = FALSE /\ service' = "stopping"
  /\ stopped' = stopped \cup {current}
  /\ phase' = [phase EXCEPT ![current] = IF @ = "retrying" THEN "free" ELSE @]
  /\ UNCHANGED <<head, diskVars, blind, current, tailVars, lockVars, probe, historyVars, boundVars>>

\* A loop that was running has served its kicks: the old engine is closed, and a new one
\* started with an emitter of its own.
StartEngine ==
  /\ service = "stopping"
  /\ phase[current] = "running" => current \notin due /\ ~Queued(current, {"follow"})
  /\ \E e \in Emitters \ {current} :
       /\ phase[e] = "free" /\ ~Queued(e, Inits \cup Rebuilds)
       /\ current' = e
       /\ phase' = [phase EXCEPT ![e] = "preparing", ![current] = IF @ = "running" THEN "free" ELSE @]
       /\ held' = [held EXCEPT ![e] = 0] /\ mem' = [mem EXCEPT ![e] = Fresh]
       /\ severed' = (severed \cup {current}) \ {e} /\ stopped' = stopped \ {e}
       /\ misled' = misled \ {e} /\ due' = due \ {e}
       /\ queue' = Append(queue, Job(e, "prepare", 0))
  /\ service' = "starting"
  /\ probe' = [probe EXCEPT !.offset = "unknown", !.behind = FALSE, !.sinceRound = FALSE, !.sinceAnchor = FALSE]
  /\ UNCHANGED <<head, diskVars, blind, wanted, work, failing, leaked, boundVars>>

\* The process stops at any point, and is started again.
Crash ==
  /\ Trouble
  /\ stopped' = {} /\ severed' = {} /\ due' = {} /\ held' = [e \in Emitters |-> 0]
  /\ mem' = [e \in Emitters |-> Fresh] /\ work' = Idle /\ failing' = {}
  /\ service' = "starting" /\ wanted' = FALSE /\ probe' = Unprobed
  /\ misled' = {} /\ blind' \in Types
  /\ phase' = [d \in Emitters |-> IF d = current THEN "preparing" ELSE "free"]
  /\ queue' = <<Job(current, "prepare", 0)>>
  /\ UNCHANGED <<head, diskVars, current, leaked>>

Next ==
  \/ Commit \/ TailDies \/ Crash
  \/ \E e \in Emitters : Deliver(e) \/ Attempt(e) \/ OpenWorkspace(e) \/ TimedOut(e) \/ Reconcile(e)
  \/ LoadManifest \/ WriteFile \/ RemoveFile \/ Replace \/ RebuildFails
  \/ ProbeFinds \/ ProbeFails
  \/ Started \/ StopEmitters \/ StartEngine

Spec == Init /\ [][Next]_vars

\* Timers fire, answers come, a job at the front goes on, a live tail delivers.
FairSpec ==
  /\ Spec
  /\ WF_vars(LoadManifest \/ WriteFile \/ RemoveFile \/ Replace)
  /\ \A e \in Emitters : WF_vars(Deliver(e)) /\ WF_vars(Attempt(e) \/ OpenWorkspace(e)) /\ WF_vars(Reconcile(e))
  /\ WF_vars(ProbeFinds)
  /\ WF_vars(Started \/ StopEmitters \/ StartEngine)
-----------------------------------------------------------------------------
Settled == queue = <<>> /\ phase[current] = "running" /\ current \notin stopped /\ current \notin misled \cup failing

Version == mem[current].version

\* The pages the manifest was last rebuilt without.
Hidden == mem[current].knew

\* When no rebuild is under way every page of the version the mirror reports is on the disk
\* with the body of that version, through restarts, timed out attempts, crashes and failures.
\* The exceptions are those of misled, and the pages the last rebuild could not see.
RestIsMirror ==
  Settled /\ Version > 0 =>
    \A p \in Placed(Version, Hidden) : disk[Tree[Version][p].path] = File(Version, p)

\* And nothing else is there: the file of a page that moved or was deleted is gone, unless
\* it was written and then forgotten, or the page is one the last rebuild could not see.
NoOrphans ==
  Settled /\ Version > 0 /\ ~leaked =>
    {x \in Paths : disk[x] # Nothing} \subseteq
      ExpectedPaths(Version, Hidden) \cup {mem[current].pages[p] : p \in Frozen(Version, Hidden)}

\* The pages no other page ever takes the place of.
Undisturbed ==
  {p \in Pages : \A v, w \in 1..MaxCommits :
     /\ p \in DOMAIN Tree[v]
     /\ \A q \in DOMAIN Tree[w] : Tree[v][p].path = Tree[w][q].path => p = q}

\* A page that a rebuild wrote and did not record, because it failed, and that the next one
\* can not place: the manifest does not know whose file that is, and it is not kept.
Unrecorded(p) ==
  /\ Front.by \in failing /\ p \in Frozen(Front.version, blind)
  /\ mem[Front.by].pages[p] = Nothing

\* A page of the workspace that has been mirrored stays on the disk, at its old place or at
\* its new one, at every moment of every rebuild, whether or not its type is known.
PageKept ==
  [][queue # <<>> /\ Front.by \notin misled =>
       \A p \in Undisturbed : OnDisk(disk, p) => OnDisk(disk', p) \/ Unrecorded(p)]_vars

Caught == phase[current] = "running" /\ Version = head

\* The probe has seen the head and believes that the loop has followed it.
Overlooked == phase[current] = "running" /\ probe.offset = "level" /\ ~probe.behind

\* The mirror ends at the head of the stream, or with a probe that believes it is there:
\* a lag that the probe notices is repaired by a restart, a start that fails is retried.
CatchesUp == <>[](Caught \/ Overlooked)

\* What server-probe.ts:13-15 promises.
EndsAtHead == <>[]Caught
=============================================================================
