----------------------------- MODULE WorkerHost -----------------------------
(***************************************************************************)
(* The shared worker behind every page of the web UI                         *)
(* (wiki-ui/lib/wiki-host.worker.ts), and the side of it that each page holds *)
(* (host-client.ts, live.tsx, auth-context.tsx): pages that connect, sleep    *)
(* and disappear, the reaper, the boot and the teardown of the engine over    *)
(* its single-writer search database, one host per workspace with its         *)
(* subscribers, and the token of the session.                                 *)
(*                                                                          *)
(* There is one workspace.  A page is one load of the app: a reload is        *)
(* another page.  The worker handles one message at a time, and what follows  *)
(* an await that is already settled belongs to the same step.                 *)
(***************************************************************************)
EXTENDS Naturals, Sequences

CONSTANTS
  Pages,        \* each is opened at most once
  NoHost,       \* the workspace has no host
  MaxBoots, MaxCommits, MaxSignIns, MaxTrouble    \* bounds

ASSUME WorkerHostConstants == {MaxBoots, MaxCommits, MaxSignIns, MaxTrouble} \subseteq Nat

VARIABLES
  gated,        \* the server asks for a token
  stored,       \* the token in the browser's storage, shared by the pages
  token,        \* the worker has it: currentToken
  provided,     \* the worker had one once: tokenProvided
  boots,        \* every boot of the engine
  bootP,        \* the one that is answered with, 0 for none
  host,         \* the host of the workspace
  ports,        \* the pages the worker knows to be connected
  phase,        \* of each page
  asleep,       \* hidden pages, whose timers the browser stopped
  resub,        \* pages that learned that they were reaped
  screen,       \* the last snapshot each page was given
  refused,      \* pages that were pushed a 401
  head, reachable,    \* the stream
  bare,         \* history: pages that came to a gated server without a token
  signIns, trouble

sessionVars == <<gated, stored, token, provided>>
engineVars == <<boots, bootP>>
pageVars == <<ports, phase, asleep, resub>>
viewVars == <<screen, refused>>
streamVars == <<head, reachable>>
boundVars == <<signIns, trouble>>
vars == <<sessionVars, engineVars, host, pageVars, viewVars, streamVars, bare, boundVars>>

Calls == Pages \X {"handshake", "subscribe"}
Boots == [headers : BOOLEAN, waiters : SUBSET Calls,
          phase : {"queued", "opening", "up", "failed", "closing", "closed"}]
States == {"connecting", "live", "lost", "unauthorized"}
Hosts == [boot : 1..MaxBoots, subs : SUBSET Pages, state : States, asked : BOOLEAN, probing : BOOLEAN,
          tail : {"none", "live", "dead"}, seen : 0..MaxCommits]

TypeOK ==
  /\ {gated, stored, token, provided, reachable} \subseteq BOOLEAN
  /\ boots \in Seq(Boots) /\ Len(boots) <= MaxBoots /\ bootP \in {0, Len(boots)}
  /\ host \in Hosts \cup {NoHost}
  /\ phase \in [Pages -> {"new", "connected", "booting", "ready", "subscribing", "watching",
                          "login", "failed", "broken", "gone"}]
  /\ {ports, asleep, resub, refused, bare} \subseteq SUBSET Pages
  /\ screen \in [Pages -> [state : States \cup {"none"}, seen : 0..MaxCommits]]
  /\ head \in 0..MaxCommits /\ signIns \in 0..MaxSignIns /\ trouble \in 0..MaxTrouble

Init ==
  /\ gated \in BOOLEAN /\ stored \in {FALSE, gated} /\ token = FALSE /\ provided = FALSE
  /\ boots = <<>> /\ bootP = 0 /\ host = NoHost
  /\ ports = {} /\ phase = [p \in Pages |-> "new"] /\ asleep = {} /\ resub = {}
  /\ screen = [p \in Pages |-> [state |-> "none", seen |-> 0]] /\ refused = {}
  /\ head = 0 /\ reachable = TRUE /\ bare = {} /\ signIns = 0 /\ trouble = 0

Trouble == trouble < MaxTrouble /\ trouble' = trouble + 1 /\ UNCHANGED signIns
-----------------------------------------------------------------------------
(* Boot and teardown. *)

\* A boot whose teardown has nothing left to do.
Over(b) == b.phase \in {"closed", "failed"}

NewBootAtOnce == [headers |-> provided, waiters |-> {}, phase |-> "opening"]    \* mutant: does not await teardownP

\* boot(): it waits for the teardown of the one before.
NewBoot ==
  [headers |-> provided, waiters |-> {},
   phase |-> IF boots = <<>> \/ Over(boots[Len(boots)]) THEN "opening" ELSE "queued"]

\* Boot g is over, and the one that waited for it opens the database.
Followed(bs, g) ==
  IF Over(bs[g]) /\ g < Len(bs) THEN [bs EXCEPT ![g + 1].phase = "opening"] ELSE bs

\* shutdownIdle: a boot that is still under way is torn down once it is settled.
ShutDown ==
  /\ host' = NoHost /\ bootP' = 0
  /\ boots' = IF bootP # 0 /\ boots[bootP].phase = "up"
              THEN [boots EXCEPT ![bootP].phase = "closing"] ELSE boots

\* What a request through the engine of boot g is answered with.
Accepts(g) == ~gated \/ (boots[g].headers /\ token)

NewHost(g, subs) ==
  [boot |-> g, subs |-> subs, state |-> "connecting", asked |-> Accepts(g), probing |-> FALSE,
   tail |-> "none", seen |-> 0]

\* Pages are given a snapshot.  A change to a 401 signs a page out, the first snapshot
\* it gets does not.
Show(to, h) ==
  /\ screen' = [p \in Pages |-> IF p \in to THEN [state |-> h.state, seen |-> h.seen] ELSE screen[p]]
  /\ refused' = refused \cup
       {p \in to : h.state = "unauthorized" /\ screen[p].state \notin {"none", "unauthorized"}}

\* The calls that waited for boot g go on: ensureHost finds the host of the workspace,
\* or makes one with the engine of g.
Serve(g, calls) ==
  LET greeted == {p \in Pages : <<p, "handshake">> \in calls}
      subscribed == {p \in Pages : <<p, "subscribe">> \in calls}
      h == IF host = NoHost THEN NewHost(g, subscribed) ELSE [host EXCEPT !.subs = @ \cup subscribed]
  IN  /\ phase' = [p \in Pages |-> CASE p \in greeted /\ phase[p] = "booting" -> "ready"
                                     [] p \in subscribed /\ phase[p] = "subscribing" -> "watching"
                                     [] OTHER -> phase[p]]
      /\ IF subscribed = {} THEN UNCHANGED <<host, viewVars>> ELSE host' = h /\ Show(subscribed, h)
      /\ resub' = resub \ subscribed

\* They reject: a page that is not greeted has no connection, a session that is not
\* subscribed is not tried again, and a heartbeat is.
Reject(calls) ==
  /\ phase' = [p \in Pages |-> CASE <<p, "handshake">> \in calls /\ phase[p] = "booting" -> "failed"
                                 [] <<p, "subscribe">> \in calls /\ phase[p] = "subscribing" -> "broken"
                                 [] OTHER -> phase[p]]
  /\ UNCHANGED <<host, viewVars, resub>>

SettledUp(g, ok) == IF ok THEN "up" ELSE "failed"    \* mutant: the teardown forgets a boot under way

\* A boot that was torn down while it was under way is closed now.
Settled(g, ok) == IF ~ok THEN "failed" ELSE IF g = bootP THEN "up" ELSE "closing"

\* openSearchDb and createWiki have ended.  Nothing comes between the calls that waited
\* and the teardown that waited behind them.
BootSettles(g, ok) ==
  /\ boots[g].phase = "opening"
  /\ boots' = Followed([boots EXCEPT ![g].phase = Settled(g, ok), ![g].waiters = {}], g)
  /\ IF ok THEN Serve(g, boots[g].waiters) /\ UNCHANGED boundVars
           ELSE Reject(boots[g].waiters) /\ Trouble
  /\ UNCHANGED <<sessionVars, bootP, ports, asleep, streamVars, bare>>

\* The teardown has released the database.
Closes(g) ==
  /\ boots[g].phase = "closing"
  /\ boots' = Followed([boots EXCEPT ![g].phase = "closed"], g)
  /\ UNCHANGED <<sessionVars, bootP, host, pageVars, viewVars, streamVars, bare, boundVars>>
-----------------------------------------------------------------------------
(* The calls of a page. *)

\* A call that awaits boot().  waiting is the phase of the page meanwhile.
Call(p, kind, waiting) ==
  LET g == IF bootP = 0 THEN Len(boots) + 1 ELSE bootP
      bs == IF bootP = 0 THEN Append(boots, NewBoot) ELSE boots
  IN  /\ g <= MaxBoots
      /\ bootP' = g
      /\ \/ bs[g].phase = "up" /\ boots' = bs /\ Serve(g, {<<p, kind>>})
         \/ bs[g].phase = "failed" /\ boots' = bs /\ Reject({<<p, kind>>})
         \/ /\ bs[g].phase \in {"queued", "opening"}
            /\ boots' = [bs EXCEPT ![g].waiters = @ \cup {<<p, kind>>}]
            /\ phase' = [phase EXCEPT ![p] = waiting]
            /\ UNCHANGED <<host, viewVars, resub>>
  /\ UNCHANGED <<sessionVars, ports, asleep, streamVars, bare, boundVars>>

Handshake(p) == phase[p] = "connected" /\ Call(p, "handshake", "booting")

\* A page that comes back pings before it does anything else.
Subscribe(p) == phase[p] = "ready" /\ p \in ports \ asleep /\ Call(p, "subscribe", "subscribing")

\* Its heartbeat starts with the greeting, and stops with the page or its timers.
Pinging(p) ==
  /\ phase[p] \in {"ready", "subscribing", "watching", "login", "broken"} /\ p \notin asleep

\* mutant: a page that is let in again is not told
PingUnnoticed(p) ==
  /\ Pinging(p) /\ p \notin ports /\ ports' = ports \cup {p}
  /\ UNCHANGED <<sessionVars, engineVars, host, phase, asleep, resub, viewVars, streamVars, bare, boundVars>>

\* A heartbeat of a reaped page: it is let in again, and has its subscription to renew.
Ping(p) ==
  /\ Pinging(p) /\ p \notin ports
  /\ ports' = ports \cup {p}
  /\ resub' = IF phase[p] \in {"watching", "login"} THEN resub \cup {p} ELSE resub
  /\ UNCHANGED <<sessionVars, engineVars, host, phase, asleep, viewVars, streamVars, bare, boundVars>>

\* Through a failed boot it is tried at every heartbeat, to no effect.
Resubscribe(p) ==
  /\ Pinging(p) /\ p \in resub /\ (bootP # 0 => boots[bootP].phase # "failed")
  /\ ~\E g \in DOMAIN boots : <<p, "subscribe">> \in boots[g].waiters
  /\ Call(p, "subscribe", phase[p])

\* setAuthToken(token): an engine without the header is torn down, a host that got a 401
\* is dropped.
SetAuthToken ==
  /\ token' = TRUE /\ provided' = TRUE
  /\ IF bootP # 0 /\ ~boots[bootP].headers THEN ShutDown
     ELSE /\ host' = IF host # NoHost /\ host.state = "unauthorized" THEN NoHost ELSE host
          /\ UNCHANGED engineVars

\* A page connects and hands over the stored token.  It comes to a gated server without one
\* only if it could not learn that the server is gated.
Connect(p) ==
  /\ phase[p] = "new"
  /\ phase' = [phase EXCEPT ![p] = "connected"] /\ ports' = ports \cup {p}
  /\ IF stored THEN SetAuthToken ELSE UNCHANGED <<token, provided, engineVars, host>>
  /\ IF gated /\ ~stored THEN Trouble /\ bare' = bare \cup {p} ELSE UNCHANGED <<boundVars, bare>>
  /\ UNCHANGED <<gated, stored, asleep, resub, viewVars, streamVars>>

CloseTab(p) ==
  /\ phase[p] \notin {"new", "gone"}
  /\ phase' = [phase EXCEPT ![p] = "gone"] /\ asleep' = asleep \ {p}
  /\ UNCHANGED <<sessionVars, engineVars, host, ports, resub, viewVars, streamVars, bare, boundVars>>

Sleep(p) ==
  /\ Pinging(p) /\ Trouble /\ asleep' = asleep \cup {p}
  /\ UNCHANGED <<sessionVars, engineVars, host, ports, phase, resub, viewVars, streamVars, bare>>

Wake(p) ==
  /\ p \in asleep /\ asleep' = asleep \ {p}
  /\ UNCHANGED <<sessionVars, engineVars, host, ports, phase, resub, viewVars, streamVars, bare, boundVars>>

\* dropPort.  A page is silent for longer than a boot or a teardown takes.
Reap(p) ==
  /\ p \in ports /\ ~Pinging(p) /\ phase[p] \notin {"connected", "booting"}
  /\ \A g \in DOMAIN boots : \A kind \in {"handshake", "subscribe"} : <<p, kind>> \notin boots[g].waiters
  /\ ports = {p} => \A g \in DOMAIN boots : boots[g].phase \notin {"queued", "opening", "closing"}
  /\ ports' = ports \ {p}
  /\ IF ports = {p} THEN ShutDown
     ELSE /\ host' = IF host = NoHost THEN host ELSE [host EXCEPT !.subs = @ \ {p}]
          /\ UNCHANGED engineVars
  /\ UNCHANGED <<sessionVars, phase, asleep, resub, viewVars, streamVars, bare, boundVars>>
-----------------------------------------------------------------------------
(* The session. *)

\* A page that came back from the sign-in has stored the token.
SignIn ==
  /\ gated /\ ~stored /\ signIns < MaxSignIns
  /\ stored' = TRUE /\ signIns' = signIns + 1
  /\ UNCHANGED <<gated, token, provided, engineVars, host, pageVars, viewVars, streamVars, bare, trouble>>

ClearToken == stored' = FALSE /\ token' = FALSE /\ UNCHANGED <<gated, provided>>

\* It leaves for the login page.
SignOut(p) ==
  /\ stored /\ phase[p] \in {"ready", "watching"} /\ p \notin asleep
  /\ ClearToken /\ phase' = [phase EXCEPT ![p] = "gone"]
  /\ UNCHANGED <<engineVars, host, ports, asleep, resub, viewVars, streamVars, bare, boundVars>>

\* onUnauthorized: any page that is pushed a 401 clears the token of all.
SignedOut(p) ==
  /\ p \in refused /\ phase[p] \in {"watching", "login"} /\ p \notin asleep
  /\ refused' = refused \ {p} /\ ClearToken /\ phase' = [phase EXCEPT ![p] = "login"]
  /\ UNCHANGED <<engineVars, host, ports, asleep, resub, screen, streamVars, bare, boundVars>>
-----------------------------------------------------------------------------
(* The host of the workspace, and the stream. *)

restVars == <<sessionVars, engineVars, pageVars, streamVars, bare, boundVars>>

\* resume: the first time it opens the workspace and begins the tail.
Live(h) ==
  [h EXCEPT !.state = "live", !.probing = TRUE,
            !.tail = IF @ = "none" THEN "live" ELSE @,
            !.seen = IF h.tail = "none" THEN head ELSE @]

Becomes(h) == host' = h /\ Show(host.subs, h) /\ UNCHANGED restVars

\* start: the workspace is opened by several requests, the first as the host is made.
\* A 401 is final, a lost connection is probed.
HostOpens ==
  /\ host # NoHost /\ host.state = "connecting"
  /\ \/ ~reachable /\ Becomes([host EXCEPT !.state = "lost", !.probing = TRUE])
     \/ reachable /\ host.asked /\ Becomes(Live(host))
     \/ reachable /\ ~(host.asked /\ Accepts(host.boot))
                  /\ Becomes([host EXCEPT !.state = "unauthorized"])

ProbeFails ==
  /\ host # NoHost /\ host.probing /\ ~reachable /\ host.state # "lost"
  /\ Becomes([host EXCEPT !.state = "lost"])

\* The tree of an open workspace is read in memory.
ProbeRecovers ==
  /\ host # NoHost /\ host.probing /\ reachable /\ host.state \in {"lost", "unauthorized"}
  /\ Becomes(IF host.tail # "none" \/ Accepts(host.boot) THEN Live(host)
             ELSE [host EXCEPT !.state = "unauthorized"])

Tailing == host # NoHost /\ host.tail = "live" /\ reachable

\* onEvent
Deliver ==
  /\ Tailing /\ Accepts(host.boot) /\ host.seen < head
  /\ Becomes([host EXCEPT !.state = "live", !.seen = head])

\* The stream client gives up on a 401, and tells nobody.
TailRefused ==
  /\ Tailing /\ ~Accepts(host.boot)
  /\ host' = [host EXCEPT !.tail = "dead"] /\ UNCHANGED <<restVars, viewVars>>

Stream ==
  /\ \/ head < MaxCommits /\ head' = head + 1 /\ UNCHANGED <<reachable, boundVars>>
     \/ reachable /\ reachable' = FALSE /\ UNCHANGED head /\ Trouble
     \/ ~reachable /\ reachable' = TRUE /\ UNCHANGED <<head, boundVars>>
  /\ UNCHANGED <<sessionVars, engineVars, host, pageVars, viewVars, bare>>

Next ==
  \/ \E g \in DOMAIN boots : (\E ok \in BOOLEAN : BootSettles(g, ok)) \/ Closes(g)
  \/ \E p \in Pages : \/ Connect(p) \/ Handshake(p) \/ Subscribe(p) \/ Ping(p) \/ Resubscribe(p)
                      \/ CloseTab(p) \/ Sleep(p) \/ Wake(p) \/ Reap(p) \/ SignOut(p) \/ SignedOut(p)
  \/ SignIn \/ HostOpens \/ ProbeFails \/ ProbeRecovers \/ Deliver \/ TailRefused \/ Stream

\* Promises settle, timers of pages that are awake and of the worker fire, and the
\* stream answers again.  Nobody has to open, close or wake a page.
Fairness ==
  /\ WF_vars(\E g \in DOMAIN boots : BootSettles(g, TRUE) \/ Closes(g))
  /\ \A p \in Pages : /\ WF_vars(Handshake(p)) /\ WF_vars(Ping(p)) /\ WF_vars(Resubscribe(p))
                      /\ WF_vars(Reap(p)) /\ WF_vars(SignedOut(p))
  /\ WF_vars(HostOpens \/ ProbeRecovers) /\ WF_vars(Deliver) /\ WF_vars(~reachable /\ Stream /\ reachable')

Spec == Init /\ [][Next]_vars /\ Fairness
-----------------------------------------------------------------------------
(* Properties. *)

\* The search database is written by one engine at a time: pages may vanish and come while
\* boots are under way, a token may tear down an engine that is still booting, and the
\* next one opens the database only when the one before has released it.
OpensDb(g) == boots[g].phase \in {"opening", "up", "closing"}
OneWriter == \A g, h \in DOMAIN boots : OpensDb(g) /\ OpensDb(h) => g = h

\* A page that stays on the workspace, awake, is in the end shown the head of the stream,
\* though its timers were stopped, the reaper dropped it and the engine was closed
\* meanwhile.  The session keeps its token, the boots succeed, and their bound is not
\* reached.
Authorized == bare = {} /\ (provided => token)
Bootable == IF bootP = 0 THEN Len(boots) < MaxBoots ELSE boots[bootP].phase # "failed"
Watching(p) == phase[p] = "watching" /\ p \notin asleep
Watched ==
  \A p \in Pages :
    []Authorized /\ <>[](Bootable /\ Watching(p))
      => <>[](screen[p] = [state |-> "live", seen |-> head])

\* When every page is closed, the worker in the end closes the engine and the database, and
\* has no host left, whatever the pages were doing when they vanished.
Closed == \A p \in Pages : phase[p] \in {"new", "gone"}
StopsWhenIdle ==
  <>[]Closed => <>[](bootP = 0 /\ host = NoHost /\ \A g \in DOMAIN boots : Over(boots[g]))

\* What live.tsx and setAuthToken promise of a sign-in: a page that came with a token is not
\* pushed a 401 while the worker has one (the page would clear it, and be signed out).
SignInHolds ==
  [][\A p \in Pages \ bare : p \in refused' /\ token' => p \in refused]_vars
=============================================================================
