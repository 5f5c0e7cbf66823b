-------------------------- MODULE CommandBus_proofs --------------------------
(***************************************************************************)
(* The bus keeps its types whatever page types its processes run.  When no *)
(* process can fold one event of a commit and not another, BusInvariant is *)
(* inductive; from it follow that the stream is contiguous, that every     *)
(* projection is exactly a prefix of it, and that every commit was decided *)
(* on all that precedes it.  CallsInvariant adds what the answers of the    *)
(* calls say of the stream, and both together give the refinement of        *)
(* SerialWorkspace.                                                         *)
(***************************************************************************)
EXTENDS CommandBusInvariant, SequenceTheorems, FiniteSetTheorems, WellFoundedInduction, TLAPS

-----------------------------------------------------------------------------
(* Types.                                                                   *)

\* A nonempty set of naturals has a least element.
LEMMA MinOfNaturals ==
  ASSUME NEW S \in SUBSET Nat, S # {}
  PROVE  Min(S) \in S /\ \A y \in S : Min(S) <= y
<1> DEFINE R == {ss \in Nat \X Nat : ss[1] < ss[2]}
<1>1. IsWellFoundedOn(R, Nat)
  BY NatLessThanWellFounded DEF OpToRel
<1>2. PICK x \in S : \A y \in S : ~ (<<y, x>> \in R)
  <2> HIDE DEF R
  <2> QED BY <1>1, WFMin
<1>3. \A y \in S : x <= y
  <2> SUFFICES ASSUME NEW y \in S, ~ (x <= y) PROVE FALSE
    OBVIOUS
  <2>1. x \in Nat /\ y \in Nat /\ y < x
    OBVIOUS
  <2>2. <<y, x>> \in R
    BY <2>1
  <2> QED BY <1>2, <2>2
<1> QED BY <1>3 DEF Min

\* A command's envelopes are a sequence of as many events as its decision has,
\* numbered from the expected head on, of which only the first opens the commit.
LEMMA EnvelopesType ==
  ASSUME NEW c \in Commands, NEW n \in Nat
  PROVE  /\ Size[c] \in Nat \ {0}
         /\ Envelopes(c, n) \in Seq(Event)
         /\ Len(Envelopes(c, n)) = Size[c]
         /\ \A i \in 1..Size[c] :
              /\ Envelopes(c, n)[i].version = n + i - 1
              /\ Envelopes(c, n)[i].cmd = c
              /\ (Envelopes(c, n)[i].first <=> i = 1)
<1>1. Size[c] \in Nat \ {0}
  BY CommandAttributes
<1>2. \A i \in 1..Size[c] : [version |-> n + i - 1, cmd |-> c, first |-> i = 1] \in Event
  BY <1>1 DEF Event
<1>3. Envelopes(c, n) \in [1..Size[c] -> Event]
  BY <1>2 DEF Envelopes
<1>4. Envelopes(c, n) \in Seq(Event)
  BY <1>1, <1>3, SeqDef
<1>5. Len(Envelopes(c, n)) = Size[c]
  BY <1>1, <1>3, <1>4, LenProperties
<1>6. ASSUME NEW i \in 1..Size[c]
      PROVE  /\ Envelopes(c, n)[i].version = n + i - 1
             /\ Envelopes(c, n)[i].cmd = c
             /\ (Envelopes(c, n)[i].first <=> i = 1)
  BY DEF Envelopes
<1> QED BY <1>1, <1>4, <1>5, <1>6

\* Reads, skips and cuts of a stream of events are streams of events.
LEMMA BetweenType ==
  ASSUME TypeOK, NEW from \in Nat, NEW to \in Nat, to <= Len(log)
  PROVE  Between(from, to) \in Seq(Event)
<1>1. \A i \in (from + 1)..to : log[i] \in Event
  BY ElementOfSeq DEF TypeOK
<1> QED BY <1>1, SubSeqProperties DEF Between

LEMMA FreshType ==
  ASSUME NEW batch \in Seq(Event), NEW v \in Nat
  PROVE  Fresh(batch, v) \in Seq(Event)
<1> DEFINE ahead == {i \in DOMAIN batch : batch[i].version >= v}
<1>1. CASE ahead = {}
  BY <1>1, EmptySeq DEF Fresh
<1>2. CASE ahead # {}
  <2>1. DOMAIN batch = 1..Len(batch) /\ Len(batch) \in Nat
    BY LenProperties
  <2>2. ahead \in SUBSET Nat
    BY <2>1
  <2>3. Min(ahead) \in ahead
    <3> HIDE DEF ahead
    <3> QED BY <1>2, <2>2, MinOfNaturals
  <2>4. Min(ahead) \in 1..Len(batch)
    BY <2>1, <2>3
  <2>5. \A i \in Min(ahead)..Len(batch) : batch[i] \in Event
    BY <2>1, <2>4, ElementOfSeq
  <2>6. SubSeq(batch, Min(ahead), Len(batch)) \in Seq(Event)
    <3> HIDE DEF ahead
    <3> QED BY <2>1, <2>4, <2>5, SubSeqProperties
  <2> QED BY <1>2, <2>6 DEF Fresh
<1> QED BY <1>1, <1>2

LEMMA FoldableType ==
  ASSUME NEW p \in Processes, NEW batch \in Seq(Event)
  PROVE  Foldable(p, batch) \in Seq(Event)
<1> DEFINE stops == Unfoldable(p, batch)
<1>1. CASE stops = {}
  BY <1>1 DEF Foldable
<1>2. CASE stops # {}
  <2>1. DOMAIN batch = 1..Len(batch) /\ Len(batch) \in Nat
    BY LenProperties
  <2>2. stops \subseteq 1..Len(batch) /\ stops \in SUBSET Nat
    BY <2>1 DEF Unfoldable
  <2>3. Min(stops) \in stops
    <3> HIDE DEF stops
    <3> QED BY <1>2, <2>2, MinOfNaturals
  <2> Min(stops) \in 1..Len(batch)
    BY <2>2, <2>3
  <2>4. \A i \in 1..(Min(stops) - 1) : batch[i] \in Event
    BY <2>1, <2>3, ElementOfSeq
  <2>5. SubSeq(batch, 1, Min(stops) - 1) \in Seq(Event)
    <3> HIDE DEF stops
    <3> QED BY <2>1, <2>3, <2>4, SubSeqProperties
  <2> QED BY <1>2, <2>5 DEF Foldable
<1> QED BY <1>1, <1>2

\* A return gives the process its idle state back and the call its answer.
LEMMA ReturnType ==
  ASSUME TypeOK, \A q \in Processes : Busy(q),
         NEW p \in Processes, NEW c \in Commands,
         NEW a \in {"ok", "rejected", "conflict", "unknown"}, NEW v \in Nat,
         Return(p, c, a, v)
  PROVE  /\ pc' \in [Processes -> {"down", "idle", "appending", "acked", "stale", "absorbed"}]
         /\ running' \in [Processes -> Commands \cup {NoCommand}]
         /\ attempts' \in [Processes -> Nat]
         /\ tail' \in [Processes -> Nat \cup {NoTail}]
         /\ answer' \in [Commands -> {"none", "pending", "ok", "rejected", "conflict", "unknown"}]
         /\ token' \in [Commands -> Nat]
         /\ \A q \in Processes : Busy(q)'
<1> USE DEF TypeOK, Busy
<1>1. pc' = [pc EXCEPT ![p] = "idle"] \/ pc' = [pc EXCEPT ![p] = "down"]
  BY DEF Return
<1>2. running' = [running EXCEPT ![p] = NoCommand]
  BY DEF Return
<1>3. tail' = tail \/ tail' = [tail EXCEPT ![p] = cursor[p]]
  BY DEF Return
<1>4. /\ attempts' = [attempts EXCEPT ![p] = 0]
      /\ answer' = [answer EXCEPT ![c] = a]
      /\ token' = [token EXCEPT ![c] = v]
  BY DEF Return
<1>5. \A q \in Processes : Busy(q)'
  BY <1>1, <1>2
<1>6. pc' \in [Processes -> {"down", "idle", "appending", "acked", "stale", "absorbed"}]
  BY <1>1
<1>7. tail' \in [Processes -> Nat \cup {NoTail}]
  BY <1>3
<1>8. /\ running' \in [Processes -> Commands \cup {NoCommand}]
      /\ attempts' \in [Processes -> Nat]
  BY <1>2, <1>4
<1>9. /\ answer' \in [Commands -> {"none", "pending", "ok", "rejected", "conflict", "unknown"}]
      /\ token' \in [Commands -> Nat]
  BY <1>4
<1> QED BY <1>5, <1>6, <1>7, <1>8, <1>9

\* A turn of the loop keeps the variables it assigns in their types, and only
\* leaves a process inside a commit with a command to run.
LEMMA TurnType ==
  ASSUME TypeOK, \A q \in Processes : Busy(q),
         NEW p \in Processes, NEW c \in Commands, NEW n \in Nat, NEW head \in Nat,
         NEW history, Turn(p, c, n, head, history)
  PROVE  /\ inflight' \subseteq [proc : Processes, cmd : Commands, seq : Nat]
         /\ pc' \in [Processes -> {"down", "idle", "appending", "acked", "stale", "absorbed"}]
         /\ running' \in [Processes -> Commands \cup {NoCommand}]
         /\ attempts' \in [Processes -> Nat]
         /\ tail' \in [Processes -> Nat \cup {NoTail}]
         /\ applied' \in [Processes -> Nat]
         /\ answer' \in [Commands -> {"none", "pending", "ok", "rejected", "conflict", "unknown"}]
         /\ token' \in [Commands -> Nat]
         /\ \A q \in Processes : Busy(q)'
<1> USE DEF TypeOK, Busy
<1>2. CASE Return(p, c, "conflict", 0) /\ UNCHANGED <<inflight, applied>>
  BY <1>2, ReturnType
<1>3. CASE Return(p, c, "ok", head) /\ Notify(p, head) /\ UNCHANGED inflight
  BY <1>3, ReturnType DEF Notify
<1>4. CASE Return(p, c, "rejected", 0) /\ UNCHANGED <<inflight, applied>>
  BY <1>4, ReturnType
<1>5. CASE /\ inflight' = inflight \cup {[proc |-> p, cmd |-> c, seq |-> head]}
           /\ pc' = [pc EXCEPT ![p] = "appending"]
           /\ running' = [running EXCEPT ![p] = c]
           /\ attempts' = [attempts EXCEPT ![p] = n]
           /\ answer' = [answer EXCEPT ![c] = "pending"]
           /\ UNCHANGED <<token, tail, applied>>
  <2>1. c # NoCommand
    BY BusConstants
  <2>2. \A q \in Processes : Busy(q)'
    BY <1>5, <2>1
  <2>3. inflight' \subseteq [proc : Processes, cmd : Commands, seq : Nat]
    BY <1>5
  <2>4. /\ pc' \in [Processes -> {"down", "idle", "appending", "acked", "stale", "absorbed"}]
        /\ running' \in [Processes -> Commands \cup {NoCommand}]
    BY <1>5
  <2>5. /\ attempts' \in [Processes -> Nat]
        /\ answer' \in [Commands -> {"none", "pending", "ok", "rejected", "conflict", "unknown"}]
    BY <1>5
  <2>6. UNCHANGED <<token, tail, applied>>
    BY <1>5
  <2> QED BY <2>2, <2>3, <2>4, <2>5, <2>6
<1> QED BY <1>2, <1>3, <1>4, <1>5 DEF Turn

\* Folding a sequence of events into a projection keeps its three parts typed.
LEMMA FoldIntoType ==
  ASSUME TypeOK, NEW p \in Processes, NEW batch \in Seq(Event), FoldInto(p, batch)
  PROVE  /\ events' \in [Processes -> Seq(Event)]
         /\ version' \in [Processes -> Nat]
         /\ heard' \in [Processes -> Seq(Event)]
<1>1. events[p] \o batch \in Seq(Event) /\ heard[p] \o batch \in Seq(Event)
  BY ConcatProperties DEF TypeOK
<1>2. batch # << >> => batch[Len(batch)].version + 1 \in Nat
  <2> SUFFICES ASSUME batch # << >> PROVE batch[Len(batch)].version + 1 \in Nat
    OBVIOUS
  <2>1. Len(batch) \in 1..Len(batch)
    BY EmptySeq
  <2>2. batch[Len(batch)] \in Event
    BY <2>1, ElementOfSeq
  <2> QED BY <2>2 DEF Event
<1>3. version[p] \in Nat
  BY DEF TypeOK
<1> QED BY <1>1, <1>2, <1>3 DEF FoldInto, TypeOK

\* What the next-state relation keeps: every variable typed, and every process
\* inside a commit running a command.
TypeInv == TypeOK /\ \A p \in Processes : Busy(p)

LEMMA TypeInit == Init => TypeInv
<1> SUFFICES ASSUME Init PROVE TypeInv
  OBVIOUS
<1>1. << >> \in Seq(Event)
  BY EmptySeq
<1> QED BY <1>1 DEF Init, LogInit, TypeInv, TypeOK, Busy, NoTail, NoSnapshot

LEMMA TypeBegin ==
  ASSUME TypeInv, NEW p \in Processes, NEW c \in Commands, Begin(p, c)
  PROVE  TypeInv'
<1>1. version[p] \in Nat /\ 0 \in Nat
  BY DEF TypeInv, TypeOK
<1>2. Turn(p, c, 0, version[p], events[p])
  BY DEF Begin
<1>3. UNCHANGED <<logVars, projVars, snapshot>> /\ since' \in [Commands -> Nat]
  BY <1>1 DEF Begin, TypeInv, TypeOK
<1> QED BY <1>1, <1>2, <1>3, TurnType DEF TypeInv, TypeOK, logVars, projVars

LEMMA TypeCreate ==
  ASSUME TypeInv, NEW p \in Processes, NEW c \in Commands, Create(p, c)
  PROVE  TypeInv'
<1>1. Turn(p, c, 0, 0, << >>)
  BY DEF Create
<1>2. << >> \in Seq(Event)
  BY EmptySeq
<1>3. /\ version' \in [Processes -> Nat]
      /\ cursor' \in [Processes -> Nat]
      /\ events' \in [Processes -> Seq(Event)]
      /\ heard' \in [Processes -> Seq(Event)]
      /\ unsnapped' \in [Processes -> Nat]
      /\ since' \in [Commands -> Nat]
      /\ UNCHANGED <<logVars, snapshot>>
  BY <1>2 DEF Create, TypeInv, TypeOK
<1> QED BY <1>1, <1>3, TurnType DEF TypeInv, TypeOK, logVars

\* A stored commit keeps the stream typed.
LEMMA StoreType ==
  ASSUME TypeOK, NEW c \in Commands, NEW seq \in Nat, Store(c, seq)
  PROVE  log' \in Seq(Event) /\ lastSeq' \in Nat
BY EnvelopesType, ConcatProperties DEF Store, TypeOK

LEMMA TypeServe ==
  ASSUME TypeInv, NEW m \in inflight, ServeAnswered(m) \/ ServeUnanswered(m)
  PROVE  TypeInv'
<1> USE DEF TypeInv, TypeOK
<1>1. m.proc \in Processes /\ m.cmd \in Commands /\ m.seq \in Nat
  OBVIOUS
<1>2. log' \in Seq(Event) /\ lastSeq' \in Nat \cup {-1}
  <2>1. CASE Store(m.cmd, m.seq)
    BY <1>1, <2>1, StoreType
  <2>2. CASE UNCHANGED logVars
    BY <2>2 DEF logVars
  <2> QED BY <2>1, <2>2 DEF ServeAnswered, ServeUnanswered
<1>3. inflight' \subseteq inflight
  BY DEF ServeAnswered, ServeUnanswered
<1>4. \/ UNCHANGED pc
      \/ /\ Waiting(m)
         /\ \E s \in {"acked", "stale"} : pc' = [pc EXCEPT ![m.proc] = s]
  BY DEF ServeAnswered, ServeUnanswered
<1>5. UNCHANGED <<callVars, projVars, tail, applied, snapshot>>
  BY DEF ServeAnswered, ServeUnanswered
<1>6. /\ pc' \in [Processes -> {"down", "idle", "appending", "acked", "stale", "absorbed"}]
      /\ \A q \in Processes : Busy(q)'
  <2>1. CASE UNCHANGED pc
    BY <1>5, <2>1 DEF Busy, callVars
  <2>2. ASSUME NEW s \in {"acked", "stale"}, pc' = [pc EXCEPT ![m.proc] = s], Waiting(m)
        PROVE  /\ pc' \in [Processes -> {"down", "idle", "appending", "acked", "stale", "absorbed"}]
               /\ \A q \in Processes : Busy(q)'
    <3>1. pc[m.proc] = "appending"
      BY <2>2 DEF Waiting
    <3>2. running' = running
      BY <1>5 DEF callVars
    <3>3. \A q \in Processes : Busy(q)'
      BY <1>1, <2>2, <3>1, <3>2 DEF Busy
    <3> QED BY <1>1, <2>2, <3>3
  <2> QED BY <1>4, <2>1, <2>2
<1> QED BY <1>2, <1>3, <1>5, <1>6 DEF callVars, projVars

LEMMA TypeFail ==
  ASSUME TypeInv, NEW p \in Processes, Fail(p)
  PROVE  TypeInv'
<1>1. running[p] \in Commands
  BY DEF Fail, TypeInv, TypeOK, Busy
<1>2. Return(p, running[p], "unknown", 0)
  BY DEF Fail
<1>3. inflight' \subseteq inflight
  BY DEF Fail
<1>4. UNCHANGED <<logVars, since, projVars, applied, snapshot>>
  BY DEF Fail
<1> QED BY <1>1, <1>2, <1>3, <1>4, ReturnType DEF TypeInv, TypeOK, logVars, projVars

LEMMA TypeAbsorb ==
  ASSUME TypeInv, NEW p \in Processes, Absorb(p)
  PROVE  TypeInv'
<1>1. running[p] \in Commands /\ version[p] \in Nat
  BY DEF Absorb, TypeInv, TypeOK, Busy
<1>2. Envelopes(running[p], version[p]) \in Seq(Event) /\ Size[running[p]] \in Nat
  BY <1>1, EnvelopesType
<1>3. FoldInto(p, Envelopes(running[p], version[p]))
  BY DEF Absorb
<1>4. /\ pc' = [pc EXCEPT ![p] = "absorbed"]
      /\ unsnapped' = [unsnapped EXCEPT ![p] = @ + Size[running[p]]]
      /\ UNCHANGED <<logVars, inflight, callVars, cursor, tail, applied, snapshot>>
  BY DEF Absorb
<1>5. \A q \in Processes : Busy(q)'
  <2>1. running' = running /\ pc[p] = "acked"
    BY <1>4 DEF Absorb, callVars
  <2> QED BY <1>4, <2>1 DEF TypeInv, TypeOK, Busy
<1>6. /\ events' \in [Processes -> Seq(Event)]
      /\ version' \in [Processes -> Nat]
      /\ heard' \in [Processes -> Seq(Event)]
  BY <1>2, <1>3, FoldIntoType DEF TypeInv
<1>7. unsnapped' \in [Processes -> Nat]
  BY <1>2, <1>4 DEF TypeInv, TypeOK
<1> QED BY <1>4, <1>5, <1>6, <1>7 DEF TypeInv, TypeOK, logVars, callVars

LEMMA TypeSettle ==
  ASSUME TypeInv, NEW p \in Processes, Settle(p)
  PROVE  TypeInv'
<1>1. running[p] \in Commands /\ version[p] \in Nat
  BY DEF Settle, TypeInv, TypeOK, Busy
<1>2. Return(p, running[p], "ok", version[p])
  BY DEF Settle
<1>3. applied' \in [Processes -> Nat]
  BY <1>1 DEF Settle, Notify, TypeInv, TypeOK
<1>4. /\ snapshot' \in [version : Nat, cursor : Nat, events : Seq(Event)]
      /\ unsnapped' \in [Processes -> Nat]
  <2>1. SnapshotOf(p) \in [version : Nat, cursor : Nat, events : Seq(Event)]
    BY DEF SnapshotOf, TypeInv, TypeOK
  <2>2. \/ snapshot' = SnapshotOf(p) /\ unsnapped' = [unsnapped EXCEPT ![p] = 0]
        \/ UNCHANGED <<snapshot, unsnapped>>
    BY DEF Settle
  <2>3. snapshot' \in [version : Nat, cursor : Nat, events : Seq(Event)]
    BY <2>1, <2>2 DEF TypeInv, TypeOK
  <2>4. unsnapped' = [unsnapped EXCEPT ![p] = 0] \/ unsnapped' = unsnapped
    BY <2>2
  <2>5. unsnapped' \in [Processes -> Nat]
    <3>1. unsnapped \in [Processes -> Nat]
      BY DEF TypeInv, TypeOK
    <3> QED BY <2>4, <3>1
  <2> QED BY <2>3, <2>5
<1>5. UNCHANGED <<logVars, inflight, since, version, cursor, events, heard>>
  BY DEF Settle
<1> QED BY <1>1, <1>2, <1>3, <1>4, <1>5, ReturnType DEF TypeInv, TypeOK, logVars

LEMMA TypeRebase ==
  ASSUME TypeInv, NEW p \in Processes, Rebase(p)
  PROVE  TypeInv'
<1> DEFINE new == Fresh(Between(cursor[p], Len(log)), version[p])
           done == Foldable(p, new)
<1>1. running[p] \in Commands /\ attempts[p] + 1 \in Nat
  <2>1. pc[p] = "stale"
    BY DEF Rebase
  <2>2. running[p] \in Commands
    BY <2>1 DEF TypeInv, TypeOK, Busy
  <2>3. attempts[p] \in Nat
    BY DEF TypeInv, TypeOK
  <2> QED BY <2>2, <2>3
<1>2. done \in Seq(Event) /\ Len(done) \in Nat
  <2>1. Len(log) \in Nat /\ cursor[p] \in Nat /\ version[p] \in Nat
    BY LenProperties DEF TypeInv, TypeOK
  <2>2. Between(cursor[p], Len(log)) \in Seq(Event)
    <3>1. TypeOK /\ Len(log) <= Len(log)
      BY <2>1 DEF TypeInv
    <3> QED BY <2>1, <3>1, BetweenType
  <2>3. new \in Seq(Event)
    BY <2>1, <2>2, FreshType
  <2>4. done \in Seq(Event)
    <3> HIDE DEF new
    <3> QED BY <2>3, FoldableType
  <2> HIDE DEF done
  <2> QED BY <2>4, LenProperties
<1>3. /\ FoldInto(p, done)
      /\ unsnapped' = [unsnapped EXCEPT ![p] = @ + Len(done)]
      /\ UNCHANGED <<logVars, since, snapshot>>
  BY DEF Rebase
<1>4. \/ /\ cursor' = [cursor EXCEPT ![p] = Len(log)]
         /\ Turn(p, running[p], attempts[p] + 1, version'[p], events'[p])
      \/ /\ Return(p, running[p], "unknown", 0)
         /\ UNCHANGED <<cursor, inflight, applied>>
  BY DEF Rebase
<1> HIDE DEF done
<1>5. /\ events' \in [Processes -> Seq(Event)]
      /\ version' \in [Processes -> Nat]
      /\ heard' \in [Processes -> Seq(Event)]
      /\ unsnapped' \in [Processes -> Nat]
      /\ log' \in Seq(Event)
      /\ lastSeq' \in Nat \cup {-1}
      /\ since' \in [Commands -> Nat]
      /\ snapshot' \in [version : Nat, cursor : Nat, events : Seq(Event)]
  <2>1. /\ events' \in [Processes -> Seq(Event)]
        /\ version' \in [Processes -> Nat]
        /\ heard' \in [Processes -> Seq(Event)]
    BY <1>2, <1>3, FoldIntoType DEF TypeInv
  <2>2. unsnapped' \in [Processes -> Nat]
    BY <1>2, <1>3 DEF TypeInv, TypeOK
  <2> QED BY <1>3, <2>1, <2>2 DEF TypeInv, TypeOK, logVars
<1>6. CASE /\ cursor' = [cursor EXCEPT ![p] = Len(log)]
           /\ Turn(p, running[p], attempts[p] + 1, version'[p], events'[p])
  <2>1. version'[p] \in Nat
    BY <1>5
  <2>2. cursor' \in [Processes -> Nat]
    BY <1>6, LenProperties DEF TypeInv, TypeOK
  <2> QED BY <1>1, <1>5, <1>6, <2>1, <2>2, TurnType DEF TypeInv, TypeOK
<1>7. CASE /\ Return(p, running[p], "unknown", 0)
           /\ UNCHANGED <<cursor, inflight, applied>>
  BY <1>1, <1>5, <1>7, ReturnType DEF TypeInv, TypeOK
<1> QED BY <1>4, <1>6, <1>7

\* One tail batch: whatever is folded of it is a sequence of events.
LEMMA TailFreshType ==
  ASSUME TypeInv, NEW p \in Processes, tail[p] # NoTail, NEW to \in (tail[p] + 1)..Len(log)
  PROVE  /\ to \in Nat
         /\ Fresh(Between(tail[p], to), version[p]) \in Seq(Event)
         /\ Foldable(p, Fresh(Between(tail[p], to), version[p])) \in Seq(Event)
<1>1. Len(log) \in Nat /\ tail[p] \in Nat /\ version[p] \in Nat
  BY LenProperties DEF TypeInv, TypeOK
<1>2. to \in Nat /\ to <= Len(log)
  BY <1>1
<1>3. TypeOK
  BY DEF TypeInv
<1>4. Between(tail[p], to) \in Seq(Event)
  BY <1>1, <1>2, <1>3, BetweenType
<1>5. Fresh(Between(tail[p], to), version[p]) \in Seq(Event)
  BY <1>1, <1>4, FreshType
<1> QED BY <1>2, <1>5, FoldableType

LEMMA TypeTailBatch ==
  ASSUME TypeInv, NEW p \in Processes, NEW to \in 1..Len(log), TailBatch(p, to)
  PROVE  TypeInv'
<1> DEFINE new == Fresh(Between(tail[p], to), version[p])
<1>1. to \in Nat /\ new \in Seq(Event)
  BY TailFreshType DEF TailBatch
<1>2. FoldInto(p, new) /\ Notify(p, version'[p])
  BY DEF TailBatch
<1>3. /\ cursor' = [cursor EXCEPT ![p] = to]
      /\ tail' = [tail EXCEPT ![p] = to]
      /\ UNCHANGED <<logVars, inflight, pc, callVars, unsnapped, snapshot>>
  BY DEF TailBatch
<1> HIDE DEF new
<1>4. /\ events' \in [Processes -> Seq(Event)]
      /\ version' \in [Processes -> Nat]
      /\ heard' \in [Processes -> Seq(Event)]
  BY <1>1, <1>2, FoldIntoType DEF TypeInv
<1>5. applied' \in [Processes -> Nat]
  BY <1>2, <1>4 DEF Notify, TypeInv, TypeOK
<1>6. \A q \in Processes : Busy(q)'
  BY <1>3 DEF TypeInv, Busy, callVars
<1> QED BY <1>1, <1>3, <1>4, <1>5, <1>6 DEF TypeInv, TypeOK, logVars, callVars

LEMMA TypeDiscard ==
  ASSUME TypeInv, NEW p \in Processes, Discard(p)
  PROVE  /\ pc' \in [Processes -> {"down", "idle", "appending", "acked", "stale", "absorbed"}]
         /\ running' \in [Processes -> Commands \cup {NoCommand}]
         /\ attempts' \in [Processes -> Nat]
         /\ version' \in [Processes -> Nat]
         /\ cursor' \in [Processes -> Nat]
         /\ events' \in [Processes -> Seq(Event)]
         /\ heard' \in [Processes -> Seq(Event)]
         /\ unsnapped' \in [Processes -> Nat]
         /\ tail' \in [Processes -> Nat \cup {NoTail}]
         /\ applied' \in [Processes -> Nat]
         /\ \A q \in Processes : Busy(q)'
<1>1. << >> \in Seq(Event)
  BY EmptySeq
<1> QED BY <1>1 DEF Discard, TypeInv, TypeOK, Busy

LEMMA TypeTailThrows ==
  ASSUME TypeInv, NEW p \in Processes, NEW to \in 1..Len(log), TailThrows(p, to)
  PROVE  TypeInv'
<1> DEFINE new == Fresh(Between(tail[p], to), version[p])
           done == Foldable(p, new)
<1>1. to \in Nat /\ done \in Seq(Event)
  BY TailFreshType DEF TailThrows
<1>2. UNCHANGED <<logVars, inflight, answer, token, since, snapshot>>
  BY DEF TailThrows
<1>3. \/ /\ FoldInto(p, done)
         /\ tail' = [tail EXCEPT ![p] = to]
         /\ UNCHANGED <<pc, running, attempts, cursor, unsnapped, applied>>
      \/ Discard(p)
  BY DEF TailThrows
<1> HIDE DEF done
<1>4. CASE /\ FoldInto(p, done)
           /\ tail' = [tail EXCEPT ![p] = to]
           /\ UNCHANGED <<pc, running, attempts, cursor, unsnapped, applied>>
  <2>1. /\ events' \in [Processes -> Seq(Event)]
        /\ version' \in [Processes -> Nat]
        /\ heard' \in [Processes -> Seq(Event)]
    BY <1>1, <1>4, FoldIntoType DEF TypeInv
  <2>2. \A q \in Processes : Busy(q)'
    BY <1>4 DEF TypeInv, Busy
  <2> QED BY <1>1, <1>2, <1>4, <2>1, <2>2 DEF TypeInv, TypeOK, logVars
<1>5. CASE Discard(p)
  BY <1>2, <1>5, TypeDiscard DEF TypeInv, TypeOK, logVars
<1> QED BY <1>3, <1>4, <1>5

LEMMA TypeLoseTail ==
  ASSUME TypeInv, NEW p \in Processes, LoseTail(p)
  PROVE  TypeInv'
<1>1. \A q \in Processes : Busy(q)'
  BY DEF LoseTail, TypeInv, Busy, callVars
<1> QED BY <1>1 DEF LoseTail, TypeInv, TypeOK, logVars, callVars, projVars

LEMMA TypeOpen ==
  ASSUME TypeInv, NEW p \in Processes, Open(p)
  PROVE  TypeInv'
<1>1. log \in Seq(Event) /\ log # << >> /\ Len(log) \in Nat \ {0}
  BY EmptySeq DEF Open, TypeInv, TypeOK
<1>2. log[Len(log)].version + 1 \in Nat
  <2>1. log[Len(log)] \in Event
    BY <1>1, ElementOfSeq
  <2> QED BY <2>1 DEF Event
<1>3. << >> \in Seq(Event)
  BY EmptySeq
<1>4. \A q \in Processes : Busy(q)'
  BY DEF Open, TypeInv, TypeOK, Busy, callVars
<1> QED BY <1>1, <1>2, <1>3, <1>4 DEF Open, TypeInv, TypeOK, logVars, callVars

LEMMA TypeCrash ==
  ASSUME TypeInv, NEW p \in Processes, Crash(p)
  PROVE  TypeInv'
<1>1. answer' \in [Commands -> {"none", "pending", "ok", "rejected", "conflict", "unknown"}]
  BY DEF Crash, TypeInv, TypeOK
<1>2. Discard(p) /\ UNCHANGED <<logVars, inflight, token, since, snapshot>>
  BY DEF Crash
<1> QED BY <1>1, <1>2, TypeDiscard DEF TypeInv, TypeOK, logVars

\* Every step keeps the types.
LEMMA TypeNext == TypeInv /\ [Next]_vars => TypeInv'
<1> SUFFICES ASSUME TypeInv, [Next]_vars PROVE TypeInv'
  OBVIOUS
<1>1. ASSUME NEW p \in Processes, NEW c \in Commands, Begin(p, c) \/ Create(p, c)
      PROVE  TypeInv'
  BY <1>1, TypeBegin, TypeCreate
<1>2. ASSUME NEW m \in inflight, ServeAnswered(m) \/ ServeUnanswered(m)
      PROVE  TypeInv'
  BY <1>2, TypeServe
<1>3. ASSUME NEW p \in Processes,
             \/ Fail(p) \/ Absorb(p) \/ Settle(p) \/ Rebase(p)
             \/ LoseTail(p) \/ Open(p) \/ Crash(p)
      PROVE  TypeInv'
  BY <1>3, TypeFail, TypeAbsorb, TypeSettle, TypeRebase, TypeLoseTail, TypeOpen, TypeCrash
<1>4. ASSUME NEW p \in Processes, NEW to \in 1..Len(log), TailBatch(p, to) \/ TailThrows(p, to)
      PROVE  TypeInv'
  BY <1>4, TypeTailBatch, TypeTailThrows
<1>5. CASE UNCHANGED vars
  BY <1>5 DEF vars, logVars, callVars, projVars, TypeInv, TypeOK, Busy
<1> QED BY <1>1, <1>2, <1>3, <1>4, <1>5 DEF Next

\* Type correctness of the whole bus, for any number of processes, commands and
\* attempts, whatever page types each process runs (TypeOK of CommandBus).
THEOREM TypeCorrect == Spec => []TypeOK
<1>1. TypeInv => TypeOK
  BY DEF TypeInv
<1> QED BY <1>1, TypeInit, TypeNext, PTL DEF Spec

-----------------------------------------------------------------------------
(* Prefixes and segments of the stream.                                     *)

LEMMA BetweenIs ==
  ASSUME TypeOK, NEW from \in Nat, NEW to \in Nat, from <= to, to <= Len(log)
  PROVE  /\ Between(from, to) \in Seq(Event)
         /\ Len(Between(from, to)) = to - from
         /\ \A i \in 1..(to - from) : Between(from, to)[i] = log[from + i]
<1>1. \A i \in (from + 1)..to : log[i] \in Event
  BY ElementOfSeq DEF TypeOK
<1>2. /\ Between(from, to) \in Seq(Event)
      /\ Len(Between(from, to)) = IF from + 1 <= to THEN to - (from + 1) + 1 ELSE 0
      /\ \A i \in 1..(to - (from + 1) + 1) : Between(from, to)[i] = log[from + 1 + i - 1]
  <2>1. from + 1 \in Int /\ to \in Int
    OBVIOUS
  <2> QED BY <1>1, <2>1, SubSeqProperties DEF Between
<1>3. to - (from + 1) + 1 = to - from
  OBVIOUS
<1>4. \A i \in 1..(to - from) : from + 1 + i - 1 = from + i
  OBVIOUS
<1> QED BY <1>2, <1>3, <1>4

\* The skip leaves of a read exactly what the projection has not folded.
LEMMA FreshOfLog ==
  ASSUME TypeOK, LogContiguous,
         NEW from \in Nat, NEW to \in Nat, NEW v \in Nat,
         from <= v, v <= Len(log), to <= Len(log)
  PROVE  Fresh(Between(from, to), v) = IF v < to THEN Between(v, to) ELSE << >>
<1> DEFINE batch == Between(from, to)
           ahead == {i \in DOMAIN batch : batch[i].version >= v}
<1>1. CASE from > to
  <2>1. batch = << >>
    BY <1>1, SubSeqEmpty DEF Between
  <2>2. ahead = {}
    BY <2>1
  <2>3. ~ (v < to)
    BY <1>1
  <2> QED BY <2>2, <2>3 DEF Fresh
<1>2. CASE from <= to
  <2>1. /\ batch \in Seq(Event)
        /\ Len(batch) = to - from
        /\ DOMAIN batch = 1..(to - from)
        /\ \A i \in 1..(to - from) : batch[i].version = from + i - 1
    <3>1. /\ batch \in Seq(Event)
          /\ Len(batch) = to - from
          /\ \A i \in 1..(to - from) : batch[i] = log[from + i]
      BY <1>2, BetweenIs
    <3>2. DOMAIN batch = 1..(to - from)
      BY <3>1, LenProperties
    <3>3. \A i \in 1..(to - from) : log[from + i].version = from + i - 1
      <4>1. DOMAIN log = 1..Len(log) /\ Len(log) \in Nat
        BY LenProperties DEF TypeOK
      <4>2. \A i \in 1..(to - from) : from + i \in DOMAIN log
        BY <4>1
      <4> QED BY <4>2 DEF LogContiguous
    <3> QED BY <3>1, <3>2, <3>3
  <2>2. ahead = {i \in 1..(to - from) : from + i - 1 >= v}
    BY <2>1
  <2>3. CASE to <= v
    <3>1. ahead = {}
      BY <2>2, <2>3
    <3> QED BY <2>3, <3>1 DEF Fresh
  <2>4. CASE v < to
    <3>1. v - from + 1 \in ahead /\ ahead \in SUBSET Nat /\ \A i \in ahead : v - from + 1 <= i
      BY <2>2, <2>4
    <3>2. Min(ahead) = v - from + 1
      <4>1. Min(ahead) \in ahead /\ \A y \in ahead : Min(ahead) <= y
        <5> HIDE DEF ahead
        <5> QED BY <3>1, MinOfNaturals
      <4>2. v - from + 1 <= Min(ahead) /\ Min(ahead) <= v - from + 1 /\ Min(ahead) \in Nat
        BY <3>1, <4>1
      <4> HIDE DEF ahead
      <4> QED BY <4>2
    <3>3. Fresh(batch, v) = SubSeq(batch, v - from + 1, to - from)
      <4>1. ahead # {}
        BY <3>1
      <4> QED BY <2>1, <3>2, <4>1 DEF Fresh
    <3>4. SubSeq(batch, v - from + 1, to - from) = Between(v, to)
      <4>1. /\ log \in Seq(Event)
            /\ from + 1 \in 1..Len(log)
            /\ to \in 1..Len(log)
            /\ v - from + 1 \in 1..(to - (from + 1) + 1)
            /\ to - from \in 1..(to - (from + 1) + 1)
        BY <2>4, LenProperties DEF TypeOK
      <4>2. SubSeq(SubSeq(log, from + 1, to), v - from + 1, to - from)
              = SubSeq(log, (from + 1) + (v - from + 1) - 1, (from + 1) + (to - from) - 1)
        BY <4>1, SubSeqOfSubSeq
      <4>3. /\ (from + 1) + (v - from + 1) - 1 = v + 1
            /\ (from + 1) + (to - from) - 1 = to
        OBVIOUS
      <4> QED BY <4>2, <4>3 DEF Between
    <3> QED BY <2>4, <3>3, <3>4
  <2> QED BY <2>3, <2>4
<1> QED BY <1>1, <1>2

\* Folding the next segment of the stream onto a prefix makes a longer prefix.
LEMMA FoldSegment ==
  ASSUME TypeOK, LogContiguous, NEW p \in Processes, NEW to \in Nat,
         events[p] = Between(0, version[p]),
         version[p] <= to, to <= Len(log),
         FoldInto(p, Between(version[p], to))
  PROVE  /\ version' = [version EXCEPT ![p] = to]
         /\ events' = [events EXCEPT ![p] = Between(0, to)]
<1> DEFINE v == version[p]
           batch == Between(v, to)
<1>1. v \in Nat /\ Len(log) \in Nat /\ log \in Seq(Event)
  BY LenProperties DEF TypeOK
<1>2. /\ batch \in Seq(Event)
      /\ Len(batch) = to - v
      /\ \A i \in 1..(to - v) : batch[i] = log[v + i]
  BY <1>1, BetweenIs
<1>3. events[p] \o batch = Between(0, to)
  <2>1. /\ 0 + 1 \in 1..(Len(log) + 1)
        /\ v \in (0 + 1) - 1..Len(log)
        /\ to \in v..Len(log)
    BY <1>1
  <2> QED BY <1>1, <2>1, ConcatAdjacentSubSeq DEF Between
<1>4. (IF batch = << >> THEN v ELSE batch[Len(batch)].version + 1) = to
  <2>1. CASE v = to
    <3>1. batch = << >>
      BY <1>1, <2>1, SubSeqEmpty DEF Between
    <3> QED BY <2>1, <3>1
  <2>2. CASE v < to
    <3>1. Len(batch) = to - v /\ to - v \in 1..(to - v) /\ batch # << >>
      BY <1>1, <1>2, <2>2, EmptySeq
    <3>2. batch[to - v] = log[to]
      <4>1. v + (to - v) = to
        BY <1>1
      <4> QED BY <1>2, <3>1, <4>1
    <3>3. to \in DOMAIN log
      BY <1>1, <2>2, LenProperties
    <3>4. log[to].version = to - 1
      BY <3>3 DEF LogContiguous
    <3> HIDE DEF batch
    <3> QED BY <3>1, <3>2, <3>4
  <2> QED BY <1>1, <2>1, <2>2
<1>5. /\ events' = [events EXCEPT ![p] = events[p] \o batch]
      /\ version' = [version EXCEPT ![p] = IF batch = << >> THEN v ELSE batch[Len(batch)].version + 1]
  BY DEF FoldInto
<1> QED BY <1>3, <1>4, <1>5

\* Folding what is fresh of any read that starts at or before the projection's end.
LEMMA FoldFresh ==
  ASSUME TypeOK, LogContiguous, NEW p \in Processes,
         NEW from \in Nat, NEW to \in Nat,
         events[p] = Between(0, version[p]),
         from <= version[p], version[p] <= Len(log), to <= Len(log),
         FoldInto(p, Fresh(Between(from, to), version[p]))
  PROVE  \E n \in {version[p], to} :
           /\ version[p] <= n
           /\ to <= n
           /\ version' = [version EXCEPT ![p] = n]
           /\ events' = [events EXCEPT ![p] = Between(0, n)]
<1>1. version[p] \in Nat /\ Len(log) \in Nat
  BY LenProperties DEF TypeOK
<1>2. CASE version[p] < to
  <2>1. FoldInto(p, Between(version[p], to))
    BY <1>1, <1>2, FreshOfLog
  <2>2. /\ version' = [version EXCEPT ![p] = to]
        /\ events' = [events EXCEPT ![p] = Between(0, to)]
    BY <1>1, <1>2, <2>1, FoldSegment
  <2> QED BY <1>1, <1>2, <2>2
<1>3. CASE ~ (version[p] < to)
  <2>1. Between(version[p], version[p]) = << >>
    BY <1>1, SubSeqEmpty DEF Between
  <2>2. FoldInto(p, Between(version[p], version[p]))
    BY <1>1, <1>3, <2>1, FreshOfLog
  <2>3. /\ version' = [version EXCEPT ![p] = version[p]]
        /\ events' = [events EXCEPT ![p] = Between(0, version[p])]
    BY <1>1, <2>2, FoldSegment
  <2> QED BY <1>1, <1>3, <2>3
<1> QED BY <1>2, <1>3

-----------------------------------------------------------------------------
(* What an admitted append does to the stream.                              *)

\* A request whose expected head is a message boundary is admitted only if that
\* boundary is the end of the stream.
LEMMA AdmittedAtEnd ==
  ASSUME TypeOK, StreamShape, NEW seq \in Nat, Boundary(seq), Admits(seq)
  PROVE  seq = Len(log)
<1> SUFFICES ASSUME seq # Len(log) PROVE FALSE
  OBVIOUS
<1>1. Len(log) \in Nat /\ seq < Len(log) /\ log[seq + 1].first
  BY LenProperties DEF TypeOK, Boundary, MessageBoundary
<1>2. log # << >>
  BY <1>1, EmptySeq
<1>3. lastSeq \in Nat /\ lastSeq < seq
  BY <1>2 DEF StreamShape, Admits
<1>4. seq + 1 \in (lastSeq + 2)..Len(log)
  BY <1>1, <1>3
<1> QED BY <1>1, <1>2, <1>4 DEF StreamShape

\* A commit stored at the end leaves every earlier segment and boundary as it was
\* and keeps the stream contiguous.
LEMMA StoreExtends ==
  ASSUME TypeOK, LogContiguous, StreamShape, NEW c \in Commands, Store(c, Len(log))
  PROVE  /\ Len(log') = Len(log) + Size[c]
         /\ \A a, b \in 0..Len(log) : a <= b => Between(a, b)' = Between(a, b)
         /\ SubSeq(log', Len(log) + 1, Len(log) + Size[c]) = Envelopes(c, Len(log))
         /\ \A n \in 0..Len(log) : Boundary(n) => Boundary(n)'
         /\ Boundary(Len(log))'
         /\ LogContiguous'
         /\ StreamShape'
<1> DEFINE len == Len(log)
           new == Envelopes(c, len)
<1>1. len \in Nat /\ log \in Seq(Event) /\ DOMAIN log = 1..len
  BY LenProperties DEF TypeOK
<1>2. /\ Size[c] \in Nat \ {0}
      /\ new \in Seq(Event)
      /\ Len(new) = Size[c]
      /\ \A i \in 1..Size[c] :
           /\ new[i].version = len + i - 1
           /\ new[i].cmd = c
           /\ (new[i].first <=> i = 1)
  BY <1>1, EnvelopesType
<1>3. log' = log \o new /\ lastSeq' = len
  BY DEF Store
<1> HIDE DEF new
<1>4. /\ log' \in Seq(Event)
      /\ Len(log') = len + Size[c]
      /\ \A i \in 1..(len + Size[c]) : log'[i] = IF i <= len THEN log[i] ELSE new[i - len]
      /\ DOMAIN log' = 1..(len + Size[c])
  <2>1. /\ log' \in Seq(Event)
        /\ Len(log') = len + Size[c]
        /\ \A i \in 1..(len + Size[c]) : log'[i] = IF i <= len THEN log[i] ELSE new[i - len]
    <3>1. /\ log \o new \in Seq(Event)
          /\ Len(log \o new) = Len(log) + Len(new)
          /\ \A i \in 1..(Len(log) + Len(new)) :
               (log \o new)[i] = IF i <= Len(log) THEN log[i] ELSE new[i - Len(log)]
      <4>1. log \in Seq(Event) /\ new \in Seq(Event)
        BY <1>1, <1>2
      <4> QED BY <4>1, ConcatProperties
    <3> QED BY <1>2, <1>3, <3>1
  <2> QED BY <2>1, LenProperties
<1>5. ASSUME NEW a \in 0..len, NEW b \in 0..len, a <= b
      PROVE  SubSeq(log', a + 1, b) = SubSeq(log, a + 1, b)
  <2>1. CASE a = b
    BY <1>1, <2>1, SubSeqEmpty
  <2>2. CASE a < b
    <3>1. a + 1 \in 1..len /\ b \in 1..len
      BY <1>1, <2>2
    <3> QED BY <1>1, <1>2, <1>3, <3>1, SubSeqOfConcat1
  <2> QED BY <1>1, <1>5, <2>1, <2>2
<1>6. SubSeq(log', len + 1, len + Size[c]) = new
  <2>1. len + 1 \in (len + 1)..(len + Len(new)) /\ len + Size[c] \in (len + 1)..(len + Len(new))
    BY <1>1, <1>2
  <2>2. SubSeq(log \o new, len + 1, len + Size[c]) = SubSeq(new, (len + 1) - len, (len + Size[c]) - len)
    <3> DEFINE a == len + 1
               b == len + Size[c]
    <3>1. a \in (Len(log) + 1)..(Len(log) + Len(new)) /\ b \in (Len(log) + 1)..(Len(log) + Len(new))
      BY <2>1
    <3>2. log \in Seq(Event) /\ new \in Seq(Event)
      BY <1>1, <1>2
    <3> HIDE DEF a, b
    <3>3. SubSeq(log \o new, a, b) = SubSeq(new, a - Len(log), b - Len(log))
      BY <3>1, <3>2, SubSeqOfConcat2
    <3> QED BY <3>3 DEF a, b
  <2>3. (len + 1) - len = 1 /\ (len + Size[c]) - len = Len(new)
    BY <1>1, <1>2
  <2> QED BY <1>2, <1>3, <2>2, <2>3, SubSeqFull
<1>7. ASSUME NEW n \in 0..len, Boundary(n)
      PROVE  Boundary(n)'
  <2>1. CASE n < len
    <3>1. n + 1 \in 1..(len + Size[c]) /\ n + 1 <= len
      BY <1>1, <1>2, <2>1
    <3>2. log'[n + 1] = log[n + 1]
      BY <1>4, <3>1
    <3> QED BY <1>1, <1>2, <1>4, <1>7, <2>1, <3>2 DEF Boundary, MessageBoundary
  <2>2. CASE n = len
    <3>1. log'[n + 1] = new[1]
      <4>1. n + 1 \in 1..(len + Size[c]) /\ ~ (n + 1 <= len) /\ n + 1 - len = 1
        BY <1>1, <1>2, <2>2
      <4> QED BY <1>4, <4>1
    <3>2. new[1].first
      BY <1>2
    <3> QED BY <1>1, <1>2, <1>4, <2>2, <3>1, <3>2 DEF Boundary, MessageBoundary
  <2>3. n < len \/ n = len
    <3>1. len \in Nat /\ n \in 0..len
      BY <1>1
    <3> HIDE DEF len
    <3> QED BY <3>1
  <2> QED BY <2>1, <2>2, <2>3 DEF Boundary, MessageBoundary
<1>8. Boundary(Len(log))'
  BY <1>1, <1>2, <1>4 DEF Boundary, MessageBoundary
<1>9. LogContiguous'
  <2> SUFFICES ASSUME NEW i \in 1..(len + Size[c]) PROVE log'[i].version = i - 1
    BY <1>4 DEF LogContiguous
  <2>1. CASE i <= len
    BY <1>1, <1>4, <2>1 DEF LogContiguous
  <2>2. CASE ~ (i <= len)
    <3>1. log'[i] = new[i - len] /\ i - len \in 1..Size[c]
      BY <1>1, <1>2, <1>4, <2>2
    <3>2. new[i - len].version = len + (i - len) - 1
      BY <1>2, <3>1
    <3> QED BY <1>1, <3>1, <3>2
  <2> QED BY <2>1, <2>2
<1>10. StreamShape'
  <2>1. Boundary(0)'
    BY <1>1, <1>7 DEF StreamShape
  <2>2. log' # << >>
    BY <1>1, <1>2, <1>4, EmptySeq
  <2>3. lastSeq' \in 0..(Len(log') - 1)
    BY <1>1, <1>2, <1>3, <1>4
  <2>4. ASSUME NEW i \in (lastSeq' + 2)..Len(log') PROVE ~ log'[i].first
    <3>1. i \in 1..(len + Size[c]) /\ ~ (i <= len) /\ i - len \in 1..Size[c] /\ i - len # 1
      BY <1>1, <1>2, <1>3, <1>4
    <3>2. log'[i] = new[i - len]
      BY <1>4, <3>1
    <3> QED BY <1>2, <3>1, <3>2
  <2>5. ASSUME NEW i \in DOMAIN log', ~ log'[i].first PROVE i > 1 /\ log'[i - 1].cmd = log'[i].cmd
    <3>1. i \in 1..(len + Size[c])
      BY <1>4
    <3>2. CASE i <= len
      <4>1. log'[i] = log[i] /\ i \in DOMAIN log
        BY <1>1, <1>4, <3>1, <3>2
      <4>2. i > 1 /\ log[i - 1].cmd = log[i].cmd
        BY <2>5, <4>1 DEF StreamShape
      <4>3. log'[i - 1] = log[i - 1]
        BY <1>1, <1>2, <1>4, <3>1, <3>2, <4>2
      <4> QED BY <4>1, <4>2, <4>3
    <3>3. CASE i > len
      <4>1. log'[i] = new[i - len] /\ i - len \in 1..Size[c] /\ new[i - len].cmd = c
        BY <1>1, <1>2, <1>4, <3>1, <3>3
      <4>2. i - len # 1
        BY <1>2, <2>5, <4>1
      <4>3. /\ i - 1 \in 1..(len + Size[c]) /\ ~ (i - 1 <= len)
            /\ (i - 1) - len \in 1..Size[c] /\ i > 1
        BY <1>1, <1>2, <3>1, <3>3, <4>1, <4>2
      <4>4. log'[i - 1] = new[(i - 1) - len] /\ new[(i - 1) - len].cmd = c
        BY <1>2, <1>4, <4>3
      <4> QED BY <4>1, <4>3, <4>4
    <3> QED BY <1>1, <3>1, <3>2, <3>3
  <2> QED BY <2>1, <2>2, <2>3, <2>4, <2>5 DEF StreamShape
<1> QED BY <1>4, <1>5, <1>6, <1>7, <1>8, <1>9, <1>10 DEF Between, new

-----------------------------------------------------------------------------
(* What a step that leaves the stream alone keeps.                          *)

LEMMA StreamKept ==
  ASSUME LogContiguous, StreamShape, UNCHANGED logVars
  PROVE  LogContiguous' /\ StreamShape'
BY DEF logVars, LogContiguous, StreamShape, Boundary, MessageBoundary

LEMMA InFlightKept ==
  ASSUME InFlightDecided, UNCHANGED logVars, inflight' \subseteq inflight
  PROVE  InFlightDecided'
BY DEF logVars, InFlightDecided, Boundary, MessageBoundary, Between

LEMMA ProcessKept ==
  ASSUME NEW q \in Processes, ProjectionExact(q), OwnCommitStored(q), UNCHANGED logVars,
         pc'[q] = pc[q], running'[q] = running[q], version'[q] = version[q],
         cursor'[q] = cursor[q], events'[q] = events[q],
         tail'[q] = tail[q] \/ tail'[q] = NoTail
  PROVE  ProjectionExact(q)' /\ OwnCommitStored(q)'
BY DEF logVars, ProjectionExact, Complete, OwnCommitStored, Boundary, MessageBoundary, Between

\* A turn on a projection that is a prefix up to a boundary sends only a request
\* decided on that prefix, and never starts a subscription.
LEMMA TurnKeeps ==
  ASSUME TypeInv, InFlightDecided, UNCHANGED logVars,
         NEW p \in Processes, NEW c \in Commands, NEW n \in Nat, NEW head \in Nat,
         Boundary(head), Turn(p, c, n, head, Between(0, head))
  PROVE  /\ InFlightDecided'
         /\ UNCHANGED tail
         /\ \A q \in Processes \ {p} : pc'[q] = pc[q] /\ running'[q] = running[q]
         /\ pc'[p] \in {"idle", "down", "appending"}
         /\ pc'[p] = "down" => c \in Creates
         /\ running'[p] \in {NoCommand, c}
<1> DEFINE history == Between(0, head)
<1>1. /\ pc \in [Processes -> {"down", "idle", "appending", "acked", "stale", "absorbed"}]
      /\ running \in [Processes -> Commands \cup {NoCommand}]
  BY DEF TypeInv, TypeOK
<1>2. ASSUME c \in Creates PROVE ~ CommandSeen(c, history) /\ ~ DecidesNothing(c, history)
  BY <1>2, BusConstants DEF CommandSeen, DecidesNothing
<1>3. ASSUME NEW a, NEW v, Return(p, c, a, v), c \in Creates => a # "ok", UNCHANGED inflight
      PROVE  /\ InFlightDecided'
             /\ UNCHANGED tail
             /\ \A q \in Processes \ {p} : pc'[q] = pc[q] /\ running'[q] = running[q]
             /\ pc'[p] \in {"idle", "down", "appending"}
             /\ pc'[p] = "down" => c \in Creates
             /\ running'[p] \in {NoCommand, c}
  <2>1. InFlightDecided'
    BY <1>3, InFlightKept
  <2> QED BY <1>1, <1>3, <2>1 DEF Return
<1>4. CASE Return(p, c, "conflict", 0) /\ UNCHANGED <<inflight, applied>>
  BY <1>3, <1>4
<1>5. CASE /\ CommandSeen(c, history) \/ DecidesNothing(c, history)
           /\ Return(p, c, "ok", head)
           /\ UNCHANGED inflight
  BY <1>2, <1>3, <1>5
<1>6. CASE Return(p, c, "rejected", 0) /\ UNCHANGED <<inflight, applied>>
  BY <1>3, <1>6
<1>7. CASE /\ ~ CommandSeen(c, history)
           /\ Emits(c, history)
           /\ inflight' = inflight \cup {[proc |-> p, cmd |-> c, seq |-> head]}
           /\ pc' = [pc EXCEPT ![p] = "appending"]
           /\ running' = [running EXCEPT ![p] = c]
           /\ UNCHANGED <<token, tail, applied>>
  <2>1. InFlightDecided'
    <3> SUFFICES ASSUME NEW m \in inflight'
                 PROVE  /\ Boundary(m.seq)'
                        /\ ~ CommandSeen(m.cmd, Between(0, m.seq)')
                        /\ Emits(m.cmd, Between(0, m.seq)')
      BY DEF InFlightDecided
    <3>1. log' = log
      BY DEF logVars
    <3>2. CASE m \in inflight
      BY <3>1, <3>2 DEF InFlightDecided, Boundary, MessageBoundary, Between
    <3>3. CASE m.seq = head /\ m.cmd = c
      BY <1>7, <3>1, <3>3 DEF Boundary, MessageBoundary, Between
    <3> QED BY <1>7, <3>2, <3>3
  <2> QED BY <1>1, <1>7, <2>1
<1> QED BY <1>4, <1>5, <1>6, <1>7 DEF Turn

-----------------------------------------------------------------------------
(* One lemma per operation: it keeps BusInvariant.                          *)

\* What the proofs carry from state to state.
SafeInv == TypeInv /\ BusInvariant

LEMMA SafeInit == Init => SafeInv
<1> SUFFICES ASSUME Init PROVE SafeInv
  OBVIOUS
<1>1. TypeInv
  BY TypeInit
<1>2. log = << >> /\ Len(log) = 0 /\ DOMAIN log = {}
  BY DEF Init, LogInit
<1>3. LogContiguous /\ StreamShape
  BY <1>2 DEF Init, LogInit, LogContiguous, StreamShape, Boundary, MessageBoundary
<1>4. InFlightDecided
  BY DEF Init, InFlightDecided
<1>5. \A p \in Processes : ProjectionExact(p) /\ OwnCommitStored(p)
  BY DEF Init, ProjectionExact, Complete, OwnCommitStored, NoTail
<1> QED BY <1>1, <1>3, <1>4, <1>5 DEF SafeInv, TypeInv, BusInvariant

LEMMA SafeBegin ==
  ASSUME SafeInv, NEW p \in Processes, NEW c \in Commands, Begin(p, c)
  PROVE  BusInvariant'
<1> USE DEF SafeInv, BusInvariant
<1>1. TypeInv' /\ UNCHANGED logVars /\ UNCHANGED <<projVars, snapshot>>
  BY TypeBegin DEF Begin
<1>2. version[p] \in Nat /\ 0 \in Nat /\ Boundary(version[p]) /\ events[p] = Between(0, version[p])
  BY DEF Begin, TypeInv, TypeOK, ProjectionExact, Complete, Boundary
<1>3. Turn(p, c, 0, version[p], Between(0, version[p]))
  BY <1>2 DEF Begin
<1>4. /\ InFlightDecided'
      /\ UNCHANGED tail
      /\ \A q \in Processes \ {p} : pc'[q] = pc[q] /\ running'[q] = running[q]
      /\ pc'[p] \in {"idle", "down", "appending"}
      /\ pc'[p] = "down" => c \in Creates
      /\ running'[p] \in {NoCommand, c}
  BY <1>1, <1>2, <1>3, TurnKeeps
<1>5. c \notin Creates /\ pc[p] = "idle"
  BY DEF Begin
<1>6. ASSUME NEW q \in Processes PROVE ProjectionExact(q)' /\ OwnCommitStored(q)'
  <2>1. CASE q # p
    BY <1>1, <1>4, <2>1, ProcessKept DEF projVars
  <2>2. CASE q = p
    <3>1. running'[p] \notin Creates /\ pc'[p] \in {"idle", "appending"}
      BY <1>4, <1>5, BusConstants
    <3>2. OwnCommitStored(p)'
      BY <3>1 DEF OwnCommitStored
    <3>3. ProjectionExact(p)'
      BY <1>1, <1>4, <1>5, <3>1
      DEF ProjectionExact, Complete, MessageBoundary, Between, logVars, projVars
    <3> QED BY <2>2, <3>2, <3>3
  <2> QED BY <2>1, <2>2
<1>7. LogContiguous' /\ StreamShape'
  BY <1>1, StreamKept
<1> QED BY <1>1, <1>4, <1>6, <1>7 DEF TypeInv

LEMMA SafeCreate ==
  ASSUME SafeInv, NEW p \in Processes, NEW c \in Commands, Create(p, c)
  PROVE  BusInvariant'
<1> USE DEF SafeInv, BusInvariant
<1>1. TypeInv' /\ UNCHANGED logVars
  BY TypeCreate DEF Create
<1>2. Boundary(0) /\ Between(0, 0) = << >> /\ 0 \in Nat /\ Len(log) \in Nat
  BY SubSeqEmpty, LenProperties DEF StreamShape, Between, TypeInv, TypeOK
<1>3. Turn(p, c, 0, 0, Between(0, 0))
  BY <1>2 DEF Create
<1>4. /\ InFlightDecided'
      /\ UNCHANGED tail
      /\ \A q \in Processes \ {p} : pc'[q] = pc[q] /\ running'[q] = running[q]
      /\ pc'[p] \in {"idle", "down", "appending"}
  BY <1>1, <1>2, <1>3, TurnKeeps
<1>5. /\ version' = [version EXCEPT ![p] = 0]
      /\ cursor' = [cursor EXCEPT ![p] = 0]
      /\ events' = [events EXCEPT ![p] = << >>]
      /\ pc[p] = "down"
  BY DEF Create
<1>6. ASSUME NEW q \in Processes PROVE ProjectionExact(q)' /\ OwnCommitStored(q)'
  <2>1. CASE q # p
    BY <1>1, <1>4, <1>5, <2>1, ProcessKept DEF TypeInv, TypeOK
  <2>2. CASE q = p
    <3>1. tail'[p] = NoTail
      BY <1>4, <1>5 DEF ProjectionExact
    <3>2. version'[p] = 0 /\ cursor'[p] = 0 /\ events'[p] = << >>
      BY <1>5 DEF TypeInv, TypeOK
    <3>3. OwnCommitStored(p)'
      BY <1>4 DEF OwnCommitStored
    <3>4. log' = log /\ Between(0, 0)' = << >> /\ MessageBoundary(0)'
      BY <1>1, <1>2 DEF logVars, Between, Boundary, MessageBoundary
    <3>5. ProjectionExact(p)'
      BY <1>2, <3>1, <3>2, <3>4 DEF ProjectionExact, Complete
    <3> QED BY <2>2, <3>3, <3>5
  <2> QED BY <2>1, <2>2
<1>7. LogContiguous' /\ StreamShape'
  BY <1>1, StreamKept
<1> QED BY <1>1, <1>4, <1>6, <1>7 DEF TypeInv

\* A commit that lands takes no process out of step with the stream.
LEMMA StoreKeeps ==
  ASSUME SafeInv, NEW m \in inflight, Admits(m.seq), Store(m.cmd, m.seq),
         inflight' \subseteq inflight
  PROVE  /\ LogContiguous' /\ StreamShape' /\ InFlightDecided'
         /\ m.seq = Len(log)
         /\ Boundary(Len(log))'
         /\ Len(log') = Len(log) + Size[m.cmd]
         /\ SubSeq(log', m.seq + 1, m.seq + Size[m.cmd]) = Envelopes(m.cmd, m.seq)
         /\ \A a, b \in 0..Len(log) : a <= b => Between(a, b)' = Between(a, b)
         /\ \A n \in 0..Len(log) : MessageBoundary(n) => MessageBoundary(n)'
<1> USE DEF SafeInv, BusInvariant
<1>1. m.cmd \in Commands /\ m.seq \in Nat /\ Boundary(m.seq) /\ TypeOK
  BY DEF TypeInv, TypeOK, InFlightDecided
<1>2. m.seq = Len(log)
  BY <1>1, AdmittedAtEnd
<1>3. /\ Len(log') = Len(log) + Size[m.cmd]
      /\ \A a, b \in 0..Len(log) : a <= b => Between(a, b)' = Between(a, b)
      /\ SubSeq(log', Len(log) + 1, Len(log) + Size[m.cmd]) = Envelopes(m.cmd, Len(log))
      /\ \A n \in 0..Len(log) : Boundary(n) => Boundary(n)'
      /\ Boundary(Len(log))'
      /\ LogContiguous'
      /\ StreamShape'
  BY <1>1, <1>2, StoreExtends
<1>4. \A n \in 0..Len(log) : MessageBoundary(n) => MessageBoundary(n)'
  BY <1>3 DEF Boundary
<1>5. InFlightDecided'
  <2> SUFFICES ASSUME NEW k \in inflight
               PROVE  /\ Boundary(k.seq)'
                      /\ ~ CommandSeen(k.cmd, Between(0, k.seq)')
                      /\ Emits(k.cmd, Between(0, k.seq)')
    BY DEF InFlightDecided
  <2>1. k.seq \in 0..Len(log) /\ 0 \in 0..Len(log) /\ 0 <= k.seq
    BY LenProperties DEF InFlightDecided, Boundary, TypeInv, TypeOK
  <2>2. Between(0, k.seq)' = Between(0, k.seq)
    BY <1>3, <2>1
  <2> QED BY <1>3, <2>1, <2>2 DEF InFlightDecided
<1> QED BY <1>2, <1>3, <1>4, <1>5

\* A process that neither moves nor is acknowledged keeps its place when a commit lands.
LEMMA ProcessKeptByStore ==
  ASSUME TypeOK, NEW q \in Processes, ProjectionExact(q), OwnCommitStored(q), Busy(q),
         pc'[q] = pc[q], running'[q] = running[q], UNCHANGED <<projVars, tail>>,
         Len(log) <= Len(log'),
         Len(log') \in Nat,
         \A a, b \in 0..Len(log) : a <= b => Between(a, b)' = Between(a, b),
         \A n \in 0..Len(log) : MessageBoundary(n) => MessageBoundary(n)'
  PROVE  ProjectionExact(q)' /\ OwnCommitStored(q)'
<1>1. version[q] \in Nat /\ Len(log) \in Nat
  BY LenProperties DEF TypeOK
<1>2. version' = version /\ cursor' = cursor /\ events' = events /\ tail' = tail
  BY DEF projVars
<1>3. ProjectionExact(q)'
  <2>1. ASSUME pc[q] # "down"
        PROVE  /\ version[q] <= Len(log')
               /\ events[q] = Between(0, version[q])'
               /\ MessageBoundary(version[q])'
    <3>1. version[q] \in 0..Len(log) /\ 0 \in 0..Len(log) /\ 0 <= version[q]
      BY <1>1, <2>1 DEF ProjectionExact, Complete
    <3>2. Between(0, version[q])' = Between(0, version[q])
      <4> DEFINE v == version[q]
      <4> HIDE DEF v
      <4>1. v' = v
        BY <1>2 DEF v
      <4>2. \A b \in 0..Len(log) : Between(0, b)' = Between(0, b)
        BY <3>1, <1>1
      <4> QED BY <1>2, <3>1, <4>1, <4>2 DEF Between, v
    <3>3. MessageBoundary(version[q])'
      BY <1>2, <2>1, <3>1 DEF ProjectionExact, MessageBoundary
    <3> QED BY <1>1, <2>1, <3>1, <3>2, <3>3 DEF ProjectionExact, Complete
  <2> QED BY <1>2, <2>1 DEF ProjectionExact, Complete
<1>4. OwnCommitStored(q)'
  <2> SUFFICES ASSUME pc[q] = "acked" PROVE OwnCommitStored(q)'
    BY DEF OwnCommitStored
  <2>1. running[q] \in Commands
    BY DEF TypeOK, Busy
  <2>2. Size[running[q]] \in Nat
    BY <2>1, CommandAttributes
  <2> DEFINE v == version[q]
             n == Size[running[q]]
  <2>3. /\ v + n <= Len(log) /\ MessageBoundary(v + n)
        /\ SubSeq(log, v + 1, v + n) = Envelopes(running[q], v)
    BY DEF OwnCommitStored, Boundary
  <2>4. v \in 0..Len(log) /\ v + n \in 0..Len(log) /\ v <= v + n
    BY <1>1, <2>2, <2>3
  <2>5. SubSeq(log', v + 1, v + n) = SubSeq(log, v + 1, v + n)
    BY <2>4 DEF Between
  <2>6. v + n < Len(log') => log'[v + n + 1].first
    BY <2>3, <2>4 DEF MessageBoundary
  <2>7. v + n <= Len(log')
    BY <1>1, <2>4
  <2>8. SubSeq(log', v + 1, v + n) = Envelopes(running[q], v)
    BY <2>3, <2>5
  <2>9. version'[q] = v /\ running'[q] = running[q] /\ Size[running'[q]] = n
    BY <1>2
  <2> HIDE DEF v, n
  <2> QED BY <2>6, <2>7, <2>8, <2>9 DEF OwnCommitStored, Boundary, MessageBoundary
<1> QED BY <1>3, <1>4

LEMMA SafeServe ==
  ASSUME SafeInv, NEW m \in inflight, ServeAnswered(m) \/ ServeUnanswered(m)
  PROVE  BusInvariant'
<1> USE DEF SafeInv, BusInvariant
<1>1. TypeInv' /\ inflight' \subseteq inflight /\ running' = running /\ UNCHANGED <<projVars, tail>>
  BY TypeServe DEF ServeAnswered, ServeUnanswered, callVars
<1>2. m.proc \in Processes /\ m.cmd \in Commands /\ m.seq \in Nat
  BY DEF TypeInv, TypeOK
<1>3. CASE Admits(m.seq) /\ Store(m.cmd, m.seq)
  <2>1. /\ LogContiguous' /\ StreamShape' /\ InFlightDecided'
        /\ m.seq = Len(log)
        /\ Boundary(Len(log))'
        /\ Len(log') = Len(log) + Size[m.cmd]
        /\ SubSeq(log', m.seq + 1, m.seq + Size[m.cmd]) = Envelopes(m.cmd, m.seq)
        /\ \A a, b \in 0..Len(log) : a <= b => Between(a, b)' = Between(a, b)
        /\ \A n \in 0..Len(log) : MessageBoundary(n) => MessageBoundary(n)'
    BY <1>1, <1>3, StoreKeeps
  <2>2. Len(log) <= Len(log') /\ Len(log') \in Nat
    BY <1>2, <2>1, CommandAttributes
  <2>3. ASSUME NEW q \in Processes, pc'[q] = pc[q]
        PROVE  ProjectionExact(q)' /\ OwnCommitStored(q)'
    <3>1. running'[q] = running[q] /\ TypeOK
      BY <1>1 DEF TypeInv
    <3> QED BY <1>1, <2>1, <2>2, <2>3, <3>1, ProcessKeptByStore
  <2>4. CASE UNCHANGED pc
    BY <1>1, <2>1, <2>3, <2>4 DEF TypeInv
  <2>5. CASE Waiting(m) /\ pc' = [pc EXCEPT ![m.proc] = "acked"]
    <3> DEFINE p == m.proc
    <3>1. ASSUME NEW q \in Processes, q # p
          PROVE  ProjectionExact(q)' /\ OwnCommitStored(q)'
      <4>1. pc'[q] = pc[q]
        BY <2>5, <3>1 DEF TypeInv, TypeOK
      <4> QED BY <2>3, <4>1
    <3>2. pc[p] = "appending" /\ running[p] = m.cmd /\ version[p] = m.seq /\ pc'[p] = "acked"
      BY <1>2, <2>5 DEF Waiting, TypeInv, TypeOK
    <3>3. version'[p] = m.seq /\ running'[p] = m.cmd /\ version' = version
      BY <1>1, <3>2 DEF projVars
    <3>4. m.seq + Size[m.cmd] <= Len(log') /\ ~ (m.seq + Size[m.cmd] < Len(log'))
      BY <1>2, <2>1, CommandAttributes
    <3>5. OwnCommitStored(p)'
      BY <2>1, <3>3, <3>4 DEF OwnCommitStored, Boundary, MessageBoundary
    <3>6. ProjectionExact(p)'
      <4>1. /\ events[p] = Between(0, m.seq)
            /\ MessageBoundary(m.seq)
            /\ cursor[p] <= m.seq
            /\ tail[p] # NoTail => tail[p] <= m.seq
            /\ running[p] \in Creates => tail[p] = NoTail
        BY <1>2, <3>2 DEF ProjectionExact, Complete
      <4>2. m.seq \in 0..Len(log) /\ 0 \in 0..Len(log) /\ 0 <= m.seq
        BY <1>2, <2>1
      <4>3. Between(0, m.seq)' = Between(0, m.seq) /\ MessageBoundary(m.seq)'
        BY <2>1, <4>1, <4>2
      <4>4. m.seq <= Len(log')
        BY <1>2, <2>1, <2>2
      <4>5. cursor' = cursor /\ events' = events /\ tail' = tail
        BY <1>1 DEF projVars
      <4> QED BY <1>1, <3>2, <3>3, <4>1, <4>3, <4>4, <4>5
              DEF ProjectionExact, Complete, Between, MessageBoundary
    <3> QED BY <1>1, <2>1, <3>1, <3>5, <3>6 DEF TypeInv
  <2> QED BY <1>2, <1>3, <2>4, <2>5 DEF ServeAnswered, ServeUnanswered
<1>4. CASE ~ Admits(m.seq) /\ UNCHANGED logVars /\ Waiting(m) /\ pc' = [pc EXCEPT ![m.proc] = "stale"]
  <2>1. LogContiguous' /\ StreamShape' /\ InFlightDecided'
    BY <1>1, <1>4, StreamKept, InFlightKept
  <2>2. ASSUME NEW q \in Processes PROVE ProjectionExact(q)' /\ OwnCommitStored(q)'
    <3>1. CASE q # m.proc
      <4>1. pc'[q] = pc[q]
        BY <1>4, <3>1 DEF TypeInv, TypeOK
      <4> QED BY <1>1, <1>4, <4>1, ProcessKept DEF projVars
    <3>2. CASE q = m.proc
      <4>1. pc'[q] = "stale" /\ pc[q] = "appending"
        BY <1>2, <1>4, <3>2 DEF Waiting, TypeInv, TypeOK
      <4> QED BY <1>1, <1>4, <4>1
              DEF ProjectionExact, OwnCommitStored, Complete, Between, MessageBoundary, logVars, projVars
    <3> QED BY <3>1, <3>2
  <2> QED BY <1>1, <2>1, <2>2 DEF TypeInv
<1> QED BY <1>3, <1>4 DEF ServeAnswered, ServeUnanswered

LEMMA SafeFail ==
  ASSUME SafeInv, NEW p \in Processes, Fail(p)
  PROVE  BusInvariant'
<1> USE DEF SafeInv, BusInvariant
<1>1. /\ TypeInv' /\ inflight' \subseteq inflight
      /\ UNCHANGED logVars /\ UNCHANGED projVars
      /\ Return(p, running[p], "unknown", 0)
      /\ pc[p] \in {"appending", "stale"}
  BY TypeFail DEF Fail
<1>2. LogContiguous' /\ StreamShape' /\ InFlightDecided'
  BY <1>1, StreamKept, InFlightKept
<1>3. /\ UNCHANGED tail
      /\ running' = [running EXCEPT ![p] = NoCommand]
      /\ \/ pc' = [pc EXCEPT ![p] = "idle"]
         \/ pc' = [pc EXCEPT ![p] = "down"] /\ running[p] \in Creates
  BY <1>1 DEF Return
<1>4. ASSUME NEW q \in Processes PROVE ProjectionExact(q)' /\ OwnCommitStored(q)'
  <2>1. CASE q # p
    <3>1. pc'[q] = pc[q] /\ running'[q] = running[q]
      BY <1>3, <2>1 DEF TypeInv, TypeOK
    <3> QED BY <1>1, <1>3, <3>1, ProcessKept DEF projVars
  <2>2. CASE q = p
    <3>1. /\ running'[p] = NoCommand
          /\ pc'[p] = "idle" \/ (pc'[p] = "down" /\ running[p] \in Creates)
      BY <1>3 DEF TypeInv, TypeOK
    <3>2. running'[p] \notin Creates
      BY <3>1, BusConstants
    <3> QED BY <1>1, <1>3, <2>2, <3>1, <3>2
            DEF ProjectionExact, OwnCommitStored, Complete, Between, MessageBoundary, logVars, projVars
  <2> QED BY <2>1, <2>2
<1> QED BY <1>1, <1>2, <1>4 DEF TypeInv

LEMMA SafeAbsorb ==
  ASSUME SafeInv, NEW p \in Processes, Absorb(p)
  PROVE  BusInvariant'
<1> USE DEF SafeInv, BusInvariant
<1> DEFINE v == version[p]
           n == Size[running[p]]
<1>1. /\ TypeInv' /\ UNCHANGED logVars
      /\ UNCHANGED <<inflight, running, cursor, tail>>
      /\ pc[p] = "acked"
      /\ pc' = [pc EXCEPT ![p] = "absorbed"]
      /\ FoldInto(p, Envelopes(running[p], v))
  BY TypeAbsorb DEF Absorb, callVars
<1>2. LogContiguous' /\ StreamShape' /\ InFlightDecided'
  BY <1>1, StreamKept, InFlightKept
<1>3. running[p] \in Commands /\ n \in Nat /\ v \in Nat /\ TypeOK
  <2>1. running[p] \in Commands
    BY <1>1 DEF TypeInv, TypeOK, Busy
  <2>2. v \in Nat /\ TypeOK
    BY DEF TypeInv, TypeOK
  <2> QED BY <2>1, <2>2, CommandAttributes
<1>4. v + n <= Len(log) /\ MessageBoundary(v + n) /\ Between(v, v + n) = Envelopes(running[p], v)
  BY <1>1 DEF OwnCommitStored, Boundary, Between
<1>5. events[p] = Between(0, v)
  BY <1>1 DEF ProjectionExact, Complete
<1>6. /\ version' = [version EXCEPT ![p] = v + n]
      /\ events' = [events EXCEPT ![p] = Between(0, v + n)]
  <2>1. v + n \in Nat /\ v <= v + n /\ FoldInto(p, Between(v, v + n))
    BY <1>1, <1>3, <1>4
  <2> QED BY <1>3, <1>4, <1>5, <2>1, FoldSegment
<1>7. ASSUME NEW q \in Processes PROVE ProjectionExact(q)' /\ OwnCommitStored(q)'
  <2>1. CASE q # p
    BY <1>1, <1>6, <2>1, ProcessKept DEF TypeInv, TypeOK
  <2>2. CASE q = p
    <3>1. pc'[p] = "absorbed" /\ version'[p] = v + n /\ events'[p] = Between(0, v + n)
      BY <1>1, <1>6 DEF TypeInv, TypeOK
    <3>2. OwnCommitStored(p)'
      BY <3>1 DEF OwnCommitStored
    <3>3. log' = log /\ cursor'[p] = cursor[p] /\ tail'[p] = tail[p] /\ running'[p] = running[p]
      BY <1>1 DEF logVars
    <3>4. cursor[p] <= v /\ (tail[p] # NoTail => tail[p] <= v) /\ (running[p] \in Creates => tail[p] = NoTail)
      BY <1>1 DEF ProjectionExact
    <3>5. cursor[p] <= v + n /\ (tail[p] # NoTail => tail[p] <= v + n)
      <4>1. cursor[p] \in Nat /\ tail[p] \in Nat \cup {NoTail} /\ n \in Nat /\ v \in Nat
        BY <1>3 DEF TypeOK
      <4> HIDE DEF v, n
      <4> QED BY <3>4, <4>1
    <3> HIDE DEF v, n
    <3>6. ProjectionExact(p)'
      BY <1>4, <3>1, <3>3, <3>4, <3>5 DEF ProjectionExact, Complete, Between, MessageBoundary
    <3> QED BY <2>2, <3>2, <3>6
  <2> QED BY <2>1, <2>2
<1> QED BY <1>1, <1>2, <1>7 DEF TypeInv

LEMMA SafeSettle ==
  ASSUME SafeInv, NEW p \in Processes, Settle(p)
  PROVE  BusInvariant'
<1> USE DEF SafeInv, BusInvariant
<1>1. /\ TypeInv' /\ UNCHANGED logVars
      /\ UNCHANGED <<inflight, version, cursor, events>>
      /\ pc[p] = "absorbed"
      /\ Return(p, running[p], "ok", version[p])
  BY TypeSettle DEF Settle
<1>2. LogContiguous' /\ StreamShape' /\ InFlightDecided'
  BY <1>1, StreamKept, InFlightKept
<1>3. /\ pc' = [pc EXCEPT ![p] = "idle"]
      /\ running' = [running EXCEPT ![p] = NoCommand]
      /\ tail' = tail \/ tail' = [tail EXCEPT ![p] = cursor[p]]
  BY <1>1 DEF Return
<1>4. ASSUME NEW q \in Processes PROVE ProjectionExact(q)' /\ OwnCommitStored(q)'
  <2>1. CASE q # p
    <3>1. pc'[q] = pc[q] /\ running'[q] = running[q] /\ tail'[q] = tail[q]
      BY <1>3, <2>1 DEF TypeInv, TypeOK
    <3> QED BY <1>1, <3>1, ProcessKept
  <2>2. CASE q = p
    <3>1. /\ pc'[p] = "idle" /\ running'[p] = NoCommand /\ NoCommand \notin Creates
          /\ tail'[p] \in {tail[p], cursor[p]}
      BY <1>3, BusConstants DEF TypeInv, TypeOK
    <3>2. OwnCommitStored(p)'
      BY <3>1 DEF OwnCommitStored
    <3>3. /\ version[p] <= Len(log) /\ events[p] = Between(0, version[p])
          /\ MessageBoundary(version[p])
          /\ cursor[p] <= version[p]
          /\ tail[p] # NoTail => tail[p] <= version[p]
      BY <1>1 DEF ProjectionExact, Complete
    <3>4. log' = log /\ version' = version /\ events' = events /\ cursor' = cursor
      BY <1>1 DEF logVars
    <3>5. ProjectionExact(p)'
      BY <3>1, <3>3, <3>4 DEF ProjectionExact, Complete, Between, MessageBoundary
    <3> QED BY <2>2, <3>2, <3>5
  <2> QED BY <2>1, <2>2
<1> QED BY <1>1, <1>2, <1>4 DEF TypeInv

LEMMA CommitContinues ==
  ASSUME StreamShape, NEW i \in DOMAIN log, ~ log[i].first
  PROVE  i > 1 /\ log[i - 1].cmd = log[i].cmd
<1>1. \A j \in DOMAIN log : ~ log[j].first => j > 1 /\ log[j - 1].cmd = log[j].cmd
  BY DEF StreamShape
<1> QED BY <1>1

\* A fold that stops stops between two commits.
LEMMA FoldsWholeCommits ==
  ASSUME WholeCommits, TypeOK, StreamShape, NEW p \in Processes,
         NEW v \in Nat, NEW to \in Nat, Boundary(v), v <= to, Boundary(to)
  PROVE  \E n \in v..to : Boundary(n) /\ Foldable(p, Between(v, to)) = Between(v, n)
<1> DEFINE batch == Between(v, to)
           stops == Unfoldable(p, batch)
<1>1. Len(log) \in Nat /\ log \in Seq(Event) /\ DOMAIN log = 1..Len(log) /\ to <= Len(log)
  BY LenProperties DEF TypeOK, Boundary
<1>2. /\ batch \in Seq(Event) /\ Len(batch) = to - v /\ DOMAIN batch = 1..(to - v)
      /\ \A i \in 1..(to - v) : batch[i] = log[v + i]
  <2>1. batch \in Seq(Event) /\ Len(batch) = to - v /\ \A i \in 1..(to - v) : batch[i] = log[v + i]
    BY <1>1, BetweenIs
  <2> HIDE DEF batch
  <2> QED BY <2>1, LenProperties
<1>3. CASE stops = {}
  BY <1>3 DEF Foldable
<1>4. CASE stops # {}
  <2> DEFINE k == Min(stops)
  <2>1. k \in stops /\ \A i \in stops : k <= i
    <3>1. stops \in SUBSET Nat
      BY <1>2 DEF Unfoldable
    <3> HIDE DEF stops
    <3> QED BY <1>4, <3>1, MinOfNaturals
  <2>2. /\ k \in 1..(to - v)
        /\ [cmd |-> log[v + k].cmd, first |-> log[v + k].first] \in Unknown[p]
        /\ \A i \in 1..(k - 1) : [cmd |-> log[v + i].cmd, first |-> log[v + i].first] \notin Unknown[p]
    <3>1. \A i \in 1..(to - v) :
            i \in stops <=> [cmd |-> log[v + i].cmd, first |-> log[v + i].first] \in Unknown[p]
      BY <1>2 DEF Unfoldable
    <3>2. k \in 1..(to - v)
      <4>1. stops \subseteq 1..(to - v)
        BY <1>2 DEF Unfoldable
      <4> QED BY <2>1, <4>1
    <3> HIDE DEF stops
    <3> QED BY <2>1, <3>1, <3>2
  <2> HIDE DEF k
  <2>3. log[v + k].first
    <3>1. SUFFICES ASSUME ~ log[v + k].first PROVE FALSE
      OBVIOUS
    <3>2. v + k \in DOMAIN log /\ v + k - 1 \in DOMAIN log /\ log[v + k - 1].cmd = log[v + k].cmd
      <4>1. v + k \in DOMAIN log
        BY <1>1, <2>2
      <4>2. v + k > 1 /\ log[v + k - 1].cmd = log[v + k].cmd
        <5>1. \A j \in DOMAIN log : ~ log[j].first => j > 1 /\ log[j - 1].cmd = log[j].cmd
          BY CommitContinues
        <5> QED BY <2>2, <3>1, <4>1, <5>1
      <4> QED BY <1>1, <2>2, <4>1, <4>2
    <3>3. k > 1
      <4>1. k = 1 => log[v + k].first
        BY <1>1, <2>2 DEF Boundary, MessageBoundary
      <4> QED BY <2>2, <3>1, <4>1
    <3>4. k - 1 \in 1..(k - 1) /\ v + (k - 1) = v + k - 1
      BY <2>2, <3>3
    <3>5. [cmd |-> log[v + k - 1].cmd, first |-> log[v + k - 1].first] \notin Unknown[p]
      BY <2>2, <3>4
    <3>6. \A i \in DOMAIN log : log[i].cmd \in Commands /\ log[i].first \in BOOLEAN
      <4>1. \A i \in DOMAIN log : log[i] \in Event
        BY <1>1, ElementOfSeq
      <4> QED BY <4>1 DEF Event
    <3>7. CASE log[v + k - 1].first
      BY <2>2, <3>1, <3>2, <3>5, <3>6, <3>7 DEF WholeCommits
    <3>8. CASE ~ log[v + k - 1].first
      BY <2>2, <3>1, <3>2, <3>5, <3>6, <3>8
    <3> QED BY <3>7, <3>8
  <2>4. Boundary(v + (k - 1)) /\ v + (k - 1) \in v..to
    BY <1>1, <2>2, <2>3 DEF Boundary, MessageBoundary
  <2>5. SubSeq(batch, 1, k - 1) = Between(v, v + (k - 1))
    <3>1. Between(v, v + (k - 1)) \in Seq(Event) /\ Len(Between(v, v + (k - 1))) = k - 1
          /\ \A i \in 1..(k - 1) : Between(v, v + (k - 1))[i] = log[v + i]
      <4> DEFINE w == v + (k - 1)
      <4>1. w \in Nat /\ v <= w /\ w <= Len(log) /\ w - v = k - 1
        BY <1>1, <2>2
      <4> HIDE DEF w
      <4>2. /\ Between(v, w) \in Seq(Event) /\ Len(Between(v, w)) = w - v
            /\ \A i \in 1..(w - v) : Between(v, w)[i] = log[v + i]
        BY <4>1, BetweenIs
      <4> QED BY <4>1, <4>2 DEF w
    <3>2. /\ SubSeq(batch, 1, k - 1) \in Seq(Event)
          /\ Len(SubSeq(batch, 1, k - 1)) = k - 1
          /\ \A i \in 1..(k - 1) : SubSeq(batch, 1, k - 1)[i] = log[v + i]
      <4>1. \A i \in 1..(k - 1) : batch[i] \in Event /\ batch[i] = log[v + i]
        BY <1>1, <1>2, <2>2, ElementOfSeq
      <4>2. 1 \in Int /\ k - 1 \in Int /\ k - 1 - 1 + 1 = k - 1 /\ (k - 1 < 1 => k - 1 = 0)
            /\ \A i \in 1..(k - 1) : 1 + i - 1 = i
        BY <2>2
      <4> HIDE DEF batch
      <4>3. /\ SubSeq(batch, 1, k - 1) \in Seq(Event)
            /\ Len(SubSeq(batch, 1, k - 1)) = IF 1 <= k - 1 THEN k - 1 - 1 + 1 ELSE 0
            /\ \A i \in 1..(k - 1 - 1 + 1) : SubSeq(batch, 1, k - 1)[i] = batch[1 + i - 1]
        BY <4>1, <4>2, SubSeqProperties
      <4> QED BY <2>2, <4>1, <4>2, <4>3
    <3> HIDE DEF batch
    <3> QED BY <3>1, <3>2, SeqEqual
  <2>6. Foldable(p, batch) = SubSeq(batch, 1, k - 1)
    BY <1>4 DEF Foldable, k
  <2> QED BY <2>4, <2>5, <2>6
<1> QED BY <1>3, <1>4

\* A rebase folds whole commits, and takes its next turn on all of the stream or gives up.
LEMMA RebaseFolds ==
  ASSUME WholeCommits, SafeInv, NEW p \in Processes, Rebase(p)
  PROVE  \E n \in version[p]..Len(log) :
           /\ Boundary(n)
           /\ version' = [version EXCEPT ![p] = n]
           /\ events' = [events EXCEPT ![p] = Between(0, n)]
           /\ \/ /\ n = Len(log)
                 /\ cursor' = [cursor EXCEPT ![p] = n]
                 /\ Turn(p, running[p], attempts[p] + 1, n, Between(0, n))
              \/ /\ Return(p, running[p], "unknown", 0)
                 /\ UNCHANGED <<cursor, inflight, applied>>
<1> USE DEF SafeInv, BusInvariant
<1> DEFINE len == Len(log)
           v == version[p]
           fresh == Fresh(Between(cursor[p], len), v)
<1>1. pc[p] = "stale" /\ TypeOK /\ LogContiguous /\ StreamShape
  BY DEF Rebase, TypeInv
<1>2. len \in Nat /\ v \in Nat /\ cursor[p] \in Nat
  BY LenProperties DEF TypeInv, TypeOK
<1>3. events[p] = Between(0, v) /\ v <= len /\ cursor[p] <= v /\ Boundary(v)
  BY <1>1 DEF ProjectionExact, Complete, Boundary
<1>4. fresh = Between(v, len)
  <2>1. Fresh(Between(cursor[p], len), v) = IF v < len THEN Between(v, len) ELSE << >>
    BY <1>1, <1>2, <1>3, FreshOfLog
  <2>2. ~ (v < len) => Between(v, len) = << >>
    BY <1>2, SubSeqEmpty DEF Between
  <2> QED BY <2>1, <2>2
<1>5. PICK n \in v..len : Boundary(n) /\ Foldable(p, Between(v, len)) = Between(v, n)
  <2>1. Boundary(len)
    BY <1>2 DEF Boundary, MessageBoundary
  <2> QED BY <1>1, <1>2, <1>3, <2>1, FoldsWholeCommits
<1>6. FoldInto(p, Between(v, n))
  BY <1>4, <1>5 DEF Rebase
<1>7. /\ version' = [version EXCEPT ![p] = n]
      /\ events' = [events EXCEPT ![p] = Between(0, n)]
  BY <1>1, <1>2, <1>3, <1>5, <1>6, FoldSegment
<1>8. CASE Between(v, n) = Between(v, len)
  <2>1. n = len
    <3>1. Len(Between(v, n)) = n - v /\ Len(Between(v, len)) = len - v
      <4>1. n \in Nat /\ v <= n /\ n <= len /\ len <= len
        BY <1>2, <1>3, <1>5
      <4> HIDE DEF len, v
      <4>2. Len(Between(v, n)) = n - v
        BY <1>1, <1>2, <4>1, BetweenIs DEF len
      <4>3. Len(Between(v, len)) = len - v
        BY <1>1, <1>2, <1>3, <4>1, BetweenIs DEF len
      <4> QED BY <4>2, <4>3
    <3> QED BY <1>2, <1>5, <1>8, <3>1
  <2>2. cursor' = [cursor EXCEPT ![p] = len] /\ Turn(p, running[p], attempts[p] + 1, version'[p], events'[p])
    BY <1>4, <1>5, <1>8 DEF Rebase
  <2>3. version'[p] = len /\ events'[p] = Between(0, len)
    BY <1>7, <2>1 DEF TypeInv, TypeOK
  <2> QED BY <1>5, <1>7, <2>1, <2>2, <2>3
<1>9. CASE Between(v, n) # Between(v, len)
  <2>1. Return(p, running[p], "unknown", 0) /\ UNCHANGED <<cursor, inflight, applied>>
    BY <1>4, <1>5, <1>9 DEF Rebase
  <2> QED BY <1>5, <1>7, <2>1
<1> QED BY <1>8, <1>9

LEMMA SafeRebase ==
  ASSUME WholeCommits, SafeInv, NEW p \in Processes, Rebase(p)
  PROVE  BusInvariant'
<1> USE DEF SafeInv, BusInvariant
<1>1. TypeInv' /\ UNCHANGED logVars /\ pc[p] = "stale"
  BY TypeRebase DEF Rebase
<1>2. LogContiguous' /\ StreamShape'
  BY <1>1, StreamKept
<1>3. PICK n \in version[p]..Len(log) :
        /\ Boundary(n)
        /\ version' = [version EXCEPT ![p] = n]
        /\ events' = [events EXCEPT ![p] = Between(0, n)]
        /\ \/ /\ n = Len(log)
              /\ cursor' = [cursor EXCEPT ![p] = n]
              /\ Turn(p, running[p], attempts[p] + 1, n, Between(0, n))
           \/ /\ Return(p, running[p], "unknown", 0)
              /\ UNCHANGED <<cursor, inflight, applied>>
  BY RebaseFolds
<1>4. /\ running[p] \in Commands /\ attempts[p] + 1 \in Nat /\ TypeOK
      /\ version[p] \in Nat /\ Len(log) \in Nat /\ n \in Nat /\ cursor[p] \in Nat
  <2>1. running[p] \in Commands /\ attempts[p] \in Nat /\ TypeOK
    BY <1>1 DEF TypeInv, TypeOK, Busy
  <2>2. version[p] \in Nat /\ Len(log) \in Nat /\ cursor[p] \in Nat
    BY LenProperties DEF TypeInv, TypeOK
  <2> QED BY <2>1, <2>2
<1>5. /\ version[p] <= n /\ n <= Len(log) /\ cursor[p] <= version[p]
      /\ (tail[p] # NoTail => tail[p] <= version[p])
      /\ (running[p] \in Creates => tail[p] = NoTail)
  BY <1>1, <1>3, <1>4 DEF ProjectionExact
<1>6. /\ InFlightDecided'
      /\ UNCHANGED tail
      /\ \A q \in Processes \ {p} : pc'[q] = pc[q] /\ running'[q] = running[q]
      /\ pc'[p] \in {"idle", "down", "appending"}
      /\ pc'[p] = "down" => running[p] \in Creates
      /\ running'[p] \in {NoCommand, running[p]}
      /\ cursor' \in {cursor, [cursor EXCEPT ![p] = n]}
  <2>1. CASE /\ cursor' = [cursor EXCEPT ![p] = n]
             /\ Turn(p, running[p], attempts[p] + 1, n, Between(0, n))
    BY <1>1, <1>3, <1>4, <2>1, TurnKeeps
  <2>2. CASE Return(p, running[p], "unknown", 0) /\ UNCHANGED <<cursor, inflight, applied>>
    <3>1. InFlightDecided'
      BY <1>1, <2>2, InFlightKept
    <3> QED BY <2>2, <3>1 DEF Return, TypeInv, TypeOK
  <2> QED BY <1>3, <2>1, <2>2
<1>7. /\ version'[p] = n /\ events'[p] = Between(0, n) /\ cursor'[p] \in {cursor[p], n}
      /\ \A q \in Processes \ {p} : /\ version'[q] = version[q] /\ events'[q] = events[q]
                                   /\ cursor'[q] = cursor[q]
  BY <1>3, <1>6 DEF TypeInv, TypeOK
<1>8. ASSUME NEW q \in Processes PROVE ProjectionExact(q)' /\ OwnCommitStored(q)'
  <2>1. CASE q # p
    BY <1>1, <1>6, <1>7, <2>1, ProcessKept
  <2>2. CASE q = p
    <3>1. OwnCommitStored(p)'
      BY <1>6 DEF OwnCommitStored
    <3>2. log' = log /\ tail'[p] = tail[p] /\ NoCommand \notin Creates
      BY <1>1, <1>6, BusConstants DEF logVars
    <3>3. (tail[p] # NoTail => tail[p] <= n) /\ cursor'[p] <= n
      <4>1. tail[p] \in Nat \cup {NoTail}
        BY DEF TypeInv, TypeOK
      <4> QED BY <1>4, <1>5, <1>7, <4>1
    <3>4. ProjectionExact(p)'
      BY <1>3, <1>5, <1>6, <1>7, <3>2, <3>3
         DEF ProjectionExact, Complete, Boundary, Between, MessageBoundary
    <3> QED BY <2>2, <3>1, <3>4
  <2> QED BY <2>1, <2>2
<1> QED BY <1>1, <1>2, <1>6, <1>8 DEF TypeInv

LEMMA SafeTailBatch ==
  ASSUME SafeInv, NEW p \in Processes, NEW to \in 1..Len(log), TailBatch(p, to)
  PROVE  BusInvariant'
<1> USE DEF SafeInv, BusInvariant
<1>1. /\ TypeInv' /\ UNCHANGED logVars
      /\ UNCHANGED <<inflight, pc, running>>
      /\ pc[p] = "idle"
      /\ tail[p] # NoTail
      /\ to \in (tail[p] + 1)..Len(log)
      /\ MessageBoundary(to)
      /\ cursor' = [cursor EXCEPT ![p] = to]
      /\ tail' = [tail EXCEPT ![p] = to]
      /\ FoldInto(p, Fresh(Between(tail[p], to), version[p]))
  BY TypeTailBatch DEF TailBatch, callVars
<1>2. LogContiguous' /\ StreamShape' /\ InFlightDecided'
  BY <1>1, StreamKept, InFlightKept
<1>3. Len(log) \in Nat /\ version[p] \in Nat /\ tail[p] \in Nat /\ to \in Nat /\ to <= Len(log) /\ TypeOK
  <2>1. Len(log) \in Nat /\ version[p] \in Nat /\ tail[p] \in Nat /\ TypeOK
    BY <1>1, LenProperties DEF TypeInv, TypeOK
  <2> QED BY <2>1
<1>4. /\ events[p] = Between(0, version[p])
      /\ version[p] <= Len(log)
      /\ MessageBoundary(version[p])
      /\ tail[p] <= version[p]
      /\ running[p] \notin Creates
  BY <1>1 DEF ProjectionExact, Complete
<1>5. PICK n \in {version[p], to} :
        /\ version[p] <= n
        /\ to <= n
        /\ version' = [version EXCEPT ![p] = n]
        /\ events' = [events EXCEPT ![p] = Between(0, n)]
  BY <1>1, <1>3, <1>4, FoldFresh
<1>6. ASSUME NEW q \in Processes PROVE ProjectionExact(q)' /\ OwnCommitStored(q)'
  <2>1. CASE q # p
    BY <1>1, <1>5, <2>1, ProcessKept DEF TypeInv, TypeOK
  <2>2. CASE q = p
    <3>1. /\ pc'[p] = "idle" /\ running'[p] = running[p]
          /\ cursor'[p] = to /\ tail'[p] = to
          /\ version'[p] = n /\ events'[p] = Between(0, n)
      BY <1>1, <1>5 DEF TypeInv, TypeOK
    <3>2. OwnCommitStored(p)'
      BY <3>1 DEF OwnCommitStored
    <3>3. log' = log /\ n <= Len(log) /\ MessageBoundary(n)
      BY <1>1, <1>3, <1>4, <1>5 DEF logVars
    <3>4. ProjectionExact(p)'
      BY <1>4, <1>5, <3>1, <3>3 DEF ProjectionExact, Complete, Between, MessageBoundary
    <3> QED BY <2>2, <3>2, <3>4
  <2> QED BY <2>1, <2>2
<1> QED BY <1>1, <1>2, <1>6 DEF TypeInv

LEMMA SafeLoseTail ==
  ASSUME SafeInv, NEW p \in Processes, LoseTail(p)
  PROVE  BusInvariant'
<1> USE DEF SafeInv, BusInvariant
<1>1. /\ TypeInv' /\ UNCHANGED logVars
      /\ UNCHANGED <<inflight, pc, running, version, cursor, events>>
      /\ tail' = [tail EXCEPT ![p] = NoTail]
  BY TypeLoseTail DEF LoseTail, callVars, projVars
<1>2. LogContiguous' /\ StreamShape' /\ InFlightDecided'
  BY <1>1, StreamKept, InFlightKept
<1>3. ASSUME NEW q \in Processes PROVE ProjectionExact(q)' /\ OwnCommitStored(q)'
  <2>1. tail'[q] = tail[q] \/ tail'[q] = NoTail
    BY <1>1 DEF TypeInv, TypeOK
  <2> QED BY <1>1, <2>1, ProcessKept
<1> QED BY <1>1, <1>2, <1>3 DEF TypeInv

LEMMA SafeOpen ==
  ASSUME SafeInv, NEW p \in Processes, Open(p)
  PROVE  BusInvariant'
<1> USE DEF SafeInv, BusInvariant
<1> DEFINE len == Len(log)
<1>1. /\ TypeInv' /\ UNCHANGED logVars
      /\ UNCHANGED <<inflight, running>>
      /\ pc[p] = "down"
      /\ log # << >>
      /\ pc' = [pc EXCEPT ![p] = "idle"]
      /\ events' = [events EXCEPT ![p] = log]
      /\ version' = [version EXCEPT ![p] = log[len].version + 1]
      /\ cursor' = [cursor EXCEPT ![p] = len]
      /\ tail' = [tail EXCEPT ![p] = len]
  BY TypeOpen DEF Open, callVars
<1>2. LogContiguous' /\ StreamShape' /\ InFlightDecided'
  BY <1>1, StreamKept, InFlightKept
<1>3. log \in Seq(Event) /\ len \in Nat \ {0} /\ len \in DOMAIN log
  <2>1. log \in Seq(Event)
    BY DEF TypeInv, TypeOK
  <2>2. len \in Nat \ {0}
    BY <1>1, <2>1, EmptySeq
  <2> QED BY <2>1, <2>2, LenProperties
<1>4. log[len].version + 1 = len
  BY <1>3 DEF LogContiguous
<1>5. Between(0, len) = log
  BY <1>3, SubSeqFull DEF Between
<1>6. ASSUME NEW q \in Processes PROVE ProjectionExact(q)' /\ OwnCommitStored(q)'
  <2>1. CASE q # p
    BY <1>1, <2>1, ProcessKept DEF TypeInv, TypeOK
  <2>2. CASE q = p
    <3>1. /\ pc'[p] = "idle" /\ running'[p] = running[p]
          /\ cursor'[p] = len /\ tail'[p] = len
          /\ version'[p] = len /\ events'[p] = log
      BY <1>1, <1>4 DEF TypeInv, TypeOK
    <3>2. OwnCommitStored(p)'
      BY <3>1 DEF OwnCommitStored
    <3>3. running[p] \notin Creates
      BY <1>1, BusConstants DEF TypeInv, Busy
    <3>4. log' = log /\ len <= len /\ ~ (len < len)
      BY <1>1, <1>3 DEF logVars
    <3>5. ProjectionExact(p)'
      BY <1>5, <3>1, <3>3, <3>4 DEF ProjectionExact, Complete, Between, MessageBoundary
    <3> QED BY <2>2, <3>2, <3>5
  <2> QED BY <2>1, <2>2
<1> QED BY <1>1, <1>2, <1>6 DEF TypeInv

LEMMA SafeDiscard ==
  ASSUME SafeInv, TypeInv', NEW p \in Processes, Discard(p), UNCHANGED <<logVars, inflight>>
  PROVE  BusInvariant'
<1> USE DEF SafeInv, BusInvariant
<1>1. LogContiguous' /\ StreamShape' /\ InFlightDecided'
  BY StreamKept, InFlightKept
<1>2. ASSUME NEW q \in Processes PROVE ProjectionExact(q)' /\ OwnCommitStored(q)'
  <2>1. CASE q # p
    <3>1. /\ pc'[q] = pc[q] /\ running'[q] = running[q] /\ version'[q] = version[q]
          /\ cursor'[q] = cursor[q] /\ events'[q] = events[q] /\ tail'[q] = tail[q]
      BY <2>1 DEF Discard, TypeInv, TypeOK
    <3> QED BY <3>1, ProcessKept
  <2>2. CASE q = p
    <3>1. pc'[p] = "down" /\ tail'[p] = NoTail
      BY DEF Discard, TypeInv, TypeOK
    <3> QED BY <2>2, <3>1 DEF ProjectionExact, Complete, OwnCommitStored
  <2> QED BY <2>1, <2>2
<1> QED BY <1>1, <1>2 DEF TypeInv

LEMMA SafeNext == WholeCommits /\ SafeInv /\ [Next]_vars => SafeInv'
<1> SUFFICES ASSUME WholeCommits, SafeInv, [Next]_vars PROVE SafeInv'
  OBVIOUS
<1>1. TypeInv'
  BY TypeNext DEF SafeInv
<1> SUFFICES BusInvariant'
  BY <1>1 DEF SafeInv
<1>2. ASSUME NEW p \in Processes, NEW c \in Commands, Begin(p, c) \/ Create(p, c)
      PROVE  BusInvariant'
  BY <1>2, SafeBegin, SafeCreate
<1>3. ASSUME NEW m \in inflight, ServeAnswered(m) \/ ServeUnanswered(m)
      PROVE  BusInvariant'
  BY <1>3, SafeServe
<1>4. ASSUME NEW p \in Processes, Fail(p) \/ Absorb(p) \/ Settle(p) \/ Rebase(p)
      PROVE  BusInvariant'
  BY <1>4, SafeFail, SafeAbsorb, SafeSettle, SafeRebase
<1>5. ASSUME NEW p \in Processes, LoseTail(p) \/ Open(p) \/ Crash(p)
      PROVE  BusInvariant'
  BY <1>1, <1>5, SafeLoseTail, SafeOpen, SafeDiscard DEF Crash
<1>6. ASSUME NEW p \in Processes, NEW to \in 1..Len(log), TailBatch(p, to) \/ TailThrows(p, to)
      PROVE  BusInvariant'
  <2>1. CASE TailBatch(p, to)
    BY <2>1, SafeTailBatch
  <2>2. CASE TailThrows(p, to)
    <3>1. p \notin Survivors
      BY <2>2 DEF TailThrows, Unfoldable, WholeCommits
    <3> QED BY <1>1, <2>2, <3>1, SafeDiscard DEF TailThrows
  <2> QED BY <1>6, <2>1, <2>2
<1>7. CASE UNCHANGED vars
  <2>1. /\ UNCHANGED logVars /\ inflight' = inflight
        /\ \A q \in Processes :
             /\ pc'[q] = pc[q] /\ running'[q] = running[q] /\ version'[q] = version[q]
             /\ cursor'[q] = cursor[q] /\ events'[q] = events[q] /\ tail'[q] = tail[q]
    BY <1>7 DEF vars, callVars, projVars
  <2>2. LogContiguous' /\ StreamShape' /\ InFlightDecided'
    BY <2>1, StreamKept, InFlightKept DEF SafeInv, BusInvariant
  <2>3. \A q \in Processes : ProjectionExact(q)' /\ OwnCommitStored(q)'
    BY <2>1, ProcessKept DEF SafeInv, BusInvariant
  <2> QED BY <1>1, <2>2, <2>3 DEF BusInvariant, TypeInv
<1> QED BY <1>2, <1>3, <1>4, <1>5, <1>6, <1>7 DEF Next

-----------------------------------------------------------------------------
(* The theorems.                                                            *)

\* The invariant of the bus holds in every reachable state, whatever the numbers
\* of processes, commands and attempts, when all processes run the same page
\* types: commit, rebase, the live tail, crashes, lost replies and late requests
\* keep the stream contiguous and every projection an exact prefix of it.
THEOREM BusInvariantHolds == ASSUME WholeCommits PROVE Spec => []BusInvariant
<1>1. SafeInv => BusInvariant
  BY DEF SafeInv
<1>2. SafeInv /\ [Next]_vars => SafeInv'
  BY SafeNext
<1> QED BY <1>1, <1>2, SafeInit, PTL DEF Spec

\* No two appends ever disagree about a version: the Stream-Seq test of the host,
\* on requests that are only ever decided at message boundaries, admits exactly
\* those at the end of the stream (append of event-log.ts, commit of command-bus.ts).
THEOREM VersionsContiguous == ASSUME WholeCommits PROVE Spec => []LogContiguous
<1>1. BusInvariant => LogContiguous
  BY DEF BusInvariant
<1> QED BY <1>1, BusInvariantHolds, PTL

\* "history() is always complete" (BusProjection of command-bus.ts): whichever of
\* own append, rebase and live tail each event came in by, an open handle holds
\* exactly a prefix of the stream.
THEOREM HistoryIsComplete == ASSUME WholeCommits PROVE Spec => []HistoryComplete
<1>1. BusInvariant => HistoryComplete
  BY DEF BusInvariant, ProjectionExact, HistoryComplete
<1> QED BY <1>1, BusInvariantHolds, PTL

-----------------------------------------------------------------------------
(* What every commit in the stream was decided on.                          *)

\* The stream changes only by a commit decided on the whole of it.
LEMMA CommitsDecidedAtHead ==
  ASSUME SafeInv, [Next]_vars
  PROVE  \/ log' = log
         \/ \E c \in Commands :
              /\ log' = log \o Envelopes(c, Len(log))
              /\ ~ CommandSeen(c, log)
              /\ Emits(c, log)
<1>1. ASSUME NEW m \in inflight, ServeAnswered(m) \/ ServeUnanswered(m), log' # log
      PROVE  \E c \in Commands :
               /\ log' = log \o Envelopes(c, Len(log))
               /\ ~ CommandSeen(c, log)
               /\ Emits(c, log)
  <2>1. Admits(m.seq) /\ Store(m.cmd, m.seq)
    BY <1>1 DEF ServeAnswered, ServeUnanswered, logVars
  <2>2. m.cmd \in Commands /\ m.seq \in Nat /\ log \in Seq(Event)
    BY DEF SafeInv, TypeInv, TypeOK
  <2>3. m.seq = Len(log)
    BY <2>1, <2>2, AdmittedAtEnd DEF SafeInv, TypeInv, BusInvariant, InFlightDecided
  <2>4. Between(0, m.seq) = log
    BY <2>2, <2>3, SubSeqFull DEF Between
  <2>5. ~ CommandSeen(m.cmd, log) /\ Emits(m.cmd, log)
    BY <2>4 DEF SafeInv, BusInvariant, InFlightDecided
  <2> QED BY <2>1, <2>2, <2>3, <2>5 DEF Store
<1>2. CASE UNCHANGED logVars
  BY <1>2 DEF logVars
<1>3. CASE Next
  <2>1. \/ UNCHANGED logVars
        \/ \E m \in inflight : ServeAnswered(m) \/ ServeUnanswered(m)
    BY <1>3 DEF Next, Begin, Create, Fail, Absorb, Settle, Rebase, LoseTail, Open, Crash,
                TailBatch, TailThrows
  <2> QED BY <1>1, <1>2, <2>1
<1> QED BY <1>2, <1>3 DEF vars

\* The events of a longer stream, old and new.
LEMMA AppendedCommit ==
  ASSUME log \in Seq(Event), NEW c \in Commands, log' = log \o Envelopes(c, Len(log))
  PROVE  /\ Len(log) \in Nat
         /\ DOMAIN log = 1..Len(log)
         /\ \A i \in 1..Len(log) : i \in DOMAIN log' /\ log'[i] = log[i]
         /\ \A i \in DOMAIN log' :
              \/ i \in 1..Len(log)
              \/ /\ i \in Nat /\ i > Len(log)
                 /\ log'[i].cmd = c
                 /\ log'[i].first <=> i = Len(log) + 1
<1> DEFINE len == Len(log)
           new == Envelopes(c, len)
<1>1. len \in Nat /\ log \in Seq(Event) /\ DOMAIN log = 1..len
  BY LenProperties
<1>2. /\ Size[c] \in Nat \ {0}
      /\ new \in Seq(Event)
      /\ Len(new) = Size[c]
      /\ \A i \in 1..Size[c] :
           /\ new[i].version = len + i - 1
           /\ new[i].cmd = c
           /\ (new[i].first <=> i = 1)
  BY <1>1, EnvelopesType
<1>3. log' = log \o new
  OBVIOUS
<1> HIDE DEF new
<1>4. /\ log \o new \in Seq(Event)
      /\ Len(log \o new) = Len(log) + Len(new)
      /\ \A i \in 1..(Len(log) + Len(new)) :
           (log \o new)[i] = IF i <= Len(log) THEN log[i] ELSE new[i - Len(log)]
  BY <1>1, <1>2, ConcatProperties, ZenonT(60)
<1>5. DOMAIN log' = 1..(Len(log) + Size[c])
  BY <1>2, <1>3, <1>4, LenProperties
<1>6. \A i \in 1..Len(log) : i \in DOMAIN log' /\ log'[i] = log[i]
  BY <1>1, <1>2, <1>3, <1>4, <1>5
<1>7. ASSUME NEW i \in DOMAIN log', i \notin 1..Len(log)
      PROVE  /\ i \in Nat /\ i > Len(log)
             /\ log'[i].cmd = c
             /\ log'[i].first <=> i = Len(log) + 1
  <2>1. i \in Nat /\ i > Len(log) /\ i - Len(log) \in 1..Size[c] /\ (i - Len(log) = 1 <=> i = Len(log) + 1)
    BY <1>1, <1>2, <1>5, <1>7
  <2>2. log'[i] = new[i - Len(log)]
    BY <1>1, <1>2, <1>3, <1>4, <1>5, <2>1
  <2> QED BY <1>2, <2>1, <2>2
<1> QED BY <1>1, <1>6, <1>7

LEMMA AppliedOnceStep == SafeInv /\ AppliedOnce /\ [Next]_vars => AppliedOnce'
<1> SUFFICES ASSUME SafeInv, AppliedOnce, [Next]_vars,
                    NEW c \in Commands,
                    log' = log \o Envelopes(c, Len(log)), ~ CommandSeen(c, log)
             PROVE  AppliedOnce'
  BY CommitsDecidedAtHead DEF AppliedOnce
<1>1. log \in Seq(Event)
  BY DEF SafeInv, TypeInv, TypeOK
<1>2. SUFFICES ASSUME NEW i \in DOMAIN log', NEW j \in DOMAIN log',
                      log'[i].first, log'[j].first,
                      CommandId[log'[i].cmd] # NoId,
                      CommandId[log'[i].cmd] = CommandId[log'[j].cmd]
               PROVE  i = j
  BY DEF AppliedOnce
<1>3. ASSUME NEW a \in DOMAIN log', NEW b \in DOMAIN log', a \in 1..Len(log), b \notin 1..Len(log),
             CommandId[log'[a].cmd] # NoId, CommandId[log'[a].cmd] = CommandId[log'[b].cmd]
      PROVE  FALSE
  BY <1>1, <1>3, AppendedCommit DEF CommandSeen
<1>4. CASE i \in 1..Len(log) /\ j \in 1..Len(log)
  BY <1>1, <1>2, <1>4, AppendedCommit DEF AppliedOnce
<1>5. CASE i \notin 1..Len(log) /\ j \notin 1..Len(log)
  BY <1>1, <1>2, <1>5, AppendedCommit
<1> QED BY <1>2, <1>3, <1>4, <1>5

\* TitlesUnique speaks of the stream alone.
LEMMA TitlesUniqueKept == ASSUME log' = log, TitlesUnique PROVE TitlesUnique'
<1> SUFFICES ASSUME NEW i \in DOMAIN log, NEW j \in DOMAIN log, i < j,
                    log[i].first, log[i].cmd \in Claims,
                    log[j].first, log[j].cmd \in Claims,
                    Title[log[i].cmd] = Title[log[j].cmd]
             PROVE  \E k \in (i + 1)..(j - 1) :
                      log[k].cmd \in Releases /\ Title[log[k].cmd] = Title[log[i].cmd]
  BY DEF TitlesUnique
<1> QED BY DEF TitlesUnique

LEMMA TitlesUniqueStep == SafeInv /\ TitlesUnique /\ [Next]_vars => TitlesUnique'
<1> SUFFICES ASSUME SafeInv, TitlesUnique, [Next]_vars,
                    NEW c \in Commands,
                    log' = log \o Envelopes(c, Len(log)), Emits(c, log)
             PROVE  TitlesUnique'
  BY CommitsDecidedAtHead, TitlesUniqueKept
<1>1. log \in Seq(Event)
  BY DEF SafeInv, TypeInv, TypeOK
<1>2. SUFFICES ASSUME NEW i \in DOMAIN log', NEW j \in DOMAIN log', i < j,
                      log'[i].first, log'[i].cmd \in Claims,
                      log'[j].first, log'[j].cmd \in Claims,
                      Title[log'[i].cmd] = Title[log'[j].cmd]
               PROVE  \E k \in (i + 1)..(j - 1) :
                        log'[k].cmd \in Releases /\ Title[log'[k].cmd] = Title[log'[i].cmd]
  BY DEF TitlesUnique
<1>3. /\ Len(log) \in Nat
      /\ DOMAIN log = 1..Len(log)
      /\ \A k \in 1..Len(log) : log'[k] = log[k]
      /\ i \in Nat /\ j \in Nat
  BY <1>1, <1>2, AppendedCommit
<1>4. CASE j \in 1..Len(log)
  <2>1. i \in 1..Len(log)
    BY <1>1, <1>2, <1>3, <1>4, AppendedCommit
  <2>2. PICK k \in (i + 1)..(j - 1) : log[k].cmd \in Releases /\ Title[log[k].cmd] = Title[log[i].cmd]
    BY <1>2, <1>3, <1>4, <2>1 DEF TitlesUnique
  <2>3. k \in 1..Len(log)
    BY <1>3, <1>4, <2>1
  <2> QED BY <1>3, <2>1, <2>2, <2>3
<1>5. CASE j \notin 1..Len(log)
  <2>1. j = Len(log) + 1 /\ log'[j].cmd = c
    BY <1>1, <1>2, <1>5, AppendedCommit
  <2>2. i \in 1..Len(log)
    BY <1>1, <1>2, <1>3, <2>1, AppendedCommit
  <2>3. ~ Held(Title[c], log)
    BY <1>2, <2>1 DEF Emits, Refused
  <2>4. PICK k \in (i + 1)..Len(log) : log[k].cmd \in Releases /\ Title[log[k].cmd] = Title[c]
    BY <1>2, <1>3, <2>1, <2>2, <2>3 DEF Held
  <2>5. k \in 1..Len(log) /\ k \in (i + 1)..(j - 1)
    BY <1>3, <2>1, <2>2
  <2> QED BY <1>2, <1>3, <2>1, <2>4, <2>5
<1> QED BY <1>4, <1>5

\* An idempotency key takes effect at most once, however often the stream client
\* resends, the loop retries or the caller repeats it (commandSeen of
\* command-bus.ts, which only looks at the process's own projection).
THEOREM KeysApplyOnce == ASSUME WholeCommits PROVE Spec => []AppliedOnce
<1>1. Init => AppliedOnce
  BY DEF Init, LogInit, AppliedOnce
<1>2. SafeInv /\ [Next]_vars => SafeInv'
  BY SafeNext
<1> QED BY <1>1, <1>2, SafeInit, AppliedOnceStep, PTL DEF Spec

\* Titles stay unique though they are checked on each process's own projection:
\* a claim is admitted only at the head it was decided on (assertUniqueSiblingTitle
\* of structure.ts, commit of command-bus.ts).
THEOREM TitlesStayUnique == ASSUME WholeCommits PROVE Spec => []TitlesUnique
<1>1. Init => TitlesUnique
  BY DEF Init, LogInit, TitlesUnique
<1>2. SafeInv /\ [Next]_vars => SafeInv'
  BY SafeNext
<1> QED BY <1>1, <1>2, SafeInit, TitlesUniqueStep, PTL DEF Spec

-----------------------------------------------------------------------------
(* The calls.  A turn of the loop either answers the call or sends its append. *)

Finished(p, c, n, head, history, a) ==
  /\ Return(p, c, a, IF a = "ok" THEN head ELSE 0)
  /\ UNCHANGED inflight
  /\ a = "conflict" => Exhausted(n)
  /\ a = "rejected" => Throws(c, history)
  /\ a = "ok" => CommandSeen(c, history) \/ DecidesNothing(c, history)
  /\ IF a = "ok" THEN Notify(p, head) ELSE UNCHANGED applied

Sent(p, c, n, head) ==
  /\ inflight' = inflight \cup {[proc |-> p, cmd |-> c, seq |-> head]}
  /\ pc' = [pc EXCEPT ![p] = "appending"]
  /\ running' = [running EXCEPT ![p] = c]
  /\ attempts' = [attempts EXCEPT ![p] = n]
  /\ answer' = [answer EXCEPT ![c] = "pending"]
  /\ UNCHANGED <<token, tail, applied>>

LEMMA TurnOutcomes ==
  ASSUME NEW p, NEW c, NEW n, NEW head, NEW history, Turn(p, c, n, head, history)
  PROVE  \/ Sent(p, c, n, head)
         \/ \E a \in {"ok", "rejected", "conflict"} : Finished(p, c, n, head, history, a)
<1>1. CASE Exhausted(n) /\ Return(p, c, "conflict", 0) /\ UNCHANGED <<inflight, applied>>
  BY <1>1 DEF Finished
<1>2. CASE /\ CommandSeen(c, history) \/ DecidesNothing(c, history)
           /\ Return(p, c, "ok", head)
           /\ Notify(p, head)
           /\ UNCHANGED inflight
  BY <1>2 DEF Finished
<1>3. CASE Throws(c, history) /\ Return(p, c, "rejected", 0) /\ UNCHANGED <<inflight, applied>>
  BY <1>3 DEF Finished
<1>4. CASE Sent(p, c, n, head)
  BY <1>4
<1> QED BY <1>1, <1>2, <1>3, <1>4 DEF Turn, Sent

LEMMA StoredCommand ==
  ASSUME log \in Seq(Event), NEW i \in DOMAIN log
  PROVE  log[i] \in Event /\ log[i].cmd \in Commands /\ i \in 1..Len(log) /\ Len(log) \in Nat
<1>1. Len(log) \in Nat /\ i \in 1..Len(log)
  BY LenProperties
<1>2. log[i] \in Event
  BY <1>1, ElementOfSeq
<1> QED BY <1>1, <1>2 DEF Event

\* A createWorkspace has no idempotency key and always decides an event.
LEMMA CreatesEmit ==
  ASSUME NEW c \in Creates, NEW history
  PROVE  ~ CommandSeen(c, history) /\ ~ DecidesNothing(c, history)
BY BusConstants DEF CommandSeen, DecidesNothing

\* A returning call leaves its process down, or idle on an open handle.
LEMMA ReturnPlaces ==
  ASSUME TypeOK, NEW p \in Processes, NEW c \in Commands, NEW a, NEW v, Return(p, c, a, v)
  PROVE  /\ running' = [running EXCEPT ![p] = NoCommand] /\ running'[p] = NoCommand
         /\ answer' = [answer EXCEPT ![c] = a] /\ answer'[c] = a
         /\ token' = [token EXCEPT ![c] = v] /\ token'[c] = v
         /\ pc'[p] = IF c \in Creates /\ a # "ok" THEN "down" ELSE "idle"
         /\ \A q \in Processes : q # p => pc'[q] = pc[q] /\ running'[q] = running[q]
         /\ \A q \in Processes : q # p => attempts'[q] = attempts[q]
         /\ \A d \in Commands : d # c => answer'[d] = answer[d] /\ token'[d] = token[d]
BY DEF Return, TypeOK

\* The calls, their runners and what they left on the wire.
Owners == OneRunner /\ RequestsOwned /\ StoredWasCalled

LEMMA ReturnKeepsOwners ==
  ASSUME SafeInv, Owners, NEW p \in Processes, NEW c \in Commands,
         NEW a \in {"ok", "rejected", "conflict", "unknown"}, NEW v,
         Return(p, c, a, v),
         running[p] = c \/ (running[p] = NoCommand /\ answer[c] = "none"),
         log' = log, inflight' \subseteq inflight,
         a = "unknown" \/ pc[p] # "appending",
         a = "rejected" /\ CommandId[c] # NoId => \A i \in DOMAIN log : log[i].cmd # c,
         \A q \in Processes : q # p => version'[q] = version[q]
  PROVE  Owners'
<1> USE DEF Owners
<1>1. /\ TypeOK /\ c # NoCommand /\ NoCommand \notin Commands
      /\ \A q \in Processes : running[q] \in Commands \cup {NoCommand}
  BY BusConstants DEF SafeInv, TypeInv, TypeOK
<1>2. /\ running'[p] = NoCommand
      /\ answer'[c] = a
      /\ \A q \in Processes : q # p => pc'[q] = pc[q] /\ running'[q] = running[q]
      /\ \A d \in Commands : d # c => answer'[d] = answer[d]
  BY <1>1, ReturnPlaces
<1>3. \A q \in Processes : q # p => running[q] # c
  BY <1>1 DEF OneRunner
<1>4. OneRunner'
  <2> SUFFICES ASSUME NEW q \in Processes, running'[q] # NoCommand
               PROVE  /\ answer'[running'[q]] = "pending"
                      /\ \A r \in Processes : running'[r] = running'[q] => r = q
    BY DEF OneRunner
  <2>1. q # p /\ running'[q] = running[q] /\ running[q] # c /\ running[q] \in Commands
    BY <1>1, <1>2, <1>3
  <2>2. answer'[running[q]] = "pending"
    BY <1>2, <2>1 DEF OneRunner
  <2>3. ASSUME NEW r \in Processes, running'[r] = running'[q] PROVE r = q
    BY <1>2, <2>1, <2>3 DEF OneRunner
  <2> QED BY <2>1, <2>2, <2>3
<1>5. RequestsOwned'
  <2> SUFFICES ASSUME NEW m \in inflight'
               PROVE  answer'[m.cmd] = "unknown" \/ (answer'[m.cmd] = "pending" /\ Waiting(m)')
    BY DEF RequestsOwned
  <2>1. m \in inflight /\ m.cmd \in Commands /\ m.proc \in Processes
    BY <1>1 DEF TypeOK
  <2>2. answer[m.cmd] = "unknown" \/ (answer[m.cmd] = "pending" /\ Waiting(m))
    BY <2>1 DEF RequestsOwned
  <2>3. CASE m.cmd = c
    <3>1. CASE a = "unknown"
      BY <1>2, <2>3, <3>1
    <3>2. CASE answer[c] = "none"
      BY <2>2, <2>3, <3>2
    <3>3. CASE pc[p] # "appending" /\ running[p] = c
      <4>1. answer[c] = "pending" /\ Waiting(m)
        BY <1>1, <2>2, <2>3, <3>3 DEF OneRunner
      <4>2. m.proc = p
        BY <1>3, <2>1, <2>3, <4>1 DEF Waiting
      <4> QED BY <3>3, <4>1, <4>2 DEF Waiting
    <3> QED BY <3>1, <3>2, <3>3
  <2>4. CASE m.cmd # c
    <3>1. Waiting(m) => m.proc # p
      BY <1>1, <2>1, <2>4 DEF Waiting
    <3>2. Waiting(m) => Waiting(m)'
      BY <1>2, <2>1, <3>1 DEF Waiting
    <3> QED BY <1>2, <2>1, <2>2, <2>4, <3>2
  <2> QED BY <2>3, <2>4
<1>6. StoredWasCalled'
  <2> SUFFICES ASSUME NEW i \in DOMAIN log
               PROVE  /\ answer'[log[i].cmd] # "none"
                      /\ CommandId[log[i].cmd] # NoId => answer'[log[i].cmd] # "rejected"
    BY DEF StoredWasCalled
  <2>1. log[i].cmd \in Commands
    BY <1>1, StoredCommand DEF TypeOK
  <2>2. CASE log[i].cmd = c
    BY <1>2, <2>2
  <2>3. CASE log[i].cmd # c
    BY <1>2, <2>1, <2>3 DEF StoredWasCalled
  <2> QED BY <2>2, <2>3
<1> QED BY <1>4, <1>5, <1>6

LEMMA SentKeepsOwners ==
  ASSUME SafeInv, Owners, NEW p \in Processes, NEW c \in Commands, NEW n, NEW head,
         Sent(p, c, n, head),
         \/ running[p] = c
         \/ running[p] = NoCommand /\ answer[c] = "none",
         pc[p] # "appending", log' = log,
         version'[p] = head,
         \A q \in Processes : q # p => version'[q] = version[q]
  PROVE  Owners'
<1> USE DEF Owners
<1>1. /\ TypeOK /\ c # NoCommand /\ NoCommand \notin Commands
      /\ \A q \in Processes : running[q] \in Commands \cup {NoCommand}
  BY BusConstants DEF SafeInv, TypeInv, TypeOK
<1>2. /\ running'[p] = c /\ pc'[p] = "appending"
      /\ answer'[c] = "pending"
      /\ \A q \in Processes : q # p => pc'[q] = pc[q] /\ running'[q] = running[q]
      /\ \A d \in Commands : d # c => answer'[d] = answer[d]
  BY <1>1 DEF Sent, TypeOK
<1>3. \A q \in Processes : q # p => running[q] # c
  BY <1>1 DEF OneRunner
<1>4. OneRunner'
  <2> SUFFICES ASSUME NEW q \in Processes, running'[q] # NoCommand
               PROVE  /\ answer'[running'[q]] = "pending"
                      /\ \A r \in Processes : running'[r] = running'[q] => r = q
    BY DEF OneRunner
  <2>1. CASE q = p
    BY <1>2, <1>3, <2>1
  <2>2. CASE q # p
    <3>1. running'[q] = running[q] /\ running[q] # c /\ running[q] \in Commands
      BY <1>1, <1>2, <1>3, <2>2
    <3> QED BY <1>2, <3>1 DEF OneRunner
  <2> QED BY <2>1, <2>2
<1>5. RequestsOwned'
  <2> SUFFICES ASSUME NEW m \in inflight'
               PROVE  answer'[m.cmd] = "unknown" \/ (answer'[m.cmd] = "pending" /\ Waiting(m)')
    BY DEF RequestsOwned
  <2>1. CASE m = [proc |-> p, cmd |-> c, seq |-> head]
    BY <1>2, <2>1 DEF Waiting
  <2>2. CASE m \in inflight
    <3>1. m.cmd \in Commands /\ m.proc \in Processes
      BY <1>1, <2>2 DEF TypeOK
    <3>2. answer[m.cmd] = "unknown" \/ (answer[m.cmd] = "pending" /\ Waiting(m))
      BY <2>2 DEF RequestsOwned
    <3>3. m.cmd # c
      <4>1. CASE answer[c] = "none"
        BY <3>2, <4>1
      <4>2. CASE running[p] = c
        BY <1>1, <1>3, <3>1, <3>2, <4>2 DEF OneRunner, Waiting
      <4> QED BY <4>1, <4>2
    <3>4. Waiting(m) => m.proc # p
      BY DEF Waiting
    <3>5. Waiting(m) => Waiting(m)'
      BY <1>2, <3>1, <3>4 DEF Waiting
    <3> QED BY <1>2, <3>1, <3>2, <3>3, <3>5
  <2> QED BY <2>1, <2>2 DEF Sent
<1>6. StoredWasCalled'
  <2> SUFFICES ASSUME NEW i \in DOMAIN log
               PROVE  /\ answer'[log[i].cmd] # "none"
                      /\ CommandId[log[i].cmd] # NoId => answer'[log[i].cmd] # "rejected"
    BY DEF StoredWasCalled
  <2>1. log[i].cmd \in Commands
    BY <1>1, StoredCommand DEF TypeOK
  <2> QED BY <1>2, <2>1 DEF StoredWasCalled
<1> QED BY <1>4, <1>5, <1>6

\* What a served request leaves on the wire still has its owner, and what it put in
\* the stream was called.
LEMMA ServeKeepsOwners ==
  ASSUME SafeInv, Owners, NEW m \in inflight, ServeAnswered(m) \/ ServeUnanswered(m)
  PROVE  Owners'
<1> USE DEF Owners
<1>1. /\ TypeOK /\ m.proc \in Processes /\ m.cmd \in Commands /\ m.seq \in Nat
      /\ inflight \subseteq [proc : Processes, cmd : Commands, seq : Nat]
  BY DEF SafeInv, TypeInv, TypeOK
<1>2. /\ inflight' \subseteq inflight
      /\ running' = running /\ answer' = answer /\ version' = version
      /\ \/ pc' = pc
         \/ /\ Waiting(m) /\ m \notin inflight'
            /\ pc' \in {[pc EXCEPT ![m.proc] = "acked"], [pc EXCEPT ![m.proc] = "stale"]}
      /\ log' = log \/ (Admits(m.seq) /\ Store(m.cmd, m.seq))
  BY DEF ServeAnswered, ServeUnanswered, callVars, projVars, logVars
<1>3. OneRunner'
  BY <1>2 DEF OneRunner
<1>4. RequestsOwned'
  <2> SUFFICES ASSUME NEW k \in inflight'
               PROVE  answer[k.cmd] = "unknown" \/ (answer[k.cmd] = "pending" /\ Waiting(k)')
    BY <1>2 DEF RequestsOwned
  <2>1. k \in inflight /\ k \in [proc : Processes, cmd : Commands, seq : Nat]
    BY <1>1, <1>2
  <2>2. answer[k.cmd] = "unknown" \/ (answer[k.cmd] = "pending" /\ Waiting(k))
    BY <2>1 DEF RequestsOwned
  <2>3. CASE pc' = pc
    BY <1>2, <2>2, <2>3 DEF Waiting
  <2>4. CASE /\ Waiting(m) /\ m \notin inflight' /\ Waiting(k)
             /\ pc' \in {[pc EXCEPT ![m.proc] = "acked"], [pc EXCEPT ![m.proc] = "stale"]}
    <3>1. k.proc # m.proc
      <4> SUFFICES ASSUME k.proc = m.proc PROVE k = m
        BY <2>4
      <4>1. k.cmd = m.cmd /\ k.seq = m.seq
        BY <2>4 DEF Waiting
      <4>2. m \in [proc : Processes, cmd : Commands, seq : Nat]
        BY <1>1
      <4> QED BY <2>1, <4>1, <4>2
    <3>2. pc'[k.proc] = pc[k.proc]
      <4>1. k.proc \in Processes /\ pc = [q \in Processes |-> pc[q]]
        BY <1>1, <2>1 DEF TypeOK
      <4>2. ASSUME NEW s, pc' = [pc EXCEPT ![m.proc] = s] PROVE pc'[k.proc] = pc[k.proc]
        BY <3>1, <4>1, <4>2
      <4> QED BY <2>4, <4>2
    <3> QED BY <1>2, <2>2, <2>4, <3>2 DEF Waiting
  <2> QED BY <1>2, <2>2, <2>3, <2>4
<1>5. StoredWasCalled'
  <2> SUFFICES ASSUME NEW i \in DOMAIN log'
               PROVE  /\ answer[log'[i].cmd] # "none"
                      /\ CommandId[log'[i].cmd] # NoId => answer[log'[i].cmd] # "rejected"
    BY <1>2 DEF StoredWasCalled
  <2>1. CASE log' = log
    BY <2>1 DEF StoredWasCalled
  <2>2. CASE Admits(m.seq) /\ Store(m.cmd, m.seq)
    <3>1. log \in Seq(Event) /\ m.seq = Len(log)
      BY <1>1, <2>2, AdmittedAtEnd DEF SafeInv, BusInvariant, InFlightDecided, TypeOK
    <3>2. log' = log \o Envelopes(m.cmd, Len(log))
      BY <2>2, <3>1 DEF Store
    <3>3. CASE i \in 1..Len(log)
      BY <1>1, <3>1, <3>2, <3>3, AppendedCommit DEF StoredWasCalled
    <3>4. CASE log'[i].cmd = m.cmd
      <4>1. answer[m.cmd] = "unknown" \/ answer[m.cmd] = "pending"
        BY DEF RequestsOwned
      <4> QED BY <3>4, <4>1
    <3> QED BY <1>1, <3>1, <3>2, <3>3, <3>4, AppendedCommit
  <2> QED BY <1>2, <2>1, <2>2
<1> QED BY <1>3, <1>4, <1>5

\* A step of a process that waits for no append, and answers nobody.
LEMMA QuietKeepsOwners ==
  ASSUME SafeInv, Owners, NEW p \in Processes, pc[p] # "appending",
         UNCHANGED <<logVars, inflight, running, answer>>,
         \A q \in Processes : q # p => pc'[q] = pc[q] /\ version'[q] = version[q]
  PROVE  Owners'
<1> USE DEF Owners
<1>1. OneRunner' /\ StoredWasCalled'
  BY DEF OneRunner, StoredWasCalled, logVars
<1>2. ASSUME NEW m \in inflight, Waiting(m) PROVE Waiting(m)'
  <2>1. m.proc # p /\ m.proc \in Processes
    BY <1>2 DEF Waiting, SafeInv, TypeInv, TypeOK
  <2> QED BY <1>2, <2>1 DEF Waiting
<1>3. RequestsOwned'
  BY <1>2 DEF RequestsOwned
<1> QED BY <1>1, <1>3

LEMMA CrashKeepsOwners ==
  ASSUME SafeInv, Owners, NEW p \in Processes, Crash(p)
  PROVE  Owners'
<1> USE DEF Owners
<1>1. TypeOK /\ log' = log /\ inflight' = inflight /\ NoCommand \notin Commands
  BY BusConstants DEF Crash, logVars, SafeInv, TypeInv
<1>2. /\ answer' = [c \in Commands |-> IF c = running[p] THEN "unknown" ELSE answer[c]]
      /\ running'[p] = NoCommand
      /\ \A q \in Processes : q # p =>
           pc'[q] = pc[q] /\ running'[q] = running[q] /\ version'[q] = version[q]
  BY <1>1 DEF Crash, Discard, TypeOK
<1>3. OneRunner'
  <2> SUFFICES ASSUME NEW q \in Processes, running'[q] # NoCommand
               PROVE  /\ answer'[running'[q]] = "pending"
                      /\ \A r \in Processes : running'[r] = running'[q] => r = q
    BY DEF OneRunner
  <2>1. q # p /\ running'[q] = running[q] /\ running[q] \in Commands
    BY <1>1, <1>2 DEF TypeOK
  <2>2. running[p] # running[q] /\ answer[running[q]] = "pending"
    BY <1>1, <2>1 DEF OneRunner
  <2>3. ASSUME NEW r \in Processes, running'[r] = running'[q] PROVE r = q
    BY <1>1, <1>2, <2>1, <2>3 DEF OneRunner
  <2> QED BY <1>2, <2>1, <2>2, <2>3
<1>4. RequestsOwned'
  <2> SUFFICES ASSUME NEW m \in inflight
               PROVE  answer'[m.cmd] = "unknown" \/ (answer'[m.cmd] = "pending" /\ Waiting(m)')
    BY <1>1 DEF RequestsOwned
  <2>1. m.cmd \in Commands /\ m.proc \in Processes
    BY <1>1 DEF TypeOK
  <2>2. answer[m.cmd] = "unknown" \/ (answer[m.cmd] = "pending" /\ Waiting(m))
    BY DEF RequestsOwned
  <2>3. CASE m.cmd = running[p]
    BY <1>2, <2>1, <2>3
  <2>4. CASE m.cmd # running[p]
    BY <1>2, <2>1, <2>2, <2>4 DEF Waiting
  <2> QED BY <2>3, <2>4
<1>5. StoredWasCalled'
  <2> SUFFICES ASSUME NEW i \in DOMAIN log
               PROVE  /\ answer'[log[i].cmd] # "none"
                      /\ CommandId[log[i].cmd] # NoId => answer'[log[i].cmd] # "rejected"
    BY <1>1 DEF StoredWasCalled
  <2>1. log[i].cmd \in Commands
    BY <1>1, StoredCommand DEF TypeOK
  <2> QED BY <1>2, <2>1 DEF StoredWasCalled
<1> QED BY <1>3, <1>4, <1>5

\* A turn keeps the owners, if what it refuses is not already in the stream.
LEMMA TurnKeepsOwners ==
  ASSUME SafeInv, Owners, NEW p \in Processes, NEW c \in Commands, NEW n, NEW head \in Nat,
         NEW history, Turn(p, c, n, head, history),
         running[p] = c \/ (running[p] = NoCommand /\ answer[c] = "none"),
         pc[p] # "appending", log' = log,
         answer[c] # "none" => history = log,
         version'[p] = head,
         \A q \in Processes : q # p => version'[q] = version[q]
  PROVE  Owners'
<1>1. CASE Sent(p, c, n, head)
  BY <1>1, SentKeepsOwners
<1>2. ASSUME NEW a \in {"ok", "rejected", "conflict"}, Finished(p, c, n, head, history, a)
      PROVE  Owners'
  <2>1. /\ Return(p, c, a, IF a = "ok" THEN head ELSE 0)
        /\ inflight' \subseteq inflight
        /\ a = "rejected" => ~ CommandSeen(c, history)
    BY <1>2 DEF Finished, Throws
  <2>2. ASSUME a = "rejected", CommandId[c] # NoId, NEW i \in DOMAIN log PROVE log[i].cmd # c
    <3>1. CASE answer[c] = "none"
      BY <3>1 DEF Owners, StoredWasCalled
    <3>2. CASE answer[c] # "none"
      BY <2>1, <2>2, <3>2 DEF CommandSeen
    <3> QED BY <3>1, <3>2
  <2> QED BY <2>1, <2>2, ReturnKeepsOwners
<1> QED BY <1>1, <1>2, TurnOutcomes

LEMMA OwnersStep ==
  ASSUME WholeCommits, SafeInv, Owners, [Next]_vars
  PROVE  Owners'
<1>1. /\ TypeOK /\ log \in Seq(Event) /\ \A q \in Processes : Busy(q) /\ version[q] \in Nat
      /\ \A q \in Processes : running[q] \in Commands \cup {NoCommand}
  BY DEF SafeInv, TypeInv, TypeOK
<1>2. ASSUME NEW p \in Processes, NEW c \in Commands, Begin(p, c) PROVE Owners'
  <2>1. /\ Turn(p, c, 0, version[p], events[p])
        /\ running[p] = NoCommand /\ answer[c] = "none" /\ pc[p] = "idle"
        /\ log' = log /\ version' = version
    BY <1>1, <1>2 DEF Begin, Busy, logVars, projVars
  <2> QED BY <1>1, <2>1, TurnKeepsOwners
<1>3. ASSUME NEW p \in Processes, NEW c \in Commands, Create(p, c) PROVE Owners'
  <2>1. /\ Turn(p, c, 0, 0, << >>)
        /\ running[p] = NoCommand /\ answer[c] = "none" /\ pc[p] = "down"
        /\ log' = log /\ version' = [version EXCEPT ![p] = 0] /\ version'[p] = 0
    BY <1>1, <1>3 DEF Create, Busy, logVars, TypeOK
  <2> QED BY <1>1, <2>1, TurnKeepsOwners DEF TypeOK
<1>4. ASSUME NEW p \in Processes, Fail(p) PROVE Owners'
  <2>1. /\ Return(p, running[p], "unknown", 0) /\ running[p] \in Commands
        /\ log' = log /\ version' = version /\ inflight' \subseteq inflight
    BY <1>1, <1>4 DEF Fail, Busy, logVars, projVars
  <2> QED BY <2>1, ReturnKeepsOwners
<1>5. ASSUME NEW p \in Processes, Settle(p) PROVE Owners'
  <2>1. /\ Return(p, running[p], "ok", version[p]) /\ running[p] \in Commands
        /\ log' = log /\ version' = version /\ inflight' \subseteq inflight
        /\ pc[p] = "absorbed"
    BY <1>1, <1>5 DEF Settle, Busy, logVars
  <2> QED BY <2>1, ReturnKeepsOwners
<1>6. ASSUME NEW p \in Processes, Rebase(p) PROVE Owners'
  <2>1. pc[p] = "stale" /\ running[p] \in Commands /\ log' = log
    BY <1>1, <1>6 DEF Rebase, Busy, logVars
  <2>2. PICK n \in version[p]..Len(log) :
          /\ Boundary(n)
          /\ version' = [version EXCEPT ![p] = n]
          /\ events' = [events EXCEPT ![p] = Between(0, n)]
          /\ \/ /\ n = Len(log)
                /\ cursor' = [cursor EXCEPT ![p] = n]
                /\ Turn(p, running[p], attempts[p] + 1, n, Between(0, n))
             \/ /\ Return(p, running[p], "unknown", 0)
                /\ UNCHANGED <<cursor, inflight, applied>>
    BY <1>6, RebaseFolds
  <2>3. /\ version'[p] = n /\ \A q \in Processes : q # p => version'[q] = version[q]
    BY <2>2 DEF SafeInv, TypeInv, TypeOK
  <2>4. CASE n = Len(log) /\ Turn(p, running[p], attempts[p] + 1, n, Between(0, n))
    <3>1. n \in Nat /\ Between(0, n) = log
      BY <1>1, <2>4, LenProperties, SubSeqFull DEF Between
    <3> QED BY <2>1, <2>3, <2>4, <3>1, TurnKeepsOwners
  <2>5. CASE Return(p, running[p], "unknown", 0) /\ UNCHANGED <<cursor, inflight, applied>>
    BY <2>1, <2>3, <2>5, ReturnKeepsOwners
  <2> QED BY <2>2, <2>4, <2>5
<1>7. ASSUME NEW p \in Processes, Absorb(p) PROVE Owners'
  <2>1. /\ pc[p] # "appending"
        /\ UNCHANGED <<logVars, inflight, running, answer>>
        /\ \A q \in Processes : q # p => pc'[q] = pc[q] /\ version'[q] = version[q]
    BY <1>1, <1>7 DEF Absorb, FoldInto, callVars, TypeOK
  <2> QED BY <2>1, QuietKeepsOwners
<1>8. ASSUME NEW p \in Processes, NEW to, TailBatch(p, to) PROVE Owners'
  <2>1. /\ pc[p] # "appending"
        /\ UNCHANGED <<logVars, inflight, running, answer>>
        /\ \A q \in Processes : q # p => pc'[q] = pc[q] /\ version'[q] = version[q]
    BY <1>1, <1>8 DEF TailBatch, FoldInto, callVars, TypeOK
  <2> QED BY <2>1, QuietKeepsOwners
<1>9. ASSUME NEW p \in Processes, NEW to, TailThrows(p, to) PROVE Owners'
  <2>1. p \notin Survivors
    BY <1>9 DEF TailThrows, Unfoldable, WholeCommits
  <2>2. pc[p] = "idle" /\ Discard(p) /\ UNCHANGED <<logVars, inflight, answer>>
    BY <1>9, <2>1 DEF TailThrows
  <2>3. /\ pc[p] = "idle"
        /\ UNCHANGED <<logVars, inflight, answer>>
        /\ running' = [running EXCEPT ![p] = NoCommand]
        /\ \A q \in Processes : q # p => pc'[q] = pc[q] /\ version'[q] = version[q]
    BY <1>1, <2>2 DEF Discard, TypeOK
  <2>4. running' = running
    BY <1>1, <2>3 DEF Busy, TypeOK
  <2> QED BY <2>3, <2>4, QuietKeepsOwners
<1>10. ASSUME NEW p \in Processes, Open(p) PROVE Owners'
  <2>1. /\ pc[p] # "appending"
        /\ UNCHANGED <<logVars, inflight, running, answer>>
        /\ \A q \in Processes : q # p => pc'[q] = pc[q] /\ version'[q] = version[q]
    BY <1>1, <1>10 DEF Open, callVars, TypeOK
  <2> QED BY <2>1, QuietKeepsOwners
<1>11. CASE UNCHANGED <<logVars, inflight, running, answer, pc, version>>
  BY <1>11 DEF Owners, OneRunner, RequestsOwned, StoredWasCalled, Waiting, logVars
<1>12. ASSUME NEW p \in Processes, LoseTail(p) PROVE Owners'
  BY <1>11, <1>12 DEF LoseTail, callVars, projVars
<1>13. CASE UNCHANGED vars
  BY <1>11, <1>13 DEF vars, callVars, projVars
<1>14. CASE Next
  BY <1>2, <1>3, <1>4, <1>5, <1>6, <1>7, <1>8, <1>9, <1>10, <1>12, <1>14,
     ServeKeepsOwners, CrashKeepsOwners DEF Next
<1> QED BY <1>13, <1>14

\* The stream only ever grows.
LEMMA StreamGrows ==
  ASSUME SafeInv, [Next]_vars
  PROVE  /\ log \in Seq(Event) /\ Len(log) \in Nat /\ DOMAIN log = 1..Len(log)
         /\ log' \in Seq(Event) /\ Len(log') \in Nat /\ DOMAIN log' = 1..Len(log')
         /\ Len(log) <= Len(log')
         /\ \A i \in 1..Len(log) : log'[i] = log[i]
<1>1. log \in Seq(Event) /\ log' \in Seq(Event)
  BY TypeNext DEF SafeInv, TypeInv, TypeOK
<1>2. /\ Len(log) \in Nat /\ DOMAIN log = 1..Len(log)
      /\ Len(log') \in Nat /\ DOMAIN log' = 1..Len(log')
  BY <1>1, LenProperties
<1>3. CASE log' = log
  BY <1>1, <1>2, <1>3
<1>4. ASSUME NEW c \in Commands, log' = log \o Envelopes(c, Len(log))
      PROVE  Len(log) <= Len(log') /\ \A i \in 1..Len(log) : log'[i] = log[i]
  <2>1. \A i \in 1..Len(log) : i \in DOMAIN log' /\ log'[i] = log[i]
    BY <1>1, <1>4, AppendedCommit
  <2>2. Len(log) <= Len(log')
    <3>1. CASE Len(log) = 0
      BY <1>2, <3>1
    <3>2. CASE Len(log) # 0
      <4>1. Len(log) \in 1..Len(log)
        BY <1>2, <3>2
      <4>2. Len(log) \in 1..Len(log')
        BY <1>2, <2>1, <4>1
      <4> QED BY <1>2, <4>2
    <3> QED BY <3>1, <3>2
  <2> QED BY <2>1, <2>2
<1> QED BY <1>1, <1>2, <1>3, <1>4, CommitsDecidedAtHead

\* How a call comes to be answered "ok" or "conflict": by the process that has
\* folded its commit, or by a turn on a prefix of the stream, which is the first of
\* the call or the one a rebase takes on all of it.
LEMMA Answering ==
  ASSUME WholeCommits, SafeInv, Owners, [Next]_vars, NEW c \in Commands,
         answer'[c] \in {"ok", "conflict"}
  PROVE  \/ answer'[c] = answer[c] /\ token'[c] = token[c]
         \/ \E p \in Processes :
              /\ pc[p] = "absorbed" /\ running[p] = c
              /\ answer'[c] = "ok" /\ token'[c] = version[p]
         \/ \E p \in Processes, n \in Nat, head \in 0..Len(log) :
              /\ Finished(p, c, n, head, Between(0, head), answer'[c])
              /\ \/ n = 0
                 \/ /\ n = attempts[p] + 1 /\ head = Len(log)
                    /\ pc[p] = "stale" /\ running[p] = c
<1> DEFINE Settled == \E p \in Processes :
             /\ pc[p] = "absorbed" /\ running[p] = c
             /\ answer'[c] = "ok" /\ token'[c] = version[p]
           Turned == \E p \in Processes, n \in Nat, head \in 0..Len(log) :
             /\ Finished(p, c, n, head, Between(0, head), answer'[c])
             /\ \/ n = 0
                \/ /\ n = attempts[p] + 1 /\ head = Len(log)
                   /\ pc[p] = "stale" /\ running[p] = c
           Goal == \/ answer'[c] = answer[c] /\ token'[c] = token[c]
                   \/ Settled
                   \/ Turned
<1> SUFFICES Goal
  OBVIOUS
<1> HIDE DEF Settled, Turned
<1>1. /\ TypeOK /\ log \in Seq(Event) /\ Len(log) \in Nat /\ \A q \in Processes : Busy(q)
      /\ \A q \in Processes : version[q] \in Nat /\ attempts[q] \in Nat
      /\ \A q \in Processes : running[q] \in Commands \cup {NoCommand}
  BY LenProperties DEF SafeInv, TypeInv, TypeOK
<1>2. ASSUME NEW p \in Processes, NEW d \in Commands, NEW a, NEW v, Return(p, d, a, v), d # c
      PROVE  Goal
  BY <1>1, <1>2, ReturnPlaces
<1>3. ASSUME NEW p \in Processes, NEW d \in Commands, NEW n \in Nat, NEW head \in 0..Len(log),
             Turn(p, d, n, head, Between(0, head)),
             \/ n = 0
             \/ /\ n = attempts[p] + 1 /\ head = Len(log)
                /\ pc[p] = "stale" /\ running[p] = d
      PROVE  Goal
  <2>1. CASE Sent(p, d, n, head)
    <3>1. answer' = [answer EXCEPT ![d] = "pending"] /\ token' = token
      BY <2>1 DEF Sent
    <3> QED BY <1>1, <3>1 DEF TypeOK
  <2>2. ASSUME NEW a \in {"ok", "rejected", "conflict"},
               Finished(p, d, n, head, Between(0, head), a)
        PROVE  Goal
    <3>1. Return(p, d, a, IF a = "ok" THEN head ELSE 0)
      BY <2>2 DEF Finished
    <3>2. CASE d # c
      BY <1>2, <3>1, <3>2
    <3>3. CASE d = c
      <4>1. answer'[c] = a
        BY <1>1, <3>1, <3>3, ReturnPlaces
      <4>2. Turned
        BY <1>3, <2>2, <3>3, <4>1 DEF Turned
      <4> QED BY <4>2
    <3> QED BY <3>2, <3>3
  <2> QED BY <1>3, <2>1, <2>2, TurnOutcomes
<1>4. ASSUME NEW p \in Processes, NEW d \in Commands, Begin(p, d) PROVE Goal
  <2>1. /\ Turn(p, d, 0, version[p], events[p]) /\ pc[p] = "idle"
    BY <1>4 DEF Begin
  <2>2. version[p] \in 0..Len(log) /\ events[p] = Between(0, version[p])
    BY <1>1, <2>1 DEF SafeInv, BusInvariant, ProjectionExact, Complete
  <2> QED BY <1>3, <2>1, <2>2
<1>5. ASSUME NEW p \in Processes, NEW d \in Commands, Create(p, d) PROVE Goal
  <2>1. Turn(p, d, 0, 0, Between(0, 0))
    <3>1. Between(0, 0) = << >>
      BY <1>1, SubSeqEmpty DEF Between
    <3> QED BY <1>5, <3>1 DEF Create
  <2>2. 0 \in 0..Len(log)
    BY <1>1
  <2> QED BY <1>3, <2>1, <2>2
<1>6. ASSUME NEW p \in Processes, Settle(p) PROVE Goal
  <2>1. Return(p, running[p], "ok", version[p]) /\ running[p] \in Commands /\ pc[p] = "absorbed"
    BY <1>1, <1>6 DEF Settle, Busy
  <2>2. CASE running[p] # c
    BY <1>2, <2>1, <2>2
  <2>3. CASE running[p] = c
    <3>1. answer'[c] = "ok" /\ token'[c] = version[p]
      BY <1>1, <2>1, <2>3, ReturnPlaces
    <3>2. Settled
      BY <2>1, <2>3, <3>1 DEF Settled
    <3> QED BY <3>2
  <2> QED BY <2>2, <2>3
<1>7. ASSUME NEW p \in Processes, NEW d \in Commands, Return(p, d, "unknown", 0) PROVE Goal
  BY <1>1, <1>7, ReturnPlaces
<1>8. ASSUME NEW p \in Processes, Rebase(p) PROVE Goal
  <2>1. pc[p] = "stale" /\ running[p] \in Commands /\ attempts[p] + 1 \in Nat /\ Len(log) \in 0..Len(log)
    BY <1>1, <1>8 DEF Rebase, Busy
  <2>2. \/ Turn(p, running[p], attempts[p] + 1, Len(log), Between(0, Len(log)))
        \/ Return(p, running[p], "unknown", 0)
    BY <1>8, RebaseFolds
  <2>3. CASE Turn(p, running[p], attempts[p] + 1, Len(log), Between(0, Len(log)))
    BY <1>3, <2>1, <2>3
  <2> QED BY <1>7, <2>1, <2>2, <2>3
<1>9. ASSUME NEW p \in Processes, Fail(p) PROVE Goal
  <2>1. Return(p, running[p], "unknown", 0) /\ running[p] \in Commands
    BY <1>1, <1>9 DEF Fail, Busy
  <2> QED BY <1>7, <2>1
<1>10. ASSUME NEW p \in Processes, Crash(p) PROVE Goal
  BY <1>10 DEF Crash
<1>11. CASE UNCHANGED <<answer, token>>
  BY <1>11
<1>12. CASE UNCHANGED vars
  BY <1>11, <1>12 DEF vars, callVars
<1>13. ASSUME NEW m \in inflight, ServeAnswered(m) \/ ServeUnanswered(m) PROVE Goal
  BY <1>11, <1>13 DEF ServeAnswered, ServeUnanswered, callVars
<1>14. ASSUME NEW p \in Processes, Absorb(p) \/ LoseTail(p) \/ Open(p) PROVE Goal
  BY <1>11, <1>14 DEF Absorb, LoseTail, Open, callVars
<1>15. ASSUME NEW p \in Processes, NEW to, TailBatch(p, to) \/ TailThrows(p, to) PROVE Goal
  <2>1. UNCHANGED <<answer, token>>
    BY <1>15 DEF TailBatch, TailThrows, callVars
  <2> QED BY <1>11, <2>1
<1>16. CASE Next
  BY <1>4, <1>5, <1>6, <1>8, <1>9, <1>10, <1>13, <1>14, <1>15, <1>16 DEF Next
<1> QED BY <1>12, <1>16

\* What a token promises stays promised: the stream before it does not change.
LEMMA AcknowledgedStep ==
  ASSUME WholeCommits, SafeInv, Owners, AcknowledgedIsStored,
         \A p \in Processes : AbsorbedIsHeld(p), [Next]_vars
  PROVE  AcknowledgedIsStored'
<1>1. /\ log \in Seq(Event) /\ Len(log) \in Nat /\ DOMAIN log = 1..Len(log)
      /\ log' \in Seq(Event) /\ Len(log') \in Nat /\ DOMAIN log' = 1..Len(log')
      /\ Len(log) <= Len(log')
      /\ \A i \in 1..Len(log) : log'[i] = log[i]
  BY StreamGrows
<1> SUFFICES ASSUME NEW c \in Commands \ Releases, answer'[c] = "ok"
             PROVE  \E i \in DOMAIN log : i <= token'[c] /\ SameEffect(c, log[i].cmd)
  BY <1>1 DEF AcknowledgedIsStored
<1>2. CASE answer[c] = "ok" /\ token'[c] = token[c]
  BY <1>2 DEF AcknowledgedIsStored
<1>3. ASSUME NEW p \in Processes, pc[p] = "absorbed", running[p] = c, token'[c] = version[p]
      PROVE  \E i \in DOMAIN log : i <= token'[c] /\ SameEffect(c, log[i].cmd)
  <2>1. PICK i \in 1..version[p] : log[i].cmd = c
    BY <1>3 DEF AbsorbedIsHeld
  <2>2. version[p] \in Nat /\ version[p] <= Len(log)
    BY <1>3 DEF SafeInv, TypeInv, TypeOK, BusInvariant, ProjectionExact, Complete
  <2>3. i \in DOMAIN log /\ i <= version[p]
    BY <1>1, <2>2
  <2> QED BY <1>3, <2>1, <2>3 DEF SameEffect
<1>4. ASSUME NEW p \in Processes, NEW n \in Nat, NEW head \in 0..Len(log),
             Finished(p, c, n, head, Between(0, head), "ok")
      PROVE  \E i \in DOMAIN log : i <= token'[c] /\ SameEffect(c, log[i].cmd)
  <2>1. token'[c] = head
    BY <1>4, ReturnPlaces DEF Finished, SafeInv, TypeInv
  <2>2. CommandSeen(c, Between(0, head))
    BY <1>4 DEF Finished, DecidesNothing
  <2>3. /\ Between(0, head) \in Seq(Event)
        /\ Len(Between(0, head)) = head - 0
        /\ \A i \in 1..(head - 0) : Between(0, head)[i] = log[0 + i]
    <3>1. TypeOK /\ 0 \in Nat /\ head \in Nat /\ 0 <= head /\ head <= Len(log)
      BY <1>1 DEF SafeInv, TypeInv
    <3> QED BY <3>1, BetweenIs
  <2>4. /\ DOMAIN Between(0, head) = 1..head
        /\ \A i \in 1..head : Between(0, head)[i] = log[i]
    BY <1>1, <2>3, LenProperties
  <2>5. PICK i \in 1..head : CommandId[log[i].cmd] = CommandId[c] /\ CommandId[c] # NoId
    BY <2>2, <2>4 DEF CommandSeen
  <2>6. i \in DOMAIN log /\ i <= head
    BY <1>1
  <2> QED BY <2>1, <2>5, <2>6 DEF SameEffect
<1> QED BY <1>2, <1>3, <1>4, Answering

\* What a step does to the loop and the read model of one process: nothing, or the
\* step is its own.
Untouched(q) ==
  /\ pc'[q] = pc[q] /\ running'[q] = running[q] /\ attempts'[q] = attempts[q]
  /\ version'[q] = version[q] /\ applied'[q] = applied[q]

LEMMA TurnOfOne ==
  ASSUME TypeOK, NEW p \in Processes, NEW c \in Commands, NEW n, NEW head, NEW history,
         Turn(p, c, n, head, history), NEW q \in Processes, q # p
  PROVE  /\ pc'[q] = pc[q] /\ running'[q] = running[q]
         /\ attempts'[q] = attempts[q] /\ applied'[q] = applied[q]
<1>1. CASE Sent(p, c, n, head)
  BY <1>1 DEF Sent, TypeOK
<1>2. ASSUME NEW a, Finished(p, c, n, head, history, a)
      PROVE  /\ pc'[q] = pc[q] /\ running'[q] = running[q]
             /\ attempts'[q] = attempts[q] /\ applied'[q] = applied[q]
  <2>1. Return(p, c, a, IF a = "ok" THEN head ELSE 0)
    BY <1>2 DEF Finished
  <2>2. applied'[q] = applied[q]
    BY <1>2 DEF Finished, Notify, TypeOK
  <2> QED BY <2>1, <2>2, ReturnPlaces
<1> QED BY <1>1, <1>2, TurnOutcomes

LEMMA OneMoves ==
  ASSUME WholeCommits, SafeInv, [Next]_vars, NEW q \in Processes
  PROVE  \/ Untouched(q)
         \/ \E c \in Commands : Begin(q, c) \/ Create(q, c)
         \/ \E m \in inflight : m.proc = q /\ Waiting(m) /\ ServeAnswered(m)
         \/ Fail(q) \/ Absorb(q) \/ Settle(q) \/ Rebase(q) \/ Open(q) \/ Discard(q)
         \/ \E to \in 1..Len(log) : TailBatch(q, to)
<1>1. /\ TypeOK /\ \A p \in Processes : Busy(p)
      /\ \A p \in Processes : running[p] \in Commands \cup {NoCommand}
  BY DEF SafeInv, TypeInv, TypeOK
<1>2. ASSUME NEW p \in Processes, NEW c \in Commands, NEW a, NEW v, Return(p, c, a, v),
             version'[q] = version[q] /\ applied'[q] = applied[q], q # p
      PROVE  Untouched(q)
  BY <1>1, <1>2, ReturnPlaces DEF Untouched
<1>3. ASSUME NEW p \in Processes, NEW c \in Commands, Begin(p, c) \/ Create(p, c), q # p
      PROVE  Untouched(q)
  <2>1. version'[q] = version[q]
    BY <1>1, <1>3 DEF Begin, Create, projVars, TypeOK
  <2>2. \E n, head, history : Turn(p, c, n, head, history)
    BY <1>3 DEF Begin, Create
  <2> QED BY <1>1, <1>3, <2>1, <2>2, TurnOfOne DEF Untouched
<1>4. ASSUME NEW m \in inflight, ServeAnswered(m) \/ ServeUnanswered(m),
             ~ (m.proc = q /\ Waiting(m) /\ ServeAnswered(m))
      PROVE  Untouched(q)
  <2>1. running' = running /\ attempts' = attempts /\ version' = version /\ applied' = applied
    BY <1>4 DEF ServeAnswered, ServeUnanswered, callVars, projVars
  <2>2. CASE pc' = pc
    BY <2>1, <2>2 DEF Untouched
  <2>3. ASSUME NEW s, pc' = [pc EXCEPT ![m.proc] = s], m.proc # q PROVE pc'[q] = pc[q]
    BY <1>1, <2>3 DEF TypeOK
  <2> QED BY <1>4, <2>1, <2>2, <2>3 DEF ServeAnswered, ServeUnanswered, Untouched
<1>5. ASSUME NEW p \in Processes, Fail(p), q # p PROVE Untouched(q)
  <2>1. Return(p, running[p], "unknown", 0) /\ running[p] \in Commands
    BY <1>1, <1>5 DEF Fail, Busy
  <2>2. version' = version /\ applied' = applied
    BY <1>5 DEF Fail, projVars
  <2> QED BY <1>2, <1>5, <2>1, <2>2
<1>6. ASSUME NEW p \in Processes, Settle(p), q # p PROVE Untouched(q)
  <2>1. Return(p, running[p], "ok", version[p]) /\ running[p] \in Commands
    BY <1>1, <1>6 DEF Settle, Busy
  <2>2. version' = version /\ applied'[q] = applied[q]
    BY <1>1, <1>6 DEF Settle, Notify, TypeOK
  <2> QED BY <1>2, <1>6, <2>1, <2>2
<1>7. ASSUME NEW p \in Processes, Rebase(p), q # p PROVE Untouched(q)
  <2>1. running[p] \in Commands
    BY <1>1, <1>7 DEF Rebase, Busy
  <2>2. version'[q] = version[q]
    BY <1>1, <1>7 DEF Rebase, FoldInto, TypeOK
  <2>3. \/ Turn(p, running[p], attempts[p] + 1, Len(log), Between(0, Len(log)))
        \/ Return(p, running[p], "unknown", 0) /\ applied' = applied
    BY <1>7, RebaseFolds
  <2>4. CASE Turn(p, running[p], attempts[p] + 1, Len(log), Between(0, Len(log)))
    BY <1>1, <1>7, <2>1, <2>2, <2>4, TurnOfOne DEF Untouched
  <2> QED BY <1>2, <1>7, <2>1, <2>2, <2>3, <2>4
<1>8. ASSUME NEW p \in Processes, Absorb(p) \/ Open(p) \/ LoseTail(p), q # p PROVE Untouched(q)
  BY <1>1, <1>8 DEF Absorb, Open, LoseTail, FoldInto, callVars, projVars, TypeOK, Untouched
<1>9. ASSUME NEW p \in Processes, Discard(p), q # p PROVE Untouched(q)
  BY <1>1, <1>9 DEF Discard, TypeOK, Untouched
<1>10. ASSUME NEW p \in Processes, NEW to, TailBatch(p, to), q # p PROVE Untouched(q)
  BY <1>1, <1>10 DEF TailBatch, FoldInto, Notify, callVars, TypeOK, Untouched
<1>11. ASSUME NEW p \in Processes, NEW to, TailThrows(p, to) PROVE Discard(p)
  BY <1>11 DEF TailThrows, Unfoldable, WholeCommits
<1>12. LoseTail(q) => Untouched(q)
  BY DEF LoseTail, callVars, projVars, Untouched
<1>13. CASE UNCHANGED vars
  BY <1>13 DEF vars, callVars, projVars, Untouched
<1>14. CASE Next
  <2>1. CASE \E p \in Processes, c \in Commands : Begin(p, c) \/ Create(p, c)
    BY <1>3, <2>1
  <2>2. CASE \E m \in inflight : ServeAnswered(m) \/ ServeUnanswered(m)
    BY <1>4, <2>2
  <2>3. CASE \E p \in Processes : Fail(p) \/ Absorb(p) \/ Settle(p) \/ Rebase(p)
    BY <1>5, <1>6, <1>7, <1>8, <2>3
  <2>4. CASE \E p \in Processes : LoseTail(p) \/ Open(p) \/ Crash(p)
    BY <1>8, <1>9, <1>12, <2>4 DEF Crash
  <2>5. CASE \E p \in Processes : \E to \in 1..Len(log) : TailBatch(p, to) \/ TailThrows(p, to)
    BY <1>9, <1>10, <1>11, <2>5
  <2> QED BY <1>14, <2>1, <2>2, <2>3, <2>4, <2>5 DEF Next
<1> QED BY <1>13, <1>14

\* Absorb folds the call's own events, which are where the projection ended.
LEMMA AbsorbFolds ==
  ASSUME SafeInv, NEW q \in Processes, Absorb(q)
  PROVE  /\ running[q] \in Commands /\ Size[running[q]] \in Nat \ {0}
         /\ version[q] + Size[running[q]] <= Len(log)
         /\ version' = [version EXCEPT ![q] = version[q] + Size[running[q]]]
         /\ log[version[q] + 1].cmd = running[q]
<1> DEFINE c == running[q]
           v == version[q]
           n == Size[c]
<1>1. TypeOK /\ Busy(q) /\ v \in Nat /\ c \in Commands \cup {NoCommand}
  BY DEF SafeInv, TypeInv, TypeOK
<1>2. pc[q] = "acked" /\ FoldInto(q, Envelopes(c, v))
  BY DEF Absorb
<1>3. c \in Commands /\ n \in Nat \ {0}
  BY <1>1, <1>2, CommandAttributes DEF Busy
<1>4. v + n <= Len(log) /\ Between(v, v + n) = Envelopes(c, v)
  BY <1>2 DEF SafeInv, BusInvariant, OwnCommitStored, Boundary, Between
<1>5. version' = [version EXCEPT ![q] = v + n]
  <2>1. v + n \in Nat /\ v <= v + n /\ FoldInto(q, Between(v, v + n)) /\ LogContiguous
    BY <1>1, <1>2, <1>3, <1>4 DEF SafeInv, BusInvariant
  <2>2. events[q] = Between(0, v)
    BY <1>2 DEF SafeInv, BusInvariant, ProjectionExact, Complete
  <2> QED BY <1>1, <1>3, <1>4, <2>1, <2>2, FoldSegment
<1>6. log[v + 1].cmd = c
  <2>1. Between(v, v + n)[1] = log[v + 1]
    <3>1. v + n \in Nat /\ v <= v + n /\ 1 \in 1..((v + n) - v)
      BY <1>1, <1>3
    <3> HIDE DEF v, n
    <3> QED BY <1>1, <1>3, <1>4, <3>1, BetweenIs
  <2>2. Envelopes(c, v)[1].cmd = c
    <3>1. 1 \in 1..n
      BY <1>3
    <3> QED BY <1>1, <1>3, <3>1, EnvelopesType
  <2> QED BY <1>4, <2>1, <2>2
<1> QED BY <1>3, <1>4, <1>5, <1>6

\* The commit a process has folded is in its part of the stream.
LEMMA AbsorbedStep ==
  ASSUME WholeCommits, SafeInv, [Next]_vars, NEW q \in Processes, AbsorbedIsHeld(q)
  PROVE  AbsorbedIsHeld(q)'
<1>1. /\ log \in Seq(Event) /\ Len(log) \in Nat /\ DOMAIN log = 1..Len(log)
      /\ Len(log') \in Nat /\ Len(log) <= Len(log')
      /\ \A i \in 1..Len(log) : log'[i] = log[i]
  BY StreamGrows
<1>2. /\ TypeOK /\ Busy(q) /\ version[q] \in Nat
      /\ running[q] \in Commands \cup {NoCommand}
  BY DEF SafeInv, TypeInv, TypeOK
<1> SUFFICES ASSUME pc'[q] = "absorbed"
             PROVE  \E i \in 1..version'[q] : log'[i].cmd = running'[q]
  BY DEF AbsorbedIsHeld
<1>3. CASE Untouched(q)
  <2>1. PICK i \in 1..version[q] : log[i].cmd = running[q]
    BY <1>3 DEF Untouched, AbsorbedIsHeld
  <2>2. version[q] <= Len(log)
    BY <1>3 DEF Untouched, SafeInv, BusInvariant, ProjectionExact, Complete
  <2>3. i \in 1..Len(log)
    BY <1>1, <1>2, <2>2
  <2> QED BY <1>1, <1>3, <2>1, <2>3 DEF Untouched
<1>4. CASE Absorb(q)
  <2>1. running' = running /\ log' = log
    BY <1>4 DEF Absorb, callVars, logVars
  <2>2. /\ Size[running[q]] \in Nat \ {0}
        /\ version' = [version EXCEPT ![q] = version[q] + Size[running[q]]]
        /\ log[version[q] + 1].cmd = running[q]
    BY <1>4, AbsorbFolds
  <2>3. version'[q] = version[q] + Size[running[q]]
    BY <1>2, <2>2 DEF TypeOK
  <2>4. version[q] + 1 \in 1..version'[q]
    BY <1>2, <2>2, <2>3
  <2> QED BY <2>1, <2>2, <2>4
<1>5. ASSUME NEW c \in Commands, NEW n, NEW head, NEW history, Turn(q, c, n, head, history)
      PROVE  FALSE
  <2>1. CASE Sent(q, c, n, head)
    BY <1>2, <2>1 DEF Sent, TypeOK
  <2>2. ASSUME NEW a, Finished(q, c, n, head, history, a) PROVE FALSE
    BY <1>2, <2>2, ReturnPlaces DEF Finished
  <2> QED BY <1>5, <2>1, <2>2, TurnOutcomes
<1>6. ASSUME NEW c \in Commands, NEW a, NEW v, Return(q, c, a, v) PROVE FALSE
  BY <1>2, <1>6, ReturnPlaces
<1>7. CASE \E c \in Commands : Begin(q, c) \/ Create(q, c)
  BY <1>5, <1>7 DEF Begin, Create
<1>8. CASE \E m \in inflight : m.proc = q /\ Waiting(m) /\ ServeAnswered(m)
  BY <1>2, <1>8 DEF ServeAnswered, TypeOK
<1>9. CASE Fail(q)
  BY <1>2, <1>6, <1>9 DEF Fail, Busy
<1>10. CASE Settle(q)
  BY <1>2, <1>6, <1>10 DEF Settle, Busy
<1>11. CASE Rebase(q)
  <2>1. running[q] \in Commands
    BY <1>2, <1>11 DEF Rebase, Busy
  <2> QED BY <1>5, <1>6, <1>11, <2>1, RebaseFolds
<1>12. CASE Open(q) \/ Discard(q)
  BY <1>2, <1>12 DEF Open, Discard, TypeOK
<1>13. CASE \E to \in 1..Len(log) : TailBatch(q, to)
  BY <1>2, <1>13 DEF TailBatch
<1> QED BY <1>3, <1>4, <1>7, <1>8, <1>9, <1>10, <1>11, <1>12, <1>13, OneMoves

\* A batch of the live tail moves the projection forward or leaves it.
LEMMA TailBatchAdvances ==
  ASSUME SafeInv, NEW q \in Processes, NEW to \in 1..Len(log), TailBatch(q, to)
  PROVE  version[q] <= version'[q]
<1>1. TypeOK /\ version[q] \in Nat /\ Len(log) \in Nat
  BY LenProperties DEF SafeInv, TypeInv, TypeOK
<1>2. /\ tail[q] \in Nat /\ to \in Nat /\ to <= Len(log)
      /\ FoldInto(q, Fresh(Between(tail[q], to), version[q]))
  <2>1. tail[q] # NoTail /\ FoldInto(q, Fresh(Between(tail[q], to), version[q]))
    BY DEF TailBatch
  <2> QED BY <1>1, <2>1 DEF TypeOK
<1>3. /\ events[q] = Between(0, version[q]) /\ version[q] <= Len(log) /\ tail[q] <= version[q]
      /\ LogContiguous
  BY DEF TailBatch, SafeInv, BusInvariant, ProjectionExact, Complete
<1>4. \E n \in {version[q], to} : version[q] <= n /\ version' = [version EXCEPT ![q] = n]
  BY <1>1, <1>2, <1>3, FoldFresh
<1> QED BY <1>1, <1>4 DEF TypeOK

\* The read model stays behind the projection, and a process whose handle is not
\* registered has none.
LEMMA AppliedStep ==
  ASSUME WholeCommits, SafeInv, [Next]_vars, NEW q \in Processes, AppliedBehind(q)
  PROVE  AppliedBehind(q)'
<1>1. /\ TypeOK /\ Busy(q) /\ version[q] \in Nat /\ applied[q] \in Nat
      /\ running[q] \in Commands \cup {NoCommand} /\ NoCommand \notin Creates
      /\ version'[q] \in Nat
  BY TypeNext, BusConstants DEF SafeInv, TypeInv, TypeOK
<1>2. /\ applied[q] <= version[q]
      /\ pc[q] = "down" \/ running[q] \in Creates => applied[q] = 0
  BY DEF AppliedBehind
<1>3. ASSUME applied'[q] = applied[q], version[q] <= version'[q],
             pc'[q] = "down" \/ running'[q] \in Creates => pc[q] = "down" \/ running[q] \in Creates
      PROVE  AppliedBehind(q)'
  BY <1>1, <1>2, <1>3 DEF AppliedBehind
<1>4. ASSUME NEW c \in Commands, NEW n, NEW head \in Nat, NEW history, Turn(q, c, n, head, history),
             version'[q] = head, applied[q] <= head,
             c \in Creates => applied[q] = 0
      PROVE  AppliedBehind(q)'
  <2>1. CASE Sent(q, c, n, head)
    <3>1. pc'[q] = "appending" /\ running'[q] = c /\ applied'[q] = applied[q]
      BY <1>1, <2>1 DEF Sent, TypeOK
    <3> QED BY <1>1, <1>4, <3>1 DEF AppliedBehind
  <2>2. ASSUME NEW a \in {"ok", "rejected", "conflict"}, Finished(q, c, n, head, history, a)
        PROVE  AppliedBehind(q)'
    <3>1. c \in Creates => a # "ok"
      BY <2>2, CreatesEmit DEF Finished
    <3>2. pc'[q] = (IF c \in Creates /\ a # "ok" THEN "down" ELSE "idle") /\ running'[q] = NoCommand
      BY <1>1, <2>2, ReturnPlaces DEF Finished
    <3>3. applied'[q] \in {applied[q], head} /\ (a # "ok" => applied'[q] = applied[q])
      BY <1>1, <2>2 DEF Finished, Notify, TypeOK
    <3>4. applied'[q] <= head
      BY <1>4, <3>3
    <3>5. pc'[q] = "down" \/ running'[q] \in Creates => applied'[q] = 0
      BY <1>1, <1>4, <3>1, <3>2, <3>3
    <3> QED BY <1>4, <3>4, <3>5 DEF AppliedBehind
  <2> QED BY <1>4, <2>1, <2>2, TurnOutcomes
<1>5. CASE Untouched(q)
  BY <1>1, <1>3, <1>5 DEF Untouched
<1>6. ASSUME NEW c \in Commands, Begin(q, c) PROVE AppliedBehind(q)'
  <2>1. /\ c \notin Creates /\ version'[q] = version[q]
        /\ Turn(q, c, 0, version[q], events[q])
    BY <1>6 DEF Begin, projVars
  <2> QED BY <1>1, <1>2, <1>4, <2>1
<1>7. ASSUME NEW c \in Commands, Create(q, c) PROVE AppliedBehind(q)'
  <2>1. /\ pc[q] = "down" /\ version'[q] = 0
        /\ Turn(q, c, 0, 0, << >>)
    BY <1>1, <1>7 DEF Create, TypeOK
  <2>2. applied[q] = 0 /\ applied[q] <= 0
    BY <1>2, <2>1
  <2> QED BY <1>4, <2>1, <2>2
<1>8. CASE \E m \in inflight : m.proc = q /\ Waiting(m) /\ ServeAnswered(m)
  <2>1. /\ pc[q] = "appending" /\ pc'[q] # "down"
        /\ running' = running /\ version' = version /\ applied' = applied
    BY <1>1, <1>8 DEF ServeAnswered, Waiting, callVars, projVars, TypeOK
  <2> QED BY <1>1, <1>3, <2>1
<1>9. CASE Fail(q)
  <2>1. /\ Return(q, running[q], "unknown", 0) /\ running[q] \in Commands
        /\ version' = version /\ applied' = applied
    BY <1>1, <1>9 DEF Fail, Busy, projVars
  <2>2. /\ running'[q] = NoCommand
        /\ pc'[q] = IF running[q] \in Creates THEN "down" ELSE "idle"
    BY <1>1, <2>1, ReturnPlaces
  <2>3. pc'[q] = "down" \/ running'[q] \in Creates => running[q] \in Creates
    BY <1>1, <2>2
  <2> QED BY <1>1, <1>3, <2>1, <2>3
<1>10. CASE Absorb(q)
  <2>1. /\ pc[q] = "acked" /\ pc'[q] = "absorbed" /\ running' = running /\ applied' = applied
    BY <1>1, <1>10 DEF Absorb, callVars, TypeOK
  <2>2. version[q] <= version'[q]
    <3>1. /\ Size[running[q]] \in Nat \ {0}
          /\ version' = [version EXCEPT ![q] = version[q] + Size[running[q]]]
      BY <1>10, AbsorbFolds
    <3>2. version'[q] = version[q] + Size[running[q]]
      BY <1>1, <3>1 DEF TypeOK
    <3> QED BY <1>1, <3>1, <3>2
  <2> QED BY <1>1, <1>3, <2>1, <2>2
<1>11. CASE Settle(q)
  <2>1. /\ Return(q, running[q], "ok", version[q]) /\ running[q] \in Commands
        /\ version' = version /\ applied'[q] \in {version[q], applied[q]}
    BY <1>1, <1>11 DEF Settle, Busy, Notify, TypeOK
  <2>2. pc'[q] = "idle" /\ running'[q] = NoCommand
    BY <1>1, <2>1, ReturnPlaces
  <2> QED BY <1>1, <1>2, <2>1, <2>2 DEF AppliedBehind
<1>12. CASE Rebase(q)
  <2>1. pc[q] = "stale" /\ running[q] \in Commands
    BY <1>1, <1>12 DEF Rebase, Busy
  <2>2. PICK n \in version[q]..Len(log) :
          /\ version' = [version EXCEPT ![q] = n]
          /\ \/ Turn(q, running[q], attempts[q] + 1, n, Between(0, n))
             \/ Return(q, running[q], "unknown", 0) /\ UNCHANGED <<cursor, inflight, applied>>
    BY <1>12, RebaseFolds
  <2>3. version'[q] = n /\ n \in Nat /\ version[q] <= n
    BY <1>1, <2>2 DEF TypeOK
  <2>4. CASE Turn(q, running[q], attempts[q] + 1, n, Between(0, n))
    <3>1. applied[q] <= n /\ (running[q] \in Creates => applied[q] = 0)
      BY <1>1, <1>2, <2>3
    <3> QED BY <1>4, <2>1, <2>3, <2>4, <3>1
  <2>5. CASE Return(q, running[q], "unknown", 0) /\ UNCHANGED <<cursor, inflight, applied>>
    <3>1. /\ running'[q] = NoCommand
          /\ pc'[q] = IF running[q] \in Creates THEN "down" ELSE "idle"
      BY <1>1, <2>1, <2>5, ReturnPlaces
    <3>2. pc'[q] = "down" \/ running'[q] \in Creates => running[q] \in Creates
      BY <1>1, <3>1
    <3> QED BY <1>1, <1>3, <2>3, <2>5, <3>2
  <2> QED BY <2>2, <2>4, <2>5
<1>13. CASE Open(q)
  <2>1. /\ applied'[q] = version'[q] /\ pc'[q] = "idle" /\ running'[q] = running[q] /\ pc[q] = "down"
    BY <1>1, <1>13 DEF Open, callVars, TypeOK
  <2> QED BY <1>1, <2>1 DEF AppliedBehind, Busy
<1>14. CASE Discard(q)
  <2>1. applied'[q] = 0 /\ version'[q] = 0
    BY <1>1, <1>14 DEF Discard, TypeOK
  <2> QED BY <2>1 DEF AppliedBehind
<1>15. ASSUME NEW to \in 1..Len(log), TailBatch(q, to) PROVE AppliedBehind(q)'
  <2>1. /\ pc[q] = "idle" /\ pc'[q] = "idle" /\ running' = running
        /\ applied'[q] = IF version'[q] > applied[q] THEN version'[q] ELSE applied[q]
    BY <1>1, <1>15 DEF TailBatch, Notify, callVars, TypeOK
  <2>2. running'[q] \notin Creates
    BY <1>1, <2>1 DEF Busy
  <2>3. version[q] <= version'[q]
    BY <1>15, TailBatchAdvances
  <2>4. applied'[q] <= version'[q]
    BY <1>1, <1>2, <2>1, <2>3
  <2> QED BY <2>1, <2>2, <2>4 DEF AppliedBehind
<1>16. CASE \E c \in Commands : Begin(q, c) \/ Create(q, c)
  BY <1>6, <1>7, <1>16
<1>17. CASE \E to \in 1..Len(log) : TailBatch(q, to)
  BY <1>15, <1>17
<1> QED BY <1>5, <1>8, <1>9, <1>10, <1>11, <1>12, <1>13, <1>14, <1>16, <1>17, OneMoves

-----------------------------------------------------------------------------
(* Counting the commits of a prefix.                                        *)

LEMMA CommitsFinite ==
  ASSUME NEW m \in Nat, NEW n \in Nat
  PROVE  IsFiniteSet(Commits(m, n)) /\ Cardinality(Commits(m, n)) \in Nat
<1>1. IsFiniteSet((m + 1)..n)
  BY FS_Interval
<1>2. Commits(m, n) \subseteq (m + 1)..n
  BY DEF Commits
<1> QED BY <1>1, <1>2, FS_Subset, FS_CardinalityType

LEMMA CommitsGrow ==
  ASSUME NEW s \in Nat, NEW m \in Nat, NEW n \in Nat, s <= m, m <= n,
         NEW k \in (m + 1)..n, log[k].first
  PROVE  Cardinality(Commits(s, m)) + 1 <= Cardinality(Commits(s, n))
<1>1. IsFiniteSet(Commits(s, m)) /\ IsFiniteSet(Commits(s, n))
  BY CommitsFinite
<1>2. k \notin Commits(s, m) /\ Commits(s, m) \cup {k} \subseteq Commits(s, n)
  BY DEF Commits
<1>3. Cardinality(Commits(s, m) \cup {k}) = Cardinality(Commits(s, m)) + 1
  BY <1>1, <1>2, FS_AddElement
<1>4. Cardinality(Commits(s, m) \cup {k}) <= Cardinality(Commits(s, n))
  BY <1>1, <1>2, FS_Subset
<1> QED BY <1>3, <1>4

\* A prefix has the same commits in a longer stream.
LEMMA CommitsKept ==
  ASSUME SafeInv, [Next]_vars, NEW m \in Nat, NEW n \in Nat, n <= Len(log)
  PROVE  {i \in (m + 1)..n : log'[i].first} = Commits(m, n)
<1>1. Len(log) \in Nat /\ \A i \in 1..Len(log) : log'[i] = log[i]
  BY StreamGrows
<1>2. \A i \in (m + 1)..n : log'[i] = log[i]
  BY <1>1
<1> QED BY <1>2 DEF Commits

\* A call begins once.
LEMMA SinceStays ==
  ASSUME SafeInv, [Next]_vars, NEW c \in Commands, answer[c] # "none"
  PROVE  since'[c] = since[c]
<1>0. since \in [Commands -> Nat]
  BY DEF SafeInv, TypeInv, TypeOK
<1>1. ASSUME NEW d \in Commands, NEW v, answer[d] = "none", since' = [since EXCEPT ![d] = v]
      PROVE  since'[c] = since[c]
  BY <1>0, <1>1
<1>2. CASE since' = since
  BY <1>2
<1>3. CASE UNCHANGED vars
  BY <1>2, <1>3 DEF vars, callVars
<1>4. CASE \E p \in Processes, d \in Commands : Begin(p, d) \/ Create(p, d)
  BY <1>1, <1>4 DEF Begin, Create
<1>5. CASE \E m \in inflight : ServeAnswered(m) \/ ServeUnanswered(m)
  BY <1>2, <1>5 DEF ServeAnswered, ServeUnanswered, callVars
<1>6. CASE \E p \in Processes : \/ Fail(p) \/ Absorb(p) \/ Settle(p) \/ Rebase(p)
                                \/ LoseTail(p) \/ Open(p) \/ Crash(p)
  BY <1>2, <1>6 DEF Fail, Absorb, Settle, Rebase, LoseTail, Open, Crash, callVars
<1>7. CASE \E p \in Processes : \E to \in 1..Len(log) : TailBatch(p, to) \/ TailThrows(p, to)
  BY <1>2, <1>7 DEF TailBatch, TailThrows, callVars
<1> QED BY <1>3, <1>4, <1>5, <1>6, <1>7 DEF Next

LEMMA SequenceGrows ==
  ASSUME SafeInv, [Next]_vars
  PROVE  lastSeq \in Int /\ lastSeq' \in Int /\ lastSeq <= lastSeq'
<1>1. lastSeq \in Int /\ lastSeq' \in Int
  <2>1. TypeOK /\ TypeOK'
    BY TypeNext DEF SafeInv, TypeInv
  <2>2. lastSeq \in Nat \cup {-1} /\ lastSeq' \in Nat \cup {-1}
    BY <2>1 DEF TypeOK
  <2> QED BY <2>2
<1>2. ASSUME NEW m \in inflight, ServeAnswered(m) \/ ServeUnanswered(m)
      PROVE  lastSeq <= lastSeq'
  <2>1. lastSeq' = lastSeq \/ (m.seq > lastSeq /\ lastSeq' = m.seq)
    BY <1>2 DEF ServeAnswered, ServeUnanswered, Admits, Store, logVars
  <2>2. m.seq \in Int
    BY DEF SafeInv, TypeInv, TypeOK
  <2> QED BY <1>1, <2>1, <2>2
<1>3. CASE UNCHANGED logVars
  BY <1>1, <1>3 DEF logVars
<1>4. CASE Next
  <2>1. \/ UNCHANGED logVars
        \/ \E m \in inflight : ServeAnswered(m) \/ ServeUnanswered(m)
    BY <1>4 DEF Next, Begin, Create, Fail, Absorb, Settle, Rebase, LoseTail, Open, Crash,
                TailBatch, TailThrows
  <2> QED BY <1>1, <1>2, <1>3, <2>1
<1>5. CASE UNCHANGED vars
  BY <1>3, <1>5 DEF vars
<1> QED BY <1>4, <1>5

\* Between a stale process's head and the end of the stream is a commit.
LEMMA StaleIsBehind ==
  ASSUME SafeInv, NEW p \in Processes, TurnsLost(p), pc[p] = "stale"
  PROVE  /\ version[p] \in Nat /\ Len(log) \in Nat /\ version[p] < Len(log)
         /\ since[running[p]] \in Nat /\ since[running[p]] <= version[p]
         /\ Cardinality(Commits(since[running[p]], Len(log))) >= attempts[p] + 1
<1>1. /\ version[p] \in Nat /\ Len(log) \in Nat /\ attempts[p] \in Nat
      /\ lastSeq \in Int /\ log \in Seq(Event)
  BY LenProperties DEF SafeInv, TypeInv, TypeOK
<1> DEFINE s == since[running[p]]
<1>2. lastSeq >= version[p] /\ s <= version[p]
      /\ Cardinality(Commits(s, version[p])) >= attempts[p]
  BY DEF TurnsLost
<1>3. s \in Nat
  BY DEF SafeInv, TypeInv, TypeOK, Busy
<1>4. version[p] < Len(log)
  <2>1. IF log = << >> THEN lastSeq = -1 ELSE lastSeq \in 0..(Len(log) - 1)
    BY DEF SafeInv, BusInvariant, StreamShape
  <2> QED BY <1>1, <1>2, <2>1
<1>5. log[version[p] + 1].first /\ version[p] + 1 \in (version[p] + 1)..Len(log)
  BY <1>1, <1>4 DEF SafeInv, BusInvariant, ProjectionExact, MessageBoundary
<1> HIDE DEF s
<1>6. Cardinality(Commits(s, version[p])) + 1 <= Cardinality(Commits(s, Len(log)))
  BY <1>1, <1>2, <1>3, <1>4, <1>5, CommitsGrow
<1>7. Cardinality(Commits(s, version[p])) \in Nat /\ Cardinality(Commits(s, Len(log))) \in Nat
  BY <1>1, <1>3, CommitsFinite
<1>8. Cardinality(Commits(s, Len(log))) >= attempts[p] + 1
  BY <1>1, <1>2, <1>6, <1>7
<1> QED BY <1>1, <1>2, <1>3, <1>4, <1>8 DEF s

\* A turn on enough commits.
LEMMA TurnPays ==
  ASSUME SafeInv, NEW p \in Processes, NEW c \in Commands, NEW n \in Nat, NEW head \in Nat,
         NEW history, Turn(p, c, n, head, history),
         log' = log, version'[p] = head, since'[c] <= head,
         Cardinality(Commits(since'[c], head)) >= n
  PROVE  TurnsLost(p)'
<1>1. TypeOK
  BY DEF SafeInv, TypeInv
<1>2. CASE Sent(p, c, n, head)
  <2>1. pc'[p] = "appending" /\ running'[p] = c /\ attempts'[p] = n
    BY <1>1, <1>2 DEF Sent, TypeOK
  <2> QED BY <2>1 DEF TurnsLost, Commits
<1>3. ASSUME NEW a \in {"ok", "rejected", "conflict"}, Finished(p, c, n, head, history, a)
      PROVE  TurnsLost(p)'
  <2>1. pc'[p] \in {"down", "idle"}
    BY <1>1, <1>3, ReturnPlaces DEF Finished
  <2> QED BY <2>1 DEF TurnsLost
<1> QED BY <1>2, <1>3, TurnOutcomes

\* Every turn lost was lost to a commit.
LEMMA TurnsLostStep ==
  ASSUME WholeCommits, SafeInv, Owners, [Next]_vars, NEW q \in Processes, TurnsLost(q)
  PROVE  TurnsLost(q)'
<1>1. /\ TypeOK /\ Busy(q) /\ version[q] \in Nat /\ attempts[q] \in Nat
      /\ running[q] \in Commands \cup {NoCommand}
      /\ version'[q] \in Nat /\ Len(log) \in Nat
  BY TypeNext, LenProperties, BusConstants DEF SafeInv, TypeInv, TypeOK
<1>2. /\ pc[q] \in {"appending", "stale"} =>
           /\ since[running[q]] <= version[q]
           /\ Cardinality(Commits(since[running[q]], version[q])) >= attempts[q]
      /\ pc[q] = "stale" => lastSeq >= version[q]
  BY DEF TurnsLost
<1>3. pc[q] # "down" => version[q] <= Len(log)
  BY DEF SafeInv, BusInvariant, ProjectionExact, Complete
<1>4. pc[q] \in {"appending", "stale"} =>
        /\ running[q] \in Commands /\ since[running[q]] \in Nat
        /\ since'[running[q]] = since[running[q]]
  <2>1. pc[q] \in {"appending", "stale"} =>
          running[q] \in Commands /\ answer[running[q]] = "pending"
    BY <1>1 DEF Busy, Owners, OneRunner
  <2> QED BY <1>1, <2>1, SinceStays DEF TypeOK
<1>5. ASSUME pc'[q] \notin {"appending", "stale"}
      PROVE  TurnsLost(q)'
  BY <1>5 DEF TurnsLost
<1>6. ASSUME pc[q] = "appending" \/ pc'[q] = pc[q],
             pc'[q] = "stale" => lastSeq' >= version[q],
             running'[q] = running[q], attempts'[q] = attempts[q], version'[q] = version[q]
      PROVE  TurnsLost(q)'
  <2>1. CASE pc'[q] \in {"appending", "stale"}
    <3>1. pc[q] \in {"appending", "stale"}
      BY <1>6, <2>1
    <3>2. {i \in (since[running[q]] + 1)..version[q] : log'[i].first} =
            Commits(since[running[q]], version[q])
      BY <1>1, <1>3, <1>4, <3>1, CommitsKept
    <3> QED BY <1>2, <1>4, <1>6, <3>1, <3>2 DEF TurnsLost, Commits
  <2> QED BY <1>5, <2>1
<1>7. ASSUME NEW c \in Commands, NEW a, NEW v, Return(q, c, a, v)
      PROVE  TurnsLost(q)'
  <2>1. pc'[q] \in {"down", "idle"}
    BY <1>1, <1>7, ReturnPlaces
  <2> QED BY <1>5, <2>1
<1>8. CASE Untouched(q)
  <2>1. pc'[q] = "stale" => lastSeq' >= version[q]
    <3>1. lastSeq \in Int /\ lastSeq' \in Int /\ lastSeq <= lastSeq'
      BY SequenceGrows
    <3> QED BY <1>1, <1>2, <1>8, <3>1 DEF Untouched
  <2> QED BY <1>6, <1>8, <2>1 DEF Untouched
<1>9. ASSUME NEW c \in Commands, Begin(q, c) \/ Create(q, c) PROVE TurnsLost(q)'
  <2>1. PICK head, history :
          /\ head \in Nat
          /\ Turn(q, c, 0, head, history) /\ version'[q] = head /\ log' = log
          /\ since'[c] = head
    <3>1. CASE Begin(q, c)
      BY <1>1, <3>1 DEF Begin, projVars, logVars, TypeOK
    <3>2. CASE Create(q, c)
      BY <1>1, <3>2 DEF Create, logVars, TypeOK
    <3> QED BY <1>9, <3>1, <3>2
  <2>2. head \in Nat /\ since'[c] = head
    BY <2>1
  <2>3. Cardinality(Commits(head, head)) \in Nat
    BY <2>2, CommitsFinite
  <2>4. 0 \in Nat /\ since'[c] <= head /\ Cardinality(Commits(since'[c], head)) >= 0
    BY <2>2, <2>3
  <2> QED BY <2>1, <2>2, <2>4, TurnPays
<1>10. ASSUME NEW m \in inflight, m.proc = q, Waiting(m), ServeAnswered(m) PROVE TurnsLost(q)'
  <2>1. /\ pc[q] = "appending" /\ version[q] = m.seq
        /\ running' = running /\ attempts' = attempts /\ version' = version
    BY <1>10 DEF ServeAnswered, Waiting, callVars, projVars
  <2>2. \/ pc'[q] = "acked"
        \/ pc'[q] = "stale" /\ ~ (m.seq > lastSeq) /\ lastSeq' = lastSeq
    BY <1>1, <1>10 DEF ServeAnswered, Admits, logVars, TypeOK
  <2>3. lastSeq \in Int /\ m.seq \in Nat
    BY <1>1, <2>1 DEF TypeOK
  <2>4. pc'[q] = "stale" => lastSeq' >= version[q]
    BY <2>1, <2>2, <2>3
  <2> QED BY <1>6, <2>1, <2>4
<1>11. CASE Fail(q)
  <2>1. Return(q, running[q], "unknown", 0) /\ running[q] \in Commands
    BY <1>1, <1>11 DEF Fail, Busy
  <2> QED BY <1>7, <2>1
<1>12. CASE Absorb(q)
  BY <1>1, <1>5, <1>12 DEF Absorb, TypeOK
<1>13. CASE Settle(q)
  <2>1. Return(q, running[q], "ok", version[q]) /\ running[q] \in Commands
    BY <1>1, <1>13 DEF Settle, Busy
  <2> QED BY <1>7, <2>1
<1>14. CASE Rebase(q)
  <2>1. pc[q] = "stale" /\ running[q] \in Commands /\ log' = log
    BY <1>1, <1>14 DEF Rebase, Busy, logVars
  <2>2. PICK n \in version[q]..Len(log) :
          /\ version' = [version EXCEPT ![q] = n]
          /\ \/ n = Len(log) /\ Turn(q, running[q], attempts[q] + 1, n, Between(0, n))
             \/ Return(q, running[q], "unknown", 0)
    BY <1>14, RebaseFolds
  <2>3. version'[q] = n /\ n \in Nat /\ version[q] <= n
    BY <1>1, <2>2 DEF TypeOK
  <2>4. CASE n = Len(log) /\ Turn(q, running[q], attempts[q] + 1, n, Between(0, n))
    <3>1. /\ since[running[q]] \in Nat /\ since[running[q]] <= version[q]
          /\ Cardinality(Commits(since[running[q]], n)) >= attempts[q] + 1
      BY <2>1, <2>4, StaleIsBehind
    <3>2. attempts[q] + 1 \in Nat /\ since'[running[q]] = since[running[q]]
      BY <1>1, <1>4, <2>1
    <3>3. since[running[q]] <= n
      BY <1>1, <2>3, <3>1
    <3> QED BY <2>1, <2>3, <2>4, <3>1, <3>2, <3>3, TurnPays
  <2>5. CASE Return(q, running[q], "unknown", 0)
    BY <1>7, <2>1, <2>5
  <2> QED BY <2>2, <2>4, <2>5
<1>15. CASE Open(q)
  BY <1>1, <1>5, <1>15 DEF Open, TypeOK
<1>16. CASE Discard(q)
  BY <1>1, <1>5, <1>16 DEF Discard, TypeOK
<1>17. CASE \E to \in 1..Len(log) : TailBatch(q, to)
  BY <1>5, <1>17 DEF TailBatch
<1>18. CASE \E c \in Commands : Begin(q, c) \/ Create(q, c)
  BY <1>9, <1>18
<1>19. CASE \E m \in inflight : m.proc = q /\ Waiting(m) /\ ServeAnswered(m)
  BY <1>10, <1>19
<1> QED BY <1>8, <1>11, <1>12, <1>13, <1>14, <1>15, <1>16, <1>17, <1>18, <1>19, OneMoves

\* A conflict is reported after as many lost turns as the loop allows.
LEMMA ConflictsStep ==
  ASSUME WholeCommits, SafeInv, Owners, \A p \in Processes : TurnsLost(p),
         ConflictsMet, [Next]_vars
  PROVE  ConflictsMet'
<1>1. /\ Len(log) \in Nat /\ DOMAIN log = 1..Len(log)
      /\ Len(log') \in Nat /\ DOMAIN log' = 1..Len(log')
      /\ Len(log) <= Len(log')
      /\ \A i \in 1..Len(log) : log'[i] = log[i]
      /\ \A c \in Commands : since[c] \in Nat
  BY StreamGrows DEF SafeInv, TypeInv, TypeOK
<1>2. MaxAttempts \in Nat \ {0}
  BY BusConstants
<1> SUFFICES ASSUME NEW c \in Commands, answer'[c] = "conflict"
             PROVE  Cardinality(Met(c)') >= MaxAttempts
  BY DEF ConflictsMet
<1>3. Met(c) = Commits(since[c], Len(log))
  BY <1>1 DEF Met, Commits
<1>4. ASSUME answer[c] # "none", Cardinality(Commits(since[c], Len(log))) >= MaxAttempts
      PROVE  Cardinality(Met(c)') >= MaxAttempts
  <2>1. since'[c] = since[c]
    BY <1>4, SinceStays
  <2>2. IsFiniteSet(Met(c)')
    <3>1. Met(c)' \subseteq 1..Len(log')
      BY <1>1 DEF Met
    <3>2. IsFiniteSet(1..Len(log'))
      <4>1. 1 \in Int /\ Len(log') \in Int
        BY <1>1
      <4> QED BY <4>1, FS_Interval
    <3> QED BY <3>1, <3>2, FS_Subset
  <2>3. Commits(since[c], Len(log)) \subseteq Met(c)'
    BY <1>1, <2>1 DEF Met, Commits
  <2>4. /\ Cardinality(Met(c)') \in Nat
        /\ Cardinality(Commits(since[c], Len(log))) <= Cardinality(Met(c)')
    BY <2>2, <2>3, FS_Subset, FS_CardinalityType
  <2>5. Cardinality(Commits(since[c], Len(log))) \in Nat
    BY <1>1, CommitsFinite
  <2> QED BY <1>2, <1>4, <2>4, <2>5
<1>5. CASE answer[c] = "conflict"
  BY <1>3, <1>4, <1>5 DEF ConflictsMet
<1>6. ASSUME NEW p \in Processes, NEW n \in Nat, NEW head,
             Finished(p, c, n, head, Between(0, head), "conflict"),
             \/ n = 0
             \/ n = attempts[p] + 1 /\ pc[p] = "stale" /\ running[p] = c
      PROVE  Cardinality(Met(c)') >= MaxAttempts
  <2>1. n >= MaxAttempts
    BY <1>6 DEF Finished, Exhausted
  <2>2. n = attempts[p] + 1 /\ pc[p] = "stale" /\ running[p] = c
    BY <1>2, <1>6, <2>1
  <2>3. Cardinality(Commits(since[c], Len(log))) >= n
    BY <2>2, StaleIsBehind
  <2>4. Cardinality(Commits(since[c], Len(log))) \in Nat
    BY <1>1, CommitsFinite
  <2>5. answer[c] = "pending"
    BY <2>2, BusConstants DEF Owners, OneRunner
  <2> QED BY <1>2, <1>4, <2>1, <2>3, <2>4, <2>5
<1> QED BY <1>5, <1>6, Answering

\* The snapshot is taken from a projection.
LEMMA SnapshotStep ==
  ASSUME SafeInv, SnapshotResumable, [Next]_vars
  PROVE  SnapshotResumable'
<1>1. /\ log \in Seq(Event) /\ Len(log) \in Nat
      /\ log' \in Seq(Event) /\ Len(log') \in Nat
      /\ Len(log) <= Len(log')
      /\ \A i \in 1..Len(log) : log'[i] = log[i]
  BY StreamGrows
<1>2. ASSUME NEW n \in Nat, n <= Len(log) PROVE SubSeq(log', 1, n) = Between(0, n)
  <2>1. CASE log' = log
    BY <2>1 DEF Between
  <2>2. ASSUME NEW c \in Commands, log' = log \o Envelopes(c, Len(log))
        PROVE  SubSeq(log', 1, n) = Between(0, n)
    <3>1. CASE n = 0
      <4>1. SubSeq(log', 1, 0) = << >> /\ SubSeq(log, 0 + 1, 0) = << >>
        BY <1>1, SubSeqEmpty
      <4> QED BY <3>1, <4>1 DEF Between
    <3>2. CASE n # 0
      <4>1. 1 \in 1..Len(log) /\ n \in 1..Len(log)
        BY <1>1, <1>2, <3>2
      <4>2. Envelopes(c, Len(log)) \in Seq(Event)
        BY <1>1, EnvelopesType
      <4>3. SubSeq(log \o Envelopes(c, Len(log)), 1, n) = SubSeq(log, 1, n)
        BY <1>1, <4>1, <4>2, SubSeqOfConcat1
      <4>4. 0 + 1 = 1
        OBVIOUS
      <4> QED BY <2>2, <4>3, <4>4, Zenon DEF Between
    <3> QED BY <3>1, <3>2
  <2> QED BY <2>1, <2>2, CommitsDecidedAtHead
<1>3. snapshot \in [version : Nat, cursor : Nat, events : Seq(Event)]
  BY DEF SafeInv, TypeInv, TypeOK
<1>4. CASE snapshot' = snapshot
  <2>1. snapshot.version \in Nat /\ snapshot.version <= Len(log)
    BY <1>3 DEF SnapshotResumable
  <2>2. SubSeq(log', 1, snapshot.version) = snapshot.events
    BY <1>2, <2>1 DEF SnapshotResumable
  <2> QED BY <1>1, <1>4, <2>1, <2>2 DEF SnapshotResumable, Between
<1>5. ASSUME NEW p \in Processes, Settle(p), snapshot' = SnapshotOf(p) PROVE SnapshotResumable'
  <2>1. /\ pc[p] = "absorbed" /\ version[p] \in Nat
        /\ version[p] <= Len(log) /\ events[p] = Between(0, version[p]) /\ cursor[p] <= version[p]
    BY <1>5 DEF Settle, SafeInv, TypeInv, TypeOK, BusInvariant, ProjectionExact, Complete
  <2>2. SubSeq(log', 1, version[p]) = events[p]
    BY <1>2, <2>1
  <2>3. snapshot' = [version |-> version[p], cursor |-> cursor[p], events |-> events[p]]
    BY <1>5 DEF SnapshotOf
  <2> QED BY <1>1, <2>1, <2>2, <2>3 DEF SnapshotResumable, Between
<1>6. CASE Next
  <2>1. snapshot' = snapshot \/ \E p \in Processes : Settle(p) /\ snapshot' = SnapshotOf(p)
    BY <1>6 DEF Next, Begin, Create, ServeAnswered, ServeUnanswered, Fail, Absorb, Settle, Rebase,
                LoseTail, Open, Crash, TailBatch, TailThrows
  <2> QED BY <1>4, <1>5, <2>1
<1> QED BY <1>4, <1>6 DEF vars

-----------------------------------------------------------------------------
(* What the calls may rely on.                                              *)

LEMMA CallsInit == Init => CallsInvariant
<1> SUFFICES ASSUME Init PROVE CallsInvariant
  OBVIOUS
<1>1. log = << >> /\ DOMAIN log = {} /\ Len(log) = 0 /\ inflight = {}
  BY DEF Init, LogInit
<1>2. OneRunner /\ RequestsOwned /\ StoredWasCalled /\ AcknowledgedIsStored /\ ConflictsMet
  BY <1>1 DEF Init, OneRunner, RequestsOwned, StoredWasCalled, AcknowledgedIsStored, ConflictsMet
<1>3. \A p \in Processes : AbsorbedIsHeld(p) /\ AppliedBehind(p) /\ TurnsLost(p)
  BY DEF Init, AbsorbedIsHeld, AppliedBehind, TurnsLost
<1>4. SnapshotResumable
  <2>1. Between(0, 0) = << >>
    BY <1>1, SubSeqEmpty DEF Between
  <2>2. snapshot.version = 0 /\ snapshot.cursor = 0 /\ snapshot.events = << >>
    BY DEF Init, NoSnapshot
  <2> QED BY <1>1, <2>1, <2>2 DEF SnapshotResumable
<1> QED BY <1>2, <1>3, <1>4 DEF CallsInvariant

LEMMA CallsStep ==
  ASSUME WholeCommits, SafeInv, CallsInvariant, [Next]_vars
  PROVE  CallsInvariant'
<1>1. Owners
  BY DEF CallsInvariant, Owners
<1>2. Owners'
  BY <1>1, OwnersStep
<1>3. AcknowledgedIsStored'
  BY <1>1, AcknowledgedStep DEF CallsInvariant
<1>4. ASSUME NEW q \in Processes PROVE AbsorbedIsHeld(q)' /\ AppliedBehind(q)' /\ TurnsLost(q)'
  BY <1>1, AbsorbedStep, AppliedStep, TurnsLostStep DEF CallsInvariant
<1>5. ConflictsMet'
  BY <1>1, ConflictsStep DEF CallsInvariant
<1>6. SnapshotResumable'
  BY SnapshotStep DEF CallsInvariant
<1> QED BY <1>2, <1>3, <1>4, <1>5, <1>6 DEF CallsInvariant, Owners

\* What the answers say of the stream is an invariant beside that of the stream:
\* who runs a call, which requests it left on the wire, what became of its events,
\* how far the read model is and how many commits each lost turn of it has met.
THEOREM CallsInvariantHolds == ASSUME WholeCommits PROVE Spec => []CallsInvariant
<1>1. SafeInv /\ [Next]_vars => SafeInv'
  BY SafeNext
<1>2. SafeInv /\ CallsInvariant /\ [Next]_vars => CallsInvariant'
  BY CallsStep
<1> QED BY <1>1, <1>2, SafeInit, CallsInit, PTL DEF Spec

\* A read gated on the committedVersion of an acknowledged write sees that write, in
\* any process, once its read model has applied that version (notifyApplied and the
\* token of commit in command-bus.ts).
THEOREM TokensAreHonest == ASSUME WholeCommits PROVE Spec => []ReadYourWrites
<1>1. ASSUME TypeOK, BusInvariant, CallsInvariant PROVE ReadYourWrites
  <2> SUFFICES ASSUME NEW p \in Processes, NEW c \in Commands \ Releases,
                      answer[c] = "ok", pc[p] # "down", applied[p] >= token[c]
               PROVE  \E i \in DOMAIN events[p] :
                        events[p][i].version < token[c] /\ SameEffect(c, events[p][i].cmd)
    BY DEF ReadYourWrites
  <2>1. PICK i \in DOMAIN log : i <= token[c] /\ SameEffect(c, log[i].cmd)
    BY <1>1 DEF CallsInvariant, AcknowledgedIsStored
  <2>2. /\ version[p] \in Nat /\ applied[p] \in Nat /\ token[c] \in Nat
        /\ Len(log) \in Nat /\ DOMAIN log = 1..Len(log)
    BY <1>1, LenProperties DEF TypeOK
  <2>3. applied[p] <= version[p] /\ version[p] <= Len(log) /\ events[p] = Between(0, version[p])
    BY <1>1 DEF CallsInvariant, AppliedBehind, BusInvariant, ProjectionExact, Complete
  <2>4. i \in 1..version[p]
    BY <2>1, <2>2, <2>3
  <2>5. i \in DOMAIN events[p] /\ events[p][i] = log[i]
    <3>1. /\ Between(0, version[p]) \in Seq(Event)
          /\ Len(Between(0, version[p])) = version[p] - 0
          /\ \A j \in 1..(version[p] - 0) : Between(0, version[p])[j] = log[0 + j]
      <4>1. 0 \in Nat /\ 0 <= version[p]
        BY <2>2
      <4> QED BY <1>1, <2>2, <2>3, <4>1, BetweenIs
    <3>2. DOMAIN Between(0, version[p]) = 1..version[p]
      BY <2>2, <3>1, LenProperties
    <3>3. Between(0, version[p])[i] = log[i]
      BY <2>2, <2>4, <3>1
    <3> QED BY <2>3, <2>4, <3>2, <3>3
  <2>6. log[i].version = i - 1
    BY <1>1, <2>1 DEF BusInvariant, LogContiguous
  <2>7. i - 1 < token[c]
    BY <2>1, <2>2
  <2> QED BY <2>1, <2>5, <2>6, <2>7
<1>2. TypeOK /\ BusInvariant /\ CallsInvariant => ReadYourWrites
  BY <1>1
<1> QED BY <1>2, TypeCorrect, BusInvariantHolds, CallsInvariantHolds, PTL

\* A keyed call that was refused has no event in the stream, now or later: what it
\* was refused on was the whole stream, or it had sent nothing.
THEOREM RefusalsLeaveNoTrace == ASSUME WholeCommits PROVE Spec => []RefusedLeavesNoTrace
<1>1. CallsInvariant => RefusedLeavesNoTrace
  BY DEF CallsInvariant, StoredWasCalled, RefusedLeavesNoTrace
<1> QED BY <1>1, CallsInvariantHolds, PTL

\* A ConcurrencyError after MAX_REBASE_ATTEMPTS turns means that many commits which
\* the call had not folded when it began; of these a call with an idempotency key
\* has stored at most one itself, in a turn whose reply was lost (commit and rebase
\* of command-bus.ts).
THEOREM ConflictsAreEarned == ASSUME WholeCommits PROVE Spec => []ConflictsAreReal
<1>1. ASSUME TypeOK, AppliedOnce, ConflictsMet, NEW c \in Commands, answer[c] = "conflict",
             CommandId[c] # NoId
      PROVE  Cardinality(MetOfOthers(c)) >= MaxAttempts - 1
  <2>1. Met(c) \subseteq 1..Len(log) /\ Len(log) \in Nat /\ MaxAttempts \in Nat
    BY <1>1, LenProperties, BusConstants DEF Met, TypeOK
  <2>2. IsFiniteSet(Met(c)) /\ IsFiniteSet(MetOfOthers(c))
    <3>1. IsFiniteSet(1..Len(log))
      BY <2>1, FS_Interval
    <3>2. MetOfOthers(c) \subseteq Met(c)
      BY DEF MetOfOthers
    <3> QED BY <2>1, <3>1, <3>2, FS_Subset
  <2>3. Cardinality(Met(c)) >= MaxAttempts /\ Cardinality(Met(c)) \in Nat
        /\ Cardinality(MetOfOthers(c)) \in Nat
    BY <1>1, <2>2, FS_CardinalityType DEF ConflictsMet
  <2>4. CASE Met(c) = MetOfOthers(c)
    BY <2>1, <2>3, <2>4
  <2>5. CASE Met(c) # MetOfOthers(c)
    <3>1. PICK k \in Met(c) : log[k].cmd = c
      BY <2>5 DEF MetOfOthers
    <3>2. ASSUME NEW i \in Met(c), log[i].cmd = c PROVE i = k
      BY <1>1, <3>1, <3>2 DEF AppliedOnce, Met
    <3>3. Met(c) = MetOfOthers(c) \cup {k} /\ k \notin MetOfOthers(c)
      BY <3>1, <3>2 DEF MetOfOthers
    <3>4. Cardinality(Met(c)) = Cardinality(MetOfOthers(c)) + 1
      BY <2>2, <3>3, FS_AddElement
    <3> QED BY <2>1, <2>3, <3>4
  <2> QED BY <2>4, <2>5
<1>2. TypeOK /\ AppliedOnce /\ CallsInvariant => ConflictsAreReal
  BY <1>1 DEF CallsInvariant, ConflictsMet, ConflictsAreReal
<1> QED BY <1>2, TypeCorrect, KeysApplyOnce, CallsInvariantHolds, PTL

\* The latest snapshot is a prefix of the stream whose cursor does not lie past it,
\* however long ago it was taken (maybeSnapshot of command-bus.ts).
THEOREM SnapshotsResume == ASSUME WholeCommits PROVE Spec => []SnapshotResumable
<1>1. CallsInvariant => SnapshotResumable
  BY DEF CallsInvariant
<1> QED BY <1>1, CallsInvariantHolds, PTL

-----------------------------------------------------------------------------
(* The bus implements a serially decided workspace.                         *)

\* The promise speaks of the same commands.
LEMMA SerialCommands ==
  ASSUME NEW c, NEW h
  PROVE  /\ Serial!CommandSeen(c, h) <=> CommandSeen(c, h)
         /\ Serial!DecidesNothing(c, h) <=> DecidesNothing(c, h)
         /\ Serial!Refused(c, h) <=> Refused(c, h)
         /\ Serial!Emits(c, h) <=> Emits(c, h)
<1>1. Serial!CommandSeen(c, h) <=> CommandSeen(c, h)
  BY DEF Serial!CommandSeen, CommandSeen
<1>2. Serial!DecidesNothing(c, h) <=> DecidesNothing(c, h)
  BY DEF Serial!DecidesNothing, DecidesNothing, Serial!Held, Held
<1>3. Serial!Refused(c, h) <=> Refused(c, h)
  BY DEF Serial!Refused, Refused, Serial!Held, Held
<1>4. Serial!Emits(c, h) <=> Emits(c, h)
  BY <1>2, <1>3 DEF Serial!Emits, Emits
<1> QED BY <1>1, <1>2, <1>3, <1>4

\* What a projection holds is a prefix the serial workspace knows.
LEMMA SerialPrefix ==
  ASSUME NEW n \in 0..Len(log)
  PROVE  Between(0, n) \in Serial!Prefixes
<1>1. 0 + 1 = 1
  OBVIOUS
<1> QED BY <1>1, Zenon DEF Between, Serial!Prefixes

\* A returned answer the serial workspace may give.
LEMMA SerialReturn ==
  ASSUME TypeOK, NEW p \in Processes, NEW c \in Commands, NEW a, NEW v, Return(p, c, a, v),
         log' = log,
         \/ a \in {"unknown", "conflict"} /\ answer[c] = "pending"
         \/ a = "ok" /\ answer[c] \in {"none", "pending"} /\ Serial!InEffect(c)
         \/ a = "rejected" /\ answer[c] \in {"none", "pending"}
            /\ \E h \in Serial!Prefixes : Refused(c, h) /\ ~ CommandSeen(c, h)
  PROVE  Serial!Next
<1>1. answer' = [answer EXCEPT ![c] = a]
  BY DEF Return
<1>2. CASE a \in {"unknown", "conflict"} /\ answer[c] = "pending"
  <2>1. Serial!GiveUp(c)
    BY <1>1, <1>2 DEF Serial!GiveUp
  <2> QED BY <2>1 DEF Serial!Next
<1>3. CASE a = "ok" /\ answer[c] \in {"none", "pending"} /\ Serial!InEffect(c)
  <2>1. Serial!Acknowledge(c)
    BY <1>1, <1>3 DEF Serial!Acknowledge
  <2> QED BY <2>1 DEF Serial!Next
<1>4. CASE /\ a = "rejected" /\ answer[c] \in {"none", "pending"}
           /\ \E h \in Serial!Prefixes : Refused(c, h) /\ ~ CommandSeen(c, h)
  <2>1. Serial!Refuse(c)
    BY <1>1, <1>4, SerialCommands DEF Serial!Refuse
  <2> QED BY <2>1 DEF Serial!Next
<1> QED BY <1>2, <1>3, <1>4

\* A turn is the call itself, or an answer from a prefix.
LEMMA SerialTurn ==
  ASSUME SafeInv, NEW p \in Processes, NEW c \in Commands, NEW n \in Nat,
         NEW head \in 0..Len(log), Turn(p, c, n, head, Between(0, head)), log' = log,
         \/ answer[c] = "pending"
         \/ answer[c] = "none" /\ n = 0
  PROVE  [Serial!Next]_Serial!serialVars
<1>1. TypeOK /\ MaxAttempts \in Nat \ {0}
  BY BusConstants DEF SafeInv, TypeInv
<1>2. CASE Sent(p, c, n, head)
  <2>1. answer' = [answer EXCEPT ![c] = "pending"]
    BY <1>2 DEF Sent
  <2>2. CASE answer[c] = "none"
    <3>1. Serial!Call(c)
      BY <2>1, <2>2 DEF Serial!Call
    <3> QED BY <3>1 DEF Serial!Next
  <2>3. CASE answer[c] = "pending"
    <3>1. answer' = answer
      BY <1>1, <2>1, <2>3 DEF TypeOK
    <3> QED BY <3>1 DEF Serial!serialVars
  <2> QED BY <2>2, <2>3
<1>3. ASSUME NEW a \in {"ok", "rejected", "conflict"},
             Finished(p, c, n, head, Between(0, head), a)
      PROVE  Serial!Next
  <2>1. Return(p, c, a, IF a = "ok" THEN head ELSE 0)
    BY <1>3 DEF Finished
  <2>2. CASE a = "conflict"
    <3>1. answer[c] = "pending"
      BY <1>1, <1>3, <2>2 DEF Finished, Exhausted
    <3> QED BY <1>1, <2>1, <2>2, <3>1, SerialReturn
  <2>3. CASE a = "ok"
    <3>1. Serial!InEffect(c)
      BY <1>3, <2>3, SerialPrefix, SerialCommands DEF Finished, Serial!InEffect
    <3> QED BY <1>1, <2>1, <2>3, <3>1, SerialReturn
  <2>4. CASE a = "rejected"
    <3>1. Refused(c, Between(0, head)) /\ ~ CommandSeen(c, Between(0, head))
      BY <1>3, <2>4 DEF Finished, Throws
    <3> QED BY <1>1, <2>1, <2>4, <3>1, SerialPrefix, SerialReturn
  <2> QED BY <2>2, <2>3, <2>4
<1> QED BY <1>2, <1>3, TurnOutcomes

\* Every step of the bus is a step of the serial workspace, or none.
LEMMA SerialStep ==
  ASSUME WholeCommits, SafeInv, CallsInvariant, [Next]_vars
  PROVE  [Serial!Next]_Serial!serialVars
<1>1. /\ TypeOK /\ log \in Seq(Event) /\ Len(log) \in Nat /\ \A q \in Processes : Busy(q)
      /\ \A q \in Processes : version[q] \in Nat /\ attempts[q] \in Nat
      /\ \A q \in Processes : running[q] \in Commands \cup {NoCommand}
      /\ NoCommand \notin Commands
  BY LenProperties, BusConstants DEF SafeInv, TypeInv, TypeOK
<1>2. ASSUME NEW p \in Processes, running[p] \in Commands PROVE answer[running[p]] = "pending"
  BY <1>1, <1>2 DEF CallsInvariant, OneRunner
<1>3. ASSUME NEW p \in Processes, NEW c \in Commands, Begin(p, c)
      PROVE  [Serial!Next]_Serial!serialVars
  <2>1. /\ Turn(p, c, 0, version[p], events[p]) /\ pc[p] = "idle" /\ answer[c] = "none"
        /\ log' = log
    BY <1>3 DEF Begin, logVars
  <2>2. version[p] \in 0..Len(log) /\ events[p] = Between(0, version[p])
    BY <1>1, <2>1 DEF SafeInv, BusInvariant, ProjectionExact, Complete
  <2> QED BY <2>1, <2>2, SerialTurn
<1>4. ASSUME NEW p \in Processes, NEW c \in Commands, Create(p, c)
      PROVE  [Serial!Next]_Serial!serialVars
  <2>1. Between(0, 0) = << >> /\ 0 \in 0..Len(log)
    BY <1>1, SubSeqEmpty DEF Between
  <2>2. Turn(p, c, 0, 0, Between(0, 0)) /\ answer[c] = "none" /\ log' = log
    BY <1>4, <2>1 DEF Create, logVars
  <2> QED BY <2>1, <2>2, SerialTurn
<1>5. ASSUME NEW m \in inflight, ServeAnswered(m) \/ ServeUnanswered(m)
      PROVE  [Serial!Next]_Serial!serialVars
  <2>1. answer' = answer /\ (log' = log \/ (Admits(m.seq) /\ Store(m.cmd, m.seq)))
    BY <1>5 DEF ServeAnswered, ServeUnanswered, callVars, logVars
  <2>2. CASE log' = log
    BY <2>1, <2>2 DEF Serial!serialVars
  <2>3. CASE Admits(m.seq) /\ Store(m.cmd, m.seq)
    <3>1. m.cmd \in Commands /\ m.seq \in Nat
      BY <1>1 DEF TypeOK
    <3>2. m.seq = Len(log)
      BY <1>1, <2>3, <3>1, AdmittedAtEnd DEF SafeInv, BusInvariant, InFlightDecided
    <3>3. Between(0, m.seq) = log
      BY <1>1, <3>2, SubSeqFull DEF Between
    <3>4. ~ CommandSeen(m.cmd, log) /\ Emits(m.cmd, log)
      BY <3>3 DEF SafeInv, BusInvariant, InFlightDecided
    <3>5. answer[m.cmd] \in {"pending", "unknown"}
      BY DEF CallsInvariant, RequestsOwned
    <3>6. log' = log \o Serial!Envelopes(m.cmd, Len(log))
      BY <2>3, <3>2 DEF Store, Envelopes, Serial!Envelopes
    <3>7. Serial!Commit(m.cmd)
      BY <2>1, <3>4, <3>5, <3>6, SerialCommands DEF Serial!Commit
    <3> QED BY <3>1, <3>7 DEF Serial!Next
  <2> QED BY <2>1, <2>2, <2>3
<1>6. ASSUME NEW p \in Processes, running[p] \in Commands,
             Return(p, running[p], "unknown", 0), log' = log
      PROVE  Serial!Next
  BY <1>1, <1>2, <1>6, SerialReturn
<1>7. ASSUME NEW p \in Processes, Fail(p) PROVE Serial!Next
  BY <1>1, <1>6, <1>7 DEF Fail, Busy, logVars
<1>8. ASSUME NEW p \in Processes, Settle(p) PROVE Serial!Next
  <2>1. /\ Return(p, running[p], "ok", version[p]) /\ running[p] \in Commands /\ log' = log
        /\ pc[p] = "absorbed"
    BY <1>1, <1>8 DEF Settle, Busy, logVars
  <2>2. PICK i \in 1..version[p] : log[i].cmd = running[p]
    BY <2>1 DEF CallsInvariant, AbsorbedIsHeld
  <2>3. i \in DOMAIN log
    <3>1. version[p] <= Len(log)
      BY <2>1 DEF SafeInv, BusInvariant, ProjectionExact, Complete
    <3>2. DOMAIN log = 1..Len(log)
      BY <1>1, LenProperties
    <3> QED BY <1>1, <3>1, <3>2
  <2>4. Serial!InEffect(running[p])
    BY <2>2, <2>3 DEF Serial!InEffect
  <2> QED BY <1>1, <1>2, <2>1, <2>4, SerialReturn
<1>9. ASSUME NEW p \in Processes, Rebase(p) PROVE [Serial!Next]_Serial!serialVars
  <2>1. running[p] \in Commands /\ log' = log /\ attempts[p] + 1 \in Nat /\ Len(log) \in 0..Len(log)
    BY <1>1, <1>9 DEF Rebase, Busy, logVars
  <2>2. \/ Turn(p, running[p], attempts[p] + 1, Len(log), Between(0, Len(log)))
        \/ Return(p, running[p], "unknown", 0)
    BY <1>9, RebaseFolds
  <2>3. CASE Turn(p, running[p], attempts[p] + 1, Len(log), Between(0, Len(log)))
    BY <1>2, <2>1, <2>3, SerialTurn
  <2> QED BY <1>6, <2>1, <2>2, <2>3
<1>10. ASSUME NEW p \in Processes, Crash(p) PROVE [Serial!Next]_Serial!serialVars
  <2>1. /\ answer' = [c \in Commands |-> IF c = running[p] THEN "unknown" ELSE answer[c]]
        /\ log' = log
    BY <1>10 DEF Crash, logVars
  <2>2. CASE running[p] \in Commands
    <3>1. answer' = [answer EXCEPT ![running[p]] = "unknown"]
      BY <1>1, <2>1, <2>2 DEF TypeOK
    <3>2. Serial!GiveUp(running[p])
      BY <1>2, <2>1, <2>2, <3>1 DEF Serial!GiveUp
    <3> QED BY <2>2, <3>2 DEF Serial!Next
  <2>3. CASE running[p] = NoCommand
    <3>1. answer' = answer
      BY <1>1, <2>1, <2>3 DEF TypeOK
    <3> QED BY <2>1, <3>1 DEF Serial!serialVars
  <2> QED BY <1>1, <2>2, <2>3
<1>11. CASE UNCHANGED <<log, answer>>
  BY <1>11 DEF Serial!serialVars
<1>12. ASSUME NEW p \in Processes, Absorb(p) \/ LoseTail(p) \/ Open(p)
      PROVE  [Serial!Next]_Serial!serialVars
  BY <1>11, <1>12 DEF Absorb, LoseTail, Open, callVars, logVars
<1>13. ASSUME NEW p \in Processes, NEW to, TailBatch(p, to) \/ TailThrows(p, to)
      PROVE  [Serial!Next]_Serial!serialVars
  <2>1. UNCHANGED <<log, answer>>
    BY <1>13 DEF TailBatch, TailThrows, callVars, logVars
  <2> QED BY <1>11, <2>1
<1>14. CASE UNCHANGED vars
  BY <1>11, <1>14 DEF vars, callVars, logVars
<1>15. CASE Next
  BY <1>3, <1>4, <1>5, <1>7, <1>8, <1>9, <1>10, <1>12, <1>13, <1>15 DEF Next
<1> QED BY <1>14, <1>15

\* Many processes deciding on their own projections of a shared stream, with lost
\* replies, retries, rebases and crashes, do what one workspace deciding serially
\* does: each commit in the stream was decided on all that precedes it, a call is
\* acknowledged only in effect and refused only by some prefix ("everything before
\* commit is pure", command-bus.ts).
THEOREM BusImplementsSerial == ASSUME WholeCommits PROVE Spec => ImplementsSerial
<1>1. Init => Serial!Init
  BY DEF Init, LogInit, Serial!Init
<1>2. SafeInv /\ [Next]_vars => SafeInv'
  BY SafeNext
<1>3. SafeInv /\ CallsInvariant /\ [Next]_vars => [Serial!Next]_Serial!serialVars
  BY SerialStep
<1>4. SafeInv /\ CallsInvariant /\ [Next]_vars => CallsInvariant'
  BY CallsStep
<1> QED BY <1>1, <1>2, <1>3, <1>4, SafeInit, CallsInit, PTL DEF Spec, Serial!Spec, ImplementsSerial

=============================================================================
