------------------------- MODULE WorkerHost_proofs -------------------------
(***************************************************************************)
(* The search database of the web UI's worker has one writer, however many   *)
(* pages connect, vanish and sign in while engines boot and are torn down.   *)
(***************************************************************************)
EXTENDS WorkerHost, TLAPS

\* Boots run in the order they were made: one that has left the queue finds all the ones
\* before it over.
InOrder(bs) ==
  \A g, h \in DOMAIN bs : g < h /\ bs[h].phase # "queued" => Over(bs[g])

EngineInv ==
  /\ provided \in BOOLEAN
  /\ boots \in Seq(Boots) /\ bootP \in {0, Len(boots)}
  /\ InOrder(boots)

LEMMA InOrderIsOneWriter == EngineInv => OneWriter
<1> SUFFICES ASSUME EngineInv, NEW g \in DOMAIN boots, NEW h \in DOMAIN boots, OpensDb(g), OpensDb(h), g # h
             PROVE FALSE
  BY DEF OneWriter
<1>1. g \in Nat /\ h \in Nat
  BY DEF EngineInv
<1>2. CASE g < h
  BY <1>2 DEF EngineInv, InOrder, Over, OpensDb
<1>3. CASE h < g
  BY <1>3 DEF EngineInv, InOrder, Over, OpensDb
<1> QED BY <1>1, <1>2, <1>3

\* Boots that keep their phases, or are closed, stay in order.
LEMMA StaysInOrder ==
  ASSUME NEW bs \in Seq(Boots), NEW cs \in Seq(Boots), Len(cs) = Len(bs), InOrder(bs),
         \A i \in DOMAIN bs : bs[i].phase = "queued" => cs[i].phase = "queued",
         \A i \in DOMAIN bs : Over(bs[i]) => Over(cs[i])
  PROVE  InOrder(cs)
<1> DOMAIN cs = DOMAIN bs
  OBVIOUS
<1> QED BY DEF InOrder

LEMMA FollowedInOrder ==
  ASSUME NEW bs \in Seq(Boots), NEW g \in DOMAIN bs, bs[g].phase # "queued",
         \A i \in DOMAIN bs : i < g => Over(bs[i]),
         \A i \in DOMAIN bs : i > g => bs[i].phase = "queued"
  PROVE  /\ Followed(bs, g) \in Seq(Boots) /\ Len(Followed(bs, g)) = Len(bs)
         /\ InOrder(Followed(bs, g))
<1>1. g \in Nat /\ DOMAIN bs = 1..Len(bs) /\ DOMAIN bs \subseteq Nat
  OBVIOUS
<1>2. CASE Over(bs[g]) /\ g < Len(bs)
  <2> DEFINE cs == [bs EXCEPT ![g + 1].phase = "opening"]
  <2>1. g + 1 \in DOMAIN bs /\ Followed(bs, g) = cs
    BY <1>1, <1>2 DEF Followed
  <2>2. bs[g + 1] \in Boots
    BY <2>1
  <2>3. cs \in Seq(Boots) /\ Len(cs) = Len(bs) /\ DOMAIN cs = DOMAIN bs
    BY <2>1, <2>2 DEF Boots
  <2>4. \A i \in DOMAIN bs : i # g + 1 => cs[i] = bs[i]
    BY <2>1
  <2>5. \A i \in DOMAIN bs : i < g + 1 => Over(cs[i])
    BY <1>1, <1>2, <2>1, <2>4
  <2>6. \A i \in DOMAIN bs : i > g + 1 => cs[i].phase = "queued"
    BY <1>1, <2>1, <2>4
  <2>7. InOrder(cs)
    BY <1>1, <2>1, <2>3, <2>5, <2>6 DEF InOrder
  <2> QED BY <2>1, <2>3, <2>7
<1>3. CASE ~(Over(bs[g]) /\ g < Len(bs))
  <2>1. Followed(bs, g) = bs
    BY <1>3 DEF Followed
  <2>2. InOrder(bs)
    BY <1>1 DEF InOrder
  <2> QED BY <2>1, <2>2
<1> QED BY <1>2, <1>3

\* One boot settles or closes, and the one behind it may begin.
LEMMA BootMoves ==
  ASSUME EngineInv, NEW g \in DOMAIN boots, boots[g].phase \in {"opening", "closing"},
         NEW b \in Boots, b.phase # "queued"
  PROVE  LET cs == Followed([boots EXCEPT ![g] = b], g)
         IN  cs \in Seq(Boots) /\ Len(cs) = Len(boots) /\ InOrder(cs)
<1> DEFINE bs == [boots EXCEPT ![g] = b]
<1>1. bs \in Seq(Boots) /\ Len(bs) = Len(boots) /\ DOMAIN bs = DOMAIN boots /\ bs[g] = b
  BY DEF EngineInv
<1>2. \A i \in DOMAIN boots : i # g => bs[i] = boots[i]
  OBVIOUS
<1>3. DOMAIN boots \subseteq Nat
  BY DEF EngineInv
<1>4. \A i \in DOMAIN bs : i < g => Over(bs[i])
  BY <1>1, <1>2, <1>3 DEF EngineInv, InOrder
<1>5. \A i \in DOMAIN bs : i > g => bs[i].phase = "queued"
  BY <1>1, <1>2, <1>3 DEF EngineInv, InOrder, Over
<1> QED BY <1>1, <1>4, <1>5, FollowedInOrder

LEMMA ShutDownKeepsOrder ==
  ASSUME EngineInv, ShutDown, provided' \in BOOLEAN PROVE EngineInv'
<1>1. CASE bootP # 0 /\ boots[bootP].phase = "up"
  <2>1. bootP \in DOMAIN boots
    BY <1>1 DEF EngineInv
  <2>2. boots' = [boots EXCEPT ![bootP].phase = "closing"]
    BY <1>1 DEF ShutDown
  <2>3. boots[bootP] \in Boots
    BY <2>1 DEF EngineInv
  <2>4. boots' \in Seq(Boots) /\ Len(boots') = Len(boots)
    BY <2>1, <2>2, <2>3 DEF EngineInv, Boots
  <2>5. \A i \in DOMAIN boots : boots[i].phase = "queued" => boots'[i].phase = "queued"
    BY <1>1, <2>2
  <2>6. \A i \in DOMAIN boots : Over(boots[i]) => Over(boots'[i])
    BY <1>1, <2>2 DEF Over
  <2>7. InOrder(boots')
    BY <2>4, <2>5, <2>6, StaysInOrder DEF EngineInv
  <2> QED BY <2>4, <2>7 DEF EngineInv, ShutDown
<1>2. CASE ~(bootP # 0 /\ boots[bootP].phase = "up")
  BY <1>2 DEF EngineInv, ShutDown
<1> QED BY <1>1, <1>2

LEMMA NewBootInOrder ==
  ASSUME EngineInv
  PROVE  Append(boots, NewBoot) \in Seq(Boots) /\ InOrder(Append(boots, NewBoot))
<1> DEFINE bs == Append(boots, NewBoot)
<1>1. NewBoot \in Boots
  BY DEF EngineInv, NewBoot, Boots
<1>0. boots \in Seq(Boots) /\ Len(boots) \in Nat /\ DOMAIN boots = 1..Len(boots)
  BY DEF EngineInv
<1>2. bs \in Seq(Boots) /\ DOMAIN bs = 1..(Len(boots) + 1)
  BY <1>0, <1>1
<1>3. bs[Len(boots) + 1] = NewBoot /\ \A i \in 1..Len(boots) : bs[i] = boots[i]
  BY <1>1 DEF EngineInv
<1>4. NewBoot.phase # "queued" => \A i \in 1..Len(boots) : Over(boots[i])
  <2> SUFFICES ASSUME NewBoot.phase # "queued", NEW i \in 1..Len(boots) PROVE Over(boots[i])
    OBVIOUS
  <2>1. boots # << >>
    BY <1>0
  <2>2. Over(boots[Len(boots)])
    BY <2>1 DEF NewBoot
  <2>3. CASE i = Len(boots)
    BY <2>2, <2>3
  <2>4. CASE i # Len(boots)
    <3> DEFINE n == Len(boots)
    <3>0. n \in Nat /\ i \in 1..n /\ DOMAIN boots = 1..n /\ i # n
      BY <1>0, <2>4
    <3> HIDE DEF n
    <3>1. i \in DOMAIN boots /\ n \in DOMAIN boots /\ i < n
      BY <3>0
    <3>2. boots[n].phase # "queued"
      BY <2>2 DEF Over, n
    <3> QED BY <3>1, <3>2 DEF EngineInv, InOrder
  <2> QED BY <2>3, <2>4
<1>5. InOrder(bs)
  <2> SUFFICES ASSUME NEW g \in DOMAIN bs, NEW h \in DOMAIN bs, g < h, bs[h].phase # "queued"
               PROVE Over(bs[g])
    BY DEF InOrder
  <2>1. g \in 1..Len(boots) /\ bs[g] = boots[g]
    BY <1>0, <1>2, <1>3
  <2>2. CASE h = Len(boots) + 1
    BY <1>3, <1>4, <2>1, <2>2
  <2>3. CASE h \in 1..Len(boots)
    BY <1>0, <1>3, <2>1, <2>3 DEF EngineInv, InOrder
  <2> QED BY <1>0, <1>2, <2>2, <2>3
<1> QED BY <1>2, <1>5

LEMMA CallKeepsOrder ==
  ASSUME EngineInv, NEW p \in Pages, NEW kind \in {"handshake", "subscribe"}, NEW waiting,
         Call(p, kind, waiting)
  PROVE  EngineInv'
<1> DEFINE g == IF bootP = 0 THEN Len(boots) + 1 ELSE bootP
           bs == IF bootP = 0 THEN Append(boots, NewBoot) ELSE boots
<1>1. bs \in Seq(Boots) /\ InOrder(bs)
  BY NewBootInOrder DEF EngineInv
<1>2. g = Len(bs) /\ g \in DOMAIN bs
  BY NewBootInOrder DEF EngineInv
<1>3. bootP' = g /\ provided' = provided
  BY DEF Call, sessionVars
<1>4. CASE boots' = bs
  BY <1>1, <1>2, <1>3, <1>4 DEF EngineInv
<1>5. CASE boots' = [bs EXCEPT ![g].waiters = @ \cup {<<p, kind>>}]
  <2>1. bs[g] \in Boots /\ <<p, kind>> \in Calls
    BY <1>1, <1>2 DEF Calls
  <2>2. boots' \in Seq(Boots) /\ Len(boots') = Len(bs)
    BY <1>1, <1>2, <1>5, <2>1 DEF Boots
  <2>3. \A i \in DOMAIN bs : boots'[i].phase = bs[i].phase
    BY <1>1, <1>5, <2>1 DEF Boots
  <2>4. InOrder(boots')
    BY <1>1, <2>2, <2>3, StaysInOrder DEF Over
  <2> QED BY <1>2, <1>3, <2>2, <2>4 DEF EngineInv
<1> QED BY <1>4, <1>5 DEF Call

THEOREM EngineInvariant == Spec => []EngineInv
<1>1. Init => EngineInv
  <2> SUFFICES ASSUME Init PROVE EngineInv
    OBVIOUS
  <2>1. boots = << >> /\ bootP = 0 /\ provided = FALSE
    BY DEF Init
  <2>2. boots \in Seq(Boots) /\ Len(boots) = 0 /\ DOMAIN boots = {}
    BY <2>1
  <2> QED BY <2>1, <2>2 DEF EngineInv, InOrder
<1>2. EngineInv /\ [Next]_vars => EngineInv'
  <2> SUFFICES ASSUME EngineInv, [Next]_vars PROVE EngineInv'
    OBVIOUS
  <2>1. ASSUME NEW g \in DOMAIN boots, NEW ok \in BOOLEAN, BootSettles(g, ok) PROVE EngineInv'
    <3> DEFINE b == [boots[g] EXCEPT !.phase = Settled(g, ok), !.waiters = {}]
    <3>1. boots[g] \in Boots
      BY DEF EngineInv
    <3>2. b \in Boots /\ b.phase # "queued"
      BY <3>1 DEF Boots, Settled
    <3>3. boots' = Followed([boots EXCEPT ![g] = b], g) /\ bootP' = bootP /\ provided' = provided
      BY <2>1 DEF BootSettles, sessionVars
    <3>4. boots[g].phase \in {"opening", "closing"}
      BY <2>1 DEF BootSettles
    <3> QED BY <3>2, <3>3, <3>4, BootMoves DEF EngineInv
  <2>2. ASSUME NEW g \in DOMAIN boots, Closes(g) PROVE EngineInv'
    <3> DEFINE b == [boots[g] EXCEPT !.phase = "closed"]
    <3>1. boots[g] \in Boots
      BY DEF EngineInv
    <3>2. b \in Boots /\ b.phase # "queued"
      BY <3>1 DEF Boots
    <3>3. boots' = Followed([boots EXCEPT ![g] = b], g) /\ bootP' = bootP /\ provided' = provided
      BY <2>2 DEF Closes, sessionVars
    <3>4. boots[g].phase \in {"opening", "closing"}
      BY <2>2 DEF Closes
    <3> QED BY <3>2, <3>3, <3>4, BootMoves DEF EngineInv
  <2>3. ASSUME NEW p \in Pages, Connect(p) PROVE EngineInv'
    <3>1. CASE SetAuthToken /\ ShutDown
      BY <3>1, ShutDownKeepsOrder DEF SetAuthToken
    <3>2. CASE SetAuthToken /\ UNCHANGED engineVars
      BY <3>2 DEF SetAuthToken, engineVars, EngineInv
    <3>3. CASE UNCHANGED <<provided, engineVars>>
      BY <3>3 DEF engineVars, EngineInv
    <3> QED BY <2>3, <3>1, <3>2, <3>3 DEF Connect, SetAuthToken
  <2>4. ASSUME NEW p \in Pages, Handshake(p) \/ Subscribe(p) \/ Resubscribe(p) PROVE EngineInv'
    BY <2>4, CallKeepsOrder DEF Handshake, Subscribe, Resubscribe
  <2>5. ASSUME NEW p \in Pages, Reap(p) PROVE EngineInv'
    BY <2>5, ShutDownKeepsOrder DEF Reap, sessionVars, engineVars, EngineInv
  <2>6. ASSUME NEW p \in Pages,
               Ping(p) \/ CloseTab(p) \/ Sleep(p) \/ Wake(p) \/ SignOut(p) \/ SignedOut(p)
        PROVE EngineInv'
    BY <2>6 DEF Ping, CloseTab, Sleep, Wake, SignOut, SignedOut, ClearToken, sessionVars, engineVars, EngineInv
  <2>7. ASSUME SignIn \/ Stream PROVE EngineInv'
    BY <2>7 DEF SignIn, Stream, sessionVars, engineVars, EngineInv
  <2>8. ASSUME HostOpens \/ ProbeFails \/ ProbeRecovers \/ Deliver \/ TailRefused PROVE EngineInv'
    BY <2>8 DEF HostOpens, ProbeFails, ProbeRecovers, Deliver, TailRefused, Becomes, restVars,
                sessionVars, engineVars, EngineInv
  <2>9. ASSUME UNCHANGED vars PROVE EngineInv'
    BY <2>9 DEF vars, sessionVars, engineVars, EngineInv
  <2> QED BY <2>1, <2>2, <2>3, <2>4, <2>5, <2>6, <2>7, <2>8, <2>9 DEF Next
<1> QED BY <1>1, <1>2, PTL DEF Spec

\* The search database is opened by one engine at a time, for any number of pages, boots
\* and sign-ins (wiki-host.worker.ts: boot waits for teardownP).
THEOREM DatabaseHasOneWriter == Spec => []OneWriter
BY EngineInvariant, InOrderIsOneWriter, PTL
=============================================================================
