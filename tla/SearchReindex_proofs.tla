------------------------ MODULE SearchReindex_proofs ------------------------
(***************************************************************************)
(* The registry of parked reads and the search index it serves, for any     *)
(* readers, pages, versions and streams.  Whatever the order in which reads, *)
(* advances and failures arrive, no read stays parked on a version that is   *)
(* known to be applied or to have failed; and the documents are at each      *)
(* moment those of one version of the workspace, which only grows, through   *)
(* failed and lost writes and restarts.                                      *)
(***************************************************************************)
EXTENDS SearchReindex, SequenceTheorems, WellFoundedInduction, TLAPS

(* The registry.                                                             *)

\* Every variable keeps its type, and a parked read is ahead of all the registry
\* knows: the second conjunct is inductive once the versions are numbers.
RegistryInv == RegistryTypeOK /\ NoWaiterMissed

LEMMA RegistryInitHolds == RegistryInit => RegistryInv
BY DEF RegistryInit, RegistryInv, RegistryTypeOK, NoWaiterMissed, Parked, Outcomes

\* Answering the parked reads up to v leaves parked only reads above v.
LEMMA VersionsInNat == \A v \in Versions \cup {0} : v \in Nat
BY VersionsAreNumbers

LEMMA SettledAnswers ==
  ASSUME NEW v \in Nat, NEW a \in Outcomes, a # "parked", RegistryTypeOK
  PROVE  /\ Settled(v, a) \in [Readers -> Outcomes]
         /\ \A r \in Readers : Settled(v, a)[r] = "parked" => Parked(r) /\ target[r] > v
<1>1. Settled(v, a) \in [Readers -> Outcomes]
  BY DEF Settled, RegistryTypeOK
<1>2. ASSUME NEW r \in Readers, Settled(v, a)[r] = "parked"
      PROVE  Parked(r) /\ target[r] > v
  <2>1. Settled(v, a)[r] = IF Parked(r) /\ target[r] <= v THEN a ELSE outcome[r]
    BY DEF Settled
  <2>2. Parked(r) /\ ~ (target[r] <= v)
    BY <1>2, <2>1 DEF Parked
  <2>3. target[r] \in Nat
    <3>1. target[r] \in Versions \cup {0}
      BY DEF RegistryTypeOK
    <3> QED BY <3>1, VersionsInNat
  <2> QED BY <2>2, <2>3
<1> QED BY <1>1, <1>2

LEMMA RegistryStep == RegistryInv /\ [RegistryNext]_registryVars => RegistryInv'
<1> SUFFICES ASSUME RegistryInv, [RegistryNext]_registryVars PROVE RegistryInv'
  OBVIOUS
<1> USE VersionsAreNumbers DEF RegistryInv
<1>1. ASSUME NEW r \in Readers, TimeOut(r) PROVE RegistryInv'
  BY <1>1 DEF TimeOut, RegistryTypeOK, NoWaiterMissed, Parked, Outcomes
<1>2. ASSUME NEW r \in Readers, NEW v \in Versions, WaitFor(r, v) PROVE RegistryInv'
  <2>1. RegistryTypeOK'
    BY <1>2 DEF WaitFor, RegistryTypeOK, Outcomes
  <2>2. ASSUME NEW s \in Readers, outcome'[s] = "parked"
        PROVE  target'[s] > applied' /\ target'[s] > lastFailed'
    <3>1. CASE s = r
      BY <1>2, <2>2, <3>1 DEF WaitFor, RegistryTypeOK, Outcomes
    <3>2. CASE s # r
      BY <1>2, <2>2, <3>2 DEF WaitFor, RegistryTypeOK, NoWaiterMissed, Parked
    <3> QED BY <3>1, <3>2
  <2> QED BY <2>1, <2>2 DEF NoWaiterMissed, Parked
<1>3. ASSUME NEW v \in Versions, NotifyApplied(v) PROVE RegistryInv'
  <2>1. CASE v <= applied
    BY <1>3, <2>1 DEF NotifyApplied, registryVars, RegistryTypeOK, NoWaiterMissed, Parked
  <2>2. CASE ~ (v <= applied)
    <3> "ok" \in Outcomes /\ "ok" # "parked"
      BY DEF Outcomes
    <3>1. /\ applied' = v
          /\ lastFailed' = IF v >= lastFailed THEN 0 ELSE lastFailed
          /\ outcome' = Settled(v, "ok")
          /\ target' = target
      BY <1>3, <2>2 DEF NotifyApplied
    <3>2. RegistryTypeOK'
      BY <3>1, SettledAnswers DEF RegistryTypeOK
    <3>3. NoWaiterMissed'
      <4> SUFFICES ASSUME NEW r \in Readers, outcome'[r] = "parked"
                   PROVE  target'[r] > applied' /\ target'[r] > lastFailed'
        BY DEF NoWaiterMissed, Parked
      <4>1. Parked(r) /\ target[r] > v
        BY <3>1, SettledAnswers
      <4>2. target[r] > lastFailed
        BY <4>1 DEF NoWaiterMissed
      <4>3. v \in Nat /\ target[r] \in Nat /\ v > 0
        <5>1. target[r] \in Versions \cup {0}
          BY DEF RegistryTypeOK
        <5>2. v \in Nat \ {0}
          BY VersionsAreNumbers
        <5>3. target[r] \in Nat
          BY <5>1, VersionsInNat
        <5>4. v \in Nat /\ v > 0
          BY <5>2
        <5> QED BY <5>3, <5>4
      <4> QED BY <3>1, <4>1, <4>2, <4>3
    <3> QED BY <3>2, <3>3
  <2> QED BY <2>1, <2>2
<1>4. ASSUME NEW v \in Versions, FailWaiters(v) PROVE RegistryInv'
  <2> "failed" \in Outcomes /\ "failed" # "parked"
    BY DEF Outcomes
  <2>1. RegistryTypeOK'
    BY <1>4, SettledAnswers DEF FailWaiters, RegistryTypeOK
  <2>2. NoWaiterMissed'
    BY <1>4, SettledAnswers DEF FailWaiters, NoWaiterMissed, Parked, RegistryTypeOK
  <2> QED BY <2>1, <2>2
<1>5. CASE Forget
  BY <1>5 DEF Forget, RegistryTypeOK, NoWaiterMissed, Parked, Outcomes
<1>6. CASE UNCHANGED registryVars
  BY <1>6 DEF registryVars, RegistryTypeOK, NoWaiterMissed, Parked
<1> QED BY <1>1, <1>2, <1>3, <1>4, <1>5, <1>6 DEF RegistryNext

\* Every variable of the registry keeps its type.
THEOREM RegistryTyped == RegistrySpec => []RegistryTypeOK
<1>1. RegistryInv => RegistryTypeOK
  BY DEF RegistryInv
<1> QED BY <1>1, RegistryInitHolds, RegistryStep, PTL DEF RegistrySpec

\* No read is left parked on a version already applied or failed (waitFor,
\* notifyApplied and failWaiters in any order).
THEOREM WaitersNotMissed == RegistrySpec => []NoWaiterMissed
<1>1. RegistryInv => NoWaiterMissed
  BY DEF RegistryInv
<1> QED BY <1>1, RegistryInitHolds, RegistryStep, PTL DEF RegistrySpec

\* A version whose failure is remembered stays refused until it is applied or the
\* workspace is forgotten: an advance below it does not clear the marker.
THEOREM FailuresCovered == RegistrySpec => FailuresStayCovered
<1> DEFINE Covers == \A v \in Versions :
                       v <= applied \/ v <= lastFailed => v <= applied' \/ v <= lastFailed'
<1>1. RegistryInv /\ [RegistryNext]_registryVars => [Emptied' \/ Covers]_registryVars
  <2> SUFFICES ASSUME RegistryTypeOK, RegistryNext PROVE Emptied' \/ Covers
    BY DEF RegistryInv
  <2> USE VersionsAreNumbers DEF RegistryTypeOK
  <2>1. ASSUME NEW r \in Readers, TimeOut(r) PROVE Covers
    BY <2>1 DEF TimeOut
  <2>2. ASSUME NEW r \in Readers, NEW v \in Versions, WaitFor(r, v) PROVE Covers
    BY <2>2 DEF WaitFor
  <2>3. ASSUME NEW v \in Versions, NotifyApplied(v) PROVE Covers
    BY <2>3 DEF NotifyApplied, registryVars
  <2>4. ASSUME NEW v \in Versions, FailWaiters(v) PROVE Covers
    BY <2>4 DEF FailWaiters
  <2>5. CASE Forget
    BY <2>5 DEF Forget, Emptied
  <2> QED BY <2>1, <2>2, <2>3, <2>4, <2>5 DEF RegistryNext
<1> QED BY <1>1, RegistryInitHolds, RegistryStep, PTL DEF RegistrySpec, FailuresStayCovered

-----------------------------------------------------------------------------
(* The version that last changed a page.                                     *)

LastOf(h, p, v) ==
  LET changes == {n \in 1..v : p \in h[n]}
  IN  IF changes = {} THEN 0 ELSE CHOOSE n \in changes : \A m \in changes : m <= n

\* x is the last number up to v at which the stream h changes p.
IsLast(h, p, v, x) ==
  /\ x \in 0..v
  /\ x = 0 \/ p \in h[x]
  /\ \A n \in 1..v : p \in h[n] => n <= x

\* A set of numbers up to v that is not empty has a greatest one.
LEMMA GreatestUpTo ==
  ASSUME NEW v \in Nat, NEW S \in SUBSET (1..v), S # {}
  PROVE  \E n \in S : \A m \in S : m <= n
<1> DEFINE R == {ss \in Nat \X Nat : ss[1] < ss[2]}
           D == {v - n : n \in S}
<1>1. IsWellFoundedOn(R, Nat)
  BY NatLessThanWellFounded DEF OpToRel
<1>0. \A n \in S : n \in Nat /\ v - n \in Nat
  <2>1. \A n \in 1..v : n \in Nat /\ v - n \in Nat
    OBVIOUS
  <2> QED BY <2>1
<1>2. D \in SUBSET Nat /\ D # {}
  BY <1>0
<1>3. PICK d \in D : \A y \in D : ~ (<<y, d>> \in R)
  <2> HIDE DEF R, D
  <2> QED BY <1>1, <1>2, WFMin
<1>4. PICK n \in S : d = v - n
  OBVIOUS
<1>5. ASSUME NEW m \in S PROVE m <= n
  <2>1. v - m \in D /\ v - m \in Nat /\ d \in Nat
    BY <1>0, <1>4
  <2>2. ~ (v - m < d)
    BY <1>3, <2>1
  <2>3. n \in Nat /\ m \in Nat
    BY <1>0
  <2> QED BY <1>4, <2>2, <2>3
<1> QED BY <1>5

LEMMA LastOfIsLast ==
  ASSUME NEW h, NEW p, NEW v \in Nat
  PROVE  IsLast(h, p, v, LastOf(h, p, v))
<1> DEFINE changes == {n \in 1..v : p \in h[n]}
<1>1. CASE changes = {}
  BY <1>1 DEF LastOf, IsLast
<1>2. CASE changes # {}
  <2>1. \E n \in changes : \A m \in changes : m <= n
    <3>1. changes \in SUBSET (1..v)
      OBVIOUS
    <3> HIDE DEF changes
    <3> QED BY <1>2, <3>1, GreatestUpTo
  <2>2. LastOf(h, p, v) = CHOOSE n \in changes : \A m \in changes : m <= n
    BY <1>2 DEF LastOf
  <2>3. LastOf(h, p, v) \in changes /\ \A m \in changes : m <= LastOf(h, p, v)
    <3> HIDE DEF changes
    <3> QED BY <2>1, <2>2
  <2> QED BY <2>3 DEF IsLast
<1> QED BY <1>1, <1>2

LEMMA OneLast ==
  ASSUME NEW h, NEW p, NEW v \in Nat, NEW x, NEW y, IsLast(h, p, v, x), IsLast(h, p, v, y)
  PROVE  x = y
BY DEF IsLast

LEMMA LastChangeIsLastOf ==
  ASSUME NEW p, NEW v
  PROVE  /\ LastChange(p, v) = LastOf(history, p, v)
         /\ Promise!LastChange(p, v) = LastOf(history, p, v)
BY DEF LastChange, Promise!LastChange, LastOf

\* What no version between o and v changes has the same last change at both; and no
\* last change gets smaller.
LEMMA LastChangeGrows ==
  ASSUME NEW h, NEW p, NEW o \in Nat, NEW v \in Nat, o <= v
  PROVE  /\ LastOf(h, p, o) \in Nat /\ LastOf(h, p, v) \in Nat
         /\ LastOf(h, p, o) <= LastOf(h, p, v)
         /\ (\A n \in (o + 1)..v : p \notin h[n]) => LastOf(h, p, o) = LastOf(h, p, v)
<1> DEFINE x == LastOf(h, p, o)  y == LastOf(h, p, v)
<1>1. IsLast(h, p, o, x) /\ IsLast(h, p, v, y)
  BY LastOfIsLast
<1> HIDE DEF x, y
<1>2. x \in Nat /\ y \in Nat /\ x <= y
  BY <1>1 DEF IsLast
<1>3. ASSUME \A n \in (o + 1)..v : p \notin h[n] PROVE x = y
  <2>1. y \in 0..o
    <3>1. y \in 0..v /\ (y = 0 \/ p \in h[y])
      BY <1>1 DEF IsLast
    <3>2. ~ (y \in (o + 1)..v /\ p \in h[y])
      BY <1>3
    <3> QED BY <3>1, <3>2
  <2>2. IsLast(h, p, o, y)
    BY <1>1, <2>1 DEF IsLast
  <2> QED BY <1>1, <2>2, OneLast
<1> QED BY <1>2, <1>3 DEF x, y

\* A commit says nothing of the versions before it.
LEMMA LastChangeStays ==
  ASSUME NEW h \in Seq(Changes), NEW A \in Changes, NEW p, NEW v \in 0..Len(h)
  PROVE  LastOf(Append(h, A), p, v) = LastOf(h, p, v)
<1> DEFINE g == Append(h, A)
<1>1. \A n \in 1..v : g[n] = h[n]
  OBVIOUS
<1> HIDE DEF g
<1>2. v \in Nat
  OBVIOUS
<1>3. IsLast(h, p, v, LastOf(h, p, v)) /\ IsLast(g, p, v, LastOf(g, p, v))
  BY <1>2, LastOfIsLast
<1>4. IsLast(h, p, v, LastOf(g, p, v))
  BY <1>1, <1>2, <1>3 DEF IsLast
<1>5. LastOf(g, p, v) = LastOf(h, p, v)
  BY <1>2, <1>3, <1>4, OneLast
<1> QED BY <1>5 DEF g

-----------------------------------------------------------------------------
(* The invariant of the index.                                               *)

\* The jobs are in the order of their versions, none is behind the documents, and each
\* delta begins where the documents were written already.
Queued ==
  /\ \A i \in 1..Len(queue) : /\ offset <= queue[i].version /\ queue[i].version <= folded
                              /\ queue[i].since <= offset
  /\ \A i, j \in 1..Len(queue) : i < j => queue[i].version < queue[j].version

\* Nothing that is said of the documents is ahead of them.
Behind ==
  /\ lastIndexed <= offset /\ applied <= offset /\ offset <= folded
  /\ hydration = "answered" => row \in 0..offset

\* A read waits for the hydration or for its version.
Openings == \A r \in Readers : opening[r] # 0 => ~ Parked(r)

DocsTrue == \A p \in Pages : docs[p] = LastOf(history, p, offset)

SearchInv == TypeOK /\ NoWaiterMissed /\ Queued /\ Behind /\ Openings /\ DocsTrue

LEMMA Numbers ==
  /\ MaxCommits \in Nat
  /\ Versions \cup {0} = 0..MaxCommits
  /\ Versions = 1..MaxCommits
  /\ NoRead \notin 0..MaxCommits
BY ReindexConstants

\* The types of the numbers, as the proofs of the steps need them.
LEMMA Typed ==
  ASSUME TypeOK
  PROVE  /\ Len(history) \in 0..MaxCommits /\ history \in Seq(Changes)
         /\ folded \in 0..Len(history) /\ offset \in 0..MaxCommits
         /\ applied \in 0..MaxCommits /\ lastFailed \in 0..MaxCommits
         /\ lastIndexed \in 0..MaxCommits
         /\ target \in [Readers -> 0..MaxCommits] /\ opening \in [Readers -> 0..MaxCommits]
         /\ outcome \in [Readers -> Outcomes]
         /\ \A i \in 1..Len(queue) : queue[i].version \in 1..MaxCommits /\ queue[i].since \in 0..MaxCommits
<1>1. \A i \in 1..Len(queue) : queue[i] \in Job
  BY DEF TypeOK
<1>2. \A i \in 1..Len(queue) : queue[i].version \in 1..MaxCommits /\ queue[i].since \in 0..MaxCommits
  BY <1>1 DEF Job
<1>3. Len(history) \in 0..MaxCommits
  BY Numbers DEF TypeOK
<1> QED BY <1>2, <1>3, Numbers DEF TypeOK, RegistryTypeOK

LEMMA SearchInit == Init => SearchInv
<1> SUFFICES ASSUME Init PROVE SearchInv
  OBVIOUS
<1> USE DEF Init, RegistryInit
<1>1. history \in Seq(Changes) /\ Len(history) = 0 /\ queue \in Seq(Job) /\ Len(queue) = 0
  OBVIOUS
<1>2. TypeOK
  BY <1>1, Numbers DEF TypeOK, RegistryTypeOK, Outcomes
<1>3. NoWaiterMissed /\ Openings
  BY DEF NoWaiterMissed, Openings, Parked
<1>4. Queued /\ Behind
  BY <1>1 DEF Queued, Behind
<1>5. DocsTrue
  BY LastOfIsLast DEF DocsTrue, IsLast
<1> QED BY <1>2, <1>3, <1>4, <1>5 DEF SearchInv

-----------------------------------------------------------------------------
(* The writes.                                                               *)

\* The transaction of the first job brings the documents, and nothing less, to its version:
\* what the delta leaves out has not changed since the documents were written.
LEMMA WriteTells ==
  ASSUME SearchInv, queue # << >>, Write(Head(queue))
  PROVE  /\ Head(queue) = queue[1] /\ Head(queue) \in Job /\ 1 \in 1..Len(queue)
         /\ offset' = queue[1].version /\ offset <= offset' /\ offset' <= folded
         /\ offset' \in 1..MaxCommits
         /\ docs' \in [Pages -> 0..MaxCommits]
         /\ \A p \in Pages : docs'[p] = LastOf(history, p, offset')
<1> DEFINE job == Head(queue)
<1>1. job = queue[1] /\ 1 \in 1..Len(queue) /\ job \in Job
  BY DEF SearchInv, TypeOK
<1>2. job.version \in 1..MaxCommits /\ job.since \in 0..MaxCommits
  BY <1>1 DEF Job
<1>3. offset <= job.version /\ job.since <= offset /\ job.version <= folded
  BY <1>1 DEF SearchInv, Queued
<1>4. offset' = job.version
  BY DEF Write
<1>5. offset \in Nat /\ job.version \in Nat /\ job.since \in Nat /\ MaxCommits \in Nat
  BY <1>2, Numbers, Typed DEF SearchInv
<1>6. docs' = [p \in Pages |-> IF p \in PagesOf(job) THEN LastOf(history, p, job.version) ELSE docs[p]]
  BY LastChangeIsLastOf DEF Write
<1> HIDE DEF job
<1>7. ASSUME NEW p \in Pages PROVE docs'[p] = LastOf(history, p, job.version)
  <2>1. CASE p \in PagesOf(job)
    BY <1>6, <2>1
  <2>2. CASE p \notin PagesOf(job)
    <3>1. \A n \in (job.since + 1)..job.version : p \notin history[n]
      BY <2>2 DEF PagesOf, ChangedBetween
    <3>2. \A n \in (offset + 1)..job.version : p \notin history[n]
      BY <3>1, <1>3, <1>5
    <3>3. docs[p] = LastOf(history, p, offset)
      BY DEF SearchInv, DocsTrue
    <3>4. LastOf(history, p, offset) = LastOf(history, p, job.version)
      BY <3>2, <1>3, <1>5, LastChangeGrows
    <3> QED BY <3>3, <3>4, <2>2, <1>6
  <2> QED BY <2>1, <2>2
<1>8. ASSUME NEW p \in Pages PROVE LastOf(history, p, job.version) \in 0..MaxCommits
  <2>1. LastOf(history, p, job.version) \in 0..job.version
    BY <1>5, LastOfIsLast DEF IsLast
  <2> QED BY <2>1, <1>2, <1>5
<1>9. docs' \in [Pages -> 0..MaxCommits]
  <2> DEFINE d == [p \in Pages |-> LastOf(history, p, job.version)]
  <2>1. docs' = d
    BY <1>6, <1>7
  <2>2. d \in [Pages -> 0..MaxCommits]
    BY <1>8
  <2> QED BY <2>1, <2>2
<1> QED BY <1>1, <1>2, <1>3, <1>4, <1>7, <1>9 DEF job

\* In the tables nothing changes, or the first job is written.
Written == UNCHANGED tableVars \/ (queue # << >> /\ Write(Head(queue)))

LEMMA WrittenTells ==
  ASSUME SearchInv, Written
  PROVE  /\ offset' \in 0..MaxCommits /\ offset <= offset' /\ offset' <= folded
         /\ docs' \in [Pages -> 0..MaxCommits]
         /\ \A p \in Pages : docs'[p] = LastOf(history, p, offset')
         /\ \A i \in 2..Len(queue) : /\ offset' <= queue[i].version /\ queue[i].version <= folded
                                     /\ queue[i].since <= offset'
<1>1. /\ offset \in 0..MaxCommits /\ offset <= folded /\ folded \in Nat /\ MaxCommits \in Nat
      /\ \A i \in 1..Len(queue) : queue[i].version \in Nat /\ queue[i].since \in Nat
  BY Typed, Numbers DEF SearchInv, Behind
<1>2. Queued
  BY DEF SearchInv
<1>3. CASE UNCHANGED tableVars
  BY <1>1, <1>2, <1>3 DEF tableVars, SearchInv, DocsTrue, TypeOK, Queued
<1>4. CASE queue # << >> /\ Write(Head(queue))
  <2>1. /\ 1 \in 1..Len(queue)
        /\ offset' = queue[1].version /\ offset <= offset' /\ offset' <= folded
        /\ offset' \in 1..MaxCommits
        /\ docs' \in [Pages -> 0..MaxCommits]
        /\ \A p \in Pages : docs'[p] = LastOf(history, p, offset')
    BY <1>4, WriteTells
  <2>2. ASSUME NEW i \in 2..Len(queue)
        PROVE  offset' <= queue[i].version /\ queue[i].version <= folded /\ queue[i].since <= offset'
    <3>1. i \in 1..Len(queue) /\ 1 < i
      OBVIOUS
    <3>2. queue[1].version < queue[i].version /\ queue[i].version <= folded /\ queue[i].since <= offset
      BY <1>2, <2>1, <3>1 DEF Queued
    <3> QED BY <1>1, <2>1, <3>1, <3>2
  <2>3. offset' \in 0..MaxCommits
    BY <2>1
  <2> QED BY <2>1, <2>2, <2>3
<1> QED BY <1>3, <1>4 DEF Written

-----------------------------------------------------------------------------
(* What the steps do to each part of the invariant.                          *)

\* The registry's own part is kept by its operations.
RegistryOp ==
  \/ UNCHANGED registryVars
  \/ \E v \in Versions : NotifyApplied(v) \/ FailWaiters(v) \/ \E r \in Readers : WaitFor(r, v)
  \/ \E r \in Readers : TimeOut(r)
  \/ Forget

LEMMA RegistryOpKeeps ==
  ASSUME SearchInv, RegistryOp
  PROVE  RegistryTypeOK' /\ NoWaiterMissed'
<1>1. RegistryInv
  BY DEF SearchInv, TypeOK, RegistryInv
<1>2. [RegistryNext]_registryVars
  BY DEF RegistryOp, RegistryNext
<1>3. RegistryInv'
  BY <1>1, <1>2, RegistryStep
<1> QED BY <1>3 DEF RegistryInv

\* What a registry operation says is applied is never ahead of the documents.
LEMMA AdvanceStaysBehind ==
  ASSUME SearchInv, NEW v \in 0..MaxCommits, NotifyApplied(v), NEW o \in 0..MaxCommits, offset <= o, v <= o
  PROVE  applied' <= o
<1>1. applied \in 0..MaxCommits /\ offset \in 0..MaxCommits /\ applied <= offset /\ MaxCommits \in Nat
  BY Typed, Numbers DEF SearchInv, Behind
<1> QED BY <1>1 DEF NotifyApplied, registryVars

\* The writes keep the documents true.
LEMMA WrittenKeeps ==
  ASSUME SearchInv, Written, UNCHANGED history
  PROVE  DocsTrue'
BY WrittenTells DEF DocsTrue

LEMMA AnsweredTypes ==
  ASSUME TypeOK
  PROVE  /\ DOMAIN Answered = Readers /\ DOMAIN Asked = Readers
         /\ \A r \in Readers : Asked[r] \in 0..MaxCommits
BY Typed DEF Answered, Asked

-----------------------------------------------------------------------------
(* The steps of the promise.                                                 *)

\* A step that changes no question, and answers only what is asked, with "ok" only if the
\* documents are that far, serves.
LEMMA Serves ==
  ASSUME SearchInv, Written, UNCHANGED history, Asked' = Asked,
         \A r \in Readers :
           \/ Answered'[r] = Answered[r]
           \/ /\ Answered[r] = "no" /\ Asked[r] # 0
              /\ Answered'[r] = "refused" \/ (Answered'[r] = "ok" /\ Asked[r] <= offset')
  PROVE  Promise!Next
<1>1. /\ offset' \in 0..MaxCommits /\ offset <= offset' /\ offset' <= folded
      /\ docs' \in [Pages -> 0..MaxCommits]
      /\ \A p \in Pages : docs'[p] = LastOf(history, p, offset')
  BY WrittenTells
<1>2. /\ offset \in Nat /\ offset' \in Nat /\ MaxCommits \in Nat /\ Len(history) \in Nat
      /\ offset' \in 0..Len(history)
      /\ \A p \in Pages : docs[p] = LastOf(history, p, offset)
  BY <1>1, Typed, Numbers DEF SearchInv, DocsTrue
<1>3. docs' = Promise!RenderedAt(offset')
  <2>1. Promise!RenderedAt(offset') = [p \in Pages |-> LastOf(history, p, offset')]
    BY LastChangeIsLastOf DEF Promise!RenderedAt
  <2> QED BY <1>1, <2>1
<1>4. \A p \in Pages : docs[p] <= docs'[p]
  BY <1>1, <1>2, LastChangeGrows
<1>5. Promise!Advance
  BY <1>2, <1>3, <1>4 DEF Promise!Advance
<1>6. ASSUME NEW r \in Readers, Asked[r] <= offset' PROVE Promise!Tell(Asked[r])
  <2>1. Asked[r] \in Nat
    BY AnsweredTypes DEF SearchInv
  <2>2. \A p \in Pages : LastOf(history, p, Asked[r]) <= LastOf(history, p, offset')
    BY <1>2, <1>6, <2>1, LastChangeGrows
  <2> QED BY <1>1, <2>2, LastChangeIsLastOf DEF Promise!Tell
<1>7. Promise!Serve
  BY <1>5, <1>6 DEF Promise!Serve
<1> QED BY <1>7 DEF Promise!Next

\* A new question may be answered at once, with "ok" only if the documents are that far.
LEMMA Asks ==
  ASSUME SearchInv, NEW r \in Readers, NEW v \in 1..Len(history), UNCHANGED <<history, docs, offset>>,
         Asked' = [Asked EXCEPT ![r] = v], NEW a \in {"no", "ok", "refused"},
         Answered' = [Answered EXCEPT ![r] = a], a = "ok" => v <= offset
  PROVE  Promise!Next
<1>1. offset \in Nat /\ v \in Nat /\ \A p \in Pages : docs'[p] = LastOf(history, p, offset)
  BY Typed, Numbers DEF SearchInv, DocsTrue
<1>2. a = "ok" => Promise!Tell(v)
  BY <1>1, LastChangeGrows, LastChangeIsLastOf DEF Promise!Tell
<1>3. Promise!Ask(r, v)
  BY <1>2 DEF Promise!Ask
<1> QED BY <1>3 DEF Promise!Next

\* An operation that answers parked reads, of those up to u all or none, serves.
LEMMA SettlingServes ==
  ASSUME SearchInv, Written, UNCHANGED <<history, opening, target>>,
         NEW a \in {"ok", "failed", "timeout", "closed"}, NEW u \in Nat, a = "ok" => u <= offset',
         NEW f \in [Readers -> Outcomes], outcome' = f,
         \A r \in Readers : f[r] = outcome[r] \/ (Parked(r) /\ f[r] = a /\ (a = "ok" => target[r] <= u))
  PROVE  Promise!Next /\ Openings'
<1>1. Asked' = Asked
  BY DEF Asked
<1>2. /\ outcome \in [Readers -> Outcomes] /\ target \in [Readers -> 0..MaxCommits]
      /\ applied \in 0..MaxCommits /\ MaxCommits \in Nat /\ offset' \in Nat
  BY Typed, Numbers, WrittenTells DEF SearchInv
<1>3. ASSUME NEW r \in Readers
      PROVE  \/ Answered'[r] = Answered[r]
             \/ /\ Answered[r] = "no" /\ Asked[r] # 0
                /\ Answered'[r] = "refused" \/ (Answered'[r] = "ok" /\ Asked[r] <= offset')
  <2>1. CASE f[r] = outcome[r] \/ opening[r] # 0
    BY <2>1 DEF Answered
  <2>2. CASE Parked(r) /\ f[r] = a /\ (a = "ok" => target[r] <= u) /\ opening[r] = 0
    <3>1. Answered[r] = "no" /\ Asked[r] = target[r]
      BY <2>2 DEF Answered, Asked, Parked
    <3>2. Answered'[r] = IF a = "ok" THEN "ok" ELSE "refused"
      BY <2>2 DEF Answered
    <3>3. target[r] > applied
      BY <2>2 DEF SearchInv, NoWaiterMissed
    <3>4. target[r] \in Nat /\ applied \in Nat
      BY <1>2
    <3>5. target[r] # 0
      BY <3>3, <3>4
    <3>6. a = "ok" => target[r] <= offset'
      BY <2>2, <3>4, <1>2
    <3> QED BY <3>1, <3>2, <3>5, <3>6
  <2> QED BY <2>1, <2>2
<1>4. Promise!Next
  BY <1>1, <1>3, Serves
<1>5. Openings'
  BY DEF Openings, SearchInv, Parked
<1> QED BY <1>4, <1>5

LEMMA NotifyServes ==
  ASSUME SearchInv, Written, NEW v \in Versions, NotifyApplied(v), v <= offset',
         UNCHANGED <<history, opening>>
  PROVE  Promise!Next /\ Openings'
<1>1. v \in Nat /\ "ok" \in Outcomes /\ outcome \in [Readers -> Outcomes]
  BY Numbers, Typed DEF SearchInv, Outcomes
<1>2. CASE v <= applied
  BY <1>1, <1>2, SettlingServes DEF NotifyApplied, registryVars
<1>3. CASE ~ (v <= applied)
  <2>1. outcome' = Settled(v, "ok") /\ target' = target
    BY <1>3 DEF NotifyApplied
  <2>2. Settled(v, "ok") \in [Readers -> Outcomes]
    BY <1>1 DEF Settled
  <2>3. \A r \in Readers : \/ Settled(v, "ok")[r] = outcome[r]
                           \/ Parked(r) /\ Settled(v, "ok")[r] = "ok" /\ target[r] <= v
    BY DEF Settled
  <2> QED BY <1>1, <2>1, <2>2, <2>3, SettlingServes
<1> QED BY <1>2, <1>3

LEMMA FailServes ==
  ASSUME SearchInv, Written, NEW v \in Versions, FailWaiters(v), UNCHANGED <<history, opening>>
  PROVE  Promise!Next /\ Openings'
<1>1. v \in Nat /\ "failed" \in Outcomes /\ outcome \in [Readers -> Outcomes]
  BY Numbers, Typed DEF SearchInv, Outcomes
<1>2. Settled(v, "failed") \in [Readers -> Outcomes]
  BY <1>1 DEF Settled
<1>3. \A r \in Readers : Settled(v, "failed")[r] = outcome[r] \/ (Parked(r) /\ Settled(v, "failed")[r] = "failed")
  BY DEF Settled
<1> QED BY <1>1, <1>2, <1>3, SettlingServes DEF FailWaiters

\* The reads that wait for the hydration, and the parked ones if all is closed, end.
LEMMA OpeningsServe ==
  ASSUME SearchInv, Written, UNCHANGED history, NEW a \in {"failed", "closed"}, OpeningEnd(a)
  PROVE  /\ Promise!Next /\ Openings'
         /\ opening' \in [Readers -> 0..MaxCommits] /\ target' \in [Readers -> 0..MaxCommits]
         /\ outcome' \in [Readers -> Outcomes]
         /\ \A r \in Readers : Parked(r)' => Parked(r) /\ a # "closed" /\ target'[r] = target[r]
<1>1. /\ outcome \in [Readers -> Outcomes] /\ target \in [Readers -> 0..MaxCommits]
      /\ opening \in [Readers -> 0..MaxCommits] /\ applied \in 0..MaxCommits /\ MaxCommits \in Nat
  BY Typed, Numbers DEF SearchInv
<1>2. /\ opening' = [r \in Readers |-> 0]
      /\ target' = [r \in Readers |-> IF opening[r] # 0 THEN opening[r] ELSE target[r]]
      /\ outcome' = [r \in Readers |->
           IF opening[r] # 0 \/ (Parked(r) /\ a = "closed") THEN a ELSE outcome[r]]
  BY DEF OpeningEnd
<1>3. /\ opening' \in [Readers -> 0..MaxCommits] /\ target' \in [Readers -> 0..MaxCommits]
      /\ outcome' \in [Readers -> Outcomes]
  BY <1>1, <1>2 DEF Outcomes
<1>4. \A r \in Readers : Parked(r)' => Parked(r) /\ a # "closed" /\ target'[r] = target[r]
  BY <1>2 DEF Parked
<1>5. Asked' = Asked
  BY <1>2 DEF Asked
<1>6. ASSUME NEW r \in Readers
      PROVE  \/ Answered'[r] = Answered[r]
             \/ Answered[r] = "no" /\ Asked[r] # 0 /\ Answered'[r] = "refused"
  <2>1. CASE opening[r] # 0
    BY <1>2, <2>1 DEF Answered, Asked
  <2>2. CASE opening[r] = 0 /\ Parked(r) /\ a = "closed"
    <3>1. Answered[r] = "no" /\ Asked[r] = target[r] /\ Answered'[r] = "refused"
      BY <1>2, <2>2 DEF Answered, Asked, Parked
    <3>2. target[r] > applied
      BY <2>2 DEF SearchInv, NoWaiterMissed
    <3>3. target[r] \in Nat /\ applied \in Nat
      BY <1>1
    <3>4. target[r] # 0
      BY <3>2, <3>3
    <3> QED BY <3>1, <3>4
  <2>3. CASE opening[r] = 0 /\ ~ (Parked(r) /\ a = "closed")
    BY <1>2, <2>3 DEF Answered
  <2> QED BY <2>1, <2>2, <2>3
<1>7. Promise!Next
  BY <1>5, <1>6, Serves
<1>8. Openings'
  BY <1>2 DEF Openings
<1> QED BY <1>3, <1>4, <1>7, <1>8

-----------------------------------------------------------------------------
(* The actions.                                                              *)

Refined == [Promise!Next]_(Promise!vars)

LEMMA CommitStep == SearchInv /\ Commit => SearchInv' /\ Refined
<1> SUFFICES ASSUME SearchInv, Commit PROVE SearchInv' /\ Refined
  OBVIOUS
<1>1. PICK A \in Changes : history' = Append(history, A)
  BY DEF Commit
<1>2. /\ Len(history) < MaxCommits /\ UNCHANGED <<registryVars, folded, open, indexVars, tableVars, hydrateVars>>
      /\ UNCHANGED <<applied, lastFailed, target, outcome>>
  BY DEF Commit, registryVars
<1> USE DEF indexVars, tableVars, hydrateVars
<1>3. /\ history \in Seq(Changes) /\ Len(history) \in Nat /\ folded \in 0..Len(history) /\ MaxCommits \in Nat
      /\ offset \in 0..MaxCommits /\ offset <= folded
  BY Typed, Numbers DEF SearchInv, Behind
<1>4. history' \in Seq(Changes) /\ Len(history') = Len(history) + 1
  BY <1>1, <1>3
<1>5. TypeOK'
  BY <1>2, <1>3, <1>4 DEF SearchInv, TypeOK, RegistryTypeOK
<1>6. NoWaiterMissed' /\ Openings'
  BY <1>2 DEF SearchInv, NoWaiterMissed, Openings, Parked
<1>7. Queued' /\ Behind'
  BY <1>2 DEF SearchInv, Queued, Behind
<1>8. DocsTrue'
  <2>1. offset \in 0..Len(history)
    BY <1>3
  <2>2. \A p \in Pages : LastOf(history', p, offset) = LastOf(history, p, offset)
    BY <1>1, <1>3, <2>1, LastChangeStays
  <2> QED BY <1>2, <2>2 DEF SearchInv, DocsTrue
<1>9. Promise!Next
  <2>1. Promise!Commit
    BY <1>1, <1>2 DEF Promise!Commit, Asked, Answered
  <2> QED BY <2>1 DEF Promise!Next
<1> QED BY <1>5, <1>6, <1>7, <1>8, <1>9 DEF SearchInv, Refined

LEMMA FoldStep ==
  ASSUME SearchInv, NEW v \in 1..Len(history), Fold(v)
  PROVE  SearchInv' /\ Refined
<1>1. /\ v \in (folded + 1)..Len(history) /\ folded' = v
      /\ UNCHANGED <<registryVars, history, open, lastIndexed, tableVars, hydrateVars>>
      /\ UNCHANGED <<applied, lastFailed, target, outcome>>
  BY DEF Fold, registryVars
<1> USE DEF tableVars, hydrateVars
<1>2. /\ Len(history) \in 0..MaxCommits /\ folded \in 0..Len(history) /\ MaxCommits \in Nat
      /\ offset \in 0..MaxCommits /\ offset <= folded /\ lastIndexed \in 0..MaxCommits /\ lastIndexed <= offset
      /\ queue \in Seq(Job)
      /\ \A i \in 1..Len(queue) : queue[i].version \in 1..MaxCommits /\ queue[i].since \in 0..MaxCommits
  BY Typed, Numbers DEF SearchInv, Behind, TypeOK
<1>3. v \in 1..MaxCommits /\ folded < v /\ offset < v
  BY <1>1, <1>2
<1>4. queue' = Append(queue, [since |-> lastIndexed, version |-> v])
  BY <1>2, <1>3 DEF Fold, ScheduleReindex
<1> DEFINE job == [since |-> lastIndexed, version |-> v]
<1>5. job \in Job /\ job.version = v /\ job.since = lastIndexed
  BY <1>2, <1>3 DEF Job
<1>6. /\ queue' \in Seq(Job) /\ Len(queue') = Len(queue) + 1
      /\ \A i \in 1..Len(queue) : queue'[i] = queue[i]
      /\ queue'[Len(queue) + 1] = job
  <2> HIDE DEF job
  <2> QED BY <1>2, <1>4, <1>5 DEF job
<1>7. TypeOK'
  BY <1>1, <1>2, <1>6 DEF SearchInv, TypeOK, RegistryTypeOK
<1>8. NoWaiterMissed' /\ Openings'
  BY <1>1 DEF SearchInv, NoWaiterMissed, Openings, Parked
<1>9. Queued'
  <2>1. Len(queue) \in Nat /\ \A i \in 1..Len(queue') : i \in 1..Len(queue) \/ i = Len(queue) + 1
    BY <1>2, <1>6
  <2>2. ASSUME NEW i \in 1..Len(queue')
        PROVE  offset <= queue'[i].version /\ queue'[i].version <= v /\ queue'[i].since <= offset
    <3>1. CASE i \in 1..Len(queue)
      <4>1. /\ queue[i].version \in Nat /\ queue[i].since \in Nat
            /\ offset <= queue[i].version /\ queue[i].version <= folded /\ queue[i].since <= offset
        BY <1>2, <3>1 DEF SearchInv, Queued
      <4> QED BY <1>2, <1>3, <1>6, <3>1, <4>1
    <3>2. CASE i = Len(queue) + 1
      BY <1>2, <1>3, <1>5, <1>6, <3>2
    <3> QED BY <2>1, <3>1, <3>2
  <2>3. ASSUME NEW i \in 1..Len(queue'), NEW j \in 1..Len(queue'), i < j
        PROVE  queue'[i].version < queue'[j].version
    <3>1. i \in 1..Len(queue)
      BY <2>1, <2>3, <1>6
    <3>2. /\ queue[i].version \in Nat /\ queue[i].version <= folded /\ queue'[i] = queue[i]
      BY <1>2, <1>6, <3>1 DEF SearchInv, Queued
    <3>3. CASE j \in 1..Len(queue)
      BY <2>3, <1>6, <3>1, <3>3 DEF SearchInv, Queued
    <3>4. CASE j = Len(queue) + 1
      BY <1>2, <1>3, <1>5, <1>6, <3>2, <3>4
    <3> QED BY <2>1, <3>3, <3>4
  <2> QED BY <1>1, <2>2, <2>3 DEF Queued
<1>10. Behind'
  BY <1>1, <1>2, <1>3 DEF SearchInv, Behind
<1>11. DocsTrue'
  BY <1>1 DEF SearchInv, DocsTrue
<1>12. UNCHANGED Promise!vars
  BY <1>1 DEF Promise!vars, Asked, Answered
<1> QED BY <1>7, <1>8, <1>9, <1>10, <1>11, <1>12 DEF SearchInv, Refined

\* What the end of the first job leaves in the queue.
LEMMA Dequeued ==
  ASSUME SearchInv, Written, queue # << >>, queue' = Tail(queue), UNCHANGED folded
  PROVE  queue' \in Seq(Job) /\ Queued'
<1>1. /\ queue \in Seq(Job) /\ folded \in Nat /\ Len(queue) \in Nat
      /\ \A i \in 1..Len(queue) : queue[i].version \in Nat /\ queue[i].since \in Nat
  BY Typed DEF SearchInv, TypeOK
<1>2. /\ queue' \in Seq(Job) /\ Len(queue') = Len(queue) - 1
      /\ \A i \in 1..Len(queue') : queue'[i] = queue[i + 1]
  BY <1>1
<1>3. \A i \in 1..Len(queue') : i + 1 \in 2..Len(queue) /\ i + 1 \in 1..Len(queue)
  BY <1>1, <1>2
<1>4. \A i \in 1..Len(queue') : /\ offset' <= queue'[i].version /\ queue'[i].version <= folded
                                /\ queue'[i].since <= offset'
  BY <1>2, <1>3, WrittenTells
<1>5. ASSUME NEW i \in 1..Len(queue'), NEW j \in 1..Len(queue'), i < j
      PROVE  queue'[i].version < queue'[j].version
  <2>1. i + 1 < j + 1
    BY <1>5
  <2> QED BY <1>2, <1>3, <2>1 DEF SearchInv, Queued
<1> QED BY <1>2, <1>4, <1>5 DEF Queued

LEMMA IndexedStep == SearchInv /\ Indexed => SearchInv' /\ Refined
<1> SUFFICES ASSUME SearchInv, Indexed PROVE SearchInv' /\ Refined
  OBVIOUS
<1> DEFINE v == queue[1].version
<1>1. /\ queue # << >> /\ Write(Head(queue)) /\ queue' = Tail(queue)
      /\ NotifyApplied(Head(queue).version)
      /\ lastIndexed' = IF Head(queue).version > lastIndexed THEN Head(queue).version ELSE lastIndexed
      /\ UNCHANGED <<history, folded, open, hydration, row, opening>>
  BY DEF Indexed, streamVars, hydrateVars
<1>2. /\ Head(queue) = queue[1] /\ 1 \in 1..Len(queue) /\ offset' = v /\ v \in 1..MaxCommits /\ v \in Versions
      /\ offset <= v /\ v <= folded
      /\ docs' \in [Pages -> 0..MaxCommits]
  BY <1>1, WriteTells, Numbers
<1>3. Written
  BY <1>1 DEF Written
<1>4. NotifyApplied(v) /\ lastIndexed' = IF v > lastIndexed THEN v ELSE lastIndexed
  BY <1>1, <1>2
<1> HIDE DEF v
<1>5. queue' \in Seq(Job) /\ Queued'
  BY <1>1, <1>3, Dequeued
<1>6. RegistryTypeOK' /\ NoWaiterMissed'
  BY <1>2, <1>4, RegistryOpKeeps DEF RegistryOp
<1>7. MaxCommits \in Nat /\ lastIndexed \in 0..MaxCommits /\ lastIndexed <= offset /\ offset \in 0..MaxCommits
  BY Typed, Numbers DEF SearchInv, Behind
<1>8. TypeOK'
  BY <1>1, <1>2, <1>4, <1>5, <1>6, <1>7 DEF SearchInv, TypeOK
<1>9. applied' <= offset'
  BY <1>2, <1>4, <1>7, AdvanceStaysBehind
<1>10. Behind'
  BY <1>1, <1>2, <1>4, <1>7, <1>9 DEF SearchInv, Behind
<1>11. DocsTrue'
  BY <1>1, <1>3, WrittenKeeps
<1>12. Promise!Next /\ Openings'
  BY <1>1, <1>2, <1>3, <1>4, NotifyServes
<1> QED BY <1>5, <1>6, <1>8, <1>10, <1>11, <1>12 DEF SearchInv, Refined

LEMMA DroppedStep == SearchInv /\ Dropped => SearchInv' /\ Refined
<1> SUFFICES ASSUME SearchInv, Dropped PROVE SearchInv' /\ Refined
  OBVIOUS
<1>1. /\ queue # << >> /\ queue' = Tail(queue) /\ FailWaiters(Head(queue).version)
      /\ UNCHANGED tableVars \/ Write(Head(queue))
      /\ UNCHANGED <<history, folded, open, lastIndexed, hydration, row, opening>>
  BY DEF Dropped, streamVars, hydrateVars
<1>2. Written
  BY <1>1 DEF Written
<1>3. Head(queue).version \in Versions
  <2>1. Head(queue) \in Job
    BY <1>1 DEF SearchInv, TypeOK
  <2> QED BY <2>1, Numbers DEF Job
<1>4. queue' \in Seq(Job) /\ Queued'
  BY <1>1, <1>2, Dequeued
<1>5. RegistryTypeOK' /\ NoWaiterMissed'
  BY <1>1, <1>3, RegistryOpKeeps DEF RegistryOp
<1>6. /\ offset' \in 0..MaxCommits /\ offset <= offset' /\ offset' <= folded
      /\ docs' \in [Pages -> 0..MaxCommits]
  BY <1>2, WrittenTells
<1>7. TypeOK'
  BY <1>1, <1>4, <1>5, <1>6 DEF SearchInv, TypeOK
<1>8. Behind'
  <2>1. /\ MaxCommits \in Nat /\ lastIndexed \in Nat /\ applied \in Nat /\ offset \in Nat /\ offset' \in Nat
        /\ applied' = applied
    BY <1>1, <1>6, Typed, Numbers DEF SearchInv, FailWaiters
  <2> QED BY <1>1, <1>6, <2>1 DEF SearchInv, Behind
<1>9. DocsTrue'
  BY <1>1, <1>2, WrittenKeeps
<1>10. Promise!Next /\ Openings'
  BY <1>1, <1>2, <1>3, FailServes
<1> QED BY <1>4, <1>5, <1>7, <1>8, <1>9, <1>10 DEF SearchInv, Refined

\* The documents and what is said of them, when neither tables nor jobs change.
LEMMA SameIndex ==
  ASSUME SearchInv, UNCHANGED <<history, folded, open, queue, lastIndexed, docs, offset>>
  PROVE  Queued' /\ DocsTrue' /\ Written
BY DEF SearchInv, Queued, DocsTrue, Written, tableVars

\* A read that goes to the registry is parked, or answered from what is applied.
LEMMA WaitForAnswers ==
  ASSUME SearchInv, NEW r \in Readers, NEW v \in 1..MaxCommits, WaitFor(r, v)
  PROVE  /\ RegistryTypeOK' /\ NoWaiterMissed' /\ applied' = applied
         /\ \E a \in {"ok", "failed", "parked"} :
              /\ outcome' = [outcome EXCEPT ![r] = a]
              /\ a = "ok" => v <= offset
<1>1. RegistryTypeOK' /\ NoWaiterMissed'
  BY Numbers, RegistryOpKeeps DEF RegistryOp
<1>2. applied \in Nat /\ offset \in Nat /\ applied <= offset /\ v \in Nat
  BY Typed, Numbers DEF SearchInv, Behind
<1> DEFINE a == IF v <= applied THEN "ok" ELSE IF v <= lastFailed THEN "failed" ELSE "parked"
<1>3. outcome' = [outcome EXCEPT ![r] = a] /\ applied' = applied
  BY DEF WaitFor
<1>4. a \in {"ok", "failed", "parked"} /\ (a = "ok" => v <= offset)
  BY <1>2
<1> QED BY <1>1, <1>3, <1>4

LEMMA QueryStep ==
  ASSUME SearchInv, NEW r \in Readers, NEW v \in 1..Len(history), Query(r, v)
  PROVE  SearchInv' /\ Refined
<1>1. /\ opening[r] = 0
      /\ UNCHANGED <<history, folded, open, queue, lastIndexed, docs, offset>>
  BY DEF Query, streamVars, indexVars, tableVars
<1>2. Queued' /\ DocsTrue' /\ Written
  BY <1>1, SameIndex
<1>3. /\ v \in 1..MaxCommits /\ MaxCommits \in Nat /\ outcome \in [Readers -> Outcomes]
      /\ opening \in [Readers -> 0..MaxCommits] /\ target \in [Readers -> 0..MaxCommits]
  BY Typed, Numbers DEF SearchInv
<1>4. CASE WaitFor(r, v) /\ UNCHANGED hydrateVars
  <2>1. PICK a \in {"ok", "failed", "parked"} :
          outcome' = [outcome EXCEPT ![r] = a] /\ (a = "ok" => v <= offset)
    BY <1>3, <1>4, WaitForAnswers
  <2>2. RegistryTypeOK' /\ NoWaiterMissed' /\ applied' = applied
    BY <1>3, <1>4, WaitForAnswers
  <2>3. target' = [target EXCEPT ![r] = v] /\ UNCHANGED <<hydration, row, opening>>
    BY <1>4 DEF WaitFor, hydrateVars
  <2>4. TypeOK' /\ Behind'
    BY <1>1, <2>2, <2>3 DEF SearchInv, TypeOK, Behind
  <2>5. Openings'
    BY <1>1, <1>3, <2>1, <2>3 DEF SearchInv, Openings, Parked
  <2> DEFINE b == IF a = "ok" THEN "ok" ELSE IF a = "parked" THEN "no" ELSE "refused"
  <2>6. Asked' = [Asked EXCEPT ![r] = v]
    BY <1>1, <1>3, <2>3 DEF Asked
  <2>7. Answered' = [Answered EXCEPT ![r] = b]
    <3>1. \A q \in Readers : Answered'[q] = IF q = r THEN b ELSE Answered[q]
      BY <1>1, <1>3, <2>1, <2>3 DEF Answered
    <3>2. Answered' = [q \in Readers |-> Answered'[q]]
      BY DEF Answered
    <3>3. Answered = [q \in Readers |-> Answered[q]]
      BY DEF Answered
    <3> HIDE DEF b
    <3> QED BY <3>1, <3>2, <3>3
  <2>8. b \in {"no", "ok", "refused"} /\ (b = "ok" => v <= offset)
    BY <2>1
  <2> HIDE DEF b
  <2>9. Promise!Next
    BY <1>1, <2>6, <2>7, <2>8, Asks
  <2> QED BY <1>2, <2>2, <2>4, <2>5, <2>9 DEF SearchInv, Refined
<1>5. CASE /\ ~ Parked(r) /\ opening' = [opening EXCEPT ![r] = v]
           /\ hydration' = IF hydration = "none" THEN "sent" ELSE hydration
           /\ UNCHANGED <<registryVars, row>>
  <2>1. UNCHANGED <<applied, lastFailed, target, outcome, row>>
    BY <1>5 DEF registryVars
  <2>2. opening' \in [Readers -> 0..MaxCommits]
    BY <1>3, <1>5
  <2>3. TypeOK' /\ NoWaiterMissed' /\ Behind'
    BY <1>1, <1>5, <2>1, <2>2 DEF SearchInv, TypeOK, RegistryTypeOK, NoWaiterMissed, Parked, Behind
  <2>4. Openings'
    BY <1>3, <1>5, <2>1 DEF SearchInv, Openings, Parked
  <2>5. Asked' = [Asked EXCEPT ![r] = v]
    <3>1. v # 0
      BY <1>3
    <3>2. \A q \in Readers : Asked'[q] = IF q = r THEN v ELSE Asked[q]
      BY <1>3, <1>5, <2>1, <3>1 DEF Asked
    <3>3. Asked' = [q \in Readers |-> Asked'[q]] /\ Asked = [q \in Readers |-> Asked[q]]
      BY DEF Asked
    <3> QED BY <3>2, <3>3
  <2>6. Answered' = [Answered EXCEPT ![r] = "no"]
    <3>1. v # 0
      BY <1>3
    <3>2. \A q \in Readers : Answered'[q] = IF q = r THEN "no" ELSE Answered[q]
      BY <1>3, <1>5, <2>1, <3>1 DEF Answered
    <3>3. Answered' = [q \in Readers |-> Answered'[q]]
      BY DEF Answered
    <3>4. Answered = [q \in Readers |-> Answered[q]]
      BY DEF Answered
    <3> QED BY <3>2, <3>3, <3>4
  <2>7. Promise!Next
    BY <1>1, <2>5, <2>6, Asks
  <2> QED BY <1>2, <2>3, <2>4, <2>7 DEF SearchInv, Refined
<1> QED BY <1>4, <1>5 DEF Query

LEMMA ReadOffsetStep == SearchInv /\ ReadOffset => SearchInv' /\ Refined
<1> SUFFICES ASSUME SearchInv, ReadOffset PROVE SearchInv' /\ Refined
  OBVIOUS
<1>1. /\ hydration' = "answered" /\ row' = offset
      /\ UNCHANGED <<history, folded, open, queue, lastIndexed, docs, offset, opening>>
      /\ UNCHANGED <<applied, lastFailed, target, outcome>>
  BY DEF ReadOffset, registryVars, streamVars, indexVars, tableVars
<1>2. offset \in 0..MaxCommits /\ MaxCommits \in Nat
  BY Typed, Numbers DEF SearchInv
<1>3. Queued' /\ DocsTrue'
  BY <1>1, SameIndex
<1>4. TypeOK' /\ NoWaiterMissed' /\ Behind' /\ Openings'
  BY <1>1, <1>2 DEF SearchInv, TypeOK, RegistryTypeOK, NoWaiterMissed, Parked, Behind, Openings
<1>5. UNCHANGED Promise!vars
  BY <1>1 DEF Promise!vars, Asked, Answered
<1> QED BY <1>3, <1>4, <1>5 DEF SearchInv, Refined

LEMMA HydrateStep == SearchInv /\ Hydrate => SearchInv' /\ Refined
<1> SUFFICES ASSUME SearchInv, Hydrate PROVE SearchInv' /\ Refined
  OBVIOUS
<1>1. /\ hydration = "answered" /\ hydration' = "done" /\ row' = NoRead
      /\ IF row = 0 THEN UNCHANGED registryVars ELSE NotifyApplied(row)
      /\ UNCHANGED <<history, folded, open, queue, lastIndexed, docs, offset, opening>>
  BY DEF Hydrate, streamVars, indexVars, tableVars
<1>2. row \in 0..offset /\ offset \in 0..MaxCommits /\ MaxCommits \in Nat
  BY <1>1, Typed, Numbers DEF SearchInv, Behind
<1>3. row # 0 => row \in Versions /\ row \in 0..MaxCommits /\ row <= offset
  BY <1>2, Numbers
<1>4. Queued' /\ DocsTrue' /\ Written
  BY <1>1, SameIndex
<1>5. RegistryTypeOK' /\ NoWaiterMissed'
  BY <1>1, <1>3, RegistryOpKeeps DEF RegistryOp
<1>6. applied' <= offset
  <2>1. CASE row = 0
    BY <1>1, <2>1 DEF registryVars, SearchInv, Behind
  <2>2. CASE row # 0
    BY <1>1, <1>2, <1>3, <2>2, AdvanceStaysBehind
  <2> QED BY <2>1, <2>2
<1>7. TypeOK' /\ Behind'
  BY <1>1, <1>5, <1>6 DEF SearchInv, TypeOK, Behind
<1>8. Openings' /\ Refined
  <2>1. CASE row = 0
    BY <1>1, <2>1 DEF registryVars, SearchInv, Openings, Parked, Refined, Promise!vars, Asked, Answered
  <2>2. CASE row # 0
    BY <1>1, <1>3, <1>4, <2>2, NotifyServes DEF Refined
  <2> QED BY <2>1, <2>2
<1> QED BY <1>4, <1>5, <1>7, <1>8 DEF SearchInv

LEMMA EnterStep ==
  ASSUME SearchInv, NEW r \in Readers, Enter(r)
  PROVE  SearchInv' /\ Refined
<1> DEFINE v == opening[r]
<1>1. /\ v # 0 /\ WaitFor(r, v) /\ opening' = [opening EXCEPT ![r] = 0]
      /\ UNCHANGED <<history, folded, open, queue, lastIndexed, docs, offset, hydration, row>>
  BY DEF Enter, streamVars, indexVars, tableVars
<1>2. /\ v \in 1..MaxCommits /\ MaxCommits \in Nat /\ outcome \in [Readers -> Outcomes]
      /\ opening \in [Readers -> 0..MaxCommits] /\ target \in [Readers -> 0..MaxCommits]
  BY <1>1, Typed, Numbers DEF SearchInv
<1>3. Queued' /\ DocsTrue' /\ Written
  BY <1>1, SameIndex
<1>4. PICK a \in {"ok", "failed", "parked"} :
        outcome' = [outcome EXCEPT ![r] = a] /\ (a = "ok" => v <= offset)
  BY <1>1, <1>2, WaitForAnswers
<1>5. RegistryTypeOK' /\ NoWaiterMissed' /\ applied' = applied
  BY <1>1, <1>2, WaitForAnswers
<1>6. target' = [target EXCEPT ![r] = v]
  BY <1>1 DEF WaitFor
<1>7. TypeOK' /\ Behind'
  BY <1>1, <1>2, <1>5 DEF SearchInv, TypeOK, Behind
<1>8. Openings'
  BY <1>1, <1>2, <1>4 DEF SearchInv, Openings, Parked
<1>9. Asked' = Asked
  BY <1>1, <1>2, <1>6 DEF Asked
<1>10. ASSUME NEW q \in Readers
       PROVE  \/ Answered'[q] = Answered[q]
              \/ /\ Answered[q] = "no" /\ Asked[q] # 0
                 /\ Answered'[q] = "refused" \/ (Answered'[q] = "ok" /\ Asked[q] <= offset')
  <2>1. CASE q = r
    <3>1. Answered[q] = "no" /\ Asked[q] = v
      BY <1>1, <2>1 DEF Answered, Asked
    <3>2. Answered'[q] = IF a = "ok" THEN "ok" ELSE IF a = "parked" THEN "no" ELSE "refused"
      BY <1>1, <1>2, <1>4, <2>1 DEF Answered
    <3> QED BY <1>1, <1>4, <3>1, <3>2
  <2>2. CASE q # r
    BY <1>1, <1>2, <1>4, <2>2 DEF Answered
  <2> QED BY <2>1, <2>2
<1>11. Promise!Next
  BY <1>1, <1>3, <1>9, <1>10, Serves
<1> QED BY <1>3, <1>5, <1>7, <1>8, <1>11 DEF SearchInv, Refined

LEMMA HydrationFailsStep == SearchInv /\ HydrationFails => SearchInv' /\ Refined
<1> SUFFICES ASSUME SearchInv, HydrationFails PROVE SearchInv' /\ Refined
  OBVIOUS
<1>1. /\ hydration' = "none" /\ row' = NoRead /\ OpeningEnd("failed")
      /\ UNCHANGED <<applied, lastFailed, history, folded, open, queue, lastIndexed, docs, offset>>
  BY DEF HydrationFails, streamVars, indexVars, tableVars
<1>2. Queued' /\ DocsTrue' /\ Written
  BY <1>1, SameIndex
<1>3. /\ Promise!Next /\ Openings'
      /\ opening' \in [Readers -> 0..MaxCommits] /\ target' \in [Readers -> 0..MaxCommits]
      /\ outcome' \in [Readers -> Outcomes]
      /\ \A r \in Readers : Parked(r)' => Parked(r) /\ target'[r] = target[r]
  BY <1>1, <1>2, OpeningsServe
<1>4. NoWaiterMissed'
  BY <1>1, <1>3 DEF SearchInv, NoWaiterMissed
<1>5. TypeOK' /\ Behind'
  BY <1>1, <1>3, Numbers DEF SearchInv, TypeOK, RegistryTypeOK, Behind
<1> QED BY <1>2, <1>3, <1>4, <1>5 DEF SearchInv, Refined

LEMMA ExpireStep ==
  ASSUME SearchInv, NEW r \in Readers, Expire(r)
  PROVE  SearchInv' /\ Refined
<1>1. /\ TimeOut(r)
      /\ UNCHANGED <<history, folded, open, queue, lastIndexed, docs, offset, hydration, row, opening>>
  BY DEF Expire, streamVars, indexVars, tableVars, hydrateVars
<1>2. Queued' /\ DocsTrue' /\ Written
  BY <1>1, SameIndex
<1>3. RegistryTypeOK' /\ NoWaiterMissed'
  BY <1>1, RegistryOpKeeps DEF RegistryOp
<1>4. /\ Parked(r) /\ outcome' = [outcome EXCEPT ![r] = "timeout"] /\ UNCHANGED <<applied, lastFailed, target>>
  BY <1>1 DEF TimeOut
<1>5. TypeOK' /\ Behind'
  BY <1>1, <1>3, <1>4 DEF SearchInv, TypeOK, Behind
<1>6. Promise!Next /\ Openings'
  <2> DEFINE f == [outcome EXCEPT ![r] = "timeout"]
  <2>1. outcome \in [Readers -> Outcomes] /\ "timeout" \in Outcomes
    BY Typed DEF SearchInv, Outcomes
  <2>2. f \in [Readers -> Outcomes] /\ \A q \in Readers : f[q] = outcome[q] \/ (Parked(q) /\ f[q] = "timeout")
    BY <1>4, <2>1
  <2> HIDE DEF f
  <2> QED BY <1>1, <1>2, <1>4, <2>2, SettlingServes DEF f
<1> QED BY <1>2, <1>3, <1>5, <1>6 DEF SearchInv, Refined

LEMMA CloseStep == SearchInv /\ Close => SearchInv' /\ Refined
<1> SUFFICES ASSUME SearchInv, Close PROVE SearchInv' /\ Refined
  OBVIOUS
<1>1. /\ Forget /\ open' = FALSE
      /\ UNCHANGED <<history, folded, queue, lastIndexed, docs, offset, hydration, row, opening>>
  BY DEF Close, indexVars, tableVars, hydrateVars
<1>2. Queued' /\ DocsTrue' /\ Written
  BY <1>1 DEF SearchInv, Queued, DocsTrue, Written, tableVars
<1>3. RegistryTypeOK' /\ NoWaiterMissed'
  BY <1>1, RegistryOpKeeps DEF RegistryOp
<1>4. /\ applied' = 0 /\ target' = target
      /\ outcome' = [r \in Readers |-> IF Parked(r) THEN "closed" ELSE outcome[r]]
  BY <1>1 DEF Forget
<1>5. TypeOK'
  BY <1>1, <1>3 DEF SearchInv, TypeOK
<1>7. Behind'
  <2>1. offset \in Nat
    BY Typed, Numbers DEF SearchInv
  <2> QED BY <1>1, <1>4, <2>1 DEF SearchInv, Behind
<1>6. Promise!Next /\ Openings'
  <2> DEFINE f == [r \in Readers |-> IF Parked(r) THEN "closed" ELSE outcome[r]]
  <2>1. f \in [Readers -> Outcomes] /\ \A q \in Readers : f[q] = outcome[q] \/ (Parked(q) /\ f[q] = "closed")
    BY Typed DEF SearchInv, Outcomes
  <2> HIDE DEF f
  <2> QED BY <1>1, <1>2, <1>4, <2>1, SettlingServes DEF f
<1> QED BY <1>2, <1>3, <1>5, <1>6, <1>7 DEF SearchInv, Refined

LEMMA RestartStep == SearchInv /\ Restart => SearchInv' /\ Refined
<1> SUFFICES ASSUME SearchInv, Restart PROVE SearchInv' /\ Refined
  OBVIOUS
<1>1. /\ Written /\ folded' = Len(history) /\ lastIndexed' = 0 /\ applied' = 0 /\ lastFailed' = 0
      /\ open' = TRUE /\ hydration' = "none" /\ row' = NoRead /\ OpeningEnd("closed") /\ history' = history
      /\ queue' = IF history = << >> THEN << >> ELSE << [since |-> 0, version |-> Len(history)] >>
  BY DEF Restart, Written
<1>2. /\ offset' \in 0..MaxCommits /\ offset' <= folded /\ docs' \in [Pages -> 0..MaxCommits]
  BY <1>1, WrittenTells
<1>3. /\ history \in Seq(Changes) /\ Len(history) \in 0..MaxCommits /\ MaxCommits \in Nat
      /\ folded \in 0..Len(history) /\ offset' \in Nat /\ offset' <= Len(history)
  BY <1>2, Typed, Numbers DEF SearchInv
<1>4. /\ Promise!Next /\ Openings'
      /\ opening' \in [Readers -> 0..MaxCommits] /\ target' \in [Readers -> 0..MaxCommits]
      /\ outcome' \in [Readers -> Outcomes]
      /\ \A r \in Readers : ~ Parked(r)'
  BY <1>1, OpeningsServe
<1>5. NoWaiterMissed'
  BY <1>4 DEF NoWaiterMissed
<1>6. queue' \in Seq(Job) /\ Queued'
  <2>1. CASE history = << >>
    BY <1>1, <2>1 DEF Queued
  <2>2. CASE history # << >>
    <3> DEFINE job == [since |-> 0, version |-> Len(history)]
    <3>1. Len(history) \in 1..MaxCommits
      BY <1>3, <2>2
    <3>2. job \in Job /\ job.since = 0 /\ job.version = Len(history)
      BY <1>3, <3>1 DEF Job
    <3>3. queue' = <<job>>
      BY <1>1, <2>2
    <3> HIDE DEF job
    <3>4. queue' \in Seq(Job) /\ Len(queue') = 1 /\ queue'[1] = job
      BY <3>2, <3>3
    <3> QED BY <1>1, <1>3, <3>2, <3>4 DEF Queued
  <2> QED BY <2>1, <2>2
<1>7. TypeOK'
  BY <1>1, <1>2, <1>3, <1>4, <1>6, Numbers DEF SearchInv, TypeOK, RegistryTypeOK
<1>8. Behind'
  BY <1>1, <1>2, <1>3 DEF Behind
<1>9. DocsTrue'
  BY <1>1, WrittenKeeps
<1> QED BY <1>4, <1>5, <1>6, <1>7, <1>8, <1>9 DEF SearchInv, Refined

LEMMA SearchStep == SearchInv /\ [Next]_vars => SearchInv' /\ Refined
<1> SUFFICES ASSUME SearchInv, [Next]_vars PROVE SearchInv' /\ Refined
  OBVIOUS
<1>1. CASE UNCHANGED vars
  BY <1>1 DEF vars, registryVars, streamVars, indexVars, tableVars, hydrateVars, SearchInv, TypeOK,
     RegistryTypeOK, NoWaiterMissed, Parked, Queued, Behind, Openings, DocsTrue, Refined, Promise!vars,
     Asked, Answered
<1>2. CASE Next
  BY <1>2, CommitStep, FoldStep, IndexedStep, DroppedStep, EnterStep, ExpireStep, QueryStep, ReadOffsetStep,
     HydrateStep, HydrationFailsStep, CloseStep, RestartStep DEF Next
<1> QED BY <1>1, <1>2

\* Every variable of the index and of its registry keeps its type.
THEOREM SearchTypes == Spec => []TypeOK
<1>1. SearchInv => TypeOK
  BY DEF SearchInv
<1>2. SearchInv /\ [Next]_vars => SearchInv'
  BY SearchStep
<1> QED BY <1>1, <1>2, SearchInit, PTL DEF Spec

\* No query of the search index stays parked on a version that is applied or has failed,
\* through hydration, queued and lost writes, teardown and restarts.
THEOREM QueriesNotMissed == Spec => []NoWaiterMissed
<1>1. SearchInv => NoWaiterMissed
  BY DEF SearchInv
<1>2. SearchInv /\ [Next]_vars => SearchInv'
  BY SearchStep
<1> QED BY <1>1, <1>2, SearchInit, PTL DEF Spec

\* The index is a DerivedIndex: its documents are those of one version, which only grows,
\* and a gated read that is answered "ok" reads documents at least as new as its token.
\* So a delta from lastIndexedVersion is enough, although that number is per process and the
\* documents may be further (scheduleReindex of wiki.ts, SqlSearchIndex.search).
THEOREM IndexIsDerived == Spec => ImplementsDerivedIndex
<1>1. Init => Promise!Init
  BY DEF Init, RegistryInit, Promise!Init, Asked, Answered
<1>2. SearchInv /\ [Next]_vars => SearchInv' /\ [Promise!Next]_(Promise!vars)
  BY SearchStep DEF Refined
<1> QED BY <1>1, <1>2, SearchInit, PTL DEF Spec, ImplementsDerivedIndex, Promise!Spec

=============================================================================
