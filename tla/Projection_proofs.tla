------------------------- MODULE Projection_proofs -------------------------
(***************************************************************************)
(* What the MCP host serves as long as no two projections of the workspace   *)
(* have overlapped: own writes are read, a tail at rest has projected         *)
(* everything, and the offset of the search index is honest.  After an        *)
(* overlap nothing of this is claimed: a reload can then be lost.             *)
(***************************************************************************)
EXTENDS Projection, TLAPS, WellFoundedInduction

HasRead(r) == work[r] \in {"read", "folded", "applied", "writing"}

\* Which closures are at work, whether or not projections have overlapped: those that are
\* subscribed, and those that a stopped tail left behind.
Closures ==
  /\ live => reload = "no"
  /\ ~live => subs = {} /\ entry = None /\ \A r \in Runners : work[r] = "free" \/ r \in stopped
  /\ entry # None => entry \in subs
  /\ subs \cap stopped = {} /\ again \subseteq subs
  /\ \A r \in Runners : /\ r \in subs <=> work[r] = "idle" \/ (Working(r) /\ r \notin stopped)
                        /\ r \in stopped => Working(r) \/ work[r] = "subscribing"
  /\ work[Reprojector] = "free" \/ (Working(Reprojector) /\ reload = "projecting")

\* Nothing is ahead of what the handle holds while it is open, or of the stream.
Behind ==
  /\ offset \in {-1, rows}
  /\ rows <= head /\ \A r \in All : upto[r] <= head
  /\ held # 0 => rows <= held /\ \A r \in All : upto[r] <= held

\* One projection at a time.
Alone ==
  /\ \A q, r \in All : Working(q) /\ Working(r) => q = r
  /\ live \/ reload \in {"listed", "projecting"} => \A r \in stopped : ~Working(r)

\* What the projection at work has read is still so.
ReadStillHolds(r) ==
  /\ HasRead(r) =>
       /\ rows <= upto[r] /\ 1 <= upto[r] /\ types[r] = registry
       /\ live => held # 0 /\ (upto[r] = held \/ r \in again)
  /\ work[r] \in {"folded", "applied", "writing"} => already[r] <= upto[r]
  /\ work[r] \in {"applied", "writing"} => offset = upto[r]
  /\ work[r] = "writing" => seen[r] = indexed

ReadHolds == \A r \in All : ReadStillHolds(r)

IndexBehind == told \in {0, indexed} /\ indexed <= Greater(rows, 0)

TypesCurrent == live \/ reload = "projecting" => offset = -1 \/ rowTypes >= registry

RestIsHeld ==
  live /\ entry # None /\ Atwork = {} /\ ~behind =>
    held # 0 /\ offset = held /\ (failures = 0 => indexed = held)

DocsHonest == \A p \in Pages : docs[p] = LastChange(p, indexed)

ReleasedHonest == reading = "released" => rows >= token

RoomToReload == reload = "rebound" => registry < MaxReloads

ProjectionInv ==
  /\ TypeOK
  /\ RoomToReload
  /\ Closures
  /\ Behind
  /\ ~overlapped =>
       /\ Alone
       /\ ReadHolds
       /\ IndexBehind
       /\ TypesCurrent
       /\ RestIsHeld
       /\ DocsHonest
       /\ ReleasedHonest

-----------------------------------------------------------------------------
\* The bounds are numbers.
LEMMA Bounds ==
  /\ MaxCommits \in Nat \ {0} /\ MaxReloads \in Nat /\ MaxCrashes \in Nat /\ MaxFailures \in Nat
  /\ Change \in [1..MaxCommits -> Pages] /\ Reprojector \notin Runners /\ None \notin Runners
BY ProjectionConstants

\* A host that boots.
LEMMA InitEstablishes == Init => ProjectionInv
<1> SUFFICES ASSUME Init PROVE ProjectionInv
  OBVIOUS
<1> USE Bounds DEF Init, All, Working, Steps, HasRead
<1>1. TypeOK
  <2>1. docs \in [Pages -> Versions] /\ work \in [All -> Steps \cup {"free", "subscribing", "idle"}]
    BY DEF Versions
  <2>2. /\ upto \in [All -> Versions] /\ types \in [All -> 0..MaxReloads]
        /\ already \in [All -> Offsets] /\ seen \in [All -> Versions]
    BY DEF Versions, Offsets
  <2>3. /\ {live, serving, unsent, behind, overlapped} \subseteq BOOLEAN
    OBVIOUS
  <2>4. head \in 1..MaxCommits /\ held \in 0..head
    OBVIOUS
  <2>5. offset \in Offsets /\ rows \in Offsets /\ rowTypes \in 0..MaxReloads
    BY DEF Offsets
  <2>6. entry \in Runners \cup {None} /\ subs \subseteq Runners /\ again \subseteq Runners
          /\ stopped \subseteq Runners
    OBVIOUS
  <2>7. mark \in Versions /\ token \in Versions /\ reading \in {"no", "waiting", "released"}
          /\ indexed \in Versions /\ told \in Versions
    BY DEF Versions
  <2>8. reload \in {"no", "rebound", "listed", "projecting"} /\ registry \in 0..MaxReloads
          /\  crashes \in 0..MaxCrashes /\ failures \in 0..MaxFailures
    OBVIOUS
  <2> QED BY <2>1, <2>2 ,<2>3, <2>4,<2>5,<2>6,<2>7,<2>8 DEF TypeOK
<1>2. Closures
  BY DEF Closures
<1>3. Behind
  BY DEF Behind
<1>4. Alone /\ ReadHolds
  BY DEF Alone, ReadHolds, ReadStillHolds
<1>5. IndexBehind /\ TypesCurrent /\ RestIsHeld
  BY DEF IndexBehind, TypesCurrent, RestIsHeld, Greater
<1>6. \A p \in Pages : docs[p] = LastChange(p, indexed)
  BY DEF LastChange
<1> QED BY <1>1, <1>2, <1>3, <1>4, <1>5, <1>6 DEF ProjectionInv, RoomToReload, DocsHonest, ReleasedHonest

-----------------------------------------------------------------------------
(* The last change of a page.                                               *)

Less == {x \in Nat \X Nat : x[1] < x[2]}

LEMMA LessWF == IsWellFoundedOn(Less, Nat)
BY NatLessThanWellFounded DEF OpToRel, Less

\* A set of numbers has a least one.
LEMMA Least == ASSUME NEW T \in SUBSET Nat, T # {} PROVE \E m \in T : \A n \in T : m <= n
<1>1. PICK m \in T : \A y \in T : <<y, m>> \notin Less
  BY LessWF, WFMin
<1>2. ASSUME NEW n \in T PROVE m <= n
  <2>1. m \in Nat /\ n \in Nat /\ ~(n < m)
    BY <1>1 DEF Less
  <2> QED BY <2>1
<1> QED BY <1>2

\* A bounded set of numbers has a greatest one.
LEMMA Greatest ==
  ASSUME NEW v \in Nat, NEW T \in SUBSET (0..v), T # {} PROVE \E m \in T : \A n \in T : n <= m
<1> DEFINE U == {u \in Nat : \A n \in T : n <= u}
<1>1. v \in U
  OBVIOUS
<1>2. PICK m \in U : \A n \in U : m <= n
  BY <1>1, Least
<1>3. m \in T
  <2>1. SUFFICES ASSUME m \notin T PROVE FALSE
    OBVIOUS
  <2>2. m \in Nat /\ \A n \in T : n \in Nat /\ n < m
    BY <2>1
  <2>3. m - 1 \in Nat
    <3>1. PICK n \in T : TRUE
      OBVIOUS
    <3>2. n \in Nat /\ m \in Nat /\ n < m
      BY <2>2
    <3> QED BY <3>2
  <2>5. \A n \in T : n <= m - 1
    BY <2>2
  <2>4. m - 1 \in U
    BY <2>3, <2>5
  <2> HIDE DEF U
  <2> QED BY <1>2, <2>2, <2>4
<1> QED BY <1>2, <1>3

LEMMA LastChangeType == ASSUME NEW p, NEW v \in Versions PROVE LastChange(p, v) \in Versions
<1> DEFINE T == {n \in 1..v : Change[n] = p}
<1>1. CASE T = {}
  BY <1>1, Bounds DEF LastChange, Versions
<1>2. CASE T # {}
  <2>1. \E m \in T : \A n \in T : n <= m
    <3>1. v \in Nat /\ T \in SUBSET (0..v)
      BY Bounds DEF Versions
    <3> QED BY <3>1, <1>2, Greatest
  <2>2. LastChange(p, v) = CHOOSE m \in T : \A n \in T : n <= m
    BY <1>2 DEF LastChange
  <2>3. LastChange(p, v) \in T
    BY <2>1, <2>2
  <2> QED BY <2>3, Bounds DEF Versions
<1> QED BY <1>1, <1>2

Latest(T) == IF T = {} THEN 0 ELSE CHOOSE m \in T : \A n \in T : n <= m

\* A page no event between two versions changed was last changed at the same version.
LEMMA LastChangeKept ==
  ASSUME NEW p, NEW u \in Versions, NEW v \in Versions, u <= v, \A n \in (u + 1)..v : Change[n] # p
  PROVE  LastChange(p, v) = LastChange(p, u)
<1>1. u \in Nat /\ v \in Nat
  BY Bounds DEF Versions
<1>2. \A n \in 1..v : n \in 1..u \/ n \in (u + 1)..v
  BY <1>1
<1>3. 1..u \subseteq 1..v
  BY <1>1
<1>4. {n \in 1..v : Change[n] = p} = {n \in 1..u : Change[n] = p}
  BY <1>2, <1>3
<1>5. \A w : LastChange(p, w) = Latest({n \in 1..w : Change[n] = p})
  BY DEF LastChange, Latest
<1> QED BY <1>4, <1>5

-----------------------------------------------------------------------------
(* Types.                                                                   *)

Places == Steps \cup {"free", "subscribing", "idle"}

LEMMA OpenedType == ASSUME TypeOK PROVE Opened \in 1..head /\ Opened \in Versions
BY Bounds DEF TypeOK, Opened, Versions

LEMMA OverTypes ==
  ASSUME TypeOK, NEW r \in All, Over(r)
  PROVE  /\ work' \in [All -> Places] /\ again' \subseteq Runners /\ stopped' \subseteq Runners
         /\ upto' \in [All -> Versions] /\ types' \in [All -> 0..MaxReloads]
         /\ already' \in [All -> Offsets] /\ seen' \in [All -> Versions]
<1>1. work' \in [All -> Places] /\ again' \subseteq Runners /\ stopped' \subseteq Runners
  BY DEF TypeOK, Over, Places, Steps
<1>2. 0 \in Versions /\ 0 \in 0..MaxReloads /\ -1 \in Offsets
  BY Bounds DEF Versions, Offsets
<1>3. upto' \in [All -> Versions] /\ types' \in [All -> 0..MaxReloads]
  BY <1>2 DEF TypeOK, Over, Forgotten
<1>4. already' \in [All -> Offsets] /\ seen' \in [All -> Versions]
  BY <1>2 DEF TypeOK, Over, Forgotten
<1> QED BY <1>1, <1>3, <1>4

\* One step keeps the types.
LEMMA TypePreserved == TypeOK /\ RoomToReload /\ [Next]_vars => TypeOK'
<1> SUFFICES ASSUME TypeOK, RoomToReload, [Next]_vars PROVE TypeOK'
  OBVIOUS
<1> USE Bounds DEF sqlVars, indexVars, tailVars, runVars, sessionVars, reloadVars, boundVars
<1>1. CASE CommitElsewhere
  BY <1>1 DEF CommitElsewhere, TypeOK, Versions
<1>2. CASE Deliver
  BY <1>2 DEF Deliver, Scheduled, TypeOK, Steps, All
<1>3. CASE WriteTool
  BY <1>3 DEF WriteTool, Scheduled, TypeOK, Steps, All, Versions
<1>4. ASSUME NEW r \in Runners, BeginAttach(r) PROVE TypeOK'
  BY <1>4 DEF BeginAttach, TypeOK, All
<1>5. ASSUME NEW r \in Runners, FinishAttach(r) PROVE TypeOK'
  <2>1. work' \in [All -> Steps \cup {"free", "subscribing", "idle"}]
    BY <1>5 DEF FinishAttach, TypeOK, All, Steps
  <2>2. entry' \in Runners \cup {None} /\ subs' \subseteq Runners /\ stopped' \subseteq Runners
    BY <1>5 DEF FinishAttach, TypeOK
  <2>3. held' \in 0..head'
    BY <1>5, OpenedType DEF FinishAttach, TypeOK
  <2>4. serving' \in BOOLEAN /\ overlapped' \in BOOLEAN
    BY <1>5 DEF FinishAttach, TypeOK
  <2>5. UNCHANGED <<head, sqlVars, indexVars, live, again, upto, types, already, seen, unsent, sessionVars,
                    reloadVars, behind, boundVars>>
    BY <1>5 DEF FinishAttach
  <2> QED BY <2>1, <2>2, <2>3, <2>4, <2>5 DEF TypeOK
<1>6. CASE Notify
  BY <1>6 DEF Notify, Scheduled, TypeOK, Steps, All
<1>7. ASSUME NEW r \in All, Read(r) PROVE TypeOK'
  <2>1. work' \in [All -> Steps \cup {"free", "subscribing", "idle"}]
    BY <1>7 DEF Read, TypeOK, Steps
  <2>2. upto' \in [All -> Versions] /\ types' \in [All -> 0..MaxReloads]
    BY <1>7, OpenedType DEF Read, TypeOK
  <2>3. held' \in 0..head'
    BY <1>7, OpenedType DEF Read, TypeOK
  <2>5. behind' \in BOOLEAN
    BY <1>7 DEF Read
  <2>4. UNCHANGED <<head, sqlVars, indexVars, tailVars, again, stopped, already, seen, overlapped, unsent,
                    sessionVars, reloadVars, boundVars>>
    BY <1>7 DEF Read
  <2> QED BY <2>1, <2>2, <2>3, <2>4, <2>5 DEF TypeOK
<1>8. ASSUME NEW r \in All, ReadOffset(r) PROVE TypeOK'
  BY <1>8 DEF ReadOffset, TypeOK, Steps
<1>9. ASSUME NEW r \in All, Apply(r) PROVE TypeOK'
  BY <1>9 DEF Apply, TypeOK, Steps, Versions, Offsets
<1>10. ASSUME NEW r \in All, AskIndex(r) PROVE TypeOK'
  BY <1>10 DEF AskIndex, TypeOK, Steps
<1>11. ASSUME NEW r \in All, WriteIndex(r) PROVE TypeOK'
  <2>1. docs' \in [Pages -> Versions] /\ indexed' \in Versions /\ told' \in Versions
    <3>1. CASE Contiguous(r) \/ seen[r] < Version(r)
      <4>1. upto[r] \in Versions /\ already[r] \in Offsets /\ seen[r] \in Versions
        BY DEF TypeOK
      <4>2. Version(r) \in Versions
        BY <3>1, <4>1 DEF Contiguous, Version, Versions, Offsets, Greater
      <4>3. told' \in Versions /\ indexed' \in Versions
        BY <1>11, <3>1, <4>2 DEF WriteIndex, Greater, TypeOK
      <4>4. \A p \in Pages : LastChange(p, upto[r]) \in Versions /\ docs[p] \in Versions
        BY <4>1, LastChangeType DEF TypeOK
      <4>5. docs' = [p \in Pages |-> IF p \in (IF Contiguous(r) THEN ChangedSince(r) ELSE Pages)
                                    THEN LastChange(p, upto[r]) ELSE docs[p]]
        BY <1>11, <3>1 DEF WriteIndex
      <4> QED BY <4>3, <4>4, <4>5
    <3>2. CASE ~(Contiguous(r) \/ seen[r] < Version(r))
      BY <1>11, <3>2 DEF WriteIndex, TypeOK
    <3> QED BY <3>1, <3>2
  <2>2. Over(r) /\ UNCHANGED <<head, held, sqlVars, tailVars, overlapped, unsent, sessionVars,
                 reloadVars, behind, boundVars>>
    BY <1>11 DEF WriteIndex
  <2> QED BY <2>1, <2>2, OverTypes DEF TypeOK, Places
<1>12. ASSUME NEW r \in All, ApplyFails(r) \/ IndexFails(r) PROVE TypeOK'
  <2>1. Over(r) /\ UNCHANGED <<head, held, sqlVars, indexVars, tailVars, overlapped, unsent, sessionVars,
                               reloadVars, crashes>>
    BY <1>12 DEF ApplyFails, IndexFails
  <2>2. failures' \in 0..MaxFailures
    BY <1>12 DEF ApplyFails, IndexFails, TypeOK
  <2>3. behind' \in BOOLEAN
    BY <1>12 DEF ApplyFails, IndexFails, TypeOK
  <2> QED BY <2>1, <2>2, <2>3, OverTypes DEF TypeOK, Places
<1>13. CASE Rebind
  <2>1. work' \in [All -> Steps \cup {"free", "subscribing", "idle"}] /\ stopped' \subseteq Runners
    BY <1>13 DEF Rebind, TypeOK, Steps, All
  <2>2. held' \in 0..head' /\ again' \subseteq Runners /\ subs' \subseteq Runners
    BY <1>13 DEF Rebind, TypeOK
  <2>4. live' \in BOOLEAN
    BY <1>13 DEF Rebind
  <2>3. /\ entry' \in Runners \cup {None} /\ reload' \in {"no", "rebound", "listed", "projecting"}
        /\ UNCHANGED <<head, sqlVars, indexVars, serving, upto, types, already, seen, overlapped, unsent,
                       sessionVars, registry, behind, boundVars>>
    BY <1>13 DEF Rebind, TypeOK
  <2> QED BY <2>1, <2>2, <2>3, <2>4 DEF TypeOK
<1>14. CASE ListOffsets
  <2>1. work' \in [All -> Steps \cup {"free", "subscribing", "idle"}] /\ overlapped' \in BOOLEAN
    BY <1>14 DEF ListOffsets, TypeOK, Steps, All
  <2>2. /\ reload' \in {"no", "rebound", "listed", "projecting"}
        /\ UNCHANGED <<head, held, sqlVars, indexVars, tailVars, again, stopped, upto, types, already, seen,
                       unsent, sessionVars, behind, boundVars>>
    BY <1>14 DEF ListOffsets, TypeOK
  <2>3. registry' \in 0..MaxReloads
    BY <1>14 DEF ListOffsets, TypeOK, RoomToReload
  <2> QED BY <2>1, <2>2, <2>3 DEF TypeOK
<1>15. CASE ForgetOffset
  <2>1. work' \in [All -> Steps \cup {"free", "subscribing", "idle"}] /\ overlapped' \in BOOLEAN
    BY <1>15 DEF ForgetOffset, TypeOK, Steps, All
  <2>2. /\ reload' \in {"no", "rebound", "listed", "projecting"} /\ offset' \in Offsets
        /\ UNCHANGED <<head, held, rows, rowTypes, indexVars, tailVars, again, stopped, upto, types, already,
                       seen, unsent, sessionVars, registry, behind, boundVars>>
    BY <1>15 DEF ForgetOffset, TypeOK, Offsets
  <2> QED BY <2>1, <2>2 DEF TypeOK
<1>16. CASE StartTail
  BY <1>16 DEF StartTail, TypeOK
<1>17. CASE Restart
  <2>1. /\ work' \in [All -> Steps \cup {"free", "subscribing", "idle"}]
        /\ again' \subseteq Runners /\ stopped' \subseteq Runners
    BY <1>17 DEF Restart
  <2>2. /\ upto' \in [All -> Versions] /\ types' \in [All -> 0..MaxReloads]
        /\ already' \in [All -> Offsets] /\ seen' \in [All -> Versions]
    BY <1>17 DEF Restart, Versions, Offsets
  <2>3. /\ held' \in 0..head' /\ told' \in Versions /\ mark' \in Versions /\ token' \in Versions
        /\ registry' \in 0..MaxReloads /\ crashes' \in 0..MaxCrashes
    BY <1>17 DEF Restart, Versions, TypeOK
  <2>4. /\ live' \in BOOLEAN /\ serving' \in BOOLEAN /\ unsent' \in BOOLEAN /\ behind' \in BOOLEAN
        /\ entry' \in Runners \cup {None} /\ subs' \subseteq Runners
        /\ reading' \in {"no", "waiting", "released"} /\ reload' \in {"no", "rebound", "listed", "projecting"}
        /\ UNCHANGED <<head, sqlVars, docs, indexed, overlapped, failures>>
    BY <1>17 DEF Restart
  <2> QED BY <2>1, <2>2, <2>3, <2>4 DEF TypeOK
<1>18. CASE BeginRead \/ Release \/ EndRead
  <2>1. mark' \in Versions /\ token' \in Versions
    <3>1. mark \in Versions /\ token \in Versions /\ 0 \in Versions
      BY DEF TypeOK, Versions
    <3> QED BY <1>18, <3>1 DEF BeginRead, Release, EndRead
  <2>3. reading' \in {"no", "waiting", "released"}
    BY <1>18 DEF BeginRead, Release, EndRead
  <2>2. UNCHANGED <<head, held, sqlVars, indexVars, tailVars, runVars, unsent, reloadVars, behind, boundVars>>
    BY <1>18 DEF BeginRead, Release, EndRead
  <2> QED BY <2>1, <2>2, <2>3 DEF TypeOK
<1>19. CASE UNCHANGED vars
  BY <1>19 DEF vars, TypeOK
<1>20. CASE ListFails
  <2>1. registry' \in 0..MaxReloads /\ failures' \in 0..MaxFailures
    BY <1>20 DEF ListFails, TypeOK, RoomToReload
  <2>2. reload' \in {"no", "rebound", "listed", "projecting"} /\ overlapped' \in BOOLEAN
    BY <1>20 DEF ListFails, TypeOK
  <2>3. UNCHANGED <<head, held, sqlVars, indexVars, tailVars, work, again, stopped, upto, types, already, seen,
                    unsent, sessionVars, behind, crashes>>
    BY <1>20 DEF ListFails
  <2> QED BY <2>1, <2>2, <2>3 DEF TypeOK
<1>21. CASE ForgetFails
  <2>1. offset' \in Offsets /\ failures' \in 0..MaxFailures
    BY <1>21 DEF ForgetFails, TypeOK, Offsets
  <2>2. reload' \in {"no", "rebound", "listed", "projecting"}
    BY <1>21 DEF ForgetFails
  <2>3. UNCHANGED <<head, held, rows, rowTypes, indexVars, tailVars, runVars, unsent, sessionVars, registry,
                    behind, crashes>>
    BY <1>21 DEF ForgetFails
  <2> QED BY <2>1, <2>2, <2>3 DEF TypeOK
<1> QED BY <1>1, <1>2, <1>3, <1>4, <1>5, <1>6, <1>7, <1>8, <1>9, <1>10, <1>11, <1>12, <1>13, <1>14, <1>15,
           <1>16, <1>17, <1>18, <1>19, <1>20, <1>21 DEF Next

\* A projection that is over leaves its closure idle, starting again, or gone.
LEMMA OverKeepsClosures ==
  ASSUME TypeOK, Closures, NEW r \in All, Working(r), Over(r), UNCHANGED <<live, entry, subs, reload>>
  PROVE  Closures'
<1> USE Bounds DEF TypeOK, Closures, Working, Steps, All, Over
<1>1. /\ (live => reload = "no")' /\ (~live => subs = {} /\ entry = None)' /\ (entry # None => entry \in subs)'
      /\ (subs \cap stopped = {})' /\ (again \subseteq subs)'
  OBVIOUS
<1>2. ASSUME NEW q \in Runners
      PROVE  /\ q \in subs' <=> work'[q] = "idle" \/ (work'[q] \in Steps /\ q \notin stopped')
             /\ q \in stopped' => work'[q] \in Steps \/ work'[q] = "subscribing"
             /\ ~live => work'[q] = "free" \/ q \in stopped'
  <2>1. CASE q # r
    BY <2>1
  <2>2. CASE q = r /\ r \in again
    BY <2>2
  <2>3. CASE q = r /\ r \notin again
    BY <2>3
  <2> QED BY <2>1, <2>2, <2>3
<1>3. (work[Reprojector] = "free" \/ (Working(Reprojector) /\ reload = "projecting"))'
  OBVIOUS
<1> QED BY <1>1, <1>2, <1>3

\* Who is at work.
LEMMA ClosuresKept == TypeOK /\ Closures /\ [Next]_vars => Closures'
<1> SUFFICES ASSUME TypeOK, Closures, [Next]_vars PROVE Closures'
  OBVIOUS
<1> USE Bounds DEF sqlVars, indexVars, tailVars, runVars, sessionVars, reloadVars, boundVars, TypeOK,
        Closures, Working, Steps, All
<1>1. CASE CommitElsewhere
  BY <1>1 DEF CommitElsewhere
<1>2. CASE Deliver
  BY <1>2 DEF Deliver, Scheduled
<1>3. CASE WriteTool
  BY <1>3 DEF WriteTool, Scheduled
<1>4. ASSUME NEW r \in Runners, BeginAttach(r) PROVE Closures'
  BY <1>4 DEF BeginAttach
<1>5. ASSUME NEW r \in Runners, FinishAttach(r) PROVE Closures'
  <2>1. CASE r \in stopped
    BY <1>5, <2>1 DEF FinishAttach
  <2>2. CASE r \notin stopped
    <3>1. /\ work[r] = "subscribing" /\ r \notin subs /\ r # Reprojector
          /\ work' = [work EXCEPT ![r] = "starting"] /\ entry' = r /\ subs' = subs \cup {r}
      BY <1>5, <2>2 DEF FinishAttach
    <3>2. live
      BY <3>1, <2>2
    <3>3. UNCHANGED <<live, reload, stopped, again>>
      BY <1>5, <2>2 DEF FinishAttach
    <3>4. ASSUME NEW q \in Runners
          PROVE  /\ q \in subs' <=> work'[q] = "idle" \/ (work'[q] \in Steps /\ q \notin stopped')
                 /\ q \in stopped' => work'[q] \in Steps \/ work'[q] = "subscribing"
      <4>1. CASE q = r
        BY <4>1, <3>1, <3>3, <2>2
      <4>2. CASE q # r
        BY <4>2, <3>1, <3>3
      <4> QED BY <4>1, <4>2
    <3>5. entry' \in subs' /\ subs' \cap stopped' = {} /\ again' \subseteq subs'
      BY <3>1, <3>3, <2>2
    <3>6. live' /\ reload' = "no" /\ work'[Reprojector] = work[Reprojector]
      BY <3>1, <3>2, <3>3
    <3>7. /\ (live => reload = "no")' /\ (entry # None => entry \in subs)' /\ live'
          /\ (subs \cap stopped = {})' /\ (again \subseteq subs)'
      BY <3>3, <3>5, <3>6
    <3>8. (work[Reprojector] = "free" \/ (Working(Reprojector) /\ reload = "projecting"))'
      BY <3>3, <3>6
    <3> HIDE DEF TypeOK
    <3> QED BY <3>4, <3>7, <3>8
  <2> QED BY <2>1, <2>2
<1>6. CASE Notify
  <2>1. CASE live /\ entry # None
    <3>1. Scheduled({entry}) /\ UNCHANGED <<subs, stopped, live, reload, entry>>
      BY <1>6, <2>1 DEF Notify
    <3>2. entry \in subs /\ entry \notin stopped /\ Reprojector # entry
      BY <2>1
    <3> QED BY <3>1, <3>2 DEF Scheduled
  <2>2. CASE ~(live /\ entry # None)
    <3>1. UNCHANGED <<subs, stopped, live, reload, entry, again>>
      BY <1>6, <2>2 DEF Notify
    <3>2. CASE work' = work
      BY <3>1, <3>2
    <3>3. ASSUME NEW r \in Runners, live, work[r] = "free",
                 work' = [work EXCEPT ![r] = "subscribing"] PROVE Closures'
      BY <3>1, <3>3
    <3> QED BY <1>6, <2>2, <3>2, <3>3 DEF Notify
  <2> QED BY <2>1, <2>2
<1>7. ASSUME NEW r \in All, Read(r) PROVE Closures'
  BY <1>7 DEF Read, Opened
<1>8. ASSUME NEW r \in All, ReadOffset(r) PROVE Closures'
  BY <1>8 DEF ReadOffset
<1>9. ASSUME NEW r \in All, Apply(r) PROVE Closures'
  BY <1>9 DEF Apply
<1>10. ASSUME NEW r \in All, AskIndex(r) PROVE Closures'
  BY <1>10 DEF AskIndex
<1>11. ASSUME NEW r \in All, WriteIndex(r) PROVE Closures'
  <2>1. work[r] \in Steps /\ Over(r) /\ UNCHANGED <<live, entry, subs, reload>>
    BY <1>11 DEF WriteIndex
  <2> QED BY <2>1, OverKeepsClosures
<1>12. ASSUME NEW r \in All, ApplyFails(r) PROVE Closures'
  <2>1. work[r] \in Steps /\ Over(r) /\ UNCHANGED <<live, entry, subs, reload>>
    BY <1>12 DEF ApplyFails
  <2> QED BY <2>1, OverKeepsClosures
<1>13. ASSUME NEW r \in All, IndexFails(r) PROVE Closures'
  <2>1. work[r] \in Steps /\ Over(r) /\ UNCHANGED <<live, entry, subs, reload>>
    BY <1>13 DEF IndexFails
  <2> QED BY <2>1, OverKeepsClosures
<1>14. CASE Rebind
  BY <1>14 DEF Rebind
<1>15. CASE ListOffsets
  BY <1>15 DEF ListOffsets
<1>16. CASE ForgetOffset
  BY <1>16 DEF ForgetOffset
<1>17. CASE StartTail
  BY <1>17 DEF StartTail
<1>18. CASE Restart
  BY <1>18 DEF Restart
<1>19. CASE BeginRead \/ Release \/ EndRead
  BY <1>19 DEF BeginRead, Release, EndRead
<1>20. CASE UNCHANGED vars
  BY <1>20 DEF vars
<1>21. CASE ListFails
  BY <1>21 DEF ListFails
<1>22. CASE ForgetFails
  BY <1>22 DEF ForgetFails
<1> QED BY <1>1, <1>2, <1>3, <1>4, <1>5, <1>6, <1>7, <1>8, <1>9, <1>10, <1>11, <1>12, <1>13, <1>14, <1>15,
           <1>16, <1>17, <1>18, <1>19, <1>20, <1>21, <1>22 DEF Next

\* Nothing is ahead of what the handle holds.
LEMMA BehindKept == TypeOK /\ Closures /\ Behind /\ [Next]_vars => Behind'
<1> SUFFICES ASSUME TypeOK, Closures, Behind, [Next]_vars PROVE Behind'
  OBVIOUS
<1> USE Bounds DEF sqlVars, indexVars, tailVars, runVars, sessionVars, reloadVars, boundVars, TypeOK, Behind,
        Versions, Offsets
<1>1. CASE CommitElsewhere
  BY <1>1 DEF CommitElsewhere
<1>2. CASE Deliver
  BY <1>2 DEF Deliver, Scheduled
<1>3. CASE WriteTool
  BY <1>3 DEF WriteTool, Scheduled
<1>4. ASSUME NEW r \in Runners, BeginAttach(r) PROVE Behind'
  BY <1>4 DEF BeginAttach
<1>5. ASSUME NEW r \in Runners, FinishAttach(r) PROVE Behind'
  BY <1>5 DEF FinishAttach, Opened
<1>6. CASE Notify
  BY <1>6 DEF Notify, Scheduled
<1>7. ASSUME NEW r \in All, Read(r) PROVE Behind'
  BY <1>7 DEF Read, Opened
<1>8. ASSUME NEW r \in All, ReadOffset(r) PROVE Behind'
  BY <1>8 DEF ReadOffset
<1>9. ASSUME NEW r \in All, Apply(r) PROVE Behind'
  BY <1>9 DEF Apply
<1>10. ASSUME NEW r \in All, AskIndex(r) PROVE Behind'
  BY <1>10 DEF AskIndex
<1>11. ASSUME NEW r \in All, WriteIndex(r) PROVE Behind'
  BY <1>11 DEF WriteIndex, Over, Forgotten
<1>12. ASSUME NEW r \in All, ApplyFails(r) PROVE Behind'
  BY <1>12 DEF ApplyFails, Over, Forgotten
<1>13. ASSUME NEW r \in All, IndexFails(r) PROVE Behind'
  BY <1>13 DEF IndexFails, Over, Forgotten
<1>14. CASE Rebind
  BY <1>14 DEF Rebind
<1>15. CASE ListOffsets
  BY <1>15 DEF ListOffsets
<1>16. CASE ForgetOffset
  BY <1>16 DEF ForgetOffset
<1>17. CASE StartTail
  BY <1>17 DEF StartTail
<1>18. CASE Restart
  BY <1>18 DEF Restart
<1>19. CASE BeginRead \/ Release \/ EndRead
  BY <1>19 DEF BeginRead, Release, EndRead
<1>20. CASE UNCHANGED vars
  BY <1>20 DEF vars
<1>21. CASE ListFails
  BY <1>21 DEF ListFails
<1>22. CASE ForgetFails
  BY <1>22 DEF ForgetFails
<1> QED BY <1>1, <1>2, <1>3, <1>4, <1>5, <1>6, <1>7, <1>8, <1>9, <1>10, <1>11, <1>12, <1>13, <1>14, <1>15,
           <1>16, <1>17, <1>18, <1>19, <1>20, <1>21, <1>22 DEF Next

\* One projection at a time, until `overlapped' says so.
LEMMA AloneKept ==
  TypeOK /\ Closures /\ ~overlapped' /\ (~overlapped => Alone) /\ [Next]_vars => ~overlapped /\ Alone'
<1> SUFFICES ASSUME TypeOK, Closures, ~overlapped', (~overlapped => Alone),
                    [Next]_vars PROVE ~overlapped /\ Alone'
  OBVIOUS
<1> USE Bounds DEF sqlVars, indexVars, tailVars, runVars, sessionVars, reloadVars, boundVars, TypeOK,
        Closures, Alone, Working, Steps, Atwork, All
<1>1. CASE CommitElsewhere
  BY <1>1 DEF CommitElsewhere
<1>2. CASE Deliver
  BY <1>2 DEF Deliver, Scheduled
<1>3. CASE WriteTool
  BY <1>3 DEF WriteTool, Scheduled
<1>4. ASSUME NEW r \in Runners, BeginAttach(r) PROVE ~overlapped /\ Alone'
  BY <1>4 DEF BeginAttach
<1>5. ASSUME NEW r \in Runners, FinishAttach(r) PROVE ~overlapped /\ Alone'
  <2>1. CASE r \in stopped
    <3>1. /\ work' = [work EXCEPT ![r] = "free"] /\ stopped' \subseteq stopped
          /\ overlapped' = overlapped /\ reload' = reload /\ live' = live
      BY <1>5, <2>1 DEF FinishAttach
    <3>2. \A q \in All : work'[q] \in Steps => work[q] \in Steps
      BY <3>1
    <3> QED BY <3>1, <3>2
  <2>2. CASE r \notin stopped
    <3>0. overlapped' = (overlapped \/ Atwork # {})
      BY <1>5, <2>2 DEF FinishAttach
    <3>a. ~overlapped /\ \A q \in All : ~(work[q] \in Steps)
      BY <3>0
    <3>1. /\ ~overlapped /\ (\A q \in All : ~(work[q] \in Steps)) /\ work[r] = "subscribing"
          /\ work' = [work EXCEPT ![r] = "starting"] /\ stopped' = stopped
      BY <1>5, <2>2, <3>a DEF FinishAttach
    <3>2. \A q \in All : work'[q] \in Steps => q = r
      BY <3>1
    <3>3. \A q, p \in All : work'[q] \in Steps /\ work'[p] \in Steps => q = p
      BY <3>2
    <3>4. \A q \in stopped' : ~(work'[q] \in Steps)
      BY <3>1, <3>2, <2>2
    <3> QED BY <3>1, <3>3, <3>4
  <2> QED BY <2>1, <2>2
<1>6. CASE Notify
  <2>1. CASE live /\ entry # None
    <3>1. Scheduled({entry}) /\ UNCHANGED <<stopped, reload, live>>
      BY <1>6, <2>1 DEF Notify
    <3>2. entry \notin stopped
      BY <2>1
    <3>3. ~overlapped /\ \A q, p \in All : work'[q] \in Steps /\ work'[p] \in Steps => q = p
      BY <3>1 DEF Scheduled
    <3>4. \A q \in stopped : work'[q] \in Steps => work[q] \in Steps
      BY <3>1, <3>2 DEF Scheduled
    <3> QED BY <3>1, <3>3, <3>4
  <2>2. CASE ~(live /\ entry # None)
    <3>1. UNCHANGED <<stopped, reload, overlapped, live>>
      BY <1>6, <2>2 DEF Notify
    <3>2. \A q \in All : work'[q] \in Steps => work[q] \in Steps
      BY <1>6, <2>2 DEF Notify
    <3> QED BY <3>1, <3>2
  <2> QED BY <2>1, <2>2
<1>7. ASSUME NEW r \in All, Read(r) PROVE ~overlapped /\ Alone'
  BY <1>7 DEF Read, Opened
<1>8. ASSUME NEW r \in All, ReadOffset(r) PROVE ~overlapped /\ Alone'
  BY <1>8 DEF ReadOffset
<1>9. ASSUME NEW r \in All, Apply(r) PROVE ~overlapped /\ Alone'
  BY <1>9 DEF Apply
<1>10. ASSUME NEW r \in All, AskIndex(r) PROVE ~overlapped /\ Alone'
  BY <1>10 DEF AskIndex
<1>11. ASSUME NEW r \in All, WriteIndex(r) PROVE ~overlapped /\ Alone'
  <2>1. Over(r) /\ work[r] \in Steps /\ reload' = reload /\ overlapped' = overlapped
    BY <1>11 DEF WriteIndex
  <2>2. \A q \in All : work'[q] \in Steps => q = r \/ work[q] \in Steps
    BY <2>1 DEF Over
  <2>3. \A q \in All : work'[q] \in Steps => q = r
    BY <2>1, <2>2
  <2>4. \A q \in stopped' : ~(work'[q] \in Steps)
    BY <2>1, <2>3 DEF Over
  <2> QED BY <2>1, <2>3, <2>4
<1>12. ASSUME NEW r \in All, ApplyFails(r) PROVE ~overlapped /\ Alone'
  <2>1. Over(r) /\ work[r] \in Steps /\ reload' = reload /\ overlapped' = overlapped
    BY <1>12 DEF ApplyFails
  <2>2. \A q \in All : work'[q] \in Steps => q = r \/ work[q] \in Steps
    BY <2>1 DEF Over
  <2>3. \A q \in All : work'[q] \in Steps => q = r
    BY <2>1, <2>2
  <2>4. \A q \in stopped' : ~(work'[q] \in Steps)
    BY <2>1, <2>3 DEF Over
  <2> QED BY <2>1, <2>3, <2>4
<1>13. ASSUME NEW r \in All, IndexFails(r) PROVE ~overlapped /\ Alone'
  <2>1. Over(r) /\ work[r] \in Steps /\ reload' = reload /\ overlapped' = overlapped
    BY <1>13 DEF IndexFails
  <2>2. \A q \in All : work'[q] \in Steps => q = r \/ work[q] \in Steps
    BY <2>1 DEF Over
  <2>3. \A q \in All : work'[q] \in Steps => q = r
    BY <2>1, <2>2
  <2>4. \A q \in stopped' : ~(work'[q] \in Steps)
    BY <2>1, <2>3 DEF Over
  <2> QED BY <2>1, <2>3, <2>4
<1>14. CASE Rebind
  BY <1>14 DEF Rebind
<1>15. CASE ListOffsets
  BY <1>15 DEF ListOffsets
<1>16. CASE ForgetOffset
  BY <1>16 DEF ForgetOffset
<1>17. CASE StartTail
  BY <1>17 DEF StartTail
<1>18. CASE Restart
  BY <1>18 DEF Restart
<1>19. CASE BeginRead \/ Release \/ EndRead
  BY <1>19 DEF BeginRead, Release, EndRead
<1>20. CASE UNCHANGED vars
  BY <1>20 DEF vars
<1>21. CASE ListFails
  BY <1>21 DEF ListFails
<1>22. CASE ForgetFails
  BY <1>22 DEF ForgetFails
<1> QED BY <1>1, <1>2, <1>3, <1>4, <1>5, <1>6, <1>7, <1>8, <1>9, <1>10, <1>11, <1>12, <1>13, <1>14, <1>15,
           <1>16, <1>17, <1>18, <1>19, <1>20, <1>21, <1>22 DEF Next

LEMMA OneAtWork ==
  ASSUME Alone, NEW r \in All, NEW q \in All, work[r] \in Steps, q # r
  PROVE  work[q] \notin Steps
BY DEF Alone, Working

\* While the tail is live, what is at work is a subscribed closure.
LEMMA AtWorkIsSubscribed ==
  ASSUME Closures, Alone, live, NEW r \in All, work[r] \in Steps
  PROVE  r \in subs /\ r \in Runners /\ r \notin stopped
BY Bounds DEF Closures, Alone, Working, Steps, All

\* The rows never go back.
LEMMA RowsGrow == TypeOK /\ ReadHolds /\ [Next]_vars => rows' >= rows
<1> SUFFICES ASSUME TypeOK, ReadHolds, [Next]_vars PROVE rows' >= rows
  OBVIOUS
<1> USE Bounds DEF sqlVars, indexVars, tailVars, runVars, sessionVars, reloadVars, boundVars, TypeOK,
        ReadHolds, ReadStillHolds, HasRead, Versions, Offsets
<1>1. CASE CommitElsewhere
  BY <1>1 DEF CommitElsewhere
<1>2. CASE Deliver
  BY <1>2 DEF Deliver, Scheduled
<1>3. CASE WriteTool
  BY <1>3 DEF WriteTool, Scheduled
<1>4. ASSUME NEW r \in Runners, BeginAttach(r) PROVE rows' >= rows
  BY <1>4 DEF BeginAttach
<1>5. ASSUME NEW r \in Runners, FinishAttach(r) PROVE rows' >= rows
  BY <1>5 DEF FinishAttach, Opened
<1>6. CASE Notify
  BY <1>6 DEF Notify, Scheduled
<1>7. ASSUME NEW r \in All, Read(r) PROVE rows' >= rows
  BY <1>7 DEF Read, Opened
<1>8. ASSUME NEW r \in All, ReadOffset(r) PROVE rows' >= rows
  BY <1>8 DEF ReadOffset
<1>9. ASSUME NEW r \in All, Apply(r) PROVE rows' >= rows
  BY <1>9 DEF Apply
<1>10. ASSUME NEW r \in All, AskIndex(r) PROVE rows' >= rows
  BY <1>10 DEF AskIndex
<1>11. ASSUME NEW r \in All, WriteIndex(r) PROVE rows' >= rows
  BY <1>11 DEF WriteIndex, Over, Forgotten
<1>12. ASSUME NEW r \in All, ApplyFails(r) PROVE rows' >= rows
  BY <1>12 DEF ApplyFails, Over, Forgotten
<1>13. ASSUME NEW r \in All, IndexFails(r) PROVE rows' >= rows
  BY <1>13 DEF IndexFails, Over, Forgotten
<1>14. CASE Rebind
  BY <1>14 DEF Rebind
<1>15. CASE ListOffsets
  BY <1>15 DEF ListOffsets
<1>16. CASE ForgetOffset
  BY <1>16 DEF ForgetOffset
<1>17. CASE StartTail
  BY <1>17 DEF StartTail
<1>18. CASE Restart
  BY <1>18 DEF Restart
<1>19. CASE BeginRead \/ Release \/ EndRead
  BY <1>19 DEF BeginRead, Release, EndRead
<1>20. CASE UNCHANGED vars
  BY <1>20 DEF vars
<1>21. CASE ListFails
  BY <1>21 DEF ListFails
<1>22. CASE ForgetFails
  BY <1>22 DEF ForgetFails
<1> QED BY <1>1, <1>2, <1>3, <1>4, <1>5, <1>6, <1>7, <1>8, <1>9, <1>10, <1>11, <1>12, <1>13, <1>14, <1>15,
           <1>16, <1>17, <1>18, <1>19, <1>20, <1>21, <1>22 DEF Next

\* What a projection has read stays true under it.
LEMMA ReadHoldsKept ==
  TypeOK /\ Closures /\ Behind /\ Alone /\ Alone' /\ ~overlapped' /\ IndexBehind /\ ReadHolds
    /\ [Next]_vars => ReadHolds'
<1> SUFFICES ASSUME TypeOK, Closures, Behind, Alone, Alone', ~overlapped', IndexBehind, ReadHolds,
                    [Next]_vars, NEW q \in All PROVE ReadStillHolds(q)'
  BY DEF ReadHolds
<1> USE Bounds DEF sqlVars, indexVars, tailVars, runVars, sessionVars, reloadVars, boundVars, Steps, All,
        ReadStillHolds, HasRead
<1>0. ReadStillHolds(q)
  BY DEF ReadHolds
<1>a. /\ rows \in Int /\ rows <= head /\ head \in Nat /\ 1 <= head /\ held \in Nat /\ offset \in {-1, rows}
      /\ held # 0 => rows <= held
  BY DEF TypeOK, Behind, Versions, Offsets
<1>b. \A p \in All : upto[p] \in Nat /\ already[p] \in Int
  BY DEF TypeOK, Versions, Offsets
<1>c. /\ work \in [All -> Places] /\ DOMAIN upto = All /\ DOMAIN types = All /\ DOMAIN already = All
      /\ DOMAIN seen = All
  BY DEF TypeOK, Places
<1>d. indexed \in Nat /\ told \in {0, indexed}
  BY DEF TypeOK, IndexBehind, Versions
<1>1. CASE CommitElsewhere
  BY <1>1, <1>0, <1>a, <1>b, <1>c DEF CommitElsewhere
<1>2. CASE Deliver
  <2>1. Scheduled(subs)
          /\ UNCHANGED <<live, registry, rows, offset, indexed, upto, types, already, seen, stopped>>
    BY <1>2 DEF Deliver
  <2>2. HasRead(q)' => HasRead(q) /\ work'[q] = work[q]
    BY <2>1, <1>c DEF Scheduled
  <2>3. CASE live /\ HasRead(q)
    <3>1. q \in subs /\ q \notin stopped
      BY <2>3, AtWorkIsSubscribed
    <3>2. q \in again'
      BY <2>1, <2>3, <3>1 DEF Scheduled, Working
    <3>4. held' = head
      BY <1>2 DEF Deliver
    <3>3. held' # 0
      BY <3>4, <1>a
    <3> QED BY <1>0, <2>1, <2>2, <2>3, <3>2, <3>3
  <2>4. CASE ~(live /\ HasRead(q))
    BY <1>0, <2>1, <2>2, <2>4
  <2> QED BY <2>3, <2>4
<1>3. CASE WriteTool
  <2>1. Scheduled(subs)
          /\ UNCHANGED <<live, registry, rows, offset, indexed, upto, types, already, seen, stopped>>
    BY <1>3 DEF WriteTool
  <2>2. HasRead(q)' => HasRead(q) /\ work'[q] = work[q]
    BY <2>1, <1>c DEF Scheduled
  <2>3. CASE live /\ HasRead(q)
    <3>1. q \in subs /\ q \notin stopped
      BY <2>3, AtWorkIsSubscribed
    <3>2. q \in again'
      BY <2>1, <2>3, <3>1 DEF Scheduled, Working
    <3>4. held' = head + 1
      BY <1>3 DEF WriteTool
    <3>3. held' # 0
      BY <3>4, <1>a
    <3> QED BY <1>0, <2>1, <2>2, <2>3, <3>2, <3>3
  <2>4. CASE ~(live /\ HasRead(q))
    BY <1>0, <2>1, <2>2, <2>4
  <2> QED BY <2>3, <2>4
<1>4. ASSUME NEW r \in Runners, BeginAttach(r) PROVE ReadStillHolds(q)'
  BY <1>4, <1>0, <1>a, <1>b, <1>c DEF BeginAttach
<1>5. ASSUME NEW r \in Runners, FinishAttach(r) PROVE ReadStillHolds(q)'
  <2>1. UNCHANGED <<live, again, registry, rows, offset, indexed, upto, types, already, seen>> /\ held' = Opened
    BY <1>5 DEF FinishAttach
  <2>2. HasRead(q)' => HasRead(q) /\ work'[q] = work[q]
    BY <1>5, <1>c DEF FinishAttach
  <2> QED BY <1>0, <1>a, <2>1, <2>2 DEF Opened
<1>6. CASE Notify
  <2>1. UNCHANGED <<live, held, registry, rows, offset, indexed, upto, types, already, seen>>
          /\ again \subseteq again'
    BY <1>6 DEF Notify, Scheduled
  <2>2. HasRead(q)' => HasRead(q) /\ work'[q] = work[q]
    BY <1>6, <1>c DEF Notify, Scheduled
  <2> QED BY <1>0, <2>1, <2>2
<1>7. ASSUME NEW r \in All, Read(r) PROVE ReadStillHolds(q)'
  <2>1. CASE q # r
    <3>1. work[q] \notin Steps /\ work'[q] = work[q]
      BY <1>7, <1>c, <2>1, OneAtWork DEF Read
    <3>2. work'[q] \notin Steps
      BY <3>1
    <3> QED BY <3>2
  <2>2. CASE q = r
    <3>1. /\ work'[q] = "read" /\ upto'[q] = Opened /\ types'[q] = registry /\ held' = Opened
          /\ UNCHANGED <<rows, registry>>
      BY <1>7, <1>c, <2>2 DEF Read
    <3>2. Opened >= 1 /\ rows <= Opened
      BY <1>a DEF Opened
    <3> QED BY <3>1, <3>2, <1>a
  <2> QED BY <2>1, <2>2
<1>8. ASSUME NEW r \in All, ReadOffset(r) PROVE ReadStillHolds(q)'
  <2>1. CASE q # r
    <3>1. work[q] \notin Steps /\ work'[q] = work[q]
      BY <1>8, <1>c, <2>1, OneAtWork DEF ReadOffset
    <3>2. work'[q] \notin Steps
      BY <3>1
    <3> QED BY <3>2
  <2>2. CASE q = r
    <3>1. /\ work'[q] = (IF upto[q] <= offset THEN "applied" ELSE "folded") /\ already'[q] = offset
          /\ HasRead(q) /\ UNCHANGED <<upto, rows, offset, registry, live, held, again, types>>
      BY <1>8, <1>c, <2>2 DEF ReadOffset
    <3>2. offset <= upto[q] /\ (upto[q] <= offset => offset = upto[q])
      BY <3>1, <1>0, <1>a, <1>b
    <3>3. work'[q] \in {"applied", "folded"} /\ (work'[q] = "applied" => offset = upto[q])
      BY <3>1, <3>2
    <3> QED BY <3>1, <3>2, <3>3, <1>0
  <2> QED BY <2>1, <2>2
<1>9. ASSUME NEW r \in All, Apply(r) PROVE ReadStillHolds(q)'
  <2>1. CASE q # r
    <3>1. work[q] \notin Steps /\ work'[q] = work[q]
      BY <1>9, <1>c, <2>1, OneAtWork DEF Apply
    <3>2. work'[q] \notin Steps
      BY <3>1
    <3> QED BY <3>2
  <2>2. CASE q = r
    BY <1>9, <1>0, <1>a, <1>b, <1>c, <1>d, <2>2 DEF Apply
  <2> QED BY <2>1, <2>2
<1>10. ASSUME NEW r \in All, AskIndex(r) PROVE ReadStillHolds(q)'
  <2>1. CASE q # r
    <3>1. work[q] \notin Steps /\ work'[q] = work[q]
      BY <1>10, <1>c, <2>1, OneAtWork DEF AskIndex
    <3>2. work'[q] \notin Steps
      BY <3>1
    <3> QED BY <3>2
  <2>2. CASE q = r
    BY <1>10, <1>0, <1>a, <1>b, <1>c, <1>d, <2>2 DEF AskIndex
  <2> QED BY <2>1, <2>2
<1>11. ASSUME NEW r \in All, WriteIndex(r) PROVE ReadStillHolds(q)'
  <2>1. CASE q # r
    <3>1. work[q] \notin Steps /\ work'[q] = work[q]
      BY <1>11, <1>c, <2>1, OneAtWork DEF WriteIndex, Over
    <3>2. work'[q] \notin Steps
      BY <3>1
    <3> QED BY <3>2
  <2>2. CASE q = r
    <3>1. ~HasRead(q)'
      BY <1>11, <1>c, <2>2 DEF WriteIndex, Over
    <3> QED BY <3>1
  <2> QED BY <2>1, <2>2
<1>12. ASSUME NEW r \in All, ApplyFails(r) PROVE ReadStillHolds(q)'
  <2>1. CASE q # r
    <3>1. work[q] \notin Steps /\ work'[q] = work[q]
      BY <1>12, <1>c, <2>1, OneAtWork DEF ApplyFails, Over
    <3>2. work'[q] \notin Steps
      BY <3>1
    <3> QED BY <3>2
  <2>2. CASE q = r
    <3>1. ~HasRead(q)'
      BY <1>12, <1>c, <2>2 DEF ApplyFails, Over
    <3> QED BY <3>1
  <2> QED BY <2>1, <2>2
<1>13. ASSUME NEW r \in All, IndexFails(r) PROVE ReadStillHolds(q)'
  <2>1. CASE q # r
    <3>1. work[q] \notin Steps /\ work'[q] = work[q]
      BY <1>13, <1>c, <2>1, OneAtWork DEF IndexFails, Over
    <3>2. work'[q] \notin Steps
      BY <3>1
    <3> QED BY <3>2
  <2>2. CASE q = r
    <3>1. ~HasRead(q)'
      BY <1>13, <1>c, <2>2 DEF IndexFails, Over
    <3> QED BY <3>1
  <2> QED BY <2>1, <2>2
<1>14. CASE Rebind
  BY <1>14, <1>0, <1>a, <1>b, <1>c DEF Rebind
<1>15. CASE ListOffsets
  <2>1. \A p \in All : work[p] \notin Steps
    BY <1>15 DEF ListOffsets, Atwork, Working
  <2>2. ~HasRead(q)'
    BY <1>15, <1>c, <2>1 DEF ListOffsets
  <2> QED BY <2>2
<1>16. CASE ForgetOffset
  <2>1. \A p \in All : work[p] \notin Steps
    BY <1>16 DEF ForgetOffset, Atwork, Working
  <2>2. ~HasRead(q)'
    BY <1>16, <1>c, <2>1 DEF ForgetOffset
  <2> QED BY <2>2
<1>17. CASE StartTail
  <2>1. ~live /\ reload = "projecting" /\ work[Reprojector] = "free"
    BY <1>17 DEF StartTail, Closures
  <2>2. work[q] \notin Steps
    BY <2>1 DEF Closures, Alone, Working
  <2>3. ~HasRead(q)'
    BY <1>17, <2>2 DEF StartTail
  <2> QED BY <2>3
<1>18. CASE Restart
  BY <1>18, <1>0, <1>a, <1>b, <1>c DEF Restart
<1>19. CASE BeginRead \/ Release \/ EndRead
  BY <1>19, <1>0, <1>a, <1>b, <1>c DEF BeginRead, Release, EndRead
<1>20. CASE UNCHANGED vars
  BY <1>20, <1>0, <1>a, <1>b, <1>c DEF vars
<1>21. CASE ListFails
  <2>1. CASE registry' = registry
    BY <1>21, <2>1, <1>0, <1>a, <1>b, <1>c DEF ListFails
  <2>2. CASE registry' # registry
    <3>1. \A p \in All : work[p] \notin Steps
      BY <1>21, <2>2 DEF ListFails, Atwork, Working
    <3>2. ~HasRead(q)'
      BY <1>21, <3>1 DEF ListFails
    <3> QED BY <3>2
  <2> QED BY <2>1, <2>2
<1>22. CASE ForgetFails
  <2>1. ~live /\ work[q] \notin Steps
    BY <1>22 DEF ForgetFails, Closures, Alone, Working
  <2>2. ~HasRead(q)'
    BY <1>22, <2>1 DEF ForgetFails
  <2> QED BY <2>2
<1> QED BY <1>1, <1>2, <1>3, <1>4, <1>5, <1>6, <1>7, <1>8, <1>9, <1>10, <1>11, <1>12, <1>13, <1>14, <1>15,
           <1>16, <1>17, <1>18, <1>19, <1>20, <1>21, <1>22 DEF Next

\* A projection that writes the index writes it at the version of the rows.
LEMMA WritingFacts ==
  ASSUME TypeOK, Behind, ReadHolds, IndexBehind, NEW r \in All, work[r] = "writing"
  PROVE  /\ Version(r) = upto[r] /\ rows = upto[r] /\ offset = upto[r] /\ seen[r] = indexed
         /\ upto[r] \in Nat /\ upto[r] >= 1 /\ indexed \in Nat /\ indexed <= upto[r] /\ already[r] \in Int
         /\ upto[r] \in Versions /\ indexed \in Versions
<1>1. /\ upto[r] \in Nat /\ already[r] \in Int /\ rows \in Int /\ offset \in {-1, rows} /\ indexed \in Nat
      /\ upto[r] \in Versions /\ indexed \in Versions
  BY DEF TypeOK, Versions, Offsets, Behind
<1>2. upto[r] >= 1 /\ already[r] <= upto[r] /\ offset = upto[r] /\ seen[r] = indexed
  BY DEF ReadHolds, ReadStillHolds, HasRead
<1>3. rows = upto[r] /\ Version(r) = upto[r]
  BY <1>1, <1>2 DEF Version
<1>4. indexed <= upto[r]
  BY <1>1, <1>2, <1>3 DEF IndexBehind, Greater
<1> QED BY <1>1, <1>2, <1>3, <1>4

\* The index is never ahead of the rows, nor its registry of waiters of it.
LEMMA IndexBehindKept == TypeOK /\ Behind /\ ReadHolds /\ IndexBehind /\ [Next]_vars => IndexBehind'
<1> SUFFICES ASSUME TypeOK, Behind, ReadHolds, IndexBehind, [Next]_vars PROVE IndexBehind'
  OBVIOUS
<1> USE Bounds DEF sqlVars, indexVars, tailVars, runVars, sessionVars, reloadVars, boundVars, TypeOK,
        Versions, Offsets, IndexBehind, Behind, Greater, ReadHolds, ReadStillHolds, HasRead
<1>1. CASE CommitElsewhere
  BY <1>1 DEF CommitElsewhere
<1>2. CASE Deliver
  BY <1>2 DEF Deliver, Scheduled
<1>3. CASE WriteTool
  BY <1>3 DEF WriteTool, Scheduled
<1>4. ASSUME NEW r \in Runners, BeginAttach(r) PROVE IndexBehind'
  BY <1>4 DEF BeginAttach
<1>5. ASSUME NEW r \in Runners, FinishAttach(r) PROVE IndexBehind'
  BY <1>5 DEF FinishAttach, Opened
<1>6. CASE Notify
  BY <1>6 DEF Notify, Scheduled
<1>7. ASSUME NEW r \in All, Read(r) PROVE IndexBehind'
  BY <1>7 DEF Read, Opened
<1>8. ASSUME NEW r \in All, ReadOffset(r) PROVE IndexBehind'
  BY <1>8 DEF ReadOffset
<1>9. ASSUME NEW r \in All, Apply(r) PROVE IndexBehind'
  BY <1>9 DEF Apply
<1>10. ASSUME NEW r \in All, AskIndex(r) PROVE IndexBehind'
  BY <1>10 DEF AskIndex
<1>11. ASSUME NEW r \in All, WriteIndex(r) PROVE IndexBehind'
  <2>1. CASE Contiguous(r) \/ seen[r] < Version(r)
    <3>1. work[r] = "writing" /\ indexed' = Version(r) /\ told' = Greater(told, Version(r)) /\ rows' = rows
      BY <1>11, <2>1 DEF WriteIndex
    <3>2. /\ Version(r) = upto[r] /\ rows = upto[r] /\ upto[r] \in Nat /\ upto[r] >= 1
          /\ indexed \in Nat /\ indexed <= upto[r] /\ told \in {0, indexed}
      BY <3>1, WritingFacts
    <3>3. indexed' = upto[r] /\ told' = upto[r]
      BY <3>1, <3>2 DEF Greater
    <3> QED BY <3>1, <3>2, <3>3
  <2>2. CASE ~(Contiguous(r) \/ seen[r] < Version(r))
    BY <1>11, <2>2 DEF WriteIndex, IndexBehind, Greater
  <2> QED BY <2>1, <2>2
<1>12. ASSUME NEW r \in All, ApplyFails(r) PROVE IndexBehind'
  BY <1>12 DEF ApplyFails, Over, Forgotten
<1>13. ASSUME NEW r \in All, IndexFails(r) PROVE IndexBehind'
  BY <1>13 DEF IndexFails, Over, Forgotten
<1>14. CASE Rebind
  BY <1>14 DEF Rebind
<1>15. CASE ListOffsets
  BY <1>15 DEF ListOffsets
<1>16. CASE ForgetOffset
  BY <1>16 DEF ForgetOffset
<1>17. CASE StartTail
  BY <1>17 DEF StartTail
<1>18. CASE Restart
  BY <1>18 DEF Restart
<1>19. CASE BeginRead \/ Release \/ EndRead
  BY <1>19 DEF BeginRead, Release, EndRead
<1>20. CASE UNCHANGED vars
  BY <1>20 DEF vars
<1>21. CASE ListFails
  BY <1>21 DEF ListFails
<1>22. CASE ForgetFails
  BY <1>22 DEF ForgetFails
<1> QED BY <1>1, <1>2, <1>3, <1>4, <1>5, <1>6, <1>7, <1>8, <1>9, <1>10, <1>11, <1>12, <1>13, <1>14, <1>15,
           <1>16, <1>17, <1>18, <1>19, <1>20, <1>21, <1>22 DEF Next

\* The rows are of the current page types, or will be projected again.
LEMMA TypesCurrentKept == TypeOK /\ Closures /\ ReadHolds /\ TypesCurrent /\ [Next]_vars => TypesCurrent'
<1> SUFFICES ASSUME TypeOK, Closures, ReadHolds, TypesCurrent, [Next]_vars PROVE TypesCurrent'
  OBVIOUS
<1> USE Bounds DEF sqlVars, indexVars, tailVars, runVars, sessionVars, reloadVars, boundVars, TypeOK,
        ReadHolds, ReadStillHolds, HasRead, TypesCurrent
<1>1. CASE CommitElsewhere
  BY <1>1 DEF CommitElsewhere
<1>2. CASE Deliver
  BY <1>2 DEF Deliver, Scheduled
<1>3. CASE WriteTool
  BY <1>3 DEF WriteTool, Scheduled
<1>4. ASSUME NEW r \in Runners, BeginAttach(r) PROVE TypesCurrent'
  BY <1>4 DEF BeginAttach
<1>5. ASSUME NEW r \in Runners, FinishAttach(r) PROVE TypesCurrent'
  BY <1>5 DEF FinishAttach, Opened
<1>6. CASE Notify
  BY <1>6 DEF Notify, Scheduled
<1>7. ASSUME NEW r \in All, Read(r) PROVE TypesCurrent'
  BY <1>7 DEF Read, Opened
<1>8. ASSUME NEW r \in All, ReadOffset(r) PROVE TypesCurrent'
  BY <1>8 DEF ReadOffset
<1>9. ASSUME NEW r \in All, Apply(r) PROVE TypesCurrent'
  BY <1>9 DEF Apply
<1>10. ASSUME NEW r \in All, AskIndex(r) PROVE TypesCurrent'
  BY <1>10 DEF AskIndex
<1>11. ASSUME NEW r \in All, WriteIndex(r) PROVE TypesCurrent'
  BY <1>11 DEF WriteIndex, Over, Forgotten
<1>12. ASSUME NEW r \in All, ApplyFails(r) PROVE TypesCurrent'
  BY <1>12 DEF ApplyFails, Over, Forgotten
<1>13. ASSUME NEW r \in All, IndexFails(r) PROVE TypesCurrent'
  BY <1>13 DEF IndexFails, Over, Forgotten
<1>14. CASE Rebind
  BY <1>14 DEF Rebind
<1>15. CASE ListOffsets
  BY <1>15 DEF ListOffsets, Closures
<1>16. CASE ForgetOffset
  BY <1>16 DEF ForgetOffset, Closures
<1>17. CASE StartTail
  BY <1>17 DEF StartTail
<1>18. CASE Restart
  BY <1>18 DEF Restart
<1>19. CASE BeginRead \/ Release \/ EndRead
  BY <1>19 DEF BeginRead, Release, EndRead
<1>20. CASE UNCHANGED vars
  BY <1>20 DEF vars
<1>21. CASE ListFails
  BY <1>21 DEF ListFails, Closures
<1>22. CASE ForgetFails
  BY <1>22 DEF ForgetFails, Closures
<1> QED BY <1>1, <1>2, <1>3, <1>4, <1>5, <1>6, <1>7, <1>8, <1>9, <1>10, <1>11, <1>12, <1>13, <1>14, <1>15,
           <1>16, <1>17, <1>18, <1>19, <1>20, <1>21, <1>22 DEF Next

LEMMA ReleasedKept == TypeOK /\ Behind /\ ReadHolds /\ ReleasedHonest /\ [Next]_vars => ReleasedHonest'
<1> SUFFICES ASSUME TypeOK, Behind, ReadHolds, ReleasedHonest, [Next]_vars PROVE ReleasedHonest'
  OBVIOUS
<1> USE Bounds DEF sqlVars, indexVars, tailVars, runVars, sessionVars, reloadVars, boundVars, TypeOK, Behind,
        ReleasedHonest, Versions, Offsets
<1>0. rows' >= rows
  BY RowsGrow
<1>1. CASE CommitElsewhere
  BY <1>1, <1>0 DEF CommitElsewhere
<1>2. CASE Deliver
  BY <1>2, <1>0 DEF Deliver, Scheduled
<1>3. CASE WriteTool
  BY <1>3, <1>0 DEF WriteTool, Scheduled
<1>4. ASSUME NEW r \in Runners, BeginAttach(r) PROVE ReleasedHonest'
  BY <1>4, <1>0 DEF BeginAttach
<1>5. ASSUME NEW r \in Runners, FinishAttach(r) PROVE ReleasedHonest'
  BY <1>5, <1>0 DEF FinishAttach, Opened
<1>6. CASE Notify
  BY <1>6, <1>0 DEF Notify, Scheduled
<1>7. ASSUME NEW r \in All, Read(r) PROVE ReleasedHonest'
  BY <1>7, <1>0 DEF Read, Opened
<1>8. ASSUME NEW r \in All, ReadOffset(r) PROVE ReleasedHonest'
  BY <1>8, <1>0 DEF ReadOffset
<1>9. ASSUME NEW r \in All, Apply(r) PROVE ReleasedHonest'
  BY <1>9, <1>0 DEF Apply
<1>10. ASSUME NEW r \in All, AskIndex(r) PROVE ReleasedHonest'
  BY <1>10, <1>0 DEF AskIndex
<1>11. ASSUME NEW r \in All, WriteIndex(r) PROVE ReleasedHonest'
  BY <1>11, <1>0 DEF WriteIndex, Over, Forgotten
<1>12. ASSUME NEW r \in All, ApplyFails(r) PROVE ReleasedHonest'
  BY <1>12, <1>0 DEF ApplyFails, Over, Forgotten
<1>13. ASSUME NEW r \in All, IndexFails(r) PROVE ReleasedHonest'
  BY <1>13, <1>0 DEF IndexFails, Over, Forgotten
<1>14. CASE Rebind
  BY <1>14, <1>0 DEF Rebind
<1>15. CASE ListOffsets
  BY <1>15, <1>0 DEF ListOffsets
<1>16. CASE ForgetOffset
  BY <1>16, <1>0 DEF ForgetOffset
<1>17. CASE StartTail
  BY <1>17, <1>0 DEF StartTail
<1>18. CASE Restart
  BY <1>18, <1>0 DEF Restart
<1>19. CASE BeginRead \/ Release \/ EndRead
  BY <1>19, <1>0 DEF BeginRead, Release, EndRead
<1>20. CASE UNCHANGED vars
  BY <1>20, <1>0 DEF vars
<1>21. CASE ListFails
  BY <1>21, <1>0 DEF ListFails
<1>22. CASE ForgetFails
  BY <1>22, <1>0 DEF ForgetFails
<1> QED BY <1>1, <1>2, <1>3, <1>4, <1>5, <1>6, <1>7, <1>8, <1>9, <1>10, <1>11, <1>12, <1>13, <1>14, <1>15,
           <1>16, <1>17, <1>18, <1>19, <1>20, <1>21, <1>22 DEF Next

LEMMA RoomKept == TypeOK /\ RoomToReload /\ [Next]_vars => RoomToReload'
<1> SUFFICES ASSUME TypeOK, RoomToReload, [Next]_vars PROVE RoomToReload'
  OBVIOUS
<1> USE Bounds DEF sqlVars, indexVars, tailVars, runVars, sessionVars, reloadVars, boundVars, RoomToReload
<1>1. CASE CommitElsewhere
  BY <1>1 DEF CommitElsewhere
<1>2. CASE Deliver
  BY <1>2 DEF Deliver, Scheduled
<1>3. CASE WriteTool
  BY <1>3 DEF WriteTool, Scheduled
<1>4. ASSUME NEW r \in Runners, BeginAttach(r) PROVE RoomToReload'
  BY <1>4 DEF BeginAttach
<1>5. ASSUME NEW r \in Runners, FinishAttach(r) PROVE RoomToReload'
  BY <1>5 DEF FinishAttach, Opened
<1>6. CASE Notify
  BY <1>6 DEF Notify, Scheduled
<1>7. ASSUME NEW r \in All, Read(r) PROVE RoomToReload'
  BY <1>7 DEF Read, Opened
<1>8. ASSUME NEW r \in All, ReadOffset(r) PROVE RoomToReload'
  BY <1>8 DEF ReadOffset
<1>9. ASSUME NEW r \in All, Apply(r) PROVE RoomToReload'
  BY <1>9 DEF Apply
<1>10. ASSUME NEW r \in All, AskIndex(r) PROVE RoomToReload'
  BY <1>10 DEF AskIndex
<1>11. ASSUME NEW r \in All, WriteIndex(r) PROVE RoomToReload'
  BY <1>11 DEF WriteIndex, Over, Forgotten
<1>12. ASSUME NEW r \in All, ApplyFails(r) PROVE RoomToReload'
  BY <1>12 DEF ApplyFails, Over, Forgotten
<1>13. ASSUME NEW r \in All, IndexFails(r) PROVE RoomToReload'
  BY <1>13 DEF IndexFails, Over, Forgotten
<1>14. CASE Rebind
  BY <1>14 DEF Rebind
<1>15. CASE ListOffsets
  BY <1>15 DEF ListOffsets
<1>16. CASE ForgetOffset
  BY <1>16 DEF ForgetOffset
<1>17. CASE StartTail
  BY <1>17 DEF StartTail
<1>18. CASE Restart
  BY <1>18 DEF Restart
<1>19. CASE BeginRead \/ Release \/ EndRead
  BY <1>19 DEF BeginRead, Release, EndRead
<1>20. CASE UNCHANGED vars
  BY <1>20 DEF vars
<1>21. CASE ListFails
  BY <1>21 DEF ListFails
<1>22. CASE ForgetFails
  BY <1>22 DEF ForgetFails
<1> QED BY <1>1, <1>2, <1>3, <1>4, <1>5, <1>6, <1>7, <1>8, <1>9, <1>10, <1>11, <1>12, <1>13, <1>14, <1>15,
           <1>16, <1>17, <1>18, <1>19, <1>20, <1>21, <1>22 DEF Next

\* Both ways to write the index leave it honest.
LEMMA DocsHonestKept == TypeOK /\ Behind /\ ReadHolds /\ IndexBehind /\ DocsHonest /\ [Next]_vars => DocsHonest'
<1> SUFFICES ASSUME TypeOK, Behind, ReadHolds, IndexBehind, DocsHonest, [Next]_vars PROVE DocsHonest'
  OBVIOUS
<1> USE Bounds DEF sqlVars, indexVars, tailVars, runVars, sessionVars, reloadVars, boundVars, DocsHonest
<1>1. CASE CommitElsewhere
  BY <1>1 DEF CommitElsewhere
<1>2. CASE Deliver
  BY <1>2 DEF Deliver, Scheduled
<1>3. CASE WriteTool
  BY <1>3 DEF WriteTool, Scheduled
<1>4. ASSUME NEW r \in Runners, BeginAttach(r) PROVE DocsHonest'
  BY <1>4 DEF BeginAttach
<1>5. ASSUME NEW r \in Runners, FinishAttach(r) PROVE DocsHonest'
  BY <1>5 DEF FinishAttach, Opened
<1>6. CASE Notify
  BY <1>6 DEF Notify, Scheduled
<1>7. ASSUME NEW r \in All, Read(r) PROVE DocsHonest'
  BY <1>7 DEF Read, Opened
<1>8. ASSUME NEW r \in All, ReadOffset(r) PROVE DocsHonest'
  BY <1>8 DEF ReadOffset
<1>9. ASSUME NEW r \in All, Apply(r) PROVE DocsHonest'
  BY <1>9 DEF Apply
<1>10. ASSUME NEW r \in All, AskIndex(r) PROVE DocsHonest'
  BY <1>10 DEF AskIndex
<1>11. ASSUME NEW r \in All, WriteIndex(r) PROVE DocsHonest'
  <2> DEFINE written == IF Contiguous(r) THEN ChangedSince(r) ELSE Pages
  <2>1. CASE Contiguous(r) \/ seen[r] < Version(r)
    <3>1. /\ work[r] = "writing" /\ indexed' = Version(r)
          /\ docs' = [p \in Pages |-> IF p \in written THEN LastChange(p, upto[r]) ELSE docs[p]]
      BY <1>11, <2>1 DEF WriteIndex
    <3>2. /\ Version(r) = upto[r] /\ upto[r] \in Versions /\ indexed \in Versions /\ indexed <= upto[r]
          /\ seen[r] = indexed /\ already[r] \in Int
      BY <3>1, WritingFacts
    <3>3. SUFFICES ASSUME NEW p \in Pages PROVE docs'[p] = LastChange(p, upto[r])
      BY <3>1, <3>2
    <3>4. CASE p \in written
      BY <3>1, <3>4
    <3>5. CASE p \notin written
      <4>1. Contiguous(r) /\ p \notin ChangedSince(r)
        BY <3>5
      <4>2. indexed >= Greater(already[r], 0)
        BY <4>1, <3>2 DEF Contiguous
      <4>3. \A n \in (indexed + 1)..upto[r] : n \in (Greater(already[r], 0) + 1)..upto[r]
        BY <4>2, <3>2 DEF Greater, Versions
      <4>4. \A n \in (indexed + 1)..upto[r] : Change[n] # p
        BY <4>1, <4>3 DEF ChangedSince
      <4>5. LastChange(p, upto[r]) = LastChange(p, indexed)
        BY <4>4, <3>2, LastChangeKept
      <4> QED BY <4>5, <3>1, <3>5 DEF DocsHonest
    <3> QED BY <3>4, <3>5
  <2>2. CASE ~(Contiguous(r) \/ seen[r] < Version(r))
    BY <1>11, <2>2 DEF WriteIndex
  <2> QED BY <2>1, <2>2
<1>12. ASSUME NEW r \in All, ApplyFails(r) PROVE DocsHonest'
  BY <1>12 DEF ApplyFails, Over, Forgotten
<1>13. ASSUME NEW r \in All, IndexFails(r) PROVE DocsHonest'
  BY <1>13 DEF IndexFails, Over, Forgotten
<1>14. CASE Rebind
  BY <1>14 DEF Rebind
<1>15. CASE ListOffsets
  BY <1>15 DEF ListOffsets
<1>16. CASE ForgetOffset
  BY <1>16 DEF ForgetOffset
<1>17. CASE StartTail
  BY <1>17 DEF StartTail
<1>18. CASE Restart
  BY <1>18 DEF Restart
<1>19. CASE BeginRead \/ Release \/ EndRead
  BY <1>19 DEF BeginRead, Release, EndRead
<1>20. CASE UNCHANGED vars
  BY <1>20 DEF vars
<1>21. CASE ListFails
  BY <1>21 DEF ListFails
<1>22. CASE ForgetFails
  BY <1>22 DEF ForgetFails
<1> QED BY <1>1, <1>2, <1>3, <1>4, <1>5, <1>6, <1>7, <1>8, <1>9, <1>10, <1>11, <1>12, <1>13, <1>14, <1>15,
           <1>16, <1>17, <1>18, <1>19, <1>20, <1>21, <1>22 DEF Next

\* A closure that is told of an event works.
LEMMA EntryWorks ==
  ASSUME TypeOK, Closures, live, entry # None, NEW S, entry \in S, Scheduled(S)
  PROVE  Atwork' # {}
<1>1. entry \in All /\ (work[entry] = "idle" \/ work[entry] \in Steps)
  BY DEF Closures, TypeOK, All, Working
<1>2. work'[entry] \in Steps
  BY <1>1 DEF Scheduled, Steps
<1> QED BY <1>1, <1>2 DEF Atwork, Working

\* A projection that was asked again is at work again.
LEMMA OverRepeats ==
  ASSUME TypeOK, NEW r \in All, r \in again, Over(r)
  PROVE  Atwork' # {}
<1>1. work'[r] = "starting"
  BY DEF Over, TypeOK
<1> QED BY <1>1 DEF Atwork, Working, Steps

\* A tail that comes to rest has projected what the handle holds.
LEMMA RestIsHeldKept ==
  TypeOK /\ Closures /\ Behind /\ Alone /\ ReadHolds /\ IndexBehind /\ RestIsHeld
    /\ [Next]_vars => RestIsHeld'
<1> SUFFICES ASSUME TypeOK, Closures, Behind, Alone, ReadHolds, IndexBehind, RestIsHeld,
                    [Next]_vars PROVE RestIsHeld'
  OBVIOUS
<1> USE Bounds DEF sqlVars, indexVars, tailVars, runVars, sessionVars, reloadVars, boundVars
<1>1. CASE CommitElsewhere
  BY <1>1 DEF CommitElsewhere, RestIsHeld, Atwork, Working
<1>2. CASE Deliver
  <2>1. Scheduled(subs) /\ entry' = entry /\ live' = live
    BY <1>2 DEF Deliver
  <2>2. SUFFICES ASSUME live, entry # None PROVE Atwork' # {}
    BY <2>1 DEF RestIsHeld
  <2>3. entry \in subs
    BY <2>2 DEF Closures
  <2> QED BY <2>1, <2>2, <2>3, EntryWorks
<1>3. CASE WriteTool
  <2>1. Scheduled(subs) /\ entry' = entry /\ live' = live
    BY <1>3 DEF WriteTool
  <2>2. SUFFICES ASSUME live, entry # None PROVE Atwork' # {}
    BY <2>1 DEF RestIsHeld
  <2>3. entry \in subs
    BY <2>2 DEF Closures
  <2> QED BY <2>1, <2>2, <2>3, EntryWorks
<1>4. ASSUME NEW r \in Runners, BeginAttach(r) PROVE RestIsHeld'
  <2>1. entry' = entry /\ live' = live /\ entry = None
    BY <1>4 DEF BeginAttach
  <2> QED BY <2>1 DEF RestIsHeld
<1>5. ASSUME NEW r \in Runners, FinishAttach(r) PROVE RestIsHeld'
  <2>1. CASE r \in stopped
    <3>1. /\ work' = [work EXCEPT ![r] = "free"] /\ held' = Opened
          /\ UNCHANGED <<live, entry, behind, offset, failures, indexed>>
      BY <1>5, <2>1 DEF FinishAttach
    <3>2. Atwork' = {} => Atwork = {}
      BY <1>5, <3>1 DEF Atwork, Working, FinishAttach, TypeOK, Steps
    <3> QED BY <3>1, <3>2 DEF RestIsHeld, Opened
  <2>2. CASE r \notin stopped
    <3>1. work'[r] \in Steps
      BY <1>5, <2>2 DEF FinishAttach, TypeOK, Steps, All
    <3> QED BY <3>1 DEF RestIsHeld, Atwork, Working, All
  <2> QED BY <2>1, <2>2
<1>6. CASE Notify
  <2>1. CASE live /\ entry # None
    <3>1. Scheduled({entry}) /\ entry' = entry /\ live' = live
      BY <1>6, <2>1 DEF Notify
    <3> QED BY <2>1, <3>1, EntryWorks DEF RestIsHeld
  <2>2. CASE ~(live /\ entry # None)
    BY <1>6, <2>2 DEF Notify, RestIsHeld
  <2> QED BY <2>1, <2>2
<1>7. ASSUME NEW r \in All, Read(r) PROVE RestIsHeld'
  <2>1. work'[r] \in Steps
    BY <1>7 DEF TypeOK, Steps, Read
  <2> QED BY <2>1 DEF RestIsHeld, Atwork, Working
<1>8. ASSUME NEW r \in All, ReadOffset(r) PROVE RestIsHeld'
  <2>1. work'[r] \in Steps
    BY <1>8 DEF TypeOK, Steps, ReadOffset
  <2> QED BY <2>1 DEF RestIsHeld, Atwork, Working
<1>9. ASSUME NEW r \in All, Apply(r) PROVE RestIsHeld'
  <2>1. work'[r] \in Steps
    BY <1>9 DEF TypeOK, Steps, Apply
  <2> QED BY <2>1 DEF RestIsHeld, Atwork, Working
<1>10. ASSUME NEW r \in All, AskIndex(r) PROVE RestIsHeld'
  <2>1. work'[r] \in Steps
    BY <1>10 DEF TypeOK, Steps, AskIndex
  <2> QED BY <2>1 DEF RestIsHeld, Atwork, Working
<1>11. ASSUME NEW r \in All, WriteIndex(r) PROVE RestIsHeld'
  <2>1. work[r] = "writing" /\ Over(r) /\ UNCHANGED <<held, live, entry, offset>>
    BY <1>11 DEF WriteIndex
  <2>2. SUFFICES ASSUME live, entry # None, Atwork' = {} PROVE held # 0 /\ offset = held /\ indexed' = held
    BY <2>1 DEF RestIsHeld
  <2>3. r \notin again
    BY <2>1, <2>2, OverRepeats
  <2>4. held # 0 /\ upto[r] = held
    BY <2>1, <2>2, <2>3 DEF ReadHolds, ReadStillHolds, HasRead
  <2>5. offset = upto[r] /\ Version(r) = upto[r] /\ indexed <= upto[r] /\ seen[r] = indexed
          /\ indexed \in Nat /\ upto[r] \in Nat
    BY <2>1, WritingFacts
  <2>6. indexed' = upto[r]
    BY <1>11, <2>5 DEF WriteIndex
  <2> QED BY <2>4, <2>5, <2>6
<1>12. ASSUME NEW r \in All, ApplyFails(r) PROVE RestIsHeld'
  <2>1. Over(r) /\ behind' = (r \notin again) /\ work[r] \in Steps
    BY <1>12 DEF ApplyFails, Steps
  <2>2. CASE r \in again
    BY <2>1, <2>2, OverRepeats DEF RestIsHeld
  <2>3. CASE r \notin again
    BY <2>1, <2>3 DEF RestIsHeld
  <2> QED BY <2>2, <2>3
<1>13. ASSUME NEW r \in All, IndexFails(r) PROVE RestIsHeld'
  <2>1. work[r] = "writing" /\ Over(r) /\ UNCHANGED <<held, live, entry, offset>>
    BY <1>13 DEF IndexFails
  <2>2. SUFFICES ASSUME live, entry # None, Atwork' = {} PROVE held # 0 /\ offset = held /\ failures' # 0
    BY <2>1 DEF RestIsHeld
  <2>3. r \notin again
    BY <2>1, <2>2, OverRepeats
  <2>4. held # 0 /\ upto[r] = held
    BY <2>1, <2>2, <2>3 DEF ReadHolds, ReadStillHolds, HasRead
  <2>5. offset = upto[r] /\ Version(r) = upto[r] /\ indexed <= upto[r] /\ seen[r] = indexed
          /\ indexed \in Nat /\ upto[r] \in Nat
    BY <2>1, WritingFacts
  <2>6. failures' # 0
    <3>1. failures \in Nat /\ failures' = failures + 1
      BY <1>13 DEF IndexFails, TypeOK
    <3> QED BY <3>1
  <2> QED BY <2>4, <2>5, <2>6
<1>14. CASE Rebind
  <2>1. ~live' \/ entry' = None
    BY <1>14 DEF Rebind, Closures
  <2> QED BY <2>1 DEF RestIsHeld
<1>15. CASE ListOffsets
  <2>1. ~live' \/ entry' = None
    BY <1>15 DEF ListOffsets, Closures
  <2> QED BY <2>1 DEF RestIsHeld
<1>16. CASE ForgetOffset
  <2>1. ~live' \/ entry' = None
    BY <1>16 DEF ForgetOffset, Closures
  <2> QED BY <2>1 DEF RestIsHeld
<1>17. CASE StartTail
  <2>1. ~live' \/ entry' = None
    BY <1>17 DEF StartTail, Closures
  <2> QED BY <2>1 DEF RestIsHeld
<1>18. CASE Restart
  <2>1. ~live' \/ entry' = None
    BY <1>18 DEF Restart, Closures
  <2> QED BY <2>1 DEF RestIsHeld
<1>19. CASE BeginRead \/ Release \/ EndRead
  BY <1>19 DEF BeginRead, Release, EndRead, RestIsHeld, Atwork, Working
<1>20. CASE UNCHANGED vars
  BY <1>20 DEF vars, RestIsHeld, Atwork, Working
<1>21. CASE ListFails
  <2>1. ~live'
    BY <1>21 DEF ListFails, Closures
  <2> QED BY <2>1 DEF RestIsHeld
<1>22. CASE ForgetFails
  <2>1. ~live'
    BY <1>22 DEF ForgetFails, Closures
  <2> QED BY <2>1 DEF RestIsHeld
<1> QED BY <1>1, <1>2, <1>3, <1>4, <1>5, <1>6, <1>7, <1>8, <1>9, <1>10, <1>11, <1>12, <1>13, <1>14, <1>15,
           <1>16, <1>17, <1>18, <1>19, <1>20, <1>21, <1>22 DEF Next

-----------------------------------------------------------------------------
(* Theorems.                                                                *)

\* ProjectionInv is inductive.
LEMMA Invariant == Spec => []ProjectionInv
<1>1. ASSUME ProjectionInv, [Next]_vars PROVE ProjectionInv'
  <2>1. TypeOK' /\ Closures' /\ Behind' /\ RoomToReload'
    BY <1>1, TypePreserved, ClosuresKept, BehindKept, RoomKept DEF ProjectionInv
  <2>2. ASSUME ~overlapped'
        PROVE  Alone' /\ ReadHolds' /\ IndexBehind' /\ TypesCurrent' /\ RestIsHeld' /\ DocsHonest' /\ ReleasedHonest'
    <3>1. ~overlapped /\ Alone'
      BY <1>1, <2>2, AloneKept DEF ProjectionInv
    <3>2. ReadHolds'
      BY <1>1, <2>2, <3>1, ReadHoldsKept DEF ProjectionInv
    <3>3. IndexBehind' /\ TypesCurrent' /\ RestIsHeld'
      BY <1>1, <3>1, IndexBehindKept, TypesCurrentKept, RestIsHeldKept DEF ProjectionInv
    <3>4. DocsHonest' /\ ReleasedHonest'
      BY <1>1, <3>1, DocsHonestKept, ReleasedKept DEF ProjectionInv
    <3> QED BY <3>1, <3>2, <3>3, <3>4
  <2> QED BY <2>1, <2>2 DEF ProjectionInv
<1> QED BY <1>1, InitEstablishes, PTL DEF Spec

\* The state of the host stays within its types; a reload is only begun while its bound leaves one.
THEOREM ProjectionTypes == Spec => []TypeOK
<1>1. ProjectionInv => TypeOK
  BY DEF ProjectionInv
<1> QED BY <1>1, Invariant, PTL

\* A read that waited for its session's token is answered from rows that contain the session's
\* writes, for any number of closures, commits, reloads, restarts and failures, until two
\* projections have overlapped.
THEOREM ServesOwnWrites == Spec => []OwnWritesServed
<1>1. ProjectionInv => OwnWritesServed
  BY DEF ProjectionInv, ReleasedHonest, OwnWritesServed
<1> QED BY <1>1, Invariant, PTL

\* As long as no two projections have overlapped, a tail with nothing left to do has projected the
\* whole stream with the current page types, and the search index is as far unless something has
\* failed.  Deliveries and notifications that arrive while a closure is at work are then not lost;
\* a reload that finds one at work is an overlap, and this theorem does not speak of it.
THEOREM RestHasProjected == Spec => []RestIsCurrent
<1>1. ProjectionInv => RestIsCurrent
  <2>1. SUFFICES ASSUME ProjectionInv, AtRest, ~overlapped
                 PROVE  offset = head /\ rows = head /\ rowTypes >= registry /\ (failures = 0 => indexed = head)
    BY DEF RestIsCurrent
  <2>2. held = head /\ offset = held /\ (failures = 0 => indexed = held)
    BY <2>1 DEF ProjectionInv, RestIsHeld, AtRest
  <2>3. offset # -1 /\ rows = offset
    BY <2>1, <2>2, Bounds DEF ProjectionInv, TypeOK, Behind
  <2>4. rowTypes >= registry
    BY <2>1, <2>3 DEF ProjectionInv, TypesCurrent, AtRest
  <2> QED BY <2>2, <2>3, <2>4
<1> QED BY <1>1, Invariant, PTL

\* search_offset is honest: each document is of the last change of its page up to it, whichever of
\* the two ways the index was written, and however far it lagged behind the rows.
THEOREM IndexStaysHonest == Spec => []IndexHonest
<1>1. ProjectionInv => IndexHonest
  BY DEF ProjectionInv, DocsHonest, IndexHonest
<1> QED BY <1>1, Invariant, PTL

=============================================================================
