--------------------------- MODULE PageMove_proofs ---------------------------
(***************************************************************************)
(* When the runs of the saga do not overlap, and each can copy attachments,  *)
(* a page has one home wherever a run stops, and the saga implements a move   *)
(* that happens at once.                                                    *)
(***************************************************************************)
EXTENDS PageMove, FiniteSetTheorems, TLAPS

\* The pages of the pending moves of a workspace are there, each in one of them.
Journal ==
  \A w \in Workspaces : \A i \in pending[w] :
    /\ moves[i].from = w /\ moves[i].to # w
    /\ moves[i].pages \subseteq live[w]
    /\ \A j \in pending[w] : i # j => moves[i].pages \cap moves[j].pages = {}

\* A run past its export has a move that is pending; it completes what has landed and
\* aborts what has not; what it exported is what the source holds.
RunExact(f) ==
  /\ step[f] # "idle" => \A g \in Finishers : f # g => step[g] = "idle"
  /\ step[f] \notin {"idle", "export"} => IsPending(f)
  /\ step[f] = "complete" => AlreadyImported(f)
  /\ step[f] = "abort" => ~ AlreadyImported(f)
  /\ step[f] \in {"copy", "import"} =>
       \A p \in Now(f).pages : payload[f][p] = text[Now(f).from][p]
  /\ step[f] = "import" => NeedsCopy(f) \subseteq blobs[Now(f).to]

RunsExact == \A f \in Finishers : RunExact(f)

HomedAt(p, h) == HomesOf(p) = {h}

Homed == \A p \in Pages : \E h \in Workspaces : HomedAt(p, h)

MoveInv == TypeOK /\ Journal /\ RunsExact /\ Homed /\ AttachmentsFollow

-----------------------------------------------------------------------------
(* Types.                                                                   *)

LEMMA TypeInit == Init => TypeOK
BY MoveConstants DEF Init, TypeOK, source, run, Ids

\* A move begun is the last one; the others keep their places.
LEMMA Appended ==
  ASSUME moves \in Seq(Move), NEW m \in Move, moves' = Append(moves, m)
  PROVE  /\ moves' \in Seq(Move) /\ Len(moves') = Len(moves) + 1
         /\ Ids = 1..Len(moves) /\ Ids' = 1..(Len(moves) + 1)
         /\ \A i \in Ids : moves'[i] = moves[i]
         /\ moves'[Len(moves) + 1] = m
         /\ Len(moves) + 1 \notin Ids /\ Ids \subseteq Ids'
BY DEF Ids

LEMMA TypeBegin ==
  ASSUME TypeOK, NEW f \in Finishers, NEW w \in Workspaces, NEW v \in Workspaces,
         NEW A \in SUBSET Pages, Begin(f, w, A, v)
  PROVE  TypeOK'
<1> DEFINE m == [from |-> w, to |-> v, pages |-> A]
<1>1. m \in Move /\ moves' = Append(moves, m)
  BY DEF Begin, Move
<1>2. /\ moves' \in Seq(Move) /\ Len(moves') = Len(moves) + 1
      /\ Len(moves) + 1 \in Ids' /\ Ids \subseteq Ids'
  BY <1>1, Appended DEF TypeOK
<1>3. Len(moves') <= MaxMoves /\ Len(moves) + 1 \in 0..MaxMoves
  BY <1>2, MoveConstants DEF TypeOK, Begin
<1>4. /\ pending' \in [Workspaces -> SUBSET Ids']
      /\ imports' \in [Workspaces -> SUBSET Ids']
  BY <1>2 DEF TypeOK, Begin
<1>5. moving' \in [Finishers -> 0..MaxMoves]
        /\ step' \in [Finishers -> {"idle", "export", "copy", "import", "complete", "abort"}]
  BY <1>3 DEF TypeOK, Begin, Goes
<1>6. \A g \in Finishers : step'[g] # "idle" => moving'[g] \in Ids'
  BY <1>2 DEF TypeOK, Begin, Goes
<1>7. QED
  BY <1>2, <1>3, <1>4, <1>5, <1>6 DEF TypeOK, Begin

\* The move of a run that is under way.
LEMMA NowTyped ==
  ASSUME TypeOK, NEW f \in Finishers, step[f] # "idle"
  PROVE  /\ moving[f] \in Ids /\ Now(f) = moves[moving[f]]
         /\ Now(f).from \in Workspaces /\ Now(f).to \in Workspaces /\ Now(f).pages \subseteq Pages
<1>1. moving[f] \in Ids
  BY DEF TypeOK
<1>2. moves[moving[f]] \in Move
  BY <1>1 DEF TypeOK, Ids
<1>3. QED
  BY <1>1, <1>2 DEF Now, Move

LEMMA TypeStep == TypeOK /\ [Next]_vars => TypeOK'
<1> SUFFICES ASSUME TypeOK, [Next]_vars PROVE TypeOK'
  OBVIOUS
<1>1. ASSUME NEW w \in Workspaces, NEW p \in Pages, Edit(w, p)
      PROVE  TypeOK'
  BY <1>1, MoveConstants DEF TypeOK, Edit, source, run, Ids
<1>2. ASSUME NEW f \in Finishers, NEW id \in Ids, Resume(f, id)
      PROVE  TypeOK'
  <2>1. id \in 0..MaxMoves
    BY MoveConstants DEF TypeOK, Ids
  <2>2. QED
    BY <1>2, <2>1 DEF TypeOK, Resume, Goes, source, Ids
<1>3. ASSUME NEW f \in Finishers, Export(f)
      PROVE  TypeOK'
  <2>1. step[f] # "idle" /\ Now(f).from \in Workspaces
    BY <1>3, NowTyped DEF Export
  <2>2. QED
    BY <1>3, <2>1 DEF TypeOK, Export, Goes, source, Ids
<1>4. ASSUME NEW f \in Finishers, CopyBlobs(f)
      PROVE  TypeOK'
  <2>1. step[f] # "idle" /\ Now(f).to \in Workspaces
    BY <1>4, NowTyped DEF CopyBlobs
  <2>2. Copied(f) \subseteq Attached
    BY DEF Copied, NeedsCopy
  <2>3. QED
    BY <1>4, <2>1, <2>2 DEF TypeOK, CopyBlobs, Goes, source, Ids
<1>5. ASSUME NEW f \in Finishers, ImportAgain(f) \/ Refuse(f) \/ Stop(f)
      PROVE  TypeOK'
  <2>1. step[f] # "idle"
    BY <1>5 DEF ImportAgain, Refuse, Rejected, Stop
  <2>2. QED
    BY <1>5, <2>1 DEF TypeOK, ImportAgain, Refuse, Stop, Goes, source, Ids
<1>6. ASSUME NEW f \in Finishers, ImportPages(f)
      PROVE  TypeOK'
  <2> DEFINE m == Now(f)
  <2>1. /\ step[f] # "idle" /\ m.to \in Workspaces /\ m.pages \subseteq Pages
        /\ moving[f] \in Ids
    BY <1>6, NowTyped DEF ImportPages
  <2>2. live' \in [Workspaces -> SUBSET Pages] /\ imports' \in [Workspaces -> SUBSET Ids]
    BY <1>6, <2>1 DEF TypeOK, ImportPages
  <2>3. text' \in [Workspaces -> [Pages -> 0..MaxEdits]]
    BY <1>6, <2>1 DEF TypeOK, ImportPages
  <2>4. forward' \in [Workspaces -> [Pages -> Workspaces \cup {Nowhere}]]
    BY <1>6, <2>1 DEF TypeOK, ImportPages, ForwardsEnded
  <2>5. \A w \in Workspaces : \A p \in live'[w] : forward'[w][p] = Nowhere
    <3>1. ASSUME NEW w \in Workspaces, NEW p \in live'[w]
          PROVE  forward'[w][p] = Nowhere
      <4>1. p \in Pages
        BY <3>1, <2>2
      <4>2. CASE w = m.to /\ p \in m.pages
        BY <1>6, <2>1, <4>1, <4>2 DEF TypeOK, ImportPages, ForwardsEnded
      <4>3. CASE ~ (w = m.to /\ p \in m.pages)
        <5>1. p \in live[w]
          BY <1>6, <2>1, <3>1, <4>3 DEF TypeOK, ImportPages
        <5>2. forward'[w][p] = forward[w][p]
          BY <1>6, <2>1, <4>1, <4>3 DEF TypeOK, ImportPages, ForwardsEnded
        <5>3. QED
          BY <5>1, <5>2 DEF TypeOK
      <4>4. QED
        BY <4>2, <4>3
    <3>2. QED
      BY <3>1
  <2>6. QED
    BY <1>6, <2>1, <2>2, <2>3, <2>4, <2>5 DEF TypeOK, ImportPages, Goes, Ids
<1>7. ASSUME NEW f \in Finishers, Complete(f)
      PROVE  TypeOK'
  <2> DEFINE m == Now(f)
  <2>1. /\ step[f] # "idle" /\ m.from \in Workspaces /\ m.to \in Workspaces /\ m.pages \subseteq Pages
    BY <1>7, NowTyped DEF Complete
  <2>2. CASE IsPending(f)
    <3>0. /\ live' = [live EXCEPT ![m.from] = @ \ m.pages]
          /\ forward' = [forward EXCEPT ![m.from] = ForwardsLeft(m)]
          /\ pending' = [pending EXCEPT ![m.from] = @ \ {moving[f]}]
      BY <1>7, <2>2 DEF Complete
    <3>1. live' \in [Workspaces -> SUBSET Pages] /\ pending' \in [Workspaces -> SUBSET Ids]
      BY <3>0, <2>1 DEF TypeOK
    <3>2. forward' \in [Workspaces -> [Pages -> Workspaces \cup {Nowhere}]]
      BY <3>0, <2>1 DEF TypeOK, ForwardsLeft
    <3>3. \A w \in Workspaces : \A p \in live'[w] : p \in live[w] /\ forward'[w][p] = forward[w][p]
      BY <3>0, <2>1 DEF TypeOK, ForwardsLeft
    <3>4. QED
      BY <1>7, <2>1, <3>1, <3>2, <3>3 DEF TypeOK, Complete, Goes, Ids
  <2>3. CASE ~ IsPending(f)
    BY <1>7, <2>1, <2>3 DEF TypeOK, Complete, Goes, source, Ids
  <2>4. QED
    BY <2>2, <2>3
<1>8. ASSUME NEW f \in Finishers, Abort(f)
      PROVE  TypeOK'
  <2>1. step[f] # "idle" /\ Now(f).from \in Workspaces
    BY <1>8, NowTyped DEF Abort
  <2>2. QED
    BY <1>8, <2>1 DEF TypeOK, Abort, Goes, Ids
<1>9. CASE UNCHANGED vars
  BY <1>9 DEF TypeOK, vars, source, run, Ids
<1>10. QED
  BY <1>1, TypeBegin, <1>2, <1>3, <1>4, <1>5, <1>6, <1>7, <1>8, <1>9 DEF Next

\* Every variable of the saga keeps its type, also when runs overlap.
THEOREM MoveTypeCorrect == Spec => []TypeOK
BY TypeInit, TypeStep, PTL DEF Spec

-----------------------------------------------------------------------------
(* The journal and the homes.                                               *)

\* A run past its export runs a pending move of a source whose pages are there.
LEMMA Underway ==
  ASSUME TypeOK, Journal, RunsExact, NEW f \in Finishers, step[f] \notin {"idle", "export"}
  PROVE  /\ moving[f] \in Ids /\ Now(f) = moves[moving[f]]
         /\ Now(f).from \in Workspaces /\ Now(f).to \in Workspaces /\ Now(f).pages \subseteq Pages
         /\ moving[f] \in pending[Now(f).from]
         /\ Now(f).from # Now(f).to
         /\ Now(f).pages \subseteq live[Now(f).from]
         /\ \A j \in pending[Now(f).from] : j # moving[f] => Now(f).pages \cap moves[j].pages = {}
         /\ \A w \in Workspaces : moving[f] \in pending[w] => w = Now(f).from
<1>1. /\ moving[f] \in Ids /\ Now(f) = moves[moving[f]]
      /\ Now(f).from \in Workspaces /\ Now(f).to \in Workspaces /\ Now(f).pages \subseteq Pages
  BY NowTyped
<1>2. moving[f] \in pending[Now(f).from]
  BY DEF RunsExact, RunExact, IsPending
<1>3. QED
  BY <1>1, <1>2 DEF Journal

\* The steps that leave the journals and the pages alone.
Quiet == UNCHANGED <<moves, live, pending, imports, forward>>

LEMMA StepCases ==
  ASSUME [Next]_vars
  PROVE  \/ Quiet
         \/ \E f \in Finishers :
              \/ \E w, v \in Workspaces, A \in SUBSET Pages : Begin(f, w, A, v)
              \/ ImportPages(f)
              \/ Complete(f) /\ IsPending(f)
              \/ Abort(f)
<1>1. ASSUME NEW w \in Workspaces, NEW p \in Pages, Edit(w, p) PROVE Quiet
  BY <1>1 DEF Edit, Quiet, source
<1>2. ASSUME NEW f \in Finishers, NEW id \in Ids, Resume(f, id) PROVE Quiet
  BY <1>2 DEF Resume, Quiet, source
<1>3. ASSUME NEW f \in Finishers,
             Export(f) \/ CopyBlobs(f) \/ ImportAgain(f) \/ Refuse(f) \/ Stop(f)
      PROVE  Quiet
  BY <1>3 DEF Export, CopyBlobs, ImportAgain, Refuse, Stop, Quiet, source
<1>4. ASSUME NEW f \in Finishers, Complete(f), ~ IsPending(f) PROVE Quiet
  BY <1>4 DEF Complete, Quiet, source
<1>5. CASE UNCHANGED vars
  BY <1>5 DEF vars, source, Quiet
<1>6. QED
  BY <1>1, <1>2, <1>3, <1>4, <1>5 DEF Next

LEMMA JournalStep ==
  ASSUME TypeOK, Journal, RunsExact, [Next]_vars
  PROVE  Journal'
<1>1. CASE Quiet
  BY <1>1 DEF Quiet, Journal
<1>2. ASSUME NEW f \in Finishers, NEW w \in Workspaces, NEW v \in Workspaces,
             NEW A \in SUBSET Pages, Begin(f, w, A, v)
      PROVE  Journal'
  <2> DEFINE n == Len(moves) + 1
             m == [from |-> w, to |-> v, pages |-> A]
  <2>1. m \in Move /\ moves' = Append(moves, m)
    BY <1>2 DEF Begin, Move
  <2>2. /\ \A i \in Ids : moves'[i] = moves[i]
        /\ moves'[n] = m /\ n \notin Ids
    BY <2>1, Appended DEF TypeOK
  <2>3. /\ live' = live
        /\ pending' = [pending EXCEPT ![w] = @ \cup {n}]
        /\ v # w /\ A \subseteq live[w] \ Frozen(w)
    BY <1>2 DEF Begin
  <2>4. \A u \in Workspaces : \A i \in pending'[u] : i # n => i \in pending[u] /\ i \in Ids
          /\ moves'[i] = moves[i]
    BY <2>2, <2>3 DEF TypeOK
  <2>5. \A u \in Workspaces : n \in pending'[u] => u = w
    BY <2>2, <2>3 DEF TypeOK
  <2>6. \A i \in pending[w] : moves[i].pages \cap A = {}
    BY <2>3 DEF Frozen
  <2>7. ASSUME NEW u \in Workspaces, NEW i \in pending'[u]
        PROVE  /\ moves'[i].from = u /\ moves'[i].to # u
               /\ moves'[i].pages \subseteq live'[u]
               /\ \A j \in pending'[u] : i # j => moves'[i].pages \cap moves'[j].pages = {}
    <3>1. CASE i = n
      BY <2>2, <2>3, <2>4, <2>5, <2>6, <2>7, <3>1
    <3>2. CASE i # n
      <4>1. /\ moves[i].from = u /\ moves[i].to # u /\ moves[i].pages \subseteq live[u]
            /\ moves'[i] = moves[i] /\ i \in pending[u]
        BY <2>4, <2>7, <3>2 DEF Journal
      <4>2. ASSUME NEW j \in pending'[u], i # j
            PROVE  moves[i].pages \cap moves'[j].pages = {}
        <5>1. CASE j = n
          BY <2>2, <2>5, <2>6, <4>1, <4>2, <5>1
        <5>2. CASE j # n
          BY <2>4, <4>1, <4>2, <5>2 DEF Journal
        <5>3. QED
          BY <5>1, <5>2
      <4>3. QED
        BY <4>1, <4>2, <2>3
    <3>3. QED
      BY <3>1, <3>2
  <2>8. QED
    BY <2>7 DEF Journal
<1>3. ASSUME NEW f \in Finishers, ImportPages(f)
      PROVE  Journal'
  <2>1. /\ moves' = moves /\ pending' = pending
        /\ \A w \in Workspaces : live[w] \subseteq live'[w]
    BY <1>3 DEF ImportPages, TypeOK
  <2>2. QED
    BY <2>1 DEF Journal
<1>4. ASSUME NEW f \in Finishers, Complete(f), IsPending(f)
      PROVE  Journal'
  <2> DEFINE m == Now(f)
  <2>1. /\ moves' = moves
        /\ live' = [live EXCEPT ![m.from] = @ \ m.pages]
        /\ pending' = [pending EXCEPT ![m.from] = @ \ {moving[f]}]
        /\ step[f] = "complete"
    BY <1>4 DEF Complete
  <2>2. /\ m.from \in Workspaces
        /\ \A j \in pending[m.from] : j # moving[f] => m.pages \cap moves[j].pages = {}
    BY <2>1, Underway
  <2>3. ASSUME NEW w \in Workspaces, NEW i \in pending'[w]
        PROVE  i \in pending[w] /\ moves[i].pages \subseteq live'[w]
    <3>1. i \in pending[w] /\ moves[i].pages \subseteq live[w]
      BY <2>1, <2>2, <2>3 DEF TypeOK, Journal
    <3>2. w = m.from => i # moving[f]
      BY <2>1, <2>2, <2>3 DEF TypeOK
    <3>3. QED
      BY <2>1, <2>2, <3>1, <3>2 DEF TypeOK
  <2>4. \A w \in Workspaces : pending'[w] \subseteq pending[w]
    BY <2>3
  <2>5. QED
    BY <2>1, <2>3, <2>4 DEF Journal
<1>5. ASSUME NEW f \in Finishers, Abort(f)
      PROVE  Journal'
  <2>1. /\ moves' = moves /\ live' = live
        /\ \A w \in Workspaces : pending'[w] \subseteq pending[w]
    BY <1>5 DEF Abort, TypeOK
  <2>2. QED
    BY <2>1 DEF Journal
<1>6. QED
  BY <1>1, <1>2, <1>3, <1>4, <1>5, StepCases

\* What no import and no commit on a page does leaves the homes as they are.
LEMMA SameHomes ==
  ASSUME live' = live, NEW p \in Pages,
         \A w \in Workspaces : p \in live[w] => (Superseded(w, p)' <=> Superseded(w, p))
  PROVE  HomesOf(p)' = HomesOf(p)
BY DEF HomesOf

LEMMA HomesBegin ==
  ASSUME TypeOK, NEW f \in Finishers, NEW w \in Workspaces, NEW v \in Workspaces,
         NEW A \in SUBSET Pages, Begin(f, w, A, v), NEW p \in Pages
  PROVE  HomesOf(p)' = HomesOf(p)
<1> DEFINE n == Len(moves) + 1
           m == [from |-> w, to |-> v, pages |-> A]
<1>1. m \in Move /\ moves' = Append(moves, m)
  BY DEF Begin, Move
<1>2. /\ \A i \in Ids : moves'[i] = moves[i]
      /\ moves'[n] = m /\ n \notin Ids
  BY <1>1, Appended DEF TypeOK
<1>3. /\ live' = live /\ imports' = imports
      /\ pending' = [pending EXCEPT ![w] = @ \cup {n}]
  BY DEF Begin
<1>4. \A u \in Workspaces : \A i \in pending[u] : i \in pending'[u] /\ i \in Ids
  BY <1>3 DEF TypeOK
<1>5. \A u \in Workspaces : \A i \in pending'[u] : i \in pending[u] \/ i = n
  BY <1>3 DEF TypeOK
<1>6. n \notin imports[v]
  BY <1>2 DEF TypeOK
<1>7. \A u \in Workspaces : Superseded(u, p)' <=> Superseded(u, p)
  BY <1>2, <1>3, <1>4, <1>5, <1>6 DEF Superseded
<1>8. QED
  BY <1>3, <1>7, SameHomes

LEMMA HomesAbort ==
  ASSUME TypeOK, Journal, RunsExact, NEW f \in Finishers, Abort(f), NEW p \in Pages
  PROVE  HomesOf(p)' = HomesOf(p)
<1> DEFINE m == Now(f)
<1>1. /\ live' = live /\ imports' = imports /\ moves' = moves
      /\ pending' = [pending EXCEPT ![m.from] = @ \ {moving[f]}]
      /\ step[f] = "abort"
  BY DEF Abort
<1>2. moving[f] \notin imports[m.to] /\ m = moves[moving[f]]
  BY <1>1, Underway DEF RunsExact, RunExact, AlreadyImported
<1>3. \A w \in Workspaces : \A i \in pending[w] : i \in pending'[w] \/ i = moving[f]
  BY <1>1 DEF TypeOK
<1>4. \A w \in Workspaces : pending'[w] \subseteq pending[w]
  BY <1>1 DEF TypeOK
<1>5. \A w \in Workspaces : Superseded(w, p)' <=> Superseded(w, p)
  BY <1>1, <1>2, <1>3, <1>4 DEF Superseded
<1>6. QED
  BY <1>1, <1>5, SameHomes

\* What a completed move drops was superseded when the import landed.
LEMMA HomesComplete ==
  ASSUME TypeOK, Journal, RunsExact, NEW f \in Finishers, Complete(f), IsPending(f), NEW p \in Pages
  PROVE  HomesOf(p)' = HomesOf(p)
<1> DEFINE m == Now(f)
<1>1. /\ imports' = imports /\ moves' = moves
      /\ live' = [live EXCEPT ![m.from] = @ \ m.pages]
      /\ pending' = [pending EXCEPT ![m.from] = @ \ {moving[f]}]
      /\ step[f] = "complete"
  BY DEF Complete
<1>2. /\ moving[f] \in imports[m.to] /\ m = moves[moving[f]]
      /\ moving[f] \in pending[m.from] /\ m.from \in Workspaces
      /\ \A w \in Workspaces : moving[f] \in pending[w] => w = m.from
  BY <1>1, Underway DEF RunsExact, RunExact, AlreadyImported
<1>3. \A w \in Workspaces : \A i \in pending[w] : i \in pending'[w] \/ i = moving[f]
  BY <1>1 DEF TypeOK
<1>4. \A w \in Workspaces : pending'[w] \subseteq pending[w]
  BY <1>1 DEF TypeOK
<1>5. p \in m.pages => Superseded(m.from, p)
  BY <1>2 DEF Superseded
<1>6. ASSUME NEW w \in Workspaces
      PROVE  (p \in live[w] /\ ~ Superseded(w, p)) <=> (p \in live'[w] /\ ~ Superseded(w, p)')
  <2>1. CASE w = m.from /\ p \in m.pages
    BY <1>1, <1>2, <1>5, <2>1 DEF TypeOK
  <2>2. CASE ~ (w = m.from /\ p \in m.pages)
    <3>1. p \in live'[w] <=> p \in live[w]
      BY <1>1, <1>2, <2>2 DEF TypeOK
    <3>2. Superseded(w, p)' <=> Superseded(w, p)
      BY <1>1, <1>2, <1>3, <1>4, <2>2 DEF Superseded
    <3>3. QED
      BY <3>1, <3>2
  <2>3. QED
    BY <2>1, <2>2
<1>7. QED
  BY <1>6 DEF HomesOf

\* An import takes its pages from the source, their home so far, to the target.
LEMMA HomesImport ==
  ASSUME TypeOK, Journal, RunsExact, Homed, NEW f \in Finishers, ImportPages(f)
  PROVE  /\ \A p \in Now(f).pages : HomedAt(p, Now(f).from) /\ HomedAt(p, Now(f).to)'
         /\ \A p \in Pages \ Now(f).pages : HomesOf(p)' = HomesOf(p)
<1> DEFINE m == Now(f)
<1>1. /\ moves' = moves /\ pending' = pending
      /\ live' = [live EXCEPT ![m.to] = @ \cup m.pages]
      /\ imports' = [imports EXCEPT ![m.to] = @ \cup {moving[f]}]
      /\ m.pages \cap live[m.to] = {}
      /\ moving[f] \notin imports[m.to]
      /\ step[f] = "import"
  BY DEF ImportPages, AlreadyImported
<1>0. m' = m
  BY DEF ImportPages, Now
<1>2. /\ m = moves[moving[f]] /\ m.from \in Workspaces /\ m.to \in Workspaces /\ m.pages \subseteq Pages
      /\ moving[f] \in pending[m.from] /\ m.from # m.to
      /\ m.pages \subseteq live[m.from]
      /\ \A j \in pending[m.from] : j # moving[f] => m.pages \cap moves[j].pages = {}
      /\ \A w \in Workspaces : moving[f] \in pending[w] => w = m.from
  BY <1>1, Underway
<1>3. \A u \in Workspaces : imports[u] \subseteq imports'[u]
        /\ \A i \in imports'[u] : i \in imports[u] \/ i = moving[f]
  BY <1>1 DEF TypeOK
<1>4. moving[f] \in imports'[m.to]
  BY <1>1, <1>2 DEF TypeOK
<1>5. ASSUME NEW p \in m.pages
      PROVE  HomedAt(p, m.from) /\ HomedAt(p, m.to)'
  <2>1. ~ Superseded(m.from, p)
    BY <1>1, <1>2, <1>5 DEF Superseded
  <2>2. HomedAt(p, m.from)
    <3>1. p \in Pages /\ m.from \in HomesOf(p)
      BY <1>2, <1>5, <2>1 DEF HomesOf
    <3>2. QED
      BY <3>1 DEF Homed, HomedAt
  <2>3. Superseded(m.from, p)'
    BY <1>0, <1>1, <1>2, <1>4, <1>5 DEF Superseded
  <2>4. ~ Superseded(m.to, p)' /\ p \in live'[m.to]
    <3>1. \A i \in pending[m.to] : p \notin moves[i].pages
      BY <1>1, <1>2, <1>5 DEF Journal
    <3>2. QED
      BY <1>0, <1>1, <1>2, <1>5, <3>1 DEF Superseded, TypeOK
  <2>5. ASSUME NEW w \in Workspaces, w # m.from, w # m.to
        PROVE  ~ (p \in live'[w] /\ ~ Superseded(w, p)')
    <3>1. p \in live'[w] => p \in live[w]
      BY <1>1, <2>5 DEF TypeOK
    <3>2. Superseded(w, p) => Superseded(w, p)'
      BY <1>1, <1>2, <1>3 DEF Superseded, Journal, TypeOK, Move
    <3>3. w \notin HomesOf(p)
      BY <2>2, <2>5 DEF HomedAt
    <3>4. QED
      BY <3>1, <3>2, <3>3 DEF HomesOf
  <2>6. QED
    BY <1>0, <1>2, <2>2, <2>3, <2>4, <2>5 DEF HomedAt, HomesOf
<1>6. ASSUME NEW p \in Pages \ m.pages
      PROVE  HomesOf(p)' = HomesOf(p)
  <2>1. \A w \in Workspaces : p \in live'[w] <=> p \in live[w]
    BY <1>1, <1>2, <1>6 DEF TypeOK
  <2>2. ASSUME NEW w \in Workspaces
        PROVE  Superseded(w, p)' <=> Superseded(w, p)
    BY <1>1, <1>2, <1>3, <1>6 DEF Superseded, Journal, TypeOK, Move
  <2>3. QED
    BY <2>1, <2>2 DEF HomesOf
<1>7. QED
  BY <1>5, <1>6

LEMMA HomesStep ==
  ASSUME TypeOK, Journal, RunsExact, Homed, [Next]_vars
  PROVE  Homed'
<1>1. CASE Quiet
  BY <1>1 DEF Quiet, Homed, HomedAt, HomesOf, Superseded
<1>2. ASSUME NEW f \in Finishers, ImportPages(f)
      PROVE  Homed'
  <2>1. Now(f).to \in Workspaces
    BY <1>2, NowTyped DEF ImportPages
  <2>2. Now(f)' = Now(f)
    BY <1>2 DEF ImportPages, Now
  <2>3. ASSUME NEW p \in Pages
        PROVE  \E h \in Workspaces : HomedAt(p, h)'
    <3>1. CASE p \in Now(f).pages
      BY <1>2, <2>1, <2>2, <3>1, HomesImport DEF HomedAt
    <3>2. CASE p \notin Now(f).pages
      BY <1>2, <3>2, HomesImport DEF Homed, HomedAt
    <3>3. QED
      BY <3>1, <3>2
  <2>4. QED
    BY <2>3 DEF Homed
<1>3. ASSUME \A p \in Pages : HomesOf(p)' = HomesOf(p)
      PROVE  Homed'
  BY <1>3 DEF Homed, HomedAt
<1>4. QED
  BY <1>1, <1>2, <1>3, HomesBegin, HomesAbort, HomesComplete, StepCases

-----------------------------------------------------------------------------
(* The runs and the attachments.                                            *)

\* A page a pending move took is not editable, so its text stays what was exported.
LEMMA EditKeeps ==
  ASSUME TypeOK, NEW w \in Workspaces, NEW p \in Pages, Edit(w, p),
         NEW i, i \in pending[w], NEW q \in moves[i].pages
  PROVE  q # p
BY DEF Edit, Editable, Frozen

\* An action of the run f.
RunStep(f) ==
  \/ \E w, v \in Workspaces, A \in SUBSET Pages : Begin(f, w, A, v)
  \/ \E id \in Ids : Resume(f, id)
  \/ Export(f) \/ CopyBlobs(f)
  \/ ImportAgain(f) \/ ImportPages(f) \/ Refuse(f)
  \/ Complete(f) \/ Abort(f) \/ Stop(f)

\* A run acts alone.
LEMMA Alone ==
  ASSUME TypeOK, RunsExact, OneAtATime, NEW f \in Finishers, RunStep(f)
  PROVE  /\ \A g \in Finishers : f # g => step[g] = "idle" /\ step'[g] = "idle"
         /\ \A s : Goes(f, s) => step'[f] = s
<1>1. \A g \in Finishers : f # g => step[g] = "idle"
  BY DEF RunStep, MayStart, Begin, Resume, Export, CopyBlobs, ImportAgain, ImportPages, Refuse,
         Rejected, Complete, Abort, Stop, RunsExact, RunExact
<1>2. \E s \in {"idle", "export", "copy", "import", "complete", "abort"} : Goes(f, s)
  BY DEF RunStep, Begin, Resume, Export, CopyBlobs, ImportAgain, ImportPages, Refuse, Complete,
         Abort, Stop
<1>3. QED
  BY <1>1, <1>2 DEF Goes, TypeOK

\* A run stays exact, when it is alone and can copy.
LEMMA RunStepExact ==
  ASSUME TypeOK, Journal, RunsExact, AttachmentsFollow, OneAtATime, HasCopier = Finishers,
         NEW f \in Finishers, RunStep(f)
  PROVE  RunExact(f)'
<1>1. \A g \in Finishers : f # g => step'[g] = "idle"
  BY Alone
<1>2. \A s : Goes(f, s) => step'[f] = s
  BY Alone
<1>3. CASE step'[f] \in {"idle", "export"}
  BY <1>1, <1>3 DEF RunExact
<1>4. CASE Export(f) /\ step'[f] # "idle"
  <2>1. /\ IsPending(f) /\ step'[f] = "copy" /\ payload' = [payload EXCEPT ![f] = text[Now(f).from]]
        /\ UNCHANGED <<moves, text, pending, moving>>
    BY <1>2, <1>4 DEF Export, source
  <2>2. QED
    BY <1>1, <2>1 DEF RunExact, IsPending, Now, TypeOK
<1>5. CASE CopyBlobs(f)
  <2>1. /\ step[f] = "copy" /\ step'[f] = "import"
        /\ UNCHANGED <<moves, text, pending, moving, payload>>
        /\ blobs' = [blobs EXCEPT ![Now(f).to] = @ \cup Copied(f)]
    BY <1>2, <1>5 DEF CopyBlobs, source
  <2>2. /\ Now(f).from \in Workspaces /\ Now(f).to \in Workspaces
        /\ Now(f).pages \subseteq live[Now(f).from] /\ IsPending(f)
        /\ \A p \in Now(f).pages : payload[f][p] = text[Now(f).from][p]
    BY <2>1, Underway DEF IsPending, RunsExact, RunExact
  <2>3. NeedsCopy(f) \subseteq Copied(f)
    BY <2>2 DEF AttachmentsFollow, NeedsCopy, Copied
  <2>4. NeedsCopy(f) \subseteq blobs'[Now(f).to]
    BY <2>1, <2>2, <2>3 DEF TypeOK
  <2>5. QED
    BY <1>1, <2>1, <2>2, <2>4 DEF RunExact, IsPending, NeedsCopy, Now
<1>6. CASE ImportAgain(f)
  <2>1. /\ step[f] = "import" /\ step'[f] = "complete" /\ AlreadyImported(f)
        /\ UNCHANGED <<moves, pending, imports, moving>>
    BY <1>2, <1>6 DEF ImportAgain, source
  <2>2. IsPending(f)
    BY <2>1 DEF RunsExact, RunExact
  <2>3. QED
    BY <1>1, <2>1, <2>2 DEF RunExact, IsPending, AlreadyImported, Now
<1>7. CASE ImportPages(f)
  <2>1. /\ step[f] = "import" /\ step'[f] = "complete"
        /\ imports' = [imports EXCEPT ![Now(f).to] = @ \cup {moving[f]}]
        /\ UNCHANGED <<moves, pending, moving>>
    BY <1>2, <1>7 DEF ImportPages
  <2>2. IsPending(f) /\ Now(f).to \in Workspaces
    BY <2>1, NowTyped DEF RunsExact, RunExact
  <2>3. moving[f] \in imports'[Now(f).to]
    BY <2>1, <2>2 DEF TypeOK
  <2>4. QED
    BY <1>1, <2>1, <2>2, <2>3 DEF RunExact, IsPending, AlreadyImported, Now
<1>8. CASE Refuse(f)
  <2>1. /\ step[f] = "import" /\ step'[f] = "abort" /\ ~ AlreadyImported(f)
        /\ UNCHANGED <<moves, pending, imports, moving>>
    BY <1>2, <1>8 DEF Refuse, Rejected, source
  <2>2. IsPending(f)
    BY <2>1 DEF RunsExact, RunExact
  <2>3. QED
    BY <1>1, <2>1, <2>2 DEF RunExact, IsPending, AlreadyImported, Now
<1>9. QED
  <2>1. (\E w, v \in Workspaces, A \in SUBSET Pages : Begin(f, w, A, v)) \/ (\E id \in Ids : Resume(f, id))
          => step'[f] = "export"
    BY <1>2 DEF Begin, Resume
  <2>2. Stop(f) \/ Complete(f) \/ Abort(f) => step'[f] = "idle"
    BY <1>2 DEF Stop, Complete, Abort
  <2>3. QED
    BY <1>3, <1>4, <1>5, <1>6, <1>7, <1>8, <2>1, <2>2 DEF RunStep

LEMMA RunsStep ==
  ASSUME TypeOK, Journal, RunsExact, AttachmentsFollow, [Next]_vars,
         OneAtATime, HasCopier = Finishers
  PROVE  RunsExact'
<1>1. CASE UNCHANGED vars
  BY <1>1 DEF vars, run, source, RunsExact, RunExact, IsPending, AlreadyImported, NeedsCopy, Now
<1>2. ASSUME NEW w \in Workspaces, NEW p \in Pages, Edit(w, p)
      PROVE  RunsExact'
  <2>1. /\ UNCHANGED <<moves, live, blobs, pending, imports, step, moving, payload>>
        /\ text' = [text EXCEPT ![w][p] = @ + 1]
    BY <1>2 DEF Edit, source, run
  <2>2. ASSUME NEW f \in Finishers, step[f] \in {"copy", "import"}, NEW q \in Now(f).pages
        PROVE  payload[f][q] = text'[Now(f).from][q]
    <3>1. /\ payload[f][q] = text[Now(f).from][q]
          /\ moving[f] \in pending[Now(f).from] /\ Now(f) = moves[moving[f]]
          /\ Now(f).from \in Workspaces /\ q \in Pages
      BY <2>2, Underway DEF RunsExact, RunExact
    <3>2. Now(f).from = w => q # p
      BY <1>2, <2>2, <3>1, EditKeeps
    <3>3. QED
      BY <2>1, <3>1, <3>2 DEF TypeOK
  <2>3. QED
    BY <2>1, <2>2 DEF RunsExact, RunExact, IsPending, AlreadyImported, NeedsCopy, Now
<1>3. ASSUME NEW f \in Finishers, RunStep(f)
      PROVE  RunsExact'
  <2>1. RunExact(f)'
    BY <1>3, RunStepExact
  <2>2. ASSUME NEW g \in Finishers, f # g
        PROVE  RunExact(g)'
    BY <1>3, <2>2, Alone DEF RunExact
  <2>3. QED
    BY <2>1, <2>2 DEF RunsExact
<1>4. QED
  BY <1>1, <1>2, <1>3 DEF Next, RunStep

\* The bytes arrive before the pages that refer to them, and stay.
LEMMA AttachmentsStep ==
  ASSUME TypeOK, Journal, RunsExact, AttachmentsFollow, [Next]_vars
  PROVE  AttachmentsFollow'
<1>1. ASSUME NEW f \in Finishers, ImportPages(f)
      PROVE  AttachmentsFollow'
  <2>1. /\ blobs' = blobs /\ live' = [live EXCEPT ![Now(f).to] = @ \cup Now(f).pages]
        /\ Now(f).pages \cap Attached \subseteq blobs[Now(f).to]
    BY <1>1 DEF ImportPages, RunsExact, RunExact, NeedsCopy
  <2>2. QED
    BY <2>1 DEF AttachmentsFollow, TypeOK
<1>2. ASSUME \A w \in Workspaces : live'[w] \subseteq live[w] /\ blobs[w] \subseteq blobs'[w]
      PROVE  AttachmentsFollow'
  BY <1>2 DEF AttachmentsFollow
<1>3. ASSUME NEW f \in Finishers, Complete(f)
      PROVE  \A w \in Workspaces : live'[w] \subseteq live[w] /\ blobs[w] \subseteq blobs'[w]
  <2>1. /\ blobs' = blobs
        /\ live' = live \/ live' = [live EXCEPT ![Now(f).from] = @ \ Now(f).pages]
    BY <1>3 DEF Complete
  <2>2. \A w \in Workspaces : live'[w] \subseteq live[w]
    <3>1. live \in [Workspaces -> SUBSET Pages]
      BY DEF TypeOK
    <3>2. QED
      BY <2>1, <3>1
  <2>3. QED
    BY <2>1, <2>2
<1>4. ASSUME NEW f \in Finishers, CopyBlobs(f)
      PROVE  \A w \in Workspaces : live'[w] \subseteq live[w] /\ blobs[w] \subseteq blobs'[w]
  BY <1>4 DEF CopyBlobs, TypeOK
<1>5. CASE live' = live /\ blobs' = blobs
  BY <1>2, <1>5
<1>6. CASE UNCHANGED vars
  BY <1>5, <1>6 DEF vars
<1>7. QED
  BY <1>1, <1>2, <1>3, <1>4, <1>5, <1>6
     DEF Next, Edit, Begin, Resume, Export, ImportAgain, Refuse, Abort, Stop

-----------------------------------------------------------------------------
(* The theorems.                                                            *)

LEMMA MoveInvInit == Init => MoveInv
<1> SUFFICES ASSUME Init PROVE MoveInv
  OBVIOUS
<1>1. TypeOK
  BY TypeInit
<1>2. Journal
  BY DEF Init, Journal, source
<1>3. RunsExact
  BY DEF Init, RunsExact, RunExact, run
<1>4. ASSUME NEW p \in Pages
      PROVE  HomedAt(p, Home)
  BY MoveConstants DEF Init, HomedAt, HomesOf, Superseded, source
<1>5. AttachmentsFollow
  BY MoveConstants DEF Init, AttachmentsFollow
<1>6. QED
  BY <1>1, <1>2, <1>3, <1>4, <1>5, MoveConstants DEF MoveInv, Homed

LEMMA MoveInvStep ==
  ASSUME OneAtATime, HasCopier = Finishers
  PROVE  MoveInv /\ [Next]_vars => MoveInv'
BY TypeStep, JournalStep, RunsStep, HomesStep, AttachmentsStep DEF MoveInv

THEOREM MoveInvariant ==
  ASSUME OneAtATime, HasCopier = Finishers
  PROVE  Spec => []MoveInv
BY MoveInvInit, MoveInvStep, PTL DEF Spec

\* Wherever the runs stop, a page has one home: for any workspaces, pages and moves,
\* when runs do not overlap and each can copy attachments.
THEOREM PagesHaveOneHome ==
  ASSUME OneAtATime, HasCopier = Finishers
  PROVE  Spec => []OneHome
<1>1. MoveInv => OneHome
  BY FS_Singleton DEF MoveInv, Homed, HomedAt, OneHome
<1>2. QED
  BY <1>1, MoveInvariant, PTL

\* Under the same assumptions a page is nowhere without its attachment.
THEOREM AttachmentsAlwaysFollow ==
  ASSUME OneAtATime, HasCopier = Finishers
  PROVE  Spec => []AttachmentsFollow
<1>1. MoveInv => AttachmentsFollow
  BY DEF MoveInv
<1>2. QED
  BY <1>1, MoveInvariant, PTL

-----------------------------------------------------------------------------
(* The saga implements the promise.                                         *)

LEMMA HomeIs ==
  ASSUME NEW p, NEW h, HomedAt(p, h)
  PROVE  HomeOf(p) = h
BY DEF HomedAt, HomeOf

\* Steps that neither write a text nor import.
LEMMA QuietPromise ==
  ASSUME \A p \in Pages : HomesOf(p)' = HomesOf(p), text' = text
  PROVE  UNCHANGED Promise!vars
<1>1. \A p \in Pages : HomeOf(p)' = HomeOf(p)
  BY DEF HomeOf
<1>2. QED
  BY <1>1 DEF Promise!vars

\* An edit is made on the page at its home.
LEMMA EditPromise ==
  ASSUME MoveInv, NEW w \in Workspaces, NEW p \in Pages, Edit(w, p)
  PROVE  Promise!Edit(p)
<1>1. /\ text' = [text EXCEPT ![w][p] = @ + 1]
      /\ UNCHANGED <<moves, live, pending, imports>>
      /\ p \in live[w] \ Frozen(w)
  BY DEF Edit, Editable, source
<1>2. \A q \in Pages : HomeOf(q)' = HomeOf(q)
  BY <1>1 DEF HomeOf, HomesOf, Superseded
<1>3. w \in HomesOf(p)
  BY <1>1 DEF HomesOf, Superseded, Frozen
<1>4. HomeOf(p) = w
  BY <1>3, HomeIs DEF MoveInv, Homed, HomedAt
<1>5. \A q \in Pages : HomeOf(q) \in Workspaces
  BY HomeIs DEF MoveInv, Homed
<1>6. text \in [Workspaces -> [Pages -> 0..MaxEdits]]
  BY DEF MoveInv, TypeOK
<1>7. \A q \in Pages : text'[HomeOf(q)][q] = IF q = p THEN text[HomeOf(q)][q] + 1 ELSE text[HomeOf(q)][q]
  BY <1>1, <1>4, <1>5, <1>6
<1>8. QED
  BY <1>2, <1>7 DEF Promise!Edit

\* An import moves its pages at once, with the texts they have.
LEMMA ImportPromise ==
  ASSUME MoveInv, NEW f \in Finishers, ImportPages(f)
  PROVE  Promise!Next
<1> DEFINE m == Now(f)
<1>1. /\ m.from \in Workspaces /\ m.to \in Workspaces /\ m.pages \subseteq Pages
      /\ \A p \in m.pages : payload[f][p] = text[m.from][p]
      /\ text' = [text EXCEPT ![m.to] = [p \in Pages |-> IF p \in m.pages THEN payload[f][p] ELSE @[p]]]
      /\ m' = m
  BY NowTyped DEF ImportPages, MoveInv, RunsExact, RunExact, Now
<1>2. \A p \in m.pages : HomeOf(p) = m.from /\ HomeOf(p)' = m.to
  <2>1. ASSUME NEW p \in m.pages
        PROVE  HomedAt(p, m.from) /\ HomedAt(p, m.to)'
    BY <2>1, HomesImport DEF MoveInv
  <2>2. QED
    BY <1>1, <2>1 DEF HomedAt, HomeOf
<1>3. \A p \in Pages \ m.pages : HomeOf(p)' = HomeOf(p)
  BY HomesImport DEF MoveInv, HomeOf
<1>4. \A p \in Pages : HomeOf(p) \in Workspaces
  BY HomeIs DEF MoveInv, Homed
<1>5. text \in [Workspaces -> [Pages -> 0..MaxEdits]]
  BY DEF MoveInv, TypeOK
<1>6. \A p \in Pages : text'[HomeOf(p)'][p] = text[HomeOf(p)][p]
  <2>1. ASSUME NEW p \in m.pages
        PROVE  text'[HomeOf(p)'][p] = text[HomeOf(p)][p]
    BY <1>1, <1>2, <1>5, <2>1
  <2>2. ASSUME NEW p \in Pages \ m.pages
        PROVE  text'[HomeOf(p)'][p] = text[HomeOf(p)][p]
    BY <1>1, <1>3, <1>4, <1>5, <2>2
  <2>3. QED
    BY <2>1, <2>2
<1>7. Promise!Move(m.pages, m.to)
  BY <1>1, <1>2, <1>3, <1>6 DEF Promise!Move
<1>8. QED
  BY <1>1, <1>2, <1>7 DEF Promise!Next

LEMMA PromiseStep ==
  ASSUME MoveInv, [Next]_vars
  PROVE  [Promise!Next]_(Promise!vars)
<1>1. ASSUME NEW w \in Workspaces, NEW p \in Pages, Edit(w, p)
      PROVE  Promise!Next
  BY <1>1, EditPromise DEF Promise!Next
<1>2. ASSUME NEW f \in Finishers, ImportPages(f)
      PROVE  Promise!Next
  BY <1>2, ImportPromise
<1>3. ASSUME text' = text, \A f \in Finishers : ~ ImportPages(f)
      PROVE  UNCHANGED Promise!vars
  <2>1. Quiet => \A p \in Pages : HomesOf(p)' = HomesOf(p)
    BY DEF Quiet, HomesOf, Superseded
  <2>2. \A p \in Pages : HomesOf(p)' = HomesOf(p)
    BY <1>3, <2>1, StepCases, HomesBegin, HomesAbort, HomesComplete DEF MoveInv
  <2>3. QED
    BY <1>3, <2>2, QuietPromise
<1>4. text' = text \/ (\E w \in Workspaces, p \in Pages : Edit(w, p)) \/ (\E f \in Finishers : ImportPages(f))
  BY DEF Next, vars, Begin, Resume, Export, CopyBlobs, ImportAgain, Refuse, Complete, Abort, Stop
<1>5. QED
  BY <1>1, <1>2, <1>3, <1>4

LEMMA PromiseInit == Init => Promise!Init
<1> SUFFICES ASSUME Init PROVE Promise!Init
  OBVIOUS
<1>1. ASSUME NEW p \in Pages
      PROVE  HomeOf(p) = Home
  <2>1. HomedAt(p, Home)
    BY MoveConstants DEF Init, HomedAt, HomesOf, Superseded, source
  <2>2. QED
    BY <2>1, HomeIs
<1>2. QED
  BY <1>1, MoveConstants DEF Init, Promise!Init

\* The saga implements PageHome: seen from outside, pages move at once when their import
\* lands, with the last text written to each.
THEOREM SagaMovesAtOnce ==
  ASSUME OneAtATime, HasCopier = Finishers
  PROVE  Spec => ImplementsPageHome
<1>1. Init => Promise!Init
  BY PromiseInit
<1>2. MoveInv /\ [Next]_vars => [Promise!Next]_(Promise!vars)
  BY PromiseStep
<1>3. QED
  BY <1>1, <1>2, MoveInvariant, PTL DEF Spec, ImplementsPageHome, Promise!Spec

-----------------------------------------------------------------------------
(* Forwards.                                                                *)

\* S holds where the forwards of p lead from its members, a superseded copy leading
\* to the workspace that imported the page.
Led(p, S) ==
  \A w \in S :
    /\ p \notin live[w] /\ forward[w][p] # Nowhere => forward[w][p] \in S
    /\ \A i \in pending[w] : p \in moves[i].pages /\ i \in imports[moves[i].to] => moves[i].to \in S

\* From wherever a page was, they lead to its home.
HomeReached(p) ==
  \A w \in Workspaces : WasIn(w, p) =>
    \A S \in SUBSET Workspaces : w \in S /\ Led(p, S) => \E h \in S : HomedAt(p, h)

ForwardInv == MoveInv /\ \A p \in Pages : HomeReached(p)

LEMMA ForwardInit == Init => ForwardInv
<1> SUFFICES ASSUME Init PROVE ForwardInv
  OBVIOUS
<1>1. ASSUME NEW p \in Pages
      PROVE  HomeReached(p)
  <2>1. HomedAt(p, Home)
    BY MoveConstants DEF Init, HomedAt, HomesOf, Superseded, source
  <2>2. QED
    BY <2>1 DEF Init, HomeReached, WasIn
<1>2. QED
  BY <1>1, MoveInvInit DEF ForwardInv

\* A step after which no more sets are led, and no more workspaces were reached.
LEMMA ReachedKept ==
  ASSUME NEW p \in Pages, HomeReached(p), HomesOf(p)' = HomesOf(p),
         \A w \in Workspaces : WasIn(w, p)' => WasIn(w, p),
         \A S \in SUBSET Workspaces : Led(p, S)' => Led(p, S)
  PROVE  HomeReached(p)'
BY DEF HomeReached, HomedAt

LEMMA ReachedBegin ==
  ASSUME TypeOK, NEW f \in Finishers, NEW w \in Workspaces, NEW v \in Workspaces,
         NEW A \in SUBSET Pages, Begin(f, w, A, v), NEW p \in Pages, HomeReached(p)
  PROVE  HomeReached(p)'
<1> DEFINE n == Len(moves) + 1
           m == [from |-> w, to |-> v, pages |-> A]
<1>1. m \in Move /\ moves' = Append(moves, m)
  BY DEF Begin, Move
<1>2. \A i \in Ids : moves'[i] = moves[i]
  BY <1>1, Appended DEF TypeOK
<1>3. /\ live' = live /\ imports' = imports /\ forward' = forward
      /\ pending' = [pending EXCEPT ![w] = @ \cup {n}]
  BY DEF Begin
<1>4. \A u \in Workspaces : imports[u] \subseteq Ids /\ pending[u] \subseteq Ids
        /\ pending[u] \subseteq pending'[u]
  BY <1>3 DEF TypeOK
<1>5. \A u \in Workspaces : WasIn(u, p)' => WasIn(u, p)
  BY <1>2, <1>3, <1>4 DEF WasIn
<1>6. \A S \in SUBSET Workspaces : Led(p, S)' => Led(p, S)
  BY <1>2, <1>3, <1>4 DEF Led
<1>7. QED
  BY <1>5, <1>6, HomesBegin, ReachedKept

LEMMA ReachedAbort ==
  ASSUME TypeOK, Journal, RunsExact, NEW f \in Finishers, Abort(f), NEW p \in Pages, HomeReached(p)
  PROVE  HomeReached(p)'
<1> DEFINE m == Now(f)
<1>1. /\ live' = live /\ imports' = imports /\ moves' = moves /\ forward' = forward
      /\ pending' = [pending EXCEPT ![m.from] = @ \ {moving[f]}]
      /\ step[f] = "abort"
  BY DEF Abort
<1>2. moving[f] \notin imports[m.to] /\ m = moves[moving[f]]
  BY <1>1, Underway DEF RunsExact, RunExact, AlreadyImported
<1>3. \A w \in Workspaces : \A i \in pending[w] : i \in pending'[w] \/ i = moving[f]
  BY <1>1 DEF TypeOK
<1>4. \A S \in SUBSET Workspaces : Led(p, S)' => Led(p, S)
  BY <1>1, <1>2, <1>3 DEF Led
<1>5. \A w \in Workspaces : WasIn(w, p)' => WasIn(w, p)
  BY <1>1 DEF WasIn
<1>6. QED
  BY <1>4, <1>5, HomesAbort, ReachedKept

\* Where the superseded copy led, the forward that replaces it leads.
LEMMA ReachedComplete ==
  ASSUME TypeOK, Journal, RunsExact, NEW f \in Finishers, Complete(f), IsPending(f),
         NEW p \in Pages, HomeReached(p)
  PROVE  HomeReached(p)'
<1> DEFINE m == Now(f)
<1>1. /\ imports' = imports /\ moves' = moves
      /\ live' = [live EXCEPT ![m.from] = @ \ m.pages]
      /\ forward' = [forward EXCEPT ![m.from] = ForwardsLeft(m)]
      /\ pending' = [pending EXCEPT ![m.from] = @ \ {moving[f]}]
      /\ step[f] = "complete"
  BY DEF Complete
<1>2. /\ m = moves[moving[f]] /\ m.from \in Workspaces /\ m.to \in Workspaces
      /\ m.pages \subseteq live[m.from]
      /\ \A j \in pending[m.from] : j # moving[f] => m.pages \cap moves[j].pages = {}
      /\ \A w \in Workspaces : moving[f] \in pending[w] => w = m.from
  BY <1>1, Underway
<1>3. \A w \in Workspaces : \A i \in pending[w] : i \in pending'[w] \/ i = moving[f]
  BY <1>1 DEF TypeOK
<1>4. ASSUME NEW S \in SUBSET Workspaces, Led(p, S)', NEW w \in S
      PROVE  /\ p \notin live[w] /\ forward[w][p] # Nowhere => forward[w][p] \in S
             /\ \A i \in pending[w] : p \in moves[i].pages /\ i \in imports[moves[i].to] => moves[i].to \in S
  <2>1. CASE w = m.from /\ p \in m.pages
    <3>1. p \notin live'[w] /\ forward'[w][p] = m.to
      BY <1>1, <1>2, <2>1 DEF TypeOK, ForwardsLeft
    <3>2. m.to \in S
      BY <1>2, <1>4, <3>1, MoveConstants DEF Led
    <3>3. QED
      BY <1>2, <2>1, <3>2
  <2>2. CASE ~ (w = m.from /\ p \in m.pages)
    <3>1. (p \in live'[w] <=> p \in live[w]) /\ forward'[w][p] = forward[w][p]
      BY <1>1, <1>2, <2>2 DEF TypeOK, ForwardsLeft
    <3>2. \A i \in pending[w] : p \in moves[i].pages => i \in pending'[w]
      BY <1>2, <1>3, <2>2
    <3>3. QED
      BY <1>1, <1>4, <3>1, <3>2 DEF Led
  <2>3. QED
    BY <2>1, <2>2
<1>5. \A S \in SUBSET Workspaces : Led(p, S)' => Led(p, S)
  BY <1>4 DEF Led
<1>6. \A w \in Workspaces : WasIn(w, p)' => WasIn(w, p)
  BY <1>1 DEF WasIn
<1>7. QED
  BY <1>5, <1>6, HomesComplete, ReachedKept

\* The former home leads to the new one.
LEMMA ReachedImport ==
  ASSUME MoveInv, NEW f \in Finishers, ImportPages(f), NEW p \in Pages, HomeReached(p)
  PROVE  HomeReached(p)'
<1> DEFINE m == Now(f)
<1>1. /\ moves' = moves /\ pending' = pending
      /\ live' = [live EXCEPT ![m.to] = @ \cup m.pages]
      /\ imports' = [imports EXCEPT ![m.to] = @ \cup {moving[f]}]
      /\ forward' = [forward EXCEPT ![m.to] = ForwardsEnded(m)]
      /\ step[f] = "import" /\ m' = m
  BY DEF ImportPages, Now
<1>2. /\ m = moves[moving[f]] /\ m.from \in Workspaces /\ m.to \in Workspaces /\ m.pages \subseteq Pages
      /\ moving[f] \in pending[m.from] /\ moving[f] \in imports'[m.to]
  BY <1>1, Underway DEF MoveInv, TypeOK
<1>3. \A u \in Workspaces : imports[u] \subseteq imports'[u]
        /\ \A i \in imports'[u] : i \in imports[u] \/ i = moving[f]
  BY <1>1 DEF MoveInv, TypeOK
<1>4. \A w \in Workspaces : \A i \in pending[w] : moves[i].to \in Workspaces
  <2>1. ASSUME NEW w \in Workspaces, NEW i \in pending[w]
        PROVE  moves[i].to \in Workspaces
    <3>1. moves \in Seq(Move) /\ i \in DOMAIN moves
      BY <2>1 DEF MoveInv, TypeOK, Ids
    <3>2. moves[i] \in Move
      BY <3>1
    <3>3. QED
      BY <3>2 DEF Move
  <2>2. QED
    BY <2>1
<1>5. \A w \in Workspaces : (w = m.to /\ p \in m.pages) \/ ((p \in live'[w] <=> p \in live[w])
        /\ forward'[w][p] = forward[w][p])
  BY <1>1, <1>2 DEF MoveInv, TypeOK, ForwardsEnded
<1>6. ASSUME NEW S \in SUBSET Workspaces, Led(p, S)', p \notin m.pages \/ m.to \notin S
      PROVE  Led(p, S)
  BY <1>1, <1>3, <1>4, <1>5, <1>6 DEF Led
<1>7. CASE p \in m.pages
  <2>1. HomedAt(p, m.from) /\ HomedAt(p, m.to)'
    BY <1>7, HomesImport DEF MoveInv
  <2>2. ASSUME NEW w \in Workspaces, WasIn(w, p)', NEW S \in SUBSET Workspaces, w \in S, Led(p, S)',
               m.to \notin S
        PROVE  FALSE
    <3>1. WasIn(w, p)
      BY <1>1, <1>3, <2>2 DEF WasIn, MoveInv, TypeOK
    <3>2. Led(p, S)
      BY <1>6, <2>2
    <3>3. m.from \in S
      BY <2>1, <2>2, <3>1, <3>2 DEF HomeReached, HomedAt
    <3>4. m.to \in S
      BY <1>1, <1>2, <1>7, <2>2, <3>3 DEF Led
    <3>5. QED
      BY <2>2, <3>4
  <2>3. QED
    BY <1>1, <1>2, <2>1, <2>2 DEF HomeReached
<1>8. CASE p \notin m.pages
  <2>1. HomesOf(p)' = HomesOf(p)
    BY <1>8, HomesImport DEF MoveInv
  <2>2. \A w \in Workspaces : WasIn(w, p)' => WasIn(w, p)
    BY <1>1, <1>2, <1>3, <1>8 DEF WasIn
  <2>3. QED
    BY <1>6, <1>8, <2>1, <2>2, ReachedKept
<1>9. QED
  BY <1>7, <1>8

LEMMA ForwardStep ==
  ASSUME OneAtATime, HasCopier = Finishers
  PROVE  ForwardInv /\ [Next]_vars => ForwardInv'
<1> SUFFICES ASSUME ForwardInv, [Next]_vars PROVE ForwardInv'
  OBVIOUS
<1>1. ASSUME NEW p \in Pages
      PROVE  HomeReached(p)'
  <2>1. CASE Quiet
    BY <2>1 DEF ForwardInv, Quiet, HomeReached, HomedAt, HomesOf, Superseded, WasIn, Led
  <2>2. CASE ~ Quiet
    BY <2>2, StepCases, ReachedBegin, ReachedAbort, ReachedComplete, ReachedImport DEF ForwardInv, MoveInv
  <2>3. QED
    BY <2>1, <2>2
<1>2. QED
  BY <1>1, MoveInvStep DEF ForwardInv

\* From wherever a page ever was, the forwards lead to a workspace that holds it, under
\* the same assumptions.
THEOREM ForwardsAlwaysLead ==
  ASSUME OneAtATime, HasCopier = Finishers
  PROVE  Spec => []ForwardsLead
<1>1. ASSUME ForwardInv
      PROVE  ForwardsLead
  <2>1. ASSUME NEW p \in Pages, NEW w \in Workspaces, WasIn(w, p),
               NEW S \in SUBSET Workspaces, w \in S, Followed(p, S), \A v \in S : p \notin live[v]
        PROVE  FALSE
    <3>1. Led(p, S)
      BY <1>1, <2>1 DEF Led, Followed, ForwardInv, MoveInv, Journal
    <3>2. PICK h \in S : HomedAt(p, h)
      BY <1>1, <2>1, <3>1 DEF ForwardInv, HomeReached
    <3>3. QED
      BY <2>1, <3>2 DEF HomedAt, HomesOf
  <2>2. QED
    BY <2>1 DEF ForwardsLead
<1>2. QED
  BY <1>1, ForwardInit, ForwardStep, PTL DEF Spec

=============================================================================
