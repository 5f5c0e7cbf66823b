------------------------------ MODULE TreeIndex ------------------------------
(***************************************************************************)
(* A store that holds every page of a workspace rendered, kept up to date  *)
(* by deltas: the search index and the files of the mirror.  A page's       *)
(* render shows the titles of its children and of the pages it links to,    *)
(* so a commit changes more renders than the pages it names;                 *)
(* affectedPageIds (wiki/src/search/render-docs.ts) computes which.         *)
(*                                                                          *)
(* A delta spans the commits since the last one that was written.  What it   *)
(* collects from the events is kept in delta; the dependents are found in    *)
(* the workspace as it is when the delta is written.                         *)
(***************************************************************************)
EXTENDS PageTree

CONSTANTS
  MaxLag,    \* bounds the commits a delta may span
  Absent     \* no document

VARIABLES
  delta,     \* the pages the events name, whether one was structural, and whether
             \* every page has to be rendered
  lag,       \* the commits the delta spans
  stale      \* the pages whose document may not be what they render to now

indexVars == <<delta, lag, stale>>

NoDelta == [touched |-> {}, structural |-> FALSE, whole |-> FALSE]

Render(p) ==
  [title |-> title[p], archived |-> p \in archived,
   children |-> {<<c, title[c]>> : c \in children[p]},
   references |-> {IF l.at = Here THEN <<l, title[l.to]>> ELSE <<l>> : l \in {l \in links : l.from = p}}]

Rendered == [p \in Pages |-> IF p \in live THEN Render(p) ELSE Absent]

\* The events of a commit name the pages S.
Collect(S, structural) ==
  delta' = [touched |-> delta.touched \cup (S \ {Root}),
            structural |-> delta.structural \/ structural, whole |-> delta.whole]

CollectAll(S) == delta' = [delta EXCEPT !.touched = @ \cup S, !.whole = TRUE]

\* A parent whose list shows a touched page, and the pages that link to one.
Dependents(S) ==
  ({parent[p] : p \in S \cap live} \cap live)
  \cup {l.from : l \in {l \in links : l.at = Here /\ l.to \in S}}

\* The pages touched, when the delta is written.
Touched ==
  delta.touched \cup (IF delta.whole THEN live ELSE {})

AffectedDirectly ==    \* mutant: nobody else is rendered
  Touched

AffectedPageIds ==
  IF delta.structural THEN Touched \cup Dependents(Touched) ELSE Touched

Moving(p, q) == {p, q, parent[p]}

Commit ==
  \/ \E p \in Fresh, kids \in SUBSET Fresh, q \in Pages \cup {Root}, x \in Names, numbers \in BOOLEAN :
       CreatePage(p, kids, q, x, numbers) /\ Collect(kids \cup {p}, TRUE)
  \/ \E p \in Pages, q \in Pages \cup {Root} : Reparent(p, q) /\ Collect(Moving(p, q), TRUE)
  \/ \E q \in Pages \cup {Root} : Reorder(q) /\ Collect({q}, TRUE)
  \/ \E p \in Pages, x \in Names : SetPageTitle(p, x) /\ Collect({p}, TRUE)
  \/ \E p \in Pages : (ArchivePage(p) \/ UnarchivePage(p)) /\ Collect({p}, TRUE)
  \/ \E e \in Edges, w \in Others \cup {Here} :
       /\ Link(e[1], e[2], w) \/ Unlink(e[1], e[2], w)
       /\ Collect({e[1]} \cup (IF w = Here /\ e[2] \in live THEN {e[2]} ELSE {}), FALSE)
  \/ AssignSerials /\ Collect({p \in live : serial'[p] # serial[p]}, FALSE)
  \/ (ArchiveWorkspace \/ UnarchiveWorkspace) /\ Collect({}, FALSE)
  \/ \E asked \in SUBSET live, w \in Others : BeginPageMove(asked, w) /\ Collect({}, FALSE)
  \/ \E m \in moves : CompletePageMove(m) /\ CollectAll(m.pages)
  \/ \E m \in moves : AbortPageMove(m) /\ Collect({}, FALSE)
  \/ \E b \in Imports, w \in Others, q \in Pages \cup {Root} :
       ImportPages(b, w, q) /\ Collect(b.pages, TRUE)

\* The delta is written: the affected pages are rendered, those that left removed.
WriteDelta ==
  /\ lag > 0
  /\ stale' = stale \ AffectedPageIds
  /\ delta' = NoDelta
  /\ lag' = 0
  /\ UNCHANGED vars

IndexInit ==
  /\ Init
  /\ delta = NoDelta
  /\ lag = 0
  /\ stale = {}

IndexNext ==
  \/ /\ lag < MaxLag
     /\ Commit
     /\ lag' = lag + 1
     /\ stale' = stale \cup {p \in Pages : Rendered'[p] # Rendered[p]}
  \/ WriteDelta

IndexSpec == IndexInit /\ [][IndexNext]_<<vars, indexVars>>

-----------------------------------------------------------------------------
(* Properties.                                                              *)

\* A delta covers every page whose render a commit it spans has changed: once it is
\* written, the documents are those of a complete rebuild.
DocsCurrent == lag = 0 => stale = {}

=============================================================================
