------------------------------ MODULE PageTree ------------------------------
(***************************************************************************)
(* The page tree of one workspace: what the structural commands decide      *)
(* (wiki/src/core/structure.ts, wiki/src/core/move.ts) and what folding     *)
(* their events does (wiki/src/core/workspace.ts).  Commands are decided    *)
(* one after the other on the head of the stream, which is what CommandBus  *)
(* provides, so an action decides a command and folds its events.           *)
(*                                                                          *)
(* The order of siblings is left out: a list of children is its set.  The   *)
(* other workspaces are seen through what comes from them (imports) and     *)
(* what goes there (moves, which leave a forward behind).                    *)
(***************************************************************************)
EXTENDS Naturals, FiniteSets

CONSTANTS
  Pages,       \* page ids, which name their type
  Types,
  TypeOf,      \* the type of each page
  Required,    \* the types of the pinned children created with a page of a type
  Numbered,    \* the types that declare a serial field
  Names,       \* the titles callers choose
  Titles,      \* those and the derived ones
  ChildTitle(_, _),  \* the title of a required child, by its type and its owner's title
  Edges,       \* the pairs of pages that may be linked
  Others,      \* the other workspaces
  Imports,     \* the subtrees they may send
  MaxSerial,   \* bounds the numbers given
  Root, Here

ASSUME TreeConstants ==
  /\ TypeOf \in [Pages -> Types]
  /\ Required \in [Types -> SUBSET Types]
  /\ \A t \in Types : \A c \in Required[t] : Required[c] = {}    \* as in every page model
  /\ Numbered \subseteq Types
  /\ Names \subseteq Titles /\ Names # {}
  /\ \A t \in Types, x \in Names : ChildTitle(t, x) \in Titles
  /\ Edges \subseteq Pages \X Pages
  /\ MaxSerial \in Nat
  /\ Root \notin Pages
  /\ Here \notin Others

VARIABLES
  status,      \* whether the workspace is "active" or "archived"
  live,        \* the pages it holds
  parent,      \* of each page, or Root
  children,    \* of each page and of Root
  title,
  archived,    \* the archived pages
  pinned,      \* the pages tied to their owner
  serial,      \* the number of each page, 0 when it has none
  links,       \* edges, with the workspace their target was last known in
  moves,       \* pendingMoves: the pages that are leaving, and where to
  forward      \* where a page that left went, or Here

vars == <<status, live, parent, children, title, archived, pinned, serial, links, moves, forward>>

Edge == [from : Pages, to : Pages, at : Others \cup {Here}]

Move == [to : Others, pages : SUBSET Pages]

\* A subtree another workspace sends: its pages, each one's parent in it (or Root
\* for the roots) and attributes, and the links from its pages.
Import ==
  [pages : SUBSET Pages, parent : [Pages -> Pages \cup {Root}], title : [Pages -> Titles],
   archived : SUBSET Pages, pinned : SUBSET Pages, numbered : SUBSET Pages, links : SUBSET Edge]

ASSUME ImportsAreTrees ==
  \A b \in Imports :
    /\ b \in Import
    /\ b.archived \cup b.pinned \cup b.numbered \subseteq b.pages
    /\ \A p \in b.pages : b.parent[p] \in b.pages \cup {Root}
    /\ \A p \in b.pinned : b.parent[p] # Root
    /\ \A S \in SUBSET b.pages : S # {} => \E p \in S : b.parent[p] \notin S
    /\ \A l \in b.links : l.from \in b.pages

\* What is stored is what it should be, and no attribute outlives its page.
TypeOK ==
  /\ status \in {"active", "archived"}
  /\ live \subseteq Pages
  /\ parent \in [Pages -> Pages \cup {Root}]
  /\ children \in [Pages \cup {Root} -> SUBSET Pages]
  /\ title \in [Pages -> Titles]
  /\ archived \subseteq live
  /\ pinned \subseteq live
  /\ serial \in [Pages -> 0..MaxSerial]
  /\ links \subseteq Edge
  /\ moves \subseteq Move
  /\ forward \in [Pages -> Others \cup {Here}]

Init ==
  /\ status = "active"
  /\ live = {}
  /\ parent = [p \in Pages |-> Root]
  /\ children = [q \in Pages \cup {Root} |-> {}]
  /\ title = [p \in Pages |-> CHOOSE x \in Names : TRUE]
  /\ archived = {}
  /\ pinned = {}
  /\ serial = [p \in Pages |-> 0]
  /\ links = {}
  /\ moves = {}
  /\ forward = [p \in Pages |-> Here]

-----------------------------------------------------------------------------
Active == status = "active"

Frozen == UNION {m.pages : m \in moves}

\* S holds the children of its members.
Closed(S) == \A q \in S : children[q] \subseteq S

\* p and its descendants: what every closed set that holds p holds.
Subtree(p) == {x \in live : \A S \in SUBSET live : p \in S /\ Closed(S) => x \in S}

\* A child of q, other than p, has the title x.
TitleTaken(q, x, p) == \E c \in children[q] \ {p} : title[c] = x

MaxNumber(t) ==
  LET used == {serial[p] : p \in {p \in live : TypeOf[p] = t}} \cup {0}
  IN  CHOOSE n \in used : \A k \in used : k <= n

EditableFrozen(p) ==    \* mutant: also while the page is leaving
  p \in live \ archived

EditableUnknown(p) ==    \* mutant: does not ask whether the page exists
  p \notin archived /\ p \notin Frozen

\* Commands that change a page take an active one that is not leaving.
Editable(p) == p \in live \ archived /\ p \notin Frozen

\* The ids nothing in this workspace has ever named.
Fresh == {p \in Pages \ live : forward[p] = Here /\ \A l \in links : l.to # p}

CreatesAnywhere(q) ==    \* mutant: also under a page that is leaving
  q = Root \/ q \in live \ archived

CreatesUnder(q) == q = Root \/ Editable(q)

\* A required child of an active page is not created a second time.
Managed(q, t) ==
  /\ q # Root
  /\ t \in Required[TypeOf[q]]
  /\ \E c \in children[q] \ archived : TypeOf[c] = t

Minted(q, t) == MaxNumber(t) + 1

\* The page, under q, and its required children, pinned under it.  A process whose
\* models predate the serial field leaves the number 0.
CreatePage(p, kids, q, x, numbers) ==
  /\ Active
  /\ p \notin kids
  /\ kids \cup {p} \subseteq Fresh
  /\ {TypeOf[c] : c \in kids} = Required[TypeOf[p]]
  /\ \A c, d \in kids : TypeOf[c] = TypeOf[d] => c = d
  /\ CreatesUnder(q)
  /\ ~ Managed(q, TypeOf[p])
  /\ ~ TitleTaken(q, x, p)
  /\ live' = live \cup kids \cup {p}
  /\ parent' = [c \in Pages |-> IF c = p THEN q ELSE IF c \in kids THEN p ELSE parent[c]]
  /\ children' = [children EXCEPT ![q] = @ \cup {p}, ![p] = kids]
  /\ title' = [c \in Pages |->
       IF c = p THEN x ELSE IF c \in kids THEN ChildTitle(TypeOf[c], x) ELSE title[c]]
  /\ pinned' = pinned \cup kids
  /\ serial' = [c \in Pages |->
       IF c \notin kids \cup {p} THEN serial[c]
       ELSE IF numbers /\ TypeOf[c] \in Numbered THEN Minted(q, TypeOf[c]) ELSE 0]
  /\ serial' \in [Pages -> 0..MaxSerial]
  /\ UNCHANGED <<status, archived, links, moves, forward>>

MayHoldAny(q, p) ==    \* mutant: no check for a cycle
  q = Root \/ Editable(q)

MayHold(q, p) == q = Root \/ (Editable(q) /\ q \notin Subtree(p))

\* Under another parent, or elsewhere among the same siblings.  No title is checked.
Reparent(p, q) ==
  /\ Active
  /\ Editable(p)
  /\ q # parent[p] => p \notin pinned
  /\ MayHold(q, p)
  /\ parent' = [parent EXCEPT ![p] = q]
  /\ children' = [k \in Pages \cup {Root} |->
       IF k = q THEN children[k] \cup {p} ELSE IF k = parent[p] THEN children[k] \ {p} ELSE children[k]]
  /\ UNCHANGED <<status, live, title, archived, pinned, serial, links, moves, forward>>

\* The new order has to name the same children.
Reorder(q) ==
  /\ Active
  /\ q \notin Frozen
  /\ UNCHANGED vars

SetPageTitle(p, x) ==
  /\ Active
  /\ Editable(p)
  /\ ~ TitleTaken(parent[p], x, p)
  /\ title' = [title EXCEPT ![p] = x]
  /\ UNCHANGED <<status, live, parent, children, archived, pinned, serial, links, moves, forward>>

ArchivePage(p) ==
  /\ Active
  /\ Editable(p)
  /\ p \notin pinned
  /\ archived' = archived \cup {p}
  /\ UNCHANGED <<status, live, parent, children, title, pinned, serial, links, moves, forward>>

UnarchivePage(p) ==
  /\ Active
  /\ p \in live \cap archived /\ p \notin Frozen
  /\ archived' = archived \ {p}
  /\ UNCHANGED <<status, live, parent, children, title, pinned, serial, links, moves, forward>>

\* The edge a caller names: one without a workspace is local, or where the target
\* moved to.
Named(f, t, w) ==
  [from |-> f, to |-> t, at |-> IF w # Here THEN w ELSE IF t \in live THEN Here ELSE forward[t]]

\* Of a target in another workspace nothing is known here.
MayName(f, t, w) ==
  /\ f \in live \ Frozen
  /\ w = Here => t \in live \/ forward[t] # Here

Link(f, t, w) ==
  /\ Active
  /\ MayName(f, t, w)
  /\ links' = links \cup {Named(f, t, w)}
  /\ UNCHANGED <<status, live, parent, children, title, archived, pinned, serial, moves, forward>>

Unlink(f, t, w) ==
  /\ Active
  /\ MayName(f, t, w)
  /\ links' = links \ {Named(f, t, w)}
  /\ UNCHANGED <<status, live, parent, children, title, archived, pinned, serial, moves, forward>>

\* The pages S get the numbers after the highest of their type, in some order.
Numberings(S) ==
  {n \in [S -> 1..MaxSerial] : \A t \in {TypeOf[p] : p \in S} :
     LET alike == {p \in S : TypeOf[p] = t}
     IN  {n[p] : p \in alike} = (MaxNumber(t) + 1)..(MaxNumber(t) + Cardinality(alike))}

\* Numbers for the pages that predate the field; also for archived and leaving ones.
AssignSerials ==
  LET unset == {p \in live : TypeOf[p] \in Numbered /\ serial[p] = 0} IN
  /\ Active
  /\ \E n \in Numberings(unset) :
       serial' = [p \in Pages |-> IF p \in unset THEN n[p] ELSE serial[p]]
  /\ UNCHANGED <<status, live, parent, children, title, archived, pinned, links, moves, forward>>

ArchiveWorkspace ==
  /\ Active
  /\ status' = "archived"
  /\ UNCHANGED <<live, parent, children, title, archived, pinned, serial, links, moves, forward>>

UnarchiveWorkspace ==
  /\ status' = "active"
  /\ UNCHANGED <<live, parent, children, title, archived, pinned, serial, links, moves, forward>>

-----------------------------------------------------------------------------
(* Moves to and from another workspace.                                     *)

Movable(roots, pages) == roots \cap pinned = {} /\ pages \cap Frozen = {}

\* Freeze the subtrees of the pages asked for; one inside another's goes with it.
BeginPageMove(asked, w) ==
  LET roots == {r \in asked : \A a \in asked \ {r} : r \notin Subtree(a)}
      pages == UNION {Subtree(r) : r \in roots}
  IN  /\ Active
      /\ asked # {} /\ asked \subseteq live
      /\ Movable(roots, pages)
      /\ moves' = moves \cup {[to |-> w, pages |-> pages]}
      /\ UNCHANGED <<status, live, parent, children, title, archived, pinned, serial, links, forward>>

Redirected(l, m) ==
  IF l.at = Here /\ l.to \in m.pages THEN [l EXCEPT !.at = m.to] ELSE l

KeptLinks(m) ==    \* mutant: links into the pages that leave stay local
  {l \in links : l.from \notin m.pages}

\* The links that stay, those into the pages that leave now across workspaces.
StayingLinks(m) == {Redirected(l, m) : l \in {l \in links : l.from \notin m.pages}}

\* The pages leave, a forward each; also on an archived workspace.
CompletePageMove(m) ==
  /\ m \in moves
  /\ live' = live \ m.pages
  /\ parent' = [p \in Pages |-> IF p \in m.pages THEN Root ELSE parent[p]]
  /\ children' = [k \in Pages \cup {Root} |->
       IF k \in m.pages THEN {} ELSE {c \in children[k] : c \in m.pages => parent[c] # k}]
  /\ archived' = archived \ m.pages
  /\ pinned' = pinned \ m.pages
  /\ serial' = [p \in Pages |-> IF p \in m.pages THEN 0 ELSE serial[p]]
  /\ links' = StayingLinks(m)
  /\ moves' = moves \ {m}
  /\ forward' = [p \in Pages |-> IF p \in m.pages THEN m.to ELSE forward[p]]
  /\ UNCHANGED <<status, title>>

AbortPageMove(m) ==
  /\ m \in moves
  /\ moves' = moves \ {m}
  /\ UNCHANGED <<status, live, parent, children, title, archived, pinned, serial, links, forward>>

Arrived(l, b, w) ==
  IF l.at = w /\ l.to \in b.pages THEN [l EXCEPT !.at = Here] ELSE l

\* The links that come with pages: those whose target is here, or is elsewhere.
ComingLinks(b) == {l \in b.links : l.at = Here => l.to \in b.pages \cup live}

\* A subtree of another workspace lands under q; numbers are minted again.
ImportPages(b, w, q) ==
  LET roots == {p \in b.pages : b.parent[p] = Root} IN
  /\ Active
  /\ CreatesUnder(q)
  /\ b.pages \cap live = {}
  /\ \A r \in roots : ~ TitleTaken(q, b.title[r], r)
  /\ \A r, s \in roots : b.title[r] = b.title[s] => r = s
  /\ \E n \in Numberings(b.numbered) :
       serial' = [p \in Pages |->
         IF p \in b.numbered THEN n[p] ELSE IF p \in b.pages THEN 0 ELSE serial[p]]
  /\ live' = live \cup b.pages
  /\ parent' = [p \in Pages |->
       IF p \in roots THEN q ELSE IF p \in b.pages THEN b.parent[p] ELSE parent[p]]
  /\ children' = [k \in Pages \cup {Root} |->
       children[k] \cup (IF k = q THEN roots ELSE {})
                   \cup (IF k = Root THEN {} ELSE {p \in b.pages : b.parent[p] = k})]
  /\ title' = [p \in Pages |-> IF p \in b.pages THEN b.title[p] ELSE title[p]]
  /\ archived' = (archived \ b.pages) \cup b.archived
  /\ pinned' = (pinned \ b.pages) \cup b.pinned
  /\ links' = {Arrived(l, b, w) : l \in links} \cup ComingLinks(b)
  /\ forward' = [p \in Pages |-> IF p \in b.pages THEN Here ELSE forward[p]]
  /\ UNCHANGED <<status, moves>>

-----------------------------------------------------------------------------
Next ==
  \/ \E p \in Fresh, kids \in SUBSET Fresh, q \in Pages \cup {Root}, x \in Names, numbers \in BOOLEAN :
       CreatePage(p, kids, q, x, numbers)
  \/ \E p \in Pages, q \in Pages \cup {Root} : Reparent(p, q)
  \/ \E q \in Pages \cup {Root} : Reorder(q)
  \/ \E p \in Pages, x \in Names : SetPageTitle(p, x)
  \/ \E p \in Pages : ArchivePage(p) \/ UnarchivePage(p)
  \/ \E e \in Edges, w \in Others \cup {Here} : Link(e[1], e[2], w) \/ Unlink(e[1], e[2], w)
  \/ AssignSerials
  \/ ArchiveWorkspace \/ UnarchiveWorkspace
  \/ \E asked \in SUBSET live, w \in Others : BeginPageMove(asked, w)
  \/ \E m \in moves : CompletePageMove(m) \/ AbortPageMove(m)
  \/ \E b \in Imports, w \in Others, q \in Pages \cup {Root} : ImportPages(b, w, q)

Spec == Init /\ [][Next]_vars

-----------------------------------------------------------------------------
(* Properties.                                                              *)

\* The children lists and the parents say the same, of live pages only.
Listed ==
  \A q \in Pages \cup {Root} :
    children[q] = {p \in live : parent[p] = q}

ParentsLive == \A p \in live : parent[p] \in live \cup {Root}

\* Every set of pages has one whose parent is outside it: no page is its own ancestor.
Acyclic == \A S \in SUBSET live : S # {} => \E p \in S : parent[p] \notin S

\* The tree of the workspace, whatever is reparented, frozen, moved out and moved in.
TreeWellFormed == Listed /\ ParentsLive /\ Acyclic

\* No edge within the workspace is left pointing at, or from, a page that is not
\* here, and no forward is left for a page that came back: a local link goes where
\* its target is.  One to another workspace may be out of date; forwards follow it.
LinksResolve ==
  /\ \A l \in links : l.from \in live /\ (l.at = Here => l.to \in live)
  /\ \A p \in live : forward[p] = Here

\* What a pending move will take is still a whole subtree, nobody else's, and takes
\* the pinned pages with their owners.
FrozenClosed ==
  /\ \A m \in moves : m.pages \subseteq live /\ Closed(m.pages)
  /\ \A m, n \in moves : m # n => m.pages \cap n.pages = {}
  /\ \A m \in moves : \A p \in m.pages \cap pinned : parent[p] \in m.pages

LinkedFrom(p) == {l.to : l \in {l \in links : l.from = p}}

HeldStill(p, pages) ==
  /\ title'[p] = title[p]
  /\ (p \in archived') = (p \in archived)
  /\ parent[p] \in pages => parent'[p] = parent[p]
  /\ LinkedFrom(p)' = LinkedFrom(p)

\* While a move is pending, what its import carries does not change under it; the
\* numbers AssignSerials still gives to frozen pages are the exception.
FrozenUnchanged ==
  [][\A m \in moves \cap moves' : \A p \in m.pages : HeldStill(p, m.pages)]_vars

KeepsOwner(p) ==
  IF p \in live' THEN parent'[p] = parent[p] /\ p \in pinned' ELSE parent[p] \notin live'

\* A pinned page keeps its owner, and leaves with it or not at all.
PinnedWithOwner == [][\A p \in pinned : KeepsOwner(p)]_vars

=============================================================================
