--------------------------- MODULE PageTree_proofs ---------------------------
(***************************************************************************)
(* The page tree stays a tree, whatever is created, reparented, moved out   *)
(* and moved in, in any order; links go where their targets are; and a       *)
(* pending move holds whole subtrees that do not change under it.  A delta   *)
(* of a derived store renders every document its commits have changed.       *)
(***************************************************************************)
EXTENDS TreeIndex, TLAPS

TreeInv == TypeOK /\ TreeWellFormed /\ FrozenClosed /\ LinksResolve

\* What the tree and the frozen subtrees are made of.
treeVars == <<live, parent, children, pinned, moves>>

-----------------------------------------------------------------------------
(* Subtrees.                                                                *)

\* A subtree is a set of pages with its root in it, and holds the children of its members.
LEMMA SubtreeClosed ==
  ASSUME Listed, live \subseteq Pages, NEW p \in live
  PROVE  /\ Subtree(p) \subseteq live
         /\ p \in Subtree(p)
         /\ Closed(Subtree(p))
<1>1. Subtree(p) \subseteq live /\ p \in Subtree(p)
  BY DEF Subtree
<1>2. ASSUME NEW q \in Subtree(p), NEW c \in children[q]
      PROVE  c \in Subtree(p)
  <2>1. q \in live /\ c \in live
    BY <1>1, <1>2 DEF Listed
  <2>2. ASSUME NEW S \in SUBSET live, p \in S, Closed(S)
        PROVE  c \in S
    BY <1>2, <2>2 DEF Subtree, Closed
  <2>3. QED
    BY <2>1, <2>2 DEF Subtree
<1>3. QED
  BY <1>1, <1>2 DEF Closed

\* Every page of a subtree but its root has its parent in it.
LEMMA SubtreeParents ==
  ASSUME Listed, live \subseteq Pages,
         NEW r \in live, NEW p \in Subtree(r), p # r
  PROVE  parent[p] \in Subtree(r)
<1> SUFFICES ASSUME parent[p] \notin Subtree(r) PROVE FALSE
  OBVIOUS
<1>1. p \in live
  BY DEF Subtree
<1> DEFINE S == Subtree(r) \ {p}
<1>2. S \in SUBSET live /\ r \in S
  BY SubtreeClosed
<1>3. Closed(S)
  <2>1. ASSUME NEW q \in S, NEW c \in children[q]
        PROVE  c \in S
    <3>1. c \in Subtree(r)
      BY <2>1, SubtreeClosed DEF Closed
    <3>2. parent[c] = q
      BY <2>1, <1>2 DEF Listed
    <3>3. QED
      BY <2>1, <3>1, <3>2
  <2>2. QED
    BY <2>1 DEF Closed
<1>4. QED
  BY <1>2, <1>3 DEF Subtree

\* A union of closed sets is closed.
LEMMA UnionClosed ==
  ASSUME NEW C, \A S \in C : Closed(S)
  PROVE  Closed(UNION C)
BY DEF Closed

-----------------------------------------------------------------------------
(* Types.                                                                   *)

LEMMA TypeInit == Init => TypeOK
BY TreeConstants DEF Init, TypeOK

\* Every action keeps the types.
LEMMA TypeStep == TypeOK /\ [Next]_vars => TypeOK'
<1> SUFFICES ASSUME TypeOK, [Next]_vars PROVE TypeOK'
  OBVIOUS
<1> USE TreeConstants DEF TypeOK
<1>1. ASSUME NEW p \in Fresh, NEW kids \in SUBSET Fresh, NEW q \in Pages \cup {Root}, NEW x \in Names,
             NEW numbers \in BOOLEAN, CreatePage(p, kids, q, x, numbers)
      PROVE  TypeOK'
  <2>1. p \in Pages /\ kids \subseteq Pages
    BY DEF Fresh
  <2>2. children' \in [Pages \cup {Root} -> SUBSET Pages]
    BY <1>1, <2>1 DEF CreatePage
  <2>3. title' \in [Pages -> Titles] /\ parent' \in [Pages -> Pages \cup {Root}]
    BY <1>1, <2>1 DEF CreatePage
  <2>4. QED
    BY <1>1, <2>1, <2>2, <2>3 DEF CreatePage
<1>2. ASSUME NEW p \in Pages, NEW q \in Pages \cup {Root}, Reparent(p, q)
      PROVE  TypeOK'
  BY <1>2 DEF Reparent
<1>3. ASSUME NEW q \in Pages \cup {Root}, Reorder(q)
      PROVE  TypeOK'
  BY <1>3 DEF Reorder, vars
<1>4. ASSUME NEW p \in Pages, NEW x \in Names, SetPageTitle(p, x)
      PROVE  TypeOK'
  BY <1>4 DEF SetPageTitle
<1>5. ASSUME NEW p \in Pages, ArchivePage(p) \/ UnarchivePage(p)
      PROVE  TypeOK'
  BY <1>5 DEF ArchivePage, UnarchivePage, Editable
<1>6. ASSUME NEW e \in Edges, NEW w \in Others \cup {Here}, Link(e[1], e[2], w) \/ Unlink(e[1], e[2], w)
      PROVE  TypeOK'
  <2>1. Named(e[1], e[2], w) \in Edge
    BY DEF Named, Edge
  <2>2. QED
    BY <1>6, <2>1 DEF Link, Unlink
<1>7. CASE AssignSerials
  <2>1. serial' \in [Pages -> 0..MaxSerial]
    BY <1>7 DEF AssignSerials, Numberings
  <2>2. QED
    BY <1>7, <2>1 DEF AssignSerials
<1>8. CASE ArchiveWorkspace \/ UnarchiveWorkspace
  BY <1>8 DEF ArchiveWorkspace, UnarchiveWorkspace
<1>9. ASSUME NEW asked \in SUBSET live, NEW w \in Others, BeginPageMove(asked, w)
      PROVE  TypeOK'
  <2>1. moves' \subseteq Move
    <3> DEFINE pages == UNION {Subtree(r) : r \in {r \in asked : \A a \in asked \ {r} : r \notin Subtree(a)}}
    <3>1. pages \subseteq Pages
      BY DEF Subtree
    <3>2. [to |-> w, pages |-> pages] \in Move
      BY <3>1 DEF Move
    <3>3. QED
      BY <1>9, <3>2 DEF BeginPageMove
  <2>2. QED
    BY <1>9, <2>1 DEF BeginPageMove
<1>10. ASSUME NEW m \in moves, CompletePageMove(m)
       PROVE  TypeOK'
  <2>1. m \in Move
    OBVIOUS
  <2>2. links' \subseteq Edge
    <3>1. \A l \in Edge : Redirected(l, m) \in Edge
      BY <2>1 DEF Edge, Redirected, Move
    <3>2. QED
      BY <1>10, <3>1 DEF CompletePageMove, StayingLinks
  <2>3. children' \in [Pages \cup {Root} -> SUBSET Pages]
    BY <1>10 DEF CompletePageMove
  <2>4. forward' \in [Pages -> Others \cup {Here}]
    BY <1>10, <2>1 DEF CompletePageMove, Move
  <2>5. parent' \in [Pages -> Pages \cup {Root}] /\ serial' \in [Pages -> 0..MaxSerial]
    BY <1>10 DEF CompletePageMove
  <2>6. QED
    BY <1>10, <2>2, <2>3, <2>4, <2>5 DEF CompletePageMove
<1>11. ASSUME NEW m \in moves, AbortPageMove(m)
       PROVE  TypeOK'
  BY <1>11 DEF AbortPageMove
<1>12. ASSUME NEW b \in Imports, NEW w \in Others, NEW q \in Pages \cup {Root}, ImportPages(b, w, q)
       PROVE  TypeOK'
  <2>1. b \in Import /\ b.archived \cup b.pinned \cup b.numbered \subseteq b.pages
    BY ImportsAreTrees
  <2>2. links' \subseteq Edge
    <3>1. \A l \in Edge : Arrived(l, b, w) \in Edge
      BY DEF Edge, Arrived
    <3>2. QED
      BY <1>12, <2>1, <3>1 DEF ImportPages, ComingLinks, Import
  <2>3. children' \in [Pages \cup {Root} -> SUBSET Pages] /\ parent' \in [Pages -> Pages \cup {Root}]
    BY <1>12, <2>1 DEF ImportPages, Import
  <2>4. serial' \in [Pages -> 0..MaxSerial]
    BY <1>12, <2>1 DEF ImportPages, Numberings
  <2>5. title' \in [Pages -> Titles] /\ forward' \in [Pages -> Others \cup {Here}]
    BY <1>12, <2>1 DEF ImportPages, Import
  <2>6. live' \subseteq Pages /\ archived' \subseteq live' /\ pinned' \subseteq live'
    BY <1>12, <2>1 DEF ImportPages, Import
  <2>7. QED
    BY <1>12, <2>2, <2>3, <2>4, <2>5, <2>6 DEF ImportPages
<1>13. CASE UNCHANGED vars
  BY <1>13 DEF vars
<1> HIDE TreeConstants DEF TypeOK
<1>14. QED
  BY <1>1, <1>2, <1>3, <1>4, <1>5, <1>6, <1>7, <1>8, <1>9, <1>10, <1>11, <1>12, <1>13 DEF Next

\* Every variable of the workspace keeps its type, and no attribute outlives its page.
THEOREM TreeTypeCorrect == Spec => []TypeOK
BY TypeInit, TypeStep, PTL DEF Spec

-----------------------------------------------------------------------------
(* The tree.                                                                *)

\* The steps that touch the tree or the pages that are leaving.
LEMMA TreeCases ==
  ASSUME [Next]_vars
  PROVE  \/ \E p \in Fresh, kids \in SUBSET Fresh, q \in Pages \cup {Root}, x \in Names, numbers \in BOOLEAN :
              CreatePage(p, kids, q, x, numbers)
         \/ \E p \in Pages, q \in Pages \cup {Root} : Reparent(p, q)
         \/ \E asked \in SUBSET live, w \in Others : BeginPageMove(asked, w)
         \/ \E m \in moves : CompletePageMove(m)
         \/ \E m \in moves : AbortPageMove(m)
         \/ \E b \in Imports, w \in Others, q \in Pages \cup {Root} : ImportPages(b, w, q)
         \/ UNCHANGED treeVars
BY DEF Next, vars, treeVars, Reorder, SetPageTitle, ArchivePage, UnarchivePage, Link, Unlink, AssignSerials,
       ArchiveWorkspace, UnarchiveWorkspace

LEMMA CreateTree ==
  ASSUME TypeOK, TreeWellFormed,
         NEW p \in Fresh, NEW kids \in SUBSET Fresh, NEW q \in Pages \cup {Root}, NEW x, NEW numbers,
         CreatePage(p, kids, q, x, numbers)
  PROVE  TreeWellFormed'
<1>0. Listed /\ ParentsLive /\ Acyclic
  BY DEF TreeWellFormed
<1>1. /\ Root \notin Pages /\ p \in Pages /\ kids \subseteq Pages /\ p \notin kids
      /\ p \notin live /\ kids \cap live = {} /\ live \subseteq Pages
      /\ q = Root \/ q \in live
  BY TreeConstants DEF Fresh, CreatePage, CreatesUnder, Editable, TypeOK
<1>2. /\ live' = live \cup kids \cup {p}
      /\ \A c \in Pages : parent'[c] = IF c = p THEN q ELSE IF c \in kids THEN p ELSE parent[c]
      /\ \A k \in Pages \cup {Root} :
           children'[k] = IF k = p THEN kids ELSE IF k = q THEN children[k] \cup {p} ELSE children[k]
  BY <1>1 DEF CreatePage, TypeOK
<1>3. Listed'
  <2> SUFFICES ASSUME NEW k \in Pages \cup {Root}, NEW c
               PROVE  c \in children'[k] <=> c \in live' /\ parent'[c] = k
    BY <1>2 DEF Listed
  <2>1. c \in children[k] <=> c \in live /\ parent[c] = k
    BY <1>0 DEF Listed
  <2>2. CASE k = p
    <3>1. c \in live => parent'[c] = parent[c] /\ parent[c] # p
      BY <1>0, <1>1, <1>2 DEF ParentsLive
    <3>2. c \in kids => parent'[c] = p
      BY <1>1, <1>2
    <3>3. parent'[p] = q /\ q # p
      BY <1>1, <1>2
    <3>4. QED
      BY <1>1, <1>2, <2>2, <3>1, <3>2, <3>3
  <2>3. CASE k # p
    BY <1>1, <1>2, <2>1, <2>3
  <2>4. QED
    BY <2>2, <2>3
<1>4. ParentsLive'
  BY <1>0, <1>1, <1>2 DEF ParentsLive
<1>5. ASSUME NEW S \in SUBSET live', S # {}
      PROVE  \E c \in S : parent'[c] \notin S
  <2>1. CASE S \cap live # {}
    <3>1. PICK c \in S \cap live : parent[c] \notin S \cap live
      BY <1>0, <2>1 DEF Acyclic
    <3>2. parent'[c] = parent[c] /\ parent[c] \in live \cup {Root}
      BY <1>0, <1>1, <1>2 DEF ParentsLive
    <3>3. Root \notin S
      BY <1>1, <1>2
    <3>4. QED
      BY <3>1, <3>2, <3>3
  <2>2. CASE S \cap live = {} /\ p \in S
    BY <1>1, <1>2, <2>2
  <2>3. CASE S \cap live = {} /\ p \notin S
    BY <1>1, <1>2, <1>5, <2>3
  <2>4. QED
    BY <2>1, <2>2, <2>3
<1>6. QED
  BY <1>3, <1>4, <1>5 DEF Acyclic, TreeWellFormed

\* No cycle is closed: the pages of one would be those of the page's subtree, in which
\* the new parent is not, and those outside it, which had a page under another one.
LEMMA ReparentTree ==
  ASSUME TypeOK, TreeWellFormed, NEW p \in Pages, NEW q \in Pages \cup {Root}, Reparent(p, q)
  PROVE  TreeWellFormed'
<1>0. Listed /\ ParentsLive /\ Acyclic
  BY DEF TreeWellFormed
<1>1. Root \notin Pages /\ p \in live /\ live \subseteq Pages /\ (q = Root \/ (q \in live /\ q \notin Subtree(p)))
  BY TreeConstants DEF Reparent, MayHold, Editable, TypeOK
<1>2. /\ live' = live
      /\ \A c \in Pages : parent'[c] = IF c = p THEN q ELSE parent[c]
      /\ \A k \in Pages \cup {Root} :
           children'[k] = IF k = q THEN children[k] \cup {p}
                          ELSE IF k = parent[p] THEN children[k] \ {p} ELSE children[k]
  BY DEF Reparent, TypeOK
<1>3. Listed'
  <2> SUFFICES ASSUME NEW k \in Pages \cup {Root}, NEW c
               PROVE  c \in children'[k] <=> c \in live' /\ parent'[c] = k
    BY <1>2 DEF Listed
  <2>1. c \in children[k] <=> c \in live /\ parent[c] = k
    BY <1>0 DEF Listed
  <2>2. CASE k = q
    <3>1. children'[k] = children[k] \cup {p}
      BY <1>2, <2>2
    <3>2. CASE c = p
      BY <1>1, <1>2, <2>2, <3>1, <3>2
    <3>3. CASE c # p
      BY <1>1, <1>2, <2>1, <2>2, <3>1, <3>3
    <3>4. QED
      BY <3>2, <3>3
  <2>3. CASE k # q /\ k = parent[p]
    BY <1>1, <1>2, <2>1, <2>3
  <2>4. CASE k # q /\ k # parent[p]
    BY <1>1, <1>2, <2>1, <2>4
  <2>5. QED
    BY <2>2, <2>3, <2>4
<1>4. ParentsLive'
  BY <1>0, <1>1, <1>2 DEF ParentsLive
<1>5. ASSUME NEW S \in SUBSET live, S # {}, \A c \in S : parent'[c] \in S
      PROVE  FALSE
  <2>1. p \in S
    BY <1>0, <1>1, <1>2, <1>5 DEF Acyclic
  <2>2. q \in S /\ q \in live /\ q \notin Subtree(p)
    BY <1>1, <1>2, <1>5, <2>1
  <2>3. S \ Subtree(p) \in SUBSET live /\ S \ Subtree(p) # {}
    BY <2>2
  <2>4. PICK c \in S \ Subtree(p) : parent[c] \notin S \ Subtree(p)
    BY <1>0, <2>3 DEF Acyclic
  <2>5. p \in Subtree(p)
    BY <1>0, <1>1, SubtreeClosed
  <2>6. parent[c] = parent'[c] /\ parent[c] \in S
    BY <1>1, <1>2, <1>5, <2>4, <2>5
  <2>7. parent[c] \in Subtree(p) /\ c \in children[parent[c]]
    BY <1>0, <1>1, <2>4, <2>6 DEF Listed, ParentsLive
  <2>8. c \in Subtree(p)
    BY <1>0, <1>1, <2>7, SubtreeClosed DEF Closed
  <2>9. QED
    BY <2>4, <2>8
<1>6. QED
  BY <1>2, <1>3, <1>4, <1>5 DEF Acyclic, TreeWellFormed

LEMMA CompleteTree ==
  ASSUME TypeOK, TreeWellFormed, FrozenClosed, NEW m \in moves, CompletePageMove(m)
  PROVE  TreeWellFormed'
<1>0. Listed /\ ParentsLive /\ Acyclic
  BY DEF TreeWellFormed
<1>1. Root \notin Pages /\ m.pages \subseteq live /\ Closed(m.pages) /\ live \subseteq Pages
  BY TreeConstants DEF FrozenClosed, TypeOK
<1>2. /\ live' = live \ m.pages
      /\ \A c \in Pages : parent'[c] = IF c \in m.pages THEN Root ELSE parent[c]
      /\ \A k \in Pages \cup {Root} :
           children'[k] = IF k \in m.pages THEN {}
                          ELSE {c \in children[k] : c \in m.pages => parent[c] # k}
  BY DEF CompletePageMove, TypeOK
<1>3. \A c \in live : parent[c] \in m.pages => c \in m.pages
  BY <1>0, <1>1 DEF Closed, Listed, ParentsLive
<1>4. Listed'
  <2> SUFFICES ASSUME NEW k \in Pages \cup {Root}, NEW c
               PROVE  c \in children'[k] <=> c \in live' /\ parent'[c] = k
    BY <1>2 DEF Listed
  <2>1. c \in children[k] <=> c \in live /\ parent[c] = k
    BY <1>0 DEF Listed
  <2>2. CASE k \in m.pages
    BY <1>1, <1>2, <1>3, <2>2
  <2>3. CASE k \notin m.pages
    BY <1>1, <1>2, <2>1, <2>3
  <2>4. QED
    BY <2>2, <2>3
<1>5. ParentsLive'
  BY <1>0, <1>1, <1>2, <1>3 DEF ParentsLive
<1>6. Acyclic'
  <2>1. ASSUME NEW S \in SUBSET live', S # {}
        PROVE  \E c \in S : parent'[c] \notin S
    BY <1>0, <1>1, <1>2, <2>1 DEF Acyclic
  <2>2. QED
    BY <2>1 DEF Acyclic
<1>7. QED
  BY <1>4, <1>5, <1>6 DEF TreeWellFormed

LEMMA ImportTree ==
  ASSUME TypeOK, TreeWellFormed, NEW b \in Imports, NEW w, NEW q \in Pages \cup {Root}, ImportPages(b, w, q)
  PROVE  TreeWellFormed'
<1>0. Listed /\ ParentsLive /\ Acyclic
  BY DEF TreeWellFormed
<1>1. /\ Root \notin Pages /\ b.pages \subseteq Pages /\ b.pages \cap live = {} /\ live \subseteq Pages
      /\ q = Root \/ q \in live
      /\ \A c \in b.pages : b.parent[c] \in b.pages \cup {Root}
  BY TreeConstants, ImportsAreTrees DEF ImportPages, CreatesUnder, Editable, TypeOK, Import
<1>2. /\ live' = live \cup b.pages
      /\ \A c \in Pages :
           parent'[c] = IF c \in b.pages THEN (IF b.parent[c] = Root THEN q ELSE b.parent[c]) ELSE parent[c]
      /\ \A k \in Pages \cup {Root} :
           children'[k] = children[k] \cup (IF k = q THEN {c \in b.pages : b.parent[c] = Root} ELSE {})
                          \cup (IF k = Root THEN {} ELSE {c \in b.pages : b.parent[c] = k})
  BY <1>1 DEF ImportPages, TypeOK
<1>3. Listed'
  <2> SUFFICES ASSUME NEW k \in Pages \cup {Root}, NEW c
               PROVE  c \in children'[k] <=> c \in live' /\ parent'[c] = k
    BY <1>2 DEF Listed
  <2>1. c \in children[k] <=> c \in live /\ parent[c] = k
    BY <1>0 DEF Listed
  <2>2. CASE c \in b.pages
    BY <1>1, <1>2, <2>1, <2>2
  <2>3. CASE c \notin b.pages
    BY <1>1, <1>2, <2>1, <2>3
  <2>4. QED
    BY <2>2, <2>3
<1>4. ParentsLive'
  BY <1>0, <1>1, <1>2 DEF ParentsLive
<1>5. ASSUME NEW S \in SUBSET live', S # {}
      PROVE  \E c \in S : parent'[c] \notin S
  <2>1. CASE S \cap live # {}
    <3>1. PICK c \in S \cap live : parent[c] \notin S \cap live
      BY <1>0, <2>1 DEF Acyclic
    <3>2. parent'[c] = parent[c] /\ parent[c] \in live \cup {Root}
      BY <1>0, <1>1, <1>2 DEF ParentsLive
    <3>3. Root \notin S
      BY <1>1, <1>2
    <3>4. QED
      BY <3>1, <3>2, <3>3
  <2>2. CASE S \cap live = {}
    <3>1. S \in SUBSET b.pages
      BY <1>2, <2>2
    <3>2. PICK c \in S : b.parent[c] \notin S
      BY <1>5, <3>1, ImportsAreTrees
    <3>3. parent'[c] = IF b.parent[c] = Root THEN q ELSE b.parent[c]
      BY <1>1, <1>2, <3>1
    <3>4. q \notin S
      BY <1>1, <3>1
    <3>5. QED
      BY <3>2, <3>3, <3>4
  <2>3. QED
    BY <2>1, <2>2
<1>6. QED
  BY <1>3, <1>4, <1>5 DEF Acyclic, TreeWellFormed

LEMMA TreeStep == TypeOK /\ TreeWellFormed /\ FrozenClosed /\ [Next]_vars => TreeWellFormed'
<1> SUFFICES ASSUME TypeOK, TreeWellFormed, FrozenClosed, [Next]_vars PROVE TreeWellFormed'
  OBVIOUS
<1>1. CASE UNCHANGED <<live, parent, children>>
  BY <1>1 DEF TreeWellFormed, Listed, ParentsLive, Acyclic
<1>2. ASSUME NEW asked \in SUBSET live, NEW w \in Others, BeginPageMove(asked, w)
      PROVE  UNCHANGED <<live, parent, children>>
  BY <1>2 DEF BeginPageMove
<1>3. ASSUME NEW m \in moves, AbortPageMove(m)
      PROVE  UNCHANGED <<live, parent, children>>
  BY <1>3 DEF AbortPageMove
<1>4. UNCHANGED treeVars => UNCHANGED <<live, parent, children>>
  BY DEF treeVars
<1>5. QED
  BY <1>1, <1>2, <1>3, <1>4, TreeCases, CreateTree, ReparentTree, CompleteTree, ImportTree

-----------------------------------------------------------------------------
(* Pending moves and links.                                                 *)

\* A move that begins takes whole subtrees, with the owners of their pinned pages.
LEMMA BeginFrozen ==
  ASSUME TypeOK, TreeWellFormed, FrozenClosed, NEW asked \in SUBSET live, NEW w \in Others, BeginPageMove(asked, w)
  PROVE  FrozenClosed'
<1> DEFINE roots == {r \in asked : \A a \in asked \ {r} : r \notin Subtree(a)}
           pages == UNION {Subtree(r) : r \in roots}
           new == [to |-> w, pages |-> pages]
<1>0. Listed /\ ParentsLive /\ live \subseteq Pages
  BY DEF TreeWellFormed, TypeOK
<1>1. /\ roots \cap pinned = {} /\ pages \cap Frozen = {}
      /\ moves' = moves \cup {new}
      /\ UNCHANGED <<live, children, parent, pinned>>
  BY DEF BeginPageMove, Movable
<1>2. pages \subseteq live
  BY DEF Subtree
<1>3. Closed(pages)
  <2>1. \A S \in {Subtree(r) : r \in roots} : Closed(S)
    BY <1>0, SubtreeClosed
  <2>2. QED
    BY <2>1, UnionClosed
<1>4. \A p \in pages \cap pinned : parent[p] \in pages
  BY <1>0, <1>1, SubtreeParents
<1>5. \A m \in moves : m.pages \cap pages = {}
  BY <1>1 DEF Frozen
<1>6. new.pages = pages
  OBVIOUS
<1> HIDE DEF new, pages
<1>7. QED
  BY <1>1, <1>2, <1>3, <1>4, <1>5, <1>6 DEF FrozenClosed, Closed

LEMMA FrozenStep == TypeOK /\ TreeWellFormed /\ FrozenClosed /\ [Next]_vars => FrozenClosed'
<1> SUFFICES ASSUME TypeOK, TreeWellFormed, FrozenClosed, [Next]_vars PROVE FrozenClosed'
  OBVIOUS
<1>0. /\ Listed /\ ParentsLive /\ live \subseteq Pages /\ Root \notin Pages
      /\ \A m \in moves : m.pages \subseteq Frozen /\ m.pages \subseteq live
  BY TreeConstants DEF TreeWellFormed, TypeOK, Frozen, FrozenClosed
<1>1. ASSUME NEW p \in Fresh, NEW kids \in SUBSET Fresh, NEW q \in Pages \cup {Root}, NEW x \in Names,
             NEW numbers \in BOOLEAN, CreatePage(p, kids, q, x, numbers)
      PROVE  FrozenClosed'
  <2>1. /\ live \subseteq live' /\ moves' = moves /\ pinned' = pinned \cup kids
        /\ p \notin live /\ kids \cap live = {}
        /\ \A c \in live : parent'[c] = parent[c]
    BY <1>0, <1>1 DEF CreatePage, Fresh
  <2>2. \A m \in moves : \A c \in m.pages : children'[c] = children[c]
    <3>1. q \notin Frozen
      BY <1>0, <1>1 DEF CreatePage, CreatesUnder, Editable, FrozenClosed, Frozen
    <3>2. QED
      BY <1>0, <1>1, <2>1, <3>1 DEF CreatePage, TypeOK
  <2>3. QED
    BY <1>0, <2>1, <2>2 DEF FrozenClosed, Closed
<1>2. ASSUME NEW p \in Pages, NEW q \in Pages \cup {Root}, Reparent(p, q)
      PROVE  FrozenClosed'
  <2>1. /\ UNCHANGED <<live, moves, pinned>> /\ p \notin Frozen
        /\ \A c \in live \ {p} : parent'[c] = parent[c]
    BY <1>0, <1>2 DEF Reparent, Editable, TypeOK
  <2>2. \A m \in moves : \A c \in m.pages : children'[c] \subseteq children[c]
    <3>1. q \notin Frozen
      BY <1>0, <1>2 DEF Reparent, MayHold, Editable, Frozen
    <3>2. QED
      BY <1>0, <1>2, <3>1 DEF Reparent, TypeOK
  <2>3. QED
    BY <1>0, <2>1, <2>2 DEF FrozenClosed, Closed
<1>3. ASSUME NEW m \in moves, CompletePageMove(m)
      PROVE  FrozenClosed'
  <2>1. /\ live' = live \ m.pages /\ moves' = moves \ {m} /\ pinned' \subseteq pinned
        /\ \A c \in live \ m.pages : parent'[c] = parent[c]
        /\ \A c \in live \ m.pages : children'[c] \subseteq children[c]
    BY <1>0, <1>3 DEF CompletePageMove, TypeOK
  <2>2. \A n \in moves \ {m} : n.pages \subseteq live \ m.pages
    BY <1>0 DEF FrozenClosed
  <2>3. QED
    BY <1>0, <2>1, <2>2 DEF FrozenClosed, Closed
<1>4. ASSUME NEW m \in moves, AbortPageMove(m)
      PROVE  FrozenClosed'
  BY <1>4 DEF AbortPageMove, FrozenClosed, Closed
<1>5. ASSUME NEW b \in Imports, NEW w \in Others, NEW q \in Pages \cup {Root}, ImportPages(b, w, q)
      PROVE  FrozenClosed'
  <2>1. b.pinned \subseteq b.pages /\ \A c \in b.pages : b.parent[c] \in b.pages \cup {Root}
    BY ImportsAreTrees
  <2>2. /\ live \subseteq live' /\ moves' = moves /\ pinned' \subseteq pinned \cup b.pages
        /\ b.pages \cap live = {}
        /\ \A c \in live : parent'[c] = parent[c]
    BY <1>0, <1>5, <2>1 DEF ImportPages
  <2>3. \A m \in moves : \A c \in m.pages : children'[c] = children[c]
    <3>1. q \notin Frozen
      BY <1>0, <1>5 DEF ImportPages, CreatesUnder, Editable, Frozen
    <3>2. ASSUME NEW m \in moves, NEW k \in m.pages
          PROVE  children'[k] = children[k]
      <4>1. k \in Pages /\ k # q /\ k # Root /\ k \notin b.pages
        BY <1>0, <2>2, <3>1, <3>2
      <4>2. children'[k] = children[k] \cup {} \cup {c \in b.pages : b.parent[c] = k}
        BY <1>5, <4>1 DEF ImportPages
      <4>3. \A c \in b.pages : b.parent[c] # k
        BY <2>1, <4>1
      <4>4. QED
        BY <4>2, <4>3
    <3>3. QED
      BY <3>2
  <2>4. QED
    BY <1>0, <2>2, <2>3 DEF FrozenClosed, Closed
<1>6. CASE UNCHANGED treeVars
  BY <1>6 DEF treeVars, FrozenClosed, Closed
<1>7. QED
  BY <1>1, <1>2, <1>3, <1>4, <1>5, <1>6, TreeCases, BeginFrozen

\* The steps that touch the links, or which pages are here.
LEMMA LinkCases ==
  ASSUME [Next]_vars
  PROVE  \/ \E p \in Fresh, kids \in SUBSET Fresh, q \in Pages \cup {Root}, x \in Names, numbers \in BOOLEAN :
              CreatePage(p, kids, q, x, numbers)
         \/ \E e \in Edges, w \in Others \cup {Here} : Link(e[1], e[2], w) \/ Unlink(e[1], e[2], w)
         \/ \E m \in moves : CompletePageMove(m)
         \/ \E b \in Imports, w \in Others, q \in Pages \cup {Root} : ImportPages(b, w, q)
         \/ UNCHANGED <<live, links, forward>>
BY DEF Next, vars, Reparent, Reorder, SetPageTitle, ArchivePage, UnarchivePage, AssignSerials,
       ArchiveWorkspace, UnarchiveWorkspace, BeginPageMove, AbortPageMove

LEMMA LinksStep == TypeOK /\ FrozenClosed /\ LinksResolve /\ [Next]_vars => LinksResolve'
<1> SUFFICES ASSUME TypeOK, FrozenClosed, LinksResolve, [Next]_vars PROVE LinksResolve'
  OBVIOUS
<1> USE DEF LinksResolve
<1>1. ASSUME NEW p \in Fresh, NEW kids \in SUBSET Fresh, NEW q \in Pages \cup {Root}, NEW x \in Names,
             NEW numbers \in BOOLEAN, CreatePage(p, kids, q, x, numbers)
      PROVE  LinksResolve'
  BY <1>1 DEF CreatePage, Fresh
<1>2. ASSUME NEW e \in Edges, NEW w \in Others \cup {Here}, Link(e[1], e[2], w) \/ Unlink(e[1], e[2], w)
      PROVE  LinksResolve'
  <2>1. Named(e[1], e[2], w).from = e[1] /\ Named(e[1], e[2], w).to = e[2]
    BY DEF Named
  <2>2. MayName(e[1], e[2], w) /\ Named(e[1], e[2], w).at = Here => e[1] \in live /\ e[2] \in live
    BY DEF MayName, Named
  <2>3. QED
    BY <1>2, <2>1, <2>2 DEF Link, Unlink, MayName
<1>3. ASSUME NEW m \in moves, CompletePageMove(m)
      PROVE  LinksResolve'
  <2>1. /\ live' = live \ m.pages /\ live \subseteq Pages
        /\ \A p \in Pages : forward'[p] = IF p \in m.pages THEN m.to ELSE forward[p]
    BY <1>3 DEF CompletePageMove, TypeOK
  <2>2. m.to # Here
    BY TreeConstants DEF TypeOK, Move
  <2>3. ASSUME NEW k \in links'
        PROVE  k.from \in live' /\ (k.at = Here => k.to \in live')
    <3>1. PICK l \in links : l.from \notin m.pages /\ k = Redirected(l, m)
      BY <1>3, <2>3 DEF CompletePageMove, StayingLinks
    <3>2. l \in Edge
      BY DEF TypeOK
    <3>3. k.from = l.from /\ k.to = l.to
      BY <3>1, <3>2 DEF Redirected, Edge
    <3>4. k.at = Here => l.at = Here /\ l.to \notin m.pages
      BY <2>2, <3>1, <3>2 DEF Redirected, Edge
    <3>5. QED
      BY <2>1, <3>1, <3>3, <3>4
  <2>4. QED
    BY <2>1, <2>3
<1>4. ASSUME NEW b \in Imports, NEW w \in Others, NEW q \in Pages \cup {Root}, ImportPages(b, w, q)
      PROVE  LinksResolve'
  <2>1. /\ live' = live \cup b.pages /\ live \subseteq Pages /\ b.pages \subseteq Pages
        /\ \A p \in Pages : forward'[p] = IF p \in b.pages THEN Here ELSE forward[p]
        /\ links' = {Arrived(l, b, w) : l \in links} \cup ComingLinks(b)
    BY <1>4, ImportsAreTrees DEF ImportPages, TypeOK, Import
  <2>2. ASSUME NEW l \in links
        PROVE  Arrived(l, b, w).from \in live' /\ (Arrived(l, b, w).at = Here => Arrived(l, b, w).to \in live')
    <3>1. l \in Edge
      BY DEF TypeOK
    <3>2. Arrived(l, b, w).from = l.from /\ Arrived(l, b, w).to = l.to
      BY <3>1 DEF Arrived, Edge
    <3>3. Arrived(l, b, w).at = Here => l.at = Here \/ l.to \in b.pages
      BY <3>1 DEF Arrived, Edge
    <3>4. QED
      BY <2>1, <3>2, <3>3
  <2>3. \A l \in ComingLinks(b) : l.from \in live' /\ (l.at = Here => l.to \in live')
    BY <2>1, ImportsAreTrees DEF ComingLinks
  <2>4. QED
    BY <2>1, <2>2, <2>3
<1>5. CASE UNCHANGED <<live, links, forward>>
  BY <1>5
<1>6. QED
  BY <1>1, <1>2, <1>3, <1>4, <1>5, LinkCases

-----------------------------------------------------------------------------
(* The theorems.                                                            *)

LEMMA TreeInvInit == Init => TreeInv
<1> SUFFICES ASSUME Init PROVE TreeInv
  OBVIOUS
<1>1. TreeWellFormed
  BY DEF Init, TreeWellFormed, Listed, ParentsLive, Acyclic
<1>2. FrozenClosed /\ LinksResolve
  BY DEF Init, FrozenClosed, LinksResolve
<1>3. QED
  BY <1>1, <1>2, TypeInit DEF TreeInv

LEMMA TreeInvStep == TreeInv /\ [Next]_vars => TreeInv'
BY TypeStep, TreeStep, FrozenStep, LinksStep DEF TreeInv

\* What the other theorems follow from; FrozenClosed is in it because the pages that
\* leave take every page whose parent they are.
THEOREM TreeInvariant == Spec => []TreeInv
BY TreeInvInit, TreeInvStep, PTL DEF Spec

\* However pages are created, reparented, moved out and moved in, the tree stays one.
THEOREM TreeStaysWellFormed == Spec => []TreeWellFormed
<1>1. TreeInv => TreeWellFormed
  BY DEF TreeInv
<1>2. QED
  BY <1>1, TreeInvariant, PTL

\* A link goes where its target is.
THEOREM LinksAlwaysResolve == Spec => []LinksResolve
<1>1. TreeInv => LinksResolve
  BY DEF TreeInv
<1>2. QED
  BY <1>1, TreeInvariant, PTL

\* What a pending move will take is a whole subtree and nobody else's.
THEOREM FrozenStaysClosed == Spec => []FrozenClosed
<1>1. TreeInv => FrozenClosed
  BY DEF TreeInv
<1>2. QED
  BY <1>1, TreeInvariant, PTL

-----------------------------------------------------------------------------
(* What a step may never do.                                                *)

LEMMA OwnersStep ==
  ASSUME TreeInv, [Next]_vars, NEW p \in pinned
  PROVE  KeepsOwner(p)
<1> USE DEF KeepsOwner
<1>0. /\ p \in live /\ p \in Pages /\ FrozenClosed
      /\ parent \in [Pages -> Pages \cup {Root}]
  BY DEF TreeInv, TypeOK
<1>1. ASSUME NEW n \in Fresh, NEW kids \in SUBSET Fresh, NEW q \in Pages \cup {Root}, NEW x \in Names,
             NEW numbers \in BOOLEAN, CreatePage(n, kids, q, x, numbers)
      PROVE  KeepsOwner(p)
  BY <1>0, <1>1 DEF CreatePage, Fresh
<1>2. ASSUME NEW n \in Pages, NEW q \in Pages \cup {Root}, Reparent(n, q)
      PROVE  KeepsOwner(p)
  BY <1>0, <1>2 DEF Reparent
<1>3. ASSUME NEW m \in moves, CompletePageMove(m)
      PROVE  KeepsOwner(p)
  BY <1>0, <1>3 DEF CompletePageMove, FrozenClosed
<1>4. ASSUME NEW b \in Imports, NEW w \in Others, NEW q \in Pages \cup {Root}, ImportPages(b, w, q)
      PROVE  KeepsOwner(p)
  BY <1>0, <1>4 DEF ImportPages
<1>5. CASE UNCHANGED <<live, parent, pinned>>
  BY <1>0, <1>5
<1>6. ASSUME NEW asked \in SUBSET live, NEW w \in Others, BeginPageMove(asked, w)
      PROVE  UNCHANGED <<live, parent, pinned>>
  BY <1>6 DEF BeginPageMove
<1>7. ASSUME NEW m \in moves, AbortPageMove(m)
      PROVE  UNCHANGED <<live, parent, pinned>>
  BY <1>7 DEF AbortPageMove
<1>8. UNCHANGED treeVars => UNCHANGED <<live, parent, pinned>>
  BY DEF treeVars
<1>9. QED
  BY <1>1, <1>2, <1>3, <1>4, <1>5, <1>6, <1>7, <1>8, TreeCases

\* Of a page that no move takes, the outgoing links are of no import or other move.
LEMMA LinkedStep ==
  ASSUME TreeInv, [Next]_vars, NEW m \in moves, m \in moves', NEW p \in m.pages
  PROVE  LinkedFrom(p)' = LinkedFrom(p)
<1>0. /\ p \in live /\ p \in Frozen /\ links \subseteq Edge
      /\ \A n \in moves : n # m => p \notin n.pages
  BY DEF TreeInv, TypeOK, FrozenClosed, Frozen
<1>1. ASSUME NEW e \in Edges, NEW w \in Others \cup {Here}, Link(e[1], e[2], w) \/ Unlink(e[1], e[2], w)
      PROVE  LinkedFrom(p)' = LinkedFrom(p)
  <2>1. e[1] # p
    BY <1>0, <1>1 DEF Link, Unlink, MayName
  <2>2. Named(e[1], e[2], w).from # p
    BY <2>1 DEF Named
  <2>3. {l \in links' : l.from = p} = {l \in links : l.from = p}
    BY <1>1, <2>2 DEF Link, Unlink
  <2>4. QED
    BY <2>3 DEF LinkedFrom
<1>2. ASSUME NEW n \in moves, CompletePageMove(n)
      PROVE  LinkedFrom(p)' = LinkedFrom(p)
  <2>1. p \notin n.pages
    BY <1>0, <1>2 DEF CompletePageMove
  <2>2. \A l \in links : Redirected(l, n).from = l.from /\ Redirected(l, n).to = l.to
    BY <1>0 DEF Redirected, Edge
  <2>3. links' = {Redirected(l, n) : l \in {l \in links : l.from \notin n.pages}}
    BY <1>2 DEF CompletePageMove, StayingLinks
  <2>4. QED
    BY <2>1, <2>2, <2>3 DEF LinkedFrom
<1>3. ASSUME NEW b \in Imports, NEW w \in Others, NEW q \in Pages \cup {Root}, ImportPages(b, w, q)
      PROVE  LinkedFrom(p)' = LinkedFrom(p)
  <2>1. \A l \in ComingLinks(b) : l.from # p
    BY <1>0, <1>3, ImportsAreTrees DEF ImportPages, ComingLinks
  <2>2. \A l \in links : Arrived(l, b, w).from = l.from /\ Arrived(l, b, w).to = l.to
    BY <1>0 DEF Arrived, Edge
  <2>3. links' = {Arrived(l, b, w) : l \in links} \cup ComingLinks(b)
    BY <1>3 DEF ImportPages
  <2>4. QED
    BY <2>1, <2>2, <2>3 DEF LinkedFrom
<1>4. CASE links' = links
  BY <1>4 DEF LinkedFrom
<1>5. (\E n \in Fresh, kids \in SUBSET Fresh, q \in Pages \cup {Root}, x \in Names, numbers \in BOOLEAN :
         CreatePage(n, kids, q, x, numbers)) => links' = links
  BY DEF CreatePage
<1>6. QED
  BY <1>1, <1>2, <1>3, <1>4, <1>5, LinkCases

LEMMA HeldStillStep ==
  ASSUME TreeInv, [Next]_vars, NEW m \in moves, m \in moves', NEW p \in m.pages
  PROVE  HeldStill(p, m.pages)
<1>0. /\ p \in live /\ p \in Frozen /\ p \in Pages /\ LinkedFrom(p)' = LinkedFrom(p)
      /\ parent \in [Pages -> Pages \cup {Root}] /\ title \in [Pages -> Titles]
      /\ \A n \in moves : n # m => p \notin n.pages
  BY LinkedStep DEF TreeInv, TypeOK, FrozenClosed, Frozen
<1> SUFFICES title'[p] = title[p] /\ (p \in archived' <=> p \in archived) /\ parent'[p] = parent[p]
  BY <1>0 DEF HeldStill
<1>1. ASSUME NEW n \in Fresh, NEW kids \in SUBSET Fresh, NEW q \in Pages \cup {Root}, NEW x \in Names,
             NEW numbers \in BOOLEAN, CreatePage(n, kids, q, x, numbers)
      PROVE  title'[p] = title[p] /\ (p \in archived' <=> p \in archived) /\ parent'[p] = parent[p]
  BY <1>0, <1>1 DEF CreatePage, Fresh
<1>2. ASSUME NEW n \in Pages, NEW q \in Pages \cup {Root}, Reparent(n, q)
      PROVE  title'[p] = title[p] /\ (p \in archived' <=> p \in archived) /\ parent'[p] = parent[p]
  BY <1>0, <1>2 DEF Reparent, Editable
<1>3. ASSUME NEW n \in Pages, NEW x \in Names, SetPageTitle(n, x)
      PROVE  title'[p] = title[p] /\ (p \in archived' <=> p \in archived) /\ parent'[p] = parent[p]
  BY <1>0, <1>3 DEF SetPageTitle, Editable
<1>4. ASSUME NEW n \in Pages, ArchivePage(n) \/ UnarchivePage(n)
      PROVE  title'[p] = title[p] /\ (p \in archived' <=> p \in archived) /\ parent'[p] = parent[p]
  BY <1>0, <1>4 DEF ArchivePage, UnarchivePage, Editable
<1>5. ASSUME NEW n \in moves, CompletePageMove(n)
      PROVE  title'[p] = title[p] /\ (p \in archived' <=> p \in archived) /\ parent'[p] = parent[p]
  BY <1>0, <1>5 DEF CompletePageMove
<1>6. ASSUME NEW b \in Imports, NEW w \in Others, NEW q \in Pages \cup {Root}, ImportPages(b, w, q)
      PROVE  title'[p] = title[p] /\ (p \in archived' <=> p \in archived) /\ parent'[p] = parent[p]
  BY <1>0, <1>6, ImportsAreTrees DEF ImportPages
<1>7. CASE UNCHANGED <<title, archived, parent>>
  BY <1>7
<1>8. \/ UNCHANGED <<title, archived, parent>>
      \/ \E n \in Fresh, kids \in SUBSET Fresh, q \in Pages \cup {Root}, x \in Names, numbers \in BOOLEAN :
           CreatePage(n, kids, q, x, numbers)
      \/ \E n \in Pages, q \in Pages \cup {Root} : Reparent(n, q)
      \/ \E n \in Pages, x \in Names : SetPageTitle(n, x)
      \/ \E n \in Pages : ArchivePage(n) \/ UnarchivePage(n)
      \/ \E n \in moves : CompletePageMove(n)
      \/ \E b \in Imports, w \in Others, q \in Pages \cup {Root} : ImportPages(b, w, q)
  BY DEF Next, vars, Reorder, Link, Unlink, AssignSerials, ArchiveWorkspace, UnarchiveWorkspace,
         BeginPageMove, AbortPageMove
<1>9. QED
  BY <1>1, <1>2, <1>3, <1>4, <1>5, <1>6, <1>7, <1>8

\* A pinned page keeps its owner, and leaves with it or not at all.
THEOREM PinnedStaysWithOwner == Spec => PinnedWithOwner
<1>1. TreeInv /\ [Next]_vars => [\A p \in pinned : KeepsOwner(p)]_vars
  BY OwnersStep
<1>2. QED
  BY <1>1, TreeInvariant, PTL DEF Spec, PinnedWithOwner

\* What the import of a pending move carries does not change under it.
THEOREM FrozenStaysUnchanged == Spec => FrozenUnchanged
<1>1. TreeInv /\ [Next]_vars => [\A m \in moves \cap moves' : \A p \in m.pages : HeldStill(p, m.pages)]_vars
  BY HeldStillStep
<1>2. QED
  BY <1>1, TreeInvariant, PTL DEF Spec, FrozenUnchanged

-----------------------------------------------------------------------------
(* The deltas of a derived store.                                            *)

Delta == [touched : SUBSET Pages, structural : BOOLEAN, whole : BOOLEAN]

\* Every document that is behind would be rendered if the delta were written now.
Covered ==
  /\ delta \in Delta /\ lag \in Nat /\ stale \subseteq Pages
  /\ lag = 0 => stale = {}
  /\ stale \subseteq AffectedPageIds

\* Commits of the tree index are those of the tree, and writing a delta is none.
LEMMA IndexStepIsTreeStep == [IndexNext]_<<vars, indexVars>> => [Next]_vars
<1>1. Commit => Next
  BY DEF Commit, Next
<1>2. WriteDelta => UNCHANGED vars
  BY DEF WriteDelta
<1> QED BY <1>1, <1>2 DEF IndexNext, vars

LEMMA CollectAdds ==
  ASSUME delta \in Delta, NEW S, S \ {Root} \subseteq Pages, NEW structural \in BOOLEAN, Collect(S, structural)
  PROVE  /\ delta' \in Delta
         /\ delta'.touched = delta.touched \cup (S \ {Root})
         /\ delta'.structural = (delta.structural \/ structural)
         /\ delta'.whole = delta.whole
BY DEF Collect, Delta

LEMMA StructuralAdds ==
  ASSUME delta \in Delta, NEW S \in SUBSET Pages, Collect(S, TRUE)
  PROVE  /\ delta' \in Delta
         /\ delta'.touched = delta.touched \cup S
         /\ delta'.structural
         /\ delta'.whole = delta.whole
<1>1. S \ {Root} = S
  BY TreeConstants
<1>2. delta'.structural = TRUE \/ delta'.structural = (delta.structural \/ TRUE)
  BY <1>1, CollectAdds
<1> QED BY <1>1, <1>2, CollectAdds

\* What an event names is rendered, and so are those that show it, if one was structural.
LEMMA TouchedAreAffected ==
  /\ delta'.touched \subseteq AffectedPageIds'
  /\ delta'.whole => live' \subseteq AffectedPageIds'
  /\ delta'.structural =>
       /\ \A p \in delta'.touched \cap live' : parent'[p] \in live' => parent'[p] \in AffectedPageIds'
       /\ \A l \in links' : l.at = Here /\ l.to \in delta'.touched => l.from \in AffectedPageIds'
<1>1. delta'.touched \subseteq Touched' /\ (delta'.whole => live' \subseteq Touched')
  BY DEF Touched
<1>2. Touched' \subseteq AffectedPageIds'
  BY DEF AffectedPageIds
<1>3. delta'.structural => Dependents(Touched)' \subseteq AffectedPageIds'
  BY DEF AffectedPageIds
<1>4. ASSUME NEW p \in delta'.touched \cap live', parent'[p] \in live'
      PROVE  parent'[p] \in Dependents(Touched)'
  BY <1>1, <1>4 DEF Dependents
<1>5. ASSUME NEW l \in links', l.at = Here, l.to \in delta'.touched
      PROVE  l.from \in Dependents(Touched)'
  BY <1>1, <1>5 DEF Dependents
<1> QED BY <1>1, <1>2, <1>3, <1>4, <1>5

\* While no page leaves, a document that was covered stays so: a parent or a link that is
\* gone was named by the event.
LEMMA StaleStaysCovered ==
  ASSUME Covered, live \subseteq live',
         delta.touched \subseteq delta'.touched, delta.structural => delta'.structural,
         delta.whole => delta'.whole,
         \A p \in live : parent'[p] = parent[p] \/ parent[p] \in delta'.touched \cup {Root},
         \A l \in links : l.at = Here => l \in links' \/ l.from \in delta'.touched,
         Root \notin live
  PROVE  stale \subseteq AffectedPageIds'
<1>1. Touched \subseteq Touched'
  BY DEF Touched
<1>2. Touched' \subseteq AffectedPageIds'
  BY DEF AffectedPageIds
<1>3. CASE ~ delta.structural
  BY <1>1, <1>2, <1>3 DEF Covered, AffectedPageIds
<1>4. CASE delta.structural
  <2>1. AffectedPageIds' = Touched' \cup Dependents(Touched)'
    BY <1>4 DEF AffectedPageIds
  <2>2. delta'.touched \subseteq Touched'
    BY DEF Touched
  <2>3. ASSUME NEW p \in Touched \cap live, parent[p] \in live
        PROVE  parent[p] \in AffectedPageIds'
    <3>1. CASE parent'[p] = parent[p]
      <4>1. p \in Touched' \cap live' /\ parent'[p] \in live'
        BY <1>1, <2>3, <3>1
      <4>2. parent'[p] \in Dependents(Touched)'
        BY <4>1 DEF Dependents
      <4> QED BY <2>1, <3>1, <4>2
    <3>2. CASE parent[p] \in delta'.touched \cup {Root}
      BY <2>1, <2>2, <2>3, <3>2
    <3> QED BY <3>1, <3>2
  <2>4. ASSUME NEW l \in links, l.at = Here, l.to \in Touched
        PROVE  l.from \in AffectedPageIds'
    <3>1. CASE l \in links'
      <4>1. l.to \in Touched'
        BY <1>1, <2>4
      <4>2. l.from \in Dependents(Touched)'
        BY <2>4, <3>1, <4>1 DEF Dependents
      <4> QED BY <2>1, <4>2
    <3>2. CASE l.from \in delta'.touched
      BY <2>1, <2>2, <3>2
    <3> QED BY <2>4, <3>1, <3>2
  <2>5. AffectedPageIds = Touched \cup Dependents(Touched)
    BY <1>4 DEF AffectedPageIds
  <2>6. Dependents(Touched) \subseteq AffectedPageIds'
    BY <2>3, <2>4 DEF Dependents
  <2> QED BY <1>1, <1>2, <2>5, <2>6 DEF Covered
<1> QED BY <1>3, <1>4

\* What a page shows: itself, its children's titles and those its links show.
LEMMA RenderStays ==
  ASSUME NEW p \in Pages, p \in live <=> p \in live',
         p \in live =>
           /\ title'[p] = title[p] /\ (p \in archived <=> p \in archived')
           /\ children'[p] = children[p] /\ \A c \in children[p] : title'[c] = title[c]
           /\ {l \in links' : l.from = p} = {l \in links : l.from = p}
           /\ \A l \in links : l.from = p /\ l.at = Here => title'[l.to] = title[l.to]
  PROVE  Rendered'[p] = Rendered[p]
<1>1. CASE p \notin live
  BY <1>1 DEF Rendered
<1>2. CASE p \in live
  <2> DEFINE kids == {<<c, title[c]>> : c \in children[p]}
             newKids == {<<c, title'[c]>> : c \in children'[p]}
             refs == {IF l.at = Here THEN <<l, title[l.to]>> ELSE <<l>> : l \in {l \in links : l.from = p}}
             newRefs == {IF l.at = Here THEN <<l, title'[l.to]>> ELSE <<l>> : l \in {l \in links' : l.from = p}}
             inside == p \in archived
             newInside == p \in archived'
  <2>1. newKids = kids
    BY <1>2
  <2>2. ASSUME NEW l \in {l \in links : l.from = p}
        PROVE  (IF l.at = Here THEN <<l, title'[l.to]>> ELSE <<l>>) = (IF l.at = Here THEN <<l, title[l.to]>> ELSE <<l>>)
    BY <1>2
  <2>3. newRefs = refs
    BY <1>2, <2>2
  <2>4. newInside = inside
    BY <1>2
  <2>5. Render(p) = [title |-> title[p], archived |-> inside, children |-> kids, references |-> refs]
    BY DEF Render
  <2>6. Render(p)' = [title |-> title'[p], archived |-> newInside, children |-> newKids, references |-> newRefs]
    BY DEF Render
  <2> HIDE DEF kids, newKids, refs, newRefs, inside, newInside
  <2>7. Render(p)' = Render(p)
    BY <1>2, <2>1, <2>3, <2>4, <2>5, <2>6
  <2> QED BY <1>2, <2>7 DEF Rendered
<1> QED BY <1>1, <1>2

\* What a commit has to collect: the documents that were behind, and the ones it changes.
Collected ==
  /\ delta' \in Delta
  /\ stale \subseteq AffectedPageIds'
  /\ \A p \in Pages : Rendered'[p] # Rendered[p] => p \in AffectedPageIds'

\* The parts of the tree's invariant that say what a render can show.
LEMMA Shown ==
  ASSUME TreeInv
  PROVE  /\ live \subseteq Pages /\ Root \notin Pages /\ Root \notin live
         /\ parent \in [Pages -> Pages \cup {Root}]
         /\ \A q \in Pages : children[q] = {p \in live : parent[p] = q}
         /\ \A q \in Pages : children[q] \subseteq live
         /\ \A p \in live : parent[p] \in live \cup {Root}
         /\ \A l \in links : l \in Edge /\ l.from \in live /\ (l.at = Here => l.to \in live)
         /\ \A m \in moves : m.pages \subseteq live
         /\ title \in [Pages -> Titles] /\ links \subseteq Edge
BY TreeConstants DEF TreeInv, TypeOK, TreeWellFormed, Listed, ParentsLive, LinksResolve, FrozenClosed

LEMMA CreateCollects ==
  ASSUME TreeInv, Covered,
         NEW p \in Fresh, NEW kids \in SUBSET Fresh, NEW q \in Pages \cup {Root}, NEW x, NEW numbers,
         CreatePage(p, kids, q, x, numbers), Collect(kids \cup {p}, TRUE)
  PROVE  Collected
<1>1. /\ p \in Pages \ live /\ kids \subseteq Pages \ live
      /\ \A l \in links : l.to \notin kids \cup {p}
  BY DEF Fresh
<1>2. /\ live' = live \cup kids \cup {p} /\ links' = links /\ archived' = archived
      /\ parent' = [c \in Pages |-> IF c = p THEN q ELSE IF c \in kids THEN p ELSE parent[c]]
      /\ children' = [children EXCEPT ![q] = @ \cup {p}, ![p] = kids]
      /\ q = Root \/ q \in live
  BY DEF CreatePage, CreatesUnder, Editable
<1>3. \A c \in live : title'[c] = title[c] /\ parent'[c] = parent[c]
  BY <1>1, Shown DEF CreatePage
<1>4. /\ delta' \in Delta /\ delta'.touched = delta.touched \cup (kids \cup {p})
      /\ delta'.structural /\ delta'.whole = delta.whole
  <2>1. kids \cup {p} \in SUBSET Pages
    BY <1>1
  <2> QED BY <2>1, StructuralAdds DEF Covered
<1>5. stale \subseteq AffectedPageIds'
  BY <1>2, <1>3, <1>4, Shown, StaleStaysCovered
<1>6. q \in live => q \in AffectedPageIds'
  <2>1. p \in delta'.touched \cap live' /\ parent'[p] = q
    BY <1>1, <1>2, <1>4
  <2> QED BY <1>2, <1>4, <2>1, TouchedAreAffected
<1>7. ASSUME NEW c \in Pages, c \notin kids \cup {p}, c # q
      PROVE  Rendered'[c] = Rendered[c]
  <2>1. children'[c] = children[c]
    BY <1>2, <1>7 DEF TreeInv, TypeOK
  <2> QED BY <1>2, <1>3, <1>7, <2>1, Shown, RenderStays
<1>8. kids \cup {p} \subseteq AffectedPageIds'
  BY <1>4, TouchedAreAffected
<1> QED BY <1>2, <1>4, <1>5, <1>6, <1>7, <1>8, Shown DEF Collected

LEMMA ReparentCollects ==
  ASSUME TreeInv, Covered, NEW p \in Pages, NEW q \in Pages \cup {Root},
         Reparent(p, q), Collect(Moving(p, q), TRUE)
  PROVE  Collected
<1>1. /\ live' = live /\ title' = title /\ archived' = archived /\ links' = links
      /\ parent' = [parent EXCEPT ![p] = q]
      /\ children' = [k \in Pages \cup {Root} |->
           IF k = q THEN children[k] \cup {p} ELSE IF k = parent[p] THEN children[k] \ {p} ELSE children[k]]
  BY DEF Reparent
<1>2. parent[p] \in Pages \cup {Root} /\ Moving(p, q) \ {Root} \subseteq Pages
  BY Shown DEF Moving
<1>3. /\ delta' \in Delta /\ delta'.touched = delta.touched \cup (Moving(p, q) \ {Root})
      /\ delta'.structural /\ delta'.whole = delta.whole
  BY <1>2, CollectAdds DEF Covered
<1>4. stale \subseteq AffectedPageIds'
  <2>1. \A c \in live : parent'[c] = parent[c] \/ parent[c] \in delta'.touched \cup {Root}
    BY <1>1, <1>2, <1>3, Shown DEF Moving
  <2> QED BY <1>1, <1>3, <2>1, Shown, StaleStaysCovered
<1>5. ASSUME NEW c \in Pages, c \notin Moving(p, q)
      PROVE  Rendered'[c] = Rendered[c]
  <2>1. children'[c] = children[c]
    BY <1>1, <1>5 DEF Moving
  <2> QED BY <1>1, <2>1, RenderStays
<1>6. Moving(p, q) \ {Root} \subseteq AffectedPageIds'
  BY <1>3, TouchedAreAffected
<1> QED BY <1>3, <1>4, <1>5, <1>6, Shown DEF Collected

LEMMA TitleCollects ==
  ASSUME TreeInv, Covered, NEW p \in Pages, NEW x, SetPageTitle(p, x), Collect({p}, TRUE)
  PROVE  Collected
<1>1. /\ live' = live /\ parent' = parent /\ children' = children /\ archived' = archived /\ links' = links
      /\ title' = [title EXCEPT ![p] = x] /\ p \in live
  BY DEF SetPageTitle, Editable
<1>2. /\ delta' \in Delta /\ delta'.touched = delta.touched \cup {p}
      /\ delta'.structural /\ delta'.whole = delta.whole
  BY StructuralAdds DEF Covered
<1>3. stale \subseteq AffectedPageIds'
  BY <1>1, <1>2, Shown, StaleStaysCovered
<1>4. \A c \in Pages \ {p} : title'[c] = title[c]
  BY <1>1, Shown
<1>5. ASSUME NEW c \in Pages, c # p, p \notin children[c] \/ c \notin live,
             \A l \in links : l.from = c /\ l.at = Here => l.to # p
      PROVE  Rendered'[c] = Rendered[c]
  <2>1. c \in live => \A d \in children[c] : title'[d] = title[d]
    BY <1>4, <1>5, Shown
  <2>2. \A l \in links : l.from = c /\ l.at = Here => title'[l.to] = title[l.to]
    BY <1>4, <1>5, Shown
  <2> QED BY <1>1, <1>4, <1>5, <2>1, <2>2, RenderStays
<1>6. ASSUME NEW c \in live, p \in children[c] PROVE c \in AffectedPageIds'
  <2>1. parent'[p] = c /\ p \in delta'.touched \cap live'
    BY <1>1, <1>2, <1>6, Shown
  <2> QED BY <1>1, <1>2, <2>1, TouchedAreAffected
<1>7. ASSUME NEW l \in links, l.at = Here, l.to = p PROVE l.from \in AffectedPageIds'
  BY <1>1, <1>2, <1>7, TouchedAreAffected
<1>8. p \in AffectedPageIds'
  BY <1>2, TouchedAreAffected
<1> QED BY <1>2, <1>3, <1>5, <1>6, <1>7, <1>8 DEF Collected

LEMMA ArchiveCollects ==
  ASSUME TreeInv, Covered, NEW p \in Pages, ArchivePage(p) \/ UnarchivePage(p), Collect({p}, TRUE)
  PROVE  Collected
<1>1. /\ live' = live /\ parent' = parent /\ children' = children /\ title' = title /\ links' = links
      /\ \A c \in Pages \ {p} : c \in archived <=> c \in archived'
  BY DEF ArchivePage, UnarchivePage
<1>2. /\ delta' \in Delta /\ delta'.touched = delta.touched \cup {p}
      /\ delta'.structural /\ delta'.whole = delta.whole
  BY StructuralAdds DEF Covered
<1>3. stale \subseteq AffectedPageIds'
  BY <1>1, <1>2, Shown, StaleStaysCovered
<1>4. ASSUME NEW c \in Pages, c # p PROVE Rendered'[c] = Rendered[c]
  BY <1>1, <1>4, RenderStays
<1>5. p \in AffectedPageIds'
  BY <1>2, TouchedAreAffected
<1> QED BY <1>2, <1>3, <1>4, <1>5 DEF Collected

LEMMA LinkCollects ==
  ASSUME TreeInv, Covered, NEW e \in Edges, NEW w \in Others \cup {Here},
         Link(e[1], e[2], w) \/ Unlink(e[1], e[2], w),
         Collect({e[1]} \cup (IF w = Here /\ e[2] \in live THEN {e[2]} ELSE {}), FALSE)
  PROVE  Collected
<1> DEFINE f == e[1]  new == Named(f, e[2], w)
           S == {f} \cup (IF w = Here /\ e[2] \in live THEN {e[2]} ELSE {})
<1>1. /\ live' = live /\ parent' = parent /\ children' = children /\ title' = title /\ archived' = archived
      /\ links' = links \cup {new} \/ links' = links \ {new}
      /\ new.from = f /\ f \in live
  BY DEF Link, Unlink, MayName, Named
<1>2. S \ {Root} = S /\ S \subseteq Pages
  BY <1>1, Shown
<1>3. /\ delta' \in Delta /\ delta'.touched = delta.touched \cup S
      /\ delta'.structural = delta.structural /\ delta'.whole = delta.whole
  BY <1>2, CollectAdds DEF Covered, Delta
<1>4. f \in delta'.touched
  BY <1>3
<1> HIDE DEF S, new
<1>5. stale \subseteq AffectedPageIds'
  <2>1. \A l \in links : l.at = Here => l \in links' \/ l.from \in delta'.touched
    BY <1>1, <1>4
  <2> QED BY <1>1, <1>3, <2>1, Shown, StaleStaysCovered
<1>6. ASSUME NEW c \in Pages, c # f PROVE Rendered'[c] = Rendered[c]
  <2>1. {l \in links' : l.from = c} = {l \in links : l.from = c}
    BY <1>1, <1>6
  <2> QED BY <1>1, <2>1, RenderStays
<1>7. f \in AffectedPageIds'
  BY <1>4, TouchedAreAffected
<1> QED BY <1>3, <1>5, <1>6, <1>7 DEF Collected

\* The commits that change no render.
LEMMA QuietCollects ==
  ASSUME TreeInv, Covered, UNCHANGED <<live, parent, children, title, archived, links>>,
         NEW S, S \ {Root} \subseteq Pages, NEW structural \in BOOLEAN, Collect(S, structural)
  PROVE  Collected
<1>1. /\ delta' \in Delta /\ delta'.touched = delta.touched \cup (S \ {Root})
      /\ delta'.structural = (delta.structural \/ structural) /\ delta'.whole = delta.whole
  BY CollectAdds DEF Covered
<1>2. stale \subseteq AffectedPageIds'
  BY <1>1, Shown, StaleStaysCovered
<1>3. \A p \in Pages : Rendered'[p] = Rendered[p]
  BY RenderStays
<1> QED BY <1>1, <1>2, <1>3 DEF Collected

\* When pages leave, the pages that stay are all rendered, and the others named.
LEMMA CompleteCollects ==
  ASSUME TreeInv, Covered, NEW m \in moves, CompletePageMove(m), CollectAll(m.pages)
  PROVE  Collected
<1>1. live' = live \ m.pages /\ m.pages \subseteq live /\ live \subseteq Pages
  BY Shown DEF CompletePageMove
<1>2. /\ delta' \in Delta /\ delta'.touched = delta.touched \cup m.pages /\ delta'.whole
  BY <1>1 DEF CollectAll, Covered, Delta
<1>3. delta.touched \cup live \subseteq AffectedPageIds'
  BY <1>1, <1>2, TouchedAreAffected
<1>4. AffectedPageIds \subseteq delta.touched \cup live
  BY Shown DEF AffectedPageIds, Touched, Dependents
<1>5. ASSUME NEW p \in Pages, p \notin live PROVE Rendered'[p] = Rendered[p]
  BY <1>1, <1>5 DEF Rendered
<1> QED BY <1>2, <1>3, <1>4, <1>5 DEF Collected, Covered

LEMMA ImportCollects ==
  ASSUME TreeInv, Covered, NEW b \in Imports, NEW w \in Others, NEW q \in Pages \cup {Root},
         ImportPages(b, w, q), Collect(b.pages, TRUE)
  PROVE  Collected
<1> DEFINE roots == {p \in b.pages : b.parent[p] = Root}
<1>1. /\ b.pages \subseteq Pages /\ b.pages \cap live = {} /\ Root \notin b.pages
      /\ \A p \in b.pages : b.parent[p] \in b.pages \cup {Root}
      /\ \A l \in b.links : l.from \in b.pages
      /\ b.archived \subseteq b.pages
  BY ImportsAreTrees, TreeConstants DEF ImportPages, Import
<1>2. /\ live' = live \cup b.pages
      /\ archived' = (archived \ b.pages) \cup b.archived
      /\ links' = {Arrived(l, b, w) : l \in links} \cup ComingLinks(b)
      /\ q = Root \/ q \in live
  BY DEF ImportPages, CreatesUnder, Editable
<1>3. /\ parent' = [p \in Pages |->
           IF p \in roots THEN q ELSE IF p \in b.pages THEN b.parent[p] ELSE parent[p]]
      /\ children' = [k \in Pages \cup {Root} |->
           children[k] \cup (IF k = q THEN roots ELSE {})
                       \cup (IF k = Root THEN {} ELSE {p \in b.pages : b.parent[p] = k})]
      /\ title' = [p \in Pages |-> IF p \in b.pages THEN b.title[p] ELSE title[p]]
  BY DEF ImportPages
<1>4. \A c \in live : title'[c] = title[c] /\ parent'[c] = parent[c]
  BY <1>1, <1>3, Shown
<1>5. Root \notin Pages /\ Here \notin Others /\ w # Here
  BY TreeConstants
<1>6. /\ delta' \in Delta /\ delta'.touched = delta.touched \cup b.pages
      /\ delta'.structural /\ delta'.whole = delta.whole
  BY <1>1, StructuralAdds DEF Covered
<1>7. \A l \in links : l.at = Here => l \in links'
  BY <1>2, <1>5 DEF Arrived
<1>8. stale \subseteq AffectedPageIds'
  BY <1>2, <1>4, <1>6, <1>7, Shown, StaleStaysCovered
<1>9. b.pages \subseteq AffectedPageIds'
  BY <1>6, TouchedAreAffected
<1>10. ASSUME q \in live, roots # {} PROVE q \in AffectedPageIds'
  <2>1. PICK r \in roots : TRUE
    BY <1>10
  <2>2. r \in delta'.touched \cap live' /\ parent'[r] = q /\ q \in live'
    BY <1>1, <1>2, <1>3, <1>6, <1>10, <2>1
  <2> QED BY <1>6, <2>2, TouchedAreAffected
<1>11. ASSUME NEW l \in links, l.at = w, l.to \in b.pages PROVE l.from \in AffectedPageIds'
  <2>1. l \in Edge
    BY Shown
  <2> DEFINE k == [l EXCEPT !.at = Here]
  <2>2. k.at = Here /\ k.to = l.to /\ k.from = l.from
    BY <2>1 DEF Edge
  <2>3. k \in links'
    BY <1>2, <1>11 DEF Arrived
  <2> QED BY <1>6, <1>11, <2>2, <2>3, TouchedAreAffected
<1>12. ASSUME NEW c \in Pages, c \notin b.pages, c \notin AffectedPageIds'
       PROVE  Rendered'[c] = Rendered[c]
  <2>1. CASE c \notin live
    BY <1>2, <1>12, <2>1 DEF Rendered
  <2>2. CASE c \in live
    <3>1. children'[c] = children[c]
      <4>1. {p \in b.pages : b.parent[p] = c} = {}
        BY <1>1, <1>5, <1>12
      <4>2. c = q => roots = {}
        BY <1>10, <1>12, <2>2
      <4>3. children'[c] = children[c] \cup (IF c = q THEN roots ELSE {}) \cup {p \in b.pages : b.parent[p] = c}
        BY <1>3, <1>5
      <4> HIDE DEF roots
      <4> QED BY <4>1, <4>2, <4>3
    <3>2. \A l \in links : l.from = c => Arrived(l, b, w) = l
      BY <1>11, <1>12 DEF Arrived
    <3>3. {l \in links' : l.from = c} = {l \in links : l.from = c}
      <4>1. \A l \in ComingLinks(b) : l.from # c
        BY <1>1, <1>12 DEF ComingLinks
      <4>2. \A l \in links : Arrived(l, b, w).from = l.from
        BY Shown DEF Arrived, Edge
      <4> QED BY <1>2, <3>2, <4>1, <4>2
    <3>4. \A d \in children[c] : title'[d] = title[d]
      BY <1>4, Shown
    <3>5. \A l \in links : l.from = c /\ l.at = Here => title'[l.to] = title[l.to]
      BY <1>4, Shown
    <3>6. c \in live' /\ (c \in archived <=> c \in archived') /\ title'[c] = title[c]
      BY <1>1, <1>2, <1>4, <1>12, <2>2
    <3> QED BY <2>2, <3>1, <3>3, <3>4, <3>5, <3>6, RenderStays
  <2> QED BY <2>1, <2>2
<1> QED BY <1>6, <1>8, <1>9, <1>12 DEF Collected

\* A delta that is written leaves nothing behind, and a commit only what is collected.
LEMMA CoveredStep ==
  ASSUME TreeInv, Covered, [IndexNext]_<<vars, indexVars>>
  PROVE  Covered'
<1>1. CASE UNCHANGED <<vars, indexVars>>
  BY <1>1 DEF vars, indexVars, Covered, AffectedPageIds, Touched, Dependents
<1>2. CASE WriteDelta
  <2>1. delta' = NoDelta /\ lag' = 0 /\ stale' = {}
    BY <1>2 DEF WriteDelta, Covered
  <2>2. delta' \in Delta
    BY <2>1 DEF NoDelta, Delta
  <2> QED BY <2>1, <2>2 DEF Covered
<1>3. CASE /\ lag < MaxLag /\ Commit /\ lag' = lag + 1
           /\ stale' = stale \cup {p \in Pages : Rendered'[p] # Rendered[p]}
  <2>1. Collected
    <3>1. CASE \E q \in Pages \cup {Root} : Reorder(q) /\ Collect({q}, TRUE)
      <4>1. PICK q \in Pages \cup {Root} : Reorder(q) /\ Collect({q}, TRUE)
        BY <3>1
      <4>2. UNCHANGED <<live, parent, children, title, archived, links>> /\ {q} \ {Root} \subseteq Pages
        BY <4>1 DEF Reorder, vars
      <4> QED BY <4>1, <4>2, QuietCollects
    <3>2. CASE AssignSerials /\ Collect({p \in live : serial'[p] # serial[p]}, FALSE)
      <4> DEFINE S == {p \in live : serial'[p] # serial[p]}
      <4>1. UNCHANGED <<live, parent, children, title, archived, links>> /\ S \ {Root} \subseteq Pages
        BY <3>2, Shown DEF AssignSerials
      <4>2. Collect(S, FALSE)
        BY <3>2
      <4> HIDE DEF S
      <4> QED BY <4>1, <4>2, QuietCollects
    <3>3. CASE (ArchiveWorkspace \/ UnarchiveWorkspace) /\ Collect({}, FALSE)
      <4>1. UNCHANGED <<live, parent, children, title, archived, links>> /\ {} \ {Root} \subseteq Pages
        BY <3>3 DEF ArchiveWorkspace, UnarchiveWorkspace
      <4> QED BY <3>3, <4>1, QuietCollects
    <3>4. CASE \E asked \in SUBSET live, u \in Others : BeginPageMove(asked, u) /\ Collect({}, FALSE)
      <4>1. UNCHANGED <<live, parent, children, title, archived, links>> /\ {} \ {Root} \subseteq Pages
        BY <3>4 DEF BeginPageMove
      <4> QED BY <3>4, <4>1, QuietCollects
    <3>5. CASE \E m \in moves : AbortPageMove(m) /\ Collect({}, FALSE)
      <4>1. UNCHANGED <<live, parent, children, title, archived, links>> /\ {} \ {Root} \subseteq Pages
        BY <3>5 DEF AbortPageMove
      <4> QED BY <3>5, <4>1, QuietCollects
    <3> QED BY <1>3, <3>1, <3>2, <3>3, <3>4, <3>5, CreateCollects, ReparentCollects, TitleCollects,
       ArchiveCollects, LinkCollects, CompleteCollects, ImportCollects DEF Commit
  <2>2. lag' \in Nat /\ lag' # 0
    BY <1>3 DEF Covered
  <2> QED BY <1>3, <2>1, <2>2 DEF Covered, Collected
<1> QED BY <1>1, <1>2, <1>3 DEF IndexNext

\* The tree beside a derived store is the tree: what holds of Spec holds with the index.
THEOREM IndexedTreeIsTree == IndexSpec => Spec
BY IndexStepIsTreeStep, PTL DEF IndexSpec, Spec, IndexInit

\* A delta renders every page whose document a commit it spans has changed, though its
\* dependents are looked up only when it is written: once it is, the documents are those of
\* a complete rebuild (affectedPageIds of render-docs.ts).
THEOREM DocumentsStayCurrent == IndexSpec => []DocsCurrent
<1>1. IndexInit => Covered
  BY DEF IndexInit, Covered, NoDelta, Delta
<1>2. TreeInv /\ Covered /\ [IndexNext]_<<vars, indexVars>> => Covered'
  BY CoveredStep
<1>3. Covered => DocsCurrent
  BY DEF Covered, DocsCurrent
<1> QED BY <1>1, <1>2, <1>3, IndexedTreeIsTree, TreeInvariant, PTL DEF IndexSpec

=============================================================================
