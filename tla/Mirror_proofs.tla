---------------------------- MODULE Mirror_proofs ----------------------------
(***************************************************************************)
(* What the mirror keeps of a workspace, for every workspace, every number   *)
(* of emitters, and every budget of trouble: a settled root holds the pages  *)
(* of its version and nothing else, and a page on the disk stays there.      *)
(***************************************************************************)
EXTENDS Mirror, TLAPS

\* x is where the page p belongs in some version.
PlaceOf(p, x) == \E v \in 1..MaxCommits : p \in DOMAIN Tree[v] /\ Tree[v][p].path = x

\* Every file is at a place of its page, and so is what a manifest says of a page.
FilesPlaced(files) == \A x \in Paths : files[x] # Nothing => PlaceOf(files[x][1], x)
PagesPlaced(m) == \A p \in Pages : m.pages[p] # Nothing => PlaceOf(p, m.pages[p])

\* What a manifest says after a rebuild: every page that was visible has its file, and every
\* file is that of a page that was visible, or the last known one of a page that was not.
Exact(m) ==
  m.version > 0 => \A p \in Placed(m.version, m.knew) : m.files[Tree[m.version][p].path] = File(m.version, p)
Tidy(m) ==
  m.version > 0 =>
    Tracked(m) \subseteq ExpectedPaths(m.version, m.knew) \cup {m.pages[p] : p \in Frozen(m.version, m.knew)}

\* The path recorded for an undisturbed page is that of a file of it, and the file of one,
\* those of S excepted, is at the path recorded for it.
Backed(m) ==
  \A p \in Undisturbed : m.pages[p] # Nothing => m.files[m.pages[p]] # Nothing /\ m.files[m.pages[p]][1] = p
Recorded(m, S) ==
  \A x \in Paths : \A p \in Undisturbed \ S : m.files[x] # Nothing /\ m.files[x][1] = p => m.pages[p] = x

\* The emitter whose rebuild is under way, and one that has written something in it.
Rebuilding(e) == AtFront(Rebuilds) /\ Front.by = e
Writing(e) == Rebuilding(e) /\ work.changed

\* A projector that has loaded a manifest since its engine was made.
Loaded(e) ==
  \/ mem[e].version > 0
  \/ Queued(e, Rebuilds)
  \/ phase[e] \in {"opening", "loading", "syncing", "draining", "running"}

\* Only a rebuild has work under way.
WorkIsRebuild == work = Idle \/ AtFront(Rebuilds)

\* What a rebuild has removed is off the disk, and was an orphan when everything was written.
GoneIsGone == \A x \in work.gone : disk[x] = Nothing
GoneWasOrphan ==
  AtFront(Rebuilds) /\ work.gone # {} =>
    /\ work.gone \subseteq Orphans(mem[Front.by], Front.version, blind)
    /\ Differing(mem[Front.by], Front.version, blind) = {}

AllPlaced ==
  /\ FilesPlaced(disk) /\ FilesPlaced(saved.files) /\ PagesPlaced(saved)
  /\ \A e \in Emitters : FilesPlaced(mem[e].files) /\ PagesPlaced(mem[e])
AllBacked == Backed(saved) /\ \A e \in Emitters : Backed(mem[e])

\* The manifest on disk is that of a rebuild that ended, and so is the one in memory unless
\* a rebuild is writing or the last one failed.
SavedIsExact == Exact(saved) /\ Tidy(saved)
MemIsExact == \A e \in Emitters \ failing : ~Writing(e) => Exact(mem[e]) /\ Tidy(mem[e])
AllRecorded ==
  /\ Recorded(saved, {})
  /\ \A e \in Emitters \ failing :
       Recorded(mem[e], IF Writing(e) THEN Placed(Front.version, blind) ELSE {})

\* What a projector believes to be on the disk is there, and, once it has loaded a manifest
\* and unless a file was forgotten, it knows of every file.
KnowsDisk ==
  \A e \in Emitters \ misled : \A x \in Paths :
    mem[e].files[x] # Nothing /\ ~(Rebuilding(e) /\ x \in work.gone) => disk[x] = mem[e].files[x]
KnowsAll ==
  ~leaked => \A e \in Emitters \ misled :
               Loaded(e) => \A x \in Paths : disk[x] # Nothing => mem[e].files[x] # Nothing

MirrorInv ==
  /\ WorkIsRebuild /\ GoneIsGone /\ GoneWasOrphan
  /\ AllPlaced /\ AllBacked
  /\ SavedIsExact /\ MemIsExact /\ AllRecorded
  /\ KnowsDisk /\ KnowsAll
-----------------------------------------------------------------------------
(* What a rebuild expects. *)

Versions == 1..MaxCommits

\* A page of a version has one place, which is a path, and its file is a content.
LEMMA NodeFacts ==
  ASSUME NEW v \in Versions, NEW p \in DOMAIN Tree[v]
  PROVE  /\ p \in Pages
         /\ Tree[v][p].path \in Paths
         /\ File(v, p) \in Contents
         /\ File(v, p) # Nothing
         /\ File(v, p)[1] = p
         /\ PlaceOf(p, Tree[v][p].path)
<1>1. p \in Pages /\ Tree[v][p] \in Node
  BY MarkdownDiskConstants DEF Versions
<1>2. Tree[v][p].path \in Paths /\ Tree[v][p].body \in Bodies
  BY <1>1 DEF Node
<1>3. File(v, p) \in Contents /\ File(v, p)[1] = p
  BY <1>1, <1>2 DEF File, Contents
<1>4. File(v, p) # Nothing
  BY <1>3, MarkdownDiskConstants
<1>5. PlaceOf(p, Tree[v][p].path)
  BY DEF PlaceOf, Versions
<1> QED BY <1>1, <1>2, <1>3, <1>4, <1>5

\* Placed pages and frozen ones are the pages of the version.
LEMMA PlacedFacts ==
  ASSUME NEW v, NEW hidden
  PROVE  /\ Placed(v, hidden) \subseteq DOMAIN Tree[v]
         /\ Frozen(v, hidden) = DOMAIN Tree[v] \ Placed(v, hidden)
BY DEF Placed, Frozen

\* Two pages of a version have two places.
LEMMA OnePerPlace ==
  ASSUME NEW v \in Versions, NEW p \in DOMAIN Tree[v], NEW q \in DOMAIN Tree[v],
         Tree[v][p].path = Tree[v][q].path
  PROVE  p = q
BY MarkdownDiskConstants DEF Versions

\* The place of an undisturbed page is that of no other page, and it is in every version.
LEMMA UndisturbedFacts ==
  ASSUME NEW p \in Undisturbed
  PROVE  /\ p \in Pages
         /\ \A v \in Versions : p \in DOMAIN Tree[v]
         /\ \A q, x : PlaceOf(p, x) /\ PlaceOf(q, x) => p = q
<1>1. p \in Pages /\ \A v \in Versions : p \in DOMAIN Tree[v]
  BY MarkdownDiskConstants DEF Undisturbed, Versions
<1>2. ASSUME NEW q, NEW x, PlaceOf(p, x), PlaceOf(q, x) PROVE p = q
  <2>1. PICK v \in Versions : Tree[v][p].path = x
    BY <1>2 DEF PlaceOf, Versions
  <2>2. PICK w \in Versions : q \in DOMAIN Tree[w] /\ Tree[w][q].path = x
    BY <1>2 DEF PlaceOf, Versions
  <2>3. \A r \in DOMAIN Tree[w] : Tree[v][p].path = Tree[w][r].path => p = r
    BY <2>1, <2>2 DEF Undisturbed, Versions
  <2> QED BY <2>1, <2>2, <2>3
<1> QED BY <1>1, <1>2

\* A manifest's parts.
LEMMA ManifestFacts ==
  ASSUME NEW m \in Manifests
  PROVE  /\ m.version \in 0..MaxCommits /\ m.knew \in SUBSET Pages
         /\ m.files \in [Paths -> Contents \cup {Nothing}]
         /\ m.pages \in [Pages -> Paths \cup {Nothing}]
         /\ \A x \in Paths : m.files[x] # Nothing => m.files[x] \in Contents /\ m.files[x][1] \in Pages
         /\ \A p \in Pages : m.pages[p] # Nothing => m.pages[p] \in Paths
<1>1. /\ m.version \in 0..MaxCommits /\ m.knew \in SUBSET Pages
      /\ m.files \in [Paths -> Contents \cup {Nothing}]
      /\ m.pages \in [Pages -> Paths \cup {Nothing}]
  BY DEF Manifests
<1>2. \A x \in Paths : m.files[x] # Nothing => m.files[x] \in Contents
  BY <1>1
<1>3. \A c \in Contents : c[1] \in Pages
  BY DEF Contents
<1> QED BY <1>1, <1>2, <1>3

\* A path a placed page is expected at is that of the page.
LEMMA ExpectedFacts ==
  ASSUME NEW v \in Versions, NEW hidden, NEW x
  PROVE  x \in ExpectedPaths(v, hidden) <=> \E p \in Placed(v, hidden) : x = Tree[v][p].path
BY DEF ExpectedPaths

\* An empty manifest says nothing.
LEMMA FreshFacts ==
  /\ Fresh \in Manifests /\ Fresh.version = 0
  /\ \A x \in Paths : Fresh.files[x] = Nothing
  /\ \A p \in Pages : Fresh.pages[p] = Nothing
BY MarkdownDiskConstants DEF Fresh, Manifests

LEMMA FreshSound ==
  /\ FilesPlaced(Fresh.files) /\ PagesPlaced(Fresh) /\ Backed(Fresh)
  /\ Exact(Fresh) /\ Tidy(Fresh) /\ \A S : Recorded(Fresh, S)
<1>1. FilesPlaced(Fresh.files) /\ PagesPlaced(Fresh)
  BY FreshFacts DEF FilesPlaced, PagesPlaced
<1>2. Backed(Fresh)
  BY FreshFacts, UndisturbedFacts DEF Backed
<1>3. Exact(Fresh) /\ Tidy(Fresh)
  BY FreshFacts DEF Exact, Tidy
<1>4. \A S : Recorded(Fresh, S)
  BY FreshFacts DEF Recorded
<1> QED BY <1>1, <1>2, <1>3, <1>4
-----------------------------------------------------------------------------
(* What init makes of a manifest. *)

Disks == [Paths -> Contents \cup {Nothing}]

\* What init leaves of a manifest is what it finds on the disk.
LEMMA VerifiedFacts ==
  ASSUME NEW m \in Manifests, NEW d \in Disks
  PROVE  /\ Verified(m, d) \in Manifests
         /\ Verified(m, d).version > 0 => Verified(m, d) = m
         /\ \A x \in Paths : Verified(m, d).files[x] # Nothing =>
              Verified(m, d).files[x] = m.files[x] /\ d[x] = m.files[x]
         /\ \A p \in Pages : Verified(m, d).pages[p] # Nothing =>
              /\ Verified(m, d).pages[p] = m.pages[p]
              /\ m.files[m.pages[p]] # Nothing => Verified(m, d).files[m.pages[p]] = m.files[m.pages[p]]
         /\ \A p \in Pages : m.pages[p] \in Paths /\ Verified(m, d).files[m.pages[p]] # Nothing =>
              Verified(m, d).pages[p] = m.pages[p]
<1> DEFINE stale == {x \in Tracked(m) : d[x] # m.files[x]}
<1>1. stale \subseteq Paths /\ \A x \in Paths : x \in stale <=> m.files[x] # Nothing /\ d[x] # m.files[x]
  BY DEF Tracked
<1>2. CASE stale = {}
  <2>1. Verified(m, d) = m
    BY <1>2 DEF Verified
  <2>2. \A x \in Paths : m.files[x] # Nothing => d[x] = m.files[x]
    BY <1>1, <1>2
  <2> QED BY <2>1, <2>2
<1>3. CASE stale # {}
  <2> DEFINE n == [version |-> 0,
                   files |-> [x \in Paths |-> IF x \in stale THEN Nothing ELSE m.files[x]],
                   pages |-> [p \in Pages |-> IF m.pages[p] \in Tracked(m) \ stale THEN m.pages[p] ELSE Nothing],
                   knew |-> m.knew]
  <2>1. Verified(m, d) = n
    BY <1>3 DEF Verified
  <2>2. /\ n.version = 0 /\ n.knew = m.knew
        /\ n.files = [x \in Paths |-> IF x \in stale THEN Nothing ELSE m.files[x]]
        /\ n.pages = [p \in Pages |-> IF m.pages[p] \in Tracked(m) \ stale THEN m.pages[p] ELSE Nothing]
    OBVIOUS
  <2>3. n \in Manifests
    <3>1. [x \in Paths |-> IF x \in stale THEN Nothing ELSE m.files[x]] \in [Paths -> Contents \cup {Nothing}]
      BY ManifestFacts
    <3>2. [p \in Pages |-> IF m.pages[p] \in Tracked(m) \ stale THEN m.pages[p] ELSE Nothing]
            \in [Pages -> Paths \cup {Nothing}]
      BY ManifestFacts
    <3>3. 0 \in 0..MaxCommits /\ m.knew \in SUBSET Pages
      BY ManifestFacts, MarkdownDiskConstants
    <3> HIDE DEF stale
    <3> QED BY <3>1, <3>2, <3>3 DEF Manifests
  <2>4. \A x \in Paths : n.files[x] = IF x \in stale THEN Nothing ELSE m.files[x]
    BY <2>2
  <2>5. \A p \in Pages : n.pages[p] = IF m.pages[p] \in Tracked(m) \ stale THEN m.pages[p] ELSE Nothing
    BY <2>2
  <2>6. \A x \in Paths : x \in Tracked(m) <=> m.files[x] # Nothing
    BY DEF Tracked
  <2>7. Tracked(m) \subseteq Paths
    BY DEF Tracked
  <2> HIDE DEF n, stale
  <2>8. \A x \in Paths : n.files[x] # Nothing => n.files[x] = m.files[x] /\ d[x] = m.files[x]
    BY <2>4, <1>1
  <2>9. \A p \in Pages : n.pages[p] # Nothing =>
          n.pages[p] = m.pages[p] /\ (m.files[m.pages[p]] # Nothing => n.files[m.pages[p]] = m.files[m.pages[p]])
    BY <2>5, <2>4, <2>7
  <2>10. \A p \in Pages : m.pages[p] \in Paths /\ n.files[m.pages[p]] # Nothing => n.pages[p] = m.pages[p]
    BY <2>4, <2>5, <2>6
  <2> QED BY <2>1, <2>2, <2>3, <2>8, <2>9, <2>10
<1> QED BY <1>2, <1>3

\* And it is as sound as the manifest was.
LEMMA VerifiedSound ==
  ASSUME NEW m \in Manifests, NEW d \in Disks,
         FilesPlaced(m.files), PagesPlaced(m), Backed(m), Exact(m), Tidy(m), Recorded(m, {})
  PROVE  /\ FilesPlaced(Verified(m, d).files) /\ PagesPlaced(Verified(m, d)) /\ Backed(Verified(m, d))
         /\ Exact(Verified(m, d)) /\ Tidy(Verified(m, d)) /\ Recorded(Verified(m, d), {})
<1> DEFINE n == Verified(m, d)
<1>1. /\ n \in Manifests
      /\ n.version > 0 => n = m
      /\ \A x \in Paths : n.files[x] # Nothing => n.files[x] = m.files[x] /\ d[x] = m.files[x]
      /\ \A p \in Pages : n.pages[p] # Nothing =>
           /\ n.pages[p] = m.pages[p]
           /\ m.files[m.pages[p]] # Nothing => n.files[m.pages[p]] = m.files[m.pages[p]]
      /\ \A p \in Pages : m.pages[p] \in Paths /\ n.files[m.pages[p]] # Nothing => n.pages[p] = m.pages[p]
  BY VerifiedFacts
<1> HIDE DEF n
<1>2. FilesPlaced(n.files)
  BY <1>1 DEF FilesPlaced
<1>3. PagesPlaced(n)
  BY <1>1 DEF PagesPlaced
<1>4. Backed(n)
  BY <1>1, UndisturbedFacts DEF Backed
<1>5. Exact(n)
  <2>1. CASE n.version > 0
    BY <2>1, <1>1
  <2>2. CASE ~(n.version > 0)
    BY <2>2 DEF Exact
  <2> QED BY <2>1, <2>2
<1>6. Tidy(n)
  <2>1. CASE n.version > 0
    BY <2>1, <1>1
  <2>2. CASE ~(n.version > 0)
    BY <2>2 DEF Tidy
  <2> QED BY <2>1, <2>2
<1>7. Recorded(n, {})
  <2> SUFFICES ASSUME NEW x \in Paths, NEW p \in Undisturbed, n.files[x] # Nothing, n.files[x][1] = p
               PROVE  n.pages[p] = x
    BY DEF Recorded
  <2>1. m.pages[p] = x
    BY <1>1 DEF Recorded
  <2> QED BY <2>1, <1>1, UndisturbedFacts
<1> QED BY <1>2, <1>3, <1>4, <1>5, <1>6, <1>7 DEF n
-----------------------------------------------------------------------------
(* What a rebuild makes of one. *)

LEMMA RebuiltFacts ==
  ASSUME NEW m \in Manifests, NEW v \in Versions, NEW hidden \in SUBSET Pages
  PROVE  /\ Rebuilt(m, v, hidden) \in Manifests
         /\ Rebuilt(m, v, hidden).version = v /\ Rebuilt(m, v, hidden).knew = hidden
         /\ \A x \in Paths : Rebuilt(m, v, hidden).files[x] =
              IF x \in Orphans(m, v, hidden) THEN Nothing ELSE m.files[x]
         /\ \A p \in Placed(v, hidden) : Rebuilt(m, v, hidden).pages[p] = Tree[v][p].path
         /\ \A p \in KeptBy(m, v, hidden) : Rebuilt(m, v, hidden).pages[p] = m.pages[p]
         /\ \A p \in Pages : p \notin Placed(v, hidden) \cup KeptBy(m, v, hidden) =>
              Rebuilt(m, v, hidden).pages[p] = Nothing
<1> DEFINE orphans == Orphans(m, v, hidden)
           placed == Placed(v, hidden)
           kept == KeptBy(m, v, hidden)
           files == [x \in Paths |-> IF x \in orphans THEN Nothing ELSE m.files[x]]
           pages == [p \in Pages |-> CASE p \in placed -> Tree[v][p].path
                                       [] p \in kept -> m.pages[p]
                                       [] OTHER -> Nothing]
           n == [version |-> v, files |-> files, pages |-> pages, knew |-> hidden]
<1>1. Rebuilt(m, v, hidden) = n
  BY DEF Rebuilt
<1>2. placed \subseteq Pages /\ kept \subseteq Pages /\ \A p \in kept : p \notin placed
  <2>1. placed \subseteq DOMAIN Tree[v] /\ kept \subseteq DOMAIN Tree[v] \ placed
    BY PlacedFacts DEF KeptBy
  <2> QED BY <2>1, NodeFacts
<1>3. \A p \in placed : Tree[v][p].path \in Paths
  BY PlacedFacts, NodeFacts
<1> HIDE DEF orphans, placed, kept
<1>4. files \in [Paths -> Contents \cup {Nothing}]
  BY ManifestFacts
<1>5. pages \in [Pages -> Paths \cup {Nothing}]
  BY ManifestFacts, <1>2, <1>3
<1>6. /\ \A x \in Paths : files[x] = IF x \in orphans THEN Nothing ELSE m.files[x]
      /\ \A p \in placed : pages[p] = Tree[v][p].path
      /\ \A p \in kept : pages[p] = m.pages[p]
      /\ \A p \in Pages : p \notin placed \cup kept => pages[p] = Nothing
  BY <1>2
<1> HIDE DEF files, pages
<1>7. n \in Manifests
  BY <1>4, <1>5 DEF Manifests, Versions
<1> QED BY <1>1, <1>6, <1>7 DEF orphans, placed, kept

\* When every page that differed is written the manifest of the rebuild is exact and tidy, and
\* the files of undisturbed pages are where it says.
LEMMA RebuiltSound ==
  ASSUME NEW m \in Manifests, NEW v \in Versions, NEW hidden \in SUBSET Pages,
         FilesPlaced(m.files), PagesPlaced(m), Backed(m), Differing(m, v, hidden) = {}
  PROVE  /\ FilesPlaced(Rebuilt(m, v, hidden).files) /\ PagesPlaced(Rebuilt(m, v, hidden))
         /\ Backed(Rebuilt(m, v, hidden))
         /\ Exact(Rebuilt(m, v, hidden)) /\ Tidy(Rebuilt(m, v, hidden)) /\ Recorded(Rebuilt(m, v, hidden), {})
<1> DEFINE n == Rebuilt(m, v, hidden)
<1>1. /\ n \in Manifests /\ n.version = v /\ n.knew = hidden
      /\ \A x \in Paths : n.files[x] = IF x \in Orphans(m, v, hidden) THEN Nothing ELSE m.files[x]
      /\ \A p \in Placed(v, hidden) : n.pages[p] = Tree[v][p].path
      /\ \A p \in KeptBy(m, v, hidden) : n.pages[p] = m.pages[p]
      /\ \A p \in Pages : p \notin Placed(v, hidden) \cup KeptBy(m, v, hidden) => n.pages[p] = Nothing
  BY RebuiltFacts
<1> HIDE DEF n
<1>2. \A p \in Placed(v, hidden) : /\ p \in DOMAIN Tree[v] /\ Tree[v][p].path \in Paths
                                   /\ m.files[Tree[v][p].path] = File(v, p)
  BY PlacedFacts, NodeFacts DEF Differing
<1>3. \A p \in KeptBy(m, v, hidden) : /\ p \in DOMAIN Tree[v] /\ p \notin Placed(v, hidden) /\ p \in Pages
                                      /\ m.pages[p] # Nothing /\ m.pages[p] \in Paths
                                      /\ m.pages[p] \notin Orphans(m, v, hidden)
  <2> SUFFICES ASSUME NEW p \in KeptBy(m, v, hidden)
               PROVE  /\ p \in DOMAIN Tree[v] /\ p \notin Placed(v, hidden) /\ p \in Pages
                      /\ m.pages[p] # Nothing /\ m.pages[p] \in Paths
                      /\ m.pages[p] \notin Orphans(m, v, hidden)
    OBVIOUS
  <2>1. p \in Frozen(v, hidden) /\ m.pages[p] # Nothing
    BY DEF KeptBy
  <2>2. p \in DOMAIN Tree[v] /\ p \notin Placed(v, hidden)
    BY <2>1, PlacedFacts
  <2>3. p \in Pages
    BY <2>2, NodeFacts
  <2>4. m.pages[p] \in Paths
    BY <2>1, <2>3, ManifestFacts
  <2>5. m.pages[p] \in Kept(m, v, hidden)
    BY DEF Kept
  <2> QED BY <2>1, <2>2, <2>3, <2>4, <2>5 DEF Orphans
<1>4. \A x \in Paths : m.files[x] # Nothing /\ x \notin Orphans(m, v, hidden) =>
        \/ \E q \in Placed(v, hidden) : x = Tree[v][q].path
        \/ \E q \in KeptBy(m, v, hidden) : x = m.pages[q]
  BY DEF Orphans, Tracked, ExpectedPaths, Kept
<1>5. \A p \in Placed(v, hidden) : n.files[Tree[v][p].path] = File(v, p)
  <2>1. \A p \in Placed(v, hidden) : Tree[v][p].path \notin Orphans(m, v, hidden)
    BY DEF Orphans, ExpectedPaths
  <2> QED BY <2>1, <1>1, <1>2
<1>6. FilesPlaced(n.files)
  BY <1>1 DEF FilesPlaced
<1>7. PagesPlaced(n)
  <2> SUFFICES ASSUME NEW p \in Pages, n.pages[p] # Nothing
               PROVE  PlaceOf(p, n.pages[p])
    BY DEF PagesPlaced
  <2>1. CASE p \in Placed(v, hidden)
    BY <2>1, <1>1, <1>2, NodeFacts
  <2>2. CASE p \in KeptBy(m, v, hidden)
    BY <2>2, <1>1, <1>3 DEF PagesPlaced
  <2> QED BY <2>1, <2>2, <1>1
<1>8. Backed(n)
  <2> SUFFICES ASSUME NEW p \in Undisturbed, n.pages[p] # Nothing
               PROVE  n.files[n.pages[p]] # Nothing /\ n.files[n.pages[p]][1] = p
    BY DEF Backed
  <2>1. CASE p \in Placed(v, hidden)
    BY <2>1, <1>1, <1>2, <1>5, NodeFacts
  <2>2. CASE p \in KeptBy(m, v, hidden)
    BY <2>2, <1>1, <1>3 DEF Backed
  <2> QED BY <2>1, <2>2, <1>1, UndisturbedFacts
<1>9. Exact(n)
  BY <1>1, <1>5 DEF Exact
<1>10. Tidy(n)
  <2> SUFFICES ASSUME NEW x \in Paths, n.files[x] # Nothing
               PROVE  x \in ExpectedPaths(v, hidden) \cup {n.pages[p] : p \in Frozen(v, hidden)}
    BY <1>1 DEF Tidy, Tracked
  <2>1. m.files[x] # Nothing /\ x \notin Orphans(m, v, hidden)
    BY <1>1
  <2>2. CASE \E q \in Placed(v, hidden) : x = Tree[v][q].path
    BY <2>2 DEF ExpectedPaths
  <2>3. CASE \E q \in KeptBy(m, v, hidden) : x = m.pages[q]
    <3>1. PICK q \in KeptBy(m, v, hidden) : x = m.pages[q]
      BY <2>3
    <3>2. q \in Frozen(v, hidden) /\ n.pages[q] = x
      BY <3>1, <1>1 DEF KeptBy
    <3> QED BY <3>2
  <2> QED BY <2>1, <2>2, <2>3, <1>4
<1>11. Recorded(n, {})
  <2> SUFFICES ASSUME NEW x \in Paths, NEW p \in Undisturbed, n.files[x] # Nothing, n.files[x][1] = p
               PROVE  n.pages[p] = x
    BY DEF Recorded
  <2>1. m.files[x] # Nothing /\ x \notin Orphans(m, v, hidden) /\ m.files[x][1] = p
    BY <1>1
  <2>2. PlaceOf(p, x)
    BY <2>1 DEF FilesPlaced
  <2>3. CASE \E q \in Placed(v, hidden) : x = Tree[v][q].path
    <3>1. PICK q \in Placed(v, hidden) : x = Tree[v][q].path
      BY <2>3
    <3>2. PlaceOf(q, x)
      BY <3>1, <1>2, NodeFacts
    <3>3. p = q
      BY <3>2, <2>2, UndisturbedFacts
    <3> QED BY <3>1, <3>3, <1>1
  <2>4. CASE \E q \in KeptBy(m, v, hidden) : x = m.pages[q]
    <3>1. PICK q \in KeptBy(m, v, hidden) : x = m.pages[q]
      BY <2>4
    <3>2. PlaceOf(q, x)
      BY <3>1, <1>3 DEF PagesPlaced
    <3>3. p = q
      BY <3>2, <2>2, UndisturbedFacts
    <3> QED BY <3>1, <3>3, <1>1
  <2> QED BY <2>1, <2>3, <2>4, <1>4
<1> QED BY <1>6, <1>7, <1>8, <1>9, <1>10, <1>11 DEF n
-----------------------------------------------------------------------------
(* A file that a rebuild writes. *)

With(m, x, c) == [m EXCEPT !.files[x] = c]

LEMMA WithFacts ==
  ASSUME NEW m \in Manifests, NEW x \in Paths, NEW c \in Contents
  PROVE  /\ With(m, x, c) \in Manifests
         /\ With(m, x, c).pages = m.pages
         /\ \A y \in Paths : With(m, x, c).files[y] = IF y = x THEN c ELSE m.files[y]
<1>1. PICK v \in 0..MaxCommits, f \in [Paths -> Contents \cup {Nothing}],
           g \in [Pages -> Paths \cup {Nothing}], k \in SUBSET Pages :
        m = [version |-> v, files |-> f, pages |-> g, knew |-> k]
  BY DEF Manifests
<1> DEFINE h == [f EXCEPT ![x] = c]
<1>2. With(m, x, c) = [version |-> v, files |-> h, pages |-> g, knew |-> k]
  BY <1>1 DEF With
<1>3. h \in [Paths -> Contents \cup {Nothing}]
  OBVIOUS
<1>4. \A y \in Paths : h[y] = IF y = x THEN c ELSE f[y]
  OBVIOUS
<1>5. With(m, x, c) \in Manifests
  BY <1>2, <1>3 DEF Manifests
<1>6. m.files = f /\ m.pages = g
  BY <1>1
<1>7. With(m, x, c).pages = g /\ With(m, x, c).files = h
  <2> HIDE DEF h
  <2> QED BY <1>2
<1> QED BY <1>4, <1>5, <1>6, <1>7

LEMMA WithSound ==
  ASSUME NEW m \in Manifests, NEW v \in Versions, NEW hidden \in SUBSET Pages, NEW q \in Placed(v, hidden),
         FilesPlaced(m.files), PagesPlaced(m), Backed(m)
  PROVE  LET n == With(m, Tree[v][q].path, File(v, q))
         IN  /\ FilesPlaced(n.files) /\ PagesPlaced(n) /\ Backed(n)
             /\ \A S \in {{}, Placed(v, hidden)} : Recorded(m, S) => Recorded(n, Placed(v, hidden))
<1> DEFINE x == Tree[v][q].path
           c == File(v, q)
           n == With(m, x, c)
<1>1. q \in Pages /\ x \in Paths /\ c \in Contents /\ c # Nothing /\ c[1] = q /\ PlaceOf(q, x)
  BY NodeFacts, PlacedFacts
<1>2. /\ n \in Manifests /\ n.pages = m.pages
      /\ \A y \in Paths : n.files[y] = IF y = x THEN c ELSE m.files[y]
  <2> HIDE DEF x, c
  <2> QED BY <1>1, WithFacts
<1> HIDE DEF n, x, c
<1>3. FilesPlaced(n.files)
  BY <1>1, <1>2 DEF FilesPlaced
<1>4. PagesPlaced(n)
  BY <1>2 DEF PagesPlaced
<1>5. Backed(n)
  <2> SUFFICES ASSUME NEW p \in Undisturbed, n.pages[p] # Nothing
               PROVE  n.files[n.pages[p]] # Nothing /\ n.files[n.pages[p]][1] = p
    BY DEF Backed
  <2>1. /\ p \in Pages /\ m.pages[p] # Nothing /\ m.pages[p] \in Paths
        /\ m.files[m.pages[p]] # Nothing /\ m.files[m.pages[p]][1] = p
    BY <1>2, UndisturbedFacts, ManifestFacts DEF Backed
  <2>2. PlaceOf(p, m.pages[p])
    BY <2>1 DEF PagesPlaced
  <2>3. m.pages[p] = x => p = q
    BY <2>2, <1>1, UndisturbedFacts
  <2> QED BY <2>1, <2>3, <1>1, <1>2
<1>6. ASSUME NEW S \in {{}, Placed(v, hidden)}, Recorded(m, S)
      PROVE  Recorded(n, Placed(v, hidden))
  BY <1>1, <1>2, <1>6 DEF Recorded
<1> QED BY <1>3, <1>4, <1>5, <1>6 DEF n, x, c
-----------------------------------------------------------------------------
(* The lock of the root. *)

Kinds == Inits \cup Rebuilds

LEMMA JobFacts ==
  ASSUME NEW e \in Emitters
  PROVE  /\ \A k \in Inits : Job(e, k, 0) \in Jobs
         /\ \A k \in Rebuilds, v \in Versions : Job(e, k, v) \in Jobs
         /\ \A k, v : Job(e, k, v).by = e /\ Job(e, k, v).kind = k /\ Job(e, k, v).version = v
BY DEF Job, Jobs, Versions

LEMMA JobParts ==
  ASSUME NEW j \in Jobs
  PROVE  /\ j.by \in Emitters /\ j.kind \in Kinds
         /\ j.kind \in Rebuilds => j.version \in Versions
         /\ j.kind \in Inits => j.version = 0 /\ j.kind \notin Rebuilds
BY DEF Jobs, Versions, Kinds, Inits, Rebuilds

\* No job of init is one of a rebuild.
LEMMA KindFacts ==
  /\ \A k \in Inits : k \notin Rebuilds
  /\ Inits \subseteq Kinds /\ Rebuilds \subseteq Kinds
BY DEF Inits, Rebuilds, Kinds

LEMMA QueueFacts ==
  ASSUME NEW q \in Seq(Jobs)
  PROVE  /\ Len(q) \in Nat /\ DOMAIN q = 1..Len(q)
         /\ \A i \in DOMAIN q : q[i] \in Jobs
         /\ q # <<>> => 1 \in DOMAIN q /\ Len(q) > 0
         /\ q = <<>> => DOMAIN q = {}
<1>1. Len(q) \in Nat /\ DOMAIN q = 1..Len(q) /\ \A i \in DOMAIN q : q[i] \in Jobs
  OBVIOUS
<1>2. q # <<>> => Len(q) > 0
  OBVIOUS
<1>3. q = <<>> => DOMAIN q = {}
  OBVIOUS
<1> QED BY <1>1, <1>2, <1>3

\* A job that is appended waits behind those that are there.
LEMMA AppendFacts ==
  ASSUME NEW q \in Seq(Jobs), NEW j \in Jobs
  PROVE  /\ Append(q, j) \in Seq(Jobs) /\ Append(q, j) # <<>>
         /\ \A i \in DOMAIN Append(q, j) : Append(q, j)[i] = j \/ (i \in DOMAIN q /\ Append(q, j)[i] = q[i])
         /\ q # <<>> => Append(q, j)[1] = q[1]
         /\ q = <<>> => Append(q, j)[1] = j
<1>1. Append(q, j) \in Seq(Jobs) /\ Len(Append(q, j)) = Len(q) + 1
  OBVIOUS
<1>2. \A i \in 1..Len(q) : Append(q, j)[i] = q[i]
  OBVIOUS
<1>3. Append(q, j)[Len(q) + 1] = j
  OBVIOUS
<1>4. Len(q) \in Nat /\ DOMAIN q = 1..Len(q) /\ DOMAIN Append(q, j) = 1..(Len(q) + 1)
  BY <1>1
<1>5. Append(q, j) # <<>>
  BY <1>1, <1>4, QueueFacts
<1>6. \A i \in DOMAIN Append(q, j) : i \in DOMAIN q \/ i = Len(q) + 1
  BY <1>4
<1>7. q # <<>> => 1 \in 1..Len(q)
  BY <1>4, QueueFacts
<1>8. q = <<>> => Len(q) + 1 = 1
  OBVIOUS
<1> QED BY <1>1, <1>2, <1>3, <1>4, <1>5, <1>6, <1>7, <1>8

\* The job at the front ends, and one or none is queued in its place.
LEMMA TailFacts ==
  ASSUME NEW q \in Seq(Jobs), q # <<>>
  PROVE  /\ Tail(q) \in Seq(Jobs)
         /\ \A i \in DOMAIN Tail(q) : i + 1 \in DOMAIN q /\ Tail(q)[i] = q[i + 1]
<1>1. Tail(q) \in Seq(Jobs) /\ Len(Tail(q)) = Len(q) - 1
  BY QueueFacts
<1>2. \A i \in 1..Len(Tail(q)) : Tail(q)[i] = q[i + 1]
  BY QueueFacts
<1>3. Len(q) \in Nat /\ DOMAIN q = 1..Len(q) /\ DOMAIN Tail(q) = 1..(Len(q) - 1) /\ Len(q) > 0
  BY <1>1, QueueFacts
<1> QED BY <1>1, <1>2, <1>3

LEMMA ConcatOneFacts ==
  ASSUME NEW q \in Seq(Jobs), NEW j \in Jobs
  PROVE  q \o <<j>> = Append(q, j)
OBVIOUS
LEMMA ConcatNoneFacts ==
  ASSUME NEW q \in Seq(Jobs)
  PROVE  q \o <<>> = q
OBVIOUS
-----------------------------------------------------------------------------
(* Types. *)

Probes == [on : BOOLEAN, healthy : {"unknown", "yes", "no"}, offset : {"unknown", "level", "moved"},
           behind : BOOLEAN, sinceRound : BOOLEAN, sinceAnchor : BOOLEAN]
TypeDisk == 
  /\ head \in Versions
  /\ disk \in Disks
  /\ saved \in Manifests
  /\ blind \in Types
  /\ current \in Emitters
TypeSets == 
  /\ stopped \subseteq Emitters
  /\ failing \subseteq Emitters
  /\ severed \subseteq Emitters
  /\ due \subseteq Emitters
  /\ misled \subseteq Emitters
TypePhase == phase \in [Emitters -> Phases] /\ held \in [Emitters -> 0..head]
TypeMem == mem \in [Emitters -> Manifests] /\ work \in [gone : SUBSET Paths, changed : BOOLEAN]
TypeQueue == queue \in Seq(Jobs)
TypeRest == 
  /\ service \in {"no", "stopping", "starting"}
  /\ wanted \in BOOLEAN
  /\ leaked \in BOOLEAN
  /\ timeouts \in 0..MaxTimeouts
  /\ trouble \in 0..MaxTrouble
TypeProbe == probe \in Probes

LEMMA TypeParts ==
  TypeOK <=> TypeDisk /\ TypeSets /\ TypePhase /\ TypeMem /\ TypeQueue /\ TypeRest /\ TypeProbe
BY DEF TypeOK, Versions, Disks, Probes, TypeDisk, TypeSets, TypePhase, TypeMem, TypeQueue, TypeRest, TypeProbe

LEMMA TypePartsNext ==
  TypeDisk' /\ TypeSets' /\ TypePhase' /\ TypeMem' /\ TypeQueue' /\ TypeRest' /\ TypeProbe' => TypeOK'
BY DEF TypeOK, Versions, Disks, Probes, TypeDisk, TypeSets, TypePhase, TypeMem, TypeQueue, TypeRest, TypeProbe

\* What the guards of a step at the lock say of the job at the front.
LEMMA FrontFacts ==
  ASSUME TypeOK, NEW kinds, AtFront(kinds)
  PROVE  /\ queue # <<>> /\ Front \in Jobs /\ Front.kind \in kinds
         /\ Front.by \in Emitters /\ Front.kind \in Kinds
         /\ Front.kind \in Rebuilds => Front.version \in Versions
         /\ Tail(queue) \in Seq(Jobs)
<1>1. queue \in Seq(Jobs) /\ queue # <<>> /\ Front.kind \in kinds
  BY TypeParts DEF TypeQueue, AtFront
<1>2. Front \in Jobs /\ Tail(queue) \in Seq(Jobs)
  BY <1>1, QueueFacts, TailFacts DEF Front
<1> QED BY <1>1, <1>2, JobParts

LEMMA FirstIn ==
  ASSUME NEW S, S # {}
  PROVE  First(S) \in S
BY Zenon DEF First

LEMMA BoundFacts ==
  MaxTimeouts \in Nat /\ MaxTrouble \in Nat
BY MirrorConstants

LEMMA TypeInit ==
  ASSUME Init
  PROVE  TypeOK
<1>1. current \in Emitters
  BY MirrorConstants DEF Init, Boot
<1>2. TypeDisk
  BY <1>1, FreshFacts, MirrorConstants, MarkdownDiskConstants DEF Init, TypeDisk, Versions, Disks
<1>3. TypeSets
  BY DEF Init, Boot, TypeSets
<1>4. TypePhase
  BY <1>1 DEF Init, Boot, TypePhase, Phases
<1>5. TypeMem
  BY FreshFacts DEF Init, Boot, TypeMem, Idle
<1>6. TypeQueue
  <2>1. Job(current, "prepare", 0) \in Jobs
    BY <1>1, JobFacts DEF Inits
  <2> QED BY <2>1 DEF Init, Boot, TypeQueue
<1>7. TypeRest
  <2>1. 0 \in 0..MaxTimeouts /\ 0 \in 0..MaxTrouble
    BY BoundFacts
  <2>2. timeouts = 0 /\ trouble = 0 /\ leaked = FALSE /\ wanted = FALSE /\ service = "starting"
    BY DEF Init, Boot
  <2> QED BY <2>1, <2>2 DEF TypeRest
<1>8. TypeProbe
  BY DEF Init, Boot, TypeProbe, Probes, Unprobed
<1> QED BY <1>2, <1>3, <1>4, <1>5, <1>6, <1>7, <1>8, TypeParts

\* What the probe keeps has its type whatever it notes or paces.
LEMMA ProbeTyped ==
  ASSUME NEW pr \in Probes
  PROVE  Noted(pr) \in Probes
<1>1. pr.on \in BOOLEAN /\ pr.behind \in BOOLEAN
  BY DEF Probes
<1>2. Noted(pr) = [pr EXCEPT !.sinceRound = pr.on, !.sinceAnchor = pr.behind]
  BY DEF Noted
<1> QED BY <1>1, <1>2 DEF Probes

LEMMA PacedTyped ==
  ASSUME TypeOK
  PROVE  Paced \in Probes
<1> DEFINE followed == IF probe.behind THEN probe.sinceAnchor ELSE probe.sinceRound
           lag == phase[current] = "running" /\ (probe.behind \/ probe.offset = "moved") /\ ~followed
<1>1. lag \in BOOLEAN
  OBVIOUS
<1>2. Pace = [probe EXCEPT !.offset = "level", !.behind = lag, !.sinceRound = FALSE, !.sinceAnchor = FALSE]
  BY DEF Pace
<1>3. probe \in Probes
  BY TypeParts DEF TypeProbe
<1> HIDE DEF lag
<1>4. Pace \in Probes
  BY <1>1, <1>2, <1>3 DEF Probes
<1> QED BY <1>3, <1>4 DEF Paced

\* The end of a rebuild leaves the types as they are.
LEMMA RebuildEndsTyped ==
  ASSUME TypeOK, AtFront(Rebuilds), NEW ok \in BOOLEAN, RebuildEnds(ok)
  PROVE  /\ queue' \in Seq(Jobs) /\ work' = Idle
         /\ failing' \subseteq Emitters
         /\ phase' \in [Emitters -> Phases] /\ probe' \in Probes
<1> DEFINE e == Front.by
<1>1. e \in Emitters /\ Tail(queue) \in Seq(Jobs)
  BY FrontFacts
<1>2. queue' = Tail(queue) /\ work' = Idle
  BY DEF RebuildEnds
<1>3. failing' \subseteq Emitters
  BY <1>1, TypeParts DEF TypeSets, RebuildEnds
<1>4. phase' \in [Emitters -> Phases]
  <2> DEFINE ph == CASE Front.kind = "sync" /\ phase[e] = "syncing" -> IF ok THEN Subscribed(e) ELSE Retried(e)
                     [] Front.kind = "sync" /\ phase[e] = "draining" -> Retried(e)
                     [] OTHER -> phase[e]
  <2>1. Subscribed(e) \in Phases /\ Retried(e) \in Phases
    BY DEF Subscribed, Retried, Phases
  <2>2. phase \in [Emitters -> Phases] /\ phase[e] \in Phases
    BY <1>1, TypeParts DEF TypePhase
  <2>3. ph \in Phases
    BY <2>1, <2>2
  <2>4. phase' = [phase EXCEPT ![e] = ph]
    BY DEF RebuildEnds
  <2> HIDE DEF ph, e
  <2> QED BY <2>2, <2>3, <2>4
<1>5. probe' \in Probes
  <2>1. probe \in Probes
    BY TypeParts DEF TypeProbe
  <2>2. probe' = probe \/ probe' = Noted(probe)
    BY DEF RebuildEnds
  <2> QED BY <2>1, <2>2, ProbeTyped
<1> QED BY <1>1, <1>2, <1>3, <1>4, <1>5
-----------------------------------------------------------------------------
(* What the steps of a rebuild do. *)

LEMMA WriteStep ==
  ASSUME TypeOK, WriteFile
  PROVE  /\ AtFront(Rebuilds) /\ Front.by \in Emitters /\ Front.version \in Versions
         /\ Differing(mem[Front.by], Front.version, blind) # {}
         /\ \E p \in Differing(mem[Front.by], Front.version, blind) :
              LET x == Tree[Front.version][p].path
                  c == File(Front.version, p)
              IN  /\ p \in Placed(Front.version, blind) /\ p \in DOMAIN Tree[Front.version]
                  /\ x \in Paths /\ c \in Contents
                  /\ disk' = [disk EXCEPT ![x] = c]
                  /\ mem' = [mem EXCEPT ![Front.by] = With(@, x, c)]
         /\ misled' = misled \cup (Emitters \ {Front.by})
         /\ work' = [work EXCEPT !.changed = TRUE]
         /\ UNCHANGED <<head, saved, blind, current, service, wanted, phase, stopped, held, severed, due,
                        queue, failing, probe, leaked, timeouts, trouble>>
<1> DEFINE e == Front.by
           v == Front.version
           p == First(Differing(mem[e], v, blind))
<1>1. AtFront(Rebuilds) /\ e \in Emitters /\ v \in Versions
  BY FrontFacts DEF WriteFile
<1>2. Differing(mem[e], v, blind) # {}
  BY DEF WriteFile
<1>3. p \in Differing(mem[e], v, blind)
  BY <1>2, FirstIn
<1>4. p \in Placed(v, blind)
  BY <1>3 DEF Differing
<1>5. p \in DOMAIN Tree[v] /\ Tree[v][p].path \in Paths /\ File(v, p) \in Contents
  BY <1>1, <1>4, PlacedFacts, NodeFacts
<1>6. /\ disk' = [disk EXCEPT ![Tree[v][p].path] = File(v, p)]
      /\ mem' = [mem EXCEPT ![e] = With(@, Tree[v][p].path, File(v, p))]
  BY DEF WriteFile, With
<1>7. /\ misled' = misled \cup (Emitters \ {e})
      /\ work' = [work EXCEPT !.changed = TRUE]
      /\ UNCHANGED <<head, saved, blind, current, service, wanted, phase, stopped, held, severed, due,
                     queue, failing, probe, leaked, timeouts, trouble>>
  BY DEF WriteFile, Others, serviceVars, tailVars, boundVars
<1> HIDE DEF p
<1> QED BY <1>1, <1>2, <1>3, <1>4, <1>5, <1>6, <1>7

LEMMA RemoveStep ==
  ASSUME TypeOK, RemoveFile
  PROVE  /\ AtFront(Rebuilds) /\ Front.by \in Emitters /\ Front.version \in Versions
         /\ Differing(mem[Front.by], Front.version, blind) = {}
         /\ \E x \in Orphans(mem[Front.by], Front.version, blind) \ work.gone :
              /\ x \in Paths
              /\ disk' = [disk EXCEPT ![x] = Nothing]
              /\ work' = [work EXCEPT !.gone = @ \cup {x}]
         /\ misled' = misled \cup (Emitters \ {Front.by})
         /\ UNCHANGED <<head, saved, blind, current, service, wanted, phase, stopped, held, severed, due,
                        mem, queue, failing, probe, leaked, timeouts, trouble>>
<1> DEFINE S == Orphans(mem[Front.by], Front.version, blind) \ work.gone
           x == First(S)
<1>1. AtFront(Rebuilds) /\ Front.by \in Emitters /\ Front.version \in Versions
  BY FrontFacts DEF RemoveFile
<1>2. Differing(mem[Front.by], Front.version, blind) = {} /\ S # {}
  BY DEF RemoveFile
<1>3. x \in S
  <2> HIDE DEF S
  <2> QED BY <1>2, FirstIn
<1>4. x \in Paths
  BY <1>3 DEF Orphans, Tracked
<1>5. disk' = [disk EXCEPT ![x] = Nothing] /\ work' = [work EXCEPT !.gone = @ \cup {x}]
  BY DEF RemoveFile
<1>6. /\ misled' = misled \cup (Emitters \ {Front.by})
      /\ UNCHANGED <<head, saved, blind, current, service, wanted, phase, stopped, held, severed, due,
                     mem, queue, failing, probe, leaked, timeouts, trouble>>
  BY DEF RemoveFile, Others, serviceVars, tailVars, boundVars
<1> HIDE DEF x
<1> QED BY <1>1, <1>2, <1>3, <1>4, <1>5, <1>6

LEMMA ReplaceStep ==
  ASSUME TypeOK, Replace
  PROVE  /\ AtFront(Rebuilds) /\ Front.by \in Emitters /\ Front.version \in Versions
         /\ Differing(mem[Front.by], Front.version, blind) = {}
         /\ Orphans(mem[Front.by], Front.version, blind) \subseteq work.gone
         /\ mem' = [mem EXCEPT ![Front.by] = Rebuilt(@, Front.version, blind)]
         /\ saved' \in {saved, Rebuilt(mem[Front.by], Front.version, blind)}
         /\ leaked' = (leaked \/ Front.by \in misled)
         /\ \E ok \in BOOLEAN : RebuildEnds(ok)
         /\ (UNCHANGED <<timeouts, trouble>> \/ Trouble)
         /\ UNCHANGED <<head, disk, blind, current, service, wanted, stopped, held, severed, due, misled>>
<1>1. AtFront(Rebuilds) /\ Front.by \in Emitters /\ Front.version \in Versions
  BY FrontFacts DEF Replace
<1>2. /\ Differing(mem[Front.by], Front.version, blind) = {}
      /\ Orphans(mem[Front.by], Front.version, blind) \subseteq work.gone
      /\ mem' = [mem EXCEPT ![Front.by] = Rebuilt(@, Front.version, blind)]
      /\ leaked' = (leaked \/ Front.by \in misled)
      /\ UNCHANGED <<head, disk, blind, current, service, wanted, stopped, held, severed, due, misled>>
  BY DEF Replace, serviceVars, tailVars
<1>3. \/ /\ saved' \in {saved, Rebuilt(mem[Front.by], Front.version, blind)}
         /\ RebuildEnds(TRUE) /\ UNCHANGED boundVars
      \/ Trouble /\ RebuildEnds(FALSE) /\ UNCHANGED saved
  BY DEF Replace
<1> QED BY <1>1, <1>2, <1>3 DEF boundVars

LEMMA FailStep ==
  ASSUME TypeOK, RebuildFails
  PROVE  /\ AtFront(Rebuilds) /\ Front.by \in Emitters /\ Front.version \in Versions
         /\ misled \subseteq misled' /\ misled' \subseteq Emitters
         /\ \/ Differing(mem[Front.by], Front.version, blind) # {}
            \/ work.gone # {} => Front.by \in misled'
         /\ RebuildEnds(FALSE) /\ Trouble
         /\ failing' = failing \cup {Front.by}
         /\ UNCHANGED <<head, disk, saved, blind, current, service, wanted, stopped, held, severed, due,
                        mem, leaked>>
<1>1. AtFront(Rebuilds) /\ Front.by \in Emitters /\ Front.version \in Versions
  BY FrontFacts DEF RebuildFails
<1>2. \/ Differing(mem[Front.by], Front.version, blind) # {} /\ UNCHANGED misled
      \/ misled' = IF work.gone # {} THEN misled \cup {Front.by} ELSE misled
  BY DEF RebuildFails
<1>3. misled \subseteq Emitters
  BY TypeParts DEF TypeSets
<1>4. RebuildEnds(FALSE) /\ Trouble
  BY DEF RebuildFails
<1>5. failing' = failing \cup {Front.by}
  BY <1>4 DEF RebuildEnds
<1>6. UNCHANGED <<head, disk, saved, blind, current, service, wanted, stopped, held, severed, due, mem, leaked>>
  BY DEF RebuildFails, diskVars, serviceVars, tailVars
<1> QED BY <1>1, <1>2, <1>3, <1>4, <1>5, <1>6

LEMMA LoadStep ==
  ASSUME TypeOK, LoadManifest
  PROVE  LET e == Front.by
             m == Verified(saved, disk)
         IN  /\ AtFront(Inits) /\ e \in Emitters
             /\ m \in Manifests
             /\ mem' = [mem EXCEPT ![e] = m]
             /\ misled' = misled \ {e} /\ failing' = failing \ {e}
             /\ leaked' = (leaked \/ \E x \in Paths : disk[x] # Nothing /\ m.files[x] = Nothing)
             /\ \/ queue' = Tail(queue)
                \/ \E j \in Jobs : j.by = e /\ queue' = Append(Tail(queue), j)
             /\ \E ph \in Phases : phase' = [phase EXCEPT ![e] = ph]
             /\ probe' \in Probes
             /\ UNCHANGED <<head, disk, saved, blind, current, service, wanted, stopped, held, severed, due,
                            work, timeouts, trouble>>
<1> DEFINE e == Front.by
           m == Verified(saved, disk)
<1>1. AtFront(Inits) /\ e \in Emitters /\ Tail(queue) \in Seq(Jobs)
  BY FrontFacts DEF LoadManifest
<1>2. m \in Manifests
  BY VerifiedFacts, TypeParts DEF TypeDisk
<1>3. /\ mem' = [mem EXCEPT ![e] = m]
      /\ misled' = misled \ {e} /\ failing' = failing \ {e}
      /\ leaked' = (leaked \/ \E x \in Paths : disk[x] # Nothing /\ m.files[x] = Nothing)
      /\ UNCHANGED <<head, disk, saved, blind, current, service, wanted, stopped, held, severed, due,
                     work, timeouts, trouble>>
  BY DEF LoadManifest, diskVars, serviceVars, tailVars, boundVars
<1>4. \/ queue' = Tail(queue)
      \/ \E j \in Jobs : j.by = e /\ queue' = Append(Tail(queue), j)
  <2> DEFINE behind == m.version < held[e]
             next == CASE Front.kind = "load" /\ behind -> <<Job(e, "sync", held[e])>>
                       [] Front.kind = "late" /\ behind -> <<Job(e, "lateSync", held[e])>>
                       [] OTHER -> <<>>
  <2>1. queue' = Tail(queue) \o next
    BY DEF LoadManifest
  <2>2. behind => held[e] \in Versions
    <3>1. held[e] \in 0..head /\ head \in 1..MaxCommits
      BY <1>1, TypeParts DEF TypePhase, TypeDisk, Versions
    <3>2. m.version \in 0..MaxCommits
      BY <1>2, ManifestFacts
    <3> QED BY <3>1, <3>2, MarkdownDiskConstants DEF Versions
  <2>3. \A k \in Rebuilds : behind => Job(e, k, held[e]) \in Jobs /\ Job(e, k, held[e]).by = e
    BY <1>1, <2>2, JobFacts
  <2>4. "sync" \in Rebuilds /\ "lateSync" \in Rebuilds
    BY DEF Rebuilds
  <2> HIDE DEF behind
  <2>5. CASE Front.kind = "load" /\ behind
    <3>1. queue' = Append(Tail(queue), Job(e, "sync", held[e]))
      BY <2>1, <2>3, <2>4, <2>5, <1>1, ConcatOneFacts
    <3> QED BY <3>1, <2>3, <2>4, <2>5
  <2>6. CASE Front.kind = "late" /\ behind
    <3>1. queue' = Append(Tail(queue), Job(e, "lateSync", held[e]))
      BY <2>1, <2>3, <2>4, <2>6, <1>1, ConcatOneFacts
    <3> QED BY <3>1, <2>3, <2>4, <2>6
  <2>7. CASE ~(Front.kind = "load" /\ behind) /\ ~(Front.kind = "late" /\ behind)
    <3>1. queue' = Tail(queue)
      BY <2>1, <2>7, <1>1, ConcatNoneFacts
    <3> QED BY <3>1
  <2> QED BY <2>5, <2>6, <2>7
<1>5. \E ph \in Phases : phase' = [phase EXCEPT ![e] = ph]
  <2> DEFINE behind == m.version < held[e]
             ph == CASE Front.kind = "prepare" /\ phase[e] = "preparing" -> "opening"
                     [] Front.kind = "load" /\ behind -> "syncing"
                     [] Front.kind = "load" /\ ~behind -> Subscribed(e)
                     [] OTHER -> phase[e]
  <2>1. phase[e] \in Phases /\ Subscribed(e) \in Phases /\ {"opening", "syncing"} \subseteq Phases
    BY <1>1, TypeParts DEF TypePhase, Subscribed, Phases
  <2>2. ph \in Phases
    BY <2>1
  <2>3. phase' = [phase EXCEPT ![e] = ph]
    BY DEF LoadManifest
  <2> QED BY <2>2, <2>3
<1>6. probe' \in Probes
  <2>1. probe \in Probes
    BY TypeParts DEF TypeProbe
  <2>2. probe' = probe \/ probe' = Noted(probe)
    BY DEF LoadManifest
  <2> QED BY <2>1, <2>2, ProbeTyped
<1> QED BY <1>1, <1>2, <1>3, <1>4, <1>5, <1>6

LEMMA TypeCommit ==
  ASSUME TypeOK, Commit
  PROVE  TypeOK'
<1>0. TypeDisk /\ TypeSets /\ TypePhase /\ TypeMem /\ TypeQueue /\ TypeRest /\ TypeProbe
  BY TypeParts
<1>1. TypeDisk'
  <2>1. head' \in Versions
    BY <1>0, MarkdownDiskConstants DEF Commit, TypeDisk, Versions
  <2> QED BY <1>0, <2>1 DEF TypeDisk, Commit, diskVars, serviceVars
<1>2. TypeSets'
  BY <1>0 DEF TypeSets, Commit, diskVars, tailVars, lockVars, serviceVars, historyVars, boundVars
<1>3. TypePhase'
  BY <1>0 DEF TypePhase, TypeDisk, Versions, Phases, Commit, diskVars, tailVars, lockVars, serviceVars,
     historyVars, boundVars
<1>4. TypeMem'
  BY <1>0 DEF TypeMem, Commit, diskVars, tailVars, lockVars, serviceVars, historyVars, boundVars
<1>5. TypeQueue'
  BY <1>0 DEF TypeQueue, Commit, diskVars, tailVars, lockVars, serviceVars, historyVars, boundVars
<1>6. TypeRest'
  BY <1>0, BoundFacts DEF TypeRest, Commit, diskVars, tailVars, lockVars, serviceVars, historyVars, boundVars
<1>7. TypeProbe'
  BY <1>0 DEF TypeProbe, Probes, Commit, diskVars, tailVars, lockVars, serviceVars, historyVars, boundVars
<1> QED BY <1>1, <1>2, <1>3, <1>4, <1>5, <1>6, <1>7, TypePartsNext

LEMMA TypeTailDies ==
  ASSUME TypeOK, TailDies
  PROVE  TypeOK'
<1>0. TypeDisk /\ TypeSets /\ TypePhase /\ TypeMem /\ TypeQueue /\ TypeRest /\ TypeProbe
  BY TypeParts
<1>1. TypeDisk'
  BY <1>0 DEF TypeDisk, Versions, TailDies, Trouble, diskVars, tailVars, lockVars, serviceVars, historyVars,
     boundVars
<1>2. TypeSets'
  <2>1. severed' = severed \cup {current} /\ current \in Emitters
    BY <1>0 DEF TailDies, TypeDisk
  <2> QED BY <1>0, <2>1 DEF TypeSets, TailDies, historyVars, lockVars
<1>3. TypePhase'
  BY <1>0 DEF TypePhase, TypeDisk, Versions, Phases, TailDies, Trouble, diskVars, tailVars, lockVars,
     serviceVars, historyVars, boundVars
<1>4. TypeMem'
  BY <1>0 DEF TypeMem, TailDies, Trouble, diskVars, tailVars, lockVars, serviceVars, historyVars, boundVars
<1>5. TypeQueue'
  BY <1>0 DEF TypeQueue, TailDies, Trouble, diskVars, tailVars, lockVars, serviceVars, historyVars, boundVars
<1>6. TypeRest'
  BY <1>0, BoundFacts DEF TypeRest, TailDies, Trouble, diskVars, tailVars, lockVars, serviceVars,
     historyVars, boundVars
<1>7. TypeProbe'
  BY <1>0 DEF TypeProbe, Probes, TailDies, Trouble, diskVars, tailVars, lockVars, serviceVars, historyVars,
     boundVars
<1> QED BY <1>1, <1>2, <1>3, <1>4, <1>5, <1>6, <1>7, TypePartsNext

LEMMA TypeDeliver ==
  ASSUME TypeOK, NEW e \in Emitters, Deliver(e)
  PROVE  TypeOK'
<1>0. TypeDisk /\ TypeSets /\ TypePhase /\ TypeMem /\ TypeQueue /\ TypeRest /\ TypeProbe
  BY TypeParts
<1>1. TypeDisk'
  BY <1>0 DEF TypeDisk, Versions, Deliver, diskVars, tailVars, lockVars, serviceVars, historyVars, boundVars
<1>2. TypeSets'
  BY <1>0 DEF TypeSets, Deliver, diskVars, tailVars, lockVars, serviceVars, historyVars, boundVars
<1>3. TypePhase'
  BY <1>0 DEF TypePhase, TypeDisk, Versions, Phases, Deliver, diskVars, tailVars, lockVars, serviceVars,
     historyVars, boundVars
<1>4. TypeMem'
  BY <1>0 DEF TypeMem, Deliver, diskVars, tailVars, lockVars, serviceVars, historyVars, boundVars
<1>5. TypeQueue'
  BY <1>0 DEF TypeQueue, Deliver, diskVars, tailVars, lockVars, serviceVars, historyVars, boundVars
<1>6. TypeRest'
  BY <1>0, BoundFacts DEF TypeRest, Deliver, diskVars, tailVars, lockVars, serviceVars, historyVars, boundVars
<1>7. TypeProbe'
  BY <1>0 DEF TypeProbe, Probes, Deliver, diskVars, tailVars, lockVars, serviceVars, historyVars, boundVars
<1> QED BY <1>1, <1>2, <1>3, <1>4, <1>5, <1>6, <1>7, TypePartsNext

LEMMA TypeAttempt ==
  ASSUME TypeOK, NEW e \in Emitters, Attempt(e)
  PROVE  TypeOK'
<1>0. TypeDisk /\ TypeSets /\ TypePhase /\ TypeMem /\ TypeQueue /\ TypeRest /\ TypeProbe
  BY TypeParts
<1>1. TypeDisk'
  BY <1>0 DEF TypeDisk, Versions, Attempt, diskVars, tailVars, lockVars, serviceVars, historyVars, boundVars
<1>2. TypeSets'
  BY <1>0 DEF TypeSets, Attempt, diskVars, tailVars, lockVars, serviceVars, historyVars, boundVars
<1>3. TypePhase'
  BY <1>0 DEF TypePhase, TypeDisk, Versions, Phases, Attempt, diskVars, tailVars, lockVars, serviceVars,
     historyVars, boundVars
<1>4. TypeMem'
  BY <1>0 DEF TypeMem, Attempt, diskVars, tailVars, lockVars, serviceVars, historyVars, boundVars
<1>5. TypeQueue'
  <2>1. Job(e, "prepare", 0) \in Jobs
    BY JobFacts DEF Inits
  <2>2. queue' = Append(queue, Job(e, "prepare", 0)) /\ queue \in Seq(Jobs)
    BY <1>0 DEF Attempt, TypeQueue
  <2> QED BY <2>1, <2>2, AppendFacts DEF TypeQueue
<1>6. TypeRest'
  BY <1>0, BoundFacts DEF TypeRest, Attempt, diskVars, tailVars, lockVars, serviceVars, historyVars, boundVars
<1>7. TypeProbe'
  BY <1>0 DEF TypeProbe, Probes, Attempt, diskVars, tailVars, lockVars, serviceVars, historyVars, boundVars
<1> QED BY <1>1, <1>2, <1>3, <1>4, <1>5, <1>6, <1>7, TypePartsNext

LEMMA TypeOpenWorkspace ==
  ASSUME TypeOK, NEW e \in Emitters, OpenWorkspace(e)
  PROVE  TypeOK'
<1>0. TypeDisk /\ TypeSets /\ TypePhase /\ TypeMem /\ TypeQueue /\ TypeRest /\ TypeProbe
  BY TypeParts
<1>1. TypeDisk'
  BY <1>0 DEF TypeDisk, Versions, OpenWorkspace, diskVars, tailVars, lockVars, serviceVars, historyVars,
     boundVars
<1>2. TypeSets'
  BY <1>0 DEF TypeSets, OpenWorkspace, diskVars, tailVars, lockVars, serviceVars, historyVars, boundVars
<1>3. TypePhase'
  BY <1>0 DEF TypePhase, TypeDisk, Versions, Phases, OpenWorkspace, diskVars, tailVars, lockVars,
     serviceVars, historyVars, boundVars
<1>4. TypeMem'
  BY <1>0 DEF TypeMem, OpenWorkspace, diskVars, tailVars, lockVars, serviceVars, historyVars, boundVars
<1>5. TypeQueue'
  <2>1. Job(e, "load", 0) \in Jobs
    BY JobFacts DEF Inits
  <2>2. queue' = Append(queue, Job(e, "load", 0)) /\ queue \in Seq(Jobs)
    BY <1>0 DEF OpenWorkspace, TypeQueue
  <2> QED BY <2>1, <2>2, AppendFacts DEF TypeQueue
<1>6. TypeRest'
  BY <1>0, BoundFacts DEF TypeRest, OpenWorkspace, diskVars, tailVars, lockVars, serviceVars, historyVars,
     boundVars
<1>7. TypeProbe'
  BY <1>0 DEF TypeProbe, Probes, OpenWorkspace, diskVars, tailVars, lockVars, serviceVars, historyVars,
     boundVars
<1> QED BY <1>1, <1>2, <1>3, <1>4, <1>5, <1>6, <1>7, TypePartsNext

LEMMA TypeTimedOut ==
  ASSUME TypeOK, NEW e \in Emitters, TimedOut(e)
  PROVE  TypeOK'
<1>0. TypeDisk /\ TypeSets /\ TypePhase /\ TypeMem /\ TypeQueue /\ TypeRest /\ TypeProbe
  BY TypeParts
<1>1. TypeDisk'
  BY <1>0 DEF TypeDisk, Versions, TimedOut, diskVars, tailVars, lockVars, serviceVars, historyVars, boundVars
<1>2. TypeSets'
  BY <1>0 DEF TypeSets, TimedOut, diskVars, tailVars, lockVars, serviceVars, historyVars, boundVars
<1>3. TypePhase'
  <2> DEFINE ph == IF phase[e] = "syncing" THEN "draining" ELSE Retried(e)
  <2>1. ph \in Phases
    BY DEF Retried, Phases
  <2>2. phase' = [phase EXCEPT ![e] = ph] /\ UNCHANGED <<held, head>>
    BY DEF TimedOut, tailVars
  <2> HIDE DEF ph
  <2> QED BY <1>0, <2>1, <2>2 DEF TypePhase
<1>4. TypeMem'
  BY <1>0 DEF TypeMem, TimedOut, diskVars, tailVars, lockVars, serviceVars, historyVars, boundVars
<1>5. TypeQueue'
  <2>1. queue' = [i \in DOMAIN queue |-> IF queue[i].by = e /\ queue[i].kind = "load"
                                         THEN [queue[i] EXCEPT !.kind = "late"] ELSE queue[i]]
    BY DEF TimedOut
  <2>2. \A i \in DOMAIN queue : queue[i] \in Jobs
    BY <1>0, QueueFacts DEF TypeQueue
  <2>3. \A j \in Jobs : j.kind = "load" => [j EXCEPT !.kind = "late"] \in Jobs
    BY DEF Jobs, Inits, Rebuilds
  <2>4. Len(queue) \in Nat /\ DOMAIN queue = 1..Len(queue)
    BY <1>0, QueueFacts DEF TypeQueue
  <2>5. queue' \in [1..Len(queue) -> Jobs]
    BY <2>1, <2>2, <2>3, <2>4
  <2> QED BY <2>4, <2>5 DEF TypeQueue
<1>6. TypeRest'
  BY <1>0, BoundFacts DEF TypeRest, TimedOut, diskVars, tailVars, lockVars, serviceVars, historyVars, boundVars
<1>7. TypeProbe'
  BY <1>0 DEF TypeProbe, Probes, TimedOut, diskVars, tailVars, lockVars, serviceVars, historyVars, boundVars
<1> QED BY <1>1, <1>2, <1>3, <1>4, <1>5, <1>6, <1>7, TypePartsNext

LEMMA TypeReconcile ==
  ASSUME TypeOK, NEW e \in Emitters, Reconcile(e)
  PROVE  TypeOK'
<1>0. TypeDisk /\ TypeSets /\ TypePhase /\ TypeMem /\ TypeQueue /\ TypeRest /\ TypeProbe
  BY TypeParts
<1>1. TypeDisk'
  BY <1>0 DEF TypeDisk, Versions, Reconcile, diskVars, tailVars, lockVars, serviceVars, historyVars, boundVars
<1>2. TypeSets'
  BY <1>0 DEF TypeSets, Reconcile, diskVars, tailVars, lockVars, serviceVars, historyVars, boundVars
<1>3. TypePhase'
  BY <1>0 DEF TypePhase, TypeDisk, Versions, Phases, Reconcile, diskVars, tailVars, lockVars, serviceVars,
     historyVars, boundVars
<1>4. TypeMem'
  BY <1>0 DEF TypeMem, Reconcile, diskVars, tailVars, lockVars, serviceVars, historyVars, boundVars
<1>5. TypeQueue'
  <2>1. CASE mem[e].version >= held[e]
    BY <2>1, <1>0 DEF Reconcile, TypeQueue
  <2>2. CASE ~(mem[e].version >= held[e])
    <3>1. mem[e].version \in 0..MaxCommits /\ held[e] \in 0..head /\ head \in 1..MaxCommits
      BY <1>0, ManifestFacts DEF TypeMem, TypePhase, TypeDisk, Versions
    <3>2. held[e] \in Versions
      BY <2>2, <3>1, MarkdownDiskConstants DEF Versions
    <3>3. Job(e, "follow", held[e]) \in Jobs
      BY <3>2, JobFacts DEF Rebuilds
    <3>4. queue' = Append(queue, Job(e, "follow", held[e])) /\ queue \in Seq(Jobs)
      BY <2>2, <1>0 DEF Reconcile, TypeQueue
    <3> QED BY <3>3, <3>4, AppendFacts DEF TypeQueue
  <2> QED BY <2>1, <2>2
<1>6. TypeRest'
  BY <1>0, BoundFacts DEF TypeRest, Reconcile, diskVars, tailVars, lockVars, serviceVars, historyVars, boundVars
<1>7. TypeProbe'
  <2>1. probe' = probe \/ probe' = Noted(probe)
    BY DEF Reconcile
  <2> QED BY <1>0, <2>1, ProbeTyped DEF TypeProbe
<1> QED BY <1>1, <1>2, <1>3, <1>4, <1>5, <1>6, <1>7, TypePartsNext

LEMMA TypeLoadManifest ==
  ASSUME TypeOK, LoadManifest
  PROVE  TypeOK'
<1>0. TypeDisk /\ TypeSets /\ TypePhase /\ TypeMem /\ TypeQueue /\ TypeRest /\ TypeProbe
  BY TypeParts
<1>1. TypeDisk'
  BY <1>0, LoadStep DEF TypeDisk
<1>2. TypeSets'
  BY <1>0, LoadStep DEF TypeSets
<1>3. TypePhase'
  BY <1>0, LoadStep DEF TypePhase, TypeDisk
<1>4. TypeMem'
  BY <1>0, LoadStep DEF TypeMem
<1>5. TypeQueue'
  <2>1. Tail(queue) \in Seq(Jobs)
    BY LoadStep, FrontFacts
  <2>2. queue' = Tail(queue) \/ \E j \in Jobs : queue' = Append(Tail(queue), j)
    BY LoadStep
  <2> QED BY <2>1, <2>2, AppendFacts DEF TypeQueue
<1>6. TypeRest'
  BY <1>0, LoadStep DEF TypeRest
<1>7. TypeProbe'
  BY <1>0, LoadStep DEF TypeProbe
<1> QED BY <1>1, <1>2, <1>3, <1>4, <1>5, <1>6, <1>7, TypePartsNext

LEMMA TypeWriteFile ==
  ASSUME TypeOK, WriteFile
  PROVE  TypeOK'
<1>0. TypeDisk /\ TypeSets /\ TypePhase /\ TypeMem /\ TypeQueue /\ TypeRest /\ TypeProbe
  BY TypeParts
<1>1. TypeDisk'
  <2>1. PICK x \in Paths, c \in Contents : disk' = [disk EXCEPT ![x] = c]
    BY WriteStep
  <2>2. disk' \in Disks
    BY <1>0, <2>1 DEF TypeDisk, Disks
  <2> QED BY <1>0, <2>2, WriteStep DEF TypeDisk
<1>2. TypeSets'
  BY <1>0, WriteStep DEF TypeSets
<1>3. TypePhase'
  BY <1>0, WriteStep DEF TypePhase, TypeDisk
<1>4. TypeMem'
  <2> DEFINE e == Front.by
  <2>1. PICK x \in Paths, c \in Contents : mem' = [mem EXCEPT ![e] = With(mem[e], x, c)]
    BY WriteStep
  <2>2. e \in Emitters /\ work' = [work EXCEPT !.changed = TRUE]
    BY WriteStep
  <2> HIDE DEF e
  <2>3. mem[e] \in Manifests
    BY <1>0, <2>2 DEF TypeMem
  <2>4. With(mem[e], x, c) \in Manifests
    BY <2>3, WithFacts
  <2>5. mem' \in [Emitters -> Manifests]
    BY <1>0, <2>1, <2>4 DEF TypeMem
  <2> QED BY <1>0, <2>2, <2>5 DEF TypeMem
<1>5. TypeQueue'
  BY <1>0, WriteStep DEF TypeQueue
<1>6. TypeRest'
  BY <1>0, WriteStep DEF TypeRest
<1>7. TypeProbe'
  BY <1>0, WriteStep DEF TypeProbe
<1> QED BY <1>1, <1>2, <1>3, <1>4, <1>5, <1>6, <1>7, TypePartsNext

LEMMA TypeRemoveFile ==
  ASSUME TypeOK, RemoveFile
  PROVE  TypeOK'
<1>0. TypeDisk /\ TypeSets /\ TypePhase /\ TypeMem /\ TypeQueue /\ TypeRest /\ TypeProbe
  BY TypeParts
<1>1. TypeDisk'
  <2>1. PICK x \in Paths : disk' = [disk EXCEPT ![x] = Nothing]
    BY RemoveStep
  <2>2. disk' \in Disks
    BY <1>0, <2>1 DEF TypeDisk, Disks
  <2> QED BY <1>0, <2>2, RemoveStep DEF TypeDisk
<1>2. TypeSets'
  BY <1>0, RemoveStep DEF TypeSets
<1>3. TypePhase'
  BY <1>0, RemoveStep DEF TypePhase, TypeDisk
<1>4. TypeMem'
  <2>1. PICK x \in Paths : work' = [work EXCEPT !.gone = @ \cup {x}]
    BY RemoveStep
  <2> QED BY <1>0, <2>1, RemoveStep DEF TypeMem
<1>5. TypeQueue'
  BY <1>0, RemoveStep DEF TypeQueue
<1>6. TypeRest'
  BY <1>0, RemoveStep DEF TypeRest
<1>7. TypeProbe'
  BY <1>0, RemoveStep DEF TypeProbe
<1> QED BY <1>1, <1>2, <1>3, <1>4, <1>5, <1>6, <1>7, TypePartsNext

LEMMA TypeReplace ==
  ASSUME TypeOK, Replace
  PROVE  TypeOK'
<1>0. TypeDisk /\ TypeSets /\ TypePhase /\ TypeMem /\ TypeQueue /\ TypeRest /\ TypeProbe
  BY TypeParts
<1>a. PICK ok \in BOOLEAN : RebuildEnds(ok)
  BY ReplaceStep
<1>b. /\ queue' \in Seq(Jobs) /\ work' = Idle /\ failing' \subseteq Emitters
      /\ phase' \in [Emitters -> Phases] /\ probe' \in Probes
  BY <1>a, ReplaceStep, RebuildEndsTyped
<1>c. Rebuilt(mem[Front.by], Front.version, blind) \in Manifests
  BY <1>0, ReplaceStep, RebuiltFacts, MirrorConstants DEF TypeMem, TypeDisk
<1>1. TypeDisk'
  BY <1>0, <1>c, ReplaceStep DEF TypeDisk
<1>2. TypeSets'
  BY <1>0, <1>b, ReplaceStep DEF TypeSets
<1>3. TypePhase'
  BY <1>0, <1>b, ReplaceStep DEF TypePhase, TypeDisk
<1>4. TypeMem'
  <2>1. mem' \in [Emitters -> Manifests]
    BY <1>0, <1>c, ReplaceStep DEF TypeMem
  <2> QED BY <2>1, <1>b DEF TypeMem, Idle
<1>5. TypeQueue'
  BY <1>0, <1>b, ReplaceStep DEF TypeQueue
<1>6. TypeRest'
  <2>1. service' = service /\ wanted' = wanted /\ leaked' \in BOOLEAN
    BY <1>0, ReplaceStep DEF TypeRest
  <2>2. trouble' \in 0..MaxTrouble /\ timeouts' = timeouts
    BY <1>0, ReplaceStep, BoundFacts DEF TypeRest, Trouble
  <2> QED BY <1>0, <2>1, <2>2 DEF TypeRest
<1>7. TypeProbe'
  BY <1>0, <1>b, ReplaceStep DEF TypeProbe
<1> QED BY <1>1, <1>2, <1>3, <1>4, <1>5, <1>6, <1>7, TypePartsNext

LEMMA TypeRebuildFails ==
  ASSUME TypeOK, RebuildFails
  PROVE  TypeOK'
<1>0. TypeDisk /\ TypeSets /\ TypePhase /\ TypeMem /\ TypeQueue /\ TypeRest /\ TypeProbe
  BY TypeParts
<1>b. /\ queue' \in Seq(Jobs) /\ work' = Idle /\ failing' \subseteq Emitters
      /\ phase' \in [Emitters -> Phases] /\ probe' \in Probes
  BY FailStep, RebuildEndsTyped
<1>1. TypeDisk'
  BY <1>0, <1>b, FailStep DEF TypeDisk
<1>2. TypeSets'
  BY <1>0, <1>b, FailStep DEF TypeSets
<1>3. TypePhase'
  BY <1>0, <1>b, FailStep DEF TypePhase, TypeDisk
<1>4. TypeMem'
  BY <1>0, <1>b, FailStep DEF TypeMem, Idle
<1>5. TypeQueue'
  BY <1>0, <1>b, FailStep DEF TypeQueue
<1>6. TypeRest'
  <2>1. service' = service /\ wanted' = wanted /\ leaked' \in BOOLEAN
    BY <1>0, FailStep DEF TypeRest
  <2>2. trouble' \in 0..MaxTrouble /\ timeouts' = timeouts
    BY <1>0, FailStep, BoundFacts DEF TypeRest, Trouble
  <2> QED BY <1>0, <2>1, <2>2 DEF TypeRest
<1>7. TypeProbe'
  BY <1>0, <1>b, FailStep DEF TypeProbe
<1> QED BY <1>1, <1>2, <1>3, <1>4, <1>5, <1>6, <1>7, TypePartsNext

LEMMA TypeProbeFinds ==
  ASSUME TypeOK, ProbeFinds
  PROVE  TypeOK'
<1>0. TypeDisk /\ TypeSets /\ TypePhase /\ TypeMem /\ TypeQueue /\ TypeRest /\ TypeProbe
  BY TypeParts
<1>1. TypeDisk'
  BY <1>0 DEF TypeDisk, Versions, ProbeFinds, diskVars, tailVars, lockVars, serviceVars, historyVars, boundVars
<1>2. TypeSets'
  BY <1>0 DEF TypeSets, ProbeFinds, diskVars, tailVars, lockVars, serviceVars, historyVars, boundVars
<1>3. TypePhase'
  BY <1>0 DEF TypePhase, TypeDisk, Versions, Phases, ProbeFinds, diskVars, tailVars, lockVars, serviceVars,
     historyVars, boundVars
<1>4. TypeMem'
  BY <1>0 DEF TypeMem, ProbeFinds, diskVars, tailVars, lockVars, serviceVars, historyVars, boundVars
<1>5. TypeQueue'
  BY <1>0 DEF TypeQueue, ProbeFinds, diskVars, tailVars, lockVars, serviceVars, historyVars, boundVars
<1>6. TypeRest'
  <2>1. wanted' \in BOOLEAN
    BY <1>0 DEF ProbeFinds, RestartAsked, TypeRest
  <2> QED BY <1>0, <2>1 DEF TypeRest, ProbeFinds, historyVars, boundVars
<1>7. TypeProbe'
  <2>1. probe' = [Paced EXCEPT !.healthy = "yes"]
    BY DEF ProbeFinds
  <2>2. Paced \in Probes
    BY PacedTyped
  <2> QED BY <2>1, <2>2 DEF TypeProbe, Probes
<1> QED BY <1>1, <1>2, <1>3, <1>4, <1>5, <1>6, <1>7, TypePartsNext

LEMMA TypeProbeFails ==
  ASSUME TypeOK, ProbeFails
  PROVE  TypeOK'
<1>0. TypeDisk /\ TypeSets /\ TypePhase /\ TypeMem /\ TypeQueue /\ TypeRest /\ TypeProbe
  BY TypeParts
<1>1. TypeDisk'
  BY <1>0 DEF TypeDisk, Versions, ProbeFails, Trouble, diskVars, tailVars, lockVars, serviceVars,
     historyVars, boundVars
<1>2. TypeSets'
  BY <1>0 DEF TypeSets, ProbeFails, Trouble, diskVars, tailVars, lockVars, serviceVars, historyVars, boundVars
<1>3. TypePhase'
  BY <1>0 DEF TypePhase, TypeDisk, Versions, Phases, ProbeFails, Trouble, diskVars, tailVars, lockVars,
     serviceVars, historyVars, boundVars
<1>4. TypeMem'
  BY <1>0 DEF TypeMem, ProbeFails, Trouble, diskVars, tailVars, lockVars, serviceVars, historyVars, boundVars
<1>5. TypeQueue'
  BY <1>0 DEF TypeQueue, ProbeFails, Trouble, diskVars, tailVars, lockVars, serviceVars, historyVars, boundVars
<1>6. TypeRest'
  BY <1>0, BoundFacts DEF TypeRest, ProbeFails, Trouble, diskVars, tailVars, lockVars, serviceVars,
     historyVars, boundVars
<1>7. TypeProbe'
  BY <1>0 DEF TypeProbe, Probes, ProbeFails, Trouble, diskVars, tailVars, lockVars, serviceVars, historyVars,
     boundVars
<1> QED BY <1>1, <1>2, <1>3, <1>4, <1>5, <1>6, <1>7, TypePartsNext

LEMMA TypeStarted ==
  ASSUME TypeOK, Started
  PROVE  TypeOK'
<1>0. TypeDisk /\ TypeSets /\ TypePhase /\ TypeMem /\ TypeQueue /\ TypeRest /\ TypeProbe
  BY TypeParts
<1>1. TypeDisk'
  BY <1>0 DEF TypeDisk, Versions, Started, diskVars, tailVars, lockVars, serviceVars, historyVars, boundVars
<1>2. TypeSets'
  BY <1>0 DEF TypeSets, Started, diskVars, tailVars, lockVars, serviceVars, historyVars, boundVars
<1>3. TypePhase'
  BY <1>0 DEF TypePhase, TypeDisk, Versions, Phases, Started, diskVars, tailVars, lockVars, serviceVars,
     historyVars, boundVars
<1>4. TypeMem'
  BY <1>0 DEF TypeMem, Started, diskVars, tailVars, lockVars, serviceVars, historyVars, boundVars
<1>5. TypeQueue'
  BY <1>0 DEF TypeQueue, Started, diskVars, tailVars, lockVars, serviceVars, historyVars, boundVars
<1>6. TypeRest'
  BY <1>0, BoundFacts DEF TypeRest, Started, diskVars, tailVars, lockVars, serviceVars, historyVars, boundVars
<1>7. TypeProbe'
  BY <1>0 DEF TypeProbe, Probes, Started, diskVars, tailVars, lockVars, serviceVars, historyVars, boundVars
<1> QED BY <1>1, <1>2, <1>3, <1>4, <1>5, <1>6, <1>7, TypePartsNext

LEMMA TypeStopEmitters ==
  ASSUME TypeOK, StopEmitters
  PROVE  TypeOK'
<1>0. TypeDisk /\ TypeSets /\ TypePhase /\ TypeMem /\ TypeQueue /\ TypeRest /\ TypeProbe
  BY TypeParts
<1>1. TypeDisk'
  BY <1>0 DEF TypeDisk, Versions, StopEmitters, diskVars, tailVars, lockVars, serviceVars, historyVars,
     boundVars
<1>2. TypeSets'
  <2>1. stopped' = stopped \cup {current} /\ current \in Emitters
    BY <1>0 DEF StopEmitters, TypeDisk
  <2> QED BY <1>0, <2>1 DEF TypeSets, StopEmitters, tailVars, lockVars, historyVars
<1>3. TypePhase'
  BY <1>0 DEF TypePhase, TypeDisk, Versions, Phases, StopEmitters, diskVars, tailVars, lockVars, serviceVars,
     historyVars, boundVars
<1>4. TypeMem'
  BY <1>0 DEF TypeMem, StopEmitters, diskVars, tailVars, lockVars, serviceVars, historyVars, boundVars
<1>5. TypeQueue'
  BY <1>0 DEF TypeQueue, StopEmitters, diskVars, tailVars, lockVars, serviceVars, historyVars, boundVars
<1>6. TypeRest'
  BY <1>0, BoundFacts DEF TypeRest, StopEmitters, diskVars, tailVars, lockVars, serviceVars, historyVars,
     boundVars
<1>7. TypeProbe'
  BY <1>0 DEF TypeProbe, Probes, StopEmitters, diskVars, tailVars, lockVars, serviceVars, historyVars, boundVars
<1> QED BY <1>1, <1>2, <1>3, <1>4, <1>5, <1>6, <1>7, TypePartsNext

LEMMA TypeStartEngine ==
  ASSUME TypeOK, StartEngine
  PROVE  TypeOK'
<1>0. TypeDisk /\ TypeSets /\ TypePhase /\ TypeMem /\ TypeQueue /\ TypeRest /\ TypeProbe
  BY TypeParts
<1>a. PICK e \in Emitters \ {current} :
        /\ current' = e
        /\ phase' = [phase EXCEPT ![e] = "preparing", ![current] = IF @ = "running" THEN "free" ELSE @]
        /\ held' = [held EXCEPT ![e] = 0] /\ mem' = [mem EXCEPT ![e] = Fresh]
        /\ severed' = (severed \cup {current}) \ {e} /\ stopped' = stopped \ {e}
        /\ misled' = misled \ {e} /\ due' = due \ {e}
        /\ queue' = Append(queue, Job(e, "prepare", 0))
  BY DEF StartEngine
<1>1. TypeDisk'
  BY <1>0, <1>a DEF TypeDisk, StartEngine, diskVars
<1>2. TypeSets'
  <2>1. current \in Emitters /\ failing' = failing
    BY <1>0 DEF StartEngine, TypeDisk
  <2> QED BY <1>0, <1>a, <2>1 DEF TypeSets
<1>3. TypePhase'
  BY <1>0, <1>a DEF TypePhase, StartEngine, TypeDisk, Phases, Versions
<1>4. TypeMem'
  BY <1>0, <1>a, FreshFacts DEF TypeMem, StartEngine
<1>5. TypeQueue'
  <2>1. Job(e, "prepare", 0) \in Jobs
    BY JobFacts DEF Inits
  <2> QED BY <1>0, <1>a, <2>1, AppendFacts DEF TypeQueue
<1>6. TypeRest'
  BY <1>0, BoundFacts DEF TypeRest, StartEngine, diskVars, tailVars, lockVars, serviceVars, historyVars,
     boundVars
<1>7. TypeProbe'
  BY <1>0 DEF TypeProbe, Probes, StartEngine, diskVars, tailVars, lockVars, serviceVars, historyVars, boundVars
<1> QED BY <1>1, <1>2, <1>3, <1>4, <1>5, <1>6, <1>7, TypePartsNext

LEMMA TypeCrash ==
  ASSUME TypeOK, Crash
  PROVE  TypeOK'
<1>0. TypeDisk /\ TypeSets /\ TypePhase /\ TypeMem /\ TypeQueue /\ TypeRest /\ TypeProbe
  BY TypeParts
<1>1. TypeDisk'
  BY <1>0 DEF TypeDisk, Versions, Crash, Trouble, diskVars, tailVars, lockVars, serviceVars, historyVars,
     boundVars
<1>2. TypeSets'
  BY <1>0 DEF TypeSets, Crash, Trouble, diskVars, tailVars, lockVars, serviceVars, historyVars, boundVars
<1>3. TypePhase'
  BY <1>0 DEF TypePhase, TypeDisk, Versions, Phases, Crash, Trouble, diskVars, tailVars, lockVars,
     serviceVars, historyVars, boundVars
<1>4. TypeMem'
  BY FreshFacts DEF Crash, TypeMem, Idle
<1>5. TypeQueue'
  <2>1. current \in Emitters /\ queue' = <<Job(current, "prepare", 0)>>
    BY <1>0 DEF Crash, TypeDisk
  <2>2. Job(current, "prepare", 0) \in Jobs
    BY <2>1, JobFacts DEF Inits
  <2> QED BY <2>1, <2>2 DEF TypeQueue
<1>6. TypeRest'
  <2>1. trouble' \in 0..MaxTrouble /\ timeouts' = timeouts
    BY <1>0, BoundFacts DEF TypeRest, Crash, Trouble
  <2> QED BY <1>0, <2>1 DEF TypeRest, Crash
<1>7. TypeProbe'
  <2>1. Unprobed \in Probes
    BY DEF Unprobed, Probes
  <2> QED BY <2>1 DEF TypeProbe, Crash
<1> QED BY <1>1, <1>2, <1>3, <1>4, <1>5, <1>6, <1>7, TypePartsNext
-----------------------------------------------------------------------------
(* Steps that neither touch a file nor a manifest. *)

\* Nothing moves but the queue behind its front, and the phases of what is already loaded.
Quiet ==
  /\ UNCHANGED <<disk, saved, blind, mem, work, misled, leaked, failing>>
  /\ AtFront(Rebuilds) => AtFront(Rebuilds)' /\ Front' = Front
  /\ \A e \in Emitters : Loaded(e)' => Loaded(e)

LEMMA QuietByQueue ==
  ASSUME TypeOK,
         UNCHANGED <<disk, saved, blind, mem, work, misled, leaked, failing, queue>>,
         \A e \in Emitters :
           phase'[e] \in {"opening", "loading", "syncing", "draining", "running"} =>
             phase[e] \in {"opening", "loading", "syncing", "draining", "running"}
  PROVE  Quiet
<1>1. AtFront(Rebuilds) => AtFront(Rebuilds)' /\ Front' = Front
  BY DEF AtFront, Front
<1>2. \A e \in Emitters : Queued(e, Rebuilds)' <=> Queued(e, Rebuilds)
  BY DEF Queued
<1> QED BY <1>1, <1>2 DEF Quiet, Loaded

LEMMA QuietByAppend ==
  ASSUME TypeOK, NEW e \in Emitters, NEW j \in Jobs, j.by = e,
         queue' = Append(queue, j), j.kind \notin Rebuilds \/ Loaded(e),
         UNCHANGED <<disk, saved, blind, mem, work, misled, leaked, failing>>,
         \A d \in Emitters :
           phase'[d] \in {"opening", "loading", "syncing", "draining", "running"} =>
             phase[d] \in {"opening", "loading", "syncing", "draining", "running"}
  PROVE  Quiet
<1>0. queue \in Seq(Jobs)
  BY TypeParts DEF TypeQueue
<1>1. AtFront(Rebuilds) => AtFront(Rebuilds)' /\ Front' = Front
  <2> SUFFICES ASSUME AtFront(Rebuilds) PROVE AtFront(Rebuilds)' /\ Front' = Front
    OBVIOUS
  <2>1. queue # <<>> /\ Front.kind \in Rebuilds
    BY DEF AtFront
  <2>2. queue' # <<>> /\ queue'[1] = queue[1]
    BY <1>0, <2>1, AppendFacts
  <2> QED BY <2>1, <2>2 DEF AtFront, Front
<1>2. \A d \in Emitters : Queued(d, Rebuilds)' => Queued(d, Rebuilds) \/ (d = e /\ j.kind \in Rebuilds)
  <2> SUFFICES ASSUME NEW d \in Emitters, NEW i \in DOMAIN queue', queue'[i].by = d, queue'[i].kind \in Rebuilds
               PROVE  Queued(d, Rebuilds) \/ (d = e /\ j.kind \in Rebuilds)
    BY DEF Queued
  <2>1. queue'[i] = j \/ (i \in DOMAIN queue /\ queue'[i] = queue[i])
    BY <1>0, AppendFacts
  <2> QED BY <2>1 DEF Queued
<1>3. \A d \in Emitters : Loaded(d)' => Loaded(d)
  BY <1>2 DEF Loaded
<1> QED BY <1>1, <1>3 DEF Quiet

LEMMA QuietSteps ==
  ASSUME TypeOK, NEW e \in Emitters,
         \/ UNCHANGED vars
         \/ Commit \/ TailDies \/ Deliver(e) \/ Attempt(e) \/ OpenWorkspace(e) \/ TimedOut(e) \/ Reconcile(e)
         \/ ProbeFinds \/ ProbeFails \/ Started \/ StopEmitters
  PROVE  Quiet
<1> DEFINE busy == {"opening", "loading", "syncing", "draining", "running"}
           same == UNCHANGED <<disk, saved, blind, mem, work, misled, leaked, failing>>
<1>0. phase \in [Emitters -> Phases] /\ current \in Emitters
  BY TypeParts DEF TypePhase, TypeDisk
<1>1. ASSUME same, UNCHANGED <<queue, phase>> PROVE Quiet
  BY <1>1, QuietByQueue
<1>2. CASE UNCHANGED vars
  <2>1. same /\ UNCHANGED <<queue, phase>>
    BY <1>2 DEF vars, diskVars, lockVars, historyVars
  <2> QED BY <1>1, <2>1
<1>3. CASE Commit \/ TailDies \/ Deliver(e) \/ ProbeFinds \/ ProbeFails \/ Started
  <2>1. same /\ UNCHANGED <<queue, phase>>
    BY <1>3 DEF Commit, TailDies, Deliver, ProbeFinds, ProbeFails, Started, diskVars, lockVars, historyVars
  <2> QED BY <1>1, <2>1
<1>4. CASE Attempt(e)
  <2>1. same /\ queue' = Append(queue, Job(e, "prepare", 0)) /\ phase' = [phase EXCEPT ![e] = "preparing"]
    BY <1>4 DEF Attempt, diskVars, historyVars
  <2>2. \A d \in Emitters : phase'[d] \in busy => phase[d] \in busy
    BY <1>0, <2>1
  <2>3. /\ Job(e, "prepare", 0) \in Jobs /\ Job(e, "prepare", 0).by = e
        /\ Job(e, "prepare", 0).kind \notin Rebuilds
    BY JobFacts DEF Inits, Rebuilds
  <2> QED BY <2>1, <2>2, <2>3, QuietByAppend
<1>5. CASE OpenWorkspace(e)
  <2>1. /\ same /\ queue' = Append(queue, Job(e, "load", 0)) /\ phase' = [phase EXCEPT ![e] = "loading"]
        /\ phase[e] = "opening"
    BY <1>5 DEF OpenWorkspace, diskVars, historyVars
  <2>2. \A d \in Emitters : phase'[d] \in busy => phase[d] \in busy
    BY <1>0, <2>1
  <2>3. /\ Job(e, "load", 0) \in Jobs /\ Job(e, "load", 0).by = e
        /\ Job(e, "load", 0).kind \notin Rebuilds
    BY JobFacts DEF Inits, Rebuilds
  <2> QED BY <2>1, <2>2, <2>3, QuietByAppend
<1>6. CASE TimedOut(e)
  <2>1. /\ same /\ phase[e] \in {"opening", "loading", "syncing"}
        /\ queue' = [i \in DOMAIN queue |-> IF queue[i].by = e /\ queue[i].kind = "load"
                                            THEN [queue[i] EXCEPT !.kind = "late"] ELSE queue[i]]
    BY <1>6 DEF TimedOut, diskVars, historyVars
  <2>a. \E ph : phase' = [phase EXCEPT ![e] = ph]
    BY <1>6 DEF TimedOut
  <2>2. queue \in Seq(Jobs) /\ \A i \in DOMAIN queue : queue[i] \in Jobs
    BY TypeParts, QueueFacts DEF TypeQueue
  <2>3. /\ DOMAIN queue' = DOMAIN queue
        /\ \A i \in DOMAIN queue : /\ queue[i].kind = "load" => queue'[i].kind \in {"load", "late"}
                                   /\ queue[i].kind # "load" => queue'[i] = queue[i]
                                   /\ queue'[i].by = queue[i].by
    <3>1. \A j \in Jobs : [j EXCEPT !.kind = "late"].kind = "late" /\ [j EXCEPT !.kind = "late"].by = j.by
      BY DEF Jobs
    <3> QED BY <2>1, <2>2, <3>1
  <2>4. AtFront(Rebuilds) => AtFront(Rebuilds)' /\ Front' = Front
    <3> SUFFICES ASSUME AtFront(Rebuilds) PROVE AtFront(Rebuilds)' /\ Front' = Front
      OBVIOUS
    <3>1. queue # <<>> /\ queue[1].kind \in Rebuilds
      BY DEF AtFront, Front
    <3>2. 1 \in DOMAIN queue
      BY <3>1, <2>2, QueueFacts
    <3>3. queue'[1] = queue[1]
      BY <3>1, <3>2, <2>3 DEF Rebuilds
    <3>4. queue' # <<>>
      BY <3>2, <2>3
    <3> QED BY <3>1, <3>3, <3>4 DEF AtFront, Front
  <2>5. \A d \in Emitters : Queued(d, Rebuilds)' => Queued(d, Rebuilds)
    BY <2>3 DEF Queued, Rebuilds
  <2>6. \A d \in Emitters : phase'[d] \in busy => phase[d] \in busy
    BY <1>0, <2>1, <2>a
  <2> QED BY <2>1, <2>4, <2>5, <2>6 DEF Quiet, Loaded
<1>7. CASE Reconcile(e)
  <2>1. same /\ phase' = phase /\ phase[e] = "running"
    BY <1>7 DEF Reconcile, diskVars, historyVars
  <2>2. CASE UNCHANGED queue
    BY <2>1, <2>2, <1>1
  <2>3. CASE queue' # queue
    <3>1. queue' = Append(queue, Job(e, "follow", held[e])) /\ mem[e].version < held[e]
      <4>1. mem[e].version \in 0..MaxCommits /\ held[e] \in 0..head /\ head \in 1..MaxCommits
        BY TypeParts, ManifestFacts DEF TypeMem, TypePhase, TypeDisk, Versions
      <4>2. ~(mem[e].version >= held[e]) /\ queue' = Append(queue, Job(e, "follow", held[e]))
        BY <1>7, <2>3 DEF Reconcile
      <4> QED BY <4>1, <4>2
    <3>2. held[e] \in Versions
      <4>1. mem[e].version \in 0..MaxCommits /\ held[e] \in 0..head /\ head \in 1..MaxCommits
        BY TypeParts, ManifestFacts DEF TypeMem, TypePhase, TypeDisk, Versions
      <4> QED BY <3>1, <4>1, MarkdownDiskConstants DEF Versions
    <3>3. Job(e, "follow", held[e]) \in Jobs /\ Job(e, "follow", held[e]).by = e
      BY <3>2, JobFacts DEF Rebuilds
    <3>4. Loaded(e)
      BY <2>1 DEF Loaded
    <3> QED BY <2>1, <3>1, <3>3, <3>4, QuietByAppend
  <2> QED BY <2>2, <2>3
<1>8. CASE StopEmitters
  <2>1. /\ same /\ UNCHANGED queue
        /\ phase' = [phase EXCEPT ![current] = IF @ = "retrying" THEN "free" ELSE @]
    BY <1>8 DEF StopEmitters, diskVars, lockVars, historyVars
  <2>2. \A d \in Emitters : phase'[d] \in busy => phase[d] \in busy
    BY <1>0, <2>1
  <2> QED BY <2>1, <2>2, QuietByQueue
<1> QED BY <1>2, <1>3, <1>4, <1>5, <1>6, <1>7, <1>8

LEMMA QuietKeeps ==
  ASSUME TypeOK, MirrorInv, Quiet
  PROVE  MirrorInv'
<1>1. UNCHANGED <<disk, saved, blind, mem, work, misled, leaked, failing>>
  BY DEF Quiet
<1>2. WorkIsRebuild
  BY DEF MirrorInv
<1>3. ~AtFront(Rebuilds) => work.gone = {} /\ work.changed = FALSE
  BY <1>2 DEF WorkIsRebuild, Idle
<1>4. AtFront(Rebuilds) => AtFront(Rebuilds)' /\ Front' = Front
  BY DEF Quiet
<1>5. \A e \in Emitters : Writing(e)' <=> Writing(e)
  BY <1>1, <1>3, <1>4 DEF Writing, Rebuilding
<1>6. \A e \in Emitters : Rebuilding(e) => Rebuilding(e)'
  BY <1>4 DEF Rebuilding
<1>7. WorkIsRebuild'
  BY <1>1, <1>2, <1>4 DEF WorkIsRebuild
<1>8. GoneIsGone'
  BY <1>1 DEF MirrorInv, GoneIsGone
<1>9. GoneWasOrphan'
  <2>1. GoneWasOrphan
    BY DEF MirrorInv
  <2>2. work'.gone # {} => AtFront(Rebuilds) /\ Front' = Front
    BY <1>1, <1>3, <1>4
  <2> QED BY <1>1, <2>1, <2>2 DEF GoneWasOrphan
<1>10. AllPlaced'
  BY <1>1 DEF MirrorInv, AllPlaced, FilesPlaced, PagesPlaced
<1>11. AllBacked'
  BY <1>1 DEF MirrorInv, AllBacked, Backed
<1>12. SavedIsExact'
  BY <1>1 DEF MirrorInv, SavedIsExact, Exact, Tidy
<1>13. MemIsExact'
  BY <1>1, <1>5 DEF MirrorInv, MemIsExact, Exact, Tidy
<1>14. AllRecorded'
  <2>1. AllRecorded
    BY DEF MirrorInv
  <2>2. Recorded(saved, {})'
    BY <1>1, <2>1 DEF AllRecorded, Recorded
  <2>3. ASSUME NEW e \in Emitters \ failing'
        PROVE  Recorded(mem[e], IF Writing(e) THEN Placed(Front.version, blind) ELSE {})'
    <3>1. Recorded(mem[e], IF Writing(e) THEN Placed(Front.version, blind) ELSE {})
      BY <1>1, <2>1, <2>3 DEF AllRecorded
    <3>2. Writing(e) => Front' = Front
      BY <1>4 DEF Writing, Rebuilding
    <3>3. Writing(e)' <=> Writing(e)
      BY <1>5
    <3>4. CASE Writing(e)
      <4>1. Recorded(mem'[e], Placed(Front'.version, blind'))
        BY <1>1, <3>1, <3>2, <3>4
      <4> QED BY <4>1, <3>3, <3>4 DEF Recorded
    <3>5. CASE ~Writing(e)
      <4>1. Recorded(mem'[e], {})
        BY <1>1, <3>1, <3>5
      <4> QED BY <4>1, <3>3, <3>5 DEF Recorded
    <3> QED BY <3>4, <3>5
  <2> QED BY <2>2, <2>3 DEF AllRecorded
<1>15. KnowsDisk'
  BY <1>1, <1>3, <1>4 DEF MirrorInv, KnowsDisk, Rebuilding
<1>16. KnowsAll'
  BY <1>1 DEF MirrorInv, KnowsAll, Quiet
<1> QED BY <1>7, <1>8, <1>9, <1>10, <1>11, <1>12, <1>13, <1>14, <1>15, <1>16 DEF MirrorInv
-----------------------------------------------------------------------------
(* Steps that end a job. *)

\* A job that ends leaves the others queued.
LEMMA TailQueued ==
  ASSUME TypeOK, queue # <<>>, NEW e \in Emitters,
         \/ queue' = Tail(queue)
         \/ \E j \in Jobs : j.by = e /\ queue' = Append(Tail(queue), j)
  PROVE  \A d \in Emitters \ {e} : Queued(d, Rebuilds)' => Queued(d, Rebuilds)
<1>0. queue \in Seq(Jobs)
  BY TypeParts DEF TypeQueue
<1>1. /\ Tail(queue) \in Seq(Jobs)
      /\ \A i \in DOMAIN Tail(queue) : i + 1 \in DOMAIN queue /\ Tail(queue)[i] = queue[i + 1]
  BY <1>0, TailFacts
<1> SUFFICES ASSUME NEW d \in Emitters \ {e},
                    NEW i \in DOMAIN queue', queue'[i].by = d, queue'[i].kind \in Rebuilds
             PROVE  Queued(d, Rebuilds)
  BY DEF Queued
<1>2. i \in DOMAIN Tail(queue) /\ queue'[i] = Tail(queue)[i]
  <2>1. CASE queue' = Tail(queue)
    BY <2>1
  <2>2. CASE \E j \in Jobs : j.by = e /\ queue' = Append(Tail(queue), j)
    <3>1. PICK j \in Jobs : j.by = e /\ queue' = Append(Tail(queue), j)
      BY <2>2
    <3>2. queue'[i] = j \/ (i \in DOMAIN Tail(queue) /\ queue'[i] = Tail(queue)[i])
      BY <1>1, <3>1, AppendFacts
    <3> QED BY <3>1, <3>2
  <2> QED BY <2>1, <2>2
<1> QED BY <1>1, <1>2 DEF Queued

\* The emitter whose rebuild is at the front has loaded a manifest.
LEMMA FrontLoaded ==
  ASSUME TypeOK, AtFront(Rebuilds)
  PROVE  Loaded(Front.by)
<1>1. 1 \in DOMAIN queue /\ queue[1].kind \in Rebuilds
  BY TypeParts, QueueFacts DEF TypeQueue, AtFront, Front
<1> QED BY <1>1 DEF Loaded, Queued, Front

\* With no work under way, nobody writes and nothing is gone.
LEMMA IdleFacts ==
  ASSUME work' = Idle
  PROVE  /\ WorkIsRebuild' /\ GoneIsGone' /\ GoneWasOrphan'
         /\ \A e : ~Writing(e)'
         /\ work'.gone = {}
BY DEF WorkIsRebuild, GoneIsGone, GoneWasOrphan, Writing, Idle

LEMMA MemFacts ==
  ASSUME TypeOK
  PROVE  /\ saved \in Manifests /\ disk \in Disks /\ blind \in SUBSET Pages /\ mem \in [Emitters -> Manifests]
         /\ work.gone \subseteq Paths
BY TypeParts, MirrorConstants DEF TypeDisk, TypeMem

\* The end of a rebuild is of the emitter at the front.
LEMMA EndFacts ==
  ASSUME TypeOK, AtFront(Rebuilds), NEW ok \in BOOLEAN, RebuildEnds(ok)
  PROVE  /\ queue' = Tail(queue) /\ work' = Idle
         /\ \A d \in Emitters \ {Front.by} : phase'[d] = phase[d]
         /\ \A d \in Emitters \ {Front.by} : d \in failing' <=> d \in failing
         /\ \A d \in Emitters \ {Front.by} : Queued(d, Rebuilds)' => Queued(d, Rebuilds)
<1>1. queue' = Tail(queue) /\ work' = Idle
  BY DEF RebuildEnds
<1>2. \A d \in Emitters \ {Front.by} : phase'[d] = phase[d]
  <2>1. \E ph : phase' = [phase EXCEPT ![Front.by] = ph]
    BY DEF RebuildEnds
  <2> QED BY <2>1, TypeParts DEF TypePhase
<1>3. \A d \in Emitters \ {Front.by} : d \in failing' <=> d \in failing
  BY DEF RebuildEnds
<1>4. \A d \in Emitters \ {Front.by} : Queued(d, Rebuilds)' => Queued(d, Rebuilds)
  BY <1>1, FrontFacts, TailQueued
<1> QED BY <1>1, <1>2, <1>3, <1>4

LEMMA LoadKeeps ==
  ASSUME TypeOK, MirrorInv, LoadManifest
  PROVE  MirrorInv'
<1> DEFINE e == Front.by
           m == Verified(saved, disk)
<1>1. /\ AtFront(Inits) /\ e \in Emitters /\ m \in Manifests
      /\ mem' = [mem EXCEPT ![e] = m]
      /\ misled' = misled \ {e} /\ failing' = failing \ {e}
      /\ leaked' = (leaked \/ \E x \in Paths : disk[x] # Nothing /\ m.files[x] = Nothing)
      /\ UNCHANGED <<disk, saved, blind, work>>
  BY LoadStep
<1>2. work = Idle /\ work' = Idle
  <2>1. ~AtFront(Rebuilds)
    BY <1>1, KindFacts DEF AtFront
  <2> QED BY <2>1, <1>1 DEF MirrorInv, WorkIsRebuild
<1>3. /\ FilesPlaced(m.files) /\ PagesPlaced(m) /\ Backed(m)
      /\ Exact(m) /\ Tidy(m) /\ Recorded(m, {})
  BY VerifiedSound, MemFacts DEF MirrorInv, AllPlaced, AllBacked, SavedIsExact, AllRecorded
<1>4. \A x \in Paths : m.files[x] # Nothing => disk[x] = m.files[x]
  BY VerifiedFacts, MemFacts
<1>5. mem'[e] = m /\ \A d \in Emitters \ {e} : mem'[d] = mem[d]
  BY <1>1, MemFacts
<1>6. (\A d : ~Writing(d)) /\ work.gone = {}
  BY <1>2 DEF Writing, Idle
<1> HIDE DEF m
<1>7. \A d \in Emitters \ {e} : Loaded(d)' => Loaded(d)
  <2>1. \A d \in Emitters \ {e} : phase'[d] = phase[d]
    <3>1. \E ph : phase' = [phase EXCEPT ![e] = ph]
      BY LoadStep
    <3> QED BY <3>1, TypeParts DEF TypePhase
  <2>2. \A d \in Emitters \ {e} : Queued(d, Rebuilds)' => Queued(d, Rebuilds)
    <3>1. \/ queue' = Tail(queue)
          \/ \E j \in Jobs : j.by = e /\ queue' = Append(Tail(queue), j)
      BY LoadStep
    <3>2. queue # <<>>
      BY <1>1 DEF AtFront
    <3> HIDE DEF e
    <3> QED BY <3>1, <3>2, <1>1, TailQueued
  <2> QED BY <2>1, <2>2, <1>5 DEF Loaded
<1>8. WorkIsRebuild' /\ GoneIsGone' /\ GoneWasOrphan' /\ (\A d : ~Writing(d)') /\ work'.gone = {}
  BY <1>2, IdleFacts
<1> HIDE DEF e
<1>9. AllPlaced'
  <2>1. FilesPlaced(disk') /\ FilesPlaced(saved'.files) /\ PagesPlaced(saved')
    BY <1>1 DEF MirrorInv, AllPlaced
  <2>2. \A d \in Emitters : FilesPlaced(mem'[d].files) /\ PagesPlaced(mem'[d])
    BY <1>3, <1>5 DEF MirrorInv, AllPlaced
  <2> QED BY <2>1, <2>2 DEF AllPlaced, FilesPlaced, PagesPlaced
<1>10. AllBacked'
  <2>1. Backed(saved') /\ \A d \in Emitters : Backed(mem'[d])
    BY <1>1, <1>3, <1>5 DEF MirrorInv, AllBacked
  <2> QED BY <2>1 DEF AllBacked, Backed
<1>11. SavedIsExact'
  <2>1. Exact(saved') /\ Tidy(saved')
    BY <1>1 DEF MirrorInv, SavedIsExact
  <2> QED BY <2>1 DEF SavedIsExact, Exact, Tidy
<1>12. MemIsExact'
  <2>1. \A d \in Emitters \ failing' : Exact(mem'[d]) /\ Tidy(mem'[d])
    BY <1>1, <1>3, <1>5, <1>6 DEF MirrorInv, MemIsExact
  <2> QED BY <2>1 DEF MemIsExact, Exact, Tidy
<1>13. AllRecorded'
  <2>1. Recorded(saved', {})
    BY <1>1 DEF MirrorInv, AllRecorded
  <2>2. \A d \in Emitters \ failing' : Recorded(mem'[d], {})
    BY <1>1, <1>3, <1>5, <1>6 DEF MirrorInv, AllRecorded
  <2> QED BY <2>1, <2>2, <1>8 DEF AllRecorded, Recorded
<1>14. KnowsDisk'
  <2>1. \A d \in Emitters \ misled' : \A x \in Paths : mem'[d].files[x] # Nothing => disk'[x] = mem'[d].files[x]
    BY <1>1, <1>4, <1>5, <1>6 DEF MirrorInv, KnowsDisk
  <2> QED BY <2>1 DEF KnowsDisk
<1>15. KnowsAll'
  <2> SUFFICES ASSUME ~leaked', NEW d \in Emitters \ misled', Loaded(d)', NEW x \in Paths, disk'[x] # Nothing
               PROVE  mem'[d].files[x] # Nothing
    BY DEF KnowsAll
  <2>1. ~leaked /\ m.files[x] # Nothing
    BY <1>1
  <2>2. CASE d = e
    BY <2>1, <2>2, <1>5
  <2>3. CASE d # e
    BY <2>1, <2>3, <1>1, <1>5, <1>7 DEF MirrorInv, KnowsAll
  <2> QED BY <2>2, <2>3
<1> QED BY <1>8, <1>9, <1>10, <1>11, <1>12, <1>13, <1>14, <1>15 DEF MirrorInv

LEMMA ReplaceKeeps ==
  ASSUME TypeOK, MirrorInv, Replace
  PROVE  MirrorInv'
<1> DEFINE e == Front.by
           v == Front.version
           m == mem[e]
           n == Rebuilt(m, v, blind)
<1>1. /\ AtFront(Rebuilds) /\ e \in Emitters /\ v \in Versions
      /\ Differing(m, v, blind) = {} /\ Orphans(m, v, blind) \subseteq work.gone
      /\ mem' = [mem EXCEPT ![e] = n]
      /\ saved' \in {saved, n}
      /\ leaked' = (leaked \/ e \in misled)
      /\ UNCHANGED <<disk, blind, misled>>
  BY ReplaceStep
<1>2. PICK ok \in BOOLEAN : RebuildEnds(ok)
  BY ReplaceStep
<1>3. /\ work' = Idle
      /\ \A d \in Emitters \ {e} : phase'[d] = phase[d]
      /\ \A d \in Emitters \ {e} : d \in failing' <=> d \in failing
      /\ \A d \in Emitters \ {e} : Queued(d, Rebuilds)' => Queued(d, Rebuilds)
  BY <1>1, <1>2, EndFacts
<1>4. m \in Manifests /\ blind \in SUBSET Pages
  BY <1>1, MemFacts
<1>5. FilesPlaced(m.files) /\ PagesPlaced(m) /\ Backed(m)
  BY <1>1 DEF MirrorInv, AllPlaced, AllBacked
<1>6. /\ FilesPlaced(n.files) /\ PagesPlaced(n) /\ Backed(n)
      /\ Exact(n) /\ Tidy(n) /\ Recorded(n, {})
  <2> HIDE DEF m, v
  <2> QED BY <1>1, <1>4, <1>5, RebuiltSound
<1>7. \A x \in Paths : n.files[x] = IF x \in Orphans(m, v, blind) THEN Nothing ELSE m.files[x]
  <2> HIDE DEF m, v
  <2> QED BY <1>1, <1>4, RebuiltFacts
<1>8. Loaded(e)
  BY <1>1, FrontLoaded
<1>9. \A d \in Emitters \ {e} : ~Rebuilding(d) /\ ~Writing(d)
  BY DEF Rebuilding, Writing
<1>10. Rebuilding(e)
  BY <1>1 DEF Rebuilding
<1>11. work.gone \subseteq Orphans(m, v, blind)
  BY <1>1 DEF MirrorInv, GoneWasOrphan
<1> HIDE DEF n, m, v
<1>12. mem'[e] = n /\ \A d \in Emitters \ {e} : mem'[d] = mem[d]
  BY <1>1, MemFacts
<1>13. \A d \in Emitters \ {e} : Loaded(d)' => Loaded(d)
  BY <1>3, <1>12 DEF Loaded
<1>14. WorkIsRebuild' /\ GoneIsGone' /\ GoneWasOrphan' /\ (\A d : ~Writing(d)') /\ work'.gone = {}
  BY <1>3, IdleFacts
<1> HIDE DEF e
<1>15. AllPlaced'
  <2>1. FilesPlaced(disk') /\ FilesPlaced(saved'.files) /\ PagesPlaced(saved')
    BY <1>1, <1>6 DEF MirrorInv, AllPlaced
  <2>2. \A d \in Emitters : FilesPlaced(mem'[d].files) /\ PagesPlaced(mem'[d])
    BY <1>6, <1>12 DEF MirrorInv, AllPlaced
  <2> QED BY <2>1, <2>2 DEF AllPlaced, FilesPlaced, PagesPlaced
<1>16. AllBacked'
  <2>1. Backed(saved') /\ \A d \in Emitters : Backed(mem'[d])
    BY <1>1, <1>6, <1>12 DEF MirrorInv, AllBacked
  <2> QED BY <2>1 DEF AllBacked, Backed
<1>17. SavedIsExact'
  <2>1. Exact(saved') /\ Tidy(saved')
    BY <1>1, <1>6 DEF MirrorInv, SavedIsExact
  <2> QED BY <2>1 DEF SavedIsExact, Exact, Tidy
<1>18. MemIsExact'
  <2>1. \A d \in Emitters \ failing' : Exact(mem'[d]) /\ Tidy(mem'[d])
    BY <1>3, <1>6, <1>9, <1>12 DEF MirrorInv, MemIsExact
  <2> QED BY <2>1 DEF MemIsExact, Exact, Tidy
<1>19. AllRecorded'
  <2>1. Recorded(saved', {})
    BY <1>1, <1>6 DEF MirrorInv, AllRecorded
  <2>2. \A d \in Emitters \ failing' : Recorded(mem'[d], {})
    BY <1>3, <1>6, <1>9, <1>12 DEF MirrorInv, AllRecorded
  <2> QED BY <2>1, <2>2, <1>14 DEF AllRecorded, Recorded
<1>20. KnowsDisk'
  <2> SUFFICES ASSUME NEW d \in Emitters \ misled', NEW x \in Paths, mem'[d].files[x] # Nothing
               PROVE  disk'[x] = mem'[d].files[x]
    BY DEF KnowsDisk
  <2>1. CASE d = e
    <3>1. n.files[x] # Nothing /\ n.files[x] = m.files[x] /\ x \notin work.gone
      BY <2>1, <1>7, <1>11, <1>12
    <3>2. disk[x] = m.files[x]
      BY <2>1, <3>1, <1>1 DEF MirrorInv, KnowsDisk, m
    <3> QED BY <2>1, <3>1, <3>2, <1>1, <1>12
  <2>2. CASE d # e
    BY <2>2, <1>1, <1>9, <1>12 DEF MirrorInv, KnowsDisk
  <2> QED BY <2>1, <2>2
<1>21. KnowsAll'
  <2> SUFFICES ASSUME ~leaked', NEW d \in Emitters \ misled', Loaded(d)', NEW x \in Paths, disk'[x] # Nothing
               PROVE  mem'[d].files[x] # Nothing
    BY DEF KnowsAll
  <2>1. ~leaked /\ e \notin misled /\ disk[x] # Nothing
    BY <1>1
  <2>2. CASE d = e
    <3>1. m.files[x] # Nothing
      BY <2>1, <1>1, <1>8 DEF MirrorInv, KnowsAll, m
    <3>2. x \notin Orphans(m, v, blind)
      BY <2>1, <1>1 DEF MirrorInv, GoneIsGone
    <3> QED BY <2>2, <3>1, <3>2, <1>7, <1>12
  <2>3. CASE d # e
    BY <2>1, <2>3, <1>1, <1>12, <1>13 DEF MirrorInv, KnowsAll
  <2> QED BY <2>2, <2>3
<1> QED BY <1>14, <1>15, <1>16, <1>17, <1>18, <1>19, <1>20, <1>21 DEF MirrorInv

LEMMA FailKeeps ==
  ASSUME TypeOK, MirrorInv, RebuildFails
  PROVE  MirrorInv'
<1> DEFINE e == Front.by
<1>1. /\ AtFront(Rebuilds) /\ e \in Emitters
      /\ misled \subseteq misled'
      /\ \/ Differing(mem[e], Front.version, blind) # {}
         \/ work.gone # {} => e \in misled'
      /\ failing' = failing \cup {e}
      /\ UNCHANGED <<disk, saved, blind, mem, leaked>>
  BY FailStep
<1>2. /\ work' = Idle
      /\ \A d \in Emitters \ {e} : phase'[d] = phase[d]
      /\ \A d \in Emitters \ {e} : Queued(d, Rebuilds)' => Queued(d, Rebuilds)
  BY <1>1, FailStep, EndFacts
<1>3. e \notin misled' => work.gone = {}
  BY <1>1 DEF MirrorInv, GoneWasOrphan
<1>4. Loaded(e)
  BY <1>1, FrontLoaded
<1>5. \A d \in Emitters \ {e} : ~Rebuilding(d) /\ ~Writing(d)
  BY DEF Rebuilding, Writing
<1>6. \A d \in Emitters : Loaded(d)' => Loaded(d)
  BY <1>1, <1>2, <1>4 DEF Loaded
<1>7. WorkIsRebuild' /\ GoneIsGone' /\ GoneWasOrphan' /\ (\A d : ~Writing(d)') /\ work'.gone = {}
  BY <1>2, IdleFacts
<1> HIDE DEF e
<1>8. AllPlaced'
  BY <1>1 DEF MirrorInv, AllPlaced, FilesPlaced, PagesPlaced
<1>9. AllBacked'
  BY <1>1 DEF MirrorInv, AllBacked, Backed
<1>10. SavedIsExact'
  BY <1>1 DEF MirrorInv, SavedIsExact, Exact, Tidy
<1>11. MemIsExact'
  <2>1. \A d \in Emitters \ failing' : Exact(mem'[d]) /\ Tidy(mem'[d])
    BY <1>1, <1>5 DEF MirrorInv, MemIsExact
  <2> QED BY <2>1 DEF MemIsExact, Exact, Tidy
<1>12. AllRecorded'
  <2>1. Recorded(saved', {})
    BY <1>1 DEF MirrorInv, AllRecorded
  <2>2. \A d \in Emitters \ failing' : Recorded(mem'[d], {})
    BY <1>1, <1>5 DEF MirrorInv, AllRecorded
  <2> QED BY <2>1, <2>2, <1>7 DEF AllRecorded, Recorded
<1>13. KnowsDisk'
  <2> SUFFICES ASSUME NEW d \in Emitters \ misled', NEW x \in Paths, mem[d].files[x] # Nothing
               PROVE  disk[x] = mem[d].files[x]
    BY <1>1 DEF KnowsDisk
  <2>1. ~(Rebuilding(d) /\ x \in work.gone)
    BY <1>3, <1>5
  <2> QED BY <2>1, <1>1 DEF MirrorInv, KnowsDisk
<1>14. KnowsAll'
  BY <1>1, <1>6 DEF MirrorInv, KnowsAll
<1> QED BY <1>7, <1>8, <1>9, <1>10, <1>11, <1>12, <1>13, <1>14 DEF MirrorInv
-----------------------------------------------------------------------------
(* Steps within a rebuild. *)

LEMMA WriteKeeps ==
  ASSUME TypeOK, MirrorInv, WriteFile
  PROVE  MirrorInv'
<1> DEFINE v == Front.version
<1>0. PICK e \in Emitters : e = Front.by
  BY WriteStep
<1>1. /\ AtFront(Rebuilds) /\ e \in Emitters /\ v \in Versions
      /\ Differing(mem[e], v, blind) # {}
      /\ misled' = misled \cup (Emitters \ {e})
      /\ work' = [work EXCEPT !.changed = TRUE]
      /\ UNCHANGED <<saved, blind, phase, queue, failing, leaked>>
  BY <1>0, WriteStep
<1>2. PICK p \in Placed(v, blind) :
        /\ p \in DOMAIN Tree[v]
        /\ disk' = [disk EXCEPT ![Tree[v][p].path] = File(v, p)]
        /\ mem' = [mem EXCEPT ![e] = With(@, Tree[v][p].path, File(v, p))]
  BY <1>0, WriteStep
<1> DEFINE x == Tree[v][p].path
           c == File(v, p)
           m == mem[e]
           n == With(m, x, c)
<1>3. x \in Paths /\ c \in Contents /\ c # Nothing /\ c[1] = p /\ PlaceOf(p, x)
  BY <1>1, <1>2, NodeFacts
<1>4. m \in Manifests /\ blind \in SUBSET Pages /\ disk \in Disks
  BY <1>1, MemFacts
<1>5. \A y \in Paths : n.files[y] = IF y = x THEN c ELSE m.files[y]
  <2> HIDE DEF x, c, m
  <2> QED BY <1>3, <1>4, WithFacts
<1>6. mem'[e] = n /\ \A d \in Emitters \ {e} : mem'[d] = mem[d]
  BY <1>1, <1>2, MemFacts
<1>7. \A y \in Paths : disk'[y] = IF y = x THEN c ELSE disk[y]
  BY <1>2, <1>4 DEF Disks
<1>8. /\ FilesPlaced(n.files) /\ PagesPlaced(n) /\ Backed(n)
      /\ \A S \in {{}, Placed(v, blind)} : Recorded(m, S) => Recorded(n, Placed(v, blind))
  <2>1. FilesPlaced(m.files) /\ PagesPlaced(m) /\ Backed(m)
    BY <1>1 DEF MirrorInv, AllPlaced, AllBacked
  <2> HIDE DEF m, v
  <2> QED BY <2>1, <1>1, <1>2, <1>4, WithSound
<1>9. work.gone = {} /\ work'.gone = {} /\ work'.changed = TRUE
  <2>1. work.gone = {}
    BY <1>0, <1>1 DEF MirrorInv, GoneWasOrphan
  <2>2. work \in [gone : SUBSET Paths, changed : BOOLEAN]
    BY TypeParts DEF TypeMem
  <2> QED BY <1>1, <2>1, <2>2
<1>10. AtFront(Rebuilds)' /\ Front' = Front
  BY <1>1 DEF AtFront, Front
<1>11. Writing(e)' /\ \A d \in Emitters \ {e} : ~Writing(d)' /\ ~Writing(d)
  BY <1>0, <1>9, <1>10 DEF Writing, Rebuilding
<1>12. Loaded(e)
  BY <1>0, <1>1, FrontLoaded
<1> HIDE DEF x, c, n, m, v
<1>13. WorkIsRebuild' /\ GoneIsGone' /\ GoneWasOrphan'
  BY <1>9, <1>10 DEF WorkIsRebuild, GoneIsGone, GoneWasOrphan
<1>14. AllPlaced'
  <2>1. FilesPlaced(disk')
    BY <1>3, <1>7 DEF MirrorInv, AllPlaced, FilesPlaced
  <2>2. FilesPlaced(saved'.files) /\ PagesPlaced(saved')
    BY <1>1 DEF MirrorInv, AllPlaced
  <2>3. \A d \in Emitters : FilesPlaced(mem'[d].files) /\ PagesPlaced(mem'[d])
    BY <1>6, <1>8 DEF MirrorInv, AllPlaced
  <2> QED BY <2>1, <2>2, <2>3 DEF AllPlaced, FilesPlaced, PagesPlaced
<1>15. AllBacked'
  <2>1. Backed(saved') /\ \A d \in Emitters : Backed(mem'[d])
    BY <1>1, <1>6, <1>8 DEF MirrorInv, AllBacked
  <2> QED BY <2>1 DEF AllBacked, Backed
<1>16. SavedIsExact'
  BY <1>1 DEF MirrorInv, SavedIsExact, Exact, Tidy
<1>17. MemIsExact'
  <2>1. ASSUME NEW d \in Emitters \ failing', ~Writing(d)'
        PROVE  Exact(mem'[d]) /\ Tidy(mem'[d])
    <3>1. d # e
      BY <2>1, <1>11
    <3>2. mem'[d] = mem[d] /\ ~Writing(d) /\ d \in Emitters \ failing
      BY <3>1, <1>1, <1>6, <1>11
    <3> QED BY <3>2 DEF MirrorInv, MemIsExact
  <2> QED BY <2>1 DEF MemIsExact, Exact, Tidy
<1>18. AllRecorded'
  <2>1. Recorded(saved', {})
    BY <1>1 DEF MirrorInv, AllRecorded
  <2>2. e \notin failing' => Recorded(mem'[e], Placed(Front'.version, blind'))
    <3>1. e \notin failing => Recorded(m, IF Writing(e) THEN Placed(v, blind) ELSE {})
      BY <1>1 DEF MirrorInv, AllRecorded, m, v
    <3>2. (IF Writing(e) THEN Placed(v, blind) ELSE {}) \in {{}, Placed(v, blind)}
      OBVIOUS
    <3>3. Front'.version = v /\ blind' = blind /\ failing' = failing
      BY <1>1, <1>10 DEF v
    <3> QED BY <3>1, <3>2, <3>3, <1>6, <1>8
  <2>3. \A d \in Emitters \ failing' : d # e => Recorded(mem'[d], {})
    BY <1>1, <1>6, <1>11 DEF MirrorInv, AllRecorded
  <2>4. ASSUME NEW d \in Emitters \ failing'
        PROVE  Recorded(mem'[d], IF Writing(d)' THEN Placed(Front'.version, blind') ELSE {})
    <3>1. CASE d = e
      BY <3>1, <2>2, <1>1, <1>11
    <3>2. CASE d # e
      <4>1. ~Writing(d)' /\ Recorded(mem'[d], {})
        BY <3>2, <2>3, <1>11
      <4> QED BY <4>1
    <3> QED BY <3>1, <3>2
  <2> QED BY <2>1, <2>4 DEF AllRecorded, Recorded
<1>19. KnowsDisk'
  <2> SUFFICES ASSUME NEW d \in Emitters \ misled', NEW y \in Paths, mem'[d].files[y] # Nothing
               PROVE  disk'[y] = mem'[d].files[y]
    BY DEF KnowsDisk
  <2>1. d = e /\ d \notin misled
    BY <1>1
  <2>2. CASE y = x
    BY <2>1, <2>2, <1>5, <1>6, <1>7
  <2>3. CASE y # x
    <3>1. m.files[y] # Nothing /\ mem'[d].files[y] = m.files[y]
      BY <2>1, <2>3, <1>5, <1>6
    <3>2. disk[y] = m.files[y]
      BY <2>1, <3>1, <1>9 DEF MirrorInv, KnowsDisk, m
    <3> QED BY <2>3, <3>1, <3>2, <1>7
  <2> QED BY <2>2, <2>3
<1>20. KnowsAll'
  <2> SUFFICES ASSUME ~leaked', NEW d \in Emitters \ misled', NEW y \in Paths, disk'[y] # Nothing
               PROVE  mem'[d].files[y] # Nothing
    BY DEF KnowsAll
  <2>1. d = e /\ d \notin misled /\ ~leaked
    BY <1>1
  <2>2. CASE y = x
    BY <2>1, <2>2, <1>3, <1>5, <1>6
  <2>3. CASE y # x
    <3>1. disk[y] # Nothing
      BY <2>3, <1>7
    <3>2. m.files[y] # Nothing
      BY <2>1, <3>1, <1>12 DEF MirrorInv, KnowsAll, m
    <3> QED BY <2>1, <2>3, <3>2, <1>5, <1>6
  <2> QED BY <2>2, <2>3
<1> QED BY <1>13, <1>14, <1>15, <1>16, <1>17, <1>18, <1>19, <1>20 DEF MirrorInv

LEMMA RemoveKeeps ==
  ASSUME TypeOK, MirrorInv, RemoveFile
  PROVE  MirrorInv'
<1> DEFINE e == Front.by
           v == Front.version
<1>1. /\ AtFront(Rebuilds) /\ e \in Emitters /\ v \in Versions
      /\ Differing(mem[e], v, blind) = {}
      /\ misled' = misled \cup (Emitters \ {e})
      /\ UNCHANGED <<saved, blind, phase, mem, queue, failing, leaked>>
  BY RemoveStep
<1>2. PICK x \in Orphans(mem[e], v, blind) \ work.gone :
        /\ x \in Paths
        /\ disk' = [disk EXCEPT ![x] = Nothing]
        /\ work' = [work EXCEPT !.gone = @ \cup {x}]
  BY RemoveStep
<1>3. \A y \in Paths : disk'[y] = IF y = x THEN Nothing ELSE disk[y]
  BY <1>2, MemFacts DEF Disks
<1>4. work'.gone = work.gone \cup {x} /\ work'.changed = work.changed /\ work.gone \subseteq Paths
  BY <1>2, TypeParts DEF TypeMem
<1>5. AtFront(Rebuilds)' /\ Front' = Front
  BY <1>1 DEF AtFront, Front
<1>6. \A d : (Rebuilding(d)' <=> Rebuilding(d)) /\ (Writing(d)' <=> Writing(d))
  BY <1>1, <1>4, <1>5 DEF Writing, Rebuilding
<1>7. Rebuilding(e) /\ Loaded(e)
  BY <1>1, FrontLoaded DEF Rebuilding
<1>8. WorkIsRebuild'
  BY <1>5 DEF WorkIsRebuild
<1>9. GoneIsGone'
  <2>1. \A y \in work'.gone : disk'[y] = Nothing
    BY <1>2, <1>3, <1>4 DEF MirrorInv, GoneIsGone
  <2> QED BY <2>1 DEF GoneIsGone
<1>10. GoneWasOrphan'
  <2>1. work.gone \subseteq Orphans(mem[e], v, blind)
    BY <1>1 DEF MirrorInv, GoneWasOrphan
  <2>2. work'.gone \subseteq Orphans(mem[e], v, blind)
    BY <2>1, <1>2, <1>4
  <2> QED BY <2>2, <1>1, <1>5 DEF GoneWasOrphan
<1> HIDE DEF e, v
<1>11. AllPlaced'
  <2>1. FilesPlaced(disk')
    BY <1>3 DEF MirrorInv, AllPlaced, FilesPlaced
  <2>2. /\ FilesPlaced(saved'.files) /\ PagesPlaced(saved')
        /\ \A d \in Emitters : FilesPlaced(mem'[d].files) /\ PagesPlaced(mem'[d])
    BY <1>1 DEF MirrorInv, AllPlaced
  <2> QED BY <2>1, <2>2 DEF AllPlaced, FilesPlaced, PagesPlaced
<1>12. AllBacked'
  BY <1>1 DEF MirrorInv, AllBacked, Backed
<1>13. SavedIsExact'
  BY <1>1 DEF MirrorInv, SavedIsExact, Exact, Tidy
<1>14. MemIsExact'
  <2>1. \A d \in Emitters \ failing' : ~Writing(d)' => Exact(mem'[d]) /\ Tidy(mem'[d])
    BY <1>1, <1>6 DEF MirrorInv, MemIsExact
  <2> QED BY <2>1 DEF MemIsExact, Exact, Tidy
<1>15. AllRecorded'
  <2>1. /\ Recorded(saved', {})
        /\ \A d \in Emitters \ failing' :
             Recorded(mem'[d], IF Writing(d)' THEN Placed(Front'.version, blind') ELSE {})
    BY <1>1, <1>5, <1>6 DEF MirrorInv, AllRecorded
  <2> QED BY <2>1 DEF AllRecorded, Recorded
<1>16. KnowsDisk'
  <2> SUFFICES ASSUME NEW d \in Emitters \ misled', NEW y \in Paths, mem'[d].files[y] # Nothing,
                      ~(Rebuilding(d)' /\ y \in work'.gone)
               PROVE  disk'[y] = mem'[d].files[y]
    BY DEF KnowsDisk
  <2>1. d = e /\ d \notin misled
    BY <1>1
  <2>2. y # x /\ y \notin work.gone
    BY <2>1, <1>4, <1>6, <1>7
  <2>3. disk[y] = mem[d].files[y]
    BY <2>1, <2>2, <1>1 DEF MirrorInv, KnowsDisk
  <2> QED BY <2>2, <2>3, <1>1, <1>3
<1>17. KnowsAll'
  <2> SUFFICES ASSUME ~leaked', NEW d \in Emitters \ misled', NEW y \in Paths, disk'[y] # Nothing
               PROVE  mem'[d].files[y] # Nothing
    BY DEF KnowsAll
  <2>1. d = e /\ d \notin misled /\ ~leaked /\ disk[y] # Nothing
    BY <1>1, <1>3
  <2> QED BY <2>1, <1>1, <1>7 DEF MirrorInv, KnowsAll
<1> QED BY <1>8, <1>9, <1>10, <1>11, <1>12, <1>13, <1>14, <1>15, <1>16, <1>17 DEF MirrorInv
-----------------------------------------------------------------------------
(* A new engine, and a new process. *)

LEMMA StartKeeps ==
  ASSUME TypeOK, MirrorInv, StartEngine
  PROVE  MirrorInv'
<1>1. PICK e \in Emitters \ {current} :
        /\ ~Queued(e, Inits \cup Rebuilds)
        /\ phase' = [phase EXCEPT ![e] = "preparing", ![current] = IF @ = "running" THEN "free" ELSE @]
        /\ mem' = [mem EXCEPT ![e] = Fresh] /\ misled' = misled \ {e}
        /\ queue' = Append(queue, Job(e, "prepare", 0))
  BY DEF StartEngine
<1>2. UNCHANGED <<disk, saved, blind, work, failing, leaked>>
  BY DEF StartEngine, diskVars
<1>3. /\ queue \in Seq(Jobs)
      /\ Job(e, "prepare", 0) \in Jobs /\ Job(e, "prepare", 0).by = e /\ Job(e, "prepare", 0).kind \notin Rebuilds
  BY TypeParts, JobFacts DEF TypeQueue, Inits, Rebuilds
<1>4. AtFront(Rebuilds) => AtFront(Rebuilds)' /\ Front' = Front /\ Front.by # e /\ Front.by \in Emitters
  <2> SUFFICES ASSUME AtFront(Rebuilds)
               PROVE  AtFront(Rebuilds)' /\ Front' = Front /\ Front.by # e /\ Front.by \in Emitters
    OBVIOUS
  <2>1. queue # <<>> /\ 1 \in DOMAIN queue /\ queue[1].kind \in Rebuilds
    BY <1>3, QueueFacts DEF AtFront, Front
  <2>2. queue' # <<>> /\ queue'[1] = queue[1]
    BY <1>1, <1>3, <2>1, AppendFacts
  <2>3. queue[1].by # e
    BY <1>1, <2>1 DEF Queued
  <2> QED BY <2>1, <2>2, <2>3, FrontFacts DEF AtFront, Front
<1>5. ~AtFront(Rebuilds) => work = Idle
  BY DEF MirrorInv, WorkIsRebuild
<1>6. mem'[e] = Fresh /\ \A d \in Emitters \ {e} : mem'[d] = mem[d]
  BY <1>1, MemFacts
<1>7. \A d : Writing(d)' <=> Writing(d)
  BY <1>2, <1>4, <1>5 DEF Writing, Rebuilding, Idle
<1>8. \A d : d # e => (Rebuilding(d) => Rebuilding(d)')
  BY <1>4 DEF Rebuilding
<1>9. \A d \in Emitters : Queued(d, Rebuilds)' => Queued(d, Rebuilds)
  <2> SUFFICES ASSUME NEW d \in Emitters, NEW i \in DOMAIN queue', queue'[i].by = d, queue'[i].kind \in Rebuilds
               PROVE  Queued(d, Rebuilds)
    BY DEF Queued
  <2>1. queue'[i] = Job(e, "prepare", 0) \/ (i \in DOMAIN queue /\ queue'[i] = queue[i])
    BY <1>1, <1>3, AppendFacts
  <2> QED BY <2>1, <1>3 DEF Queued
<1>10. ~Loaded(e)'
  <2>1. phase'[e] = "preparing"
    BY <1>1, TypeParts DEF TypePhase
  <2>2. ~Queued(e, Rebuilds)'
    BY <1>1, <1>9 DEF Queued
  <2> QED BY <2>1, <2>2, <1>6, FreshFacts DEF Loaded
<1>11. \A d \in Emitters \ {e} : Loaded(d)' => Loaded(d)
  <2>1. \A d \in Emitters \ {e} : phase'[d] = phase[d] \/ phase'[d] = "free"
    BY <1>1, TypeParts DEF TypePhase
  <2> QED BY <2>1, <1>6, <1>9 DEF Loaded
<1>12. WorkIsRebuild' /\ GoneIsGone'
  BY <1>2, <1>4, <1>5 DEF MirrorInv, WorkIsRebuild, GoneIsGone
<1>13. GoneWasOrphan'
  <2>1. work'.gone # {} => AtFront(Rebuilds)
    BY <1>2, <1>5 DEF Idle
  <2>2. AtFront(Rebuilds) => mem'[Front'.by] = mem[Front.by] /\ Front' = Front
    BY <1>4, <1>6
  <2>3. GoneWasOrphan
    BY DEF MirrorInv
  <2> QED BY <2>1, <2>2, <2>3, <1>2 DEF GoneWasOrphan
<1>14. AllPlaced'
  <2>1. \A d \in Emitters : FilesPlaced(mem'[d].files) /\ PagesPlaced(mem'[d])
    BY <1>6, FreshSound DEF MirrorInv, AllPlaced
  <2>2. FilesPlaced(disk') /\ FilesPlaced(saved'.files) /\ PagesPlaced(saved')
    BY <1>2 DEF MirrorInv, AllPlaced
  <2> QED BY <2>1, <2>2 DEF AllPlaced, FilesPlaced, PagesPlaced
<1>15. AllBacked'
  <2>1. Backed(saved') /\ \A d \in Emitters : Backed(mem'[d])
    BY <1>2, <1>6, FreshSound DEF MirrorInv, AllBacked
  <2> QED BY <2>1 DEF AllBacked, Backed
<1>16. SavedIsExact'
  BY <1>2 DEF MirrorInv, SavedIsExact, Exact, Tidy
<1>17. MemIsExact'
  <2>1. \A d \in Emitters \ failing' : ~Writing(d)' => Exact(mem'[d]) /\ Tidy(mem'[d])
    BY <1>2, <1>6, <1>7, FreshSound DEF MirrorInv, MemIsExact
  <2> QED BY <2>1 DEF MemIsExact, Exact, Tidy
<1>18. AllRecorded'
  <2>1. Recorded(saved', {})
    BY <1>2 DEF MirrorInv, AllRecorded
  <2>2. ASSUME NEW d \in Emitters \ failing'
        PROVE  Recorded(mem'[d], IF Writing(d)' THEN Placed(Front'.version, blind') ELSE {})
    <3>1. CASE d = e
      BY <3>1, <1>6, FreshSound
    <3>2. CASE d # e
      <4>1. Recorded(mem[d], IF Writing(d) THEN Placed(Front.version, blind) ELSE {})
        BY <1>2 DEF MirrorInv, AllRecorded
      <4>2. Writing(d) => Front' = Front
        BY <1>4 DEF Writing, Rebuilding
      <4> QED BY <3>2, <4>1, <4>2, <1>2, <1>6, <1>7
    <3> QED BY <3>1, <3>2
  <2> QED BY <2>1, <2>2 DEF AllRecorded, Recorded
<1>19. KnowsDisk'
  <2> SUFFICES ASSUME NEW d \in Emitters \ misled', NEW y \in Paths, mem'[d].files[y] # Nothing,
                      ~(Rebuilding(d)' /\ y \in work'.gone)
               PROVE  disk'[y] = mem'[d].files[y]
    BY DEF KnowsDisk
  <2>1. d # e
    BY <1>6, FreshFacts
  <2>2. d \notin misled /\ mem'[d] = mem[d] /\ ~(Rebuilding(d) /\ y \in work.gone)
    BY <2>1, <1>1, <1>2, <1>6, <1>8
  <2> QED BY <2>2, <1>2 DEF MirrorInv, KnowsDisk
<1>20. KnowsAll'
  <2> SUFFICES ASSUME ~leaked', NEW d \in Emitters \ misled', Loaded(d)', NEW y \in Paths, disk'[y] # Nothing
               PROVE  mem'[d].files[y] # Nothing
    BY DEF KnowsAll
  <2>1. d # e /\ d \notin misled /\ mem'[d] = mem[d] /\ Loaded(d)
    BY <1>1, <1>6, <1>10, <1>11
  <2> QED BY <2>1, <1>2 DEF MirrorInv, KnowsAll
<1> QED BY <1>12, <1>13, <1>14, <1>15, <1>16, <1>17, <1>18, <1>19, <1>20 DEF MirrorInv

\* A process starts with nothing loaded, and with a manifest that is as it was.
LEMMA BootSound ==
  ASSUME TypeOK, Boot, FilesPlaced(disk), FilesPlaced(saved.files), PagesPlaced(saved), Backed(saved),
         Exact(saved), Tidy(saved), Recorded(saved, {})
  PROVE  MirrorInv
<1>1. work = Idle /\ work.gone = {} /\ work.changed = FALSE
  BY DEF Boot, Idle
<1>2. \A e \in Emitters : mem[e] = Fresh
  BY DEF Boot
<1>3. \A e : ~Writing(e)
  BY <1>1 DEF Writing
<1>4. \A e \in Emitters : ~Loaded(e)
  <2>1. \A e \in Emitters : phase[e] \in {"preparing", "free"}
    BY DEF Boot
  <2>2. \A i \in DOMAIN queue : queue[i].kind \notin Rebuilds
    BY JobFacts, MirrorConstants DEF Boot, Rebuilds, Job
  <2> QED BY <2>1, <2>2, <1>2, FreshFacts DEF Loaded, Queued
<1>5. WorkIsRebuild /\ GoneIsGone /\ GoneWasOrphan
  BY <1>1 DEF WorkIsRebuild, GoneIsGone, GoneWasOrphan
<1>6. AllPlaced /\ AllBacked /\ SavedIsExact
  BY <1>2, FreshSound DEF AllPlaced, AllBacked, SavedIsExact
<1>7. MemIsExact
  BY <1>2, FreshSound DEF MemIsExact
<1>8. AllRecorded
  BY <1>2, <1>3, FreshSound DEF AllRecorded
<1>9. KnowsDisk /\ KnowsAll
  BY <1>2, <1>4, FreshFacts DEF KnowsDisk, KnowsAll
<1> QED BY <1>5, <1>6, <1>7, <1>8, <1>9 DEF MirrorInv

LEMMA CrashKeeps ==
  ASSUME TypeOK, MirrorInv, Crash
  PROVE  MirrorInv'
<1>1. /\ work' = Idle /\ mem' = [e \in Emitters |-> Fresh] /\ misled' = {} /\ failing' = {}
      /\ phase' = [d \in Emitters |-> IF d = current THEN "preparing" ELSE "free"]
      /\ queue' = <<Job(current, "prepare", 0)>>
      /\ UNCHANGED <<disk, saved, leaked>>
  BY DEF Crash, diskVars
<1>2. \A e \in Emitters : mem'[e] = Fresh
  BY <1>1
<1>3. WorkIsRebuild' /\ GoneIsGone' /\ GoneWasOrphan' /\ (\A e : ~Writing(e)') /\ work'.gone = {}
  BY <1>1, IdleFacts
<1>4. \A e \in Emitters : ~Loaded(e)'
  <2>1. \A e \in Emitters : phase'[e] \in {"preparing", "free"}
    BY <1>1
  <2>2. \A i \in DOMAIN queue' : queue'[i].kind \notin Rebuilds
    BY <1>1, JobFacts DEF Rebuilds, Job
  <2> QED BY <2>1, <2>2, <1>2, FreshFacts DEF Loaded, Queued
<1>5. AllPlaced'
  <2>1. \A d \in Emitters : FilesPlaced(mem'[d].files) /\ PagesPlaced(mem'[d])
    BY <1>2, FreshSound
  <2>2. FilesPlaced(disk') /\ FilesPlaced(saved'.files) /\ PagesPlaced(saved')
    BY <1>1 DEF MirrorInv, AllPlaced
  <2> QED BY <2>1, <2>2 DEF AllPlaced, FilesPlaced, PagesPlaced
<1>6. AllBacked'
  <2>1. Backed(saved') /\ \A d \in Emitters : Backed(mem'[d])
    BY <1>1, <1>2, FreshSound DEF MirrorInv, AllBacked
  <2> QED BY <2>1 DEF AllBacked, Backed
<1>7. SavedIsExact'
  BY <1>1 DEF MirrorInv, SavedIsExact, Exact, Tidy
<1>8. MemIsExact'
  <2>1. \A d \in Emitters : Exact(mem'[d]) /\ Tidy(mem'[d])
    BY <1>2, FreshSound
  <2> QED BY <2>1 DEF MemIsExact, Exact, Tidy
<1>9. AllRecorded'
  <2>1. Recorded(saved', {})
    BY <1>1 DEF MirrorInv, AllRecorded
  <2>2. \A d \in Emitters : Recorded(mem'[d], {})
    BY <1>2, FreshSound
  <2> QED BY <2>1, <2>2, <1>3 DEF AllRecorded, Recorded
<1>10. KnowsDisk'
  BY <1>2, FreshFacts DEF KnowsDisk
<1>11. KnowsAll'
  BY <1>4 DEF KnowsAll
<1> QED BY <1>3, <1>5, <1>6, <1>7, <1>8, <1>9, <1>10, <1>11 DEF MirrorInv

LEMMA MirrorInvInit ==
  ASSUME Init
  PROVE  MirrorInv
<1>1. TypeOK /\ Boot /\ saved = Fresh /\ \A x \in Paths : disk[x] = Nothing
  BY TypeInit DEF Init
<1>2. FilesPlaced(disk)
  BY <1>1 DEF FilesPlaced
<1> QED BY <1>1, <1>2, FreshSound, BootSound

LEMMA MirrorStep ==
  ASSUME TypeOK, MirrorInv, [Next]_vars
  PROVE  TypeOK' /\ MirrorInv'
<1>0. \E e \in Emitters : TRUE
  BY MirrorConstants
<1>1. CASE UNCHANGED vars
  <2>1. TypeOK'
    BY <1>1 DEF vars, diskVars, serviceVars, tailVars, lockVars, historyVars, boundVars, TypeOK
  <2>2. Quiet
    BY <1>0, <1>1, QuietSteps
  <2> QED BY <2>1, <2>2, QuietKeeps
<1>2. CASE Commit \/ TailDies \/ ProbeFinds \/ ProbeFails \/ Started \/ StopEmitters
  <2>1. TypeOK'
    BY <1>2, TypeCommit, TypeTailDies, TypeProbeFinds, TypeProbeFails, TypeStarted, TypeStopEmitters
  <2>2. Quiet
    BY <1>0, <1>2, QuietSteps
  <2> QED BY <2>1, <2>2, QuietKeeps
<1>3. ASSUME NEW e \in Emitters,
             Deliver(e) \/ Attempt(e) \/ OpenWorkspace(e) \/ TimedOut(e) \/ Reconcile(e)
      PROVE  TypeOK' /\ MirrorInv'
  <2>1. TypeOK'
    BY <1>3, TypeDeliver, TypeAttempt, TypeOpenWorkspace, TypeTimedOut, TypeReconcile
  <2>2. Quiet
    BY <1>3, QuietSteps
  <2> QED BY <2>1, <2>2, QuietKeeps
<1>4. CASE LoadManifest
  BY <1>4, TypeLoadManifest, LoadKeeps
<1>5. CASE WriteFile
  BY <1>5, TypeWriteFile, WriteKeeps
<1>6. CASE RemoveFile
  BY <1>6, TypeRemoveFile, RemoveKeeps
<1>7. CASE Replace
  BY <1>7, TypeReplace, ReplaceKeeps
<1>8. CASE RebuildFails
  BY <1>8, TypeRebuildFails, FailKeeps
<1>9. CASE StartEngine
  BY <1>9, TypeStartEngine, StartKeeps
<1>10. CASE Crash
  BY <1>10, TypeCrash, CrashKeeps
<1> QED BY <1>1, <1>2, <1>3, <1>4, <1>5, <1>6, <1>7, <1>8, <1>9, <1>10 DEF Next

\* In every state of the mirror its variables have their types: the queue of the lock holds
\* jobs of inits and of rebuilds of a version of the stream.
THEOREM MirrorTypes == Spec => []TypeOK
<1>1. Init => TypeOK
  BY TypeInit
<1>2. Init => MirrorInv
  BY MirrorInvInit
<1>3. TypeOK /\ MirrorInv /\ [Next]_vars => TypeOK' /\ MirrorInv'
  BY MirrorStep
<1> QED BY <1>1, <1>2, <1>3, PTL DEF Spec

\* The inductive invariant: the manifest on the disk is that of a rebuild that ended, the one
\* in memory is what the disk holds, and the work of the rebuild at the front accounts for
\* what is neither.
THEOREM MirrorInvariantHolds == Spec => []MirrorInv
<1>1. Init => TypeOK
  BY TypeInit
<1>2. Init => MirrorInv
  BY MirrorInvInit
<1>3. TypeOK /\ MirrorInv /\ [Next]_vars => TypeOK' /\ MirrorInv'
  BY MirrorStep
<1> QED BY <1>1, <1>2, <1>3, PTL DEF Spec

\* A settled emitter knows the disk, and its manifest is that of its last rebuild.
LEMMA SettledFacts ==
  ASSUME TypeOK, MirrorInv, Settled
  PROVE  /\ current \in Emitters \ misled /\ current \in Emitters \ failing
         /\ mem[current] \in Manifests /\ Exact(mem[current]) /\ Tidy(mem[current])
         /\ \A x \in Paths : mem[current].files[x] # Nothing => disk[x] = mem[current].files[x]
         /\ ~leaked => \A x \in Paths : disk[x] # Nothing => mem[current].files[x] # Nothing
<1>1. current \in Emitters \ misled /\ current \in Emitters \ failing
  BY TypeParts DEF Settled, TypeDisk
<1>2. ~Rebuilding(current) /\ ~Writing(current)
  BY DEF Settled, Rebuilding, Writing, AtFront
<1>3. Loaded(current)
  BY DEF Settled, Loaded
<1>4. mem[current] \in Manifests
  BY <1>1, MemFacts
<1>5. Exact(mem[current]) /\ Tidy(mem[current])
  BY <1>1, <1>2 DEF MirrorInv, MemIsExact
<1>6. \A x \in Paths : mem[current].files[x] # Nothing => disk[x] = mem[current].files[x]
  BY <1>1, <1>2 DEF MirrorInv, KnowsDisk
<1>7. ~leaked => \A x \in Paths : disk[x] # Nothing => mem[current].files[x] # Nothing
  BY <1>1, <1>3 DEF MirrorInv, KnowsAll
<1> QED BY <1>1, <1>4, <1>5, <1>6, <1>7

\* A mirror at rest holds every page of the version it reports with the body of that version,
\* whatever restarts, timeouts, crashes and failures came before: the hash test of
\* writeIfChanged is as good as a comparison with the disk.
THEOREM RestHoldsThePages == Spec => []RestIsMirror
<1>1. ASSUME TypeOK, MirrorInv PROVE RestIsMirror
  <2> SUFFICES ASSUME Settled, Version > 0, NEW p \in Placed(Version, Hidden)
               PROVE  disk[Tree[Version][p].path] = File(Version, p)
    BY DEF RestIsMirror
  <2>1. /\ mem[current] \in Manifests /\ Exact(mem[current])
        /\ \A x \in Paths : mem[current].files[x] # Nothing => disk[x] = mem[current].files[x]
    BY <1>1, SettledFacts
  <2>2. Version \in Versions
    BY <2>1, ManifestFacts, MarkdownDiskConstants DEF Version, Versions
  <2>3. Tree[Version][p].path \in Paths /\ File(Version, p) # Nothing
    BY <2>2, PlacedFacts, NodeFacts
  <2>4. mem[current].files[Tree[Version][p].path] = File(Version, p)
    BY <2>1 DEF Exact, Version, Hidden
  <2> QED BY <2>1, <2>3, <2>4
<1> QED BY <1>1, MirrorTypes, MirrorInvariantHolds, PTL

\* And it holds nothing else: what a page left behind when it moved, was archived or deleted
\* is gone, unless a file was written that no manifest remembers.
THEOREM RestHoldsNothingElse == Spec => []NoOrphans
<1>1. ASSUME TypeOK, MirrorInv PROVE NoOrphans
  <2> SUFFICES ASSUME Settled, Version > 0, ~leaked, NEW x \in Paths, disk[x] # Nothing
               PROVE  x \in ExpectedPaths(Version, Hidden) \cup {mem[current].pages[p] : p \in Frozen(Version, Hidden)}
    BY DEF NoOrphans
  <2>1. Tidy(mem[current]) /\ mem[current].files[x] # Nothing
    BY <1>1, SettledFacts
  <2>2. x \in Tracked(mem[current])
    BY <2>1 DEF Tracked
  <2> QED BY <2>1, <2>2 DEF Tidy, Version, Hidden
<1> QED BY <1>1, MirrorTypes, MirrorInvariantHolds, PTL
-----------------------------------------------------------------------------
(* What a rebuild takes off the disk. *)

\* A file that is written takes the place of one of the same page.
LEMMA WriteLeavesPages ==
  ASSUME TypeOK, MirrorInv, WriteFile, NEW p \in Undisturbed, OnDisk(disk, p)
  PROVE  OnDisk(disk', p)
<1>1. PICK q \in Placed(Front.version, blind) :
        /\ q \in DOMAIN Tree[Front.version]
        /\ disk' = [disk EXCEPT ![Tree[Front.version][q].path] = File(Front.version, q)]
  BY WriteStep
<1> DEFINE x == Tree[Front.version][q].path
           c == File(Front.version, q)
<1>2. x \in Paths /\ c \in Contents /\ c # Nothing /\ c[1] = q /\ PlaceOf(q, x)
  BY <1>1, WriteStep, NodeFacts
<1>3. PICK y \in Paths : disk[y] # Nothing /\ disk[y][1] = p
  BY DEF OnDisk
<1>4. PlaceOf(p, y)
  BY <1>3 DEF MirrorInv, AllPlaced, FilesPlaced
<1>5. \A z \in Paths : disk'[z] = IF z = x THEN c ELSE disk[z]
  BY <1>1, MemFacts DEF Disks
<1> HIDE DEF x, c
<1>6. CASE y = x
  <2>1. p = q
    BY <1>2, <1>4, <1>6, UndisturbedFacts
  <2> QED BY <2>1, <1>2, <1>5 DEF OnDisk
<1>7. CASE y # x
  BY <1>3, <1>5, <1>7 DEF OnDisk
<1> QED BY <1>6, <1>7

\* A file that is removed is not the last one of its page, unless the page was written by a
\* rebuild that failed, and can not be placed by this one.
LEMMA RemoveLeavesPages ==
  ASSUME TypeOK, MirrorInv, RemoveFile, Front.by \notin misled, NEW p \in Undisturbed, OnDisk(disk, p)
  PROVE  OnDisk(disk', p) \/ Unrecorded(p)
<1> DEFINE e == Front.by
           v == Front.version
           m == mem[e]
<1>1. AtFront(Rebuilds) /\ e \in Emitters /\ v \in Versions /\ Differing(m, v, blind) = {}
  BY RemoveStep
<1>2. PICK x \in Orphans(m, v, blind) \ work.gone : x \in Paths /\ disk' = [disk EXCEPT ![x] = Nothing]
  BY RemoveStep
<1>3. \A y \in Paths : disk'[y] = IF y = x THEN Nothing ELSE disk[y]
  BY <1>2, MemFacts DEF Disks
<1>4. /\ m \in Manifests /\ FilesPlaced(m.files) /\ PagesPlaced(m) /\ Backed(m)
      /\ e \notin failing => \E S \in {{}, Placed(v, blind)} : Recorded(m, S)
  BY <1>1, MemFacts DEF MirrorInv, AllPlaced, AllBacked, AllRecorded
<1>5. \A y \in Paths : m.files[y] # Nothing /\ y \notin work.gone => disk[y] = m.files[y]
  BY <1>1 DEF MirrorInv, KnowsDisk
<1>6. work.gone \subseteq Orphans(m, v, blind)
  BY <1>1 DEF MirrorInv, GoneWasOrphan
<1>7. p \in Pages /\ p \in DOMAIN Tree[v]
  BY <1>1, UndisturbedFacts
<1>8. ASSUME NEW y \in Paths, m.files[y] # Nothing, m.files[y][1] = p, y \notin Orphans(m, v, blind)
      PROVE  OnDisk(disk', p)
  <2>1. disk[y] = m.files[y] /\ y # x
    BY <1>2, <1>5, <1>6, <1>8
  <2>2. disk'[y] # Nothing /\ disk'[y][1] = p
    BY <2>1, <1>3, <1>8
  <2> QED BY <2>2 DEF OnDisk
<1>9. CASE p \in Placed(v, blind)
  <2>1. /\ Tree[v][p].path \in Paths /\ File(v, p) # Nothing /\ File(v, p)[1] = p
        /\ m.files[Tree[v][p].path] = File(v, p)
    BY <1>1, <1>7, <1>9, NodeFacts DEF Differing
  <2>2. Tree[v][p].path \notin Orphans(m, v, blind)
    BY <1>9 DEF Orphans, ExpectedPaths
  <2> QED BY <2>1, <2>2, <1>8
<1>10. CASE p \notin Placed(v, blind) /\ m.pages[p] # Nothing
  <2>1. p \in Frozen(v, blind)
    BY <1>7, <1>10, PlacedFacts
  <2>2. /\ m.pages[p] \in Paths /\ m.files[m.pages[p]] # Nothing /\ m.files[m.pages[p]][1] = p
        /\ PlaceOf(p, m.pages[p])
    BY <1>4, <1>7, <1>10, ManifestFacts DEF Backed, PagesPlaced
  <2>3. m.pages[p] \notin ExpectedPaths(v, blind)
    <3> SUFFICES ASSUME NEW q \in Placed(v, blind), m.pages[p] = Tree[v][q].path
                 PROVE  FALSE
      BY DEF ExpectedPaths
    <3>1. PlaceOf(q, m.pages[p])
      BY <1>1, PlacedFacts, NodeFacts
    <3> QED BY <3>1, <2>2, <1>10, UndisturbedFacts
  <2>4. m.pages[p] \in Kept(m, v, blind)
    BY <2>1, <2>3, <1>10 DEF Kept, KeptBy
  <2>5. m.pages[p] \notin Orphans(m, v, blind)
    BY <2>4 DEF Orphans
  <2> QED BY <2>2, <2>5, <1>8
<1>11. CASE p \notin Placed(v, blind) /\ m.pages[p] = Nothing
  <2>1. CASE e \in failing
    <3>1. p \in Frozen(v, blind)
      BY <1>7, <1>11, PlacedFacts
    <3> QED BY <3>1, <2>1, <1>11 DEF Unrecorded
  <2>2. CASE e \notin failing
    <3>1. \A y \in Paths : m.files[y] # Nothing => m.files[y][1] # p
      BY <2>2, <1>4, <1>11, MarkdownDiskConstants DEF Recorded
    <3>2. m.files[x] # Nothing /\ disk[x] = m.files[x]
      BY <1>2, <1>5 DEF Orphans, Tracked
    <3>3. PICK y \in Paths : disk[y] # Nothing /\ disk[y][1] = p
      BY DEF OnDisk
    <3>4. y # x
      BY <1>2, <3>1, <3>2, <3>3
    <3> QED BY <3>3, <3>4, <1>3 DEF OnDisk
  <2> QED BY <2>1, <2>2
<1> QED BY <1>9, <1>10, <1>11

\* No step of a rebuild takes the last file of a page off the disk, be the page moved, its type
\* unknown to this process, or the rebuild one that comes after a failed one, with the exception
\* that Unrecorded states.
THEOREM PagesAreKept == Spec => PageKept
<1>1. ASSUME TypeOK, MirrorInv, [Next]_vars
      PROVE  [queue # <<>> /\ Front.by \notin misled =>
                \A p \in Undisturbed : OnDisk(disk, p) => OnDisk(disk', p) \/ Unrecorded(p)]_vars
  <2> SUFFICES ASSUME Front.by \notin misled, NEW p \in Undisturbed, OnDisk(disk, p)
               PROVE  OnDisk(disk', p) \/ Unrecorded(p)
    OBVIOUS
  <2>1. CASE WriteFile
    BY <1>1, <2>1, WriteLeavesPages
  <2>2. CASE RemoveFile
    BY <1>1, <2>2, RemoveLeavesPages
  <2>3. CASE disk' = disk
    BY <2>3
  <2>4. disk' = disk \/ WriteFile \/ RemoveFile
    <3>1. UNCHANGED vars => disk' = disk
      BY DEF vars, diskVars
    <3>2. (LoadManifest \/ Replace \/ RebuildFails) => disk' = disk
      BY <1>1, LoadStep, ReplaceStep, FailStep
    <3>3. \A e \in Emitters : (Deliver(e) \/ Attempt(e) \/ OpenWorkspace(e) \/ TimedOut(e) \/ Reconcile(e)) => disk' = disk
      BY DEF Deliver, Attempt, OpenWorkspace, TimedOut, Reconcile, diskVars
    <3>4. (Commit \/ TailDies \/ ProbeFinds \/ ProbeFails \/ Started \/ StopEmitters \/ StartEngine \/ Crash) => disk' = disk
      BY DEF Commit, TailDies, ProbeFinds, ProbeFails, Started, StopEmitters, StartEngine, Crash, diskVars
    <3> QED BY <1>1, <3>1, <3>2, <3>3, <3>4 DEF Next
  <2> QED BY <2>1, <2>2, <2>3, <2>4
<1> QED BY <1>1, MirrorTypes, MirrorInvariantHolds, PTL DEF Spec, PageKept
=============================================================================
