---------------------------- MODULE MarkdownDisk ----------------------------
(***************************************************************************)
(* What the disk projector (wiki-mirror/src/markdown-projection.ts) computes *)
(* from a fold of the workspace and from the manifest it keeps of its files: *)
(* the files a rebuild expects, the pages it freezes, what it writes, what   *)
(* it removes, and the manifest it ends with.                                *)
(*                                                                          *)
(* The workspace at a version is a function from its pages to where each of  *)
(* them belongs, what its file says, and the pages its place is derived      *)
(* from: its ancestors up to the first archived one.  The content of a file  *)
(* is a page with a body; the attachments of a page go with its body.        *)
(***************************************************************************)
EXTENDS Integers

CONSTANTS
  Pages, Paths, Bodies,
  MaxCommits,   \* bound: the commits of the workspace
  Tree,         \* the pages of each version
  Nothing       \* no file, no path

Node == [path : Paths, body : Bodies, needs : SUBSET Pages]
Contents == Pages \X Bodies

\* What the manifest says of the files, and the pages hidden from the fold it was last rebuilt
\* from: knew is not in the file, it is what the properties say the manifest is right about.
Manifests == [version : 0..MaxCommits,
              files : [Paths -> Contents \cup {Nothing}],
              pages : [Pages -> Paths \cup {Nothing}],
              knew : SUBSET Pages]

ASSUME MarkdownDiskConstants ==
  /\ MaxCommits \in Nat \ {0}
  /\ DOMAIN Tree = 1..MaxCommits
  /\ \A v \in 1..MaxCommits :
       /\ DOMAIN Tree[v] \subseteq Pages
       /\ \A p \in DOMAIN Tree[v] :
            /\ Tree[v][p] \in Node
            /\ \A q \in DOMAIN Tree[v] : Tree[v][p].path = Tree[v][q].path => p = q
  /\ Nothing \notin Paths /\ Nothing \notin Contents

Fresh == [version |-> 0, files |-> [x \in Paths |-> Nothing], pages |-> [p \in Pages |-> Nothing],
          knew |-> {}]

\* A page is placed when the process knows its type and the types of the pages its path
\* is derived from.  The others are frozen.
Placed(v, blind) == {p \in DOMAIN Tree[v] : (Tree[v][p].needs \cup {p}) \cap blind = {}}

FrozenNone(v, blind) == {}    \* mutant: a page that the fold does not see is a page that is gone

Frozen(v, blind) == DOMAIN Tree[v] \ Placed(v, blind)

ExpectedPaths(v, blind) == {Tree[v][p].path : p \in Placed(v, blind)}

File(v, p) == <<p, Tree[v][p].body>>

\* The pages whose file's recorded hash is not the one a rebuild expects: the others are
\* not looked at, whatever is on the disk.
Differing(m, v, blind) == {p \in Placed(v, blind) : m.files[Tree[v][p].path] # File(v, p)}

KeptBy(m, v, blind) ==
  {p \in Frozen(v, blind) : m.pages[p] # Nothing /\ m.pages[p] \notin ExpectedPaths(v, blind)}

Kept(m, v, blind) == {m.pages[p] : p \in KeptBy(m, v, blind)}

Tracked(m) == {x \in Paths : m.files[x] # Nothing}

OrphansOfPages(m, v, blind) ==    \* mutant: only the files of pages that are gone
  {x \in Tracked(m) : m.files[x][1] \notin DOMAIN Tree[v]}

Orphans(m, v, blind) == Tracked(m) \ (ExpectedPaths(v, blind) \cup Kept(m, v, blind))

\* The manifest a rebuild ends with.
Rebuilt(m, v, blind) ==
  LET orphans == Orphans(m, v, blind)
      placed == Placed(v, blind)
      kept == KeptBy(m, v, blind)
  IN  [version |-> v,
       files |-> [x \in Paths |-> IF x \in orphans THEN Nothing ELSE m.files[x]],
       pages |-> [p \in Pages |-> CASE p \in placed -> Tree[v][p].path
                                    [] p \in kept -> m.pages[p]
                                    [] OTHER -> Nothing],
       knew |-> blind]

VerifiedByManifest(m, disk) == m    \* mutant: the files the manifest names are taken to be there

\* init: a file that is missing, or not what the manifest says of it, is forgotten, and the
\* next reconcile takes the rebuild path.
Verified(m, disk) ==
  LET stale == {x \in Tracked(m) : disk[x] # m.files[x]}
  IN  IF stale = {} THEN m
      ELSE [version |-> 0,
            files |-> [x \in Paths |-> IF x \in stale THEN Nothing ELSE m.files[x]],
            pages |-> [p \in Pages |-> IF m.pages[p] \in Tracked(m) \ stale THEN m.pages[p] ELSE Nothing],
            knew |-> m.knew]

OnDisk(disk, p) == \E x \in Paths : disk[x] # Nothing /\ disk[x][1] = p
=============================================================================
