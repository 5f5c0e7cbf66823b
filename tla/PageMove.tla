------------------------------ MODULE PageMove ------------------------------
(***************************************************************************)
(* Moving pages from one workspace to another (wiki/src/core/move-saga.ts). *)
(* A move is a saga of commits on two streams: the source freezes the pages, *)
(* the target imports them, the source drops them or unfreezes them.  The     *)
(* process that runs it may stop between any two steps; whoever finds the     *)
(* move in the source's journal runs the rest again.                         *)
(*                                                                          *)
(* What a step does inside a workspace is in PageTree; here a workspace is    *)
(* the pages it holds.  A target refuses an import for reasons of its own (a  *)
(* title, a parent, its status, its page types), which may change between     *)
(* two attempts.                                                            *)
(***************************************************************************)
EXTENDS Naturals, Sequences, FiniteSets

CONSTANTS
  Workspaces,
  Pages,
  Home,         \* where the pages are at first
  Attached,     \* the pages that refer to an attachment
  Finishers,    \* the runs of the saga
  HasCopier,    \* those that were given a way to copy attachments
  OneAtATime,   \* a run starts only when no other is under way
  MaxMoves, MaxEdits,
  Nowhere

ASSUME MoveConstants ==
  /\ Home \in Workspaces /\ Nowhere \notin Workspaces
  /\ Attached \subseteq Pages
  /\ HasCopier \subseteq Finishers
  /\ OneAtATime \in BOOLEAN
  /\ MaxMoves \in Nat /\ MaxEdits \in Nat

VARIABLES
  moves,      \* every move begun; a move's id is its place
  live,       \* the pages each workspace holds
  text,       \* how often the copy of a page in a workspace was edited
  blobs,      \* the pages whose attachment is in a workspace's store
  pending,    \* the moves out of each workspace that are under way
  imports,    \* the moves each workspace has imported
  forward,    \* where a page that left a workspace went, or Nowhere
  step,       \* what each run does next
  moving,     \* the move it runs
  payload     \* the texts it exported

source == <<pending, forward>>
run == <<step, moving, payload>>
vars == <<moves, live, text, blobs, source, imports, run>>

Move == [from : Workspaces, to : Workspaces, pages : SUBSET Pages]

Ids == DOMAIN moves

TypeOK ==
  /\ moves \in Seq(Move) /\ Len(moves) <= MaxMoves
  /\ live \in [Workspaces -> SUBSET Pages]
  /\ text \in [Workspaces -> [Pages -> 0..MaxEdits]]
  /\ blobs \in [Workspaces -> SUBSET Attached]
  /\ pending \in [Workspaces -> SUBSET Ids]
  /\ imports \in [Workspaces -> SUBSET Ids]
  /\ forward \in [Workspaces -> [Pages -> Workspaces \cup {Nowhere}]]
  /\ \A w \in Workspaces : \A p \in live[w] : forward[w][p] = Nowhere
  /\ step \in [Finishers -> {"idle", "export", "copy", "import", "complete", "abort"}]
  /\ moving \in [Finishers -> 0..MaxMoves]
  /\ \A f \in Finishers : step[f] # "idle" => moving[f] \in Ids
  /\ payload \in [Finishers -> [Pages -> 0..MaxEdits]]

Init ==
  /\ moves = <<>>
  /\ live = [w \in Workspaces |-> IF w = Home THEN Pages ELSE {}]
  /\ text = [w \in Workspaces |-> [p \in Pages |-> 0]]
  /\ blobs = [w \in Workspaces |-> IF w = Home THEN Attached ELSE {}]
  /\ pending = [w \in Workspaces |-> {}]
  /\ imports = [w \in Workspaces |-> {}]
  /\ forward = [w \in Workspaces |-> [p \in Pages |-> Nowhere]]
  /\ step = [f \in Finishers |-> "idle"]
  /\ moving = [f \in Finishers |-> 0]
  /\ payload = [f \in Finishers |-> [p \in Pages |-> 0]]

-----------------------------------------------------------------------------
Frozen(w) == UNION {moves[id].pages : id \in pending[w]}

\* Commands on a page of a pending move are refused.
EditableAlways(w, p) == p \in live[w]    \* mutant: also on those

Editable(w, p) == p \in live[w] \ Frozen(w)

Edit(w, p) ==
  /\ Editable(w, p)
  /\ text[w][p] < MaxEdits
  /\ text' = [text EXCEPT ![w][p] = @ + 1]
  /\ UNCHANGED <<moves, live, blobs, source, imports, run>>

MayStart(f) ==
  /\ step[f] = "idle"
  /\ OneAtATime => \A g \in Finishers : step[g] = "idle"

Goes(f, s) == step' = [step EXCEPT ![f] = s]

\* The run looked for attachments it cannot copy, and tried the import, before it
\* froze the pages.
Begin(f, w, A, v) ==
  /\ MayStart(f)
  /\ Len(moves) < MaxMoves
  /\ v # w
  /\ A # {} /\ A \subseteq live[w] \ Frozen(w)
  /\ A \cap Attached # {} => f \in HasCopier
  /\ moves' = Append(moves, [from |-> w, to |-> v, pages |-> A])
  /\ pending' = [pending EXCEPT ![w] = @ \cup {Len(moves) + 1}]
  /\ moving' = [moving EXCEPT ![f] = Len(moves) + 1]
  /\ Goes(f, "export")
  /\ UNCHANGED <<live, text, blobs, imports, forward, payload>>

\* A move of the journal: asked for again, or found when a process starts.
Resume(f, id) ==
  /\ MayStart(f)
  /\ \E w \in Workspaces : id \in pending[w]
  /\ moving' = [moving EXCEPT ![f] = id]
  /\ Goes(f, "export")
  /\ UNCHANGED <<moves, live, text, blobs, source, imports, payload>>

\* The process stops, or a step throws an error that is no rejection.
Stop(f) ==
  /\ step[f] # "idle"
  /\ Goes(f, "idle")
  /\ UNCHANGED <<moves, live, text, blobs, source, imports, moving, payload>>

Now(f) == moves[moving[f]]

IsPending(f) == moving[f] \in pending[Now(f).from]

Export(f) ==
  /\ step[f] = "export"
  /\ IF IsPending(f)
       THEN payload' = [payload EXCEPT ![f] = text[Now(f).from]] /\ Goes(f, "copy")
       ELSE Goes(f, "idle") /\ UNCHANGED payload
  /\ UNCHANGED <<moves, live, text, blobs, source, imports, moving>>

NeedsCopy(f) == Now(f).pages \cap Attached

CopyNothing(f) == {}    \* mutant: the attachments stay behind

Copied(f) == NeedsCopy(f) \cap blobs[Now(f).from]

\* The attachments, before the pages that refer to them.
CopyBlobs(f) ==
  /\ step[f] = "copy"
  /\ NeedsCopy(f) # {} => f \in HasCopier
  /\ blobs' = [blobs EXCEPT ![Now(f).to] = @ \cup Copied(f)]
  /\ Goes(f, "import")
  /\ UNCHANGED <<moves, live, text, source, imports, moving, payload>>

NeverImported(f) == FALSE    \* mutant: the target does not remember its imports

AlreadyImported(f) == moving[f] \in imports[Now(f).to]

\* The import landed when this move was run before.
ImportAgain(f) ==
  /\ step[f] = "import"
  /\ AlreadyImported(f)
  /\ Goes(f, "complete")
  /\ UNCHANGED <<moves, live, text, blobs, source, imports, moving, payload>>

ForwardsKept(m) == forward[m.to]    \* mutant: a page that came back is still forwarded

ForwardsEnded(m) == [p \in Pages |-> IF p \in m.pages THEN Nowhere ELSE forward[m.to][p]]

ImportPages(f) ==
  LET m == Now(f) IN
  /\ step[f] = "import"
  /\ ~ AlreadyImported(f)
  /\ m.pages \cap live[m.to] = {}
  /\ live' = [live EXCEPT ![m.to] = @ \cup m.pages]
  /\ text' = [text EXCEPT ![m.to] = [p \in Pages |-> IF p \in m.pages THEN payload[f][p] ELSE @[p]]]
  /\ imports' = [imports EXCEPT ![m.to] = @ \cup {moving[f]}]
  /\ forward' = [forward EXCEPT ![m.to] = ForwardsEnded(m)]
  /\ Goes(f, "complete")
  /\ UNCHANGED <<moves, blobs, pending, moving, payload>>

\* No copier was given, or the target does not want the pages.
Rejected(f) ==
  IF step[f] = "copy" THEN NeedsCopy(f) # {} /\ f \notin HasCopier
  ELSE step[f] = "import" /\ ~ AlreadyImported(f)

Refuse(f) ==
  /\ Rejected(f)
  /\ Goes(f, "abort")
  /\ UNCHANGED <<moves, live, text, blobs, source, imports, moving, payload>>

ForwardLost(m) == forward[m.from]    \* mutant: no forwards are left

ForwardsLeft(m) == [p \in Pages |-> IF p \in m.pages THEN m.to ELSE forward[m.from][p]]

\* A move that is not pending any more was completed, or cannot be.
Complete(f) ==
  LET m == Now(f) IN
  /\ step[f] = "complete"
  /\ IF IsPending(f)
       THEN /\ live' = [live EXCEPT ![m.from] = @ \ m.pages]
            /\ forward' = [forward EXCEPT ![m.from] = ForwardsLeft(m)]
            /\ pending' = [pending EXCEPT ![m.from] = @ \ {moving[f]}]
       ELSE UNCHANGED <<live, source>>
  /\ Goes(f, "idle")
  /\ UNCHANGED <<moves, text, blobs, imports, moving, payload>>

Abort(f) ==
  /\ step[f] = "abort"
  /\ pending' = [pending EXCEPT ![Now(f).from] = @ \ {moving[f]}]
  /\ Goes(f, "idle")
  /\ UNCHANGED <<moves, live, text, blobs, imports, forward, moving, payload>>

Next ==
  \/ \E w \in Workspaces, p \in Pages : Edit(w, p)
  \/ \E f \in Finishers :
       \/ \E w, v \in Workspaces, A \in SUBSET Pages : Begin(f, w, A, v)
       \/ \E id \in Ids : Resume(f, id)
       \/ Export(f) \/ CopyBlobs(f)
       \/ ImportAgain(f) \/ ImportPages(f) \/ Refuse(f)
       \/ Complete(f) \/ Abort(f) \/ Stop(f)

Spec == Init /\ [][Next]_vars

-----------------------------------------------------------------------------
(* Properties.                                                              *)

\* The copy the source still holds once the target has imported the page.
Superseded(w, p) ==
  \E id \in pending[w] : p \in moves[id].pages /\ id \in imports[moves[id].to]

HomesOf(p) == {w \in Workspaces : p \in live[w] /\ ~ Superseded(w, p)}

\* Wherever the saga stops, a page has one home: it is neither lost nor in two
\* workspaces that would both take edits.
OneHome == \A p \in Pages : Cardinality(HomesOf(p)) = 1

\* The workspaces the forwards of p lead through from w are in S.
Followed(p, S) ==
  \A w \in S : p \notin live[w] /\ forward[w][p] # Nowhere => forward[w][p] \in S

WasIn(w, p) == w = Home \/ \E id \in imports[w] : p \in moves[id].pages

\* From wherever a page ever was, the forwards lead to a workspace that holds it.
ForwardsLead ==
  \A p \in Pages, w \in Workspaces : WasIn(w, p) =>
    \A S \in SUBSET Workspaces : w \in S /\ Followed(p, S) => \E v \in S : p \in live[v]

\* A page is nowhere without its attachment.
AttachmentsFollow == \A w \in Workspaces : live[w] \cap Attached \subseteq blobs[w]

HomeOf(p) == CHOOSE w \in HomesOf(p) : TRUE

Promise ==
  INSTANCE PageHome WITH home <- [p \in Pages |-> HomeOf(p)], text <- [p \in Pages |-> text[HomeOf(p)][p]]

\* The saga moves its pages at once, when the import lands, and loses no edit.
ImplementsPageHome == Promise!Spec

=============================================================================
