-------------------------- MODULE SpecRestatement --------------------------
(***************************************************************************)
(* The page type of a spec that an agent drafts and a human restates          *)
(* (wiki-models/src/spec-restatement), with every command it declares and     *)
(* those the registry generates for its lists, and with the workspace's       *)
(* moveItem, which asks the page type nothing.  A command is one step: it is  *)
(* decided against the page at the head of the log, and again if it lost a    *)
(* race for the version (CommandBus).                                        *)
(*                                                                          *)
(* A body is the set of texts it holds.  What the submission gates ask of a   *)
(* body is which texts suit a required slot, and which title a text cites.    *)
(* The engine does not know who calls, nor who wrote a text: every command     *)
(* takes any.  The actions are split by the commands' descriptions, which     *)
(* keep some of them to the human in the studio.                             *)
(***************************************************************************)
EXTENDS Integers, Sequences, FiniteSets, SequencesExt

CONSTANTS
  Slots,       \* the required slots, in the order of the rubric
  Titles, SlotTitle,
  Drafts,      \* what a caller may write: a title and a text
  Known,       \* the texts that were signed elsewhere before
  Suits,       \* the texts of the shape each slot asks for
  Cites,       \* the titles each text refers to, of a section or of none
  NoSlot,
  MaxSections, MaxDepth, MaxNotes,  \* bounds
  MaxNew, MaxRemoved                \* and those of a restatement: sections written, ids named

TextsOf(drafts) == {d.text : d \in drafts}
SlotSet == {Slots[i] : i \in DOMAIN Slots}
Texts == TextsOf(Drafts)
Depths == 0..MaxDepth

ASSUME SpecConstants ==
  /\ Slots \in Seq(SlotSet) /\ NoSlot \notin SlotSet
  /\ SlotTitle \in [SlotSet -> Titles]
  /\ \A d \in Drafts : d.title \in Titles
  /\ Known \subseteq Texts
  /\ Suits \in [SlotSet -> SUBSET Texts] /\ DOMAIN Cites = Texts
  /\ {MaxSections, MaxDepth, MaxNotes, MaxNew, MaxRemoved} \subseteq Nat

VARIABLES
  page,
  signed   \* the texts given to a command that verifies, or accepted as they stood

vars == <<page, signed>>

Statuses == {"drafting", "restating", "restated", "reviewing", "approved"}

statusTransitions == {
  <<"drafting", "submitForRestatement", "restating">>,
  <<"restating", "completeRestatement", "restated">>,
  <<"restated", "reopenRestatement", "restating">>,
  <<"restated", "requestHolisticReview", "reviewing">>,
  <<"reviewing", "approve", "approved">>,
  <<"reviewing", "reopenRestating", "restating">>,
  <<"approved", "reopen", "restating">> }

elements == [
  sections |-> {<<"ai-draft", "verify", "human-verified">>,
                <<"human-verified", "reviseAsDraft", "ai-draft">>},
  review |-> {<<"open", "resolve", "resolved">>} ]

mutableIn == [
  sections |-> {"drafting", "restating", "restated", "reviewing"},
  review |-> {"restating", "restated", "reviewing"} ]

elementMutableIn == [sections |-> {"ai-draft"}, review |-> {"open"}]

Verified(s) == s.status = "human-verified"

everySectionVerified(p) ==
  p.sections # <<>> /\ \A i \in DOMAIN p.sections : Verified(p.sections[i])

\* mutant: a page whose last unverified section is deleted stays as it is.
DueOnceVerified(p, event) == event = "completeRestatement" /\ everySectionVerified(p)

autoTransitions(p, event) ==
  everySectionVerified(p) = (event = "completeRestatement")

requiredIn(p) == p.status = "approved" => p.summary

PageType == [
  edges |-> statusTransitions, elements |-> elements,
  mutableIn |-> mutableIn, elementMutableIn |-> elementMutableIn,
  structural |-> {"depth"},
  auto |-> <<"completeRestatement", "reopenRestatement">> ]

INSTANCE PageOps WITH Due <- autoTransitions, Valid <- requiredIn

Section == [id : Nat, title : Titles, words : SUBSET Texts,
            status : {"ai-draft", "human-verified"},
            slot : SlotSet \cup {NoSlot}, depth : Nat]
Note == [id : Nat, status : {"open", "resolved"}]
Page == [status : Statuses, sections : Seq(Section), review : Seq(Note), summary : BOOLEAN]

TypeOK == page \in Page /\ signed \subseteq Texts

slotSeeds ==
  [i \in DOMAIN Slots |->
     [id |-> i, title |-> SlotTitle[Slots[i]], words |-> {}, status |-> "ai-draft",
      slot |-> Slots[i], depth |-> 0]]

Init ==
  /\ page = [status |-> "drafting", sections |-> slotSeeds, review |-> <<>>, summary |-> FALSE]
  /\ signed = Known

-----------------------------------------------------------------------------
(* What the commands read.                                                  *)

sections == page.sections
Ids == DOMAIN sections
Minted(k) == Len(sections) + k      \* the k-th id a command mints

\* The end of a section's subtree: itself and the deeper ones right after it.
subtreeEnd(i) ==
  CHOOSE e \in i..Len(sections) :
    /\ \A j \in (i + 1)..e : sections[j].depth > sections[i].depth
    /\ e < Len(sections) => sections[e + 1].depth <= sections[i].depth
subtree(i) == i..subtreeEnd(i)

Run(i, e) == [k \in 1..(e - i + 1) |-> i + k - 1]
subtreeRun(i) == Run(i, subtreeEnd(i))

\* The deepest a section may be that lands after the first n of a list.
maxDepthAfter(list, n) == IF n = 0 THEN 0 ELSE list[n].depth + 1

NewSection(id, d, depth, slot, status) ==
  [id |-> id, title |-> d.title, words |-> {d.text}, depth |-> depth, slot |-> slot,
   status |-> status]

Filling(slot) == {i \in Ids : sections[i].slot = slot}
slotSubtree(slot) ==
  IF Filling(slot) = {} THEN {}
  ELSE subtree(CHOOSE i \in Filling(slot) : \A j \in Filling(slot) : i <= j)
SlotWords(slot) == UNION {sections[i].words : i \in slotSubtree(slot)}

slotsCovered == \A s \in SlotSet : SlotWords(s) # {}

slotShape ==
  \A s \in SlotSet : slotSubtree(s) # {} => SlotWords(s) \cap Suits[s] # {}

citationsResolve ==
  \A i \in Ids : \A t \in sections[i].words :
    Cites[t] \subseteq {sections[j].title : j \in Ids}

OpenNotes == {n \in DOMAIN page.review : page.review[n].status = "open"}
noOpenNotes == OpenNotes = {}

activeRestatement == page.status \in {"restating", "restated", "reviewing"}

\* A command whose operations are `ops`: decided whole, or refused.
Do(ops) == LET decision == Decide(page, ops)
           IN decision.legal /\ page' = decision.page

\* One operation for each of some sections, in the order they are named.
Each(named, ops) == [k \in DOMAIN named |-> ops[named[k]]]

Step(i, event) == ElementTransition("sections", i, event)
Set(i, field, value) == SetElementField("sections", i, field, value)
Write(i, d) == <<Set(i, "words", {d.text}), Set(i, "title", d.title)>>
Downgrade(i) == IF Verified(sections[i]) THEN <<Step(i, "reviseAsDraft")>> ELSE <<>>
HasRoom(n) == Len(sections) + n <= MaxSections

-----------------------------------------------------------------------------
(* The agent's commands.                                                    *)

writeSlot(slot, d) ==
  IF Filling(slot) = {}
  THEN /\ HasRoom(1)
       /\ Do(<<AddElement("sections",
                 NewSection(Minted(1), d, 0, slot, "ai-draft"), Len(sections))>>)
  ELSE LET i == CHOOSE j \in Filling(slot) : \A k \in Filling(slot) : j <= k
       IN Do(Downgrade(i) \o Write(i, d))

draftSection(after, d, depth) ==
  LET at == IF after = 0 THEN Len(sections) ELSE subtreeEnd(after)
  IN /\ HasRoom(1) /\ depth <= maxDepthAfter(sections, at)
     /\ Do(<<AddElement("sections",
               NewSection(Minted(1), d, depth, NoSlot, "ai-draft"), at)>>)

reviseSection(i, d) == Do(Downgrade(i) \o Write(i, d))

submitForRestatement ==
  /\ Can(statusTransitions, page.status, "submitForRestatement")
  /\ slotsCovered /\ slotShape /\ citationsResolve
  /\ Do(<<PageTransition("submitForRestatement")>>)

completeRestatement ==
  /\ Can(statusTransitions, page.status, "completeRestatement")
  /\ everySectionVerified(page)
  /\ Do(<<PageTransition("completeRestatement")>>)

NewNotes(n) ==
  [k \in 1..n |-> AddElement("review",
     [id |-> Len(page.review) + k, status |-> "open"], Len(page.review) + k)]

recordHolisticReview(n, summary) ==
  /\ everySectionVerified(page) /\ page.status = "restated"
  /\ Len(page.review) + n <= MaxNotes
  /\ Do(<<SetSummary(summary)>> \o NewNotes(n) \o <<PageTransition("requestHolisticReview")>>)

rerunHolisticReview(n, summary) ==
  /\ page.status = "reviewing" /\ everySectionVerified(page)
  /\ Len(page.review) - Cardinality(OpenNotes) + n <= MaxNotes
  /\ Do(Each(SetToSeq(OpenNotes), [k \in OpenNotes |-> RemoveElement("review", k)])
        \o <<SetSummary(summary)>> \o NewNotes(n))

\* The transition is no content, so no gate of the section stops it.  (A resolution
\* text goes with it where the section and the note are writable.)
resolveNote(n) == Do(<<ElementTransition("review", n, "resolve")>>)

-----------------------------------------------------------------------------
(* Structure, whoever calls.                                                *)

indentSection(i) ==
  /\ sections[i].slot = NoSlot
  /\ sections[i].depth + 1 <= maxDepthAfter(sections, i - 1)
  /\ \A j \in subtree(i) : sections[j].depth < MaxDepth
  /\ Do(Each(subtreeRun(i), [j \in subtree(i) |-> Set(j, "depth", sections[j].depth + 1)]))

outdentSection(i) ==
  /\ sections[i].depth # 0
  /\ Do(Each(subtreeRun(i), [j \in subtree(i) |-> Set(j, "depth", sections[j].depth - 1)]))

\* The list without a section's subtree, and the depth the subtree may have at `to`.
Rest(i) == SubSeq(sections, 1, i - 1) \o SubSeq(sections, subtreeEnd(i) + 1, Len(sections))
Lift(i, to) ==
  LET ceiling == maxDepthAfter(Rest(i), to)
  IN IF ceiling < sections[i].depth THEN sections[i].depth - ceiling ELSE 0

Pos(list, x) == CHOOSE n \in DOMAIN list : list[n] = x

\* Members move one at a time: the first to right behind the section that precedes
\* `to` in the rest, each other to right behind the member before it, at the index
\* it has in the list as the moves so far have left it.
moveSubtreeOps(n, block, to) ==
  LET ids == [i \in 1..n |-> i]
      rest == SelectSeq(ids, LAMBDA x : x \notin Range(block))
      place(list, k) == IF k > 1 THEN Pos(list, block[k - 1])
                        ELSE IF to = 0 THEN 0 ELSE Pos(list, rest[to])
      cur[k \in 0..Len(block)] ==
        IF k = 0 THEN ids
        ELSE LET lifted == Remove(cur[k - 1], block[k])
             IN InsertAt(lifted, place(lifted, k) + 1, block[k])
  IN [k \in DOMAIN block |->
        MoveElement("sections", block[k], place(Remove(cur[k - 1], block[k]), k))]

moveSection(i, to) ==
  /\ to <= Len(Rest(i))
  /\ Do(moveSubtreeOps(Len(sections), subtreeRun(i), to) \o
        (IF Lift(i, to) = 0 THEN <<>>
         ELSE Each(subtreeRun(i),
                   [j \in subtree(i) |-> Set(j, "depth", sections[j].depth - Lift(i, to))])))

-----------------------------------------------------------------------------
(* The human's commands.                                                    *)

\* A command that signs some texts, or none.
Signing(texts) == signed' = signed \cup texts

Words(ids) == UNION {sections[i].words : i \in ids}

\* mutant: the tags of the removed sections go with them.
SlotsForgotten(removed) == <<>>

Tag(i) == IF sections[i].slot = NoSlot THEN <<>> ELSE <<sections[i].slot>>

\* The slots of the named sections, in that order: of one named twice, twice.
slotsOf(removed) ==
  LET ride[k \in 0..Len(removed)] == IF k = 0 THEN <<>> ELSE ride[k - 1] \o Tag(removed[k])
  IN ride[Len(removed)]

\* `removed` is replaced by `new`: drafts and their depths.  The slots of the removed
\* ride on the first of the new.
restateSections(removed, new) ==
  LET gone == Range(removed)
      slots == slotsOf(removed)
      first == CHOOSE i \in gone : \A j \in gone : i <= j
      depth(k) == IF k \in DOMAIN slots THEN 0 ELSE new[k].depth
      before == IF first = 1 THEN -1 ELSE sections[first - 1].depth
  IN /\ HasRoom(Len(new) - Cardinality(gone))
     /\ Len(slots) <= Len(new)
     /\ \A k \in DOMAIN new :
          depth(k) <= (IF k = 1 THEN before ELSE depth(k - 1)) + 1
     /\ Do([k \in DOMAIN removed |-> RemoveElement("sections", removed[k])] \o
           [k \in DOMAIN new |->
              AddElement("sections",
                NewSection(Minted(k), new[k].draft, depth(k),
                           IF k \in DOMAIN slots THEN slots[k] ELSE NoSlot, "human-verified"),
                first + k - 2)])

acceptSections(ids) ==
  /\ activeRestatement
  /\ \A i \in ids : ~Verified(sections[i])
  /\ Do(Each(SetToSeq(ids), [i \in ids |-> Step(i, "verify")]))

unacceptSections(ids) ==
  /\ activeRestatement
  /\ \A i \in ids : Verified(sections[i])
  /\ Do(Each(SetToSeq(ids), [i \in ids |-> Step(i, "reviseAsDraft")]))

addSection(before, d, depth) ==
  LET at == IF before = 0 THEN Len(sections) ELSE before - 1
  IN /\ activeRestatement /\ HasRoom(1)
     /\ depth <= maxDepthAfter(sections, at)
     /\ Do(<<AddElement("sections",
               NewSection(Minted(1), d, depth, NoSlot, "human-verified"), at)>>)

removeSection(i) ==
  /\ activeRestatement
  /\ \A j \in subtree(i) : sections[j].slot = NoSlot
  /\ Do(Each(subtreeRun(i), [j \in subtree(i) |-> RemoveElement("sections", j)]))

rewriteBody(i, words, reverify) ==
  Downgrade(i) \o <<Set(i, "words", words)>> \o (IF reverify THEN <<Step(i, "verify")>> ELSE <<>>)

\* mutant: the survivor stays verified when it was.
StaysAsSurvivor(i) == Verified(sections[i])

\* Whether both of two sections that are joined are verified.
stays(i) == Verified(sections[i]) /\ Verified(sections[i + 1])

joinSections(i) ==
  /\ activeRestatement
  /\ i < Len(sections) /\ sections[i + 1].slot = NoSlot
  /\ subtreeEnd(i + 1) = i + 1
  /\ Do(rewriteBody(i, Words({i, i + 1}), stays(i)) \o <<RemoveElement("sections", i + 1)>>)

\* The studio divides the words it shows; the command takes any two texts, and both
\* halves stand as the section did.
splitSection(i, top, bottom, title, sub) ==
  /\ activeRestatement /\ HasRoom(1)
  /\ Do(rewriteBody(i, top, Verified(sections[i])) \o
        <<AddElement("sections",
            [NewSection(Minted(1), [title |-> title, text |-> {}],
                        sections[i].depth + (IF sub THEN 1 ELSE 0), NoSlot, sections[i].status)
               EXCEPT !.words = bottom], i)>>)

\* mutant: a spec is approved with a review note open.
ApproveUnresolved == slotsCovered /\ slotShape /\ citationsResolve

approvable == noOpenNotes /\ slotsCovered /\ slotShape /\ citationsResolve

Move(event) ==
  Can(statusTransitions, page.status, event) /\ Do(<<PageTransition(event)>>)

approve == approvable /\ Move("approve")
reopenRestating == Move("reopenRestating")
reopen == Move("reopen")

-----------------------------------------------------------------------------
(* The commands generated for the lists: no declared precondition holds them.  *)

addSectionsItemsElement(d, slot, depth) ==
  /\ HasRoom(1)
  /\ Do(<<AddElement("sections",
            NewSection(Minted(1), d, depth, slot, "ai-draft"), Len(sections))>>)
removeSectionsItemsElement(i) == Do(<<RemoveElement("sections", i)>>)
moveSectionsItemsElement(i, to) == Do(<<MoveElement("sections", i, to)>>)
setSectionsItemsField(i, field, value) == Do(<<Set(i, field, value)>>)
removeReviewNotesElement(n) == Do(<<RemoveElement("review", n)>>)
addReviewNotesElement == Len(page.review) < MaxNotes /\ Do(NewNotes(1))
setReviewSummary(value) == Do(<<SetSummary(value)>>)

Generated ==
  \/ \E d \in Drafts, s \in SlotSet \cup {NoSlot}, depth \in Depths :
       addSectionsItemsElement(d, s, depth)
  \/ \E i \in Ids :
       \/ removeSectionsItemsElement(i)
       \/ \E to \in 0..(Len(sections) - 1) : moveSectionsItemsElement(i, to)
       \/ \E w \in Texts : setSectionsItemsField(i, "words", {w})
       \/ \E t \in Titles : setSectionsItemsField(i, "title", t)
       \/ \E d \in Depths : setSectionsItemsField(i, "depth", d)
       \/ \E s \in SlotSet \cup {NoSlot} : setSectionsItemsField(i, "slot", s)
  \/ \E n \in DOMAIN page.review : removeReviewNotesElement(n)
  \/ addReviewNotesElement
  \/ \E v \in BOOLEAN : setReviewSummary(v)

ByAgent ==
  \/ \E d \in Drafts :
       \/ \E s \in SlotSet : writeSlot(s, d)
       \/ \E after \in {0} \cup Ids, depth \in Depths : draftSection(after, d, depth)
       \/ \E i \in Ids : reviseSection(i, d)
  \/ submitForRestatement \/ completeRestatement
  \/ \E n \in 0..MaxNotes, summary \in BOOLEAN :
       recordHolisticReview(n, summary) \/ rerunHolisticReview(n, summary)
  \/ \E n \in DOMAIN page.review : resolveNote(n)

Restructure ==
  \E i \in Ids :
    \/ indentSection(i)
    \/ outdentSection(i)
    \/ \E to \in 0..Len(sections) : moveSection(i, to)

Replacement == [draft : Drafts, depth : Depths]
Replacements == UNION {[1..n -> Replacement] : n \in 0..MaxNew}
Removals == UNION {[1..n -> Ids] : n \in 1..MaxRemoved}    \* an id may be named again

\* What a list of replacements says.
Said(new) == {new[k].draft.text : k \in DOMAIN new}

Rewrite ==
  \/ \E removed \in Removals, new \in Replacements :
       restateSections(removed, new) /\ Signing(Said(new))
  \/ \E d \in Drafts, before \in {0} \cup Ids, depth \in Depths :
       addSection(before, d, depth) /\ Signing({d.text})
  \/ \E i \in Ids :
       \/ removeSection(i) /\ Signing({})
       \/ joinSections(i) /\ Signing({})
       \/ \E top, bottom \in SUBSET Texts, title \in Titles, sub \in BOOLEAN :
            /\ sections[i].depth < MaxDepth \/ ~sub
            /\ splitSection(i, top, bottom, title, sub)
            /\ Signing(IF Verified(sections[i]) THEN top \cup bottom ELSE {})

Declared ==
  \/ (ByAgent \/ Restructure \/ approve \/ reopenRestating \/ reopen) /\ Signing({})
  \/ Rewrite
  \/ \E ids \in SUBSET Ids \ {{}} :
       \/ acceptSections(ids) /\ Signing(Words(ids))
       \/ unacceptSections(ids) /\ Signing({})

-----------------------------------------------------------------------------
(* moveItem, a command of the workspace: no gate of the page or of the element  *)
(* is asked, nothing is derived, and what arrives is put last.                *)

Moved(ops) == page' = Renumbered(Applied(page, ops)[Len(ops)])

moveItemOut(list, id) == Moved(<<RemoveElement(list, id)>>)
moveItemIn(list, element) == Moved(<<AddElement(list, element, Len(page[list]))>>)
moveItemWithin(list, id) ==
  Moved(<<RemoveElement(list, id), AddElement(list, page[list][id], Len(page[list]))>>)

\* A section of another spec: the words of a verified one were signed there.
Arriving == [id : {Minted(1)}, title : Titles, words : SUBSET Texts,
             status : {"ai-draft", "human-verified"},
             slot : SlotSet \cup {NoSlot}, depth : Depths]
ArrivingNotes == [id : {Len(page.review) + 1}, status : {"open", "resolved"}]

moveItem ==
  \/ \E list \in {"sections", "review"} : \E id \in DOMAIN page[list] :
       (moveItemOut(list, id) \/ moveItemWithin(list, id)) /\ Signing({})
  \/ /\ HasRoom(1)
     /\ \E s \in Arriving :
          moveItemIn("sections", s) /\ Signing(IF Verified(s) THEN s.words ELSE {})
  \/ /\ Len(page.review) < MaxNotes
     /\ \E n \in ArrivingNotes : moveItemIn("review", n) /\ Signing({})

NextCommand == Declared \/ (Generated /\ Signing({})) \/ moveItem

Spec == Init /\ [][NextCommand]_vars

-----------------------------------------------------------------------------
(* Properties.                                                              *)

(* Provenance: every text of a section that stands as human-verified was given *)
(* to a command that verifies - restateSections, addSection, the split of a    *)
(* verified section - or was accepted as it stood, here or in the spec the     *)
(* section came from.  Whoever calls those is trusted; no revision, slot       *)
(* write, join, move or generated write carries another text into one (the     *)
(* element gate, elements 518-549, and the downgrades of each command).       *)
VerifiedWasSigned ==
  \A i \in Ids : Verified(sections[i]) => sections[i].words \subseteq signed

Derived(p) ==
  /\ p.status = "restated" => everySectionVerified(p)
  /\ p.status = "restating" => ~everySectionVerified(p)

(* `restated` says that every section is verified and `restating` that one is  *)
(* not, whatever command of the page came last, even one on its way from a     *)
(* draft or a review, and whatever it found (autoTransitions 491-494,          *)
(* withAutoTransitions).  moveItem derives nothing: the status it leaves may   *)
(* be wrong until the next command of the page puts it right.                 *)
StatusIsDerived == [][Derived(page') \/ moveItem]_vars

Incomplete ==
  page.status = "approved" /\
    ~(noOpenNotes /\ slotsCovered /\ slotShape /\ citationsResolve /\ page.summary)

(* No command of the page makes a spec that is approved and incomplete: one    *)
(* that approves it finds every required slot filled and of its shape, the     *)
(* citations resolved, a review summary and no open note, though the commands   *)
(* before it may have broken each of these, and none takes any of that from an  *)
(* approved spec, though lifecycle transitions escape the section gate.  Only   *)
(* moveItem does: it takes sections out, and puts any in, without a gate.      *)
ApprovedIsComplete == [][Incomplete' => Incomplete \/ moveItem]_vars

Fills(slot) == Cardinality(Filling(slot))

\* A restatement that names a section twice.
NamesTwice ==
  \E removed \in Removals, new \in Replacements :
    ~IsInjective(removed) /\ restateSections(removed, new)

(* No command the page type declares drops a required slot: it rides through    *)
(* restatements of several sections, joins, splits and moves.  Nor does one     *)
(* give a slot that is filled to a further section, except a restatement that   *)
(* names a section twice, whose slot rides on two of the new.  The generated     *)
(* list commands and moveItem may drop one or double it; the gates of           *)
(* submission and approval are there for that.                                *)
SlotsKept ==
  [][\/ \A s \in SlotSet : Fills(s) = 0 \/ Fills(s)' = Fills(s)
     \/ \E i \in Ids : \/ removeSectionsItemsElement(i)
                       \/ \E s \in SlotSet \cup {NoSlot} : setSectionsItemsField(i, "slot", s)
     \/ \E d \in Drafts, s \in SlotSet, depth \in Depths :
          addSectionsItemsElement(d, s, depth)
     \/ moveItem
     \/ NamesTwice /\ \A s \in SlotSet : Fills(s) = 0 \/ Fills(s)' >= Fills(s)]_vars

=============================================================================
