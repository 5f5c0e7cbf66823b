------------------------------ MODULE PageOps ------------------------------
(***************************************************************************)
(* The behaviour every page type shares: what an operation does to a page     *)
(* (operations.ts), which operations a command may make in the page's status  *)
(* and in an element's (command-bus.ts, guard.ts), and the transitions the    *)
(* engine derives from the content.  A page type instantiates this module.   *)
(*                                                                          *)
(* A page is its status, its sections' lists of elements, each under the      *)
(* section's name, and the summary field.  An element is known by an id.      *)
(***************************************************************************)
EXTENDS Naturals, Sequences, SequencesExt

CONSTANTS
  PageType,      \* what the type declares, see below
  Due(_, _),     \* whether a page's content asks for one of them
  Valid(_)       \* what a page must satisfy to be written (validatePage)

(***************************************************************************)
(* A page type is a record of                                               *)
(*   edges             the status transitions: <<from, event, to>>            *)
(*   elements          those of the elements of each section                  *)
(*   mutableIn         the page statuses in which each section is writable     *)
(*   elementMutableIn  the element statuses in which an element's fields are   *)
(*   structural        the element fields that are writable in every status    *)
(*   auto              the events the engine fires by itself, in order        *)
(***************************************************************************)

Edge(e, status, event) == e[1] = status /\ e[2] = event

Can(edges, status, event) == \E e \in edges : Edge(e, status, event)

\* Where an event leads: the status itself where the edge is illegal.
After(edges, status, event) ==
  IF Can(edges, status, event)
  THEN (CHOOSE e \in edges : Edge(e, status, event))[3] ELSE status

-----------------------------------------------------------------------------
(* Operations.                                                              *)

AddElement(list, element, at) ==
  [op |-> "addElement", list |-> list, id |-> element.id, element |-> element, at |-> at]
RemoveElement(list, id) == [op |-> "removeElement", list |-> list, id |-> id]
MoveElement(list, id, to) == [op |-> "moveElement", list |-> list, id |-> id, at |-> to]
SetElementField(list, id, field, value) ==
  [op |-> "setElementField", list |-> list, id |-> id, field |-> field, value |-> value]
SetSummary(value) == [op |-> "setField", list |-> "review", value |-> value]
ElementTransition(list, id, event) ==
  [op |-> "step", list |-> list, id |-> id, event |-> event]
PageTransition(event) == [op |-> "transition", event |-> event]

IndexOf(elements, id) == CHOOSE i \in DOMAIN elements : elements[i].id = id
Holds(elements, id) == \E i \in DOMAIN elements : elements[i].id = id

\* An index outside of the list stands for the nearer of its ends.
Within(elements, at) ==
  IF at \in 0..Len(elements) THEN at ELSE IF at < 0 THEN 0 ELSE Len(elements)

Inserted(elements, element, at) == InsertAt(elements, Within(elements, at) + 1, element)

\* An operation on an element that is not there changes nothing.
Apply(page, op) ==
  LET elements == page[op.list]
      i == IndexOf(elements, op.id)
      there == Holds(elements, op.id)
      With(new) == [page EXCEPT ![op.list] = new]
  IN CASE op.op = "transition" ->
            [page EXCEPT !.status = After(PageType.edges, @, op.event)]
       [] op.op = "setField" -> [page EXCEPT !.summary = op.value]
       [] op.op = "addElement" -> With(Inserted(elements, op.element, op.at))
       [] op.op = "removeElement" /\ there -> With(RemoveAt(elements, i))
       [] op.op = "moveElement" /\ there ->
            With(Inserted(RemoveAt(elements, i), elements[i], op.at))
       [] op.op = "setElementField" /\ there ->
            With([elements EXCEPT ![i][op.field] = op.value])
       [] op.op = "step" /\ there ->
            With([elements EXCEPT ![i].status = After(PageType.elements[op.list], @, op.event)])
       [] OTHER -> page

Content(op) == op.op \notin {"transition", "step"}
Addressed(op) == op.op \in {"removeElement", "moveElement", "setElementField"}

\* An operation a command decided in `status` may make on the page the operations
\* before it left: the section is writable, and so is the field of an element that
\* is there (no command writes one that it has removed).
Allowed(status, page, op) ==
  /\ Content(op) => status \in PageType.mutableIn[op.list]
  /\ op.op = "setElementField" /\ op.field \notin PageType.structural /\ Holds(page[op.list], op.id) =>
       page[op.list][IndexOf(page[op.list], op.id)].status \in PageType.elementMutableIn[op.list]

\* The element that the k-th operation names was on the page the command read, or
\* the command has added it.  That it has also removed it does not count.
TargetExists(page, ops, k) ==
  Addressed(ops[k]) =>
    \/ Holds(page[ops[k].list], ops[k].id)
    \/ \E j \in 1..(k - 1) :
         ops[j].op = "addElement" /\ ops[j].list = ops[k].list /\ ops[j].id = ops[k].id

-----------------------------------------------------------------------------
(* Decisions.                                                               *)

Applied(page, ops) ==
  LET after[k \in 0..Len(ops)] == IF k = 0 THEN page ELSE Apply(after[k - 1], ops[k])
  IN after

DueNow(page) ==
  {k \in DOMAIN PageType.auto :
     Can(PageType.edges, page.status, PageType.auto[k]) /\ Due(page, PageType.auto[k])}

\* The page after the transitions its content asks for.  The code repeats this
\* until none is due; one round is enough where each edge undoes the other's cause.
Settled(page) ==
  LET due == DueNow(page)
      first == CHOOSE k \in due : \A l \in due : k <= l
  IN IF due = {} THEN page
     ELSE [page EXCEPT !.status = After(PageType.edges, @, PageType.auto[first])]

\* Ids are positions between two commands: what a command mints comes after them.
Numbered(list) == [i \in DOMAIN list |-> [list[i] EXCEPT !.id = i]]

Renumbered(page) ==
  [field \in DOMAIN page |->
     IF field \in DOMAIN PageType.elements THEN Numbered(page[field]) ELSE page[field]]

\* What a command's operations come to: the page they leave, and whether all of
\* them are legal and that page is well formed.
Decide(page, ops) ==
  LET after == Applied(page, ops)
      left == Renumbered(Settled(after[Len(ops)]))
  IN [legal |-> /\ \A k \in DOMAIN ops : TargetExists(page, ops, k) /\ Allowed(page.status, after[k - 1], ops[k])
                /\ Valid(left),
      page |-> left]

=============================================================================
