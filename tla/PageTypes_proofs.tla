-------------------------- MODULE PageTypes_proofs --------------------------
(***************************************************************************)
(* Two page types, for any value of their parameters.                        *)
(*                                                                          *)
(* A spec that an agent drafts and a human restates.  Whatever commands come in  *)
(* whatever order, the workspace's moveItem among them, a text stands as         *)
(* verified only if a command that verifies was given it.  Every command of the   *)
(* page leaves a status that says what the sections are, and none makes an        *)
(* approved spec incomplete.  A command is a list of operations and the page      *)
(* they leave is a chain: most lemmas say what one operation keeps, and which     *)
(* operations a command is made of.                                          *)
(*                                                                          *)
(* A feature: no way to a sealed spec or a ready plan goes past its gate, and    *)
(* what the gate asked for stays true while the page stays there.              *)
(***************************************************************************)
EXTENDS SpecRestatement, Feature, SequenceTheorems, FiniteSetTheorems, WellFoundedInduction, TLAPS

-----------------------------------------------------------------------------
(* The pages an operation leaves.                                           *)

PageOf(A, X) == [status : A, sections : Seq(X), review : Seq(Note), summary : BOOLEAN]

LEMMA RemoveAtKeeps ==
  ASSUME NEW X, NEW s \in Seq(X), NEW i \in DOMAIN s
  PROVE  RemoveAt(s, i) \in Seq(X) /\ Len(RemoveAt(s, i)) = Len(s) - 1
<1>1. Len(s) \in Nat /\ DOMAIN s = 1..Len(s) /\ \A j \in 1..Len(s) : s[j] \in X
  BY LenProperties
<1>2. SubSeq(s, 1, i - 1) \in Seq(X) /\ Len(SubSeq(s, 1, i - 1)) = i - 1
  BY <1>1, SubSeqProperties, Z3
<1>3. SubSeq(s, i + 1, Len(s)) \in Seq(X) /\ Len(SubSeq(s, i + 1, Len(s))) = Len(s) - i
  BY <1>1, SubSeqProperties, Z3
<1> DEFINE a == SubSeq(s, 1, i - 1)
           b == SubSeq(s, i + 1, Len(s))
<1>4. RemoveAt(s, i) = a \o b
  BY DEF RemoveAt
<1>5. i \in Int /\ Len(a) + Len(b) = Len(s) - 1 /\ a \in Seq(X) /\ b \in Seq(X)
  BY <1>1, <1>2, <1>3
<1> HIDE DEF a, b
<1>6. a \o b \in Seq(X) /\ Len(a \o b) = Len(a) + Len(b)
  BY <1>5, ConcatProperties
<1> QED BY <1>4, <1>5, <1>6

LEMMA InsertedKeeps ==
  ASSUME NEW X, NEW s \in Seq(X), NEW e \in X, NEW at
  PROVE  Inserted(s, e, at) \in Seq(X)
<1>1. Len(s) \in Nat /\ DOMAIN s = 1..Len(s) /\ \A j \in 1..Len(s) : s[j] \in X
  BY LenProperties
<1>2. Within(s, at) \in 0..Len(s)
  BY <1>1 DEF Within
<1> DEFINE n == Within(s, at) + 1
<1>3. n \in 1..(Len(s) + 1)
  BY <1>1, <1>2
<1> HIDE DEF n
<1>4. SubSeq(s, 1, n - 1) \in Seq(X)
  BY <1>1, <1>3, SubSeqProperties
<1>5. SubSeq(s, n, Len(s)) \in Seq(X)
  BY <1>1, <1>3, SubSeqProperties
<1>6. InsertAt(s, n, e) \in Seq(X)
  BY <1>4, <1>5 DEF InsertAt
<1> QED BY <1>6 DEF Inserted, n

\* A page whose list is replaced.
Put(q, list, new) == [q EXCEPT ![list] = new]

LEMMA With ==
  ASSUME NEW A, NEW X, NEW q \in PageOf(A, X), NEW list, NEW new,
         \/ list = "sections" /\ new \in Seq(X)
         \/ list = "review" /\ new \in Seq(Note)
  PROVE  Put(q, list, new) \in PageOf(A, X)
<1>1. CASE list = "sections" /\ new \in Seq(X)
  <2>1. Put(q, list, new) = [q EXCEPT !.sections = new]
    BY <1>1 DEF Put
  <2>2. [q EXCEPT !.sections = new] \in PageOf(A, X)
    BY <1>1 DEF PageOf
  <2> QED BY <2>1, <2>2
<1>2. CASE list = "review" /\ new \in Seq(Note)
  <2>1. Put(q, list, new) = [q EXCEPT !.review = new]
    BY <1>2 DEF Put
  <2>2. [q EXCEPT !.review = new] \in PageOf(A, X)
    BY <1>2 DEF PageOf
  <2> QED BY <2>1, <2>2
<1> QED BY <1>1, <1>2

Lists == {"sections", "review"}

Harmless(op, A, X) ==
  \/ op.op = "transition" /\ \A st \in A : After(statusTransitions, st, op.event) \in A
  \/ op.op = "setField" /\ op.list = "review" /\ op.value \in BOOLEAN
  \/ op.op = "addElement" /\ op.list = "sections" /\ op.element \in X
  \/ op.op = "addElement" /\ op.list = "review" /\ op.element \in Note
  \/ op.op \in {"removeElement", "moveElement"} /\ op.list \in Lists
  \/ op.op = "step" /\ op.list = "review"
  \/ /\ op.op = "step" /\ op.list = "sections"
     /\ \A s \in X : s.id = op.id =>
                       [s EXCEPT !.status = After(elements["sections"], @, op.event)] \in X
  \/ /\ op.op = "setElementField" /\ op.list = "sections"
     /\ \A s \in X : s.status = "ai-draft" \/ op.field = "depth" =>
                       [s EXCEPT ![op.field] = op.value] \in X

LEMMA IndexOfHeld ==
  ASSUME NEW s, NEW id, Holds(s, id)
  PROVE  IndexOf(s, id) \in DOMAIN s /\ s[IndexOf(s, id)].id = id
BY DEF Holds, IndexOf

LEMMA NoteStep ==
  ASSUME NEW n \in Note, NEW event
  PROVE  [n EXCEPT !.status = After(elements["review"], @, event)] \in Note
<1>1. After(elements["review"], n.status, event) \in {"open", "resolved"}
  BY DEF After, Can, Edge, elements, Note
<1> QED BY <1>1 DEF Note

LEMMA ApplyKeeps ==
  ASSUME NEW A, NEW X, NEW q \in PageOf(A, X), NEW op, NEW status,
         Allowed(status, q, op), Harmless(op, A, X)
  PROVE  Apply(q, op) \in PageOf(A, X)
<1> DEFINE list == q[op.list]
           i == IndexOf(list, op.id)
<1>1. q.sections \in Seq(X) /\ q.review \in Seq(Note) /\ q.status \in A
  BY DEF PageOf
<1>2. CASE op.op = "transition" /\ \A st \in A : After(statusTransitions, st, op.event) \in A
  <2>1. Apply(q, op) = [q EXCEPT !.status = After(statusTransitions, @, op.event)]
    BY <1>2 DEF Apply, PageType
  <2> QED BY <1>1, <1>2, <2>1 DEF PageOf
<1>3. CASE op.op = "setField" /\ op.value \in BOOLEAN
  <2>1. Apply(q, op) = [q EXCEPT !.summary = op.value]
    BY <1>3 DEF Apply
  <2> QED BY <1>3, <2>1 DEF PageOf
<1>4. CASE op.op = "addElement"
  <2>1. Apply(q, op) = Put(q, op.list, Inserted(list, op.element, op.at))
    BY <1>4 DEF Apply, Put
  <2>2. CASE op.list = "sections" /\ op.element \in X
    <3>1. Inserted(list, op.element, op.at) \in Seq(X)
      BY <1>1, <2>2, InsertedKeeps
    <3> QED BY <2>1, <2>2, <3>1, With
  <2>3. CASE op.list = "review" /\ op.element \in Note
    <3>1. Inserted(list, op.element, op.at) \in Seq(Note)
      BY <1>1, <2>3, InsertedKeeps
    <3> QED BY <2>1, <2>3, <3>1, With
  <2> QED BY <1>4, <2>2, <2>3 DEF Harmless
<1>5. CASE op.op = "removeElement" /\ Holds(list, op.id)
  <2>1. Holds(list, op.id) /\ i \in DOMAIN list
    BY <1>5, IndexOfHeld
  <2>2. Apply(q, op) = Put(q, op.list, RemoveAt(list, i))
    BY <1>5, <2>1 DEF Apply, Put
  <2>3. CASE op.list = "sections"
    BY <1>1, <2>1, <2>2, <2>3, RemoveAtKeeps, With
  <2>4. CASE op.list = "review"
    BY <1>1, <2>1, <2>2, <2>4, RemoveAtKeeps, With
  <2> QED BY <1>5, <2>3, <2>4 DEF Harmless, Lists
<1>6. CASE op.op = "moveElement" /\ Holds(list, op.id)
  <2>1. Holds(list, op.id) /\ i \in DOMAIN list
    BY <1>6, IndexOfHeld
  <2>2. Apply(q, op) = Put(q, op.list, Inserted(RemoveAt(list, i), list[i], op.at))
    BY <1>6, <2>1 DEF Apply, Put
  <2>5. ASSUME NEW Y, list \in Seq(Y) PROVE Inserted(RemoveAt(list, i), list[i], op.at) \in Seq(Y)
    <3>1. RemoveAt(list, i) \in Seq(Y)
      BY <2>1, <2>5, RemoveAtKeeps
    <3>2. list[i] \in Y
      BY <2>1, <2>5, ElementOfSeq, LenProperties
    <3> QED BY <3>1, <3>2, InsertedKeeps
  <2>3. CASE op.list = "sections"
    BY <1>1, <2>2, <2>3, <2>5, With
  <2>4. CASE op.list = "review"
    BY <1>1, <2>2, <2>4, <2>5, With
  <2> QED BY <1>6, <2>3, <2>4 DEF Harmless, Lists
<1>7. CASE op.op = "step" /\ Holds(list, op.id)
  <2>1. i \in DOMAIN list /\ list[i].id = op.id
    BY <1>7, IndexOfHeld
  <2>2. Apply(q, op) = Put(q, op.list,
                           [list EXCEPT ![i].status = After(elements[op.list], @, op.event)])
    BY <1>7 DEF Apply, Put, PageType
  <2> DEFINE e == [list[i] EXCEPT !.status = After(elements[op.list], @, op.event)]
  <2>3. [list EXCEPT ![i].status = After(elements[op.list], @, op.event)] = [list EXCEPT ![i] = e]
    OBVIOUS
  <2>4. CASE op.list = "sections"
    <3>1. list[i] \in X /\ list \in Seq(X)
      BY <1>1, <2>1, <2>4, ElementOfSeq, LenProperties
    <3>2. e \in X
      BY <1>7, <2>1, <2>4, <3>1 DEF Harmless
    <3> HIDE DEF e
    <3>3. [list EXCEPT ![i] = e] \in Seq(X)
      BY <2>1, <3>1, <3>2, ExceptSeq, LenProperties
    <3> QED BY <2>2, <2>3, <2>4, <3>3, With
  <2>5. CASE op.list = "review"
    <3>1. list[i] \in Note /\ list \in Seq(Note)
      BY <1>1, <2>1, <2>5, ElementOfSeq, LenProperties
    <3>2. e \in Note
      BY <2>5, <3>1, NoteStep
    <3> HIDE DEF e
    <3>3. [list EXCEPT ![i] = e] \in Seq(Note)
      BY <2>1, <3>1, <3>2, ExceptSeq, LenProperties
    <3> QED BY <2>2, <2>3, <2>5, <3>3, With
  <2> QED BY <1>7, <2>4, <2>5 DEF Harmless
<1>8. CASE op.op = "setElementField" /\ Holds(list, op.id)
  <2>1. Holds(list, op.id) /\ i \in DOMAIN list /\ op.list = "sections"
    BY <1>8, IndexOfHeld DEF Harmless
  <2>2. Apply(q, op) = Put(q, op.list, [list EXCEPT ![i][op.field] = op.value])
    BY <1>8, <2>1 DEF Apply, Put
  <2> DEFINE e == [list[i] EXCEPT ![op.field] = op.value]
  <2>3. [list EXCEPT ![i][op.field] = op.value] = [list EXCEPT ![i] = e]
    OBVIOUS
  <2>4. list[i] \in X /\ list \in Seq(X)
    BY <1>1, <2>1, ElementOfSeq, LenProperties
  <2>5. list[i].status = "ai-draft" \/ op.field = "depth"
    BY <1>8, <2>1 DEF Allowed, PageType, elementMutableIn
  <2>6. e \in X
    BY <1>8, <2>4, <2>5 DEF Harmless
  <2> HIDE DEF e
  <2>7. [list EXCEPT ![i] = e] \in Seq(X)
    BY <2>1, <2>4, <2>6, ExceptSeq, LenProperties
  <2> QED BY <2>1, <2>2, <2>3, <2>7, With
<1>9. CASE op.op \in {"removeElement", "moveElement", "setElementField", "step"} /\ ~ Holds(list, op.id)
  <2>1. Apply(q, op) = q
    BY <1>9 DEF Apply
  <2> QED BY <2>1
<1> QED BY <1>2, <1>3, <1>4, <1>5, <1>6, <1>7, <1>8, <1>9 DEF Harmless

-----------------------------------------------------------------------------
(* The pages an operation after the other leaves.                           *)

\* A set of numbers has a least one.
LEMMA Least == ASSUME NEW T \in SUBSET Nat, T # {} PROVE \E m \in T : \A n \in T : m <= n
<1> DEFINE Less == {x \in Nat \X Nat : x[1] < x[2]}
<1>1. IsWellFoundedOn(Less, Nat)
  BY NatLessThanWellFounded DEF OpToRel
<1>2. PICK m \in T : \A y \in T : <<y, m>> \notin Less
  <2> HIDE DEF Less
  <2> QED BY <1>1, WFMin
<1>3. ASSUME NEW n \in T PROVE m <= n
  <2>1. m \in Nat /\ n \in Nat /\ ~(n < m)
    BY <1>2
  <2> QED BY <2>1
<1> QED BY <1>3

Unfolds(after, p, ops, n) ==
  after = [k \in 0..n |-> IF k = 0 THEN p ELSE Apply(after[k - 1], ops[k])]

LEMMA UnfoldsExists ==
  ASSUME NEW p, NEW ops, NEW n \in Nat
  PROVE  \E after : Unfolds(after, p, ops, n)
<1> SUFFICES ASSUME ~ \E after : Unfolds(after, p, ops, n) PROVE FALSE
  OBVIOUS
<1> DEFINE T == {k \in Nat : ~ \E after : Unfolds(after, p, ops, k)}
<1>1. PICK m \in T : \A k \in T : m <= k
  <2>1. T \in SUBSET Nat /\ T # {}
    OBVIOUS
  <2> HIDE DEF T
  <2> QED BY <2>1, Least
<1>2. m # 0
  <2>1. Unfolds([k \in {0} |-> p], p, ops, 0)
    <3>1. 0..0 = {0}
      OBVIOUS
    <3> QED BY <3>1 DEF Unfolds
  <2> QED BY <2>1
<1>3. m - 1 \in Nat /\ m - 1 \notin T
  BY <1>1, <1>2
<1>4. PICK g : Unfolds(g, p, ops, m - 1)
  BY <1>3
<1> DEFINE h == [k \in 0..m |-> IF k = m THEN Apply(g[m - 1], ops[m]) ELSE g[k]]
<1>5. Unfolds(h, p, ops, m)
  <2>1. ASSUME NEW k \in 0..m PROVE h[k] = IF k = 0 THEN p ELSE Apply(h[k - 1], ops[k])
    <3>1. CASE k = m
      <4>1. m - 1 \in 0..m /\ m - 1 # m
        BY <1>2
      <4> QED BY <3>1, <4>1, <1>2
    <3>2. CASE k # m
      <4>1. k \in 0..(m - 1)
        BY <3>2
      <4>2. g[k] = IF k = 0 THEN p ELSE Apply(g[k - 1], ops[k])
        BY <1>4, <4>1 DEF Unfolds
      <4>3. k # 0 => k - 1 \in 0..m /\ k - 1 # m
        BY <4>1
      <4> QED BY <3>2, <4>2, <4>3
    <3> QED BY <3>1, <3>2
  <2>2. h = [k \in 0..m |-> h[k]]
    OBVIOUS
  <2> HIDE DEF h
  <2>3. [k \in 0..m |-> h[k]] = [k \in 0..m |-> IF k = 0 THEN p ELSE Apply(h[k - 1], ops[k])]
    BY <2>1
  <2> QED BY <2>2, <2>3 DEF Unfolds
<1> QED BY <1>5, <1>1

LEMMA AppliedUnfolds ==
  ASSUME NEW p, NEW ops, Len(ops) \in Nat
  PROVE  /\ Applied(p, ops)[0] = p
         /\ \A k \in 1..Len(ops) : Applied(p, ops)[k] = Apply(Applied(p, ops)[k - 1], ops[k])
<1>1. Applied(p, ops) = CHOOSE after : Unfolds(after, p, ops, Len(ops))
  BY DEF Applied, Unfolds
<1>2. Unfolds(Applied(p, ops), p, ops, Len(ops))
  BY <1>1, UnfoldsExists
<1> DEFINE a == Applied(p, ops)
<1>3. a = [k \in 0..Len(ops) |-> IF k = 0 THEN p ELSE Apply(a[k - 1], ops[k])]
  BY <1>2 DEF Unfolds
<1> HIDE DEF a
<1>4. a[0] = p
  BY <1>3
<1>5. ASSUME NEW k \in 1..Len(ops) PROVE a[k] = Apply(a[k - 1], ops[k])
  <2>1. k \in 0..Len(ops) /\ k # 0
    OBVIOUS
  <2> QED BY <1>3, <2>1
<1> QED BY <1>4, <1>5 DEF a

\* The pages of a chain: S[k] has those that the k-th operation may leave.
LEMMA ChainLeads ==
  ASSUME NEW S, NEW p \in S[0], NEW ops, NEW status, Len(ops) \in Nat, DOMAIN ops = 1..Len(ops),
         \A k \in DOMAIN ops : Allowed(status, Applied(p, ops)[k - 1], ops[k]),
         \A k \in DOMAIN ops : \A q \in S[k - 1] :
           Allowed(status, q, ops[k]) => Apply(q, ops[k]) \in S[k]
  PROVE  Applied(p, ops)[Len(ops)] \in S[Len(ops)]
<1> SUFFICES ASSUME Applied(p, ops)[Len(ops)] \notin S[Len(ops)] PROVE FALSE
  OBVIOUS
<1> DEFINE T == {k \in 0..Len(ops) : Applied(p, ops)[k] \notin S[k]}
<1>1. PICK m \in T : \A k \in T : m <= k
  <2>1. T \in SUBSET Nat /\ T # {}
    OBVIOUS
  <2> HIDE DEF T
  <2> QED BY <2>1, Least
<1>2. m # 0
  BY AppliedUnfolds
<1>3. m \in 1..Len(ops) /\ m - 1 \in 0..Len(ops) /\ m - 1 \notin T
  BY <1>1, <1>2
<1>4. Applied(p, ops)[m - 1] \in S[m - 1]
  BY <1>3
<1>5. Applied(p, ops)[m] = Apply(Applied(p, ops)[m - 1], ops[m])
  BY <1>3, AppliedUnfolds
<1> QED BY <1>3, <1>4, <1>5

LEMMA ChainKeeps ==
  ASSUME NEW S, NEW p \in S, NEW ops, NEW status, Len(ops) \in Nat, DOMAIN ops = 1..Len(ops),
         \A k \in DOMAIN ops : Allowed(status, Applied(p, ops)[k - 1], ops[k]),
         \A k \in DOMAIN ops : \A q \in S :
           Allowed(status, q, ops[k]) => Apply(q, ops[k]) \in S
  PROVE  Applied(p, ops)[Len(ops)] \in S
<1> DEFINE R == [k \in 0..Len(ops) |-> S]
<1>1. \A k \in DOMAIN ops : R[k] = S /\ R[k - 1] = S
  OBVIOUS
<1>2. R[0] = S /\ R[Len(ops)] = S
  OBVIOUS
<1> HIDE DEF R
<1> QED BY <1>1, <1>2, ChainLeads

-----------------------------------------------------------------------------
(* What the engine does with them.                                          *)

LEMMA AutoEvents ==
  /\ PageType.auto[1] = "completeRestatement" /\ PageType.auto[2] = "reopenRestatement"
  /\ DOMAIN PageType.auto = {1, 2} /\ PageType.edges = statusTransitions
<1>1. PageType.auto = <<"completeRestatement", "reopenRestatement">>
  BY DEF PageType
<1>2. PageType.edges = statusTransitions
  BY DEF PageType
<1>3. DOMAIN <<"completeRestatement", "reopenRestatement">> = 1..2
  OBVIOUS
<1> QED BY <1>1, <1>2, <1>3

LEMMA AfterEdge ==
  ASSUME NEW e \in statusTransitions
  PROVE  /\ Can(statusTransitions, e[1], e[2])
         /\ After(statusTransitions, e[1], e[2]) = e[3]
<1>1. Can(statusTransitions, e[1], e[2])
  BY DEF Can, Edge
<1>2. ASSUME NEW f \in statusTransitions, Edge(f, e[1], e[2]) PROVE f[3] = e[3]
  BY <1>2 DEF Edge, statusTransitions
<1>3. After(statusTransitions, e[1], e[2])
        = (CHOOSE f \in statusTransitions : Edge(f, e[1], e[2]))[3]
  BY <1>1 DEF After
<1>4. \E f \in statusTransitions : Edge(f, e[1], e[2])
  BY DEF Edge
<1> QED BY <1>1, <1>2, <1>3, <1>4

\* The transitions the engine fires by itself.
LEMMA AutoEdges ==
  /\ \A st : /\ Can(statusTransitions, st, "completeRestatement") <=> st = "restating"
             /\ Can(statusTransitions, st, "reopenRestatement") <=> st = "restated"
  /\ After(statusTransitions, "restating", "completeRestatement") = "restated"
  /\ After(statusTransitions, "restated", "reopenRestatement") = "restating"
<1>1. \A st : /\ Can(statusTransitions, st, "completeRestatement") <=> st = "restating"
              /\ Can(statusTransitions, st, "reopenRestatement") <=> st = "restated"
  BY DEF Can, Edge, statusTransitions
<1> DEFINE e == <<"restating", "completeRestatement", "restated">>
           f == <<"restated", "reopenRestatement", "restating">>
<1>2. e \in statusTransitions /\ f \in statusTransitions
  BY DEF statusTransitions
<1>3. e[1] = "restating" /\ e[2] = "completeRestatement" /\ e[3] = "restated"
  OBVIOUS
<1>4. f[1] = "restated" /\ f[2] = "reopenRestatement" /\ f[3] = "restating"
  OBVIOUS
<1> HIDE DEF e, f
<1> QED BY <1>1, <1>2, <1>3, <1>4, AfterEdge

LEMMA SettledFacts ==
  ASSUME NEW A \in SUBSET Statuses, {"restating", "restated"} \subseteq A, NEW X,
         NEW q \in PageOf(A, X)
  PROVE  /\ Settled(q) \in PageOf(A, X)
         /\ Settled(q) = [q EXCEPT !.status = Settled(q).status]
         /\ Derived(Settled(q))
         /\ q.status = "approved" <=> Settled(q).status = "approved"
<1> DEFINE due == DueNow(q)
           first == CHOOSE k \in due : \A l \in due : k <= l
           new == After(statusTransitions, q.status, PageType.auto[first])
<1>1. /\ due \subseteq {1, 2}
      /\ 1 \in due <=> q.status = "restating" /\ everySectionVerified(q)
      /\ 2 \in due <=> q.status = "restated" /\ ~ everySectionVerified(q)
  <2>1. due = {k \in {1, 2} : /\ Can(statusTransitions, q.status, PageType.auto[k])
                              /\ autoTransitions(q, PageType.auto[k])}
    BY AutoEvents DEF DueNow
  <2>2. /\ autoTransitions(q, "completeRestatement") <=> everySectionVerified(q)
        /\ autoTransitions(q, "reopenRestatement") <=> ~ everySectionVerified(q)
    BY DEF autoTransitions, everySectionVerified
  <2> HIDE DEF due
  <2> QED BY <2>1, <2>2, AutoEvents, AutoEdges
<1>2. CASE due = {}
  <2>1. Settled(q) = q
    BY <1>2 DEF Settled
  <2> QED BY <1>1, <1>2, <2>1 DEF Derived, PageOf
<1>3. CASE due # {}
  <2>1. first \in due
    <3>1. due \in SUBSET Nat
      BY <1>1
    <3>2. \E k \in due : \A l \in due : k <= l
      BY <1>3, <3>1, Least
    <3> HIDE DEF due
    <3> QED BY <3>2
  <2>2. Settled(q) = [q EXCEPT !.status = new]
    BY <1>3 DEF Settled, PageType
  <2>3. \/ q.status = "restating" /\ everySectionVerified(q) /\ new = "restated"
        \/ q.status = "restated" /\ ~ everySectionVerified(q) /\ new = "restating"
    <3> HIDE DEF due, first
    <3>1. CASE first = 1
      BY <1>1, <2>1, <3>1, AutoEvents, AutoEdges
    <3>2. CASE first = 2
      BY <1>1, <2>1, <3>2, AutoEvents, AutoEdges
    <3> QED BY <1>1, <2>1, <3>1, <3>2
  <2> HIDE DEF due, first, new
  <2>4. /\ Settled(q) \in PageOf(A, X) /\ Settled(q).status = new
        /\ Settled(q).sections = q.sections
    BY <2>2, <2>3 DEF PageOf
  <2>5. everySectionVerified(Settled(q)) = everySectionVerified(q)
    BY <2>4 DEF everySectionVerified
  <2> QED BY <2>2, <2>3, <2>4, <2>5 DEF Derived
<1> QED BY <1>2, <1>3

\* What the elements of X are under another id.
Renamed(X, Y) == \A e \in X, i \in Nat : [e EXCEPT !.id = i] \in Y

LEMMA NumberedList ==
  ASSUME NEW X, NEW Y, NEW s \in Seq(X), Renamed(X, Y)
  PROVE  Numbered(s) \in Seq(Y) /\ DOMAIN Numbered(s) = DOMAIN s
<1>1. Len(s) \in Nat /\ DOMAIN s = 1..Len(s) /\ \A i \in 1..Len(s) : s[i] \in X
  BY LenProperties
<1>2. \A i \in 1..Len(s) : [s[i] EXCEPT !.id = i] \in Y
  BY <1>1 DEF Renamed
<1>3. [i \in 1..Len(s) |-> [s[i] EXCEPT !.id = i]] \in [1..Len(s) -> Y]
  BY <1>2
<1>4. Numbered(s) = [i \in 1..Len(s) |-> [s[i] EXCEPT !.id = i]]
  BY <1>1 DEF Numbered
<1> QED BY <1>1, <1>3, <1>4, SeqDef

LEMMA RenumberedFacts ==
  ASSUME NEW A, NEW X, NEW q \in PageOf(A, X), NEW Y, X \subseteq Section,
         Renamed(X, Y)
  PROVE  /\ Renumbered(q) \in PageOf(A, Y)
         /\ Renumbered(q).sections = Numbered(q.sections)
         /\ Renumbered(q).review = Numbered(q.review)
         /\ Renumbered(q).status = q.status /\ Renumbered(q).summary = q.summary
<1>1. DOMAIN q = {"status", "sections", "review", "summary"}
  BY DEF PageOf
<1>2. DOMAIN PageType.elements = {"sections", "review"}
  BY DEF PageType, elements
<1> DEFINE r == Renumbered(q)
<1>3. r = [field \in DOMAIN q |->
             IF field \in {"sections", "review"}
             THEN Numbered(q[field]) ELSE q[field]]
  BY <1>2 DEF Renumbered
<1> HIDE DEF r
<1>4. /\ r.sections = Numbered(q.sections)
      /\ r.review = Numbered(q.review)
      /\ r.status = q.status /\ r.summary = q.summary
  BY <1>1, <1>3
<1>5. r.sections \in Seq(Y)
  <2>1. q.sections \in Seq(X)
    BY DEF PageOf
  <2> QED BY <1>4, <2>1, NumberedList
<1>6. r.review \in Seq(Note)
  <2>1. q.review \in Seq(Note)
    BY DEF PageOf
  <2>2. Renamed(Note, Note)
    BY DEF Renamed, Note
  <2> QED BY <1>4, <2>1, <2>2, NumberedList
<1>7. r = [status |-> r.status, sections |-> r.sections, review |-> r.review, summary |-> r.summary]
  <2>1. DOMAIN r = {"status", "sections", "review", "summary"}
    BY <1>1, <1>3
  <2>2. r = [f \in DOMAIN r |-> r[f]]
    BY <1>3
  <2> QED BY <2>1, <2>2
<1>8. r \in PageOf(A, Y)
  <2>1. q.status \in A /\ q.summary \in BOOLEAN
    BY DEF PageOf
  <2>2. [status |-> r.status, sections |-> r.sections, review |-> r.review, summary |-> r.summary]
          \in PageOf(A, Y)
    BY <1>4, <1>5, <1>6, <2>1 DEF PageOf
  <2> QED BY <1>7, <2>2
<1> QED BY <1>4, <1>8 DEF r

-----------------------------------------------------------------------------
(* A command.                                                               *)

Operations(ops) == Len(ops) \in Nat /\ ops = [k \in 1..Len(ops) |-> ops[k]]
AllHarmless(ops, A, X) == Operations(ops) /\ \A k \in DOMAIN ops : Harmless(ops[k], A, X)

IdsArePositions(p) ==
  /\ \A i \in DOMAIN p.sections : p.sections[i].id = i
  /\ \A i \in DOMAIN p.review : p.review[i].id = i

LEMMA NumberedIds ==
  ASSUME NEW X, NEW s \in Seq(X), \A e \in X : "id" \in DOMAIN e
  PROVE  \A i \in DOMAIN s : Numbered(s)[i].id = i
<1> SUFFICES ASSUME NEW i \in DOMAIN s PROVE Numbered(s)[i].id = i
  OBVIOUS
<1>1. s[i] \in X
  BY LenProperties, ElementOfSeq
<1>2. Numbered(s)[i] = [s[i] EXCEPT !.id = i]
  BY DEF Numbered
<1> QED BY <1>1, <1>2

LEMMA NumberedVerified ==
  ASSUME NEW s \in Seq(Section)
  PROVE  \A i \in DOMAIN s : Numbered(s)[i].status = s[i].status
<1> SUFFICES ASSUME NEW i \in DOMAIN s PROVE Numbered(s)[i].status = s[i].status
  OBVIOUS
<1>1. s[i] \in Section
  BY LenProperties, ElementOfSeq
<1>2. Numbered(s)[i] = [s[i] EXCEPT !.id = i]
  BY DEF Numbered
<1> QED BY <1>1, <1>2 DEF Section

\* Ids are positions again in a page that is numbered again.
LEMMA RenumberedIds ==
  ASSUME NEW A, NEW X \in SUBSET Section, NEW q \in PageOf(A, X), NEW Y, Renamed(X, Y)
  PROVE  IdsArePositions(Renumbered(q))
<1> DEFINE t == Renumbered(q)
<1>1. t.sections = Numbered(q.sections) /\ t.review = Numbered(q.review)
  BY RenumberedFacts
<1>2. q.sections \in Seq(Section) /\ q.review \in Seq(Note)
  <2>1. q.sections \in Seq(X) /\ q.review \in Seq(Note)
    BY DEF PageOf
  <2> QED BY <2>1, SeqMonotonic
<1>3. \A e \in Section \cup Note : "id" \in DOMAIN e
  BY DEF Section, Note
<1>4. \A i \in DOMAIN q.sections : Numbered(q.sections)[i].id = i
  BY <1>2, <1>3, NumberedIds
<1>5. \A i \in DOMAIN q.review : Numbered(q.review)[i].id = i
  BY <1>2, <1>3, NumberedIds
<1>6. DOMAIN t.sections = DOMAIN q.sections /\ DOMAIN t.review = DOMAIN q.review
  BY <1>1 DEF Numbered
<1> QED BY <1>1, <1>4, <1>5, <1>6 DEF IdsArePositions

LEMMA DecisionFacts ==
  ASSUME NEW A \in SUBSET Statuses, {"restating", "restated"} \subseteq A,
         NEW X \in SUBSET Section, NEW Y \in SUBSET Section,
         Renamed(X, Y),
         NEW p \in PageOf(A, X), NEW ops, AllHarmless(ops, A, X), Decide(p, ops).legal
  PROVE  /\ Decide(p, ops).page \in PageOf(A, Y)
         /\ Derived(Decide(p, ops).page)
         /\ IdsArePositions(Decide(p, ops).page)
         /\ requiredIn(Decide(p, ops).page)
<1> DEFINE q == Applied(p, ops)[Len(ops)]
           r == Settled(q)
           t == Renumbered(r)
<1>1. /\ Decide(p, ops).page = t /\ requiredIn(t)
      /\ \A k \in DOMAIN ops : Allowed(p.status, Applied(p, ops)[k - 1], ops[k])
  BY DEF Decide
<1>2. q \in PageOf(A, X)
  <2>1. \A k \in DOMAIN ops : \A v \in PageOf(A, X) :
          Allowed(p.status, v, ops[k]) => Apply(v, ops[k]) \in PageOf(A, X)
    BY ApplyKeeps DEF AllHarmless
  <2> QED BY <1>1, <2>1, ChainKeeps DEF AllHarmless, Operations
<1> HIDE DEF q
<1>3. r \in PageOf(A, X) /\ Derived(r)
  BY <1>2, SettledFacts
<1> HIDE DEF r
<1>4. /\ t \in PageOf(A, Y)
      /\ t.sections = Numbered(r.sections) /\ t.review = Numbered(r.review)
      /\ t.status = r.status
  BY <1>3, RenumberedFacts
<1>5. r.sections \in Seq(Section)
  <2>1. r.sections \in Seq(X)
    BY <1>3 DEF PageOf
  <2> QED BY <2>1, SeqMonotonic
<1>6. DOMAIN t.sections = DOMAIN r.sections
  BY <1>4 DEF Numbered
<1>7. IdsArePositions(t)
  BY <1>3, RenumberedIds
<1>8. everySectionVerified(t) <=> everySectionVerified(r)
  <2>1. \A i \in DOMAIN r.sections : t.sections[i].status = r.sections[i].status
    BY <1>4, <1>5, NumberedVerified
  <2>2. t.sections = <<>> <=> r.sections = <<>>
    <3>1. t.sections \in Seq(Y) /\ r.sections \in Seq(Section)
      BY <1>4, <1>5 DEF PageOf
    <3> QED BY <1>6, <3>1, EmptySeq, LenProperties
  <2> QED BY <1>6, <2>1, <2>2 DEF everySectionVerified, Verified
<1>9. Derived(t)
  BY <1>3, <1>4, <1>8 DEF Derived
<1> HIDE DEF t
<1> QED BY <1>1, <1>4, <1>7, <1>9

-----------------------------------------------------------------------------
(* Subtrees.                                                                *)

\* Where the subtree of the i-th section of a list ends.
EndOf(list, i, e) ==
  /\ e \in i..Len(list)
  /\ \A j \in (i + 1)..e : list[j].depth > list[i].depth
  /\ e < Len(list) => list[e + 1].depth <= list[i].depth

LEMMA EndExists ==
  ASSUME NEW list \in Seq(Section), NEW i \in DOMAIN list
  PROVE  \E e \in i..Len(list) : EndOf(list, i, e)
<1>1. Len(list) \in Nat /\ DOMAIN list = 1..Len(list)
  BY LenProperties
<1>2. \A j \in 1..Len(list) : list[j].depth \in Nat
  <2>1. \A j \in 1..Len(list) : list[j] \in Section
    BY LenProperties, ElementOfSeq
  <2> QED BY <2>1 DEF Section
<1> DEFINE T == {e \in i..Len(list) : e < Len(list) => list[e + 1].depth <= list[i].depth}
<1>3. PICK m \in T : \A e \in T : m <= e
  <2>1. T \in SUBSET Nat /\ Len(list) \in T
    BY <1>1
  <2> HIDE DEF T
  <2> QED BY <2>1, Least
<1>4. ASSUME NEW j \in (i + 1)..m PROVE list[j].depth > list[i].depth
  <2>1. j - 1 \in i..Len(list) /\ j - 1 < Len(list) /\ ~(m <= j - 1)
    BY <1>1, <1>3
  <2>2. j - 1 \notin T
    BY <1>3, <2>1
  <2>3. ~ (list[(j - 1) + 1].depth <= list[i].depth)
    BY <2>1, <2>2
  <2>4. (j - 1) + 1 = j /\ j \in 1..Len(list)
    BY <1>1, <1>3
  <2> QED BY <1>1, <1>2, <2>3, <2>4
<1> QED BY <1>3, <1>4 DEF EndOf

LEMMA EndUnique ==
  ASSUME NEW list \in Seq(Section), NEW i \in DOMAIN list, NEW e, NEW f,
         EndOf(list, i, e), EndOf(list, i, f)
  PROVE  e = f
<1>1. Len(list) \in Nat /\ DOMAIN list = 1..Len(list)
  BY LenProperties
<1>2. \A j \in 1..Len(list) : list[j].depth \in Nat
  <2>1. \A j \in 1..Len(list) : list[j] \in Section
    BY LenProperties, ElementOfSeq
  <2> QED BY <2>1 DEF Section
<1>3. e \in Nat /\ f \in Nat /\ i \in Nat
  BY <1>1 DEF EndOf
<1>4. ASSUME NEW a, NEW b, EndOf(list, i, a), EndOf(list, i, b), a < b PROVE FALSE
  <2>1. a \in i..Len(list) /\ b \in i..Len(list) /\ a < Len(list) /\ a + 1 \in (i + 1)..b
    BY <1>1, <1>4 DEF EndOf
  <2>2. list[a + 1].depth > list[i].depth /\ list[a + 1].depth <= list[i].depth
    BY <1>4, <2>1 DEF EndOf
  <2>3. a + 1 \in 1..Len(list)
    BY <1>1, <2>1
  <2> QED BY <1>1, <1>2, <2>2, <2>3
<1>5. ~ (e < f) /\ ~ (f < e)
  BY <1>4
<1> QED BY <1>3, <1>5

LEMMA SubtreeEnds ==
  ASSUME page.sections \in Seq(Section), NEW i \in Ids
  PROVE  EndOf(sections, i, subtreeEnd(i))
<1>1. \E e \in i..Len(sections) : EndOf(sections, i, e)
  BY EndExists DEF sections, Ids
<1>2. subtreeEnd(i) = CHOOSE e \in i..Len(sections) :
        /\ \A j \in (i + 1)..e : sections[j].depth > sections[i].depth
        /\ e < Len(sections) => sections[e + 1].depth <= sections[i].depth
  BY DEF subtreeEnd
<1> QED BY <1>1, <1>2 DEF EndOf

-----------------------------------------------------------------------------
(* The gates read the titles, words, slots and depths of the sections.       *)

Alike(s, t) ==
  /\ DOMAIN s = DOMAIN t
  /\ \A i \in DOMAIN s : /\ s[i].title = t[i].title /\ s[i].words = t[i].words
                         /\ s[i].slot = t[i].slot /\ s[i].depth = t[i].depth

LEMMA EndAlike ==
  ASSUME NEW s \in Seq(Section), NEW t \in Seq(Section), Alike(s, t), NEW i \in DOMAIN s, NEW e,
         EndOf(s, i, e)
  PROVE  EndOf(t, i, e)
<1>1. Len(s) \in Nat /\ DOMAIN s = 1..Len(s) /\ DOMAIN t = 1..Len(t) /\ Len(t) \in Nat
  BY LenProperties
<1>2. Len(s) = Len(t)
  BY LenProperties DEF Alike
<1>3. \A j \in 1..Len(s) : s[j].depth = t[j].depth
  BY <1>1 DEF Alike
<1>4. e \in i..Len(s) /\ i \in 1..Len(s)
  BY <1>1 DEF EndOf
<1>5. (e < Len(s) => e + 1 \in 1..Len(s)) /\ \A j \in (i + 1)..e : j \in 1..Len(s)
  BY <1>1, <1>4
<1> QED BY <1>2, <1>3, <1>4, <1>5 DEF EndOf

\* The gates, of any list of sections.
EndIn(list, i) ==
  CHOOSE e \in i..Len(list) :
    /\ \A j \in (i + 1)..e : list[j].depth > list[i].depth
    /\ e < Len(list) => list[e + 1].depth <= list[i].depth
FillingIn(list, slot) == {i \in DOMAIN list : list[i].slot = slot}
Lowest(set) == CHOOSE i \in set : \A j \in set : i <= j
SlotSubtreeIn(list, slot) ==
  IF FillingIn(list, slot) = {} THEN {}
  ELSE Lowest(FillingIn(list, slot))..EndIn(list, Lowest(FillingIn(list, slot)))
SlotWordsIn(list, slot) == UNION {list[i].words : i \in SlotSubtreeIn(list, slot)}
GatesIn(list) ==
  /\ \A s \in SlotSet : SlotWordsIn(list, s) # {}
  /\ \A s \in SlotSet : SlotSubtreeIn(list, s) # {} => SlotWordsIn(list, s) \cap Suits[s] # {}
  /\ \A i \in DOMAIN list : \A t \in list[i].words :
       Cites[t] \subseteq {list[j].title : j \in DOMAIN list}

LEMMA GatesAre == GatesIn(page.sections) <=> slotsCovered /\ slotShape /\ citationsResolve
<1>1. \A i : subtreeEnd(i) = EndIn(page.sections, i)
  BY DEF subtreeEnd, EndIn, sections
<1>2. \A s : Filling(s) = FillingIn(page.sections, s)
  BY DEF Filling, FillingIn, Ids, sections
<1>3. ASSUME NEW s PROVE slotSubtree(s) = SlotSubtreeIn(page.sections, s)
  <2>1. slotSubtree(s) = IF Filling(s) = {} THEN {} ELSE subtree(Lowest(Filling(s)))
    BY DEF slotSubtree, Lowest
  <2> QED BY <1>1, <1>2, <2>1 DEF SlotSubtreeIn, subtree
<1>4. \A s : SlotWords(s) = SlotWordsIn(page.sections, s)
  BY <1>3 DEF SlotWords, SlotWordsIn, sections
<1> QED BY <1>3, <1>4 DEF GatesIn, slotsCovered, slotShape, citationsResolve, Ids, sections

LEMMA EndInIs ==
  ASSUME NEW list \in Seq(Section), NEW i \in DOMAIN list
  PROVE  EndOf(list, i, EndIn(list, i))
BY EndExists DEF EndIn, EndOf

LEMMA SlotSubtreeInside ==
  ASSUME NEW s \in Seq(Section), NEW slot, FillingIn(s, slot) # {}
  PROVE  Lowest(FillingIn(s, slot)) \in DOMAIN s
<1> DEFINE F == FillingIn(s, slot)
<1>1. F \in SUBSET Nat /\ F \subseteq DOMAIN s
  BY LenProperties DEF FillingIn
<1>2. F # {}
  OBVIOUS
<1> HIDE DEF F
<1>3. \E i \in F : \A j \in F : i <= j
  BY <1>1, <1>2, Least
<1>4. Lowest(F) \in F
  BY <1>3 DEF Lowest
<1> QED BY <1>1, <1>4 DEF F

LEMMA GatesAlike ==
  ASSUME NEW s \in Seq(Section), NEW t \in Seq(Section), Alike(s, t), GatesIn(s)
  PROVE  GatesIn(t)
<1>1. /\ Len(s) \in Nat /\ DOMAIN s = 1..Len(s)
      /\ DOMAIN t = DOMAIN s /\ Len(t) = Len(s)
  BY LenProperties DEF Alike
<1>2. ASSUME NEW i \in DOMAIN s PROVE EndIn(t, i) = EndIn(s, i)
  BY <1>1, EndInIs, EndAlike, EndUnique
<1>3. ASSUME NEW slot PROVE FillingIn(t, slot) = FillingIn(s, slot)
  BY <1>1 DEF FillingIn, Alike
<1>4. ASSUME NEW slot
      PROVE  SlotSubtreeIn(t, slot) = SlotSubtreeIn(s, slot) /\ SlotSubtreeIn(s, slot) \subseteq DOMAIN s
  <2>1. CASE FillingIn(s, slot) = {}
    BY <1>3, <2>1 DEF SlotSubtreeIn
  <2>2. CASE FillingIn(s, slot) # {}
    <3> DEFINE i == Lowest(FillingIn(s, slot))
    <3>1. i \in DOMAIN s
      BY <2>2, SlotSubtreeInside
    <3>2. SlotSubtreeIn(s, slot) = i..EndIn(s, i) /\ SlotSubtreeIn(t, slot) = i..EndIn(t, i)
      BY <1>3, <2>2 DEF SlotSubtreeIn
    <3> HIDE DEF i
    <3>3. EndIn(s, i) \in i..Len(s)
      BY <3>1, EndInIs DEF EndOf
    <3>4. i..EndIn(s, i) \subseteq DOMAIN s
      BY <1>1, <3>1, <3>3
    <3> QED BY <1>2, <3>1, <3>2, <3>4
  <2> QED BY <2>1, <2>2
<1>5. ASSUME NEW slot PROVE SlotWordsIn(t, slot) = SlotWordsIn(s, slot)
  BY <1>4 DEF SlotWordsIn, Alike
<1>6. {t[j].title : j \in DOMAIN t} = {s[j].title : j \in DOMAIN s}
  BY <1>1 DEF Alike
<1>7. \A i \in DOMAIN t : t[i].words = s[i].words
  BY DEF Alike
<1> QED BY <1>1, <1>4, <1>5, <1>6, <1>7 DEF GatesIn

-----------------------------------------------------------------------------
(* Lifecycle: what transitions of the page and of its elements leave alone.   *)

Lifecycle(op) == op.op = "transition" \/ (op.op = "step" /\ op.list \in Lists)

NoOpen(list) == \A n \in DOMAIN list : list[n].status # "open"

Likeness(p) ==
  {q \in PageOf(Statuses, Section) : Alike(p.sections, q.sections) /\ NoOpen(q.review)}

LEMMA LifecycleKeeps ==
  ASSUME NEW p, NEW q \in Likeness(p), NEW op, Lifecycle(op),
         Apply(q, op) \in PageOf(Statuses, Section)
  PROVE  Apply(q, op) \in Likeness(p)
<1> DEFINE list == q[op.list]
           i == IndexOf(list, op.id)
           r == Apply(q, op)
<1>1. CASE op.op = "transition"
  <2>1. r = [q EXCEPT !.status = After(statusTransitions, @, op.event)]
    BY <1>1 DEF Apply, PageType
  <2>2. r.sections = q.sections /\ r.review = q.review
    BY <2>1 DEF Likeness, PageOf
  <2> QED BY <2>2 DEF Likeness
<1>2. CASE op.op = "step" /\ ~ Holds(list, op.id)
  BY <1>2 DEF Apply
<1>3. CASE op.op = "step" /\ Holds(list, op.id) /\ op.list = "sections"
  <2> DEFINE new == [list EXCEPT ![i].status = After(elements["sections"], @, op.event)]
  <2>1. r = [q EXCEPT !.sections = new]
    BY <1>3 DEF Apply, PageType
  <2>2. r.sections = new /\ r.review = q.review /\ list = q.sections
    BY <1>3, <2>1 DEF Likeness, PageOf
  <2>3. q.sections \in Seq(Section) /\ i \in DOMAIN list
    BY <1>3, IndexOfHeld DEF Likeness, PageOf
  <2>4. ASSUME NEW j \in DOMAIN list
        PROVE  /\ new[j].title = list[j].title /\ new[j].words = list[j].words
               /\ new[j].slot = list[j].slot /\ new[j].depth = list[j].depth
    <3>1. list[j] \in Section
      BY <2>2, <2>3, LenProperties, ElementOfSeq
    <3>2. new[j] = IF j = i
                   THEN [list[i] EXCEPT !.status = After(elements["sections"], @, op.event)]
                   ELSE list[j]
      OBVIOUS
    <3> QED BY <3>1, <3>2 DEF Section
  <2>5. DOMAIN new = DOMAIN list
    OBVIOUS
  <2> HIDE DEF new, list, r
  <2>6. Alike(q.sections, r.sections)
    BY <2>2, <2>4, <2>5 DEF Alike
  <2>7. Alike(p.sections, r.sections)
    BY <2>6 DEF Alike, Likeness
  <2> QED BY <2>2, <2>7 DEF Likeness, r
<1>4. CASE op.op = "step" /\ Holds(list, op.id) /\ op.list = "review"
  <2> DEFINE new == [list EXCEPT ![i].status = After(elements["review"], @, op.event)]
  <2>1. r = [q EXCEPT !.review = new]
    BY <1>4 DEF Apply, PageType
  <2>2. r.review = new /\ r.sections = q.sections /\ list = q.review
    BY <1>4, <2>1 DEF Likeness, PageOf
  <2>3. q.review \in Seq(Note) /\ i \in DOMAIN list /\ NoOpen(list)
    BY <1>4, <2>2, IndexOfHeld DEF Likeness, PageOf
  <2>4. ASSUME NEW j \in DOMAIN new PROVE new[j].status # "open"
    <3>1. list[j] \in Note /\ list[j].status # "open"
      BY <2>2, <2>3, LenProperties, ElementOfSeq DEF NoOpen
    <3>2. new[j] = IF j = i
                   THEN [list[i] EXCEPT !.status = After(elements["review"], @, op.event)]
                   ELSE list[j]
      OBVIOUS
    <3>3. list[j].status = "resolved"
      BY <3>1 DEF Note
    <3>4. After(elements["review"], "resolved", op.event) # "open"
      BY DEF After, Can, Edge, elements
    <3> QED BY <3>1, <3>2, <3>3, <3>4 DEF Note
  <2> HIDE DEF new, list, r
  <2> QED BY <2>2, <2>4 DEF Likeness, NoOpen, r
<1> QED BY <1>1, <1>2, <1>3, <1>4 DEF Lifecycle, Lists

\* In an approved page only those are legal.
LEMMA ApprovedIsClosed ==
  ASSUME NEW q, NEW op, NEW A, NEW X, Harmless(op, A, X), Allowed("approved", q, op)
  PROVE  Lifecycle(op)
<1>1. "approved" \notin PageType.mutableIn["sections"] /\ "approved" \notin PageType.mutableIn["review"]
  BY DEF PageType, mutableIn
<1>2. Content(op) => op.list \notin Lists
  BY <1>1 DEF Allowed, Lists
<1>3. op.op = "transition" \/ op.list \in Lists
  BY DEF Harmless, Lists
<1>4. op.op \in {"transition", "step"} \/ op.list \notin Lists
  BY <1>2 DEF Content
<1> QED BY <1>3, <1>4 DEF Lifecycle

LEMMA LifecycleDecision ==
  ASSUME NEW p \in PageOf(Statuses, Section), NEW ops, AllHarmless(ops, Statuses, Section),
         Decide(p, ops).legal, \A k \in DOMAIN ops : Lifecycle(ops[k]), NoOpen(p.review)
  PROVE  /\ Alike(p.sections, Decide(p, ops).page.sections)
         /\ NoOpen(Decide(p, ops).page.review)
<1> DEFINE q == Applied(p, ops)[Len(ops)]
           r == Settled(q)
           t == Renumbered(r)
<1>1. /\ Decide(p, ops).page = t
      /\ \A k \in DOMAIN ops : Allowed(p.status, Applied(p, ops)[k - 1], ops[k])
  BY DEF Decide
<1>2. q \in Likeness(p)
  <2>1. p \in Likeness(p)
    BY DEF Likeness, Alike
  <2>2. ASSUME NEW k \in DOMAIN ops, NEW v \in Likeness(p), Allowed(p.status, v, ops[k])
        PROVE  Apply(v, ops[k]) \in Likeness(p)
    <3>1. Apply(v, ops[k]) \in PageOf(Statuses, Section)
      BY <2>2, ApplyKeeps DEF AllHarmless, Likeness
    <3> QED BY <3>1, LifecycleKeeps
  <2> QED BY <1>1, <2>1, <2>2, ChainKeeps DEF AllHarmless, Operations
<1> HIDE DEF q
<1>3. r.sections = q.sections /\ r.review = q.review /\ r \in PageOf(Statuses, Section)
  <2>1. q \in PageOf(Statuses, Section) /\ {"restating", "restated"} \subseteq Statuses
    BY <1>2 DEF Likeness, Statuses
  <2>2. r = [q EXCEPT !.status = r.status] /\ r \in PageOf(Statuses, Section)
    BY <2>1, SettledFacts
  <2> HIDE DEF r
  <2> QED BY <2>1, <2>2 DEF PageOf
<1> HIDE DEF r
<1>4. Renamed(Section, Section)
  BY DEF Renamed, Section
<1>5. t.sections = Numbered(r.sections) /\ t.review = Numbered(r.review)
  BY <1>3, <1>4, RenumberedFacts
<1> HIDE DEF t
<1>6. r.sections \in Seq(Section) /\ r.review \in Seq(Note)
  BY <1>3 DEF PageOf
<1>7. Alike(r.sections, t.sections)
  <2>1. ASSUME NEW i \in DOMAIN r.sections
        PROVE  /\ t.sections[i].title = r.sections[i].title
               /\ t.sections[i].words = r.sections[i].words
               /\ t.sections[i].slot = r.sections[i].slot
               /\ t.sections[i].depth = r.sections[i].depth
    <3>1. r.sections[i] \in Section
      BY <1>6, LenProperties, ElementOfSeq
    <3>2. t.sections[i] = [r.sections[i] EXCEPT !.id = i]
      BY <1>5 DEF Numbered
    <3> QED BY <3>1, <3>2 DEF Section
  <2>2. DOMAIN t.sections = DOMAIN r.sections
    BY <1>5 DEF Numbered
  <2> QED BY <2>1, <2>2 DEF Alike
<1>8. NoOpen(t.review)
  <2> SUFFICES ASSUME NEW n \in DOMAIN t.review PROVE t.review[n].status # "open"
    BY DEF NoOpen
  <2>1. n \in DOMAIN r.review /\ t.review[n] = [r.review[n] EXCEPT !.id = n]
    BY <1>5 DEF Numbered
  <2>2. r.review[n] \in Note /\ r.review[n].status # "open"
    BY <1>2, <1>3, <1>6, <2>1, LenProperties, ElementOfSeq DEF Likeness, NoOpen
  <2> QED BY <2>1, <2>2 DEF Note
<1>9. Alike(p.sections, q.sections)
  BY <1>2 DEF Likeness
<1> QED BY <1>1, <1>3, <1>7, <1>8, <1>9 DEF Alike

-----------------------------------------------------------------------------
(* The operations of the commands.                                          *)

\* The sections whose words are vouched for: by those in T if the section is
\* verified, or one of those in U, which the command is about to verify.
Clean(T, U) == {s \in Section : Verified(s) \/ s.id \in U => s.words \subseteq T}

\* The page statuses a command leaves the page in that does not approve it.
Lives == {Statuses, Statuses \ {"approved"}}

\* What an operation does to how often a slot is filled.  It names a section the
\* command found, or adds one under a new id.
Tracks(op) ==
  /\ op.op = "addElement" /\ op.list = "sections" => op.element.id \notin Ids
  /\ op.op = "removeElement" /\ op.list = "sections" => op.id \in Ids
  /\ op.op = "setElementField" => op.field # "id"
Delta(op, s) ==
  IF op.op = "addElement" /\ op.list = "sections" /\ op.element.slot = s THEN 1
  ELSE IF op.op = "removeElement" /\ op.list = "sections" /\ sections[op.id].slot = s THEN -1
  ELSE 0

\* The slots of W stay where they are.
Keeps(op, W) ==
  /\ Tracks(op)
  /\ op.op = "setElementField" /\ op.field = "slot" => W = {}
  /\ \A s \in W : Delta(op, s) = 0

Safe(op, T, U, W) == Keeps(op, W) /\ \A A \in Lives : Harmless(op, A, Clean(T, U))
SafeOps(ops, T, U, W) == Operations(ops) /\ \A k \in DOMAIN ops : Safe(ops[k], T, U, W)

LEMMA EmptySafe == ASSUME NEW T, NEW U, NEW W PROVE SafeOps(<<>>, T, U, W)
BY DEF SafeOps, Operations

LEMMA OneSafe ==
  ASSUME NEW T, NEW U, NEW W, NEW op, Safe(op, T, U, W) PROVE SafeOps(<<op>>, T, U, W)
BY DEF SafeOps, Operations

LEMMA TwoSafe ==
  ASSUME NEW T, NEW U, NEW W, NEW a, NEW b, Safe(a, T, U, W), Safe(b, T, U, W)
  PROVE  SafeOps(<<a, b>>, T, U, W)
BY DEF SafeOps, Operations

LEMMA ConcatOps ==
  ASSUME NEW a, NEW b, Operations(a), Operations(b)
  PROVE  /\ Operations(a \o b) /\ Len(a \o b) = Len(a) + Len(b)
         /\ DOMAIN (a \o b) = 1..(Len(a) + Len(b))
         /\ \A k \in 1..(Len(a) + Len(b)) : (a \o b)[k] = IF k <= Len(a) THEN a[k] ELSE b[k - Len(a)]
<1> DEFINE S == {a[k] : k \in 1..Len(a)} \cup {b[k] : k \in 1..Len(b)}
<1>1. /\ Len(a) \in Nat /\ a = [k \in 1..Len(a) |-> a[k]]
      /\ Len(b) \in Nat /\ b = [k \in 1..Len(b) |-> b[k]]
  BY DEF Operations
<1>2. a \in Seq(S) /\ b \in Seq(S)
  <2>1. a \in [1..Len(a) -> S] /\ b \in [1..Len(b) -> S]
    BY <1>1
  <2> HIDE DEF S
  <2> QED BY <1>1, <2>1, SeqDef
<1> HIDE DEF S
<1>3. a \o b \in Seq(S) /\ Len(a \o b) = Len(a) + Len(b)
  BY <1>2, ConcatProperties
<1>4. DOMAIN (a \o b) = 1..Len(a \o b) /\ a \o b = [k \in 1..Len(a \o b) |-> (a \o b)[k]]
  BY <1>3, LenProperties
<1>5. \A k \in 1..(Len(a) + Len(b)) : (a \o b)[k] = IF k <= Len(a) THEN a[k] ELSE b[k - Len(a)]
  BY <1>2, ConcatProperties
<1> QED BY <1>1, <1>3, <1>4, <1>5 DEF Operations

LEMMA ConcatSafe ==
  ASSUME NEW T, NEW U, NEW W, NEW a, NEW b, SafeOps(a, T, U, W), SafeOps(b, T, U, W)
  PROVE  SafeOps(a \o b, T, U, W)
<1>1. /\ Len(a) \in Nat /\ DOMAIN a = 1..Len(a) /\ Operations(a)
      /\ Len(b) \in Nat /\ DOMAIN b = 1..Len(b) /\ Operations(b)
  BY DEF SafeOps, Operations
<1>2. ASSUME NEW k \in 1..(Len(a) + Len(b)) PROVE Safe((a \o b)[k], T, U, W)
  <2>1. (a \o b)[k] = IF k <= Len(a) THEN a[k] ELSE b[k - Len(a)]
    BY <1>1, ConcatOps
  <2>2. CASE k <= Len(a)
    BY <1>1, <2>1, <2>2 DEF SafeOps
  <2>3. CASE ~ (k <= Len(a))
    <3>1. k - Len(a) \in DOMAIN b
      BY <1>1, <2>3
    <3> QED BY <2>1, <2>3, <3>1 DEF SafeOps
  <2> QED BY <2>2, <2>3
<1> QED BY <1>1, <1>2, ConcatOps DEF SafeOps

LEMMA SafeTransition ==
  ASSUME NEW T, NEW U, NEW W, NEW event, event # "approve"
  PROVE  Safe(PageTransition(event), T, U, W)
<1>1. ASSUME NEW st \in Statuses
      PROVE  /\ After(statusTransitions, st, event) \in Statuses
             /\ st # "approved" => After(statusTransitions, st, event) # "approved"
  <2>1. CASE Can(statusTransitions, st, event)
    <3>1. PICK e \in statusTransitions : Edge(e, st, event)
      BY <2>1 DEF Can
    <3>2. After(statusTransitions, st, event) = e[3]
      BY <3>1, AfterEdge DEF Edge
    <3>3. e[3] \in Statuses /\ (e[3] = "approved" => e[2] = "approve")
      BY DEF statusTransitions, Statuses
    <3> QED BY <3>1, <3>2, <3>3 DEF Edge
  <2>2. CASE ~ Can(statusTransitions, st, event)
    BY <2>2 DEF After
  <2> QED BY <2>1, <2>2
<1>2. ASSUME NEW A \in Lives PROVE \A st \in A : After(statusTransitions, st, event) \in A
  BY <1>1 DEF Lives
<1> QED BY <1>2 DEF Safe, Harmless, PageTransition, Keeps, Tracks, Delta

LEMMA SafeSummary ==
  ASSUME NEW T, NEW U, NEW W, NEW v \in BOOLEAN PROVE Safe(SetSummary(v), T, U, W)
BY DEF Safe, Harmless, SetSummary, Keeps, Tracks, Delta

LEMMA SafeRemove ==
  ASSUME NEW T, NEW U, NEW W, NEW id, id \in Ids, sections[id].slot \notin W
  PROVE  Safe(RemoveElement("sections", id), T, U, W)
<1> DEFINE op == RemoveElement("sections", id)
<1>1. op.op = "removeElement" /\ op.list = "sections" /\ op.id = id
  BY DEF RemoveElement
<1> HIDE DEF op
<1>2. Keeps(op, W)
  BY <1>1 DEF Keeps, Tracks, Delta
<1>3. \A A : Harmless(op, A, Clean(T, U))
  BY <1>1 DEF Harmless, Lists
<1> QED BY <1>2, <1>3 DEF Safe, op

LEMMA SafeMove ==
  ASSUME NEW T, NEW U, NEW W, NEW id, NEW at
  PROVE  Safe(MoveElement("sections", id, at), T, U, W)
BY DEF Safe, Harmless, Lists, MoveElement, Keeps, Tracks, Delta

LEMMA SafeNotes ==
  ASSUME NEW T, NEW U, NEW W, NEW id, NEW at, NEW n \in Note, NEW event
  PROVE  /\ Safe(AddElement("review", n, at), T, U, W)
         /\ Safe(RemoveElement("review", id), T, U, W)
         /\ Safe(ElementTransition("review", id, event), T, U, W)
<1>1. Safe(AddElement("review", n, at), T, U, W)
  BY DEF Safe, Harmless, AddElement, Keeps, Tracks, Delta
<1>2. Safe(ElementTransition("review", id, event), T, U, W)
  BY DEF Safe, Harmless, ElementTransition, Keeps, Tracks, Delta
<1>3. Safe(RemoveElement("review", id), T, U, W)
  BY DEF Safe, Harmless, Lists, RemoveElement, Keeps, Tracks, Delta
<1> QED BY <1>1, <1>2, <1>3

LEMMA SafeAdd ==
  ASSUME NEW T, NEW U, NEW W, NEW at, NEW s \in Clean(T, U), s.slot \notin W, s.id \notin Ids
  PROVE  Safe(AddElement("sections", s, at), T, U, W)
<1> DEFINE op == AddElement("sections", s, at)
<1>1. op.op = "addElement" /\ op.list = "sections" /\ op.element = s
  BY DEF AddElement
<1> HIDE DEF op
<1>2. Keeps(op, W)
  BY <1>1 DEF Keeps, Tracks, Delta
<1>3. \A A : Harmless(op, A, Clean(T, U))
  BY <1>1 DEF Harmless
<1> QED BY <1>2, <1>3 DEF Safe, op

LEMMA SafeSet ==
  ASSUME NEW T, NEW U, NEW W, NEW id, NEW field, NEW value,
         \/ field = "words" /\ value \in SUBSET Texts /\ (U = {} \/ value \subseteq T)
         \/ field = "title" /\ value \in Titles
         \/ field = "depth" /\ value \in Nat
         \/ field = "slot" /\ value \in SlotSet \cup {NoSlot} /\ W = {}
  PROVE  Safe(Set(id, field, value), T, U, W)
<1>1. ASSUME NEW s \in Clean(T, U), s.status = "ai-draft" \/ field = "depth"
      PROVE  [s EXCEPT ![field] = value] \in Clean(T, U)
  <2>1. s \in Section /\ (Verified(s) \/ s.id \in U => s.words \subseteq T)
    BY DEF Clean
  <2>2. CASE field = "words"
    <3>1. [s EXCEPT ![field] = value] = [s EXCEPT !.words = value]
      BY <2>2
    <3>2. s.status = "ai-draft" /\ value \in SUBSET Texts /\ (U = {} \/ value \subseteq T)
      BY <1>1, <2>2
    <3>3. [s EXCEPT !.words = value] \in Section
      BY <2>1, <3>2 DEF Section
    <3>4. /\ [s EXCEPT !.words = value].words = value
          /\ [s EXCEPT !.words = value].status = "ai-draft"
      BY <2>1, <3>2 DEF Section
    <3> QED BY <3>1, <3>2, <3>3, <3>4 DEF Clean, Verified
  <2>3. CASE field = "title" /\ value \in Titles
    <3>1. [s EXCEPT ![field] = value] = [s EXCEPT !.title = value]
      BY <2>3
    <3>2. [s EXCEPT !.title = value] \in Clean(T, U)
      BY <2>1, <2>3 DEF Section, Clean, Verified
    <3> QED BY <3>1, <3>2
  <2>4. CASE field = "depth" /\ value \in Nat
    <3>1. [s EXCEPT ![field] = value] = [s EXCEPT !.depth = value]
      BY <2>4
    <3>2. [s EXCEPT !.depth = value] \in Clean(T, U)
      BY <2>1, <2>4 DEF Section, Clean, Verified
    <3> QED BY <3>1, <3>2
  <2>5. CASE field = "slot" /\ value \in SlotSet \cup {NoSlot}
    <3>1. [s EXCEPT ![field] = value] = [s EXCEPT !.slot = value]
      BY <2>5
    <3>2. [s EXCEPT !.slot = value] \in Clean(T, U)
      BY <2>1, <2>5 DEF Section, Clean, Verified
    <3> QED BY <3>1, <3>2
  <2> QED BY <2>2, <2>3, <2>4, <2>5
<1>2. /\ Set(id, field, value).op = "setElementField" /\ Set(id, field, value).list = "sections"
      /\ Set(id, field, value).field = field /\ Set(id, field, value).value = value
  BY DEF Set, SetElementField
<1>3. Keeps(Set(id, field, value), W)
  BY <1>2 DEF Keeps, Tracks, Delta
<1> QED BY <1>1, <1>2, <1>3 DEF Safe, Harmless

LEMMA SafeStep ==
  ASSUME NEW T, NEW U, NEW W, NEW id, NEW event,
         \/ event = "verify" /\ id \in U
         \/ event = "reviseAsDraft"
  PROVE  Safe(Step(id, event), T, U, W)
<1>1. ASSUME NEW s \in Clean(T, U), s.id = id
      PROVE  [s EXCEPT !.status = After(elements["sections"], @, event)] \in Clean(T, U)
  <2>1. s \in Section /\ (Verified(s) \/ s.id \in U => s.words \subseteq T)
    BY DEF Clean
  <2> DEFINE new == After(elements["sections"], s.status, event)
  <2>2. /\ new \in {"ai-draft", "human-verified"}
        /\ new = "human-verified" => Verified(s) \/ event = "verify"
    BY <2>1 DEF After, Can, Edge, elements, Section, Verified
  <2> HIDE DEF new
  <2>3. [s EXCEPT !.status = new] \in Section
    BY <2>1, <2>2 DEF Section
  <2>4. /\ [s EXCEPT !.status = new].status = new /\ [s EXCEPT !.status = new].id = s.id
        /\ [s EXCEPT !.status = new].words = s.words
    BY <2>1 DEF Section
  <2>5. [s EXCEPT !.status = new] \in Clean(T, U)
    BY <1>1, <2>1, <2>2, <2>3, <2>4 DEF Clean, Verified
  <2> QED BY <2>5 DEF new
<1>2. /\ Step(id, event).op = "step" /\ Step(id, event).list = "sections"
      /\ Step(id, event).id = id /\ Step(id, event).event = event
  BY DEF Step, ElementTransition
<1>3. Keeps(Step(id, event), W)
  BY <1>2 DEF Keeps, Tracks, Delta
<1> QED BY <1>1, <1>2, <1>3 DEF Safe, Harmless

-----------------------------------------------------------------------------
(* Every command but the approval is safe.                                  *)

LEMMA SectionsTyped ==
  ASSUME TypeOK
  PROVE  /\ sections \in Seq(Section) /\ Len(sections) \in Nat /\ Ids = 1..Len(sections)
         /\ \A i \in Ids : sections[i] \in Section
<1>1. sections \in Seq(Section)
  BY DEF TypeOK, Page, sections
<1> QED BY <1>1, LenProperties, ElementOfSeq DEF Ids

LEMMA BuiltOps ==
  ASSUME NEW n \in Nat, NEW ops, ops = [k \in 1..n |-> ops[k]]
  PROVE  Operations(ops) /\ Len(ops) = n
<1> DEFINE S == {ops[k] : k \in 1..n}
<1>1. ops \in [1..n -> S]
  OBVIOUS
<1> HIDE DEF S
<1>2. ops \in Seq(S)
  BY <1>1, SeqDef
<1>3. Len(ops) = n
  BY <1>1, <1>2, LenProperties
<1> QED BY <1>3 DEF Operations

LEMMA BuiltSafe ==
  ASSUME NEW T, NEW U, NEW W, NEW n \in Nat, NEW ops, ops = [k \in 1..n |-> ops[k]],
         \A k \in 1..n : Safe(ops[k], T, U, W)
  PROVE  SafeOps(ops, T, U, W)
BY BuiltOps DEF SafeOps

LEMMA EachSafe ==
  ASSUME NEW T, NEW U, NEW W, NEW n \in Nat, NEW named, NEW ops, DOMAIN named = 1..n,
         \A k \in 1..n : Safe(ops[named[k]], T, U, W)
  PROVE  SafeOps(Each(named, ops), T, U, W)
<1> DEFINE e == Each(named, ops)
<1>1. e = [k \in 1..n |-> ops[named[k]]]
  BY DEF Each
<1>2. e = [k \in 1..n |-> e[k]] /\ \A k \in 1..n : e[k] = ops[named[k]]
  BY <1>1
<1> HIDE DEF e
<1>3. SafeOps(e, T, U, W)
  BY <1>2, BuiltSafe
<1> QED BY <1>3 DEF e

LEMMA SetToSeqFacts ==
  ASSUME NEW S, IsFiniteSet(S)
  PROVE  /\ Cardinality(S) \in Nat /\ DOMAIN SetToSeq(S) = 1..Cardinality(S)
         /\ \A k \in 1..Cardinality(S) : SetToSeq(S)[k] \in S
         /\ IsInjective(SetToSeq(S))
<1>1. Cardinality(S) \in Nat /\ ExistsBijection(1..Cardinality(S), S)
  BY FS_CardinalityType
<1>2. \E f \in [1..Cardinality(S) -> S] : IsInjective(f)
  BY <1>1 DEF ExistsBijection, Bijection, Injection, IsInjective
<1>3. SetToSeq(S) \in [1..Cardinality(S) -> S] /\ IsInjective(SetToSeq(S))
  BY <1>2 DEF SetToSeq
<1> QED BY <1>1, <1>3

\* One operation for each of a set.
LEMMA SetSafe ==
  ASSUME NEW T, NEW U, NEW W, NEW S, IsFiniteSet(S), NEW ops,
         \A x \in S : Safe(ops[x], T, U, W)
  PROVE  SafeOps(Each(SetToSeq(S), ops), T, U, W)
BY SetToSeqFacts, EachSafe

\* What a command does to the page, and to what is vouched for.
Regular(W) ==
  \E ops, U : /\ Do(ops) /\ SafeOps(ops, signed', U, W)
              /\ signed \subseteq signed' /\ signed' \subseteq Texts
              /\ \A i \in Ids \cap U : sections[i].words \subseteq signed'

LEMMA Vouched ==
  ASSUME TypeOK, NEW texts \in SUBSET Texts, Signing(texts),
         NEW W, NEW ops, Do(ops), SafeOps(ops, signed', {}, W)
  PROVE  Regular(W)
<1>1. signed \subseteq signed' /\ signed' \subseteq Texts
  BY DEF Signing, TypeOK
<1> QED BY <1>1 DEF Regular

LEMMA Plain ==
  ASSUME TypeOK, signed' = signed, NEW W, NEW ops, Do(ops), SafeOps(ops, signed', {}, W)
  PROVE  Regular(W)
BY DEF Regular, TypeOK

LEMMA NewSectionSafe ==
  ASSUME NEW T, NEW W, NEW d \in Drafts, NEW id \in Nat, id \notin Ids,
         NEW depth \in Nat, NEW slot \in SlotSet \cup {NoSlot}, slot \notin W, NEW status \in {"ai-draft", "human-verified"},
         status = "human-verified" => d.text \in T, NEW at
  PROVE  Safe(AddElement("sections", NewSection(id, d, depth, slot, status), at), T, {}, W)
<1>1. d.title \in Titles /\ d.text \in Texts
  BY SpecConstants DEF Texts, TextsOf
<1>2. NewSection(id, d, depth, slot, status) \in Clean(T, {})
  BY <1>1 DEF NewSection, Clean, Section, Verified
<1>3. /\ NewSection(id, d, depth, slot, status).slot = slot
      /\ NewSection(id, d, depth, slot, status).id = id
  BY DEF NewSection
<1> QED BY <1>2, <1>3, SafeAdd

\* What a command mints is a new id.
LEMMA MintedIsNew == ASSUME TypeOK PROVE \A k \in Nat \ {0} : Minted(k) \in Nat /\ Minted(k) \notin Ids
<1>1. Len(sections) \in Nat /\ Ids = 1..Len(sections)
  BY SectionsTyped
<1> QED BY <1>1 DEF Minted

LEMMA DepthsNat == \A d \in Depths : d \in Nat
BY SpecConstants DEF Depths

LEMMA DowngradeSafe ==
  ASSUME NEW T, NEW U, NEW W, NEW i PROVE SafeOps(Downgrade(i), T, U, W)
<1>1. Safe(Step(i, "reviseAsDraft"), T, U, W)
  BY SafeStep
<1> QED BY <1>1, OneSafe, EmptySafe DEF Downgrade

LEMMA WriteSafe ==
  ASSUME NEW T, NEW W, NEW d \in Drafts, NEW i
  PROVE  SafeOps(Downgrade(i) \o Write(i, d), T, {}, W)
<1>1. d.title \in Titles /\ d.text \in Texts
  BY SpecConstants DEF Texts, TextsOf
<1>2. Safe(Set(i, "words", {d.text}), T, {}, W) /\ Safe(Set(i, "title", d.title), T, {}, W)
  BY <1>1, SafeSet
<1> QED BY <1>2, TwoSafe, DowngradeSafe, ConcatSafe DEF Write

LEMMA NewNotesSafe ==
  ASSUME TypeOK, NEW T, NEW U, NEW W, NEW n \in Nat PROVE SafeOps(NewNotes(n), T, U, W)
<1> DEFINE ops == NewNotes(n)
<1>1. Len(page.review) \in Nat
  BY LenProperties DEF TypeOK, Page
<1>2. ASSUME NEW k \in 1..n
      PROVE  Safe(AddElement("review", [id |-> Len(page.review) + k, status |-> "open"],
                             Len(page.review) + k), T, U, W)
  <2>1. [id |-> Len(page.review) + k, status |-> "open"] \in Note
    BY <1>1 DEF Note
  <2> QED BY <2>1, SafeNotes
<1>3. ops = [k \in 1..n |-> ops[k]] /\ \A k \in 1..n : Safe(ops[k], T, U, W)
  BY <1>2 DEF NewNotes
<1> HIDE DEF ops
<1>4. SafeOps(ops, T, U, W)
  BY <1>3, BuiltSafe
<1> QED BY <1>4 DEF ops

LEMMA SubtreeRun ==
  ASSUME TypeOK, NEW i \in Ids
  PROVE  /\ subtreeEnd(i) \in i..Len(sections) /\ subtree(i) \subseteq Ids
         /\ subtreeEnd(i) - i + 1 \in Nat
         /\ DOMAIN subtreeRun(i) = 1..(subtreeEnd(i) - i + 1)
         /\ \A k \in DOMAIN subtreeRun(i) : subtreeRun(i)[k] \in subtree(i)
         /\ \A j \in subtree(i) : sections[i].depth <= sections[j].depth
<1>1. EndOf(sections, i, subtreeEnd(i))
  BY SubtreeEnds DEF TypeOK, Page
<1>2. Len(sections) \in Nat /\ Ids = 1..Len(sections) /\ \A j \in Ids : sections[j].depth \in Nat
  BY SectionsTyped DEF Section
<1>3. subtreeEnd(i) \in i..Len(sections)
  BY <1>1 DEF EndOf
<1>4. subtree(i) \subseteq Ids
  BY <1>2, <1>3 DEF subtree
<1>5. /\ subtreeEnd(i) - i + 1 \in Nat
      /\ DOMAIN subtreeRun(i) = 1..(subtreeEnd(i) - i + 1)
      /\ \A k \in DOMAIN subtreeRun(i) : subtreeRun(i)[k] \in subtree(i)
  BY <1>2, <1>3 DEF subtreeRun, Run, subtree
<1>6. ASSUME NEW j \in subtree(i) PROVE sections[i].depth <= sections[j].depth
  <2>1. CASE j = i
    BY <1>2, <2>1
  <2>2. CASE j # i
    <3>1. j \in (i + 1)..subtreeEnd(i)
      BY <1>2, <1>3, <2>2 DEF subtree
    <3>2. sections[j].depth > sections[i].depth
      BY <1>1, <3>1 DEF EndOf
    <3> QED BY <1>2, <1>4, <3>2
  <2> QED BY <2>1, <2>2
<1> QED BY <1>3, <1>4, <1>5, <1>6

\* One operation for each section of a subtree.
LEMMA SubtreeSafe ==
  ASSUME TypeOK, NEW T, NEW U, NEW W, NEW i \in Ids, NEW ops,
         \A j \in subtree(i) : Safe(ops[j], T, U, W)
  PROVE  SafeOps(Each(subtreeRun(i), ops), T, U, W)
BY SubtreeRun, EachSafe

LEMMA AgentRegular ==
  ASSUME TypeOK, ByAgent, signed' = signed,
         NEW W \in SUBSET SlotSet, \A s \in W : Filling(s) # {}
  PROVE  Regular(W)
<1>t. Len(sections) \in Nat /\ Ids = 1..Len(sections)
  BY SectionsTyped
<1>m. Minted(1) \in Nat /\ Minted(1) \notin Ids /\ NoSlot \notin W
  BY MintedIsNew, SpecConstants
<1>1. ASSUME NEW d \in Drafts, NEW slot \in SlotSet, writeSlot(slot, d) PROVE Regular(W)
  <2>1. CASE Filling(slot) = {}
    <3> DEFINE op == AddElement("sections", NewSection(Minted(1), d, 0, slot, "ai-draft"),
                                Len(sections))
    <3>1. Safe(op, signed', {}, W)
      BY <1>m, <2>1, NewSectionSafe
    <3>2. Do(<<op>>)
      BY <1>1, <2>1 DEF writeSlot
    <3> HIDE DEF op
    <3> QED BY <3>1, <3>2, OneSafe, Plain
  <2>2. CASE Filling(slot) # {}
    <3> DEFINE i == CHOOSE j \in Filling(slot) : \A k \in Filling(slot) : j <= k
    <3>1. Do(Downgrade(i) \o Write(i, d))
      BY <1>1, <2>2 DEF writeSlot
    <3> HIDE DEF i
    <3> QED BY <3>1, WriteSafe, Plain
  <2> QED BY <2>1, <2>2
<1>2. ASSUME NEW d \in Drafts, NEW after \in {0} \cup Ids, NEW depth \in Depths,
             draftSection(after, d, depth)
      PROVE  Regular(W)
  <2> DEFINE at == IF after = 0 THEN Len(sections) ELSE subtreeEnd(after)
             op == AddElement("sections", NewSection(Minted(1), d, depth, NoSlot, "ai-draft"), at)
  <2>1. Safe(op, signed', {}, W)
    BY <1>m, NewSectionSafe, DepthsNat
  <2>2. Do(<<op>>)
    BY <1>2 DEF draftSection
  <2> HIDE DEF op
  <2> QED BY <2>1, <2>2, OneSafe, Plain
<1>3. ASSUME NEW d \in Drafts, NEW i \in Ids, reviseSection(i, d) PROVE Regular(W)
  <2>1. Do(Downgrade(i) \o Write(i, d))
    BY <1>3 DEF reviseSection
  <2> QED BY <2>1, WriteSafe, Plain
<1>4. CASE submitForRestatement \/ completeRestatement
  <2>1. PICK event \in {"submitForRestatement", "completeRestatement"} :
          Do(<<PageTransition(event)>>)
    BY <1>4 DEF submitForRestatement, completeRestatement
  <2>2. Safe(PageTransition(event), signed', {}, W)
    BY SafeTransition
  <2> QED BY <2>1, <2>2, OneSafe, Plain
<1>5. ASSUME NEW n \in 0..MaxNotes, NEW summary \in BOOLEAN, recordHolisticReview(n, summary)
      PROVE  Regular(W)
  <2>1. Do(<<SetSummary(summary)>> \o NewNotes(n) \o <<PageTransition("requestHolisticReview")>>)
    BY <1>5 DEF recordHolisticReview
  <2>2. SafeOps(<<SetSummary(summary)>>, signed', {}, W)
    BY SafeSummary, OneSafe
  <2>3. SafeOps(NewNotes(n), signed', {}, W)
    BY NewNotesSafe
  <2>4. SafeOps(<<PageTransition("requestHolisticReview")>>, signed', {}, W)
    BY SafeTransition, OneSafe
  <2> QED BY <2>1, <2>2, <2>3, <2>4, ConcatSafe, Plain
<1>6. ASSUME NEW n \in 0..MaxNotes, NEW summary \in BOOLEAN, rerunHolisticReview(n, summary)
      PROVE  Regular(W)
  <2> DEFINE ops == [k \in OpenNotes |-> RemoveElement("review", k)]
             gone == Each(SetToSeq(OpenNotes), ops)
  <2>1. Do(gone \o <<SetSummary(summary)>> \o NewNotes(n))
    BY <1>6 DEF rerunHolisticReview
  <2>2. SafeOps(gone, signed', {}, W)
    <3>1. \A k \in OpenNotes : Safe(ops[k], signed', {}, W)
      <4>1. [id |-> 0, status |-> "open"] \in Note
        BY DEF Note
      <4> QED BY <4>1, SafeNotes
    <3>2. IsFiniteSet(OpenNotes)
      <4>1. Len(page.review) \in Nat /\ OpenNotes \subseteq 1..Len(page.review)
        BY LenProperties DEF TypeOK, Page, OpenNotes
      <4>2. IsFiniteSet(1..Len(page.review))
        BY <4>1, FS_Interval
      <4> QED BY <4>1, <4>2, FS_Subset
    <3> HIDE DEF ops
    <3> QED BY <3>1, <3>2, SetSafe
  <2>3. SafeOps(<<SetSummary(summary)>>, signed', {}, W)
    BY SafeSummary, OneSafe
  <2>4. SafeOps(NewNotes(n), signed', {}, W)
    BY NewNotesSafe
  <2> HIDE DEF gone
  <2> QED BY <2>1, <2>2, <2>3, <2>4, ConcatSafe, Plain
<1>7. ASSUME NEW n \in DOMAIN page.review, resolveNote(n) PROVE Regular(W)
  <2>1. Do(<<ElementTransition("review", n, "resolve")>>)
    BY <1>7 DEF resolveNote
  <2>2. Safe(ElementTransition("review", n, "resolve"), signed', {}, W)
    <3>1. [id |-> 0, status |-> "open"] \in Note
      BY DEF Note
    <3> QED BY <3>1, SafeNotes
  <2> QED BY <2>1, <2>2, OneSafe, Plain
<1> QED BY <1>1, <1>2, <1>3, <1>4, <1>5, <1>6, <1>7 DEF ByAgent

LEMMA StructureRegular ==
  ASSUME TypeOK, Restructure, signed' = signed, NEW W
  PROVE  Regular(W)
<1>t. /\ sections \in Seq(Section) /\ Len(sections) \in Nat /\ Ids = 1..Len(sections)
      /\ \A j \in Ids : sections[j].depth \in Nat
  BY SectionsTyped DEF Section
<1>1. ASSUME NEW i \in Ids, indentSection(i) PROVE Regular(W)
  <2> DEFINE ops == [j \in subtree(i) |-> Set(j, "depth", sections[j].depth + 1)]
  <2>1. ASSUME NEW j \in subtree(i) PROVE Safe(ops[j], signed', {}, W)
    <3>1. j \in Ids
      BY SubtreeRun
    <3>2. sections[j].depth \in Nat
      BY <1>t, <3>1
    <3>3. sections[j].depth + 1 \in Nat
      BY <3>2
    <3> QED BY <3>3, SafeSet
  <2>2. Do(Each(subtreeRun(i), ops))
    BY <1>1 DEF indentSection
  <2> HIDE DEF ops
  <2> QED BY <2>1, <2>2, SubtreeSafe, Plain
<1>2. ASSUME NEW i \in Ids, outdentSection(i) PROVE Regular(W)
  <2> DEFINE ops == [j \in subtree(i) |-> Set(j, "depth", sections[j].depth - 1)]
  <2>1. ASSUME NEW j \in subtree(i) PROVE Safe(ops[j], signed', {}, W)
    <3>1. sections[i].depth # 0 /\ sections[i].depth <= sections[j].depth /\ j \in Ids
      BY <1>2, SubtreeRun DEF outdentSection
    <3>2. sections[j].depth - 1 \in Nat
      BY <1>t, <3>1
    <3> QED BY <3>2, SafeSet
  <2>2. Do(Each(subtreeRun(i), ops))
    BY <1>2 DEF outdentSection
  <2> HIDE DEF ops
  <2> QED BY <2>1, <2>2, SubtreeSafe, Plain
<1>3. ASSUME NEW i \in Ids, NEW to \in 0..Len(sections), moveSection(i, to) PROVE Regular(W)
  <2> DEFINE moves == moveSubtreeOps(Len(sections), subtreeRun(i), to)
             ops == [j \in subtree(i) |-> Set(j, "depth", sections[j].depth - Lift(i, to))]
             lifts == IF Lift(i, to) = 0 THEN <<>> ELSE Each(subtreeRun(i), ops)
  <2>1. SafeOps(moves, signed', {}, W)
    <3> DEFINE n == subtreeEnd(i) - i + 1
    <3>1. n \in Nat /\ DOMAIN subtreeRun(i) = 1..n
      BY SubtreeRun
    <3>2. moves = [k \in 1..n |-> moves[k]]
      BY <3>1 DEF moveSubtreeOps
    <3>3. ASSUME NEW k \in 1..n
          PROVE  \E at : moves[k] = MoveElement("sections", subtreeRun(i)[k], at)
      BY <3>1 DEF moveSubtreeOps
    <3> HIDE DEF n, moves
    <3>4. \A k \in 1..n : Safe(moves[k], signed', {}, W)
      BY <3>3, SafeMove
    <3> QED BY <3>1, <3>2, <3>4, BuiltSafe
  <2>2. Lift(i, to) \in 0..sections[i].depth
    <3>1. subtreeEnd(i) \in i..Len(sections)
      BY SubtreeRun
    <3>2. SubSeq(sections, 1, i - 1) \in Seq(Section)
      BY <1>t, SubSeqProperties, ElementOfSeq
    <3>3. SubSeq(sections, subtreeEnd(i) + 1, Len(sections)) \in Seq(Section)
      BY <1>t, <3>1, SubSeqProperties, ElementOfSeq
    <3>4. Rest(i) \in Seq(Section)
      BY <3>2, <3>3, ConcatProperties DEF Rest
    <3>5. to <= Len(Rest(i)) /\ to \in Nat
      BY <1>3 DEF moveSection
    <3>6. maxDepthAfter(Rest(i), to) \in Nat
      <4>1. CASE to = 0
        BY <4>1 DEF maxDepthAfter
      <4>2. CASE to # 0
        <5>1. Len(Rest(i)) \in Nat
          BY <3>4, LenProperties
        <5>2. to \in 1..Len(Rest(i))
          BY <3>5, <4>2, <5>1
        <5>3. Rest(i)[to] \in Section
          BY <3>4, <5>2, ElementOfSeq
        <5>4. Rest(i)[to].depth \in Nat
          BY <5>3 DEF Section
        <5> QED BY <4>2, <5>4 DEF maxDepthAfter
      <4> QED BY <4>1, <4>2
    <3> DEFINE ceiling == maxDepthAfter(Rest(i), to)
    <3>7. Lift(i, to) = IF ceiling < sections[i].depth THEN sections[i].depth - ceiling ELSE 0
      BY DEF Lift
    <3>8. sections[i].depth \in Nat
      BY <1>t
    <3> HIDE DEF ceiling
    <3> QED BY <3>6, <3>7, <3>8 DEF ceiling
  <2>3. ASSUME NEW j \in subtree(i) PROVE Safe(ops[j], signed', {}, W)
    <3>1. sections[i].depth <= sections[j].depth /\ j \in Ids
      BY SubtreeRun
    <3>2. sections[j].depth - Lift(i, to) \in Nat
      BY <1>t, <2>2, <3>1
    <3> QED BY <3>2, SafeSet
  <2>4. Do(moves \o lifts)
    BY <1>3 DEF moveSection
  <2> HIDE DEF moves, ops
  <2>5. SafeOps(lifts, signed', {}, W)
    BY <2>3, SubtreeSafe, EmptySafe
  <2> HIDE DEF lifts
  <2> QED BY <2>1, <2>4, <2>5, ConcatSafe, Plain
<1> QED BY <1>1, <1>2, <1>3 DEF Restructure

\* How many of the numbers from 1 to k a set has.
Upto(S, k) == Cardinality(S \cap (1..k))

LEMMA UptoStep ==
  ASSUME NEW S, NEW k \in Nat
  PROVE  /\ Upto(S, k) \in Nat
         /\ Upto(S, 0) = 0
         /\ Upto(S, k + 1) = Upto(S, k) + (IF k + 1 \in S THEN 1 ELSE 0)
<1>1. IsFiniteSet(S \cap (1..k))
  <2>1. IsFiniteSet(1..k)
    BY FS_Interval
  <2> QED BY <2>1, FS_Subset
<1>2. Upto(S, k) \in Nat
  BY <1>1, FS_CardinalityType DEF Upto
<1>3. Upto(S, 0) = 0
  <2>1. S \cap (1..0) = {}
    OBVIOUS
  <2> QED BY <2>1, FS_EmptySet DEF Upto
<1>4. CASE k + 1 \in S
  <2>1. S \cap (1..(k + 1)) = (S \cap (1..k)) \cup {k + 1} /\ k + 1 \notin S \cap (1..k)
    BY <1>4
  <2>2. Cardinality((S \cap (1..k)) \cup {k + 1}) = Cardinality(S \cap (1..k)) + 1
    BY <1>1, <2>1, FS_AddElement
  <2> QED BY <1>2, <1>3, <1>4, <2>1, <2>2 DEF Upto
<1>5. CASE k + 1 \notin S
  <2>1. S \cap (1..(k + 1)) = S \cap (1..k)
    BY <1>5
  <2> QED BY <1>2, <1>3, <1>5, <2>1 DEF Upto
<1> QED BY <1>4, <1>5

\* Where a list has a value, and how often.
At(list, s) == {i \in DOMAIN list : list[i] = s}
Times(list, s) == Upto(At(list, s), Len(list))

LEMMA TimesNone ==
  ASSUME NEW s PROVE Times(<<>>, s) = 0
<1>1. Len(<<>>) = 0
  OBVIOUS
<1> QED BY <1>1, UptoStep DEF Times

LEMMA TimesOneMore ==
  ASSUME NEW X, NEW list \in Seq(X), NEW x \in X, NEW s
  PROVE  Times(list \o <<x>>, s) = Times(list, s) + (IF x = s THEN 1 ELSE 0)
<1> DEFINE more == list \o <<x>>
           n == Len(list)
<1>1. <<x>> \in Seq(X) /\ Len(<<x>>) = 1 /\ <<x>>[1] = x
  OBVIOUS
<1>2. n \in Nat /\ DOMAIN list = 1..n
  BY LenProperties
<1>3. /\ more \in Seq(X) /\ Len(more) = n + 1
      /\ \A k \in 1..(n + 1) : more[k] = IF k <= n THEN list[k] ELSE <<x>>[k - n]
  BY <1>1, <1>2, ConcatProperties
<1>4. DOMAIN more = 1..(n + 1)
  BY <1>3, LenProperties
<1> HIDE DEF more, n
<1>5. At(more, s) \cap (1..n) = At(list, s) \cap (1..n)
  BY <1>2, <1>3, <1>4 DEF At
<1>6. n + 1 \in At(more, s) <=> x = s
  <2>1. n + 1 \in 1..(n + 1) /\ ~(n + 1 <= n) /\ (n + 1) - n = 1
    BY <1>2
  <2> QED BY <1>1, <1>3, <1>4, <2>1 DEF At
<1>7. Upto(At(more, s), n) = Upto(At(list, s), n)
  BY <1>5 DEF Upto
<1>8. Upto(At(more, s), n + 1) = Upto(At(more, s), n) + (IF n + 1 \in At(more, s) THEN 1 ELSE 0)
  BY <1>2, UptoStep
<1>9. Times(more, s) = Times(list, s) + (IF x = s THEN 1 ELSE 0)
  BY <1>3, <1>6, <1>7, <1>8 DEF Times, n
<1> QED BY <1>9 DEF more

\* Past the end of a list there is no more of it.
LEMMA TimesBeyond ==
  ASSUME NEW X, NEW list \in Seq(X), NEW n \in Nat, Len(list) <= n, NEW s
  PROVE  Upto(At(list, s), n) = Times(list, s)
<1>1. Len(list) \in Nat /\ DOMAIN list = 1..Len(list)
  BY LenProperties
<1>2. At(list, s) \cap (1..n) = At(list, s) \cap (1..Len(list))
  BY <1>1 DEF At
<1> QED BY <1>2 DEF Upto, Times

LEMMA RemovedDomain ==
  ASSUME NEW removed \in Removals
  PROVE  \E n \in Nat : /\ DOMAIN removed = 1..n /\ Len(removed) = n
                        /\ \A k \in 1..n : removed[k] \in Ids /\ removed[k] \in Range(removed)
<1>1. PICK n \in 1..MaxRemoved : removed \in [1..n -> Ids]
  BY DEF Removals
<1>2. n \in Nat
  BY SpecConstants
<1>3. removed \in Seq(Ids)
  BY <1>1, <1>2, SeqDef
<1>4. Len(removed) = n
  BY <1>1, <1>2, <1>3, LenProperties
<1>5. \A k \in DOMAIN removed : removed[k] \in Range(removed)
  BY DEF Range
<1> QED BY <1>1, <1>2, <1>4, <1>5

\* Which of the sections that are named have a slot.
Tagged(removed, s) == {m \in DOMAIN removed : sections[removed[m]].slot = s}

Rides(ride, removed, n) ==
  ride = [k \in 0..n |-> IF k = 0 THEN <<>> ELSE ride[k - 1] \o Tag(removed[k])]

LEMMA RidesExist ==
  ASSUME NEW removed, NEW n \in Nat PROVE \E ride : Rides(ride, removed, n)
<1> SUFFICES ASSUME ~ \E ride : Rides(ride, removed, n) PROVE FALSE
  OBVIOUS
<1> DEFINE T == {k \in Nat : ~ \E ride : Rides(ride, removed, k)}
<1>1. PICK m \in T : \A k \in T : m <= k
  <2>1. T \in SUBSET Nat /\ T # {}
    OBVIOUS
  <2> HIDE DEF T
  <2> QED BY <2>1, Least
<1>2. m # 0
  <2>1. Rides([k \in {0} |-> <<>>], removed, 0)
    <3>1. 0..0 = {0}
      OBVIOUS
    <3> QED BY <3>1 DEF Rides
  <2> QED BY <2>1
<1>3. m - 1 \in Nat /\ m - 1 \notin T
  BY <1>1, <1>2
<1>4. PICK g : Rides(g, removed, m - 1)
  BY <1>3
<1> DEFINE h == [k \in 0..m |-> IF k = m THEN g[m - 1] \o Tag(removed[m]) ELSE g[k]]
<1>5. Rides(h, removed, m)
  <2>1. ASSUME NEW k \in 0..m
        PROVE  h[k] = IF k = 0 THEN <<>> ELSE h[k - 1] \o Tag(removed[k])
    <3>1. CASE k = m
      <4>1. m - 1 \in 0..m /\ m - 1 # m
        BY <1>2
      <4> QED BY <3>1, <4>1, <1>2
    <3>2. CASE k # m
      <4>1. k \in 0..(m - 1)
        BY <3>2
      <4>2. g[k] = IF k = 0 THEN <<>> ELSE g[k - 1] \o Tag(removed[k])
        BY <1>4, <4>1 DEF Rides
      <4>3. k # 0 => k - 1 \in 0..m /\ k - 1 # m
        BY <4>1
      <4> QED BY <3>2, <4>2, <4>3
    <3> QED BY <3>1, <3>2
  <2>2. h = [k \in 0..m |-> h[k]]
    OBVIOUS
  <2> HIDE DEF h
  <2>3. [k \in 0..m |-> h[k]]
          = [k \in 0..m |-> IF k = 0 THEN <<>> ELSE h[k - 1] \o Tag(removed[k])]
    BY <2>1
  <2> QED BY <2>2, <2>3 DEF Rides
<1> QED BY <1>5, <1>1

\* The slots that ride on a restatement: each as often as a section that has it is named.
LEMMA SlotsTyped ==
  ASSUME TypeOK, NEW removed \in Removals
  PROVE  /\ slotsOf(removed) \in Seq(SlotSet \cap {sections[i].slot : i \in Range(removed)})
         /\ Len(slotsOf(removed)) \in Nat
         /\ \A k \in DOMAIN slotsOf(removed) :
              slotsOf(removed)[k] \in SlotSet \cap {sections[i].slot : i \in Range(removed)}
         /\ \A s \in SlotSet :
              Times(slotsOf(removed), s) = Upto(Tagged(removed, s), Len(removed))
<1> DEFINE n == Len(removed)
           S == SlotSet \cap {sections[i].slot : i \in Range(removed)}
           ride == CHOOSE r : Rides(r, removed, n)
<1>1. /\ n \in Nat /\ DOMAIN removed = 1..n
      /\ \A k \in 1..n : removed[k] \in Ids /\ removed[k] \in Range(removed)
  BY RemovedDomain
<1>2. ASSUME NEW k \in 1..n
      PROVE  \/ /\ sections[removed[k]].slot = NoSlot /\ Tag(removed[k]) = <<>>
             \/ /\ sections[removed[k]].slot \in S
                /\ Tag(removed[k]) = <<sections[removed[k]].slot>>
  <2>1. sections[removed[k]].slot \in SlotSet \cup {NoSlot}
    BY <1>1, SectionsTyped DEF Section
  <2> QED BY <1>1, <2>1 DEF Tag
<1>3. Rides(ride, removed, n)
  BY <1>1, RidesExist
<1>4. slotsOf(removed) = ride[n]
  BY DEF slotsOf, Rides
<1> HIDE DEF ride, S, n
<1>5. ride[0] = <<>> /\ \A k \in 1..n : ride[k] = ride[k - 1] \o Tag(removed[k])
  <2>1. ride[0] = <<>>
    <3>1. 0 \in 0..n
      BY <1>1
    <3> QED BY <1>3, <3>1 DEF Rides
  <2>2. ASSUME NEW k \in 1..n PROVE ride[k] = ride[k - 1] \o Tag(removed[k])
    <3>1. k \in 0..n /\ k # 0
      BY <1>1
    <3> QED BY <1>3, <3>1 DEF Rides
  <2> QED BY <2>1, <2>2
<1> DEFINE Right(k) ==
             /\ ride[k] \in Seq(S)
             /\ \A s \in SlotSet : Times(ride[k], s) = Upto(Tagged(removed, s), k)
<1>6. Right(0)
  <2>1. <<>> \in Seq(S)
    OBVIOUS
  <2> QED BY <1>5, <2>1, TimesNone, UptoStep
<1>7. ASSUME NEW k \in 1..n, Right(k - 1) PROVE Right(k)
  <2> DEFINE before == ride[k - 1]
             x == sections[removed[k]].slot
  <2>1. k - 1 \in Nat /\ (k - 1) + 1 = k
    BY <1>1
  <2>2. ASSUME NEW s
        PROVE  Upto(Tagged(removed, s), k)
                 = Upto(Tagged(removed, s), k - 1) + (IF x = s THEN 1 ELSE 0)
    <3>1. k \in Tagged(removed, s) <=> x = s
      BY <1>1 DEF Tagged
    <3> DEFINE M == Tagged(removed, s)
    <3>2. Upto(M, (k - 1) + 1) = Upto(M, k - 1) + (IF (k - 1) + 1 \in M THEN 1 ELSE 0)
      BY <2>1, UptoStep
    <3> QED BY <2>1, <3>1, <3>2
  <2>3. CASE x = NoSlot
    <3>1. ride[k] = before \o <<>> /\ before \in Seq(S)
      BY <1>2, <1>5, <1>7, <2>3, SpecConstants DEF S
    <3>2. ride[k] = before
      BY <3>1, ConcatEmptySeq
    <3>3. ASSUME NEW s \in SlotSet PROVE Times(ride[k], s) = Upto(Tagged(removed, s), k)
      <4>1. Times(before, s) = Upto(Tagged(removed, s), k - 1)
        BY <1>7
      <4>2. x # s
        BY <2>3, SpecConstants
      <4>3. Upto(Tagged(removed, s), k - 1) \in Nat
        BY <2>1, UptoStep
      <4> QED BY <2>2, <3>2, <4>1, <4>2, <4>3
    <3> QED BY <3>1, <3>2, <3>3
  <2>4. CASE x # NoSlot
    <3>1. x \in S /\ ride[k] = before \o <<x>> /\ before \in Seq(S)
      BY <1>2, <1>5, <1>7, <2>4
    <3>2. ride[k] \in Seq(S)
      BY <3>1, ConcatProperties
    <3>3. ASSUME NEW s \in SlotSet PROVE Times(ride[k], s) = Upto(Tagged(removed, s), k)
      <4>1. Times(before, s) = Upto(Tagged(removed, s), k - 1)
        BY <1>7
      <4> HIDE DEF x, before
      <4>2. Times(before \o <<x>>, s) = Times(before, s) + (IF x = s THEN 1 ELSE 0)
        BY <3>1, TimesOneMore
      <4> QED BY <2>2, <3>1, <4>1, <4>2
    <3> QED BY <3>2, <3>3
  <2> QED BY <2>3, <2>4
<1>8. Right(n)
  <2> SUFFICES ASSUME ~ Right(n) PROVE FALSE
    OBVIOUS
  <2> DEFINE T == {k \in 0..n : ~ Right(k)}
  <2>1. PICK m \in T : \A k \in T : m <= k
    <3>1. T \in SUBSET Nat /\ T # {}
      BY <1>1
    <3> HIDE DEF T
    <3> QED BY <3>1, Least
  <2>2. m # 0
    BY <1>6, <2>1
  <2>3. m \in 1..n /\ m - 1 \in 0..n /\ m - 1 \notin T
    BY <1>1, <2>1, <2>2
  <2> HIDE DEF Right
  <2> QED BY <1>7, <2>1, <2>3
<1>9. /\ slotsOf(removed) \in Seq(S)
      /\ \A s \in SlotSet : Times(slotsOf(removed), s) = Upto(Tagged(removed, s), n)
  BY <1>4, <1>8
<1>10. /\ Len(slotsOf(removed)) \in Nat
       /\ \A k \in DOMAIN slotsOf(removed) : slotsOf(removed)[k] \in S
  BY <1>9, LenProperties, ElementOfSeq
<1> QED BY <1>9, <1>10 DEF S, n

\* The operations of a restatement: what it takes away and what it puts there.
LEMMA RestateIs ==
  ASSUME TypeOK, NEW removed \in Removals, NEW new \in Replacements, Signing(Said(new)),
         NEW W \in SUBSET SlotSet, restateSections(removed, new),
         \A i \in Range(removed) : sections[i].slot \notin W
  PROVE  \E taken, added :
           /\ Do(taken \o added)
           /\ SafeOps(taken, signed', {}, W) /\ SafeOps(added, signed', {}, W)
           /\ DOMAIN taken = DOMAIN removed /\ DOMAIN added = DOMAIN new
           /\ \A k \in DOMAIN removed : taken[k] = RemoveElement("sections", removed[k])
           /\ \A k \in DOMAIN new :
                /\ added[k].op = "addElement" /\ added[k].list = "sections"
                /\ added[k].element.slot =
                     IF k \in DOMAIN slotsOf(removed) THEN slotsOf(removed)[k] ELSE NoSlot
<1> DEFINE gone == Range(removed)
           slots == slotsOf(removed)
           first == CHOOSE i \in gone : \A j \in gone : i <= j
           depth(k) == IF k \in DOMAIN slots THEN 0 ELSE new[k].depth
           taken == [k \in DOMAIN removed |-> RemoveElement("sections", removed[k])]
           slot(k) == IF k \in DOMAIN slots THEN slots[k] ELSE NoSlot
           added == [k \in DOMAIN new |->
                       AddElement("sections",
                         NewSection(Minted(k), new[k].draft, depth(k), slot(k), "human-verified"),
                         first + k - 2)]
<1>1. Do(taken \o added)
  BY DEF restateSections
<1>2. SafeOps(taken, signed', {}, W)
  <2>1. PICK n \in Nat : /\ DOMAIN removed = 1..n
                          /\ \A k \in 1..n : removed[k] \in Ids /\ removed[k] \in Range(removed)
    BY RemovedDomain
  <2>2. taken = [k \in 1..n |-> taken[k]]
    BY <2>1
  <2>3. \A k \in 1..n : Safe(taken[k], signed', {}, W)
    BY <2>1, SafeRemove
  <2> HIDE DEF taken
  <2> QED BY <2>2, <2>3, BuiltSafe
<1>3. SafeOps(added, signed', {}, W)
  <2>1. PICK n \in Nat : DOMAIN new = 1..n /\ \A k \in 1..n : new[k] \in Replacement
    BY DEF Replacements
  <2>2. ASSUME NEW k \in 1..n PROVE Safe(added[k], signed', {}, W)
    <3>1. new[k].draft \in Drafts /\ new[k].depth \in Nat
      BY <2>1, DepthsNat DEF Replacement
    <3>2. new[k].draft.text \in signed'
      BY <2>1 DEF Signing, Said
    <3>3. slot(k) \in SlotSet \cup {NoSlot} /\ depth(k) \in Nat /\ slot(k) \notin W
      <4>1. NoSlot \notin W
        BY SpecConstants
      <4> QED BY <3>1, <4>1, SlotsTyped
    <3>4. Minted(k) \in Nat /\ Minted(k) \notin Ids
      <4>1. k \in Nat \ {0}
        BY <2>1
      <4> QED BY <4>1, MintedIsNew
    <3> HIDE DEF depth, slot, first
    <3>5. added[k] = AddElement("sections",
                       NewSection(Minted(k), new[k].draft, depth(k), slot(k), "human-verified"),
                       first + k - 2)
      BY <2>1
    <3>6. Safe(AddElement("sections",
                 NewSection(Minted(k), new[k].draft, depth(k), slot(k), "human-verified"),
                 first + k - 2), signed', {}, W)
      BY <3>1, <3>2, <3>3, <3>4, NewSectionSafe
    <3> QED BY <3>5, <3>6
  <2>3. added = [k \in 1..n |-> added[k]]
    BY <2>1
  <2> HIDE DEF added
  <2> QED BY <2>2, <2>3, BuiltSafe
<1>4. DOMAIN taken = DOMAIN removed /\ DOMAIN added = DOMAIN new
  OBVIOUS
<1>5. \A k \in DOMAIN removed : taken[k] = RemoveElement("sections", removed[k])
  OBVIOUS
<1>6. \A k \in DOMAIN new : /\ added[k].op = "addElement" /\ added[k].list = "sections"
                            /\ added[k].element.slot = slot(k)
  BY DEF AddElement, NewSection
<1> HIDE DEF taken, added
<1> QED BY <1>1, <1>2, <1>3, <1>4, <1>5, <1>6

LEMMA RestateSafe ==
  ASSUME TypeOK, NEW removed \in Removals, NEW new \in Replacements, Signing(Said(new)),
         NEW W \in SUBSET SlotSet, restateSections(removed, new),
         \A i \in Range(removed) : sections[i].slot \notin W
  PROVE  Regular(W)
<1>1. PICK taken, added : /\ Do(taken \o added)
                          /\ SafeOps(taken, signed', {}, W) /\ SafeOps(added, signed', {}, W)
  BY RestateIs
<1>2. Said(new) \subseteq Texts
  BY DEF Said, Replacements, Replacement, Texts, TextsOf
<1> QED BY <1>1, <1>2, ConcatSafe, Vouched

LEMMA RewriteRegular ==
  ASSUME TypeOK, VerifiedWasSigned, IdsArePositions(page), Rewrite, NEW W \in SUBSET SlotSet,
         \A removed \in Removals, new \in Replacements :
           Signing(Said(new)) /\ restateSections(removed, new) => \A i \in Range(removed) : sections[i].slot \notin W
  PROVE  Regular(W)
<1>t. /\ Len(sections) \in Nat /\ Ids = 1..Len(sections)
      /\ \A i \in Ids : sections[i] \in Section
      /\ Minted(1) \in Nat /\ Minted(1) \notin Ids /\ NoSlot \notin W
  BY SectionsTyped, MintedIsNew, SpecConstants
<1>1. ASSUME NEW removed \in Removals, NEW new \in Replacements, restateSections(removed, new),
             Signing(Said(new))
      PROVE  Regular(W)
  BY <1>1, RestateSafe
<1>2. ASSUME NEW d \in Drafts, NEW before \in {0} \cup Ids, NEW depth \in Depths,
             addSection(before, d, depth), Signing({d.text})
      PROVE  Regular(W)
  <2> DEFINE at == IF before = 0 THEN Len(sections) ELSE before - 1
             op == AddElement("sections",
                              NewSection(Minted(1), d, depth, NoSlot, "human-verified"), at)
  <2>1. Safe(op, signed', {}, W)
    <3>1. d.text \in signed'
      BY <1>2 DEF Signing
    <3> HIDE DEF at
    <3> QED BY <1>t, <3>1, NewSectionSafe, DepthsNat
  <2>2. Do(<<op>>)
    BY <1>2 DEF addSection
  <2> HIDE DEF op
  <2>3. SafeOps(<<op>>, signed', {}, W)
    BY <2>1, OneSafe
  <2>4. {d.text} \in SUBSET Texts
    BY DEF Texts, TextsOf
  <2> QED BY <1>2, <2>2, <2>3, <2>4, Vouched
<1>3. ASSUME NEW i \in Ids, removeSection(i), Signing({}) PROVE Regular(W)
  <2> DEFINE ops == [j \in subtree(i) |-> RemoveElement("sections", j)]
  <2>1. ASSUME NEW j \in subtree(i) PROVE Safe(ops[j], signed', {}, W)
    <3>1. j \in Ids /\ sections[j].slot = NoSlot
      BY <1>3, SubtreeRun DEF removeSection
    <3> QED BY <1>t, <3>1, SafeRemove
  <2>2. Do(Each(subtreeRun(i), ops))
    BY <1>3 DEF removeSection
  <2> HIDE DEF ops
  <2>3. signed' = signed
    BY <1>3 DEF Signing
  <2> QED BY <2>1, <2>2, <2>3, SubtreeSafe, Plain
<1>4. ASSUME NEW i \in Ids, NEW words \in SUBSET Texts, NEW reverify \in BOOLEAN, NEW rest,
             NEW texts \in SUBSET Texts, Signing(texts),
             reverify => words \subseteq signed' /\ sections[i].words \subseteq signed',
             SafeOps(rest, signed', IF reverify THEN {i} ELSE {}, W),
             Do(rewriteBody(i, words, reverify) \o rest)
      PROVE  Regular(W)
  <2> DEFINE U == IF reverify THEN {i} ELSE {}
  <2>1. Safe(Set(i, "words", words), signed', U, W)
    BY <1>4, SafeSet
  <2>2. SafeOps(Downgrade(i), signed', U, W)
    BY DowngradeSafe
  <2>3. SafeOps(IF reverify THEN <<Step(i, "verify")>> ELSE <<>>, signed', U, W)
    BY SafeStep, OneSafe, EmptySafe
  <2>4. SafeOps(rewriteBody(i, words, reverify), signed', U, W)
    BY <2>1, <2>2, <2>3, OneSafe, ConcatSafe DEF rewriteBody
  <2>5. SafeOps(rewriteBody(i, words, reverify) \o rest, signed', U, W)
    BY <1>4, <2>4, ConcatSafe
  <2>6. \A j \in Ids \cap U : sections[j].words \subseteq signed'
    BY <1>4
  <2>7. signed \subseteq signed' /\ signed' \subseteq Texts
    BY <1>4 DEF Signing, TypeOK
  <2> HIDE DEF U
  <2> QED BY <1>4, <2>5, <2>6, <2>7 DEF Regular
<1>5. ASSUME NEW i \in Ids, joinSections(i), Signing({}) PROVE Regular(W)
  <2> DEFINE words == Words({i, i + 1})
  <2>1. i + 1 \in Ids
    BY <1>t, <1>5 DEF joinSections
  <2>2. words = sections[i].words \cup sections[i + 1].words
    BY DEF Words
  <2>3. words \in SUBSET Texts
    BY <1>t, <2>1, <2>2 DEF Section
  <2>4. stays(i) \in BOOLEAN
    BY DEF stays, Verified
  <2>5. stays(i) => words \subseteq signed' /\ sections[i].words \subseteq signed'
    BY <1>5, <2>1, <2>2 DEF stays, VerifiedWasSigned, Signing
  <2>6. SafeOps(<<RemoveElement("sections", i + 1)>>, signed', IF stays(i) THEN {i} ELSE {}, W)
    <3>1. sections[i + 1].slot \notin W
      BY <1>t, <1>5 DEF joinSections
    <3> QED BY <2>1, <3>1, SafeRemove, OneSafe
  <2>7. Do(rewriteBody(i, words, stays(i)) \o <<RemoveElement("sections", i + 1)>>)
    BY <1>5 DEF joinSections
  <2> HIDE DEF words
  <2> QED BY <1>4, <1>5, <2>3, <2>4, <2>5, <2>6, <2>7
<1>6. ASSUME NEW i \in Ids, NEW top \in SUBSET Texts, NEW bottom \in SUBSET Texts,
             NEW title \in Titles, NEW sub \in BOOLEAN,
             splitSection(i, top, bottom, title, sub),
             Signing(IF Verified(sections[i]) THEN top \cup bottom ELSE {})
      PROVE  Regular(W)
  <2> DEFINE v == Verified(sections[i])
             half == [NewSection(Minted(1), [title |-> title, text |-> {}],
                                 sections[i].depth + (IF sub THEN 1 ELSE 0), NoSlot,
                                 sections[i].status)
                        EXCEPT !.words = bottom]
             texts == IF v THEN top \cup bottom ELSE {}
  <2>1. v \in BOOLEAN /\ texts \in SUBSET Texts /\ Signing(texts)
    BY <1>6 DEF Verified
  <2>2. v => /\ sections[i].words \subseteq signed'
             /\ top \subseteq signed' /\ bottom \subseteq signed'
    BY <1>6 DEF VerifiedWasSigned, Signing
  <2>3. half \in Clean(signed', IF v THEN {i} ELSE {})
    <3>1. half = [id |-> Minted(1), title |-> title, words |-> bottom,
                  depth |-> sections[i].depth + (IF sub THEN 1 ELSE 0), slot |-> NoSlot,
                  status |-> sections[i].status]
      BY DEF NewSection
    <3>2. sections[i].depth + (IF sub THEN 1 ELSE 0) \in Nat /\ Minted(1) \in Nat
      <4>1. sections[i].depth \in Nat /\ (IF sub THEN 1 ELSE 0) \in Nat
        BY <1>t DEF Section
      <4>2. Minted(1) \in Nat
        BY <1>t
      <4>3. \A a, b \in Nat : a + b \in Nat
        OBVIOUS
      <4> QED BY <4>1, <4>2, <4>3
    <3>3. half \in Section
      <4>1. sections[i].status \in {"ai-draft", "human-verified"}
        BY <1>t DEF Section
      <4>2. NoSlot \in SlotSet \cup {NoSlot}
        OBVIOUS
      <4>3. \A n, d \in Nat, st \in {"ai-draft", "human-verified"} :
              [id |-> n, title |-> title, words |-> bottom, depth |-> d, slot |-> NoSlot,
               status |-> st] \in Section
        BY <4>2 DEF Section
      <4> HIDE DEF half
      <4> QED BY <3>1, <3>2, <4>1, <4>3
    <3>4. half.words = bottom /\ half.status = sections[i].status /\ half.id = Minted(1)
      BY <3>1
    <3>5. Verified(half) => v
      BY <3>4 DEF Verified
    <3>6. v => half.words \subseteq signed'
      BY <2>2, <3>4
    <3> HIDE DEF half, v
    <3> QED BY <3>3, <3>5, <3>6 DEF Clean
  <2>4. SafeOps(<<AddElement("sections", half, i)>>, signed', IF v THEN {i} ELSE {}, W)
    <3>1. half.slot = NoSlot /\ half.id = Minted(1)
      BY DEF NewSection
    <3> HIDE DEF half, v
    <3> QED BY <1>t, <2>3, <3>1, SafeAdd, OneSafe
  <2>5. Do(rewriteBody(i, top, v) \o <<AddElement("sections", half, i)>>)
    BY <1>6 DEF splitSection
  <2> HIDE DEF half, v, texts
  <2> QED BY <1>4, <2>1, <2>2, <2>4, <2>5
<1> QED BY <1>1, <1>2, <1>3, <1>5, <1>6 DEF Rewrite

LEMMA WordsIn ==
  ASSUME TypeOK, NEW ids \in SUBSET Ids PROVE Words(ids) \subseteq Texts
BY SectionsTyped DEF Words, Section

LEMMA StepsSafe ==
  ASSUME TypeOK, NEW ids \in SUBSET Ids, NEW T, NEW U, NEW W, NEW event,
         \/ event = "verify" /\ U = ids
         \/ event = "reviseAsDraft"
  PROVE  SafeOps(Each(SetToSeq(ids), [i \in ids |-> Step(i, event)]), T, U, W)
<1> DEFINE ops == [i \in ids |-> Step(i, event)]
<1>1. IsFiniteSet(ids)
  <2>1. Ids = 1..Len(sections) /\ Len(sections) \in Nat
    BY SectionsTyped
  <2>2. IsFiniteSet(Ids)
    BY <2>1, FS_Interval
  <2> QED BY <2>2, FS_Subset
<1>2. \A i \in ids : Safe(ops[i], T, U, W)
  BY SafeStep
<1> HIDE DEF ops
<1>3. SafeOps(Each(SetToSeq(ids), ops), T, U, W)
  BY <1>1, <1>2, SetSafe
<1> QED BY <1>3 DEF ops

LEMMA JudgeRegular ==
  ASSUME TypeOK, NEW W, NEW ids \in SUBSET Ids,
         \/ acceptSections(ids) /\ Signing(Words(ids))
         \/ unacceptSections(ids) /\ Signing({})
  PROVE  Regular(W)
<1>1. CASE acceptSections(ids) /\ Signing(Words(ids))
  <2> DEFINE ops == Each(SetToSeq(ids), [i \in ids |-> Step(i, "verify")])
  <2>1. Do(ops)
    BY <1>1 DEF acceptSections
  <2>2. SafeOps(ops, signed', ids, W)
    BY StepsSafe
  <2>3. signed' = signed \cup Words(ids)
    BY <1>1 DEF Signing
  <2>4. signed \subseteq signed' /\ signed' \subseteq Texts
    BY <2>3, WordsIn DEF TypeOK
  <2>5. \A i \in Ids \cap ids : sections[i].words \subseteq signed'
    BY <2>3 DEF Words
  <2> HIDE DEF ops
  <2> QED BY <2>1, <2>2, <2>4, <2>5 DEF Regular
<1>2. CASE unacceptSections(ids) /\ Signing({})
  <2> DEFINE ops == Each(SetToSeq(ids), [i \in ids |-> Step(i, "reviseAsDraft")])
  <2>1. Do(ops)
    BY <1>2 DEF unacceptSections
  <2>2. SafeOps(ops, signed', {}, W)
    BY StepsSafe
  <2>3. signed' = signed
    BY <1>2 DEF Signing
  <2> HIDE DEF ops
  <2> QED BY <2>1, <2>2, <2>3, Plain
<1> QED BY <1>1, <1>2

\* The generated commands that do not care for the slots.
SlotsEdited ==
  \/ \E i \in Ids : \/ removeSectionsItemsElement(i)
                    \/ \E s \in SlotSet \cup {NoSlot} : setSectionsItemsField(i, "slot", s)
  \/ \E d \in Drafts, s \in SlotSet, depth \in Depths : addSectionsItemsElement(d, s, depth)

LEMMA GeneratedRegular ==
  ASSUME TypeOK, Generated, signed' = signed, NEW W \in SUBSET SlotSet,
         W = {} \/ ~ SlotsEdited
  PROVE  Regular(W)
<1>1. ASSUME NEW d \in Drafts, NEW slot \in SlotSet \cup {NoSlot}, NEW depth \in Depths,
             addSectionsItemsElement(d, slot, depth)
      PROVE  Regular(W)
  <2> DEFINE op == AddElement("sections", NewSection(Minted(1), d, depth, slot, "ai-draft"),
                              Len(sections))
  <2>1. Safe(op, signed', {}, W)
    <3>1. Minted(1) \in Nat /\ Minted(1) \notin Ids /\ slot \notin W
      BY <1>1, MintedIsNew, SpecConstants DEF SlotsEdited
    <3> QED BY <3>1, NewSectionSafe, DepthsNat
  <2>2. Do(<<op>>)
    BY <1>1 DEF addSectionsItemsElement
  <2> HIDE DEF op
  <2> QED BY <2>1, <2>2, OneSafe, Plain
<1>2. ASSUME NEW op, Do(<<op>>), Safe(op, signed', {}, W) PROVE Regular(W)
  BY <1>2, OneSafe, Plain
<1>3. ASSUME NEW i \in Ids, removeSectionsItemsElement(i) PROVE Regular(W)
  <2>1. Safe(RemoveElement("sections", i), signed', {}, W)
    BY <1>3, SafeRemove DEF SlotsEdited
  <2> QED BY <1>2, <1>3, <2>1 DEF removeSectionsItemsElement
<1>4. ASSUME NEW i \in Ids, NEW to, moveSectionsItemsElement(i, to) PROVE Regular(W)
  <2>1. Safe(MoveElement("sections", i, to), signed', {}, W)
    BY SafeMove
  <2> QED BY <1>2, <1>4, <2>1 DEF moveSectionsItemsElement
<1>5. ASSUME NEW i \in Ids, NEW field, NEW value, setSectionsItemsField(i, field, value),
             \/ field = "words" /\ value \in SUBSET Texts
             \/ field = "title" /\ value \in Titles
             \/ field = "depth" /\ value \in Nat
             \/ field = "slot" /\ value \in SlotSet \cup {NoSlot} /\ W = {}
      PROVE  Regular(W)
  <2>1. Safe(Set(i, field, value), signed', {}, W)
    BY <1>5, SafeSet
  <2> QED BY <1>2, <1>5, <2>1 DEF setSectionsItemsField
<1>6. ASSUME NEW n, removeReviewNotesElement(n) PROVE Regular(W)
  <2>1. Safe(RemoveElement("review", n), signed', {}, W)
    <3>1. [id |-> 0, status |-> "open"] \in Note
      BY DEF Note
    <3> QED BY <3>1, SafeNotes
  <2> QED BY <1>2, <1>6, <2>1 DEF removeReviewNotesElement
<1>7. ASSUME addReviewNotesElement PROVE Regular(W)
  <2>1. Do(NewNotes(1))
    BY <1>7 DEF addReviewNotesElement
  <2> QED BY <2>1, NewNotesSafe, Plain
<1>8. ASSUME NEW v \in BOOLEAN, setReviewSummary(v) PROVE Regular(W)
  <2>1. Safe(SetSummary(v), signed', {}, W)
    BY SafeSummary
  <2> QED BY <1>2, <1>8, <2>1 DEF setReviewSummary
<1>9. ASSUME NEW i \in Ids,
             \/ \E w \in Texts : setSectionsItemsField(i, "words", {w})
             \/ \E t \in Titles : setSectionsItemsField(i, "title", t)
             \/ \E d \in Depths : setSectionsItemsField(i, "depth", d)
             \/ \E s \in SlotSet \cup {NoSlot} : setSectionsItemsField(i, "slot", s)
      PROVE  Regular(W)
  <2>1. \A w \in Texts : {w} \in SUBSET Texts
    OBVIOUS
  <2>2. (\E s \in SlotSet \cup {NoSlot} : setSectionsItemsField(i, "slot", s)) => W = {}
    BY DEF SlotsEdited
  <2> QED BY <1>5, <1>9, <2>1, <2>2, DepthsNat
<1> QED BY <1>1, <1>3, <1>4, <1>6, <1>7, <1>8, <1>9 DEF Generated

\* The commands of the page: all but moveItem.
PageCommand == Declared \/ (Generated /\ Signing({}))

\* What a command is: safe operations, or the approval.
LEMMA CommandRegular ==
  ASSUME TypeOK, VerifiedWasSigned, IdsArePositions(page),
         PageCommand, NEW W \in SUBSET SlotSet, W = {} \/ ~ SlotsEdited,
         \A s \in W : Filling(s) # {},
         \A removed \in Removals, new \in Replacements :
           Signing(Said(new)) /\ restateSections(removed, new) =>
             \A i \in Range(removed) : sections[i].slot \notin W
  PROVE  Regular(W) \/ (approve /\ signed' = signed)
<1>1. ASSUME ByAgent \/ Restructure \/ approve \/ reopenRestating \/ reopen, Signing({})
      PROVE  Regular(W) \/ (approve /\ signed' = signed)
  <2>1. signed' = signed
    BY <1>1 DEF Signing
  <2>2. CASE reopenRestating \/ reopen
    <3>1. PICK event \in {"reopenRestating", "reopen"} : Do(<<PageTransition(event)>>)
      BY <2>2 DEF reopenRestating, reopen, Move
    <3>2. Safe(PageTransition(event), signed', {}, W)
      BY SafeTransition
    <3> QED BY <2>1, <3>1, <3>2, OneSafe, Plain
  <2> QED BY <1>1, <2>1, <2>2, AgentRegular, StructureRegular
<1>2. ASSUME Generated, Signing({}) PROVE Regular(W)
  BY <1>2, GeneratedRegular DEF Signing
<1>3. ASSUME NEW ids \in SUBSET Ids,
             \/ acceptSections(ids) /\ Signing(Words(ids))
             \/ unacceptSections(ids) /\ Signing({})
      PROVE  Regular(W)
  BY <1>3, JudgeRegular
<1>4. ASSUME Rewrite PROVE Regular(W)
  BY <1>4, RewriteRegular
<1> QED BY <1>1, <1>2, <1>3, <1>4 DEF PageCommand, Declared

-----------------------------------------------------------------------------
(* The inductive invariant.                                                 *)

SpecInv == TypeOK /\ IdsArePositions(page) /\ VerifiedWasSigned

LEMMA CleanSections ==
  ASSUME TypeOK, IdsArePositions(page), VerifiedWasSigned,
         NEW T, signed \subseteq T, NEW U, \A i \in Ids \cap U : sections[i].words \subseteq T,
         NEW A, page.status \in A
  PROVE  page \in PageOf(A, Clean(T, U))
<1>1. ASSUME NEW i \in Ids PROVE sections[i] \in Clean(T, U)
  <2>1. sections[i] \in Section /\ sections[i].id = i
    BY SectionsTyped DEF IdsArePositions, Ids, sections
  <2>2. Verified(sections[i]) => sections[i].words \subseteq T
    BY DEF VerifiedWasSigned
  <2> QED BY <2>1, <2>2 DEF Clean
<1>2. page.sections \in Seq(Clean(T, U))
  <2>1. sections \in [1..Len(sections) -> Clean(T, U)]
    <3>1. sections = [i \in 1..Len(sections) |-> sections[i]]
      BY SectionsTyped, LenProperties
    <3> QED BY <1>1, <3>1, SectionsTyped
  <2> QED BY <2>1, SectionsTyped, SeqDef DEF sections
<1> QED BY <1>2 DEF PageOf, TypeOK, Page

\* The page that is left is of the type, and what it verifies is vouched for.
LEMMA CleanAfter ==
  ASSUME NEW A \in SUBSET Statuses, page' \in PageOf(A, Clean(signed', {})), signed' \subseteq Texts
  PROVE  TypeOK' /\ VerifiedWasSigned' /\ page'.status \in A
<1>1. page'.sections \in Seq(Clean(signed', {})) /\ Clean(signed', {}) \subseteq Section
  BY DEF PageOf, Clean
<1>2. page'.sections \in Seq(Section)
  BY <1>1, SeqMonotonic
<1>3. TypeOK' /\ page'.status \in A
  BY <1>2 DEF TypeOK, Page, PageOf
<1>4. ASSUME NEW i \in Ids', Verified(sections'[i]) PROVE sections'[i].words \subseteq signed'
  <2>1. sections'[i] \in Clean(signed', {})
    BY <1>1, LenProperties, ElementOfSeq DEF Ids, sections
  <2> QED BY <1>4, <2>1 DEF Clean
<1>5. VerifiedWasSigned'
  BY <1>4 DEF VerifiedWasSigned
<1> QED BY <1>3, <1>5

\* A page that came to nothing but lifecycle stays complete.
LEMMA StaysComplete ==
  ASSUME page \in PageOf(Statuses, Section), NEW ops, AllHarmless(ops, Statuses, Section), Do(ops),
         \A k \in DOMAIN ops : Lifecycle(ops[k]),
         noOpenNotes, slotsCovered, slotShape, citationsResolve,
         TypeOK', page'.status = "approved"
  PROVE  ~ Incomplete'
<1>1. Decide(page, ops).legal /\ page' = Decide(page, ops).page
  BY DEF Do
<1>2. NoOpen(page.review)
  BY DEF noOpenNotes, OpenNotes, NoOpen
<1>3. Alike(page.sections, page'.sections) /\ NoOpen(page'.review)
  BY <1>1, <1>2, LifecycleDecision
<1>4. GatesIn(page.sections)
  BY GatesAre
<1>5. page.sections \in Seq(Section) /\ page'.sections \in Seq(Section)
  BY DEF PageOf, TypeOK, Page
<1>6. GatesIn(page'.sections)
  BY <1>3, <1>4, <1>5, GatesAlike
<1>7. (slotsCovered /\ slotShape /\ citationsResolve)'
  <2>1. (GatesIn(page.sections) <=> slotsCovered /\ slotShape /\ citationsResolve)'
    BY GatesAre, PTL
  <2> QED BY <1>6, <2>1
<1>8. noOpenNotes'
  BY <1>3 DEF noOpenNotes, OpenNotes, NoOpen
<1>9. page'.summary
  <2>1. requiredIn(page')
    BY <1>1 DEF Decide
  <2> QED BY <2>1 DEF requiredIn
<1> QED BY <1>7, <1>8, <1>9 DEF Incomplete

LEMMA LifecycleHarmless ==
  ASSUME NEW op, Lifecycle(op), NEW X, Harmless(op, Statuses, X)
  PROVE  Harmless(op, Statuses, Section)
<1>1. ASSUME NEW s \in Section
      PROVE  [s EXCEPT !.status = After(elements["sections"], @, op.event)] \in Section
  <2>1. After(elements["sections"], s.status, op.event) \in {"ai-draft", "human-verified"}
    BY DEF After, Can, Edge, elements, Section
  <2> QED BY <2>1 DEF Section
<1>2. CASE op.op = "transition"
  BY <1>2 DEF Harmless
<1>3. CASE op.op = "step" /\ op.list \in Lists
  BY <1>1, <1>3 DEF Harmless, Lists
<1> QED BY <1>2, <1>3 DEF Lifecycle

LEMMA ApproveIs ==
  ASSUME TypeOK, approve
  PROVE  \E ops : /\ Do(ops) /\ AllHarmless(ops, Statuses, Section)
                  /\ \A k \in DOMAIN ops : Lifecycle(ops[k])
                  /\ \A T, U : AllHarmless(ops, Statuses, Clean(T, U))
<1> DEFINE op == PageTransition("approve")
<1>1. Do(<<op>>)
  BY DEF approve, Move
<1>2. \A st \in Statuses : After(statusTransitions, st, "approve") \in Statuses
  <2> SUFFICES ASSUME NEW st \in Statuses
               PROVE  After(statusTransitions, st, "approve") \in Statuses
    OBVIOUS
  <2>1. CASE Can(statusTransitions, st, "approve")
    <3>1. PICK e \in statusTransitions : Edge(e, st, "approve")
      BY <2>1 DEF Can
    <3>2. After(statusTransitions, st, "approve") = e[3]
      BY <3>1, AfterEdge DEF Edge
    <3>3. e[3] \in Statuses
      BY DEF statusTransitions, Statuses
    <3> QED BY <3>2, <3>3
  <2>2. CASE ~ Can(statusTransitions, st, "approve")
    BY <2>2 DEF After
  <2> QED BY <2>1, <2>2
<1>3. \A X : Harmless(op, Statuses, X)
  BY <1>2 DEF Harmless, PageTransition
<1>4. Lifecycle(op)
  BY DEF Lifecycle, PageTransition
<1> HIDE DEF op
<1>5. Operations(<<op>>) /\ DOMAIN <<op>> = {1} /\ <<op>>[1] = op
  BY DEF Operations
<1>6. \A X : AllHarmless(<<op>>, Statuses, X)
  BY <1>3, <1>5 DEF AllHarmless
<1>7. \A k \in DOMAIN <<op>> : Lifecycle(<<op>>[k])
  BY <1>4, <1>5
<1> QED BY <1>1, <1>6, <1>7

LEMMA CleanRenamed ==
  ASSUME NEW T, NEW U
  PROVE  /\ Renamed(Clean(T, U), Clean(T, {}))
         /\ Clean(T, U) \in SUBSET Section /\ Clean(T, {}) \in SUBSET Section
<1>1. ASSUME NEW e \in Clean(T, U), NEW i \in Nat PROVE [e EXCEPT !.id = i] \in Clean(T, {})
  <2>1. e \in Section /\ (Verified(e) => e.words \subseteq T)
    BY DEF Clean
  <2>2. /\ [e EXCEPT !.id = i] \in Section /\ [e EXCEPT !.id = i].words = e.words
        /\ [e EXCEPT !.id = i].status = e.status
    BY <2>1 DEF Section
  <2> QED BY <2>1, <2>2 DEF Clean, Verified
<1> QED BY <1>1 DEF Renamed, Clean

\* What a decision makes of a page whose sections are vouched for.
LEMMA DecidedPage ==
  ASSUME NEW A \in Lives, NEW ops, NEW U, NEW T, T = signed', T \subseteq Texts,
         page \in PageOf(A, Clean(T, U)), Do(ops), AllHarmless(ops, A, Clean(T, U))
  PROVE  /\ TypeOK' /\ VerifiedWasSigned' /\ page'.status \in A /\ IdsArePositions(page)'
         /\ Derived(page')
<1>1. A \in SUBSET Statuses /\ {"restating", "restated"} \subseteq A
  BY DEF Lives, Statuses
<1>2. Decide(page, ops).legal /\ page' = Decide(page, ops).page
  BY DEF Do
<1>3. page' \in PageOf(A, Clean(T, {})) /\ Derived(page') /\ IdsArePositions(page')
  BY <1>1, <1>2, CleanRenamed, DecisionFacts
<1>4. TypeOK' /\ VerifiedWasSigned' /\ page'.status \in A
  BY <1>1, <1>3, CleanAfter
<1> QED BY <1>3, <1>4

LEMMA SpecInvInit == Init => SpecInv
<1> SUFFICES ASSUME Init PROVE SpecInv
  OBVIOUS
<1>1. Len(Slots) \in Nat /\ DOMAIN Slots = 1..Len(Slots)
  BY SpecConstants, LenProperties
<1>2. ASSUME NEW i \in DOMAIN Slots
      PROVE  slotSeeds[i] \in Section /\ slotSeeds[i].id = i /\ ~ Verified(slotSeeds[i])
  <2>1. Slots[i] \in SlotSet /\ SlotTitle[Slots[i]] \in Titles
    BY SpecConstants DEF SlotSet
  <2>2. slotSeeds[i] = [id |-> i, title |-> SlotTitle[Slots[i]], words |-> {},
                        status |-> "ai-draft", slot |-> Slots[i], depth |-> 0]
    BY DEF slotSeeds
  <2> QED BY <1>1, <2>1, <2>2 DEF Section, Verified
<1>3. slotSeeds \in Seq(Section) /\ DOMAIN slotSeeds = DOMAIN Slots
  <2>1. slotSeeds = [i \in 1..Len(Slots) |-> slotSeeds[i]] /\ DOMAIN slotSeeds = 1..Len(Slots)
    BY <1>1 DEF slotSeeds
  <2>2. slotSeeds \in [1..Len(Slots) -> Section]
    BY <1>1, <1>2, <2>1
  <2> QED BY <1>1, <2>1, <2>2, SeqDef
<1>4. /\ page.status = "drafting" /\ page.sections = slotSeeds /\ page.review = <<>>
      /\ page.summary = FALSE /\ signed = Known
  BY DEF Init
<1>5. TypeOK
  <2>1. <<>> \in Seq(Note)
    OBVIOUS
  <2>2. page \in Page
    BY <1>3, <2>1 DEF Init, Page, Statuses
  <2> QED BY <1>4, <2>2, SpecConstants DEF TypeOK
<1>6. IdsArePositions(page)
  BY <1>2, <1>3, <1>4 DEF IdsArePositions
<1>7. VerifiedWasSigned
  BY <1>2, <1>3, <1>4 DEF VerifiedWasSigned, Ids, sections
<1> QED BY <1>5, <1>6, <1>7 DEF SpecInv

\* What a command of the page keeps, and what it may not do.
LEMMA PageCommandStep ==
  ASSUME SpecInv, PageCommand
  PROVE  SpecInv' /\ Derived(page') /\ (Incomplete' => Incomplete)
<1> USE DEF SpecInv
<1>1. page.status \in Statuses /\ page \in PageOf(Statuses, Section)
  BY DEF TypeOK, Page, PageOf
<1>2. CASE Regular({})
  <2>1. PICK ops, U : /\ Do(ops) /\ SafeOps(ops, signed', U, {})
                      /\ signed \subseteq signed' /\ signed' \subseteq Texts
                      /\ \A i \in Ids \cap U : sections[i].words \subseteq signed'
    BY <1>2 DEF Regular
  <2>2. \A A \in Lives : AllHarmless(ops, A, Clean(signed', U))
    BY <2>1 DEF SafeOps, Safe, AllHarmless
  <2>3. ASSUME NEW A \in Lives, page.status \in A
        PROVE  /\ TypeOK' /\ VerifiedWasSigned' /\ page'.status \in A /\ IdsArePositions(page)'
               /\ Derived(page')
    <3>1. page \in PageOf(A, Clean(signed', U))
      BY <2>1, <2>3, CleanSections
    <3> QED BY <2>1, <2>2, <3>1, DecidedPage
  <2>4. Statuses \in Lives /\ Statuses \ {"approved"} \in Lives
    BY DEF Lives
  <2>5. SpecInv' /\ Derived(page')
    BY <1>1, <2>3, <2>4
  <2>6. ASSUME Incomplete', ~ Incomplete PROVE FALSE
    <3>1. page'.status = "approved"
      BY <2>6 DEF Incomplete
    <3>2. page.status = "approved"
      BY <1>1, <2>3, <2>4, <3>1
    <3>3. noOpenNotes /\ slotsCovered /\ slotShape /\ citationsResolve
      BY <2>6, <3>2 DEF Incomplete
    <3>4. \A k \in DOMAIN ops : Allowed("approved", Applied(page, ops)[k - 1], ops[k])
      BY <2>1, <3>2 DEF Do, Decide
    <3>5. \A k \in DOMAIN ops : Lifecycle(ops[k])
      BY <2>2, <2>4, <3>4, ApprovedIsClosed DEF AllHarmless
    <3>6. AllHarmless(ops, Statuses, Section)
      BY <2>2, <2>4, <3>5, LifecycleHarmless DEF AllHarmless
    <3>7. ~ Incomplete'
      BY <1>1, <2>1, <2>5, <3>1, <3>3, <3>5, <3>6, StaysComplete
    <3> QED BY <2>6, <3>7
  <2> QED BY <2>5, <2>6
<1>3. CASE approve /\ signed' = signed
  <2>1. PICK ops : /\ Do(ops) /\ AllHarmless(ops, Statuses, Section)
                   /\ \A k \in DOMAIN ops : Lifecycle(ops[k])
                   /\ \A T, U : AllHarmless(ops, Statuses, Clean(T, U))
    BY <1>3, ApproveIs
  <2>2. page \in PageOf(Statuses, Clean(signed', {}))
    BY <1>1, <1>3, CleanSections
  <2>3. Statuses \in Lives /\ signed' \subseteq Texts
    BY <1>3 DEF Lives, TypeOK
  <2>4. /\ TypeOK' /\ VerifiedWasSigned' /\ page'.status \in Statuses /\ IdsArePositions(page)'
        /\ Derived(page')
    BY <2>1, <2>2, <2>3, DecidedPage
  <2>5. noOpenNotes /\ slotsCovered /\ slotShape /\ citationsResolve
    BY <1>3 DEF approve, approvable
  <2>6. ~ Incomplete'
    <3>1. CASE page'.status = "approved"
      BY <1>1, <2>1, <2>4, <2>5, <3>1, StaysComplete
    <3>2. CASE page'.status # "approved"
      BY <3>2 DEF Incomplete
    <3> QED BY <3>1, <3>2
  <2> QED BY <2>4, <2>6
<1> QED BY <1>2, <1>3, CommandRegular

\* moveItem asks nothing of the page: its operations are harmless as they are.
LEMMA MovedKeeps ==
  ASSUME SpecInv, NEW texts \in SUBSET Texts, Signing(texts), NEW ops, Moved(ops),
         Operations(ops),
         \A k \in DOMAIN ops :
           /\ Harmless(ops[k], Statuses, Clean(signed', {}))
           /\ ops[k].op \in {"addElement", "removeElement"} /\ ops[k].list \in Lists
  PROVE  SpecInv'
<1> DEFINE X == Clean(signed', {})
           q == Applied(page, ops)[Len(ops)]
<1>1. signed \subseteq signed' /\ signed' \subseteq Texts
  BY DEF Signing, TypeOK, SpecInv
<1>2. page \in PageOf(Statuses, X)
  BY <1>1, CleanSections DEF SpecInv, TypeOK, Page
<1>3. \A k \in DOMAIN ops : \A v : Allowed("restating", v, ops[k])
  BY DEF Allowed, Content, PageType, mutableIn, Lists
<1>4. \A k \in DOMAIN ops : \A v \in PageOf(Statuses, X) :
        Allowed("restating", v, ops[k]) => Apply(v, ops[k]) \in PageOf(Statuses, X)
  BY ApplyKeeps
<1>5. Renamed(X, X) /\ X \in SUBSET Section
  BY CleanRenamed
<1> HIDE DEF X
<1>6. q \in PageOf(Statuses, X)
  BY <1>2, <1>3, <1>4, ChainKeeps DEF Operations
<1>7. page' = Renumbered(q)
  BY DEF Moved
<1> HIDE DEF q
<1>8. page' \in PageOf(Statuses, X) /\ IdsArePositions(page')
  BY <1>5, <1>6, <1>7, RenumberedFacts, RenumberedIds
<1>9. TypeOK' /\ VerifiedWasSigned'
  BY <1>1, <1>8, CleanAfter DEF X
<1> QED BY <1>8, <1>9 DEF SpecInv

LEMMA MoveItemKeeps ==
  ASSUME SpecInv, moveItem PROVE SpecInv'
<1> DEFINE X == Clean(signed', {})
<1>1. signed \subseteq signed'
  BY DEF moveItem, Signing
<1>2. page \in PageOf(Statuses, X)
  BY <1>1, CleanSections DEF SpecInv, TypeOK, Page
<1>3. ASSUME NEW list \in Lists, NEW id
      PROVE  LET op == RemoveElement(list, id)
             IN op.op = "removeElement" /\ op.list \in Lists /\ Harmless(op, Statuses, X)
  BY DEF RemoveElement, Harmless
<1>4. ASSUME NEW list \in Lists, NEW e, NEW at,
             (list = "sections" /\ e \in X) \/ (list = "review" /\ e \in Note)
      PROVE  LET op == AddElement(list, e, at)
             IN op.op = "addElement" /\ op.list \in Lists /\ Harmless(op, Statuses, X)
  BY <1>4 DEF AddElement, Harmless
<1>5. {} \in SUBSET Texts
  OBVIOUS
<1> HIDE DEF X
<1>6. ASSUME NEW list \in Lists, NEW id \in DOMAIN page[list], Signing({}), moveItemOut(list, id)
      PROVE  SpecInv'
  <2> DEFINE op == RemoveElement(list, id)
  <2>1. Moved(<<op>>)
    BY <1>6 DEF moveItemOut
  <2>2. op.op = "removeElement" /\ op.list \in Lists /\ Harmless(op, Statuses, X)
    BY <1>3
  <2> HIDE DEF op
  <2>3. Operations(<<op>>) /\ DOMAIN <<op>> = {1} /\ <<op>>[1] = op
    BY DEF Operations
  <2> QED BY <1>5, <1>6, <2>1, <2>2, <2>3, MovedKeeps DEF X
<1>7. ASSUME NEW list \in Lists, NEW id \in DOMAIN page[list], Signing({}), moveItemWithin(list, id)
      PROVE  SpecInv'
  <2> DEFINE a == RemoveElement(list, id)
             b == AddElement(list, page[list][id], Len(page[list]))
  <2>1. Moved(<<a, b>>)
    BY <1>7 DEF moveItemWithin
  <2>2. a.op = "removeElement" /\ a.list \in Lists /\ Harmless(a, Statuses, X)
    BY <1>3
  <2>3. \/ list = "sections" /\ page[list][id] \in X
        \/ list = "review" /\ page[list][id] \in Note
    <3>1. page.sections \in Seq(X) /\ page.review \in Seq(Note)
      BY <1>2 DEF PageOf
    <3> QED BY <1>7, <3>1, LenProperties, ElementOfSeq DEF Lists
  <2>4. b.op = "addElement" /\ b.list \in Lists /\ Harmless(b, Statuses, X)
    BY <1>4, <2>3
  <2> HIDE DEF a, b
  <2>5. /\ Operations(<<a, b>>) /\ DOMAIN <<a, b>> = {1, 2}
        /\ <<a, b>>[1] = a /\ <<a, b>>[2] = b
    BY DEF Operations
  <2> QED BY <1>5, <1>7, <2>1, <2>2, <2>4, <2>5, MovedKeeps DEF X
<1>8. ASSUME NEW list \in Lists, NEW e, NEW texts \in SUBSET Texts, Signing(texts),
             (list = "sections" /\ e \in X) \/ (list = "review" /\ e \in Note),
             moveItemIn(list, e)
      PROVE  SpecInv'
  <2> DEFINE op == AddElement(list, e, Len(page[list]))
  <2>1. Moved(<<op>>)
    BY <1>8 DEF moveItemIn
  <2>2. op.op = "addElement" /\ op.list \in Lists /\ Harmless(op, Statuses, X)
    BY <1>4, <1>8
  <2> HIDE DEF op
  <2>3. Operations(<<op>>) /\ DOMAIN <<op>> = {1} /\ <<op>>[1] = op
    BY DEF Operations
  <2> QED BY <1>8, <2>1, <2>2, <2>3, MovedKeeps DEF X
<1>9. ASSUME NEW s \in Arriving, moveItemIn("sections", s),
             Signing(IF Verified(s) THEN s.words ELSE {})
      PROVE  SpecInv'
  <2>1. s \in Section
    <3>1. Minted(1) \in Nat
      BY MintedIsNew DEF SpecInv
    <3> QED BY <3>1, DepthsNat DEF Arriving, Section
  <2>2. s \in X
    BY <1>9, <2>1 DEF X, Clean, Signing
  <2>3. (IF Verified(s) THEN s.words ELSE {}) \in SUBSET Texts
    BY <2>1 DEF Section
  <2> QED BY <1>8, <1>9, <2>2, <2>3 DEF Lists
<1>10. ASSUME NEW n \in ArrivingNotes, moveItemIn("review", n), Signing({}) PROVE SpecInv'
  <2>1. n \in Note
    <3>1. Len(page.review) \in Nat
      BY LenProperties DEF SpecInv, TypeOK, Page
    <3> QED BY <3>1 DEF ArrivingNotes, Note
  <2> QED BY <1>5, <1>8, <1>10, <2>1 DEF Lists
<1> QED BY <1>6, <1>7, <1>9, <1>10 DEF moveItem, Lists

LEMMA SpecInvStep == SpecInv /\ [NextCommand]_vars => SpecInv'
<1> SUFFICES ASSUME SpecInv, [NextCommand]_vars PROVE SpecInv'
  OBVIOUS
<1>1. CASE UNCHANGED vars
  <2>1. page' = page /\ signed' = signed
    BY <1>1 DEF vars
  <2>2. sections' = sections /\ Ids' = Ids
    BY <2>1 DEF sections, Ids
  <2> QED BY <2>1, <2>2 DEF SpecInv, TypeOK, IdsArePositions, VerifiedWasSigned
<1>2. CASE NextCommand
  BY <1>2, PageCommandStep, MoveItemKeeps DEF NextCommand, PageCommand
<1> QED BY <1>1, <1>2

-----------------------------------------------------------------------------
(* How often a slot is filled.                                              *)

Count(list, s) == Cardinality(FillingIn(list, s))
Weight(e, s) == IF e.slot = s THEN 1 ELSE 0
CountsOf(longer, i, shorter, s) == Count(longer, s) = Count(shorter, s) + Weight(longer[i], s)

\* A list is another one without its i-th element.
Without(longer, i, shorter) ==
  /\ Len(longer) = Len(shorter) + 1 /\ i \in 1..Len(longer)
  /\ \A k \in 1..Len(shorter) : shorter[k] = longer[IF k < i THEN k ELSE k + 1]

LEMMA CountNat ==
  ASSUME NEW list \in Seq(Section), NEW s
  PROVE  IsFiniteSet(FillingIn(list, s)) /\ Count(list, s) \in Nat
<1>1. Len(list) \in Nat /\ FillingIn(list, s) \subseteq 1..Len(list)
  BY LenProperties DEF FillingIn
<1>2. IsFiniteSet(FillingIn(list, s))
  <2>1. 1 \in Int /\ Len(list) \in Int
    BY <1>1
  <2>2. IsFiniteSet(1..Len(list))
    BY <2>1, FS_Interval
  <2> QED BY <1>1, <2>2, FS_Subset
<1> QED BY <1>2, FS_CardinalityType DEF Count

LEMMA CountWithout ==
  ASSUME NEW longer \in Seq(Section), NEW shorter \in Seq(Section), NEW i, NEW s,
         Without(longer, i, shorter)
  PROVE  CountsOf(longer, i, shorter, s)
<1> DEFINE F == FillingIn(longer, s)
           A == F \ {i}
           B == FillingIn(shorter, s)
           f == [k \in B |-> IF k < i THEN k ELSE k + 1]
<1>1. /\ Len(longer) \in Nat /\ Len(shorter) \in Nat
      /\ DOMAIN longer = 1..Len(longer) /\ DOMAIN shorter = 1..Len(shorter)
  BY LenProperties
<1>2. /\ Len(longer) = Len(shorter) + 1 /\ i \in 1..Len(longer)
      /\ \A k \in 1..Len(shorter) : shorter[k] = longer[IF k < i THEN k ELSE k + 1]
  BY DEF Without
<1>3. F = {k \in 1..Len(longer) : longer[k].slot = s}
      /\ B = {k \in 1..Len(shorter) : shorter[k].slot = s}
  BY <1>1 DEF FillingIn
<1>4. f \in Bijection(B, A)
  <2> HIDE DEF F, B
  <2>1. ASSUME NEW k \in B PROVE f[k] \in A
    <3>1. k \in 1..Len(shorter) /\ shorter[k].slot = s
      BY <1>3
    <3>2. CASE k < i
      <4>1. f[k] = k /\ longer[k].slot = s
        BY <1>2, <3>1, <3>2
      <4>2. k \in 1..Len(longer) /\ k # i
        BY <1>1, <1>2, <3>1, <3>2
      <4> QED BY <1>3, <4>1, <4>2
    <3>3. CASE ~ (k < i)
      <4>1. f[k] = k + 1 /\ longer[k + 1].slot = s
        BY <1>2, <3>1, <3>3
      <4>2. k + 1 \in 1..Len(longer) /\ k + 1 # i
        BY <1>1, <1>2, <3>1, <3>3
      <4> HIDE DEF f
      <4> QED BY <1>3, <4>1, <4>2
    <3> QED BY <3>2, <3>3
  <2>2. ASSUME NEW k \in B, NEW l \in B, f[k] = f[l] PROVE k = l
    <3>1. k \in Nat /\ l \in Nat /\ i \in Nat
      BY <1>1, <1>2, <1>3
    <3> QED BY <2>2, <3>1
  <2>3. ASSUME NEW a \in A PROVE \E k \in B : f[k] = a
    <3>1. a \in 1..Len(longer) /\ longer[a].slot = s /\ a # i
      BY <1>3
    <3>2. CASE a < i
      <4>1. a \in 1..Len(shorter) /\ shorter[a] = longer[a]
        BY <1>1, <1>2, <3>1, <3>2
      <4> QED BY <1>3, <3>1, <3>2, <4>1
    <3>3. CASE a > i
      <4>1. a - 1 \in 1..Len(shorter) /\ ~ (a - 1 < i) /\ (a - 1) + 1 = a
        BY <1>1, <1>2, <3>1, <3>3
      <4>2. shorter[a - 1] = longer[a]
        BY <1>2, <4>1
      <4>3. a - 1 \in B
        BY <1>3, <3>1, <4>1, <4>2
      <4> QED BY <4>1, <4>3
    <3>4. a < i \/ a > i
      BY <1>1, <1>2, <3>1
    <3> QED BY <3>2, <3>3, <3>4
  <2>4. f \in [B -> A]
    BY <2>1
  <2> HIDE DEF f, A
  <2> QED BY <2>2, <2>3, <2>4 DEF Bijection, Injection, Surjection, IsInjective
<1>5. IsFiniteSet(F) /\ IsFiniteSet(B) /\ Cardinality(F) \in Nat /\ Cardinality(B) \in Nat
  BY CountNat DEF Count
<1>6. Cardinality(A) = Cardinality(B)
  <2>1. ExistsBijection(B, A)
    BY <1>4 DEF ExistsBijection
  <2> HIDE DEF A, B
  <2> QED BY <1>5, <2>1, FS_Bijection
<1>7. Cardinality(A) = IF i \in F THEN Cardinality(F) - 1 ELSE Cardinality(F)
  <2> HIDE DEF F
  <2> QED BY <1>5, FS_RemoveElement
<1>8. i \in F <=> longer[i].slot = s
  BY <1>2, <1>3
<1>9. Count(longer, s) = Cardinality(F) /\ Count(shorter, s) = Cardinality(B)
  BY DEF Count
<1>10. CASE longer[i].slot = s
  <2>1. Cardinality(A) = Cardinality(F) - 1
    BY <1>7, <1>8, <1>10
  <2>2. Weight(longer[i], s) = 1
    BY <1>10 DEF Weight
  <2> HIDE DEF F, A, B
  <2> QED BY <1>5, <1>6, <1>9, <2>1, <2>2 DEF CountsOf
<1>11. CASE longer[i].slot # s
  <2>1. Cardinality(A) = Cardinality(F)
    BY <1>7, <1>8, <1>11
  <2>2. Weight(longer[i], s) = 0
    BY <1>11 DEF Weight
  <2> HIDE DEF F, A, B
  <2> QED BY <1>5, <1>6, <1>9, <2>1, <2>2 DEF CountsOf
<1> QED BY <1>10, <1>11 DEF CountsOf

LEMMA RemovedIsWithout ==
  ASSUME NEW X, NEW s \in Seq(X), NEW i \in DOMAIN s
  PROVE  Without(s, i, RemoveAt(s, i))
<1>1. Len(s) \in Nat /\ DOMAIN s = 1..Len(s) /\ i \in 1..Len(s)
  BY LenProperties
<1> DEFINE a == SubSeq(s, 1, i - 1)
           b == SubSeq(s, i + 1, Len(s))
<1>2. a \in Seq(X) /\ Len(a) = i - 1 /\ \A k \in 1..(i - 1) : a[k] = s[k]
  BY <1>1, SubSeqProperties, Z3
<1>3. b \in Seq(X) /\ Len(b) = Len(s) - i /\ \A k \in 1..(Len(s) - i) : b[k] = s[k + i]
  <2>1. \A j \in (i + 1)..Len(s) : s[j] \in X
    BY <1>1, ElementOfSeq
  <2>2. Len(b) = IF i + 1 <= Len(s) THEN Len(s) - (i + 1) + 1 ELSE 0
    BY <1>1, SubSeqProperties
  <2>3. \A k \in 1..(Len(s) - (i + 1) + 1) : b[k] = s[(i + 1) + k - 1]
    BY <1>1, SubSeqProperties
  <2>4. b \in Seq(X)
    BY <1>1, SubSeqProperties
  <2> HIDE DEF b
  <2>5. \A k \in 1..(Len(s) - i) : /\ k \in 1..(Len(s) - (i + 1) + 1)
                                   /\ (i + 1) + k - 1 = k + i
    BY <1>1
  <2>6. Len(b) = Len(s) - i
    BY <1>1, <2>2
  <2>7. ASSUME NEW k \in 1..(Len(s) - i) PROVE b[k] = s[k + i]
    BY <2>3, <2>5
  <2> QED BY <2>4, <2>6, <2>7
<1>4. RemoveAt(s, i) = a \o b
  BY DEF RemoveAt
<1> HIDE DEF a, b
<1>5. Len(a \o b) = Len(s) - 1
  <2>1. Len(a \o b) = Len(a) + Len(b)
    BY <1>2, <1>3, ConcatProperties
  <2> QED BY <1>1, <1>2, <1>3, <2>1
<1>6. ASSUME NEW k \in 1..(Len(s) - 1) PROVE (a \o b)[k] = s[IF k < i THEN k ELSE k + 1]
  <2>1. k \in 1..(Len(a) + Len(b))
    BY <1>1, <1>2, <1>3
  <2>2. (a \o b)[k] = IF k <= Len(a) THEN a[k] ELSE b[k - Len(a)]
    BY <1>2, <1>3, <2>1, ConcatProperties
  <2>3. CASE k < i
    BY <1>1, <1>2, <2>2, <2>3
  <2>4. CASE ~ (k < i)
    <3>1. k - Len(a) \in 1..(Len(s) - i) /\ (k - Len(a)) + i = k + 1 /\ ~ (k <= Len(a))
      BY <1>1, <1>2, <2>4
    <3> QED BY <1>3, <2>2, <2>4, <3>1
  <2> QED BY <2>3, <2>4
<1> QED BY <1>1, <1>4, <1>5, <1>6 DEF Without

LEMMA InsertedIsWith ==
  ASSUME NEW X, NEW s \in Seq(X), NEW e \in X, NEW at
  PROVE  \E n : Without(Inserted(s, e, at), n, s) /\ Inserted(s, e, at)[n] = e
<1>1. Len(s) \in Nat /\ DOMAIN s = 1..Len(s)
  BY LenProperties
<1> DEFINE n == Within(s, at) + 1
<1>2. n \in 1..(Len(s) + 1)
  BY <1>1 DEF Within
<1>3. Inserted(s, e, at) = InsertAt(s, n, e)
  BY DEF Inserted
<1> HIDE DEF n
<1> DEFINE a == SubSeq(s, 1, n - 1)
           b == SubSeq(s, n, Len(s))
           c == a \o <<e>>
<1>4. a \in Seq(X) /\ Len(a) = n - 1 /\ \A k \in 1..(n - 1) : a[k] = s[k]
  BY <1>1, <1>2, SubSeqProperties, Z3
<1>5. b \in Seq(X) /\ Len(b) = Len(s) - n + 1 /\ \A k \in 1..(Len(s) - n + 1) : b[k] = s[n + k - 1]
  <2>2. Len(b) = IF n <= Len(s) THEN Len(s) - n + 1 ELSE 0
    BY <1>1, <1>2, SubSeqProperties
  <2>3. \A k \in 1..(Len(s) - n + 1) : b[k] = s[n + k - 1]
    BY <1>1, <1>2, SubSeqProperties
  <2>4. b \in Seq(X)
    BY <1>1, <1>2, SubSeqProperties
  <2> HIDE DEF b
  <2> QED BY <1>1, <1>2, <2>2, <2>3, <2>4
<1>6. InsertAt(s, n, e) = c \o b
  BY DEF InsertAt
<1> HIDE DEF a, b
<1>7. <<e>> \in Seq(X) /\ Len(<<e>>) = 1 /\ <<e>>[1] = e
  OBVIOUS
<1>8. /\ c \in Seq(X) /\ Len(c) = n
      /\ \A k \in 1..n : c[k] = IF k < n THEN s[k] ELSE e
  <2>1. c \in Seq(X) /\ Len(c) = Len(a) + 1
    BY <1>4, <1>7, ConcatProperties
  <2>2. ASSUME NEW k \in 1..n PROVE c[k] = IF k < n THEN s[k] ELSE e
    <3>1. k \in 1..(Len(a) + Len(<<e>>))
      BY <1>2, <1>4, <1>7
    <3>2. c[k] = IF k <= Len(a) THEN a[k] ELSE <<e>>[k - Len(a)]
      BY <1>4, <1>7, <3>1, ConcatProperties
    <3>3. CASE k < n
      BY <1>2, <1>4, <3>2, <3>3
    <3>4. CASE ~ (k < n)
      <4>1. k - Len(a) = 1 /\ ~ (k <= Len(a))
        BY <1>2, <1>4, <3>4
      <4> QED BY <1>7, <3>2, <3>4, <4>1
    <3> QED BY <3>3, <3>4
  <2> HIDE DEF c
  <2> QED BY <1>2, <1>4, <2>1, <2>2
<1> HIDE DEF c
<1>9. Len(c \o b) = Len(s) + 1
  <2>1. Len(c \o b) = Len(c) + Len(b)
    BY <1>5, <1>8, ConcatProperties
  <2> QED BY <1>1, <1>2, <1>5, <1>8, <2>1
<1>10. ASSUME NEW k \in 1..(Len(s) + 1)
       PROVE  (c \o b)[k] = IF k < n THEN s[k] ELSE IF k = n THEN e ELSE s[k - 1]
  <2>1. k \in 1..(Len(c) + Len(b))
    BY <1>1, <1>2, <1>5, <1>8
  <2>2. (c \o b)[k] = IF k <= Len(c) THEN c[k] ELSE b[k - Len(c)]
    BY <1>5, <1>8, <2>1, ConcatProperties
  <2>3. CASE k <= n
    BY <1>2, <1>8, <2>2, <2>3
  <2>4. CASE ~ (k <= n)
    <3>1. k - Len(c) \in 1..(Len(s) - n + 1) /\ n + (k - Len(c)) - 1 = k - 1 /\ ~ (k <= Len(c))
      BY <1>1, <1>2, <1>8, <2>4
    <3>2. ~ (k < n) /\ k # n
      BY <1>2, <2>4
    <3> QED BY <1>5, <2>2, <3>1, <3>2
  <2> QED BY <2>3, <2>4
<1>11. (c \o b)[n] = e
  <2>1. n \in 1..(Len(s) + 1) /\ ~ (n < n)
    BY <1>1, <1>2
  <2> QED BY <1>10, <2>1
<1>12. ASSUME NEW k \in 1..Len(s) PROVE s[k] = (c \o b)[IF k < n THEN k ELSE k + 1]
  <2>1. CASE k < n
    <3>1. k \in 1..(Len(s) + 1)
      BY <1>1
    <3> QED BY <1>10, <2>1, <3>1
  <2>2. CASE ~ (k < n)
    <3>1. k + 1 \in 1..(Len(s) + 1) /\ ~ (k + 1 < n) /\ k + 1 # n /\ (k + 1) - 1 = k
      BY <1>1, <1>2, <2>2
    <3> QED BY <1>10, <2>2, <3>1
  <2> QED BY <2>1, <2>2
<1> QED BY <1>1, <1>2, <1>3, <1>6, <1>9, <1>11, <1>12 DEF Without

\* The sections of a page on the way keep the slot they were found with.
Rooted(list) ==
  \A k \in DOMAIN list : list[k].id \in Ids => list[k].slot = sections[list[k].id].slot

LEMMA SameSlots ==
  ASSUME NEW list \in Seq(Section), NEW new \in Seq(Section), NEW s, DOMAIN new = DOMAIN list,
         \A k \in DOMAIN list : new[k].slot = list[k].slot
  PROVE  /\ Count(new, s) = Count(list, s)
         /\ Rooted(list) /\ (\A k \in DOMAIN list : new[k].id = list[k].id) => Rooted(new)
<1>1. FillingIn(new, s) = FillingIn(list, s)
  BY DEF FillingIn
<1>2. Rooted(list) /\ (\A k \in DOMAIN list : new[k].id = list[k].id) => Rooted(new)
  BY DEF Rooted
<1> QED BY <1>1, <1>2 DEF Count

LEMMA RootedWithout ==
  ASSUME NEW longer \in Seq(Section), NEW shorter \in Seq(Section), NEW i,
         Without(longer, i, shorter)
  PROVE  /\ Rooted(longer) => Rooted(shorter)
         /\ Rooted(shorter) /\ (longer[i].id \in Ids => longer[i].slot = sections[longer[i].id].slot)
              => Rooted(longer)
<1>1. /\ Len(longer) \in Nat /\ Len(shorter) \in Nat
      /\ DOMAIN longer = 1..Len(longer) /\ DOMAIN shorter = 1..Len(shorter)
  BY LenProperties
<1>2. /\ Len(longer) = Len(shorter) + 1 /\ i \in 1..Len(longer)
      /\ \A k \in 1..Len(shorter) : shorter[k] = longer[IF k < i THEN k ELSE k + 1]
  BY DEF Without
<1>3. ASSUME Rooted(longer) PROVE Rooted(shorter)
  <2> SUFFICES ASSUME NEW k \in 1..Len(shorter), shorter[k].id \in Ids
               PROVE  shorter[k].slot = sections[shorter[k].id].slot
    BY <1>1 DEF Rooted
  <2> DEFINE l == IF k < i THEN k ELSE k + 1
  <2>1. shorter[k] = longer[l] /\ l \in 1..Len(longer)
    BY <1>1, <1>2
  <2> HIDE DEF l
  <2> QED BY <1>1, <1>3, <2>1 DEF Rooted
<1>4. ASSUME Rooted(shorter), longer[i].id \in Ids => longer[i].slot = sections[longer[i].id].slot
      PROVE  Rooted(longer)
  <2> SUFFICES ASSUME NEW l \in 1..Len(longer), longer[l].id \in Ids
               PROVE  longer[l].slot = sections[longer[l].id].slot
    BY <1>1 DEF Rooted
  <2>1. ASSUME l # i PROVE \E k \in 1..Len(shorter) : shorter[k] = longer[l]
    <3>1. CASE l < i
      <4>1. l \in 1..Len(shorter)
        BY <1>1, <1>2, <3>1
      <4> QED BY <1>2, <3>1, <4>1
    <3>2. CASE l > i
      <4>1. l - 1 \in 1..Len(shorter) /\ ~ (l - 1 < i) /\ (l - 1) + 1 = l
        BY <1>1, <1>2, <3>2
      <4> QED BY <1>2, <4>1
    <3>3. l < i \/ l > i
      BY <1>1, <1>2, <2>1
    <3> QED BY <3>1, <3>2, <3>3
  <2> QED BY <1>1, <1>4, <2>1 DEF Rooted
<1> QED BY <1>3, <1>4

\* The pages on the way in which a slot is filled c times.
Placed(X, s, c) ==
  {q \in PageOf(Statuses, X) : Count(q.sections, s) = c /\ Rooted(q.sections)}

SlotWritten(op) == op.op = "setElementField" /\ op.field = "slot"

LEMMA PutSections ==
  ASSUME NEW X, NEW q \in PageOf(Statuses, X), NEW new
  PROVE  Put(q, "sections", new).sections = new /\ Put(q, "review", new).sections = q.sections
BY DEF Put, PageOf

\* What an operation leaves of the sections: nothing is taken from them that is not there.
LEMMA ApplyCounts ==
  ASSUME NEW X \in SUBSET Section, NEW s, NEW c \in Int, NEW q \in Placed(X, s, c),
         NEW op, NEW status, Allowed(status, q, op), Harmless(op, Statuses, X),
         Tracks(op), ~ SlotWritten(op)
  PROVE  \/ Apply(q, op) \in Placed(X, s, c + Delta(op, s))
         \/ op.op = "removeElement" /\ ~ Holds(q[op.list], op.id) /\ Apply(q, op) = q
<1> DEFINE list == q.sections
           i == IndexOf(list, op.id)
           r == Apply(q, op)
<1>1. /\ q \in PageOf(Statuses, X) /\ list \in Seq(Section)
      /\ Count(list, s) = c /\ Rooted(list)
  <2>1. list \in Seq(X)
    BY DEF Placed, PageOf
  <2> QED BY <2>1, SeqMonotonic DEF Placed
<1>2. r \in PageOf(Statuses, X) /\ r.sections \in Seq(Section)
  <2>1. r \in PageOf(Statuses, X)
    BY <1>1, ApplyKeeps
  <2> HIDE DEF r
  <2>2. r.sections \in Seq(X)
    BY <2>1 DEF PageOf
  <2> QED BY <2>1, <2>2, SeqMonotonic
<1>3. ASSUME r.sections = list, Delta(op, s) = 0 PROVE r \in Placed(X, s, c + Delta(op, s))
  BY <1>1, <1>2, <1>3 DEF Placed
<1>4. CASE op.op \in {"transition", "setField"}
  <2>1. Delta(op, s) = 0
    BY <1>4 DEF Delta
  <2>2. r = [q EXCEPT !.status = r.status] \/ r = [q EXCEPT !.summary = r.summary]
    <3>1. CASE op.op = "transition"
      <4>1. r = [q EXCEPT !.status = After(PageType.edges, @, op.event)]
        BY <3>1 DEF Apply
      <4>2. r.status = After(PageType.edges, q.status, op.event)
        BY <1>1, <4>1 DEF PageOf
      <4> HIDE DEF r
      <4> QED BY <4>1, <4>2
    <3>2. CASE op.op = "setField"
      <4>1. r = [q EXCEPT !.summary = op.value]
        BY <3>2 DEF Apply
      <4>2. r.summary = op.value
        BY <1>1, <4>1 DEF PageOf
      <4> HIDE DEF r
      <4> QED BY <4>1, <4>2
    <3> QED BY <1>4, <3>1, <3>2
  <2> HIDE DEF r
  <2>3. r.sections = list
    BY <1>1, <2>2 DEF PageOf
  <2> QED BY <1>3, <2>1, <2>3 DEF r
<1>5. CASE op.list = "review" /\ op.op \notin {"transition", "setField"}
  <2>1. Delta(op, s) = 0
    BY <1>5 DEF Delta
  <2>2. r = q \/ \E new : r = Put(q, "review", new)
    BY <1>5 DEF Apply, Put
  <2>3. r.sections = list
    BY <1>1, <2>2, PutSections
  <2> QED BY <1>3, <2>1, <2>3
<1>6. CASE op.op = "addElement" /\ op.list = "sections"
  <2>1. r = Put(q, "sections", Inserted(list, op.element, op.at))
    BY <1>6 DEF Apply, Put
  <2>2. r.sections = Inserted(list, op.element, op.at)
    BY <1>1, <2>1, PutSections
  <2>3. op.element \in Section
    BY <1>6 DEF Harmless
  <2>4. PICK n : Without(r.sections, n, list) /\ r.sections[n] = op.element
    BY <1>1, <2>2, <2>3, InsertedIsWith
  <2>5. Rooted(r.sections)
    BY <1>1, <1>2, <1>6, <2>4, RootedWithout DEF Tracks
  <2>6. Delta(op, s) = IF op.element.slot = s THEN 1 ELSE 0
    BY <1>6 DEF Delta
  <2> HIDE DEF r, list
  <2>7. CountsOf(r.sections, n, list, s)
    BY <1>1, <1>2, <2>4, CountWithout
  <2>8. Count(r.sections, s) = c + Delta(op, s)
    BY <1>1, <2>4, <2>6, <2>7 DEF CountsOf, Weight
  <2> QED BY <1>2, <2>5, <2>8 DEF Placed, r
<1>7. CASE op.op = "removeElement" /\ op.list = "sections" /\ Holds(list, op.id)
  <2>1. Holds(list, op.id) /\ i \in DOMAIN list /\ list[i].id = op.id
    BY <1>7, IndexOfHeld
  <2>2. r = Put(q, "sections", RemoveAt(list, i))
    BY <1>7, <2>1 DEF Apply, Put
  <2>3. r.sections = RemoveAt(list, i)
    BY <1>1, <2>2, PutSections
  <2>4. Without(list, i, r.sections)
    BY <1>1, <2>1, <2>3, RemovedIsWithout
  <2>5. Rooted(r.sections)
    BY <1>1, <1>2, <2>4, RootedWithout
  <2>6. list[i].slot = sections[op.id].slot
    BY <1>1, <1>7, <2>1 DEF Rooted, Tracks
  <2>7. Delta(op, s) = IF sections[op.id].slot = s THEN -1 ELSE 0
    BY <1>7 DEF Delta
  <2> HIDE DEF i, r, list
  <2>8. CountsOf(list, i, r.sections, s)
    BY <1>1, <1>2, <2>4, CountWithout
  <2>9. Count(r.sections, s) \in Nat
    BY <1>2, CountNat
  <2>10. Count(r.sections, s) = c + Delta(op, s)
    BY <1>1, <2>6, <2>7, <2>8, <2>9 DEF CountsOf, Weight
  <2> QED BY <1>2, <2>5, <2>10 DEF Placed, r
<1>8. CASE op.op = "moveElement" /\ op.list = "sections" /\ Holds(list, op.id)
  <2>1. Holds(list, op.id) /\ i \in DOMAIN list /\ list[i].id = op.id
    BY <1>8, IndexOfHeld
  <2> DEFINE rest == RemoveAt(list, i)
  <2>2. r = Put(q, "sections", Inserted(rest, list[i], op.at))
    BY <1>8, <2>1 DEF Apply, Put
  <2>3. r.sections = Inserted(rest, list[i], op.at)
    BY <1>1, <2>2, PutSections
  <2>4. Without(list, i, rest) /\ rest \in Seq(Section) /\ list[i] \in Section
    BY <1>1, <2>1, RemovedIsWithout, RemoveAtKeeps, LenProperties, ElementOfSeq
  <2> HIDE DEF rest
  <2>5. PICK n : Without(r.sections, n, rest) /\ r.sections[n] = list[i]
    BY <2>3, <2>4, InsertedIsWith
  <2>6. Rooted(rest)
    BY <1>1, <2>4, RootedWithout
  <2>7. list[i].id \in Ids => list[i].slot = sections[list[i].id].slot
    BY <1>1, <2>1 DEF Rooted
  <2>8. Rooted(r.sections)
    BY <1>2, <2>4, <2>5, <2>6, <2>7, RootedWithout
  <2> HIDE DEF i, r, list
  <2>9. CountsOf(r.sections, n, rest, s)
    BY <1>2, <2>4, <2>5, CountWithout
  <2>10. CountsOf(list, i, rest, s)
    BY <1>1, <2>4, CountWithout
  <2>11. Count(r.sections, s) = Count(list, s)
    BY <2>5, <2>9, <2>10 DEF CountsOf
  <2>12. Delta(op, s) = 0
    BY <1>8 DEF Delta
  <2> QED BY <1>1, <1>2, <2>8, <2>11, <2>12 DEF Placed, r
<1>9. CASE op.op = "step" /\ op.list = "sections"
  <2>1. Delta(op, s) = 0
    BY <1>9 DEF Delta
  <2>2. CASE ~ Holds(list, op.id)
    <3>1. r = q
      BY <1>9, <2>2 DEF Apply
    <3> QED BY <1>3, <2>1, <3>1
  <2>3. CASE Holds(list, op.id)
    <3> DEFINE new == [list EXCEPT ![i].status = After(elements["sections"], @, op.event)]
    <3>1. i \in DOMAIN list
      BY <2>3, IndexOfHeld
    <3>2. r = Put(q, "sections", new)
      BY <1>9, <2>3 DEF Apply, Put, PageType
    <3>3. r.sections = new
      BY <1>1, <3>2, PutSections
    <3>4. ASSUME NEW k \in DOMAIN list PROVE new[k].slot = list[k].slot /\ new[k].id = list[k].id
      <4>1. list[k] \in Section
        BY <1>1, LenProperties, ElementOfSeq
      <4>2. new[k] = IF k = i THEN [list[i] EXCEPT !.status = After(elements["sections"], @, op.event)]
                     ELSE list[k]
        OBVIOUS
      <4> QED BY <4>1, <4>2 DEF Section
    <3>5. DOMAIN new = DOMAIN list
      OBVIOUS
    <3> HIDE DEF new
    <3>6. Count(new, s) = Count(list, s) /\ Rooted(new)
      BY <1>1, <1>2, <3>3, <3>4, <3>5, SameSlots
    <3> QED BY <1>1, <1>2, <2>1, <3>3, <3>6 DEF Placed
  <2> QED BY <2>2, <2>3
<1>10. CASE op.op = "setElementField" /\ op.list = "sections" /\ Holds(list, op.id)
  <2>1. Delta(op, s) = 0 /\ op.field \notin {"id", "slot"}
    BY <1>10 DEF Delta, Tracks, SlotWritten
  <2>2. Holds(list, op.id) /\ i \in DOMAIN list
    BY <1>10, IndexOfHeld
  <2> DEFINE new == [list EXCEPT ![i][op.field] = op.value]
  <2>3. r = Put(q, "sections", new)
    BY <1>10, <2>2 DEF Apply, Put
  <2>4. r.sections = new
    BY <1>1, <2>3, PutSections
  <2>5. ASSUME NEW k \in DOMAIN list PROVE new[k].slot = list[k].slot /\ new[k].id = list[k].id
    <3>1. list[k] \in Section
      BY <1>1, LenProperties, ElementOfSeq
    <3>2. new[k] = IF k = i THEN [list[i] EXCEPT ![op.field] = op.value] ELSE list[k]
      OBVIOUS
    <3>3. [list[i] EXCEPT ![op.field] = op.value].slot = list[i].slot
          /\ [list[i] EXCEPT ![op.field] = op.value].id = list[i].id
      <4>1. list[i] \in Section
        BY <1>1, <2>2, LenProperties, ElementOfSeq
      <4> QED BY <2>1, <4>1 DEF Section
    <3> QED BY <3>2, <3>3
  <2>6. DOMAIN new = DOMAIN list
    OBVIOUS
  <2> HIDE DEF new
  <2>7. Count(new, s) = Count(list, s) /\ Rooted(new)
    BY <1>1, <1>2, <2>4, <2>5, <2>6, SameSlots
  <2> QED BY <1>1, <1>2, <2>1, <2>4, <2>7 DEF Placed
<1>11. CASE op.op \in {"removeElement", "moveElement", "setElementField"} /\ op.list = "sections"
            /\ ~ Holds(list, op.id)
  <2>1. r = q
    BY <1>11 DEF Apply
  <2>2. op.op # "removeElement" => Delta(op, s) = 0
    BY <1>11 DEF Delta
  <2> QED BY <1>3, <1>11, <2>1, <2>2
<1> QED BY <1>4, <1>5, <1>6, <1>7, <1>8, <1>9, <1>10, <1>11 DEF Harmless, Lists

LEMMA FillsCount ==
  ASSUME NEW s
  PROVE  Fills(s) = Count(page.sections, s) /\ Fills(s)' = Count(page'.sections, s)
BY DEF Fills, Filling, Count, FillingIn, Ids, sections

\* A command leaves a slot as often filled as the pages do that its operations lead to.
LEMMA DecisionLeads ==
  ASSUME NEW X \in SUBSET Section, Renamed(X, Section), NEW s, NEW ops, Operations(ops), Do(ops),
         NEW S, page \in S[0], S[Len(ops)] \subseteq PageOf(Statuses, X),
         \A k \in DOMAIN ops : \A v \in S[k - 1] :
           Allowed(page.status, v, ops[k]) => Apply(v, ops[k]) \in S[k]
  PROVE  \E q \in S[Len(ops)] : Count(page'.sections, s) = Count(q.sections, s)
<1> DEFINE q == Applied(page, ops)[Len(ops)]
           r == Settled(q)
           t == Renumbered(r)
<1>1. /\ page' = t
      /\ \A k \in DOMAIN ops : Allowed(page.status, Applied(page, ops)[k - 1], ops[k])
  BY DEF Do, Decide
<1>2. Len(ops) \in Nat /\ DOMAIN ops = 1..Len(ops)
  BY DEF Operations
<1>5. q \in S[Len(ops)]
  BY <1>1, <1>2, ChainLeads
<1>6. q \in PageOf(Statuses, X)
  BY <1>5
<1> HIDE DEF q
<1>7. r \in PageOf(Statuses, X) /\ r.sections = q.sections
  <2>1. q \in PageOf(Statuses, X) /\ {"restating", "restated"} \subseteq Statuses
    BY <1>6 DEF Statuses
  <2>2. r = [q EXCEPT !.status = r.status] /\ r \in PageOf(Statuses, X)
    BY <2>1, SettledFacts
  <2> HIDE DEF r
  <2> QED BY <2>1, <2>2 DEF PageOf
<1> HIDE DEF r
<1>8. t.sections = Numbered(r.sections) /\ t \in PageOf(Statuses, Section)
  BY <1>7, RenumberedFacts
<1> HIDE DEF t
<1>9. r.sections \in Seq(Section) /\ t.sections \in Seq(Section)
  <2>1. r.sections \in Seq(X) /\ t.sections \in Seq(Section)
    BY <1>7, <1>8 DEF PageOf
  <2> QED BY <2>1, SeqMonotonic
<1>10. ASSUME NEW k \in DOMAIN r.sections PROVE t.sections[k].slot = r.sections[k].slot
  <2>1. r.sections[k] \in Section
    BY <1>9, LenProperties, ElementOfSeq
  <2>2. t.sections[k] = [r.sections[k] EXCEPT !.id = k]
    BY <1>8 DEF Numbered
  <2> QED BY <2>1, <2>2 DEF Section
<1>11. DOMAIN t.sections = DOMAIN r.sections
  BY <1>8 DEF Numbered
<1>12. Count(t.sections, s) = Count(r.sections, s)
  BY <1>9, <1>10, <1>11, SameSlots
<1> QED BY <1>1, <1>5, <1>7, <1>12

LEMMA CountsStay ==
  ASSUME IdsArePositions(page), NEW X \in SUBSET Section, page \in PageOf(Statuses, X),
         Renamed(X, Section), NEW s,
         NEW ops, AllHarmless(ops, Statuses, X), Do(ops),
         \A k \in DOMAIN ops : Tracks(ops[k]) /\ ~ SlotWritten(ops[k]) /\ Delta(ops[k], s) = 0
  PROVE  Fills(s)' = Fills(s)
<1> DEFINE n == Count(page.sections, s)
           S == [k \in 0..Len(ops) |-> Placed(X, s, n)]
<1>1. n \in Int
  <2>1. page.sections \in Seq(X)
    BY DEF PageOf
  <2>2. page.sections \in Seq(Section)
    BY <2>1, SeqMonotonic
  <2> QED BY <2>2, CountNat
<1>2. Operations(ops) /\ Len(ops) \in Nat /\ DOMAIN ops = 1..Len(ops)
  BY DEF AllHarmless, Operations
<1>3. page \in Placed(X, s, n)
  <2>1. Rooted(page.sections)
    BY DEF Rooted, IdsArePositions, sections
  <2> QED BY <2>1 DEF Placed
<1> HIDE DEF n
<1>4. /\ \A k \in DOMAIN ops : S[k] = Placed(X, s, n) /\ S[k - 1] = Placed(X, s, n)
      /\ S[0] = Placed(X, s, n) /\ S[Len(ops)] = Placed(X, s, n)
  BY <1>2
<1> HIDE DEF S
<1>5. ASSUME NEW k \in DOMAIN ops, NEW v \in Placed(X, s, n), Allowed(page.status, v, ops[k])
      PROVE  Apply(v, ops[k]) \in Placed(X, s, n)
  <2>1. \/ Apply(v, ops[k]) \in Placed(X, s, n + Delta(ops[k], s))
        \/ Apply(v, ops[k]) = v
    BY <1>1, <1>5, ApplyCounts DEF AllHarmless
  <2> QED BY <1>1, <1>5, <2>1
<1>6. PICK q \in S[Len(ops)] : Count(page'.sections, s) = Count(q.sections, s)
  <2>1. S[Len(ops)] \subseteq PageOf(Statuses, X)
    BY <1>4 DEF Placed
  <2> QED BY <1>2, <1>3, <1>4, <1>5, <2>1, DecisionLeads
<1>7. Count(page'.sections, s) = n
  BY <1>4, <1>6 DEF Placed
<1> QED BY <1>7, FillsCount DEF n

LEMMA CleanPages ==
  ASSUME SpecInv, NEW U, signed \subseteq signed',
         \A i \in Ids \cap U : sections[i].words \subseteq signed'
  PROVE  /\ page \in PageOf(Statuses, Clean(signed', U)) /\ Clean(signed', U) \in SUBSET Section
         /\ Renamed(Clean(signed', U), Section)
<1>1. page.status \in Statuses
  BY DEF SpecInv, TypeOK, Page
<1>2. page \in PageOf(Statuses, Clean(signed', U))
  BY <1>1, CleanSections DEF SpecInv
<1>3. Clean(signed', U) \in SUBSET Section
  BY CleanRenamed
<1>4. Renamed(Clean(signed', U), Section)
  BY DEF Renamed, Clean, Section
<1> QED BY <1>2, <1>3, <1>4

LEMMA RegularKeeps ==
  ASSUME SpecInv, NEW s, Regular({s})
  PROVE  Fills(s)' = Fills(s)
<1>1. PICK ops, U : /\ Do(ops) /\ SafeOps(ops, signed', U, {s}) /\ signed \subseteq signed'
                    /\ \A i \in Ids \cap U : sections[i].words \subseteq signed'
  BY DEF Regular
<1>2. AllHarmless(ops, Statuses, Clean(signed', U))
  <2>1. Statuses \in Lives
    BY DEF Lives
  <2> QED BY <1>1, <2>1 DEF AllHarmless, SafeOps, Safe
<1>3. \A k \in DOMAIN ops : Tracks(ops[k]) /\ ~ SlotWritten(ops[k]) /\ Delta(ops[k], s) = 0
  BY <1>1 DEF SafeOps, Safe, Keeps, SlotWritten
<1> QED BY <1>1, <1>2, <1>3, CleanPages, CountsStay DEF SpecInv

LEMMA ApproveKeeps ==
  ASSUME SpecInv, NEW s, approve, signed' = signed
  PROVE  Fills(s)' = Fills(s)
<1>1. PICK ops : /\ Do(ops) /\ \A k \in DOMAIN ops : Lifecycle(ops[k])
                 /\ \A T, U : AllHarmless(ops, Statuses, Clean(T, U))
  BY ApproveIs DEF SpecInv
<1>2. \A k \in DOMAIN ops : Tracks(ops[k]) /\ ~ SlotWritten(ops[k]) /\ Delta(ops[k], s) = 0
  BY <1>1 DEF Lifecycle, Tracks, SlotWritten, Delta
<1>3. /\ page \in PageOf(Statuses, Clean(signed', {})) /\ Clean(signed', {}) \in SUBSET Section
      /\ Renamed(Clean(signed', {}), Section)
  BY CleanPages
<1> QED BY <1>1, <1>2, <1>3, CountsStay DEF SpecInv

\* The sections that are not taken away stay there.
LEMMA OthersHeld ==
  ASSUME NEW X, NEW q \in PageOf(Statuses, X), NEW a, NEW b, a # b,
         Holds(q.sections, a), Holds(q.sections, b), \A x \in X : "id" \in DOMAIN x
  PROVE  Holds(Apply(q, RemoveElement("sections", a)).sections, b)
<1> DEFINE list == q.sections
           i == IndexOf(list, a)
           op == RemoveElement("sections", a)
           left == RemoveAt(list, i)
<1>1. op.op = "removeElement" /\ op.list = "sections" /\ op.id = a
  BY DEF RemoveElement
<1> HIDE DEF op
<1>2. i \in DOMAIN list /\ list[i].id = a /\ list \in Seq(X)
  BY IndexOfHeld DEF PageOf
<1>3. Apply(q, op) = Put(q, "sections", left)
  BY <1>1 DEF Apply, Put
<1> HIDE DEF i
<1>4. Without(list, i, left)
  BY <1>2, RemovedIsWithout
<1>5. left \in Seq(X)
  BY <1>2, RemoveAtKeeps
<1> HIDE DEF left
<1>6. Apply(q, op).sections = left
  BY <1>3, PutSections
<1>7. PICK j \in DOMAIN list : list[j].id = b
  BY DEF Holds
<1>8. /\ Len(list) \in Nat /\ Len(left) \in Nat
      /\ DOMAIN list = 1..Len(list) /\ DOMAIN left = 1..Len(left)
  BY <1>2, <1>5, LenProperties
<1> HIDE DEF list
<1>9. \E k \in 1..Len(left) : left[k] = list[j]
  <2>1. j < i \/ j > i
    BY <1>2, <1>7, <1>8
  <2>2. CASE j < i
    <3>1. j \in 1..Len(left)
      BY <1>4, <1>7, <1>8, <2>2 DEF Without
    <3>2. left[j] = list[j]
      BY <1>4, <2>2, <3>1 DEF Without
    <3> QED BY <3>1, <3>2
  <2>3. CASE j > i
    <3>1. j - 1 \in 1..Len(left) /\ ~ (j - 1 < i) /\ (j - 1) + 1 = j
      BY <1>2, <1>4, <1>7, <1>8, <2>3 DEF Without
    <3>2. left[j - 1] = list[j]
      BY <1>4, <3>1 DEF Without
    <3> QED BY <3>1, <3>2
  <2> QED BY <2>1, <2>2, <2>3
<1> QED BY <1>6, <1>7, <1>8, <1>9 DEF Holds, op

\* A restatement takes a slot away, from each section it names once, and gives it to as
\* many of those it puts there as were named.
LEMMA RestateKeeps ==
  ASSUME SpecInv, NEW s \in SlotSet, NEW removed \in Removals, NEW new \in Replacements,
         Signing(Said(new)), restateSections(removed, new)
  PROVE  Fills(s)' >= Fills(s) /\ (IsInjective(removed) => Fills(s)' = Fills(s))
<1> USE DEF SpecInv
<1>3. PICK taken, added :
        /\ Do(taken \o added)
        /\ SafeOps(taken, signed', {}, {}) /\ SafeOps(added, signed', {}, {})
        /\ DOMAIN taken = DOMAIN removed /\ DOMAIN added = DOMAIN new
        /\ \A k \in DOMAIN removed : taken[k] = RemoveElement("sections", removed[k])
        /\ \A k \in DOMAIN new :
             /\ added[k].op = "addElement" /\ added[k].list = "sections"
             /\ added[k].element.slot =
                  IF k \in DOMAIN slotsOf(removed) THEN slotsOf(removed)[k] ELSE NoSlot
  BY RestateIs
<1> DEFINE X == Clean(signed', {})
           slots == slotsOf(removed)
           M == Tagged(removed, s)
           L == At(slots, s)
           c0 == Count(page.sections, s)
<1>1. PICK n \in Nat : /\ DOMAIN removed = 1..n /\ Len(removed) = n
                       /\ \A k \in 1..n : removed[k] \in Ids
  BY RemovedDomain
<1>2. PICK l \in Nat : DOMAIN new = 1..l /\ Len(new) = l
  <2>1. PICK l \in 0..MaxNew : new \in [1..l -> Replacement]
    BY DEF Replacements
  <2>2. l \in Nat
    BY <2>1
  <2>3. new \in Seq(Replacement)
    BY <2>1, <2>2, SeqDef
  <2> QED BY <2>1, <2>2, <2>3, LenProperties
<1>4. /\ Operations(taken) /\ Operations(added) /\ Len(taken) = n /\ Len(added) = l
  <2>1. /\ Operations(taken) /\ Operations(added)
        /\ Len(taken) \in Nat /\ DOMAIN taken = 1..Len(taken)
        /\ Len(added) \in Nat /\ DOMAIN added = 1..Len(added)
    BY <1>3 DEF SafeOps, Operations
  <2>2. DOMAIN taken = 1..n /\ DOMAIN added = 1..l
    BY <1>1, <1>2, <1>3
  <2>3. \A a, b \in Nat : 1..a = 1..b => a = b
    OBVIOUS
  <2> QED BY <2>1, <2>2, <2>3
<1> DEFINE ops == taken \o added
<1>5. /\ Len(ops) = n + l /\ DOMAIN ops = 1..(n + l)
      /\ \A k \in 1..n : ops[k] = RemoveElement("sections", removed[k])
      /\ \A k \in 1..l : ops[n + k] = added[k]
  <2>1. /\ Len(ops) = Len(taken) + Len(added) /\ DOMAIN ops = 1..(Len(taken) + Len(added))
        /\ \A k \in 1..(Len(taken) + Len(added)) :
             ops[k] = IF k <= Len(taken) THEN taken[k] ELSE added[k - Len(taken)]
    BY <1>4, ConcatOps
  <2> HIDE DEF ops
  <2>2. \A k \in 1..n : k \in 1..(n + l) /\ k <= n
    OBVIOUS
  <2>3. \A k \in 1..l : n + k \in 1..(n + l) /\ ~ (n + k <= n) /\ (n + k) - n = k
    OBVIOUS
  <2>4. \A k \in 1..n : ops[k] = taken[k]
    BY <1>4, <2>1, <2>2
  <2>5. \A k \in 1..l : ops[n + k] = added[k]
    BY <1>4, <2>1, <2>3
  <2> QED BY <1>1, <1>3, <1>4, <2>1, <2>4, <2>5
<1>o. /\ \A k \in 1..n : /\ ops[k].op = "removeElement" /\ ops[k].list = "sections"
                         /\ ops[k].id = removed[k]
      /\ \A k \in 1..l : /\ ops[n + k].op = "addElement" /\ ops[n + k].list = "sections"
                         /\ ops[n + k].element.slot =
                              IF k \in DOMAIN slots THEN slots[k] ELSE NoSlot
  <2>1. ASSUME NEW k \in 1..n
        PROVE  ops[k].op = "removeElement" /\ ops[k].list = "sections" /\ ops[k].id = removed[k]
    <3>1. ops[k] = RemoveElement("sections", removed[k])
      BY <1>5
    <3> HIDE DEF ops
    <3> QED BY <3>1 DEF RemoveElement
  <2>2. ASSUME NEW k \in 1..l
        PROVE  /\ ops[n + k].op = "addElement" /\ ops[n + k].list = "sections"
               /\ ops[n + k].element.slot = IF k \in DOMAIN slots THEN slots[k] ELSE NoSlot
    <3>1. ops[n + k] = added[k] /\ k \in DOMAIN new
      BY <1>2, <1>5
    <3>2. /\ added[k].op = "addElement" /\ added[k].list = "sections"
          /\ added[k].element.slot = IF k \in DOMAIN slots THEN slots[k] ELSE NoSlot
      BY <1>3, <3>1
    <3> HIDE DEF ops
    <3> QED BY <3>1, <3>2
  <2> QED BY <2>1, <2>2
<1>6. SafeOps(ops, signed', {}, {})
  BY <1>3, ConcatSafe
<1>7. Do(ops)
  BY <1>3
<1> HIDE DEF ops
<1>8. /\ Operations(ops) /\ AllHarmless(ops, Statuses, X)
      /\ \A k \in DOMAIN ops : Tracks(ops[k])
  <2>1. Statuses \in Lives
    BY DEF Lives
  <2> QED BY <1>6, <2>1 DEF AllHarmless, SafeOps, Safe, Keeps
<1>9. /\ page \in PageOf(Statuses, X) /\ X \in SUBSET Section /\ Renamed(X, Section)
      /\ \A x \in X : "id" \in DOMAIN x
  <2>1. signed \subseteq signed'
    BY DEF Signing
  <2>2. page \in PageOf(Statuses, X) /\ X \in SUBSET Section /\ Renamed(X, Section)
    BY <2>1, CleanPages
  <2>3. \A x \in Section : "id" \in DOMAIN x
    BY DEF Section
  <2> QED BY <2>2, <2>3
<1> HIDE DEF X
<1>10. c0 \in Int
  <2>1. page.sections \in Seq(Section)
    BY DEF TypeOK, Page
  <2> QED BY <2>1, CountNat
<1> DEFINE c(k) == IF k <= n THEN c0 - Upto(M, k) ELSE c0 - Upto(M, n) + Upto(L, k - n)
           Others(q, k) == \A j \in DOMAIN removed : k < j => Holds(q.sections, removed[j])
           S == [k \in 0..(n + l) |->
                   {q \in PageOf(Statuses, X) :
                      /\ Rooted(q.sections) /\ Count(q.sections, s) >= c(k)
                      /\ IsInjective(removed) => Count(q.sections, s) = c(k) /\ Others(q, k)}]
<1> HIDE DEF M, L, c0
<1>11. /\ \A k \in 0..(n + l) : c(k) \in Int
       /\ c(0) = c0
       /\ \A k \in 1..n : c(k) = c(k - 1) - (IF k \in M THEN 1 ELSE 0)
       /\ \A k \in 1..l : c(n + k) = c((n + k) - 1) + (IF k \in L THEN 1 ELSE 0)
  <2>1. \A k \in Nat : Upto(M, k) \in Nat /\ Upto(L, k) \in Nat
    BY UptoStep
  <2>2. Upto(M, 0) = 0 /\ Upto(L, 0) = 0
    BY UptoStep
  <2>3. \A k \in Nat \ {0} : /\ Upto(M, k) = Upto(M, k - 1) + (IF k \in M THEN 1 ELSE 0)
                           /\ Upto(L, k) = Upto(L, k - 1) + (IF k \in L THEN 1 ELSE 0)
    <3> SUFFICES ASSUME NEW k \in Nat \ {0}
                 PROVE  /\ Upto(M, k) = Upto(M, k - 1) + (IF k \in M THEN 1 ELSE 0)
                        /\ Upto(L, k) = Upto(L, k - 1) + (IF k \in L THEN 1 ELSE 0)
      OBVIOUS
    <3>1. k - 1 \in Nat /\ (k - 1) + 1 = k
      OBVIOUS
    <3>2. \A Z : Upto(Z, (k - 1) + 1) = Upto(Z, k - 1) + (IF (k - 1) + 1 \in Z THEN 1 ELSE 0)
      BY <3>1, UptoStep
    <3> QED BY <3>1, <3>2
  <2>4. \A k \in 0..(n + l) : c(k) \in Int
    <3> SUFFICES ASSUME NEW k \in 0..(n + l) PROVE c(k) \in Int
      OBVIOUS
    <3>1. k > n => k - n \in Nat
      OBVIOUS
    <3> QED BY <1>10, <2>1, <3>1
  <2>5. c(0) = c0
    BY <1>10, <2>2
  <2>6. ASSUME NEW k \in 1..n PROVE c(k) = c(k - 1) - (IF k \in M THEN 1 ELSE 0)
    BY <1>10, <2>1, <2>3
  <2>7. ASSUME NEW k \in 1..l PROVE c(n + k) = c((n + k) - 1) + (IF k \in L THEN 1 ELSE 0)
    <3>1. ~ (n + k <= n) /\ (n + k) - n = k /\ k \in Nat \ {0}
      OBVIOUS
    <3>2. CASE k = 1
      <4>1. (n + k) - 1 = n /\ k - 1 = 0
        BY <3>2
      <4> QED BY <1>10, <2>1, <2>2, <2>3, <3>1, <4>1
    <3>3. CASE k # 1
      <4>1. ~ ((n + k) - 1 <= n) /\ ((n + k) - 1) - n = k - 1
        BY <3>1, <3>3
      <4> QED BY <1>10, <2>1, <2>3, <3>1, <4>1
    <3> QED BY <3>2, <3>3
  <2> HIDE DEF c
  <2> QED BY <2>4, <2>5, <2>6, <2>7
<1>12. c(n + l) = c0
  <2>1. slots \in Seq(SlotSet \cap {sections[i].slot : i \in Range(removed)})
    BY SlotsTyped
  <2>2. Len(slots) <= l
    BY <1>2 DEF restateSections
  <2>3. Times(slots, s) = Upto(M, n)
    BY <1>1, SlotsTyped DEF M
  <2> HIDE DEF slots
  <2>4. Upto(L, l) = Upto(M, n) /\ Upto(M, n) \in Nat
    BY <2>1, <2>2, <2>3, TimesBeyond, UptoStep DEF L
  <2>5. Upto(L, 0) = 0
    BY UptoStep
  <2>6. CASE l = 0
    BY <1>10, <2>4, <2>5, <2>6
  <2>7. CASE l # 0
    <3>1. ~ (n + l <= n) /\ (n + l) - n = l
      BY <2>7
    <3> QED BY <1>10, <2>4, <3>1
  <2> QED BY <2>6, <2>7
<1>13. \A k \in 1..n : Delta(ops[k], s) = IF k \in M THEN -1 ELSE 0
  <2> SUFFICES ASSUME NEW k \in 1..n PROVE Delta(ops[k], s) = IF k \in M THEN -1 ELSE 0
    OBVIOUS
  <2>1. k \in M <=> sections[removed[k]].slot = s
    BY <1>1 DEF M, Tagged
  <2>2. ops[k].op = "removeElement" /\ ops[k].list = "sections" /\ ops[k].id = removed[k]
    BY <1>o
  <2> QED BY <2>1, <2>2 DEF Delta
<1>14. \A k \in 1..l : Delta(ops[n + k], s) = IF k \in L THEN 1 ELSE 0
  <2>1. s # NoSlot
    BY SpecConstants
  <2> SUFFICES ASSUME NEW k \in 1..l
               PROVE  Delta(ops[n + k], s) = IF k \in L THEN 1 ELSE 0
    OBVIOUS
  <2>2. k \in L <=> k \in DOMAIN slots /\ slots[k] = s
    BY DEF L, At
  <2>3. /\ ops[n + k].op = "addElement" /\ ops[n + k].list = "sections"
        /\ ops[n + k].element.slot = IF k \in DOMAIN slots THEN slots[k] ELSE NoSlot
    BY <1>o
  <2> HIDE DEF slots
  <2> QED BY <2>1, <2>2, <2>3 DEF Delta
<1> HIDE DEF c
<1>15. \A k \in 0..(n + l) : S[k] =
         {q \in PageOf(Statuses, X) :
            /\ Rooted(q.sections) /\ Count(q.sections, s) >= c(k)
            /\ IsInjective(removed) => Count(q.sections, s) = c(k) /\ Others(q, k)}
  OBVIOUS
<1>16. page \in S[0]
  <2>1. Rooted(page.sections)
    BY DEF Rooted, IdsArePositions, sections
  <2>2. \A j \in DOMAIN removed : Holds(page.sections, removed[j])
    BY <1>1 DEF Holds, IdsArePositions, Ids, sections
  <2>3. 0 \in 0..(n + l)
    OBVIOUS
  <2>4. Count(page.sections, s) = c(0) /\ c(0) >= c(0)
    BY <1>10, <1>11 DEF c0
  <2> QED BY <1>9, <1>15, <2>1, <2>2, <2>3, <2>4
<1> HIDE DEF S, Others
<1>17. ASSUME NEW k \in 1..(n + l), NEW v \in S[k - 1], Allowed(page.status, v, ops[k])
       PROVE  Apply(v, ops[k]) \in S[k]
  <2> DEFINE w == Apply(v, ops[k])
             cv == Count(v.sections, s)
  <2>1. k \in 0..(n + l) /\ k - 1 \in 0..(n + l) /\ k \in DOMAIN ops
    BY <1>5
  <2>2. /\ v \in PageOf(Statuses, X) /\ Rooted(v.sections) /\ cv >= c(k - 1)
        /\ IsInjective(removed) => cv = c(k - 1) /\ Others(v, k - 1)
    BY <1>15, <1>17, <2>1
  <2>3. cv \in Nat
    <3>1. v.sections \in Seq(X)
      BY <2>2 DEF PageOf
    <3>2. v.sections \in Seq(Section)
      BY <1>9, <3>1, SeqMonotonic
    <3> QED BY <3>2, CountNat
  <2>4. v \in Placed(X, s, cv)
    BY <2>2 DEF Placed
  <2>5. ~ SlotWritten(ops[k])
    <3>1. CASE k \in 1..n
      BY <1>o, <3>1 DEF SlotWritten
    <3>2. CASE k \notin 1..n
      <4>1. k - n \in 1..l /\ n + (k - n) = k
        BY <3>2
      <4>2. ops[k].op = "addElement"
        BY <1>o, <4>1
      <4> QED BY <4>2 DEF SlotWritten
    <3> QED BY <3>1, <3>2
  <2> HIDE DEF cv
  <2>6. \/ w \in Placed(X, s, cv + Delta(ops[k], s))
        \/ ops[k].op = "removeElement" /\ ~ Holds(v[ops[k].list], ops[k].id) /\ w = v
    BY <1>8, <1>9, <1>17, <2>1, <2>3, <2>4, <2>5, ApplyCounts DEF AllHarmless
  <2>7. CASE k \in 1..n
    <3>1. /\ ops[k] = RemoveElement("sections", removed[k])
          /\ ops[k].list = "sections" /\ ops[k].id = removed[k]
      BY <1>5, <1>o, <2>7
    <3>2. /\ Delta(ops[k], s) = (IF k \in M THEN -1 ELSE 0)
          /\ c(k) = c(k - 1) - (IF k \in M THEN 1 ELSE 0)
      BY <1>11, <1>13, <2>7
    <3>3. c(k) \in Int /\ c(k - 1) \in Int
      BY <1>11, <2>1
    <3>4. CASE w \in Placed(X, s, cv + Delta(ops[k], s)) /\ ~ (~ Holds(v.sections, removed[k]) /\ w = v)
      <4>1. w \in PageOf(Statuses, X) /\ Rooted(w.sections)
            /\ Count(w.sections, s) = cv + Delta(ops[k], s)
        BY <3>4 DEF Placed
      <4>2. Count(w.sections, s) >= c(k) /\ (cv = c(k - 1) => Count(w.sections, s) = c(k))
        BY <2>2, <2>3, <3>2, <3>3, <4>1
      <4>3. ASSUME IsInjective(removed) PROVE Others(w, k)
        <5> SUFFICES ASSUME NEW j \in DOMAIN removed, k < j PROVE Holds(w.sections, removed[j])
          BY DEF Others
        <5>1. k - 1 < j /\ k - 1 < k /\ j # k
          BY <1>1, <2>7
        <5>2. Holds(v.sections, removed[j]) /\ Holds(v.sections, removed[k])
          BY <1>1, <2>2, <2>7, <4>3, <5>1 DEF Others
        <5>3. removed[j] # removed[k]
          BY <1>1, <2>7, <4>3, <5>1 DEF IsInjective
        <5> QED BY <1>9, <2>2, <3>1, <5>2, <5>3, OthersHeld
      <4> HIDE DEF w
      <4>4. w \in S[k]
        BY <1>15, <2>1, <2>2, <4>1, <4>2, <4>3
      <4> QED BY <4>4 DEF w
    <3>5. CASE ~ Holds(v.sections, removed[k]) /\ w = v
      <4>1. ~ IsInjective(removed)
        <5>1. k - 1 < k /\ k \in DOMAIN removed
          BY <1>1, <2>7
        <5> QED BY <2>2, <3>5, <5>1 DEF Others
      <4>2. cv >= c(k)
        BY <2>2, <2>3, <3>2, <3>3
      <4>3. v \in S[k]
        BY <1>15, <2>1, <2>2, <4>1, <4>2 DEF cv
      <4> QED BY <3>5, <4>3
    <3> QED BY <2>6, <3>1, <3>4, <3>5
  <2>8. CASE k \notin 1..n
    <3> DEFINE m == k - n
    <3>1. m \in 1..l /\ n + m = k
      BY <2>8
    <3> HIDE DEF m
    <3>2. ops[k].op = "addElement"
      BY <1>o, <3>1
    <3>3. /\ Delta(ops[k], s) = (IF m \in L THEN 1 ELSE 0)
          /\ c(k) = c(k - 1) + (IF m \in L THEN 1 ELSE 0)
      BY <1>11, <1>14, <3>1
    <3>4. c(k) \in Int /\ c(k - 1) \in Int
      BY <1>11, <2>1
    <3>5. w \in PageOf(Statuses, X) /\ Rooted(w.sections)
          /\ Count(w.sections, s) = cv + Delta(ops[k], s)
      BY <2>6, <3>2 DEF Placed
    <3>6. Count(w.sections, s) >= c(k) /\ (cv = c(k - 1) => Count(w.sections, s) = c(k))
      BY <2>2, <2>3, <3>3, <3>4, <3>5
    <3>7. Others(w, k)
      <4>1. \A j \in DOMAIN removed : ~ (k < j)
        BY <1>1, <2>8
      <4> QED BY <4>1 DEF Others
    <3> HIDE DEF w
    <3>8. w \in S[k]
      BY <1>15, <2>1, <2>2, <3>5, <3>6, <3>7
    <3> QED BY <3>8 DEF w
  <2> QED BY <2>7, <2>8
<1>18. PICK q \in S[n + l] : Count(page'.sections, s) = Count(q.sections, s)
  <2>1. n + l \in 0..(n + l)
    OBVIOUS
  <2>2. S[n + l] \subseteq PageOf(Statuses, X)
    BY <1>15, <2>1
  <2> QED BY <1>5, <1>7, <1>8, <1>9, <1>16, <1>17, <2>2, DecisionLeads
<1>19. /\ Count(q.sections, s) >= c0
       /\ IsInjective(removed) => Count(q.sections, s) = c0
  <2>1. n + l \in 0..(n + l)
    OBVIOUS
  <2> QED BY <1>12, <1>15, <1>18, <2>1
<1> QED BY <1>18, <1>19, FillsCount DEF c0

-----------------------------------------------------------------------------
(* The theorems.                                                            *)

\* The inductive invariant: types, ids that are positions, and the provenance, whatever
\* commands of the page (552-1071) or of the workspace come in whatever order.
THEOREM SpecInvHolds == Spec => []SpecInv
BY SpecInvInit, SpecInvStep, PTL DEF Spec

\* The page keeps its type through every command's operations, at most settled once.
THEOREM SpecTypes == Spec => []TypeOK
<1>1. SpecInv => TypeOK
  BY DEF SpecInv
<1> QED BY <1>1, SpecInvHolds, PTL

\* Whatever words of any rubric are restated, split, joined, moved or written, a text gets
\* into a verified section by a command that verifies what it is given, or is accepted.
THEOREM VerifiedIsSigned == Spec => []VerifiedWasSigned
<1>1. SpecInv => VerifiedWasSigned
  BY DEF SpecInv
<1> QED BY <1>1, SpecInvHolds, PTL

\* After any command of the page one round of the transitions the engine derives is
\* enough, from any page that moveItem may have left too.
THEOREM StatusStaysDerived == Spec => StatusIsDerived
<1>1. SpecInv /\ [NextCommand]_vars => [Derived(page') \/ moveItem]_vars
  BY PageCommandStep DEF NextCommand, PageCommand
<1> QED BY <1>1, SpecInvHolds, PTL DEF Spec, StatusIsDerived

\* No command of the page leaves a spec approved and incomplete that was not: the gate asks
\* before, and in an approved spec only lifecycle operations are legal, which touch nothing
\* of what was asked.
THEOREM ApprovedStaysComplete == Spec => ApprovedIsComplete
<1>1. SpecInv /\ [NextCommand]_vars => [Incomplete' => Incomplete \/ moveItem]_vars
  BY PageCommandStep DEF NextCommand, PageCommand
<1> QED BY <1>1, SpecInvHolds, PTL DEF Spec, ApprovedIsComplete

\* A restatement of any number of sections by any number gives each slot it takes to one
\* of the new for each time it names a section that has it, and every other declared
\* command leaves the tags alone.
THEOREM SlotsStayKept == Spec => SlotsKept
<1> DEFINE Edited ==
      \/ \E i \in Ids : \/ removeSectionsItemsElement(i)
                        \/ \E s \in SlotSet \cup {NoSlot} : setSectionsItemsField(i, "slot", s)
      \/ \E d \in Drafts, s \in SlotSet, depth \in Depths :
           addSectionsItemsElement(d, s, depth)
<1>1. ASSUME SpecInv, PageCommand, ~ SlotsEdited, NEW s \in SlotSet, Fills(s) # 0
      PROVE  Fills(s)' = Fills(s) \/ (NamesTwice /\ Fills(s)' >= Fills(s))
  <2>1. Filling(s) # {}
    BY <1>1, FS_EmptySet DEF Fills
  <2>2. ASSUME NEW removed \in Removals, NEW new \in Replacements, Signing(Said(new)),
               restateSections(removed, new)
        PROVE  Fills(s)' = Fills(s) \/ (NamesTwice /\ Fills(s)' >= Fills(s))
    <3>1. Fills(s)' >= Fills(s) /\ (IsInjective(removed) => Fills(s)' = Fills(s))
      BY <1>1, <2>2, RestateKeeps
    <3>2. ~ IsInjective(removed) => NamesTwice
      BY <2>2 DEF NamesTwice
    <3> QED BY <3>1, <3>2
  <2>3. CASE ~ \E removed \in Removals, new \in Replacements :
               Signing(Said(new)) /\ restateSections(removed, new)
    <3>1. Regular({s}) \/ (approve /\ signed' = signed)
      <4>1. TypeOK /\ VerifiedWasSigned /\ IdsArePositions(page)
        BY <1>1 DEF SpecInv
      <4> DEFINE W == {s}
      <4>2. W \in SUBSET SlotSet /\ \A t \in W : Filling(t) # {}
        BY <2>1
      <4> HIDE DEF W
      <4>3. Regular(W) \/ (approve /\ signed' = signed)
        BY <1>1, <2>3, <4>1, <4>2, CommandRegular
      <4> QED BY <4>3 DEF W
    <3> QED BY <1>1, <3>1, RegularKeeps, ApproveKeeps
  <2> QED BY <2>2, <2>3
<1> DEFINE Kept == \A s \in SlotSet : Fills(s) = 0 \/ Fills(s)' = Fills(s)
           Doubled == NamesTwice /\ \A s \in SlotSet : Fills(s) = 0 \/ Fills(s)' >= Fills(s)
<1>2. ASSUME SpecInv, PageCommand, ~ SlotsEdited PROVE Kept \/ Doubled
  <2>1. \A s \in SlotSet : Fills(s) \in Nat
    <3>1. page.sections \in Seq(Section)
      BY <1>2 DEF SpecInv, TypeOK, Page
    <3> QED BY <3>1, CountNat, FillsCount
  <2> QED BY <1>1, <1>2, <2>1
<1>3. SpecInv /\ [NextCommand]_vars => [Kept \/ Edited \/ moveItem \/ Doubled]_vars
  BY <1>2 DEF SlotsEdited, NextCommand, PageCommand
<1> QED BY <1>3, SpecInvHolds, PTL DEF Spec, SlotsKept

-----------------------------------------------------------------------------
(* The feature.                                                             *)

\* Each conjunct needs the types; the first two are inductive beside them.
FeatureInv == FeatureTypeOK /\ DecisionsThreaded /\ ReadyHasModel

LEMMA FeatureInitEstablishes == FeatureInit => FeatureInv
BY FeatureConstants
   DEF FeatureInit, FeatureInv, FeatureTypeOK, DecisionsThreaded, ReadyHasModel, BriefStatuses, Absent

LEMMA BriefKeepsType ==
  ASSUME FeatureTypeOK, NEW event, BriefStep(event)
  PROVE  brief' \in BriefStatuses
BY DEF FeatureTypeOK, BriefStep, briefTransitions, BriefStatuses

\* A sign-off drives each of the pinned pages to its end.
LEMMA ShipFinalizes ==
  ASSUME FeatureTypeOK, ship
  PROVE  /\ planStatus' = [planStatus EXCEPT ![Own] = "ready"]
         /\ testStatus' = "ready" /\ spec' = "sealed"
BY FeatureConstants DEF FeatureTypeOK, ship, Final, requiredChildren, pinnedChildren

LEMMA StepKeepsType ==
  ASSUME FeatureTypeOK, NEW p \in Plans, NEW s \in Steps, NEW status \in {Absent, "todo", "done"},
         SetStep(p, s, status)
  PROVE  step' \in [Plans -> [Steps -> {Absent, "todo", "done"}]]
<1>1. step[p] \in [Steps -> {Absent, "todo", "done"}]
  BY DEF FeatureTypeOK
<1>2. [step[p] EXCEPT ![s] = status] \in [Steps -> {Absent, "todo", "done"}]
  BY <1>1
<1>3. step' = [step EXCEPT ![p] = [step[p] EXCEPT ![s] = status]]
  BY DEF SetStep
<1> QED BY <1>2, <1>3 DEF FeatureTypeOK

LEMMA FeatureTypePreserved == FeatureTypeOK /\ [FeatureNext]_featureVars => FeatureTypeOK'
<1> SUFFICES ASSUME FeatureTypeOK, [FeatureNext]_featureVars PROVE FeatureTypeOK'
  OBVIOUS
<1>1. CASE MoveBrief
  BY <1>1, BriefKeepsType DEF MoveBrief, FeatureTypeOK, plans, tests, specPage
<1>2. CASE beginImplementation
  BY <1>2, BriefKeepsType DEF beginImplementation, FeatureTypeOK, plans, tests, specPage
<1>3. CASE ship
  <2>1. brief' \in BriefStatuses
    BY <1>3, BriefKeepsType DEF ship
  <2> QED BY <1>3, <2>1, ShipFinalizes DEF ship, FeatureTypeOK
<1>4. ASSUME NEW q \in Questions,
             askQuestion(q) \/ answerQuestion(q) \/ removeQuestion(q) \/ MoveQuestion(q)
      PROVE  FeatureTypeOK'
  <2>1. question' \in [Questions -> {Absent, "open", "resolved"}]
    BY <1>4 DEF askQuestion, answerQuestion, removeQuestion, MoveQuestion, FeatureTypeOK
  <2>2. late' \subseteq Questions
    BY <1>4 DEF askQuestion, answerQuestion, removeQuestion, MoveQuestion, Late, FeatureTypeOK, specPage
  <2> QED
    BY <1>4, <2>1, <2>2
    DEF askQuestion, answerQuestion, removeQuestion, MoveQuestion, FeatureTypeOK, plans, tests, specPage
<1>5. CASE StepCommands
  <2>1. step' \in [Plans -> [Steps -> {Absent, "todo", "done"}]]
    <3>1. PICK p \in Plans, s \in Steps, status \in {Absent, "todo", "done"} : SetStep(p, s, status)
      BY <1>5 DEF StepCommands, addStep, removeStep, markStepDone, markStepTodo
    <3> QED BY <3>1, StepKeepsType
  <2> QED BY <1>5, <2>1 DEF StepCommands, FeatureTypeOK, tests, specPage
<1>6. CASE CaseCommands
  <2>1. case' \in [Cases -> {Absent, "planned", "passed", "failed"}]
    BY <1>6 DEF CaseCommands, addCase, removeCase, markCasePassed, markCaseFailed, SetCase, FeatureTypeOK
  <2> QED BY <1>6, <2>1 DEF CaseCommands, FeatureTypeOK, plans, specPage
<1>7. CASE TestPlanStatus
  BY <1>7 DEF TestPlanStatus, FeatureTypeOK, plans, specPage
<1>8. ASSUME NEW p \in Plans, NEW blocks \in SUBSET Models, setDataModels(p, blocks) PROVE FeatureTypeOK'
  BY <1>8 DEF setDataModels, FeatureTypeOK, tests, specPage
<1>9. ASSUME NEW p \in Plans, markPlanReady(p) \/ reopenPlan(p) PROVE FeatureTypeOK'
  BY <1>9 DEF markPlanReady, reopenPlan, SetPlanStatus, FeatureTypeOK, tests, specPage
<1>10. ASSUME NEW p \in Plans, reparent(p) \/ reorder(p) PROVE FeatureTypeOK'
  BY <1>10 DEF reparent, reorder, FeatureTypeOK, tests, specPage
<1>11. ASSUME NEW p \in Plans, NEW s \in Steps, MoveStep(p, s) PROVE FeatureTypeOK'
  <2>1. step' \in [Plans -> [Steps -> {Absent, "todo", "done"}]]
    <3>1. PICK status \in {Absent, "todo", "done"} : SetStep(p, s, status)
      BY <1>11 DEF MoveStep
    <3> QED BY <3>1, StepKeepsType
  <2> QED BY <1>11, <2>1 DEF MoveStep, FeatureTypeOK, tests, specPage
<1>12. ASSUME NEW c \in Cases, MoveCase(c) PROVE FeatureTypeOK'
  <2>1. case' \in [Cases -> {Absent, "planned", "passed", "failed"}]
    BY <1>12 DEF MoveCase, SetCase, FeatureTypeOK
  <2> QED BY <1>12, <2>1 DEF MoveCase, FeatureTypeOK, plans, specPage
<1>13. ASSUME NEW cited \in SUBSET Questions, setDecisions(cited) PROVE FeatureTypeOK'
  BY <1>13 DEF setDecisions, FeatureTypeOK, plans, tests
<1>14. CASE seal \/ reopenSpec
  BY <1>14 DEF seal, reopenSpec, FeatureTypeOK, plans, tests
<1>15. CASE UNCHANGED featureVars
  BY <1>15 DEF featureVars, plans, tests, specPage, FeatureTypeOK
<1> QED
  BY <1>1, <1>2, <1>3, <1>4, <1>5, <1>6, <1>7, <1>8, <1>9, <1>10, <1>11, <1>12, <1>13, <1>14, <1>15
  DEF FeatureNext

\* What is resolved after a question's own step was resolved before, or is that question.
LEMMA QuestionStep ==
  ASSUME FeatureTypeOK, DecisionsThreaded, NEW q \in Questions,
         askQuestion(q) \/ answerQuestion(q) \/ removeQuestion(q) \/ MoveQuestion(q)
  PROVE  DecisionsThreaded'
<1> SUFFICES ASSUME spec' = "sealed", NEW r \in Questions, question'[r] = "resolved"
             PROVE  r \in cites' \cup late'
  BY DEF DecisionsThreaded, resolvedQuestions
<1>1. spec = "sealed" /\ cites' = cites
  BY DEF askQuestion, answerQuestion, removeQuestion, MoveQuestion, specPage
<1>2. late \subseteq late'
  BY DEF askQuestion, answerQuestion, removeQuestion, MoveQuestion, Late, specPage
<1>3. CASE question[r] = "resolved"
  BY <1>1, <1>2, <1>3 DEF DecisionsThreaded, resolvedQuestions
<1>4. CASE question[r] # "resolved"
  <2>1. r = q
    BY <1>4 DEF askQuestion, answerQuestion, removeQuestion, MoveQuestion, FeatureTypeOK
  <2>2. answerQuestion(q) \/ MoveQuestion(q)
    BY <2>1, <1>4 DEF askQuestion, removeQuestion, FeatureTypeOK, Absent
  <2>3. CASE answerQuestion(q)
    BY <2>1, <2>3, <1>1 DEF answerQuestion, Late
  <2>4. CASE MoveQuestion(q)
    <3>1. question[q] = Absent
      BY <2>1, <2>4, <1>4 DEF MoveQuestion, FeatureTypeOK, Absent
    <3>2. PICK status \in {"open", "resolved"} :
            /\ question' = [question EXCEPT ![q] = status]
            /\ Late(IF status = "resolved" THEN {q} ELSE {})
      BY <2>4, <3>1 DEF MoveQuestion
    <3>3. status = "resolved"
      BY <2>1, <3>2 DEF FeatureTypeOK
    <3> QED BY <2>1, <1>1, <3>2, <3>3 DEF Late
  <2> QED BY <2>2, <2>3, <2>4
<1> QED BY <1>3, <1>4

LEMMA ThreadedPreserved == FeatureTypeOK /\ DecisionsThreaded /\ [FeatureNext]_featureVars => DecisionsThreaded'
<1> SUFFICES ASSUME FeatureTypeOK, DecisionsThreaded, [FeatureNext]_featureVars PROVE DecisionsThreaded'
  OBVIOUS
<1>1. CASE ship
  BY <1>1 DEF ship, Finalizable, everyDecisionReferenced, DecisionsThreaded, resolvedQuestions, FeatureTypeOK
<1>2. ASSUME NEW q \in Questions,
             askQuestion(q) \/ answerQuestion(q) \/ removeQuestion(q) \/ MoveQuestion(q)
      PROVE  DecisionsThreaded'
  BY <1>2, QuestionStep
<1>3. ASSUME NEW cited \in SUBSET Questions, setDecisions(cited) PROVE DecisionsThreaded'
  BY <1>3 DEF setDecisions, SpecWritable, DecisionsThreaded
<1>4. CASE seal
  BY <1>4 DEF seal, everyDecisionReferenced, DecisionsThreaded, resolvedQuestions
<1>5. CASE reopenSpec
  BY <1>5 DEF reopenSpec, DecisionsThreaded
<1>6. CASE UNCHANGED <<question, spec, cites, late>>
  BY <1>6 DEF DecisionsThreaded, resolvedQuestions
<1>7. \/ ship \/ seal \/ reopenSpec \/ UNCHANGED <<question, spec, cites, late>>
      \/ \E q \in Questions : askQuestion(q) \/ answerQuestion(q) \/ removeQuestion(q) \/ MoveQuestion(q)
      \/ \E cited \in SUBSET Questions : setDecisions(cited)
  BY DEF FeatureNext, featureVars, specPage, MoveBrief, beginImplementation, StepCommands, CaseCommands,
         TestPlanStatus, setDataModels, markPlanReady, reopenPlan, SetPlanStatus, reparent, reorder,
         MoveStep, MoveCase
<1> QED BY <1>1, <1>2, <1>3, <1>4, <1>5, <1>6, <1>7

LEMMA ModelPreserved == FeatureTypeOK /\ ReadyHasModel /\ [FeatureNext]_featureVars => ReadyHasModel'
<1> SUFFICES ASSUME FeatureTypeOK, ReadyHasModel, [FeatureNext]_featureVars PROVE ReadyHasModel'
  OBVIOUS
<1>1. CASE ship
  <2>1. planStatus' = [planStatus EXCEPT ![Own] = "ready"] /\ models' = models
    BY <1>1, ShipFinalizes DEF ship
  <2>2. planHasDataModel(Own)
    BY <1>1, FeatureConstants DEF ship, Finalizable, ReadyHasModel, FeatureTypeOK
  <2> QED BY <2>1, <2>2, FeatureConstants DEF ReadyHasModel, planHasDataModel, FeatureTypeOK
<1>2. ASSUME NEW p \in Plans, NEW blocks \in SUBSET Models, setDataModels(p, blocks)
      PROVE  ReadyHasModel'
  BY <1>2 DEF setDataModels, ReadyHasModel, planHasDataModel, FeatureTypeOK
<1>3. ASSUME NEW p \in Plans, markPlanReady(p) \/ reopenPlan(p) PROVE ReadyHasModel'
  BY <1>3 DEF markPlanReady, reopenPlan, SetPlanStatus, ReadyHasModel, planHasDataModel, FeatureTypeOK
<1>4. CASE UNCHANGED <<planStatus, models>>
  BY <1>4 DEF ReadyHasModel, planHasDataModel
<1>5. \/ ship \/ UNCHANGED <<planStatus, models>>
      \/ \E p \in Plans : \/ \E blocks \in SUBSET Models : setDataModels(p, blocks)
                          \/ markPlanReady(p) \/ reopenPlan(p)
  BY DEF FeatureNext, featureVars, plans, MoveBrief, beginImplementation, askQuestion, answerQuestion,
         removeQuestion, MoveQuestion, StepCommands, CaseCommands, TestPlanStatus, reparent,
         reorder, MoveStep, MoveCase, setDecisions, seal, reopenSpec
<1> QED BY <1>1, <1>2, <1>3, <1>4, <1>5

\* The types and what they need beside them, the inductive invariant of the feature.
THEOREM FeatureInvariant == FeatureSpec => []FeatureInv
<1>1. FeatureInv /\ [FeatureNext]_featureVars => FeatureInv'
  BY FeatureTypePreserved, ThreadedPreserved, ModelPreserved DEF FeatureInv
<1>2. QED
  BY <1>1, FeatureInitEstablishes, PTL DEF FeatureSpec

\* Every variable of the feature keeps its type.
THEOREM FeatureTypeCorrect == FeatureSpec => []FeatureTypeOK
<1>1. FeatureInv => FeatureTypeOK
  BY DEF FeatureInv
<1>2. QED
  BY <1>1, FeatureInvariant, PTL

\* A sealed spec cites every answered question but those answered since.
THEOREM DecisionsStayThreaded == FeatureSpec => []DecisionsThreaded
<1>1. FeatureInv => DecisionsThreaded
  BY DEF FeatureInv
<1>2. QED
  BY <1>1, FeatureInvariant, PTL

\* A ready plan has a data model.
THEOREM ReadyKeepsModel == FeatureSpec => []ReadyHasModel
<1>1. FeatureInv => ReadyHasModel
  BY DEF FeatureInv
<1>2. QED
  BY <1>1, FeatureInvariant, PTL

\* The pinned pages of a brief that ships are at their end, past their gates.
THEOREM ShipsAreAligned == FeatureSpec => ShipsAligned
<1>1. FeatureInv /\ [FeatureNext]_featureVars => [brief' = "shipped" /\ brief # "shipped" => Aligned']_featureVars
  <2> SUFFICES ASSUME FeatureInv, [FeatureNext]_featureVars, brief' = "shipped", brief # "shipped"
               PROVE  Aligned'
    OBVIOUS
  <2>1. ship
    <3>1. brief' # brief => ship \/ MoveBrief \/ beginImplementation
      BY DEF FeatureNext, featureVars, askQuestion, answerQuestion, removeQuestion, MoveQuestion, StepCommands,
             CaseCommands, TestPlanStatus, setDataModels, markPlanReady, reopenPlan, SetPlanStatus,
             reparent, reorder, MoveStep, MoveCase, setDecisions, seal, reopenSpec
    <3>2. ~ MoveBrief /\ ~ beginImplementation
      BY DEF MoveBrief, beginImplementation, BriefStep, briefTransitions
    <3> QED BY <3>1, <3>2
  <2>2. FeatureInv'
    BY FeatureTypePreserved, ThreadedPreserved, ModelPreserved DEF FeatureInv
  <2>3. planStatus'[Own] = "ready" /\ testStatus' = "ready" /\ spec' = "sealed"
    BY <2>1, ShipFinalizes, FeatureConstants DEF FeatureInv, FeatureTypeOK
  <2> QED
    BY <2>2, <2>3, FeatureConstants
    DEF FeatureInv, Aligned, DecisionsThreaded, ReadyHasModel, planHasDataModel, resolvedQuestions
<1>2. QED
  BY <1>1, FeatureInvariant, PTL DEF FeatureSpec, ShipsAligned

=============================================================================
