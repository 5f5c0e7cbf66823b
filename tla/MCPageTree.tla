----------------------------- MODULE MCPageTree -----------------------------
(***************************************************************************)
(* A small workspace: a feature, whose required child is a decision record, *)
(* and another record that may be anywhere.  Records are numbered.           *)
(***************************************************************************)
EXTENDS TreeIndex, TLC

CONSTANTS
  feature, adr,     \* page types
  f1, a1, a2,       \* pages
  A, B,             \* titles
  away              \* another workspace

MCTypeOf == [p \in Pages |-> IF p = f1 THEN feature ELSE adr]
MCRequired == [t \in Types |-> IF t = feature THEN {adr} ELSE {}]
MCChildTitle(t, x) == <<t, x>>
MCTitles == Names \cup {B} \cup {MCChildTitle(t, x) : t \in Types, x \in Names}
MCEdges == {<<f1, a2>>}

Sent(pages, linked) ==
  [pages |-> pages,
   parent |-> [p \in Pages |-> IF p = a1 /\ p \in pages THEN f1 ELSE Root],
   title |-> [p \in Pages |-> IF p = a1 THEN MCChildTitle(adr, A) ELSE B],
   archived |-> {}, pinned |-> pages \cap {a1}, numbered |-> pages \cap {a1, a2}, links |-> linked]

\* The feature with its record and a link to the other record; the other record.  The
\* titles of pages made elsewhere differ from those callers give here.
MCImports == {Sent({f1, a1}, {[from |-> f1, to |-> a2, at |-> Here]}), Sent({a2}, {})}

=============================================================================
