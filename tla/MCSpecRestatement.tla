------------------------- MODULE MCSpecRestatement -------------------------
(* Small instances of SpecRestatement.                                       *)
EXTENDS SpecRestatement, TLC

CONSTANTS
  model, plain, cited, draft, words,
  MaxMoved     \* bound of BlocksTravelWhole

Rubric == <<model>>
RubricTitle == (model :> plain)

\* One text has the types the slot asks for, the other lacks them and cites a title
\* that no section has.
Written == {[title |-> plain, text |-> t] : t \in {draft, words}}
Typed == (model :> {draft})
Citations == (draft :> {}) @@ (words :> {cited})

\* The moves of a block i..e in a list of n that end elsewhere than at `to` of the rest.
Astray ==
  {m \in {<<n, i, e, to>> \in (1..MaxMoved) \X (1..MaxMoved) \X (1..MaxMoved) \X (0..MaxMoved) :
            i <= e /\ e <= n /\ to <= n - (e - i + 1)} :
     LET ids == [k \in 1..m[1] |-> [id |-> k]]
         block == SubSeq(ids, m[2], m[3])
         rest == SubSeq(ids, 1, m[2] - 1) \o SubSeq(ids, m[3] + 1, m[1])
         ops == moveSubtreeOps(m[1], Run(m[2], m[3]), m[4])
     IN Applied([sections |-> ids], ops)[Len(ops)].sections #
          SubSeq(rest, 1, m[4]) \o block \o SubSeq(rest, m[4] + 1, Len(rest))}

\* Bound of the instance: the first section stands at the top level.
FirstAtTop == page.sections # <<>> => page.sections[1].depth = 0

(* The moves that carry a block of a list to a place in the rest leave the rest *)
(* in its order and the block whole at that place, though each shifts the       *)
(* indices of the next (moveSubtreeOps 262-274): every block of every list of   *)
(* up to MaxMoved sections, to every place.                                   *)
ASSUME BlocksTravelWhole == Astray = {}

=============================================================================
