------------------------------ MODULE PageHome ------------------------------
(***************************************************************************)
(* What moving pages between workspaces promises: a page is in one           *)
(* workspace at a time, its text is what was last written, and pages that    *)
(* move together move at once.                                              *)
(***************************************************************************)
EXTENDS Naturals

CONSTANTS Workspaces, Pages

VARIABLES
  home,    \* the workspace of each page
  text     \* how often each page was edited

vars == <<home, text>>

Init == home \in [Pages -> Workspaces] /\ text = [p \in Pages |-> 0]

Edit(p) ==
  /\ text' = [text EXCEPT ![p] = @ + 1]
  /\ UNCHANGED home

Move(A, v) ==
  /\ home' = [p \in Pages |-> IF p \in A THEN v ELSE home[p]]
  /\ UNCHANGED text

Next ==
  \/ \E p \in Pages : Edit(p)
  \/ \E w, v \in Workspaces, A \in SUBSET Pages : (\A p \in A : home[p] = w) /\ Move(A, v)

Spec == Init /\ [][Next]_vars

=============================================================================
