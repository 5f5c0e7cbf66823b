---------------------------- MODULE MCProjection ----------------------------
(* The read side with two pages and three commits, the first and the last of the same page. *)
EXTENDS Projection

MCPages == {"a", "b"}
MCChange == [n \in 1..MaxCommits |-> IF n = 2 THEN "b" ELSE "a"]

=============================================================================
