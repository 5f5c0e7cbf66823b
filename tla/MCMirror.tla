------------------------------ MODULE MCMirror ------------------------------
(* An instance of Mirror: a folder page with a page below it, and a leaf that another  *)
(* commit edits.  The second version moves the folder and its page away, the third one  *)
(* moves the page back to where it was.                                                *)
EXTENDS Mirror, TLC

CONSTANTS folder, page, p1, p2, p3, p4, e1, e2

MCPages == {folder, page}
MCPaths == {p1, p2, p3, p4}

At(x, b, n) == [path |-> x, body |-> b, needs |-> n]

MCTree ==
  << folder :> At(p1, 1, {}) @@ page :> At(p2, 1, {folder}),
     folder :> At(p3, 1, {}) @@ page :> At(p4, 1, {folder}),
     folder :> At(p3, 2, {}) @@ page :> At(p2, 1, {}) >>

MCTypes == {{}, {folder}}
=============================================================================
