--------------------------- MODULE MCSearchReindex ---------------------------
(* Small instances of SearchReindex: a commit changes one page or both.       *)
EXTENDS SearchReindex

MCVersions == 1..MaxCommits
MCChanges == SUBSET Pages \ {{}}

=============================================================================
