---------------------------- MODULE DerivedIndex ----------------------------
(***************************************************************************)
(* What an eventually consistent index of a workspace promises: its        *)
(* documents are always those of one version of the workspace, never a mix *)
(* of two, that version only grows, and a read gated on a version is        *)
(* answered from the documents of that version or a later one, or refused. *)
(***************************************************************************)
EXTENDS Naturals, Sequences

CONSTANTS Pages, Readers, Changes

VARIABLES
  history,   \* for each commit, the pages it changes
  docs,      \* for each page, the version its document was rendered at
  asked,     \* for each read, the version it is gated on
  answered   \* for each read: "no", "ok" or "refused"

vars == <<history, docs, asked, answered>>

\* The version of the last commit, up to version v, that changed page p.
LastChange(p, v) ==
  LET changes == {n \in 1..v : p \in history[n]}
  IN  IF changes = {} THEN 0 ELSE CHOOSE n \in changes : \A m \in changes : m <= n

RenderedAt(v) == [p \in Pages |-> LastChange(p, v)]

Init ==
  /\ history = << >>
  /\ docs = [p \in Pages |-> 0]
  /\ asked = [r \in Readers |-> 0]
  /\ answered = [r \in Readers |-> "no"]

Commit ==
  /\ \E A \in Changes : history' = Append(history, A)
  /\ UNCHANGED <<docs, asked, answered>>

\* The documents stay, or move forward to those of a later version.
Advance ==
  /\ \E v \in 0..Len(history) : docs' = RenderedAt(v)
  /\ \A p \in Pages : docs[p] <= docs'[p]

\* The documents, after this step, tell everything up to version v.
Tell(v) == \A p \in Pages : LastChange(p, v) <= docs'[p]

Ask(r, v) ==
  /\ asked' = [asked EXCEPT ![r] = v]
  /\ \/ answered' = [answered EXCEPT ![r] = "no"]
     \/ answered' = [answered EXCEPT ![r] = "refused"]
     \/ Tell(v) /\ answered' = [answered EXCEPT ![r] = "ok"]
  /\ UNCHANGED <<history, docs>>

\* An advance answers any of the reads that wait; so does a failure, by refusing.
Serve ==
  /\ Advance
  /\ \A r \in Readers :
       \/ answered'[r] = answered[r]
       \/ /\ answered[r] = "no"
          /\ asked[r] # 0
          /\ answered'[r] = "refused" \/ (answered'[r] = "ok" /\ Tell(asked[r]))
  /\ UNCHANGED <<history, asked>>

Next ==
  \/ Commit
  \/ Serve
  \/ \E r \in Readers, v \in 1..Len(history) : Ask(r, v)

Spec == Init /\ [][Next]_vars

=============================================================================
