--------------------------- MODULE VersionWaiters ---------------------------
(***************************************************************************)
(* The registry of parked reads (wiki/src/core/version-waiters.ts) for one  *)
(* workspace.  A read gated on a version resolves at once when that version *)
(* is applied, is rejected at once when a recorded failure covers it, and   *)
(* is parked otherwise, until an advance, a failure, its timer or the       *)
(* teardown of the workspace settles it.                                    *)
(*                                                                          *)
(* The in-memory read model and the search index each hold one registry.    *)
(***************************************************************************)
EXTENDS Naturals

CONSTANTS
  Readers,     \* the callers of waitFor, each waiting for one version at a time
  Versions     \* the versions tokens, advances and failures speak of

ASSUME VersionsAreNumbers == Versions \subseteq Nat \ {0}

VARIABLES
  applied,     \* the highest version reported applied, 0 when there is none
  lastFailed,  \* the highest version whose failure is remembered, or 0
  target,      \* the version each reader last waited for
  outcome      \* what became of that wait

registryVars == <<applied, lastFailed, target, outcome>>

Outcomes == {"none", "parked", "ok", "failed", "timeout", "closed"}

RegistryTypeOK ==
  /\ applied \in Versions \cup {0}
  /\ lastFailed \in Versions \cup {0}
  /\ target \in [Readers -> Versions \cup {0}]
  /\ outcome \in [Readers -> Outcomes]

RegistryInit ==
  /\ applied = 0
  /\ lastFailed = 0
  /\ target = [r \in Readers |-> 0]
  /\ outcome = [r \in Readers |-> "none"]

Parked(r) == outcome[r] = "parked"

\* Every parked read up to version v gets the answer a.
Settled(v, a) == [r \in Readers |-> IF Parked(r) /\ target[r] <= v THEN a ELSE outcome[r]]

\* The applied check comes first: what is applied resolves even when a later
\* version failed.
WaitFor(r, v) ==
  /\ ~ Parked(r)
  /\ target' = [target EXCEPT ![r] = v]
  /\ outcome' = [outcome EXCEPT ![r] =
       IF v <= applied THEN "ok" ELSE IF v <= lastFailed THEN "failed" ELSE "parked"]
  /\ UNCHANGED <<applied, lastFailed>>

NotifyForgiving(v) ==    \* mutant: any advance clears the failure
  IF v <= applied THEN UNCHANGED registryVars
  ELSE /\ applied' = v
       /\ lastFailed' = 0
       /\ outcome' = Settled(v, "ok")
       /\ UNCHANGED target

\* A late or repeated report changes nothing.  An advance clears the remembered
\* failure only if it reaches the failed version.
NotifyApplied(v) ==
  IF v <= applied THEN UNCHANGED registryVars
  ELSE /\ applied' = v
       /\ lastFailed' = IF v >= lastFailed THEN 0 ELSE lastFailed
       /\ outcome' = Settled(v, "ok")
       /\ UNCHANGED target

FailSilently(v) ==    \* mutant: the failure is remembered, nobody is told
  /\ lastFailed' = IF v > lastFailed THEN v ELSE lastFailed
  /\ UNCHANGED <<applied, target, outcome>>

FailWaiters(v) ==
  /\ lastFailed' = IF v > lastFailed THEN v ELSE lastFailed
  /\ outcome' = Settled(v, "failed")
  /\ UNCHANGED <<applied, target>>

TimeOut(r) ==
  /\ Parked(r)
  /\ outcome' = [outcome EXCEPT ![r] = "timeout"]
  /\ UNCHANGED <<applied, lastFailed, target>>

Forget ==
  /\ applied' = 0
  /\ lastFailed' = 0
  /\ outcome' = [r \in Readers |-> IF Parked(r) THEN "closed" ELSE outcome[r]]
  /\ UNCHANGED target

RegistryNext ==
  \/ \E r \in Readers : TimeOut(r) \/ \E v \in Versions : WaitFor(r, v)
  \/ \E v \in Versions : NotifyApplied(v) \/ FailWaiters(v)
  \/ Forget

RegistrySpec == RegistryInit /\ [][RegistryNext]_registryVars

-----------------------------------------------------------------------------
(* Properties.                                                              *)

\* No read is left parked on a version the registry already knows to be applied
\* or to have failed: whatever arrives first, in whatever order.
NoWaiterMissed ==
  \A r \in Readers : Parked(r) => target[r] > applied /\ target[r] > lastFailed

Emptied == applied = 0 /\ lastFailed = 0

\* A failure is news until an advance reaches it: what it covers stays covered, by
\* the failure or by the applied head, until the workspace is forgotten.
FailuresStayCovered ==
  [][\/ Emptied'
     \/ \A v \in Versions : v <= applied \/ v <= lastFailed => v <= applied' \/ v <= lastFailed']_registryVars

=============================================================================
