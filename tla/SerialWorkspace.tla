-------------------------- MODULE SerialWorkspace --------------------------
(***************************************************************************)
(* What the engine promises about a workspace, whoever writes to it: there  *)
(* is one history, and each commit in it was decided on all that precedes   *)
(* it.  A call may be acknowledged, refused, or left without an answer; it  *)
(* is acknowledged only if its effect is in the history, and refused only   *)
(* by some prefix of the history (the caller's view may be stale).          *)
(*                                                                          *)
(* A call without an idempotency key may take effect again while it is not  *)
(* answered: the promise is at-least-once for those, at-most-once for calls *)
(* that carry one.                                                          *)
(***************************************************************************)
EXTENDS WorkspaceCommands

VARIABLES log, answer

serialVars == <<log, answer>>

Init ==
  /\ log = << >>
  /\ answer = [c \in Commands |-> "none"]

Prefixes == {SubSeq(log, 1, n) : n \in 0..Len(log)}

Call(c) ==
  /\ answer[c] = "none"
  /\ answer' = [answer EXCEPT ![c] = "pending"]
  /\ UNCHANGED log

Commit(c) ==
  /\ answer[c] \in {"pending", "unknown"}
  /\ ~ CommandSeen(c, log)
  /\ Emits(c, log)
  /\ log' = log \o Envelopes(c, Len(log))
  /\ UNCHANGED answer

InEffect(c) ==
  \/ \E i \in DOMAIN log : log[i].cmd = c
  \/ \E h \in Prefixes : CommandSeen(c, h) \/ DecidesNothing(c, h)

Acknowledge(c) ==
  /\ answer[c] \in {"none", "pending"}
  /\ InEffect(c)
  /\ answer' = [answer EXCEPT ![c] = "ok"]
  /\ UNCHANGED log

Refuse(c) ==
  /\ answer[c] \in {"none", "pending"}
  /\ \E h \in Prefixes : Refused(c, h) /\ ~ CommandSeen(c, h)
  /\ answer' = [answer EXCEPT ![c] = "rejected"]
  /\ UNCHANGED log

GiveUp(c) ==
  /\ answer[c] = "pending"
  /\ \E a \in {"conflict", "unknown"} : answer' = [answer EXCEPT ![c] = a]
  /\ UNCHANGED log

Next ==
  \E c \in Commands : Call(c) \/ Commit(c) \/ Acknowledge(c) \/ Refuse(c) \/ GiveUp(c)

Spec == Init /\ [][Next]_serialVars

=============================================================================
