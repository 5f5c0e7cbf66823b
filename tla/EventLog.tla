------------------------------ MODULE EventLog ------------------------------
(***************************************************************************)
(* One workspace stream on the Durable Streams host, as                     *)
(* wiki/src/stores/event-log.ts uses it.  One append stores one message, a *)
(* commit: the array of events one command decided.  The host admits an    *)
(* append only if its Stream-Seq is strictly greater than that of the last *)
(* stored message; the adapter stamps each append with the expected head.  *)
(* Reads flatten the messages, so the log is kept flat here and `first`    *)
(* marks where a message begins.                                            *)
(***************************************************************************)
EXTENDS WorkspaceCommands

VARIABLES
  log,       \* the stored events, in stream order
  lastSeq    \* the Stream-Seq of the last stored message, -1 on a new stream

logVars == <<log, lastSeq>>

LogInit ==
  /\ log = << >>
  /\ lastSeq = -1

\* The host's test on an append: equal or lower is HTTP 409, StaleAppendError.
Admits(seq) == seq > lastSeq

Store(c, seq) ==
  /\ log' = log \o Envelopes(c, seq)
  /\ lastSeq' = seq

\* Stream offsets only ever fall between messages.
MessageBoundary(n) == n < Len(log) => log[n + 1].first

\* What a read, or the live tail, returns between two offsets.
Between(from, to) == SubSeq(log, from + 1, to)

\* Per-event order comes from the version alone: an event's version is the
\* number of events before it in the stream.
LogContiguous == \A i \in DOMAIN log : log[i].version = i - 1

=============================================================================
