----------------------------- MODULE FlushProps -----------------------------
(***************************************************************************)
(* What the writer, its pending buffer and FlushTimeout promise together.  *)
(***************************************************************************)
EXTENDS FlushPath

Items == {PING} \cup Msgs

\* Every variable has its type: the fields of limWriter (buffer.go:12-19), of
\* Client (client.go:26-62) and what readLoop keeps (client.go:468-470).
TypeOK ==
  /\ auto \in BOOLEAN /\ status \in {"CONNECTED", "RECONNECTING", "CLOSED"}
  /\ conn \in 0 .. MaxConn /\ nFault \in 0 .. MaxFaults
  /\ {bufs, pend, wire} \subseteq Seq(Items)
  /\ pendOn \in BOOLEAN /\ obj \in 0 .. MaxConn /\ next \in 1 .. MaxMsg + 1
  /\ sending.msg \in Items /\ sending.snap \in Seq(Items)
  /\ pongs \in Seq(Callers \cup {Nil})
  /\ st \in [Callers -> {"off", "call", "wait", "late", "done"}]
  /\ token \in [Callers -> BOOLEAN]
  /\ rec \in {"off", "wait", "write", "reset", "failed", "done"}
  /\ {up, reading, raced} \subseteq BOOLEAN
  /\ {mixed, panicked} \subseteq BOOLEAN /\ left \in 0 .. MaxConn
  /\ answers \in 0 .. Cardinality(Callers)
  /\ {received, late, appended, dropped} \subseteq SUBSET Msgs

\* "If there is a pong then the messages have certainly been sent"
\* (client.go:347): a flush that was answered on its own connection means that
\* the server has taken every message the writer was answerable for before it,
\* however many flushes and timeouts overlap; and a client that does not
\* reconnect by itself never gives the pong of one connection to a flush of
\* another.  Two things are left out: messages put into a pending buffer that
\* doReconnect had already written (see QueuedIsSent), and the flushes
\* of a connection that a second Connect made while the readLoop of the last
\* one was still there (client.go:95-105 waits for nobody).
FlushMeansDelivered ==
  \A f \in Callers : token[f] /\ sound[f] => asked[f].msgs \subseteq received

\* A reconnection does not send a message twice, and not before an earlier one
\* ("we don't want to take the risk of sending duplicates or partials",
\* buffer.go:88-89), unless an append restored what was being reset: a message
\* on the wire is later than all before it and than all that was sent before.
InOrderAndOnce ==
  ~raced => \A j \in DOMAIN wire : wire[j] # PING =>
    /\ \A i \in DOMAIN wire : i < j => wire[i] < wire[j]
    /\ \A m \in received \cup late : m < wire[j]

GivenUp == panicked \/ (~up /\ (status = "CLOSED" \/ conn = MaxConn))

\* A message the writer is answerable for is received in the end, unless the
\* connection it was accepted for breaks: the flusher finds it, doReconnect
\* writes the pending buffer, and close() writes what is in the buffer before
\* it closes the connection ("make sure we have flushed the outbound",
\* client.go:162).  A message that was put into a pending buffer after
\* doReconnect had written it is not among these: its SendMessage succeeded,
\* and it is lost on a connection that stands (client.go:291-303): it is never
\* received, unless another append restores it.
QueuedIsSent ==
  /\ [](raced \/ dropped \cap received = {})
  /\ \A m \in Msgs : []<>(m \in appended => m \in received \/ GivenUp)
=============================================================================
