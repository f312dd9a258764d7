----------------------------- MODULE SendProps -----------------------------
(***************************************************************************)
(* What the way of a message through a client promises.                    *)
(***************************************************************************)
EXTENDS SendPath

Seqs == 1 .. MaxMsg
Acks == [seq : 0 .. MaxMsg, ok : BOOLEAN, found : BOOLEAN]

\* Every variable has its type: the counters and maps of testClient
\* (client.go:17-40), the buffer of limWriter (buffer.go:12-19).
TypeOK ==
  /\ sendCount \in 0 .. MaxMsg /\ sendErr \in Nat /\ sendSuccess \in Nat
  /\ at \in [Senders -> {"idle", "append", "flush", "kick", "record"}]
  /\ seq \in [Senders -> 0 .. MaxMsg]
  /\ bufs \in Seq(Seqs) /\ appended \in Seq(Seqs)
  /\ wire \in Seq(Seqs) /\ written \in Seq(Seqs)
  /\ token \in BOOLEAN /\ up \in BOOLEAN /\ flusherAt \in {"wait", "woken", "left"}
  /\ acks \in Seq(Acks) /\ ack \in Acks /\ readerAt \in {"read", "drop", "count"}
  /\ sendMap \subseteq Seqs /\ overtaken \subseteq 0 .. MaxMsg
  /\ statsAt \in {"idle", "store"} /\ ticks \in 0 .. MaxTicks
  /\ preSendCount \in 0 .. MaxMsg /\ rated \in Nat

\* While the connection stands the senders and the flusher, who all flush
\* the same buffer, write every message once and in order: what is written
\* and what is still in the buffer make up what was appended.
WrittenOnce == up => written \o bufs = appended

\* Senders that have counted a message and not yet appended it, and messages
\* that are in the buffer, on the wire, in an unread answer, or in OnSendack.
Drawn    == {s \in Senders : at[s] = "append"}
InFlight == Len(bufs) + Len(wire) + Len(acks) + (IF readerAt = "read" THEN 0 ELSE 1)

\* While the connection stands no message is lost on the way or counted
\* twice: each one sent is with its sender, in flight, or counted as a success
\* or an error, and only one of these (client.go:88-126, 158-172).
CountedOnce ==
  up => sendCount = Cardinality(Drawn) + InFlight + sendSuccess + sendErr

\* Messages a sender still has in hand, and messages that wait for their answer
\* or whose answer OnSendack is about to take off the map.
InHand  == {seq[s] : s \in Senders}
Waiting == {bufs[i] : i \in DOMAIN bufs} \cup {wire[i] : i \in DOMAIN wire}
             \cup {acks[i].seq : i \in DOMAIN acks}
             \cup (IF readerAt = "drop" THEN {ack.seq} ELSE {})

\* While the connection stands sendMap holds the messages that send is done
\* with and that wait for their answer, and besides them those only whose
\* answer overtook the record: they stay for ever, as nothing else is deleted
\* (server/client.go:88-107, 168-171).
RecordsOfWaiting == up => sendMap = (Waiting \cup overtaken) \ InHand

\* The rates countMsg shows never add up to more than was sent, though the
\* counter moves on while it works (task_stats.go:105-107).
RatesNeverOver == rated <= sendCount

\* If the connection stands and nobody sends any more, all that was sent is
\* counted in the end, as a success or as an error: no wake-up of the flusher
\* is lost, although one token stands for any number of messages
\* (pkg/client/client.go:738-755), and an answer that overtakes the record of
\* its message counts (server/client.go:100-131, 158-172).
AllCounted ==
  []up /\ <>[](\A s \in Senders : at[s] = "idle")
    => <>[](sendSuccess + sendErr = sendCount)
=============================================================================
