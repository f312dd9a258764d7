------------------------------ MODULE SendPath ------------------------------
(***************************************************************************)
(* The way of a message through one connected client of the stress tester: *)
(* testClient.send (server/client.go), called by several task loops at     *)
(* once, the shared limWriter (pkg/client/buffer.go), the flusher and the  *)
(* token that wakes it, the acknowledgement and its bookkeeping in         *)
(* OnSendack, and the statistics that statsTask.countMsg draws from it.    *)
(*                                                                         *)
(* A message is its clientSeq.  c.mu, which the flusher holds while it     *)
(* writes, is left out: no sender takes it.  Pings and receipts, which go  *)
(* through the same writer, are left out.  The connection may break; that  *)
(* it is noticed and replaced is the business of ClientConn.               *)
(***************************************************************************)
EXTENDS Integers, Sequences, FiniteSets

CONSTANTS
  Senders,    \* the send loops that use this client
  Limit,      \* limWriter.limit, in messages
  MaxMsg,     \* bound: messages sent
  MaxTicks    \* bound: runs of countMsg

ASSUME SendAssumption ==
  IsFiniteSet(Senders) /\ {Limit, MaxMsg, MaxTicks} \subseteq Nat \ {0}

VARIABLES
  sendCount, sendErr, sendSuccess,   \* counters of testClient
  at, seq,        \* where each sender is, and its message
  bufs,           \* limWriter.bufs
  token,          \* flusherExitChan holds its one token
  flusherAt,
  up,             \* the connection has not broken
  wire,           \* written and not yet answered by the server
  acks,           \* sent by the server and not yet read
  appended,       \* history: all messages appended, in order
  written,        \* history: all messages written, in order
  readerAt, ack,  \* where OnSendack is: the message, its success, a record found
  sendMap,        \* messages sent and not known to be answered
  overtaken,      \* history: messages answered before they were recorded
  statsAt, ticks, preSendCount,
  rated           \* history: the sum of the batchSend of every countMsg

counts  == <<sendCount, sendErr, sendSuccess>>
sends   == <<at, seq>>
writer  == <<bufs, appended>>
network == <<up, wire, written>>
reading == <<acks, readerAt, ack, overtaken>>
stats   == <<statsAt, ticks, preSendCount, rated>>
vars    == <<counts, sends, writer, token, flusherAt, network, reading, sendMap, stats>>

NoAck == [seq |-> 0, ok |-> FALSE, found |-> FALSE]

Init ==
  /\ sendCount = 0 /\ sendErr = 0 /\ sendSuccess = 0
  /\ at = [s \in Senders |-> "idle"] /\ seq = [s \in Senders |-> 0]
  /\ bufs = <<>> /\ appended = <<>> /\ token = FALSE /\ flusherAt = "wait"
  /\ up = TRUE /\ wire = <<>> /\ written = <<>>
  /\ acks = <<>> /\ readerAt = "read" /\ ack = NoAck
  /\ sendMap = {} /\ overtaken = {}
  /\ statsAt = "idle" /\ ticks = 0 /\ preSendCount = 0 /\ rated = 0

Goto(s, l) == at' = [at EXCEPT ![s] = l]
Done(s)    == Goto(s, "idle") /\ seq' = [seq EXCEPT ![s] = 0]

\* Mutant: what was written stays in the buffer.
FlushKeeps(succeeds) ==
  /\ UNCHANGED <<bufs, appended>>
  /\ succeeds = up /\ UNCHANGED up
  /\ IF up THEN wire' = wire \o bufs /\ written' = written \o bufs
           ELSE UNCHANGED <<wire, written>>

\* limWriter.flush: the buffer is emptied whether the write succeeds or not.
\* A write that fails may have sent a first part; one into a broken
\* connection sends nothing, and may not even notice.
Flush(succeeds) ==
  /\ bufs' = <<>>
  /\ \E n \in 0 .. IF up THEN Len(bufs) ELSE 0 :
       /\ wire' = wire \o SubSeq(bufs, 1, n)
       /\ written' = written \o SubSeq(bufs, 1, n)
       /\ up /\ succeeds => n = Len(bufs)
       /\ ~succeeds => n = 0 \/ n < Len(bufs)
  /\ up' = (up /\ succeeds)
  /\ UNCHANGED appended

-----------------------------------------------------------------------------
(* testClient.send and Client.SendMessage.                                 *)

\* sendCount.Inc and clientIDGen.Add, which have been called equally often.
SendBegin(s) ==
  /\ at[s] = "idle" /\ sendCount < MaxMsg
  /\ sendCount' = sendCount + 1
  /\ seq' = [seq EXCEPT ![s] = sendCount + 1]
  /\ Goto(s, "append")
  /\ UNCHANGED <<sendErr, sendSuccess, writer, token, flusherAt, network, reading, sendMap, stats>>

SendAppend(s) ==
  /\ at[s] = "append"
  /\ bufs' = Append(bufs, seq[s]) /\ appended' = Append(appended, seq[s])
  /\ Goto(s, IF Len(bufs') >= Limit THEN "flush" ELSE "kick")
  /\ UNCHANGED <<counts, seq, token, flusherAt, network, reading, sendMap, stats>>

\* Mutant: after an error the sender goes on, and records no message.
SendFlushOn(s) ==
  /\ at[s] = "flush"
  /\ \/ /\ Flush(TRUE)
        /\ Goto(s, "kick") /\ UNCHANGED <<seq, sendErr>>
     \/ /\ Flush(FALSE)
        /\ Goto(s, "record") /\ sendErr' = sendErr + 1
        /\ seq' = [seq EXCEPT ![s] = 0]
  /\ UNCHANGED <<sendCount, sendSuccess, token, flusherAt, reading, sendMap, stats>>

\* A full buffer is flushed by the sender.  An error counts and is the end.
SendFlush(s) ==
  /\ at[s] = "flush"
  /\ \/ /\ Flush(TRUE)
        /\ Goto(s, "kick") /\ UNCHANGED <<seq, sendErr>>
     \/ /\ Flush(FALSE)
        /\ Done(s) /\ sendErr' = sendErr + 1
  /\ UNCHANGED <<sendCount, sendSuccess, token, flusherAt, reading, sendMap, stats>>

\* Mutant: a sender leaves the kick to another one that is still at it.
SendKickLeft(s) ==
  /\ at[s] = "kick"
  /\ token' = (token \/ \A other \in Senders \ {s} : at[other] = "idle")
  /\ Goto(s, "record")
  /\ UNCHANGED <<counts, seq, writer, flusherAt, network, reading, sendMap, stats>>

SendKick(s) ==
  /\ at[s] = "kick"
  /\ token' = TRUE
  /\ Goto(s, "record")
  /\ UNCHANGED <<counts, seq, writer, flusherAt, network, reading, sendMap, stats>>

SendRecord(s) ==
  /\ at[s] = "record"
  /\ sendMap' = sendMap \cup {seq[s]}
  /\ Done(s)
  /\ UNCHANGED <<counts, writer, token, flusherAt, network, reading, stats>>

-----------------------------------------------------------------------------
(* flusher.                                                                *)

FlusherTake ==
  /\ flusherAt = "wait" /\ token
  /\ token' = FALSE /\ flusherAt' = "woken"
  /\ UNCHANGED <<counts, sends, writer, network, reading, sendMap, stats>>

FlusherWrite ==
  /\ flusherAt = "woken" /\ flusherAt' = "wait"
  /\ \/ bufs = <<>> /\ UNCHANGED <<writer, network>>
     \/ bufs # <<>> /\ \E ok \in BOOLEAN : Flush(ok)
  /\ UNCHANGED <<counts, sends, token, reading, sendMap, stats>>

\* It leaves when it is told that the connection is broken.
FlusherLeave ==
  /\ flusherAt = "woken" /\ ~up /\ flusherAt' = "left"
  /\ UNCHANGED <<counts, sends, writer, token, network, reading, sendMap, stats>>

-----------------------------------------------------------------------------
\* The server answers the messages in the order they came.
Answer ==
  /\ wire # <<>>
  /\ wire' = Tail(wire)
  /\ \E ok \in BOOLEAN :
       acks' = Append(acks, [seq |-> Head(wire), ok |-> ok, found |-> FALSE])
  /\ UNCHANGED <<counts, sends, writer, token, flusherAt, up, written, readerAt, ack, overtaken, sendMap, stats>>

\* OnSendack: the record is looked up, and if there is one it is removed.
\* An answer that overtakes the record of its message finds none.
ReadAck ==
  /\ readerAt = "read" /\ acks # <<>>
  /\ acks' = Tail(acks)
  /\ ack' = [Head(acks) EXCEPT !.found = Head(acks).seq \in sendMap]
  /\ IF ack'.found THEN readerAt' = "drop" /\ UNCHANGED overtaken
       ELSE readerAt' = "count" /\ overtaken' = overtaken \cup {ack'.seq}
  /\ UNCHANGED <<counts, sends, writer, token, flusherAt, network, sendMap, stats>>

\* Mutant: the record is kept when the server refused the message.
DropRecordSome ==
  /\ readerAt = "drop" /\ readerAt' = "count"
  /\ sendMap' = IF ack.ok THEN sendMap \ {ack.seq} ELSE sendMap
  /\ UNCHANGED <<counts, sends, writer, token, flusherAt, network, acks, ack, overtaken, stats>>

DropRecord ==
  /\ readerAt = "drop" /\ readerAt' = "count"
  /\ sendMap' = sendMap \ {ack.seq}
  /\ UNCHANGED <<counts, sends, writer, token, flusherAt, network, acks, ack, overtaken, stats>>

\* Mutant: a success counts as an error as well.
CountBoth ==
  /\ readerAt = "count" /\ readerAt' = "read" /\ ack' = NoAck
  /\ sendSuccess' = IF ack.ok THEN sendSuccess + 1 ELSE sendSuccess
  /\ sendErr' = sendErr + 1
  /\ UNCHANGED <<sendCount, sends, writer, token, flusherAt, network, acks, overtaken, sendMap, stats>>

CountAck ==
  /\ readerAt = "count" /\ readerAt' = "read" /\ ack' = NoAck
  /\ sendSuccess' = IF ack.ok THEN sendSuccess + 1 ELSE sendSuccess
  /\ sendErr' = IF ack.ok THEN sendErr ELSE sendErr + 1
  /\ UNCHANGED <<sendCount, sends, writer, token, flusherAt, network, acks, overtaken, sendMap, stats>>

-----------------------------------------------------------------------------
(* statsTask.countMsg: the counter is loaded for the rate, and once more to *)
(* be remembered.                                                          *)

CountRate ==
  /\ statsAt = "idle" /\ statsAt' = "store"
  /\ ticks < MaxTicks /\ ticks' = ticks + 1
  /\ rated' = rated + sendCount - preSendCount
  /\ UNCHANGED <<counts, sends, writer, token, flusherAt, network, reading, sendMap, preSendCount>>

\* Mutant: the counter is not remembered.
CountStoreNot ==
  /\ statsAt = "store" /\ statsAt' = "idle"
  /\ UNCHANGED <<counts, sends, writer, token, flusherAt, network, reading, sendMap, ticks, preSendCount, rated>>

CountStore ==
  /\ statsAt = "store" /\ statsAt' = "idle"
  /\ preSendCount' = sendCount
  /\ UNCHANGED <<counts, sends, writer, token, flusherAt, network, reading, sendMap, ticks, rated>>

Break ==
  /\ up /\ up' = FALSE
  /\ UNCHANGED <<counts, sends, writer, token, flusherAt, wire, written, reading, sendMap, stats>>

Send(s) == SendFlush(s) \/ SendKick(s) \/ SendRecord(s) \/ SendAppend(s)
Flusher == FlusherTake \/ FlusherWrite \/ FlusherLeave
Reader  == ReadAck \/ DropRecord \/ CountAck

Next ==
  \/ \E s \in Senders : SendBegin(s) \/ Send(s)
  \/ Flusher \/ Answer \/ Reader
  \/ CountRate \/ CountStore \/ Break

Spec == Init /\ [][Next]_vars

\* Goroutines go on and the server answers what reaches it.  Nobody has to
\* send, and nothing has to break.
FairSpec ==
  /\ Spec /\ WF_vars(Flusher) /\ WF_vars(Answer) /\ WF_vars(Reader)
  /\ \A s \in Senders : WF_vars(Send(s))
=============================================================================
