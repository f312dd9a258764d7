------------------------------ MODULE P2pProps ------------------------------
(***************************************************************************)
(* What the report of a person to person test can be relied upon for.      *)
(***************************************************************************)
EXTENDS P2pTraffic

\* Every variable has its type: the fields of p2pTask (task_p2p.go:16-25),
\* the counters of testClient and of the report.
TypeOK ==
  /\ count \in Counts /\ {isRunning, stopC} \subseteq BOOLEAN
  /\ pairs \subseteq SUBSET Uids /\ todo \subseteq pairs
  /\ at \in {"select", "round", "chance", "off"} /\ round \in 0 .. Rounds
  /\ onlineFinished \in BOOLEAN /\ losses \in 0 .. MaxLoss
  /\ online \subseteq clients /\ clients \subseteq OnlineUids
  /\ sendMsgCount \in 0 .. MaxMsg /\ route \in Seq(OnlineUids \X Uids)
  /\ wire \subseteq Msgs /\ missed \subseteq Msgs
  /\ \A u \in OnlineUids :
       /\ {toClient[u], tmpBuff[u]} \subseteq Seq(Nat) /\ packets[u] \in Seq(Seq(Nat))
       /\ owed[u] \in Seq({PONG} \cup Msgs) /\ recvCount[u] \in Nat
  /\ statsAt \in {"idle", "sum", "expect"} /\ {listed, summed} \subseteq SUBSET OnlineUids
  /\ {sum, recv, expectRecv} \subseteq Nat

Enough(k, n) == k * (k - 1) >= 2 * n
Least(n) == CHOOSE k \in 0 .. n + 1 : Enough(k, n) /\ \A j \in 0 .. k - 1 : ~Enough(j, n)

\* The task has exactly the pairs it was asked for, all different and each of
\* two users, and it invents no more users than these pairs need
\* (task_p2p.go:57-58: "the least number of users for that many pairs").
PairsAsAsked ==
  /\ Cardinality(pairs) = count
  /\ \A p \in pairs : Cardinality(p) = 2
  /\ \A u \in UNION pairs : u > NOnline => u <= Least(count)

\* However the bytes are cut into reads, the frames in hand of every client
\* are the next the server sent it, whole and in order, and the bytes kept
\* over and those still to be read are the others, none of the former
\* complete (common.go:7-50, client.go:482-491).
FramesWhole ==
  \A u \in OnlineUids :
    LET frames == [i \in DOMAIN owed[u] |-> Frame(owed[u][i])]
        cut    == Len(packets[u])
    IN  /\ packets[u] = SubSeq(frames, 1, cut)
        /\ tmpBuff[u] \o toClient[u] = FlattenSeq(SubSeq(frames, cut + 1, Len(frames)))
        /\ tmpBuff[u] # <<>> => Parse(tmpBuff[u]).data = <<>>

\* A report never shows more messages received than expected, although the
\* clients send and receive while countMsg adds up (task_stats.go:111-144): a
\* message is counted before it is sent, and what is received is added up
\* before what is expected is read.
RecvNeverOver == statsAt = "idle" => recv <= expectRecv

ReadersKeepUp == \A u \in OnlineUids : []<>(owed[u] = <<>>)

\* While the test goes on and the readers keep up, the report settles, and
\* what it lacks is exactly the messages whose send failed after they were
\* counted (task_p2p.go:129-136), whose receiver was not connected when the
\* server had them, and that went with a connection: no other message is lost
\* between the send and the counters, and none is counted twice, however
\* often clients reconnect (task_stats.go:115-144).
LossesSettle ==
  []isRunning /\ ReadersKeepUp => <>[](expectRecv - recv = Cardinality(missed))
=============================================================================
