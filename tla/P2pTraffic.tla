----------------------------- MODULE P2pTraffic -----------------------------
(***************************************************************************)
(* Person to person messages from the p2p task (server/task_p2p.go) to the *)
(* report: the task makes its pairs of users and sends between them, the   *)
(* server answers the sender and delivers to the receiver, the readLoop of *)
(* each client cuts the bytes into frames (Frames) and counts what it      *)
(* received (OnRecv, server/client.go), and the statistics compare that    *)
(* with what is expected (server/task_stats.go).                           *)
(*                                                                         *)
(* Users are numbered.  The online task connects the first NOnline of them *)
(* one by one, as far as it can, and connections are lost and made again;  *)
(* how is left to OnlineTask and ClientConn, and the buffers between a     *)
(* send and the wire to SendPath.  Latencies, and the rates of countMsg,   *)
(* which SendPath has, are left out.                                       *)
(***************************************************************************)
EXTENDS Frames, Integers

CONSTANTS
  Recv, Pong,     \* header bytes
  NOnline,        \* taskCfg.Online
  Counts,         \* the values of p2pCfg.Count
  Rounds,         \* p2pCfg.MsgRate / 60: whole rounds every second
  Partial,        \* p2pCfg.MsgRate % 60 > 0: a round of chance follows
  MaxMsg,         \* bound: messages sent
  MaxLoss         \* bound: connections lost

ASSUME P2pAssumption ==
  /\ Recv \in Nat \ Heartbeats /\ Pong \in Heartbeats
  /\ NOnline \in Nat \ {0} /\ Counts \subseteq Nat
  /\ {Rounds, MaxMsg, MaxLoss} \subseteq Nat /\ Partial \in BOOLEAN
  /\ MaxMsg < Base * Base * Base * Base    \* every body has a length of four digits at most

OnlineUids == 1 .. NOnline
Msgs       == 1 .. MaxMsg
PONG       == 0           \* as opposed to a message

VARIABLES
  count,        \* p2pCfg.Count
  isRunning, stopC,   \* of the p2p task; stopC is closed
  pairs,        \* p2pTask.pairs
  at, round, todo,    \* where sendLoop is, rounds left, pairs left in this one
  sendMsgCount, \* p2pTask.sendMsgCount
  onlineFinished,     \* of the online task
  clients,      \* users in onlineTask.userClientMap
  online,       \* those of them whose client is connected
  losses,       \* connections lost so far, for the bound
  route,        \* the sender and the receiver of each message counted
  wire,         \* messages the server has not taken
  missed,       \* history: messages that were counted and will never arrive
  toClient,     \* bytes on their way to each client
  tmpBuff, packets,   \* of the readLoop of each client
  owed,         \* history: what was sent to each client and not handled
  recvCount,    \* testClient.recvCount
  statsAt, listed, summed, sum,   \* countMsg: where it is, the clients it
                \* took from the map, those summed, their recvCount
  recv, expectRecv        \* of the report

task   == <<count, isRunning, stopC, pairs>>
loop   == <<at, round, todo>>
conns  == <<onlineFinished, clients, online, losses>>
sends  == <<sendMsgCount, route, wire, missed>>
net    == <<toClient, owed>>
reader == <<tmpBuff, packets, recvCount>>
stats  == <<statsAt, listed, summed, sum, recv, expectRecv>>
vars   == <<task, loop, conns, sends, net, reader, stats>>

-----------------------------------------------------------------------------
(* generateData.                                                           *)

\* Mutant: the root is rounded down.
MinUsersDown(n) == Max({k \in 1 .. n + 1 : (2 * k - 1) * (2 * k - 1) <= 1 + 8 * n})

\* minUsersForPairs: (1 + sqrt(1 + 8 * n)) / 2, rounded up.
MinUsers(n) == Min({k \in 1 .. n + 1 : (2 * k - 1) * (2 * k - 1) >= 1 + 8 * n})

Users(n) == 1 .. Max({NOnline, MinUsers(n)})

\* generateRandomPairs: n pairs, drawn until they are different; none if the
\* users are too few.
RandomPairs(users, n) ==
  LET all == {{i, j} : i, j \in users} \ {{i} : i \in users}
  IN  IF n > Cardinality(all) THEN {{}}
      ELSE {S \in SUBSET all : Cardinality(S) = n}

Uids == UNION {Users(n) : n \in Counts}

Init ==
  /\ count \in Counts
  /\ isRunning = TRUE /\ stopC = FALSE
  /\ pairs \in RandomPairs(Users(count), count)
  /\ at = "select" /\ round = 0 /\ todo = {}
  /\ onlineFinished = FALSE /\ clients = {} /\ online = {} /\ losses = 0
  /\ sendMsgCount = 0 /\ route = <<>> /\ wire = {} /\ missed = {}
  /\ toClient = [u \in OnlineUids |-> <<>>] /\ owed = [u \in OnlineUids |-> <<>>]
  /\ tmpBuff = [u \in OnlineUids |-> <<>>] /\ packets = [u \in OnlineUids |-> <<>>]
  /\ recvCount = [u \in OnlineUids |-> 0]
  /\ statsAt = "idle" /\ listed = {} /\ summed = {} /\ sum = 0
  /\ recv = 0 /\ expectRecv = 0

-----------------------------------------------------------------------------
(* The online task brings users online: run at first, later its loop.      *)

\* A client that has connected is in the map, now or since an earlier time.
Online(u) ==
  /\ u \notin online /\ isRunning
  /\ online' = online \cup {u} /\ clients' = clients \cup {u}
  /\ UNCHANGED <<task, loop, onlineFinished, losses, sends, net, reader, stats>>

\* run is through with the users, whoever of them is connected.
OnlineFinished ==
  /\ ~onlineFinished /\ onlineFinished' = TRUE
  /\ UNCHANGED <<task, loop, clients, online, losses, sends, net, reader, stats>>

\* The connection of u is lost: with it goes what is on its way to u and what
\* its readLoop kept over, and some of what u sent.  The frames in hand are
\* handled all the same.
Lose(u) ==
  /\ u \in online /\ losses < MaxLoss
  /\ online' = online \ {u} /\ losses' = losses + 1
  /\ toClient' = [toClient EXCEPT ![u] = <<>>] /\ tmpBuff' = [tmpBuff EXCEPT ![u] = <<>>]
  /\ owed' = [owed EXCEPT ![u] = SubSeq(@, 1, Len(packets[u]))]
  /\ \E gone \in SUBSET {m \in wire : route[m][1] = u} :
       /\ wire' = wire \ gone
       /\ missed' = missed \cup gone \cup
            {m \in Msgs : \E i \in Len(packets[u]) + 1 .. Len(owed[u]) : owed[u][i] = m}
  /\ UNCHANGED <<task, loop, onlineFinished, clients, sendMsgCount, route, packets,
                 recvCount, stats>>

-----------------------------------------------------------------------------
(* sendLoop, willSendMsg, sendMsg.                                         *)

\* The bound: the loop goes no further once it has counted MaxMsg messages.
MayGoOn == Len(route) < MaxMsg

\* The ticker; if the channel stopC is closed too, select may still take it.
Tick ==
  /\ at = "select" /\ onlineFinished /\ MayGoOn
  /\ at' = "round" /\ round' = Rounds /\ todo' = {}
  /\ UNCHANGED <<task, sends, conns, net, reader, stats>>

Stopped ==
  /\ at = "select" /\ stopC
  /\ at' = "off"
  /\ UNCHANGED <<task, round, todo, sends, conns, net, reader, stats>>

\* isRunning is looked at before each whole round, and not before the last.
NextRound ==
  /\ at = "round" /\ todo = {} /\ MayGoOn
  /\ \/ /\ round > 0 /\ isRunning
        /\ round' = round - 1 /\ todo' = pairs
        /\ UNCHANGED at
     \/ /\ round = 0 \/ ~isRunning
        /\ round' = 0
        /\ IF Partial THEN at' = "chance" /\ todo' = pairs
                      ELSE at' = "select" /\ UNCHANGED todo
  /\ UNCHANGED <<task, sends, conns, net, reader, stats>>

\* fromClient.send: the message goes out, or send fails and it does not.
Send ==
  LET m == Len(route) + 1
  IN  \/ wire' = wire \cup {m} /\ UNCHANGED missed
      \/ missed' = missed \cup {m} /\ UNCHANGED wire

\* Mutant: a message is counted before its sender is looked up.
RandSendCounts(from, to) ==
  /\ sendMsgCount' = sendMsgCount + 1
  /\ IF from \in online THEN route' = Append(route, <<from, to>>) /\ Send
     ELSE UNCHANGED <<route, wire, missed>>

\* Mutant: a message is counted once it has been sent and taken.
RandSendLate(from, to) ==
  IF from \in online
  THEN /\ sendMsgCount' = Cardinality(DOMAIN route \ wire)
       /\ route' = Append(route, <<from, to>>) /\ Send
  ELSE UNCHANGED sends

\* randSend: a user without a client, or whose client is not connected, sends
\* nothing; a message is counted first, and stays counted if send fails.
RandSend(from, to) ==
  IF from \in online
  THEN /\ sendMsgCount' = sendMsgCount + 1
       /\ route' = Append(route, <<from, to>>) /\ Send
  ELSE UNCHANGED sends

SendPair(p) ==
  /\ at \in {"round", "chance"} /\ p \in todo /\ MayGoOn
  /\ todo' = todo \ {p}
  /\ \/ \E from \in p : \E to \in p \ {from} : RandSend(from, to)
     \/ at = "chance" /\ UNCHANGED sends
  /\ UNCHANGED <<task, at, round, conns, net, reader, stats>>

ChanceDone ==
  /\ at = "chance" /\ todo = {} /\ MayGoOn
  /\ at' = "select"
  /\ UNCHANGED <<task, round, todo, sends, conns, net, reader, stats>>

\* stop() of this task; the request stops the others too, which other modules
\* are about.
Stop ==
  /\ isRunning
  /\ isRunning' = FALSE /\ stopC' = TRUE
  /\ UNCHANGED <<count, pairs, loop, sends, conns, net, reader, stats>>

-----------------------------------------------------------------------------
(* The server delivers a message to its receiver, if that is connected.    *)
(* What it answers the sender is the business of SendPath.                 *)

\* A pong is its header alone; messages are of different sizes.
Frame(m) == IF m = PONG THEN <<Pong>> ELSE Encode(Recv, [i \in 1 .. m |-> m])

\* A pong may come just before the message.  A receiver that is not connected
\* does not get it.
ServerTake(m) ==
  /\ m \in wire /\ wire' = wire \ {m}
  /\ LET to == route[m][2]
     IN  IF to \in online
         THEN /\ \/ /\ toClient' = [toClient EXCEPT ![to] = @ \o Frame(m)]
                    /\ owed' = [owed EXCEPT ![to] = @ \o <<m>>]
                 \/ /\ toClient' = [toClient EXCEPT ![to] = @ \o Frame(PONG) \o Frame(m)]
                    /\ owed' = [owed EXCEPT ![to] = @ \o <<PONG, m>>]
              /\ UNCHANGED missed
         ELSE missed' = missed \cup {m} /\ UNCHANGED <<toClient, owed>>
  /\ UNCHANGED <<task, loop, conns, sendMsgCount, route, reader, stats>>

-----------------------------------------------------------------------------
(* readLoop and OnRecv.                                                    *)

\* Read returns any first part of what has arrived.
Read(u, n) ==
  /\ packets[u] = <<>>
  /\ LET cut == Parse(tmpBuff[u] \o SubSeq(toClient[u], 1, n))
     IN  /\ packets' = [packets EXCEPT ![u] = Packets(cut.data)]
         /\ tmpBuff' = [tmpBuff EXCEPT ![u] = cut.rest]
  /\ toClient' = [toClient EXCEPT ![u] = SubSeq(@, n + 1, Len(@))]
  /\ UNCHANGED <<task, loop, sends, conns, owed, recvCount, stats>>

HandlePacket(u) ==
  /\ packets[u] # <<>>
  /\ packets' = [packets EXCEPT ![u] = Tail(@)] /\ owed' = [owed EXCEPT ![u] = Tail(@)]
  /\ recvCount' = IF packets[u][1][1] = Recv THEN [recvCount EXCEPT ![u] = @ + 1]
                                             ELSE recvCount
  /\ UNCHANGED <<task, loop, sends, conns, toClient, tmpBuff, stats>>

-----------------------------------------------------------------------------
(* countMsg, while everybody else goes on.                                 *)

CountBegin ==
  /\ statsAt = "idle"
  /\ statsAt' = "sum" /\ listed' = clients /\ summed' = {} /\ sum' = 0
  /\ UNCHANGED <<task, loop, sends, conns, net, reader, recv, expectRecv>>

CountClient(u) ==
  /\ statsAt = "sum" /\ u \in listed \ summed
  /\ summed' = summed \cup {u} /\ sum' = sum + recvCount[u]
  /\ UNCHANGED <<task, loop, sends, conns, net, reader, statsAt, listed, recv, expectRecv>>

CountRecv ==
  /\ statsAt = "sum" /\ listed \subseteq summed
  /\ statsAt' = "expect" /\ recv' = sum
  /\ UNCHANGED <<task, loop, sends, conns, net, reader, listed, summed, sum, expectRecv>>

\* Mutant: the messages counted before are counted again.
CountExpectTwice ==
  /\ statsAt = "expect"
  /\ statsAt' = "idle" /\ expectRecv' = sum + sendMsgCount
  /\ listed' = {} /\ summed' = {} /\ sum' = 0
  /\ UNCHANGED <<task, loop, sends, conns, net, reader, recv>>

CountExpect ==
  /\ statsAt = "expect"
  /\ statsAt' = "idle" /\ expectRecv' = sendMsgCount
  /\ listed' = {} /\ summed' = {} /\ sum' = 0
  /\ UNCHANGED <<task, loop, sends, conns, net, reader, recv>>

-----------------------------------------------------------------------------
Loop   == Tick \/ Stopped \/ NextRound \/ (\E p \in todo : SendPair(p)) \/ ChanceDone
Server == \E m \in wire : ServerTake(m)
Reader(u) == HandlePacket(u) \/ \E n \in 1 .. Len(toClient[u]) : Read(u, n)
Count  == CountBegin \/ (\E u \in listed : CountClient(u)) \/ CountRecv \/ CountExpect

Next == \/ \E u \in OnlineUids : Online(u) \/ Lose(u) \/ Reader(u)
        \/ OnlineFinished \/ Loop \/ Stop \/ Server \/ Count

\* The server delivers and the statistics go on.  Whether users come online,
\* whether anything is sent and whether the task is stopped is left open.
Spec     == Init /\ [][Next]_vars
FairSpec == Spec /\ WF_vars(Server) /\ WF_vars(Count)
=============================================================================
