----------------------------- MODULE ClientConn -----------------------------
(***************************************************************************)
(* The connection life cycle of pkg/client/client.go: Connect, Close, the  *)
(* reader and the flusher of each connection, the ping timer, and the      *)
(* goroutine that reconnects.  All of them share one Client: its status,   *)
(* its mutex c.mu, the current connection, one read buffer and one write   *)
(* buffer.  c.mu is given up in the middle of Connect and of processOpErr, *)
(* and some reads of the status and of the reader's source take no lock.   *)
(*                                                                         *)
(* A write has no deadline but during a handshake (FlusherTimeout is never *)
(* set, options.go:43-55): to a silent peer it may return, or block with   *)
(* c.mu held until the connection breaks or is closed.                     *)
(*                                                                         *)
(* Connections are numbered in the order they are dialled.  What is sent   *)
(* and received is left out, but for pongs and for errors.                 *)
(***************************************************************************)
EXTENDS Integers, FiniteSets

CONSTANTS
  AutoReconn,     \* opts.AutoReconn
  MaxPingCount,   \* opts.MaxPingCount
  MaxConn,        \* bound: connections ever established
  NPing,          \* bound: callbacks of the ping timer running at once
  NRec,           \* bound: doReconnect goroutines running at once
  MaxClose,       \* bound: calls of Close
  MaxFaults       \* bound: faults of the network or of the server

ASSUME ClientAssumption ==
  /\ AutoReconn \in BOOLEAN
  /\ {MaxPingCount, MaxConn, NPing, NRec, MaxClose, MaxFaults} \subseteq Nat

ConnId    == 1 .. MaxConn
NilConn   == 0
Connector == <<"user", 1>>                        \* the caller of Connect
Closer    == <<"user", 2>>                        \* the caller of Close
Reader(k) == <<"reader", k>>
Readers   == {Reader(k) : k \in ConnId}           \* readLoop, by connection
Pings     == {<<"ping", i>> : i \in 1 .. NPing}   \* processPingTimer
Recs      == {<<"rec", i>> : i \in 1 .. NRec}     \* doReconnect
Procs     == {Connector, Closer} \cup Readers \cup Pings \cup Recs
NoProc    == <<"none", 0>>
Flusher(k) == <<"flusher", k>>
Flushers  == {Flusher(k) : k \in ConnId}          \* flusher, by connection

VARIABLES
  status,     \* c.status
  mu,         \* holder of c.mu across steps, or NoProc
  conn,       \* c.conn, NilConn for nil
  bound,      \* connection the shared reader and writer are bound to
  net,        \* connection: not dialled, working, silent, or broken or closed
  timer,      \* c.pingIntervalTimer: nil, set, fired or stopped
  pingOut,    \* c.pingOut
  exitChan,   \* which flusherExitChan c.setup() made last, 0 for nil
  kicked,     \* the flusherExitChans that hold a token
  pc,         \* where every goroutine but the flushers is
  src,        \* connection a reader reads from, or close() is to close
  flush,      \* where the flusher of each connection is
  flushOf,    \* connection and channel each flusher works on
  nClose, nFault

conns    == <<conn, bound, net>>
timers   == <<timer, pingOut>>
kicks    == <<exitChan, kicked>>
flushers == <<flush, flushOf>>
counts   == <<nClose, nFault>>
vars     == <<status, mu, conns, timers, kicks, pc, src, flushers, counts>>

Init ==
  /\ status = "DISCONNECTED" /\ mu = NoProc
  /\ conn = NilConn /\ bound = NilConn /\ net = [k \in ConnId |-> "none"]
  /\ timer = "nil" /\ pingOut = 0
  /\ exitChan = 0 /\ kicked = {}
  /\ pc = [p \in Procs |-> "off"]
  /\ src = [p \in Procs |-> NilConn]
  /\ flush = [k \in ConnId |-> "off"]
  /\ flushOf = [k \in ConnId |-> <<NilConn, 0>>]
  /\ nClose = 0 /\ nFault = 0

Goto(p, l)  == pc' = [pc EXCEPT ![p] = l]
NextConn    == Cardinality({k \in ConnId : net[k] # "none"}) + 1
Forget(p)   == src' = [src EXCEPT ![p] = NilConn]
StopTimer   == IF timer = "nil" THEN "nil" ELSE "stopped"
Kick        == kicked' = IF exitChan = 0 THEN kicked ELSE kicked \cup {exitChan}
WatchersOut == /\ \A r \in Readers : pc[r] = "off"
               /\ \A k \in ConnId : flush[k] = "off"
SpawnRec(f) == \E r \in Recs : pc[r] = "off" /\ pc' = [f EXCEPT ![r] = "kick"]

\* createConn and bindToNewConn: a dial that succeeds.
NewConn ==
  /\ NextConn \in ConnId
  /\ conn' = NextConn /\ bound' = NextConn
  /\ net' = [net EXCEPT ![NextConn] = "ok"]

\* Mutant: a timer that close() dropped is not created again.
HandshakeNoTimer(p, l) ==
  /\ net[conn] = "ok"
  /\ status' = "CONNECTED"
  /\ pingOut' = 0 /\ timer' = IF timer = "nil" /\ conn > 1 THEN "nil" ELSE "set"
  /\ pc' = [pc EXCEPT ![p] = l, ![Reader(conn)] = "start"]
  /\ flush' = [flush EXCEPT ![conn] = "start"]
  /\ UNCHANGED <<conns, kicks, src, flushOf, counts>>

\* processConnectInit once sendConnect has succeeded; caller p goes to l.
HandshakeDone(p, l) ==
  /\ net[conn] = "ok"
  /\ status' = "CONNECTED"
  /\ pingOut' = 0 /\ timer' = "set"
  /\ pc' = [pc EXCEPT ![p] = l, ![Reader(conn)] = "start"]
  /\ flush' = [flush EXCEPT ![conn] = "start"]
  /\ UNCHANGED <<conns, kicks, src, flushOf, counts>>

\* The connection is broken or silent, or the server refuses the user.
HandshakeFails ==
  \/ net[conn] # "ok" /\ UNCHANGED nFault
  \/ net[conn] = "ok" /\ nFault < MaxFaults /\ nFault' = nFault + 1

-----------------------------------------------------------------------------
(* close(status, err), from taking c.mu to the deferred conn.Close(), that *)
(* runs after c.mu is released.  Connect closes to DISCONNECTED, everyone  *)
(* else to CLOSED; only Connect in AutoReconn mode goes on afterwards.     *)

Final(p)  == IF p = Connector THEN "DISCONNECTED" ELSE "CLOSED"
After(p)  == IF p = Connector /\ AutoReconn THEN "redo" ELSE "off"

\* Mutant: close() does not kick the flusher.
CloseNoKick(p) ==
  /\ pc[p] = "close" /\ mu = NoProc
  /\ \/ /\ status = "CLOSED"
        /\ status' = Final(p)
        /\ Goto(p, After(p))
        /\ UNCHANGED <<mu, timer, kicked, src>>
     \/ /\ status # "CLOSED"
        /\ status' = "CLOSED" /\ mu' = p
        /\ UNCHANGED kicked /\ timer' = "nil"
        /\ src' = [src EXCEPT ![p] = conn]
        /\ Goto(p, "closing")
  /\ UNCHANGED <<conns, pingOut, exitChan, flushers, counts>>

CloseEnter(p) ==
  /\ pc[p] = "close" /\ mu = NoProc
  /\ \/ /\ status = "CLOSED"
        /\ status' = Final(p)
        /\ Goto(p, After(p))
        /\ UNCHANGED <<mu, timer, kicked, src>>
     \/ /\ status # "CLOSED"
        /\ status' = "CLOSED" /\ mu' = p
        /\ Kick /\ timer' = "nil"
        /\ src' = [src EXCEPT ![p] = conn]
        /\ Goto(p, "closing")
  /\ UNCHANGED <<conns, pingOut, exitChan, flushers, counts>>

CloseLeave(p) ==
  /\ pc[p] = "closing"
  /\ status' = Final(p) /\ mu' = NoProc
  /\ Goto(p, "shut")
  /\ UNCHANGED <<conns, timers, kicks, src, flushers, counts>>

Shut(p) ==
  /\ pc[p] = "shut"
  /\ net' = [k \in ConnId |-> IF k = src[p] THEN "dead" ELSE net[k]]
  /\ Goto(p, After(p)) /\ Forget(p)
  /\ UNCHANGED <<status, mu, conn, bound, timers, kicks, flushers, counts>>

\* The user's Close().
CloseCall ==
  /\ pc[Closer] = "off" /\ nClose < MaxClose
  /\ nClose' = nClose + 1
  /\ Goto(Closer, "close")
  /\ UNCHANGED <<status, mu, conns, timers, kicks, src, flushers, nFault>>

-----------------------------------------------------------------------------
(* Connect().  The stress tester calls it again whenever IsConnected() is  *)
(* false; a client that reconnects by itself is connected once.            *)

ConnectCall ==
  /\ pc[Connector] = "off"
  /\ IF AutoReconn THEN exitChan = 0 /\ nClose = 0 ELSE status # "CONNECTED"
  /\ Goto(Connector, "lock")
  /\ UNCHANGED <<status, mu, conns, timers, kicks, src, flushers, counts>>

ConnectLock ==
  /\ pc[Connector] = "lock" /\ mu = NoProc
  /\ mu' = Connector
  /\ Goto(Connector, "dial")
  /\ UNCHANGED <<status, conns, timers, kicks, src, flushers, counts>>

\* createConn fails, or succeeds and setup() follows.
ConnectDial ==
  /\ pc[Connector] = "dial"
  /\ \/ /\ mu' = NoProc /\ Goto(Connector, "off")
        /\ UNCHANGED <<status, conns, exitChan>>
     \/ /\ NewConn
        /\ exitChan' = exitChan + 1
        /\ status' = "CONNECTING"
        /\ Goto(Connector, "shake")
        /\ UNCHANGED mu
  /\ UNCHANGED <<timers, kicked, src, flushers, counts>>

ConnectShake ==
  /\ pc[Connector] = "shake"
  /\ mu' = NoProc
  /\ \/ HandshakeDone(Connector, "off")
     \/ /\ HandshakeFails
        /\ Goto(Connector, "close")
        /\ UNCHANGED <<status, conns, timers, kicks, src, flushers, nClose>>

\* Back under c.mu after close(DISCONNECTED): go on in the background.
ConnectRedo ==
  /\ pc[Connector] = "redo" /\ mu = NoProc
  /\ exitChan' = exitChan + 1
  /\ status' = "RECONNECTING"
  /\ SpawnRec([pc EXCEPT ![Connector] = "off"])
  /\ UNCHANGED <<mu, conns, timers, kicked, src, flushers, counts>>

-----------------------------------------------------------------------------
(* readLoop and processOpErr.                                              *)

ReaderStart(r) ==
  /\ pc[r] = "start" /\ mu = NoProc
  /\ Goto(r, IF conn = NilConn THEN "off" ELSE "check")
  /\ UNCHANGED <<status, mu, conns, timers, kicks, src, flushers, counts>>

\* for !c.isClosed(): no lock.
ReaderCheck(r) ==
  /\ pc[r] = "check"
  /\ Goto(r, IF status = "CLOSED" THEN "off" ELSE "pick")
  /\ UNCHANGED <<status, mu, conns, timers, kicks, src, flushers, counts>>

\* The shared reader reads from what it is bound to by now, without a lock.
ReaderPick(r) ==
  /\ pc[r] = "pick"
  /\ src' = [src EXCEPT ![r] = bound]
  /\ Goto(r, "read")
  /\ UNCHANGED <<status, mu, conns, timers, kicks, flushers, counts>>

\* Mutant: a pong takes one ping off the count.
ReaderDataCounts(r) ==
  /\ pc[r] = "read" /\ net[src[r]] = "ok"
  /\ mu = NoProc /\ pingOut' = pingOut - 1
  /\ Goto(r, "check") /\ Forget(r)
  /\ UNCHANGED <<status, mu, conns, timer, kicks, flushers, counts>>

\* Data, a pong among it or not, or bytes that do not decode.
ReaderData(r) ==
  /\ pc[r] = "read" /\ net[src[r]] = "ok"
  /\ \/ Goto(r, "check") /\ UNCHANGED <<pingOut, nFault>>
     \/ /\ nFault < MaxFaults /\ nFault' = nFault + 1
        /\ Goto(r, "err") /\ UNCHANGED pingOut
     \/ /\ mu = NoProc /\ pingOut > 0 /\ pingOut' = 0
        /\ Goto(r, "check") /\ UNCHANGED nFault
  /\ Forget(r)
  /\ UNCHANGED <<status, mu, conns, timer, kicks, flushers, nClose>>

ReaderFails(r) ==
  /\ pc[r] = "read" /\ net[src[r]] = "dead"
  /\ Goto(r, "err") /\ Forget(r)
  /\ UNCHANGED <<status, mu, conns, timers, kicks, flushers, counts>>

Busy == status \in {"CONNECTING", "CLOSED", "RECONNECTING"}

\* Mutant: the status is not checked before the repair starts.
OpErrUnchecked(p) ==
  /\ pc[p] = "err" /\ mu = NoProc
  /\ \/ /\ status = "CLOSED"
        /\ Goto(p, "off")
        /\ UNCHANGED <<status, conn, net, timer>>
     \/ /\ status # "CLOSED" /\ AutoReconn
        /\ status' = "RECONNECTING"
        /\ timer' = StopTimer
        /\ conn' = NilConn
        /\ net' = [k \in ConnId |-> IF k = conn THEN "dead" ELSE net[k]]
        /\ SpawnRec([pc EXCEPT ![p] = "off"])
  /\ UNCHANGED <<mu, bound, pingOut, kicks, src, flushers, counts>>

\* processOpErr ends in one critical section, or goes on to close(CLOSED)
\* after it has released c.mu.
OpErr(p) ==
  /\ pc[p] = "err" /\ mu = NoProc
  /\ \/ /\ Busy
        /\ Goto(p, "off")
        /\ UNCHANGED <<status, conn, net, timer>>
     \/ /\ ~Busy /\ AutoReconn /\ status = "CONNECTED"
        /\ status' = "RECONNECTING"
        /\ timer' = StopTimer
        /\ conn' = NilConn
        /\ net' = [k \in ConnId |-> IF k = conn THEN "dead" ELSE net[k]]
        /\ SpawnRec([pc EXCEPT ![p] = "off"])
     \/ /\ ~Busy /\ ~(AutoReconn /\ status = "CONNECTED")
        /\ status' = "DISCONNECTED"
        /\ Goto(p, "close")
        /\ UNCHANGED <<conn, net, timer>>
  /\ UNCHANGED <<mu, bound, pingOut, kicks, src, flushers, counts>>

-----------------------------------------------------------------------------
(* flusher, and the token any sender gives it.                             *)

FlusherStart(k) ==
  /\ flush[k] = "start" /\ mu = NoProc
  /\ flush' = [flush EXCEPT ![k] = IF conn = NilConn THEN "off" ELSE "wait"]
  /\ flushOf' = [flushOf EXCEPT ![k] = <<conn, exitChan>>]
  /\ UNCHANGED <<status, mu, conns, timers, kicks, pc, src, counts>>

FlusherTake(k) ==
  /\ flush[k] = "wait" /\ flushOf[k][2] \in kicked
  /\ kicked' = kicked \ {flushOf[k][2]}
  /\ flush' = [flush EXCEPT ![k] = "woken"]
  /\ UNCHANGED <<status, mu, conns, timers, exitChan, pc, src, flushOf, counts>>

FlusherCheck(k) ==
  /\ flush[k] = "woken" /\ mu = NoProc
  /\ \/ /\ status = "CONNECTED" /\ flushOf[k][1] = conn
        /\ flush' = [flush EXCEPT ![k] = "writing"] /\ mu' = Flusher(k)
        /\ UNCHANGED flushOf
     \/ /\ ~(status = "CONNECTED" /\ flushOf[k][1] = conn)
        /\ flush' = [flush EXCEPT ![k] = "off"] /\ UNCHANGED mu
        /\ flushOf' = [flushOf EXCEPT ![k] = <<NilConn, 0>>]
  /\ UNCHANGED <<status, conns, timers, kicks, pc, src, counts>>

\* The write of the flush has returned, and c.mu is released.
FlusherWritten(k) ==
  /\ flush[k] = "writing"
  /\ flush' = [flush EXCEPT ![k] = "wait"] /\ mu' = NoProc
  /\ UNCHANGED <<status, conns, timers, kicks, pc, src, flushOf, counts>>

Send ==
  /\ exitChan \notin kicked /\ Kick
  /\ UNCHANGED <<status, mu, conns, timers, exitChan, pc, src, flushers, counts>>

-----------------------------------------------------------------------------
(* The ping timer.                                                         *)

TimerFires ==
  /\ timer = "set"
  /\ timer' = "fired"
  /\ \E p \in Pings : pc[p] = "off" /\ Goto(p, "ping")
  /\ UNCHANGED <<status, mu, conns, pingOut, kicks, src, flushers, counts>>

Ping(p) ==
  /\ pc[p] = "ping" /\ mu = NoProc
  /\ \/ /\ status # "CONNECTED"
        /\ Goto(p, "off") /\ UNCHANGED <<mu, pingOut>>
     \/ /\ status = "CONNECTED"
        /\ pingOut' = pingOut + 1
        /\ \/ /\ pingOut' > MaxPingCount
              /\ Goto(p, "err") /\ UNCHANGED mu
           \/ /\ pingOut' <= MaxPingCount
              /\ Goto(p, "sending") /\ mu' = p
  /\ UNCHANGED <<status, conns, timer, kicks, src, flushers, counts>>

\* Mutant: the timer is not set again.
PingOnce(p) ==
  /\ pc[p] = "sending"
  /\ mu' = NoProc /\ Goto(p, "off")
  /\ UNCHANGED <<status, conns, timers, kicks, src, flushers, counts>>

\* sendPing has returned.  Reset of a nil timer is a nil dereference in a
\* goroutine of its own.
PingSent(p) ==
  /\ pc[p] = "sending"
  /\ mu' = NoProc
  /\ Goto(p, IF timer = "nil" THEN "panic" ELSE "off")
  /\ timer' = IF timer = "nil" THEN "nil" ELSE "set"
  /\ UNCHANGED <<status, conns, pingOut, kicks, src, flushers, counts>>

-----------------------------------------------------------------------------
(* doReconnect.                                                            *)

\* Mutant: waitForExits does not kick the flusher.
RecNoKick(r) ==
  /\ pc[r] = "kick"
  /\ Goto(r, "wg")
  /\ UNCHANGED <<status, mu, conns, timers, kicks, src, flushers, counts>>

\* waitForExits: kick the flusher, then wait for the WaitGroup.
RecKick(r) ==
  /\ pc[r] = "kick"
  /\ Kick
  /\ Goto(r, "wg")
  /\ UNCHANGED <<status, mu, conns, timers, exitChan, src, flushers, counts>>

RecWaited(r) ==
  /\ pc[r] = "wg" /\ WatchersOut
  /\ Goto(r, "lock")
  /\ UNCHANGED <<status, mu, conns, timers, kicks, src, flushers, counts>>

\* Mutant: whether the client was closed is not checked.
RecLockUnchecked(r) ==
  /\ pc[r] = "lock" /\ mu = NoProc
  /\ Goto(r, "dial") /\ mu' = r
  /\ UNCHANGED <<status, conns, timers, kicks, src, flushers, counts>>

RecLock(r) ==
  /\ pc[r] = "lock" /\ mu = NoProc
  /\ \/ status = "CLOSED" /\ Goto(r, "close") /\ UNCHANGED mu
     \/ status # "CLOSED" /\ Goto(r, "dial") /\ mu' = r
  /\ UNCHANGED <<status, conns, timers, kicks, src, flushers, counts>>

RecDial(r) ==
  /\ pc[r] = "dial"
  /\ \/ /\ mu' = NoProc /\ Goto(r, "lock")
        /\ UNCHANGED <<status, conns>>
     \/ /\ NewConn
        /\ status' = "CONNECTING"
        /\ Goto(r, "shake")
        /\ UNCHANGED mu
  /\ UNCHANGED <<timers, kicks, src, flushers, counts>>

RecShake(r) ==
  /\ pc[r] = "shake"
  /\ \/ HandshakeDone(r, "pend") /\ UNCHANGED mu
     \/ /\ HandshakeFails
        /\ status' = "RECONNECTING" /\ mu' = NoProc
        /\ Goto(r, "lock")
        /\ UNCHANGED <<conns, timers, kicks, src, flushers, nClose>>

\* Mutant: waitForGoRoutines is not set.
RecPendingNoWait(r) ==
  /\ pc[r] = "pend"
  /\ mu' = NoProc
  /\ \/ /\ Goto(r, "flush")
        /\ UNCHANGED <<status, timer>>
     \/ /\ net[conn] = "dead"
        /\ status' = "RECONNECTING" /\ timer' = StopTimer
        /\ Goto(r, "lock")
  /\ UNCHANGED <<conns, pingOut, kicks, src, flushers, counts>>

\* flushReconnectPendingItems: a write to a broken connection fails, and the
\* goroutines started for it are waited for before the next dial.
RecPending(r) ==
  /\ pc[r] = "pend"
  /\ mu' = NoProc
  /\ \/ /\ Goto(r, "flush")
        /\ UNCHANGED <<status, timer>>
     \/ /\ net[conn] = "dead"
        /\ status' = "RECONNECTING" /\ timer' = StopTimer
        /\ Goto(r, "kick")
  /\ UNCHANGED <<conns, pingOut, kicks, src, flushers, counts>>

\* The last Flush(), unless the client has been closed.
RecFlush(r) ==
  /\ pc[r] = "flush" /\ mu = NoProc
  /\ \/ status = "CLOSED" /\ Goto(r, "off") /\ UNCHANGED mu
     \/ status # "CLOSED" /\ Goto(r, "pinging") /\ mu' = r
  /\ UNCHANGED <<status, conns, timers, kicks, src, flushers, counts>>

\* Its sendPing has returned; the answer is waited for ten seconds at most
\* (FlushPath says what it means).
RecFlushed(r) ==
  /\ pc[r] = "pinging"
  /\ mu' = NoProc /\ Goto(r, "off")
  /\ UNCHANGED <<status, conns, timers, kicks, src, flushers, counts>>

-----------------------------------------------------------------------------
\* The server or the network resets a connection, or silently drops it.
Fault ==
  /\ nFault < MaxFaults /\ nFault' = nFault + 1
  /\ \E k \in ConnId, f \in {"dead", "hung"} :
       net[k] = "ok" /\ net' = [net EXCEPT ![k] = f]
  /\ UNCHANGED <<status, mu, conn, bound, timers, kicks, pc, src, flushers, nClose>>

\* The kernel may give a silent connection up in the end.
GiveUp ==
  /\ \E k \in ConnId : net[k] = "hung" /\ net' = [net EXCEPT ![k] = "dead"]
  /\ UNCHANGED <<status, mu, conn, bound, timers, kicks, pc, src, flushers, counts>>

Connect     == ConnectLock \/ ConnectDial \/ ConnectShake \/ ConnectRedo
Closing(p)  == CloseEnter(p) \/ CloseLeave(p) \/ Shut(p)
Reading(r)  == ReaderStart(r) \/ ReaderCheck(r) \/ ReaderPick(r) \/ ReaderData(r) \/ ReaderFails(r)
Flushing(k) == FlusherStart(k) \/ FlusherTake(k) \/ FlusherCheck(k) \/ FlusherWritten(k)
Pinging(p)  == Ping(p) \/ PingSent(p)
Redialling(r) ==
  \/ RecKick(r) \/ RecWaited(r) \/ RecLock(r) \/ RecDial(r)
  \/ RecShake(r) \/ RecPending(r) \/ RecFlush(r) \/ RecFlushed(r)

Next ==
  \/ ConnectCall \/ Connect \/ CloseCall \/ Send \/ TimerFires \/ Fault \/ GiveUp
  \/ \E p \in Procs : Closing(p)
  \/ \E p \in Readers \cup Pings : OpErr(p)
  \/ \E r \in Readers : Reading(r)
  \/ \E k \in ConnId : Flushing(k)
  \/ \E p \in Pings : Pinging(p)
  \/ \E r \in Recs : Redialling(r)

Spec == Init /\ [][Next]_vars

\* A goroutine in a write without a deadline gets out of it, unless the peer is
\* silent: then it may stay, with c.mu.
WritePlaces == {"closing", "sending", "pend", "pinging", "writing"}
Silent      == bound # NilConn /\ net[bound] = "hung"
Returns(l)  == Silent => l \notin WritePlaces

\* Every goroutine goes on while it can, and timers fire.  c.mu is handed to
\* a waiting goroutine even when others keep taking it, which the ping callback
\* relies on, and a server that answers again and again is reached at last.
\* Nobody has to call Connect, Close or Send, no pong has to come, and nothing
\* has to break.
Fairness ==
  /\ WF_vars(Connect) /\ WF_vars(TimerFires)
  /\ \A p \in Procs : WF_vars(Returns(pc[p]) /\ Closing(p))
  /\ \A p \in Readers : WF_vars(Reading(p) \/ OpErr(p))
  /\ \A k \in ConnId : WF_vars(Returns(flush[k]) /\ Flushing(k))
  /\ \A p \in Pings : /\ SF_vars(Ping(p) \/ OpErr(p) \/ CloseEnter(p))
                      /\ WF_vars(Returns(pc[p]) /\ PingSent(p))
  /\ \A r \in Recs : WF_vars(Returns(pc[r]) /\ Redialling(r))
  /\ SF_vars(\E r \in Recs : RecDial(r) /\ conn' # conn)
  /\ SF_vars(\E r \in Recs : RecShake(r) /\ status' = "CONNECTED")

FairSpec == Spec /\ Fairness
=============================================================================
