---------------------------- MODULE ClientProps ----------------------------
(***************************************************************************)
(* What the connection life cycle of pkg/client/client.go promises.        *)
(***************************************************************************)
EXTENDS ClientConn

Places == {"off", "close", "closing", "shut", "redo", "lock", "dial", "shake",
           "start", "check", "pick", "read", "err", "ping", "sending",
           "panic", "kick", "wg", "pend", "flush", "pinging"}

\* Every variable has its type: the fields of Client (client.go:26-62) and
\* the places of its goroutines.
TypeOK ==
  /\ status \in {"DISCONNECTED", "CONNECTING", "CONNECTED", "RECONNECTING", "CLOSED"}
  /\ mu \in Procs \cup Flushers \cup {NoProc}
  /\ conn \in ConnId \cup {NilConn} /\ bound \in ConnId \cup {NilConn}
  /\ net \in [ConnId -> {"none", "ok", "hung", "dead"}]
  /\ timer \in {"nil", "set", "fired", "stopped"}
  /\ pingOut \in Nat
  /\ exitChan \in Nat /\ kicked \subseteq Nat
  /\ pc \in [Procs -> Places]
  /\ src \in [Procs -> ConnId \cup {NilConn}]
  /\ flush \in [ConnId -> {"off", "start", "wait", "woken", "writing"}]
  /\ flushOf \in [ConnId -> (ConnId \cup {NilConn}) \X Nat]
  /\ nClose \in 0 .. MaxClose /\ nFault \in 0 .. MaxFaults

Redialler(r) == pc[r] \in {"kick", "wg", "lock", "dial", "shake", "pend"}

\* Whoever takes c.mu and finds the client CONNECTED finds a connection, a
\* reader and a writer bound to that very connection, and a ping timer that
\* can be reset (processPingTimer, client.go:219-235, resets it unchecked):
\* no order of Close, Connect, errors and reconnections tears them apart.
ConnectedIsUsable ==
  status = "CONNECTED" /\ mu = NoProc =>
    conn # NilConn /\ bound = conn /\ timer # "nil"

\* "We want to make sure we have the other watchers shutdown properly here
\* before we proceed past this point" (client.go:239-240): no reader and no
\* flusher of an earlier connection is left when the next one is dialled.
NoOldWatcherAtRedial ==
  AutoReconn => \A r \in Recs : pc[r] \in {"lock", "dial"} => WatchersOut

\* However many errors are reported at once, by the reader and by overdue
\* pings, one goroutine at a time repairs the connection (client.go:406-425).
OneRedialler == Cardinality({r \in Recs : Redialler(r)}) <= 1

\* A client that reconnects by itself does not come back to life once Close
\* has closed it, whatever the reconnection is doing at the time; only a
\* Connect that has not returned yet may still change its status.
CloseIsFinal ==
  [][AutoReconn /\ status = "CLOSED" /\ pc[Connector] = "off" => status' = "CLOSED"]_vars

PassesForWorking == status = "CONNECTED" /\ conn # NilConn /\ net[conn] # "ok"

\* A goroutine is in a write to a silent peer.
Stalled ==
  \/ \E p \in Procs : ~Returns(pc[p])
  \/ \E k \in ConnId : ~Returns(flush[k])

\* A connection that broke, or whose peer went silent, does not pass for the
\* current, working one for ever: the reader or the overdue pings tell.  They
\* do not when a write to the silent peer blocks for good: whoever is in it
\* keeps c.mu, and the pings wait (client.go:220, 669).
DeadPeerNoticed == []<>~Stalled => []<>~PassesForWorking

OutOfConns == NextConn \notin ConnId /\ \E r \in Recs : pc[r] \in {"lock", "dial"}

\* A reconnection that has begun ends: connected or closed.  A redialler that
\* wants one connection more than the bound has, and a write that blocks for
\* good, aside.
Reconnects ==
  []<>~Stalled => []<>(status \notin {"CONNECTING", "RECONNECTING"} \/ OutOfConns)

Watching ==
  \/ \E p \in Readers \cup Pings \cup Recs : pc[p] # "off"
  \/ \E k \in ConnId : flush[k] # "off"

\* "Kick the Go routines so they fall out" (client.go:141): the goroutines
\* of a client that stays closed all end, unless a write blocks for good.
ClosedEnds ==
  []<>~Stalled /\ <>[](status = "CLOSED" /\ pc[Connector] = "off") => <>[]~Watching
=============================================================================
