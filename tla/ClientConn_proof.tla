-------------------------- MODULE ClientConn_proof --------------------------
(***************************************************************************)
(* Proofs, for any number of connections, of pings and reconnections at    *)
(* once, of calls of Close and of faults, that the goroutines of a client  *)
(* never tear its connection, its timer and its status apart, that one of  *)
(* them at a time repairs the connection, that Close is final, and that    *)
(* what the goroutines of a closed client wait for is there or will come.  *)
(***************************************************************************)
EXTENDS ClientProps, FiniteSetTheorems, TLAPS

\* Where each goroutine can be.
CloseCodes == {"off", "close", "closing", "shut"}
Roles ==
  /\ pc[Connector] \in CloseCodes \cup {"lock", "dial", "shake", "redo"}
  /\ pc[Closer] \in CloseCodes
  /\ \A p \in Readers : pc[p] \in CloseCodes \cup {"start", "check", "pick", "read", "err"}
  /\ \A p \in Pings : pc[p] \in CloseCodes \cup {"ping", "sending", "panic", "err"}
  /\ \A p \in Recs : pc[p] \in CloseCodes \cup {"kick", "wg", "lock", "dial", "shake", "pend", "flush", "pinging"}

\* c.mu is held across steps by close, by a dial and what follows it, and by
\* whoever writes.
HoldCodes == {"closing", "dial", "shake", "pend", "sending", "pinging"}
MuInv ==
  /\ \A p \in Procs : pc[p] \in HoldCodes <=> mu = p
  /\ \A k \in ConnId : flush[k] = "writing" <=> mu = Flusher(k)

\* What the status is while c.mu is held.
HeldInv ==
  /\ \A p \in Procs :
       /\ pc[p] = "closing" => status = "CLOSED"
       /\ pc[p] = "shake" => status = "CONNECTING"
       /\ pc[p] = "dial" /\ p # Connector => status \notin {"CLOSED", "CONNECTED"}
       /\ pc[p] \in {"pend", "sending"} => status = "CONNECTED"
  /\ \A k \in ConnId : flush[k] = "writing" => status = "CONNECTED"

\* A client that connects or is connected has a connection, and its reader and
\* writer are bound to it; one that is connected has a timer.
UsableInv ==
  /\ status \in {"CONNECTING", "CONNECTED"} => conn \in ConnId /\ bound = conn
  /\ status = "CONNECTED" => timer # "nil"

\* Until Connect returns, a client that reconnects by itself has no goroutine
\* of its own and no timer, and then it is not called again.
FreshInv ==
  /\ AutoReconn /\ (pc[Connector] # "off" \/ exitChan = 0) =>
       /\ \A p \in Readers \cup Pings \cup Recs : pc[p] = "off"
       /\ \A k \in ConnId : flush[k] = "off"
       /\ timer = "nil"
  /\ pc[Connector] \notin {"off", "lock", "dial"} => exitChan # 0

\* One goroutine at a time redials, and the client is not connected until it is
\* about to be done; one that does not reconnect by itself has none.
RedialInv ==
  /\ ~AutoReconn => pc[Connector] # "redo" /\ \A r \in Recs : pc[r] = "off"
  /\ \A q, r \in Recs : Redialler(q) /\ Redialler(r) => q = r
  /\ \A r \in Recs : Redialler(r) /\ status = "CONNECTED" => pc[r] = "pend"

\* Once it has waited for the watchers there are none until it is connected.
WatchInv == \A r \in Recs : pc[r] \in {"lock", "dial", "shake"} => WatchersOut

CInv == Roles /\ MuInv /\ HeldInv /\ UsableInv /\ FreshInv /\ RedialInv /\ WatchInv

-----------------------------------------------------------------------------
\* The goroutines are all different.
LEMMA Kinds ==
  /\ Connector \in Procs /\ Closer \in Procs /\ Connector # Closer /\ NoProc \notin Procs
  /\ \A k \in ConnId : /\ Flusher(k) \in Flushers /\ Flusher(k) \notin Procs /\ Flusher(k) # NoProc
                        /\ \A l \in ConnId : Flusher(k) = Flusher(l) => k = l
  /\ Readers \subseteq Procs /\ Pings \subseteq Procs /\ Recs \subseteq Procs
  /\ \A p \in Readers : p # Connector /\ p # Closer /\ p \notin Pings /\ p \notin Recs
  /\ \A p \in Pings : p # Connector /\ p # Closer /\ p \notin Readers /\ p \notin Recs
  /\ \A p \in Recs : p # Connector /\ p # Closer /\ p \notin Readers /\ p \notin Pings
  /\ \A p \in Procs : p = Connector \/ p = Closer \/ p \in Readers \/ p \in Pings \/ p \in Recs
  /\ \A k \in ConnId : Reader(k) \in Readers
  /\ NilConn \notin ConnId
<1>1. \A k \in ConnId : Reader(k) \in Readers
  BY DEF Readers
<1>2. NilConn \notin ConnId
  BY ClientAssumption DEF ConnId, NilConn
<1>3. /\ \A p \in Readers : p[1] = "reader"
      /\ \A p \in Pings : p[1] = "ping"
      /\ \A p \in Recs : p[1] = "rec"
  BY DEF Readers, Reader, Pings, Recs
<1>4. Connector[1] = "user" /\ Closer[1] = "user" /\ Connector # Closer /\ NoProc[1] = "none"
  BY DEF Connector, Closer, NoProc
<1>5. \A k \in ConnId : /\ Flusher(k) \in Flushers /\ Flusher(k)[1] = "flusher"
                        /\ \A l \in ConnId : Flusher(k) = Flusher(l) => k = l
  BY DEF Flusher, Flushers
<1>6. \A p \in Procs : p[1] \in {"user", "reader", "ping", "rec"}
  BY <1>3, <1>4 DEF Procs
<1>7. \A k \in ConnId : Flusher(k) \notin Procs /\ Flusher(k) # NoProc
  BY <1>4, <1>5, <1>6
<1> QED BY <1>1, <1>2, <1>3, <1>4, <1>5, <1>7 DEF Procs

LEMMA InitInv == Init => TypeOK /\ CInv
<1> SUFFICES ASSUME Init PROVE TypeOK /\ CInv
  OBVIOUS
<1>1. TypeOK
  BY ClientAssumption DEF Init, TypeOK, Places
<1>2. (\A p \in Procs : pc[p] = "off" /\ mu # p) /\ \A k \in ConnId : flush[k] = "off" /\ mu # Flusher(k)
  BY Kinds DEF Init
<1>3. Roles /\ MuInv /\ HeldInv
  BY <1>2, Kinds DEF Roles, CloseCodes, MuInv, HoldCodes, HeldInv
<1>4. UsableInv /\ FreshInv /\ RedialInv /\ WatchInv
  BY <1>2, Kinds DEF Init, UsableInv, FreshInv, RedialInv, Redialler, WatchInv
<1> QED BY <1>1, <1>3, <1>4 DEF CInv

\* Every variable has its type after every step.
LEMMA TypeStep ==
  ASSUME TypeOK, CInv, [Next]_vars
  PROVE  TypeOK'
<1> USE Kinds, ClientAssumption DEF TypeOK, Places, Goto, conns, timers, kicks, flushers, counts
<1>1. ASSUME NEW p \in Procs, CloseEnter(p) PROVE TypeOK'
  <2>1. kicked' \subseteq Nat
    <3>1. kicked' \in {kicked, kicked \cup {exitChan}}
      BY <1>1 DEF CloseEnter, Kick
    <3> QED BY <3>1
  <2>2. status' \in {"DISCONNECTED", "CLOSED"} /\ timer' \in {timer, "nil"} /\ mu' \in Procs \cup Flushers \cup {NoProc}
    BY <1>1 DEF CloseEnter, Final
  <2>3. src' \in [Procs -> ConnId \cup {NilConn}] /\ pc' \in [Procs -> Places]
    BY <1>1 DEF CloseEnter, After
  <2> QED BY <1>1, <2>1, <2>2, <2>3 DEF CloseEnter
<1>2. ASSUME NEW p \in Procs, CloseLeave(p) PROVE TypeOK'
  BY <1>2 DEF CloseLeave, Final
<1>3. ASSUME NEW p \in Procs, Shut(p) PROVE TypeOK'
  BY <1>3 DEF Shut, After, Forget
<1>4. ASSUME CloseCall PROVE TypeOK'
  BY <1>4 DEF CloseCall
<1>5. ASSUME ConnectCall PROVE TypeOK'
  BY <1>5 DEF ConnectCall
<1>6. ASSUME ConnectLock PROVE TypeOK'
  BY <1>6 DEF ConnectLock
<1>7. ASSUME ConnectDial PROVE TypeOK'
  BY <1>7 DEF ConnectDial, NewConn
<1>8. ASSUME ConnectShake PROVE TypeOK'
  <2>1. conn \in ConnId /\ UNCHANGED <<conns, kicks, src, flushOf, nClose>>
    BY <1>8 DEF ConnectShake, HandshakeDone, HandshakeFails, CInv, HeldInv, UsableInv
  <2>2. /\ status' \in {status, "CONNECTED", "RECONNECTING"} /\ timer' \in {timer, "set"} /\ pingOut' \in {pingOut, 0}
        /\ nFault' \in {nFault, nFault + 1} /\ nFault' \in 0 .. MaxFaults /\ mu' \in {mu, NoProc}
    BY <1>8 DEF ConnectShake, HandshakeDone, HandshakeFails
  <2>3. pc' \in [Procs -> Places] /\ flush' \in [ConnId -> {"off", "start", "wait", "woken", "writing"}]
    BY <1>8 DEF ConnectShake, HandshakeDone
  <2> QED BY <2>1, <2>2, <2>3
<1>9. ASSUME ConnectRedo PROVE TypeOK'
  BY <1>9 DEF ConnectRedo, SpawnRec
<1>10. ASSUME NEW r \in Readers, ReaderStart(r) PROVE TypeOK'
  BY <1>10 DEF ReaderStart
<1>11. ASSUME NEW r \in Readers, ReaderCheck(r) PROVE TypeOK'
  BY <1>11 DEF ReaderCheck
<1>32. ASSUME NEW r \in Readers, ReaderPick(r) PROVE TypeOK'
  BY <1>32 DEF ReaderPick
<1>12. ASSUME NEW r \in Readers, ReaderData(r) PROVE TypeOK'
  BY <1>12 DEF ReaderData, Forget
<1>13. ASSUME NEW r \in Readers, ReaderFails(r) PROVE TypeOK'
  BY <1>13 DEF ReaderFails, Forget
<1>14. ASSUME NEW p \in Readers \cup Pings, OpErr(p) PROVE TypeOK'
  BY <1>14 DEF OpErr, Busy, SpawnRec, StopTimer
<1>15. ASSUME NEW k \in ConnId, FlusherStart(k) PROVE TypeOK'
  BY <1>15 DEF FlusherStart
<1>16. ASSUME NEW k \in ConnId, FlusherTake(k) PROVE TypeOK'
  BY <1>16 DEF FlusherTake
<1>17. ASSUME NEW k \in ConnId, FlusherCheck(k) PROVE TypeOK'
  BY <1>17 DEF FlusherCheck
<1>33. ASSUME NEW k \in ConnId, FlusherWritten(k) PROVE TypeOK'
  BY <1>33 DEF FlusherWritten
<1>18. ASSUME Send PROVE TypeOK'
  BY <1>18 DEF Send, Kick
<1>19. ASSUME TimerFires PROVE TypeOK'
  BY <1>19 DEF TimerFires
<1>20. ASSUME NEW p \in Pings, Ping(p) PROVE TypeOK'
  BY <1>20 DEF Ping
<1>34. ASSUME NEW p \in Pings, PingSent(p) PROVE TypeOK'
  BY <1>34 DEF PingSent
<1>21. ASSUME NEW r \in Recs, RecKick(r) PROVE TypeOK'
  BY <1>21 DEF RecKick, Kick
<1>22. ASSUME NEW r \in Recs, RecWaited(r) PROVE TypeOK'
  BY <1>22 DEF RecWaited
<1>23. ASSUME NEW r \in Recs, RecLock(r) PROVE TypeOK'
  BY <1>23 DEF RecLock
<1>24. ASSUME NEW r \in Recs, RecDial(r) PROVE TypeOK'
  BY <1>24 DEF RecDial, NewConn
<1>25. ASSUME NEW r \in Recs, RecShake(r) PROVE TypeOK'
  <2>1. conn \in ConnId /\ UNCHANGED <<conns, kicks, src, flushOf, nClose>>
    BY <1>25 DEF RecShake, HandshakeDone, HandshakeFails, CInv, HeldInv, UsableInv
  <2>2. /\ status' \in {status, "CONNECTED", "RECONNECTING"} /\ timer' \in {timer, "set"} /\ pingOut' \in {pingOut, 0}
        /\ nFault' \in {nFault, nFault + 1} /\ nFault' \in 0 .. MaxFaults /\ mu' \in {mu, NoProc}
    BY <1>25 DEF RecShake, HandshakeDone, HandshakeFails
  <2>3. pc' \in [Procs -> Places] /\ flush' \in [ConnId -> {"off", "start", "wait", "woken", "writing"}]
    BY <1>25 DEF RecShake, HandshakeDone
  <2> QED BY <2>1, <2>2, <2>3
<1>26. ASSUME NEW r \in Recs, RecPending(r) PROVE TypeOK'
  BY <1>26 DEF RecPending, StopTimer
<1>35. ASSUME NEW r \in Recs, RecFlush(r) PROVE TypeOK'
  BY <1>35 DEF RecFlush
<1>27. ASSUME NEW r \in Recs, RecFlushed(r) PROVE TypeOK'
  BY <1>27 DEF RecFlushed
<1>28. ASSUME Fault PROVE TypeOK'
  BY <1>28 DEF Fault
<1>36. ASSUME GiveUp PROVE TypeOK'
  BY <1>36 DEF GiveUp
<1>29. CASE UNCHANGED vars
  BY <1>29 DEF vars
<1> QED
  BY <1>1, <1>2, <1>3, <1>4, <1>5, <1>6, <1>7, <1>8, <1>9, <1>10, <1>11, <1>12, <1>13, <1>14, <1>15, <1>16, <1>17, <1>18, <1>19, <1>20, <1>21, <1>22, <1>23, <1>24, <1>25, <1>26, <1>27, <1>28, <1>29, <1>32, <1>33, <1>34, <1>35, <1>36 DEF Next, Connect, Closing, Reading, Flushing, Pinging, Redialling

\* The steps keep the invariant, goroutine by goroutine.

LEMMA CloseStep ==
  ASSUME TypeOK, CInv, (\E p \in Procs : Closing(p)) \/ CloseCall
  PROVE  CInv'
<1> USE Kinds DEF TypeOK, CInv, Roles, MuInv, HeldInv, UsableInv, FreshInv, RedialInv, WatchInv,
      Goto, CloseCodes, HoldCodes, Redialler, WatchersOut, conns, timers, kicks, flushers, counts
<1>1. ASSUME NEW p \in Procs, CloseEnter(p) PROVE CInv'
  BY <1>1 DEF CloseEnter, Kick, Final, After
<1>2. ASSUME NEW p \in Procs, CloseLeave(p) PROVE CInv'
  BY <1>2 DEF CloseLeave, Final
<1>3. ASSUME NEW p \in Procs, Shut(p) PROVE CInv'
  BY <1>3 DEF Shut, After, Forget
<1>4. ASSUME CloseCall PROVE CInv'
  BY <1>4 DEF CloseCall
<1> QED
  BY <1>1, <1>2, <1>3, <1>4 DEF Closing

LEMMA ConnectStep ==
  ASSUME TypeOK, CInv, ConnectCall \/ Connect
  PROVE  CInv'
<1> USE Kinds DEF TypeOK, CInv, Roles, MuInv, HeldInv, UsableInv, FreshInv, RedialInv, WatchInv,
      Goto, CloseCodes, HoldCodes, Redialler, WatchersOut, conns, timers, kicks, flushers, counts
<1>1. ASSUME ConnectCall PROVE CInv'
  BY <1>1 DEF ConnectCall
<1>2. ASSUME ConnectLock PROVE CInv'
  BY <1>2 DEF ConnectLock
<1>3. ASSUME ConnectDial PROVE CInv'
  <2>1. CASE pc' = [pc EXCEPT ![Connector] = "off"]
    BY <1>3, <2>1 DEF ConnectDial, NewConn
  <2>2. CASE pc' = [pc EXCEPT ![Connector] = "shake"]
    <3>1. UNCHANGED <<timers, src, flushers, mu>> /\ status' = "CONNECTING" /\ exitChan' = exitChan + 1
          /\ conn' \in ConnId /\ bound' = conn'
      BY <1>3, <2>2 DEF ConnectDial, NewConn
    <3> QED BY <1>3, <2>2, <3>1 DEF ConnectDial
  <2> QED BY <1>3, <2>1, <2>2 DEF ConnectDial
<1>4. ASSUME ConnectShake PROVE CInv'
  <2>1. CASE HandshakeDone(Connector, "off")
    BY <1>4, <2>1 DEF ConnectShake, HandshakeDone
  <2>2. CASE pc' = [pc EXCEPT ![Connector] = "close"] /\ UNCHANGED <<status, conns, timers, kicks, src, flushers>>
    BY <1>4, <2>2 DEF ConnectShake
  <2> QED BY <1>4, <2>1, <2>2 DEF ConnectShake
<1>5. ASSUME ConnectRedo PROVE CInv'
  BY <1>5 DEF ConnectRedo, SpawnRec
<1> QED
  BY <1>1, <1>2, <1>3, <1>4, <1>5 DEF Connect

LEMMA ReaderStep ==
  ASSUME TypeOK, CInv, \E r \in Readers : Reading(r)
  PROVE  CInv'
<1> USE Kinds DEF TypeOK, CInv, Roles, MuInv, HeldInv, UsableInv, FreshInv, RedialInv, WatchInv,
      Goto, CloseCodes, HoldCodes, Redialler, WatchersOut, conns, timers, kicks, flushers, counts
<1>1. ASSUME NEW r \in Readers, ReaderStart(r) PROVE CInv'
  BY <1>1 DEF ReaderStart
<1>2. ASSUME NEW r \in Readers, ReaderCheck(r) PROVE CInv'
  BY <1>2 DEF ReaderCheck
<1>5. ASSUME NEW r \in Readers, ReaderPick(r) PROVE CInv'
  BY <1>5 DEF ReaderPick
<1>3. ASSUME NEW r \in Readers, ReaderData(r) PROVE CInv'
  BY <1>3 DEF ReaderData, Forget
<1>4. ASSUME NEW r \in Readers, ReaderFails(r) PROVE CInv'
  BY <1>4 DEF ReaderFails, Forget
<1> QED
  BY <1>1, <1>2, <1>3, <1>4, <1>5 DEF Reading

LEMMA ErrStep ==
  ASSUME TypeOK, CInv, \E p \in Readers \cup Pings : OpErr(p)
  PROVE  CInv'
<1> USE Kinds DEF TypeOK, CInv, Roles, MuInv, HeldInv, UsableInv, FreshInv, RedialInv, WatchInv,
      Goto, CloseCodes, HoldCodes, Redialler, WatchersOut, conns, timers, kicks, flushers, counts
<1>1. ASSUME NEW p \in Readers \cup Pings, OpErr(p) PROVE CInv'
  BY <1>1 DEF OpErr, Busy, SpawnRec, StopTimer
<1> QED
  BY <1>1

LEMMA FlusherStep ==
  ASSUME TypeOK, CInv, (\E k \in ConnId : Flushing(k)) \/ Send
  PROVE  CInv'
<1> USE Kinds DEF TypeOK, CInv, Roles, MuInv, HeldInv, UsableInv, FreshInv, RedialInv, WatchInv,
      Goto, CloseCodes, HoldCodes, Redialler, WatchersOut, conns, timers, kicks, flushers, counts
<1>1. ASSUME NEW k \in ConnId, FlusherStart(k) PROVE CInv'
  BY <1>1 DEF FlusherStart
<1>2. ASSUME NEW k \in ConnId, FlusherTake(k) PROVE CInv'
  BY <1>2 DEF FlusherTake
<1>3. ASSUME NEW k \in ConnId, FlusherCheck(k) PROVE CInv'
  BY <1>3 DEF FlusherCheck
<1>4. ASSUME Send PROVE CInv'
  BY <1>4 DEF Send, Kick
<1>5. ASSUME NEW k \in ConnId, FlusherWritten(k) PROVE CInv'
  BY <1>5 DEF FlusherWritten
<1> QED
  BY <1>1, <1>2, <1>3, <1>4, <1>5 DEF Flushing

LEMMA PingStep ==
  ASSUME TypeOK, CInv, TimerFires \/ (\E p \in Pings : Pinging(p)) \/ Fault \/ GiveUp
  PROVE  CInv'
<1> USE Kinds DEF TypeOK, CInv, Roles, MuInv, HeldInv, UsableInv, FreshInv, RedialInv, WatchInv,
      Goto, CloseCodes, HoldCodes, Redialler, WatchersOut, conns, timers, kicks, flushers, counts
<1>1. ASSUME TimerFires PROVE CInv'
  BY <1>1 DEF TimerFires
<1>2. ASSUME NEW p \in Pings, Ping(p) PROVE CInv'
  BY <1>2 DEF Ping
<1>3. ASSUME Fault \/ GiveUp PROVE CInv'
  BY <1>3 DEF Fault, GiveUp
<1>4. ASSUME NEW p \in Pings, PingSent(p) PROVE CInv'
  BY <1>4 DEF PingSent
<1> QED
  BY <1>1, <1>2, <1>3, <1>4 DEF Pinging

LEMMA RedialStep ==
  ASSUME TypeOK, CInv, \E r \in Recs : Redialling(r)
  PROVE  CInv'
<1> USE Kinds DEF TypeOK, CInv, Roles, MuInv, HeldInv, UsableInv, FreshInv, RedialInv, WatchInv,
      Goto, CloseCodes, HoldCodes, Redialler, WatchersOut, conns, timers, kicks, flushers, counts
<1>1. ASSUME NEW r \in Recs, RecKick(r) PROVE CInv'
  BY <1>1 DEF RecKick, Kick
<1>2. ASSUME NEW r \in Recs, RecWaited(r) PROVE CInv'
  BY <1>2 DEF RecWaited
<1>3. ASSUME NEW r \in Recs, RecLock(r) PROVE CInv'
  BY <1>3 DEF RecLock
<1>4. ASSUME NEW r \in Recs, RecDial(r) PROVE CInv'
  BY <1>4 DEF RecDial, NewConn
<1>5. ASSUME NEW r \in Recs, RecShake(r) PROVE CInv'
  BY <1>5 DEF RecShake, HandshakeDone, HandshakeFails
<1>6. ASSUME NEW r \in Recs, RecPending(r) PROVE CInv'
  BY <1>6 DEF RecPending, StopTimer
<1>7. ASSUME NEW r \in Recs, RecFlushed(r) PROVE CInv'
  BY <1>7 DEF RecFlushed
<1>8. ASSUME NEW r \in Recs, RecFlush(r) PROVE CInv'
  BY <1>8 DEF RecFlush
<1> QED
  BY <1>1, <1>2, <1>3, <1>4, <1>5, <1>6, <1>7, <1>8 DEF Redialling

\* What no step has changed is as good as it was.
LEMMA StutterStep ==
  ASSUME CInv, UNCHANGED vars
  PROVE  CInv'
BY DEF CInv, vars, conns, timers, kicks, flushers, counts, Roles, MuInv, HeldInv, UsableInv, FreshInv,
       RedialInv, Redialler, WatchInv, WatchersOut

\* Types and invariant hold for ever.
THEOREM Inductive == Spec => [](TypeOK /\ CInv)
<1>1. TypeOK /\ CInv /\ [Next]_vars => (TypeOK /\ CInv)'
  <2> SUFFICES ASSUME TypeOK, CInv, [Next]_vars PROVE TypeOK' /\ CInv'
    OBVIOUS
  <2>1. TypeOK'
    BY TypeStep
  <2>2. CASE UNCHANGED vars
    BY <2>1, <2>2, StutterStep
  <2>3. CASE Next
    BY <2>1, <2>3, CloseStep, ConnectStep, ReaderStep, ErrStep, FlusherStep, PingStep, RedialStep DEF Next
  <2> QED BY <2>2, <2>3
<1> QED BY InitInv, <1>1, PTL DEF Spec

-----------------------------------------------------------------------------
\* Every variable keeps its type (client.go:26-62).
THEOREM TypeCorrect == Spec => []TypeOK
BY Inductive, PTL

\* Whoever takes c.mu and finds the client connected finds a connection, a
\* reader and a writer bound to it and a timer to reset (client.go:219-235).
THEOREM ConnectedUsable == Spec => []ConnectedIsUsable
<1>1. CInv => ConnectedIsUsable
  BY Kinds DEF CInv, UsableInv, ConnectedIsUsable
<1> QED BY <1>1, Inductive, PTL

\* The ping timer is never nil where its callback resets it, however long the
\* write of the ping took: a ping is sent only on a connected client, that has
\* a timer (client.go:219-235).
THEOREM PingNeverPanics == Spec => [][\A p \in Pings : PingSent(p) => pc'[p] # "panic"]_vars
<1>1. TypeOK /\ CInv => \A p \in Pings : PingSent(p) => pc'[p] # "panic"
  BY Kinds DEF TypeOK, CInv, HeldInv, UsableInv, PingSent, Goto
<1> QED BY <1>1, Inductive, PTL

\* The next connection is dialled after the reader and the flusher of every
\* earlier one have ended (client.go:239-240).
THEOREM WatchersGone == Spec => []NoOldWatcherAtRedial
<1>1. CInv => NoOldWatcherAtRedial
  BY DEF CInv, WatchInv, NoOldWatcherAtRedial
<1> QED BY <1>1, Inductive, PTL

\* However many errors are reported at once, one goroutine at a time repairs
\* the connection (client.go:406-425).
THEOREM OneRepairs == Spec => []OneRedialler
<1>1. ASSUME CInv PROVE OneRedialler
  <2> DEFINE R == {r \in Recs : Redialler(r)}
  <2>1. \A q, r \in R : q = r
    BY <1>1 DEF CInv, RedialInv
  <2>2. CASE R = {}
    BY <2>2, FS_EmptySet DEF OneRedialler
  <2>3. ASSUME NEW r \in R PROVE OneRedialler
    <3>1. R = {r}
      BY <2>1, <2>3
    <3>2. Cardinality(R) = 1
      BY <3>1, FS_Singleton
    <3> QED BY <3>2 DEF OneRedialler
  <2> QED BY <2>2, <2>3
<1> QED BY <1>1, Inductive, PTL

\* A client that reconnects by itself stays closed once Close has closed it,
\* whatever its goroutines were doing then (client.go:128-150, 236-300).
THEOREM CloseFinal == Spec => CloseIsFinal
<1>1. ASSUME TypeOK, CInv, [Next]_vars, AutoReconn, status = "CLOSED", pc[Connector] = "off"
      PROVE  status' = "CLOSED"
  <2> USE <1>1, Kinds DEF Roles, CloseCodes, MuInv, HeldInv
  <2>1. ASSUME NEW p \in Procs, Closing(p) PROVE status' = "CLOSED"
    <3>1. p # Connector
      BY <2>1 DEF Closing, CloseEnter, CloseLeave, Shut
    <3> QED BY <2>1, <3>1 DEF Closing, CloseEnter, CloseLeave, Shut, Final
  <2>2. ASSUME Connect PROVE status' = "CLOSED"
    BY <2>2 DEF Connect, ConnectLock, ConnectDial, ConnectShake, ConnectRedo
  <2>3. ASSUME NEW p \in Readers \cup Pings, OpErr(p) PROVE status' = "CLOSED"
    BY <2>3 DEF OpErr, Busy
  <2>4. ASSUME NEW r \in Recs, Redialling(r) PROVE status' = "CLOSED"
    <3>1. r # Connector /\ pc[r] \notin {"dial", "shake", "pend"}
      BY DEF CInv
    <3> QED BY <2>4, <3>1 DEF Redialling, RecKick, RecWaited, RecLock, RecDial, RecShake, RecPending, RecFlush, RecFlushed
  <2>5. CASE Next
    BY <2>1, <2>2, <2>3, <2>4, <2>5 DEF Next, ConnectCall, CloseCall, Send, TimerFires, Fault, GiveUp,
       Reading, ReaderStart, ReaderCheck, ReaderPick, ReaderData, ReaderFails,
       Flushing, FlusherStart, FlusherTake, FlusherCheck, FlusherWritten, Pinging, Ping, PingSent
  <2> QED BY <2>5 DEF vars
<1>2. TypeOK /\ CInv /\ [Next]_vars =>
        [AutoReconn /\ status = "CLOSED" /\ pc[Connector] = "off" => status' = "CLOSED"]_vars
  BY <1>1
<1> QED BY <1>2, Inductive, PTL DEF Spec, CloseIsFinal

-----------------------------------------------------------------------------
\* What close() and the reconnections leave to the flushers: there is one at
\* most, it listens to the flusherExitChan that setup() made last, and a client
\* that is closed has a token there for one that still has to look.
FlushersInv ==
  AutoReconn =>
    /\ \A k, l \in ConnId : flush[k] # "off" /\ flush[l] # "off" => k = l
    /\ \A k \in ConnId : flush[k] \in {"wait", "woken", "writing"} => flushOf[k][2] = exitChan
    /\ \A k \in ConnId : flush[k] # "off" => exitChan # 0
    /\ status = "CLOSED" /\ pc[Connector] = "off" =>
         \A k \in ConnId : flush[k] \in {"start", "wait"} => exitChan \in kicked

\* A connection that is broken or closed, or that a close() is about to close.
Gone(c) == net[c] = "dead" \/ \E p \in Procs : pc[p] \in {"closing", "shut"} /\ src[p] = c

\* What they leave to the readers: the reader and the writer stay bound to a
\* connection only while it is the client's own, or it is gone, and a reader
\* waits on its client's own connection, while that is not closed, or on one
\* that is gone.
ReadersInv ==
  AutoReconn =>
    /\ bound \in {NilConn, conn} \/ Gone(bound)
    /\ status = "CLOSED" => conn = NilConn \/ Gone(conn)
    /\ \A r \in Readers : pc[r] \in {"start", "check", "pick", "read"} => bound # NilConn
    /\ \A r \in Readers : pc[r] = "read" =>
         /\ src[r] \in ConnId
         /\ Gone(src[r]) \/ (status # "CLOSED" /\ src[r] = conn)

\* Nobody of a closed client waits for something that nobody will do: a flusher
\* that waits has a token, and a reader reads from a connection that is gone.
NobodyStays ==
  AutoReconn /\ status = "CLOSED" /\ pc[Connector] = "off" =>
    /\ \A k \in ConnId : flush[k] = "wait" => flushOf[k][2] \in kicked
    /\ \A r \in Readers : pc[r] = "read" => Gone(src[r])

\* A step that touches neither the flushers nor their channel, takes no token
\* and does not close a client keeps their invariant.
LEMMA FlushersKept ==
  ASSUME FlushersInv, UNCHANGED <<exitChan, flushers>>, kicked \subseteq kicked',
         AutoReconn /\ status' = "CLOSED" /\ pc'[Connector] = "off" =>
           \/ status = "CLOSED" /\ pc[Connector] = "off"
           \/ \A k \in ConnId : flush[k] # "off" => exitChan \in kicked'
  PROVE  FlushersInv'
BY DEF FlushersInv, flushers

\* While there is no flusher the invariant says nothing.
LEMMA NoFlusher ==
  ASSUME \A k \in ConnId : flush'[k] = "off"
  PROVE  FlushersInv'
BY DEF FlushersInv

LEMMA FlushersClose ==
  ASSUME TypeOK, CInv, FlushersInv, (\E p \in Procs : Closing(p)) \/ CloseCall
  PROVE  FlushersInv'
<1> USE Kinds DEF TypeOK, Goto, kicks, counts
<1>1. ASSUME NEW p \in Procs, CloseEnter(p) PROVE FlushersInv'
  <2>1. UNCHANGED <<exitChan, flushers>>
    BY <1>1 DEF CloseEnter
  <2>2. CASE kicked' = kicked /\ status = "CLOSED" /\ pc' = [pc EXCEPT ![p] = After(p)]
    <3>1. AutoReconn => (pc'[Connector] = "off" => pc[Connector] = "off")
      BY <2>2 DEF After
    <3> QED BY <2>1, <2>2, <3>1, FlushersKept
  <2>3. CASE Kick
    <3>1. kicked \subseteq kicked' /\ (exitChan # 0 => exitChan \in kicked')
      BY <2>3 DEF Kick
    <3>2. AutoReconn => \A k \in ConnId : flush[k] # "off" => exitChan \in kicked'
      BY <3>1 DEF FlushersInv
    <3> QED BY <2>1, <3>1, <3>2, FlushersKept
  <2> QED BY <1>1, <2>2, <2>3 DEF CloseEnter
<1>2. ASSUME NEW p \in Procs, CloseLeave(p) PROVE FlushersInv'
  <2>1. status = "CLOSED" /\ (pc'[Connector] = "off" => pc[Connector] = "off")
    BY <1>2 DEF CloseLeave, CInv, HeldInv
  <2> QED BY <1>2, <2>1, FlushersKept DEF CloseLeave
<1>3. ASSUME NEW p \in Procs, Shut(p) PROVE FlushersInv'
  <2>1. AutoReconn => (pc'[Connector] = "off" => pc[Connector] = "off")
    BY <1>3 DEF Shut, After
  <2> QED BY <1>3, <2>1, FlushersKept DEF Shut
<1>4. ASSUME CloseCall PROVE FlushersInv'
  <2>1. pc'[Connector] = pc[Connector]
    BY <1>4 DEF CloseCall
  <2> QED BY <1>4, <2>1, FlushersKept DEF CloseCall
<1> QED BY <1>1, <1>2, <1>3, <1>4 DEF Closing

LEMMA FlushersConnect ==
  ASSUME TypeOK, CInv, FlushersInv, AutoReconn, ConnectCall \/ Connect
  PROVE  FlushersInv'
<1> USE Kinds DEF TypeOK, Goto, kicks, counts, flushers
<1>1. \A k \in ConnId : flush[k] = "off"
  BY DEF CInv, FreshInv, Connect, ConnectCall, ConnectLock, ConnectDial, ConnectShake, ConnectRedo
<1>2. CASE UNCHANGED flush
  BY <1>1, <1>2, NoFlusher
<1>3. CASE ConnectShake /\ HandshakeDone(Connector, "off")
  <2>1. pc[Connector] = "shake" /\ exitChan # 0
    BY <1>3 DEF ConnectShake, CInv, FreshInv
  <2>2. flush' = [flush EXCEPT ![conn] = "start"] /\ status' = "CONNECTED" /\ exitChan' = exitChan
    BY <1>3 DEF HandshakeDone
  <2>3. \A k \in ConnId : flush'[k] # "off" => k = conn /\ flush'[k] = "start"
    BY <1>1, <2>2
  <2> QED BY <2>1, <2>2, <2>3 DEF FlushersInv
<1> QED BY <1>2, <1>3 DEF Connect, ConnectCall, ConnectLock, ConnectDial, ConnectShake, ConnectRedo

LEMMA FlushersFlush ==
  ASSUME TypeOK, CInv, FlushersInv, (\E k \in ConnId : Flushing(k)) \/ Send
  PROVE  FlushersInv'
<1> USE Kinds DEF TypeOK, kicks, flushers
<1>1. ASSUME NEW k \in ConnId, FlusherStart(k) PROVE FlushersInv'
  <2>1. /\ flush[k] = "start" /\ flush'[k] \in {"off", "wait"} /\ flushOf'[k][2] = exitChan
        /\ \A l \in ConnId \ {k} : flush'[l] = flush[l] /\ flushOf'[l] = flushOf[l]
        /\ UNCHANGED <<status, pc, kicked, exitChan>>
    BY <1>1 DEF FlusherStart
  <2> QED BY <2>1 DEF FlushersInv
<1>2. ASSUME NEW k \in ConnId, FlusherTake(k) PROVE FlushersInv'
  <2>1. /\ flush[k] = "wait" /\ flush'[k] = "woken" /\ flushOf' = flushOf
        /\ \A l \in ConnId \ {k} : flush'[l] = flush[l]
        /\ UNCHANGED <<status, pc, exitChan>>
    BY <1>2 DEF FlusherTake
  <2>2. AutoReconn => \A l \in ConnId \ {k} : flush[l] = "off"
    BY <2>1 DEF FlushersInv
  <2> QED BY <2>1, <2>2 DEF FlushersInv
<1>3. ASSUME NEW k \in ConnId, FlusherCheck(k) PROVE FlushersInv'
  <2>1. /\ flush[k] = "woken" /\ flush'[k] \in {"off", "writing"}
        /\ flush'[k] # "off" => flushOf'[k] = flushOf[k]
        /\ \A l \in ConnId \ {k} : flush'[l] = flush[l] /\ flushOf'[l] = flushOf[l]
        /\ UNCHANGED <<status, pc, kicked, exitChan>>
    BY <1>3 DEF FlusherCheck
  <2> QED BY <2>1 DEF FlushersInv
<1>4. ASSUME Send PROVE FlushersInv'
  <2>1. kicked \subseteq kicked'
    BY <1>4 DEF Send, Kick
  <2> QED BY <1>4, <2>1, FlushersKept DEF Send
<1>5. ASSUME NEW k \in ConnId, FlusherWritten(k) PROVE FlushersInv'
  <2>1. /\ flush[k] = "writing" /\ flush'[k] = "wait" /\ flushOf' = flushOf
        /\ \A l \in ConnId \ {k} : flush'[l] = flush[l]
        /\ UNCHANGED <<status, pc, kicked, exitChan>>
    BY <1>5 DEF FlusherWritten
  <2>2. status = "CONNECTED"
    BY <2>1 DEF CInv, HeldInv
  <2> QED BY <2>1, <2>2 DEF FlushersInv
<1> QED BY <1>1, <1>2, <1>3, <1>4, <1>5 DEF Flushing

LEMMA FlushersRest ==
  ASSUME TypeOK, CInv, FlushersInv,
         \/ TimerFires \/ Fault \/ GiveUp
         \/ \E p \in Readers \cup Pings : OpErr(p)
         \/ \E r \in Readers : Reading(r)
         \/ \E p \in Pings : Pinging(p)
  PROVE  FlushersInv'
<1> USE Kinds DEF TypeOK, Goto, kicks, counts, conns, timers, Forget
<1> SUFFICES UNCHANGED <<exitChan, kicked, flushers>> /\ pc'[Connector] = pc[Connector] /\ (status' = "CLOSED" => status = "CLOSED")
  BY FlushersKept
<1>1. ASSUME NEW p \in Readers \cup Pings, OpErr(p)
      PROVE  UNCHANGED <<exitChan, kicked, flushers>> /\ pc'[Connector] = pc[Connector] /\ (status' = "CLOSED" => status = "CLOSED")
  BY <1>1 DEF OpErr, SpawnRec
<1>2. ASSUME NEW p \in Pings, Pinging(p) \/ TimerFires
      PROVE  UNCHANGED <<exitChan, kicked, flushers>> /\ pc'[Connector] = pc[Connector] /\ status' = status
  BY <1>2 DEF Pinging, Ping, PingSent, TimerFires
<1>3. ASSUME NEW r \in Readers, Reading(r)
      PROVE  UNCHANGED <<exitChan, kicked, flushers>> /\ pc'[Connector] = pc[Connector] /\ status' = status
  BY <1>3 DEF Reading, ReaderStart, ReaderCheck, ReaderPick, ReaderData, ReaderFails
<1>4. ASSUME Fault \/ GiveUp
      PROVE  UNCHANGED <<exitChan, kicked, flushers>> /\ pc'[Connector] = pc[Connector] /\ status' = status
  BY <1>4 DEF Fault, GiveUp
<1>5. TimerFires => \E p \in Pings : TimerFires
  BY DEF TimerFires
<1> QED BY <1>1, <1>2, <1>3, <1>4, <1>5

LEMMA FlushersRedial ==
  ASSUME TypeOK, CInv, FlushersInv, \E r \in Recs : Redialling(r)
  PROVE  FlushersInv'
<1> USE Kinds DEF TypeOK, Goto, kicks, counts, conns, timers
<1>1. ASSUME NEW r \in Recs, RecKick(r) PROVE FlushersInv'
  <2>1. kicked \subseteq kicked' /\ pc'[Connector] = pc[Connector]
    BY <1>1 DEF RecKick, Kick
  <2> QED BY <1>1, <2>1, FlushersKept DEF RecKick
<1>2. ASSUME NEW r \in Recs, RecWaited(r) \/ RecLock(r) \/ RecDial(r) \/ RecPending(r) \/ RecFlush(r) \/ RecFlushed(r) PROVE FlushersInv'
  <2>1. UNCHANGED <<exitChan, kicked, flushers>>
    BY <1>2 DEF RecWaited, RecLock, RecDial, RecPending, RecFlush, RecFlushed
  <2>2. pc'[Connector] = pc[Connector] /\ (status' = "CLOSED" => status = "CLOSED")
    BY <1>2 DEF RecWaited, RecLock, RecDial, RecPending, RecFlush, RecFlushed
  <2> QED BY <2>1, <2>2, FlushersKept
<1>3. ASSUME NEW r \in Recs, RecShake(r) PROVE FlushersInv'
  <2>1. pc[r] = "shake" /\ \A k \in ConnId : flush[k] = "off"
    BY <1>3 DEF RecShake, CInv, WatchInv, WatchersOut
  <2>2. CASE UNCHANGED flush
    BY <2>1, <2>2, NoFlusher
  <2>3. CASE HandshakeDone(r, "pend")
    <3>1. AutoReconn => exitChan # 0
      BY <2>1 DEF CInv, FreshInv
    <3>2. flush' = [flush EXCEPT ![conn] = "start"] /\ status' = "CONNECTED" /\ exitChan' = exitChan
      BY <2>3 DEF HandshakeDone
    <3>3. \A k \in ConnId : flush'[k] # "off" => k = conn /\ flush'[k] = "start"
      BY <2>1, <3>2
    <3> QED BY <3>1, <3>2, <3>3 DEF FlushersInv
  <2> QED BY <1>3, <2>2, <2>3 DEF RecShake, flushers
<1> QED BY <1>1, <1>2, <1>3 DEF Redialling

\* A connection that is gone stays so: the close() that is about to close it
\* closes it (client.go:159, the deferred conn.Close()), if no step revives it.
LEMMA GoneStays ==
  ASSUME AutoReconn, TypeOK, CInv, NEW c \in ConnId, Gone(c), [Next]_vars,
         net[c] = "dead" => net'[c] = "dead"
  PROVE  Gone(c)'
<1> DEFINE Closes(p) == pc[p] \in {"closing", "shut"} /\ src[p] = c
<1> USE Kinds DEF TypeOK, Gone, Goto, conns, timers, kicks, counts, Forget
<1>1. CASE net[c] = "dead"
  BY <1>1
<1>2. ASSUME NEW p \in Procs, Closes(p) PROVE Gone(c)'
  <2> USE <1>2
  <2>1. CASE Next
    <3>1. ASSUME NEW q \in Procs, Closing(q) PROVE Gone(c)'
      <4>1. ASSUME CloseEnter(q) PROVE Closes(p)'
        BY <4>1 DEF CloseEnter
      <4>2. ASSUME CloseLeave(q) PROVE Closes(p)'
        BY <4>2 DEF CloseLeave
      <4>3. ASSUME Shut(q), q = p PROVE net'[c] = "dead"
        BY <4>3 DEF Shut
      <4>4. ASSUME Shut(q), q # p PROVE Closes(p)'
        BY <4>4 DEF Shut
      <4> QED BY <3>1, <4>1, <4>2, <4>3, <4>4 DEF Closing
    <3>2. ASSUME Connect \/ ConnectCall PROVE Closes(p)'
      <4>1. ASSUME ConnectShake PROVE Closes(p)'
        <5>1. p # Connector /\ (\A r \in Readers : pc[r] = "off") /\ conn \in ConnId
          BY <4>1 DEF ConnectShake, CInv, FreshInv, HeldInv, UsableInv
        <5>2. p # Reader(conn)
          BY <5>1
        <5>3. pc'[p] = pc[p] /\ src' = src
          BY <4>1, <5>1, <5>2 DEF ConnectShake, HandshakeDone
        <5> QED BY <5>3
      <4> QED BY <3>2, <4>1 DEF Connect, ConnectCall, ConnectLock, ConnectDial, ConnectRedo, SpawnRec
    <3>3. ASSUME NEW q \in Readers \cup Pings, OpErr(q) PROVE Closes(p)'
      BY <3>3 DEF OpErr, SpawnRec
    <3>4. ASSUME NEW r \in Recs, Redialling(r) PROVE Closes(p)'
      <4>1. ASSUME RecShake(r) PROVE Closes(p)'
        <5>1. pc[r] = "shake" /\ (\A q \in Readers : pc[q] = "off") /\ conn \in ConnId
          BY <4>1 DEF RecShake, CInv, WatchInv, WatchersOut, HeldInv, UsableInv
        <5>2. p # Reader(conn) /\ p # r
          BY <5>1
        <5>3. pc'[p] = pc[p] /\ src' = src
          BY <4>1, <5>2 DEF RecShake, HandshakeDone
        <5> QED BY <5>3
      <4> QED BY <3>4, <4>1 DEF Redialling, RecKick, RecWaited, RecLock, RecDial, RecPending, RecFlush, RecFlushed
    <3>5. ASSUME Fault \/ GiveUp \/ CloseCall \/ Send \/ TimerFires PROVE Closes(p)'
      BY <3>5 DEF Fault, GiveUp, CloseCall, Send, TimerFires
    <3>6. ASSUME NEW r \in Readers, Reading(r) PROVE Closes(p)'
      BY <3>6 DEF Reading, ReaderStart, ReaderCheck, ReaderPick, ReaderData, ReaderFails
    <3>7. ASSUME NEW k \in ConnId, Flushing(k) PROVE Closes(p)'
      BY <3>7 DEF Flushing, FlusherStart, FlusherTake, FlusherCheck, FlusherWritten
    <3>8. ASSUME NEW q \in Pings, Pinging(q) PROVE Closes(p)'
      BY <3>8 DEF Pinging, Ping, PingSent
    <3> QED BY <2>1, <3>1, <3>2, <3>3, <3>4, <3>5, <3>6, <3>7, <3>8 DEF Next
  <2> QED BY <2>1 DEF vars
<1> QED BY <1>1, <1>2

\* A step that drops and closes no connection and starts no reader keeps the
\* readers' invariant.
LEMMA ReadersKept ==
  ASSUME AutoReconn, TypeOK, CInv, ReadersInv, Next, UNCHANGED <<conn, bound>>,
         \A k \in ConnId : net[k] = "dead" => net'[k] = "dead",
         status' = "CLOSED" => status = "CLOSED",
         \A r \in Readers : pc'[r] \in {"start", "check", "pick"} => pc[r] \in {"start", "check", "pick", "read"},
         \A r \in Readers : pc'[r] = "read" => pc[r] = "read" /\ src'[r] = src[r]
  PROVE  ReadersInv'
<1>1. \A c \in ConnId : Gone(c) => Gone(c)'
  BY GoneStays
<1>2. (bound \in {NilConn, conn} \/ Gone(bound))'
  <2>1. PICK c : c = bound
    OBVIOUS
  <2>2. c \in ConnId \cup {NilConn} /\ (c \in {NilConn, conn} \/ Gone(c))
    BY <2>1 DEF ReadersInv, TypeOK
  <2>3. bound' = c /\ conn' = conn
    BY <2>1
  <2>4. c \in {NilConn, conn} \/ Gone(c)'
    BY <1>1, <2>2
  <2> QED BY <2>3, <2>4 DEF Gone
<1>3. ASSUME NEW r \in Readers, pc'[r] = "read"
      PROVE  (src[r] \in ConnId /\ (Gone(src[r]) \/ (status # "CLOSED" /\ src[r] = conn)))'
  <2>1. PICK c : c = src[r]
    OBVIOUS
  <2>2. c \in ConnId /\ (Gone(c) \/ (status # "CLOSED" /\ c = conn))
    BY <1>3, <2>1 DEF ReadersInv
  <2>3. src'[r] = c /\ conn' = conn
    BY <1>3, <2>1
  <2>4. c \in ConnId /\ (Gone(c)' \/ (status' # "CLOSED" /\ c = conn'))
    BY <1>1, <2>2, <2>3
  <2> QED BY <2>3, <2>4 DEF Gone
<1>4. \A r \in Readers : pc'[r] \in {"start", "check", "pick", "read"} => bound' # NilConn
  BY DEF ReadersInv
<1>5. (status = "CLOSED" => conn = NilConn \/ Gone(conn))'
  <2>1. PICK c : c = conn
    OBVIOUS
  <2>2. c \in ConnId \cup {NilConn} /\ (status' = "CLOSED" => c = NilConn \/ Gone(c))
    BY <2>1 DEF ReadersInv, TypeOK
  <2>3. conn' = c
    BY <2>1
  <2>4. status' = "CLOSED" => c = NilConn \/ Gone(c)'
    BY <1>1, <2>2
  <2> QED BY <2>3, <2>4 DEF Gone
<1> QED BY <1>2, <1>3, <1>4, <1>5 DEF ReadersInv

LEMMA ReadersClose ==
  ASSUME AutoReconn, TypeOK, CInv, ReadersInv, (\E p \in Procs : Closing(p)) \/ CloseCall
  PROVE  ReadersInv'
<1> USE Kinds DEF TypeOK, Goto, conns, kicks, counts, Final, After, Forget
<1>0. Next
  BY DEF Next
<1>1. ASSUME NEW p \in Procs, CloseLeave(p) \/ Shut(p) \/ CloseCall PROVE ReadersInv'
  <2>1. /\ UNCHANGED <<conn, bound>> /\ (status' = "CLOSED" => status = "CLOSED")
        /\ \A r \in Readers : pc'[r] \in {"start", "check", "pick", "read"} => pc'[r] = pc[r] /\ src'[r] = src[r]
        /\ \A k \in ConnId : net[k] = "dead" => net'[k] = "dead"
    BY <1>1 DEF CloseLeave, Shut, CloseCall, CInv, HeldInv
  <2> QED BY <1>0, <2>1, ReadersKept
<1>2. ASSUME NEW p \in Procs, CloseEnter(p), status = "CLOSED" PROVE ReadersInv'
  <2>1. /\ UNCHANGED <<conn, bound, net>>
        /\ \A r \in Readers : pc'[r] \in {"start", "check", "pick", "read"} => pc'[r] = pc[r] /\ src'[r] = src[r]
    BY <1>2 DEF CloseEnter
  <2> QED BY <1>0, <1>2, <2>1, ReadersKept
<1>3. ASSUME NEW p \in Procs, CloseEnter(p), status # "CLOSED" PROVE ReadersInv'
  <2>1. /\ UNCHANGED <<conn, bound, net>> /\ pc'[p] = "closing" /\ src'[p] = conn
        /\ \A r \in Readers : pc'[r] \in {"start", "check", "pick", "read"} => pc'[r] = pc[r] /\ src'[r] = src[r]
    BY <1>3 DEF CloseEnter
  <2>2. \A c \in ConnId : c = conn \/ Gone(c) => Gone(c)'
    <3>1. \A c \in ConnId : Gone(c) => Gone(c)'
      BY <1>0, <2>1, GoneStays
    <3>2. \A c \in ConnId : c = conn => Gone(c)'
      BY <2>1 DEF Gone
    <3> QED BY <3>1, <3>2
  <2>3. (bound \in {NilConn, conn} \/ Gone(bound))'
    <3>1. PICK c : c = bound
      OBVIOUS
    <3>2. c \in {NilConn, conn} \/ Gone(c)'
      BY <2>2, <3>1 DEF ReadersInv
    <3> QED BY <2>1, <3>1, <3>2 DEF Gone
  <2>4. ASSUME NEW r \in Readers, pc'[r] = "read"
        PROVE  (src[r] \in ConnId /\ Gone(src[r]))'
    <3>1. PICK c : c = src[r]
      OBVIOUS
    <3>2. c \in ConnId /\ Gone(c)'
      BY <2>1, <2>2, <2>4, <3>1 DEF ReadersInv
    <3> QED BY <2>1, <2>4, <3>1, <3>2 DEF Gone
  <2>5. \A r \in Readers : pc'[r] \in {"start", "check", "pick", "read"} => bound' # NilConn
    BY <2>1 DEF ReadersInv
  <2>6. (conn = NilConn \/ Gone(conn))'
    <3>1. PICK c : c = conn
      OBVIOUS
    <3>2. c = NilConn \/ Gone(c)'
      BY <2>2, <3>1
    <3> QED BY <2>1, <3>1, <3>2 DEF Gone
  <2> QED BY <2>3, <2>4, <2>5, <2>6 DEF ReadersInv
<1> QED BY <1>1, <1>2, <1>3 DEF Closing

LEMMA ReadersErr ==
  ASSUME AutoReconn, TypeOK, CInv, ReadersInv, \E p \in Readers \cup Pings : OpErr(p)
  PROVE  ReadersInv'
<1> USE Kinds DEF TypeOK, Goto, conns, SpawnRec
<1>0. Next
  BY DEF Next
<1>1. PICK p \in Readers \cup Pings : OpErr(p)
  OBVIOUS
<1>2. /\ bound' = bound /\ src' = src /\ (status' = "CLOSED" => status = "CLOSED")
      /\ \A k \in ConnId : net[k] = "dead" => net'[k] = "dead"
      /\ \A r \in Readers : pc'[r] \in {"start", "check", "pick", "read"} => pc'[r] = pc[r]
  BY <1>1 DEF OpErr
<1>3. conn' = conn \/ (conn' = NilConn /\ \A k \in ConnId : k = conn => net'[k] = "dead")
  BY <1>1 DEF OpErr
<1>4. CASE conn' = conn
  BY <1>0, <1>2, <1>4, ReadersKept
<1>5. CASE conn' = NilConn /\ \A k \in ConnId : k = conn => net'[k] = "dead"
  <2>1. \A c \in ConnId : c = conn \/ Gone(c) => Gone(c)'
    <3>1. \A c \in ConnId : Gone(c) => Gone(c)'
      BY <1>0, <1>2, GoneStays
    <3>2. \A c \in ConnId : c = conn => Gone(c)'
      BY <1>5 DEF Gone
    <3> QED BY <3>1, <3>2
  <2>2. (bound \in {NilConn, conn} \/ Gone(bound))'
    <3>1. PICK c : c = bound
      OBVIOUS
    <3>2. c = NilConn \/ Gone(c)'
      BY <2>1, <3>1 DEF ReadersInv
    <3> QED BY <1>2, <3>1, <3>2 DEF Gone
  <2>3. ASSUME NEW r \in Readers, pc'[r] = "read"
        PROVE  (src[r] \in ConnId /\ Gone(src[r]))'
    <3>1. PICK c : c = src[r]
      OBVIOUS
    <3>2. c \in ConnId /\ Gone(c)'
      BY <1>2, <2>1, <2>3, <3>1 DEF ReadersInv
    <3> QED BY <1>2, <3>1, <3>2 DEF Gone
  <2>4. \A r \in Readers : pc'[r] \in {"start", "check", "pick", "read"} => bound' # NilConn
    BY <1>2 DEF ReadersInv
  <2> QED BY <1>5, <2>2, <2>3, <2>4 DEF ReadersInv
<1> QED BY <1>3, <1>4, <1>5

LEMMA ReadersRead ==
  ASSUME AutoReconn, TypeOK, CInv, ReadersInv, NEW r \in Readers, Reading(r)
  PROVE  ReadersInv'
<1> USE Kinds DEF TypeOK, Goto, conns, Forget
<1>0. Next
  BY DEF Next
<1>1. ASSUME ReaderStart(r) \/ ReaderCheck(r) \/ ReaderData(r) \/ ReaderFails(r) PROVE ReadersInv'
  <2>1. /\ UNCHANGED <<conn, bound, net, status>>
        /\ \A q \in Readers : pc'[q] \in {"start", "check", "pick"} => pc[q] \in {"start", "check", "pick", "read"}
        /\ \A q \in Readers : pc'[q] = "read" => pc[q] = "read" /\ src'[q] = src[q]
    BY <1>1 DEF ReaderStart, ReaderCheck, ReaderData, ReaderFails
  <2> QED BY <1>0, <2>1, ReadersKept
<1>2. ASSUME ReaderPick(r) PROVE ReadersInv'
  <2>1. /\ UNCHANGED <<conn, bound, net, status>> /\ pc[r] = "pick"
        /\ \A q \in Readers \ {r} : pc'[q] = pc[q] /\ src'[q] = src[q]
        /\ src'[r] = bound /\ pc'[r] = "read"
    BY <1>2 DEF ReaderPick
  <2>2. \A c \in ConnId : Gone(c) => Gone(c)'
    BY <1>0, <2>1, GoneStays
  <2>3. (bound \in {NilConn, conn} \/ Gone(bound))'
    <3>1. PICK c : c = bound
      OBVIOUS
    <3>2. c \in {NilConn, conn} \/ Gone(c)'
      BY <2>2, <3>1 DEF ReadersInv
    <3> QED BY <2>1, <3>1, <3>2 DEF Gone
  <2>4. bound # NilConn
    BY <2>1 DEF ReadersInv
  <2>5. ASSUME NEW q \in Readers, pc'[q] = "read"
        PROVE  (src[q] \in ConnId /\ (Gone(src[q]) \/ (status # "CLOSED" /\ src[q] = conn)))'
    <3>1. PICK c : c = src'[q]
      OBVIOUS
    <3>2. c \in ConnId /\ (Gone(c) \/ (status # "CLOSED" /\ c = conn))
      <4>1. CASE q = r
        <5>1. c = bound /\ c \in ConnId
          BY <2>1, <2>4, <3>1, <4>1
        <5>2. CASE Gone(bound)
          BY <5>1, <5>2
        <5>3. CASE bound = conn
          <6>1. PICK d : d = conn
            OBVIOUS
          <6>2. status = "CLOSED" => Gone(d)
            BY <5>1, <5>3, <6>1 DEF ReadersInv
          <6> QED BY <5>1, <5>3, <6>1, <6>2
        <5> QED BY <2>4, <5>2, <5>3 DEF ReadersInv
      <4>2. CASE q # r
        BY <2>1, <2>5, <3>1, <4>2 DEF ReadersInv
      <4> QED BY <4>1, <4>2
    <3>3. c \in ConnId /\ (Gone(c)' \/ (status # "CLOSED" /\ c = conn))
      BY <2>2, <3>2
    <3> QED BY <2>1, <3>1, <3>3 DEF Gone
  <2>6. \A q \in Readers : pc'[q] \in {"start", "check", "pick", "read"} => bound' # NilConn
    BY <2>1, <2>4
  <2>7. (status = "CLOSED" => conn = NilConn \/ Gone(conn))'
    <3>1. PICK c : c = conn
      OBVIOUS
    <3>2. status = "CLOSED" => c = NilConn \/ Gone(c)'
      BY <2>2, <3>1 DEF ReadersInv
    <3> QED BY <2>1, <3>1, <3>2 DEF Gone
  <2> QED BY <2>3, <2>5, <2>6, <2>7 DEF ReadersInv
<1> QED BY <1>1, <1>2 DEF Reading

\* A goroutine that dials or shakes hands finds no reader at work, and leaves the
\* reader and the writer bound to the connection.
LEMMA ReadersDial ==
  ASSUME \A r \in Readers : pc'[r] \notin {"check", "pick", "read"}, bound' = conn', bound' # NilConn,
         status' # "CLOSED"
  PROVE  ReadersInv'
BY DEF ReadersInv

LEMMA ReadersConnect ==
  ASSUME AutoReconn, TypeOK, CInv, ReadersInv, ConnectCall \/ Connect
  PROVE  ReadersInv'
<1> USE Kinds DEF TypeOK, Goto, conns, SpawnRec
<1>0. Next /\ \A r \in Readers : pc[r] = "off"
  <2>1. Next
    BY DEF Next
  <2>2. \A r \in Readers : pc[r] = "off"
    BY DEF CInv, FreshInv, Connect, ConnectCall, ConnectLock, ConnectDial, ConnectShake, ConnectRedo
  <2> QED BY <2>1, <2>2
<1>1. ASSUME ConnectDial, NewConn, status' = "CONNECTING" PROVE ReadersInv'
  <2>1. \A r \in Readers : pc'[r] = "off"
    BY <1>0, <1>1 DEF ConnectDial
  <2>2. bound' = conn' /\ conn' \in ConnId /\ status' # "CLOSED"
    BY <1>1 DEF NewConn
  <2> QED BY <2>1, <2>2, ReadersDial
<1>2. ASSUME ConnectShake, HandshakeDone(Connector, "off") PROVE ReadersInv'
  <2>1. conn \in ConnId /\ bound = conn
    BY <1>2 DEF ConnectShake, CInv, HeldInv, UsableInv
  <2>2. \A r \in Readers : pc'[r] \in {"off", "start"}
    BY <1>0, <1>2, <2>1 DEF HandshakeDone
  <2>3. UNCHANGED <<conn, bound>> /\ status' # "CLOSED"
    BY <1>2 DEF HandshakeDone
  <2> QED BY <2>1, <2>2, <2>3, ReadersDial
<1>3. ASSUME ConnectCall \/ ConnectLock \/ ConnectRedo \/ (ConnectDial /\ UNCHANGED <<status, conns>>)
             \/ (ConnectShake /\ ~HandshakeDone(Connector, "off")) PROVE ReadersInv'
  <2>1. /\ UNCHANGED <<conn, bound, net>> /\ (status' = "CLOSED" => status = "CLOSED")
        /\ \A r \in Readers : pc'[r] = "off"
    BY <1>0, <1>3 DEF ConnectCall, ConnectLock, ConnectDial, ConnectShake, ConnectRedo
  <2> QED BY <1>0, <2>1, ReadersKept
<1>4. ConnectDial => (NewConn /\ status' = "CONNECTING") \/ UNCHANGED <<status, conns>>
  BY DEF ConnectDial
<1> QED BY <1>1, <1>2, <1>3, <1>4 DEF Connect

LEMMA ReadersRedial ==
  ASSUME AutoReconn, TypeOK, CInv, ReadersInv, NEW r \in Recs, Redialling(r)
  PROVE  ReadersInv'
<1> USE Kinds DEF TypeOK, Goto, conns
<1>0. Next
  BY DEF Next
<1>1. ASSUME RecDial(r), NewConn, status' = "CONNECTING" PROVE ReadersInv'
  <2>1. \A q \in Readers : pc[q] = "off"
    BY <1>1 DEF RecDial, CInv, WatchInv, WatchersOut
  <2>2. \A q \in Readers : pc'[q] = "off"
    BY <1>1, <2>1 DEF RecDial
  <2>3. bound' = conn' /\ conn' \in ConnId /\ status' # "CLOSED"
    BY <1>1 DEF NewConn
  <2> QED BY <2>2, <2>3, ReadersDial
<1>2. ASSUME RecShake(r), HandshakeDone(r, "pend") PROVE ReadersInv'
  <2>1. conn \in ConnId /\ bound = conn /\ \A q \in Readers : pc[q] = "off"
    BY <1>2 DEF RecShake, CInv, HeldInv, UsableInv, WatchInv, WatchersOut
  <2>2. \A q \in Readers : pc'[q] \in {"off", "start"}
    BY <1>2, <2>1 DEF HandshakeDone
  <2>3. UNCHANGED <<conn, bound>> /\ status' # "CLOSED"
    BY <1>2 DEF HandshakeDone
  <2> QED BY <2>1, <2>2, <2>3, ReadersDial
<1>3. ASSUME RecKick(r) \/ RecWaited(r) \/ RecLock(r) \/ RecPending(r) \/ RecFlush(r) \/ RecFlushed(r)
             \/ (RecDial(r) /\ UNCHANGED <<status, conns>>) \/ (RecShake(r) /\ ~HandshakeDone(r, "pend")) PROVE ReadersInv'
  <2>1. /\ UNCHANGED <<conn, bound, net, src>> /\ (status' = "CLOSED" => status = "CLOSED")
        /\ \A q \in Readers : pc'[q] = pc[q]
    BY <1>3 DEF RecKick, RecWaited, RecLock, RecDial, RecShake, RecPending, RecFlush, RecFlushed
  <2> QED BY <1>0, <2>1, ReadersKept
<1>4. RecDial(r) => (NewConn /\ status' = "CONNECTING") \/ UNCHANGED <<status, conns>>
  BY DEF RecDial
<1> QED BY <1>1, <1>2, <1>3, <1>4 DEF Redialling

LEMMA ReadersRest ==
  ASSUME AutoReconn, TypeOK, CInv, ReadersInv,
         \/ Send \/ TimerFires \/ Fault \/ GiveUp
         \/ \E k \in ConnId : Flushing(k)
         \/ \E p \in Pings : Pinging(p)
  PROVE  ReadersInv'
<1> USE Kinds DEF TypeOK, Goto, conns
<1>0. Next
  BY DEF Next
<1>1. /\ UNCHANGED <<conn, bound, status, src>>
      /\ \A k \in ConnId : net[k] = "dead" => net'[k] = "dead"
      /\ \A r \in Readers : pc'[r] = pc[r]
  BY DEF Send, TimerFires, Fault, GiveUp, Flushing, FlusherStart, FlusherTake, FlusherCheck, FlusherWritten, Pinging, Ping, PingSent
<1> QED BY <1>0, <1>1, ReadersKept

\* What close() and a reconnection leave to the flushers and the readers of a
\* client that reconnects by itself holds for ever (client.go:128-150, 239-300).
THEOREM EndInductive == Spec => [](FlushersInv /\ ReadersInv)
<1>1. Init => FlushersInv /\ ReadersInv
  <2> SUFFICES ASSUME Init PROVE FlushersInv /\ ReadersInv
    OBVIOUS
  <2>1. (\A k \in ConnId : flush[k] = "off") /\ bound = NilConn /\ conn = NilConn /\ \A r \in Readers : pc[r] = "off"
    BY Kinds DEF Init
  <2> QED BY <2>1 DEF FlushersInv, ReadersInv
<1>2. TypeOK /\ CInv /\ FlushersInv /\ ReadersInv /\ [Next]_vars => (FlushersInv /\ ReadersInv)'
  <2> SUFFICES ASSUME TypeOK, CInv, FlushersInv, ReadersInv, [Next]_vars PROVE FlushersInv' /\ ReadersInv'
    OBVIOUS
  <2>1. CASE UNCHANGED vars
    BY <2>1 DEF vars, conns, kicks, flushers, FlushersInv, ReadersInv, Gone
  <2>2. CASE ~AutoReconn
    BY <2>2 DEF FlushersInv, ReadersInv
  <2>3. CASE Next /\ AutoReconn
    <3>1. FlushersInv'
      BY <2>3, FlushersClose, FlushersConnect, FlushersFlush, FlushersRest, FlushersRedial DEF Next
    <3>2. ReadersInv'
      BY <2>3, ReadersClose, ReadersErr, ReadersRead, ReadersConnect, ReadersRedial, ReadersRest DEF Next
    <3> QED BY <3>1, <3>2
  <2> QED BY <2>1, <2>2, <2>3
<1> QED BY <1>1, <1>2, Inductive, PTL DEF Spec

\* Nobody of a closed client that reconnects by itself waits for something that
\* nobody will do, though close() kicks a channel that may be full and closes a
\* connection after it has let c.mu go: a flusher that waits has a token, and a
\* reader reads from a connection that is broken, closed, or that a close() is
\* about to close once its last flush returns (client.go:128-166).
THEOREM NobodyOfClosedStays == Spec => []NobodyStays
<1>1. FlushersInv /\ ReadersInv => NobodyStays
  BY DEF FlushersInv, ReadersInv, NobodyStays
<1> QED BY <1>1, EndInductive, PTL
=============================================================================
