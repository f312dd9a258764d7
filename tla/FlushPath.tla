----------------------------- MODULE FlushPath ------------------------------
(***************************************************************************)
(* What FlushTimeout promises (pkg/client/client.go): messages and pings   *)
(* share one writer with a buffer and, while the client reconnects, a      *)
(* pending buffer (buffer.go); the server answers a ping with a pong, and  *)
(* every pong is given to the oldest entry of c.pongs.                     *)
(*                                                                         *)
(* A message is its number, and a ping is the number 0.  Which goroutines  *)
(* watch a connection, and how they begin and end, is modelled by          *)
(* ClientConn; here matters that doReconnect waits for the reader of the   *)
(* last connection and that Connect does not: it then reads the new one    *)
(* too, for the limReader is shared.  The gap in appendBufs before a       *)
(* flush, and the kicks of the flusher, are the business of SendPath.  A   *)
(* ping of the timer has an entry without a channel, like that of a flush  *)
(* that timed out, and is left out.                                        *)
(*                                                                         *)
(* c.mu is held by doReconnect from the dial to its end and is otherwise   *)
(* held within one action; w.mu is held while sending is set.  Dial,       *)
(* binding and handshake are one step: c.mu is held throughout, so that    *)
(* only senders, who need just w.mu, act meanwhile, and what they append   *)
(* then they may as well append after it.  A handshake that fails leaves   *)
(* doReconnect where it was, and Connect with a connection that breaks.    *)
(* A write takes as long as the server takes to read; here that is always  *)
(* some time and a write is one step (ClientConn has peers that stop       *)
(* reading).                                                               *)
(***************************************************************************)
EXTENDS Integers, Sequences, FiniteSets

CONSTANTS
  Users,          \* the users of FlushTimeout; each of them calls it once,
                  \* and doReconnect once for each connection it makes
  Limit,          \* limWriter.limit, in messages
  MaxMsg,         \* bound: messages sent
  MaxCalls,       \* bound: calls of FlushTimeout
  MaxConn,        \* bound: connections established
  MaxFaults       \* bound: connections that break

ASSUME FlushAssumption ==
  /\ IsFiniteSet(Users)
  /\ {Limit, MaxConn} \subseteq Nat \ {0}
  /\ {MaxMsg, MaxCalls, MaxFaults} \subseteq Nat

PING    == 0
Msgs    == 1 .. MaxMsg
Nil     == <<"nil", 0>>
Redo(k) == <<"doReconnect", k>>      \* for connection k
Callers == {<<"user", u>> : u \in Users} \cup {Redo(k) : k \in 1 .. MaxConn}
NoFlush == [on |-> 0, msgs |-> {}]
NoSend  == [msg |-> 0, snap |-> <<>>, obj |-> 0]

VARIABLES
  auto,       \* opts.AutoReconn
  status,     \* c.status; CONNECTING is never seen without c.mu
  conn,       \* the number of the current connection
  bufs,       \* w.bufs
  pendOn,     \* w.pending # nil
  pend, obj,  \* its content, and which pending buffer it is
  sending,    \* the append to the pending buffer under way: a data race
  next,       \* the next message
  pongs,      \* c.pongs
  st,         \* where each call of FlushTimeout is
  token,      \* its channel was given a token
  rec,        \* where doReconnect is
  nFault,
  up, wire,   \* the connection works; written, not yet taken by the server
  late,       \* the messages written to earlier connections, not yet taken
  answers,    \* the server's answers that were not handled yet
  reading,    \* readLoop is there
  left,       \* how many readLoops of earlier connections are there
  panicked,   \* the process is gone
  received,   \* history: the messages the server has taken
  appended,   \* history: messages accepted, that the writer is answerable for
  dropped,    \* history: accepted, but put where nobody reads any more
  asked,      \* history: where each waiting flush was called, and what
              \* appended was then
  sound,      \* history: it was answered on that connection
  mixed,      \* history: Connect found a readLoop of an earlier connection
  raced       \* history: a message sent before was restored by the data race

writer == <<bufs, pendOn, pend, obj, sending, next>>
pings  == <<pongs, st, token>>
net    == <<up, nFault, wire, late, answers>>
hist   == <<received, appended, dropped, asked, sound, mixed, raced>>
vars   == <<auto, status, conn, writer, pings, rec, net, reading, left, panicked, hist>>

\* Connect has returned: it is connected, or goes on in the background after a
\* failed handshake.
Init ==
  /\ auto \in BOOLEAN
  /\ \/ /\ status = "CONNECTED" /\ conn = 1 /\ rec = "off"
        /\ pendOn = FALSE /\ up = TRUE /\ reading = TRUE
     \/ /\ auto /\ status = "RECONNECTING" /\ conn = 0 /\ rec = "wait"
        /\ pendOn = TRUE /\ up = FALSE /\ reading = FALSE
  /\ bufs = <<>> /\ pend = <<>> /\ obj = 0
  /\ sending = NoSend /\ next = 1
  /\ pongs = <<>>
  /\ st = [f \in Callers |-> IF f[1] = "user" THEN "call" ELSE "off"]
  /\ token = [f \in Callers |-> FALSE]
  /\ nFault = 0 /\ wire = <<>> /\ answers = 0
  /\ late = {} /\ left = 0 /\ panicked = FALSE
  /\ received = {} /\ appended = {} /\ dropped = {} /\ mixed = FALSE /\ raced = FALSE
  /\ asked = [f \in Callers |-> NoFlush]
  /\ sound = [f \in Callers |-> FALSE]

MuFree  == rec \in {"off", "wait"}
WmuFree == sending = NoSend

\* A write that fails breaks the connection and may have sent a first part;
\* one into a broken connection sends nothing, and may not even notice.
Write(items, succeeds) ==
  /\ \E n \in 0 .. IF up THEN Len(items) ELSE 0 :
       /\ wire' = wire \o SubSeq(items, 1, n)
       /\ up /\ succeeds => n = Len(items)
  /\ up' = (up /\ succeeds)
  /\ nFault' = IF up /\ ~succeeds THEN nFault + 1 ELSE nFault
  /\ nFault' <= MaxFaults

\* Mutant: what was written stays in the buffer.
FlushKeeps(added, succeeds) ==
  IF pendOn THEN pend' = pend \o added /\ UNCHANGED <<bufs, up, nFault, wire>>
  ELSE Write(bufs \o added, succeeds) /\ bufs' = bufs \o added /\ UNCHANGED pend

\* limWriter.flush, of the buffer and what the caller has just added to it.
Flush(added, succeeds) ==
  IF pendOn THEN pend' = pend \o added /\ UNCHANGED <<bufs, up, nFault, wire>>
  ELSE Write(bufs \o added, succeeds) /\ bufs' = <<>> /\ UNCHANGED pend

-----------------------------------------------------------------------------
(* SendMessage: it takes w.mu, but not c.mu.                               *)

AppendBufs ==
  /\ next \in Msgs /\ WmuFree /\ ~pendOn
  /\ next' = next + 1
  /\ \E succeeds \in BOOLEAN :
       /\ IF Len(bufs) + 1 >= Limit THEN Flush(<<next>>, succeeds)
          ELSE bufs' = Append(bufs, next) /\ succeeds /\ UNCHANGED <<pend, up, nFault, wire>>
       /\ appended' = IF succeeds /\ status # "CLOSED" THEN appended \cup {next} ELSE appended
  /\ UNCHANGED <<auto, status, conn, pendOn, obj, sending, pings, rec, late, answers, reading,
                 left, panicked, received, dropped, asked, sound, mixed, raced>>

\* pending.Write reads the length of the buffer ...
PendingLoad ==
  /\ next \in Msgs /\ WmuFree /\ pendOn
  /\ next' = next + 1
  /\ sending' = [msg |-> next, snap |-> pend, obj |-> obj]
  /\ UNCHANGED <<auto, status, conn, bufs, pendOn, pend, obj, pings, rec, net, reading,
                 left, panicked, hist>>

\* ... and stores it again: doReconnect, that holds another lock, may have
\* written, reset or dropped that buffer in between.  SendMessage succeeds all
\* the same, and its message is lost unless the buffer is still to be written.
Kept == pendOn /\ obj = sending.obj /\ rec \in {"wait", "write"}

PendingStore ==
  /\ sending # NoSend
  /\ sending' = NoSend
  /\ \/ /\ pendOn /\ obj = sending.obj
        /\ pend' = Append(sending.snap, sending.msg)
        /\ raced' = (raced \/ pend # sending.snap)
     \/ /\ ~(pendOn /\ obj = sending.obj)
        /\ UNCHANGED <<pend, raced>>
  /\ appended' = IF Kept /\ status # "CLOSED" THEN appended \cup {sending.msg} ELSE appended
  /\ dropped' = IF ~Kept /\ status # "CLOSED" THEN dropped \cup {sending.msg} ELSE dropped
  /\ UNCHANGED <<auto, status, conn, bufs, pendOn, obj, next, pings, rec, net, reading,
                 left, panicked, received, asked, sound, mixed>>

\* w.pending is read twice, and may be nil the second time.
PendingPanic ==
  /\ sending # NoSend /\ ~pendOn
  /\ panicked' = TRUE
  /\ UNCHANGED <<auto, status, conn, writer, pings, rec, net, reading, left, hist>>

\* The flusher; that it is woken whenever the buffer is filled is the
\* business of SendPath.
Flusher ==
  /\ bufs # <<>> /\ MuFree /\ WmuFree /\ status = "CONNECTED"
  /\ \E succeeds \in BOOLEAN : Flush(<<>>, succeeds)
  /\ UNCHANGED <<auto, status, conn, pendOn, obj, sending, next, pings, rec, late, answers, reading,
                 left, panicked, hist>>

-----------------------------------------------------------------------------
(* FlushTimeout: sendPing, the wait for a pong, and removeFlushEntry.      *)

SendPing(entry) ==
  /\ pongs' = Append(pongs, entry)
  /\ \E succeeds \in BOOLEAN : Flush(<<PING>>, succeeds)

Called == {f \in Callers : st[f] \notin {"off", "call"}}

FlushCall(f) ==
  /\ st[f] = "call" /\ MuFree /\ WmuFree
  /\ Cardinality(Called) < MaxCalls
  /\ \/ /\ status = "CLOSED"
        /\ st' = [st EXCEPT ![f] = "done"]
        /\ UNCHANGED <<pongs, bufs, pend, up, nFault, wire, asked>>
     \/ /\ status # "CLOSED"
        /\ st' = [st EXCEPT ![f] = "wait"]
        /\ SendPing(f)
        /\ asked' = [asked EXCEPT ![f] =
             [on |-> IF status = "CONNECTED" THEN conn ELSE conn + 1, msgs |-> appended]]
  /\ UNCHANGED <<auto, status, conn, pendOn, obj, sending, next, token, rec, late, answers,
                 reading, left, panicked, received, appended, dropped, sound, mixed, raced>>

Done(f) ==
  /\ st' = [st EXCEPT ![f] = "done"]
  /\ token' = [token EXCEPT ![f] = FALSE]
  /\ asked' = [asked EXCEPT ![f] = NoFlush] /\ sound' = [sound EXCEPT ![f] = FALSE]

\* Select takes the token or the timeout; it may take either when both are there.
FlushReturns(f) ==
  /\ st[f] = "wait"
  /\ \/ token[f] /\ Done(f)
     \/ st' = [st EXCEPT ![f] = "late"] /\ UNCHANGED <<token, asked, sound>>
  /\ UNCHANGED <<auto, status, conn, writer, pongs, rec, net, reading,
                 left, panicked, received, appended, dropped, mixed, raced>>

\* Mutant: the entry is taken out, and those behind it move up.
RemoveFlushEntryOut(f) ==
  /\ st[f] = "late" /\ MuFree /\ Done(f)
  /\ pongs' = SelectSeq(pongs, LAMBDA e : e # f)
  /\ UNCHANGED <<auto, status, conn, writer, rec, net, reading,
                 left, panicked, received, appended, dropped, mixed, raced>>

\* An entry of c.pongs keeps its place and loses its channel.
RemoveFlushEntry(f) ==
  /\ st[f] = "late" /\ MuFree /\ Done(f)
  /\ pongs' = [i \in DOMAIN pongs |-> IF pongs[i] = f THEN Nil ELSE pongs[i]]
  /\ UNCHANGED <<auto, status, conn, writer, rec, net, reading,
                 left, panicked, received, appended, dropped, mixed, raced>>

-----------------------------------------------------------------------------
(* Errors and Close.  close() writes what is in the buffer before the      *)
(* connection is closed, and what is on the way still arrives.  The        *)
(* connection is closed a little after c.mu is given up: until then a      *)
(* write may succeed, and here until the next Connect.                     *)

\* Mutant: the buffer is not written.
CloseEffectNoFlush ==
  /\ status' = "CLOSED"
  /\ appended' = IF pendOn \/ ~up THEN {} ELSE appended
  /\ UNCHANGED <<bufs, pend, up, nFault, wire, pendOn, obj, rec>>

CloseEffect ==
  /\ status' = "CLOSED"
  /\ \E succeeds \in BOOLEAN : Flush(<<>>, succeeds)
  /\ appended' = IF pendOn \/ ~up' THEN {} ELSE appended
  /\ UNCHANGED <<pendOn, obj, rec>>

Close ==
  /\ MuFree /\ WmuFree /\ status # "CLOSED"
  /\ CloseEffect
  /\ UNCHANGED <<auto, conn, sending, next, pings, late, answers, reading,
                 left, panicked, received, dropped, asked, sound, mixed, raced>>

\* processOpErr of a client that is CONNECTED.
OpErr ==
  IF auto THEN /\ status' = "RECONNECTING" /\ rec' = "wait"
               /\ pendOn' = TRUE /\ pend' = <<>> /\ obj' = obj + 1
               /\ up' = FALSE /\ appended' = {}
               /\ UNCHANGED <<bufs, nFault, wire>>
          ELSE CloseEffect

\* A readLoop that ends tells so, unless it is known.
Ended ==
  /\ MuFree /\ WmuFree
  /\ IF status = "CONNECTED" THEN OpErr
     ELSE UNCHANGED <<status, bufs, pendOn, pend, obj, rec, up, nFault, wire, appended>>
  /\ UNCHANGED <<auto, conn, sending, next, pings, late, panicked,
                 received, dropped, asked, sound, mixed, raced>>

\* The reader meets the end of its connection.
ReaderEnds ==
  /\ reading /\ (~up \/ status # "CONNECTED")
  /\ reading' = FALSE /\ answers' = 0 /\ UNCHANGED left
  /\ Ended

\* One of an earlier connection meets the end of that one; or two that read
\* the same connection get pieces, and one of them does not understand its own.
OldEnds ==
  /\ left > 0
  /\ \/ left' = left - 1 /\ UNCHANGED <<reading, answers>>
     \/ reading /\ reading' = FALSE /\ answers' = 0 /\ UNCHANGED left
  /\ Ended

-----------------------------------------------------------------------------
(* A new connection: Connect, and doReconnect under c.mu.                  *)

NewConn ==
  /\ conn < MaxConn
  /\ conn' = conn + 1 /\ status' = "CONNECTED"
  /\ up' = TRUE /\ wire' = <<>> /\ answers' = 0
  /\ late' = late \cup {wire[i] : i \in {j \in DOMAIN wire : wire[j] # PING}}
  /\ reading' = TRUE
  /\ UNCHANGED <<auto, pendOn, pend, obj, sending, next, st, token, nFault,
                 panicked, received, dropped, asked, sound, raced>>

\* Connect() of a closed client.  It waits for nobody: a readLoop may still be
\* there, and bindToNewConn sets w.bufs without w.mu, so that an append under
\* way may store the old buffer again.
Connect ==
  /\ ~auto /\ status = "CLOSED"
  /\ NewConn
  /\ bufs' \in {<<>>, bufs}
  /\ left' = left + (IF reading THEN 1 ELSE 0) /\ mixed' = (left' > 0)
  /\ pongs' = <<>> /\ appended' = {}
  /\ UNCHANGED rec

\* Once the wait, for the time and for the watchers, is over: the end of
\* doReconnect, or a new connection.
RecDial ==
  /\ rec = "wait"
  /\ \/ /\ status = "CLOSED" /\ rec' = "off"
        /\ UNCHANGED <<auto, status, conn, writer, pings, net, reading, panicked, hist>>
     \/ /\ status # "CLOSED" /\ ~reading /\ NewConn
        /\ bufs' = <<>> /\ rec' = "write"
        /\ UNCHANGED <<pongs, appended, mixed>>
  /\ UNCHANGED left

\* flushPendingBuffer writes the pending buffer ...
RecWrite ==
  /\ rec = "write"
  /\ \/ /\ pend = <<>> /\ rec' = "done"
        /\ UNCHANGED <<up, nFault, wire, appended>>
     \/ /\ pend # <<>>
        /\ \E succeeds \in BOOLEAN :
             /\ Write(pend, succeeds)
             /\ rec' = IF succeeds THEN "reset" ELSE "failed"
             /\ appended' = IF succeeds THEN appended ELSE {}
  /\ UNCHANGED <<auto, status, conn, writer, pings, late, answers, reading,
                 left, panicked, received, dropped, asked, sound, mixed, raced>>

\* Mutant: what failed to be written is kept for the next connection.
RecResetKeeps ==
  /\ rec \in {"reset", "failed"}
  /\ pend' = IF rec = "failed" THEN pend ELSE <<>>
  /\ rec' = IF rec = "failed" THEN "wait" ELSE "done"
  /\ status' = IF rec = "failed" THEN "RECONNECTING" ELSE status
  /\ UNCHANGED <<auto, conn, bufs, pendOn, obj, sending, next, pings, net, reading,
                 left, panicked, hist>>

\* ... and resets it, whether that failed or not.
RecReset ==
  /\ rec \in {"reset", "failed"}
  /\ pend' = <<>>
  /\ rec' = IF rec = "failed" THEN "wait" ELSE "done"
  /\ status' = IF rec = "failed" THEN "RECONNECTING" ELSE status
  /\ UNCHANGED <<auto, conn, bufs, pendOn, obj, sending, next, pings, net, reading,
                 left, panicked, hist>>

\* doneWithPending; c.mu is released and Flush is called.
RecDone ==
  /\ rec = "done"
  /\ pendOn' = FALSE /\ pend' = <<>> /\ rec' = "off"
  /\ st' = [st EXCEPT ![Redo(conn)] = "call"]
  /\ UNCHANGED <<auto, status, conn, bufs, obj, sending, next, pongs, token,
                 net, reading, left, panicked, hist>>

-----------------------------------------------------------------------------
(* The server, the network, and readLoop.                                  *)

\* The server answers all it takes; only the pongs matter here.
ServerTake ==
  /\ wire # <<>>
  /\ wire' = Tail(wire)
  /\ IF Head(wire) = PING THEN UNCHANGED received ELSE received' = received \cup {Head(wire)}
  /\ answers' = IF Head(wire) = PING /\ up /\ reading /\ status # "CLOSED"
                THEN answers + 1 ELSE answers
  /\ UNCHANGED <<auto, status, conn, writer, pings, rec, up, nFault, late, reading,
                 left, panicked, appended, dropped, asked, sound, mixed, raced>>

\* What was written to a connection before the last one may arrive yet.
LateTake ==
  /\ \E m \in late : received' = received \cup {m} /\ late' = late \ {m}
  /\ UNCHANGED <<auto, status, conn, writer, pings, rec, up, nFault, wire, answers, reading,
                 left, panicked, appended, dropped, asked, sound, mixed, raced>>

Break ==
  /\ up /\ up' = FALSE /\ nFault < MaxFaults /\ nFault' = nFault + 1
  /\ wire' = <<>>
  /\ UNCHANGED <<auto, status, conn, writer, pings, rec, late, answers, reading,
                 left, panicked, hist>>

\* handlePong: the channel, with room for one token, leaves the queue for good.
HandlePong ==
  IF pongs = <<>> THEN UNCHANGED <<pongs, token, sound>>
  ELSE LET f == Head(pongs) IN
       /\ pongs' = Tail(pongs)
       /\ IF f = Nil THEN UNCHANGED <<token, sound>>
          ELSE /\ token' = [token EXCEPT ![f] = TRUE]
               /\ sound' = [sound EXCEPT ![f] = ~mixed /\ (auto => asked[f].on = conn)]

Pong ==
  /\ reading /\ answers > 0 /\ MuFree
  /\ answers' = answers - 1
  /\ HandlePong
  /\ UNCHANGED <<auto, status, conn, writer, st, rec, up, nFault, wire, late, reading,
                 left, panicked, received, appended, dropped, asked, mixed, raced>>

\* A readLoop of an earlier connection has pongs of that one in hand, or takes
\* from the new one: a pong, or a piece of one that nobody will understand.
OldPong ==
  /\ left > 0 /\ MuFree
  /\ answers' \in {answers, answers - 1} \cap Nat
  /\ HandlePong \/ UNCHANGED <<pongs, token, sound>>
  /\ UNCHANGED <<auto, status, conn, writer, st, rec, up, nFault, wire, late, reading,
                 left, panicked, received, appended, dropped, asked, mixed, raced>>

-----------------------------------------------------------------------------
Send      == AppendBufs \/ PendingLoad \/ PendingStore \/ PendingPanic
FlushStep == \E f \in Callers : FlushCall(f) \/ FlushReturns(f) \/ RemoveFlushEntry(f)
Ends      == ReaderEnds \/ OldEnds
Reconnect == RecDial \/ RecWrite \/ RecReset \/ RecDone
Take      == ServerTake \/ LateTake
Step == \/ Send \/ Flusher \/ FlushStep \/ Close \/ Ends
        \/ Connect \/ Reconnect \/ Take \/ Break \/ Pong \/ OldPong
Next == ~panicked /\ Step

\* The goroutines of the client go on when they can, the server reads what it
\* is sent, and a dial succeeds in the end.  Nobody has to send, to call
\* Flush, Close or Connect, to ping, or to break a connection, and what was on
\* the way to a connection before the last one need not arrive.
Alive(A) == ~panicked /\ A
Fairness == /\ WF_vars(Alive(PendingStore)) /\ WF_vars(Alive(Flusher))
            /\ WF_vars(Alive(ReaderEnds)) /\ WF_vars(Alive(Reconnect))
            /\ WF_vars(Alive(ServerTake)) /\ WF_vars(Alive(Pong))
Spec     == Init /\ [][Next]_vars
FairSpec == Spec /\ Fairness
=============================================================================
