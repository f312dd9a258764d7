----------------------------- MODULE OnlineTask -----------------------------
(***************************************************************************)
(* The online task of a test (server/task_online.go) from start() on: run  *)
(* brings the users online batch by batch, one worker for each user; every *)
(* five seconds loop creates the clients that are missing and connects the *)
(* lost ones again; stop snapshots the clients and closes them.  All three *)
(* share isRunning, onlineFinished (no lock) and the map of clients, and   *)
(* newTestClient needs the server's tasksLock, which a stop holds to the   *)
(* end.                                                                    *)
(*                                                                         *)
(* The slice of a batch may reach beyond the last user into the spare      *)
(* capacity of uids, where the names are empty strings: a worker is started *)
(* for each of those entries too, and all of them share the empty name.     *)
(* Beyond the capacity the slice expression panics and ends the process.    *)
(*                                                                         *)
(* A client is named by its entry of uids and by who created it.  Its      *)
(* connection is in one step what ClientConn models in detail.             *)
(***************************************************************************)
EXTENDS Integers

CONSTANTS
  Online,          \* cfg.Online
  OnlinePerBatch,  \* opts.OnlinePerBatch
  Capacities,      \* capacities append may have given uids
  MaxLoss          \* bound: connections that break

ASSUME OnlineAssumption ==
  /\ Online \in Nat \ {0} /\ OnlinePerBatch \in Nat \ {0} /\ MaxLoss \in Nat
  /\ \A c \in Capacities : c \in Nat /\ c >= Online

Uids     == 1 .. Online
Unnamed  == 0                     \* the empty name
Makers   == {"run", "loop"}
NoClient == <<Unnamed, "none">>

VARIABLES
  isRunning, onlineFinished, stopC,
  tasksLock,    \* a stop holds server.tasksLock
  capacity,     \* cap(uids)
  alive,        \* the process has not panicked
  userClientMap,\* name: its client, or NoClient
  link,         \* client: not connected yet, online, lost or closed
  runAt,        \* where run is
  batch,        \* the batch it is at
  worker,       \* where the worker of each entry is
  loopAt,       \* where loop is
  todo,         \* the users it still has to see to, in any order
  at,           \* the user it creates a client for
  stopAt,       \* where stop is
  snapshot,     \* the clients it still has to close
  nLoss

flags  == <<isRunning, onlineFinished, stopC, tasksLock>>
runs   == <<runAt, batch, worker>>
loops  == <<loopAt, todo, at>>
stops  == <<stopAt, snapshot>>
vars   == <<capacity, alive, flags, userClientMap, link, runs, loops, stops, nLoss>>

Entries == 1 .. capacity
Name(e) == IF e \in Uids THEN e ELSE Unnamed

\* After onlineTask.start(), before its goroutines run.
Init ==
  /\ isRunning = TRUE /\ onlineFinished = FALSE /\ stopC = FALSE /\ tasksLock = FALSE
  /\ capacity \in Capacities /\ alive = TRUE
  /\ userClientMap = [u \in Uids \cup {Unnamed} |-> NoClient]
  /\ link = [c \in Entries \X Makers |-> "none"]
  /\ runAt = "batch" /\ batch = 0 /\ worker = [e \in Entries |-> "idle"]
  /\ loopAt = "tick" /\ todo = {} /\ at = 1
  /\ stopAt = "off" /\ snapshot = {}
  /\ nLoss = 0

Connected(u) == userClientMap[u] # NoClient /\ link[userClientMap[u]] = "online"

-----------------------------------------------------------------------------
(* run() and online().                                                     *)

Start == batch * OnlinePerBatch
End   == IF Online > OnlinePerBatch THEN Start + OnlinePerBatch ELSE Online

BatchEntries == {e \in Entries : Start < e /\ e <= End}

Starting == [e \in Entries |-> IF e \in BatchEntries THEN "begin" ELSE worker[e]]

\* Mutant: the end of the users is not looked for.
RunBatchForever ==
  /\ runAt = "batch"
  /\ runAt' = IF Online > OnlinePerBatch /\ ~isRunning THEN "finish" ELSE "route"
  /\ UNCHANGED <<flags, userClientMap, link, batch, worker, loops, stops, nLoss>>

\* A test that fits in one batch does not look at isRunning.
Batches == Start < Online /\ (Online > OnlinePerBatch => isRunning)

RunBatch ==
  /\ runAt = "batch"
  /\ \/ Batches /\ End <= capacity /\ runAt' = "route"
     \/ ~Batches /\ runAt' = "finish"
  /\ UNCHANGED <<flags, userClientMap, link, batch, worker, loops, stops, nLoss>>

\* A slice beyond the capacity panics.
RunBeyond ==
  /\ runAt = "batch" /\ Batches /\ End > capacity
  /\ alive' = FALSE
  /\ UNCHANGED <<capacity, flags, userClientMap, link, runs, loops, stops, nLoss>>

\* Mutant: the first batch without addresses ends run.
RunRouteReturns ==
  /\ runAt = "route"
  /\ \/ /\ runAt' = "done" /\ UNCHANGED <<batch, worker>>
     \/ /\ runAt' = "wait"
        /\ worker' = Starting
        /\ UNCHANGED batch
  /\ UNCHANGED <<flags, userClientMap, link, loops, stops, nLoss>>

\* Without the users' addresses the batch is given up.
RunRoute ==
  /\ runAt = "route"
  /\ \/ /\ runAt' = "batch" /\ batch' = batch + 1
        /\ UNCHANGED worker
     \/ /\ runAt' = "wait"
        /\ worker' = Starting
        /\ UNCHANGED batch
  /\ UNCHANGED <<flags, userClientMap, link, loops, stops, nLoss>>

\* Mutant: the workers of the last batch are not waited for.
RunWaitNot ==
  /\ runAt = "wait"
  /\ runAt' = "batch" /\ batch' = batch + 1
  /\ UNCHANGED <<flags, userClientMap, link, worker, loops, stops, nLoss>>

RunWait ==
  /\ runAt = "wait"
  /\ \A e \in BatchEntries : worker[e] = "done"
  /\ runAt' = "batch" /\ batch' = batch + 1
  /\ UNCHANGED <<flags, userClientMap, link, worker, loops, stops, nLoss>>

RunFinish ==
  /\ runAt = "finish"
  /\ onlineFinished' = TRUE
  /\ runAt' = "done"
  /\ UNCHANGED <<isRunning, stopC, tasksLock, userClientMap, link, batch, worker, loops, stops, nLoss>>

WorkerBegin(e) ==
  /\ worker[e] = "begin"
  /\ worker' = [worker EXCEPT ![e] = IF isRunning THEN "new" ELSE "done"]
  /\ UNCHANGED <<flags, userClientMap, link, runAt, batch, loops, stops, nLoss>>

\* newTestClient looks the online task up under tasksLock.
WorkerNew(e) ==
  /\ worker[e] = "new" /\ ~tasksLock
  /\ worker' = [worker EXCEPT ![e] = "connect"]
  /\ UNCHANGED <<flags, userClientMap, link, runAt, batch, loops, stops, nLoss>>

WorkerConnect(e) ==
  /\ worker[e] = "connect"
  /\ \/ /\ worker' = [worker EXCEPT ![e] = "done"]
        /\ UNCHANGED link
     \/ /\ worker' = [worker EXCEPT ![e] = "store"]
        /\ link' = [link EXCEPT ![<<e, "run">>] = "online"]
  /\ UNCHANGED <<flags, userClientMap, runAt, batch, loops, stops, nLoss>>

\* Mutant: a worker that sees the stop leaves its client out of the map.
WorkerStoreIfRunning(e) ==
  /\ worker[e] = "store"
  /\ worker' = [worker EXCEPT ![e] = "done"]
  /\ userClientMap' = [userClientMap EXCEPT ![Name(e)] = IF isRunning THEN <<e, "run">> ELSE @]
  /\ UNCHANGED <<flags, link, runAt, batch, loops, stops, nLoss>>

WorkerStore(e) ==
  /\ worker[e] = "store"
  /\ worker' = [worker EXCEPT ![e] = "done"]
  /\ userClientMap' = [userClientMap EXCEPT ![Name(e)] = <<e, "run">>]
  /\ UNCHANGED <<flags, link, runAt, batch, loops, stops, nLoss>>

-----------------------------------------------------------------------------
(* loop() and reconnectIfNeed().                                           *)

Missing == {u \in Uids : userClientMap[u] = NoClient}
\* What is left to do once user at has been seen to in the first pass.
FirstPass ==
  LET rest == todo \ {at} IN
  IF rest = {} THEN loopAt' = "again" /\ todo' = Uids
               ELSE loopAt' = "new" /\ todo' = rest

LoopTick ==
  /\ loopAt = "tick"
  /\ loopAt' = IF isRunning THEN "check" ELSE "off"
  /\ UNCHANGED <<flags, userClientMap, link, runs, todo, at, stops, nLoss>>

LoopQuit ==
  /\ loopAt = "tick" /\ stopC
  /\ loopAt' = "off"
  /\ UNCHANGED <<flags, userClientMap, link, runs, todo, at, stops, nLoss>>

\* Mutant: the clients that exist are left alone.
LoopCheckMissingOnly ==
  /\ loopAt = "check"
  /\ IF onlineFinished /\ Missing # {}
     THEN loopAt' = "route" /\ todo' = Missing
     ELSE loopAt' = "tick" /\ UNCHANGED todo
  /\ UNCHANGED <<flags, userClientMap, link, runs, at, stops, nLoss>>

LoopCheck ==
  /\ loopAt = "check"
  /\ \/ /\ ~onlineFinished
        /\ loopAt' = "tick" /\ UNCHANGED todo
     \/ /\ onlineFinished /\ Missing # {}
        /\ loopAt' = "route" /\ todo' = Missing
     \/ /\ onlineFinished /\ Missing = {}
        /\ loopAt' = "again" /\ todo' = Uids
  /\ UNCHANGED <<flags, userClientMap, link, runs, at, stops, nLoss>>

\* Without the addresses of the missing users nobody is connected again.
LoopRoute ==
  /\ loopAt = "route"
  /\ \/ loopAt' = "tick" /\ todo' = {}
     \/ loopAt' = "new" /\ UNCHANGED todo
  /\ UNCHANGED <<flags, userClientMap, link, runs, at, stops, nLoss>>

LoopNew ==
  /\ loopAt = "new" /\ ~tasksLock
  /\ loopAt' = "connect" /\ at' \in todo
  /\ UNCHANGED <<flags, userClientMap, link, runs, todo, stops, nLoss>>

LoopConnect ==
  /\ loopAt = "connect"
  /\ \/ FirstPass /\ UNCHANGED link
     \/ /\ loopAt' = "store" /\ UNCHANGED todo
        /\ link' = [link EXCEPT ![<<at, "loop">>] = "online"]
  /\ UNCHANGED <<flags, userClientMap, runs, at, stops, nLoss>>

LoopStore ==
  /\ loopAt = "store"
  /\ userClientMap' = [userClientMap EXCEPT ![at] = <<at, "loop">>]
  /\ FirstPass
  /\ UNCHANGED <<flags, link, runs, at, stops, nLoss>>

\* The second pass: a client that is not connected is connected again.
LoopAgain(u) ==
  /\ loopAt = "again" /\ u \in todo
  /\ todo' = todo \ {u}
  /\ loopAt' = IF todo' = {} THEN "tick" ELSE "again"
  /\ \/ UNCHANGED link
     \/ /\ userClientMap[u] # NoClient /\ ~Connected(u)
        /\ link' = [link EXCEPT ![userClientMap[u]] = "online"]
  /\ UNCHANGED <<flags, userClientMap, runs, at, stops, nLoss>>

-----------------------------------------------------------------------------
(* stop(), called by stopTask, which holds tasksLock until every task has  *)
(* stopped.                                                                *)

StopCall ==
  /\ stopAt = "off" /\ stopAt' = "flag"
  /\ tasksLock' = TRUE
  /\ onlineFinished' = FALSE
  /\ UNCHANGED <<isRunning, stopC, userClientMap, link, runs, loops, snapshot, nLoss>>

StopFlag ==
  /\ stopAt = "flag" /\ stopAt' = "snapshot"
  /\ isRunning' = FALSE
  /\ UNCHANGED <<onlineFinished, stopC, tasksLock, userClientMap, link, runs, loops, snapshot, nLoss>>

\* allClient; the flushes and the four seconds of sleep follow.
StopSnapshot ==
  /\ stopAt = "snapshot" /\ stopAt' = "close"
  /\ snapshot' = {userClientMap[u] : u \in DOMAIN userClientMap} \ {NoClient}
  /\ UNCHANGED <<flags, userClientMap, link, runs, loops, nLoss>>

StopClose ==
  /\ stopAt = "close"
  /\ \E c \in snapshot :
       /\ snapshot' = snapshot \ {c}
       /\ link' = IF link[c] = "online" THEN [link EXCEPT ![c] = "closed"] ELSE link
  /\ UNCHANGED <<flags, userClientMap, runs, loops, stopAt, nLoss>>

StopEnd ==
  /\ stopAt = "close" /\ snapshot = {}
  /\ stopAt' = "done"
  /\ stopC' = TRUE /\ tasksLock' = FALSE
  /\ UNCHANGED <<isRunning, onlineFinished, userClientMap, link, runs, loops, snapshot, nLoss>>

-----------------------------------------------------------------------------
Lose ==
  /\ nLoss < MaxLoss /\ nLoss' = nLoss + 1
  /\ \E c \in DOMAIN link : link[c] = "online" /\ link' = [link EXCEPT ![c] = "lost"]
  /\ UNCHANGED <<flags, userClientMap, runs, loops, stops>>

\* Every step but the panic is one of a process that lives and leaves uids alone.
Steady == alive /\ UNCHANGED <<capacity, alive>>

Run       == Steady /\ (RunBatch \/ RunRoute \/ RunWait \/ RunFinish)
Worker(e) == Steady /\ (WorkerBegin(e) \/ WorkerNew(e) \/ WorkerConnect(e) \/ WorkerStore(e))
Loop      == Steady /\ \/ LoopTick \/ LoopQuit \/ LoopCheck \/ LoopRoute
                       \/ LoopNew \/ LoopConnect \/ LoopStore \/ (\E u \in Uids : LoopAgain(u))
Stop      == Steady /\ (StopFlag \/ StopSnapshot \/ StopClose \/ StopEnd)

Next == \/ Run \/ (alive /\ RunBeyond) \/ (\E e \in Entries : Worker(e)) \/ Loop
        \/ (Steady /\ StopCall) \/ Stop \/ (Steady /\ Lose)

Spec == Init /\ [][Next]_vars

\* Goroutines go on, calls into a client end (ClientConn says what that takes),
\* and a server asked again and again gives addresses and takes users in at
\* last.  Nobody has to stop the test.
FairSpec ==
  /\ Spec
  /\ WF_vars(Run) /\ WF_vars(alive /\ RunBeyond) /\ WF_vars(Loop) /\ WF_vars(Stop)
  /\ \A e \in UNION {1 .. c : c \in Capacities} : WF_vars(e \in Entries /\ Worker(e))
  /\ SF_vars(Steady /\ LoopRoute /\ loopAt' = "new")
  /\ \A u \in Uids :
       SF_vars(Steady /\ ((at = u /\ LoopConnect) \/ LoopAgain(u)) /\ link' # link)
=============================================================================
