-------------------------- MODULE OnlineTask_proof --------------------------
(***************************************************************************)
(* Proof, for any number of users, any size of batch, even or not, any     *)
(* spare capacity and any number of losses, that the online task connects  *)
(* no user twice and keeps every connected client of a user where a stop   *)
(* finds it.                                                               *)
(***************************************************************************)
EXTENDS OnlineProps, TLAPS

\* TypeOK without the bounds on the numbers, which no step needs, and with who
\* may have made the client of a user.
Types ==
  /\ {isRunning, onlineFinished, stopC, tasksLock, alive} \subseteq BOOLEAN
  /\ capacity \in Capacities
  /\ userClientMap \in [Uids \cup {Unnamed} -> (Entries \X Makers) \cup {NoClient}]
  /\ link \in [Entries \X Makers -> {"none", "online", "lost", "closed"}]
  /\ runAt \in {"batch", "route", "wait", "finish", "done"} /\ batch \in Nat
  /\ worker \in [Entries -> {"idle", "begin", "new", "connect", "store", "done"}]
  /\ loopAt \in {"tick", "check", "route", "new", "connect", "store", "again", "off"}
  /\ todo \subseteq Uids /\ snapshot \subseteq Entries \X Makers /\ at \in Uids
  /\ stopAt \in {"off", "flag", "snapshot", "close", "done"}

\* A worker that is under way belongs to the batch run waits for.
WorkersInv ==
  \A e \in Entries :
    worker[e] \in {"idle", "done"} \/ (runAt = "wait" /\ e \in BatchEntries)

\* loop creates clients only when run is done for good.
TurnsInv ==
  /\ onlineFinished => runAt = "done"
  /\ loopAt \in {"route", "new", "connect", "store"} => runAt = "done"
  /\ \A u \in Uids : userClientMap[u] = <<u, "loop">> => runAt = "done"

\* A client either creator has connected for a user is in the map or about to be.
ClientsInv ==
  \A u \in Uids :
    /\ userClientMap[u] \in {NoClient, <<u, "run">>, <<u, "loop">>}
    /\ link[<<u, "run">>] # "none" => userClientMap[u] = <<u, "run">> \/ worker[u] = "store"
    /\ link[<<u, "loop">>] # "none" =>
         userClientMap[u] = <<u, "loop">> \/ (loopAt = "store" /\ at = u)

\* The users loop creates clients for have none.
TodoInv ==
  /\ loopAt \in {"route", "new", "connect", "store"} =>
       todo # {} /\ \A u \in todo : userClientMap[u] = NoClient
  /\ loopAt \in {"connect", "store"} => at \in todo

IInv == Types /\ WorkersInv /\ TurnsInv /\ ClientsInv /\ TodoInv

-----------------------------------------------------------------------------
\* Every user has an entry, and the empty name is no user's.
LEMMA UidsAreEntries ==
  ASSUME capacity \in Capacities
  PROVE  Uids \subseteq Entries /\ Unnamed \notin Uids /\ Unnamed \notin Entries
BY OnlineAssumption DEF Uids, Entries, Unnamed

\* Clients of run, of loop and of nobody are told apart.
LEMMA ClientsDiffer ==
  /\ \A e, f : /\ <<e, "run">> # <<f, "loop">>
               /\ <<e, "run">> = <<f, "run">> => e = f
               /\ <<e, "loop">> = <<f, "loop">> => e = f
  /\ \A e : <<e, "run">> # NoClient /\ <<e, "loop">> # NoClient
BY DEF NoClient

LEMMA InitInv == Init => IInv
<1> SUFFICES ASSUME Init PROVE IInv
  OBVIOUS
<1>0. 1 \in Uids /\ capacity \in Capacities
  BY OnlineAssumption DEF Uids, Init
<1>1. Types
  BY <1>0 DEF Init, Types
<1>2. \A u \in Uids : link[<<u, "run">>] = "none" /\ link[<<u, "loop">>] = "none"
  BY <1>0, UidsAreEntries DEF Init, Makers
<1>3. \A u \in Uids : userClientMap[u] = NoClient
  BY DEF Init
<1>4. WorkersInv /\ TurnsInv /\ TodoInv
  BY <1>3, ClientsDiffer DEF Init, WorkersInv, TurnsInv, TodoInv
<1>5. ClientsInv
  BY <1>2, <1>3 DEF ClientsInv
<1> QED BY <1>1, <1>4, <1>5 DEF IInv

LEMMA RunInv == IInv /\ Run => IInv'
<1> SUFFICES ASSUME IInv, Run PROVE IInv'
  OBVIOUS
<1> USE DEF IInv, Types, TurnsInv, ClientsInv, TodoInv, flags, loops, stops, Steady
<1>0. /\ UNCHANGED <<capacity, alive>>
      /\ Entries' = Entries
      /\ Uids \subseteq Entries
  BY UidsAreEntries DEF Run, Entries
<1>1. CASE RunBatch
  BY <1>0, <1>1 DEF RunBatch, WorkersInv
<1>2. CASE RunRoute
  <2>0. batch \in Nat /\ batch + 1 \in Nat
    OBVIOUS
  <2>1. Types' /\ TurnsInv' /\ TodoInv'
    BY <1>0, <1>2, <2>0 DEF RunRoute, Starting
  <2>2. WorkersInv'
    BY <1>0, <1>2 DEF RunRoute, WorkersInv, BatchEntries, Starting, Start, End
  <2>3. ClientsInv'
    <3>1. \A u \in Uids : worker[u] # "store"
      BY <1>0, <1>2 DEF RunRoute, WorkersInv
    <3> QED BY <1>2, <3>1 DEF RunRoute
  <2> QED BY <2>1, <2>2, <2>3
<1>3. CASE RunWait
  <2>0. batch \in Nat /\ batch + 1 \in Nat
    OBVIOUS
  <2>1. WorkersInv'
    BY <1>0, <1>3 DEF RunWait, WorkersInv
  <2> QED BY <1>0, <1>3, <2>0, <2>1 DEF RunWait
<1>4. CASE RunFinish
  BY <1>0, <1>4 DEF RunFinish, WorkersInv
<1> QED BY <1>1, <1>2, <1>3, <1>4 DEF Run

LEMMA WorkerInv == IInv /\ (\E e \in Entries : Worker(e)) => IInv'
<1> SUFFICES ASSUME IInv, NEW e \in Entries, Worker(e) PROVE IInv'
  OBVIOUS
<1> USE DEF IInv, Types, flags, loops, stops, Makers, Steady
<1>0. /\ UNCHANGED <<capacity, alive>>
      /\ Entries' = Entries
      /\ Uids \subseteq Entries /\ Unnamed \notin Uids
  BY UidsAreEntries DEF Worker, Entries
<1>1. /\ runAt = "wait" /\ e \in BatchEntries
      /\ UNCHANGED <<runAt, batch, onlineFinished, loopAt, todo, at>> /\ BatchEntries' = BatchEntries
  BY <1>0 DEF Worker, WorkersInv, WorkerBegin, WorkerNew, WorkerConnect, WorkerStore, BatchEntries, Start, End
<1>2. /\ worker' \in [Entries -> {"idle", "begin", "new", "connect", "store", "done"}]
      /\ \A v \in Entries \ {e} : worker'[v] = worker[v]
  BY DEF Worker, WorkerBegin, WorkerNew, WorkerConnect, WorkerStore
<1>3. WorkersInv'
  BY <1>0, <1>1, <1>2 DEF WorkersInv
<1>4. CASE WorkerBegin(e) \/ WorkerNew(e)
  BY <1>0, <1>3, <1>4 DEF WorkerBegin, WorkerNew, TurnsInv, ClientsInv, TodoInv
<1>5. CASE WorkerConnect(e)
  <2>1. Types'
    BY <1>0, <1>5 DEF WorkerConnect
  <2>2. TurnsInv' /\ TodoInv'
    BY <1>0, <1>5 DEF WorkerConnect, TurnsInv, TodoInv
  <2>3. ClientsInv'
    <3>1. \A u \in Uids : /\ link'[<<u, "loop">>] = link[<<u, "loop">>]
                          /\ link'[<<u, "run">>] # link[<<u, "run">>] => u = e /\ worker'[u] = "store"
                          /\ worker[u] = "store" => worker'[u] = "store"
      BY <1>0, <1>2, <1>5, ClientsDiffer DEF WorkerConnect
    <3>2. userClientMap' = userClientMap
      BY <1>5 DEF WorkerConnect
    <3> QED BY ONLY <1>1, <3>1, <3>2, ClientsInv DEF ClientsInv
  <2> QED BY <1>3, <2>1, <2>2, <2>3
<1>6. CASE WorkerStore(e)
  <2>1. Name(e) \in Uids \cup {Unnamed} /\ (Name(e) \in Uids => Name(e) = e)
    BY <1>0 DEF Name
  <2>2. Types'
    BY <1>0, <1>6, <2>1 DEF WorkerStore
  <2>3. \A u \in Uids : userClientMap'[u] = IF u = Name(e) THEN <<u, "run">> ELSE userClientMap[u]
    BY <1>6, <2>1 DEF WorkerStore
  <2>4. loopAt \notin {"route", "new", "connect", "store"}
    BY <1>1 DEF TurnsInv
  <2>5. TurnsInv' /\ TodoInv'
    <3>1. \A u \in Uids : userClientMap'[u] = <<u, "loop">> => userClientMap[u] = <<u, "loop">>
      BY ONLY <2>3, ClientsDiffer
    <3> QED BY ONLY <1>1, <2>4, <3>1, TurnsInv DEF TurnsInv, TodoInv
  <2>6. ClientsInv'
    <3> SUFFICES ASSUME NEW u \in Uids
                 PROVE  /\ userClientMap'[u] \in {NoClient, <<u, "run">>, <<u, "loop">>}
                        /\ link'[<<u, "run">>] # "none" =>
                             userClientMap'[u] = <<u, "run">> \/ worker'[u] = "store"
                        /\ link'[<<u, "loop">>] # "none" =>
                             userClientMap'[u] = <<u, "loop">> \/ (loopAt' = "store" /\ at' = u)
      BY DEF ClientsInv
    <3>1. link' = link
      BY <1>6 DEF WorkerStore
    <3>2. link[<<u, "loop">>] = "none"
      BY <1>1, <2>4 DEF ClientsInv, TurnsInv
    <3>3. u # Name(e) => u # e
      BY DEF Name
    <3> QED BY <1>0, <1>1, <1>2, <2>3, <3>1, <3>2, <3>3 DEF ClientsInv
  <2> QED BY <1>3, <2>2, <2>5, <2>6
<1> QED BY <1>4, <1>5, <1>6 DEF Worker

LEMMA LoopInv == IInv /\ Loop => IInv'
<1> SUFFICES ASSUME IInv, Loop PROVE IInv'
  OBVIOUS
<1> USE DEF IInv, Types, flags, runs, stops, Makers, Steady
<1>0. /\ UNCHANGED <<capacity, alive>>
      /\ Entries' = Entries
      /\ Uids \subseteq Entries
  BY UidsAreEntries DEF Loop, Entries
<1>1. UNCHANGED <<runAt, batch, worker, onlineFinished>>
  BY DEF Loop, LoopTick, LoopQuit, LoopCheck, LoopRoute, LoopNew, LoopConnect, LoopStore, LoopAgain
<1>2. WorkersInv'
  BY <1>0, <1>1 DEF WorkersInv, BatchEntries, Start, End
<1>3. CASE LoopTick \/ LoopQuit
  BY <1>0, <1>2, <1>3 DEF LoopTick, LoopQuit, TurnsInv, ClientsInv, TodoInv
<1>4. CASE LoopCheck
  BY <1>0, <1>2, <1>4 DEF LoopCheck, Missing, TurnsInv, ClientsInv, TodoInv
<1>5. CASE LoopRoute
  BY <1>0, <1>2, <1>5 DEF LoopRoute, TurnsInv, ClientsInv, TodoInv
<1>6. CASE LoopNew
  BY <1>0, <1>2, <1>6 DEF LoopNew, TurnsInv, ClientsInv, TodoInv
<1>7. CASE LoopConnect
  <2>1. Types'
    BY <1>0, <1>7 DEF LoopConnect, FirstPass
  <2>2. TurnsInv' /\ TodoInv'
    BY <1>1, <1>7 DEF LoopConnect, FirstPass, TurnsInv, TodoInv
  <2>3. ClientsInv'
    <3>1. \A u \in Uids : /\ link'[<<u, "run">>] = link[<<u, "run">>]
                          /\ link'[<<u, "loop">>] # link[<<u, "loop">>] => loopAt' = "store" /\ u = at
      BY <1>0, <1>7, ClientsDiffer DEF LoopConnect, FirstPass
    <3>2. UNCHANGED <<userClientMap, worker, at>> /\ loopAt # "store"
      BY <1>1, <1>7 DEF LoopConnect
    <3> QED BY ONLY <3>1, <3>2, ClientsInv DEF ClientsInv
  <2> QED BY <1>2, <2>1, <2>2, <2>3
<1>8. CASE LoopStore
  <2>1. Types'
    <3>1. userClientMap' \in [Uids \cup {Unnamed} -> (Entries \X Makers) \cup {NoClient}]
      BY <1>0, <1>8 DEF LoopStore
    <3>2. /\ todo' \subseteq Uids
          /\ loopAt' \in {"again", "new"}
          /\ UNCHANGED <<flags, link, at, stopAt, snapshot>>
      BY <1>8 DEF LoopStore, FirstPass
    <3> QED BY <1>0, <1>1, <3>1, <3>2
  <2>2. \A u \in Uids : userClientMap'[u] = IF u = at THEN <<at, "loop">> ELSE userClientMap[u]
    BY <1>8 DEF LoopStore
  <2>3. runAt' = "done" /\ (loopAt' = "again" \/ loopAt' = "new")
    BY <1>1, <1>8 DEF LoopStore, FirstPass, TurnsInv
  <2>4. TurnsInv'
    BY <1>1, <2>3 DEF TurnsInv
  <2>5. TodoInv'
    BY <1>8, <2>2 DEF LoopStore, FirstPass, TodoInv
  <2>6. ClientsInv'
    <3>1. link' = link /\ at' = at /\ worker' = worker
      BY <1>8 DEF LoopStore
    <3>2. link[<<at, "run">>] = "none"
      <4>1. worker[at] # "store"
        BY <1>0, <1>8 DEF LoopStore, TurnsInv, WorkersInv
      <4>2. userClientMap[at] = NoClient
        BY <1>8 DEF LoopStore, TodoInv
      <4> QED BY <4>1, <4>2, ClientsDiffer DEF ClientsInv
    <3> QED BY <2>2, <3>1, <3>2 DEF ClientsInv
  <2> QED BY <1>2, <2>1, <2>4, <2>5, <2>6
<1>9. ASSUME NEW u \in Uids, LoopAgain(u) PROVE IInv'
  <2>1. userClientMap[u] # NoClient => userClientMap[u] \in Entries \X Makers /\ userClientMap[u] \in {<<u, "run">>, <<u, "loop">>}
    <3>1. userClientMap[u] \in {NoClient, <<u, "run">>, <<u, "loop">>} /\ u \in Entries
      BY ONLY <1>0, ClientsInv, u \in Uids DEF ClientsInv
    <3> QED BY ONLY <3>1 DEF Makers
  <2>2. Types'
    <3>1. link' \in [Entries \X Makers -> {"none", "online", "lost", "closed"}]
      BY <1>9, <2>1 DEF LoopAgain
    <3>2. /\ todo' \subseteq Uids
          /\ loopAt' \in {"again", "tick"}
          /\ UNCHANGED <<flags, userClientMap, at, stopAt, snapshot>>
      BY <1>9 DEF LoopAgain
    <3> QED BY <1>0, <1>1, <3>1, <3>2
  <2>3. TurnsInv' /\ TodoInv'
    BY ONLY <1>1, <1>9, TurnsInv, TodoInv DEF LoopAgain, TurnsInv, TodoInv
  <2>4. \A c \in Entries \X Makers : link'[c] # link[c] => c = userClientMap[u]
    BY <1>9 DEF LoopAgain
  <2>5. ClientsInv'
    <3> SUFFICES ASSUME NEW v \in Uids
                 PROVE  /\ userClientMap'[v] \in {NoClient, <<v, "run">>, <<v, "loop">>}
                        /\ link'[<<v, "run">>] # "none" =>
                             userClientMap'[v] = <<v, "run">> \/ worker'[v] = "store"
                        /\ link'[<<v, "loop">>] # "none" =>
                             userClientMap'[v] = <<v, "loop">> \/ (loopAt' = "store" /\ at' = v)
      BY DEF ClientsInv
    <3>1. UNCHANGED <<userClientMap, worker, at>> /\ loopAt # "store"
      BY <1>9 DEF LoopAgain
    <3>2. <<v, "run">> \in Entries \X Makers /\ <<v, "loop">> \in Entries \X Makers
      BY <1>0
    <3>3. userClientMap[u] = <<v, "run">> \/ userClientMap[u] = <<v, "loop">> => u = v
      <4>1. userClientMap[u] \in {NoClient, <<u, "run">>, <<u, "loop">>}
        BY DEF ClientsInv
      <4> QED BY ONLY <4>1, ClientsDiffer
    <3> QED BY <2>4, <3>1, <3>2, <3>3 DEF ClientsInv
  <2> QED BY <1>2, <2>2, <2>3, <2>5
<1> QED BY <1>3, <1>4, <1>5, <1>6, <1>7, <1>8, <1>9 DEF Loop

LEMMA OthersInv ==
  IInv /\ (RunBeyond \/ (Steady /\ (StopCall \/ Lose)) \/ Stop) /\ capacity' = capacity => IInv'
<1> SUFFICES ASSUME IInv, RunBeyond \/ (Steady /\ (StopCall \/ Lose)) \/ Stop, capacity' = capacity
             PROVE  IInv'
  OBVIOUS
<1> USE DEF IInv, Types, flags, runs, loops, Makers
<1>0. Entries' = Entries /\ Uids \subseteq Entries /\ alive' \in BOOLEAN
  BY UidsAreEntries DEF Entries, RunBeyond, Stop, Steady
<1>1. UNCHANGED <<runAt, batch, worker, userClientMap, loopAt, todo, at>>
  BY DEF RunBeyond, StopCall, Stop, StopFlag, StopSnapshot, StopClose, StopEnd, Lose, stops
<1>2. /\ link' \in [Entries \X Makers -> {"none", "online", "lost", "closed"}]
      /\ \A c \in Entries \X Makers : link'[c] # "none" => link[c] # "none"
  BY DEF RunBeyond, StopCall, Stop, StopFlag, StopSnapshot, StopClose, StopEnd, Lose
<1>3. WorkersInv' /\ ClientsInv' /\ TodoInv'
  <2>1. \A u \in Uids : <<u, "run">> \in Entries \X Makers /\ <<u, "loop">> \in Entries \X Makers
    BY <1>0
  <2> QED BY <1>0, <1>1, <1>2, <2>1 DEF WorkersInv, BatchEntries, Start, End, ClientsInv, TodoInv
<1>4. TurnsInv'
  BY <1>1 DEF RunBeyond, StopCall, Stop, StopFlag, StopSnapshot, StopClose, StopEnd, Lose, stops, TurnsInv
<1>5. /\ {isRunning', onlineFinished', stopC', tasksLock'} \subseteq BOOLEAN
      /\ stopAt' \in {"off", "flag", "snapshot", "close", "done"}
  BY DEF RunBeyond, StopCall, Stop, StopFlag, StopSnapshot, StopClose, StopEnd, Lose, stops
<1>6. snapshot' \subseteq Entries \X Makers
  <2>1. {userClientMap[u] : u \in DOMAIN userClientMap} \ {NoClient} \subseteq Entries \X Makers
    OBVIOUS
  <2> QED BY <2>1 DEF RunBeyond, StopCall, Stop, StopFlag, StopSnapshot, StopClose, StopEnd, Lose, stops
<1>7. Types'
  BY <1>0, <1>1, <1>2, <1>5, <1>6
<1> QED BY <1>3, <1>4, <1>7

-----------------------------------------------------------------------------
\* The strengthened invariant is inductive, whatever the sizes of the batches.
THEOREM Inductive == Spec => []IInv
<1>1. IInv /\ UNCHANGED vars => IInv'
  <2> SUFFICES ASSUME IInv, UNCHANGED vars PROVE IInv'
    OBVIOUS
  <2>1. Entries' = Entries /\ BatchEntries' = BatchEntries
    BY DEF BatchEntries, Start, End, Entries, vars, runs
  <2>2. Types'
    BY <2>1 DEF IInv, Types, vars, flags, runs, loops, stops
  <2>3. WorkersInv' /\ TurnsInv' /\ TodoInv'
    BY <2>1 DEF IInv, WorkersInv, TurnsInv, TodoInv, vars, flags, runs, loops, stops
  <2>4. ClientsInv'
    BY DEF IInv, ClientsInv, vars, flags, runs, loops, stops
  <2> QED BY <2>2, <2>3, <2>4 DEF IInv
<1>2. IInv /\ [Next]_vars => IInv'
  BY <1>1, RunInv, WorkerInv, LoopInv, OthersInv DEF Next, RunBeyond, Stop, Steady
<1> QED BY InitInv, <1>2, PTL DEF Spec

\* No user is connected by run and by loop at once (task_online.go:100-212).
THEOREM NoUserTwice == Spec => []OneClientPerUser
<1>1. IInv => OneClientPerUser
  <2> SUFFICES ASSUME IInv, NEW u \in Uids,
                      link[<<u, "run">>] = "online", link[<<u, "loop">>] = "online"
               PROVE  FALSE
    BY DEF OneClientPerUser, Makers
  <2>1. u \in Entries
    BY UidsAreEntries DEF IInv, Types
  <2>2. CASE worker[u] = "store"
    BY <2>1, <2>2 DEF IInv, WorkersInv, TurnsInv, ClientsInv
  <2>3. CASE userClientMap[u] = <<u, "run">>
    BY <2>3, ClientsDiffer DEF IInv, ClientsInv, TodoInv
  <2> QED BY <2>2, <2>3 DEF IInv, ClientsInv
<1> QED BY Inductive, <1>1, PTL

\* Every connected client of a user is in the map, or on its way there
\* (task_online.go:105-212), so that a later stop finds it.
THEOREM ClientsKept == Spec => []NoneLost
<1>1. IInv => NoneLost
  <2> SUFFICES ASSUME IInv, NEW u \in Uids, NEW mk \in Makers, link[<<u, mk>>] = "online"
               PROVE  BeingStored(<<u, mk>>) \/ userClientMap[u] = <<u, mk>>
    BY DEF NoneLost, IInv, Types
  <2> QED
    BY DEF IInv, Types, ClientsInv, BeingStored, Makers
<1> QED BY Inductive, <1>1, PTL

-----------------------------------------------------------------------------
\* run stays within the users: a batch it works on has at least one of them.
Bounds ==
  /\ batch \in 0 .. Online /\ nLoss \in 0 .. MaxLoss
  /\ runAt \in {"route", "wait"} => batch * OnlinePerBatch < Online

LEMMA NextBatch ==
  ASSUME batch \in 0 .. Online, batch * OnlinePerBatch < Online
  PROVE  batch + 1 \in 0 .. Online
<1>1. \A b, p \in Nat : p > 0 => b <= b * p
  <2> SUFFICES ASSUME NEW b \in Nat, NEW p \in Nat, p > 0 PROVE b <= b * p
    OBVIOUS
  <2>1. PICK q \in Nat : p = q + 1
    <3>1. p - 1 \in Nat /\ p = (p - 1) + 1
      OBVIOUS
    <3> QED BY <3>1
  <2>2. b * p = b * q + b /\ b * q \in Nat
    BY <2>1
  <2> QED BY <2>2
<1>2. batch \in Nat /\ OnlinePerBatch \in Nat /\ OnlinePerBatch > 0 /\ Online \in Nat
  BY OnlineAssumption
<1>3. batch <= batch * OnlinePerBatch /\ batch * OnlinePerBatch \in Nat
  BY <1>1, <1>2
<1> QED BY <1>2, <1>3

LEMMA BoundsStep == IInv /\ Bounds /\ [Next]_vars => Bounds'
<1> SUFFICES ASSUME IInv, Bounds, [Next]_vars PROVE Bounds'
  OBVIOUS
<1>1. CASE Run
  <2>1. nLoss' = nLoss
    BY <1>1 DEF Run, Steady, RunBatch, RunRoute, RunWait, RunFinish
  <2>2. \/ UNCHANGED batch /\ (runAt' \in {"route", "wait"} => batch * OnlinePerBatch < Online)
        \/ batch' = batch + 1 /\ runAt \in {"route", "wait"} /\ runAt' = "batch"
    <3>1. batch * OnlinePerBatch \in Nat /\ Online \in Nat
      BY OnlineAssumption DEF Bounds
    <3>2. CASE RunBatch
      BY <3>1, <3>2 DEF RunBatch, Batches, Start
    <3>3. CASE RunRoute \/ RunWait \/ RunFinish
      BY <3>3 DEF RunRoute, RunWait, RunFinish, Bounds
    <3> QED BY <1>1, <3>2, <3>3 DEF Run
  <2> QED BY <2>1, <2>2, NextBatch DEF Bounds
<1>2. CASE Lose
  BY <1>2, OnlineAssumption DEF Lose, Bounds, runs
<1>3. CASE ~Run /\ ~Lose
  <2>1. UNCHANGED <<runAt, batch, nLoss>>
    BY <1>3 DEF Next, RunBeyond, Steady, Worker, WorkerBegin, WorkerNew, WorkerConnect, WorkerStore, Loop, LoopTick, LoopQuit,
       LoopCheck, LoopRoute, LoopNew, LoopConnect, LoopStore, LoopAgain, StopCall, Stop, StopFlag,
       StopSnapshot, StopClose, StopEnd, vars, runs
  <2> QED BY <2>1 DEF Bounds
<1> QED BY <1>1, <1>2, <1>3

\* The fields of the online task and the places of its goroutines keep their
\* types (task_online.go:14-23), and run never takes up a batch beyond the
\* last user (task_online.go:75-102).
THEOREM TypeCorrect == Spec => []TypeOK
<1>1. Init => Bounds
  BY OnlineAssumption DEF Init, Bounds
<1>2. IInv /\ Bounds => TypeOK
  BY DEF IInv, Types, Bounds, TypeOK
<1> QED BY Inductive, <1>1, <1>2, BoundsStep, PTL DEF Spec
=============================================================================
