------------------------- MODULE StressRefine_proof -------------------------
(***************************************************************************)
(* Proofs, for every value of the constants, that a stop which is answered *)
(* has reached every task, whatever requests overlap, and that the server  *)
(* implements TestControl for an operator who waits for each answer.       *)
(***************************************************************************)
EXTENDS StressServer_proof

-----------------------------------------------------------------------------
(* Any number of requests at a time.                                       *)

\* The loop of stopTask has closed the stop channels of the tasks behind it.
StopSoFar ==
  \A h \in Handlers :
    pc[h] \in {"stop", "clients", "close"} =>
      at[h] \in Nat \ {0} /\ \A i \in DOMAIN tasks : i < at[h] => stopped[tasks[i]]

\* The list changes only while no stop is under way.
LEMMA ListLocked ==
  ASSUME TypeInv, LockHeld, NEW g \in Handlers, RemoveAllTask(g) \/ AddTask(g)
  PROVE  \A h \in Handlers : pc'[h] \notin {"stop", "clients", "close"}
<1>1. tasksLock = Free
  BY DEF RemoveAllTask, AddTask
<1>2. \A h \in Handlers : pc[h] \notin {"stop", "clients", "close"}
  BY <1>1, ServerAssumption DEF LockHeld
<1>3. QED
  BY <1>2 DEF TypeInv, TypeOK, RemoveAllTask, AddTask, Goto

\* No step but the end of the process opens a stop channel again.
LEMMA StoppedGrows ==
  ASSUME TypeInv, NEW g \in Handlers, HandlerStep(g)
  PROVE  \A t \in TaskId : stopped[t] => stopped'[t]
BY DEF TypeInv, TypeOK, HandlerStep, TakesLock, LockFree, StartRequest, StopRequest, SeqRead, SeqTruncate,
       SeqWrite, CheckStart, SetTaskConfig, RemoveAllTask, AddTask, LaunchTask, GenerateData, BeginLoop,
       CheckStop, LockTasks, StopFlag, ClientsClosed, CloseStopC, UnlockTasks, shared, taskVars, locals, ghosts

LEMMA StopStep ==
  ASSUME TypeInv, LockHeld, StopSoFar, [Next]_vars
  PROVE  StopSoFar'
<1>1. ASSUME NEW g \in Handlers, HandlerStep(g) PROVE StopSoFar'
  <2> USE DEF StopSoFar
  <2>1. CASE RemoveAllTask(g) \/ AddTask(g)
    BY <2>1, ListLocked
  <2>2. CASE ~(RemoveAllTask(g) \/ AddTask(g))
    <3>1. tasks' = tasks
      BY <1>1, <2>2 DEF HandlerStep, TakesLock, LockFree, StartRequest, StopRequest, SeqRead, SeqTruncate,
         SeqWrite, CheckStart, SetTaskConfig, LaunchTask, GenerateData, CheckStop, LockTasks, StopFlag,
         ClientsClosed, CloseStopC, UnlockTasks, shared
    <3>2. \A h \in Handlers : h # g => pc'[h] = pc[h] /\ at'[h] = at[h]
      <4>1. at' = at \/ \E n : at' = [at EXCEPT ![g] = n]
        BY <1>1, <2>2 DEF HandlerStep, TakesLock, LockFree, StartRequest, StopRequest, SeqRead, SeqTruncate,
           SeqWrite, CheckStart, SetTaskConfig, LaunchTask, GenerateData, BeginLoop, CheckStop, LockTasks,
           StopFlag, ClientsClosed, CloseStopC, UnlockTasks, locals
      <4>2. QED
        BY <1>1, <4>1, StepsAlone DEF TypeInv, TypeOK
    <3>3. \A i \in DOMAIN tasks : stopped[tasks[i]] => stopped'[tasks[i]]
      BY <1>1, StoppedGrows, RegisteredType DEF TypeInv
    <3>4. ASSUME pc'[g] \in {"stop", "clients", "close"}
          PROVE  at'[g] \in Nat \ {0} /\ \A i \in DOMAIN tasks : i < at'[g] => stopped'[tasks[i]]
      <4>1. CASE LockTasks(g)
        <5>1. at'[g] = 1
          BY <4>1 DEF LockTasks, TypeInv, TypeOK
        <5>2. QED
          BY <5>1, RegisteredType DEF TypeInv
      <4>2. CASE StopFlag(g) \/ ClientsClosed(g)
        <5>1. pc[g] \in {"stop", "clients"} /\ at' = at /\ stopped' = stopped
          BY <4>2 DEF StopFlag, ClientsClosed, locals, taskVars
        <5>2. QED
          BY <5>1
      <4>3. CASE CloseStopC(g)
        <5>1. pc[g] = "close" /\ at[g] \in Nat \ {0}
          BY <4>3 DEF CloseStopC
        <5>2. at' = [at EXCEPT ![g] = @ + 1] /\ stopped' = [stopped EXCEPT ![tasks[at[g]]] = TRUE]
          BY <3>4, <4>3 DEF CloseStopC, Respond, Goto, TypeInv, TypeOK
        <5>3. at'[g] = at[g] + 1
          BY <5>2 DEF TypeInv, TypeOK
        <5>4. \A i \in DOMAIN tasks : i < at[g] + 1 => i < at[g] \/ i = at[g]
          BY <5>1, RegisteredType DEF TypeInv
        <5>5. at[g] \in DOMAIN tasks => stopped'[tasks[at[g]]]
          BY <5>2, RegisteredType DEF TypeInv, TypeOK
        <5>6. QED
          BY <3>3, <5>1, <5>3, <5>4, <5>5
      <4>4. QED
        BY <1>1, <2>2, <3>4, <4>1, <4>2, <4>3 DEF TypeInv, TypeOK, HandlerStep, TakesLock, LockFree,
           StartRequest, StopRequest, SeqRead, SeqTruncate, SeqWrite, CheckStart, SetTaskConfig, LaunchTask,
           GenerateData, BeginLoop, CheckStop, UnlockTasks, Goto, Respond
    <3>5. QED
      BY <3>1, <3>2, <3>3, <3>4
  <2>3. QED
    BY <2>1, <2>2
<1>2. CASE Dies
  BY <1>2 DEF Dies, StopSoFar
<1>3. CASE UNCHANGED <<tasks, at, pc, stopped>>
  BY <1>3 DEF StopSoFar
<1>4. QED
  BY <1>1, <1>2, <1>3 DEF Next, HandlerStep, LookupNil, OnlineTick, Quit, Crash, vars, shared, taskVars, locals

\* A stop whose answer is 200 has closed the stop channel of every task in the
\* list, whatever other requests did while it waited (server.go:134-143).
THEOREM StopsEveryTask == Spec => StopReachesAll
<1>1. Init => TypeInv /\ LockHeld /\ StopSoFar
  <2> SUFFICES ASSUME Init
               PROVE  TypeInv /\ LockHeld /\ StopSoFar
    OBVIOUS
  <2>1. TypeInv
    BY InitTyped
  <2>2. tasksLock = Free /\ \A h \in Handlers : pc[h] = "idle"
    BY DEF Init
  <2>3. LockHeld
    BY ONLY <2>2, ServerAssumption DEF LockHeld
  <2>4. StopSoFar
    BY ONLY <2>2 DEF StopSoFar
  <2> QED BY ONLY <2>1, <2>3, <2>4
<1>2. TypeInv /\ LockHeld /\ StopSoFar /\ [Next]_vars => (TypeInv /\ LockHeld /\ StopSoFar)'
  BY TypeStep, LockStep, StopStep
<1>3. TypeInv /\ LockHeld /\ StopSoFar /\ [Next]_vars =>
        [\A h \in Handlers : pc[h] \in {"stop", "clients", "close"} /\ resp'[h] = "ok" /\ resp[h] # "ok"
           => \A t \in Registered : stopped[t]]_vars
  <2> SUFFICES ASSUME TypeInv, StopSoFar, Next, NEW h \in Handlers,
                      pc[h] \in {"stop", "clients", "close"}, resp'[h] = "ok", resp[h] # "ok"
               PROVE  \A t \in Registered : stopped[t]
    BY DEF vars
  <2>1. PICK g \in Handlers : HandlerStep(g)
    BY DEF Next, HandlerStep, LookupNil, OnlineTick, Quit, Crash, Dies
  <2>2. g = h
    BY <2>1 DEF TypeInv, TypeOK, HandlerStep, TakesLock, LockFree, StartRequest, StopRequest, SeqRead,
       SeqTruncate, SeqWrite, CheckStart, SetTaskConfig, RemoveAllTask, AddTask, LaunchTask, GenerateData,
       BeginLoop, CheckStop, LockTasks, StopFlag, ClientsClosed, CloseStopC, UnlockTasks, Respond
  <2>3. UnlockTasks(h)
    BY <2>1, <2>2 DEF TypeInv, TypeOK, HandlerStep, TakesLock, LockFree, StartRequest, StopRequest, SeqRead,
       SeqTruncate, SeqWrite, CheckStart, SetTaskConfig, RemoveAllTask, AddTask, LaunchTask, GenerateData,
       CheckStop, LockTasks, StopFlag, ClientsClosed, CloseStopC, Respond
  <2>4. \A i \in DOMAIN tasks : i < at[h]
    BY <2>3, RegisteredType DEF UnlockTasks, StopSoFar, TypeInv
  <2>5. QED
    BY <2>4 DEF StopSoFar, Registered
<1>4. QED
  BY <1>1, <1>2, <1>3, PTL DEF Spec, StopReachesAll

-----------------------------------------------------------------------------
(* One request at a time: the refinement of TestControl.                   *)

Last == accepted[Len(accepted)]              \* the test begun last

\* Tests are numbered by growing starts, and never by 0.
AcceptedInv ==
  /\ \A i \in DOMAIN accepted : accepted[i].gen <= nGen /\ accepted[i].seq > 0
  /\ \A i, j \in DOMAIN accepted : i < j => accepted[i].gen < accepted[j].gen

\* A start that is not yet a test is later than all of them and has a number to
\* give; one that is in startTask is the last of them.
StartInv ==
  \A h \in Handlers :
    /\ pc[h] \in {"seqRead", "seqTrunc", "seqWrite", "checkStart", "setCfg"} =>
         \A i \in DOMAIN accepted : accepted[i].gen < nGen
    /\ pc[h] \in {"seqTrunc", "seqWrite", "checkStart", "setCfg"} => seq[h] > 0
    /\ pc[h] \in {"clear", "add", "launch", "pairs"} => accepted # <<>> /\ Last.gen = nGen

\* Every task that runs belongs to the last test.
RunsInv == \A t \in TaskId : running[t] => accepted # <<>> /\ t[1] = Last.gen

\* Users are paired by the start of a p2p task, never by that of the last task.
PairsInv == \A h \in Handlers : pc[h] = "pairs" => at[h] = P2p

RefInv == AcceptedInv /\ StartInv /\ RunsInv /\ PairsInv

LEMMA AcceptedFields ==
  ASSUME TypeOK
  PROVE  /\ DOMAIN accepted = 1 .. Len(accepted) /\ Len(accepted) \in Nat
         /\ accepted # <<>> => Len(accepted) \in DOMAIN accepted
         /\ accepted = <<>> => DOMAIN accepted = {}
         /\ \A i \in DOMAIN accepted :
              accepted[i].seq \in Nat /\ accepted[i].gen \in Nat /\ accepted[i].gen \in 1 .. MaxStarts
<1> DEFINE S == [gen : 1 .. MaxStarts, seq : Nat]
<1>1. accepted \in Seq(S)
  BY DEF TypeOK
<1> HIDE DEF S
<1>2. DOMAIN accepted = 1 .. Len(accepted) /\ Len(accepted) \in Nat /\ \A i \in DOMAIN accepted : accepted[i] \in S
  BY <1>1
<1>3. accepted # <<>> => Len(accepted) \in DOMAIN accepted
  BY <1>1, <1>2
<1>4. \A r \in S : r.seq \in Nat /\ r.gen \in Nat /\ r.gen \in 1 .. MaxStarts
  BY ServerAssumption DEF S
<1>5. QED
  BY <1>2, <1>3, <1>4

\* A request counts as a test from SetTaskConfig on.
LEMMA TestBegun ==
  ASSUME Serial, TypeInv, TaskInv, RefInv, NEW h \in Handlers, SetTaskConfig(h),
         \A g \in Handlers : g # h => pc'[g] = "idle"
  PROVE  /\ RefInv' /\ accepted' # <<>> /\ Last'.seq = seq[h] /\ seq[h] > 0
         /\ \A t \in TaskId : ~running[t] /\ ~running'[t]
<1> DEFINE r == [gen |-> req[h].gen, seq |-> seq[h]]
<1> USE DEF TypeInv, TypeOK
<1>1. /\ accepted' = Append(accepted, r) /\ UNCHANGED <<running, nGen, seq, req>>
      /\ pc[h] = "setCfg" /\ pc'[h] = "clear"
  BY DEF SetTaskConfig, Goto, taskVars, locals
<1>2. r.seq = seq[h] /\ r.gen = nGen /\ nGen \in Nat /\ seq[h] \in Nat /\ seq[h] > 0
  BY <1>1 DEF TaskInv, NotYet, Starting, RefInv, StartInv
<1> HIDE DEF r
<1>3. /\ DOMAIN accepted' = 1 .. (Len(accepted) + 1) /\ DOMAIN accepted = 1 .. Len(accepted)
      /\ Len(accepted) \in Nat /\ Len(accepted') = Len(accepted) + 1
      /\ \A i \in DOMAIN accepted : accepted'[i] = accepted[i]
      /\ accepted'[Len(accepted) + 1] = r
  BY <1>1
<1>4. \A i \in DOMAIN accepted' : i \in DOMAIN accepted \/ i = Len(accepted) + 1
  BY <1>3
<1>5. Last' = r /\ accepted' # <<>>
  BY <1>3 DEF Last
<1>6. \A i \in DOMAIN accepted : accepted[i].gen < nGen
  BY <1>1 DEF RefInv, StartInv
<1>7. AcceptedInv'
  <2>1. ASSUME NEW i \in DOMAIN accepted' PROVE accepted'[i].gen <= nGen /\ accepted'[i].seq > 0
    <3>1. CASE i \in DOMAIN accepted
      BY <1>3, <3>1 DEF RefInv, AcceptedInv
    <3>2. CASE i = Len(accepted) + 1
      BY <1>2, <1>3, <3>2
    <3>3. QED
      BY <1>4, <3>1, <3>2
  <2>2. ASSUME NEW i \in DOMAIN accepted', NEW j \in DOMAIN accepted', i < j
        PROVE  accepted'[i].gen < accepted'[j].gen
    <3>1. i \in DOMAIN accepted
      BY <1>3, <2>2
    <3>2. CASE j \in DOMAIN accepted
      BY <1>3, <2>2, <3>1, <3>2 DEF RefInv, AcceptedInv
    <3>3. CASE j = Len(accepted) + 1
      BY <1>2, <1>3, <1>6, <3>1, <3>3
    <3>4. QED
      BY <1>4, <3>2, <3>3
  <2>3. QED
    BY <1>1, <2>1, <2>2 DEF AcceptedInv
<1>8. StartInv'
  BY <1>1, <1>2, <1>5 DEF StartInv
<1>9. \A t \in TaskId : ~running[t] /\ ~running'[t]
  BY <1>1 DEF TaskInv, ListInv, BeginInv, Over
<1>10. QED
  BY <1>1, <1>2, <1>5, <1>7, <1>8, <1>9 DEF RefInv, RunsInv, PairsInv

\* The task a start launches belongs to the test begun last.
LEMMA LaunchedIsLast ==
  ASSUME TypeInv, TaskInv, StartInv, NEW h \in Handlers, pc[h] \in InLoop
  PROVE  accepted # <<>> /\ StartTask(h)[1] = Last.gen
BY DEF TaskInv, NotYet, Starting, InLoop, StartInv, StartTask

LEMMA RefStep ==
  ASSUME Serial, TypeInv, IInv, RefInv, [Next]_vars
  PROVE  RefInv'
<1>0. running \in [TaskId -> BOOLEAN] /\ pc \in [Handlers -> PCs] /\ seq \in [Handlers -> Nat]
  BY DEF TypeInv, TypeOK
<1>1. ASSUME NEW h \in Handlers, HandlerStep(h) PROVE RefInv'
  <2>0. \A g \in Handlers : g # h => pc[g] = "idle" /\ pc'[g] = "idle"
    BY <1>1, OthersIdle DEF IInv, TypeInv
  <2>1. ASSUME UNCHANGED <<accepted, nGen>>,
               \A t \in TaskId : running'[t] => running[t] \/ (accepted # <<>> /\ t[1] = Last.gen),
               pc'[h] \in {"seqRead", "seqTrunc", "seqWrite", "checkStart", "setCfg"} =>
                 pc[h] \in {"seqRead", "seqTrunc", "seqWrite", "checkStart", "setCfg"},
               pc'[h] \in {"seqTrunc", "seqWrite", "checkStart", "setCfg"} =>
                 seq'[h] > 0 \/ (seq' = seq /\ pc[h] \in {"seqTrunc", "seqWrite", "checkStart", "setCfg"}),
               pc'[h] \in {"clear", "add", "launch", "pairs"} => pc[h] \in {"clear", "add", "launch", "pairs"},
               pc'[h] = "pairs" => at'[h] = P2p
        PROVE  RefInv'
    <3>1. AcceptedInv' /\ RunsInv'
      BY <2>1 DEF RefInv, AcceptedInv, RunsInv, Last
    <3>2. StartInv'
      BY <2>0, <2>1 DEF RefInv, StartInv, Last
    <3>3. PairsInv'
      BY <2>0, <2>1 DEF PairsInv
    <3>4. QED
      BY <3>1, <3>2, <3>3 DEF RefInv
  <2>2. CASE StartRequest(h)
    <3>1. UNCHANGED <<accepted, running>> /\ nGen' = nGen + 1 /\ nGen \in Nat /\ pc'[h] = "seqRead"
      BY <2>2 DEF StartRequest, Goto, taskVars, TypeInv, TypeOK
    <3>2. ASSUME NEW i \in DOMAIN accepted PROVE accepted[i].gen <= nGen' /\ accepted[i].gen < nGen'
      <4>1. accepted[i].gen \in Nat /\ accepted[i].gen <= nGen
        BY AcceptedFields DEF RefInv, AcceptedInv, TypeInv
      <4>2. QED
        BY <3>1, <4>1
    <3>3. QED
      BY <2>0, <3>1, <3>2 DEF RefInv, AcceptedInv, StartInv, RunsInv, PairsInv, Last
  <2>3. CASE SeqRead(h)
    <3>1. UNCHANGED <<accepted, running, nGen>>
      BY <2>3 DEF SeqRead, taskVars, ghosts
    <3>2. pc[h] = "seqRead" /\ (pc'[h] = "idle" \/ (pc'[h] = "seqTrunc" /\ seqFile # Torn /\ seq'[h] = seqFile + 1))
      <4>1. CASE seqFile = Torn
        BY <1>0, <2>3, <4>1 DEF SeqRead, Respond, Goto
      <4>2. CASE seqFile # Torn
        BY <1>0, <2>3, <4>2 DEF SeqRead, Goto
      <4>3. QED
        BY <4>1, <4>2
    <3>3. seqFile # Torn => seqFile + 1 > 0
      BY DEF TypeInv, TypeOK
    <3>4. \A t \in TaskId : running'[t] => running[t] \/ (accepted # <<>> /\ t[1] = Last.gen)
      BY <3>1, Zenon
    <3>5. seqFile # Torn => pc'[h] = "idle" \/ seq'[h] > 0
      BY <3>2, <3>3
    <3>6. QED
      BY <2>1, <3>1, <3>2, <3>4, <3>5
  <2>4. CASE SetTaskConfig(h)
    BY <2>0, <2>4, TestBegun DEF IInv
  <2>5. CASE LaunchTask(h)
    <3>1. UNCHANGED <<accepted, nGen>> /\ running' = [running EXCEPT ![StartTask(h)] = TRUE] /\ pc[h] = "launch"
      BY <2>5 DEF LaunchTask, ghosts
    <3>2. pc'[h] \in {"pairs", "idle", "add"}
      BY <1>0, <2>5 DEF LaunchTask, BeginLoop, Goto, Respond
    <3>3. accepted # <<>> /\ StartTask(h)[1] = Last.gen
      BY <3>1, LaunchedIsLast DEF InLoop, RefInv, IInv
    <3>4. \A t \in TaskId : running'[t] => running[t] \/ (accepted # <<>> /\ t[1] = Last.gen)
      BY <1>0, <3>1, <3>3
    <3>5. pc'[h] = "pairs" => at'[h] = P2p
      BY <1>0, <2>5 DEF LaunchTask, BeginLoop, Goto, Respond
    <3>6. QED
      BY <2>1, <3>1, <3>2, <3>4, <3>5
  <2>6. CASE StopFlag(h)
    <3>1. UNCHANGED <<accepted, nGen>> /\ running' = [running EXCEPT ![tasks[at[h]]] = FALSE]
          /\ pc'[h] \in {"clients", "close"}
      BY <2>6 DEF StopFlag, Goto, ghosts, TypeInv, TypeOK
    <3>2. \A t \in TaskId : running'[t] => running[t] \/ (accepted # <<>> /\ t[1] = Last.gen)
      BY <1>0, <3>1
    <3>3. QED
      BY <2>1, <3>1, <3>2
  <2>7. CASE \/ SeqTruncate(h) \/ SeqWrite(h) \/ CheckStart(h) \/ RemoveAllTask(h) \/ AddTask(h)
             \/ GenerateData(h) \/ StopRequest(h) \/ CheckStop(h) \/ LockTasks(h) \/ CloseStopC(h)
             \/ UnlockTasks(h) \/ ClientsClosed(h)
    <3>1. UNCHANGED <<accepted, nGen, running, seq>>
      BY <1>0, <2>7 DEF SeqTruncate, SeqWrite, CheckStart, RemoveAllTask, AddTask, GenerateData, StopRequest,
         CheckStop, LockTasks, ClientsClosed, CloseStopC, UnlockTasks, taskVars, locals, ghosts
    <3>2. \/ pc'[h] \in {"idle", "checkStop", "lock", "stop", "close"}
          \/ pc[h] = "seqTrunc" /\ pc'[h] = "seqWrite"
          \/ pc[h] = "seqWrite" /\ pc'[h] = "checkStart"
          \/ pc[h] = "checkStart" /\ pc'[h] = "setCfg"
          \/ pc[h] \in {"clear", "add", "pairs"} /\ pc'[h] \in {"add", "launch"}
      BY <1>0, <2>7 DEF SeqTruncate, SeqWrite, CheckStart, RemoveAllTask, AddTask, GenerateData, BeginLoop,
         StopRequest, CheckStop, LockTasks, ClientsClosed, CloseStopC, UnlockTasks, Goto, Respond
    <3>3. \A t \in TaskId : running'[t] => running[t] \/ (accepted # <<>> /\ t[1] = Last.gen)
      BY <3>1, Zenon
    <3>4. QED
      BY <2>1, <3>1, <3>2, <3>3
  <2>8. QED
    BY <1>1, <2>2, <2>3, <2>4, <2>5, <2>6, <2>7 DEF HandlerStep, TakesLock, LockFree
<1>2. CASE Dies
  BY <1>2 DEF Dies, RefInv, AcceptedInv, StartInv, RunsInv, PairsInv
<1>3. CASE UNCHANGED <<accepted, nGen, running, seq, at, pc>>
  BY <1>3 DEF RefInv, AcceptedInv, StartInv, RunsInv, PairsInv, Last
<1>4. QED
  BY <1>1, <1>2, <1>3 DEF Next, HandlerStep, LookupNil, OnlineTick, Quit, Crash, vars, taskVars, locals,
     ghosts, shared

\* What the phases look at: whether any task runs.
AnyRuns == \E t \in TaskId : running[t]

\* The state functions of the refinement in terms of AnyRuns.
MapInv ==
  /\ IsRunning <=> AnyRuns
  /\ RunningBatches = IF AnyRuns THEN {Batch} ELSE {}

LEMMA Mapped ==
  ASSUME TypeInv, IInv, RefInv
  PROVE  MapInv
<1> USE DEF TypeInv
<1>1. IsRunning <=> AnyRuns
  BY RegisteredType DEF IInv, TaskInv, ListInv, IsRunning, AnyRuns
<1>2. ASSUME NEW j \in DOMAIN accepted, NEW n \in Slots, running[<<accepted[j].gen, n>>]
      PROVE  j = Len(accepted) /\ AnyRuns
  <2>1. <<accepted[j].gen, n>> \in TaskId
    BY AcceptedFields DEF TaskId
  <2>2. accepted # <<>> /\ accepted[j].gen = Last.gen
    BY <1>2, <2>1 DEF RefInv, RunsInv
  <2>3. Len(accepted) \in DOMAIN accepted /\ Len(accepted) \in Nat /\ j \in 1 .. Len(accepted)
    BY <2>2, AcceptedFields
  <2>4. j < Len(accepted) => accepted[j].gen < Last.gen
    BY <2>3 DEF RefInv, AcceptedInv, Last
  <2>5. accepted[j].gen \in Nat
    BY AcceptedFields
  <2>6. QED
    BY <1>2, <2>1, <2>2, <2>3, <2>4, <2>5 DEF AnyRuns
<1>3. ASSUME AnyRuns
      PROVE  accepted # <<>> /\ \E n \in Slots : running[<<Last.gen, n>>]
  <2>1. PICK t \in TaskId : running[t]
    BY <1>3 DEF AnyRuns
  <2>2. t = <<t[1], t[2]>> /\ t[2] \in Slots /\ t[1] = Last.gen /\ accepted # <<>>
    BY <2>1 DEF TaskId, RefInv, RunsInv
  <2>3. QED
    BY <2>1, <2>2
<1>4. CASE AnyRuns
  <2>1. Len(accepted) \in DOMAIN accepted /\ accepted # <<>> /\ Batch = Last.seq
    BY <1>3, <1>4, AcceptedFields DEF Batch, Last
  <2>2. Last.seq \in RunningBatches
    BY <1>3, <1>4, <2>1 DEF RunningBatches, Last
  <2>3. \A b \in RunningBatches : b = Last.seq
    BY <1>2 DEF RunningBatches, Last
  <2>4. QED
    BY <1>1, <1>4, <2>1, <2>2, <2>3 DEF MapInv
<1>5. CASE ~AnyRuns
  <2>1. RunningBatches = {}
    BY <1>2, <1>5 DEF RunningBatches
  <2>2. QED
    BY <1>1, <1>5, <2>1 DEF MapInv
<1>6. QED
  BY <1>4, <1>5

\* The number a new test gets is larger than the one before.
LEMMA BatchGrows ==
  ASSUME TypeInv, BatchInv, NEW h \in Handlers, pc[h] = "setCfg", seq[h] > 0
  PROVE  seq[h] \in Int /\ seq[h] > Batch
<1>1. seq[h] \in Nat
  BY DEF TypeInv, TypeOK
<1>2. CASE accepted = <<>>
  BY <1>1, <1>2 DEF Batch
<1>3. CASE accepted # <<>>
  <2>1. Len(accepted) \in DOMAIN accepted /\ Batch = accepted[Len(accepted)].seq
    BY <1>3, AcceptedFields DEF Batch, TypeInv
  <2>2. Batch < seq[h] /\ Batch \in Nat
    BY <2>1, AcceptedFields DEF BatchInv, TypeInv
  <2>3. QED
    BY <1>1, <2>2
<1>4. QED
  BY <1>2, <1>3

StartCodes == {"clear", "add", "launch", "pairs"}
StopCodes  == {"stop", "clients", "close"}

\* With the others idle, the phase is that of the one handler.
LEMMA PhaseOf ==
  ASSUME MapInv, NEW h \in Handlers, \A g \in Handlers : g # h => pc[g] = "idle"
  PROVE  /\ pc[h] \in StartCodes => Phase = "starting"
         /\ pc[h] \in StopCodes => Phase = "stopping"
         /\ pc[h] \notin StartCodes \cup StopCodes => Phase = IF AnyRuns THEN "running" ELSE "idle"
BY DEF MapInv, Phase, StartCodes, StopCodes

LEMMA PhaseOfNext ==
  ASSUME MapInv', NEW h \in Handlers, \A g \in Handlers : g # h => pc'[g] = "idle"
  PROVE  /\ pc'[h] \in StartCodes => Phase' = "starting"
         /\ pc'[h] \in StopCodes => Phase' = "stopping"
         /\ pc'[h] \notin StartCodes \cup StopCodes => Phase' = IF AnyRuns' THEN "running" ELSE "idle"
BY DEF MapInv, Phase, StartCodes, StopCodes

\* Every step is a step of TestControl or leaves its state alone.
LEMMA MapsStep ==
  ASSUME Serial, TypeInv, IInv, RefInv, MapInv, MapInv', [Next]_vars
  PROVE  [Control!Next]_(Control!cvars)
<1>1. ASSUME NEW h \in Handlers, HandlerStep(h) PROVE [Control!Next]_(Control!cvars)
  <2>0. \A g \in Handlers : g # h => pc[g] = "idle" /\ pc'[g] = "idle"
    BY <1>1, OthersIdle DEF IInv, TypeInv
  <2>a. running \in [TaskId -> BOOLEAN] /\ pc \in [Handlers -> PCs]
    BY DEF TypeInv, TypeOK
  <2>b. RunningBatches = (IF AnyRuns THEN {Batch} ELSE {}) /\ RunningBatches' = (IF AnyRuns' THEN {Batch'} ELSE {})
    BY DEF MapInv
  <2>1. ASSUME UNCHANGED <<accepted, running>>,
               \/ pc[h] \in StartCodes /\ pc'[h] \in StartCodes
               \/ pc[h] \in StopCodes /\ pc'[h] \in StopCodes
               \/ pc[h] \notin StartCodes \cup StopCodes /\ pc'[h] \notin StartCodes \cup StopCodes
        PROVE  [Control!Next]_(Control!cvars)
    <3>1. Batch' = Batch /\ AnyRuns' = AnyRuns
      BY <2>1 DEF Batch, AnyRuns
    <3>2. Phase' = Phase
      BY <2>0, <2>1, <3>1, PhaseOf, PhaseOfNext
    <3>3. QED
      BY <2>b, <3>1, <3>2 DEF Control!cvars
  <2>2. CASE SetTaskConfig(h)
    <3>1. pc[h] = "setCfg" /\ pc'[h] = "clear"
      BY <2>a, <2>2 DEF SetTaskConfig, Goto
    <3>2. accepted' # <<>> /\ Last'.seq = seq[h] /\ seq[h] > 0 /\ ~AnyRuns /\ ~AnyRuns'
      BY <2>0, <2>2, TestBegun DEF IInv, AnyRuns
    <3>3. Batch' = seq[h]
      BY <3>2 DEF Batch, Last
    <3>4. Batch' \in Int /\ Batch' > Batch
      BY <3>1, <3>2, <3>3, BatchGrows DEF IInv
    <3>5. Phase = "idle" /\ Phase' = "starting"
      BY <2>0, <3>1, <3>2, PhaseOf, PhaseOfNext DEF StartCodes, StopCodes
    <3>6. RunningBatches' = {}
      BY <2>b, <3>2
    <3>7. QED
      BY <3>4, <3>5, <3>6 DEF Control!Next, Control!Begin
  <2>3. CASE LaunchTask(h)
    <3>1. UNCHANGED accepted /\ running' = [running EXCEPT ![StartTask(h)] = TRUE] /\ pc[h] = "launch"
          /\ pc'[h] \in {"pairs", "idle", "add"}
      BY <2>a, <2>3 DEF LaunchTask, BeginLoop, Goto, Respond, ghosts
    <3>2. StartTask(h) \in TaskId
      BY <3>1, StartTaskType DEF InLoop
    <3>3. AnyRuns' /\ Batch' = Batch
      BY <2>a, <3>1, <3>2 DEF AnyRuns, Batch
    <3>4. Phase = "starting" /\ Phase' \in {"starting", "running"}
      BY <2>0, <3>1, <3>3, PhaseOf, PhaseOfNext DEF StartCodes, StopCodes
    <3>5. RunningBatches' = {Batch}
      BY <2>b, <3>3
    <3>6. QED
      BY <3>3, <3>4, <3>5 DEF Control!Next, Control!Launch
  <2>4. CASE LockTasks(h)
    <3>1. UNCHANGED <<accepted, running>> /\ pc[h] = "lock" /\ pc'[h] = "stop"
      BY <2>a, <2>4 DEF LockTasks, Goto, taskVars, ghosts
    <3>2. AnyRuns
      <4>1. tasks # <<>> /\ \A t \in Registered : Alive(t)
        BY <3>1 DEF IInv, TaskInv, EndInv
      <4>2. IsRunning
        BY <4>1, RegisteredType DEF IsRunning, Alive, TypeInv
      <4>3. QED
        BY <4>2 DEF MapInv
    <3>3. AnyRuns' /\ Batch' = Batch
      BY <3>1, <3>2 DEF AnyRuns, Batch
    <3>4. Phase = "running" /\ Phase' = "stopping"
      BY <2>0, <3>1, <3>2, PhaseOf, PhaseOfNext DEF StartCodes, StopCodes
    <3>5. QED
      BY <2>b, <3>2, <3>3, <3>4 DEF Control!Next, Control!BeginStop
  <2>5. CASE StopFlag(h)
    <3>1. UNCHANGED accepted /\ running' = [running EXCEPT ![tasks[at[h]]] = FALSE] /\ pc[h] = "stop"
          /\ pc'[h] \in {"clients", "close"}
      BY <2>a, <2>5 DEF StopFlag, Goto, ghosts
    <3>2. Batch' = Batch /\ (AnyRuns' => AnyRuns)
      BY <2>a, <3>1 DEF AnyRuns, Batch
    <3>3. Phase = "stopping" /\ Phase' = "stopping"
      BY <2>0, <3>1, PhaseOf, PhaseOfNext DEF StopCodes
    <3>4. RunningBatches' = RunningBatches \/ RunningBatches' = {}
      BY <2>b, <3>2
    <3>5. QED
      BY <3>2, <3>3, <3>4 DEF Control!Next, Control!Stopping, Control!cvars
  <2>6. CASE UnlockTasks(h)
    <3>1. UNCHANGED <<accepted, running>> /\ pc[h] = "stop" /\ pc'[h] = "idle" /\ at[h] \notin DOMAIN tasks
      BY <2>a, <2>6 DEF UnlockTasks, Goto, Respond, taskVars, ghosts
    <3>2. ~AnyRuns
      <4>1. at[h] \in Nat \ {0} /\ \A i \in DOMAIN tasks : i < at[h] => Over(tasks[i])
        BY <3>1 DEF IInv, TaskInv, EndInv
      <4>2. \A i \in DOMAIN tasks : Over(tasks[i])
        BY <3>1, <4>1, RegisteredType DEF TypeInv
      <4>3. QED
        BY <4>2 DEF MapInv, IsRunning, Registered, Over
    <3>3. ~AnyRuns' /\ Batch' = Batch
      BY <3>1, <3>2 DEF AnyRuns, Batch
    <3>4. Phase = "stopping" /\ Phase' = "idle"
      BY <2>0, <3>1, <3>3, PhaseOf, PhaseOfNext DEF StartCodes, StopCodes
    <3>5. QED
      BY <2>b, <3>2, <3>3, <3>4 DEF Control!Next, Control!Stopping
  <2>7. CASE CloseStopC(h)
    <3>1. pc[h] = "close" /\ UNCHANGED <<accepted, running>>
      BY <2>7 DEF CloseStopC, ghosts
    <3>2. ~stopped[tasks[at[h]]]
      BY <3>1 DEF IInv, TaskInv, EndInv
    <3>3. pc'[h] = "stop"
      BY <2>a, <2>7, <3>2 DEF CloseStopC, Goto
    <3>4. QED
      BY <2>1, <3>1, <3>3 DEF StopCodes
  <2>7a. CASE ClientsClosed(h)
    <3>1. pc[h] = "clients" /\ pc'[h] = "close" /\ UNCHANGED <<accepted, running>>
      BY <2>a, <2>7a DEF ClientsClosed, Goto, ghosts, taskVars
    <3>2. QED
      BY <2>1, <3>1 DEF StopCodes
  <2>8. CASE GenerateData(h)
    <3>1. pc[h] = "pairs" /\ UNCHANGED <<accepted, running>>
      BY <2>8 DEF GenerateData, ghosts
    <3>2. HasOnline
      <4>1. StartTask(h) \in Registered /\ ListInv
        BY <3>1 DEF IInv, TaskInv, BeginInv
      <4>2. QED
        BY <4>1, RegisteredType DEF ListInv, TypeInv
    <3>3. at[h] # Stats
      BY <3>1, ServerAssumption DEF RefInv, PairsInv, P2p, Stats
    <3>4. pc'[h] = "add"
      BY <2>a, <2>8, <3>2, <3>3 DEF GenerateData, BeginLoop, Goto
    <3>5. QED
      BY <2>1, <3>1, <3>4 DEF StartCodes
  <2>9. CASE RemoveAllTask(h) \/ AddTask(h)
    <3>1. pc[h] \in StartCodes /\ pc'[h] \in StartCodes /\ UNCHANGED <<accepted, running>>
      BY <2>a, <2>9 DEF RemoveAllTask, AddTask, Goto, taskVars, ghosts, StartCodes
    <3>2. QED
      BY <2>1, <3>1
  <2>10. CASE \/ StartRequest(h) \/ SeqRead(h) \/ SeqTruncate(h) \/ SeqWrite(h) \/ CheckStart(h)
              \/ StopRequest(h) \/ CheckStop(h)
    <3>1. UNCHANGED <<accepted, running>>
      BY <2>10 DEF StartRequest, SeqRead, SeqTruncate, SeqWrite, CheckStart, StopRequest, CheckStop, taskVars, ghosts
    <3>2. pc[h] \notin StartCodes \cup StopCodes /\ pc'[h] \notin StartCodes \cup StopCodes
      BY <2>a, <2>10 DEF StartRequest, SeqRead, SeqTruncate, SeqWrite, CheckStart, StopRequest, CheckStop,
         Goto, Respond, StartCodes, StopCodes
    <3>3. QED
      BY <2>1, <3>1, <3>2
  <2>11. QED
    BY <1>1, <2>2, <2>3, <2>4, <2>5, <2>6, <2>7, <2>7a, <2>8, <2>9, <2>10 DEF HandlerStep, TakesLock, LockFree
<1>2. CASE Dies
  <2>1. Batch' = Batch /\ ~AnyRuns'
    BY <1>2 DEF Dies, Batch, AnyRuns
  <2>2. Phase' = "idle"
    BY <1>2, <2>1 DEF Dies, Phase, MapInv
  <2>3. QED
    BY <2>1, <2>2 DEF MapInv, Control!Next, Control!Die
<1>3. CASE UNCHANGED <<accepted, running, pc, tasks>>
  <2>1. Phase' = Phase /\ Batch' = Batch /\ RunningBatches' = RunningBatches
    BY <1>3 DEF Phase, Batch, RunningBatches, IsRunning, Registered
  <2>2. QED
    BY <2>1 DEF Control!cvars
<1>4. QED
  BY <1>1, <1>2, <1>3 DEF Next, HandlerStep, LookupNil, OnlineTick, Quit, Crash, vars, taskVars, shared, ghosts

\* The server is one that tests are begun on and ended on as a whole, each with
\* a number of its own, for an operator who waits for each answer: the handlers,
\* the start loop and the stop loop (api_stress.go, server.go:100-160) and the
\* batch file (options.go:137-167), through any number of kills.
THEOREM Refinement == Serial => (Spec => ImplementsTestControl)
<1> SUFFICES ASSUME Serial PROVE Spec => ImplementsTestControl
  OBVIOUS
<1>1. Init => RefInv
  BY DEF Init, RefInv, AcceptedInv, StartInv, RunsInv, PairsInv
<1>2. Init => Control!Init
  <2>1. ASSUME Init PROVE IsRunning = FALSE /\ DOMAIN accepted = {}
    BY <2>1 DEF Init, IsRunning, Registered
  <2>2. QED
    BY <2>1 DEF Init, Control!Init, Phase, Batch, RunningBatches
<1>3. Init => TypeInv
  BY InitTyped
<1>4. TypeInv /\ [Next]_vars => TypeInv'
  BY TypeStep
<1>5. Spec => []IInv
  BY Inductive, PTL
<1>6. TypeInv /\ IInv /\ RefInv /\ [Next]_vars => RefInv'
  BY RefStep
<1>7. TypeInv /\ IInv /\ RefInv => MapInv
  BY Mapped
<1>8. TypeInv /\ IInv /\ RefInv /\ MapInv /\ MapInv' /\ [Next]_vars => [Control!Next]_(Control!cvars)
  BY MapsStep
<1>9. QED
  BY <1>1, <1>2, <1>3, <1>4, <1>5, <1>6, <1>7, <1>8, PTL DEF Spec, ImplementsTestControl, Control!Spec
=============================================================================
