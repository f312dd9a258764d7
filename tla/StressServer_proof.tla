------------------------- MODULE StressServer_proof -------------------------
(***************************************************************************)
(* Proofs, for every value of the constants, that the life cycle in        *)
(* StressServer is type correct, that batch numbers are never used twice,  *)
(* and that between requests a test runs as a whole or not at all.         *)
(***************************************************************************)
EXTENDS StressProps, TLAPS

Starting == {"seqRead", "seqTrunc", "seqWrite", "checkStart", "setCfg", "clear",
             "add", "launch", "pairs"}
InLoop   == {"add", "launch", "pairs"}       \* inside startTask's sequence of starts

\* What TypeOK needs: the task a handler is starting exists.
StartOK ==
  \A h \in Handlers :
    /\ pc[h] \in Starting => req[h].gen \in 1 .. MaxStarts
    /\ pc[h] \in InLoop => at[h] \in Slots

TypeInv == TypeOK /\ StartOK

\* The operator waits for each answer.
OneBusy == \A g, h \in Handlers : pc[g] # "idle" /\ pc[h] # "idle" => g = h

\* Number a handler holds, against the file and the tests begun so far.
BatchInv ==
  /\ seqFile # Torn => \A i \in DOMAIN accepted : accepted[i].seq <= seqFile
  /\ \A h \in Handlers :
       /\ pc[h] \in {"seqTrunc", "seqWrite", "checkStart", "setCfg"} =>
            \A i \in DOMAIN accepted : accepted[i].seq < seq[h]
       /\ pc[h] \in {"checkStart", "setCfg"} => seqFile = seq[h]
  /\ \A i, j \in DOMAIN accepted : i < j => accepted[i].seq < accepted[j].seq

-----------------------------------------------------------------------------
Untouched(t) == ~running[t] /\ ~stopped[t] /\ loop[t] = "none"

\* tasksLock is held across steps only by the handler in stopTask.
LockHeld ==
  \A h \in Handlers : tasksLock = h <=> pc[h] \in {"stop", "clients", "close"}

\* Tasks not yet reached by startTask, and those of starts to come.
NotYet ==
  /\ \A t \in TaskId : t[1] > nGen => Untouched(t)
  /\ \A h \in Handlers :
       pc[h] \in Starting =>
         /\ req[h].gen = nGen
         /\ \A t \in TaskId :
              /\ t[1] = nGen
              /\ pc[h] \in InLoop => t[2] >= at[h]
              /\ pc[h] \in {"launch", "pairs"} => t[2] > at[h]
              => Untouched(t)

\* The list: no task twice, the online task first, and every task that runs or
\* has a loop not told to stop is in it.
ListInv ==
  /\ \A i, j \in DOMAIN tasks : tasks[i] = tasks[j] => i = j
  /\ tasks # <<>> => HasOnline
  /\ \A t \in Registered : t[1] <= nGen
  /\ \A t \in TaskId : running[t] \/ (loop[t] = "wait" /\ ~stopped[t]) => t \in Registered

Settled(h) == pc[h] \notin {"setCfg", "clear", "add", "launch", "pairs", "lock", "stop", "clients", "close"}

Whole ==
  /\ (\A t \in Registered : Alive(t)) \/ (\A t \in Registered : Over(t))
  /\ taskStartTime <=> IsRunning

BeginInv(h) ==
  /\ pc[h] \in {"setCfg", "clear"} => \A t \in Registered : Over(t)
  /\ pc[h] \in {"clear", "add", "launch", "pairs"} => taskStartTime
  /\ pc[h] \in InLoop => \A t \in Registered : t[1] = nGen /\ t[2] <= at[h]
  /\ pc[h] = "add" => \A t \in Registered : t[2] < at[h] /\ Alive(t)
  /\ pc[h] = "add" /\ at[h] # Online => HasOnline
  /\ pc[h] \in {"launch", "pairs"} =>
       /\ StartTask(h) \in Registered /\ ~stopped[StartTask(h)]
       /\ \A t \in Registered : t # StartTask(h) => Alive(t)
  /\ pc[h] = "pairs" => running[StartTask(h)]
  /\ pc[h] = "launch" => ~running[StartTask(h)]

EndInv(h) ==
  /\ pc[h] = "lock" => \A t \in Registered : Alive(t)
  /\ pc[h] = "lock" => tasks # <<>> /\ taskStartTime
  /\ pc[h] \in {"stop", "clients", "close"} =>
       /\ ~taskStartTime
       /\ at[h] \in Nat \ {0}
       /\ \A i \in DOMAIN tasks : i < at[h] => Over(tasks[i])
       /\ \A i \in DOMAIN tasks : i > at[h] => Alive(tasks[i])
  /\ pc[h] = "stop" /\ at[h] \in DOMAIN tasks => Alive(tasks[at[h]])
  /\ pc[h] \in {"clients", "close"} =>
       /\ at[h] \in DOMAIN tasks
       /\ ~running[tasks[at[h]]] /\ ~stopped[tasks[at[h]]]

TaskInv ==
  /\ NotYet /\ ListInv
  /\ (\A h \in Handlers : Settled(h)) => Whole
  /\ \A h \in Handlers : BeginInv(h) /\ EndInv(h)

IInv == OneBusy /\ BatchInv /\ LockHeld /\ TaskInv
-----------------------------------------------------------------------------
(* Type correctness.                                                       *)

LEMMA SlotTypes ==
  /\ Online \in Slots /\ P2p \in Slots /\ Stats \in Slots
  /\ (1 .. NChan) \subseteq Slots /\ Slots \subseteq Nat
  /\ Online < P2p /\ P2p < Stats
  /\ \A n \in 1 .. NChan : Online < n /\ n < P2p
BY ServerAssumption DEF Online, P2p, Stats, Slots

LEMMA TaskIdType == \A t \in TaskId : t[1] \in Nat /\ t[2] \in Slots /\ t[2] \in Nat
<1> SUFFICES ASSUME NEW t \in TaskId PROVE t[1] \in Nat /\ t[2] \in Slots /\ t[2] \in Nat
  OBVIOUS
<1>1. t[1] \in 1 .. MaxStarts /\ t[2] \in Slots
  BY DEF TaskId
<1>2. t[1] \in Nat
  BY <1>1
<1>3. QED
  BY <1>1, <1>2, SlotTypes

LEMMA NoCfgType == NoCfg \in Request
BY ServerAssumption DEF NoCfg, Request

LEMMA EmptySeqs == <<>> \in Seq(TaskId) /\ <<>> \in Seq([gen : 1 .. MaxStarts, seq : Nat])
OBVIOUS

\* A process that dies starts again from a typed state.
LEMMA DiesTyped ==
  ASSUME TypeInv, Dies, nCrash' \in 0 .. MaxCrashes
  PROVE  TypeInv'
<1>1. TypeOK'
  <2>1. tasks' \in Seq(TaskId) /\ taskCfg' \in Request
    BY NoCfgType, EmptySeqs DEF Dies
  <2>2. seqFile' = seqFile /\ nGen' = nGen /\ accepted' = accepted
    BY DEF Dies, files
  <2>3. QED
    BY <2>1, <2>2, NoCfgType DEF TypeInv, TypeOK, Dies, PCs
<1>2. StartOK'
  BY DEF Dies, StartOK, Starting, InLoop
<1>3. QED
  BY <1>1, <1>2 DEF TypeInv

\* The task a handler in startTask is at.
LEMMA StartTaskType ==
  ASSUME TypeInv, NEW h \in Handlers, pc[h] \in InLoop
  PROVE  StartTask(h) \in TaskId
BY DEF TypeInv, TypeOK, StartOK, StartTask, TaskId, Starting, InLoop, Request

\* BeginLoop goes on to a later slot or answers.
LEMMA BeginLoopTyped ==
  ASSUME TypeInv, NEW h \in Handlers, pc[h] \in InLoop, BeginLoop(h)
  PROVE  /\ loop' \in [TaskId -> {"none", "wait", "gone"}]
         /\ chans' \in [Handlers -> SUBSET (1 .. NChan)]
         /\ at' \in [Handlers -> Nat] /\ pc' \in [Handlers -> PCs]
         /\ resp' \in [Handlers -> {"none", "ok", "refused", "panic"}]
         /\ \A g \in Handlers : pc'[g] \in Starting => pc[g] \in Starting
         /\ \A g \in Handlers : pc'[g] \in InLoop => at'[g] \in Slots
<1> USE DEF TypeInv, TypeOK, StartOK, PCs, Starting, InLoop, Goto, Respond, BeginLoop
<1>1. Channels(h) \subseteq 1 .. NChan
  BY DEF Channels, Request
<1>2. Left(h) \subseteq Slots
  BY <1>1, SlotTypes DEF Left
<1>3. loop' \in [TaskId -> {"none", "wait", "gone"}]
  OBVIOUS
<1>4. chans' \in [Handlers -> SUBSET (1 .. NChan)]
  BY <1>1
<1>5. CASE at[h] = Stats /\ Respond(h, "ok") /\ UNCHANGED at
  BY <1>3, <1>4, <1>5
<1>6. CASE /\ \E n \in Left(h) : (\A m \in Left(h) : n <= m) /\ at' = [at EXCEPT ![h] = n]
           /\ Goto(h, "add")
           /\ UNCHANGED resp
  <2>1. PICK n \in Left(h) : at' = [at EXCEPT ![h] = n]
    BY <1>6
  <2>2. n \in Slots /\ n \in Nat
    BY <1>2, SlotTypes
  <2>3. at' \in [Handlers -> Nat] /\ \A g \in Handlers : pc'[g] \in InLoop => at'[g] \in Slots
    BY <1>6, <2>1, <2>2
  <2>4. QED
    BY <1>3, <1>4, <1>6, <2>3
<1>7. QED
  BY <1>5, <1>6

LEMMA InitTyped ==
  ASSUME Init
  PROVE  TypeInv
<1>1. TypeOK
  <2>1. nGen \in 0 .. MaxStarts /\ nCrash \in 0 .. MaxCrashes /\ seqFile \in Nat \cup {Torn}
    BY ServerAssumption DEF Init
  <2>2. tasks \in Seq(TaskId) /\ accepted \in Seq([gen : 1 .. MaxStarts, seq : Nat])
    BY EmptySeqs DEF Init
  <2>3. QED
    BY <2>1, <2>2, NoCfgType DEF Init, TypeOK, PCs
<1>2. StartOK
  BY DEF Init, StartOK, Starting, InLoop
<1>3. QED
  BY <1>1, <1>2 DEF TypeInv

LEMMA TypeStep ==
  ASSUME TypeInv, [Next]_vars
  PROVE  TypeInv'
<1> USE ServerAssumption, SlotTypes DEF TypeInv, TypeOK, StartOK, PCs, Starting, InLoop, Goto, files,
      shared, taskVars, locals, ghosts
<1>1. ASSUME NEW h \in Handlers, StartRequest(h) PROVE TypeInv'
  <2>1. PICK c \in Configs : req' = [req EXCEPT ![h] = [gen |-> nGen + 1, channels |-> c.channels, p2p |-> c.p2p]]
    BY <1>1 DEF StartRequest
  <2>2. [gen |-> nGen + 1, channels |-> c.channels, p2p |-> c.p2p] \in Request /\ nGen + 1 \in 1 .. MaxStarts
    BY <1>1, SMTT(30) DEF StartRequest, Request
  <2>3. QED
    BY <1>1, <2>1, <2>2 DEF StartRequest
<1>2. ASSUME NEW h \in Handlers, SeqRead(h) PROVE TypeInv'
  <2>1. CASE seqFile = Torn /\ Respond(h, "panic") /\ UNCHANGED seq
    BY <1>2, <2>1 DEF SeqRead, Respond
  <2>2. CASE seqFile # Torn /\ seq' = [seq EXCEPT ![h] = seqFile + 1] /\ Goto(h, "seqTrunc") /\ UNCHANGED resp
    <3>1. seqFile + 1 \in Nat
      BY <2>2
    <3>2. QED
      BY <1>2, <2>2, <3>1 DEF SeqRead
  <2>3. QED
    BY <1>2, <2>1, <2>2 DEF SeqRead
<1>3. ASSUME NEW h \in Handlers, SeqTruncate(h) PROVE TypeInv'
  BY <1>3 DEF SeqTruncate
<1>4. ASSUME NEW h \in Handlers, SeqWrite(h) PROVE TypeInv'
  BY <1>4 DEF SeqWrite
<1>5. ASSUME NEW h \in Handlers, CheckStart(h) PROVE TypeInv'
  BY <1>5, ZenonT(60) DEF CheckStart, Respond
<1>6. ASSUME NEW h \in Handlers, SetTaskConfig(h) PROVE TypeInv'
  BY <1>6, SMTT(30) DEF SetTaskConfig
<1>7. ASSUME NEW h \in Handlers, RemoveAllTask(h) PROVE TypeInv'
  BY <1>7 DEF RemoveAllTask
<1>8. ASSUME NEW h \in Handlers, AddTask(h) PROVE TypeInv'
  <2>1. StartTask(h) \in TaskId
    BY <1>8, StartTaskType DEF AddTask
  <2>2. tasks' \in Seq(TaskId)
    BY <1>8, <2>1 DEF AddTask
  <2>3. pc' = [pc EXCEPT ![h] = "launch"] /\ pc[h] = "add"
        /\ UNCHANGED <<seqFile, taskCfg, tasksLock, taskStartTime, running, stopped, loop, req, seq, at,
                       chans, resp, nGen, nCrash, accepted>>
    BY <1>8 DEF AddTask
  <2>4. TypeOK'
    BY <2>2, <2>3
  <2>5. StartOK'
    BY <2>3
  <2>6. QED
    BY <2>4, <2>5
<1>9. ASSUME NEW h \in Handlers, LaunchTask(h) PROVE TypeInv'
  BY <1>9, BeginLoopTyped DEF LaunchTask
<1>10. ASSUME NEW h \in Handlers, GenerateData(h) PROVE TypeInv'
  BY <1>10, BeginLoopTyped DEF GenerateData, Respond
<1>11. ASSUME NEW h \in Handlers, StopRequest(h) PROVE TypeInv'
  BY <1>11 DEF StopRequest
<1>12. ASSUME NEW h \in Handlers, CheckStop(h) PROVE TypeInv'
  BY <1>12, ZenonT(60) DEF CheckStop, Respond
<1>13. ASSUME NEW h \in Handlers, LockTasks(h) PROVE TypeInv'
  BY <1>13 DEF LockTasks
<1>14. ASSUME NEW h \in Handlers, StopFlag(h) PROVE TypeInv'
  <2>1. \E l \in {"clients", "close"} : Goto(h, l)
    BY <1>14 DEF StopFlag
  <2>2. QED
    BY <1>14, <2>1 DEF StopFlag
<1>14a. ASSUME NEW h \in Handlers, ClientsClosed(h) PROVE TypeInv'
  BY <1>14a DEF ClientsClosed
<1>15. ASSUME NEW h \in Handlers, CloseStopC(h) PROVE TypeInv'
  <2> DEFINE t == tasks[at[h]]
  <2>1. UNCHANGED <<seqFile, taskCfg, tasks, taskStartTime, running, loop, req, seq, chans, nGen, nCrash, accepted>>
    BY <1>15 DEF CloseStopC
  <2>2. CASE tasksLock' = Free /\ Respond(h, "panic") /\ UNCHANGED <<stopped, at>>
    BY <2>1, <2>2 DEF Respond
  <2>3. CASE /\ stopped' = [stopped EXCEPT ![t] = TRUE]
             /\ at' = [at EXCEPT ![h] = @ + 1]
             /\ Goto(h, "stop")
             /\ UNCHANGED <<tasksLock, resp>>
    <3> HIDE DEF t
    <3>1. stopped' \in [TaskId -> BOOLEAN]
      BY <2>3
    <3>2. at' \in [Handlers -> Nat] /\ \A g \in Handlers : g # h => at'[g] = at[g]
      BY <2>3
    <3>3. pc' \in [Handlers -> PCs] /\ pc'[h] = "stop" /\ \A g \in Handlers : g # h => pc'[g] = pc[g]
      BY <2>3
    <3>4. TypeOK'
      BY <2>1, <2>3, <3>1, <3>2, <3>3
    <3>5. StartOK'
      BY <2>1, <3>2, <3>3
    <3>6. QED
      BY <3>4, <3>5
  <2>4. QED
    BY <1>15, <2>2, <2>3 DEF CloseStopC
<1>16. ASSUME NEW h \in Handlers, UnlockTasks(h) PROVE TypeInv'
  BY <1>16 DEF UnlockTasks, Respond
<1>17. ASSUME NEW t \in TaskId, LookupNil(t) PROVE TypeInv'
  BY <1>17, DiesTyped DEF LookupNil
<1>18. ASSUME NEW t \in TaskId, OnlineTick(t) PROVE TypeInv'
  BY <1>18 DEF OnlineTick
<1>19. ASSUME NEW t \in TaskId, Quit(t) PROVE TypeInv'
  BY <1>19 DEF Quit
<1>20. ASSUME Crash PROVE TypeInv'
  <2>1. nCrash' \in 0 .. MaxCrashes /\ Dies
    BY <1>20 DEF Crash
  <2>2. QED
    BY <2>1, DiesTyped
<1>21. CASE UNCHANGED vars
  BY <1>21 DEF vars
<1>22. QED
  BY <1>1, <1>2, <1>3, <1>4, <1>5, <1>6, <1>7, <1>8, <1>9, <1>10, <1>11, <1>12, <1>13, <1>14, <1>14a, <1>15, <1>16, <1>17, <1>18, <1>19, <1>20, <1>21 DEF Next, TakesLock, LockFree

\* Every variable has its type in every state of any number of requests, kills
\* and restarts, and a handler in startTask is always at a task that exists.
THEOREM TypeCorrect == Spec => []TypeOK
<1>1. Init => TypeInv
  BY InitTyped
<1>2. TypeInv /\ [Next]_vars => TypeInv'
  BY TypeStep
<1>3. TypeInv => TypeOK
  BY DEF TypeInv
<1>4. QED
  BY <1>1, <1>2, <1>3, PTL DEF Spec
-----------------------------------------------------------------------------
(* One request at a time.                                                  *)

HandlerStep(h) ==
  StartRequest(h) \/ StopRequest(h) \/ TakesLock(h) \/ LockFree(h) \/ ClientsClosed(h)

\* A step of a handler moves no other.
LEMMA StepsAlone ==
  ASSUME NEW h \in Handlers, HandlerStep(h)
  PROVE  \E l \in PCs : pc' = [pc EXCEPT ![h] = l]
BY DEF HandlerStep, TakesLock, LockFree, StartRequest, StopRequest, SeqRead, SeqTruncate, SeqWrite,
       CheckStart, SetTaskConfig, RemoveAllTask, AddTask, LaunchTask, GenerateData, BeginLoop,
       CheckStop, LockTasks, StopFlag, ClientsClosed, CloseStopC, UnlockTasks, Goto, Respond, PCs

\* A handler that takes a step is the only one that is serving a request.
LEMMA OthersIdle ==
  ASSUME Serial, TypeOK, OneBusy, NEW h \in Handlers, HandlerStep(h)
  PROVE  \A g \in Handlers : g # h => pc[g] = "idle" /\ pc'[g] = "idle"
<1> USE DEF TypeOK, OneBusy
<1>1. pc[h] # "idle" \/ Idle
  BY DEF HandlerStep, TakesLock, LockFree, StartRequest, StopRequest, SeqRead, SeqTruncate, SeqWrite,
         CheckStart, SetTaskConfig, RemoveAllTask, AddTask, LaunchTask, GenerateData,
         CheckStop, LockTasks, StopFlag, ClientsClosed, CloseStopC, UnlockTasks
<1>2. \A g \in Handlers : g # h => pc[g] = "idle"
  BY <1>1 DEF Idle
<1>3. \E l \in PCs : pc' = [pc EXCEPT ![h] = l]
  BY StepsAlone
<1>4. QED
  BY <1>2, <1>3

LEMMA OneBusyStep ==
  ASSUME Serial, TypeOK, OneBusy, [Next]_vars
  PROVE  OneBusy'
<1>1. ASSUME NEW h \in Handlers, HandlerStep(h) PROVE OneBusy'
  BY <1>1, OthersIdle DEF OneBusy
<1>2. CASE Dies
  BY <1>2 DEF Dies, OneBusy
<1>3. CASE UNCHANGED pc
  BY <1>3 DEF OneBusy
<1>4. QED
  BY <1>1, <1>2, <1>3 DEF Next, HandlerStep, LookupNil, OnlineTick, Quit, Crash, vars

-----------------------------------------------------------------------------
(* Batch numbers.                                                          *)

LEMMA AcceptedType ==
  ASSUME TypeOK
  PROVE  \A i \in DOMAIN accepted : accepted[i].seq \in Nat
<1> DEFINE S == [gen : 1 .. MaxStarts, seq : Nat]
<1>1. accepted \in Seq(S)
  BY DEF TypeOK
<1> HIDE DEF S
<1>2. \A i \in DOMAIN accepted : accepted[i] \in S
  BY <1>1
<1>3. QED
  BY <1>2 DEF S

LEMMA BatchStep ==
  ASSUME Serial, TypeInv, OneBusy, BatchInv, [Next]_vars
  PROVE  BatchInv'
<1> USE DEF TypeInv, TypeOK, BatchInv, Goto, files, shared, taskVars, locals, ghosts
<1>1. ASSUME NEW h \in Handlers, HandlerStep(h) PROVE BatchInv'
  <2> USE OthersIdle, <1>1
  <2>0. ASSUME UNCHANGED <<seqFile, seq, accepted>>, NEW l \in PCs, pc' = [pc EXCEPT ![h] = l],
               l \notin {"seqTrunc", "seqWrite", "checkStart", "setCfg"}
        PROVE  BatchInv'
    BY <2>0
  <2>1. CASE StartRequest(h)
    BY <2>1 DEF StartRequest
  <2>2. CASE SeqRead(h)
    <3>1. CASE seqFile = Torn /\ Respond(h, "panic") /\ UNCHANGED seq
      BY <2>0, <2>2, <3>1 DEF SeqRead, Respond, PCs
    <3>2. CASE seqFile # Torn /\ seq' = [seq EXCEPT ![h] = seqFile + 1] /\ Goto(h, "seqTrunc") /\ UNCHANGED resp
      <4>1. UNCHANGED <<seqFile, accepted>> /\ seq'[h] = seqFile + 1 /\ pc'[h] = "seqTrunc"
        BY <2>2, <3>2 DEF SeqRead
      <4>2. \A i \in DOMAIN accepted : accepted[i].seq < seqFile + 1
        BY <3>2, AcceptedType, SMTT(30)
      <4>4. QED
        BY <4>1, <4>2
    <3>3. QED
      BY <2>2, <3>1, <3>2 DEF SeqRead
  <2>3. CASE SeqTruncate(h)
    BY <2>3 DEF SeqTruncate
  <2>4. CASE SeqWrite(h)
    <3>1. UNCHANGED <<seq, accepted>> /\ seqFile' = seq[h] /\ pc'[h] = "checkStart"
      BY <2>4 DEF SeqWrite
    <3>2. \A i \in DOMAIN accepted : accepted[i].seq < seq[h] /\ accepted[i].seq \in Nat
      BY <2>4, AcceptedType DEF SeqWrite
    <3>3. \A i \in DOMAIN accepted : accepted[i].seq <= seq[h]
      BY <3>2
    <3>4. QED
      BY <3>1, <3>2, <3>3
  <2>5. CASE CheckStart(h)
    BY <2>5 DEF CheckStart, Respond
  <2>6. CASE SetTaskConfig(h)
    <3> DEFINE r == [gen |-> req[h].gen, seq |-> seq[h]]
    <3>1. UNCHANGED <<seqFile, seq>> /\ accepted' = Append(accepted, r) /\ pc'[h] = "clear" /\ seqFile = seq[h]
      BY <2>6 DEF SetTaskConfig
    <3>2. \A i \in DOMAIN accepted : accepted[i].seq < seq[h] /\ accepted[i].seq \in Nat
      BY <2>6, AcceptedType DEF SetTaskConfig
    <3>3. r.seq = seq[h] /\ seq[h] \in Nat
      OBVIOUS
    <3> HIDE DEF r
    <3>4. /\ DOMAIN accepted' = 1 .. (Len(accepted) + 1) /\ DOMAIN accepted = 1 .. Len(accepted)
          /\ Len(accepted) \in Nat
          /\ \A i \in DOMAIN accepted : accepted'[i] = accepted[i]
          /\ accepted'[Len(accepted) + 1] = r
      <4> DEFINE S == [gen : 1 .. MaxStarts, seq : Nat]
      <4>1. accepted \in Seq(S)
        BY DEF TypeOK
      <4> HIDE DEF S
      <4>2. accepted' = Append(accepted, r)
        BY ONLY <3>1
      <4> QED BY ONLY <4>1, <4>2, SMTT(30)
    <3>5. \A i \in DOMAIN accepted' : i \in DOMAIN accepted \/ i = Len(accepted) + 1
      BY ONLY <3>4
    <3>6. \A i \in DOMAIN accepted' : accepted'[i].seq <= seqFile
      <4> TAKE i \in DOMAIN accepted'
      <4>1. CASE i \in DOMAIN accepted
        BY ONLY <3>1, <3>2, <3>3, <3>4, <4>1
      <4>2. CASE i = Len(accepted) + 1
        BY ONLY <3>1, <3>3, <3>4, <4>2
      <4> QED BY ONLY <3>5, <4>1, <4>2, i \in DOMAIN accepted'
    <3>7. \A i, j \in DOMAIN accepted' : i < j => accepted'[i].seq < accepted'[j].seq
      <4> SUFFICES ASSUME NEW i \in DOMAIN accepted', NEW j \in DOMAIN accepted', i < j
                   PROVE  accepted'[i].seq < accepted'[j].seq
        OBVIOUS
      <4>1. i \in DOMAIN accepted
        BY <3>4
      <4>2. CASE j \in DOMAIN accepted
        BY <3>4, <4>1, <4>2
      <4>3. CASE j = Len(accepted) + 1
        BY <3>2, <3>3, <3>4, <4>1, <4>3
      <4>4. QED
        BY <3>5, <4>2, <4>3
    <3>8. QED
      BY <3>1, <3>6, <3>7
  <2>7. CASE RemoveAllTask(h)
    BY <2>7 DEF RemoveAllTask
  <2>8. CASE AddTask(h)
    BY <2>8 DEF AddTask
  <2>9. CASE LaunchTask(h)
    <3>1. \E l \in {"pairs", "idle", "add"} : pc' = [pc EXCEPT ![h] = l]
      BY <2>9 DEF LaunchTask, BeginLoop, Respond
    <3>2. UNCHANGED <<seqFile, seq, accepted>>
      BY <2>9 DEF LaunchTask
    <3>3. QED
      BY <2>0, <3>1, <3>2 DEF PCs
  <2>10. CASE GenerateData(h)
    <3>1. \E l \in {"idle", "add"} : pc' = [pc EXCEPT ![h] = l]
      BY <2>10 DEF GenerateData, BeginLoop, Respond
    <3>2. UNCHANGED <<seqFile, seq, accepted>>
      BY <2>10 DEF GenerateData
    <3>3. QED
      BY <2>0, <3>1, <3>2 DEF PCs
  <2>11. CASE StopRequest(h)
    BY <2>11 DEF StopRequest
  <2>12. CASE CheckStop(h)
    <3>1. \E l \in {"idle", "lock"} : pc' = [pc EXCEPT ![h] = l]
      BY <2>12 DEF CheckStop, Respond
    <3>2. UNCHANGED <<seqFile, seq, accepted>>
      BY <2>12 DEF CheckStop
    <3>3. QED
      BY <2>0, <3>1, <3>2 DEF PCs
  <2>13. CASE LockTasks(h)
    BY <2>13 DEF LockTasks
  <2>14. CASE StopFlag(h) \/ ClientsClosed(h)
    <3>1. \E l \in {"clients", "close"} : pc' = [pc EXCEPT ![h] = l]
      BY <2>14 DEF StopFlag, ClientsClosed
    <3>2. UNCHANGED <<seqFile, seq, accepted>>
      BY <2>14 DEF StopFlag, ClientsClosed
    <3>3. QED
      BY <2>0, <3>1, <3>2 DEF PCs
  <2>15. CASE CloseStopC(h)
    <3>1. \E l \in {"idle", "stop"} : pc' = [pc EXCEPT ![h] = l]
      BY <2>15 DEF CloseStopC, Respond
    <3>2. UNCHANGED <<seqFile, seq, accepted>>
      BY <2>15 DEF CloseStopC
    <3>3. QED
      BY <2>0, <3>1, <3>2 DEF PCs
  <2>16. CASE UnlockTasks(h)
    BY <2>16 DEF UnlockTasks, Respond
  <2>17. QED
    BY <2>1, <2>2, <2>3, <2>4, <2>5, <2>6, <2>7, <2>8, <2>9, <2>10, <2>11, <2>12, <2>13, <2>14, <2>15, <2>16 DEF HandlerStep, TakesLock, LockFree
<1>2. CASE Dies
  BY <1>2 DEF Dies
<1>3. CASE UNCHANGED <<seqFile, seq, accepted, pc>>
  BY <1>3
<1>4. QED
  BY <1>1, <1>2, <1>3 DEF Next, HandlerStep, LookupNil, OnlineTick, Quit, Crash, vars
-----------------------------------------------------------------------------
(* The lock and the list of tasks.                                         *)

\* With any number of requests at a time.
LEMMA LockStep ==
  ASSUME TypeInv, LockHeld, [Next]_vars
  PROVE  LockHeld'
<1> USE ServerAssumption DEF LockHeld, Goto, Respond, files, shared, taskVars, locals, ghosts
<1>1. ASSUME NEW h \in Handlers, HandlerStep(h) PROVE LockHeld'
  <2>0. /\ \A g \in Handlers : g # h => pc'[g] = pc[g]
        /\ \A l : pc' = [pc EXCEPT ![h] = l] => pc'[h] = l
    BY <1>1, StepsAlone DEF TypeInv, TypeOK
  <2>1. CASE LockTasks(h)
    <3>1. tasksLock = Free /\ tasksLock' = h /\ pc'[h] = "stop"
      BY <2>0, <2>1 DEF LockTasks
    <3>2. QED
      BY <2>0, <3>1
  <2>2. CASE CloseStopC(h) \/ UnlockTasks(h)
    <3>1. tasksLock = h
      BY <2>2 DEF CloseStopC, UnlockTasks
    <3>2. \/ tasksLock' = Free /\ pc'[h] = "idle"
          \/ tasksLock' = tasksLock /\ pc'[h] = "stop"
      BY <2>0, <2>2 DEF CloseStopC, UnlockTasks
    <3>3. QED
      BY <2>0, <3>1, <3>2, Zenon
  <2>3. CASE StopFlag(h) \/ ClientsClosed(h)
    <3>1. tasksLock' = tasksLock /\ pc[h] \in {"stop", "clients"} /\ pc'[h] \in {"clients", "close"}
      BY <2>0, <2>3 DEF StopFlag, ClientsClosed
    <3>2. QED
      BY <2>0, <3>1
  <2>4. ASSUME UNCHANGED tasksLock, pc[h] \notin {"stop", "clients", "close"}, pc'[h] \notin {"stop", "clients", "close"}
        PROVE  LockHeld'
    BY <2>0, <2>4
  <2>5. CASE StartRequest(h) \/ StopRequest(h) \/ SeqRead(h) \/ SeqTruncate(h) \/ SeqWrite(h) \/ CheckStart(h)
             \/ SetTaskConfig(h) \/ RemoveAllTask(h) \/ AddTask(h) \/ CheckStop(h)
    BY <2>0, <2>4, <2>5 DEF StartRequest, StopRequest, SeqRead, SeqTruncate, SeqWrite, CheckStart,
       SetTaskConfig, RemoveAllTask, AddTask, CheckStop
  <2>6. CASE LaunchTask(h) \/ GenerateData(h)
    BY <2>0, <2>4, <2>6 DEF LaunchTask, GenerateData, BeginLoop
  <2>7. QED
    BY <1>1, <2>1, <2>2, <2>3, <2>5, <2>6 DEF HandlerStep, TakesLock, LockFree
<1>2. CASE Dies
  BY <1>2 DEF Dies
<1>3. CASE UNCHANGED <<tasksLock, pc>>
  BY <1>3
<1>4. QED
  BY <1>1, <1>2, <1>3 DEF Next, HandlerStep, LookupNil, OnlineTick, Quit, Crash, vars

\* It is enough to look at the handler that moves.
LEMMA TaskInvOf ==
  ASSUME NEW h \in Handlers, \A g \in Handlers : g # h => pc'[g] = "idle",
         NotYet', ListInv', Settled(h)' => Whole', BeginInv(h)', EndInv(h)'
  PROVE  TaskInv'
<1>1. ASSUME NEW g \in Handlers PROVE BeginInv(g)' /\ EndInv(g)'
  BY DEF BeginInv, EndInv, InLoop
<1>2. QED
  BY <1>1 DEF TaskInv

LEMMA RegisteredType ==
  ASSUME TypeOK
  PROVE  /\ Registered \subseteq TaskId
         /\ DOMAIN tasks = 1 .. Len(tasks) /\ Len(tasks) \in Nat
         /\ \A i \in DOMAIN tasks : tasks[i] \in Registered /\ tasks[i] \in TaskId
         /\ tasks # <<>> <=> Registered # {}
<1>1. tasks \in Seq(TaskId)
  BY DEF TypeOK
<1>2. DOMAIN tasks = 1 .. Len(tasks) /\ Len(tasks) \in Nat
  BY <1>1
<1>3. \A i \in DOMAIN tasks : tasks[i] \in TaskId
  BY <1>1
<1>4. tasks # <<>> => 1 \in DOMAIN tasks
  BY <1>1, <1>2
<1>5. tasks = <<>> => DOMAIN tasks = {}
  OBVIOUS
<1>6. QED
  BY <1>2, <1>3, <1>4, <1>5 DEF Registered

\* Steps that leave the tasks alone.
LEMMA Quiet ==
  ASSUME UNCHANGED <<tasks, running, stopped, loop>>
  PROVE  /\ Registered' = Registered /\ (IsRunning' <=> IsRunning) /\ (HasOnline' <=> HasOnline)
         /\ \A t \in TaskId : (Alive(t)' <=> Alive(t)) /\ (Over(t)' <=> Over(t))
                              /\ (Untouched(t)' <=> Untouched(t))
         /\ ListInv /\ nGen \in Nat /\ nGen' \in Nat /\ nGen <= nGen' /\ Registered \subseteq TaskId => ListInv'
         /\ taskStartTime' = taskStartTime /\ Whole => Whole'
<1>1. Registered' = Registered /\ (IsRunning' <=> IsRunning) /\ (HasOnline' <=> HasOnline)
  BY DEF Registered, IsRunning, HasOnline
<1>2. \A t : (Alive(t)' <=> Alive(t)) /\ (Over(t)' <=> Over(t)) /\ (Untouched(t)' <=> Untouched(t))
  BY DEF Alive, Over, Untouched
<1>3. ListInv /\ nGen \in Nat /\ nGen' \in Nat /\ nGen <= nGen' /\ Registered \subseteq TaskId => ListInv'
  <2> SUFFICES ASSUME ListInv, nGen \in Nat, nGen' \in Nat, nGen <= nGen', Registered \subseteq TaskId PROVE ListInv'
    OBVIOUS
  <2>1. \A t \in Registered : t[1] <= nGen'
    BY DEF ListInv, TaskId
  <2>2. QED
    BY <1>1, <2>1 DEF ListInv
<1>4. taskStartTime' = taskStartTime /\ Whole => Whole'
  BY <1>1, <1>2 DEF Whole
<1>5. QED
  BY <1>1, <1>2, <1>3, <1>4

\* The start of a loop ends the start of its task: all tasks listed run.
LEMMA LoopBegun ==
  ASSUME Serial, TypeInv, TaskInv, NEW h \in Handlers,
         \A g \in Handlers : g # h => pc[g] = "idle" /\ pc'[g] = "idle",
         pc[h] \in {"launch", "pairs"}, BeginLoop(h),
         running' = [running EXCEPT ![StartTask(h)] = TRUE],
         UNCHANGED <<tasks, taskStartTime, stopped, req, nGen>>
  PROVE  TaskInv'
<1> DEFINE s == StartTask(h)
<1> USE DEF TypeInv, TypeOK
<1>1. s \in TaskId /\ s \in Registered /\ s[1] = req[h].gen /\ s[2] = at[h] /\ at[h] \in Slots /\ req[h].gen = nGen
  BY StartTaskType DEF TaskInv, BeginInv, StartTask, InLoop, StartOK, NotYet, Starting
<1>2. loop' = [loop EXCEPT ![s] = "wait"] /\ \A t \in TaskId : t # s => loop'[t] = loop[t] /\ running'[t] = running[t]
  BY <1>1 DEF BeginLoop
<1>3. running'[s] /\ ~stopped'[s] /\ loop'[s] = "wait"
  BY <1>1, <1>2 DEF TaskInv, BeginInv
<1>4. Registered' = Registered /\ (HasOnline' <=> HasOnline) /\ HasOnline /\ taskStartTime'
  BY <1>1, RegisteredType DEF Registered, HasOnline, TaskInv, ListInv, BeginInv
<1>5. \A t \in Registered : Alive(t)' /\ t[1] = nGen /\ t[2] <= at[h]
  BY <1>1, <1>2, <1>3, <1>4, RegisteredType DEF TaskInv, BeginInv, Alive, InLoop
<1>6. \A t \in TaskId : t[1] > nGen \/ (t[1] = nGen /\ t[2] > at[h]) => Untouched(t)'
  <2> SUFFICES ASSUME NEW t \in TaskId, t[1] > nGen \/ (t[1] = nGen /\ t[2] > at[h])
               PROVE  Untouched(t)'
    OBVIOUS
  <2>1. t # s
    BY <1>1, SlotTypes
  <2>2. Untouched(t)
    <3>1. CASE t[1] > nGen
      BY <3>1 DEF TaskInv, NotYet
    <3>2. CASE t[1] = nGen /\ t[2] > at[h]
      <4>1. at[h] \in Nat /\ t[2] \in Nat
        BY <1>1, TaskIdType, SlotTypes
      <4>2. t[2] >= at[h]
        BY <3>2, <4>1
      <4>3. pc[h] \in Starting
        BY DEF Starting
      <4>4. QED
        BY <1>1, <3>2, <4>2, <4>3 DEF TaskInv, NotYet, InLoop
    <3>3. QED
      BY <3>1, <3>2
  <2>3. QED
    BY <1>2, <2>1, <2>2 DEF Untouched
<1>7. ListInv'
  <2>1. \A t \in TaskId : running'[t] \/ (loop'[t] = "wait" /\ ~stopped'[t]) => t \in Registered'
    BY <1>1, <1>2, <1>4 DEF TaskInv, ListInv
  <2>2. QED
    BY <1>4, <2>1 DEF TaskInv, ListInv
<1> HIDE DEF s
<1>8. CASE at[h] = Stats /\ Respond(h, "ok") /\ UNCHANGED at
  <2>1. pc'[h] = "idle" /\ \A g \in Handlers : pc'[g] = "idle"
    BY <1>8 DEF Respond, Goto
  <2>2. NotYet'
    BY <1>6, <2>1 DEF NotYet, Starting
  <2>3. IsRunning' /\ Whole'
    BY <1>1, <1>3, <1>4, <1>5 DEF Whole, IsRunning
  <2>4. BeginInv(h)' /\ EndInv(h)'
    BY <2>1 DEF BeginInv, EndInv, InLoop
  <2>5. QED
    BY <2>1, <2>2, <1>7, <2>3, <2>4, TaskInvOf
<1>9. CASE /\ \E n \in Left(h) : (\A m \in Left(h) : n <= m) /\ at' = [at EXCEPT ![h] = n]
           /\ Goto(h, "add")
           /\ UNCHANGED resp
  <2>1. PICK n \in Left(h) : at' = [at EXCEPT ![h] = n]
    BY <1>9
  <2>2. n > at[h] /\ at'[h] = n /\ pc'[h] = "add" /\ n \in Nat /\ at[h] \in Nat
    <3>1. Channels(h) \subseteq 1 .. NChan
      BY DEF Channels, Request
    <3>2. n \in Slots
      BY <3>1, <2>1, SlotTypes DEF Left
    <3>3. QED
      BY <3>2, <2>1, <1>9, SlotTypes DEF Left, Goto
  <2>3. \A t \in TaskId : t[1] \in Nat /\ t[2] \in Nat
    BY TaskIdType
  <2>4. NotYet'
    <3>1. \A t \in TaskId : t[1] > nGen' => Untouched(t)'
      BY <1>6
    <3>2. \A t \in TaskId : t[1] = nGen' /\ t[2] >= at'[h] => Untouched(t)'
      BY <1>6, <2>2, <2>3
    <3>3. QED
      BY <1>1, <2>2, <3>1, <3>2 DEF NotYet, Starting, InLoop
  <2>5. BeginInv(h)'
    <3>1. \A t \in Registered' : t[1] = nGen' /\ t[2] < at'[h] /\ Alive(t)'
      BY <1>4, <1>5, <2>2, <2>3, RegisteredType
    <3>2. QED
      BY <1>4, <2>2, <2>3, <3>1, RegisteredType DEF BeginInv, InLoop
  <2>6. EndInv(h)' /\ ~Settled(h)'
    BY <2>2 DEF EndInv, Settled
  <2>7. QED
    BY <2>4, <1>7, <2>5, <2>6, TaskInvOf
<1>10. QED
  BY <1>8, <1>9 DEF BeginLoop

\* Each step of the two handlers keeps the tasks and the list in order.
LEMMA TaskStep ==
  ASSUME Serial, TypeInv, OneBusy, LockHeld, TaskInv, NEW h \in Handlers, HandlerStep(h)
  PROVE  TaskInv'
<1> USE DEF TypeInv, TypeOK
<1>0. \A g \in Handlers : g # h => pc[g] = "idle" /\ pc'[g] = "idle"
  BY OthersIdle
<1>a. Settled(h) => Whole
  BY <1>0 DEF TaskInv, Settled
<1>b. nGen \in Nat /\ \A t \in Registered : t \in TaskId /\ t[1] \in Nat /\ t[2] \in Nat
  BY RegisteredType, TaskIdType
<1>1. CASE StartRequest(h)
  <2>1. UNCHANGED <<tasks, running, stopped, loop, taskStartTime>> /\ nGen' = nGen + 1 /\ pc[h] = "idle"
        /\ pc'[h] = "seqRead" /\ req'[h].gen = nGen'
    BY <1>1 DEF StartRequest, Goto, shared, taskVars
  <2>2. NotYet'
    <3>1. \A t \in TaskId : t[1] >= nGen' => Untouched(t)'
      BY <2>1, <1>b, Quiet, TaskIdType DEF TaskInv, NotYet
    <3>2. \A t \in TaskId : t[1] > nGen' \/ t[1] = nGen' => Untouched(t)'
      BY <3>1, <2>1, <1>b, TaskIdType
    <3>3. QED
      BY <3>2, <2>1, <1>0 DEF NotYet, Starting
  <2>3. ListInv' /\ Whole'
    BY <2>1, <1>b, <1>a, Quiet DEF TaskInv, Settled
  <2>4. BeginInv(h)' /\ EndInv(h)'
    BY <2>1 DEF BeginInv, EndInv, InLoop
  <2>5. QED
    BY <1>0, <2>2, <2>3, <2>4, TaskInvOf
<1>2. ASSUME UNCHANGED <<tasks, running, stopped, loop, taskStartTime, nGen, req>>, Settled(h), Settled(h)',
             pc'[h] \in Starting => pc[h] \in Starting
      PROVE  TaskInv'
  <2>1. NotYet'
    <3>1. pc[h] \notin InLoop /\ pc'[h] \notin InLoop
      BY <1>2 DEF Settled, InLoop
    <3>2. QED
      BY <1>0, <1>2, <3>1, Quiet DEF TaskInv, NotYet, Starting, InLoop
  <2>2. ListInv' /\ Whole'
    BY <1>2, <1>b, <1>a, Quiet DEF TaskInv
  <2>3. BeginInv(h)' /\ EndInv(h)'
    BY <1>2 DEF BeginInv, EndInv, InLoop, Settled
  <2>4. QED
    BY <1>0, <2>1, <2>2, <2>3, TaskInvOf
<1>3. CASE SeqRead(h) \/ SeqTruncate(h) \/ SeqWrite(h) \/ StopRequest(h)
  BY <1>2, <1>3 DEF SeqRead, SeqTruncate, SeqWrite, StopRequest, Settled, Starting, Goto, Respond, shared,
                    taskVars, locals, ghosts
<1>4. CASE CheckStart(h) \/ CheckStop(h)
  <2>1. UNCHANGED <<tasks, running, stopped, loop, taskStartTime, nGen, req>> /\ Settled(h)
    BY <1>4 DEF CheckStart, CheckStop, Settled, shared, taskVars, locals, ghosts
  <2>2. CASE Settled(h)'
    <3>1. pc'[h] = "idle"
      BY <1>4, <2>2 DEF CheckStart, CheckStop, Settled, Goto, Respond
    <3>2. QED
      BY <1>2, <2>1, <2>2, <3>1 DEF Starting
  <2>3. CASE ~Settled(h)'
    <3>1. \/ pc[h] = "checkStart" /\ pc'[h] = "setCfg" /\ ~IsRunning
          \/ pc[h] = "checkStop" /\ pc'[h] = "lock" /\ IsRunning
      BY <1>4, <2>3 DEF CheckStart, CheckStop, Settled, Goto, Respond
    <3>2. NotYet'
      BY <1>0, <2>1, <3>1, Quiet DEF TaskInv, NotYet, Starting, InLoop
    <3>3. ListInv' /\ Whole'
      BY <2>1, <1>b, <1>a, Quiet DEF TaskInv
    <3>4. BeginInv(h)' /\ EndInv(h)'
      <4>1. Registered' = Registered /\ \A t \in TaskId : (Alive(t)' <=> Alive(t)) /\ (Over(t)' <=> Over(t))
        BY <2>1, Quiet
      <4>2. CASE pc'[h] = "setCfg"
        <5>1. \A t \in Registered : Over(t)
          BY <2>1, <3>1, <4>2, <1>a DEF Whole, IsRunning, Alive
        <5>2. QED
          BY <1>b, <4>1, <4>2, <5>1 DEF BeginInv, EndInv, InLoop
      <4>3. CASE pc'[h] = "lock"
        <5>1. (\A t \in Registered : Alive(t)) /\ taskStartTime /\ tasks # <<>>
          BY <2>1, <3>1, <4>3, <1>a, RegisteredType DEF Whole, IsRunning, Over
        <5>2. QED
          BY <1>b, <2>1, <4>1, <4>3, <5>1 DEF BeginInv, EndInv, InLoop
      <4>4. QED
        BY <3>1, <4>2, <4>3
    <3>5. QED
      BY <1>0, <2>3, <3>2, <3>3, <3>4, TaskInvOf
  <2>4. QED
    BY <2>2, <2>3
<1>5. CASE SetTaskConfig(h)
  <2>1. UNCHANGED <<tasks, running, stopped, loop, nGen, req>> /\ taskStartTime' /\ pc[h] = "setCfg" /\ pc'[h] = "clear"
    BY <1>5 DEF SetTaskConfig, Goto, taskVars, locals
  <2>2. NotYet'
    BY <1>0, <2>1, Quiet DEF TaskInv, NotYet, Starting, InLoop
  <2>3. ListInv'
    BY <2>1, <1>b, Quiet DEF TaskInv
  <2>4. BeginInv(h)' /\ EndInv(h)' /\ ~Settled(h)'
    BY <2>1, <1>b, Quiet DEF TaskInv, BeginInv, EndInv, InLoop, Settled
  <2>5. QED
    BY <1>0, <2>2, <2>3, <2>4, TaskInvOf
<1>6. CASE RemoveAllTask(h)
  <2>1. UNCHANGED <<running, stopped, loop, nGen, req, taskStartTime>> /\ tasks' = <<>> /\ pc[h] = "clear"
        /\ pc'[h] = "add" /\ at'[h] = Online
    BY <1>6 DEF RemoveAllTask, Goto, taskVars, ghosts
  <2>2. Registered' = {} /\ DOMAIN tasks' = {}
    BY <2>1 DEF Registered
  <2>3. NotYet'
    BY <1>0, <2>1, ZenonT(60) DEF TaskInv, NotYet, Starting, InLoop, Untouched
  <2>4. \A t \in Registered : ~running[t] /\ stopped[t]
    BY <2>1 DEF TaskInv, BeginInv, Over
  <2>5. ListInv'
    BY <2>1, <2>2, <2>4 DEF TaskInv, ListInv
  <2>6. BeginInv(h)' /\ EndInv(h)' /\ ~Settled(h)'
    BY <2>1, <2>2 DEF TaskInv, BeginInv, EndInv, InLoop, Settled
  <2>7. QED
    BY <1>0, <2>3, <2>5, <2>6, TaskInvOf
<1>7. CASE AddTask(h)
  <2> DEFINE s == StartTask(h)
  <2>1. UNCHANGED <<running, stopped, loop, nGen, req, at, taskStartTime>> /\ tasks' = Append(tasks, s) /\ pc[h] = "add"
        /\ pc'[h] = "launch"
    BY <1>7 DEF AddTask, Goto, taskVars, locals, ghosts
  <2>2. s \in TaskId /\ s[1] = nGen /\ s[2] = at[h] /\ s' = s
    BY <2>1, StartTaskType DEF StartTask, InLoop, TaskInv, NotYet, Starting
  <2>3. Untouched(s) /\ s \notin Registered
    BY <2>1, <2>2, <1>b, TaskIdType DEF TaskInv, NotYet, BeginInv, InLoop, Starting
  <2> HIDE DEF s
  <2>4. /\ DOMAIN tasks' = 1 .. (Len(tasks) + 1)
        /\ \A i \in DOMAIN tasks : tasks'[i] = tasks[i]
        /\ tasks'[Len(tasks) + 1] = s
        /\ \A i \in DOMAIN tasks' : i \in DOMAIN tasks \/ i = Len(tasks) + 1
        /\ DOMAIN tasks \subseteq DOMAIN tasks'
        /\ Len(tasks) + 1 \in DOMAIN tasks'
    BY <2>1, <2>2, RegisteredType
  <2>5. Registered' = Registered \cup {s}
    BY <2>4 DEF Registered
  <2>6. NotYet'
    <3>1. \A t : Untouched(t)' <=> Untouched(t)
      BY <2>1 DEF Untouched
    <3>2. \A t \in TaskId : t[2] > at[h] => t[2] >= at[h]
      BY TaskIdType
    <3>3. QED
      BY <1>0, <2>1, <3>1, <3>2 DEF TaskInv, NotYet, Starting, InLoop
  <2>7. ListInv'
    <3>1. \A i, j \in DOMAIN tasks' : tasks'[i] = tasks'[j] => i = j
      BY <2>3, <2>4, RegisteredType DEF TaskInv, ListInv
    <3>2. HasOnline'
      <4>1. CASE at[h] = Online
        BY <2>2, <2>5, <4>1 DEF HasOnline
      <4>2. CASE at[h] # Online
        BY <2>1, <2>5, <4>2 DEF HasOnline, TaskInv, BeginInv
      <4>3. QED
        BY <4>1, <4>2
    <3>3. \A t \in Registered' : t[1] <= nGen'
      BY <1>b, <2>1, <2>2, <2>5 DEF TaskInv, ListInv
    <3>4. \A t \in TaskId : running'[t] \/ (loop'[t] = "wait" /\ ~stopped'[t]) => t \in Registered'
      BY <2>1, <2>5 DEF TaskInv, ListInv
    <3>5. QED
      BY <3>1, <3>2, <3>3, <3>4 DEF ListInv
  <2>8. BeginInv(h)'
    <3>1. \A t \in Registered : Alive(t) /\ t[1] = nGen /\ t[2] <= at[h]
      BY <2>1 DEF TaskInv, BeginInv, InLoop
    <3>2. at[h] \in Nat
      OBVIOUS
    <3>3. \A t \in Registered' : t[1] = nGen /\ t[2] <= at[h] /\ (t # s => Alive(t)')
      BY <2>1, <2>2, <2>5, <3>1, <3>2 DEF Alive
    <3>4. s' \in Registered' /\ ~stopped'[s] /\ ~running'[s] /\ taskStartTime'
      BY <2>1, <2>2, <2>3, <2>5 DEF Untouched, TaskInv, BeginInv
    <3>5. QED
      BY <2>1, <2>2, <3>3, <3>4 DEF BeginInv, InLoop, s
  <2>9. EndInv(h)' /\ ~Settled(h)'
    BY <2>1 DEF EndInv, Settled
  <2>10. QED
    BY <1>0, <2>6, <2>7, <2>8, <2>9, TaskInvOf
<1>8. CASE LaunchTask(h)
  <2>1. CASE at[h] # P2p
    BY <1>0, <1>8, <2>1, LoopBegun DEF LaunchTask, shared, ghosts
  <2>2. CASE at[h] = P2p
    <3> DEFINE s == StartTask(h)
    <3>1. UNCHANGED <<tasks, stopped, loop, nGen, req, at, taskStartTime>> /\ pc[h] = "launch" /\ pc'[h] = "pairs"
          /\ running' = [running EXCEPT ![s] = TRUE]
      BY <1>8, <2>2, SlotTypes DEF LaunchTask, Goto, shared, ghosts, BeginLoop, Respond
    <3>2. s \in Registered /\ s' = s /\ s[1] = nGen /\ s[2] = at[h] /\ Registered' = Registered /\ at[h] \in Nat
      <4>1. s \in Registered /\ s' = s
        BY <3>1 DEF TaskInv, BeginInv, StartTask
      <4>2. s[1] = nGen /\ s[2] = at[h]
        BY <3>1 DEF StartTask, TaskInv, NotYet, Starting
      <4>3. QED
        BY <3>1, <4>1, <4>2 DEF Registered
    <3> HIDE DEF s
    <3>3. running'[s] /\ \A t \in TaskId : t # s => running'[t] = running[t]
      BY <3>1, <3>2, RegisteredType
    <3>4. NotYet'
      <4>1. \A t \in TaskId : Untouched(t) /\ t # s => Untouched(t)'
        BY <3>1, <3>3 DEF Untouched
      <4>2. \A t \in TaskId : t[1] > nGen \/ (t[1] = nGen /\ t[2] > at[h]) => t # s
        BY <3>2, <1>b
      <4>3. QED
        BY <1>0, <3>1, <4>1, <4>2 DEF TaskInv, NotYet, Starting, InLoop
    <3>5. ListInv'
      BY <3>1, <3>2, <3>3 DEF TaskInv, ListInv, HasOnline
    <3>6. BeginInv(h)'
      <4>1. \A t \in Registered' : t # s => Alive(t)'
        BY <3>1, <3>2, <3>3, <1>b DEF TaskInv, BeginInv, Alive, s
      <4>2. ~stopped'[s] /\ taskStartTime'
        BY <3>1, <3>2 DEF TaskInv, BeginInv, s
      <4>3. \A t \in Registered' : t[1] = nGen' /\ t[2] <= at'[h]
        BY <3>1, <3>2 DEF TaskInv, BeginInv, InLoop
      <4>4. QED
        BY <3>1, <3>2, <3>3, <4>1, <4>2, <4>3 DEF BeginInv, InLoop, s
    <3>7. EndInv(h)' /\ ~Settled(h)'
      BY <3>1 DEF EndInv, Settled
    <3>8. QED
      BY <1>0, <3>4, <3>5, <3>6, <3>7, TaskInvOf
  <2>3. QED
    BY <2>1, <2>2
<1>9. CASE GenerateData(h)
  <2>1. pc[h] = "pairs" /\ UNCHANGED <<tasks, taskStartTime, running, stopped, req, nGen>>
    BY <1>9 DEF GenerateData, shared, ghosts
  <2>2. HasOnline /\ running[StartTask(h)]
    BY <2>1, RegisteredType DEF TaskInv, BeginInv, ListInv
  <2>3. BeginLoop(h)
    BY <1>9, <2>2 DEF GenerateData
  <2>4. running' = [running EXCEPT ![StartTask(h)] = TRUE]
    BY <2>1, <2>2
  <2>5. QED
    BY <1>0, <2>1, <2>3, <2>4, LoopBegun
<1>10. CASE LockTasks(h)
  <2>1. UNCHANGED <<tasks, running, stopped, loop, nGen, req>> /\ ~taskStartTime' /\ pc[h] = "lock" /\ pc'[h] = "stop"
        /\ at'[h] = 1
    BY <1>10 DEF LockTasks, Goto, taskVars, ghosts
  <2>2. NotYet' /\ ListInv' /\ BeginInv(h)' /\ ~Settled(h)'
    <3>1. NotYet'
      BY <1>0, <2>1, Quiet DEF TaskInv, NotYet, Starting
    <3>2. ListInv'
      BY <1>b, <2>1, Quiet DEF TaskInv
    <3>3. QED
      BY <2>1, <3>1, <3>2 DEF BeginInv, InLoop, Settled
  <2>3. \A i \in DOMAIN tasks : Alive(tasks[i])'
    BY <2>1, Quiet, RegisteredType DEF TaskInv, EndInv
  <2>4. EndInv(h)'
    BY <2>1, <2>3, RegisteredType DEF EndInv, Alive
  <2>5. QED
    BY <1>0, <2>2, <2>4, TaskInvOf
<1>11. CASE StopFlag(h) \/ CloseStopC(h)
  <2> DEFINE a == at[h]
             t == tasks[a]
  <2>1. a \in DOMAIN tasks /\ t \in TaskId /\ t \in Registered /\ a \in Nat /\ ~stopped[t]
        /\ UNCHANGED <<tasks, taskStartTime, loop, req, nGen>>
        /\ \A i \in DOMAIN tasks : tasks[i] \in TaskId /\ (i # a => tasks[i] # t)
    BY <1>11, RegisteredType DEF StopFlag, CloseStopC, TaskInv, EndInv, ListInv, shared, locals, ghosts, Alive
  <2>2. \/ /\ pc[h] = "stop" /\ pc'[h] \in {"clients", "close"} /\ at'[h] = a
           /\ running' = [running EXCEPT ![t] = FALSE] /\ stopped' = stopped
        \/ /\ pc[h] = "close" /\ pc'[h] = "stop" /\ at'[h] = a + 1
           /\ stopped' = [stopped EXCEPT ![t] = TRUE] /\ running' = running
    <3>1. CASE StopFlag(h)
      BY <3>1 DEF StopFlag, Goto, locals
    <3>2. CASE CloseStopC(h)
      <4>1. stopped' = [stopped EXCEPT ![t] = TRUE] /\ at' = [at EXCEPT ![h] = @ + 1] /\ Goto(h, "stop")
            /\ UNCHANGED running /\ pc[h] = "close"
        BY <3>2, <2>1 DEF CloseStopC
      <4>2. QED
        BY <4>1 DEF Goto
    <3>3. QED
      BY <1>11, <3>1, <3>2
  <2> HIDE DEF a, t
  <2>3. /\ Registered' = Registered /\ (HasOnline' <=> HasOnline)
        /\ \A u \in TaskId : u # t => running'[u] = running[u] /\ stopped'[u] = stopped[u]
        /\ running'[t] => running[t]
        /\ stopped[t] => stopped'[t]
    BY <2>1, <2>2 DEF Registered, HasOnline
  <2>4. NotYet'
    <3>1. t[1] <= nGen
      BY <2>1 DEF TaskInv, ListInv
    <3>2. \A u \in TaskId : u[1] > nGen => u # t
      BY <3>1, <1>b, <2>1
    <3>3. pc'[h] \notin Starting
      BY <2>2 DEF Starting
    <3>4. QED
      BY <1>0, <2>1, <2>3, <3>2, <3>3 DEF TaskInv, NotYet, Untouched, Starting
  <2>5. ListInv'
    BY <2>1, <2>3 DEF TaskInv, ListInv
  <2>6. BeginInv(h)' /\ ~Settled(h)'
    BY <2>2 DEF BeginInv, InLoop, Settled
  <2>7. EndInv(h)'
    <3>1. a \in Nat \ {0} /\ ~taskStartTime'
      BY <2>1, <2>2 DEF TaskInv, EndInv, a
    <3>a. \A i \in DOMAIN tasks : (i < a => Over(tasks[i])) /\ (i > a => Alive(tasks[i]))
      BY <2>2 DEF TaskInv, EndInv, a
    <3>b. \A i \in DOMAIN tasks : i < a \/ i > a => i # a
      BY <2>1, RegisteredType
    <3>c. \A i \in DOMAIN tasks : i # a =>
            running'[tasks[i]] = running[tasks[i]] /\ stopped'[tasks[i]] = stopped[tasks[i]] /\ tasks'[i] = tasks[i]
      BY <2>1, <2>3
    <3>2. \A i \in DOMAIN tasks : i < a => Over(tasks[i])'
      BY <3>a, <3>b, <3>c DEF Over
    <3>3. \A i \in DOMAIN tasks : i > a => Alive(tasks[i])'
      BY <3>a, <3>b, <3>c DEF Alive
    <3>4. CASE pc'[h] \in {"clients", "close"}
      <4>1. ~running'[t] /\ ~stopped'[t]
        BY <2>1, <2>2, <3>4
      <4>2. QED
        BY <2>1, <2>2, <3>1, <3>2, <3>3, <3>4, <4>1 DEF EndInv, t
    <3>5. CASE pc'[h] = "stop"
      <4>1. ~running'[t] /\ stopped'[t]
        <5>1. ~running[t] /\ pc[h] = "close"
          BY <2>2, <3>5 DEF TaskInv, EndInv, t, a
        <5>2. QED
          BY <2>1, <2>2, <5>1
      <4>2. \A i \in DOMAIN tasks : (i < a + 1 => Over(tasks[i])') /\ (i >= a + 1 => Alive(tasks[i])')
        <5> SUFFICES ASSUME NEW i \in DOMAIN tasks
                     PROVE  (i < a + 1 => Over(tasks[i])') /\ (i >= a + 1 => Alive(tasks[i])')
          OBVIOUS
        <5>1. i \in Nat /\ a \in Nat
          BY <2>1, RegisteredType
        <5>2. i = a => Over(tasks[i])'
          BY <2>1, <4>1 DEF t, Over
        <5>3. QED
          BY <3>2, <3>3, <5>1, <5>2
      <4>3. QED
        BY <2>1, <2>2, <3>1, <3>5, <4>2, RegisteredType DEF EndInv
    <3>6. QED
      BY <2>2, <3>4, <3>5
  <2>8. QED
    BY <1>0, <2>4, <2>5, <2>6, <2>7, TaskInvOf
<1>11a. CASE ClientsClosed(h)
  <2>1. UNCHANGED <<tasks, running, stopped, loop, nGen, req, taskStartTime, at>>
        /\ pc[h] = "clients" /\ pc'[h] = "close"
    BY <1>11a DEF ClientsClosed, Goto, shared, taskVars, ghosts, locals
  <2>2. NotYet' /\ ListInv' /\ BeginInv(h)' /\ ~Settled(h)'
    <3>1. NotYet'
      BY <1>0, <2>1, Quiet DEF TaskInv, NotYet, Starting
    <3>2. ListInv'
      BY <1>b, <2>1, Quiet DEF TaskInv
    <3>3. QED
      BY <2>1, <3>1, <3>2 DEF BeginInv, InLoop, Settled
  <2>3. EndInv(h)'
    BY <2>1 DEF TaskInv, EndInv, Over, Alive
  <2>4. QED
    BY <1>0, <2>2, <2>3, TaskInvOf
<1>12. CASE UnlockTasks(h)
  <2>1. UNCHANGED <<tasks, running, stopped, loop, nGen, req, taskStartTime>> /\ pc[h] = "stop" /\ pc'[h] = "idle"
        /\ at[h] \notin DOMAIN tasks
    BY <1>12 DEF UnlockTasks, Goto, Respond, taskVars, ghosts, locals
  <2>2. NotYet' /\ ListInv' /\ BeginInv(h)' /\ EndInv(h)'
    <3>1. NotYet'
      BY <1>0, <2>1, Quiet DEF TaskInv, NotYet, Starting
    <3>2. ListInv'
      BY <1>b, <2>1, Quiet DEF TaskInv
    <3>3. QED
      BY <2>1, <3>1, <3>2 DEF BeginInv, EndInv, InLoop
  <2>3. Whole'
    <3>1. \A i \in DOMAIN tasks : Over(tasks[i])
      BY <2>1, RegisteredType DEF TaskInv, EndInv
    <3>2. \A t \in Registered : Over(t)
      BY <3>1 DEF Registered
    <3>3. ~IsRunning /\ ~taskStartTime
      BY <2>1, <3>2 DEF IsRunning, Over, TaskInv, EndInv
    <3>4. Whole
      BY <3>2, <3>3 DEF Whole
    <3>5. QED
      BY <2>1, <3>4, Quiet
  <2>4. QED
    BY <1>0, <2>2, <2>3, TaskInvOf
<1>13. QED
  BY <1>1, <1>3, <1>4, <1>5, <1>6, <1>7, <1>8, <1>9, <1>10, <1>11, <1>11a, <1>12 DEF HandlerStep, TakesLock, LockFree

\* The loops and the end of the process keep them too.
LEMMA TaskStepOther ==
  ASSUME TypeInv, TaskInv,
         (\E t \in TaskId : OnlineTick(t) \/ Quit(t)) \/ Dies \/ UNCHANGED vars
  PROVE  TaskInv'
<1> USE DEF TypeInv, TypeOK
<1>b. nGen \in Nat /\ \A t \in Registered : t \in TaskId
  BY RegisteredType
<1>1. ASSUME NEW t \in TaskId, OnlineTick(t) \/ Quit(t) PROVE TaskInv'
  <2>1. UNCHANGED <<tasks, running, stopped, taskStartTime, pc, req, at, nGen>> /\ loop[t] = "wait"
        /\ loop' = [loop EXCEPT ![t] = "gone"]
    BY <1>1 DEF OnlineTick, Quit, shared, locals, ghosts
  <2>2. \A u \in TaskId : (Untouched(u) => Untouched(u)') /\ (loop'[u] = "wait" => loop[u] = "wait")
    BY <2>1 DEF Untouched
  <2>3. NotYet'
    BY <2>1, <2>2 DEF TaskInv, NotYet
  <2>4. ListInv'
    BY <2>1, <2>2 DEF TaskInv, ListInv, Registered, HasOnline
  <2>5. ((\A h \in Handlers : Settled(h)) => Whole) => ((\A h \in Handlers : Settled(h)) => Whole)'
    BY <2>1 DEF Settled, Whole, Registered, IsRunning, Alive, Over
  <2>6. ASSUME NEW h \in Handlers PROVE BeginInv(h)' /\ EndInv(h)'
    <3>1. BeginInv(h) => BeginInv(h)'
      BY <2>1 DEF BeginInv, Registered, Alive, Over, HasOnline, StartTask
    <3>2. EndInv(h) => EndInv(h)'
      BY <2>1 DEF EndInv, Registered, Alive, Over
    <3>3. QED
      BY <3>1, <3>2 DEF TaskInv
  <2>7. QED
    BY <2>3, <2>4, <2>5, <2>6 DEF TaskInv
<1>2. CASE Dies
  <2>1. Registered' = {} /\ DOMAIN tasks' = {} /\ ~taskStartTime' /\ tasks' = <<>>
    BY <1>2 DEF Dies, Registered
  <2>2. \A t \in TaskId : ~running'[t] /\ ~stopped'[t] /\ loop'[t] = "none"
    BY <1>2 DEF Dies
  <2>3. \A h \in Handlers : pc'[h] = "idle"
    BY <1>2 DEF Dies
  <2>4. NotYet' /\ ListInv'
    BY <2>1, <2>2, <2>3 DEF NotYet, ListInv, Untouched, Starting
  <2>5. Whole'
    BY <2>1 DEF Whole, IsRunning
  <2>6. \A h \in Handlers : BeginInv(h)' /\ EndInv(h)'
    BY <2>3 DEF BeginInv, EndInv, InLoop
  <2>7. QED
    BY <2>4, <2>5, <2>6 DEF TaskInv
<1>3. CASE UNCHANGED vars
  <2>1. UNCHANGED <<tasks, running, stopped, loop, taskStartTime, pc, req, at, nGen>>
    BY <1>3 DEF vars, shared, taskVars, locals, ghosts
  <2>2. NotYet' /\ ListInv'
    BY <1>b, <2>1, Quiet DEF TaskInv, NotYet
  <2>3. ((\A h \in Handlers : Settled(h)) => Whole) => ((\A h \in Handlers : Settled(h)) => Whole)'
    BY <2>1, Quiet DEF Settled
  <2>4. ASSUME NEW h \in Handlers PROVE BeginInv(h)' /\ EndInv(h)'
    <3>1. BeginInv(h) => BeginInv(h)'
      BY <2>1 DEF BeginInv, Registered, Alive, Over, HasOnline, StartTask
    <3>2. EndInv(h) => EndInv(h)'
      BY <2>1 DEF EndInv, Registered, Alive, Over
    <3>3. QED
      BY <3>1, <3>2 DEF TaskInv
  <2>5. QED
    BY <2>2, <2>3, <2>4 DEF TaskInv
<1>4. QED
  BY <1>1, <1>2, <1>3

\* With one request at a time the strengthened invariant is inductive.
THEOREM Inductive == Serial => (Spec => [](TypeOK /\ IInv))
<1> SUFFICES ASSUME Serial PROVE Spec => [](TypeOK /\ IInv)
  OBVIOUS
<1>1. Init => TypeInv /\ IInv
  <2> SUFFICES ASSUME Init PROVE TypeInv /\ IInv
    OBVIOUS
  <2>1. TypeInv
    BY InitTyped
  <2>2. Registered = {} /\ DOMAIN tasks = {} /\ DOMAIN accepted = {}
    BY DEF Init, Registered
  <2>3. OneBusy /\ LockHeld
    BY ServerAssumption DEF Init, OneBusy, LockHeld
  <2>4. BatchInv
    BY <2>2 DEF Init, BatchInv
  <2>5. NotYet /\ ListInv
    BY <2>2 DEF Init, NotYet, ListInv, Untouched, Starting
  <2>6. Whole
    BY <2>2 DEF Init, Whole, IsRunning
  <2>7. \A h \in Handlers : BeginInv(h) /\ EndInv(h)
    BY DEF Init, BeginInv, EndInv, InLoop
  <2>8. QED
    BY <2>1, <2>3, <2>4, <2>5, <2>6, <2>7 DEF IInv, TaskInv
<1>2. TypeInv /\ IInv /\ [Next]_vars => (TypeInv /\ IInv)'
  <2> SUFFICES ASSUME TypeInv, IInv, [Next]_vars PROVE (TypeInv /\ IInv)'
    OBVIOUS
  <2>1. TypeInv'
    BY TypeStep
  <2>2. OneBusy' /\ BatchInv' /\ LockHeld'
    BY OneBusyStep, BatchStep, LockStep DEF IInv, TypeInv
  <2>3. TaskInv'
    <3>1. ASSUME NEW h \in Handlers, HandlerStep(h) PROVE TaskInv'
      BY <3>1, TaskStep DEF IInv
    <3>2. QED
      BY <3>1, TaskStepOther DEF IInv, Next, HandlerStep, LookupNil, Crash
  <2>4. QED
    BY <2>1, <2>2, <2>3 DEF IInv
<1>3. TypeInv => TypeOK
  BY DEF TypeInv
<1>4. QED
  BY <1>1, <1>2, <1>3, PTL DEF Spec

\* No batch number is given to two tests, across any number of kills in the
\* middle of nextTestSeq.
THEOREM BatchFresh == Spec => []FreshBatch
<1>1. CASE Serial
  <2>1. IInv => FreshBatch
    BY DEF IInv, BatchInv, FreshBatch
  <2>2. Spec => []IInv
    BY <1>1, Inductive, PTL
  <2>3. QED
    BY <2>1, <2>2, PTL
<1>2. CASE ~Serial
  <2>1. FreshBatch
    BY <1>2 DEF FreshBatch
  <2>2. QED
    BY <2>1, PTL
<1>3. QED
  BY <1>1, <1>2

\* Between requests a test runs as a whole or is over as a whole.
THEOREM RunsAsAWhole == Spec => []AllOrNothing
<1>1. CASE Serial
  <2>1. IInv => AllOrNothing
    <3> SUFFICES ASSUME IInv, Idle PROVE AllOrNothing
      BY DEF AllOrNothing
    <3>1. \A h \in Handlers : Settled(h)
      BY DEF Idle, Settled
    <3>2. Whole /\ ListInv
      BY <3>1 DEF IInv, TaskInv
    <3>3. QED
      BY <3>2 DEF AllOrNothing, Whole, ListInv
  <2>2. Spec => []IInv
    BY <1>1, Inductive, PTL
  <2>3. QED
    BY <2>1, <2>2, PTL
<1>2. CASE ~Serial
  <2>1. AllOrNothing
    BY <1>2 DEF AllOrNothing
  <2>2. QED
    BY <2>1, PTL
<1>3. QED
  BY <1>1, <1>2

\* A loop that was not told to stop never dereferences a nil online task.
THEOREM LiveLoopsSafe == Spec => []LiveLoopFindsOnline
<1>1. CASE Serial
  <2>1. IInv => LiveLoopFindsOnline
    <3> SUFFICES ASSUME IInv, NEW t \in TaskId, loop[t] = "wait", ~stopped[t] PROVE HasOnline
      BY DEF LiveLoopFindsOnline
    <3>1. t \in Registered /\ ListInv
      BY DEF IInv, TaskInv, ListInv
    <3>2. tasks # <<>>
      BY <3>1 DEF Registered
    <3>3. QED
      BY <3>1, <3>2 DEF ListInv
  <2>2. Spec => []IInv
    BY <1>1, Inductive, PTL
  <2>3. QED
    BY <2>1, <2>2, PTL
<1>2. CASE ~Serial
  <2>1. LiveLoopFindsOnline
    BY <1>2 DEF LiveLoopFindsOnline
  <2>2. QED
    BY <2>1, PTL
<1>3. QED
  BY <1>1, <1>2
=============================================================================
