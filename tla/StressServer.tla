---------------------------- MODULE StressServer ----------------------------
(***************************************************************************)
(* The life cycle of a stress test in server/: the HTTP handlers           *)
(* /v1/stress/start and /v1/stress/stop (api_stress.go), the task list and *)
(* its lock (server.go), the start and stop of every kind of task, and the *)
(* background loops that look the online task up while tasks come and go.  *)
(* The batch number is taken anew for each test (flag -seq, the default).   *)
(*                                                                         *)
(* gin runs each request in a goroutine of its own, so any number of       *)
(* handlers may be between two of their statements at once; `Serial' is    *)
(* the assumption that the operator waits for one answer before sending    *)
(* the next request.  A panic in a handler is recovered by gin (answer     *)
(* 500), a panic in any other goroutine ends the process.  The process may *)
(* also be killed at any moment; only the file that holds the batch number *)
(* survives.                                                               *)
(***************************************************************************)
EXTENDS Integers, Sequences, FiniteSets

CONSTANTS
  Handlers,    \* goroutines in which gin serves the two requests
  NChan,       \* entries of the "channels" list of a configuration
  Configs,     \* configurations a start request may carry
  MaxStarts,   \* bound: start requests ever received
  MaxCrashes,  \* bound: times the process is killed
  Serial,      \* the operator sends one request at a time
  Free         \* nobody holds tasksLock for writing

Online == 0
P2p    == NChan + 1
Stats  == NChan + 2
Slots  == 0 .. Stats
TaskId == (1 .. MaxStarts) \X Slots      \* the slot-th task of the gen-th start

Torn   == -1                             \* the batch file is truncated

ASSUME ServerAssumption ==
  /\ Handlers # {} /\ Free \notin Handlers
  /\ NChan \in Nat /\ MaxStarts \in Nat /\ MaxCrashes \in Nat
  /\ Serial \in BOOLEAN
  /\ Configs \subseteq [channels : SUBSET (1 .. NChan), p2p : BOOLEAN]

Request == [gen : 0 .. MaxStarts, channels : SUBSET (1 .. NChan), p2p : BOOLEAN]
NoCfg   == [gen |-> 0, channels |-> {}, p2p |-> FALSE]

VARIABLES
  seqFile,        \* content of <DataDir>/seq; a missing file reads as 0
  taskCfg,        \* s.taskCfg, tagged with the request it came from
  tasksLock,      \* the writer that holds s.tasksLock across steps, or Free
  tasks,          \* s.tasks
  taskStartTime,  \* s.taskStartTime is not zero
  running,        \* isRunning of every task
  stopped,        \* stopC of every task has been closed
  loop,           \* the background loop of every task: not begun, waiting in
                  \* its select, or gone
  pc, req, seq, at, chans, resp,   \* the handlers and their local variables
  nGen, nCrash,                    \* starts received, times killed
  accepted                         \* the tests begun: start and batch number

files    == <<seqFile>>
shared   == <<taskCfg, tasksLock, tasks, taskStartTime>>
taskVars == <<running, stopped, loop>>
locals   == <<req, seq, at, chans>>
ghosts   == <<nGen, nCrash, accepted>>
vars     == <<files, shared, taskVars, pc, locals, resp, ghosts>>

Init ==
  /\ seqFile = 0
  /\ nGen = 0 /\ nCrash = 0 /\ accepted = <<>>
  /\ taskCfg = NoCfg
  /\ tasksLock = Free
  /\ tasks = <<>>
  /\ taskStartTime = FALSE
  /\ running = [t \in TaskId |-> FALSE]
  /\ stopped = [t \in TaskId |-> FALSE]
  /\ loop = [t \in TaskId |-> "none"]
  /\ pc = [h \in Handlers |-> "idle"]
  /\ req = [h \in Handlers |-> NoCfg]
  /\ seq = [h \in Handlers |-> 0]
  /\ at = [h \in Handlers |-> 0]
  /\ chans = [h \in Handlers |-> {}]
  /\ resp = [h \in Handlers |-> "none"]

Registered == {tasks[i] : i \in DOMAIN tasks}
IsRunning  == \E t \in Registered : running[t]
HasOnline  == \E t \in Registered : t[2] = Online
Idle       == \A h \in Handlers : pc[h] = "idle"

StartTask(h)  == <<req[h].gen, at[h]>>     \* the task h is starting
Goto(h, l)    == pc' = [pc EXCEPT ![h] = l]
Respond(h, r) == Goto(h, "idle") /\ resp' = [resp EXCEPT ![h] = r]

-----------------------------------------------------------------------------
(* POST /v1/stress/start.  The batch number is read, incremented and       *)
(* written back before the handler looks whether a test is running.        *)

StartRequest(h) ==
  /\ pc[h] = "idle"
  /\ Serial => Idle
  /\ nGen < MaxStarts
  /\ nGen' = nGen + 1
  /\ \E c \in Configs :
       req' = [req EXCEPT ![h] = [gen |-> nGen + 1, channels |-> c.channels, p2p |-> c.p2p]]
  /\ resp' = [resp EXCEPT ![h] = "none"]
  /\ Goto(h, "seqRead")
  /\ UNCHANGED <<files, shared, taskVars, seq, at, chans, nCrash, accepted>>

\* Mutant: the error of strconv.Atoi is dropped, which leaves 0.
SeqReadNoError(h) ==
  /\ pc[h] = "seqRead"
  /\ seq' = [seq EXCEPT ![h] = (IF seqFile = Torn THEN 0 ELSE seqFile) + 1]
  /\ Goto(h, "seqTrunc")
  /\ UNCHANGED <<files, shared, taskVars, req, at, chans, resp, ghosts>>

\* Mutant: the number is taken down instead of up.
SeqReadDown(h) ==
  /\ pc[h] = "seqRead"
  /\ seq' = [seq EXCEPT ![h] = seqFile - 1]
  /\ Goto(h, "seqTrunc")
  /\ UNCHANGED <<files, shared, taskVars, req, at, chans, resp, ghosts>>

\* strconv.Atoi of an empty file fails and nextTestSeq panics.
SeqRead(h) ==
  /\ pc[h] = "seqRead"
  /\ \/ /\ seqFile = Torn
        /\ Respond(h, "panic")
        /\ UNCHANGED seq
     \/ /\ seqFile # Torn
        /\ seq' = [seq EXCEPT ![h] = seqFile + 1]
        /\ Goto(h, "seqTrunc")
        /\ UNCHANGED resp
  /\ UNCHANGED <<files, shared, taskVars, req, at, chans, ghosts>>

\* os.WriteFile first truncates the file, then writes the number.
SeqTruncate(h) ==
  /\ pc[h] = "seqTrunc"
  /\ seqFile' = Torn
  /\ Goto(h, "seqWrite")
  /\ UNCHANGED <<shared, taskVars, locals, resp, ghosts>>

SeqWrite(h) ==
  /\ pc[h] = "seqWrite"
  /\ seqFile' = seq[h]
  /\ Goto(h, "checkStart")
  /\ UNCHANGED <<shared, taskVars, locals, resp, ghosts>>

\* Mutant: the running test is not looked at.
CheckStartUnguarded(h) ==
  /\ pc[h] = "checkStart"
  /\ Goto(h, "setCfg")
  /\ UNCHANGED <<files, shared, taskVars, locals, resp, ghosts>>

CheckStart(h) ==
  /\ pc[h] = "checkStart"
  /\ tasksLock = Free
  /\ \/ IsRunning /\ Respond(h, "refused")
     \/ ~IsRunning /\ Goto(h, "setCfg") /\ UNCHANGED resp
  /\ UNCHANGED <<files, shared, taskVars, locals, ghosts>>

\* setTaskConfig, and startTask up to its first call that takes the lock.
SetTaskConfig(h) ==
  /\ pc[h] = "setCfg"
  /\ taskCfg' = req[h]
  /\ taskStartTime' = TRUE
  /\ accepted' = Append(accepted, [gen |-> req[h].gen, seq |-> seq[h]])
  /\ Goto(h, "clear")
  /\ UNCHANGED <<files, tasksLock, tasks, taskVars, locals, resp, nGen, nCrash>>

RemoveAllTask(h) ==
  /\ pc[h] = "clear"
  /\ tasksLock = Free
  /\ tasks' = <<>>
  /\ at' = [at EXCEPT ![h] = Online]
  /\ Goto(h, "add")
  /\ UNCHANGED <<files, taskCfg, tasksLock, taskStartTime, taskVars, req, seq, chans, resp, ghosts>>

AddTask(h) ==
  /\ pc[h] = "add"
  /\ tasksLock = Free
  /\ tasks' = Append(tasks, StartTask(h))
  /\ Goto(h, "launch")
  /\ UNCHANGED <<files, taskCfg, tasksLock, taskStartTime, taskVars, locals, resp, ghosts>>

\* The range over taskCfg.Channels takes its snapshot once the online task is
\* started; taskCfg.P2p is read again after the last channel.
Channels(h) == IF at[h] = Online THEN taskCfg.channels ELSE chans[h]

Left(h) == {n \in Channels(h) \cup {Stats} \cup (IF taskCfg.p2p THEN {P2p} ELSE {}) : n > at[h]}

\* task.start() begins the loop and returns; startTask goes on or is done.
BeginLoop(h) ==
  /\ loop' = [loop EXCEPT ![StartTask(h)] = "wait"]
  /\ chans' = [chans EXCEPT ![h] = Channels(h)]
  /\ \/ at[h] = Stats /\ Respond(h, "ok") /\ UNCHANGED at
     \/ /\ \E n \in Left(h) : (\A m \in Left(h) : n <= m) /\ at' = [at EXCEPT ![h] = n]
        /\ Goto(h, "add")
        /\ UNCHANGED resp

\* task.start(): first the flag.
LaunchTask(h) ==
  /\ pc[h] = "launch"
  /\ running' = [running EXCEPT ![StartTask(h)] = TRUE]
  /\ \/ at[h] = P2p /\ Goto(h, "pairs") /\ UNCHANGED <<loop, at, chans, resp>>
     \/ at[h] # P2p /\ BeginLoop(h)
  /\ UNCHANGED <<files, shared, stopped, req, seq, ghosts>>

\* p2pTask.start pairs the users of the online task (a nil pointer when the
\* list has none) before it begins its loop.
GenerateData(h) ==
  /\ pc[h] = "pairs"
  /\ tasksLock = Free
  /\ \/ HasOnline /\ BeginLoop(h)
     \/ ~HasOnline /\ Respond(h, "panic") /\ UNCHANGED <<loop, at, chans>>
  /\ UNCHANGED <<files, shared, running, stopped, req, seq, ghosts>>

-----------------------------------------------------------------------------
(* POST /v1/stress/stop.  The lock is held from LockTasks to the unlock.   *)
(* Between flag and close the online task flushes and closes its clients   *)
(* one by one: that takes seconds, and for as long as the write of one of  *)
(* them blocks (no write has a deadline) it does not end at all.           *)

StopRequest(h) ==
  /\ pc[h] = "idle"
  /\ Serial => Idle
  /\ resp' = [resp EXCEPT ![h] = "none"]
  /\ Goto(h, "checkStop")
  /\ UNCHANGED <<files, shared, taskVars, locals, ghosts>>

CheckStop(h) ==
  /\ pc[h] = "checkStop"
  /\ tasksLock = Free
  /\ \/ ~IsRunning /\ Respond(h, "refused")
     \/ IsRunning /\ Goto(h, "lock") /\ UNCHANGED resp
  /\ UNCHANGED <<files, shared, taskVars, locals, ghosts>>

\* Mutant: the loop over the tasks begins at the second.
LockTasksSkipsFirst(h) ==
  /\ pc[h] = "lock"
  /\ tasksLock = Free
  /\ tasksLock' = h
  /\ taskStartTime' = FALSE
  /\ at' = [at EXCEPT ![h] = 2]
  /\ Goto(h, "stop")
  /\ UNCHANGED <<files, taskCfg, tasks, taskVars, req, seq, chans, resp, ghosts>>

LockTasks(h) ==
  /\ pc[h] = "lock"
  /\ tasksLock = Free
  /\ tasksLock' = h
  /\ taskStartTime' = FALSE
  /\ at' = [at EXCEPT ![h] = 1]
  /\ Goto(h, "stop")
  /\ UNCHANGED <<files, taskCfg, tasks, taskVars, req, seq, chans, resp, ghosts>>

StopFlag(h) ==
  /\ pc[h] = "stop"
  /\ at[h] \in DOMAIN tasks
  /\ running' = [running EXCEPT ![tasks[at[h]]] = FALSE]
  /\ Goto(h, IF tasks[at[h]][2] = Online THEN "clients" ELSE "close")
  /\ UNCHANGED <<files, shared, stopped, loop, locals, resp, ghosts>>

\* stopAllClient returns, which nothing here makes it do.
ClientsClosed(h) ==
  /\ pc[h] = "clients"
  /\ Goto(h, "close")
  /\ UNCHANGED <<files, shared, taskVars, locals, resp, ghosts>>

\* Mutant: Unlock is the last statement instead of deferred.
CloseStopCKeepsLock(h) ==
  /\ pc[h] = "close"
  /\ LET t == tasks[at[h]] IN
     \/ /\ stopped[t]
        /\ Respond(h, "panic")
        /\ UNCHANGED <<stopped, at>>
     \/ /\ ~stopped[t]
        /\ stopped' = [stopped EXCEPT ![t] = TRUE]
        /\ at' = [at EXCEPT ![h] = @ + 1]
        /\ Goto(h, "stop")
        /\ UNCHANGED resp
  /\ UNCHANGED <<files, shared, running, loop, req, seq, chans, ghosts>>

\* close(stopC): closing it twice panics, and the deferred Unlock runs.
CloseStopC(h) ==
  /\ pc[h] = "close"
  /\ LET t == tasks[at[h]] IN
     \/ /\ stopped[t]
        /\ tasksLock' = Free
        /\ Respond(h, "panic")
        /\ UNCHANGED <<stopped, at>>
     \/ /\ ~stopped[t]
        /\ stopped' = [stopped EXCEPT ![t] = TRUE]
        /\ at' = [at EXCEPT ![h] = @ + 1]
        /\ Goto(h, "stop")
        /\ UNCHANGED <<tasksLock, resp>>
  /\ UNCHANGED <<files, taskCfg, tasks, taskStartTime, running, loop, req, seq, chans, ghosts>>

\* Mutant: the loop over the tasks ends one early.
UnlockTasksEarly(h) ==
  /\ pc[h] = "stop"
  /\ at[h] >= Len(tasks)
  /\ tasksLock' = Free
  /\ Respond(h, "ok")
  /\ UNCHANGED <<files, taskCfg, tasks, taskStartTime, taskVars, locals, ghosts>>

UnlockTasks(h) ==
  /\ pc[h] = "stop"
  /\ at[h] \notin DOMAIN tasks
  /\ tasksLock' = Free
  /\ Respond(h, "ok")
  /\ UNCHANGED <<files, taskCfg, tasks, taskStartTime, taskVars, locals, ghosts>>

-----------------------------------------------------------------------------
(* The background loops: select between the ticker and stopC (either one   *)
(* when both are ready).  A tick of any loop but the online task's looks   *)
(* the online task up at once; a tick that finds one changes nothing here. *)

\* The process dies: everything but the file is lost.
Dies ==
  /\ taskCfg' = NoCfg
  /\ tasksLock' = Free
  /\ tasks' = <<>>
  /\ taskStartTime' = FALSE
  /\ running' = [t \in TaskId |-> FALSE]
  /\ stopped' = [t \in TaskId |-> FALSE]
  /\ loop' = [t \in TaskId |-> "none"]
  /\ pc' = [h \in Handlers |-> "idle"]
  /\ req' = [h \in Handlers |-> NoCfg]
  /\ seq' = [h \in Handlers |-> 0]
  /\ at' = [h \in Handlers |-> 0]
  /\ chans' = [h \in Handlers |-> {}]
  /\ resp' = [h \in Handlers |-> "none"]
  /\ UNCHANGED <<files, nGen, accepted>>

LookupNil(t) ==
  /\ loop[t] = "wait" /\ t[2] # Online
  /\ tasksLock = Free /\ ~HasOnline
  /\ Dies /\ UNCHANGED nCrash

\* The online task's own loop ends by itself on the first tick after a stop.
OnlineTick(t) ==
  /\ loop[t] = "wait" /\ t[2] = Online
  /\ ~running[t]
  /\ loop' = [loop EXCEPT ![t] = "gone"]
  /\ UNCHANGED <<files, shared, running, stopped, pc, locals, resp, ghosts>>

Quit(t) ==
  /\ loop[t] = "wait"
  /\ stopped[t]
  /\ loop' = [loop EXCEPT ![t] = "gone"]
  /\ UNCHANGED <<files, shared, running, stopped, pc, locals, resp, ghosts>>

Crash ==
  /\ nCrash < MaxCrashes
  /\ nCrash' = nCrash + 1
  /\ Dies

-----------------------------------------------------------------------------
TakesLock(h) ==
  \/ CheckStart(h) \/ RemoveAllTask(h) \/ AddTask(h) \/ GenerateData(h)
  \/ CheckStop(h) \/ LockTasks(h)

LockFree(h) ==
  \/ SeqRead(h) \/ SeqTruncate(h) \/ SeqWrite(h) \/ SetTaskConfig(h)
  \/ LaunchTask(h) \/ StopFlag(h) \/ CloseStopC(h) \/ UnlockTasks(h)

Next ==
  \/ \E h \in Handlers : StartRequest(h) \/ StopRequest(h) \/ TakesLock(h) \/ LockFree(h) \/ ClientsClosed(h)
  \/ \E t \in TaskId : LookupNil(t) \/ OnlineTick(t) \/ Quit(t)
  \/ Crash

Spec == Init /\ [][Next]_vars

(* The Go scheduler runs every goroutine that can go on, sync.RWMutex lets *)
(* every waiter in sooner or later, and a select that finds stopC ready at *)
(* every turn takes it at some turn.  Nothing is assumed of ClientsClosed.  *)
Fairness ==
  /\ \A h \in Handlers : SF_vars(TakesLock(h)) /\ WF_vars(LockFree(h))
  /\ \A t \in TaskId : WF_vars(Quit(t))

FairSpec == Spec /\ Fairness
=============================================================================
