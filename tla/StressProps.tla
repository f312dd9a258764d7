---------------------------- MODULE StressProps ----------------------------
(***************************************************************************)
(* Correctness of the life cycle in StressServer.                          *)
(***************************************************************************)
EXTENDS StressServer

PCs == {"idle", "seqRead", "seqTrunc", "seqWrite", "checkStart", "setCfg", "clear",
        "add", "launch", "pairs", "checkStop", "lock", "stop", "clients", "close"}

\* Types of the state of api_stress.go:start/stop, server.go and the tasks.
TypeOK ==
  /\ seqFile \in Nat \cup {Torn}
  /\ taskCfg \in Request
  /\ tasksLock \in Handlers \cup {Free}
  /\ tasks \in Seq(TaskId)
  /\ taskStartTime \in BOOLEAN
  /\ running \in [TaskId -> BOOLEAN]
  /\ stopped \in [TaskId -> BOOLEAN]
  /\ loop \in [TaskId -> {"none", "wait", "gone"}]
  /\ pc \in [Handlers -> PCs]
  /\ req \in [Handlers -> Request]
  /\ seq \in [Handlers -> Nat]
  /\ at \in [Handlers -> Nat]
  /\ chans \in [Handlers -> SUBSET (1 .. NChan)]
  /\ resp \in [Handlers -> {"none", "ok", "refused", "panic"}]
  /\ nGen \in 0 .. MaxStarts /\ nCrash \in 0 .. MaxCrashes
  /\ accepted \in Seq([gen : 1 .. MaxStarts, seq : Nat])

-----------------------------------------------------------------------------
(* One request at a time.                                                  *)

Alive(t) == running[t] /\ ~stopped[t]
Over(t)  == ~running[t] /\ stopped[t]

\* Between requests the tasks in s.tasks are all running or all stopped, a test
\* has a start time exactly while it runs, and no task outside the list runs:
\* the start loop (server.go:104-129), the stop loop (server.go:140) and
\* removeAllTask never leave a test half begun or half ended.
AllOrNothing ==
  Serial /\ Idle =>
    /\ \/ \A t \in Registered : Alive(t)
       \/ \A t \in Registered : Over(t)
    /\ \A t \in TaskId : running[t] => t \in Registered
    /\ taskStartTime <=> IsRunning

\* No two tests ever begun share a batch number, and numbers grow, although the
\* process may be killed between any two statements of nextTestSeq
\* (options.go:137-167): users and channels of one test are never another's.
FreshBatch ==
  Serial => \A i, j \in DOMAIN accepted : i < j => accepted[i].seq < accepted[j].seq

\* The loop of a task that has not been told to stop always finds the online
\* task it dereferences at every tick (task_channel.go:177, task_p2p.go:93,
\* task_stats.go:72): only loops left over from an ended test can find nil.
LiveLoopFindsOnline ==
  Serial => \A t \in TaskId :
    loop[t] = "wait" /\ ~stopped[t] /\ t[2] # Online => HasOnline

\* The server implements TestControl: it is starting while a handler is in
\* startTask, stopping while one is in stopTask.
Phase ==
  IF \E h \in Handlers : pc[h] \in {"clear", "add", "launch", "pairs"} THEN "starting"
  ELSE IF \E h \in Handlers : pc[h] \in {"stop", "clients", "close"} THEN "stopping"
  ELSE IF IsRunning THEN "running" ELSE "idle"

Batch == IF accepted = <<>> THEN 0 ELSE accepted[Len(accepted)].seq

RunningBatches ==
  {accepted[i].seq : i \in {j \in DOMAIN accepted :
                              \E n \in Slots : running[<<accepted[j].gen, n>>]}}

Control == INSTANCE TestControl
             WITH phase <- Phase, batch <- Batch, alive <- RunningBatches

\* Seen by an operator who waits for each answer, tests begin and end as a whole.
ImplementsTestControl == Control!Spec

-----------------------------------------------------------------------------
(* Any number of requests at a time.                                       *)

\* stopTask (server.go:134-143) that returns has closed the stop channel of every
\* task in the list, whatever other requests did while it waited for clients.
StopReachesAll ==
  [][\A h \in Handlers :
       pc[h] \in {"stop", "clients", "close"} /\ resp'[h] = "ok" /\ resp[h] # "ok"
         => \A t \in Registered : stopped[t]]_vars

\* As long as every stop gets past the clients it closes (task_online.go:56-69
\* waits for each one's write and has no deadline), every request is answered, by
\* 500 if its handler panics: tasksLock is given back on every path (the deferred
\* Unlock, server.go:136), and nobody who waits for it is passed over forever.
ClientsGiveWay == \A h \in Handlers : []<>(pc[h] # "clients")

EveryRequestAnswered ==
  ClientsGiveWay => \A h \in Handlers : (pc[h] # "idle" ~> pc[h] = "idle")

-----------------------------------------------------------------------------
(* What the program says of itself and does not keep when two requests     *)
(* overlap.                                                                *)

\* "The task is running, please stop it first": never are two tests alive.
OneTestAtATime ==
  \A t, u \in TaskId : running[t] /\ running[u] => t[1] = u[1]
=============================================================================
