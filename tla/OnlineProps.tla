---------------------------- MODULE OnlineProps ----------------------------
(***************************************************************************)
(* What the online task promises.                                          *)
(***************************************************************************)
EXTENDS OnlineTask

\* Every variable has its type: the fields of onlineTask
\* (task_online.go:14-23) and the places of its goroutines.
TypeOK ==
  /\ {isRunning, onlineFinished, stopC, tasksLock, alive} \subseteq BOOLEAN
  /\ capacity \in Capacities
  /\ userClientMap \in [Uids \cup {Unnamed} -> (Entries \X Makers) \cup {NoClient}]
  /\ link \in [Entries \X Makers -> {"none", "online", "lost", "closed"}]
  /\ runAt \in {"batch", "route", "wait", "finish", "done"} /\ batch \in 0 .. Online
  /\ worker \in [Entries -> {"idle", "begin", "new", "connect", "store", "done"}]
  /\ loopAt \in {"tick", "check", "route", "new", "connect", "store", "again", "off"}
  /\ todo \subseteq Uids /\ snapshot \subseteq Entries \X Makers /\ at \in Uids
  /\ stopAt \in {"off", "flag", "snapshot", "close", "done"}
  /\ nLoss \in 0 .. MaxLoss

\* No user is connected twice: run and loop both create clients, and only
\* onlineFinished, read and written without a lock, keeps them apart
\* (task_online.go:100 and 170).  The server would throw one of them out.
OneClientPerUser == \A u \in Uids : ~ \A m \in Makers : link[<<u, m>>] = "online"

BeingStored(c) ==
  IF c[2] = "run" THEN worker[c[1]] = "store" ELSE loopAt = "store" /\ c[1] = at

\* Every connected client of a user is in the map or about to be put there, so
\* that it is sent through, reported, connected again and closed by a stop.
\* (Clients of the empty name replace each other and are lost, which is why it
\* has to be said of users; see uneven_batches for what the same slice does to
\* channels.)
NoneLost == \A c \in DOMAIN link :
  link[c] = "online" /\ c[1] \in Uids => BeingStored(c) \/ userClientMap[c[1]] = c

\* While nobody stops the test every user is online in the end, whatever
\* connections, address requests and connects failed on the way, and however
\* the users come out in batches, unless a batch ends the process.
AllOnline == [](stopAt = "off" /\ alive) => <>[](\A u \in Uids : Connected(u))

\* The tasks that send only once onlineFinished is set (task_channel.go:183,
\* task_p2p.go:95) get to do so, unless they are stopped or the process ends.
WaitersGoOn == <>(onlineFinished \/ stopC \/ ~alive)

\* "停止压测", stop the test (api_stress.go:27): once a stop has answered,
\* the test's users are offline in the end.
StopDisconnects == stopAt = "done" ~> \A c \in DOMAIN link : link[c] # "online"
=============================================================================
