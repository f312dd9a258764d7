# StressTester in TLA+

StressTester (Go) puts a WuKongIM messaging server under load. An operator starts and stops a *stress test* over
HTTP; a test brings users online, creates channels, sends messages and counts what comes of them. This directory
holds TLA+ models of that program, TLC configurations that check them on small instances, and theorems with
proofs checked by TLAPS. Paths like `server.go:94` are relative to `src/server/` or, for the client library, to
`src/pkg/client/`. `PROJECT.json` lists, for every definition of the models, the lines it stands for.

## 1. The program

### Components

| Component | State | Operations | What is hard about it |
|---|---|---|---|
| Test control (`api_stress.go`, `server.go`) | `taskCfg`, `tasks`, `tasksLock`, `taskStartTime` | HTTP `start`, `stop`, `report`; `startTask`, `stopTask`, `isRunning` | check-then-act without a lock; requests overlap; panics in handlers are recovered, others end the process |
| Batch number and settings (`options.go`) | files `seq`, `id`, `server` | `nextTestSeq`, `genId`, `readServerAddr` | truncate-then-write, kills, two readers |
| Online task (`task_online.go`) | `isRunning`, `onlineFinished`, `userClientMap`, `stopC` | `run` with a worker per user, `loop` every 5 s, `stop` | a flag without a lock; connects that outlive a stop; connections lost at any time |
| Channel task (`task_channel.go`) | `createChannelFinished`, `channelIds`, `channelStatsMap`, subscribers | `run`, `createChannel`, `sendLoop`, `stop` | batches at the boundary; configurations without subscribers; stop in the middle of a round |
| P2p task (`task_p2p.go`) | pairs, `sendMsgCount` | `generateData`, `sendLoop`, `stop` | the online task it needs may be gone; number of users for the pairs |
| Statistics task (`task_stats.go`, `stats.go`) | `stats`, previous counters | `countOnline`, `countMsg` | counters that move while they are read |
| Test client (`client.go`) | counters, `sendMap`, `sendSuccessMap` | `send`, `OnSendack`, `OnRecv`, `cleanLoop` | an answer may overtake the record of its message; latencies shared by all clients |
| Client connection (`pkg/client/client.go`) | `status`, `conn`, `mu`, ping timer, `flusherExitChan`, `pongs` | `Connect`, `Close`, `readLoop`, `flusher`, `processPingTimer`, `processOpErr`, `doReconnect`, `FlushTimeout` | six kinds of goroutines, a mutex given up in the middle, status read without it; writes without a deadline under the mutex |
| Write buffer (`pkg/client/buffer.go`) | `bufs`, `pending` | `appendBufs`, `flush`, `switchToPending`, `flushPendingBuffer` | several senders and the flusher flush it at once |
| Frame parsing (`pkg/client/common.go`) | none | `parse`, `decodeLength` | frames cut anywhere |
| Other | `baseURL`, flags, timers | `exchange`, `health`, WuKongIM HTTP calls, wkhttp, timer pool | little |

### How they interact

`start` stores the configuration and builds the task list: one online task, one task per entry of `channels`, a
p2p task, a statistics task; each starts goroutines of its own. All other tasks look the online task up in the
list, under `tasksLock`, at every tick. The online task creates test clients; the channel and p2p tasks send
through them; the statistics task reads their counters. A test client owns one client connection, whose reader
calls `OnSendack` and `OnRecv` back. `stop` takes `tasksLock`, stops the tasks in the order of the list, and the
online task's `stop` closes its clients.

What makes each part correct:

* control: a test begins and ends as a whole, one at a time, with a batch number of its own;
  a stop reaches every task; every request is answered; goroutines of stopped tasks end;
* online task: one client per user, no client lost from the map, all users online in the end, none after a stop;
* channel task: nothing is sent to a channel that was not created, only the configured channels are asked for,
  all of them are created, a stop takes effect at once;
* client connection: a connected client is usable, one reconnection at a time, Close is final, a dead peer is
  noticed, the goroutines end;
* sending: no message lost, repeated or miscounted while the connection stands, no record of one lost, no wake-up lost;
* flushing: an answered flush means the messages before it were received, also across time-outs and
  reconnections; the pending buffer repeats and loses nothing;
* receiving: frames come out whole however they were cut; the report never shows more received than expected, and
  in the end shows as lost only what nobody could receive.

`PROJECT.json` lists under `hazards` what is hard to test here, at its line, with the properties that cover it or
the reason why none does.

## 2. The modules

| Module | Models | Checked by |
|---|---|---|
| `TestControl` | abstract specification: what an operator who waits for each answer may rely on | `serial` |
| `StressServer`, `StressProps` | test control, batch number, life cycle of all tasks | `serial`, `overlap`, `two_starts` |
| `StressServer_proof` | theorems about `StressServer` | TLAPS |
| `StressRefine_proof` | more of them: what a stop reaches, and that `StressServer` implements `TestControl` | TLAPS |
| `OnlineTask`, `OnlineProps` | the online task of one test | `online`, `online_after_stop` |
| `OnlineTask_proof` | theorems about `OnlineTask` | TLAPS |
| `ChannelTask`, `ChannelProps` | one channel task of a test | `channel`, `uneven_batches` |
| `ChannelTask_proof` | theorems about `ChannelTask` | TLAPS |
| `ClientConn`, `ClientProps` | the connection of one client | `reconnect`, `plain` |
| `ClientConn_proof` | theorems about `ClientConn` | TLAPS |
| `SendPath`, `SendProps` | messages, answers and counters of one client that stays connected or breaks | `sending` |
| `SendPath_proof` | theorems about `SendPath` | TLAPS |
| `FlushPath`, `FlushProps` | `FlushTimeout`, the queue of pongs, the pending buffer over a reconnection, a second `Connect` | `flush` |
| `FlushPath_proof` | theorems about `FlushPath` | TLAPS |
| `Frames` | `parse` and `decodeLength` as operators | `p2p` |
| `P2pTraffic`, `P2pProps` | the p2p task, its messages to the receivers, frames, and what the report shows of them | `p2p` |
| `P2pTraffic_proof` | theorems about `P2pTraffic` and `Frames` | TLAPS |

A specification declares constants, state and actions; its `*Props` module states what it promises; its `MC*`
module gives sets to the constants; each `.cfg` is one run. The modules are layers: `StressServer` treats a task as
running or stopped with one background loop, `OnlineTask` and `ChannelTask` open one task of a test up,
`OnlineTask` treats a connection as one step, which `ClientConn` opens up, and `SendPath` looks at what goes
through a connection, which `ClientConn` leaves out. `FlushPath` joins the writer of `SendPath` and the reconnection
of `ClientConn`, each cut down to what matters to a flush; `P2pTraffic` follows messages from a task through the
server and the frames of `Frames` to the counters and the report.

Some definitions carry the comment *Mutant*: they are the operator that follows them with a plausible mistake in
it. They are no part of a specification; putting one in the place of its original shows that the property it is
paired with in `PROJECT.json` really depends on that code.

### StressServer

One action per statement at which another goroutine can come between. A handler `h` is at `pc[h]`; a request is
numbered, and task `<<gen, slot>>` is the `slot`-th task of the `gen`-th start (slot 0 the online task, then
channels, p2p, statistics). `seqFile` is the content of the file `seq`, -1 for truncated; it alone survives
`Crash`. `tasksLock` is held across steps by `stopTask`; every other holder takes and gives it back in one step,
so readers need no count. A start is `StartRequest`, `SeqRead`, `SeqTruncate`, `SeqWrite`, `CheckStart`,
`SetTaskConfig`, `RemoveAllTask`, then `AddTask`, `LaunchTask` (and `GenerateData` for p2p) for each task. A stop
is `StopRequest`, `CheckStop`, `LockTasks`, then `StopFlag` or `CloseStopC` for each task, `UnlockTasks`. For the online task
`ClientsClosed` comes between the two: the return of `stopAllClient`, which waits for the write of each client and need not
come (see *Blocking writes* below).
`LookupNil`, `OnlineTick` and `Quit` are the background loops. A panic in a handler answers 500 and releases the
lock; a panic elsewhere (`Dies`) ends the process. The flag `-seq` has its default; requests that `check` refuses
change nothing and are left out, as is `s.stats = stats{}`.

`Serial` is an assumption about the operator, not the code: one request at a time. The properties that need it say
so. It is needed: with overlapping starts `two_starts` shows two tests at once, and overlapping starts can also
read the same batch number, so that `FreshBatch` fails when `Serial` is dropped.

### OnlineTask

`run`, `loop` and `stop` of one online task after `start()`. `run` cuts `uids` into batches of any size; the last slice may
reach beyond the users into the spare `capacity` of `uids`, where the names are empty strings, or beyond the capacity, which
panics (`RunBeyond`, `alive`). A client is named by its entry of `uids` and by who created it (`run` or `loop`);
`userClientMap` maps a user, or the empty name `Unnamed`, to a client, and `link` is its connection. `worker[e]` walks through
the errgroup's function for entry `e`: check `isRunning`, `newTestClient` (which needs `tasksLock`), connect, store. The
limit of 100 workers at a time is left out, which only allows more interleavings. `StopFlag`, `StopSnapshot`, `StopClose`,
`StopEnd` are the steps of `stop`; `tasksLock` stays with the caller to the end. `Lose` breaks any connection.

### ChannelTask

`run` and `sendLoop` of one channel task after `start()`, together with what they share with the online task.
Channels are numbers; those beyond `count` are the empty strings in the spare capacity of `channelIds`, and
`Capacity` is how `append` grows a slice of strings. A configuration without `subscriber`, which nothing rejects, is a
negative `subscriberOnline`: it panics, as does a request that fails (`alive` becomes false), and `LookupNil` is the lookup of
an online task that the next start has taken off the list. How
many messages a round sends and through which subscriber is left to chance; `late` counts the messages sent once
`isRunning` was false.

### ClientConn

All goroutines of one `Client`: the caller of `Connect`, the caller of `Close`, a reader and a flusher for each
connection, callbacks of the ping timer, and `doReconnect`. `mu` names the holder of `c.mu` where it is held
across steps. `conn` is `c.conn`; `bound` is the connection the shared reader and writer work on, which need
not be the same; `net` says whether a connection works, is silent (`hung`) or is gone. `timer` is `nil`, `set`,
`fired` or `stopped`. `exitChan` and `kicked` are the channels `setup()` makes and the tokens they hold.

*Blocking writes.* A write has a deadline during the handshake only (`client.go:184-185`); `FlusherTimeout` is never set
(`options.go:43-55`), so that `newWriter` never makes a `timeoutWriter`. Every other write is two steps, which take `c.mu` and
give it back: the last flush of `close` (`CloseLeave`), `sendPing` of a ping callback (`Ping`, `PingSent`), `flushPendingBuffer`
(`RecPending`), the `Flush` at the end of `doReconnect` (`RecFlush`, `RecFlushed`) and the flusher (`FlusherCheck`,
`FlusherWritten`). When the peer is silent, `hung`, the second step has no fairness (`Returns`): the write may return, because the
peer only does not answer, or block for good, because it does not read either, until the connection breaks, is closed or
the kernel gives it up (`GiveUp`). A sender that calls `FlushTimeout` is one more who may hold `c.mu` this way, and is left to
`FlushPath`. A dial and the handshake stay one step each: both have deadlines, and the mutex is held throughout.

### SendPath

Several send loops through one client. A sender is at `append`, `flush`, `kick` or `record`; `bufs` is
`limWriter.bufs`, counted in messages; `token` is the one place of `flusherExitChan`. `Flush` empties the buffer
also when it fails, and may have sent a first part then. `wire` and `acks` are the two directions of the
connection. `ReadAck`, `DropRecord` and `CountAck` are the steps of `OnSendack`; `CountRate` and `CountStore` the
loads of `countMsg`. `appended`, `written` and `rated` are history variables, and so is `overtaken`: the messages whose answer
came before `send` recorded them, which stay in `sendMap` for ever. Pings and receipts, which go
through the same buffer, latencies and `sendSuccessMap` are left out.

### FlushPath

One client, messages and callers of `FlushTimeout`: the users and, for every connection, the `Flush` at the end of
`doReconnect`. A message is its number, a ping is 0; `bufs`, `pend` and `wire` are sequences of them. `auto` is the
option `AutoReconn`, and both values start a run: the stress tester sets it to false (`server/client.go:42`), the
library also allows true. `appendBufs` takes `w.mu` and `doReconnect` does not, so that an append to the pending
buffer is two steps, `PendingLoad` and `PendingStore`, of a data race: in between, `RecWrite` and `RecReset` may have
emptied the buffer, and the stored length brings back what was sent. `raced` records when that changes anything.
A failing `Write` may have sent a first part, breaks the connection, and is one of `MaxFaults` faults.
`asked[f]` remembers what was accepted before a flush was called and the connection its ping is for.

What a message is worth is told by two sets. `appended` are the messages the writer is answerable for, since the connection
they are for has not broken. `dropped` are those that an append put into a pending buffer which `doReconnect` had already
written, or had just switched off: `SendMessage` succeeds, the connection stands, and nobody writes them. `w.pending` is read
twice without a lock that `doReconnect` takes, so that it may also be `nil` the second time: `PendingPanic`, which ends the
process (`panicked`).

`Connect` of a closed client waits for nobody. The `readLoop` of the last connection may still be there (`left` counts them):
it has pongs of that connection in hand, or reads from the new one, for the reader is shared, and takes pongs that were
for others (`OldPong`), or leaves pieces that the reader of the connection cannot use (`OldEnds`). `mixed` records that the
current connection was made like that. What was written to an earlier connection, and not yet taken by the server, is in
`late` and may arrive later or never. `Connect` sets `w.bufs` without `w.mu`, so that an append under way may store the old
buffer again. Dial, binding and handshake are one step: `c.mu` is held throughout, only senders can act meanwhile, and what
they append then is what they may as well append after it.

### Frames and P2pTraffic

`Frames` cuts bytes like the code, with the value 128 as the constant `Base`; `DecodeLength` reads at most four
digits. `P2pTraffic` draws the pairs like `generateData`, lets the first `NOnline` users come online (`Online`), lose their
connections (`Lose`) and come back, sets `onlineFinished` at any time, as `run` does whatever connected, and walks through
`sendLoop`: `Tick`, whole rounds over all pairs, then one round of chance if the rate is no multiple of 60. Every
message is counted before it is sent, and the send may fail. One the server takes arrives at its receiver, if that is
connected, as the bytes `Frame(m)`, with or without a pong before it; `Read`
takes any first part of the bytes that have arrived, `Parse` cuts them, `HandlePacket` counts. `CountBegin`,
`CountClient`, `CountRecv`, `CountExpect` are the loads and stores of `countMsg`. `owed` and `missed` are history variables: what
was sent to a client and not yet handled, and the messages that were counted and can no longer arrive.

## 3. The runs

| Run | Bounds | Shows |
|---|---|---|
| `serial` | 1 handler, up to 3 starts, 2 kills, one channel entry | `AllOrNothing`, `FreshBatch`, `LiveLoopFindsOnline`, and that the server implements `TestControl` |
| `overlap` | 2 handlers, 1 start, 1 kill, every configuration | `EveryRequestAnswered`, `StopReachesAll` |
| `two_starts` | 2 handlers, 2 starts | violation of `OneTestAtATime` |
| `online` | 3 users in batches of 2, with room for 3 or 4 names, 2 lost connections | `OneClientPerUser`, `NoneLost`, `AllOnline`, `WaitersGoOn` |
| `online_after_stop` | 2 users in one batch | violation of `StopDisconnects` |
| `channel` | 2, 3, 4, 5 or 6 channels in batches of 3, with and without subscribers | `SentOnlyToCreated`, `StopBreaksRound`, `AllCreated`, `SendLoopEnds` |
| `uneven_batches` | counts that are no multiple of the batch | violation of `AsksForItsChannels` |
| `reconnect` | with reconnection: 3 connections, 1 ping callback, 2 repairs, 1 Close, 1 fault | `ConnectedIsUsable`, `NoOldWatcherAtRedial`, `OneRedialler`, `CloseIsFinal`, `Reconnects`, `ClosedEnds` |
| `plain` | without reconnection, as the stress tester uses it; two calls of Connect | `DeadPeerNoticed` |
| `sending` | 2 senders, 2 messages, buffer of 2, 2 ticks of the statistics | `WrittenOnce`, `CountedOnce`, `RecordsOfWaiting`, `RatesNeverOver`, `AllCounted` |
| `flush` | 2 users and the flushes of `doReconnect`, 2 calls of `FlushTimeout`, 2 messages, buffer of 2, 2 connections, 1 fault, with and without reconnection | `FlushMeansDelivered`, `InOrderAndOnce`, `QueuedIsSent` |
| `p2p` | 2 pairs, 2 users online, 1 lost connection, 1 whole round and a round of chance, 2 messages of 1 and 2 bytes, `Base` 2 | `PairsAsAsked`, `FramesWhole`, `RecvNeverOver`, `LossesSettle` |

Every run of a passing kind also checks the type invariant, except those that share a specification with one that
does. Two handlers are enough for the races of control because each is between two requests; three starts reuse
the task list twice; two kills let a kill follow the recovery from one. Three users in batches of two make a full
batch and one that is not, whose slice reaches into the fourth name or beyond the third; two losses let a client be lost
again. Four and five channels are the uneven batches, six two full ones, two and three a single one. In `reconnect` three
connections are the first, the one redialled and one more, so that the redialled connection is bound, greeted and used
within the bound, and may break while its pending buffer is written; the bound is met only by a redialler that has lost two.
The reader and a ping callback report the same fault at once, and a second `doReconnect` is there to show that it is never
used at the same time as the first. `plain` has two connections for the two calls of `Connect`. Two messages fill the buffer
of two, so that a sender and the flusher compete to write it. In `flush` two connections and one fault are one
reconnection, or one that breaks while the pending buffer is written, or a second `Connect` that meets the reader of the first
connection; `MaxCalls` calls of `FlushTimeout`, of two users or of one and `doReconnect`, are two entries of the queue, one of
which may time out. In `p2p` two pairs need a third user, who is never connected; with `Base` 2 the body of two bytes has a
length of two digits, so that a read can end between them, and one lost connection can take a kept remainder, bytes on the
way or a message not yet delivered.

### What the violations say

* `two_starts`: `start` checks `isRunning` and acts later, so that two tests run at once, although the code refuses
  the second with "please stop it first".
* `online_after_stop`: a worker or `loop` that checked `isRunning` before the stop connects its client after the
  snapshot; nobody closes it, and its user stays online after `stop` has answered.
* `uneven_batches`: the last slice is as long as the others; within the capacity the server is asked to create
  channels without an id, beyond it the process panics (250 channels in batches of 100). The online task slices the
  same way: `OnlineTask` has its users without a name and its panic.

Met while modelling, and left without a run of their own:

* The loser of two overlapping stops closes closed channels (`api_stress.go:79`). The panic is recovered as a 500 and
  the lock released, which `EveryRequestAnswered` in `overlap` depends on, but the answer is not the refusal the
  code means to give.
* Without reconnection, a flusher that first runs after the next `Connect` reads the exit channel of the new one
  (`client.go:651`); `close()` puts one token there, and one of the two flushers never ends. `ClosedEnds` is therefore
  claimed of `reconnect` only.
* `doReconnect` does not reset `pongs`: the pong of the new connection answers a flush of the old one, whose messages
  may be lost, although the comment at `client.go:347` says a pong means that they were sent. `FlushMeansDelivered`
  claims this of a reconnecting client only for flushes answered on their own connection (`sound`).
* `Connect` resets `pongs`, but does not wait for the `readLoop` of the last connection (`client.go:95-105`). That one may
  still be in `handlePacketDatas` with pongs of its own, and take the entry of a flush on the new connection. So
  `FlushMeansDelivered` is claimed of a connection made while no such `readLoop` was there (`mixed`).
* A message that is appended after `flushPendingBuffer` has written the pending buffer and before `doneWithPending` drops it
  (`client.go:291-303`) is accepted and then lost, on a connection that stands; the `Flush` that follows is answered, which
  the comment at `client.go:347` takes for a proof that all messages were sent. The model has the append and collects these
  messages in `dropped`: `FlushMeansDelivered` is not about them, and `QueuedIsSent` says that they never arrive.
* An append that overlaps the reset of the pending buffer may restore messages already sent (`raced`), and one that
  overlaps `doneWithPending` may dereference `nil` (`PendingPanic`).
* A peer that stops reading is not noticed: whoever writes to it blocks with `c.mu` held, and the ping callback that would
  count its missing pongs waits for `c.mu` (`client.go:220`, `669`). `DeadPeerNoticed`, `Reconnects` and `ClosedEnds` are
  therefore claimed if, again and again, nobody is in a write to a silent peer (`Stalled`). For the same reason a stop of the
  test may hold `tasksLock` for good (`task_online.go:56-69`, `client.go:163`), with every other request behind it, and
  `EveryRequestAnswered` has the premise `ClientsGiveWay`. Nothing in the repository promises more, and TLC finds the
  counterexample as soon as the premise is dropped.
* A task left over from a stopped test looks the online task up in the list the next start has emptied, and dereferences
  `nil`, which ends the process (`LookupNil`). `LiveLoopFindsOnline` speaks of tasks that were not told to stop.
* A message whose answer comes before `send` has recorded it stays in `sendMap` for ever (`server/client.go:100-107`,
  `169-171`): `RecordsOfWaiting` says that nothing else does.
* `SendMessage` of a closed client, and a flush into the pending buffer, report success.
* The limit of the pending buffer that `pkg/client/options.go:17` speaks of is never enforced.
* The messages expected of a channel task are counted after the send, and between the two stores of `countMsg` a
  report may show more messages received than expected. `RecvNeverOver` is claimed between two counts, and of p2p.
* `onlineFinished` is set at the end of `run` whoever is connected (`task_online.go:99-102`), users who exist for their
  pairs only are never connected (`task_p2p.go:65-69`), and a message whose send fails has been counted
  (`task_p2p.go:129-136`): all these stay in the report as not received. `LossesSettle` says exactly which (`missed`).

### Fairness

* Go schedules every goroutine that can go on: weak fairness of each goroutine's steps.
* `sync.Mutex` and `sync.RWMutex` let a waiter in although others keep taking the lock: strong fairness of the
  steps that need it. In `ClientConn` only the ping callbacks need it, whom others keep overtaking; a mutex hands itself over
  to a waiter after a millisecond (`sync.Mutex`, starvation mode). `select` picks at random among ready cases, so that a closed `stopC` is taken although
  the ticker keeps firing: strong fairness of `LoopQuit`; in `StressServer` the other cases of the loop do not
  disable `Quit`, which is fair in the weak sense.
* A write to a peer that answers returns; one to a silent peer need not, and is given no fairness. `ClientsClosed` of
  `StressServer` has none either. `OnlineTask` assumes that calls into a client return.
* `AllOnline` assumes that a server asked again and again gives an address and accepts a connection in the end,
  and that only `MaxLoss` connections are lost; `Reconnects` that a dial tried again and again succeeds.
* In `FlushPath` the server takes what it is sent and a dial succeeds in the end, and what was on the way to an earlier
  connection need not arrive; in `P2pTraffic` the server delivers,
  and the statistics go on. `LossesSettle` assumes a test that is not stopped and readers that come to the end of what they are
  owed again and again, as a premise.
* No fairness for requests, stops, losses, faults, kills, pongs or sends: none has to happen.

`CHECK_DEADLOCK FALSE` is set where the program may really stop: a client that is closed, a test that has
stopped, a process that has panicked, a client all of whose bounded faults and calls are used up. `StressServer` can always serve, and its runs check for deadlock.

## 4. The proofs

### StressServer_proof

From `ServerAssumption` (a handler exists, the numbers are naturals, configurations name existing slots), for
any number of handlers, channel entries, starts and kills, and whether or not a stop ever gets past its clients:

* `TypeCorrect`: `TypeOK` always holds. `TypeOK` alone is not inductive: a handler inside `startTask` indexes the task
  arrays by its request and its position, so `TypeInv` adds that such a handler holds a request of a start that
  was received (`StartOK`).
* `Inductive`: with `Serial`, `IInv` always holds. Its parts: `OneBusy`, at most one handler is serving; `BatchInv`,
  the file holds at least the number of every test begun, or is torn, and a handler between the read and the write
  holds a number above all of them; `LockHeld`, `tasksLock` is held exactly by a handler in `stopTask`; `TaskInv`,
  what tasks exist, run and are listed, by how far the serving handler has come in its start or stop.
* `BatchFresh`: `FreshBatch`, from `BatchInv`. The point is the torn file: a kill between truncation and write leaves
  an empty file, on which the next `nextTestSeq` panics, instead of beginning again at 1.
* `RunsAsAWhole`: `AllOrNothing`, from `TaskInv` when no handler is in the middle.
* `LiveLoopsSafe`: `LiveLoopFindsOnline`, because tasks are only removed from the list when all of them are stopped and
  the online task is the first that is added.

### StressRefine_proof

From the same assumption, on top of `StressServer_proof`:

* `StopsEveryTask`: `StopReachesAll`, for any requests at once. It needs `LockHeld`, which holds without `Serial`, and
  `StopSoFar`, that the stop channels of the tasks behind the loop of `stopTask` are closed. `removeAllTask` and `addTask`
  need `tasksLock`, so that the list cannot change under the loop (`ListLocked`), and no step opens a stop channel again.
* `Refinement`: with `Serial`, `Spec` implements `TestControl` under the mapping of `StressProps`: the initial states are
  initial there, and every step is a step there or changes nothing an operator sees. `RefInv` adds to `IInv` what the
  mapping reads: tests have growing numbers of starts and never the batch number 0, a start that is not yet a test is
  later than all of them, only tasks of the last test run, and only the p2p task makes pairs. Without the growing
  numbers, a test stopped once could run again in the abstract state.

### OnlineTask_proof

From `OnlineAssumption`, for any number of users, any size of a batch, even or not, any capacity of `uids` and any number of losses:

* `Inductive`: `IInv` always holds. `WorkersInv` says that workers under way belong to the batch `run` waits for;
  `TurnsInv` that `loop` acts on clients only after `onlineFinished`, when all workers are done, and so `run` and
  `loop` take turns; `ClientsInv` where the client of each maker may be, given its position; `TodoInv` which
  users `loop` may still create a client for.
* `NoUserTwice`: `OneClientPerUser`. The flag without a lock is enough because it is set once, after `run`'s wait.
* `ClientsKept`: `NoneLost`, of the clients of users; those without a name replace each other in the map.
* `TypeCorrect`: `TypeOK`. Besides `IInv` it needs `Bounds`, that `run` takes up no batch beyond the last user, which
  comes from the condition of `run`'s loop.

### ChannelTask_proof

From `ChannelAssumption`, for any numbers of channels, users, subscribers and messages and any size of the batch, uneven ones
included, and up to the panic if one comes:

* `Inductive`: `IInv` always holds. `CreationInv` says which channels `run` has created or is creating, given its batch,
  as long as the task is running; `RoundInv` that `sendLoop` chooses a message only when `run` has ended, so that all
  channels exist; `LateInv` that after a stop at most the message already chosen goes out. `StopInv` ties `isRunning` to
  the place of the stop: `createChannelFinished` is also set by a `run` that a stop broke off, and only `isRunning` being
  false then keeps `sendLoop` from sending to channels that do not exist.
* `TypeCorrect`; `SendsToCreated`: `SentOnlyToCreated`; `RoundBroken`: `StopBreaksRound`; `FinishedMeansCreated`: what
  `createChannelFinished` promises while the tasks run.

### ClientConn_proof

From `ClientAssumption`, for any number of connections, ping callbacks, repairs, faults and calls of `Close`, with and
without reconnection:

* `Inductive`: `CInv` always holds beside `TypeOK`. `Roles` says where each goroutine may be; `MuInv` that a goroutine is
  inside a section of `c.mu`, a write included, exactly if it is the holder; `HeldInv` what the status is in there, which a goroutine that
  waits for `c.mu` cannot change; `UsableInv` what the status promises of `conn`, the reader, the writer and the timer;
  `FreshInv` that a reconnecting client has no goroutine and no timer before `Connect` has set it up, so that nothing can
  meet `Connect`'s own steps; `RedialInv` that a second `doReconnect` cannot begin before the first has made the client
  `CONNECTED` or given up; `WatchInv` that no reader or flusher comes back while it dials.
* `TypeCorrect`; `ConnectedUsable`: `ConnectedIsUsable`; `WatchersGone`: `NoOldWatcherAtRedial`; `OneRepairs`:
  `OneRedialler`; `CloseFinal`: `CloseIsFinal`; `PingNeverPanics`: no ping callback finds its timer `nil`, however long its
  write took. The proofs use no fairness, and so hold of writes that never return.
* `NobodyOfClosedStays`: once a client that reconnects by itself is closed and `Connect` has returned, a flusher that waits
  has a token in its channel, and a reader reads from a connection that is broken or closed or that a `close()` is about to
  close. This is the part of `ClosedEnds` that fairness cannot give. It follows from `EndInductive`: `FlushersInv`, there is
  one flusher at most and it listens to the channel made last, so that the token `close()` puts there is not taken by
  another; and `ReadersInv`, the shared reader is bound to the client's own connection or to one that is gone, though a
  reader picks it without a lock. `GoneStays`: what a `close()` is about to close stays so until it is closed.

### FlushPath_proof

From `FlushAssumption` (finitely many users of `FlushTimeout`), for any number of flushes, messages, connections and
faults, any limit of the buffer, with and without reconnection, with the data race on the pending buffer, and with readers
left over by a second `Connect`:

* `Inductive`: `IInv` always holds. A flush is answered by position: the n-th pong answers the n-th entry of
  `pongs`. So the invariant says where pings and entries are: `PlaceInv`, no ping without its entry; `TargetInv`, no flush is
  for a connection later than the next; `KeptInv` and `OwedInv`, every message accepted before a flush is on its way,
  ahead of every ping whose pong could be taken for the answer; `AnswerInv`, the pongs that came are for flushes whose
  messages have been received. `RecInv` says what the writer is like at each step of `doReconnect`, and `ObjInv` which
  pending buffer is in use. `RaceInv` is about the data race: if an append that overlapped the reset has yet to restore a
  length, no flush for the next connection is waiting on what it restores. `CountInv`, `PingsInv`, `CalledInv` and `RedoInv`
  count the calls, for the types, and `MixInv` the readers left over. While one of them may read (`mixed`) positions mean
  nothing, so that the parts about delivery, `DInv`, are claimed when `~mixed`, and come back with the next `Connect` that finds
  no reader, which begins with an empty queue; what was answered before stays true, and so do order and counts.
* `AnsweredMeansDelivered`: `FlushMeansDelivered`, which is inductive only together with the rest. It is about the messages in
  `appended` when the flush was called; those in `dropped` the code loses, which
  `QueuedIsSent` shows.
* `OnceInOrder`: `InOrderAndOnce`, from `OrderInv`: messages received or sent to earlier connections, on the wire and
  buffered have growing numbers, unless
  the data race restored something.
* `WaitAnswerable`: a call of `FlushTimeout` that waits and has no token has its place in `pongs`; without reconnection, and
  while its connection stands and no other reader takes from it, as many pongs are to come as it takes to reach that place. `WaitInductive` is its
  invariant: `WaitInv`, only `Connect` takes places away; `AskedInv`, and then they were asked for on an earlier
  connection; `PongsInv`, answers and pings on the wire are as many as entries, because a call that times out leaves its
  entry. With reconnection `pongs` outlives the connection and may have more entries than pongs are to come: then a call
  may time out although its own ping was answered, and nothing is promised.
* `TypeCorrect`.

### SendPath_proof

From `SendAssumption` (finitely many senders, positive bounds), for any number of senders, messages and ticks and
any size of the buffer:

* `Inductive`: `IInv` always holds. `PrefixInv` says that what was written is a first part of what was appended, also
  after a flush that failed in the middle; `DrawnInv` that a sender with a fresh number is the only one to hold it
  and has not used it, which makes the numbers appended different; `RateInv` that the rates shown add up to no more
  than the count remembered, while `countMsg` is between its ticks, and to no more than the count at any time. `TypeOK`
  alone is not inductive: `DrawnInv` adds that a sender under way holds a real message.
* `TypeCorrect`, and `NothingLost`: `WrittenOnce`, proved from what `Flush` does to buffer, wire and history.
* `AllAccountedFor`: `CountedOnce`. Each step moves one message from one term of the sum to another; the senders that
  hold one are a finite set that grows or shrinks by one.
* `NoRateInvented`: `RatesNeverOver`, from `RateInv`.

### P2pTraffic_proof

From `FramesAssumption` and `P2pAssumption`, for any number of users, of pairs, of messages and of lost connections, any base
of the lengths and any header bytes, and reads of any size. The one bound is `MaxMsg < Base^4`: `decodeLength` reads at most four digits, and the
message `m` of the model has a body of `m` bytes, so that a longer one would not be a frame the program can receive.

* *The operators.* `Encode`, `Parse` and `Packets` are recursive functions. That each is a function, and what it returns, is
  `Recursion`: a function whose calls come closer to a last one exists, by the smallest counterexample (`LeastNumber`, from
  `WFMin`, which takes a set, where the induction theorems take an operator). `DigitsSpell`: the digits `Encode` writes are
  read back by `DecodeLength`. `Frames1`: with a first part of a frame `FrameEnd` waits, with all of it and whatever follows
  it finds its end.
* *Streams.* `Laid(S, r, pos)`: the bytes `S` are the frames of the items `r`, the i-th of which ends at `pos[i]`. `CutLaid`
  and `FromLaid`: of a first part of `S`, `Parse` cuts off exactly the frames that are complete and `Packets` returns them
  one by one. `ReadLaid`: what is kept and what is still to come are laid out in the other frames.
* `Streams`, the inductive invariant: for each client `owed` is `a \o r`, the frames in hand are those of `a`, and
  the bytes kept followed by those under way are laid out in `r`. `FramesWhole` alone is not inductive: it does not say
  that the bytes kept begin where a frame begins in terms of positions, which is what the next read needs. A lost connection leaves the frames in hand.
* `TypeCorrect`: `TypeOK`; `FramesCorrect`: `FramesWhole`.
* `NeverOver`: `RecvNeverOver`. `Counted` says: what is owed was sent to that client, has left the wire and is owed once
  (`OwedOnce`); a client has counted no more than the messages to it that nobody has to handle any more (`Received`, `Done`);
  and the sum of `countMsg` is no more than those to the clients it has added up (`Summing`). `Done` only grows, and is a
  set of messages sent, each of which `randSend` has counted.
* `PairsCorrect`: `PairsAsAsked`. n users make n(n-1)/2 pairs (`CountTwoOf`), so that `MinUsers`, the root rounded up, is the
  least number that is enough (`MinUsersIs`) and `generateRandomPairs` is never asked for more than there are.

### Only model-checked, and why

Liveness under fairness and ENABLED are out of TLAPS's reach. So the temporal properties are checked by TLC only, within
the bounds above: `EveryRequestAnswered`, `AllOnline`, `WaitersGoOn`, `AllCreated`, `SendLoopEnds`, `Reconnects`,
`ClosedEnds`, `DeadPeerNoticed`, `AllCounted`, `QueuedIsSent` and `LossesSettle`. `RecordsOfWaiting`, an invariant, is only
checked too: a proof would need the order of `acks` and `wire` tied to `written`. The three properties with a violation are
refuted by TLC, which is all there is to show. Every other property of a run, invariant or property of steps, is a theorem.

## 5. What is not modelled

* Encryption and packet encoding; packets that fail to decode (`handlePacketDatas` then drops the good frames before
  them too); HTTP bodies and answers; `wkhttp`, `main`, logging, pprof; the timer pool.
* The latencies: a clock would have to be modelled for figures the program promises nothing about, stored
  by several clients at once (`server/client.go:105`). `sendSuccessMap` and `cleanLoop` serve them.
* The messages expected of channel tasks, and `countOnline`, which reads a status.
* `genId`, which runs once before anything is served, and the server address with `exchange`: one write
  of a file and two of memory, that no running test reads.
* Clients that are dropped after a failed connect with their `cleanLoop` running (`task_online.go:139`), and the
  connection a failed handshake inside `doReconnect` leaves open (`client.go:288`): leaks without other effect.
* Functions without a caller: `reCreateChannelIfNeeded`, `waitOnlineFinished`, `gnetUnpacket`, `ReadString`.
* Build and release configuration.

## 6. Plan

Written first, because a mistake there breaks every test: `StressServer` with `TestControl`; then `ClientConn`, on
which all else stands; `OnlineTask`; `ChannelTask`; `SendPath`; then `FlushPath`, `Frames` and `P2pTraffic`.

All that a run checks as a safety property is proved, and so are the facts of safety that two of the liveness properties
rest on beside fairness: `NobodyOfClosedStays` for `ClosedEnds`, `WaitAnswerable` for the calls of `FlushTimeout`. Left are
the liveness properties themselves, which the provers do not reach, and what section 5 lists.
