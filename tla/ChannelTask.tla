---------------------------- MODULE ChannelTask ----------------------------
(***************************************************************************)
(* A channel task of a test (server/task_channel.go) from start() on: run  *)
(* creates its channels batch by batch, and once a second sendLoop sends   *)
(* to all of them.  They share isRunning and createChannelFinished, and    *)
(* the onlineFinished of the online task, which is stopped first.          *)
(*                                                                         *)
(* Channels are numbered from 1.  The slice of a batch may reach beyond    *)
(* the last channel into the spare capacity of channelIds, where the ids   *)
(* are empty strings: those are the numbers beyond count.  A configuration *)
(* without "subscriber", which nothing rejects, leaves a nil pointer: it   *)
(* counts as a negative number of online subscribers, which panics too.    *)
(***************************************************************************)
EXTENDS Integers

CONSTANTS
  Counts,                 \* values of channelCfg.Count
  CreateChannelPerBatch,  \* opts.CreateChannelPerBatch
  SubscriberOnlines,      \* values of channelCfg.Subscriber.Online
  Online,                 \* cfg.Online of the online task
  MaxSent                 \* bound: messages sent to one channel

ASSUME ChannelAssumption ==
  /\ Counts \subseteq Nat \ {0} /\ CreateChannelPerBatch \in Nat \ {0}
  /\ SubscriberOnlines \subseteq Int /\ Online \in Nat /\ MaxSent \in Nat

VARIABLES
  count,                  \* channelCfg.Count
  subscriberOnline,       \* channelCfg.Subscriber.Online
  isRunning, createChannelFinished, stopC,
  onlineFinished,         \* of the online task
  usersComing,            \* onlineTask.run has not ended
  alive,                  \* the process has not panicked
  runAt, batch,           \* where run is, and the batch it is at
  ids,                    \* the ids of the batch still to create
  created,                \* keys of channelStatsMap
  onlineSubscribers,      \* how many there are
  loopAt,                 \* where sendLoop is
  toSend,                 \* the channels this round has not come to
  sent,                   \* messages sent to each channel
  stopAt,                 \* how far the stop has come
  late                    \* messages sent once isRunning was false

runs  == <<runAt, batch, ids, created, onlineSubscribers>>
loops == <<loopAt, toSend, sent, late>>
online == <<onlineFinished, usersComing>>
flags == <<isRunning, createChannelFinished, stopC, online>>
cfg   == <<count, subscriberOnline>>
vars  == <<cfg, alive, flags, runs, loops, stopAt>>

Channels == 1 .. count

\* After channelTask.start(), before its goroutines run.
Init ==
  /\ count \in Counts /\ subscriberOnline \in SubscriberOnlines
  /\ isRunning = TRUE /\ createChannelFinished = FALSE /\ stopC = FALSE
  /\ onlineFinished = FALSE /\ usersComing = TRUE /\ alive = TRUE
  /\ runAt = "batch" /\ batch = 0 /\ ids = {} /\ created = {}
  /\ onlineSubscribers = 0
  /\ loopAt = "tick" /\ toSend = {} /\ sent = [c \in Channels |-> 0] /\ late = 0
  /\ stopAt = "online"

\* The capacity of a slice after n appends, for n up to 512: it doubles.
Capacity(n) == CHOOSE c \in {2^k : k \in 0 .. 9} : c >= n /\ (c = 1 \/ c \div 2 < n)

\* getOnlineTask waits for tasksLock, which a stop holds to its end.
TasksLocked == stopAt \notin {"online", "done"}

-----------------------------------------------------------------------------
(* run, createChannel and createChannelWithIds.                            *)

Start == batch * CreateChannelPerBatch
End   == IF count > CreateChannelPerBatch THEN Start + CreateChannelPerBatch ELSE count

\* Mutant: the last channel of the last batch is left out.
BatchesEarly == Start + 1 < count /\ (count > CreateChannelPerBatch => isRunning)

\* Channels that fit in one batch are created without a look at isRunning.
Batches == Start < count /\ (count > CreateChannelPerBatch => isRunning)

\* A batch of ids is cut out; the first time createSubscribers follows.
CutsOut ==
  /\ runAt = "batch" /\ Batches /\ End <= Capacity(count)
  /\ subscriberOnline >= 0 /\ (batch = 0 => ~TasksLocked)
  /\ ids' = (Start + 1) .. End

\* Mutant: more online subscribers than users are not noticed.
RunBatchTrusting ==
  /\ CutsOut
  /\ onlineSubscribers' = subscriberOnline
  /\ runAt' = "create"
  /\ UNCHANGED <<cfg, alive, flags, batch, created, loops, stopAt>>

RunBatch ==
  /\ CutsOut
  /\ onlineSubscribers' = IF subscriberOnline <= Online THEN subscriberOnline ELSE Online
  /\ runAt' = "create"
  /\ UNCHANGED <<cfg, alive, flags, batch, created, loops, stopAt>>

\* A slice beyond the capacity panics, and so does createSubscribers without
\* subscribers to create.
RunBeyond ==
  /\ runAt = "batch" /\ Batches
  /\ \/ End > Capacity(count)
     \/ batch = 0 /\ ~TasksLocked /\ subscriberOnline < 0
  /\ alive' = FALSE
  /\ UNCHANGED <<cfg, flags, runs, loops, stopAt>>

\* The end of the channels, or a stop.
RunFinish ==
  /\ runAt = "batch" /\ ~Batches
  /\ createChannelFinished' = TRUE
  /\ runAt' = "done"
  /\ UNCHANGED <<cfg, alive, isRunning, stopC, online, batch, ids, created,
                 onlineSubscribers, loops, stopAt>>

RunCheck ==
  /\ runAt = "create"
  /\ IF isRunning /\ ids # {}
     THEN runAt' = "ask" /\ UNCHANGED <<batch, ids>>
     ELSE runAt' = "batch" /\ batch' = batch + 1 /\ ids' = {}
  /\ UNCHANGED <<cfg, alive, flags, created, onlineSubscribers, loops, stopAt>>

\* Mutant: an error leaves the channel out.
RunAskSkips ==
  /\ runAt = "ask"
  /\ \E id \in ids :
       /\ ids' = ids \ {id}
       /\ created' \in {created, created \cup {id}}
  /\ runAt' = "create"
  /\ UNCHANGED <<cfg, alive, flags, batch, onlineSubscribers, loops, stopAt>>

\* api.createChannel, whose error makes the process panic.
RunAsk ==
  /\ runAt = "ask"
  /\ \/ /\ \E id \in ids :
             created' = created \cup {id} /\ ids' = ids \ {id}
        /\ runAt' = "create"
        /\ UNCHANGED alive
     \/ /\ alive' = FALSE
        /\ UNCHANGED <<created, ids, runAt>>
  /\ UNCHANGED <<cfg, flags, batch, onlineSubscribers, loops, stopAt>>

-----------------------------------------------------------------------------
(* sendLoop, willSendMsg and sendMsg.                                      *)

LoopTick ==
  /\ loopAt = "tick" /\ createChannelFinished
  /\ loopAt' = "online"
  /\ UNCHANGED <<cfg, alive, flags, runs, toSend, sent, late, stopAt>>

\* Mutant: a break leaves the select only.
LoopQuitNot ==
  /\ loopAt = "tick" /\ stopC
  /\ UNCHANGED vars

LoopQuit ==
  /\ loopAt = "tick" /\ stopC
  /\ loopAt' = "off"
  /\ UNCHANGED <<cfg, alive, flags, runs, toSend, sent, late, stopAt>>

LoopOnline ==
  /\ loopAt = "online" /\ ~TasksLocked
  /\ IF onlineFinished
     THEN loopAt' = "send" /\ toSend' = Channels
     ELSE loopAt' = "tick" /\ UNCHANGED toSend
  /\ UNCHANGED <<cfg, alive, flags, runs, sent, late, stopAt>>

\* Mutant: a round under way does not look at isRunning.
LoopNextAnyway ==
  /\ loopAt = "send"
  /\ IF toSend # {} THEN loopAt' = "one" ELSE loopAt' = "tick"
  /\ UNCHANGED <<cfg, alive, flags, runs, toSend, sent, late, stopAt>>

\* The rate may call for several rounds in one second.
LoopNext ==
  /\ loopAt = "send"
  /\ \/ /\ isRunning /\ toSend # {}
        /\ loopAt' = "one" /\ UNCHANGED toSend
     \/ /\ isRunning /\ toSend = {}
        /\ toSend' = Channels /\ UNCHANGED loopAt
     \/ /\ ~isRunning \/ toSend = {}
        /\ loopAt' = "tick" /\ toSend' = {}
  /\ UNCHANGED <<cfg, alive, flags, runs, sent, late, stopAt>>

\* randSend: the subscriber it picks may have no connected client.
LoopOne ==
  /\ loopAt = "one" /\ ~TasksLocked
  /\ loopAt' = "send"
  /\ \E c \in toSend :
       /\ toSend' = toSend \ {c}
       /\ \/ UNCHANGED <<sent, late>>
          \/ /\ onlineSubscribers > 0 /\ sent[c] < MaxSent
             /\ sent' = [sent EXCEPT ![c] = @ + 1]
             /\ late' = IF isRunning THEN late ELSE late + 1
  /\ UNCHANGED <<cfg, alive, flags, runs, stopAt>>

-----------------------------------------------------------------------------
\* Once this test is over the next start empties the list of tasks, and for
\* whoever is still looking the online task up getOnlineTask returns nil.
LookupNil ==
  /\ stopAt = "done"
  /\ loopAt \in {"online", "one"} \/ (runAt = "batch" /\ Batches /\ batch = 0)
  /\ alive' = FALSE
  /\ UNCHANGED <<cfg, flags, runs, loops, stopAt>>

\* Once, and perhaps after the stop: onlineTask.run has ended.
OnlineDone ==
  /\ usersComing /\ usersComing' = FALSE
  /\ onlineFinished' = TRUE
  /\ UNCHANGED <<cfg, alive, isRunning, createChannelFinished, stopC, runs, loops, stopAt>>

\* The online task is stopped seconds before this one.
StopOnline ==
  /\ stopAt = "online" /\ stopAt' = "finished"
  /\ onlineFinished' = FALSE
  /\ UNCHANGED <<cfg, alive, isRunning, createChannelFinished, stopC, usersComing, runs, loops>>

StopFinished ==
  /\ stopAt = "finished" /\ stopAt' = "running"
  /\ createChannelFinished' = FALSE
  /\ UNCHANGED <<cfg, alive, isRunning, online, stopC, runs, loops>>

StopRunning ==
  /\ stopAt = "running" /\ stopAt' = "close"
  /\ isRunning' = FALSE
  /\ UNCHANGED <<cfg, alive, createChannelFinished, online, stopC, runs, loops>>

StopClose ==
  /\ stopAt = "close" /\ stopAt' = "done"
  /\ stopC' = TRUE
  /\ UNCHANGED <<cfg, alive, isRunning, createChannelFinished, online, runs, loops>>

Run  == RunBatch \/ RunBeyond \/ RunFinish \/ RunCheck \/ RunAsk
Loop == LoopTick \/ LoopQuit \/ LoopOnline \/ LoopNext \/ LoopOne
Stop == StopFinished \/ StopRunning \/ StopClose

Next == alive /\ (Run \/ Loop \/ OnlineDone \/ StopOnline \/ Stop \/ LookupNil)

Spec == Init /\ [][Next]_vars

\* Goroutines go on, and a stop that has begun comes to its end.  When both a
\* tick and stopC are ready select picks either, so stopC wins in the end.
FairSpec ==
  /\ Spec
  /\ WF_vars(alive /\ Run) /\ WF_vars(alive /\ Stop)
  /\ WF_vars(alive /\ Loop) /\ SF_vars(alive /\ LoopQuit)
=============================================================================
