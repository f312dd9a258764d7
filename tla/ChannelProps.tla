---------------------------- MODULE ChannelProps ----------------------------
(***************************************************************************)
(* What a channel task promises.                                           *)
(***************************************************************************)
EXTENDS ChannelTask, FiniteSets

\* Every variable has its type: the fields of channelTask
\* (task_channel.go:14-29) and the places of its two goroutines.
TypeOK ==
  /\ count \in Counts /\ subscriberOnline \in SubscriberOnlines
  /\ {isRunning, createChannelFinished, stopC, onlineFinished, usersComing, alive} \subseteq BOOLEAN
  /\ runAt \in {"batch", "create", "ask", "done"} /\ batch \in Nat
  /\ ids \subseteq Nat /\ created \subseteq Nat
  /\ onlineSubscribers \in 0 .. Online
  /\ loopAt \in {"tick", "online", "send", "one", "off"}
  /\ toSend \subseteq Channels /\ sent \in [Channels -> 0 .. MaxSent]
  /\ stopAt \in {"online", "finished", "running", "close", "done"} /\ late \in Nat

\* Nothing is sent to a channel the server has not created, although a run
\* that a stop broke off says createChannelFinished just the same
\* (task_channel.go:70-87), and so may onlineTask.run.
SentOnlyToCreated == \A c \in Channels : sent[c] > 0 => c \in created

\* A stop breaks off the round that is under way: at most the one message
\* whose check came before it is still sent (task_channel.go:234-247).
StopBreaksRound == late <= 1

\* While nobody stops the test and no panic ends the process all channels are
\* created, whatever their number is to the size of a batch.
AllCreated ==
  [](alive /\ stopAt = "online") => <>[](createChannelFinished /\ Channels \subseteq created)

\* A stopped task's sendLoop ends (task_channel.go:162-174).
SendLoopEnds == stopC ~> loopAt = "off" \/ ~alive

\* `"count": 1000, # 频道数`, the number of channels (README.md:57): the task
\* asks the server for these channels only, and survives its own batches.
AsksForItsChannels ==
  /\ ids \subseteq Channels
  /\ runAt = "batch" /\ Batches => End <= Capacity(count)
=============================================================================
