------------------------- MODULE ChannelTask_proof -------------------------
(***************************************************************************)
(* Proof, for any numbers of channels, any size of batch and any number of *)
(* users, that a channel task sends to no channel before the server has    *)
(* created it, and that a stop breaks off the round that is under way.     *)
(***************************************************************************)
EXTENDS ChannelProps, TLAPS

\* The tasks have not been told to stop before StopRunning.
StopInv == isRunning <=> stopAt \in {"online", "finished", "running"}

\* Unless a stop broke it off, run leaves out no channel it has come past.
CreationInv ==
  isRunning =>
    /\ runAt = "batch" => \A c \in Channels : c <= Start => c \in created
    /\ runAt \in {"create", "ask"} => \A c \in Channels : c <= End => c \in created \cup ids
    /\ runAt = "done" => Channels \subseteq created

\* sendLoop sees createChannelFinished when run has ended.  It may be that a
\* stop ended it, but then isRunning is false before a message is chosen.
RoundInv ==
  /\ createChannelFinished => runAt = "done"
  /\ loopAt \in {"online", "send", "one"} /\ isRunning => runAt = "done"
  /\ loopAt = "one" => Channels \subseteq created

\* The message chosen while the tasks ran is the one that may still be sent.
LateInv == late \in {0, 1} /\ (isRunning \/ loopAt = "one" => late = 0)

IInv == TypeOK /\ StopInv /\ CreationInv /\ RoundInv /\ LateInv /\ SentOnlyToCreated

-----------------------------------------------------------------------------
LEMMA Bounds ==
  /\ Counts \subseteq Nat /\ CreateChannelPerBatch \in Nat /\ CreateChannelPerBatch > 0
  /\ SubscriberOnlines \subseteq Int /\ Online \in Nat /\ MaxSent \in Nat
BY ChannelAssumption

\* What a batch spans: one that is not the only one ends where the next
\* starts, and the only one ends with the last channel.
LEMMA BatchSpan ==
  ASSUME count \in Nat, batch \in Nat
  PROVE  /\ Start \in Nat /\ End \in Nat
         /\ (batch + 1) * CreateChannelPerBatch = Start + CreateChannelPerBatch
         /\ (batch + 1) * CreateChannelPerBatch <= End \/ count <= End
<1>1. Start \in Nat /\ (batch + 1) * CreateChannelPerBatch = Start + CreateChannelPerBatch
  BY Bounds DEF Start
<1> QED BY <1>1, Bounds DEF End

LEMMA InitInv == Init => IInv
<1> SUFFICES ASSUME Init PROVE IInv
  OBVIOUS
<1>1. count \in Nat
  BY Bounds DEF Init
<1>2. TypeOK
  <2>1. sent \in [Channels -> 0 .. MaxSent] /\ onlineSubscribers \in 0 .. Online
    BY Bounds DEF Init
  <2> QED BY <2>1 DEF Init, TypeOK
<1>3. CreationInv
  BY <1>1, Bounds DEF Init, CreationInv, Channels, Start
<1>4. StopInv /\ RoundInv /\ LateInv /\ SentOnlyToCreated
  BY DEF Init, StopInv, RoundInv, LateInv, SentOnlyToCreated, Channels
<1> QED BY <1>2, <1>3, <1>4 DEF IInv

LEMMA RunInv == IInv /\ Run => IInv'
<1> SUFFICES ASSUME IInv, Run PROVE IInv'
  OBVIOUS
<1> USE DEF IInv
<1>1. count \in Nat /\ batch \in Nat
  BY Bounds DEF TypeOK
<1>2. /\ UNCHANGED <<count, subscriberOnline, isRunning, stopC, onlineFinished, usersComing, stopAt>>
      /\ UNCHANGED <<loopAt, toSend, sent, late>>
      /\ created \subseteq created' /\ Channels' = Channels
  BY DEF cfg, CutsOut, Run, RunBatch, RunBeyond, RunFinish, RunCheck, RunAsk, flags, online, runs, loops, Channels
<1>3. StopInv' /\ LateInv' /\ SentOnlyToCreated'
  BY <1>2 DEF StopInv, LateInv, SentOnlyToCreated
<1>4. CASE RunBatch
  <2>1. ids' \subseteq Nat /\ onlineSubscribers' \in 0 .. Online
    <3>1. subscriberOnline \in Int /\ subscriberOnline >= 0
      BY <1>4, Bounds DEF RunBatch, CutsOut, TypeOK
    <3>2. onlineSubscribers' \in 0 .. Online
      BY <1>4, <3>1, Bounds DEF RunBatch
    <3>3. ids' \subseteq Nat
      BY <1>1, <1>4, BatchSpan DEF RunBatch, CutsOut
    <3> QED BY <3>2, <3>3
  <2>2. TypeOK'
    BY <1>2, <1>4, <2>1 DEF RunBatch, CutsOut, TypeOK, flags, online
  <2>3. CreationInv'
    <3> SUFFICES ASSUME isRunning, NEW c \in Channels, c <= End PROVE c \in created \cup ids'
      BY <1>2, <1>4 DEF RunBatch, CutsOut, CreationInv, End, Start
    <3>1. c \in Nat
      BY <1>1 DEF Channels
    <3>2. CASE c <= Start
      BY <1>4, <3>2 DEF RunBatch, CutsOut, CreationInv
    <3>3. CASE c > Start
      BY <1>1, <1>4, <3>1, <3>3, BatchSpan DEF RunBatch, CutsOut
    <3> QED BY <1>1, <3>1, <3>2, <3>3, BatchSpan
  <2>4. RoundInv'
    BY <1>2, <1>4 DEF RunBatch, CutsOut, RoundInv, flags
  <2> QED BY <1>3, <2>2, <2>3, <2>4
<1>5. CASE RunBeyond
  <2>1. UNCHANGED <<flags, runs, loops, stopAt, cfg>>
    BY <1>5 DEF RunBeyond
  <2>2. TypeOK'
    BY <1>2, <1>5, <2>1 DEF RunBeyond, TypeOK, flags, online, runs, loops
  <2>3. CreationInv' /\ RoundInv'
    BY <1>2, <2>1 DEF CreationInv, RoundInv, Start, End, flags, runs, loops
  <2> QED BY <1>3, <2>2, <2>3
<1>6. CASE RunFinish
  <2>1. TypeOK'
    BY <1>2, <1>6 DEF RunFinish, TypeOK
  <2>2. isRunning => Channels \subseteq created
    <3> SUFFICES ASSUME isRunning, NEW c \in Channels PROVE c \in created
      OBVIOUS
    <3>1. count <= Start
      BY <1>1, <1>6, BatchSpan DEF RunFinish, Batches
    <3>2. c \in Nat /\ c <= count
      BY <1>1 DEF Channels
    <3>3. c <= Start
      BY <1>1, <3>1, <3>2, BatchSpan
    <3> QED BY <1>6, <3>3 DEF RunFinish, CreationInv
  <2>3. CreationInv'
    BY <1>2, <1>6, <2>2 DEF RunFinish, CreationInv
  <2>4. RoundInv'
    BY <1>2, <1>6 DEF RunFinish, RoundInv
  <2> QED BY <1>3, <2>1, <2>3, <2>4
<1>7. CASE RunCheck
  <2>1. UNCHANGED <<created, flags, alive, onlineSubscribers>>
    BY <1>7 DEF RunCheck
  <2>2. CASE isRunning /\ ids # {}
    <3>1. runAt' = "ask" /\ UNCHANGED <<batch, ids>>
      BY <1>7, <2>2 DEF RunCheck
    <3>2. TypeOK'
      BY <1>2, <2>1, <3>1 DEF TypeOK, flags, online
    <3>3. End' = End
      BY <1>2, <3>1 DEF End, Start
    <3>4. CreationInv'
      BY <1>2, <1>7, <2>1, <3>1, <3>3 DEF RunCheck, CreationInv
    <3>5. RoundInv'
      BY <1>2, <1>7, <2>1, <3>1 DEF RunCheck, RoundInv, flags
    <3> QED BY <1>3, <3>2, <3>4, <3>5
  <2>3. CASE ~(isRunning /\ ids # {})
    <3>1. runAt' = "batch" /\ batch' = batch + 1 /\ ids' = {}
      BY <1>7, <2>3 DEF RunCheck
    <3>2. TypeOK'
      BY <1>1, <1>2, <2>1, <3>1 DEF TypeOK, flags, online
    <3>3. CreationInv'
      <4> SUFFICES ASSUME isRunning, NEW c \in Channels, c <= Start' PROVE c \in created
        BY <1>2, <2>1, <3>1 DEF CreationInv
      <4>1. c \in Nat /\ c <= count
        BY <1>1 DEF Channels
      <4>2. Start' = (batch + 1) * CreateChannelPerBatch
        BY <3>1 DEF Start
      <4>3. c <= End
        BY <1>1, <4>1, <4>2, BatchSpan, Bounds
      <4> QED BY <1>7, <2>3, <4>3 DEF RunCheck, CreationInv
    <3>4. RoundInv'
      BY <1>2, <1>7, <2>1, <3>1 DEF RunCheck, RoundInv, flags
    <3> QED BY <1>3, <3>2, <3>3, <3>4
  <2> QED BY <2>2, <2>3
<1>8. CASE RunAsk
  <2>1. UNCHANGED <<flags, batch, onlineSubscribers>> /\ runAt = "ask" /\ runAt' \in {"ask", "create"}
    BY <1>8 DEF RunAsk
  <2>2. ids' \subseteq ids /\ created' \subseteq created \cup ids /\ created \cup ids \subseteq created' \cup ids'
        /\ alive' \in {alive, FALSE}
    BY <1>8 DEF RunAsk
  <2>3. TypeOK'
    BY <1>2, <2>1, <2>2 DEF TypeOK, flags, online
  <2>4. End' = End
    BY <1>2, <2>1 DEF End, Start
  <2>5. CreationInv'
    BY <1>2, <2>1, <2>2, <2>4 DEF CreationInv
  <2>6. RoundInv'
    BY <1>2, <2>1, <2>2 DEF RoundInv, flags
  <2> QED BY <1>3, <2>3, <2>5, <2>6
<1> QED BY <1>4, <1>5, <1>6, <1>7, <1>8 DEF Run

LEMMA LoopInv == IInv /\ Loop => IInv'
<1> SUFFICES ASSUME IInv, Loop PROVE IInv'
  OBVIOUS
<1> USE DEF IInv
<1>1. /\ UNCHANGED <<count, subscriberOnline, alive, isRunning, createChannelFinished, stopC, onlineFinished, usersComing>>
      /\ UNCHANGED <<runAt, batch, ids, created, onlineSubscribers, stopAt>>
  BY DEF Loop, LoopTick, LoopQuit, LoopOnline, LoopNext, LoopOne, cfg, flags, online, runs
<1>2. Channels' = Channels /\ Start' = Start /\ End' = End
  BY <1>1 DEF Channels, Start, End
<1>3. StopInv' /\ CreationInv'
  BY <1>1, <1>2 DEF StopInv, CreationInv
<1>4. CASE LoopTick \/ LoopQuit \/ LoopOnline \/ LoopNext
  <2>1. UNCHANGED <<sent, late>> /\ (loopAt' = "one" => isRunning)
    BY <1>4 DEF LoopTick, LoopQuit, LoopOnline, LoopNext
  <2>2. toSend' \subseteq Channels /\ loopAt' \in {"tick", "online", "send", "one", "off"}
    BY <1>4 DEF LoopTick, LoopQuit, LoopOnline, LoopNext, TypeOK
  <2>3. TypeOK'
    BY <1>1, <1>2, <2>1, <2>2 DEF TypeOK
  <2>4. LateInv' /\ SentOnlyToCreated'
    BY <1>1, <1>2, <2>1 DEF LateInv, SentOnlyToCreated
  <2>5. RoundInv'
    BY <1>1, <1>2, <1>4 DEF LoopTick, LoopQuit, LoopOnline, LoopNext, RoundInv, CreationInv
  <2> QED BY <1>3, <2>3, <2>4, <2>5
<1>5. CASE LoopOne
  <2>1. loopAt = "one" /\ loopAt' = "send"
    BY <1>5 DEF LoopOne
  <2>2. PICK c \in toSend :
          /\ toSend' = toSend \ {c}
          /\ \/ UNCHANGED <<sent, late>>
             \/ /\ sent[c] < MaxSent
                /\ sent' = [sent EXCEPT ![c] = @ + 1]
                /\ late' = IF isRunning THEN late ELSE late + 1
    BY <1>5 DEF LoopOne
  <2>3. Channels \subseteq created /\ late = 0 /\ c \in Channels
    BY <2>1 DEF RoundInv, LateInv, TypeOK
  <2>4. sent' \in [Channels -> 0 .. MaxSent]
    BY <2>2, <2>3, Bounds DEF TypeOK
  <2>5. late' \in {0, 1} /\ (isRunning => late' = 0)
    BY <2>2, <2>3
  <2>6. TypeOK'
    BY <1>1, <1>2, <2>1, <2>2, <2>4, <2>5 DEF TypeOK
  <2>7. LateInv'
    BY <1>1, <2>1, <2>5 DEF LateInv
  <2>8. SentOnlyToCreated'
    BY <1>1, <1>2, <2>3 DEF SentOnlyToCreated
  <2>9. isRunning => runAt = "done"
    BY <2>1 DEF RoundInv
  <2>10. RoundInv'
    BY <1>1, <1>2, <2>1, <2>9 DEF RoundInv
  <2> QED BY <1>3, <2>6, <2>7, <2>8, <2>10
<1> QED BY <1>4, <1>5 DEF Loop

LEMMA StopsInv == IInv /\ (OnlineDone \/ StopOnline \/ Stop \/ LookupNil) => IInv'
<1> SUFFICES ASSUME IInv, OnlineDone \/ StopOnline \/ Stop \/ LookupNil PROVE IInv'
  OBVIOUS
<1> USE DEF IInv
<1>0. alive' \in {alive, FALSE}
  BY DEF OnlineDone, StopOnline, Stop, StopFinished, StopRunning, StopClose, LookupNil
<1>1. UNCHANGED <<count, subscriberOnline, runAt, batch, ids, created, onlineSubscribers, loopAt, toSend, sent, late>>
  BY DEF OnlineDone, StopOnline, Stop, StopFinished, StopRunning, StopClose, LookupNil, cfg, runs, loops
<1>2. Channels' = Channels /\ Start' = Start /\ End' = End
  BY <1>1 DEF Channels, Start, End
<1>3. /\ isRunning' \in {isRunning, FALSE} /\ createChannelFinished' \in {createChannelFinished, FALSE}
      /\ stopC' \in BOOLEAN /\ onlineFinished' \in BOOLEAN /\ usersComing' \in BOOLEAN
      /\ stopAt' \in {"online", "finished", "running", "close", "done"}
  BY DEF OnlineDone, StopOnline, Stop, StopFinished, StopRunning, StopClose, LookupNil, TypeOK, flags, online
<1>4. TypeOK'
  BY <1>0, <1>1, <1>2, <1>3 DEF TypeOK
<1>5. StopInv'
  BY DEF OnlineDone, StopOnline, Stop, StopFinished, StopRunning, StopClose, LookupNil, flags, StopInv
<1>6. (isRunning' => isRunning) /\ (createChannelFinished' => createChannelFinished)
  BY DEF OnlineDone, StopOnline, Stop, StopFinished, StopRunning, StopClose, LookupNil, flags
<1>7. CreationInv' /\ RoundInv' /\ LateInv' /\ SentOnlyToCreated'
  BY <1>1, <1>2, <1>6 DEF CreationInv, RoundInv, LateInv, SentOnlyToCreated
<1> QED BY <1>4, <1>5, <1>7

-----------------------------------------------------------------------------
\* The strengthened invariant is inductive.
THEOREM Inductive == Spec => []IInv
<1>1. IInv /\ UNCHANGED vars => IInv'
  <2> SUFFICES ASSUME IInv, UNCHANGED vars PROVE IInv'
    OBVIOUS
  <2>1. Channels' = Channels /\ Start' = Start /\ End' = End
    BY DEF Channels, Start, End, vars, cfg, runs
  <2> QED
    BY <2>1 DEF IInv, TypeOK, StopInv, CreationInv, RoundInv, LateInv, SentOnlyToCreated,
            vars, cfg, flags, online, runs, loops
<1>2. IInv /\ [Next]_vars => IInv'
  BY <1>1, RunInv, LoopInv, StopsInv DEF Next
<1> QED BY InitInv, <1>2, PTL DEF Spec

\* The fields of a channel task and the places of its goroutines keep their
\* types (task_channel.go:14-29).
THEOREM TypeCorrect == Spec => []TypeOK
BY Inductive, PTL DEF IInv

\* Nothing is sent to a channel before the server has created it, whenever a
\* stop comes (task_channel.go:57-87 and 162-247).
THEOREM SendsToCreated == Spec => []SentOnlyToCreated
BY Inductive, PTL DEF IInv

\* A stop breaks off the round that is under way (task_channel.go:234-247).
THEOREM RoundBroken == Spec => []StopBreaksRound
<1>1. IInv => StopBreaksRound
  BY DEF IInv, LateInv, StopBreaksRound
<1> QED BY Inductive, <1>1, PTL

\* As long as the tasks run, createChannelFinished says what it means: every
\* channel has been created (task_channel.go:57-87).
THEOREM FinishedMeansCreated == Spec => [](isRunning /\ createChannelFinished => Channels \subseteq created)
<1>1. IInv => (isRunning /\ createChannelFinished => Channels \subseteq created)
  BY DEF IInv, CreationInv, RoundInv
<1> QED BY Inductive, <1>1, PTL
=============================================================================
