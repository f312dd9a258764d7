--------------------------- MODULE SendPath_proof ---------------------------
(***************************************************************************)
(* Proof, for any number of senders, messages and ticks and any size of    *)
(* the buffer, that messages through one client are written once and in    *)
(* order, that none is miscounted, and that no rate is invented.           *)
(***************************************************************************)
EXTENDS SendProps, SequenceTheorems, FiniteSetTheorems, TLAPS

\* Messages written are the first of those appended.
PrefixInv ==
  \A i \in DOMAIN written : i \in DOMAIN appended /\ written[i] = appended[i]

\* No number is appended twice: a sender that has drawn one has not used it.
DrawnInv ==
  /\ \A i \in DOMAIN appended : appended[i] <= sendCount
  /\ \A i, j \in DOMAIN appended : appended[i] = appended[j] => i = j
  /\ \A s \in Senders : at[s] # "idle" => seq[s] \in Seqs
  /\ \A s \in Senders : at[s] = "append" =>
       /\ seq[s] \in 1 .. sendCount
       /\ \A i \in DOMAIN appended : appended[i] # seq[s]
       /\ \A other \in Senders : at[other] = "append" /\ seq[other] = seq[s] => other = s

\* What was shown lags behind what was sent by at least what was sent since.
RateInv ==
  /\ preSendCount <= sendCount /\ rated <= sendCount
  /\ statsAt = "idle" => rated <= preSendCount

IInv == TypeOK /\ WrittenOnce /\ PrefixInv /\ DrawnInv /\ CountedOnce /\ RateInv

-----------------------------------------------------------------------------
LEMMA Bounds == Limit \in Nat /\ MaxMsg \in Nat /\ MaxTicks \in Nat
BY SendAssumption

\* A flush leaves the buffer empty and, if the connection still stands, has
\* put all of it on the wire; if not, a first part at most.
LEMMA FlushEffect ==
  ASSUME TypeOK, WrittenOnce, PrefixInv, NEW ok \in BOOLEAN, Flush(ok)
  PROVE  /\ bufs' = <<>> /\ appended' = appended /\ up' \in BOOLEAN
         /\ wire' \in Seq(Seqs) /\ written' \in Seq(Seqs)
         /\ up' => Len(wire') = Len(wire) + Len(bufs)
         /\ WrittenOnce' /\ PrefixInv' /\ (up' => up)
<1> DEFINE part(n) == SubSeq(bufs, 1, n)
<1>0. bufs \in Seq(Seqs) /\ wire \in Seq(Seqs) /\ written \in Seq(Seqs) /\ appended \in Seq(Seqs)
      /\ up \in BOOLEAN
  BY DEF TypeOK
<1>1. PICK n \in 0 .. IF up THEN Len(bufs) ELSE 0 :
        /\ wire' = wire \o part(n) /\ written' = written \o part(n)
        /\ up /\ ok => n = Len(bufs)
  BY DEF Flush
<1>2. n \in 0 .. Len(bufs)
  BY <1>0, <1>1, LenProperties
<1>3. part(n) \in Seq(Seqs) /\ Len(part(n)) = n /\ \A i \in 1 .. n : part(n)[i] = bufs[i]
  BY <1>0, <1>2, SubSeqProperties
<1>4. bufs' = <<>> /\ appended' = appended /\ up' = (up /\ ok)
  BY DEF Flush
<1>5. wire' \in Seq(Seqs) /\ written' \in Seq(Seqs)
  BY <1>0, <1>1, <1>3, ConcatProperties
<1>6. up' => part(n) = bufs
  BY <1>0, <1>1, <1>4, SubSeqFull
<1>7. up' => Len(wire') = Len(wire) + Len(bufs)
  BY <1>0, <1>1, <1>6, ConcatProperties
<1>8. WrittenOnce'
  BY <1>0, <1>1, <1>4, <1>5, <1>6, ConcatEmptySeq DEF WrittenOnce
<1>9. PrefixInv'
  <2>1. CASE up
    <3>1. appended = written \o bufs
      BY <2>1 DEF WrittenOnce
    <3>2. ASSUME NEW i \in DOMAIN written' PROVE i \in DOMAIN appended /\ written'[i] = appended[i]
      <4>1. Len(written') = Len(written) + n /\ Len(appended) = Len(written) + Len(bufs)
        BY <1>0, <1>1, <1>3, <3>1, ConcatProperties
      <4>2. i \in 1 .. Len(written) + n /\ i \in 1 .. Len(appended)
        BY <1>0, <1>2, <1>5, <3>2, <4>1, LenProperties
      <4>3. CASE i <= Len(written)
        BY <1>0, <1>1, <1>3, <3>1, <4>1, <4>2, <4>3, ConcatProperties, LenProperties
      <4>4. CASE i > Len(written)
        <5>1. i - Len(written) \in 1 .. n
          BY <1>0, <1>2, <4>2, <4>4, LenProperties
        <5>2. written'[i] = part(n)[i - Len(written)] /\ appended[i] = bufs[i - Len(written)]
          BY <1>0, <1>1, <1>3, <3>1, <4>1, <4>2, <4>4, ConcatProperties, LenProperties
        <5>3. QED
          BY <1>0, <1>3, <4>2, <5>1, <5>2, LenProperties
      <4>5. QED
        BY <1>0, <4>2, <4>3, <4>4, LenProperties
    <3>3. QED
      BY <1>4, <3>2 DEF PrefixInv
  <2>2. CASE ~up
    <3>1. n = 0
      BY <1>1, <2>2
    <3>2. part(n) = <<>>
      BY <1>0, <1>3, <3>1, EmptySeq
    <3>3. written' = written
      BY <1>0, <1>1, <3>2, ConcatEmptySeq
    <3>4. QED
      BY <1>4, <3>3 DEF PrefixInv
  <2>3. QED
    BY <2>1, <2>2
<1>10. QED
  BY <1>0, <1>4, <1>5, <1>7, <1>8, <1>9

LEMMA DrawnFinite == IsFiniteSet(Drawn) /\ Cardinality(Drawn) \in Nat
<1>1. Drawn \in SUBSET Senders
  BY DEF Drawn
<1>2. QED
  BY <1>1, SendAssumption, FS_Subset, FS_CardinalityType

\* What the steps need of TypeOK.
LEMMA TypeFacts ==
  ASSUME TypeOK
  PROVE  /\ sendCount \in Nat /\ sendErr \in Nat /\ sendSuccess \in Nat /\ sendCount <= MaxMsg
         /\ at \in [Senders -> {"idle", "append", "flush", "kick", "record"}]
         /\ seq \in [Senders -> 0 .. MaxMsg]
         /\ bufs \in Seq(Seqs) /\ appended \in Seq(Seqs) /\ wire \in Seq(Seqs)
         /\ written \in Seq(Seqs) /\ acks \in Seq(Acks) /\ up \in BOOLEAN
         /\ Len(bufs) \in Nat /\ Len(wire) \in Nat /\ Len(acks) \in Nat
         /\ preSendCount \in Nat /\ rated \in Nat
<1>1. sendCount \in Nat /\ sendErr \in Nat /\ sendSuccess \in Nat /\ sendCount <= MaxMsg
      /\ preSendCount \in Nat /\ rated \in Nat
  BY Bounds DEF TypeOK
<1>2. QED
  BY <1>1, LenProperties DEF TypeOK

LEMMA SeqReset ==
  ASSUME TypeOK, NEW s \in Senders
  PROVE  [seq EXCEPT ![s] = 0] \in [Senders -> 0 .. MaxMsg]
BY TypeFacts, Bounds

LEMMA InFlightType == TypeOK => InFlight \in Nat
BY TypeFacts DEF InFlight

LEMMA InitInv == Init => IInv
<1> SUFFICES ASSUME Init PROVE IInv
  OBVIOUS
<1>0. <<>> \in Seq(Seqs) /\ <<>> \in Seq(Acks) /\ Len(<<>>) = 0
  OBVIOUS
<1>1. TypeOK
  <2>1. NoAck \in Acks
    BY Bounds DEF NoAck, Acks
  <2>2. 0 \in 0 .. MaxMsg /\ 0 \in 0 .. MaxTicks
    BY Bounds
  <2>3. at \in [Senders -> {"idle", "append", "flush", "kick", "record"}] /\ seq \in [Senders -> 0 .. MaxMsg]
    BY <2>2 DEF Init
  <2>4. QED
    BY <1>0, <2>1, <2>2, <2>3 DEF TypeOK, Init
<1>2. WrittenOnce
  BY <1>0, ConcatEmptySeq DEF WrittenOnce, Init
<1>3. PrefixInv /\ DrawnInv
  BY DEF PrefixInv, DrawnInv, Init
<1>4. CountedOnce
  <2>1. Drawn = {}
    BY DEF Drawn, Init
  <2>2. Cardinality(Drawn) = 0
    BY <2>1, FS_EmptySet
  <2>3. QED
    BY <1>0, <2>2 DEF CountedOnce, InFlight, Init
<1>5. RateInv
  BY DEF RateInv, Init
<1>6. QED
  BY <1>1, <1>2, <1>3, <1>4, <1>5 DEF IInv

-----------------------------------------------------------------------------
\* Every conjunct depends on a few variables only.
LEMMA WritingSame ==
  ASSUME WrittenOnce, PrefixInv, UNCHANGED <<bufs, appended, written, up>>
  PROVE  WrittenOnce' /\ PrefixInv'
BY DEF WrittenOnce, PrefixInv

LEMMA RateSame ==
  ASSUME TypeOK, RateInv, sendCount' >= sendCount, sendCount' \in Nat, UNCHANGED <<preSendCount, rated, statsAt>>
  PROVE  RateInv'
BY TypeFacts DEF RateInv

LEMMA DrawnSame ==
  ASSUME TypeOK, DrawnInv, UNCHANGED <<appended, sendCount>>,
         \A t \in Senders : at'[t] # "idle" =>
           seq'[t] = seq[t] /\ at[t] # "idle" /\ (at'[t] = "append" => at[t] = "append")
  PROVE  DrawnInv'
BY DEF DrawnInv

\* Steps of a sender.
LEMMA BeginInv ==
  ASSUME IInv, NEW s \in Senders, SendBegin(s)
  PROVE  IInv'
<1> USE DEF IInv
<1>0. /\ at[s] = "idle" /\ sendCount < MaxMsg /\ sendCount' = sendCount + 1
      /\ seq' = [seq EXCEPT ![s] = sendCount + 1] /\ at' = [at EXCEPT ![s] = "append"]
      /\ UNCHANGED <<sendErr, sendSuccess, bufs, appended, token, flusherAt, up, wire, written,
                     acks, readerAt, ack, overtaken, sendMap, statsAt, ticks, preSendCount, rated>>
  BY DEF SendBegin, Goto, writer, network, reading, stats
<1>1. TypeOK'
  <2>1. sendCount' \in 0 .. MaxMsg
    BY <1>0, TypeFacts, Bounds
  <2>2. seq' \in [Senders -> 0 .. MaxMsg] /\ at' \in [Senders -> {"idle", "append", "flush", "kick", "record"}]
    BY <1>0, <2>1, TypeFacts
  <2>3. QED
    BY <1>0, <2>1, <2>2 DEF TypeOK
<1>2. WrittenOnce' /\ PrefixInv'
  BY <1>0, WritingSame
<1>3. DrawnInv'
  <2>1. \A i \in DOMAIN appended : appended[i] \in Nat /\ appended[i] <= sendCount
    <3>1. \A i \in DOMAIN appended : appended[i] \in Seqs
      BY TypeFacts, LenProperties, ElementOfSeq
    <3>2. QED
      BY <3>1, Bounds DEF DrawnInv, Seqs
  <2>2. at'[s] = "append" /\ seq'[s] = sendCount + 1
    BY <1>0, TypeFacts
  <2>3. \A t \in Senders \ {s} : at'[t] = at[t] /\ seq'[t] = seq[t]
    BY <1>0, TypeFacts
  <2>4. sendCount + 1 \in Seqs
    BY <1>0, TypeFacts, Bounds DEF Seqs
  <2>5. \A t \in Senders : at'[t] # "idle" => seq'[t] \in Seqs
    BY <2>2, <2>3, <2>4 DEF DrawnInv
  <2>6. \A t \in Senders : at'[t] = "append" =>
          /\ seq'[t] \in 1 .. sendCount'
          /\ \A i \in DOMAIN appended : appended[i] # seq'[t]
    BY <1>0, <2>1, <2>2, <2>3, TypeFacts DEF DrawnInv
  <2>7. \A t, u \in Senders : at'[t] = "append" /\ at'[u] = "append" /\ seq'[u] = seq'[t] => u = t
    <3>1. \A t \in Senders \ {s} : at[t] = "append" => seq[t] # sendCount + 1
      BY TypeFacts DEF DrawnInv
    <3>2. QED
      BY <2>2, <2>3, <3>1 DEF DrawnInv
  <2>8. \A i \in DOMAIN appended : appended[i] <= sendCount'
    BY <1>0, <2>1, TypeFacts
  <2>9. QED
    BY <1>0, <2>5, <2>6, <2>7, <2>8 DEF DrawnInv
<1>4. CountedOnce'
  <2>1. Drawn' = Drawn \cup {s} /\ s \notin Drawn
    BY <1>0, TypeFacts DEF Drawn
  <2>2. Cardinality(Drawn') = Cardinality(Drawn) + 1
    BY <2>1, DrawnFinite, FS_AddElement
  <2>3. QED
    <3>1. InFlight' = InFlight /\ InFlight \in Nat
      BY <1>0, InFlightType DEF InFlight
    <3>2. QED
      BY <1>0, <2>2, <3>1, DrawnFinite, TypeFacts, SMTT(30) DEF CountedOnce
<1>5. RateInv'
  BY <1>0, TypeFacts, RateSame
<1>6. QED
  BY <1>1, <1>2, <1>3, <1>4, <1>5

LEMMA AppendInv ==
  ASSUME IInv, NEW s \in Senders, SendAppend(s)
  PROVE  IInv'
<1> USE DEF IInv
<1>0. /\ at[s] = "append" /\ bufs' = Append(bufs, seq[s]) /\ appended' = Append(appended, seq[s])
      /\ at' = [at EXCEPT ![s] = at'[s]] /\ at'[s] \in {"flush", "kick"}
      /\ UNCHANGED <<sendCount, sendErr, sendSuccess, seq, token, flusherAt, up, wire, written,
                     acks, readerAt, ack, overtaken, sendMap, statsAt, ticks, preSendCount, rated>>
  BY TypeFacts DEF SendAppend, Goto, counts, network, reading, stats
<1>1. seq[s] \in 1 .. sendCount /\ seq[s] \in Seqs
  BY <1>0, TypeFacts, Bounds DEF DrawnInv, Seqs
<1>2. /\ bufs' \in Seq(Seqs) /\ appended' \in Seq(Seqs) /\ Len(bufs') = Len(bufs) + 1
      /\ DOMAIN appended' = 1 .. Len(appended) + 1 /\ DOMAIN appended = 1 .. Len(appended)
      /\ Len(appended) \in Nat
      /\ \A i \in DOMAIN appended : appended'[i] = appended[i]
      /\ appended'[Len(appended) + 1] = seq[s]
  BY <1>0, <1>1, TypeFacts, AppendProperties, LenProperties
<1>3. TypeOK'
  <2>1. at' \in [Senders -> {"idle", "append", "flush", "kick", "record"}]
    BY <1>0, TypeFacts
  <2>2. QED
    BY <1>0, <1>2, <2>1 DEF TypeOK
<1>4. WrittenOnce'
  <2>1. <<seq[s]>> \in Seq(Seqs)
    BY <1>1
  <2>2. (written \o bufs) \o <<seq[s]>> = written \o (bufs \o <<seq[s]>>)
    <3>1. written \in Seq(Seqs) /\ bufs \in Seq(Seqs)
      BY TypeFacts
    <3>2. QED
      BY <2>1, <3>1, ConcatAssociative
  <2>3. bufs' = bufs \o <<seq[s]>> /\ appended' = appended \o <<seq[s]>>
    BY <1>0, <1>1, TypeFacts, AppendIsConcat
  <2>4. QED
    BY <1>0, <2>2, <2>3 DEF WrittenOnce
<1>5. PrefixInv'
  BY <1>0, <1>2 DEF PrefixInv
<1>6. DrawnInv'
  <2>1. \A t \in Senders : at'[t] = "append" => t # s /\ at[t] = "append" /\ seq'[t] = seq[t]
    BY <1>0, TypeFacts
  <2>2. \A i \in DOMAIN appended : appended'[i] # seq[s]
    BY <1>0, <1>2 DEF DrawnInv
  <2>3. \A t \in Senders : at'[t] = "append" => seq[t] # seq[s]
    BY <1>0, <2>1 DEF DrawnInv
  <2>4. \A i \in DOMAIN appended' : i \in DOMAIN appended \/ i = Len(appended) + 1
    BY <1>2
  <2>5. \A i \in DOMAIN appended' : appended'[i] <= sendCount'
    BY <1>0, <1>1, <1>2, <2>4, TypeFacts DEF DrawnInv
  <2>6. \A i, j \in DOMAIN appended' : appended'[i] = appended'[j] => i = j
    BY <1>2, <2>2, <2>4 DEF DrawnInv
  <2>7. \A t \in Senders : at'[t] # "idle" => seq'[t] \in Seqs
    BY <1>0, <1>1, TypeFacts DEF DrawnInv
  <2>8. \A t \in Senders : at'[t] = "append" => \A i \in DOMAIN appended' : appended'[i] # seq'[t]
    BY <1>0, <1>2, <2>1, <2>3, <2>4 DEF DrawnInv
  <2>9. \A t \in Senders : at'[t] = "append" => seq'[t] \in 1 .. sendCount'
    BY <1>0, <2>1 DEF DrawnInv
  <2>10. \A t, u \in Senders : at'[t] = "append" /\ at'[u] = "append" /\ seq'[u] = seq'[t] => u = t
    BY <2>1 DEF DrawnInv
  <2>11. QED
    BY <2>5, <2>6, <2>7, <2>8, <2>9, <2>10 DEF DrawnInv
<1>7. CountedOnce'
  <2>1. Drawn' = Drawn \ {s} /\ s \in Drawn
    BY <1>0, TypeFacts DEF Drawn
  <2>2. Cardinality(Drawn') = Cardinality(Drawn) - 1
    BY <2>1, DrawnFinite, FS_RemoveElement
  <2>3. QED
    <3>1. InFlight' = InFlight + 1 /\ InFlight \in Nat
      BY <1>0, <1>2, TypeFacts, InFlightType DEF InFlight
    <3>2. QED
      BY <1>0, <2>2, <3>1, DrawnFinite, TypeFacts DEF CountedOnce
<1>8. RateInv'
  BY <1>0, TypeFacts, RateSame
<1>9. QED
  BY <1>3, <1>4, <1>5, <1>6, <1>7, <1>8

LEMMA FlushInv ==
  ASSUME IInv, NEW s \in Senders, SendFlush(s)
  PROVE  IInv'
<1> USE DEF IInv
<1>1. PICK ok \in BOOLEAN : /\ Flush(ok)
                            /\ ok => at'[s] = "kick" /\ UNCHANGED <<seq, sendErr>>
                            /\ ~ok => at'[s] = "idle" /\ sendErr' = sendErr + 1
  BY TypeFacts DEF SendFlush, Goto, Done
<1>2. /\ at[s] = "flush" /\ at' = [at EXCEPT ![s] = at'[s]] /\ at'[s] \in {"kick", "idle"}
      /\ seq' = seq \/ (seq' = [seq EXCEPT ![s] = 0] /\ at'[s] = "idle")
      /\ sendErr' = sendErr \/ sendErr' = sendErr + 1
      /\ UNCHANGED <<sendCount, sendSuccess, token, flusherAt, acks, readerAt, ack,
                     overtaken, sendMap, statsAt, ticks, preSendCount, rated>>
  BY TypeFacts DEF SendFlush, Goto, Done, reading, stats
<1>3. /\ bufs' = <<>> /\ appended' = appended /\ up' \in BOOLEAN
      /\ wire' \in Seq(Seqs) /\ written' \in Seq(Seqs)
      /\ up' => Len(wire') = Len(wire) + Len(bufs)
      /\ WrittenOnce' /\ PrefixInv' /\ (up' => up)
  BY <1>1, FlushEffect
<1>4. up' => ok
  BY <1>1 DEF Flush
<1>5. TypeOK'
  <2>0. seq' \in [Senders -> 0 .. MaxMsg]
    BY <1>2, TypeFacts, SeqReset
  <2>1. at' \in [Senders -> {"idle", "append", "flush", "kick", "record"}]
    BY <1>2, TypeFacts
  <2>2. sendErr' \in Nat
    BY <1>2, TypeFacts
  <2>3. bufs' \in Seq(Seqs)
    BY <1>3
  <2>4. QED
    BY <1>2, <1>3, <2>0, <2>1, <2>2, <2>3 DEF TypeOK
<1>6. \A t \in Senders : at'[t] = "append" <=> at[t] = "append"
  BY <1>2, TypeFacts
<1>7. DrawnInv'
  <2>1. \A t \in Senders : at'[t] # "idle" => seq'[t] = seq[t] /\ at[t] # "idle"
    BY <1>1, <1>2, TypeFacts
  <2>2. QED
    BY <1>2, <1>3, <1>6, <2>1, DrawnSame
<1>8. CountedOnce'
  <2>1. Drawn' = Drawn
    BY <1>6 DEF Drawn
  <2>2. SUFFICES ASSUME up' PROVE CountedOnce'
    BY DEF CountedOnce
  <2>3. Len(bufs') = 0 /\ sendErr' = sendErr /\ Len(wire') = Len(wire) + Len(bufs) /\ up
    BY <1>1, <1>3, <1>4, <2>2
  <2>4. QED
    <3>1. InFlight' = InFlight /\ InFlight \in Nat
      BY <1>2, <2>3, TypeFacts, InFlightType DEF InFlight
    <3>2. QED
      BY <1>2, <2>1, <2>3, <3>1 DEF CountedOnce
<1>9. RateInv'
  BY <1>2, TypeFacts, RateSame
<1>10. QED
  BY <1>3, <1>5, <1>7, <1>8, <1>9

LEMMA KickInv ==
  ASSUME IInv, NEW s \in Senders, SendKick(s) \/ SendRecord(s)
  PROVE  IInv'
<1> USE DEF IInv
<1>0. /\ at' = [at EXCEPT ![s] = at'[s]] /\ at'[s] \in {"record", "idle"} /\ at[s] # "append"
      /\ seq' = seq \/ (seq' = [seq EXCEPT ![s] = 0] /\ at'[s] = "idle")
      /\ at[s] # "idle"
      /\ token' = token \/ token' = TRUE
      /\ UNCHANGED <<sendCount, sendErr, sendSuccess, bufs, appended, flusherAt, up, wire, written,
                     acks, readerAt, ack, overtaken, statsAt, ticks, preSendCount, rated>>
  BY TypeFacts DEF SendKick, SendRecord, Goto, Done, counts, writer, network, reading, stats
<1>1. TypeOK'
  <2>0. seq' \in [Senders -> 0 .. MaxMsg]
    BY <1>0, TypeFacts, SeqReset
  <2>1. at' \in [Senders -> {"idle", "append", "flush", "kick", "record"}]
    BY <1>0, TypeFacts
  <2>2. token' \in BOOLEAN
    BY <1>0 DEF TypeOK
  <2>3. sendMap' \subseteq Seqs
    <3>1. seq[s] \in Seqs \/ sendMap' = sendMap
      BY DEF DrawnInv, SendKick, SendRecord
    <3>2. sendMap' \subseteq sendMap \cup {seq[s]}
      BY DEF SendKick, SendRecord
    <3>3. QED
      BY <3>1, <3>2 DEF TypeOK
  <2>4. QED
    BY <1>0, <2>0, <2>1, <2>2, <2>3 DEF TypeOK
<1>2. \A t \in Senders : at'[t] = "append" <=> at[t] = "append"
  BY <1>0, TypeFacts
<1>3. DrawnInv'
  <2>1. \A t \in Senders : at'[t] # "idle" => seq'[t] = seq[t] /\ at[t] # "idle"
    BY <1>0, TypeFacts
  <2>2. QED
    BY <1>0, <1>2, <2>1, DrawnSame
<1>4. CountedOnce'
  <2>1. Drawn' = Drawn
    BY <1>2 DEF Drawn
  <2>2. QED
    <3>1. InFlight' = InFlight
      BY <1>0 DEF InFlight
    <3>2. QED
      BY <1>0, <2>1, <3>1 DEF CountedOnce
<1>5. WrittenOnce' /\ PrefixInv' /\ RateInv'
  BY <1>0, WritingSame, RateSame, TypeFacts
<1>6. QED
  BY <1>1, <1>3, <1>4, <1>5

-----------------------------------------------------------------------------
\* Steps of the flusher.
LEMMA FlusherInv ==
  ASSUME IInv, Flusher
  PROVE  IInv'
<1> USE DEF IInv
<1>0. /\ UNCHANGED <<sendCount, sendErr, sendSuccess, at, seq, acks, readerAt, ack,
                     overtaken, sendMap, statsAt, ticks, preSendCount, rated>>
      /\ flusherAt' \in {"wait", "woken", "left"} /\ token' \in BOOLEAN
  BY DEF Flusher, FlusherTake, FlusherWrite, FlusherLeave, counts, sends, reading, stats, TypeOK
<1>1. \/ UNCHANGED <<bufs, appended, up, wire, written>>
      \/ \E ok \in BOOLEAN : Flush(ok)
  BY DEF Flusher, FlusherTake, FlusherWrite, FlusherLeave, writer, network
<1>2. /\ bufs' \in Seq(Seqs) /\ appended' = appended /\ up' \in BOOLEAN
      /\ wire' \in Seq(Seqs) /\ written' \in Seq(Seqs) /\ (up' => up)
      /\ WrittenOnce' /\ PrefixInv'
      /\ up' => Len(wire') + Len(bufs') = Len(wire) + Len(bufs)
  <2>1. CASE UNCHANGED <<bufs, appended, up, wire, written>>
    BY <2>1, WritingSame, TypeFacts
  <2>2. CASE \E ok \in BOOLEAN : Flush(ok)
    <3>1. bufs' = <<>> /\ bufs' \in Seq(Seqs) /\ Len(bufs') = 0
      BY <2>2 DEF Flush
    <3>2. up' => Len(wire') = Len(wire) + Len(bufs)
      BY <2>2, FlushEffect
    <3>3. up' => Len(wire') + Len(bufs') = Len(wire) + Len(bufs)
      BY <3>1, <3>2, TypeFacts
    <3>4. QED
      BY <2>2, <3>1, <3>3, FlushEffect
  <2>3. QED
    BY <1>1, <2>1, <2>2
<1>3. TypeOK'
  BY <1>0, <1>2 DEF TypeOK
<1>4. DrawnInv'
  BY <1>0, <1>2, DrawnSame
<1>5. CountedOnce'
  <2>1. Drawn' = Drawn
    BY <1>0 DEF Drawn
  <2>2. Len(wire') \in Nat /\ Len(bufs') \in Nat
    BY <1>2, LenProperties
  <2>3. Len(wire) \in Nat /\ Len(bufs) \in Nat /\ Len(acks) \in Nat
    BY TypeFacts
  <2>4. up' => InFlight' = InFlight
    BY <1>0, <1>2, <2>2, <2>3, SMTT(30) DEF InFlight
  <2>5. QED
    BY <1>0, <1>2, <2>1, <2>4 DEF CountedOnce
<1>6. RateInv'
  BY <1>0, TypeFacts, RateSame
<1>7. QED
  BY <1>2, <1>3, <1>4, <1>5, <1>6

\* Steps of the server and of OnSendack, which only move messages along.
LEMMA AnswerInv ==
  ASSUME IInv, Answer
  PROVE  IInv'
<1> USE DEF IInv
<1>1. PICK ok \in BOOLEAN :
        /\ wire # <<>> /\ wire' = Tail(wire)
        /\ acks' = Append(acks, [seq |-> Head(wire), ok |-> ok, found |-> FALSE])
        /\ UNCHANGED <<sendCount, sendErr, sendSuccess, at, seq, bufs, appended, token, flusherAt, up,
                       written, readerAt, ack, overtaken, sendMap, statsAt, ticks, preSendCount, rated>>
  BY DEF Answer, counts, sends, writer, stats
<1>2. Head(wire) \in Seqs /\ Tail(wire) \in Seq(Seqs) /\ Len(Tail(wire)) = Len(wire) - 1
  BY <1>1, TypeFacts, HeadTailProperties
<1>3. [seq |-> Head(wire), ok |-> ok, found |-> FALSE] \in Acks
  BY <1>2, Bounds DEF Acks, Seqs
<1>4. acks' \in Seq(Acks) /\ Len(acks') = Len(acks) + 1
  BY <1>1, <1>3, TypeFacts, AppendProperties
<1>5. TypeOK'
  BY <1>1, <1>2, <1>4 DEF TypeOK
<1>6. WrittenOnce' /\ PrefixInv' /\ RateInv' /\ DrawnInv'
  BY <1>1, WritingSame, RateSame, DrawnSame, TypeFacts
<1>7. CountedOnce'
  <2>1. InFlight' = InFlight
    BY <1>1, <1>2, <1>4, TypeFacts DEF InFlight
  <2>2. Drawn' = Drawn
    BY <1>1 DEF Drawn
  <2>3. QED
    BY <1>1, <2>1, <2>2 DEF CountedOnce
<1>8. QED
  BY <1>5, <1>6, <1>7

LEMMA ReaderInv ==
  ASSUME IInv, Reader
  PROVE  IInv'
<1> USE DEF IInv
<1>0. UNCHANGED <<sendCount, at, seq, bufs, appended, token, flusherAt, up, wire, written,
                  statsAt, ticks, preSendCount, rated>>
  BY DEF Reader, ReadAck, DropRecord, CountAck, counts, sends, writer, network, stats
<1>1. WrittenOnce' /\ PrefixInv' /\ RateInv' /\ DrawnInv'
  BY <1>0, WritingSame, RateSame, DrawnSame, TypeFacts
<1>2. Drawn' = Drawn
  BY <1>0 DEF Drawn
<1>3. CASE ReadAck
  <2>1. /\ readerAt = "read" /\ acks # <<>> /\ acks' = Tail(acks)
        /\ ack' = [Head(acks) EXCEPT !.found = Head(acks).seq \in sendMap]
        /\ readerAt' \in {"drop", "count"} /\ UNCHANGED <<sendErr, sendSuccess, sendMap>>
    BY <1>3 DEF ReadAck, counts
  <2>2. Head(acks) \in Acks /\ Tail(acks) \in Seq(Acks) /\ Len(Tail(acks)) = Len(acks) - 1
    BY <2>1, TypeFacts, HeadTailProperties
  <2>a. overtaken' \subseteq overtaken \cup {Head(acks).seq}
    <3>1. overtaken' \subseteq overtaken \cup {ack'.seq}
      BY <1>3 DEF ReadAck
    <3>2. ack'.seq = Head(acks).seq
      BY <2>1, <2>2 DEF Acks
    <3>3. QED
      BY <3>1, <3>2
  <2>3. ack' \in Acks
    <3>1. ack' = [Head(acks) EXCEPT !.found = TRUE] \/ ack' = [Head(acks) EXCEPT !.found = FALSE]
      <4>1. CASE Head(acks).seq \in sendMap
        BY <2>1, <4>1
      <4>2. CASE Head(acks).seq \notin sendMap
        <5>1. (Head(acks).seq \in sendMap) = FALSE
          BY <4>2
        <5>2. QED
          BY <2>1, <5>1
      <4>3. QED
        BY <4>1, <4>2
    <3>2. QED
      BY <2>2, <3>1 DEF Acks
  <2>4. TypeOK'
    <3>1. overtaken' \subseteq 0 .. MaxMsg
      BY <2>2, <2>a DEF TypeOK, Acks
    <3>2. QED
      BY <1>0, <2>1, <2>2, <2>3, <3>1 DEF TypeOK
  <2>5. InFlight' = InFlight
    <3>1. /\ Len(bufs') = Len(bufs) /\ Len(wire') = Len(wire) /\ Len(acks') = Len(acks) - 1
          /\ readerAt' # "read" /\ readerAt = "read"
      BY <1>0, <2>1, <2>2
    <3>2. Len(bufs) \in Nat /\ Len(wire) \in Nat /\ Len(acks) \in Nat
      BY TypeFacts
    <3>3. QED
      BY <3>1, <3>2 DEF InFlight
  <2>6. QED
    BY <1>0, <1>1, <1>2, <2>1, <2>4, <2>5 DEF CountedOnce
<1>4. CASE DropRecord
  <2>1. /\ readerAt = "drop" /\ readerAt' = "count" /\ sendMap' \subseteq sendMap
        /\ UNCHANGED <<acks, ack, overtaken, sendErr, sendSuccess>>
    BY <1>4 DEF DropRecord, counts
  <2>2. TypeOK'
    BY <1>0, <2>1 DEF TypeOK
  <2>3. InFlight' = InFlight
    BY <1>0, <2>1 DEF InFlight
  <2>4. QED
    BY <1>0, <1>1, <1>2, <2>1, <2>2, <2>3 DEF CountedOnce
<1>5. CASE CountAck
  <2>1. /\ readerAt = "count" /\ readerAt' = "read" /\ ack' = NoAck /\ UNCHANGED <<acks, overtaken, sendMap>>
        /\ \/ sendSuccess' = sendSuccess + 1 /\ sendErr' = sendErr
           \/ sendSuccess' = sendSuccess /\ sendErr' = sendErr + 1
    BY <1>5 DEF CountAck
  <2>2. NoAck \in Acks
    BY Bounds DEF NoAck, Acks
  <2>3. sendSuccess' \in Nat /\ sendErr' \in Nat
    BY <2>1, TypeFacts
  <2>4. TypeOK'
    BY <1>0, <2>1, <2>2, <2>3 DEF TypeOK
  <2>5. InFlight = InFlight' + 1 /\ InFlight' \in Nat
    BY <1>0, <2>1, TypeFacts DEF InFlight
  <2>6. sendSuccess \in Nat /\ sendErr \in Nat /\ Cardinality(Drawn) \in Nat
    BY TypeFacts, DrawnFinite
  <2>7. CountedOnce'
    <3>1. CASE sendSuccess' = sendSuccess + 1 /\ sendErr' = sendErr
      BY <1>0, <1>2, <2>5, <2>6, <3>1 DEF CountedOnce
    <3>2. CASE sendSuccess' = sendSuccess /\ sendErr' = sendErr + 1
      BY <1>0, <1>2, <2>5, <2>6, <3>2 DEF CountedOnce
    <3>3. QED
      BY <2>1, <3>1, <3>2
  <2>8. QED
    BY <1>1, <2>4, <2>7
<1>6. QED
  BY <1>3, <1>4, <1>5 DEF Reader

\* Steps of the statistics, and of the network.
LEMMA OthersInv ==
  ASSUME IInv, CountRate \/ CountStore \/ Break
  PROVE  IInv'
<1> USE DEF IInv
<1>0. UNCHANGED <<sendCount, sendErr, sendSuccess, at, seq, bufs, appended, token, flusherAt, wire,
                  written, acks, readerAt, ack, overtaken, sendMap>> /\ (up' = up \/ up' = FALSE)
  BY DEF CountRate, CountStore, Break, counts, sends, writer, network, reading
<1>a. up \in BOOLEAN
  BY DEF TypeOK
<1>b. up' \in BOOLEAN /\ (up' => up)
  <2>1. CASE up' = up
    BY <1>a, <2>1
  <2>2. CASE up' = FALSE
    BY <2>2
  <2>3. QED
    BY <1>0, <2>1, <2>2
<1>1. WrittenOnce' /\ PrefixInv' /\ DrawnInv'
  BY <1>0, <1>b, DrawnSame DEF WrittenOnce, PrefixInv
<1>2. CountedOnce'
  BY <1>0, <1>b DEF CountedOnce, InFlight, Drawn
<1>3. CASE CountRate
  <2>1. /\ statsAt = "idle" /\ statsAt' = "store" /\ ticks < MaxTicks /\ ticks' = ticks + 1
        /\ rated' = rated + sendCount - preSendCount /\ preSendCount' = preSendCount
    BY <1>3 DEF CountRate
  <2>2. rated' \in Nat /\ RateInv'
    BY <1>0, <2>1, TypeFacts DEF RateInv
  <2>3. ticks' \in 0 .. MaxTicks
    BY <2>1, Bounds DEF TypeOK
  <2>4. TypeOK'
    BY <1>0, <1>b, <2>1, <2>2, <2>3 DEF TypeOK
  <2>5. QED
    BY <1>1, <1>2, <2>2, <2>4
<1>4. CASE CountStore
  <2>1. /\ statsAt = "store" /\ statsAt' = "idle" /\ preSendCount' = sendCount
        /\ UNCHANGED <<ticks, rated>>
    BY <1>4 DEF CountStore
  <2>2. TypeOK'
    BY <1>0, <1>b, <2>1 DEF TypeOK
  <2>3. RateInv'
    BY <1>0, <2>1, TypeFacts DEF RateInv
  <2>4. QED
    BY <1>1, <1>2, <2>2, <2>3
<1>5. CASE Break
  <2>1. UNCHANGED <<statsAt, ticks, preSendCount, rated>>
    BY <1>5 DEF Break, stats
  <2>2. TypeOK'
    BY <1>0, <1>b, <2>1 DEF TypeOK
  <2>3. RateInv'
    BY <1>0, <2>1 DEF RateInv
  <2>4. QED
    BY <1>1, <1>2, <2>2, <2>3
<1>6. QED
  BY <1>3, <1>4, <1>5

-----------------------------------------------------------------------------
\* The strengthened invariant holds for any number of senders, messages and
\* ticks and any size of the buffer.
THEOREM Inductive == Spec => []IInv
<1>1. IInv /\ UNCHANGED vars => IInv'
  <2> SUFFICES ASSUME IInv, UNCHANGED vars PROVE IInv'
    OBVIOUS
  <2> USE DEF IInv, vars, counts, sends, writer, network, reading, stats
  <2>1. TypeOK'
    BY DEF TypeOK
  <2>2. WrittenOnce' /\ PrefixInv' /\ DrawnInv' /\ RateInv'
    BY DEF WrittenOnce, PrefixInv, DrawnInv, RateInv
  <2>3. CountedOnce'
    BY DEF CountedOnce, InFlight, Drawn
  <2> QED BY <2>1, <2>2, <2>3
<1>2. IInv /\ [Next]_vars => IInv'
  BY <1>1, BeginInv, AppendInv, FlushInv, KickInv, FlusherInv, AnswerInv, ReaderInv, OthersInv DEF Next, Send
<1>3. QED
  BY InitInv, <1>2, PTL DEF Spec

\* Every variable has its type.
THEOREM TypeCorrect == Spec => []TypeOK
<1>1. IInv => TypeOK
  BY DEF IInv
<1>2. QED
  BY Inductive, <1>1, PTL

\* While the connection stands, what is written and what is in the buffer make
\* up what was appended (buffer.go:25-70), however many flush at once.
THEOREM NothingLost == Spec => []WrittenOnce
<1>1. IInv => WrittenOnce
  BY DEF IInv
<1>2. QED
  BY Inductive, <1>1, PTL

\* While the connection stands every message sent is in one place or counted
\* once (client.go:88-126, 158-172).
THEOREM AllAccountedFor == Spec => []CountedOnce
<1>1. IInv => CountedOnce
  BY DEF IInv
<1>2. QED
  BY Inductive, <1>1, PTL

\* The rates shown never add up to more than was sent (task_stats.go:105-107).
THEOREM NoRateInvented == Spec => []RatesNeverOver
<1>1. IInv => RatesNeverOver
  BY DEF IInv, RateInv, RatesNeverOver
<1>2. QED
  BY Inductive, <1>1, PTL
=============================================================================
