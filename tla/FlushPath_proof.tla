-------------------------- MODULE FlushPath_proof ---------------------------
(***************************************************************************)
(* Proofs, for any number of flushes, of messages, of connections and of   *)
(* faults, and with the data race on the pending buffer, that a flush that *)
(* was answered means that all before it was taken, that a reconnection    *)
(* sends nothing twice or out of order, and that a flush that is waiting   *)
(* can still be answered.                                                  *)
(***************************************************************************)
EXTENDS FlushProps, SequenceTheorems, FiniteSetTheorems, TLAPS

Asks == [on : Nat, msgs : SUBSET Msgs]

Types ==
  /\ auto \in BOOLEAN /\ status \in {"CONNECTED", "RECONNECTING", "CLOSED"}
  /\ conn \in 0 .. MaxConn /\ nFault \in 0 .. MaxFaults
  /\ bufs \in Seq(Msgs) /\ pend \in Seq(Items) /\ wire \in Seq(Items)
  /\ pendOn \in BOOLEAN /\ obj \in Nat /\ next \in 1 .. MaxMsg + 1
  /\ sending \in [msg : Items, snap : Seq(Items), obj : Nat]
  /\ sending # NoSend => sending.msg \in Msgs
  /\ pongs \in Seq(Callers \cup {Nil})
  /\ st \in [Callers -> {"off", "call", "wait", "late", "done"}]
  /\ token \in [Callers -> BOOLEAN] /\ sound \in [Callers -> BOOLEAN]
  /\ asked \in [Callers -> Asks]
  /\ rec \in {"off", "wait", "write", "reset", "failed", "done"}
  /\ up \in BOOLEAN /\ reading \in BOOLEAN /\ raced \in BOOLEAN
  /\ answers \in Nat /\ left \in Nat /\ mixed \in BOOLEAN /\ panicked \in BOOLEAN
  /\ received \subseteq Msgs /\ appended \subseteq Msgs /\ late \subseteq Msgs /\ dropped \subseteq Msgs

\* Where doReconnect is, and what the client is then like.
RecInv ==
  /\ ~auto => rec = "off" /\ ~pendOn
  /\ rec = "off" => status # "RECONNECTING" /\ (pendOn => status = "CLOSED" /\ ~up)
  /\ rec = "wait" => status # "CONNECTED" /\ pendOn /\ ~up /\ answers = 0
  /\ rec \in {"write", "reset", "failed", "done"} => status = "CONNECTED" /\ pendOn /\ bufs = <<>>
  /\ rec = "write" => wire = <<>> /\ answers = 0
  /\ rec = "failed" => ~up /\ answers = 0 /\ appended = {}

\* A pending buffer is made for one connection that broke.
ObjInv ==
  /\ obj <= conn /\ (status = "CONNECTED" => obj < conn)
  /\ sending.obj <= obj

Pings(s, i) == Cardinality({j \in 1 .. i : s[j] = PING})
AllPings(s) == Pings(s, Len(s))

\* An earlier connection's readLoop is met by Connect only.
MixInv == (auto => left = 0 /\ ~mixed) /\ (~mixed => left = 0) /\ left <= conn

\* Each flush is called once, and has one place in c.pongs and one answer.
CountInv == Len(pongs) <= Cardinality(Called) /\ answers <= Cardinality(Called)

\* A ping is for one call of FlushTimeout, unless doReconnect has it in its
\* pending buffer.
PingsInv == ~auto => answers + AllPings(wire) <= Cardinality(Called)
CalledInv ==
  /\ \A f \in Callers : token[f] => f \in Called
  /\ \A p \in DOMAIN pongs : pongs[p] # Nil => pongs[p] \in Called
RedoInv ==
  \A k \in 1 .. MaxConn :
    k > conn \/ (k = conn /\ rec \notin {"off", "wait"}) => st[Redo(k)] = "off"

-----------------------------------------------------------------------------
\* What the server is still to take on the connection the client works for:
\* the next one while doReconnect waits for it.
Stream == IF rec \in {"wait", "write"} THEN pend ELSE wire
Target == IF rec = "wait" THEN conn + 1 ELSE conn

In(m, s, i)  == \E j \in 1 .. i : s[j] = m
Waiting(k)   == {p \in DOMAIN pongs : pongs[p] # Nil /\ (auto => asked[pongs[p]].on = k)}
Owed(p)      == asked[pongs[p]].msgs

\* No ping without its place in c.pongs.
PlaceInv ==
  status # "CLOSED" =>
    /\ rec \notin {"wait", "write"} => answers + AllPings(wire) <= Len(pongs)
    /\ rec \in {"wait", "write", "failed"} => AllPings(pend) <= Len(pongs)

\* No flush is called for a connection later than the next.
TargetInv ==
  status # "CLOSED" => \A p \in DOMAIN pongs : pongs[p] # Nil => asked[pongs[p]].on <= Target

\* A message the writer is answerable for is on its way.
KeptInv ==
  status # "CLOSED" =>
    \A m \in appended \ received :
      /\ rec \in {"wait", "write"} => In(m, pend, Len(pend))
      /\ rec \notin {"wait", "write"} /\ up => In(m, wire, Len(wire)) \/ In(m, bufs, Len(bufs))

\* What a flush waits for is on its way too, all of it if nothing broke, and
\* ahead of every ping that could be taken for its own.
OwedInv ==
  status # "CLOSED" =>
    \A p \in Waiting(Target) : \A m \in Owed(p) \ received :
      /\ rec \in {"wait", "write"} \/ up => In(m, Stream, Len(Stream))
      /\ \A i \in DOMAIN Stream :
           Stream[i] = PING /\ p <= answers + Pings(Stream, i) => In(m, Stream, i)

\* The answers that came are for flushes whose messages have been taken.
AnswerInv ==
  \A p \in Waiting(conn) : p <= answers => Owed(p) \subseteq received

\* An append that is under way will restore what it has read, pings among it;
\* then no flush is waiting for the next connection yet.
RaceInv ==
  sending # NoSend /\ pendOn /\ obj = sending.obj /\ status # "CLOSED"
    /\ rec \in {"wait", "write", "failed"} =>
    /\ AllPings(sending.snap) <= Len(pongs)
    /\ pend # sending.snap => rec # "failed" /\ pend = <<>> /\ Waiting(Target) = {}

-----------------------------------------------------------------------------
\* Messages go on in the order of their numbers.
Sorted(s)   == \A i, j \in DOMAIN s : i < j /\ s[j] # PING => s[i] < s[j]
Below(s, n) == \A i \in DOMAIN s : s[i] < n
Sent        == received \cup late
OrderInv ==
  /\ Below(wire, next) /\ Below(pend, next) /\ Below(bufs, next) /\ \A m \in Sent : m < next
  /\ sending # NoSend =>
       /\ sending.msg = next - 1 /\ next > 1
       /\ \A m \in Sent : m < sending.msg
       /\ Below(wire, sending.msg) /\ Below(pend, sending.msg) /\ Below(bufs, sending.msg)
       /\ Below(sending.snap, sending.msg)
  /\ ~raced =>
       /\ Sorted(wire) /\ Sorted(bufs)
       /\ \A j \in DOMAIN wire : wire[j] # PING => \A m \in Sent : m < wire[j]
       /\ ~pendOn => \A j \in DOMAIN bufs :
            (\A m \in Sent : m < bufs[j]) /\ \A i \in DOMAIN wire : wire[i] < bufs[j]
       /\ rec \in {"wait", "write"} => Sorted(pend) /\
            \A j \in DOMAIN pend : pend[j] # PING =>
              (\A m \in Sent : m < pend[j]) /\ \A i \in DOMAIN wire : wire[i] < pend[j]

\* The invariant of delivery, while no readLoop of an earlier connection reads.
DInv == PlaceInv /\ TargetInv /\ KeptInv /\ OwedInv /\ AnswerInv /\ RaceInv /\ FlushMeansDelivered

IInv == /\ Types /\ RecInv /\ ObjInv /\ MixInv /\ CountInv /\ PingsInv /\ CalledInv /\ RedoInv
        /\ FlushMeansDelivered /\ (~mixed => DInv)
        /\ OrderInv

-----------------------------------------------------------------------------
LEMMA Bounds ==
  /\ Limit \in Nat \ {0} /\ MaxMsg \in Nat /\ MaxConn \in Nat \ {0} /\ MaxFaults \in Nat
  /\ PING \in Items /\ PING \notin Msgs /\ Msgs \subseteq Items /\ Items \subseteq Nat
  /\ \A m \in Msgs : m # PING /\ m \in Nat
BY FlushAssumption DEF Items, Msgs, PING

\* Calls have names of their own, there are finitely many, and none is Nil.
LEMMA CallNames ==
  /\ IsFiniteSet(Callers) /\ Nil \notin Callers
  /\ \A k \in 1 .. MaxConn : Redo(k) \in Callers
  /\ \A k, l \in 1 .. MaxConn : Redo(k) = Redo(l) => k = l
<1>1. IsFiniteSet({<<"user", u>> : u \in Users}) /\ IsFiniteSet({Redo(k) : k \in 1 .. MaxConn})
  <2>1. IsFiniteSet(Users) /\ IsFiniteSet(1 .. MaxConn)
    BY FlushAssumption, FS_Interval
  <2>2. [u \in Users |-> <<"user", u>>] \in Surjection(Users, {<<"user", u>> : u \in Users})
    BY DEF Surjection
  <2>3. [k \in 1 .. MaxConn |-> Redo(k)] \in Surjection(1 .. MaxConn, {Redo(k) : k \in 1 .. MaxConn})
    BY DEF Surjection
  <2> QED BY <2>1, <2>2, <2>3, FS_Surjection
<1>2. IsFiniteSet(Callers)
  BY <1>1, FS_Union DEF Callers
<1>3. Nil \notin Callers
  <2>1. \A f \in Callers : f[1] # "nil"
    BY DEF Callers, Redo
  <2> QED BY <2>1 DEF Nil
<1>4. \A k, l \in 1 .. MaxConn : Redo(k) = Redo(l) => k = l
  BY DEF Redo
<1> QED BY <1>2, <1>3, <1>4 DEF Callers

\* How many pings are in the first i places of a sequence.
LEMMA PingsSet ==
  ASSUME NEW s, NEW i \in Nat
  PROVE  IsFiniteSet({j \in 1 .. i : s[j] = PING}) /\ Pings(s, i) \in Nat
<1>1. IsFiniteSet(1 .. i)
  BY FS_Interval
<1>2. IsFiniteSet({j \in 1 .. i : s[j] = PING})
  BY <1>1, FS_Subset
<1> QED BY <1>2, FS_CardinalityType DEF Pings

LEMMA PingsZero == ASSUME NEW s PROVE Pings(s, 0) = 0
<1>1. {j \in 1 .. 0 : s[j] = PING} = {}
  OBVIOUS
<1> QED BY <1>1, FS_EmptySet DEF Pings

LEMMA PingsSame ==
  ASSUME NEW s, NEW t, NEW i \in Nat, \A j \in 1 .. i : s[j] = t[j]
  PROVE  Pings(s, i) = Pings(t, i)
<1>1. {j \in 1 .. i : s[j] = PING} = {j \in 1 .. i : t[j] = PING}
  OBVIOUS
<1> QED BY <1>1 DEF Pings

LEMMA PingsNone ==
  ASSUME NEW s, NEW i \in Nat, NEW k \in 0 .. i, \A j \in k + 1 .. i : s[j] # PING
  PROVE  Pings(s, i) = Pings(s, k)
<1>1. {j \in 1 .. i : s[j] = PING} = {j \in 1 .. k : s[j] = PING}
  OBVIOUS
<1> QED BY <1>1 DEF Pings

LEMMA PingsGrow ==
  ASSUME NEW s, NEW i \in Nat, NEW k \in 0 .. i
  PROVE  Pings(s, k) <= Pings(s, i)
<1>1. {j \in 1 .. k : s[j] = PING} \subseteq {j \in 1 .. i : s[j] = PING}
  OBVIOUS
<1> QED BY <1>1, PingsSet, FS_Subset DEF Pings

LEMMA PingsNext ==
  ASSUME NEW s, NEW i \in Nat
  PROVE  Pings(s, i + 1) = IF s[i + 1] = PING THEN Pings(s, i) + 1 ELSE Pings(s, i)
<1> DEFINE S == {j \in 1 .. i : s[j] = PING}
<1>1. CASE s[i + 1] = PING
  <2>1. {j \in 1 .. i + 1 : s[j] = PING} = S \cup {i + 1} /\ i + 1 \notin S
    BY <1>1
  <2>2. IsFiniteSet(S) /\ Cardinality(S) \in Nat
    BY PingsSet, FS_CardinalityType
  <2>3. Cardinality(S \cup {i + 1}) = Cardinality(S) + 1
    BY <2>1, <2>2, FS_AddElement
  <2> QED BY <1>1, <2>1, <2>3 DEF Pings
<1>2. CASE s[i + 1] # PING
  BY <1>2, PingsNone
<1> QED BY <1>1, <1>2

\* The server takes the first item.
LEMMA PingsTail ==
  ASSUME NEW s, NEW t, NEW i \in Nat, \A j \in 1 .. i : t[j] = s[j + 1]
  PROVE  Pings(s, i + 1) = IF s[1] = PING THEN Pings(t, i) + 1 ELSE Pings(t, i)
<1> DEFINE T == {j \in 1 .. i : t[j] = PING}
           S == {j \in 2 .. i + 1 : s[j] = PING}
           f == [j \in T |-> j + 1]
<1>1. f \in Bijection(T, S)
  <2>1. f \in [T -> S] /\ \A j, k \in T : f[j] = f[k] => j = k
    OBVIOUS
  <2>2. \A k \in S : k - 1 \in T /\ f[k - 1] = k
    OBVIOUS
  <2>3. \A k \in S : \E j \in T : f[j] = k
    BY <2>2
  <2>4. f \in Injection(T, S)
    BY <2>1 DEF Injection, IsInjective
  <2>5. f \in Surjection(T, S)
    BY <2>1, <2>3 DEF Surjection
  <2> QED BY <2>4, <2>5 DEF Bijection
<1>2. IsFiniteSet(S) /\ Cardinality(S) = Pings(t, i)
  <2>1. IsFiniteSet(T) /\ Cardinality(T) = Pings(t, i)
    BY PingsSet DEF Pings
  <2>2. ExistsBijection(T, S)
    BY <1>1 DEF ExistsBijection
  <2> QED BY <2>1, <2>2, FS_Bijection
<1>3. CASE s[1] = PING
  <2>1. {j \in 1 .. i + 1 : s[j] = PING} = S \cup {1} /\ 1 \notin S
    BY <1>3
  <2> QED BY <1>2, <1>3, <2>1, FS_AddElement DEF Pings
<1>4. CASE s[1] # PING
  <2>1. {j \in 1 .. i + 1 : s[j] = PING} = S
    BY <1>4
  <2> QED BY <1>2, <1>4, <2>1 DEF Pings
<1> QED BY <1>3, <1>4

-----------------------------------------------------------------------------
\* The buffers and the wire have their lengths and items.
LEMMA Lens ==
  ASSUME NEW S, NEW s \in Seq(S)
  PROVE  Len(s) \in Nat /\ DOMAIN s = 1 .. Len(s) /\ \A i \in 1 .. Len(s) : s[i] \in S
BY LenProperties, ElementOfSeq

\* A write puts a first part of the items on the wire, all of them if the
\* connection still stands afterwards.
Grown(n, items) ==
  /\ n \in 0 .. Len(items)
  /\ wire' \in Seq(Items) /\ Len(wire') = Len(wire) + n
  /\ \A i \in 1 .. Len(wire) : wire'[i] = wire[i]
  /\ \A i \in 1 .. n : wire'[Len(wire) + i] = items[i]

LEMMA WriteEffect ==
  ASSUME Types, NEW items \in Seq(Items), NEW ok \in BOOLEAN, Write(items, ok)
  PROVE  /\ \E n \in 0 .. Len(items) :
               Grown(n, items) /\ (~up => n = 0) /\ (up' => n = Len(items))
         /\ up' \in BOOLEAN /\ (up' => up /\ ok) /\ nFault' \in 0 .. MaxFaults
<1>0. wire \in Seq(Items) /\ Len(wire) \in Nat /\ Len(items) \in Nat /\ up \in BOOLEAN
  BY LenProperties DEF Types
<1>1. PICK n \in 0 .. IF up THEN Len(items) ELSE 0 :
        wire' = wire \o SubSeq(items, 1, n) /\ (up /\ ok => n = Len(items))
  BY DEF Write
<1>2. n \in 0 .. Len(items) /\ n \in Nat
  BY <1>0, <1>1
<1>3. SubSeq(items, 1, n) \in Seq(Items) /\ Len(SubSeq(items, 1, n)) = n
      /\ \A i \in 1 .. n : SubSeq(items, 1, n)[i] = items[i]
  BY <1>0, <1>2, SubSeqProperties, ElementOfSeq
<1>4. Grown(n, items)
  BY <1>0, <1>1, <1>2, <1>3, ConcatProperties DEF Grown
<1>5. up' = (up /\ ok) /\ nFault' \in 0 .. MaxFaults
  BY Bounds DEF Write, Types
<1> QED BY <1>0, <1>1, <1>2, <1>4, <1>5

\* A flush without a pending buffer writes the buffer and what is added.
LEMMA FlushEffect ==
  ASSUME Types, NEW added \in Seq(Items), NEW ok \in BOOLEAN, Flush(added, ok), ~pendOn
  PROVE  /\ bufs' = <<>> /\ pend' = pend
         /\ \E n \in 0 .. Len(bufs) + Len(added) :
               Grown(n, bufs \o added) /\ (~up => n = 0) /\ (up' => n = Len(bufs) + Len(added))
         /\ up' \in BOOLEAN /\ (up' => up /\ ok) /\ nFault' \in 0 .. MaxFaults
         /\ Len(bufs \o added) = Len(bufs) + Len(added)
         /\ \A i \in 1 .. Len(bufs) : (bufs \o added)[i] = bufs[i]
         /\ \A i \in 1 .. Len(added) : (bufs \o added)[Len(bufs) + i] = added[i]
<1>1. bufs \in Seq(Items)
  BY Bounds, SeqMonotonic DEF Types
<1>2. /\ bufs \o added \in Seq(Items) /\ Len(bufs \o added) = Len(bufs) + Len(added)
      /\ \A i \in 1 .. Len(bufs) : (bufs \o added)[i] = bufs[i]
      /\ \A i \in 1 .. Len(added) : (bufs \o added)[Len(bufs) + i] = added[i]
  <2>1. Len(bufs) \in Nat /\ Len(added) \in Nat
    BY <1>1, LenProperties
  <2> QED BY <1>1, <2>1, ConcatProperties
<1>3. Write(bufs \o added, ok) /\ bufs' = <<>> /\ pend' = pend
  BY DEF Flush
<1> QED BY <1>2, <1>3, WriteEffect

\* With a pending buffer it only adds to that one.
LEMMA PendEffect ==
  ASSUME Types, NEW added \in Seq(Items), NEW ok \in BOOLEAN, Flush(added, ok), pendOn
  PROVE  /\ UNCHANGED <<bufs, up, nFault, wire>>
         /\ pend' \in Seq(Items) /\ Len(pend') = Len(pend) + Len(added)
         /\ \A i \in 1 .. Len(pend) : pend'[i] = pend[i]
         /\ \A i \in 1 .. Len(added) : pend'[Len(pend) + i] = added[i]
         /\ (added = <<>> => pend' = pend)
<1>1. pend \in Seq(Items) /\ Len(pend) \in Nat /\ Len(added) \in Nat /\ pend' = pend \o added
  BY LenProperties DEF Types, Flush
<1>2. added = <<>> => pend' = pend
  BY <1>1, ConcatEmptySeq
<1> QED BY <1>1, <1>2, ConcatProperties DEF Flush

-----------------------------------------------------------------------------
\* What a flush of the buffers leaves, pending or not.
LEMMA FlushTypes ==
  ASSUME Types, NEW added \in Seq(Items), NEW ok \in BOOLEAN, Flush(added, ok)
  PROVE  /\ bufs' \in Seq(Msgs) /\ pend' \in Seq(Items) /\ wire' \in Seq(Items)
         /\ up' \in BOOLEAN /\ nFault' \in 0 .. MaxFaults
<1>1. bufs \in Seq(Msgs) /\ <<>> \in Seq(Msgs)
  BY EmptySeq DEF Types
<1>2. CASE pendOn
  BY <1>1, <1>2, PendEffect DEF Types
<1>3. CASE ~pendOn
  BY <1>1, <1>3, FlushEffect DEF Types, Grown
<1> QED BY <1>2, <1>3 DEF Types

\* An entry that is not empty is a call.
LEMMA EntryTyped ==
  ASSUME Types, NEW p \in DOMAIN pongs, pongs[p] # Nil
  PROVE  pongs[p] \in Callers
<1>1. pongs \in Seq(Callers \cup {Nil})
  BY DEF Types
<1>2. pongs[p] \in Callers \cup {Nil}
  BY <1>1, ElementOfSeq
<1> QED BY <1>2

\* What a waiting call was called for.
LEMMA AskedTyped ==
  ASSUME Types, NEW f \in Callers
  PROVE  asked[f].on \in Nat /\ asked[f].msgs \in SUBSET Msgs
<1>1. asked \in [Callers -> Asks]
  BY DEF Types
<1> QED BY ONLY <1>1, f \in Callers DEF Asks

\* The items a flush may add.
LEMMA OneItem ==
  /\ <<>> \in Seq(Items) /\ Len(<<>>) = 0
  /\ \A x \in Items : <<x>> \in Seq(Items) /\ Len(<<x>>) = 1 /\ <<x>>[1] = x
BY EmptySeq

LEMMA InitTypes == Init => Types
<1>1. SUFFICES ASSUME Init PROVE Types
  OBVIOUS
<1>2. <<>> \in Seq(Msgs) /\ <<>> \in Seq(Items) /\ <<>> \in Seq(Callers \cup {Nil})
  BY EmptySeq
<1>3. NoSend \in [msg : Items, snap : Seq(Items), obj : Nat]
  BY <1>2, Bounds DEF NoSend, PING
<1>4. NoFlush \in Asks
  BY DEF NoFlush, Asks
<1>5. 1 \in 0 .. MaxConn /\ 0 \in 0 .. MaxConn /\ 0 \in 0 .. MaxFaults /\ 1 \in 1 .. MaxMsg + 1
  BY Bounds
<1>6. /\ auto \in BOOLEAN /\ status \in {"CONNECTED", "RECONNECTING", "CLOSED"} /\ conn \in 0 .. MaxConn
      /\ pendOn \in BOOLEAN /\ rec \in {"off", "wait", "write", "reset", "failed", "done"}
      /\ up \in BOOLEAN /\ reading \in BOOLEAN
  BY <1>1, <1>5 DEF Init
<1>7. /\ st \in [Callers -> {"off", "call", "wait", "late", "done"}]
      /\ token \in [Callers -> BOOLEAN] /\ sound \in [Callers -> BOOLEAN]
      /\ asked \in [Callers -> Asks]
  BY <1>1, <1>4 DEF Init
<1> QED BY <1>1, <1>2, <1>3, <1>5, <1>6, <1>7 DEF Init, Types

\* An entry taken out of c.pongs leaves the others where they are.
LEMMA Removed ==
  ASSUME Types, NEW f \in Callers, RemoveFlushEntry(f)
  PROVE  /\ pongs' \in Seq(Callers \cup {Nil}) /\ Len(pongs') = Len(pongs)
         /\ \A p \in 1 .. Len(pongs) : pongs'[p] # Nil => pongs'[p] = pongs[p] /\ pongs[p] # f
<1>1. pongs \in Seq(Callers \cup {Nil}) /\ Len(pongs) \in Nat /\ DOMAIN pongs = 1 .. Len(pongs)
  BY LenProperties DEF Types
<1>2. pongs' = [i \in 1 .. Len(pongs) |-> IF pongs[i] = f THEN Nil ELSE pongs[i]]
  BY <1>1 DEF RemoveFlushEntry
<1>3. pongs' \in [1 .. Len(pongs) -> Callers \cup {Nil}]
  BY <1>1, <1>2, ElementOfSeq
<1>4. pongs' \in Seq(Callers \cup {Nil}) /\ DOMAIN pongs' = 1 .. Len(pongs)
  BY <1>1, <1>3, SeqDef
<1>5. Len(pongs') = Len(pongs)
  BY <1>1, <1>4, LenProperties
<1> QED BY <1>2, <1>4, <1>5

\* Every variable has its type after every step.
LEMMA TypeStep ==
  ASSUME Types, Step
  PROVE  Types'
<1> USE DEF writer, pings, net, hist, MuFree, WmuFree
<1>1. ASSUME AppendBufs PROVE Types'
  <2>1. next \in Items /\ next \in Msgs
    BY <1>1, Bounds DEF AppendBufs
  <2>2. Append(bufs, next) \in Seq(Msgs)
    BY <2>1, AppendProperties DEF Types
  <2>3. /\ bufs' \in Seq(Msgs) /\ pend' \in Seq(Items) /\ wire' \in Seq(Items)
        /\ up' \in BOOLEAN /\ nFault' \in 0 .. MaxFaults
    <3>1. PICK ok \in BOOLEAN :
            IF Len(bufs) + 1 >= Limit THEN Flush(<<next>>, ok)
            ELSE bufs' = Append(bufs, next) /\ UNCHANGED <<pend, up, nFault, wire>>
      BY <1>1 DEF AppendBufs
    <3>2. CASE Len(bufs) + 1 >= Limit
      BY <2>1, <3>1, <3>2, FlushTypes, OneItem
    <3>3. CASE ~(Len(bufs) + 1 >= Limit)
      BY <2>2, <3>1, <3>3 DEF Types
    <3> QED BY <3>2, <3>3
  <2>4. next' \in 1 .. MaxMsg + 1 /\ appended' \subseteq Msgs
    BY <1>1, <2>1, Bounds DEF AppendBufs, Types, Msgs
  <2> QED BY <1>1, <2>3, <2>4 DEF AppendBufs, Types
<1>2. ASSUME PendingLoad PROVE Types'
  <2>1. next \in Items /\ next' \in 1 .. MaxMsg + 1
    BY <1>2, Bounds DEF PendingLoad, Msgs
  <2>2. sending' \in [msg : Items, snap : Seq(Items), obj : Nat]
    BY <1>2, <2>1 DEF PendingLoad, Types
  <2> QED BY <1>2, <2>1, <2>2 DEF PendingLoad, Types
<1>3. ASSUME PendingStore PROVE Types'
  <2>1. NoSend \in [msg : Items, snap : Seq(Items), obj : Nat]
    BY Bounds, EmptySeq DEF NoSend, PING
  <2>2. sending.msg \in Items /\ sending.snap \in Seq(Items)
    BY DEF Types
  <2>3. Append(sending.snap, sending.msg) \in Seq(Items)
    BY <2>2, AppendProperties
  <2>4. appended' \subseteq Msgs /\ dropped' \subseteq Msgs
    <3>1. sending.msg \in Msgs /\ appended \subseteq Msgs /\ dropped \subseteq Msgs
      BY <1>3 DEF PendingStore, Types
    <3>2. appended' \in {appended, appended \cup {sending.msg}} /\ dropped' \in {dropped, dropped \cup {sending.msg}}
      BY <1>3 DEF PendingStore
    <3> QED BY ONLY <3>1, <3>2
  <2>5. pend' \in Seq(Items) /\ raced' \in BOOLEAN /\ sending' = NoSend
    BY <1>3, <2>3 DEF PendingStore, Types
  <2>6. /\ UNCHANGED <<auto, status, conn, bufs, pendOn, obj, next, pings, rec, net, reading>>
        /\ UNCHANGED <<received, asked, sound, late, left, mixed, panicked>>
    BY <1>3 DEF PendingStore
  <2> QED BY <2>1, <2>4, <2>5, <2>6 DEF Types
<1>4. ASSUME Flusher PROVE Types'
  <2>1. /\ bufs' \in Seq(Msgs) /\ pend' \in Seq(Items) /\ wire' \in Seq(Items)
        /\ up' \in BOOLEAN /\ nFault' \in 0 .. MaxFaults
    BY <1>4, FlushTypes, OneItem DEF Flusher
  <2> QED BY <1>4, <2>1 DEF Flusher, Types
<1>5. ASSUME NEW f \in Callers, FlushCall(f) PROVE Types'
  <2>1. pongs' \in Seq(Callers \cup {Nil})
    <3>1. pongs' = pongs \/ pongs' = Append(pongs, f)
      BY <1>5 DEF FlushCall, SendPing
    <3>2. pongs \in Seq(Callers \cup {Nil}) /\ f \in Callers \cup {Nil}
      BY DEF Types
    <3> QED BY <3>1, <3>2, AppendProperties
  <2>2. /\ bufs' \in Seq(Msgs) /\ pend' \in Seq(Items) /\ wire' \in Seq(Items)
        /\ up' \in BOOLEAN /\ nFault' \in 0 .. MaxFaults
    <3>1. CASE status = "CLOSED"
      BY <1>5, <3>1 DEF FlushCall, Types
    <3>2. CASE status # "CLOSED"
      <4>1. PICK ok \in BOOLEAN : Flush(<<PING>>, ok)
        BY <1>5, <3>2 DEF FlushCall, SendPing
      <4> QED BY <4>1, FlushTypes, OneItem, Bounds
    <3> QED BY <3>1, <3>2
  <2>3. asked' \in [Callers -> Asks]
    <3>1. [on |-> IF status = "CONNECTED" THEN conn ELSE conn + 1, msgs |-> appended] \in Asks
      BY Bounds DEF Types, Asks
    <3> QED BY <1>5, <3>1 DEF FlushCall, Types
  <2>4. st' \in [Callers -> {"off", "call", "wait", "late", "done"}]
    BY <1>5 DEF FlushCall, Types
  <2> QED BY <1>5, <2>1, <2>2, <2>3, <2>4 DEF FlushCall, Types
<1>6. ASSUME NEW f \in Callers, FlushReturns(f) PROVE Types'
  <2>1. NoFlush \in Asks
    BY DEF NoFlush, Asks
  <2>2. st' \in [Callers -> {"off", "call", "wait", "late", "done"}]
    BY <1>6 DEF FlushReturns, Done, Types
  <2>5. /\ UNCHANGED <<auto, status, conn, writer, pongs, rec, net, reading, left, panicked>>
        /\ UNCHANGED <<received, appended, dropped, mixed, raced>>
    BY <1>6 DEF FlushReturns
  <2>3. asked' \in [Callers -> Asks]
    BY <1>6, <2>1 DEF FlushReturns, Done, Types
  <2>4. token' \in [Callers -> BOOLEAN] /\ sound' \in [Callers -> BOOLEAN]
    BY <1>6 DEF FlushReturns, Done, Types
  <2> QED BY <2>2, <2>3, <2>4, <2>5 DEF Types
<1>7. ASSUME NEW f \in Callers, RemoveFlushEntry(f) PROVE Types'
  <2>1. NoFlush \in Asks
    BY DEF NoFlush, Asks
  <2>2. pongs' \in Seq(Callers \cup {Nil})
    BY <1>7, Removed
  <2> QED BY <1>7, <2>1, <2>2 DEF RemoveFlushEntry, Done, Types
<1>8. ASSUME Close PROVE Types'
  <2>1. /\ bufs' \in Seq(Msgs) /\ pend' \in Seq(Items) /\ wire' \in Seq(Items)
        /\ up' \in BOOLEAN /\ nFault' \in 0 .. MaxFaults
    BY <1>8, FlushTypes, OneItem DEF Close, CloseEffect
  <2> QED BY <1>8, <2>1 DEF Close, CloseEffect, Types
<1>9. ASSUME Ends PROVE Types'
  <2>1. /\ bufs' \in Seq(Msgs) /\ pend' \in Seq(Items) /\ wire' \in Seq(Items)
        /\ up' \in BOOLEAN /\ nFault' \in 0 .. MaxFaults
    <3>1. \/ UNCHANGED <<bufs, pend, wire, up, nFault>>
          \/ pend' = <<>> /\ up' = FALSE /\ UNCHANGED <<bufs, nFault, wire>>
          \/ \E ok \in BOOLEAN : Flush(<<>>, ok)
      BY <1>9 DEF Ends, ReaderEnds, OldEnds, Ended, OpErr, CloseEffect
    <3> QED BY <3>1, FlushTypes, OneItem DEF Types
  <2>2. appended' \subseteq Msgs /\ obj' \in Nat /\ pendOn' \in BOOLEAN
        /\ status' \in {"CONNECTED", "RECONNECTING", "CLOSED"}
        /\ rec' \in {"off", "wait", "write", "reset", "failed", "done"}
    <3>1. (appended' = appended \/ appended' = {}) /\ (pendOn' = pendOn \/ pendOn' = TRUE)
          /\ status' \in {status, "RECONNECTING", "CLOSED"} /\ rec' \in {rec, "wait"}
      BY <1>9 DEF Ends, ReaderEnds, OldEnds, Ended, OpErr, CloseEffect
    <3>2. obj' \in Nat
      BY <1>9 DEF Ends, ReaderEnds, OldEnds, Ended, OpErr, CloseEffect, Types
    <3>3. pendOn' \in BOOLEAN
      BY <3>1 DEF Types
    <3>4. appended' \subseteq Msgs
      BY <3>1 DEF Types
    <3>5. status' \in {"CONNECTED", "RECONNECTING", "CLOSED"}
      BY <3>1 DEF Types
    <3>6. rec' \in {"off", "wait", "write", "reset", "failed", "done"}
      BY <3>1 DEF Types
    <3> QED BY <3>2, <3>3, <3>4, <3>5, <3>6
  <2>3. reading' \in BOOLEAN /\ answers' \in Nat /\ left' \in Nat
    <3>1. (reading' = reading \/ reading' = FALSE) /\ answers' \in {answers, 0} /\ (left' = left \/ (left > 0 /\ left' = left - 1))
      BY <1>9 DEF Ends, ReaderEnds, OldEnds
    <3>2. reading \in BOOLEAN /\ answers \in Nat /\ left \in Nat
      BY DEF Types
    <3>3. left' \in Nat
      BY ONLY <3>1, <3>2
    <3>4. reading' \in BOOLEAN
      BY ONLY <3>1, <3>2
    <3>5. answers' \in Nat
      BY ONLY <3>1, <3>2
    <3> QED BY <3>3, <3>4, <3>5
  <2>4. UNCHANGED <<auto, conn, sending, next, pings, late, panicked, received, dropped, asked, sound, mixed, raced>>
    BY <1>9 DEF Ends, ReaderEnds, OldEnds, Ended
  <2> QED BY <2>1, <2>2, <2>3, <2>4 DEF Types
<1>10. ASSUME NewConn PROVE /\ conn' \in 0 .. MaxConn /\ wire' \in Seq(Items) /\ late' \subseteq Msgs
                            /\ up' = TRUE /\ reading' = TRUE /\ answers' = 0 /\ status' = "CONNECTED"
                            /\ UNCHANGED <<auto, pendOn, pend, obj, sending, next, st, token, nFault>>
                            /\ UNCHANGED <<panicked, received, dropped, asked, sound, raced>>
  <2>1. conn' \in 0 .. MaxConn
    BY <1>10, Bounds DEF NewConn, Types
  <2>2. late' \subseteq Msgs
    <3>1. \A i \in DOMAIN wire : wire[i] \in Items
      BY ElementOfSeq DEF Types
    <3>2. \A i \in DOMAIN wire : wire[i] # PING => wire[i] \in Msgs
      BY <3>1 DEF Items
    <3>3. late \subseteq Msgs /\ late' = late \cup {wire[i] : i \in {j \in DOMAIN wire : wire[j] # PING}}
      BY <1>10 DEF NewConn, Types
    <3> QED BY ONLY <3>2, <3>3
  <2> QED BY <1>10, <2>1, <2>2, EmptySeq DEF NewConn
<1>11. ASSUME Connect \/ RecDial PROVE Types'
  <2>1. <<>> \in Seq(Msgs) /\ <<>> \in Seq(Callers \cup {Nil})
    BY EmptySeq
  <2>2. CASE Connect
    <3>1. bufs' \in {<<>>, bufs} /\ pongs' = <<>> /\ appended' = {} /\ rec' = rec /\ NewConn
      BY <2>2 DEF Connect
    <3>2. bufs' \in Seq(Msgs) /\ pongs' \in Seq(Callers \cup {Nil}) /\ appended' \subseteq Msgs
      BY <2>1, <3>1 DEF Types
    <3>3. left' \in Nat /\ mixed' \in BOOLEAN
      BY <2>2 DEF Connect, Types
    <3> QED BY <1>10, <3>1, <3>2, <3>3 DEF Types
  <2>3. CASE RecDial /\ status = "CLOSED"
    <3>1. /\ UNCHANGED <<auto, status, conn, writer, pings, net, reading, panicked, hist, left>> /\ rec' = "off"
      BY <2>3 DEF RecDial
    <3> QED BY <3>1 DEF Types
  <2>4. CASE RecDial /\ status # "CLOSED"
    <3>1. NewConn /\ bufs' = <<>> /\ rec' = "write" /\ UNCHANGED <<pongs, appended, mixed, left>>
      BY <2>4 DEF RecDial
    <3> QED BY <1>10, <2>1, <3>1 DEF Types
  <2> QED BY <1>11, <2>2, <2>3, <2>4
<1>12. ASSUME RecWrite PROVE Types'
  <2>1. wire' \in Seq(Items) /\ up' \in BOOLEAN /\ nFault' \in 0 .. MaxFaults
    BY <1>12, WriteEffect DEF RecWrite, Types, Grown
  <2> QED BY <1>12, <2>1 DEF RecWrite, Types
<1>13. ASSUME RecReset PROVE Types'
  BY <1>13, EmptySeq DEF RecReset, Types
<1>14. ASSUME RecDone PROVE Types'
  BY <1>14, EmptySeq DEF RecDone, Types
<1>15. ASSUME ServerTake PROVE Types'
  <2>1. wire' \in Seq(Items) /\ Head(wire) \in Items
    BY <1>15, HeadTailProperties DEF ServerTake, Types
  <2>2. received' \subseteq Msgs
    BY <1>15, <2>1 DEF ServerTake, Types, Items
  <2>3. answers' \in Nat
    BY <1>15 DEF ServerTake, Types
  <2> QED BY <1>15, <2>1, <2>2, <2>3 DEF ServerTake, Types
<1>16. ASSUME Break PROVE Types'
  <2>1. wire' \in Seq(Items) /\ up' = FALSE
    BY <1>16, EmptySeq DEF Break
  <2>2. nFault' \in 0 .. MaxFaults
    BY <1>16, Bounds DEF Break, Types
  <2>3. UNCHANGED <<auto, status, conn, writer, pings, rec, late, answers, reading, left, panicked, hist>>
    BY <1>16 DEF Break
  <2> QED BY ONLY <2>1, <2>2, <2>3, Types DEF Types, writer, pings, hist
<1>17. ASSUME Pong \/ OldPong PROVE Types'
  <2>1. pongs' \in Seq(Callers \cup {Nil})
    <3>1. pongs' = pongs \/ (pongs # <<>> /\ pongs' = Tail(pongs))
      BY <1>17 DEF Pong, OldPong, HandlePong
    <3>2. pongs \in Seq(Callers \cup {Nil})
      BY DEF Types
    <3> QED BY <3>1, <3>2, HeadTailProperties
  <2>2. token' \in [Callers -> BOOLEAN] /\ sound' \in [Callers -> BOOLEAN]
    BY <1>17 DEF Pong, OldPong, HandlePong, Types
  <2>3. answers' \in Nat
    BY <1>17 DEF Pong, OldPong, Types
  <2> QED BY <1>17, <2>1, <2>2, <2>3 DEF Pong, OldPong, Types
<1>18. ASSUME PendingPanic PROVE Types'
  BY <1>18 DEF PendingPanic, Types
<1>19. ASSUME LateTake PROVE Types'
  <2>1. received' \subseteq Msgs /\ late' \subseteq Msgs
    BY <1>19 DEF LateTake, Types
  <2> QED BY <1>19, <2>1 DEF LateTake, Types
<1> QED
  BY <1>1, <1>2, <1>3, <1>4, <1>5, <1>6, <1>7, <1>8, <1>9, <1>11, <1>12, <1>13, <1>14, <1>15, <1>16, <1>17, <1>18, <1>19 DEF Step, Send, FlushStep, Ends, Reconnect, Take

-----------------------------------------------------------------------------
LEMMA Scalars ==
  ASSUME Types
  PROVE  /\ auto \in BOOLEAN /\ pendOn \in BOOLEAN /\ up \in BOOLEAN
         /\ status \in {"CONNECTED", "RECONNECTING", "CLOSED"}
         /\ rec \in {"off", "wait", "write", "reset", "failed", "done"}
         /\ conn \in Nat /\ conn <= MaxConn /\ obj \in Nat /\ answers \in Nat /\ sending.obj \in Nat
         /\ Len(bufs) \in Nat /\ Len(pend) \in Nat /\ Len(wire) \in Nat /\ Len(pongs) \in Nat
         /\ DOMAIN bufs = 1 .. Len(bufs) /\ DOMAIN pend = 1 .. Len(pend)
         /\ DOMAIN wire = 1 .. Len(wire) /\ DOMAIN pongs = 1 .. Len(pongs)
<1>1. conn \in Nat /\ conn <= MaxConn /\ sending.obj \in Nat
  BY Bounds DEF Types
<1> QED BY <1>1, LenProperties DEF Types

\* Where doReconnect is goes with the rest of the client.
LEMMA RecStep ==
  ASSUME Types, RecInv, MixInv, Step
  PROVE  RecInv'
<1> USE Scalars DEF writer, pings, net, hist, MuFree, WmuFree, RecInv, Flush, Write
<1>1. ASSUME AppendBufs PROVE RecInv'
  BY <1>1 DEF AppendBufs
<1>2. ASSUME PendingLoad PROVE RecInv'
  BY <1>2 DEF PendingLoad
<1>3. ASSUME PendingStore PROVE RecInv'
  BY <1>3 DEF PendingStore, Kept
<1>4. ASSUME Flusher PROVE RecInv'
  BY <1>4 DEF Flusher
<1>5. ASSUME NEW f \in Callers, FlushCall(f) PROVE RecInv'
  BY <1>5 DEF FlushCall, SendPing
<1>6. ASSUME NEW f \in Callers, FlushReturns(f) PROVE RecInv'
  BY <1>6 DEF FlushReturns, Done
<1>7. ASSUME NEW f \in Callers, RemoveFlushEntry(f) PROVE RecInv'
  BY <1>7 DEF RemoveFlushEntry, Done
<1>8. ASSUME Close PROVE RecInv'
  BY <1>8 DEF Close, CloseEffect
<1>9. ASSUME Ends PROVE RecInv'
  <2>1. answers' = 0 \/ (~auto /\ answers' = answers)
    BY <1>9 DEF Ends, ReaderEnds, OldEnds, MixInv
  <2>2. Ended
    BY <1>9 DEF Ends, ReaderEnds, OldEnds
  <2>3. CASE status # "CONNECTED"
    BY <2>1, <2>2, <2>3 DEF Ended
  <2>4. CASE status = "CONNECTED" /\ auto
    BY <2>1, <2>2, <2>4 DEF Ended, OpErr
  <2>5. CASE status = "CONNECTED" /\ ~auto
    BY <2>1, <2>2, <2>5 DEF Ended, OpErr, CloseEffect
  <2> QED BY <2>3, <2>4, <2>5
<1>10. ASSUME Connect PROVE RecInv'
  BY <1>10 DEF Connect, NewConn
<1>11. ASSUME RecDial PROVE RecInv'
  <2>1. CASE status = "CLOSED"
    BY <1>11, <2>1 DEF RecDial
  <2>2. CASE status # "CLOSED"
    <3>1. /\ status' = "CONNECTED" /\ rec' = "write" /\ bufs' = <<>> /\ wire' = <<>> /\ answers' = 0 /\ conn' = conn + 1
          /\ rec = "wait" /\ UNCHANGED <<auto, pendOn, obj, sending>>
      BY <1>11, <2>2 DEF RecDial, NewConn
    <3> QED BY <3>1
  <2> QED BY <2>1, <2>2
<1>12. ASSUME RecWrite PROVE RecInv'
  BY <1>12 DEF RecWrite
<1>13. ASSUME RecReset PROVE RecInv'
  BY <1>13 DEF RecReset
<1>14. ASSUME RecDone PROVE RecInv'
  BY <1>14 DEF RecDone
<1>15. ASSUME ServerTake PROVE RecInv'
  BY <1>15 DEF ServerTake
<1>16. ASSUME Break PROVE RecInv'
  BY <1>16 DEF Break
<1>17. ASSUME Pong \/ OldPong PROVE RecInv'
  BY <1>17 DEF Pong, OldPong, HandlePong, MixInv
<1>18. ASSUME PendingPanic PROVE RecInv'
  BY <1>18 DEF PendingPanic
<1>19. ASSUME LateTake PROVE RecInv'
  BY <1>19 DEF LateTake
<1> QED
  BY <1>1, <1>2, <1>3, <1>4, <1>5, <1>6, <1>7, <1>8, <1>9, <1>10, <1>11, <1>12, <1>13, <1>14, <1>15, <1>16, <1>17, <1>18, <1>19 DEF Step, Send, FlushStep, Ends, Reconnect, Take

\* An earlier connection's readLoop comes with a Connect and goes again.
LEMMA MixStep ==
  ASSUME Types, MixInv, Step
  PROVE  MixInv' /\ (Connect \/ mixed' = mixed)
<1>1. left \in Nat /\ conn \in Nat /\ auto \in BOOLEAN /\ mixed \in BOOLEAN
  BY Scalars DEF Types
<1>2. CASE Connect
  <2>1. ~auto /\ auto' = auto /\ conn' = conn + 1 /\ (mixed' <=> left' > 0)
    BY <1>2 DEF Connect, NewConn
  <2>2. left' = left \/ left' = left + 1
    BY <1>1, <1>2 DEF Connect
  <2>3. left <= conn
    BY DEF MixInv
  <2>4. left' \in Nat /\ left' <= conn'
    BY ONLY <1>1, <2>1, <2>2, <2>3
  <2>5. ~mixed' => left' = 0
    BY ONLY <2>1, <2>4
  <2> QED BY <1>2, <2>1, <2>4, <2>5 DEF MixInv
<1>3. CASE OldEnds
  <2>1. left > 0 /\ (left' = left - 1 \/ left' = left) /\ UNCHANGED <<auto, mixed, conn>>
    BY <1>3 DEF OldEnds, Ended
  <2> QED BY ONLY <1>1, <2>1, MixInv DEF MixInv
<1>4. CASE RecDial
  <2>1. UNCHANGED <<auto, mixed, left>> /\ conn' \in {conn, conn + 1}
    BY <1>4 DEF RecDial, NewConn, hist
  <2> QED BY ONLY <1>1, <2>1, MixInv DEF MixInv
<1>5. CASE UNCHANGED <<auto, mixed, left, conn>>
  BY <1>5 DEF MixInv
<1>6. ASSUME NEW f \in Callers, FlushCall(f) \/ FlushReturns(f) \/ RemoveFlushEntry(f) PROVE UNCHANGED <<auto, mixed, left, conn>>
  BY <1>6 DEF FlushCall, FlushReturns, RemoveFlushEntry
<1>7. ASSUME Send \/ Flusher \/ Close \/ ReaderEnds \/ RecWrite \/ RecReset \/ RecDone \/ Take \/ Break \/ Pong \/ OldPong
      PROVE  UNCHANGED <<auto, mixed, left, conn>>
  BY <1>7 DEF Send, AppendBufs, PendingLoad, PendingStore, PendingPanic, Flusher, Close, ReaderEnds, Ended, RecWrite, RecReset,
     RecDone, Take, ServerTake, LateTake, Break, Pong, OldPong, hist
<1> QED BY <1>2, <1>3, <1>4, <1>5, <1>6, <1>7 DEF Step, FlushStep, Ends, Reconnect

\* A connection breaks once.
LEMMA ObjStep ==
  ASSUME Types, RecInv, ObjInv, Step
  PROVE  ObjInv'
<1> USE Scalars DEF writer, pings, net, hist, MuFree, WmuFree, ObjInv, Flush, Write, RecInv, NoSend
<1>1. ASSUME AppendBufs PROVE ObjInv'
  BY <1>1 DEF AppendBufs
<1>2. ASSUME PendingLoad PROVE ObjInv'
  BY <1>2 DEF PendingLoad
<1>3. ASSUME PendingStore PROVE ObjInv'
  BY <1>3 DEF PendingStore
<1>4. ASSUME Flusher PROVE ObjInv'
  BY <1>4 DEF Flusher
<1>5. ASSUME NEW f \in Callers, FlushCall(f) PROVE ObjInv'
  BY <1>5 DEF FlushCall, SendPing
<1>6. ASSUME NEW f \in Callers, FlushReturns(f) PROVE ObjInv'
  BY <1>6 DEF FlushReturns, Done
<1>7. ASSUME NEW f \in Callers, RemoveFlushEntry(f) PROVE ObjInv'
  BY <1>7 DEF RemoveFlushEntry, Done
<1>8. ASSUME Close PROVE ObjInv'
  BY <1>8 DEF Close, CloseEffect
<1>9. ASSUME Ends PROVE ObjInv'
  <2>0. Ended
    BY <1>9 DEF Ends, ReaderEnds, OldEnds
  <2>1. CASE status # "CONNECTED"
    BY <2>0, <2>1 DEF Ended
  <2>2. CASE status = "CONNECTED" /\ auto
    BY <2>0, <2>2 DEF Ended, OpErr
  <2>3. CASE status = "CONNECTED" /\ ~auto
    BY <2>0, <2>3 DEF Ended, OpErr, CloseEffect
  <2> QED BY <2>1, <2>2, <2>3
<1>10. ASSUME Connect PROVE ObjInv'
  BY <1>10 DEF Connect, NewConn
<1>11. ASSUME RecDial PROVE ObjInv'
  <2>1. CASE status = "CLOSED"
    BY <1>11, <2>1 DEF RecDial
  <2>2. CASE status # "CLOSED"
    <3>1. /\ status' = "CONNECTED" /\ rec' = "write" /\ bufs' = <<>> /\ wire' = <<>> /\ answers' = 0 /\ conn' = conn + 1
          /\ rec = "wait" /\ UNCHANGED <<auto, pendOn, obj, sending>>
      BY <1>11, <2>2 DEF RecDial, NewConn
    <3> QED BY <3>1
  <2> QED BY <2>1, <2>2
<1>12. ASSUME RecWrite PROVE ObjInv'
  BY <1>12 DEF RecWrite
<1>13. ASSUME RecReset PROVE ObjInv'
  BY <1>13 DEF RecReset
<1>14. ASSUME RecDone PROVE ObjInv'
  BY <1>14 DEF RecDone
<1>15. ASSUME ServerTake PROVE ObjInv'
  BY <1>15 DEF ServerTake
<1>16. ASSUME Break PROVE ObjInv'
  BY <1>16 DEF Break
<1>17. ASSUME Pong \/ OldPong PROVE ObjInv'
  BY <1>17 DEF Pong, OldPong, HandlePong
<1>18. ASSUME PendingPanic PROVE ObjInv'
  BY <1>18 DEF PendingPanic
<1>19. ASSUME LateTake PROVE ObjInv'
  BY <1>19 DEF LateTake
<1> QED
  BY <1>1, <1>2, <1>3, <1>4, <1>5, <1>6, <1>7, <1>8, <1>9, <1>10, <1>11, <1>12, <1>13, <1>14, <1>15, <1>16, <1>17, <1>18, <1>19 DEF Step, Send, FlushStep, Ends, Reconnect, Take

\* Who has been called stays called, and nobody else but by a call of Flush.
LEMMA CalledGrows ==
  ASSUME Types, RecInv, ObjInv, RedoInv, Step
  PROVE  /\ Called \subseteq Called' /\ IsFiniteSet(Called) /\ IsFiniteSet(Called')
         /\ Cardinality(Called) \in Nat /\ Cardinality(Called') \in Nat
         /\ Cardinality(Called) <= Cardinality(Called')
<1>1. Called \subseteq Called'
  <2>0. st \in [Callers -> {"off", "call", "wait", "late", "done"}]
    BY DEF Types
  <2>1. ASSUME NEW f \in Callers, FlushCall(f) \/ FlushReturns(f) \/ RemoveFlushEntry(f) PROVE Called \subseteq Called'
    BY <2>0, <2>1 DEF FlushCall, FlushReturns, RemoveFlushEntry, Done, Called
  <2>2. CASE RecDone
    <3>1. /\ Redo(conn) \in Callers /\ st[Redo(conn)] = "off"
      BY <2>2, Scalars, CallNames DEF RecDone, RedoInv, RecInv, ObjInv
    <3> QED BY <2>0, <2>2, <3>1 DEF RecDone, Called
  <2>3. CASE UNCHANGED st
    BY <2>3 DEF Called
  <2> QED
    BY <2>1, <2>2, <2>3 DEF Step, Send, FlushStep, Reconnect, Ends, Take, AppendBufs, PendingLoad, PendingStore, PendingPanic, Flusher,
       Close, ReaderEnds, OldEnds, Ended, Connect, RecDial, NewConn, RecWrite, RecReset, ServerTake, LateTake, Break,
       Pong, OldPong, pings
<1>2. Called \subseteq Callers /\ Called' \subseteq Callers
  BY DEF Called
<1>3. IsFiniteSet(Called) /\ IsFiniteSet(Called')
  BY <1>2, CallNames, FS_Subset
<1> QED BY <1>1, <1>3, FS_Subset, FS_CardinalityType

\* doReconnect calls Flush once for each connection.
LEMMA RedoStep ==
  ASSUME Types, RecInv, ObjInv, RedoInv, Step
  PROVE  RedoInv'
<1> USE Scalars, CallNames DEF writer, pings, net, hist, MuFree, WmuFree, RedoInv
<1>1. ASSUME AppendBufs PROVE RedoInv'
  BY <1>1 DEF AppendBufs
<1>2. ASSUME PendingLoad PROVE RedoInv'
  BY <1>2 DEF PendingLoad
<1>3. ASSUME PendingStore PROVE RedoInv'
  BY <1>3 DEF PendingStore
<1>4. ASSUME Flusher PROVE RedoInv'
  BY <1>4 DEF Flusher
<1>5. ASSUME NEW f \in Callers, FlushCall(f) PROVE RedoInv'
  <2>1. st \in [Callers -> {"off", "call", "wait", "late", "done"}] /\ st[f] = "call" /\ UNCHANGED <<conn, rec>>
    BY <1>5 DEF FlushCall, Types
  <2>2. \A g \in Callers : g # f => st'[g] = st[g]
    BY <1>5, <2>1 DEF FlushCall
  <2> QED BY <2>1, <2>2
<1>6. ASSUME NEW f \in Callers, FlushReturns(f) PROVE RedoInv'
  <2>1. st \in [Callers -> {"off", "call", "wait", "late", "done"}] /\ st[f] = "wait" /\ UNCHANGED <<conn, rec>>
    BY <1>6 DEF FlushReturns, Types
  <2>2. \A g \in Callers : g # f => st'[g] = st[g]
    BY <1>6, <2>1 DEF FlushReturns, Done
  <2> QED BY <2>1, <2>2
<1>7. ASSUME NEW f \in Callers, RemoveFlushEntry(f) PROVE RedoInv'
  <2>1. st \in [Callers -> {"off", "call", "wait", "late", "done"}] /\ st[f] = "late" /\ UNCHANGED <<conn, rec>>
    BY <1>7 DEF RemoveFlushEntry, Types
  <2>2. \A g \in Callers : g # f => st'[g] = st[g]
    BY <1>7, <2>1 DEF RemoveFlushEntry, Done
  <2> QED BY <2>1, <2>2
<1>8. ASSUME Close PROVE RedoInv'
  BY <1>8 DEF Close, CloseEffect
<1>9. ASSUME Ends PROVE RedoInv'
  <2>1. st' = st /\ conn' = conn /\ (rec' # rec => rec' = "wait")
    BY <1>9 DEF Ends, ReaderEnds, OldEnds, Ended, OpErr, CloseEffect
  <2> QED BY <2>1
<1>10. ASSUME Connect PROVE RedoInv'
  BY <1>10 DEF Connect, NewConn
<1>11. ASSUME RecDial PROVE RedoInv'
  <2>1. st' = st /\ conn' \in {conn, conn + 1} /\ (conn' = conn => rec' = "off")
    BY <1>11 DEF RecDial, NewConn
  <2> QED BY <2>1
<1>12. ASSUME RecWrite PROVE RedoInv'
  BY <1>12 DEF RecWrite
<1>13. ASSUME RecReset PROVE RedoInv'
  BY <1>13 DEF RecReset
<1>14. ASSUME RecDone PROVE RedoInv'
  <2>1. st \in [Callers -> {"off", "call", "wait", "late", "done"}] /\ rec = "done" /\ rec' = "off" /\ conn' = conn
    BY <1>14 DEF RecDone, Types
  <2>2. conn \in 1 .. MaxConn
    BY <2>1 DEF RecInv, ObjInv
  <2>3. \A g \in Callers : g # Redo(conn) => st'[g] = st[g]
    BY <1>14, <2>1 DEF RecDone
  <2> QED BY <2>1, <2>2, <2>3
<1>15. ASSUME ServerTake PROVE RedoInv'
  BY <1>15 DEF ServerTake
<1>16. ASSUME Break PROVE RedoInv'
  BY <1>16 DEF Break
<1>17. ASSUME Pong \/ OldPong PROVE RedoInv'
  BY <1>17 DEF Pong, OldPong, HandlePong
<1>18. ASSUME PendingPanic PROVE RedoInv'
  BY <1>18 DEF PendingPanic
<1>19. ASSUME LateTake PROVE RedoInv'
  BY <1>19 DEF LateTake
<1> QED
  BY <1>1, <1>2, <1>3, <1>4, <1>5, <1>6, <1>7, <1>8, <1>9, <1>10, <1>11, <1>12, <1>13, <1>14, <1>15, <1>16, <1>17, <1>18, <1>19 DEF Step, Send, FlushStep, Ends, Reconnect, Take

\* Only a flush that was called has a token or a place in c.pongs.
LEMMA CalledStep ==
  ASSUME Types, Types', RecInv, ObjInv, RedoInv, CalledInv, Step
  PROVE  CalledInv'
<1>1. /\ Called \subseteq Called'
      /\ DOMAIN pongs = 1 .. Len(pongs) /\ DOMAIN pongs' = 1 .. Len(pongs') /\ Len(pongs) \in Nat /\ Len(pongs') \in Nat
      /\ token \in [Callers -> BOOLEAN] /\ pongs \in Seq(Callers \cup {Nil})
  BY CalledGrows, LenProperties DEF Types
<1>2. SUFFICES /\ \A f \in Callers : token'[f] => token[f] \/ f \in Called'
               /\ \A p \in 1 .. Len(pongs') : pongs'[p] # Nil =>
                    pongs'[p] \in Called' \/ \E q \in 1 .. Len(pongs) : pongs'[p] = pongs[q]
  BY <1>1 DEF CalledInv
<1>3. ASSUME NEW f \in Callers, FlushCall(f)
      PROVE  /\ token' = token
             /\ \A p \in 1 .. Len(pongs') : pongs'[p] \in Called' \/ \E q \in 1 .. Len(pongs) : pongs'[p] = pongs[q]
  <2>1. f \in Called' /\ token' = token /\ (pongs' = pongs \/ pongs' = Append(pongs, f))
    BY <1>3 DEF FlushCall, SendPing, Called, Types
  <2>2. f \in Callers \cup {Nil}
    OBVIOUS
  <2>3. CASE pongs' = pongs
    BY <2>1, <2>3
  <2>4. CASE pongs' = Append(pongs, f)
    <3>1. Len(pongs') = Len(pongs) + 1 /\ pongs'[Len(pongs) + 1] = f /\ \A i \in 1 .. Len(pongs) : pongs'[i] = pongs[i]
      BY <1>1, <2>2, <2>4, AppendProperties
    <3>2. \A p \in 1 .. Len(pongs') : p = Len(pongs) + 1 \/ p \in 1 .. Len(pongs)
      BY <1>1, <3>1
    <3> QED BY <2>1, <3>1, <3>2
  <2> QED BY <2>1, <2>3, <2>4
<1>4. ASSUME NEW f \in Callers, FlushReturns(f)
      PROVE  UNCHANGED pongs /\ \A g \in Callers : token'[g] => token[g]
  BY <1>1, <1>4 DEF FlushReturns, Done
<1>5. ASSUME NEW f \in Callers, RemoveFlushEntry(f)
      PROVE  /\ \A g \in Callers : token'[g] => token[g]
             /\ \A p \in 1 .. Len(pongs') : pongs'[p] # Nil => \E q \in 1 .. Len(pongs) : pongs'[p] = pongs[q]
  <2>1. \A g \in Callers : token'[g] => token[g]
    BY <1>1, <1>5 DEF RemoveFlushEntry, Done
  <2> QED BY <1>5, <2>1, Removed
<1>6. ASSUME HandlePong, st' = st
      PROVE  /\ \A g \in Callers : token'[g] => token[g] \/ g \in Called'
             /\ \A p \in 1 .. Len(pongs') : \E q \in 1 .. Len(pongs) : pongs'[p] = pongs[q]
  <2>1. CASE pongs = <<>>
    BY <1>1, <1>6, <2>1 DEF HandlePong
  <2>2. CASE pongs # <<>>
    <3>1. /\ pongs' = Tail(pongs) /\ Head(pongs) = pongs[1] /\ Len(pongs) >= 1
          /\ \A g \in Callers : token'[g] => token[g] \/ g = pongs[1]
      <4>1. pongs' = Tail(pongs) /\ Head(pongs) = pongs[1] /\ Len(pongs) >= 1
        <5>1. pongs \in Seq(Callers \cup {Nil})
          BY <1>1
        <5>2. Len(pongs) \in Nat \ {0} /\ Head(pongs) = pongs[1]
          BY <2>2, <5>1, EmptySeq
        <5> QED BY <1>6, <2>2, <5>2 DEF HandlePong
      <4>2. token' = token \/ token' = [token EXCEPT ![pongs[1]] = TRUE]
        BY <1>6, <2>2, <4>1 DEF HandlePong
      <4>3. \A g \in Callers : token'[g] => token[g] \/ g = pongs[1]
        BY <1>1, <4>2
      <4> QED BY <4>1, <4>3
    <3>2. \A p \in 1 .. Len(pongs') : p + 1 \in 1 .. Len(pongs) /\ pongs'[p] = pongs[p + 1]
      BY <1>1, <2>2, <3>1, HeadTailProperties
    <3>3. \A g \in Callers : g = pongs[1] => g \in Called
      BY <1>1, <3>1, CallNames DEF CalledInv
    <3> QED BY <1>1, <3>1, <3>2, <3>3
  <2> QED BY <2>1, <2>2
<1>7. CASE Connect
  BY <1>7, EmptySeq DEF Connect, NewConn
<1>8. CASE UNCHANGED <<token, pongs>>
  BY <1>8
<1>9. CASE Pong \/ OldPong
  BY <1>6, <1>8, <1>9 DEF Pong, OldPong
<1> QED
  BY <1>3, <1>4, <1>5, <1>6, <1>7, <1>8, <1>9 DEF Step, Send, FlushStep, Reconnect, Ends, Take, AppendBufs, PendingLoad, PendingStore, PendingPanic, Flusher,
     Close, ReaderEnds, OldEnds, Ended, RecDial, NewConn, RecWrite, RecReset, RecDone, ServerTake, LateTake, Break, pings

\* A ping that is taken is one of those on the wire.
LEMMA TakePing ==
  ASSUME Types, wire # <<>>
  PROVE  /\ Head(wire) = wire[1] /\ wire[1] \in Items /\ Len(wire) \in Nat \ {0}
         /\ Len(Tail(wire)) = Len(wire) - 1
         /\ \A i \in 1 .. Len(wire) - 1 : Tail(wire)[i] = wire[i + 1]
         /\ \A i \in 0 .. Len(wire) - 1 :
              Pings(wire, i + 1) = IF wire[1] = PING THEN Pings(Tail(wire), i) + 1 ELSE Pings(Tail(wire), i)
<1>1. wire \in Seq(Items)
  BY DEF Types
<1>2. /\ Len(wire) \in Nat \ {0} /\ Tail(wire) \in Seq(Items) /\ Len(Tail(wire)) = Len(wire) - 1
      /\ \A i \in 1 .. Len(wire) - 1 : Tail(wire)[i] = wire[i + 1]
  BY <1>1, EmptySeq, HeadTailProperties
<1>3. Head(wire) = wire[1] /\ wire[1] \in Items
  BY <1>1, <1>2, ElementOfSeq
<1>4. ASSUME NEW i \in 0 .. Len(wire) - 1
      PROVE  Pings(wire, i + 1) = IF wire[1] = PING THEN Pings(Tail(wire), i) + 1 ELSE Pings(Tail(wire), i)
  <2>1. i \in Nat /\ \A j \in 1 .. i : Tail(wire)[j] = wire[j + 1]
    BY <1>2
  <2> QED BY <2>1, PingsTail
<1> QED BY <1>2, <1>3, <1>4

-----------------------------------------------------------------------------
LEMMA ScalarsNext ==
  ASSUME Types'
  PROVE  /\ answers' \in Nat /\ Len(bufs') \in Nat /\ Len(pend') \in Nat /\ Len(wire') \in Nat /\ Len(pongs') \in Nat
         /\ DOMAIN bufs' = 1 .. Len(bufs') /\ DOMAIN pend' = 1 .. Len(pend')
         /\ DOMAIN wire' = 1 .. Len(wire') /\ DOMAIN pongs' = 1 .. Len(pongs')
BY LenProperties DEF Types

\* The beginning of a sequence has the pings and the messages it had.
LEMMA Prefix ==
  ASSUME NEW s, NEW t, Len(s) \in Nat, Len(t) \in Nat, Len(s) <= Len(t),
         \A i \in 1 .. Len(s) : t[i] = s[i]
  PROVE  /\ \A i \in 0 .. Len(s) : Pings(t, i) = Pings(s, i) /\ \A m : In(m, t, i) <=> In(m, s, i)
         /\ \A m : In(m, s, Len(s)) => In(m, t, Len(t))
         /\ \A i \in 1 .. Len(s) + 1 : \A m : In(m, s, i - 1) => In(m, t, i)
         /\ AllPings(s) <= AllPings(t) /\ AllPings(s) \in Nat /\ AllPings(t) \in Nat
<1>1. ASSUME NEW i \in 0 .. Len(s) PROVE Pings(t, i) = Pings(s, i)
  <2>1. i \in Nat /\ \A j \in 1 .. i : t[j] = s[j]
    OBVIOUS
  <2> QED BY <2>1, PingsSame
<1>2. AllPings(s) <= AllPings(t) /\ AllPings(s) \in Nat /\ AllPings(t) \in Nat
  <2>1. Pings(s, Len(s)) = Pings(t, Len(s))
    BY <1>1
  <2>2. Len(s) \in 0 .. Len(t)
    OBVIOUS
  <2>3. Pings(t, Len(s)) <= Pings(t, Len(t))
    BY <2>2, PingsGrow
  <2>4. Pings(s, Len(s)) \in Nat /\ Pings(t, Len(t)) \in Nat
    BY PingsSet
  <2> QED BY <2>1, <2>3, <2>4 DEF AllPings
<1>3. \A i \in 0 .. Len(s) : \A m : In(m, t, i) <=> In(m, s, i)
  <2> TAKE i \in 0 .. Len(s)
  <2> TAKE m
  <2>1. \A j \in 1 .. i : j \in 1 .. Len(s) /\ t[j] = s[j]
    OBVIOUS
  <2> QED BY <2>1 DEF In
<1>4. \A m : In(m, s, Len(s)) => In(m, t, Len(t))
  BY DEF In
<1>5. \A i \in 1 .. Len(s) + 1 : \A m : In(m, s, i - 1) => In(m, t, i)
  <2> TAKE i \in 1 .. Len(s) + 1
  <2> TAKE m
  <2>1. \A j \in 1 .. i - 1 : j \in 1 .. Len(s) /\ j \in 1 .. i /\ t[j] = s[j]
    OBVIOUS
  <2> QED BY <2>1 DEF In
<1> QED BY <1>1, <1>2, <1>3, <1>4, <1>5

\* What follows it may be messages only ...
LEMMA PrefixMsgs ==
  ASSUME NEW s, NEW t, Len(s) \in Nat, Len(t) \in Nat, Len(s) <= Len(t),
         \A i \in 1 .. Len(s) : t[i] = s[i],
         \A i \in Len(s) + 1 .. Len(t) : t[i] # PING
  PROVE  AllPings(t) = AllPings(s)
<1>1. Pings(t, Len(t)) = Pings(t, Len(s))
  BY PingsNone
<1> QED BY <1>1, Prefix DEF AllPings

\* ... or messages and one ping at the end.
LEMMA PrefixPing ==
  ASSUME NEW s, NEW t, Len(s) \in Nat, Len(t) \in Nat, Len(s) < Len(t),
         \A i \in 1 .. Len(s) : t[i] = s[i],
         \A i \in Len(s) + 1 .. Len(t) - 1 : t[i] # PING, t[Len(t)] = PING
  PROVE  AllPings(t) = AllPings(s) + 1 /\ Pings(t, Len(t)) = AllPings(s) + 1
<1>1. Len(t) - 1 \in Nat /\ Len(s) \in 0 .. Len(t) - 1
  OBVIOUS
<1>2. Pings(t, Len(t) - 1) = Pings(t, Len(s))
  BY <1>1, PingsNone
<1>3. Pings(t, Len(t)) = Pings(t, Len(t) - 1) + 1
  <2>1. Pings(t, (Len(t) - 1) + 1) = Pings(t, Len(t) - 1) + 1
    BY <1>1, PingsNext
  <2> QED BY <2>1
<1>4. Pings(t, Len(s)) = Pings(s, Len(s))
  BY Prefix
<1> QED BY <1>2, <1>3, <1>4 DEF AllPings

\* A closed client only has to handle the answers that came.
LEMMA ClosedFine ==
  ASSUME DInv, status' = "CLOSED",
         UNCHANGED <<auto, conn, pongs, asked, token, sound, received>>, answers' \in {answers, 0},
         Types
  PROVE  DInv'
<1>1. Waiting(conn)' = Waiting(conn) /\ \A p : Owed(p)' = Owed(p)
  BY DEF Waiting, Owed
<1>2. AnswerInv'
  <2>1. \A p \in Waiting(conn) : p >= 1 /\ p \in Nat
    BY Scalars DEF Waiting
  <2>2. \A p \in Waiting(conn) : p <= answers' => p <= answers /\ Owed(p)' \subseteq received'
    BY <1>1, <2>1, Scalars DEF DInv, AnswerInv
  <2> QED BY <1>1, <2>2 DEF AnswerInv
<1>3. FlushMeansDelivered'
  BY DEF DInv, FlushMeansDelivered
<1> QED
  BY <1>2, <1>3 DEF DInv, PlaceInv, TargetInv, KeptInv, OwedInv, RaceInv

\* A write of messages that leaves the queue of pongs alone.
LEMMA MsgWrite ==
  ASSUME Types, Types', DInv, rec = "off", rec' = "off",
         status' # "CLOSED" => status # "CLOSED",
         UNCHANGED <<auto, conn, pongs, asked, token, sound, received, answers>>,
         up' => up, Len(wire) <= Len(wire'),
         \A i \in 1 .. Len(wire) : wire'[i] = wire[i],
         \A i \in Len(wire) + 1 .. Len(wire') : wire'[i] # PING,
         KeptInv'
  PROVE  DInv'
<1>1. CASE status' = "CLOSED"
  BY <1>1, Scalars, ClosedFine
<1>2. CASE status' # "CLOSED"
  <2> USE <1>2, Scalars, ScalarsNext DEF DInv
  <2>1. AllPings(wire') = AllPings(wire)
    BY PrefixMsgs
  <2>2. PlaceInv'
    BY <2>1 DEF PlaceInv
  <2>3. TargetInv'
    BY DEF TargetInv, Target
  <2>4. AnswerInv' /\ FlushMeansDelivered'
    BY DEF AnswerInv, FlushMeansDelivered, Waiting, Owed
  <2>5. RaceInv'
    BY DEF RaceInv
  <2>6. ASSUME NEW p \in Waiting(Target)', NEW m \in Owed(p)' \ received'
        PROVE  /\ up' => In(m, wire', Len(wire'))
               /\ \A i \in 1 .. Len(wire') :
                    wire'[i] = PING /\ p <= answers' + Pings(wire', i) => In(m, wire', i)
    <3>1. p \in Waiting(Target) /\ m \in Owed(p) \ received
      BY <2>6 DEF Waiting, Owed, Target
    <3>2. /\ up => In(m, wire, Len(wire))
          /\ \A i \in 1 .. Len(wire) : wire[i] = PING /\ p <= answers + Pings(wire, i) => In(m, wire, i)
      BY <3>1 DEF OwedInv, Stream
    <3>3. up' => In(m, wire', Len(wire'))
      BY <3>2, Prefix
    <3>4. ASSUME NEW i \in 1 .. Len(wire'), wire'[i] = PING, p <= answers' + Pings(wire', i) PROVE In(m, wire', i)
      <4>1. i \in 1 .. Len(wire) /\ i \in 0 .. Len(wire) /\ wire[i] = PING
        BY <3>4
      <4>2. Pings(wire', i) = Pings(wire, i) /\ (In(m, wire', i) <=> In(m, wire, i))
        BY <4>1, Prefix
      <4> QED BY <3>2, <3>4, <4>1, <4>2
    <3> QED BY <3>3, <3>4
  <2>7. OwedInv'
    BY <2>6 DEF OwedInv, Stream
  <2> QED BY <2>2, <2>3, <2>4, <2>5, <2>7
<1> QED BY <1>1, <1>2

\* What an append or a flush of messages does to the buffer and the wire.
MsgFlushed(msgs) ==
  /\ up' => up
  /\ Len(wire) <= Len(wire')
  /\ \A i \in 1 .. Len(wire) : wire'[i] = wire[i]
  /\ \A i \in Len(wire) + 1 .. Len(wire') : wire'[i] # PING
  /\ up' => /\ \A m : In(m, bufs, Len(bufs)) \/ m \in msgs => In(m, wire', Len(wire'))

LEMMA FlushMsgs ==
  ASSUME Types, Types', ~pendOn, NEW ok \in BOOLEAN, NEW added \in Seq(Msgs), Flush(added, ok)
  PROVE  MsgFlushed({added[i] : i \in 1 .. Len(added)}) /\ bufs' = <<>> /\ pend' = pend /\ (up' => ok)
<1>1. added \in Seq(Items) /\ Len(added) \in Nat /\ \A i \in 1 .. Len(added) : added[i] \in Msgs
  BY Bounds, SeqMonotonic, LenProperties, ElementOfSeq
<1>2. \A i \in 1 .. Len(bufs) : bufs[i] \in Msgs
  BY ElementOfSeq DEF Types
<1>3. /\ bufs' = <<>> /\ pend' = pend /\ (up' => up /\ ok)
      /\ Len(bufs \o added) = Len(bufs) + Len(added)
      /\ \A i \in 1 .. Len(bufs) : (bufs \o added)[i] = bufs[i]
      /\ \A i \in 1 .. Len(added) : (bufs \o added)[Len(bufs) + i] = added[i]
  BY <1>1, FlushEffect
<1>4. PICK n \in 0 .. Len(bufs) + Len(added) :
        Grown(n, bufs \o added) /\ (up' => n = Len(bufs) + Len(added))
  BY <1>1, FlushEffect
<1>5. \A i \in 1 .. Len(bufs) + Len(added) : (bufs \o added)[i] \in Msgs
  <2> TAKE i \in 1 .. Len(bufs) + Len(added)
  <2>1. CASE i <= Len(bufs)
    BY <1>2, <1>3, <2>1, Scalars
  <2>2. CASE i > Len(bufs)
    <3>1. i - Len(bufs) \in 1 .. Len(added) /\ Len(bufs) + (i - Len(bufs)) = i
      BY <1>1, <2>2, Scalars
    <3> QED BY <1>1, <1>3, <3>1
  <2> QED BY <2>1, <2>2, Scalars, <1>1
<1>6. /\ Len(wire') = Len(wire) + n /\ n \in Nat
      /\ \A i \in 1 .. Len(wire) : wire'[i] = wire[i]
      /\ \A i \in 1 .. n : wire'[Len(wire) + i] = (bufs \o added)[i]
  BY <1>1, <1>4, Scalars DEF Grown
<1>7. \A i \in Len(wire) + 1 .. Len(wire') : wire'[i] # PING
  <2> TAKE i \in Len(wire) + 1 .. Len(wire')
  <2>1. i - Len(wire) \in 1 .. n /\ Len(wire) + (i - Len(wire)) = i /\ n <= Len(bufs) + Len(added)
    BY <1>1, <1>4, <1>6, Scalars
  <2>2. i - Len(wire) \in 1 .. Len(bufs) + Len(added)
    BY <1>1, <2>1, Scalars
  <2> QED BY <1>5, <1>6, <2>1, <2>2, Bounds
<1>8. ASSUME up', NEW m, In(m, bufs, Len(bufs)) \/ \E i \in 1 .. Len(added) : m = added[i]
      PROVE  In(m, wire', Len(wire'))
  <2>1. PICK j \in 1 .. n : m = (bufs \o added)[j]
    <3>1. CASE In(m, bufs, Len(bufs))
      <4>1. PICK j \in 1 .. Len(bufs) : bufs[j] = m
        BY <3>1 DEF In
      <4> QED BY <1>1, <1>3, <1>4, <1>8, <4>1, Scalars
    <3>2. CASE \E i \in 1 .. Len(added) : m = added[i]
      <4>1. PICK i \in 1 .. Len(added) : m = added[i]
        BY <3>2
      <4>2. Len(bufs) + i \in 1 .. n /\ (bufs \o added)[Len(bufs) + i] = m
        BY <1>1, <1>3, <1>4, <1>8, <4>1, Scalars
      <4> QED BY <4>2
    <3> QED BY <1>8, <3>1, <3>2
  <2>2. Len(wire) + j \in 1 .. Len(wire') /\ wire'[Len(wire) + j] = m
    BY <1>6, <2>1, Scalars
  <2> QED BY <2>2 DEF In
<1> QED BY <1>3, <1>6, <1>7, <1>8, Scalars DEF MsgFlushed

\* Messages sent, and the flusher.
LEMMA SendDelivers ==
  ASSUME Types, Types', RecInv, DInv, AppendBufs \/ Flusher
  PROVE  DInv'
<1> USE Scalars, ScalarsNext DEF MuFree
<1>0. <<>> \in Seq(Msgs) /\ Len(<<>>) = 0 /\ \A m : ~In(m, <<>>, 0)
  BY EmptySeq DEF In
<1>1. CASE AppendBufs
  <2>0. /\ UNCHANGED <<auto, conn, pongs, asked, token, sound, received, answers, status, rec, sending, pendOn, obj>>
        /\ ~pendOn /\ rec = "off" /\ next \in Msgs
    BY <1>1 DEF AppendBufs, pings, RecInv, net
  <2>1. PICK ok \in BOOLEAN :
          /\ IF Len(bufs) + 1 >= Limit THEN Flush(<<next>>, ok)
             ELSE bufs' = Append(bufs, next) /\ ok /\ UNCHANGED <<pend, up, nFault, wire>>
          /\ appended' = IF ok /\ status # "CLOSED" THEN appended \cup {next} ELSE appended
    BY <1>1 DEF AppendBufs
  <2>2. CASE Len(bufs) + 1 >= Limit
    <3>1. <<next>> \in Seq(Msgs) /\ Len(<<next>>) = 1 /\ <<next>>[1] = next
      BY <2>0
    <3>2. MsgFlushed({<<next>>[i] : i \in 1 .. Len(<<next>>)}) /\ (up' => ok)
      BY <2>0, <2>1, <2>2, <3>1, FlushMsgs
    <3>3. MsgFlushed({next}) /\ (up' => ok)
      <4>1. {<<next>>[i] : i \in 1 .. Len(<<next>>)} = {next}
        BY <3>1
      <4> QED BY <3>2, <4>1
    <3>4. KeptInv'
      <4> SUFFICES ASSUME status # "CLOSED", NEW m \in appended' \ received, up' PROVE In(m, wire', Len(wire'))
        BY <2>0 DEF KeptInv
      <4>1. CASE m = next
        BY <3>3, <4>1 DEF MsgFlushed
      <4>2. CASE m # next
        <5>1. m \in appended \ received /\ up
          BY <2>1, <3>3, <4>2 DEF MsgFlushed
        <5>2. In(m, wire, Len(wire)) \/ In(m, bufs, Len(bufs))
          BY <2>0, <5>1 DEF DInv, KeptInv
        <5> QED BY <3>3, <5>2, Prefix DEF MsgFlushed
      <4> QED BY <4>1, <4>2
    <3> QED BY <2>0, <3>3, <3>4, MsgWrite DEF MsgFlushed
  <2>3. CASE ~(Len(bufs) + 1 >= Limit)
    <3>1. UNCHANGED <<pend, up, wire>> /\ bufs' = Append(bufs, next) /\ appended' \subseteq appended \cup {next}
      BY <2>1, <2>3
    <3>2. bufs \in Seq(Msgs)
      BY DEF Types
    <3>3. Len(bufs') = Len(bufs) + 1 /\ bufs'[Len(bufs) + 1] = next /\ \A i \in 1 .. Len(bufs) : bufs'[i] = bufs[i]
      BY <2>0, <3>1, <3>2, AppendProperties
    <3>4. In(next, bufs', Len(bufs'))
      BY <3>3 DEF In
    <3>5. \A m : In(m, bufs, Len(bufs)) => In(m, bufs', Len(bufs'))
      <4>1. Len(bufs) \in Nat /\ Len(bufs') \in Nat
        OBVIOUS
      <4>2. \A j \in 1 .. Len(bufs) : j \in 1 .. Len(bufs') /\ bufs'[j] = bufs[j]
        BY <3>3, <4>1
      <4> QED BY <4>2 DEF In
    <3>6. KeptInv'
      BY <2>0, <3>1, <3>4, <3>5 DEF DInv, KeptInv
    <3> QED BY <2>0, <3>1, <3>6, MsgWrite
  <2> QED BY <2>2, <2>3
<1>2. CASE Flusher
  <2>0. /\ UNCHANGED <<auto, conn, pongs, asked, token, sound, received, answers, status, rec, appended>>
        /\ ~pendOn /\ rec = "off"
    BY <1>2 DEF Flusher, pings, RecInv, net, hist
  <2>1. PICK ok \in BOOLEAN : Flush(<<>>, ok)
    BY <1>2 DEF Flusher
  <2>2. MsgFlushed({<<>>[i] : i \in 1 .. Len(<<>>)})
    BY <1>0, <2>0, <2>1, FlushMsgs
  <2>3. KeptInv'
    <3> SUFFICES ASSUME status # "CLOSED", NEW m \in appended \ received, up' PROVE In(m, wire', Len(wire'))
      BY <2>0 DEF KeptInv
    <3>1. In(m, wire, Len(wire)) \/ In(m, bufs, Len(bufs))
      BY <2>0, <2>2 DEF DInv, KeptInv, MsgFlushed
    <3> QED BY <2>2, <3>1, Prefix DEF MsgFlushed
  <2> QED BY <2>0, <2>2, <2>3, MsgWrite DEF MsgFlushed
<1> QED BY <1>1, <1>2

\* Close.
LEMMA CloseDelivers ==
  ASSUME Types, DInv, Close
  PROVE  DInv'
<1>1. /\ UNCHANGED <<auto, conn, pongs, asked, token, sound, received, answers>>
      /\ status' = "CLOSED"
  BY DEF Close, CloseEffect, pings
<1> QED BY <1>1, ClosedFine

\* The end of the reader: the client is closed, or waits for its next
\* connection and has nothing to send for it yet.
LEMMA ReaderDelivers ==
  ASSUME Types, Types', RecInv, ObjInv, DInv, ReaderEnds
  PROVE  DInv'
<1> USE Scalars, ScalarsNext DEF DInv, MuFree
<1>0. /\ UNCHANGED <<auto, conn, pongs, asked, token, sound, received, sending>>
      /\ answers' = 0 /\ rec \in {"off", "wait"}
  BY DEF ReaderEnds, Ended, pings
<1>1. CASE status' = "CLOSED"
  BY <1>0, <1>1, ClosedFine
<1>2. CASE status' # "CLOSED" /\ status # "CONNECTED"
  <2>1. UNCHANGED <<status, bufs, pendOn, pend, obj, rec, up, wire, appended>> /\ rec = "wait"
    BY <1>0, <1>2 DEF ReaderEnds, Ended, RecInv
  <2>2. PlaceInv' /\ TargetInv' /\ KeptInv' /\ RaceInv' /\ FlushMeansDelivered'
    BY <1>0, <1>2, <2>1 DEF PlaceInv, TargetInv, KeptInv, RaceInv, FlushMeansDelivered, Target, Waiting
  <2>3. OwedInv' /\ AnswerInv'
    BY <1>0, <1>2, <2>1 DEF RecInv, OwedInv, AnswerInv, Target, Waiting, Owed, Stream
  <2> QED BY <2>2, <2>3
<1>3. CASE status' # "CLOSED" /\ status = "CONNECTED"
  <2>1. /\ status' = "RECONNECTING" /\ rec' = "wait" /\ pendOn' = TRUE /\ pend' = <<>> /\ obj' = obj + 1
        /\ up' = FALSE /\ appended' = {} /\ auto /\ rec = "off"
    BY <1>0, <1>3 DEF ReaderEnds, Ended, OpErr, CloseEffect, RecInv
  <2>2. Len(pend') = 0 /\ AllPings(pend') = 0 /\ \A m : ~In(m, pend', Len(pend'))
    BY <2>1, PingsZero DEF AllPings, In
  <2>9. \A p \in DOMAIN pongs : pongs[p] # Nil => asked[pongs[p]].on <= conn /\ asked[pongs[p]].on \in Nat
    <3>1. Target = conn
      BY <2>1 DEF Target
    <3>2. \A p \in DOMAIN pongs : pongs[p] # Nil => asked[pongs[p]].on <= Target
      BY <1>3 DEF TargetInv
    <3>3. \A p \in DOMAIN pongs : pongs[p] # Nil => asked[pongs[p]].on \in Nat
      BY EntryTyped, AskedTyped
    <3> QED BY ONLY <3>1, <3>2, <3>3
  <2>3. Waiting(Target)' = {}
    <3>1. Target' = conn + 1 /\ UNCHANGED <<auto, pongs, asked>> /\ auto
      BY <1>0, <2>1 DEF Target
    <3> QED BY ONLY <2>9, <3>1, conn \in Nat DEF Waiting
  <2>4. PlaceInv' /\ KeptInv' /\ FlushMeansDelivered'
    BY <1>0, <2>1, <2>2 DEF PlaceInv, KeptInv, FlushMeansDelivered
  <2>5. TargetInv'
    <3>1. Target' = conn + 1 /\ UNCHANGED <<pongs, asked>>
      BY <1>0, <2>1 DEF Target
    <3> QED BY ONLY <2>9, <3>1, conn \in Nat DEF TargetInv
  <2>6. OwedInv'
    BY <2>3 DEF OwedInv
  <2>7. AnswerInv'
    BY <1>0 DEF AnswerInv, Waiting
  <2>8. RaceInv'
    BY <1>0, <2>1 DEF RaceInv, ObjInv
  <2> QED BY <2>4, <2>5, <2>6, <2>7, <2>8
<1> QED BY <1>1, <1>2, <1>3

\* Connect starts again from nothing.
LEMMA ConnectDelivers ==
  ASSUME Types, Types', RecInv, FlushMeansDelivered, Connect
  PROVE  DInv'
<1>1. /\ status' = "CONNECTED" /\ wire' = <<>> /\ answers' = 0 /\ pongs' = <<>> /\ appended' = {}
      /\ rec' = rec /\ rec = "off" /\ UNCHANGED <<token, sound, asked, received, auto>>
  BY Scalars DEF Connect, NewConn, RecInv
<1>2. Len(wire') = 0 /\ AllPings(wire') = 0 /\ Len(pongs') = 0 /\ DOMAIN pongs' = {}
  BY <1>1, PingsZero DEF AllPings
<1>3. PlaceInv' /\ TargetInv' /\ KeptInv' /\ RaceInv'
  BY <1>1, <1>2 DEF PlaceInv, TargetInv, KeptInv, RaceInv
<1>4. OwedInv' /\ AnswerInv'
  BY <1>2 DEF OwedInv, AnswerInv, Waiting
<1>5. FlushMeansDelivered'
  BY <1>1 DEF FlushMeansDelivered
<1> QED BY <1>3, <1>4, <1>5 DEF DInv

\* A connection that breaks loses what is on the wire, and no message can be
\* sent on it any more.
LEMMA BreakDelivers ==
  ASSUME Types, Types', RecInv, DInv, Break
  PROVE  DInv'
<1> USE Scalars, ScalarsNext DEF DInv
<1>1. /\ wire' = <<>> /\ up' = FALSE /\ up
      /\ UNCHANGED <<auto, status, conn, pongs, asked, token, sound, received, appended, answers, sending, rec, pend, pendOn, obj, bufs>>
  BY DEF Break, writer, pings, hist
<1>2. Len(wire') = 0 /\ AllPings(wire') = 0 /\ \A m : ~In(m, wire', Len(wire'))
  BY <1>1, PingsZero DEF AllPings, In
<1>3. TargetInv' /\ AnswerInv' /\ RaceInv' /\ FlushMeansDelivered'
  BY <1>1 DEF TargetInv, AnswerInv, RaceInv, FlushMeansDelivered, Target, Waiting, Owed
<1>4. AllPings(wire) \in Nat
  BY PingsSet DEF AllPings
<1>5. PlaceInv' /\ KeptInv'
  BY <1>1, <1>2, <1>4 DEF PlaceInv, KeptInv
<1>6. OwedInv'
  <2>1. CASE rec \in {"wait", "write"}
    BY <1>1, <2>1 DEF OwedInv, Stream, Target, Waiting, Owed
  <2>2. CASE rec \notin {"wait", "write"}
    BY <1>1, <1>2, <2>2 DEF OwedInv, Stream
  <2> QED BY <2>1, <2>2
<1> QED BY <1>3, <1>5, <1>6

\* The append to the pending buffer: what it restores is known from when it
\* has read it.
LEMMA PendingDelivers ==
  ASSUME Types, Types', RecInv, ObjInv, DInv, PendingLoad \/ PendingStore
  PROVE  DInv'
<1> USE Scalars, ScalarsNext DEF DInv
<1>1. CASE PendingLoad
  <2>1. /\ sending' = [msg |-> next, snap |-> pend, obj |-> obj]
        /\ UNCHANGED <<auto, status, conn, bufs, pendOn, pend, obj, pongs, asked, token, sound, rec, up, wire, answers,
                       received, appended>>
    BY <1>1 DEF PendingLoad, pings, net, hist
  <2>2. sending'.snap = pend'
    BY <2>1
  <2>3. PlaceInv' /\ TargetInv' /\ KeptInv' /\ AnswerInv' /\ FlushMeansDelivered'
    BY <2>1 DEF PlaceInv, TargetInv, KeptInv, AnswerInv, FlushMeansDelivered, Target, Waiting, Owed
  <2>4. OwedInv'
    BY <2>1 DEF OwedInv, Stream, Target, Waiting, Owed
  <2>5. RaceInv'
    BY <2>1, <2>2 DEF RaceInv, PlaceInv
  <2> QED BY <2>3, <2>4, <2>5
<1>2. CASE PendingStore
  <2>1. /\ UNCHANGED <<auto, status, conn, bufs, pendOn, obj, pongs, asked, token, sound, rec, up, wire, answers, received>>
        /\ sending' = NoSend /\ sending # NoSend
    BY <1>2 DEF PendingStore, pings, net
  <2>2. CASE UNCHANGED <<pend, appended>>
    <3>1. PlaceInv' /\ TargetInv' /\ KeptInv' /\ AnswerInv' /\ FlushMeansDelivered' /\ RaceInv'
      BY <2>1, <2>2 DEF PlaceInv, TargetInv, KeptInv, AnswerInv, RaceInv, FlushMeansDelivered, Target, Waiting, Owed
    <3>2. OwedInv'
      BY <2>1, <2>2 DEF OwedInv, Stream, Target, Waiting, Owed
    <3> QED BY <3>1, <3>2
  <2>3. CASE ~UNCHANGED <<pend, appended>>
    <3>1. /\ pendOn /\ obj = sending.obj /\ pend' = Append(sending.snap, sending.msg)
          /\ appended' = IF rec \in {"wait", "write"} /\ status # "CLOSED"
                         THEN appended \cup {sending.msg} ELSE appended
      BY <1>2, <2>3 DEF PendingStore, Kept
    <3>2. /\ sending.snap \in Seq(Items) /\ sending.msg \in Msgs /\ sending.msg \in Items /\ sending.msg # PING
      BY <2>1, Bounds DEF Types
    <3> DEFINE snap == sending.snap
    <3>3. /\ Len(snap) \in Nat /\ Len(pend') = Len(snap) + 1 /\ pend'[Len(snap) + 1] = sending.msg
          /\ \A i \in 1 .. Len(snap) : pend'[i] = snap[i]
      BY <3>1, <3>2, AppendProperties, LenProperties
    <3>9. Len(pend') \in Nat /\ Len(snap) <= Len(pend')
      BY <3>3
    <3>10. /\ \A i \in 0 .. Len(snap) : Pings(pend', i) = Pings(snap, i) /\ \A m : In(m, pend', i) <=> In(m, snap, i)
           /\ \A m : In(m, snap, Len(snap)) => In(m, pend', Len(pend'))
      BY ONLY <3>3, <3>9, Prefix
    <3>4. AllPings(pend') = AllPings(snap) /\ In(sending.msg, pend', Len(pend'))
      <4>1. \A i \in Len(snap) + 1 .. Len(pend') : pend'[i] # PING
        BY <3>2, <3>3
      <4>2. AllPings(pend') = AllPings(snap)
        BY ONLY <3>3, <3>9, <4>1, PrefixMsgs
      <4>3. Len(snap) + 1 \in 1 .. Len(pend')
        BY <3>3
      <4> QED BY <3>3, <4>2, <4>3 DEF In
    <3>5. TargetInv' /\ AnswerInv' /\ FlushMeansDelivered' /\ RaceInv'
      BY <2>1 DEF TargetInv, AnswerInv, RaceInv, FlushMeansDelivered, Target, Waiting, Owed
    <3>6. CASE status # "CLOSED" /\ rec \in {"wait", "write"}
      <4>1. AllPings(snap) <= Len(pongs) /\ (pend # snap => Waiting(Target) = {})
        BY <2>1, <3>1, <3>6 DEF RaceInv
      <4>2. PlaceInv'
        BY <2>1, <3>4, <3>6, <4>1 DEF PlaceInv
      <4>3. KeptInv'
        <5> SUFFICES ASSUME NEW m \in appended' \ received PROVE In(m, pend', Len(pend'))
          BY <2>1, <3>6 DEF KeptInv
        <5>1. CASE m = sending.msg
          BY <3>4, <5>1
        <5>2. CASE m # sending.msg
          <6>1. In(m, pend, Len(pend))
            BY <3>1, <3>6, <5>2 DEF KeptInv
          <6>2. pend = snap
            BY <2>1, <3>1, <3>6, <6>1 DEF RaceInv, In
          <6> QED BY <3>10, <6>1, <6>2
        <5> QED BY <5>1, <5>2
      <4>4. OwedInv'
        <5>1. CASE pend # snap
          BY <2>1, <4>1, <5>1 DEF OwedInv, Target, Waiting
        <5>2. CASE pend = snap
          <6> SUFFICES ASSUME NEW p \in Waiting(Target), NEW m \in Owed(p) \ received
                       PROVE  /\ In(m, pend', Len(pend'))
                              /\ \A i \in 1 .. Len(pend') :
                                   pend'[i] = PING /\ p <= answers + Pings(pend', i) => In(m, pend', i)
            BY <2>1, <3>6 DEF OwedInv, Stream, Target, Waiting, Owed
          <6>1. /\ In(m, snap, Len(snap))
                /\ \A i \in 1 .. Len(snap) : snap[i] = PING /\ p <= answers + Pings(snap, i) => In(m, snap, i)
            BY <3>6, <5>2 DEF OwedInv, Stream
          <6>2. In(m, pend', Len(pend'))
            BY <3>10, <6>1
          <6>3. ASSUME NEW i \in 1 .. Len(pend'), pend'[i] = PING, p <= answers + Pings(pend', i) PROVE In(m, pend', i)
            <7>1. i \in 1 .. Len(snap) /\ i \in 0 .. Len(snap) /\ snap[i] = PING
              BY ONLY <3>2, <3>3, <6>3
            <7>2. Pings(pend', i) = Pings(snap, i) /\ (In(m, pend', i) <=> In(m, snap, i))
              BY <3>10, <7>1
            <7> QED BY <6>1, <6>3, <7>1, <7>2
          <6> QED BY <6>2, <6>3
        <5> QED BY <5>1, <5>2
      <4> QED BY <3>5, <4>2, <4>3, <4>4
    <3>7. CASE status # "CLOSED" /\ rec \notin {"wait", "write"}
      <4>1. appended' = appended
        BY <3>1, <3>7
      <4>2. KeptInv' /\ OwedInv'
        BY <2>1, <3>7, <4>1 DEF KeptInv, OwedInv, Stream, Target, Waiting, Owed
      <4>3. PlaceInv'
        BY <2>1, <3>1, <3>4, <3>7 DEF PlaceInv, RaceInv
      <4> QED BY <3>5, <4>2, <4>3
    <3>8. CASE status = "CLOSED"
      BY <2>1, <3>5, <3>8 DEF PlaceInv, KeptInv, OwedInv
    <3> QED BY <3>6, <3>7, <3>8
  <2> QED BY <2>2, <2>3
<1> QED BY <1>1, <1>2

\* A ping that is sent is the last item of the stream t, that was s: behind all
\* messages the writer is answerable for, unless the write fails before it.
PingAdded(s, t) ==
  /\ Len(s) \in Nat /\ Len(t) \in Nat /\ Len(s) <= Len(t)
  /\ \A i \in 1 .. Len(s) : t[i] = s[i]
  /\ AllPings(s) \in Nat /\ AllPings(t) \in Nat /\ AllPings(t) <= AllPings(s) + 1
  /\ \A i \in Len(s) + 1 .. Len(t) : t[i] = PING =>
       i = Len(t) /\ (rec = "wait" \/ up) /\ \A m \in appended \ received : In(m, t, i)
  /\ rec = "wait" \/ up' => \A m \in appended \ received : In(m, t, Len(t))

LEMMA PingSent ==
  ASSUME Types, Types', RecInv, DInv, MuFree, status # "CLOSED", UNCHANGED rec,
         NEW ok \in BOOLEAN, Flush(<<PING>>, ok)
  PROVE  PingAdded(Stream, Stream') /\ (up' => up)
<1> USE Scalars, ScalarsNext DEF MuFree
<1>0. <<PING>> \in Seq(Items) /\ Len(<<PING>>) = 1 /\ <<PING>>[1] = PING
  BY OneItem, Bounds
<1>1. CASE rec = "wait"
  <2>1. /\ Len(pend') = Len(pend) + 1 /\ \A i \in 1 .. Len(pend) : pend'[i] = pend[i]
        /\ pend'[Len(pend) + 1] = PING /\ up' = up
    <3>1. pendOn
      BY <1>1 DEF RecInv
    <3>2. /\ UNCHANGED <<bufs, up, nFault, wire>>
          /\ Len(pend') = Len(pend) + Len(<<PING>>)
          /\ \A i \in 1 .. Len(pend) : pend'[i] = pend[i]
          /\ \A i \in 1 .. Len(<<PING>>) : pend'[Len(pend) + i] = <<PING>>[i]
      BY ONLY <1>0, <3>1, PendEffect, Types, ok \in BOOLEAN, Flush(<<PING>>, ok)
    <3> QED BY <1>0, <3>2
  <2>2. AllPings(pend') = AllPings(pend) + 1
    <3>1. Len(pend) < Len(pend') /\ pend'[Len(pend')] = PING /\ \A i \in Len(pend) + 1 .. Len(pend') - 1 : pend'[i] # PING
      BY <2>1
    <3> QED BY ONLY <2>1, <3>1, PrefixPing, Len(pend) \in Nat, Len(pend') \in Nat
  <2>3. \A m \in appended \ received : In(m, pend', Len(pend'))
    <3>1. \A m \in appended \ received : In(m, pend, Len(pend))
      BY <1>1 DEF DInv, KeptInv
    <3>2. \A j \in 1 .. Len(pend) : j \in 1 .. Len(pend') /\ pend'[j] = pend[j]
      BY <2>1
    <3> QED BY <3>1, <3>2 DEF In
  <2>4. \A i \in Len(pend) + 1 .. Len(pend') : i = Len(pend')
    BY <2>1
  <2>5. Stream = pend /\ Stream' = pend'
    BY <1>1 DEF Stream
  <2>6. AllPings(pend) \in Nat /\ AllPings(pend') \in Nat
    BY PingsSet DEF AllPings
  <2>7. Len(pend) <= Len(pend')
    BY <2>1
  <2>8. PingAdded(pend, pend')
    BY <1>1, <2>1, <2>2, <2>3, <2>4, <2>6, <2>7 DEF PingAdded
  <2> QED BY <2>1, <2>5, <2>8
<1>2. CASE rec = "off"
  <2>0. ~pendOn /\ Stream = wire /\ Stream' = wire'
    BY <1>2 DEF RecInv, Stream
  <2>1. /\ bufs' = <<>> /\ (up' => up)
        /\ Len(bufs \o <<PING>>) = Len(bufs) + 1
        /\ \A i \in 1 .. Len(bufs) : (bufs \o <<PING>>)[i] = bufs[i]
        /\ (bufs \o <<PING>>)[Len(bufs) + 1] = PING
    <3>1. /\ bufs' = <<>> /\ (up' => up)
          /\ Len(bufs \o <<PING>>) = Len(bufs) + Len(<<PING>>)
          /\ \A i \in 1 .. Len(bufs) : (bufs \o <<PING>>)[i] = bufs[i]
          /\ \A i \in 1 .. Len(<<PING>>) : (bufs \o <<PING>>)[Len(bufs) + i] = <<PING>>[i]
      BY ONLY <1>0, <2>0, FlushEffect, Types, ok \in BOOLEAN, Flush(<<PING>>, ok)
    <3> QED BY <1>0, <3>1
  <2>2. PICK n \in 0 .. Len(bufs) + 1 :
          Grown(n, bufs \o <<PING>>) /\ (~up => n = 0) /\ (up' => n = Len(bufs) + 1)
    <3>1. \E n \in 0 .. Len(bufs) + Len(<<PING>>) :
             Grown(n, bufs \o <<PING>>) /\ (~up => n = 0) /\ (up' => n = Len(bufs) + Len(<<PING>>))
      BY ONLY <1>0, <2>0, FlushEffect, Types, ok \in BOOLEAN, Flush(<<PING>>, ok)
    <3> QED BY <1>0, <3>1
  <2>3. /\ Len(wire') = Len(wire) + n /\ n \in Nat /\ n <= Len(bufs) + 1
        /\ \A i \in 1 .. Len(wire) : wire'[i] = wire[i]
        /\ \A i \in 1 .. n : wire'[Len(wire) + i] = (bufs \o <<PING>>)[i]
    <3>1. /\ Len(wire') = Len(wire) + n
          /\ \A i \in 1 .. Len(wire) : wire'[i] = wire[i]
          /\ \A i \in 1 .. n : wire'[Len(wire) + i] = (bufs \o <<PING>>)[i]
      BY ONLY <2>2 DEF Grown
    <3>2. n \in Nat /\ n <= Len(bufs) + 1
      BY ONLY n \in 0 .. Len(bufs) + 1, Len(bufs) \in Nat
    <3> QED BY ONLY <3>1, <3>2
  <2>4. \A i \in 1 .. Len(bufs) : bufs[i] \in Msgs /\ bufs[i] # PING
    BY ElementOfSeq, Bounds DEF Types
  <2>5. \A i \in Len(wire) + 1 .. Len(wire') : i <= Len(wire) + Len(bufs) => wire'[i] # PING
    <3> TAKE i \in Len(wire) + 1 .. Len(wire')
    <3> HAVE i <= Len(wire) + Len(bufs)
    <3>1. i - Len(wire) \in 1 .. n /\ i - Len(wire) \in 1 .. Len(bufs) /\ Len(wire) + (i - Len(wire)) = i
      BY ONLY <2>3, i \in Len(wire) + 1 .. Len(wire'), i <= Len(wire) + Len(bufs), Len(wire) \in Nat, Len(bufs) \in Nat
    <3> QED BY <2>1, <2>3, <2>4, <3>1
  <2>9. AllPings(wire) \in Nat /\ AllPings(wire') \in Nat /\ Len(wire) <= Len(wire')
    <3>1. Len(wire) <= Len(wire')
      BY <2>3
    <3> QED BY <3>1, PingsSet DEF AllPings
  <2>6. CASE n = Len(bufs) + 1
    <3>0. Len(wire') = Len(wire) + Len(bufs) + 1 /\ wire'[Len(wire')] = PING
      <4>1. n \in 1 .. n /\ Len(wire') = Len(wire) + Len(bufs) + 1
        BY ONLY <2>3, <2>6, Len(wire) \in Nat, Len(bufs) \in Nat
      <4>2. wire'[Len(wire) + n] = (bufs \o <<PING>>)[n]
        BY ONLY <2>3, <4>1
      <4>3. (bufs \o <<PING>>)[n] = PING
        BY ONLY <2>1, <2>6
      <4> QED BY ONLY <2>3, <4>1, <4>2, <4>3
    <3>1. Len(wire) < Len(wire') /\ \A i \in Len(wire) + 1 .. Len(wire') - 1 : wire'[i] # PING
      BY <2>5, <3>0
    <3>2. AllPings(wire') = AllPings(wire) + 1
      BY ONLY <2>3, <3>0, <3>1, PrefixPing, Len(wire) \in Nat, Len(wire') \in Nat
    <3>3. \A m \in appended \ received : In(m, wire', Len(wire'))
      <4> TAKE m \in appended \ received
      <4>1. up
        BY <2>2, <2>6
      <4>2. CASE In(m, wire, Len(wire))
        <5>1. \A j \in 1 .. Len(wire) : j \in 1 .. Len(wire') /\ wire'[j] = wire[j]
          BY <2>3
        <5> QED BY <4>2, <5>1 DEF In
      <4>3. CASE In(m, bufs, Len(bufs))
        <5>1. PICK j \in 1 .. Len(bufs) : bufs[j] = m
          BY <4>3 DEF In
        <5>2. Len(wire) + j \in 1 .. Len(wire') /\ j \in 1 .. n
          BY <2>3, <2>6, <5>1
        <5>3. wire'[Len(wire) + j] = m
          BY <2>1, <2>3, <5>1, <5>2
        <5> QED BY <5>2, <5>3 DEF In
      <4> QED BY <1>2, <4>1, <4>2, <4>3 DEF DInv, KeptInv
    <3>4. \A i \in Len(wire) + 1 .. Len(wire') : wire'[i] = PING => i = Len(wire')
      <4> TAKE i \in Len(wire) + 1 .. Len(wire')
      <4>1. i \in Len(wire) + 1 .. Len(wire') - 1 \/ i = Len(wire')
        BY ONLY Len(wire) \in Nat, Len(wire') \in Nat, i \in Len(wire) + 1 .. Len(wire')
      <4> QED BY <3>1, <4>1
    <3>5. PingAdded(wire, wire')
      <4>1. \A i \in Len(wire) + 1 .. Len(wire') : wire'[i] = PING =>
              i = Len(wire') /\ (rec = "wait" \/ up) /\ \A m \in appended \ received : In(m, wire', i)
        <5>1. up
          BY <2>2, <2>6
        <5> QED BY ONLY <3>3, <3>4, <5>1
      <4>2. Len(wire) \in Nat /\ Len(wire') \in Nat /\ AllPings(wire') <= AllPings(wire) + 1
        BY <2>9, <3>2
      <4> QED BY ONLY <2>3, <2>9, <3>3, <4>1, <4>2 DEF PingAdded
    <3> QED BY <2>0, <2>1, <3>5
  <2>7. CASE n # Len(bufs) + 1
    <3>1. \A i \in Len(wire) + 1 .. Len(wire') : wire'[i] # PING
      <4> TAKE i \in Len(wire) + 1 .. Len(wire')
      <4>1. i <= Len(wire) + Len(bufs)
        BY ONLY <2>3, <2>7, Len(wire) \in Nat, Len(bufs) \in Nat, i \in Len(wire) + 1 .. Len(wire')
      <4> QED BY <2>5, <4>1
    <3>2. AllPings(wire') = AllPings(wire)
      BY ONLY <2>3, <3>1, <2>9, PrefixMsgs, Len(wire) \in Nat, Len(wire') \in Nat
    <3>3. ~up'
      BY <2>2, <2>7
    <3>4. PingAdded(wire, wire')
      <4>1. Len(wire) \in Nat /\ Len(wire') \in Nat /\ AllPings(wire') <= AllPings(wire) + 1
        BY <2>9, <3>2
      <4>2. rec # "wait"
        BY <1>2
      <4> QED BY ONLY <2>3, <2>9, <3>1, <3>3, <4>1, <4>2 DEF PingAdded
    <3> QED BY <2>0, <2>1, <3>4
  <2> QED BY <2>6, <2>7
<1> QED BY <1>1, <1>2

\* A call of Flush.
LEMMA FlushDelivers ==
  ASSUME Types, Types', RecInv, CalledInv, DInv, NEW f \in Callers, FlushCall(f)
  PROVE  DInv'
<1> USE Scalars, ScalarsNext
<1>0. /\ UNCHANGED <<auto, status, conn, pendOn, obj, sending, token, rec, answers, received, appended, sound>>
      /\ sending = NoSend /\ MuFree /\ st[f] = "call" /\ f \notin Called
  BY DEF FlushCall, WmuFree, Called
<1>1. CASE status = "CLOSED"
  <2>1. UNCHANGED <<pongs, asked>>
    BY <1>1 DEF FlushCall
  <2> QED BY <1>0, <1>1, <2>1, ClosedFine
<1>2. CASE status # "CLOSED"
  <2>1. PICK ok \in BOOLEAN : Flush(<<PING>>, ok)
    BY <1>2 DEF FlushCall, SendPing
  <2>2. /\ pongs' = Append(pongs, f)
        /\ asked' = [asked EXCEPT ![f] = [on |-> IF status = "CONNECTED" THEN conn ELSE conn + 1, msgs |-> appended]]
    BY <1>2 DEF FlushCall, SendPing
  <2>3. Target = (IF status = "CONNECTED" THEN conn ELSE conn + 1) /\ Target' = Target /\ rec \in {"off", "wait"}
    BY <1>0, <1>2 DEF MuFree, RecInv, Target
  <2>4. /\ asked'[f].on = Target /\ asked'[f].msgs = appended
        /\ \A g \in Callers : g # f => asked'[g] = asked[g]
    BY <2>2, <2>3 DEF Types
  <2>5. /\ Len(pongs') = Len(pongs) + 1 /\ pongs'[Len(pongs) + 1] = f
        /\ \A p \in 1 .. Len(pongs) : pongs'[p] = pongs[p]
    <3>1. pongs \in Seq(Callers \cup {Nil}) /\ f \in Callers \cup {Nil}
      BY DEF Types
    <3> QED BY <2>2, <3>1, AppendProperties
  <2>6. \A p \in 1 .. Len(pongs) : pongs[p] # Nil => pongs[p] \in Callers /\ pongs[p] # f /\ asked'[pongs[p]] = asked[pongs[p]]
    <3>1. \A p \in 1 .. Len(pongs) : pongs[p] # Nil => pongs[p] \in Callers /\ pongs[p] # f
      BY <1>0 DEF CalledInv, Called
    <3> QED BY <2>4, <3>1
  <2>7. PingAdded(Stream, Stream') /\ (up' => up)
    BY <1>0, <1>2, <2>1, PingSent
  <2>8. answers + AllPings(Stream) <= Len(pongs) /\ answers \in Nat /\ AllPings(Stream) \in Nat /\ AllPings(Stream') \in Nat
    <3>1. CASE rec = "off"
      BY <1>2, <2>7, <3>1 DEF DInv, PlaceInv, Stream, PingAdded
    <3>2. CASE rec = "wait"
      <4>1. answers = 0 /\ AllPings(pend) <= Len(pongs) /\ Stream = pend
        BY <1>2, <3>2 DEF DInv, PlaceInv, Stream, RecInv
      <4>2. AllPings(Stream) \in Nat /\ AllPings(Stream') \in Nat
        BY <2>7 DEF PingAdded
      <4> QED BY <4>1, <4>2
    <3> QED BY <2>3, <3>1, <3>2
  <2>9. PlaceInv' /\ KeptInv'
    <3>1. PlaceInv'
      <4>1. answers' + AllPings(Stream') <= Len(pongs')
        BY <1>0, <2>5, <2>7, <2>8 DEF PingAdded
      <4>2. rec' = rec /\ AllPings(Stream') <= Len(pongs')
        BY <1>0, <2>8, <4>1
      <4>3. CASE rec = "off"
        BY <4>1, <4>2, <4>3 DEF PlaceInv, Stream
      <4>4. CASE rec = "wait"
        BY <4>1, <4>2, <4>4 DEF PlaceInv, Stream
      <4> QED BY <2>3, <4>3, <4>4
    <3>2. KeptInv'
      BY <1>0, <2>3, <2>7 DEF KeptInv, Stream, PingAdded
    <3> QED BY <3>1, <3>2
  <2>10. TargetInv'
    <3>1. \A p \in 1 .. Len(pongs) : pongs[p] # Nil => asked[pongs[p]].on <= Target
      BY <1>2 DEF DInv, TargetInv
    <3>2. ASSUME NEW p \in 1 .. Len(pongs'), pongs'[p] # Nil PROVE asked'[pongs'[p]].on <= Target
      <4>1. CASE p = Len(pongs) + 1
        BY <2>3, <2>4, <2>5, <4>1
      <4>2. CASE p # Len(pongs) + 1
        <5>1. p \in 1 .. Len(pongs)
          BY <2>5, <4>2
        <5> QED BY <2>5, <2>6, <3>1, <3>2, <5>1
      <4> QED BY <4>1, <4>2
    <3> QED BY <2>3, <3>2 DEF TargetInv
  <2>11. \A p \in 1 .. Len(pongs') : p = Len(pongs) + 1 \/ p \in 1 .. Len(pongs)
    BY <2>5
  <2>12. \A p : p \in Waiting(Target)' => (p = Len(pongs) + 1 /\ Owed(p)' = appended) \/ (p \in Waiting(Target) /\ Owed(p)' = Owed(p))
    <3> TAKE p
    <3> HAVE p \in Waiting(Target)'
    <3>1. p \in 1 .. Len(pongs') /\ pongs'[p] # Nil /\ (auto => asked'[pongs'[p]].on = Target)
      BY <1>0, <2>3 DEF Waiting
    <3>2. CASE p = Len(pongs) + 1
      BY <2>4, <2>5, <3>2 DEF Owed
    <3>3. CASE p \in 1 .. Len(pongs)
      BY <2>5, <2>6, <3>1, <3>3 DEF Owed, Waiting
    <3> QED BY <2>11, <3>1, <3>2, <3>3
  <2>13. OwedInv'
    <3> SUFFICES ASSUME NEW p, p \in Waiting(Target)', NEW m \in Owed(p)' \ received
                 PROVE  /\ rec = "wait" \/ up' => In(m, Stream', Len(Stream'))
                        /\ \A i \in 1 .. Len(Stream') :
                             Stream'[i] = PING /\ p <= answers + Pings(Stream', i) => In(m, Stream', i)
      <4>1. rec' = rec /\ (rec \in {"wait", "write"} <=> rec = "wait") /\ DOMAIN Stream' = 1 .. Len(Stream')
        BY <1>0, <2>3 DEF Stream
      <4> QED BY <1>0, <4>1 DEF OwedInv
    <3> DEFINE s == Stream  t == Stream'
    <3>1. /\ \A i \in 0 .. Len(s) : Pings(t, i) = Pings(s, i) /\ (In(m, t, i) <=> In(m, s, i))
          /\ In(m, s, Len(s)) => In(m, t, Len(t))
      BY ONLY <2>7, Prefix DEF PingAdded
    <3>2. CASE p = Len(pongs) + 1 /\ Owed(p)' = appended
      <4>1. ASSUME NEW i \in 1 .. Len(t), t[i] = PING, p <= answers + Pings(t, i) PROVE In(m, t, i)
        <5>1. CASE i \in 1 .. Len(s)
          <6>0. Len(s) \in Nat /\ i \in 0 .. Len(s) /\ i \in Nat
            BY <2>7, <5>1 DEF PingAdded
          <6>1. Pings(s, i) <= AllPings(s) /\ Pings(s, i) \in Nat
            BY ONLY <6>0, PingsGrow, PingsSet DEF AllPings
          <6>2. Pings(t, i) = Pings(s, i)
            BY <3>1, <6>0
          <6> QED BY ONLY <2>8, <3>2, <4>1, <6>1, <6>2, Len(pongs) \in Nat
        <5>2. CASE i \notin 1 .. Len(s)
          <6>1. i \in Len(s) + 1 .. Len(t)
            BY <2>7, <5>2 DEF PingAdded
          <6> QED BY <2>7, <3>2, <4>1, <6>1 DEF PingAdded
        <5> QED BY <5>1, <5>2
      <4> QED BY <2>7, <3>2, <4>1 DEF PingAdded
    <3>3. CASE p \in Waiting(Target) /\ Owed(p)' = Owed(p)
      <4>0. DOMAIN s = 1 .. Len(s) /\ (rec \in {"wait", "write"} <=> rec = "wait")
        BY <2>3 DEF Stream
      <4>1. /\ rec = "wait" \/ up => In(m, s, Len(s))
            /\ \A i \in 1 .. Len(s) : s[i] = PING /\ p <= answers + Pings(s, i) => In(m, s, i)
        BY <1>2, <3>3, <4>0 DEF DInv, OwedInv
      <4>2. ASSUME NEW i \in 1 .. Len(t), t[i] = PING, p <= answers + Pings(t, i) PROVE In(m, t, i)
        <5>1. CASE i \in 1 .. Len(s)
          <6>1. i \in 0 .. Len(s) /\ t[i] = s[i]
            BY ONLY <2>7, <5>1 DEF PingAdded
          <6>2. Pings(t, i) = Pings(s, i) /\ (In(m, t, i) <=> In(m, s, i))
            BY ONLY <3>1, <6>1
          <6>3. p <= answers + Pings(s, i) /\ s[i] = PING
            BY ONLY <4>2, <6>1, <6>2
          <6>4. In(m, s, i)
            BY ONLY <4>1, <5>1, <6>3
          <6> QED BY ONLY <6>2, <6>4
        <5>2. CASE i \notin 1 .. Len(s)
          <6>0. i \in Len(s) + 1 .. Len(t)
            BY ONLY <2>7, <5>2, i \in 1 .. Len(t) DEF PingAdded
          <6>1. i = Len(t)
            BY ONLY <2>7, <4>2, <6>0 DEF PingAdded
          <6>2. rec = "wait" \/ up
            BY ONLY <2>7, <4>2, <6>0 DEF PingAdded
          <6>3. In(m, s, Len(s))
            BY <4>1, <6>2
          <6> QED BY <3>1, <6>1, <6>3
        <5> QED BY <5>1, <5>2
      <4> QED BY <2>7, <3>1, <4>1, <4>2
    <3> QED BY <2>12, <3>2, <3>3
  <2>14. AnswerInv'
    <3> SUFFICES ASSUME NEW p, p \in Waiting(conn)', p <= answers PROVE Owed(p)' \subseteq received
      BY <1>0 DEF AnswerInv
    <3>1. p \in 1 .. Len(pongs') /\ pongs'[p] # Nil /\ (auto => asked'[pongs'[p]].on = conn)
      BY <1>0 DEF Waiting
    <3>2. p \in 1 .. Len(pongs)
      BY <2>8, <2>11, <3>1
    <3>3. p \in Waiting(conn) /\ Owed(p)' = Owed(p)
      BY <2>5, <2>6, <3>1, <3>2 DEF Owed, Waiting
    <3> QED BY <3>3 DEF DInv, AnswerInv
  <2>15. RaceInv'
    BY <1>0 DEF RaceInv
  <2>16. FlushMeansDelivered'
    <3>1. ~token[f]
      BY <1>0 DEF CalledInv
    <3> QED BY <1>0, <2>4, <3>1 DEF DInv, FlushMeansDelivered
  <2> QED BY <2>9, <2>10, <2>13, <2>14, <2>15, <2>16 DEF DInv
<1> QED BY <1>1, <1>2

\* A flush that is over, or whose entry lost its channel, is waited for no more.
LEMMA QueueLess ==
  ASSUME Types, Types', RecInv, ObjInv, DInv,
         UNCHANGED <<auto, status, conn, bufs, pendOn, pend, obj, sending, rec, up, wire, answers, received, appended>>,
         Len(pongs') = Len(pongs),
         \A p \in 1 .. Len(pongs) : pongs'[p] # Nil => pongs'[p] = pongs[p],
         \A g \in Callers : asked'[g] = asked[g] \/ asked'[g] = NoFlush,
         \A g \in Callers : token'[g] => token[g] /\ asked'[g] = asked[g] /\ sound'[g] = sound[g]
  PROVE  DInv'
<1> USE Scalars, ScalarsNext DEF DInv
<1>1. Stream' = Stream /\ Target' = Target /\ Target \in Nat
  BY DEF Stream, Target
<1>2. \A p \in 1 .. Len(pongs) : pongs'[p] # Nil => pongs'[p] \in Callers /\ pongs[p] = pongs'[p]
  BY ElementOfSeq DEF Types
<1>3. ASSUME NEW k, NEW p \in Waiting(k)'
      PROVE  (p \in Waiting(k) /\ Owed(p)' = Owed(p)) \/ (Owed(p)' = {} /\ (auto => k = 0))
  <2>1. p \in 1 .. Len(pongs) /\ pongs'[p] # Nil /\ (auto => asked'[pongs'[p]].on = k)
    BY <1>3 DEF Waiting
  <2>2. pongs'[p] \in Callers /\ pongs[p] = pongs'[p]
    BY <1>2, <2>1
  <2>3. CASE asked'[pongs[p]] = asked[pongs[p]]
    BY <2>1, <2>2, <2>3 DEF Waiting, Owed
  <2>4. CASE asked'[pongs[p]] = NoFlush
    BY <2>1, <2>2, <2>4 DEF Waiting, Owed, NoFlush
  <2> QED BY <2>2, <2>3, <2>4
<1>4. PlaceInv' /\ KeptInv' /\ FlushMeansDelivered'
  BY DEF PlaceInv, KeptInv, FlushMeansDelivered
<1>5. TargetInv'
  <2> SUFFICES ASSUME status # "CLOSED", NEW p \in 1 .. Len(pongs), pongs'[p] # Nil
               PROVE  asked'[pongs'[p]].on <= Target
    BY <1>1 DEF TargetInv
  <2>1. pongs'[p] \in Callers /\ pongs[p] = pongs'[p] /\ asked[pongs[p]].on <= Target
    BY <1>2 DEF TargetInv
  <2>2. NoFlush.on <= Target
    BY <1>1 DEF NoFlush
  <2> QED BY <2>1, <2>2
<1>6. OwedInv'
  <2> SUFFICES ASSUME status # "CLOSED", NEW p \in Waiting(Target)', NEW m \in Owed(p)' \ received
               PROVE  /\ rec \in {"wait", "write"} \/ up => In(m, Stream, Len(Stream))
                      /\ \A i \in DOMAIN Stream :
                           Stream[i] = PING /\ p <= answers + Pings(Stream, i) => In(m, Stream, i)
    BY <1>1 DEF OwedInv
  <2>1. p \in Waiting(Target) /\ Owed(p)' = Owed(p)
    BY <1>1, <1>3
  <2> QED BY <2>1 DEF OwedInv
<1>7. AnswerInv'
  <2> SUFFICES ASSUME NEW p \in Waiting(conn)', p <= answers PROVE Owed(p)' \subseteq received
    BY DEF AnswerInv
  <2> QED BY <1>3 DEF AnswerInv
<1>8. RaceInv'
  <2> SUFFICES ASSUME rec \in {"wait", "write", "failed"}, Waiting(Target) = {}, status # "CLOSED"
               PROVE  Waiting(Target)' = {}
    BY <1>1 DEF RaceInv
  <2>1. Target # 0 /\ auto
    BY DEF Target, RecInv, ObjInv
  <2> QED BY <1>1, <1>3, <2>1
<1> QED BY <1>4, <1>5, <1>6, <1>7, <1>8

LEMMA ReturnsDelivers ==
  ASSUME Types, Types', RecInv, ObjInv, DInv, NEW f \in Callers, FlushReturns(f) \/ RemoveFlushEntry(f)
  PROVE  DInv'
<1>1. UNCHANGED <<auto, status, conn, bufs, pendOn, pend, obj, sending, rec, up, wire, answers, received, appended>>
  BY DEF FlushReturns, RemoveFlushEntry, writer, net
<1>2. /\ \A g \in Callers : asked'[g] = asked[g] \/ asked'[g] = NoFlush
      /\ \A g \in Callers : token'[g] => token[g] /\ asked'[g] = asked[g] /\ sound'[g] = sound[g]
  <2>1. CASE UNCHANGED <<token, asked, sound>>
    BY <2>1
  <2>2. CASE Done(f)
    <3>1. /\ token' = [token EXCEPT ![f] = FALSE] /\ asked' = [asked EXCEPT ![f] = NoFlush]
          /\ sound' = [sound EXCEPT ![f] = FALSE]
          /\ DOMAIN token = Callers /\ DOMAIN asked = Callers /\ DOMAIN sound = Callers
      BY <2>2 DEF Done, Types
    <3>2. /\ asked'[f] = NoFlush /\ ~token'[f]
          /\ \A g \in Callers : g # f => token'[g] = token[g] /\ asked'[g] = asked[g] /\ sound'[g] = sound[g]
      BY <3>1
    <3> QED BY <3>2
  <2> QED BY <2>1, <2>2 DEF FlushReturns, RemoveFlushEntry
<1>3. Len(pongs') = Len(pongs) /\ \A p \in 1 .. Len(pongs) : pongs'[p] # Nil => pongs'[p] = pongs[p]
  BY Removed DEF FlushReturns
<1> QED BY <1>1, <1>2, <1>3, QueueLess

\* A pong is for the first entry, and those behind it move up.
LEMMA PongDelivers ==
  ASSUME Types, Types', RecInv, DInv, Pong
  PROVE  DInv'
<1> USE Scalars, ScalarsNext DEF DInv, MuFree
<1>1. /\ answers' = answers - 1 /\ answers > 0 /\ rec = "off"
      /\ UNCHANGED <<auto, status, conn, bufs, pendOn, pend, obj, sending, rec, up, wire, received, appended, asked>>
  BY DEF Pong, writer, RecInv
<1>2. Stream' = Stream /\ Stream = wire /\ Target' = Target /\ Target = conn
  BY <1>1 DEF Stream, Target
<1>3. KeptInv' /\ RaceInv'
  BY <1>1 DEF KeptInv, RaceInv
<1>4. AllPings(wire) \in Nat /\ AllPings(wire)' = AllPings(wire)
  BY <1>1, PingsSet DEF AllPings
<1>5. CASE pongs = <<>>
  <2>1. pongs' = <<>> /\ UNCHANGED <<token, sound>> /\ Len(pongs) = 0
    BY <1>5 DEF Pong, HandlePong
  <2>2. PlaceInv' /\ FlushMeansDelivered'
    BY <1>1, <1>4, <1>5, <2>1 DEF PlaceInv, FlushMeansDelivered
  <2>3. TargetInv' /\ OwedInv' /\ AnswerInv'
    BY <2>1 DEF TargetInv, OwedInv, AnswerInv, Waiting
  <2> QED BY <1>3, <2>2, <2>3
<1>6. CASE pongs # <<>>
  <2>0. pongs \in Seq(Callers \cup {Nil})
    BY DEF Types
  <2>1. /\ pongs' = Tail(pongs) /\ Len(pongs) >= 1 /\ Head(pongs) = pongs[1]
        /\ IF pongs[1] = Nil THEN UNCHANGED <<token, sound>>
           ELSE token' = [token EXCEPT ![pongs[1]] = TRUE]
                /\ sound' = [sound EXCEPT ![pongs[1]] = ~mixed /\ (auto => asked[pongs[1]].on = conn)]
    <3>1. Len(pongs) \in Nat \ {0} /\ Head(pongs) = pongs[1]
      BY <1>6, <2>0, EmptySeq
    <3> QED BY <1>6, <3>1 DEF Pong, HandlePong
  <2>2. Len(pongs') = Len(pongs) - 1 /\ \A p \in 1 .. Len(pongs') : p + 1 \in 1 .. Len(pongs) /\ pongs'[p] = pongs[p + 1]
    <3>1. Len(pongs') = Len(pongs) - 1 /\ \A p \in 1 .. Len(pongs) - 1 : pongs'[p] = pongs[p + 1]
      BY <1>6, <2>0, <2>1, HeadTailProperties
    <3> QED BY <3>1
  <2>3. ASSUME NEW k, NEW p \in Waiting(k)'
        PROVE  p \in Nat /\ p + 1 \in Waiting(k) /\ Owed(p)' = Owed(p + 1)
    BY <1>1, <2>2, <2>3 DEF Waiting, Owed
  <2>4. PlaceInv'
    BY <1>1, <1>4, <2>2 DEF PlaceInv
  <2>5. TargetInv'
    BY <1>1, <1>2, <2>2 DEF TargetInv
  <2>6. OwedInv'
    <3> SUFFICES ASSUME status # "CLOSED", NEW p \in Waiting(Target)', NEW m \in Owed(p)' \ received
                 PROVE  /\ up => In(m, wire, Len(wire))
                        /\ \A i \in 1 .. Len(wire) :
                             wire[i] = PING /\ p <= answers' + Pings(wire, i) => In(m, wire, i)
      BY <1>1, <1>2 DEF OwedInv
    <3>1. p \in Nat /\ p + 1 \in Waiting(Target) /\ m \in Owed(p + 1) \ received
      BY <1>2, <2>3
    <3>2. /\ up => In(m, wire, Len(wire))
          /\ \A i \in 1 .. Len(wire) : wire[i] = PING /\ p + 1 <= answers + Pings(wire, i) => In(m, wire, i)
      BY <1>1, <1>2, <3>1 DEF OwedInv
    <3>3. \A i \in 1 .. Len(wire) : Pings(wire, i) \in Nat
      <4> TAKE i \in 1 .. Len(wire)
      <4>1. i \in Nat
        BY ONLY Len(wire) \in Nat, i \in 1 .. Len(wire)
      <4> QED BY ONLY <4>1, PingsSet
    <3>4. answers' = answers - 1
      BY <1>1
    <3>5. \A i \in 1 .. Len(wire) : p <= answers' + Pings(wire, i) => p + 1 <= answers + Pings(wire, i)
      BY ONLY <3>1, <3>3, <3>4, answers \in Nat
    <3> QED BY ONLY <3>2, <3>5
  <2>7. AnswerInv'
    <3> SUFFICES ASSUME NEW p \in Waiting(conn)', p <= answers' PROVE Owed(p)' \subseteq received
      BY <1>1 DEF AnswerInv
    <3>1. p \in Nat /\ p + 1 \in Waiting(conn) /\ Owed(p)' = Owed(p + 1)
      BY <1>1, <2>3
    <3>2. p + 1 <= answers
      BY <1>1, <3>1
    <3> QED BY <3>1, <3>2 DEF AnswerInv
  <2>8. FlushMeansDelivered'
    <3> SUFFICES ASSUME NEW f \in Callers, token'[f], sound'[f] PROVE asked[f].msgs \subseteq received
      BY <1>1 DEF FlushMeansDelivered
    <3>1. CASE pongs[1] = f
      <4>1. f # Nil /\ DOMAIN sound = Callers
        BY CallNames DEF Types
      <4>2. sound' = [sound EXCEPT ![f] = ~mixed /\ (auto => asked[f].on = conn)]
        BY <2>1, <3>1, <4>1
      <4>3. sound'[f] <=> ~mixed /\ (auto => asked[f].on = conn)
        BY <4>1, <4>2
      <4>4. auto => asked[f].on = conn
        BY ONLY <4>3, sound'[f]
      <4>5. 1 \in Waiting(conn) /\ Owed(1) = asked[f].msgs
        BY <2>1, <3>1, <4>1, <4>4 DEF Waiting, Owed
      <4> QED BY <1>1, <4>5 DEF AnswerInv
    <3>2. CASE pongs[1] # f
      <4>1. DOMAIN sound = Callers /\ DOMAIN token = Callers
        BY DEF Types
      <4>2. token'[f] = token[f] /\ sound'[f] = sound[f]
        BY <2>1, <3>2, <4>1
      <4> QED BY <4>2 DEF FlushMeansDelivered
    <3> QED BY <3>1, <3>2
  <2> QED BY <1>3, <2>4, <2>5, <2>6, <2>7, <2>8
<1> QED BY <1>5, <1>6

\* What the server takes first is answered, or is received.
LEMMA TakeDelivers ==
  ASSUME Types, Types', RecInv, DInv, ServerTake
  PROVE  DInv'
<1> USE Scalars, ScalarsNext DEF DInv
<1>1. /\ wire # <<>> /\ wire' = Tail(wire) /\ Head(wire) = wire[1] /\ rec # "write"
      /\ UNCHANGED <<auto, status, conn, bufs, pendOn, pend, obj, sending, rec, up, pongs, token, sound, appended, asked>>
  BY TakePing DEF ServerTake, writer, pings, RecInv
<1>2. /\ received \subseteq received' /\ (wire[1] # PING => wire[1] \in received')
      /\ answers' = answers \/ (answers' = answers + 1 /\ wire[1] = PING /\ up /\ status # "CLOSED" /\ rec # "wait")
      /\ received' = received \/ wire[1] # PING
  BY <1>1 DEF ServerTake, RecInv
<1>3. /\ Len(wire') = Len(wire) - 1 /\ Len(wire) >= 1
      /\ \A i \in 1 .. Len(wire) - 1 : wire'[i] = wire[i + 1]
      /\ \A i \in 0 .. Len(wire) - 1 : Pings(wire, i + 1) = IF wire[1] = PING THEN Pings(wire', i) + 1 ELSE Pings(wire', i)
  BY <1>1, TakePing
<1>4. \A m : m \in Msgs => m # PING
  BY Bounds
<1>5. Target' = Target
  BY <1>1 DEF Target
<1>6. FlushMeansDelivered' /\ TargetInv' /\ RaceInv'
  BY <1>1, <1>2, <1>5 DEF FlushMeansDelivered, TargetInv, RaceInv, Waiting
<1>7. PlaceInv'
  <2>1. AllPings(pend)' = AllPings(pend) /\ AllPings(wire) \in Nat /\ AllPings(wire') \in Nat
    BY <1>1, PingsSet DEF AllPings
  <2>2. AllPings(wire) = IF wire[1] = PING THEN AllPings(wire') + 1 ELSE AllPings(wire')
    <3>1. Len(wire) - 1 \in 0 .. Len(wire) - 1 /\ (Len(wire) - 1) + 1 = Len(wire)
      BY ONLY <1>3, Len(wire) \in Nat
    <3> QED BY ONLY <1>3, <3>1 DEF AllPings
  <2>3. answers' + AllPings(wire') <= answers + AllPings(wire)
    BY ONLY <1>2, <2>1, <2>2, answers \in Nat
  <2> QED BY <1>1, <2>1, <2>3 DEF PlaceInv
\* What is not yet received is behind the first item, or that is a ping.
<1>8. ASSUME NEW m \in Msgs, m \notin received', NEW i \in 1 .. Len(wire), In(m, wire, i)
      PROVE  In(m, wire', i - 1)
  <2>1. PICK j \in 1 .. i : wire[j] = m
    BY <1>8 DEF In
  <2>2. j # 1
    BY <1>2, <1>4, <1>8, <2>1
  <2>3. j - 1 \in 1 .. i - 1 /\ j - 1 \in 1 .. Len(wire) - 1 /\ (j - 1) + 1 = j
    BY <2>2
  <2>4. wire'[j - 1] = m
    BY <1>3, <2>1, <2>3
  <2> QED BY <2>3, <2>4 DEF In
<1>9. KeptInv'
  <2> SUFFICES ASSUME status # "CLOSED", NEW m \in appended \ received'
               PROVE  /\ rec \in {"wait", "write"} => In(m, pend, Len(pend))
                      /\ rec \notin {"wait", "write"} /\ up => In(m, wire', Len(wire')) \/ In(m, bufs, Len(bufs))
    BY <1>1 DEF KeptInv
  <2>1. m \in appended \ received /\ m \in Msgs
    BY <1>2 DEF Types
  <2>2. Len(wire) \in 1 .. Len(wire) /\ Len(wire) - 1 = Len(wire')
    BY <1>3
  <2>3. In(m, wire, Len(wire)) => In(m, wire', Len(wire'))
    BY <1>8, <2>1, <2>2
  <2> QED BY <2>1, <2>3 DEF KeptInv
<1>10. ASSUME NEW p \in DOMAIN pongs, pongs[p] # Nil PROVE Owed(p) \subseteq Msgs
  <2>1. pongs[p] \in Callers
    BY <1>10, EntryTyped
  <2> QED BY <2>1, AskedTyped DEF Owed
<1>11. OwedInv'
  <2> SUFFICES ASSUME status # "CLOSED", NEW p \in Waiting(Target), NEW m \in Owed(p) \ received'
               PROVE  /\ rec = "wait" \/ up => In(m, Stream', Len(Stream'))
                      /\ \A i \in DOMAIN Stream' :
                           Stream'[i] = PING /\ p <= answers' + Pings(Stream', i) => In(m, Stream', i)
    BY <1>1, <1>5 DEF OwedInv, Waiting, Owed
  <2>1. m \in Owed(p) \ received /\ m \in Msgs /\ p \in Nat
    BY <1>2, <1>10 DEF Waiting
  <2>2. CASE rec = "wait"
    <3>1. Stream' = Stream /\ answers' = answers
      BY <1>1, <1>2, <2>2 DEF Stream
    <3> QED BY <2>1, <2>2, <3>1 DEF OwedInv
  <2>3. CASE rec # "wait"
    <3>1. Stream = wire /\ Stream' = wire'
      BY <1>1, <2>3 DEF Stream
    <3>2. /\ up => In(m, wire, Len(wire))
          /\ \A i \in 1 .. Len(wire) : wire[i] = PING /\ p <= answers + Pings(wire, i) => In(m, wire, i)
      BY <2>1, <3>1 DEF OwedInv
    <3>3. Len(wire) \in 1 .. Len(wire) /\ Len(wire) - 1 = Len(wire')
      BY <1>3
    <3>4. up => In(m, wire', Len(wire'))
      BY <1>8, <2>1, <3>2, <3>3
    <3>5. ASSUME NEW i \in 1 .. Len(wire'), wire'[i] = PING, p <= answers' + Pings(wire', i) PROVE In(m, wire', i)
      <4>1. i + 1 \in 1 .. Len(wire) /\ i \in 1 .. Len(wire) - 1 /\ i \in 0 .. Len(wire) - 1 /\ (i + 1) - 1 = i
            /\ i \in Nat /\ i + 1 \in Nat
        BY <3>3
      <4>2. Pings(wire', i) \in Nat /\ Pings(wire, i + 1) \in Nat
        BY ONLY <4>1, PingsSet
      <4>3. p <= answers + Pings(wire, i + 1)
        <5>1. Pings(wire, i + 1) = IF wire[1] = PING THEN Pings(wire', i) + 1 ELSE Pings(wire', i)
          BY <1>3, <4>1
        <5>2. answers' = answers \/ (answers' = answers + 1 /\ wire[1] = PING)
          BY <1>2
        <5> QED BY ONLY <2>1, <3>5, <4>2, <5>1, <5>2, answers \in Nat
      <4>4. In(m, wire, i + 1)
        BY <1>3, <3>2, <3>5, <4>1, <4>3
      <4> QED BY <1>8, <2>1, <4>1, <4>4
    <3> QED BY <2>3, <3>1, <3>4, <3>5
  <2> QED BY <2>2, <2>3
<1>12. AnswerInv'
  <2> SUFFICES ASSUME NEW p \in Waiting(conn), p <= answers', NEW m \in Owed(p), m \notin received PROVE FALSE
    BY <1>1, <1>2 DEF AnswerInv, Waiting, Owed
  <2>1. p \in Nat /\ ~(p <= answers) /\ m \in Msgs
    BY <1>10 DEF AnswerInv, Waiting
  <2>2. answers' = answers + 1 /\ wire[1] = PING /\ status # "CLOSED" /\ rec # "wait" /\ p = answers + 1
    BY <1>2, <2>1
  <2>3. Stream = wire /\ Target = conn
    BY <1>1, <2>2 DEF Stream, Target
  <2>4. Pings(wire, 1) = 1
    <3>1. Pings(wire, 0 + 1) = IF wire[0 + 1] = PING THEN Pings(wire, 0) + 1 ELSE Pings(wire, 0)
      BY ONLY 0 \in Nat, PingsNext
    <3>2. Pings(wire, 0) = 0
      BY ONLY PingsZero
    <3> QED BY ONLY <2>2, <3>1, <3>2
  <2>5. In(m, wire, 1)
    <3>1. 1 \in DOMAIN wire
      BY <1>3
    <3> QED BY <2>2, <2>3, <2>4, <3>1 DEF OwedInv
  <2> QED BY <1>4, <2>1, <2>2, <2>5 DEF In
<1> QED BY <1>6, <1>7, <1>9, <1>11, <1>12

\* A message of an earlier connection is received; a panic changes nothing else.
LEMMA LateDelivers ==
  ASSUME Types, DInv, LateTake \/ PendingPanic
  PROVE  DInv'
<1> USE DEF DInv
<1>1. /\ UNCHANGED <<auto, status, conn, bufs, pendOn, pend, obj, sending, rec, up, wire, answers, pongs, token, sound,
                       asked, appended>>
      /\ received \subseteq received'
  BY DEF LateTake, PendingPanic, writer, pings, net, hist
<1>2. Stream' = Stream /\ Target' = Target /\ AllPings(wire)' = AllPings(wire) /\ AllPings(pend)' = AllPings(pend)
  BY <1>1 DEF Stream, Target, AllPings
<1>3. PlaceInv' /\ TargetInv' /\ AnswerInv' /\ FlushMeansDelivered'
  BY <1>1, <1>2 DEF PlaceInv, TargetInv, AnswerInv, FlushMeansDelivered, Waiting, Owed
<1>4. KeptInv'
  BY <1>1 DEF KeptInv
<1>5. OwedInv'
  BY <1>1, <1>2 DEF OwedInv, Waiting, Owed
<1>6. RaceInv'
  BY <1>1, <1>2 DEF RaceInv, Waiting, AllPings
<1> QED BY <1>3, <1>4, <1>5, <1>6

\* The dial: the client was closed, or works for its next connection now.
LEMMA DialDelivers ==
  ASSUME Types, Types', RecInv, DInv, RecDial
  PROVE  DInv'
<1> USE Scalars, ScalarsNext DEF DInv
<1>1. CASE status = "CLOSED"
  <2>1. /\ UNCHANGED <<auto, conn, pongs, asked, token, sound, received, answers>> /\ status' = "CLOSED"
    BY <1>1 DEF RecDial, pings, net, hist
  <2> QED BY <2>1, ClosedFine
<1>2. CASE status # "CLOSED"
  <2>1. /\ rec = "wait" /\ rec' = "write" /\ conn' = conn + 1 /\ status' = "CONNECTED" /\ answers' = 0 /\ answers = 0
        /\ UNCHANGED <<auto, pendOn, pend, obj, sending, pongs, token, received, asked, sound, appended>>
    BY <1>2 DEF RecDial, NewConn, RecInv
  <2>2. Stream' = Stream /\ Target' = Target
    BY <2>1 DEF Stream, Target
  <2>3. AllPings(pend)' = AllPings(pend)
    BY <2>1 DEF AllPings
  <2>4. PlaceInv' /\ KeptInv' /\ FlushMeansDelivered' /\ TargetInv'
    BY <1>2, <2>1, <2>2, <2>3 DEF PlaceInv, KeptInv, FlushMeansDelivered, TargetInv
  <2>5. OwedInv'
    BY <1>2, <2>1, <2>2 DEF OwedInv, Waiting, Owed
  <2>6. RaceInv'
    BY <1>2, <2>1, <2>2 DEF RaceInv, Waiting
  <2>7. AnswerInv'
    BY <2>1 DEF AnswerInv, Waiting
  <2> QED BY <2>4, <2>5, <2>6, <2>7
<1> QED BY <1>1, <1>2

\* The pending buffer is written, or a part of it: what arrives is in order.
LEMMA RecWriteDelivers ==
  ASSUME Types, Types', RecInv, DInv, RecWrite
  PROVE  DInv'
<1> USE Scalars, ScalarsNext DEF DInv
<1>1. /\ rec = "write" /\ wire = <<>> /\ Len(wire) = 0 /\ answers = 0 /\ status = "CONNECTED"
      /\ UNCHANGED <<auto, status, conn, bufs, pendOn, pend, obj, sending, pongs, token, sound, answers, received, asked>>
  BY DEF RecWrite, writer, pings, RecInv
<1>2. Target' = Target /\ Target = conn /\ Stream = pend
  BY <1>1 DEF Target, Stream, RecWrite
<1>3. FlushMeansDelivered' /\ AnswerInv' /\ TargetInv'
  BY <1>1, <1>2 DEF FlushMeansDelivered, AnswerInv, TargetInv, Waiting
<1>4. AllPings(pend)' = AllPings(pend) /\ AllPings(pend) <= Len(pongs)
  BY <1>1 DEF AllPings, PlaceInv
<1>5. CASE pend = <<>>
  <2>1. rec' = "done" /\ wire' = pend /\ up' = up /\ appended' = appended
    BY <1>1, <1>5 DEF RecWrite
  <2>2. PlaceInv' /\ RaceInv'
    <3>1. AllPings(wire') <= Len(pongs) /\ AllPings(wire') \in Nat
      BY <1>4, <2>1, PingsSet DEF AllPings
    <3> QED BY <1>1, <2>1, <3>1 DEF PlaceInv, RaceInv
  <2>4. KeptInv'
    BY <1>1, <2>1 DEF KeptInv
  <2>3. OwedInv'
    <3>1. Stream' = Stream
      BY <1>2, <2>1 DEF Stream
    <3> QED BY <1>1, <1>2, <2>1, <3>1 DEF OwedInv, Waiting, Owed
  <2> QED BY <1>3, <2>2, <2>3, <2>4
<1>6. CASE pend # <<>>
  <2>1. PICK ok \in BOOLEAN :
          /\ Write(pend, ok) /\ rec' = (IF ok THEN "reset" ELSE "failed")
          /\ appended' = IF ok THEN appended ELSE {}
    BY <1>6 DEF RecWrite
  <2>2. pend \in Seq(Items)
    BY DEF Types
  <2>3. PICK n \in 0 .. Len(pend) : Grown(n, pend) /\ (up' => n = Len(pend) /\ ok)
    BY <2>1, <2>2, WriteEffect
  <2>4. /\ Len(wire') = n /\ Len(wire') <= Len(pend) /\ \A i \in 1 .. Len(wire') : pend[i] = wire'[i]
    <3>1. Len(wire') = Len(wire) + n /\ \A i \in 1 .. n : wire'[Len(wire) + i] = pend[i]
      BY ONLY <2>3 DEF Grown
    <3>2. n \in Nat /\ n <= Len(pend) /\ \A i \in 1 .. n : 0 + i = i
      OBVIOUS
    <3> QED BY <1>1, <3>1, <3>2
  <2>5. /\ \A i \in 0 .. Len(wire') : Pings(pend, i) = Pings(wire', i) /\ \A m : In(m, pend, i) <=> In(m, wire', i)
        /\ AllPings(wire') <= AllPings(pend) /\ AllPings(pend) \in Nat /\ AllPings(wire') \in Nat
    BY ONLY <2>4, Prefix, Len(wire') \in Nat, Len(pend) \in Nat
  <2>6. up' => Len(wire') = Len(pend) /\ rec' = "reset" /\ appended' = appended
    BY <2>1, <2>3, <2>4
  <2>7. PlaceInv'
    BY <1>1, <1>4, <2>1, <2>5 DEF PlaceInv
  <2>8. up' => \A m : In(m, pend, Len(pend)) => In(m, wire', Len(wire'))
    BY <2>5, <2>6
  <2>9. KeptInv'
    BY <1>1, <2>1, <2>6, <2>8 DEF KeptInv
  <2>10. OwedInv'
    <3>0. Stream' = wire' /\ rec' \notin {"wait", "write"}
      BY <2>1 DEF Stream
    <3> SUFFICES ASSUME NEW p \in Waiting(Target), NEW m \in Owed(p) \ received
                 PROVE  /\ up' => In(m, wire', Len(wire'))
                        /\ \A i \in 1 .. Len(wire') :
                             wire'[i] = PING /\ p <= answers + Pings(wire', i) => In(m, wire', i)
      BY <1>1, <1>2, <3>0 DEF OwedInv, Waiting, Owed
    <3>1. /\ In(m, pend, Len(pend))
          /\ \A i \in 1 .. Len(pend) : pend[i] = PING /\ p <= answers + Pings(pend, i) => In(m, pend, i)
      BY <1>1, <1>2 DEF OwedInv
    <3>2. ASSUME NEW i \in 1 .. Len(wire'), wire'[i] = PING, p <= answers + Pings(wire', i) PROVE In(m, wire', i)
      <4>1. i \in 1 .. Len(pend) /\ i \in 0 .. Len(wire') /\ pend[i] = PING
        BY <2>4, <3>2
      <4>2. Pings(pend, i) = Pings(wire', i) /\ (In(m, pend, i) <=> In(m, wire', i))
        BY <2>5, <4>1
      <4> QED BY <3>1, <3>2, <4>1, <4>2
    <3> QED BY <2>8, <3>1, <3>2
  <2>11. RaceInv'
    BY <1>1, <1>2, <1>6, <2>1 DEF RaceInv
  <2> QED BY <1>3, <2>7, <2>9, <2>10, <2>11
<1> QED BY <1>5, <1>6

\* The pending buffer is reset; after a failure it is for the next connection.
LEMMA RecResetDelivers ==
  ASSUME Types, Types', RecInv, ObjInv, DInv, RecReset
  PROVE  DInv'
<1> USE Scalars, ScalarsNext DEF DInv
<1>1. /\ rec \in {"reset", "failed"} /\ pend' = <<>> /\ rec' = (IF rec = "failed" THEN "wait" ELSE "done")
      /\ UNCHANGED <<auto, conn, bufs, pendOn, obj, sending, pongs, token, sound, asked, up, wire, answers, received, appended>>
      /\ status = "CONNECTED" /\ auto
  BY DEF RecReset, pings, net, hist, RecInv
<1>2. FlushMeansDelivered' /\ AnswerInv'
  BY <1>1 DEF FlushMeansDelivered, AnswerInv, Waiting, Owed
<1>3. CASE rec = "reset"
  <2>1. status' = status /\ Stream' = Stream /\ Target' = Target /\ rec' = "done"
    BY <1>1, <1>3 DEF RecReset, Stream, Target
  <2>2. PlaceInv' /\ KeptInv' /\ RaceInv' /\ TargetInv'
    BY <1>1, <1>3, <2>1 DEF PlaceInv, KeptInv, RaceInv, TargetInv
  <2>3. OwedInv'
    BY <1>1, <1>3, <2>1 DEF OwedInv, Waiting, Owed
  <2> QED BY <1>2, <2>2, <2>3
<1>4. CASE rec = "failed"
  <2>1. /\ status' = "RECONNECTING" /\ rec' = "wait" /\ Target' = conn + 1 /\ Target = conn /\ appended = {}
        /\ Len(pend') = 0 /\ AllPings(pend') = 0
    BY <1>1, <1>4, PingsZero DEF RecReset, Target, RecInv, AllPings
  <2>2. \A p \in DOMAIN pongs : pongs[p] # Nil => asked[pongs[p]].on <= conn /\ asked[pongs[p]].on \in Nat
    <3>1. \A p \in DOMAIN pongs : pongs[p] # Nil => asked[pongs[p]].on \in Nat
      BY EntryTyped, AskedTyped
    <3>2. \A p \in DOMAIN pongs : pongs[p] # Nil => asked[pongs[p]].on <= Target
      BY <1>1 DEF TargetInv
    <3> QED BY ONLY <2>1, <3>1, <3>2
  <2>3. TargetInv'
    BY <1>1, <2>1, <2>2 DEF TargetInv
  <2>4. Waiting(Target)' = {}
    BY <1>1, <2>1, <2>2 DEF Waiting
  <2>5. PlaceInv' /\ KeptInv' /\ OwedInv'
    BY <1>1, <2>1, <2>4 DEF PlaceInv, KeptInv, OwedInv
  <2>6. RaceInv'
    BY <1>1, <1>4, <2>1, <2>4 DEF RaceInv
  <2> QED BY <1>2, <2>3, <2>5, <2>6
<1> QED BY <1>1, <1>3, <1>4

LEMMA RecDoneDelivers ==
  ASSUME Types, Types', RecInv, DInv, RecDone
  PROVE  DInv'
<1> USE DEF DInv
<1>1. /\ rec = "done" /\ rec' = "off" /\ pendOn' = FALSE
      /\ UNCHANGED <<auto, status, conn, bufs, pongs, token, sound, asked, up, wire, answers, received, appended>>
  BY DEF RecDone, net, hist
<1>2. Stream' = Stream /\ Target' = Target
  BY <1>1 DEF Stream, Target
<1>3. PlaceInv' /\ KeptInv' /\ FlushMeansDelivered' /\ AnswerInv' /\ TargetInv' /\ RaceInv'
  BY <1>1, <1>2 DEF PlaceInv, KeptInv, FlushMeansDelivered, AnswerInv, TargetInv, RaceInv, Waiting, Owed
<1>4. OwedInv'
  BY <1>1, <1>2 DEF OwedInv, Waiting, Owed
<1> QED BY <1>3, <1>4

LEMMA DeliveryStep ==
  ASSUME Types, Types', RecInv, ObjInv, CalledInv, DInv, Step, left = 0
  PROVE  DInv'
<1>1. ~OldEnds /\ ~OldPong
  BY DEF OldEnds, OldPong
<1>2. FlushMeansDelivered
  BY DEF DInv
<1> QED
  BY <1>1, <1>2, SendDelivers, PendingDelivers, FlushDelivers, ReturnsDelivers, CloseDelivers, ReaderDelivers, ConnectDelivers,
     DialDelivers, RecWriteDelivers, RecResetDelivers, RecDoneDelivers, TakeDelivers, LateDelivers, BreakDelivers, PongDelivers
     DEF Step, Send, FlushStep, Ends, Reconnect, Take

\* A pong that may be for another connection's ping vouches for nothing.
LEMMA MixedStep ==
  ASSUME Types, CalledInv, FlushMeansDelivered, mixed, Step, ~Connect
  PROVE  FlushMeansDelivered'
<1>0. DOMAIN token = Callers /\ DOMAIN sound = Callers /\ DOMAIN asked = Callers
  BY DEF Types
<1>1. ASSUME received \subseteq received', NEW f \in Callers, \A g \in Callers \ {f} : UNCHANGED <<token[g], sound[g], asked[g]>>,
             ~(token'[f] /\ sound'[f])
      PROVE  FlushMeansDelivered'
  BY <1>1 DEF FlushMeansDelivered
<1>2. ASSUME received \subseteq received', UNCHANGED <<token, sound, asked>> PROVE FlushMeansDelivered'
  BY <1>2 DEF FlushMeansDelivered
<1>3. ASSUME NEW f \in Callers, FlushCall(f) PROVE FlushMeansDelivered'
  <2>1. UNCHANGED <<token, sound, received>> /\ \A g \in Callers \ {f} : asked'[g] = asked[g]
    BY <1>0, <1>3 DEF FlushCall
  <2>2. ~token[f]
    BY <1>3 DEF CalledInv, Called, FlushCall
  <2> QED BY <1>1, <2>1, <2>2
<1>4. ASSUME NEW f \in Callers, FlushReturns(f) \/ RemoveFlushEntry(f) PROVE FlushMeansDelivered'
  <2>1. received' = received
    BY <1>4 DEF FlushReturns, RemoveFlushEntry
  <2>2. CASE UNCHANGED <<token, sound, asked>>
    BY <1>2, <2>1, <2>2
  <2>3. CASE Done(f)
    <3>1. ~token'[f] /\ \A g \in Callers \ {f} : UNCHANGED <<token[g], sound[g], asked[g]>>
      BY <1>0, <2>3 DEF Done
    <3> QED BY <1>1, <2>1, <3>1
  <2> QED BY <1>4, <2>2, <2>3 DEF FlushReturns, RemoveFlushEntry
<1>5. ASSUME HandlePong, UNCHANGED <<received, asked>> PROVE FlushMeansDelivered'
  <2>1. CASE UNCHANGED <<token, sound>>
    BY <1>2, <1>5, <2>1
  <2>2. CASE ~UNCHANGED <<token, sound>>
    <3> DEFINE f == Head(pongs)
    <3>1. /\ pongs # <<>> /\ f # Nil /\ token' = [token EXCEPT ![f] = TRUE]
          /\ sound' = [sound EXCEPT ![f] = ~mixed /\ (auto => asked[f].on = conn)]
      BY <1>5, <2>2 DEF HandlePong
    <3>2. f \in Callers
      <4>1. pongs \in Seq(Callers \cup {Nil})
        BY DEF Types
      <4>2. f \in Callers \cup {Nil}
        BY <3>1, <4>1, HeadTailProperties
      <4> QED BY <3>1, <4>2
    <3>3. ~sound'[f] /\ \A g \in Callers \ {f} : UNCHANGED <<token[g], sound[g], asked[g]>>
      BY <1>0, <1>5, <3>1, <3>2
    <3> QED BY <1>1, <1>5, <3>2, <3>3
  <2> QED BY <2>1, <2>2
<1>6. ASSUME Pong \/ OldPong PROVE FlushMeansDelivered'
  <2>1. UNCHANGED <<received, asked>> /\ (HandlePong \/ UNCHANGED <<token, sound>>)
    BY <1>6 DEF Pong, OldPong
  <2> QED BY <1>2, <1>5, <2>1
<1>7. ASSUME Send \/ Flusher \/ Close \/ Ends \/ Reconnect \/ Take \/ Break PROVE FlushMeansDelivered'
  <2>1. UNCHANGED <<token, sound, asked>>
    BY <1>7 DEF Send, AppendBufs, PendingLoad, PendingStore, PendingPanic, Flusher, Close, Ends, ReaderEnds, OldEnds, Ended,
       Reconnect, RecDial, NewConn, RecWrite, RecReset, RecDone, Take, ServerTake, LateTake, Break, pings, hist
  <2>2. received \subseteq received'
    BY <1>7 DEF Send, AppendBufs, PendingLoad, PendingStore, PendingPanic, Flusher, Close, Ends, ReaderEnds, OldEnds, Ended,
       Reconnect, RecDial, NewConn, RecWrite, RecReset, RecDone, Take, ServerTake, LateTake, Break, pings, hist
  <2> QED BY <1>2, <2>1, <2>2
<1> QED BY <1>3, <1>4, <1>6, <1>7 DEF Step, FlushStep

\* What a flush of messages adds has no ping.
LEMMA MsgsNoPing ==
  ASSUME Types, Types', NEW added \in Seq(Msgs), NEW ok \in BOOLEAN, Flush(added, ok), ~pendOn
  PROVE  (up' => up) /\ AllPings(wire') = AllPings(wire)
<1>1. bufs \in Seq(Msgs) /\ added \in Seq(Items) /\ Len(bufs) \in Nat /\ Len(added) \in Nat
  BY Bounds, SeqMonotonic, LenProperties DEF Types
<1>2. PICK n \in 0 .. Len(bufs) + Len(added) : Grown(n, bufs \o added) /\ (up' => up)
  BY <1>1, FlushEffect
<1>3. \A i \in 1 .. Len(bufs) + Len(added) : (bufs \o added)[i] # PING
  <2>1. bufs \o added \in Seq(Msgs) /\ Len(bufs \o added) = Len(bufs) + Len(added)
    BY <1>1, ConcatProperties
  <2>2. \A i \in 1 .. Len(bufs) + Len(added) : (bufs \o added)[i] \in Msgs
    BY <2>1, Lens
  <2> QED BY <2>2, Bounds
<1>4. Len(wire) \in Nat /\ n \in Nat /\ Len(wire') = Len(wire) + n
  BY <1>1, <1>2, Scalars DEF Grown
<1>5. \A i \in Len(wire) + 1 .. Len(wire') : wire'[i] # PING
  <2> TAKE i \in Len(wire) + 1 .. Len(wire')
  <2>1. i - Len(wire) \in 1 .. n /\ Len(wire) + (i - Len(wire)) = i
    BY ONLY <1>4, i \in Len(wire) + 1 .. Len(wire')
  <2>2. i - Len(wire) \in 1 .. Len(bufs) + Len(added)
    BY ONLY <1>1, <2>1, n \in 0 .. Len(bufs) + Len(added)
  <2>3. wire'[i] = (bufs \o added)[i - Len(wire)]
    BY ONLY <1>2, <2>1 DEF Grown
  <2> QED BY ONLY <1>3, <2>2, <2>3
<1>6. \A i \in 1 .. Len(wire) : wire'[i] = wire[i]
  BY <1>2 DEF Grown
<1>7. Len(wire') \in Nat /\ Len(wire) <= Len(wire')
  BY ONLY <1>4
<1>8. AllPings(wire') = AllPings(wire)
  BY ONLY <1>4, <1>5, <1>6, <1>7, PrefixMsgs
<1> QED BY <1>2, <1>8

\* A ping is the last that its flush adds.
LEMMA OnePing ==
  ASSUME Types, Types', NEW ok \in BOOLEAN, Flush(<<PING>>, ok), ~pendOn
  PROVE  /\ up' => up /\ AllPings(wire') = AllPings(wire) + 1
         /\ AllPings(wire') <= AllPings(wire) + 1
<1> DEFINE added == <<PING>>
<1>1. added \in Seq(Items) /\ Len(added) = 1 /\ added[1] = PING
  BY OneItem, Bounds
<1>2. bufs \in Seq(Msgs) /\ Len(bufs) \in Nat
  BY LenProperties DEF Types
<1> HIDE DEF added
<1>3. Flush(added, ok)
  BY DEF added
<1>4. PICK n \in 0 .. Len(bufs) + 1 : Grown(n, bufs \o added) /\ (up' => up /\ n = Len(bufs) + 1)
  BY <1>1, <1>3, FlushEffect
<1>5. /\ \A i \in 1 .. Len(bufs) : (bufs \o added)[i] = bufs[i] /\ bufs[i] # PING
      /\ (bufs \o added)[Len(bufs) + 1] = PING
  <2>1. \A i \in 1 .. Len(bufs) : bufs[i] \in Msgs
    BY ONLY <1>2, Lens
  <2>2. \A i \in 1 .. Len(bufs) : bufs[i] # PING
    BY ONLY <2>1, Bounds
  <2>3. /\ \A i \in 1 .. Len(bufs) : (bufs \o added)[i] = bufs[i]
        /\ \A i \in 1 .. Len(added) : (bufs \o added)[Len(bufs) + i] = added[i]
    BY <1>1, <1>3, FlushEffect
  <2>4. 1 \in 1 .. Len(added)
    BY <1>1
  <2> QED BY ONLY <1>1, <2>2, <2>3, <2>4
<1>6. /\ Len(wire) \in Nat /\ Len(wire') \in Nat /\ n \in Nat /\ Len(wire') = Len(wire) + n
      /\ \A i \in 1 .. Len(wire) : wire'[i] = wire[i]
      /\ \A i \in 1 .. n : wire'[Len(wire) + i] = (bufs \o added)[i]
  BY <1>2, <1>4, Scalars DEF Grown
<1>7. \A i \in Len(wire) + 1 .. Len(wire') : i <= Len(wire) + Len(bufs) => wire'[i] # PING
  <2> TAKE i \in Len(wire) + 1 .. Len(wire')
  <2> HAVE i <= Len(wire) + Len(bufs)
  <2>1. i - Len(wire) \in 1 .. Len(bufs) /\ i - Len(wire) \in 1 .. n /\ Len(wire) + (i - Len(wire)) = i
    BY ONLY <1>2, <1>6, i \in Len(wire) + 1 .. Len(wire'), i <= Len(wire) + Len(bufs)
  <2>2. wire'[i] = (bufs \o added)[i - Len(wire)]
    BY ONLY <1>6, <2>1
  <2> QED BY ONLY <1>5, <2>1, <2>2
<1>8. AllPings(wire) \in Nat
  BY <1>6, PingsSet DEF AllPings
<1>9. CASE n = Len(bufs) + 1
  <2>1. Len(wire) < Len(wire') /\ Len(wire') - 1 = Len(wire) + Len(bufs)
    BY ONLY <1>2, <1>6, <1>9
  <2>2. wire'[Len(wire')] = PING
    <3>1. n \in 1 .. n
      BY ONLY <1>2, <1>9
    <3>2. wire'[Len(wire) + n] = (bufs \o added)[n]
      BY ONLY <1>6, <3>1
    <3> QED BY ONLY <1>5, <1>6, <1>9, <3>2
  <2>3. \A i \in Len(wire) + 1 .. Len(wire') - 1 : wire'[i] # PING
    BY ONLY <1>2, <1>6, <1>7, <2>1
  <2>4. AllPings(wire') = AllPings(wire) + 1
    BY ONLY <1>6, <2>1, <2>2, <2>3, PrefixPing
  <2> QED BY ONLY <1>4, <1>8, <2>4
<1>10. CASE n # Len(bufs) + 1
  <2>1. Len(wire) <= Len(wire') /\ Len(wire') <= Len(wire) + Len(bufs)
    BY ONLY <1>2, <1>6, <1>10, n \in 0 .. Len(bufs) + 1
  <2>2. \A i \in Len(wire) + 1 .. Len(wire') : wire'[i] # PING
    BY ONLY <1>2, <1>6, <1>7, <2>1
  <2>3. AllPings(wire') = AllPings(wire)
    BY ONLY <1>6, <2>1, <2>2, PrefixMsgs
  <2> QED BY ONLY <1>4, <1>8, <1>10, <2>3
<1> QED BY <1>9, <1>10

\* There are no more places and no more answers than calls.
LEMMA CountStep ==
  ASSUME Types, Types', RecInv, ObjInv, RedoInv, auto => PlaceInv, CountInv, PingsInv, Step
  PROVE  CountInv'
<1>1. /\ Cardinality(Called) \in Nat /\ Cardinality(Called') \in Nat /\ Cardinality(Called) <= Cardinality(Called')
      /\ IsFiniteSet(Called) /\ IsFiniteSet(Called')
  BY CalledGrows
<1>2. SUFFICES /\ Len(pongs') <= Len(pongs) \/ Len(pongs') <= Cardinality(Called')
               /\ answers' <= answers \/ answers' <= Len(pongs) \/ answers' <= Cardinality(Called)
  <2>1. Len(pongs) \in Nat /\ answers \in Nat /\ Len(pongs') \in Nat /\ answers' \in Nat
    BY LenProperties DEF Types
  <2> QED BY <1>1, <2>1 DEF CountInv
<1> USE Scalars
<1>3. ASSUME NEW f \in Callers, FlushCall(f)
      PROVE  answers' = answers /\ (Len(pongs') <= Len(pongs) \/ Len(pongs') <= Cardinality(Called'))
  <2>1. CASE status = "CLOSED"
    BY <1>3, <2>1 DEF FlushCall
  <2>2. CASE status # "CLOSED"
    <3>1. f \notin Called /\ Called' = Called \cup {f} /\ pongs' = Append(pongs, f) /\ answers' = answers
      <4>1. /\ st[f] = "call" /\ st' = [st EXCEPT ![f] = "wait"]
            /\ pongs' = Append(pongs, f) /\ answers' = answers
        BY <1>3, <2>2 DEF FlushCall, SendPing
      <4>2. DOMAIN st = Callers
        BY DEF Types
      <4>3. f \notin Called /\ Called' = Called \cup {f}
        BY ONLY <4>1, <4>2, f \in Callers DEF Called
      <4> QED BY ONLY <4>1, <4>3
    <3>2. Cardinality(Called') = Cardinality(Called) + 1
      BY <1>1, <3>1, FS_AddElement
    <3>3. pongs \in Seq(Callers \cup {Nil}) /\ f \in Callers \cup {Nil}
      BY DEF Types
    <3>4. Len(pongs') = Len(pongs) + 1
      BY <3>1, <3>3, AppendProperties
    <3> QED BY <1>1, <3>1, <3>2, <3>4 DEF CountInv
  <2> QED BY <2>1, <2>2
<1>4. ASSUME NEW f \in Callers, FlushReturns(f) PROVE UNCHANGED <<pongs, answers>>
  BY <1>4 DEF FlushReturns, net
<1>5. ASSUME NEW f \in Callers, RemoveFlushEntry(f) PROVE answers' = answers /\ Len(pongs') = Len(pongs)
  BY <1>5, Removed DEF RemoveFlushEntry, net
<1>6. ASSUME Pong \/ OldPong PROVE answers' <= answers /\ Len(pongs') <= Len(pongs)
  <2>1. pongs \in Seq(Callers \cup {Nil})
    BY DEF Types
  <2>2. answers' <= answers
    BY <1>6 DEF Pong, OldPong
  <2>3. pongs' = pongs \/ (pongs # <<>> /\ pongs' = Tail(pongs))
    BY <1>6 DEF Pong, OldPong, HandlePong
  <2> QED BY <2>1, <2>2, <2>3, HeadTailProperties
<1>7. ASSUME ServerTake
      PROVE  UNCHANGED pongs /\ (answers' <= answers \/ answers' <= Len(pongs) \/ answers' <= Cardinality(Called))
  <2>1. CASE answers' = answers
    BY <1>7, <2>1 DEF ServerTake, pings
  <2>2. CASE answers' # answers
    <3>1. answers' = answers + 1 /\ up /\ status # "CLOSED" /\ wire # <<>> /\ wire[1] = PING
      BY <1>7, <2>2, TakePing DEF ServerTake
    <3>2. answers + AllPings(wire) <= Len(pongs) \/ answers + AllPings(wire) <= Cardinality(Called)
      <4>1. CASE auto
        BY <3>1, <4>1 DEF PlaceInv, RecInv
      <4>2. CASE ~auto
        BY <4>2 DEF PingsInv
      <4> QED BY <4>1, <4>2
    <3>3. AllPings(wire) >= 1
      <4>1. Len(wire) - 1 \in Nat /\ Pings(wire, Len(wire)) = Pings(Tail(wire), Len(wire) - 1) + 1
        BY <3>1, TakePing
      <4>2. Pings(Tail(wire), Len(wire) - 1) \in Nat
        BY <4>1, PingsSet
      <4> QED BY <4>1, <4>2 DEF AllPings
    <3>4. AllPings(wire) \in Nat
      BY PingsSet DEF AllPings
    <3>5. answers' <= Len(pongs) \/ answers' <= Cardinality(Called)
      BY ONLY <1>1, <3>1, <3>2, <3>3, <3>4, answers \in Nat, Len(pongs) \in Nat
    <3> QED BY <1>7, <3>5 DEF ServerTake, pings
  <2> QED BY <2>1, <2>2
<1>8. ASSUME Ends PROVE UNCHANGED pongs /\ (answers' = 0 \/ answers' = answers)
  BY <1>8 DEF Ends, ReaderEnds, OldEnds, Ended, pings
<1>9. ASSUME Connect PROVE pongs' = <<>> /\ answers' = 0
  BY <1>9 DEF Connect, NewConn
<1>10. ASSUME RecDial PROVE UNCHANGED pongs /\ (answers' = answers \/ answers' = 0)
  BY <1>10 DEF RecDial, NewConn, net, pings
<1>11. ASSUME Send \/ Flusher \/ Close \/ RecWrite \/ RecReset \/ RecDone \/ LateTake \/ Break
       PROVE  UNCHANGED <<pongs, answers>>
  BY <1>11 DEF Send, AppendBufs, PendingLoad, PendingStore, PendingPanic, Flusher, Close, RecWrite, RecReset, RecDone, LateTake,
     Break, pings, net
<1>12. Len(<<>>) = 0
  OBVIOUS
<1> QED
  BY <1>3, <1>4, <1>5, <1>6, <1>7, <1>8, <1>9, <1>10, <1>11, <1>12 DEF Step, FlushStep, Reconnect, Take

\* On a client that does not reconnect by itself a ping is written once.
LEMMA PingsStep ==
  ASSUME Types, Types', RecInv, ObjInv, RedoInv, PingsInv, Step
  PROVE  PingsInv'
<1> SUFFICES ASSUME ~auto' PROVE answers' + AllPings(wire') <= Cardinality(Called')
  BY DEF PingsInv
<1>0. auto' = auto
  BY DEF Step, Send, AppendBufs, PendingLoad, PendingStore, PendingPanic, Flusher, FlushStep, FlushCall, FlushReturns,
     RemoveFlushEntry, Close, Ends, ReaderEnds, OldEnds, Ended, Connect, NewConn, Reconnect, RecDial, RecWrite, RecReset,
     RecDone, Take, ServerTake, LateTake, Break, Pong, OldPong
<1>1. /\ Cardinality(Called) \in Nat /\ Cardinality(Called') \in Nat /\ Cardinality(Called) <= Cardinality(Called')
      /\ IsFiniteSet(Called)
  BY CalledGrows
<1>2. /\ rec = "off" /\ ~pendOn /\ answers \in Nat /\ answers' \in Nat
      /\ Len(wire) \in Nat /\ Len(wire') \in Nat
      /\ answers + AllPings(wire) <= Cardinality(Called)
  BY <1>0, Scalars, ScalarsNext DEF RecInv, PingsInv
<1>3. AllPings(wire) \in Nat /\ AllPings(wire') \in Nat
  BY <1>2, PingsSet DEF AllPings
<1>4. ASSUME answers' <= answers, AllPings(wire') <= AllPings(wire) PROVE answers' + AllPings(wire') <= Cardinality(Called')
  BY ONLY <1>1, <1>2, <1>3, <1>4
<1>5. ASSUME NEW ok \in BOOLEAN, NEW added \in Seq(Msgs), Flush(added, ok) PROVE AllPings(wire') = AllPings(wire)
  BY <1>2, <1>5, MsgsNoPing
<1>6. ASSUME NEW f \in Callers, FlushCall(f), status # "CLOSED" PROVE answers' + AllPings(wire') <= Cardinality(Called')
  <2>1. /\ st[f] = "call" /\ st' = [st EXCEPT ![f] = "wait"] /\ answers' = answers
        /\ \E ok \in BOOLEAN : Flush(<<PING>>, ok)
    BY <1>6 DEF FlushCall, SendPing
  <2>2. f \notin Called /\ Called' = Called \cup {f}
    <3>1. DOMAIN st = Callers
      BY DEF Types
    <3> QED BY ONLY <2>1, <3>1, f \in Callers DEF Called
  <2>3. Cardinality(Called') = Cardinality(Called) + 1
    BY <1>1, <2>2, FS_AddElement
  <2>4. AllPings(wire') <= AllPings(wire) + 1
    BY <1>2, <2>1, OnePing
  <2> QED BY ONLY <1>1, <1>2, <1>3, <2>1, <2>3, <2>4
<1>7. ASSUME UNCHANGED wire, answers' = answers \/ answers' = 0 \/ answers' <= answers
      PROVE  answers' + AllPings(wire') <= Cardinality(Called')
  <2>1. AllPings(wire') = AllPings(wire)
    BY <1>7
  <2> QED BY <1>2, <1>3, <1>4, <1>7, <2>1
<1>8. ASSUME AppendBufs \/ Flusher \/ Close PROVE answers' + AllPings(wire') <= Cardinality(Called')
  <2>1. answers' = answers /\ (next \in Msgs => <<next>> \in Seq(Msgs)) /\ <<>> \in Seq(Msgs)
    BY <1>8, EmptySeq DEF AppendBufs, Flusher, Close
  <2>2. \/ wire' = wire
        \/ next \in Msgs /\ \E ok \in BOOLEAN : Flush(<<next>>, ok)
        \/ \E ok \in BOOLEAN : Flush(<<>>, ok)
    BY <1>8 DEF AppendBufs, Flusher, Close, CloseEffect
  <2>3. AllPings(wire') = AllPings(wire)
    BY <1>5, <2>1, <2>2
  <2> QED BY <1>2, <1>3, <1>4, <2>1, <2>3
<1>9. ASSUME Ends PROVE answers' + AllPings(wire') <= Cardinality(Called')
  <2>1. answers' = answers \/ answers' = 0
    BY <1>9 DEF Ends, ReaderEnds, OldEnds
  <2>2. wire' = wire \/ \E ok \in BOOLEAN : Flush(<<>>, ok)
    BY <1>9 DEF Ends, ReaderEnds, OldEnds, Ended, OpErr, CloseEffect
  <2>3. AllPings(wire') = AllPings(wire)
    BY <1>5, <2>2, EmptySeq
  <2> QED BY <1>2, <1>3, <1>4, <2>1, <2>3
<1>10. ASSUME Connect \/ Break PROVE answers' + AllPings(wire') <= Cardinality(Called')
  <2>1. wire' = <<>> /\ (answers' = 0 \/ answers' = answers)
    BY <1>10 DEF Connect, NewConn, Break
  <2>2. AllPings(<<>>) = 0
    BY PingsZero DEF AllPings
  <2> QED BY <1>2, <1>3, <1>4, <2>1, <2>2
<1>11. ASSUME ServerTake PROVE answers' + AllPings(wire') <= Cardinality(Called')
  <2>1. wire # <<>> /\ wire' = Tail(wire) /\ (answers' = answers \/ (answers' = answers + 1 /\ Head(wire) = PING))
    BY <1>11 DEF ServerTake
  <2>2. Head(wire) = wire[1] /\ Len(wire) \in Nat \ {0} /\ Len(wire') = Len(wire) - 1
        /\ \A i \in 0 .. Len(wire) - 1 :
              Pings(wire, i + 1) = IF wire[1] = PING THEN Pings(wire', i) + 1 ELSE Pings(wire', i)
    BY <2>1, TakePing
  <2>3. AllPings(wire) = IF wire[1] = PING THEN AllPings(wire') + 1 ELSE AllPings(wire')
    <3>1. Len(wire) - 1 \in 0 .. Len(wire) - 1 /\ (Len(wire) - 1) + 1 = Len(wire)
      BY ONLY <2>2
    <3> QED BY ONLY <2>2, <3>1 DEF AllPings
  <2> QED BY ONLY <1>1, <1>2, <1>3, <2>1, <2>2, <2>3
<1>12. ASSUME NEW f \in Callers, FlushReturns(f) \/ RemoveFlushEntry(f) \/ (FlushCall(f) /\ status = "CLOSED")
       PROVE  answers' + AllPings(wire') <= Cardinality(Called')
  <2>1. UNCHANGED <<wire, answers>>
    BY <1>12 DEF FlushReturns, RemoveFlushEntry, FlushCall, net
  <2> QED BY <1>7, <2>1
<1>13. ASSUME PendingLoad \/ PendingStore \/ PendingPanic \/ LateTake \/ Pong \/ OldPong
       PROVE  answers' + AllPings(wire') <= Cardinality(Called')
  <2>1. wire' = wire /\ (answers' = answers \/ answers' <= answers)
    BY <1>2, <1>13 DEF PendingLoad, PendingStore, PendingPanic, LateTake, Pong, OldPong, net
  <2> QED BY <1>7, <2>1
<1>14. ~Reconnect
  BY <1>2 DEF Reconnect, RecDial, RecWrite, RecReset, RecDone
<1> QED BY <1>6, <1>8, <1>9, <1>10, <1>11, <1>12, <1>13, <1>14 DEF Step, Send, FlushStep, Take

-----------------------------------------------------------------------------
\* The order of the messages.
LEMMA ItemsAreNats ==
  ASSUME Types
  PROVE  /\ \A i \in 1 .. Len(wire) : wire[i] \in Nat
         /\ \A i \in 1 .. Len(pend) : pend[i] \in Nat
         /\ \A i \in 1 .. Len(bufs) : bufs[i] \in Nat /\ bufs[i] # PING
         /\ \A m \in Sent : m \in Nat
         /\ next \in Nat /\ next >= 1
<1>1. \A i \in 1 .. Len(wire) : wire[i] \in Items
  BY ElementOfSeq DEF Types
<1>2. \A i \in 1 .. Len(pend) : pend[i] \in Items
  BY ElementOfSeq DEF Types
<1>3. \A i \in 1 .. Len(bufs) : bufs[i] \in Msgs
  BY ElementOfSeq DEF Types
<1>4. next \in Nat /\ next >= 1 /\ Sent \subseteq Msgs
  BY Bounds DEF Types, Sent
<1>5. \A i \in 1 .. Len(bufs) : bufs[i] \in Nat /\ bufs[i] # PING
  BY <1>3, Bounds
<1>6. \A m \in Sent : m \in Nat
  BY <1>4, Bounds
<1> QED BY <1>1, <1>2, <1>4, <1>5, <1>6, Bounds

\* What follows in order, and after all that was sent before, can be written.
Follows(items) ==
  /\ \A i, j \in 1 .. Len(items) : i < j /\ items[j] # PING => items[i] < items[j]
  /\ \A j \in 1 .. Len(items) : items[j] # PING =>
       (\A m \in Sent : m < items[j]) /\ \A i \in 1 .. Len(wire) : wire[i] < items[j]
WireInOrder ==
  Sorted(wire) /\ \A j \in DOMAIN wire : wire[j] # PING => \A m \in Sent : m < wire[j]

LEMMA WriteInOrder ==
  ASSUME Types, Types', WireInOrder, NEW items, Len(items) \in Nat, Follows(items), NEW n, Grown(n, items),
         Sent' = Sent
  PROVE  WireInOrder'
<1> USE Scalars, ScalarsNext DEF WireInOrder
<1>1. /\ Len(wire') = Len(wire) + n /\ n \in Nat /\ n <= Len(items)
      /\ \A i \in 1 .. Len(wire) : wire'[i] = wire[i]
      /\ \A i \in 1 .. n : wire'[Len(wire) + i] = items[i]
  BY DEF Grown
<1>2. ASSUME NEW i \in 1 .. Len(wire')
      PROVE  \/ i \in 1 .. Len(wire) /\ wire'[i] = wire[i]
             \/ i > Len(wire) /\ i - Len(wire) \in 1 .. Len(items) /\ wire'[i] = items[i - Len(wire)]
  <2>1. CASE i <= Len(wire)
    BY <1>1, <2>1
  <2>2. CASE i > Len(wire)
    <3>1. i - Len(wire) \in 1 .. n /\ i - Len(wire) \in 1 .. Len(items) /\ Len(wire) + (i - Len(wire)) = i
      BY <1>1, <2>2
    <3> QED BY <1>1, <2>2, <3>1
  <2> QED BY <2>1, <2>2
<1>3. ASSUME NEW i \in 1 .. Len(wire'), NEW j \in 1 .. Len(wire'), i < j, wire'[j] # PING PROVE wire'[i] < wire'[j]
  <2>1. CASE j \in 1 .. Len(wire) /\ wire'[j] = wire[j]
    <3>1. i \in 1 .. Len(wire) /\ wire'[i] = wire[i]
      BY <1>1, <1>3, <2>1
    <3> QED BY <1>3, <2>1, <3>1 DEF Sorted
  <2>2. CASE j > Len(wire) /\ j - Len(wire) \in 1 .. Len(items) /\ wire'[j] = items[j - Len(wire)]
    <3>1. CASE i \in 1 .. Len(wire) /\ wire'[i] = wire[i]
      BY <1>3, <2>2, <3>1 DEF Follows
    <3>2. CASE i > Len(wire) /\ i - Len(wire) \in 1 .. Len(items) /\ wire'[i] = items[i - Len(wire)]
      <4>1. i - Len(wire) < j - Len(wire)
        BY <1>3
      <4> QED BY <1>3, <2>2, <3>2, <4>1 DEF Follows
    <3> QED BY <1>2, <3>1, <3>2
  <2> QED BY <1>2, <2>1, <2>2
<1>4. ASSUME NEW j \in 1 .. Len(wire'), wire'[j] # PING, NEW m \in Sent PROVE m < wire'[j]
  BY <1>2, <1>4 DEF Follows
<1> QED BY <1>3, <1>4 DEF Sorted

LEMMA WriteBelow ==
  ASSUME Types, Types', NEW items, Len(items) \in Nat, NEW n, Grown(n, items), NEW k,
         Below(wire, k), \A i \in 1 .. Len(items) : items[i] < k
  PROVE  Below(wire', k)
<1> USE Scalars, ScalarsNext
<1>1. /\ Len(wire') = Len(wire) + n /\ n \in Nat /\ n <= Len(items)
      /\ \A i \in 1 .. Len(wire) : wire'[i] = wire[i]
      /\ \A i \in 1 .. n : wire'[Len(wire) + i] = items[i]
  BY DEF Grown
<1>2. ASSUME NEW i \in 1 .. Len(wire') PROVE wire'[i] < k
  <2>1. CASE i <= Len(wire)
    <3>1. i \in DOMAIN wire /\ i \in 1 .. Len(wire)
      BY <2>1
    <3> QED BY <1>1, <3>1 DEF Below
  <2>2. CASE i > Len(wire)
    <3>1. i - Len(wire) \in 1 .. n /\ i - Len(wire) \in 1 .. Len(items) /\ Len(wire) + (i - Len(wire)) = i
      BY <1>1, <2>2
    <3>2. wire'[i] = items[i - Len(wire)]
      BY <1>1, <3>1
    <3> QED BY <3>1, <3>2
  <2> QED BY <2>1, <2>2
<1> QED BY <1>2 DEF Below

\* A flush, with at most one item added: the next message or a ping.
LEMMA FlushInOrder ==
  ASSUME Types, Types', RecInv, OrderInv, NEW added \in Seq(Items), NEW ok \in BOOLEAN, Flush(added, ok),
         Len(added) <= 1, \A i \in 1 .. Len(added) : added[i] = PING \/ (added[i] = next /\ ~pendOn),
         next' \in {next, next + 1}, \A i \in 1 .. Len(added) : added[i] < next',
         Sent' = Sent, UNCHANGED <<raced, rec, pendOn>>, sending = NoSend, sending' = NoSend
  PROVE  OrderInv'
<1> USE Scalars, ScalarsNext
<1>0. added \in Seq(Items) /\ Len(added) \in Nat /\ \A i \in 1 .. Len(added) : added[i] \in Nat
  BY LenProperties, ElementOfSeq, Bounds
<1>1. /\ \A i \in 1 .. Len(wire) : wire[i] \in Nat
      /\ \A i \in 1 .. Len(pend) : pend[i] \in Nat
      /\ \A i \in 1 .. Len(bufs) : bufs[i] \in Nat /\ bufs[i] # PING
      /\ \A m \in Sent : m \in Nat
      /\ next \in Nat /\ next >= 1 /\ PING = 0
  BY ItemsAreNats DEF PING
<1>2. /\ \A i \in 1 .. Len(wire) : wire[i] < next /\ wire[i] < next'
      /\ \A i \in 1 .. Len(pend) : pend[i] < next /\ pend[i] < next'
      /\ \A i \in 1 .. Len(bufs) : bufs[i] < next /\ bufs[i] < next'
      /\ \A m \in Sent : m < next /\ m < next'
  <2>1. /\ \A i \in 1 .. Len(wire) : wire[i] < next
        /\ \A i \in 1 .. Len(pend) : pend[i] < next
        /\ \A i \in 1 .. Len(bufs) : bufs[i] < next
        /\ \A m \in Sent : m < next
    BY DEF OrderInv, Below
  <2> QED BY ONLY <1>1, <2>1, next' \in {next, next + 1}
<1>3. CASE pendOn
  <2>1. /\ UNCHANGED <<bufs, up, nFault, wire>>
        /\ Len(pend') = Len(pend) + Len(added)
        /\ \A i \in 1 .. Len(pend) : pend'[i] = pend[i]
        /\ \A i \in 1 .. Len(added) : pend'[Len(pend) + i] = added[i]
    BY ONLY <1>3, <1>0, PendEffect, Types, ok \in BOOLEAN, Flush(added, ok)
  <2>2. \A i \in 1 .. Len(pend') : (i \in 1 .. Len(pend) /\ pend'[i] = pend[i]) \/ pend'[i] = PING
    <3> TAKE i \in 1 .. Len(pend')
    <3>1. i \in 1 .. Len(pend) \/ (i = Len(pend) + 1 /\ 1 \in 1 .. Len(added))
      BY ONLY <1>0, <2>1, Len(added) <= 1, Len(pend) \in Nat, Len(pend') \in Nat, i \in 1 .. Len(pend')
    <3>2. 1 \in 1 .. Len(added) => added[1] = PING
      BY <1>3
    <3> QED BY <2>1, <3>1, <3>2
  <2>3. Below(wire, next)' /\ Below(pend, next)' /\ Below(bufs, next)' /\ \A m \in Sent : m < next'
    <3>1. PING < next'
      BY <1>1
    <3>2. \A i \in 1 .. Len(pend') : pend'[i] < next'
      BY <1>2, <2>2, <3>1
    <3> QED BY <1>2, <2>1, <3>2 DEF Below
  <2>4. ASSUME ~raced, rec \in {"wait", "write"}
        PROVE  Sorted(pend') /\ \A j \in 1 .. Len(pend') : pend'[j] # PING =>
                 (\A m \in Sent : m < pend'[j]) /\ \A i \in 1 .. Len(wire) : wire[i] < pend'[j]
    <3>0. /\ \A i, j \in 1 .. Len(pend) : i < j /\ pend[j] # PING => pend[i] < pend[j]
          /\ \A j \in 1 .. Len(pend) : pend[j] # PING =>
               (\A m \in Sent : m < pend[j]) /\ \A i \in 1 .. Len(wire) : wire[i] < pend[j]
      BY <2>4 DEF OrderInv, Sorted
    <3>1. \A i, j \in 1 .. Len(pend') : i < j /\ pend'[j] # PING => pend'[i] < pend'[j]
      <4> TAKE i, j \in 1 .. Len(pend')
      <4> HAVE i < j /\ pend'[j] # PING
      <4>1. j \in 1 .. Len(pend) /\ pend'[j] = pend[j]
        BY <2>2
      <4>2. i \in 1 .. Len(pend) /\ pend'[i] = pend[i]
        BY <2>1, <4>1
      <4> QED BY <3>0, <4>1, <4>2
    <3> QED BY <2>2, <3>0, <3>1 DEF Sorted
  <2> QED BY <1>3, <2>1, <2>3, <2>4 DEF OrderInv
<1>4. CASE ~pendOn
  <2>1. /\ bufs' = <<>> /\ pend' = pend /\ Len(bufs \o added) = Len(bufs) + Len(added)
        /\ \A i \in 1 .. Len(bufs) : (bufs \o added)[i] = bufs[i]
        /\ \A i \in 1 .. Len(added) : (bufs \o added)[Len(bufs) + i] = added[i]
        /\ \E n \in 0 .. Len(bufs) + Len(added) : Grown(n, bufs \o added)
    BY ONLY <1>4, <1>0, FlushEffect, Types, ok \in BOOLEAN, Flush(added, ok)
  <2>2. PICK n : Grown(n, bufs \o added)
    BY <2>1
  <2> DEFINE items == bufs \o added
  <2>3. Len(items) = Len(bufs) + Len(added) /\ Len(items) \in Nat
    BY <1>0, <2>1
  <2>4. \A i \in 1 .. Len(items) :
          (i \in 1 .. Len(bufs) /\ items[i] = bufs[i]) \/
          (i = Len(items) /\ i = Len(bufs) + 1 /\ items[i] = added[1] /\ 1 \in 1 .. Len(added))
    <3> TAKE i \in 1 .. Len(items)
    <3>1. i \in 1 .. Len(bufs) \/ (i = Len(items) /\ i = Len(bufs) + 1 /\ 1 \in 1 .. Len(added))
      BY ONLY <1>0, <2>3, Len(added) <= 1, Len(bufs) \in Nat, i \in 1 .. Len(items)
    <3> QED BY <2>1, <3>1
  <2>5. \A i \in 1 .. Len(items) : items[i] < next'
    BY <1>2, <2>4
  <2>6. Below(wire, next)'
    <3>1. Below(wire, next')
      BY <1>2 DEF Below
    <3> QED BY <2>2, <2>3, <2>5, <3>1, WriteBelow DEF Below
  <2>7. Below(pend, next)' /\ Below(bufs, next)' /\ \A m \in Sent : m < next'
    BY <1>2, <2>1 DEF Below
  <2>8. ASSUME ~raced PROVE WireInOrder'
    <3>0. /\ WireInOrder
          /\ \A i, j \in 1 .. Len(bufs) : i < j => bufs[i] < bufs[j]
          /\ \A j \in 1 .. Len(bufs) : (\A m \in Sent : m < bufs[j]) /\ \A i \in 1 .. Len(wire) : wire[i] < bufs[j]
      BY <1>1, <1>4, <2>8 DEF OrderInv, Sorted, WireInOrder
    <3>1. ASSUME NEW i \in 1 .. Len(items), NEW j \in 1 .. Len(items), i < j, items[j] # PING PROVE items[i] < items[j]
      <4>1. CASE j \in 1 .. Len(bufs) /\ items[j] = bufs[j]
        <5>1. i \in 1 .. Len(bufs) /\ items[i] = bufs[i]
          BY <2>1, <3>1, <4>1
        <5> QED BY <3>0, <3>1, <4>1, <5>1
      <4>2. CASE j = Len(bufs) + 1 /\ items[j] = added[1] /\ 1 \in 1 .. Len(added)
        <5>1. i \in 1 .. Len(bufs) /\ items[i] = bufs[i]
          BY <2>1, <3>1, <4>2
        <5>2. items[j] = next
          BY <3>1, <4>2
        <5> QED BY <1>2, <5>1, <5>2
      <4> QED BY <2>4, <4>1, <4>2
    <3>2. ASSUME NEW j \in 1 .. Len(items), items[j] # PING
          PROVE  (\A m \in Sent : m < items[j]) /\ \A i \in 1 .. Len(wire) : wire[i] < items[j]
      <4>1. CASE j \in 1 .. Len(bufs) /\ items[j] = bufs[j]
        BY <3>0, <4>1
      <4>2. CASE items[j] = added[1] /\ 1 \in 1 .. Len(added)
        <5>1. items[j] = next
          BY <3>2, <4>2
        <5> QED BY <1>2, <5>1
      <4> QED BY <2>4, <4>1, <4>2
    <3>3. Follows(items)
      BY <3>1, <3>2 DEF Follows
    <3> QED BY <2>2, <2>3, <3>0, <3>3, WriteInOrder
  <2>9. rec \notin {"wait", "write"} /\ DOMAIN bufs' = {}
    BY <1>4, <2>1 DEF RecInv
  <2>10. ~raced => Sorted(bufs')
    BY <2>9 DEF Sorted
  <2> QED BY <2>6, <2>7, <2>8, <2>9, <2>10 DEF OrderInv, WireInOrder
<1> QED BY <1>3, <1>4

\* Every step keeps the messages in order.
LEMMA OrderStep ==
  ASSUME Types, Types', RecInv, OrderInv, Step
  PROVE  OrderInv'
<1> USE Scalars, ScalarsNext DEF WmuFree, MuFree
<1>a. /\ \A i \in 1 .. Len(wire) : wire[i] \in Nat
      /\ \A i \in 1 .. Len(pend) : pend[i] \in Nat
      /\ \A i \in 1 .. Len(bufs) : bufs[i] \in Nat /\ bufs[i] # PING
      /\ \A m \in Sent : m \in Nat
      /\ next \in Nat /\ next >= 1 /\ PING = 0
  BY ItemsAreNats DEF PING
<1>b. /\ \A i \in 1 .. Len(wire) : wire[i] < next
      /\ \A i \in 1 .. Len(pend) : pend[i] < next
      /\ \A i \in 1 .. Len(bufs) : bufs[i] < next
      /\ \A m \in Sent : m < next
  BY DEF OrderInv, Below
<1>c. <<>> \in Seq(Items) /\ Len(<<>>) = 0 /\ DOMAIN <<>> = {}
  BY OneItem
<1>d. \A x \in Items : <<x>> \in Seq(Items) /\ Len(<<x>>) = 1 /\ <<x>>[1] = x
  BY OneItem
<1>e. <<>> \in Seq(Items) /\ Len(<<>>) <= 1 /\ \A i \in 1 .. Len(<<>>) : FALSE
  BY <1>c
<1>1. CASE AppendBufs
  <2>1. PICK ok \in BOOLEAN :
          IF Len(bufs) + 1 >= Limit THEN Flush(<<next>>, ok)
          ELSE bufs' = Append(bufs, next) /\ ok /\ UNCHANGED <<pend, up, nFault, wire>>
    BY <1>1 DEF AppendBufs
  <2>2. /\ next' = next + 1 /\ sending = NoSend /\ ~pendOn /\ next \in Msgs /\ next \in Items
        /\ UNCHANGED <<sending, Sent, raced, rec, pendOn>>
    BY <1>1, Bounds DEF AppendBufs, Sent
  <2>3. CASE Len(bufs) + 1 >= Limit
    <3>1. <<next>> \in Seq(Items) /\ Len(<<next>>) <= 1 /\ \A i \in 1 .. Len(<<next>>) : <<next>>[i] = next
      BY <1>d, <2>2
    <3>2. next < next'
      BY <1>a, <2>2
    <3>3. Flush(<<next>>, ok)
      BY <2>1, <2>3
    <3> QED BY <2>2, <3>1, <3>2, <3>3, FlushInOrder
  <2>4. CASE ~(Len(bufs) + 1 >= Limit)
    <3>1. bufs \in Seq(Msgs) /\ bufs' = Append(bufs, next) /\ UNCHANGED <<pend, wire>>
      BY <2>1, <2>4 DEF Types
    <3>2. /\ Len(bufs') = Len(bufs) + 1 /\ bufs'[Len(bufs) + 1] = next /\ \A i \in 1 .. Len(bufs) : bufs'[i] = bufs[i]
          /\ UNCHANGED <<pend, wire>>
      BY ONLY <2>2, <3>1, AppendProperties
    <3>3. \A i \in 1 .. Len(bufs') : (i \in 1 .. Len(bufs) /\ bufs'[i] = bufs[i]) \/ (i = Len(bufs) + 1 /\ bufs'[i] = next)
      BY <3>2
    <3>4. /\ \A i \in 1 .. Len(wire) : wire[i] < next'
          /\ \A i \in 1 .. Len(pend) : pend[i] < next'
          /\ \A i \in 1 .. Len(bufs') : bufs'[i] < next'
          /\ \A m \in Sent : m < next'
      BY ONLY <1>a, <1>b, <2>2, <3>3
    <3>5. ASSUME ~raced
          PROVE  /\ Sorted(bufs')
                 /\ \A j \in 1 .. Len(bufs') :
                      (\A m \in Sent : m < bufs'[j]) /\ \A i \in 1 .. Len(wire) : wire[i] < bufs'[j]
      <4>1. /\ \A i, j \in 1 .. Len(bufs) : i < j => bufs[i] < bufs[j]
            /\ \A j \in 1 .. Len(bufs) : (\A m \in Sent : m < bufs[j]) /\ \A i \in 1 .. Len(wire) : wire[i] < bufs[j]
        BY <1>a, <2>2, <3>5 DEF OrderInv, Sorted
      <4>2. ASSUME NEW i \in 1 .. Len(bufs'), NEW j \in 1 .. Len(bufs'), i < j PROVE bufs'[i] < bufs'[j]
        <5>1. i \in 1 .. Len(bufs) /\ bufs'[i] = bufs[i]
          BY <3>2, <4>2
        <5> QED BY <1>b, <3>3, <4>1, <4>2, <5>1
      <4> QED BY <1>b, <3>3, <4>1, <4>2 DEF Sorted
    <3>6. rec = "off"
      BY <2>2 DEF RecInv
    <3> QED BY <2>2, <3>2, <3>4, <3>5, <3>6 DEF OrderInv, Below
  <2> QED BY <2>3, <2>4
<1>2. CASE PendingLoad
  <2>1. /\ next' = next + 1 /\ sending'.msg = next /\ sending'.snap = pend
        /\ UNCHANGED <<bufs, pend, wire, Sent, raced, rec, pendOn>>
    BY <1>2 DEF PendingLoad, net, hist, Sent
  <2>2. /\ \A i \in 1 .. Len(wire) : wire[i] < next'
        /\ \A i \in 1 .. Len(pend) : pend[i] < next'
        /\ \A i \in 1 .. Len(bufs) : bufs[i] < next'
        /\ \A m \in Sent : m < next'
    BY ONLY <1>a, <1>b, <2>1
  <2>3. sending'.msg = next' - 1 /\ next' > 1
    BY <1>a, <2>1
  <2>4. /\ ~raced => /\ Sorted(wire) /\ Sorted(bufs)
                     /\ \A j \in 1 .. Len(wire) : wire[j] # PING => \A m \in Sent : m < wire[j]
                     /\ ~pendOn => \A j \in 1 .. Len(bufs) :
                          (\A m \in Sent : m < bufs[j]) /\ \A i \in 1 .. Len(wire) : wire[i] < bufs[j]
                     /\ rec \in {"wait", "write"} => Sorted(pend) /\
                          \A j \in 1 .. Len(pend) : pend[j] # PING =>
                            (\A m \in Sent : m < pend[j]) /\ \A i \in 1 .. Len(wire) : wire[i] < pend[j]
    BY DEF OrderInv
  <2>5. Below(pend, next) /\ Below(wire, next) /\ Below(bufs, next) /\ \A m \in Sent : m < next
    BY DEF OrderInv
  <2> QED BY <2>1, <2>2, <2>3, <2>4, <2>5 DEF OrderInv, Below
<1>3. CASE PendingStore
  <2>1. sending' = NoSend /\ sending # NoSend /\ UNCHANGED <<bufs, wire, Sent, rec, pendOn, next>>
    BY <1>3 DEF PendingStore, net, Sent
  <2>2. CASE UNCHANGED <<pend, raced>>
    BY <2>1, <2>2 DEF OrderInv
  <2>3. CASE ~UNCHANGED <<pend, raced>>
    <3> DEFINE snap == sending.snap
    <3>1. pend' = Append(snap, sending.msg) /\ raced' = (raced \/ pend # snap)
      BY <1>3, <2>3 DEF PendingStore
    <3>2. snap \in Seq(Items) /\ sending.msg \in Items
      BY <2>1, Bounds DEF Types
    <3>3. /\ Len(snap) \in Nat /\ Len(pend') = Len(snap) + 1 /\ pend'[Len(snap) + 1] = sending.msg
          /\ \A i \in 1 .. Len(snap) : pend'[i] = snap[i]
      <4> HIDE DEF snap
      <4>1. /\ Len(Append(snap, sending.msg)) = Len(snap) + 1 /\ Append(snap, sending.msg)[Len(snap) + 1] = sending.msg
            /\ \A i \in 1 .. Len(snap) : Append(snap, sending.msg)[i] = snap[i]
        BY ONLY <3>2, AppendProperties
      <4>2. Len(snap) \in Nat
        BY ONLY <3>2, LenProperties
      <4> QED BY ONLY <3>1, <4>1, <4>2
    <3>4. /\ sending.msg = next - 1 /\ \A i \in 1 .. Len(snap) : snap[i] < sending.msg /\ snap[i] \in Nat
          /\ \A m \in Sent : m < sending.msg
          /\ \A i \in 1 .. Len(wire) : wire[i] < sending.msg
      <4>1. DOMAIN snap = 1 .. Len(snap) /\ \A i \in 1 .. Len(snap) : snap[i] \in Nat
        <5>1. \A i \in 1 .. Len(snap) : snap[i] \in Items
          BY ONLY <3>2, Lens
        <5>2. DOMAIN snap = 1 .. Len(snap)
          BY ONLY <3>2, LenProperties
        <5> QED BY ONLY <5>1, <5>2, Bounds
      <4>2. /\ sending.msg = next - 1 /\ \A m \in Sent : m < sending.msg
            /\ Below(snap, sending.msg) /\ Below(wire, sending.msg)
        BY <2>1 DEF OrderInv
      <4> QED BY <4>1, <4>2 DEF Below
    <3>5. \A i \in 1 .. Len(pend') : (i \in 1 .. Len(snap) /\ pend'[i] = snap[i]) \/ (i = Len(snap) + 1 /\ pend'[i] = sending.msg)
      BY <3>3
    <3>6. \A i \in 1 .. Len(pend') : pend'[i] < next'
      BY ONLY <1>a, <2>1, <3>4, <3>5
    <3>7. ASSUME ~raced', rec \in {"wait", "write"}
          PROVE  Sorted(pend') /\ \A j \in 1 .. Len(pend') : pend'[j] # PING =>
                   (\A m \in Sent : m < pend'[j]) /\ \A i \in 1 .. Len(wire) : wire[i] < pend'[j]
      <4>1. ~raced /\ pend = snap
        BY ONLY <3>1, ~raced'
      <4>2. /\ \A i, j \in 1 .. Len(snap) : i < j /\ snap[j] # PING => snap[i] < snap[j]
            /\ \A j \in 1 .. Len(snap) : snap[j] # PING =>
                 (\A m \in Sent : m < snap[j]) /\ \A i \in 1 .. Len(wire) : wire[i] < snap[j]
        BY <3>7, <4>1 DEF OrderInv, Sorted
      <4>3. ASSUME NEW i \in 1 .. Len(pend'), NEW j \in 1 .. Len(pend'), i < j, pend'[j] # PING PROVE pend'[i] < pend'[j]
        <5>1. i \in 1 .. Len(snap) /\ pend'[i] = snap[i]
          BY ONLY <3>3, <4>3
        <5>2. CASE j \in 1 .. Len(snap) /\ pend'[j] = snap[j]
          BY ONLY <4>2, <4>3, <5>1, <5>2
        <5>3. CASE pend'[j] = sending.msg
          BY ONLY <3>4, <5>1, <5>3
        <5> QED BY ONLY <3>5, <5>2, <5>3, j \in 1 .. Len(pend')
      <4> QED BY <3>4, <3>5, <4>2, <4>3 DEF Sorted
    <3>8. ~raced' => ~raced
      BY ONLY <3>1
    <3>9. /\ Below(wire, next)' /\ Below(bufs, next)' /\ \A m \in Sent' : m < next'
          /\ ~raced' => /\ Sorted(wire') /\ Sorted(bufs')
                        /\ \A j \in 1 .. Len(wire') : wire'[j] # PING => \A m \in Sent' : m < wire'[j]
                        /\ ~pendOn' => \A j \in 1 .. Len(bufs') :
                             (\A m \in Sent' : m < bufs'[j]) /\ \A i \in 1 .. Len(wire') : wire'[i] < bufs'[j]
      BY <2>1, <3>8 DEF OrderInv, Below
    <3> QED BY <2>1, <3>6, <3>7, <3>9 DEF OrderInv, Below
  <2> QED BY <2>2, <2>3
<1>4. CASE Flusher
  <2>1. PICK ok \in BOOLEAN : Flush(<<>>, ok)
    BY <1>4 DEF Flusher
  <2>2. UNCHANGED <<sending, next, Sent, raced, rec, pendOn>> /\ sending = NoSend
    BY <1>4 DEF Flusher, hist, Sent
  <2> QED BY <1>e, <2>1, <2>2, FlushInOrder
<1>5. ASSUME NEW f \in Callers, FlushCall(f) PROVE OrderInv'
  <2>1. UNCHANGED <<sending, next, Sent, raced, rec, pendOn>> /\ sending = NoSend
    BY <1>5 DEF FlushCall, Sent
  <2>2. CASE status = "CLOSED"
    <3>1. UNCHANGED <<wire, pend, bufs, rec, pendOn>>
      BY <1>5, <2>2 DEF FlushCall
    <3> QED BY <2>1, <3>1 DEF OrderInv
  <2>3. CASE status # "CLOSED"
    <3>1. PICK ok \in BOOLEAN : Flush(<<PING>>, ok)
      BY <1>5, <2>3 DEF FlushCall, SendPing
    <3>2. PING \in Items /\ PING < next'
      BY <1>a, <2>1, Bounds
    <3>3. <<PING>> \in Seq(Items) /\ Len(<<PING>>) <= 1 /\ \A i \in 1 .. Len(<<PING>>) : <<PING>>[i] = PING
      BY <1>d, <3>2
    <3> QED BY <2>1, <3>1, <3>2, <3>3, FlushInOrder
  <2> QED BY <2>2, <2>3
<1>6. CASE UNCHANGED <<wire, pend, bufs, Sent, sending, next, raced, rec, pendOn>>
  BY <1>6 DEF OrderInv
<1>7. ASSUME CloseEffect, UNCHANGED <<sending, next, Sent, raced>>, sending = NoSend PROVE OrderInv'
  <2>1. PICK ok \in BOOLEAN : Flush(<<>>, ok)
    BY <1>7 DEF CloseEffect
  <2>2. UNCHANGED <<rec, pendOn>>
    BY <1>7 DEF CloseEffect
  <2> QED BY <1>7, <1>e, <2>1, <2>2, FlushInOrder
<1>8. CASE Ends
  <2>1. UNCHANGED <<sending, next, Sent, raced>> /\ sending = NoSend /\ Ended
    BY <1>8 DEF Ends, ReaderEnds, OldEnds, Ended, Sent
  <2>2. CASE status # "CONNECTED"
    <3>1. UNCHANGED <<wire, pend, bufs, rec, pendOn>>
      BY <2>1, <2>2 DEF Ended
    <3> QED BY <2>1, <3>1 DEF OrderInv
  <2>3. CASE status = "CONNECTED" /\ ~auto
    BY <1>7, <2>1, <2>3 DEF Ended, OpErr
  <2>4. CASE status = "CONNECTED" /\ auto
    <3>1. pend' = <<>> /\ pendOn' = TRUE /\ UNCHANGED <<bufs, wire>>
      BY <2>1, <2>4 DEF Ended, OpErr
    <3> QED BY <1>c, <2>1, <3>1 DEF OrderInv, Sorted, Below
  <2> QED BY <2>2, <2>3, <2>4
<1>9. ASSUME NewConn, bufs' = <<>> \/ bufs' = bufs, rec' = "off" \/ (rec' = "write" /\ rec = "wait") PROVE OrderInv'
  <2>1. wire' = <<>> /\ UNCHANGED <<pend, pendOn, sending, next, raced>>
    BY <1>9 DEF NewConn
  <2>2. \A m \in Sent' : m \in Sent \/ \E i \in 1 .. Len(wire) : m = wire[i]
    BY <1>9 DEF NewConn, Sent
  <2>3. \A m \in Sent' : m < next
    BY ONLY <1>b, <2>2
  <2>4. sending # NoSend => \A m \in Sent' : m < sending.msg
    BY <2>2 DEF OrderInv, Below
  <2>5. ASSUME ~raced, ~pendOn, NEW j \in 1 .. Len(bufs) PROVE \A m \in Sent' : m < bufs[j]
    <3>1. (\A m \in Sent : m < bufs[j]) /\ \A i \in 1 .. Len(wire) : wire[i] < bufs[j]
      BY <2>5 DEF OrderInv
    <3> QED BY ONLY <2>2, <3>1
  <2>6. ASSUME ~raced, rec = "wait", NEW j \in 1 .. Len(pend), pend[j] # PING PROVE \A m \in Sent' : m < pend[j]
    <3>1. (\A m \in Sent : m < pend[j]) /\ \A i \in 1 .. Len(wire) : wire[i] < pend[j]
      BY <2>6 DEF OrderInv
    <3> QED BY ONLY <2>2, <3>1
  <2>7. /\ Below(wire', next) /\ Below(pend, next) /\ Below(bufs', next)
        /\ sending # NoSend => /\ sending.msg = next - 1 /\ next > 1
                               /\ Below(wire', sending.msg) /\ Below(pend, sending.msg) /\ Below(bufs', sending.msg)
                               /\ Below(sending.snap, sending.msg)
    BY <1>9, <1>c, <2>1 DEF OrderInv, Below
  <2>8. ~raced => Sorted(wire') /\ Sorted(bufs') /\ (rec = "wait" => Sorted(pend))
    BY <1>9, <1>c, <2>1 DEF OrderInv, Sorted
  <2>9. DOMAIN wire' = {} /\ (DOMAIN bufs' = {} \/ bufs' = bufs)
    BY <1>9, <1>c, <2>1
  <2> QED BY <1>9, <2>1, <2>3, <2>4, <2>5, <2>6, <2>7, <2>8, <2>9 DEF OrderInv, Below
<1>10. CASE Connect \/ RecDial
  <2>1. CASE Connect
    BY <1>9, <2>1 DEF Connect, RecInv
  <2>2. CASE RecDial /\ status = "CLOSED"
    <3>1. UNCHANGED <<wire, pend, bufs, Sent, sending, next, raced, pendOn>> /\ rec' = "off"
      BY <2>2 DEF RecDial, writer, net, hist, Sent
    <3> QED BY <3>1 DEF OrderInv
  <2>3. CASE RecDial /\ status # "CLOSED"
    BY <1>9, <2>3 DEF RecDial
  <2> QED BY <1>10, <2>1, <2>2, <2>3
<1>11. CASE RecWrite
  <2>1. /\ UNCHANGED <<pend, bufs, sending, next, Sent, raced, pendOn>> /\ rec = "write" /\ pendOn /\ wire = <<>>
        /\ rec' \notin {"wait", "write"}
    BY <1>11 DEF RecWrite, writer, RecInv, Sent
  <2>2. CASE wire' = wire
    BY <2>1, <2>2 DEF OrderInv
  <2>3. CASE wire' # wire
    <3>1. PICK ok \in BOOLEAN : Write(pend, ok)
      BY <1>11, <2>3 DEF RecWrite
    <3>2. pend \in Seq(Items)
      BY DEF Types
    <3>3. PICK n : Grown(n, pend)
      BY <3>1, <3>2, WriteEffect
    <3>4. Below(wire', next') /\ (sending' # NoSend => Below(wire', sending'.msg))
      BY <1>b, <2>1, <3>3, WriteBelow DEF OrderInv, Below
    <3>5. ASSUME ~raced PROVE WireInOrder'
      <4>1. WireInOrder
        BY <3>5 DEF OrderInv, WireInOrder
      <4>2. Follows(pend)
        BY <2>1, <3>5 DEF OrderInv, Sorted, Follows
      <4> QED BY <2>1, <3>3, <4>1, <4>2, WriteInOrder
    <3> QED BY <2>1, <3>4, <3>5 DEF OrderInv, WireInOrder
  <2> QED BY <2>2, <2>3
<1>12. CASE RecReset
  <2>1. pend' = <<>> /\ pendOn /\ UNCHANGED <<bufs, pendOn, sending, next, wire, Sent, raced>>
    BY <1>12 DEF RecReset, net, hist, RecInv, Sent
  <2> QED BY <1>c, <2>1 DEF OrderInv, Sorted, Below
<1>13. CASE RecDone
  <2>1. pend' = <<>> /\ bufs = <<>> /\ rec' = "off" /\ UNCHANGED <<bufs, sending, next, wire, Sent, raced>>
    BY <1>13 DEF RecDone, net, hist, RecInv, Sent
  <2> QED BY <1>c, <2>1 DEF OrderInv, Sorted, Below
<1>14. CASE ServerTake
  <2>1. UNCHANGED <<bufs, pend, pendOn, sending, next, raced, rec>> /\ wire # <<>> /\ wire' = Tail(wire) /\ Head(wire) = wire[1]
    BY <1>14, TakePing DEF ServerTake, writer
  <2>2. Len(wire') = Len(wire) - 1 /\ Len(wire) >= 1 /\ \A i \in 1 .. Len(wire') : i + 1 \in 1 .. Len(wire) /\ wire'[i] = wire[i + 1]
    BY <2>1, TakePing
  <2>3. \A m \in Sent' : m \in Sent \/ (m = wire[1] /\ 1 \in 1 .. Len(wire))
    BY <1>14, <2>1, <2>2 DEF ServerTake, Sent
  <2>4. /\ \A i \in 1 .. Len(wire') : wire'[i] < next
        /\ \A m \in Sent' : m < next
    BY <1>b, <2>2, <2>3
  <2>5. sending # NoSend => (\A m \in Sent' : m < sending.msg) /\ \A i \in 1 .. Len(wire') : wire'[i] < sending.msg
    BY <2>2, <2>3 DEF OrderInv, Below
  <2>6. ASSUME ~raced
        PROVE  /\ Sorted(wire')
               /\ \A j \in 1 .. Len(wire') : wire'[j] # PING => \A m \in Sent' : m < wire'[j]
    <3>1. /\ \A i, j \in 1 .. Len(wire) : i < j /\ wire[j] # PING => wire[i] < wire[j]
          /\ \A j \in 1 .. Len(wire) : wire[j] # PING => \A m \in Sent : m < wire[j]
      BY <2>6 DEF OrderInv, Sorted
    <3>2. ASSUME NEW i \in 1 .. Len(wire'), NEW j \in 1 .. Len(wire'), i < j, wire'[j] # PING PROVE wire'[i] < wire'[j]
      <4>1. i + 1 < j + 1
        BY <3>2
      <4> QED BY <2>2, <3>1, <3>2, <4>1
    <3>3. ASSUME NEW j \in 1 .. Len(wire'), wire'[j] # PING PROVE 1 < j + 1 /\ wire[1] < wire'[j]
      <4>1. 1 < j + 1 /\ 1 \in 1 .. Len(wire)
        BY <2>2
      <4> QED BY <2>2, <3>1, <3>3, <4>1
    <3>4. ASSUME NEW j \in 1 .. Len(wire'), wire'[j] # PING, NEW m \in Sent' PROVE m < wire'[j]
      <4>1. j + 1 \in 1 .. Len(wire) /\ wire[j + 1] # PING /\ wire'[j] = wire[j + 1]
        BY ONLY <2>2, <3>4
      <4>2. \A x \in Sent : x < wire[j + 1]
        BY ONLY <3>1, <4>1
      <4>3. wire[1] < wire'[j]
        BY ONLY <3>3, <3>4
      <4> QED BY ONLY <2>3, <3>4, <4>1, <4>2, <4>3
    <3> QED BY <3>2, <3>4 DEF Sorted
  <2>7. ASSUME ~raced, ~pendOn, NEW j \in 1 .. Len(bufs)
        PROVE  (\A m \in Sent' : m < bufs[j]) /\ \A i \in 1 .. Len(wire') : wire'[i] < bufs[j]
    <3>1. (\A m \in Sent : m < bufs[j]) /\ \A i \in 1 .. Len(wire) : wire[i] < bufs[j]
      BY <2>7 DEF OrderInv
    <3> QED BY ONLY <2>2, <2>3, <3>1
  <2>8. ASSUME ~raced, rec \in {"wait", "write"}, NEW j \in 1 .. Len(pend), pend[j] # PING
        PROVE  (\A m \in Sent' : m < pend[j]) /\ \A i \in 1 .. Len(wire') : wire'[i] < pend[j]
    <3>1. (\A m \in Sent : m < pend[j]) /\ \A i \in 1 .. Len(wire) : wire[i] < pend[j]
      BY <2>8 DEF OrderInv
    <3> QED BY ONLY <2>2, <2>3, <3>1
  <2>9. /\ ~raced => Sorted(bufs) /\ (rec \in {"wait", "write"} => Sorted(pend))
        /\ Below(pend, next) /\ Below(bufs, next)
        /\ sending # NoSend => /\ sending.msg = next - 1 /\ next > 1
                               /\ Below(pend, sending.msg) /\ Below(bufs, sending.msg) /\ Below(sending.snap, sending.msg)
    BY DEF OrderInv
  <2> QED BY <2>1, <2>4, <2>5, <2>6, <2>7, <2>8, <2>9 DEF OrderInv, Below
<1>15. CASE Break
  <2>1. wire' = <<>> /\ UNCHANGED <<bufs, pend, pendOn, sending, next, raced, rec, Sent>>
    BY <1>15 DEF Break, writer, hist, Sent
  <2> QED BY <1>c, <2>1 DEF OrderInv, Sorted, Below
<1>16. ASSUME NEW f \in Callers, FlushReturns(f) \/ RemoveFlushEntry(f) PROVE OrderInv'
  <2>1. UNCHANGED <<wire, pend, bufs, Sent, sending, next, raced, rec, pendOn>>
    BY <1>16 DEF FlushReturns, RemoveFlushEntry, writer, net, Sent
  <2> QED BY <1>6, <2>1
<1>17. CASE Close
  BY <1>7, <1>17 DEF Close, Sent
<1>18. CASE Pong \/ OldPong \/ PendingPanic \/ LateTake
  <2>1. UNCHANGED <<wire, pend, bufs, sending, next, raced, rec, pendOn>>
    BY <1>18 DEF Pong, OldPong, PendingPanic, LateTake, writer, net, hist
  <2>2. Sent' = Sent
    BY <1>18 DEF Pong, OldPong, PendingPanic, LateTake, net, hist, Sent
  <2> QED BY <1>6, <2>1, <2>2
<1> QED
  BY <1>1, <1>2, <1>3, <1>4, <1>5, <1>8, <1>10, <1>11, <1>12, <1>13, <1>14, <1>15, <1>16, <1>17, <1>18
     DEF Step, Send, FlushStep, Ends, Reconnect, Take

-----------------------------------------------------------------------------
LEMMA InitInv == Init => IInv
<1> SUFFICES ASSUME Init PROVE IInv
  OBVIOUS
<1>1. Types
  BY InitTypes
<1>2. /\ bufs = <<>> /\ pend = <<>> /\ wire = <<>> /\ pongs = <<>> /\ Len(<<>>) = 0 /\ DOMAIN <<>> = {}
      /\ AllPings(<<>>) = 0 /\ answers = 0 /\ received = {} /\ late = {} /\ left = 0 /\ mixed = FALSE /\ appended = {} /\ sending = NoSend /\ obj = 0
  BY PingsZero DEF Init, AllPings
<1>3. RecInv /\ ObjInv
  BY <1>2, Bounds DEF Init, RecInv, ObjInv, NoSend
<1>4. CalledInv /\ RedoInv
  <2>1. \A f \in Callers : token[f] = FALSE
    BY DEF Init
  <2>2. \A k \in 1 .. MaxConn : Redo(k) \in Callers /\ Redo(k)[1] # "user"
    BY CallNames DEF Redo
  <2>3. \A k \in 1 .. MaxConn : st[Redo(k)] = "off"
    BY <2>2 DEF Init
  <2> QED BY <1>2, <2>1, <2>3 DEF CalledInv, RedoInv
<1>5. CountInv /\ PingsInv /\ MixInv
  <2>1. IsFiniteSet(Called)
    BY CallNames, FS_Subset DEF Called
  <2>2. Cardinality(Called) \in Nat
    BY <2>1, FS_CardinalityType
  <2>3. conn \in Nat
    BY <1>1, Scalars
  <2> QED BY <1>2, <2>2, <2>3 DEF CountInv, PingsInv, MixInv
<1>6. Waiting(Target) = {} /\ Waiting(conn) = {}
  BY <1>2 DEF Waiting
<1>7. PlaceInv /\ TargetInv /\ KeptInv /\ OwedInv /\ AnswerInv /\ RaceInv
  BY <1>2, <1>6 DEF PlaceInv, TargetInv, KeptInv, OwedInv, AnswerInv, RaceInv
<1>8. FlushMeansDelivered
  BY DEF Init, FlushMeansDelivered
<1>9. OrderInv
  <2>1. next = 1
    BY DEF Init
  <2>2. Sent = {}
    BY <1>2 DEF Sent
  <2> QED BY <1>2, <2>1, <2>2 DEF OrderInv, Below, Sorted
<1> QED BY <1>1, <1>3, <1>4, <1>5, <1>7, <1>8, <1>9 DEF IInv, DInv

LEMMA StepInv == IInv /\ Next => IInv'
<1> SUFFICES ASSUME IInv, Step PROVE IInv'
  BY DEF Next
<1>1. /\ Types /\ RecInv /\ ObjInv /\ MixInv /\ RedoInv /\ CalledInv /\ CountInv /\ PingsInv /\ OrderInv
      /\ FlushMeansDelivered /\ (~mixed => DInv) /\ Types'
  BY TypeStep DEF IInv
<1>2. RecInv' /\ ObjInv' /\ RedoInv' /\ CalledInv' /\ OrderInv' /\ PingsInv'
  BY <1>1, RecStep, ObjStep, RedoStep, CalledStep, OrderStep, PingsStep
<1>3. MixInv' /\ (Connect \/ mixed' = mixed)
  BY <1>1, MixStep
<1>4. CountInv'
  <2>1. auto => PlaceInv
    BY <1>1 DEF MixInv, DInv
  <2> QED BY <1>1, <2>1, CountStep
<1>5. FlushMeansDelivered' /\ (~mixed' => DInv')
  <2>1. CASE Connect
    <3>1. DInv'
      BY <1>1, <2>1, ConnectDelivers
    <3> QED BY <3>1 DEF DInv
  <2>2. CASE ~mixed
    <3>1. DInv /\ left = 0
      BY <1>1, <2>2 DEF MixInv
    <3>2. DInv'
      BY <1>1, <3>1, DeliveryStep
    <3> QED BY <3>2 DEF DInv
  <2>3. CASE mixed /\ ~Connect
    <3>1. FlushMeansDelivered'
      BY <1>1, <2>3, MixedStep
    <3> QED BY <1>3, <2>3, <3>1
  <2> QED BY <2>1, <2>2, <2>3
<1> QED BY <1>1, <1>2, <1>3, <1>4, <1>5 DEF IInv

\* A step that changes nothing keeps what holds.
LEMMA StutterInv == IInv /\ UNCHANGED vars => IInv'
<1> SUFFICES ASSUME IInv, UNCHANGED vars PROVE IInv'
  OBVIOUS
<1> USE DEF IInv, vars, writer, pings, net, hist
<1>1. Types' /\ RecInv' /\ ObjInv' /\ MixInv'
  BY DEF Types, RecInv, ObjInv, MixInv
<1>2. CountInv' /\ CalledInv' /\ RedoInv'
  BY DEF CountInv, CalledInv, RedoInv, Called
<1>3. Stream' = Stream /\ Target' = Target /\ AllPings(wire)' = AllPings(wire) /\ AllPings(pend)' = AllPings(pend)
  BY DEF Stream, Target, AllPings
<1>4. FlushMeansDelivered' /\ PingsInv'
  BY <1>3 DEF FlushMeansDelivered, PingsInv, Called
<1>5. ASSUME ~mixed' PROVE DInv'
  <2>1. DInv
    BY <1>5
  <2>2. PlaceInv' /\ TargetInv' /\ KeptInv' /\ AnswerInv'
    BY <1>3, <2>1 DEF DInv, PlaceInv, TargetInv, KeptInv, AnswerInv, Waiting, Owed
  <2>3. OwedInv'
    BY <1>3, <2>1 DEF DInv, OwedInv, Waiting, Owed
  <2>4. RaceInv'
    BY <1>3, <2>1 DEF DInv, RaceInv, Waiting, AllPings
  <2> QED BY <1>4, <2>2, <2>3, <2>4 DEF DInv
<1>6. OrderInv'
  BY DEF OrderInv, Sent
<1> QED BY <1>1, <1>2, <1>4, <1>5, <1>6

\* The invariant holds of every state: whatever the users, the connections and
\* the faults, with appends that race with doReconnect for the pending buffer
\* (client.go:238-323, buffer.go:25-104) and, after a second Connect, with
\* readLoops of earlier connections; of delivery only while there are none.
THEOREM Inductive == Spec => []IInv
BY InitInv, StepInv, StutterInv, PTL DEF Spec

\* Every variable of the client keeps its type; in particular there are never
\* more answers on the way than calls of Flush, and one pending buffer is made
\* for one connection (client.go:406-432).
THEOREM TypeCorrect == Spec => []TypeOK
<1>1. IInv => TypeOK
  <2> SUFFICES ASSUME IInv PROVE TypeOK
    OBVIOUS
  <2>1. Types /\ ObjInv /\ CountInv /\ MixInv
    BY DEF IInv
  <2>2. bufs \in Seq(Items)
    BY <2>1, Bounds, SeqMonotonic DEF Types
  <2>3. obj \in 0 .. MaxConn
    BY <2>1, Bounds, Scalars DEF ObjInv
  <2>4. answers \in 0 .. Cardinality(Callers)
    <3>1. IsFiniteSet(Callers) /\ Called \subseteq Callers
      BY CallNames DEF Called
    <3>2. Cardinality(Called) <= Cardinality(Callers) /\ IsFiniteSet(Called)
      BY <3>1, FS_Subset
    <3>3. Cardinality(Called) \in Nat /\ Cardinality(Callers) \in Nat
      BY <3>1, <3>2, FS_CardinalityType
    <3>4. answers \in Nat /\ answers <= Cardinality(Called)
      BY <2>1 DEF Types, CountInv
    <3> QED BY <3>2, <3>3, <3>4
  <2>5. left \in 0 .. MaxConn
    <3>1. left \in Nat /\ left <= conn
      BY <2>1 DEF Types, MixInv
    <3> QED BY <2>1, <3>1, Bounds, Scalars
  <2> QED BY <2>1, <2>2, <2>3, <2>4, <2>5 DEF Types, TypeOK
<1> QED BY <1>1, Inductive, PTL

\* A pong means that the messages sent before were taken: what FlushTimeout is
\* for (client.go:347), however many flushes, time-outs and reconnections there
\* are, and however appends race with them.  That is so of the messages that were
\* not put into a pending buffer already written (client.go:291-303), and of the
\* flushes of a connection that was not made by a second Connect while the
\* readLoop of the last one was still there (client.go:95-105).
THEOREM AnsweredMeansDelivered == Spec => []FlushMeansDelivered
<1>1. IInv => FlushMeansDelivered
  BY DEF IInv
<1> QED BY <1>1, Inductive, PTL

\* The server gets no message twice and none before an earlier one, also over
\* reconnections (buffer.go:88-89), unless an append restored what was reset.
THEOREM OnceInOrder == Spec => []InOrderAndOnce
<1>1. IInv => InOrderAndOnce
  <2>1. OrderInv => InOrderAndOnce
    BY DEF OrderInv, Sorted, Sent, InOrderAndOnce
  <2> QED BY <2>1 DEF IInv
<1> QED BY <1>1, Inductive, PTL

-----------------------------------------------------------------------------
\* A flush that is waiting has its place in c.pongs, unless a Connect() since
\* made that list anew.
HasPlace(f) == \E p \in DOMAIN pongs : pongs[p] = f
WaitInv ==
  \A f \in Callers : st[f] = "wait" /\ ~token[f] /\ (auto \/ asked[f].on = conn) => HasPlace(f)
AskedInv == ~auto => \A f \in Callers : st[f] = "wait" => asked[f].on <= conn

\* Without a pending buffer the places of c.pongs are as many as the pongs that
\* are to come, unless somebody else reads them.
PongsInv ==
  ~auto /\ ~mixed /\ status = "CONNECTED" /\ up => reading /\ Len(pongs) = answers + AllPings(wire)

\* A flush that is waiting can be answered: it has its place in c.pongs, and,
\* while its connection stands and is read by its own readLoop only, no more pongs
\* ahead of it than are to come.
WaitIsAnswerable ==
  \A f \in Callers : st[f] = "wait" /\ ~token[f] =>
    /\ auto => HasPlace(f)
    /\ ~auto /\ ~mixed /\ status = "CONNECTED" /\ up /\ asked[f].on = conn =>
         \E p \in DOMAIN pongs : pongs[p] = f /\ p <= answers + AllPings(wire)

\* A step that leaves the calls and their places alone.
LEMMA WaitKept ==
  ASSUME WaitInv, UNCHANGED <<auto, conn, pongs, st, token, asked>>
  PROVE  WaitInv'
BY DEF WaitInv, HasPlace

LEMMA WaitStep ==
  ASSUME Types, Types', RecInv, CalledInv, AskedInv, WaitInv, Step
  PROVE  WaitInv'
<1> USE DEF writer, pings, net, hist
<1>0. /\ pongs \in Seq(Callers \cup {Nil}) /\ Len(pongs) \in Nat /\ DOMAIN pongs = 1 .. Len(pongs)
      /\ DOMAIN st = Callers /\ DOMAIN token = Callers /\ DOMAIN asked = Callers
      /\ DOMAIN pongs' = 1 .. Len(pongs')
  BY Scalars, ScalarsNext DEF Types
<1>1. ASSUME NEW f \in Callers, FlushCall(f) PROVE WaitInv'
  <2>1. CASE status = "CLOSED"
    <3>1. st' = [st EXCEPT ![f] = "done"] /\ UNCHANGED <<auto, conn, pongs, token, asked>>
      BY <1>1, <2>1 DEF FlushCall
    <3> QED BY <1>0, <3>1 DEF WaitInv, HasPlace
  <2>2. CASE status # "CLOSED"
    <3>1. /\ st' = [st EXCEPT ![f] = "wait"] /\ pongs' = Append(pongs, f) /\ UNCHANGED <<auto, conn, token>>
          /\ \A g \in Callers \ {f} : asked'[g] = asked[g]
      BY <1>0, <1>1, <2>2 DEF FlushCall, SendPing
    <3>2. /\ Len(pongs') = Len(pongs) + 1 /\ pongs'[Len(pongs) + 1] = f
          /\ \A p \in 1 .. Len(pongs) : pongs'[p] = pongs[p]
      BY <1>0, <3>1, AppendProperties, f \in Callers \cup {Nil}
    <3>3. HasPlace(f)'
      BY ONLY <1>0, <3>2 DEF HasPlace
    <3>4. \A g \in Callers : HasPlace(g) => HasPlace(g)'
      BY ONLY <1>0, <3>2 DEF HasPlace
    <3> QED BY ONLY <1>0, <3>1, <3>3, <3>4, WaitInv DEF WaitInv
  <2> QED BY <2>1, <2>2
<1>2. ASSUME NEW f \in Callers, FlushReturns(f) PROVE WaitInv'
  <2>1. /\ st'[f] # "wait" /\ UNCHANGED <<auto, conn, pongs>>
        /\ \A g \in Callers \ {f} : st'[g] = st[g] /\ token'[g] = token[g] /\ asked'[g] = asked[g]
    BY <1>0, <1>2 DEF FlushReturns, Done
  <2> QED BY ONLY <2>1, WaitInv DEF WaitInv, HasPlace
<1>3. ASSUME NEW f \in Callers, RemoveFlushEntry(f) PROVE WaitInv'
  <2>1. /\ st'[f] # "wait" /\ UNCHANGED <<auto, conn>>
        /\ \A g \in Callers \ {f} : st'[g] = st[g] /\ token'[g] = token[g] /\ asked'[g] = asked[g]
    BY <1>0, <1>3 DEF RemoveFlushEntry, Done
  <2>2. pongs' = [i \in DOMAIN pongs |-> IF pongs[i] = f THEN Nil ELSE pongs[i]]
    BY <1>3 DEF RemoveFlushEntry
  <2>3. \A g \in Callers \ {f} : HasPlace(g) => HasPlace(g)'
    BY ONLY <2>2 DEF HasPlace
  <2> QED BY ONLY <2>1, <2>3, WaitInv DEF WaitInv
<1>4. ASSUME Pong \/ OldPong PROVE WaitInv'
  <2>1. UNCHANGED <<auto, conn, st, asked>>
    BY <1>4 DEF Pong, OldPong
  <2>0. HandlePong \/ UNCHANGED <<pongs, token>>
    BY <1>4 DEF Pong, OldPong
  <2>4. CASE UNCHANGED <<pongs, token>>
    BY <2>1, <2>4, WaitKept
  <2>2. CASE pongs = <<>>
    <3>1. UNCHANGED <<pongs, token>>
      BY <2>0, <2>2 DEF HandlePong
    <3> QED BY <2>1, <3>1, WaitKept
  <2>3. CASE HandlePong /\ pongs # <<>>
    <3>1. /\ Len(pongs') = Len(pongs) - 1 /\ \A p \in 1 .. Len(pongs') : pongs'[p] = pongs[p + 1]
          /\ Head(pongs) = pongs[1]
      <4>1. pongs' = Tail(pongs)
        BY <2>3 DEF HandlePong
      <4>2. /\ Len(Tail(pongs)) = Len(pongs) - 1 /\ Head(pongs) = pongs[1]
            /\ \A p \in 1 .. Len(pongs) - 1 : Tail(pongs)[p] = pongs[p + 1]
        BY ONLY <1>0, <2>3, HeadTailProperties
      <4> QED BY ONLY <4>1, <4>2
    <3>2. \A g \in Callers : HasPlace(g) => g = pongs[1] \/ HasPlace(g)'
      <4>1. ASSUME NEW g, NEW p \in 1 .. Len(pongs), pongs[p] = g PROVE g = pongs[1] \/ \E q \in 1 .. Len(pongs') : pongs'[q] = g
        <5>1. CASE p = 1
          BY <4>1, <5>1
        <5>2. CASE p # 1
          <6>1. p - 1 \in 1 .. Len(pongs') /\ (p - 1) + 1 = p
            BY ONLY <1>0, <3>1, <5>2, p \in 1 .. Len(pongs)
          <6> QED BY <3>1, <4>1, <6>1
        <5> QED BY <5>1, <5>2
      <4> QED BY <1>0, <4>1 DEF HasPlace
    <3>3. \A g \in Callers : g = pongs[1] => token'[g]
      <4> SUFFICES ASSUME pongs[1] \in Callers PROVE token'[pongs[1]]
        OBVIOUS
      <4>1. Head(pongs) # Nil /\ Head(pongs) \in Callers
        BY <3>1, CallNames
      <4>2. token' = [token EXCEPT ![Head(pongs)] = TRUE]
        BY <2>3, <4>1 DEF HandlePong
      <4> QED BY ONLY <1>0, <3>1, <4>1, <4>2
    <3>4. \A g \in Callers : token[g] => token'[g]
      BY <1>0, <2>3 DEF HandlePong
    <3> QED BY ONLY <2>1, <3>2, <3>3, <3>4, WaitInv DEF WaitInv
  <2> QED BY <2>0, <2>2, <2>3, <2>4
<1>5. ASSUME Connect PROVE WaitInv'
  <2>1. ~auto /\ auto' = auto /\ conn' = conn + 1 /\ UNCHANGED <<st, asked>>
    BY <1>5 DEF Connect, NewConn
  <2>2. \A f \in Callers : st'[f] = "wait" => asked'[f].on # conn'
    <3>1. \A f \in Callers : asked[f].on \in Nat
      BY AskedTyped
    <3> QED BY <2>1, <3>1, Scalars DEF AskedInv
  <2> QED BY <2>1, <2>2 DEF WaitInv
<1>6. ASSUME RecDial PROVE WaitInv'
  <2>1. auto /\ UNCHANGED <<auto, pongs, st, token>>
    BY <1>6, Scalars DEF RecDial, NewConn, RecInv
  <2> QED BY <2>1 DEF WaitInv, HasPlace
<1>7. ASSUME RecDone PROVE WaitInv'
  <2>1. UNCHANGED <<auto, conn, pongs, token, asked>> /\ \A f \in Callers : st'[f] = "wait" => st[f] = "wait"
    BY <1>0, <1>7 DEF RecDone
  <2> QED BY <2>1 DEF WaitInv, HasPlace
<1>8. ASSUME Send \/ Flusher \/ Close \/ Ends \/ RecWrite \/ RecReset \/ Take \/ Break
      PROVE  WaitInv'
  <2>1. UNCHANGED <<auto, conn, pongs, st, token, asked>>
    BY <1>8 DEF Send, AppendBufs, PendingLoad, PendingStore, PendingPanic, Flusher, Close, Ends, ReaderEnds, OldEnds, Ended,
       RecWrite, RecReset, Take, ServerTake, LateTake, Break
  <2> QED BY <2>1, WaitKept
<1> QED BY <1>1, <1>2, <1>3, <1>4, <1>5, <1>6, <1>7, <1>8 DEF Step, FlushStep, Reconnect

\* auto is an option.
LEMMA AutoKept == Step => auto' = auto
<1> USE DEF writer, pings, net, hist
<1>1. ASSUME Send \/ Flusher \/ Close \/ Ends \/ Take \/ Break \/ Pong \/ OldPong PROVE auto' = auto
  BY <1>1 DEF Send, AppendBufs, PendingLoad, PendingStore, PendingPanic, Flusher, Close, Ends, ReaderEnds, OldEnds, Ended,
     Take, ServerTake, LateTake, Break, Pong, OldPong
<1>2. ASSUME Connect \/ Reconnect PROVE auto' = auto
  BY <1>2 DEF Connect, NewConn, Reconnect, RecDial, RecWrite, RecReset, RecDone
<1>3. ASSUME NEW f \in Callers, FlushCall(f) \/ FlushReturns(f) \/ RemoveFlushEntry(f) PROVE auto' = auto
  BY <1>3 DEF FlushCall, FlushReturns, RemoveFlushEntry
<1> QED BY <1>1, <1>2, <1>3 DEF Step, FlushStep

\* A client that does not reconnect by itself is connected or closed, and a
\* flush is called for the connection it has.
LEMMA AskedStep ==
  ASSUME Types, RecInv, AskedInv, Step
  PROVE  AskedInv'
<1> USE DEF writer, pings, net, hist
<1> SUFFICES ASSUME ~auto PROVE AskedInv'
  BY AutoKept DEF AskedInv
<1>0. /\ DOMAIN st = Callers /\ DOMAIN asked = Callers /\ conn \in Nat /\ rec = "off"
      /\ status \in {"CONNECTED", "CLOSED"} /\ \A f \in Callers : asked[f].on \in Nat
  BY Scalars, AskedTyped DEF Types, RecInv
<1>1. ASSUME NEW f \in Callers, FlushCall(f) PROVE AskedInv'
  <2>1. CASE status = "CLOSED"
    BY <1>0, <1>1, <2>1 DEF FlushCall, AskedInv
  <2>2. CASE status = "CONNECTED"
    <3>1. asked'[f].on = conn /\ conn' = conn /\ \A g \in Callers \ {f} : asked'[g] = asked[g] /\ st'[g] = st[g]
      BY <1>0, <1>1, <2>2 DEF FlushCall
    <3> QED BY ONLY <1>0, <3>1, ~auto, AskedInv DEF AskedInv
  <2> QED BY <1>0, <2>1, <2>2
<1>2. ASSUME NEW f \in Callers, FlushReturns(f) \/ RemoveFlushEntry(f) PROVE AskedInv'
  <2>1. /\ st'[f] # "wait" /\ conn' = conn
        /\ \A g \in Callers \ {f} : st'[g] = st[g] /\ asked'[g] = asked[g]
    BY <1>0, <1>2 DEF FlushReturns, RemoveFlushEntry, Done
  <2> QED BY ONLY <2>1, ~auto, AskedInv DEF AskedInv
<1>3. ASSUME Connect PROVE AskedInv'
  <2>1. conn' = conn + 1 /\ UNCHANGED <<st, asked>>
    BY <1>3 DEF Connect, NewConn
  <2> QED BY ONLY <1>0, <2>1, ~auto, AskedInv DEF AskedInv
<1>4. ASSUME Send \/ Flusher \/ Close \/ Ends \/ Take \/ Break \/ Pong \/ OldPong
      PROVE  AskedInv'
  <2>1. UNCHANGED <<conn, st, asked>>
    BY <1>4 DEF Send, AppendBufs, PendingLoad, PendingStore, PendingPanic, Flusher, Close, Ends, ReaderEnds, OldEnds, Ended,
       Take, ServerTake, LateTake, Break, Pong, OldPong
  <2> QED BY ONLY <2>1, ~auto, AskedInv DEF AskedInv
<1>5. ~Reconnect
  BY <1>0 DEF Reconnect, RecDial, RecWrite, RecReset, RecDone
<1> QED BY <1>1, <1>2, <1>3, <1>4, <1>5 DEF Step, FlushStep

\* Every step adds to or takes from c.pongs as it does from the pongs to come.
LEMMA PongsStep ==
  ASSUME Types, Types', RecInv, MixInv, PongsInv, Step
  PROVE  PongsInv'
<1> USE DEF writer, pings, net, hist
<1> SUFFICES ASSUME ~auto', ~mixed', status' = "CONNECTED", up' PROVE (reading /\ Len(pongs) = answers + AllPings(wire))'
  BY DEF PongsInv
<1>0. ~auto
  BY AutoKept
<1>1. /\ rec = "off" /\ ~pendOn /\ status \in {"CONNECTED", "CLOSED"} /\ up \in BOOLEAN
      /\ answers \in Nat /\ Len(pongs) \in Nat /\ pongs \in Seq(Callers \cup {Nil})
      /\ AllPings(wire) \in Nat /\ AllPings(wire') \in Nat
  <2>1. Len(wire) \in Nat /\ Len(wire') \in Nat
    BY Scalars, ScalarsNext
  <2>2. AllPings(wire) \in Nat /\ AllPings(wire') \in Nat
    BY <2>1, PingsSet DEF AllPings
  <2> QED BY <1>0, <2>2, Scalars DEF RecInv, Types
<1>2. ~mixed /\ status = "CONNECTED" /\ up => reading /\ Len(pongs) = answers + AllPings(wire)
  BY <1>0 DEF PongsInv
<1>12. Connect \/ (~mixed /\ left = 0)
  BY MixStep DEF MixInv
<1>3. ASSUME ~mixed, AppendBufs PROVE (reading /\ Len(pongs) = answers + AllPings(wire))'
  <2>1. status = "CONNECTED" /\ UNCHANGED <<pongs, answers, reading>>
    BY <1>3 DEF AppendBufs
  <2>2. up /\ AllPings(wire') = AllPings(wire)
    <3>1. CASE UNCHANGED <<up, wire>>
      BY <3>1
    <3>2. CASE \E ok \in BOOLEAN : Flush(<<next>>, ok)
      <4>1. <<next>> \in Seq(Msgs)
        BY <1>3 DEF AppendBufs
      <4> QED BY <1>1, <3>2, <4>1, MsgsNoPing
    <3> QED BY <1>3, <3>1, <3>2 DEF AppendBufs
  <2> QED BY <1>2, <1>3, <2>1, <2>2
<1>4. ASSUME ~mixed, Flusher PROVE (reading /\ Len(pongs) = answers + AllPings(wire))'
  <2>1. status = "CONNECTED" /\ UNCHANGED <<pongs, answers, reading>> /\ \E ok \in BOOLEAN : Flush(<<>>, ok)
    BY <1>4 DEF Flusher
  <2>2. <<>> \in Seq(Msgs)
    BY EmptySeq
  <2>3. up /\ AllPings(wire') = AllPings(wire)
    BY <1>1, <2>1, <2>2, MsgsNoPing
  <2> QED BY <1>2, <1>4, <2>1, <2>3
<1>5. ASSUME ~mixed, NEW f \in Callers, FlushCall(f) PROVE (reading /\ Len(pongs) = answers + AllPings(wire))'
  <2>1. /\ status = "CONNECTED" /\ UNCHANGED <<answers, reading>>
        /\ pongs' = Append(pongs, f) /\ \E ok \in BOOLEAN : Flush(<<PING>>, ok)
    BY <1>5 DEF FlushCall, SendPing
  <2>2. Len(pongs') = Len(pongs) + 1
    BY <1>1, <2>1, AppendProperties, f \in Callers \cup {Nil}
  <2>3. up /\ AllPings(wire') = AllPings(wire) + 1
    BY <1>1, <2>1, OnePing
  <2> QED BY ONLY <1>1, <1>2, <1>5, <2>1, <2>2, <2>3
<1>6. ASSUME ~mixed, NEW f \in Callers, FlushReturns(f) \/ RemoveFlushEntry(f) PROVE (reading /\ Len(pongs) = answers + AllPings(wire))'
  <2>1. UNCHANGED <<status, up, wire, answers, reading>>
    BY <1>6 DEF FlushReturns, RemoveFlushEntry
  <2>2. Len(pongs') = Len(pongs)
    BY <1>6, Removed DEF FlushReturns
  <2> QED BY <1>2, <1>6, <2>1, <2>2
<1>7. ASSUME Connect PROVE (reading /\ Len(pongs) = answers + AllPings(wire))'
  <2>1. pongs' = <<>> /\ wire' = <<>> /\ answers' = 0 /\ reading'
    BY <1>7 DEF Connect, NewConn
  <2>2. Len(<<>>) = 0 /\ AllPings(<<>>) = 0
    BY PingsZero DEF AllPings
  <2> QED BY <2>1, <2>2
<1>8. ASSUME ~mixed, ServerTake PROVE (reading /\ Len(pongs) = answers + AllPings(wire))'
  <2>1. status = "CONNECTED" /\ up /\ UNCHANGED <<pongs, reading>> /\ wire # <<>>
    BY <1>8 DEF ServerTake
  <2>2. /\ Len(wire') = Len(wire) - 1 /\ Len(wire) \in Nat /\ Len(wire') \in Nat
        /\ \A j \in 1 .. Len(wire') : wire'[j] = wire[j + 1]
        /\ Head(wire) = wire[1]
    BY <1>8, <2>1, HeadTailProperties, Scalars, ScalarsNext DEF ServerTake, Types
  <2>3. AllPings(wire) = IF wire[1] = PING THEN AllPings(wire') + 1 ELSE AllPings(wire')
    <3>1. Pings(wire, Len(wire') + 1) = IF wire[1] = PING THEN Pings(wire', Len(wire')) + 1 ELSE Pings(wire', Len(wire'))
      BY <2>2, PingsTail
    <3>2. Len(wire') + 1 = Len(wire)
      BY <2>2
    <3> QED BY <3>1, <3>2 DEF AllPings
  <2>4. answers' = IF wire[1] = PING THEN answers + 1 ELSE answers
    BY <1>2, <1>8, <2>1, <2>2 DEF ServerTake
  <2> QED BY ONLY <1>1, <1>2, <1>8, <2>1, <2>3, <2>4
<1>9. ASSUME ~mixed, Pong PROVE (reading /\ Len(pongs) = answers + AllPings(wire))'
  <2>1. answers > 0 /\ answers' = answers - 1 /\ UNCHANGED <<status, up, wire, reading>>
    BY <1>9 DEF Pong
  <2>2. pongs # <<>>
    <3>1. Len(pongs) > 0
      BY ONLY <1>1, <1>2, <1>9, <2>1, status' = "CONNECTED", up'
    <3> QED BY <3>1
  <2>3. Len(pongs') = Len(pongs) - 1
    BY <1>1, <1>9, <2>2, HeadTailProperties DEF Pong, HandlePong
  <2> QED BY ONLY <1>1, <1>2, <1>9, <2>1, <2>3, status' = "CONNECTED", up'
<1>10. ~Reconnect /\ ~Close /\ ~PendingLoad /\ ~Break
  BY <1>1 DEF Reconnect, RecDial, RecWrite, RecReset, RecDone, Close, CloseEffect, PendingLoad, Break
<1>11. ~ReaderEnds
  BY <1>0, <1>1 DEF ReaderEnds, Ended, OpErr, CloseEffect
<1>13. left = 0 => ~OldEnds /\ ~OldPong
  BY DEF OldEnds, OldPong
<1>14. ASSUME ~mixed, PendingStore \/ PendingPanic \/ LateTake PROVE (reading /\ Len(pongs) = answers + AllPings(wire))'
  <2>1. UNCHANGED <<status, up, wire, answers, pongs, reading>>
    BY <1>14 DEF PendingStore, PendingPanic, LateTake
  <2> QED BY <1>2, <1>14, <2>1
<1> QED BY <1>3, <1>4, <1>5, <1>6, <1>7, <1>8, <1>9, <1>10, <1>11, <1>12, <1>13, <1>14 DEF Step, Send, Take, Ends, FlushStep

\* Where the calls of FlushTimeout and the pongs to come stand holds for ever
\* (client.go:330-389, 570-582).
THEOREM WaitInductive == Spec => [](WaitInv /\ AskedInv /\ PongsInv)
<1>1. Init => WaitInv /\ AskedInv /\ PongsInv
  <2> SUFFICES ASSUME Init PROVE WaitInv /\ AskedInv /\ PongsInv
    OBVIOUS
  <2>1. \A f \in Callers : st[f] # "wait"
    BY DEF Init
  <2>2. Len(<<>>) = 0 /\ AllPings(<<>>) = 0
    BY PingsZero DEF AllPings
  <2>3. PongsInv
    BY <2>2 DEF Init, PongsInv
  <2> QED BY <2>1, <2>3 DEF WaitInv, AskedInv
<1>2. IInv /\ IInv' /\ WaitInv /\ AskedInv /\ PongsInv /\ [Next]_vars => (WaitInv /\ AskedInv /\ PongsInv)'
  <2> SUFFICES ASSUME IInv, IInv', WaitInv, AskedInv, PongsInv, [Next]_vars
               PROVE  WaitInv' /\ AskedInv' /\ PongsInv'
    OBVIOUS
  <2>1. CASE UNCHANGED vars
    BY <2>1 DEF vars, writer, pings, net, hist, WaitInv, HasPlace, AskedInv, PongsInv, AllPings
  <2>2. CASE Next
    <3>1. Step /\ Types /\ Types' /\ RecInv /\ MixInv /\ CalledInv
      BY <2>2 DEF Next, IInv
    <3> QED BY <3>1, WaitStep, AskedStep, PongsStep
  <2> QED BY <2>1, <2>2
<1> QED BY <1>1, <1>2, Inductive, PTL DEF Spec

\* A flush that waits keeps its place in c.pongs, and on a client that does not
\* reconnect by itself, while its connection stands, as many pongs are to come as
\* it takes to reach that place, however many calls before it timed out: an entry
\* without a channel is left where it is (client.go:330-389, 570-582).  The second
\* is said of a connection that no readLoop of an earlier one reads.
THEOREM WaitAnswerable == Spec => []WaitIsAnswerable
<1>1. IInv /\ WaitInv /\ PongsInv => WaitIsAnswerable
  <2> SUFFICES ASSUME IInv, WaitInv, PongsInv, NEW f \in Callers, st[f] = "wait", ~token[f]
               PROVE  /\ auto => HasPlace(f)
                      /\ ~auto /\ ~mixed /\ status = "CONNECTED" /\ up /\ asked[f].on = conn =>
                           \E p \in DOMAIN pongs : pongs[p] = f /\ p <= answers + AllPings(wire)
    BY DEF WaitIsAnswerable
  <2>1. auto \/ asked[f].on = conn => HasPlace(f)
    BY DEF WaitInv
  <2>2. ASSUME ~auto, ~mixed, status = "CONNECTED", up, asked[f].on = conn
        PROVE  \E p \in DOMAIN pongs : pongs[p] = f /\ p <= answers + AllPings(wire)
    <3>1. PICK p \in DOMAIN pongs : pongs[p] = f
      BY <2>1, <2>2 DEF HasPlace
    <3>2. Len(pongs) = answers + AllPings(wire) /\ DOMAIN pongs = 1 .. Len(pongs)
      BY <2>2, Scalars DEF PongsInv, IInv
    <3> QED BY <3>1, <3>2
  <2> QED BY <2>1, <2>2
<1> QED BY <1>1, Inductive, WaitInductive, PTL
=============================================================================
