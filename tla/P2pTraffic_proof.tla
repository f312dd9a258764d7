-------------------------- MODULE P2pTraffic_proof --------------------------
(***************************************************************************)
(* Proofs, for any number of users, of pairs and of messages and for any   *)
(* way the bytes are cut into reads, that a client gets the frames it was  *)
(* sent, that no report shows more messages than were sent, and that the   *)
(* pairs are as asked for.                                                 *)
(*                                                                         *)
(* The bytes of a client are a stream that consists of the frames of the   *)
(* items it is owed, one behind the other.  A read moves a first part of   *)
(* it: parse cuts that behind the last complete frame, and what is kept    *)
(* and what follows are a stream again.                                    *)
(***************************************************************************)
EXTENDS P2pProps, SequenceTheorems, FiniteSetTheorems, WellFoundedInduction, TLAPS

-----------------------------------------------------------------------------
(* Induction and recursion, stated of sets and functions.                  *)

\* A set of numbers that is not empty has a least one.
LEMMA LeastNumber ==
  ASSUME NEW T \in SUBSET Nat, T # {}
  PROVE  \E n \in T : \A m \in T : n <= m
<1>1. IsWellFoundedOn(OpToRel(<, Nat), Nat)
  BY NatLessThanWellFounded
<1>2. PICK n \in T : \A m \in T : ~ (<<m, n>> \in OpToRel(<, Nat))
  BY <1>1, WFMin
<1>3. \A m \in T : ~ (m < n)
  BY <1>2 DEF OpToRel
<1> QED BY <1>3

\* Induction on the numbers.
LEMMA Induction ==
  ASSUME NEW G \in SUBSET Nat, 0 \in G, \A n \in G : n + 1 \in G
  PROVE  G = Nat
<1> SUFFICES ASSUME Nat \ G # {} PROVE FALSE
  OBVIOUS
<1>1. PICK n \in Nat \ G : \A m \in Nat \ G : n <= m
  BY LeastNumber
<1>2. n # 0 /\ n - 1 \in Nat /\ n - 1 \notin Nat \ G
  BY <1>1
<1> QED BY <1>1, <1>2

\* A function that is defined by calls which come closer to a last one, and
\* what it returns at each argument.
Closing(O, V, stop, nxt, rank, N, base, step) ==
  /\ N \in Nat /\ nxt \in [O -> O] /\ rank \in [O -> 0 .. N]
  /\ base \in [O -> V] /\ step \in [O \X V -> V]
  /\ \A o \in O : o \notin stop => rank[nxt[o]] < rank[o]
Returns(f, o, stop, nxt, base, step) ==
  f[o] = IF o \in stop THEN base[o] ELSE step[<<o, f[nxt[o]]>>]

\* What holds of an argument if it holds of the one called next holds of all.
LEMMA CallInduction ==
  ASSUME NEW O, NEW V, NEW stop, NEW nxt, NEW rank, NEW N, NEW base, NEW step,
         Closing(O, V, stop, nxt, rank, N, base, step),
         NEW T, \A o \in O : o \in stop \/ nxt[o] \in T => o \in T
  PROVE  \A o \in O : o \in T
<1> USE DEF Closing
<1> DEFINE G == {n \in Nat : \A o \in O : rank[o] <= n => o \in T}
<1>1. 0 \in G
  OBVIOUS
<1>2. ASSUME NEW n \in G PROVE n + 1 \in G
  <2> SUFFICES ASSUME NEW o \in O, rank[o] <= n + 1, o \notin stop PROVE nxt[o] \in T
    OBVIOUS
  <2>1. nxt[o] \in O /\ rank[nxt[o]] < rank[o] /\ rank[nxt[o]] \in Nat /\ rank[o] \in Nat /\ n \in Nat
    OBVIOUS
  <2> QED BY <2>1
<1>3. G = Nat
  <2> HIDE DEF G
  <2>1. G \in SUBSET Nat
    BY DEF G
  <2> QED BY <1>1, <1>2, <2>1, Induction
<1>4. N \in G
  BY <1>3
<1> QED BY <1>4

\* There is such a function.
LEMMA Recursion ==
  ASSUME NEW O, NEW V, NEW stop, NEW nxt, NEW rank, NEW N, NEW base, NEW step,
         Closing(O, V, stop, nxt, rank, N, base, step)
  PROVE  \E f \in [O -> V] : \A o \in O : Returns(f, o, stop, nxt, base, step)
<1> USE DEF Closing, Returns
<1> DEFINE Good(f, n) == \A o \in O : rank[o] <= n => Returns(f, o, stop, nxt, base, step)
           G == {n \in Nat : \E f \in [O -> V] : Good(f, n)}
<1>1. 0 \in G
  <2>1. Good(base, 0)
    <3> SUFFICES ASSUME NEW o \in O, rank[o] <= 0 PROVE o \in stop
      OBVIOUS
    <3> QED OBVIOUS
  <2> QED BY <2>1
<1>2. ASSUME NEW n \in G PROVE n + 1 \in G
  <2>0. n \in Nat
    OBVIOUS
  <2>1. PICK f \in [O -> V] : Good(f, n)
    OBVIOUS
  <2> DEFINE g == [o \in O |-> IF o \in stop THEN base[o] ELSE step[<<o, f[nxt[o]]>>]]
  <2>2. g \in [O -> V]
    OBVIOUS
  <2>3. ASSUME NEW o \in O, rank[o] <= n + 1, o \notin stop
        PROVE  g[nxt[o]] = f[nxt[o]]
    <3>1. nxt[o] \in O /\ rank[nxt[o]] < rank[o]
      BY <2>3
    <3>2. rank[nxt[o]] \in Nat /\ rank[o] \in Nat
      BY <3>1
    <3>3. rank[nxt[o]] <= n
      BY <2>0, <2>3, <3>1, <3>2
    <3>4. f[nxt[o]] = IF nxt[o] \in stop THEN base[nxt[o]] ELSE step[<<nxt[o], f[nxt[nxt[o]]]>>]
      BY <2>1, <3>1, <3>3
    <3> QED BY <3>1, <3>4
  <2>4. Good(g, n + 1)
    BY <2>3
  <2>5. n + 1 \in Nat
    BY <2>0
  <2> QED BY <2>2, <2>4, <2>5
<1>3. G = Nat
  <2> HIDE DEF G
  <2>1. G \in SUBSET Nat
    BY DEF G
  <2> QED BY <1>1, <1>2, <2>1, Induction
<1>4. PICK f \in [O -> V] : Good(f, N)
  BY <1>3
<1>5. \A o \in O : rank[o] <= N
  OBVIOUS
<1> QED BY <1>4, <1>5

-----------------------------------------------------------------------------
(* Numbers.                                                                *)

\* What the constants are.
LEMMA Numbers ==
  /\ Base \in Nat /\ Base > 1 /\ Heartbeats \subseteq Nat
  /\ Recv \in Nat /\ Recv \notin Heartbeats /\ Pong \in Heartbeats
  /\ NOnline \in Nat /\ NOnline > 0 /\ Counts \subseteq Nat
  /\ Rounds \in Nat /\ MaxMsg \in Nat /\ MaxLoss \in Nat /\ Partial \in BOOLEAN
  /\ MaxMsg < Base * Base * Base * Base
BY FramesAssumption, P2pAssumption

\* A number is its last digit and the others.
LEMMA DivMod ==
  ASSUME NEW n \in Nat
  PROVE  /\ n \div Base \in Nat /\ n % Base \in Nat /\ n % Base \in 0 .. Base - 1
         /\ n = (n % Base) + Base * (n \div Base)
         /\ (Base + (n % Base)) % Base = n % Base
         /\ n < Base => n % Base = n
<1>1. n \div Base \in Nat /\ n % Base \in Nat /\ n % Base \in 0 .. Base - 1 /\ n = (n % Base) + Base * (n \div Base)
  BY Numbers
<1>2. \A k \in 0 .. Base - 1 : (Base + k) % Base = k
  BY Numbers
<1>3. n < Base => n % Base = n
  BY Numbers
<1> QED BY <1>1, <1>2, <1>3

\* The other digits are a smaller number.
LEMMA DivLess ==
  ASSUME NEW n \in Nat, NEW k \in Nat
  PROVE  /\ n < Base * k => n \div Base < k
         /\ n >= Base => n \div Base < n
<1>1. n \div Base \in Nat /\ n % Base \in 0 .. Base - 1 /\ n = (n % Base) + Base * (n \div Base)
  BY DivMod
<1> DEFINE q == n \div Base
<1> HIDE DEF q
<1>2. q \in Nat /\ n >= Base * q
  BY <1>1, Numbers DEF q
<1>3. ASSUME q >= k PROVE Base * q >= Base * k
  BY <1>2, <1>3, Numbers
<1>4. n < Base * k => q < k
  BY <1>2, <1>3, Numbers
<1>5. ASSUME q > 0 PROVE Base * q > q
  BY <1>2, <1>5, Numbers
<1>6. n >= Base => q < n
  BY <1>2, <1>5, Numbers
<1> QED BY <1>4, <1>6 DEF q

-----------------------------------------------------------------------------
(* Lengths and frames.                                                     *)

\* What decodeLength says when the first k bytes are the digits of a length.
Tells(data, k) ==
  /\ k \in 1 .. MaxDigits /\ k <= Len(data)
  /\ \A i \in 1 .. k - 1 : data[i] >= Base
  /\ k < MaxDigits => data[k] < Base

Digit(data, k, i) == IF i <= k THEN data[i] % Base ELSE 0
Spelled(data, k) == Digit(data, k, 1) + Base * (Digit(data, k, 2) + Base * (Digit(data, k, 3) + Base * Digit(data, k, 4)))

\* The least number of a set.
LEMMA LeastIs ==
  ASSUME NEW S \in SUBSET Nat, NEW k \in S, \A i \in S : k <= i
  PROVE  Min(S) = k
<1>1. Min(S) \in S /\ \A y \in S : Min(S) <= y
  BY DEF Min
<1>2. Min(S) \in Nat /\ k \in Nat /\ Min(S) <= k /\ k <= Min(S)
  BY <1>1
<1> QED BY <1>2

\* decodeLength when the first k bytes spell a length (common.go:80-97).
LEMMA DecodeSome ==
  ASSUME NEW data \in Seq(Nat), NEW k, Tells(data, k)
  PROVE  DecodeLength(data) = [has |-> TRUE, size |-> k, value |-> Spelled(data, k)]
<1> DEFINE ends == {i \in DOMAIN data : i <= MaxDigits /\ (data[i] < Base \/ i = MaxDigits)}
<1>1. k \in 1 .. 4 /\ k \in ends /\ \A i \in ends : k <= i
  BY Numbers DEF Tells, MaxDigits
<1>2. Min(ends) = k
  <2> HIDE DEF ends
  <2>1. ends \subseteq Nat
    BY DEF ends
  <2> QED BY <1>1, <2>1, LeastIs
<1>3. ends # {}
  BY <1>1
<1> HIDE DEF ends
<1>4. DecodeLength(data) = [has |-> TRUE, size |-> Min(ends), value |-> Spelled(data, Min(ends))]
  BY <1>3 DEF DecodeLength, ends, Spelled, Digit
<1> QED BY <1>2, <1>4

\* decodeLength when the length is not complete.
LEMMA DecodeNone ==
  ASSUME NEW data \in Seq(Nat), Len(data) < MaxDigits, \A i \in 1 .. Len(data) : data[i] >= Base
  PROVE  DecodeLength(data) = [has |-> FALSE, size |-> 0, value |-> 0]
<1>1. {i \in DOMAIN data : i <= MaxDigits /\ (data[i] < Base \/ i = MaxDigits)} = {}
  BY Numbers DEF MaxDigits
<1> QED BY <1>1 DEF DecodeLength

\* decodeLength on any bytes.
LEMMA DecodeType ==
  ASSUME NEW data \in Seq(Nat)
  PROVE  /\ DecodeLength(data).has \in BOOLEAN
         /\ DecodeLength(data).has => /\ DecodeLength(data).size \in 1 .. Len(data)
                                      /\ DecodeLength(data).value \in Nat
<1>1. CASE \E k \in 1 .. 4 : Tells(data, k)
  <2>1. PICK k \in 1 .. 4 : Tells(data, k)
    BY <1>1
  <2>2. DecodeLength(data) = [has |-> TRUE, size |-> k, value |-> Spelled(data, k)]
    BY <2>1, DecodeSome
  <2>3. k \in 1 .. Len(data)
    BY <2>1 DEF Tells
  <2>4. ASSUME NEW i \in 1 .. 4 PROVE Digit(data, k, i) \in Nat
    <3>1. CASE i <= k
      <4>1. data[i] \in Nat
        BY <2>3, <3>1
      <4>2. \A n \in Nat : n % Base \in Nat
        BY DivMod
      <4> QED BY <3>1, <4>1, <4>2 DEF Digit
    <3>2. CASE ~(i <= k)
      BY <3>2 DEF Digit
    <3> QED BY <3>1, <3>2
  <2>5. \A a, b \in Nat : a + Base * b \in Nat
    BY Numbers
  <2>6. Spelled(data, k) \in Nat
    <3>1. /\ Digit(data, k, 1) \in Nat /\ Digit(data, k, 2) \in Nat
          /\ Digit(data, k, 3) \in Nat /\ Digit(data, k, 4) \in Nat
      BY <2>4
    <3>2. Digit(data, k, 3) + Base * Digit(data, k, 4) \in Nat
      BY <2>5, <3>1
    <3>3. Digit(data, k, 2) + Base * (Digit(data, k, 3) + Base * Digit(data, k, 4)) \in Nat
      BY <2>5, <3>1, <3>2
    <3> QED BY <2>5, <3>1, <3>3 DEF Spelled
  <2> QED BY <2>2, <2>3, <2>6
<1>2. CASE \A k \in 1 .. 4 : ~Tells(data, k)
  <2>1. 1 <= Len(data) => data[1] >= Base
    BY <1>2, Numbers DEF Tells, MaxDigits
  <2>2. 2 <= Len(data) => data[2] >= Base
    BY <1>2, <2>1, Numbers DEF Tells, MaxDigits
  <2>3. 3 <= Len(data) => data[3] >= Base
    BY <1>2, <2>1, <2>2, Numbers DEF Tells, MaxDigits
  <2>4. Len(data) < 4
    BY <1>2, <2>1, <2>2, <2>3, Numbers DEF Tells, MaxDigits
  <2>5. \A i \in 1 .. Len(data) : data[i] >= Base
    <3>1. \A i \in 1 .. Len(data) : i = 1 \/ i = 2 \/ i = 3
      BY <2>4
    <3> QED BY <2>1, <2>2, <2>3, <3>1
  <2>6. DecodeLength(data).has = FALSE
    BY <2>4, <2>5, DecodeNone DEF MaxDigits
  <2> QED BY <2>6
<1> QED BY <1>1, <1>2

\* The bytes behind a header.
LEMMA TailBytes ==
  ASSUME NEW buff \in Seq(Nat), NEW o \in 0 .. Len(buff) - 1
  PROVE  /\ SubSeq(buff, o + 2, Len(buff)) \in Seq(Nat)
         /\ Len(SubSeq(buff, o + 2, Len(buff))) = Len(buff) - o - 1
         /\ \A i \in 1 .. Len(buff) - o - 1 : SubSeq(buff, o + 2, Len(buff))[i] = buff[o + 1 + i]
OBVIOUS

\* Where a frame ends, or that it does not yet.
LEMMA EndType ==
  ASSUME NEW buff \in Seq(Nat), NEW o \in 0 .. Len(buff) - 1
  PROVE  FrameEnd(buff, o) \in o .. Len(buff)
<1> DEFINE data == SubSeq(buff, o + 2, Len(buff))
           len == DecodeLength(data)
<1>1. data \in Seq(Nat)
  BY TailBytes
<1> HIDE DEF data
<1>2. len.has \in BOOLEAN /\ (len.has => len.size \in 1 .. Len(data) /\ len.value \in Nat)
  BY <1>1, DecodeType
<1> HIDE DEF len
<1>3. FrameEnd(buff, o) = IF buff[o + 1] \in Heartbeats THEN o + 1
         ELSE IF len.has /\ o + 1 + len.size + len.value <= Len(buff) THEN o + 1 + len.size + len.value ELSE o
  BY DEF FrameEnd, len, data
<1>4. len.has => len.size \in Nat /\ len.value \in Nat
  BY <1>1, <1>2
<1> QED BY <1>2, <1>3, <1>4

\* The digits of Encode.
DigitsOf(N) == CHOOSE digits : digits = [n \in 0 .. N |->
        IF n < Base THEN <<n>> ELSE <<Base + (n % Base)>> \o digits[n \div Base]]

\* The recursive function that encodes a length is one, and its values are
\* bytes.
LEMMA DigitsExist ==
  ASSUME NEW N \in Nat
  PROVE  /\ DigitsOf(N) \in [0 .. N -> Seq(Nat)]
         /\ \A n \in 0 .. N :
              DigitsOf(N)[n] = IF n < Base THEN <<n>> ELSE <<Base + (n % Base)>> \o DigitsOf(N)[n \div Base]
<1> DEFINE O == 0 .. N
           V == Seq(Nat)
           stop == {n \in O : n < Base}
           nxt  == [n \in O |-> n \div Base]
           rank == [n \in O |-> n]
           base == [n \in O |-> <<n>>]
           step == [x \in O \X V |-> <<Base + (x[1] % Base)>> \o x[2]]
<1>1. \A n \in O : n \div Base \in O /\ (n >= Base => n \div Base < n) /\ Base + (n % Base) \in Nat
  <2> TAKE n \in O
  <2>1. n \in Nat /\ n \div Base \in Nat /\ n % Base \in Nat
    BY DivMod
  <2>2. n >= Base => n \div Base < n
    BY <2>1, DivLess
  <2>3. n < Base => n \div Base = 0
    BY <2>1, Numbers
  <2> QED BY <2>1, <2>2, <2>3, Numbers
<1>2. nxt \in [O -> O] /\ rank \in [O -> 0 .. N] /\ base \in [O -> V]
  BY <1>1
<1>3. step \in [O \X V -> V]
  <2> SUFFICES ASSUME NEW n \in O, NEW s \in V PROVE <<Base + (n % Base)>> \o s \in V
    OBVIOUS
  <2>1. <<Base + (n % Base)>> \in Seq(Nat)
    BY <1>1
  <2> QED BY <2>1
<1>4. \A n \in O : n \notin stop => rank[nxt[n]] < rank[n]
  <2> TAKE n \in O
  <2> HAVE n \notin stop
  <2>1. n >= Base
    BY Numbers
  <2> QED BY <1>1, <2>1
<1>5. Closing(O, V, stop, nxt, rank, N, base, step)
  BY <1>2, <1>3, <1>4 DEF Closing
<1>6. PICK f \in [O -> V] : \A n \in O : Returns(f, n, stop, nxt, base, step)
  <2> HIDE DEF O, V, stop, nxt, rank, base, step
  <2> QED BY <1>5, Recursion
<1> DEFINE P(g) == g = [n \in O |-> IF n < Base THEN <<n>> ELSE <<Base + (n % Base)>> \o g[n \div Base]]
<1>7. \A n \in O : f[n] = IF n < Base THEN <<n>> ELSE <<Base + (n % Base)>> \o f[n \div Base]
  <2> TAKE n \in O
  <2>1. nxt[n] = n \div Base /\ n \div Base \in O /\ f[n \div Base] \in V
    BY <1>1
  <2>2. step[<<n, f[n \div Base]>>] = <<Base + (n % Base)>> \o f[n \div Base]
    BY <2>1
  <2> QED BY <1>6, <2>1, <2>2 DEF Returns
<1>8. P(DigitsOf(N))
  <2>1. DigitsOf(N) = CHOOSE g : P(g)
    BY DEF DigitsOf
  <2>2. P(f)
    BY <1>7
  <2> HIDE DEF P
  <2> QED BY <2>1, <2>2
<1> DEFINE d == DigitsOf(N)
<1> HIDE DEF d
<1>9. d = [n \in O |-> IF n < Base THEN <<n>> ELSE <<Base + (n % Base)>> \o d[n \div Base]]
  BY <1>8 DEF d
<1> DEFINE T == {n \in O : d[n] = f[n]}
<1>10. \A n \in O : n \in stop \/ nxt[n] \in T => n \in T
  <2> TAKE n \in O
  <2>1. n \in stop <=> n < Base
    OBVIOUS
  <2>2. nxt[n] = n \div Base
    OBVIOUS
  <2> QED BY <1>7, <1>9, <2>1, <2>2
<1>11. \A n \in O : n \in T
  <2> HIDE DEF O, V, stop, nxt, rank, base, step, T
  <2> QED BY <1>5, <1>10, CallInduction
<1>12. d = [n \in O |-> d[n]]
  BY <1>9
<1>13. d \in [O -> V]
  BY <1>11, <1>12
<1> QED BY <1>9, <1>13 DEF d

Push(a, t) == <<a>> \o t

\* One byte before others.
LEMMA ConsIs ==
  ASSUME NEW a \in Nat, NEW t \in Seq(Nat)
  PROVE  /\ Push(a, t) \in Seq(Nat) /\ Len(Push(a, t)) = Len(t) + 1 /\ Push(a, t)[1] = a
         /\ \A i \in 1 .. Len(t) : Push(a, t)[i + 1] = t[i]
<1> DEFINE s == <<a>>
           u == s \o t
<1>1. s \in Seq(Nat) /\ Len(s) = 1 /\ s[1] = a
  OBVIOUS
<1>2. Push(a, t) = u
  BY DEF Push
<1> HIDE DEF s
<1>3. /\ u \in Seq(Nat) /\ Len(u) = Len(s) + Len(t)
      /\ \A i \in 1 .. Len(s) + Len(t) : u[i] = IF i <= Len(s) THEN s[i] ELSE t[i - Len(s)]
  BY <1>1, ConcatProperties
<1>4. Len(t) \in Nat
  OBVIOUS
<1> HIDE DEF u
<1>5. u[1] = a /\ Len(u) = Len(t) + 1
  <2>1. 1 \in 1 .. Len(s) + Len(t) /\ 1 <= Len(s)
    BY ONLY <1>1, <1>4
  <2>2. u[1] = s[1]
    BY ONLY <1>3, <2>1
  <2> QED BY ONLY <1>1, <1>3, <1>4, <2>2
<1>6. ASSUME NEW i \in 1 .. Len(t) PROVE u[i + 1] = t[i]
  <2> DEFINE x == i + 1
  <2>1. x \in 1 .. Len(s) + Len(t) /\ ~(x <= Len(s)) /\ x - Len(s) = i
    BY ONLY <1>1, <1>4, i \in 1 .. Len(t)
  <2> HIDE DEF x
  <2>2. u[x] = IF x <= Len(s) THEN s[x] ELSE t[x - Len(s)]
    BY ONLY <1>3, <2>1
  <2>3. u[x] = t[i]
    BY ONLY <2>1, <2>2
  <2> QED BY ONLY <2>3 DEF x
<1> QED BY <1>2, <1>3, <1>5, <1>6

\* The same, byte by byte, for the at most four digits of a length.
LEMMA ConsFew ==
  ASSUME NEW a \in Nat, NEW t \in Seq(Nat)
  PROVE  /\ Push(a, t) \in Seq(Nat) /\ Push(a, t)[1] = a
         /\ Len(t) = 1 => Len(Push(a, t)) = 2 /\ Push(a, t)[2] = t[1]
         /\ Len(t) = 2 => Len(Push(a, t)) = 3 /\ Push(a, t)[2] = t[1] /\ Push(a, t)[3] = t[2]
         /\ Len(t) = 3 => Len(Push(a, t)) = 4 /\ Push(a, t)[2] = t[1] /\ Push(a, t)[3] = t[2] /\ Push(a, t)[4] = t[3]
<1> DEFINE c == Push(a, t)
           l == Len(t)
<1>1. \A i \in 1 .. l : c[i + 1] = t[i]
  BY ConsIs
<1>8. c \in Seq(Nat) /\ Len(c) = Len(t) + 1 /\ c[1] = a
  BY ConsIs
<1>9. l \in Nat
  OBVIOUS
<1>2. c \in Seq(Nat) /\ Len(c) = l + 1 /\ c[1] = a /\ l \in Nat
  BY ONLY <1>8, <1>9
<1> HIDE DEF c, l
<1>3. /\ 1 \in 1 .. l => c[2] = t[1]
      /\ 2 \in 1 .. l => c[3] = t[2]
      /\ 3 \in 1 .. l => c[4] = t[3]
  <2>1. 1 \in 1 .. l => c[1 + 1] = t[1]
    BY ONLY <1>1
  <2>2. 2 \in 1 .. l => c[2 + 1] = t[2]
    BY ONLY <1>1
  <2>3. 3 \in 1 .. l => c[3 + 1] = t[3]
    BY ONLY <1>1
  <2>4. 1 + 1 = 2 /\ 2 + 1 = 3 /\ 3 + 1 = 4
    OBVIOUS
  <2> QED BY ONLY <2>1, <2>2, <2>3, <2>4
<1>7. /\ l = 1 => 1 \in 1 .. l /\ l + 1 = 2
      /\ l = 2 => 1 \in 1 .. l /\ 2 \in 1 .. l /\ l + 1 = 3
      /\ l = 3 => 1 \in 1 .. l /\ 2 \in 1 .. l /\ 3 \in 1 .. l /\ l + 1 = 4
  OBVIOUS
<1>4. l = 1 => Len(c) = 2 /\ c[2] = t[1]
  BY ONLY <1>2, <1>3, <1>7
<1>5. l = 2 => Len(c) = 3 /\ c[2] = t[1] /\ c[3] = t[2]
  BY ONLY <1>2, <1>3, <1>7
<1>6. l = 3 => Len(c) = 4 /\ c[2] = t[1] /\ c[3] = t[2] /\ c[4] = t[3]
  BY ONLY <1>2, <1>3, <1>7
<1> QED BY ONLY <1>2, <1>4, <1>5, <1>6 DEF c, l

\* The digits of a length, and the length itself.
LEMMA DigitsSpell ==
  ASSUME NEW N \in Nat, N < Base * Base * Base * Base
  PROVE  LET d == DigitsOf(N)[N]
         IN  d \in Seq(Nat) /\ Tells(d, Len(d)) /\ Spelled(d, Len(d)) = N
<1> DEFINE D == DigitsOf(N)
           d == D[N]
           n1 == N \div Base
           n2 == n1 \div Base
           n3 == n2 \div Base
<1>1. D \in [0 .. N -> Seq(Nat)]
  BY DigitsExist
<1>2. \A n \in 0 .. N : D[n] = IF n < Base THEN <<n>> ELSE <<Base + (n % Base)>> \o D[n \div Base]
  BY DigitsExist
<1>3. \A n \in Nat : n \div Base \in Nat /\ n % Base \in Nat /\ (n < Base => n % Base = n)
                     /\ n = (n % Base) + Base * (n \div Base) /\ (Base + (n % Base)) % Base = n % Base
  BY DivMod
<1>4. \A n \in 0 .. N : n \div Base \in 0 .. N
  <2> TAKE n \in 0 .. N
  <2>1. n \div Base \in Nat /\ (n >= Base => n \div Base < n)
    BY DivMod, DivLess
  <2>2. n < Base => n \div Base = 0
    BY <2>1, Numbers
  <2> QED BY <2>1, <2>2, Numbers
<1>5. N \in 0 .. N /\ n1 \in 0 .. N /\ n2 \in 0 .. N /\ n3 \in 0 .. N
  BY <1>4
<1>6. n3 < Base
  <2>1. Base * Base * Base * Base = Base * (Base * Base * Base) /\ Base * Base * Base \in Nat
    BY Numbers
  <2>2. n1 < Base * Base * Base
    BY <2>1, DivLess
  <2>3. Base * Base * Base = Base * (Base * Base) /\ Base * Base \in Nat
    BY Numbers
  <2>4. n2 < Base * Base
    BY <1>5, <2>2, <2>3, DivLess
  <2> QED BY <1>5, <2>4, Numbers, DivLess
<1> DEFINE r0 == N % Base
           r1 == n1 % Base
           r2 == n2 % Base
<1>7. /\ r0 \in Nat /\ r1 \in Nat /\ r2 \in Nat
      /\ N = r0 + Base * n1 /\ n1 = r1 + Base * n2 /\ n2 = r2 + Base * n3
      /\ (Base + r0) % Base = r0 /\ (Base + r1) % Base = r1 /\ (Base + r2) % Base = r2
      /\ N < Base => N % Base = N
      /\ n1 < Base => n1 % Base = n1
      /\ n2 < Base => n2 % Base = n2
      /\ n3 < Base => n3 % Base = n3
  BY <1>3, <1>5
<1>8. /\ N < Base => D[N] = <<N>>
      /\ n1 < Base => D[n1] = <<n1>>
      /\ n2 < Base => D[n2] = <<n2>>
      /\ n3 < Base => D[n3] = <<n3>>
      /\ ~(N < Base) => D[N] = Push(Base + r0, D[n1])
      /\ ~(n1 < Base) => D[n1] = Push(Base + r1, D[n2])
      /\ ~(n2 < Base) => D[n2] = Push(Base + r2, D[n3])
  BY <1>2, <1>5 DEF Push
<1>9. N \in Nat /\ n1 \in Nat /\ n2 \in Nat /\ n3 \in Nat
  BY <1>5
<1>14. Base + r0 \in Nat /\ Base + r1 \in Nat /\ Base + r2 \in Nat
  BY <1>7, <1>9, Numbers
<1> HIDE DEF D, n1, n2, n3, r0, r1, r2
<1>10. CASE N < Base
  <2>1. D[N] = <<N>>
    BY <1>8, <1>10
  <2>2. Tells(<<N>>, 1)
    BY <1>10 DEF Tells, MaxDigits
  <2>3. Spelled(<<N>>, 1) = N
    <3>1. Digit(<<N>>, 1, 1) = N /\ Digit(<<N>>, 1, 2) = 0 /\ Digit(<<N>>, 1, 3) = 0 /\ Digit(<<N>>, 1, 4) = 0
      BY <1>7, <1>10 DEF Digit
    <3> QED BY <3>1, Numbers DEF Spelled
  <2> QED BY <2>1, <2>2, <2>3 DEF D
<1> DEFINE Is(s, n) == s \in Seq(Nat) /\ Len(s) = n
<1>15. ASSUME NEW n \in Nat PROVE Is(<<n>>, 1) /\ <<n>>[1] = n
  OBVIOUS
<1>11. CASE ~(N < Base) /\ n1 < Base
  <2> DEFINE e == D[N]
  <2>1. Is(e, 2) /\ e[1] = Base + r0 /\ e[2] = n1
    <3>1. D[N] = Push(Base + r0, D[n1]) /\ Is(D[n1], 1) /\ D[n1][1] = n1
      BY <1>8, <1>9, <1>11, <1>15
    <3> QED BY <1>14, <3>1, ConsFew
  <2> HIDE DEF e
  <2>2. Tells(e, 2)
    <3>1. e[1] >= Base /\ e[2] < Base /\ Len(e) = 2
      BY ONLY <1>7, <1>11, <2>1, Numbers
    <3>2. \A i \in 1 .. 2 - 1 : e[i] >= Base
      BY ONLY <3>1
    <3> QED BY ONLY <3>1, <3>2 DEF Tells, MaxDigits
  <2>3. Spelled(e, 2) = N
    <3>1. Digit(e, 2, 1) = r0 /\ Digit(e, 2, 2) = n1 /\ Digit(e, 2, 3) = 0 /\ Digit(e, 2, 4) = 0
      BY <1>7, <1>11, <2>1 DEF Digit
    <3>2. Spelled(e, 2) = r0 + Base * n1
      BY <1>7, <1>9, <3>1, Numbers DEF Spelled
    <3> QED BY <1>7, <3>2
  <2> QED BY <2>1, <2>2, <2>3 DEF D, e
<1>12. CASE ~(N < Base) /\ ~(n1 < Base) /\ n2 < Base
  <2> DEFINE e == D[N]
  <2>1. Is(e, 3) /\ e[1] = Base + r0 /\ e[2] = Base + r1 /\ e[3] = n2
    <3>1. D[n1] = Push(Base + r1, D[n2]) /\ Is(D[n2], 1) /\ D[n2][1] = n2
      BY <1>8, <1>9, <1>12, <1>15
    <3>2. Is(D[n1], 2) /\ D[n1][1] = Base + r1 /\ D[n1][2] = n2
      BY <1>14, <3>1, ConsFew
    <3>3. D[N] = Push(Base + r0, D[n1])
      BY <1>8, <1>12
    <3> QED BY <1>14, <3>2, <3>3, ConsFew
  <2> HIDE DEF e
  <2>2. Tells(e, 3)
    <3>1. e[1] >= Base /\ e[2] >= Base /\ e[3] < Base
      BY ONLY <1>7, <1>12, <2>1, Numbers
    <3>2. Len(e) = 3
      BY ONLY <2>1
    <3>3. \A i \in 1 .. 3 - 1 : i = 1 \/ i = 2
      OBVIOUS
    <3>4. \A i \in 1 .. 3 - 1 : e[i] >= Base
      BY ONLY <3>1, <3>3
    <3> QED BY ONLY <3>1, <3>2, <3>4 DEF Tells, MaxDigits
  <2>3. Spelled(e, 3) = N
    <3>1. Digit(e, 3, 1) = r0 /\ Digit(e, 3, 2) = r1 /\ Digit(e, 3, 3) = n2 /\ Digit(e, 3, 4) = 0
      BY <1>7, <1>12, <2>1 DEF Digit
    <3>2. Spelled(e, 3) = r0 + Base * (r1 + Base * n2)
      BY <1>7, <1>9, <3>1, Numbers DEF Spelled
    <3> QED BY <1>7, <3>2
  <2> QED BY <2>1, <2>2, <2>3 DEF D, e
<1>13. CASE ~(N < Base) /\ ~(n1 < Base) /\ ~(n2 < Base)
  <2> DEFINE e == D[N]
  <2>1. Is(e, 4) /\ e[1] = Base + r0 /\ e[2] = Base + r1 /\ e[3] = Base + r2 /\ e[4] = n3
    <3>1. D[n2] = Push(Base + r2, D[n3]) /\ Is(D[n3], 1) /\ D[n3][1] = n3
      BY <1>6, <1>8, <1>9, <1>13, <1>15
    <3>2. Is(D[n2], 2) /\ D[n2][1] = Base + r2 /\ D[n2][2] = n3
      BY <1>14, <3>1, ConsFew
    <3>3. D[n1] = Push(Base + r1, D[n2])
      BY <1>8, <1>13
    <3>4. Is(D[n1], 3) /\ D[n1][1] = Base + r1 /\ D[n1][2] = Base + r2 /\ D[n1][3] = n3
      BY <1>14, <3>2, <3>3, ConsFew
    <3>5. D[N] = Push(Base + r0, D[n1])
      BY <1>8, <1>13
    <3> QED BY <1>14, <3>4, <3>5, ConsFew
  <2> HIDE DEF e
  <2>2. Tells(e, 4)
    <3>1. e[1] >= Base /\ e[2] >= Base /\ e[3] >= Base
      BY ONLY <1>7, <2>1, Numbers
    <3>2. Len(e) = 4
      BY ONLY <2>1
    <3>3. \A i \in 1 .. 4 - 1 : i = 1 \/ i = 2 \/ i = 3
      OBVIOUS
    <3>4. \A i \in 1 .. 4 - 1 : e[i] >= Base
      BY ONLY <3>1, <3>3
    <3> QED BY ONLY <3>2, <3>4 DEF Tells, MaxDigits
  <2>3. Spelled(e, 4) = N
    <3>1. Digit(e, 4, 1) = r0 /\ Digit(e, 4, 2) = r1 /\ Digit(e, 4, 3) = r2 /\ Digit(e, 4, 4) = n3
      BY <1>6, <1>7, <1>13, <2>1 DEF Digit
    <3>2. Spelled(e, 4) = r0 + Base * (r1 + Base * (r2 + Base * n3))
      BY <3>1 DEF Spelled
    <3> QED BY <1>7, <3>2
  <2> QED BY <2>1, <2>2, <2>3 DEF D, e
<1> QED BY <1>9, <1>10, <1>11, <1>12, <1>13, Numbers

Items == {PONG} \cup Msgs

\* FrameEnd finds where f ends, whatever follows it, and that a first part of
\* it is not complete.
Agrees(buff, o, f) == \A j \in 1 .. Len(f) : o + j <= Len(buff) => buff[o + j] = f[j]
EndsRight(f) ==
  \A buff \in Seq(Nat) : \A o \in 0 .. Len(buff) - 1 :
    Agrees(buff, o, f) => FrameEnd(buff, o) = IF o + Len(f) <= Len(buff) THEN o + Len(f) ELSE o

\* The frame of a pong is complete with its header.
LEMMA PongFrame ==
  /\ Frame(PONG) \in Seq(Nat) /\ Len(Frame(PONG)) = 1 /\ Frame(PONG)[1] = Pong
  /\ EndsRight(Frame(PONG))
<1>1. Frame(PONG) = <<Pong>> /\ Pong \in Nat
  BY Numbers DEF Frame
<1>2. Frame(PONG) \in Seq(Nat) /\ Len(Frame(PONG)) = 1 /\ Frame(PONG)[1] = Pong
  BY <1>1
<1>3. ASSUME NEW buff \in Seq(Nat), NEW o \in 0 .. Len(buff) - 1, Agrees(buff, o, Frame(PONG))
      PROVE  FrameEnd(buff, o) = o + 1 /\ o + 1 <= Len(buff)
  <2>1. o + 1 <= Len(buff)
    OBVIOUS
  <2>2. buff[o + 1] = Pong
    BY <1>2, <1>3, <2>1 DEF Agrees
  <2> QED BY <2>1, <2>2, Numbers DEF FrameEnd
<1> QED BY <1>2, <1>3 DEF EndsRight

\* The frame of a message: FrameEnd finds its end when it is complete, and
\* waits for the other bytes when it is not, wherever the cut is.
LEMMA MessageFrame ==
  ASSUME NEW m \in Msgs
  PROVE  /\ Frame(m) \in Seq(Nat) /\ Len(Frame(m)) > 0 /\ Frame(m)[1] = Recv
         /\ EndsRight(Frame(m))
<1>1. m \in Nat /\ m < Base * Base * Base * Base /\ m # PONG
  <2>1. m \in Nat /\ m <= MaxMsg /\ m # PONG
    BY Numbers DEF Msgs, PONG
  <2>2. Base * Base * Base * Base \in Nat
    BY Numbers
  <2> QED BY <2>1, <2>2, Numbers
<1> DEFINE d == DigitsOf(m)[m]
           k == Len(d)
           body == [i \in 1 .. m |-> m]
           f == Push(Recv, d) \o body
<1>2. d \in Seq(Nat) /\ Tells(d, k) /\ Spelled(d, k) = m
  BY <1>1, DigitsSpell
<1>3. body \in Seq(Nat) /\ Len(body) = m
  BY <1>1
<1>4. Frame(m) = f
  BY <1>1, <1>3 DEF Frame, Encode, DigitsOf, Push
<1>5. Recv \in Nat /\ Recv \notin Heartbeats
  BY Numbers
<1> HIDE DEF d, body
<1>6. Push(Recv, d) \in Seq(Nat) /\ Len(Push(Recv, d)) = k + 1 /\ k \in Nat /\ k > 0
      /\ Push(Recv, d)[1] = Recv /\ \A i \in 1 .. k : Push(Recv, d)[i + 1] = d[i]
  <2>1. k \in 1 .. 4
    BY <1>2 DEF Tells, MaxDigits
  <2>2. /\ Push(Recv, d) \in Seq(Nat) /\ Len(Push(Recv, d)) = Len(d) + 1 /\ Push(Recv, d)[1] = Recv
        /\ \A i \in 1 .. Len(d) : Push(Recv, d)[i + 1] = d[i]
    BY <1>2, <1>5, ConsIs
  <2> QED BY <2>1, <2>2
<1>12. /\ k \in 1 .. 4 /\ Tells(d, k) /\ Spelled(d, k) = m
       /\ \A i \in 1 .. k - 1 : d[i] >= Base
       /\ k < 4 => d[k] < Base
  BY <1>2 DEF Tells, MaxDigits
<1>7. /\ f \in Seq(Nat) /\ Len(f) = k + 1 + m
      /\ \A i \in 1 .. k + 1 + m : f[i] = IF i <= k + 1 THEN Push(Recv, d)[i] ELSE body[i - k - 1]
  <2> DEFINE c == Push(Recv, d)
  <2>1. c \in Seq(Nat) /\ Len(c) = k + 1
    BY <1>6
  <2> HIDE DEF c, k
  <2>2. /\ c \o body \in Seq(Nat) /\ Len(c \o body) = Len(c) + Len(body)
        /\ \A i \in 1 .. Len(c) + Len(body) : (c \o body)[i] = IF i <= Len(c) THEN c[i] ELSE body[i - Len(c)]
    BY <1>3, <2>1, ConcatProperties
  <2>3. k \in Nat
    BY <1>6
  <2>4. \A i \in 1 .. k + 1 + m : i - Len(c) = i - k - 1
    BY <2>1, <2>3
  <2> QED BY <1>1, <1>3, <2>1, <2>2, <2>3, <2>4 DEF c
<1> HIDE DEF f, k
<1>8. f[1] = Recv /\ \A i \in 1 .. k : f[i + 1] = d[i]
  BY <1>1, <1>6, <1>7
<1>9. ASSUME NEW buff \in Seq(Nat), NEW o \in 0 .. Len(buff) - 1, Agrees(buff, o, f)
      PROVE  FrameEnd(buff, o) = IF o + Len(f) <= Len(buff) THEN o + Len(f) ELSE o
  <2> DEFINE data == SubSeq(buff, o + 2, Len(buff))
  <2>1. data \in Seq(Nat) /\ Len(data) = Len(buff) - o - 1 /\ \A i \in 1 .. Len(buff) - o - 1 : data[i] = buff[o + 1 + i]
    BY TailBytes
  <2>2. buff[o + 1] = Recv
    <3>1. 1 \in 1 .. Len(f) /\ o + 1 <= Len(buff)
      BY <1>1, <1>6, <1>7
    <3> QED BY <1>8, <1>9, <3>1 DEF Agrees
  <2>3. ASSUME NEW i \in 1 .. k, i <= Len(data) PROVE data[i] = d[i]
    <3>1. i + 1 \in 1 .. Len(f) /\ o + (i + 1) <= Len(buff) /\ i \in 1 .. Len(buff) - o - 1 /\ o + 1 + i = o + (i + 1)
      BY <1>1, <1>6, <1>7, <2>1, <2>3
    <3>2. buff[o + (i + 1)] = f[i + 1]
      BY <1>9, <3>1 DEF Agrees
    <3> QED BY <1>8, <2>1, <3>1, <3>2
  <2> DEFINE len == DecodeLength(data)
  <2>4. FrameEnd(buff, o) = IF len.has /\ o + 1 + len.size + len.value <= Len(buff)
                            THEN o + 1 + len.size + len.value ELSE o
    BY <1>5, <2>2 DEF FrameEnd
  <2> HIDE DEF data
  <2>5. CASE Len(data) >= k
    <3>1. \A i \in 1 .. k : data[i] = d[i]
      <4>1. Len(data) \in Nat /\ k \in Nat
        BY <1>6, <2>1
      <4>2. \A i \in 1 .. k : i <= Len(data)
        BY <2>5, <4>1
      <4> QED BY <2>3, <4>2
    <3>2. Tells(data, k)
      <4>1. k \in 1 .. 4 /\ k <= Len(data)
        BY <1>12, <2>5
      <4>2. \A i \in 1 .. k - 1 : data[i] >= Base
        <5>1. \A i \in 1 .. k - 1 : i \in 1 .. k
          BY <4>1
        <5> QED BY <1>12, <3>1, <5>1
      <4>3. k < 4 => data[k] < Base
        BY <1>12, <3>1, <4>1
      <4> QED BY <4>1, <4>2, <4>3 DEF Tells, MaxDigits
    <3>3. Spelled(data, k) = Spelled(d, k)
      <4>1. \A i \in 1 .. 4 : Digit(data, k, i) = Digit(d, k, i)
        BY <1>6, <3>1 DEF Digit
      <4>2. /\ Digit(data, k, 1) = Digit(d, k, 1) /\ Digit(data, k, 2) = Digit(d, k, 2)
            /\ Digit(data, k, 3) = Digit(d, k, 3) /\ Digit(data, k, 4) = Digit(d, k, 4)
        BY <4>1
      <4> QED BY <4>2 DEF Spelled
    <3>4. len = [has |-> TRUE, size |-> k, value |-> m]
      BY <1>12, <2>1, <3>2, <3>3, DecodeSome
    <3>5. o + 1 + k + m = o + Len(f) /\ o \in Nat
      BY <1>1, <1>6, <1>7
    <3> QED BY <2>4, <3>4, <3>5
  <2>6. CASE Len(data) < k
    <3>1. Len(data) < MaxDigits /\ \A i \in 1 .. Len(data) : data[i] >= Base
      <4>1. k <= MaxDigits /\ \A i \in 1 .. k - 1 : d[i] >= Base
        BY <1>12 DEF MaxDigits
      <4>2. \A i \in 1 .. Len(data) : i \in 1 .. k - 1 /\ i \in 1 .. k /\ i <= Len(data)
        BY <1>6, <2>1, <2>6
      <4>3. Len(data) < MaxDigits
        BY <1>6, <2>1, <2>6, <4>1 DEF MaxDigits
      <4> QED BY <2>3, <4>1, <4>2, <4>3
    <3>4. len = [has |-> FALSE, size |-> 0, value |-> 0]
      BY <2>1, <3>1, DecodeNone
    <3>2. len.has = FALSE
      BY <3>4
    <3>3. ~(o + Len(f) <= Len(buff))
      BY <1>1, <1>6, <1>7, <2>1, <2>6
    <3> QED BY <2>4, <3>2, <3>3
  <2> QED BY <1>6, <2>1, <2>5, <2>6
<1>10. EndsRight(f)
  BY <1>9 DEF EndsRight
<1>11. Len(f) > 0
  BY <1>1, <1>6, <1>7
<1> QED BY <1>4, <1>7, <1>8, <1>10, <1>11

\* What a frame is like.
LEMMA Frames1 ==
  ASSUME NEW m \in Items
  PROVE  /\ Frame(m) \in Seq(Nat) /\ Len(Frame(m)) \in Nat /\ Len(Frame(m)) > 0
         /\ EndsRight(Frame(m))
         /\ Frame(m)[1] = Recv <=> m # PONG
<1>1. CASE m = PONG
  BY <1>1, PongFrame, Numbers
<1>2. CASE m \in Msgs
  <2>1. m # PONG
    BY <1>2 DEF Msgs, PONG
  <2>2. Frame(m) \in Seq(Nat) /\ Len(Frame(m)) > 0 /\ Frame(m)[1] = Recv /\ EndsRight(Frame(m))
    BY <1>2, MessageFrame
  <2> QED BY <2>1, <2>2
<1> QED BY <1>1, <1>2 DEF Items

-----------------------------------------------------------------------------
(* parse and the loop of handlePacketDatas, on any bytes.                  *)

Halts(buff, o) == o = Len(buff) \/ FrameEnd(buff, o) = o

CutOf(buff) == CHOOSE cut : cut = [o \in 0 .. Len(buff) |->
        IF o = Len(buff) \/ FrameEnd(buff, o) = o THEN o ELSE cut[FrameEnd(buff, o)]]

\* FrameEnd goes on until it halts.
LEMMA EndsClose ==
  ASSUME NEW buff \in Seq(Nat), NEW o \in 0 .. Len(buff), ~Halts(buff, o)
  PROVE  FrameEnd(buff, o) \in 0 .. Len(buff) /\ FrameEnd(buff, o) > o
<1>1. Len(buff) \in Nat /\ o \in 0 .. Len(buff) - 1 /\ FrameEnd(buff, o) # o
  BY DEF Halts
<1>2. FrameEnd(buff, o) \in o .. Len(buff)
  BY <1>1, EndType
<1> QED BY <1>1, <1>2

\* The recursive function of parse is one.
LEMMA CutExists ==
  ASSUME NEW buff \in Seq(Nat)
  PROVE  /\ CutOf(buff) \in [0 .. Len(buff) -> 0 .. Len(buff)]
         /\ \A o \in 0 .. Len(buff) :
              CutOf(buff)[o] = IF Halts(buff, o) THEN o ELSE CutOf(buff)[FrameEnd(buff, o)]
<1> DEFINE O == 0 .. Len(buff)
           stop == {o \in O : Halts(buff, o)}
           nxt  == [o \in O |-> IF Halts(buff, o) THEN o ELSE FrameEnd(buff, o)]
           rank == [o \in O |-> Len(buff) - o]
           base == [o \in O |-> o]
           step == [x \in O \X O |-> x[2]]
<1>1. \A o \in O : ~Halts(buff, o) => FrameEnd(buff, o) \in O /\ FrameEnd(buff, o) > o
  BY EndsClose
<1>2. Len(buff) \in Nat /\ nxt \in [O -> O] /\ rank \in [O -> 0 .. Len(buff)] /\ base \in [O -> O] /\ step \in [O \X O -> O]
  BY <1>1
<1>3. \A o \in O : o \notin stop => rank[nxt[o]] < rank[o]
  <2> TAKE o \in O
  <2> HAVE o \notin stop
  <2>1. nxt[o] = FrameEnd(buff, o) /\ nxt[o] \in O /\ nxt[o] > o
    BY <1>1
  <2> QED BY <1>2, <2>1
<1>4. Closing(O, O, stop, nxt, rank, Len(buff), base, step)
  BY <1>2, <1>3 DEF Closing
<1>5. PICK f \in [O -> O] : \A o \in O : Returns(f, o, stop, nxt, base, step)
  <2> HIDE DEF O, stop, nxt, rank, base, step
  <2> QED BY <1>4, Recursion
<1> DEFINE P(g) == g = [o \in O |-> IF o = Len(buff) \/ FrameEnd(buff, o) = o THEN o ELSE g[FrameEnd(buff, o)]]
<1>6. \A o \in O : f[o] = IF Halts(buff, o) THEN o ELSE f[FrameEnd(buff, o)]
  <2> TAKE o \in O
  <2>1. CASE Halts(buff, o)
    BY <1>5, <2>1 DEF Returns
  <2>2. CASE ~Halts(buff, o)
    <3>1. nxt[o] = FrameEnd(buff, o) /\ nxt[o] \in O /\ f[nxt[o]] \in O
      BY <1>1, <2>2
    <3> QED BY <1>5, <2>2, <3>1 DEF Returns
  <2> QED BY <2>1, <2>2
<1>7. P(f)
  BY <1>6 DEF Halts
<1> DEFINE d == CutOf(buff)
<1>8. P(d)
  <2>1. d = CHOOSE g : P(g)
    BY DEF CutOf
  <2> HIDE DEF P, d
  <2> QED BY <1>7, <2>1
<1> HIDE DEF d
<1>9. d = [o \in O |-> IF Halts(buff, o) THEN o ELSE d[FrameEnd(buff, o)]]
  BY <1>8 DEF Halts
<1> DEFINE T == {o \in O : d[o] = f[o]}
<1>10. \A o \in O : o \in stop \/ nxt[o] \in T => o \in T
  <2> TAKE o \in O
  <2>1. o \in stop <=> Halts(buff, o)
    OBVIOUS
  <2>2. ~Halts(buff, o) => nxt[o] = FrameEnd(buff, o)
    OBVIOUS
  <2>3. d[o] = IF Halts(buff, o) THEN o ELSE d[FrameEnd(buff, o)]
    BY <1>9
  <2> QED BY <1>6, <2>1, <2>2, <2>3
<1>11. \A o \in O : o \in T
  <2> HIDE DEF O, stop, nxt, rank, base, step, T
  <2> QED BY <1>4, <1>10, CallInduction
<1>12. d = [o \in O |-> d[o]]
  BY <1>9
<1>13. d \in [O -> O]
  BY <1>11, <1>12
<1> QED BY <1>9, <1>13 DEF d

FromOf(data) == CHOOSE from : from = [o \in 0 .. Len(data) |->
        IF o = Len(data) \/ FrameEnd(data, o) = o THEN << >>
        ELSE <<SubSeq(data, o + 1, FrameEnd(data, o))>> \o from[FrameEnd(data, o)]]

\* The recursive function of handlePacketDatas is one.
LEMMA FromExists ==
  ASSUME NEW data \in Seq(Nat)
  PROVE  /\ FromOf(data) \in [0 .. Len(data) -> Seq(Seq(Nat))]
         /\ \A o \in 0 .. Len(data) :
              FromOf(data)[o] = IF Halts(data, o) THEN << >>
                 ELSE <<SubSeq(data, o + 1, FrameEnd(data, o))>> \o FromOf(data)[FrameEnd(data, o)]
<1> DEFINE O == 0 .. Len(data)
           V == Seq(Seq(Nat))
           stop == {o \in O : Halts(data, o)}
           nxt  == [o \in O |-> IF Halts(data, o) THEN o ELSE FrameEnd(data, o)]
           rank == [o \in O |-> Len(data) - o]
           base == [o \in O |-> << >>]
           step == [x \in O \X V |-> IF Halts(data, x[1]) THEN << >> ELSE <<SubSeq(data, x[1] + 1, FrameEnd(data, x[1]))>> \o x[2]]
<1>1. \A o \in O : ~Halts(data, o) => FrameEnd(data, o) \in O /\ FrameEnd(data, o) > o
  BY EndsClose
<1>2. Len(data) \in Nat /\ nxt \in [O -> O] /\ rank \in [O -> 0 .. Len(data)] /\ base \in [O -> V]
  BY <1>1
<1>14. step \in [O \X V -> V]
  <2> SUFFICES ASSUME NEW o \in O, NEW s \in V, ~Halts(data, o)
               PROVE  <<SubSeq(data, o + 1, FrameEnd(data, o))>> \o s \in V
    OBVIOUS
  <2>1. SubSeq(data, o + 1, FrameEnd(data, o)) \in Seq(Nat)
    BY <1>1, <1>2
  <2> DEFINE e == SubSeq(data, o + 1, FrameEnd(data, o))
  <2> HIDE DEF e
  <2>2. <<e>> \in Seq(Seq(Nat))
    BY <2>1 DEF e
  <2> QED BY <2>2, ConcatProperties DEF e
<1>3. \A o \in O : o \notin stop => rank[nxt[o]] < rank[o]
  <2> TAKE o \in O
  <2> HAVE o \notin stop
  <2>1. nxt[o] = FrameEnd(data, o) /\ nxt[o] \in O /\ nxt[o] > o
    BY <1>1
  <2> QED BY <1>2, <2>1
<1>4. Closing(O, V, stop, nxt, rank, Len(data), base, step)
  BY <1>2, <1>3, <1>14 DEF Closing
<1>5. PICK f \in [O -> V] : \A o \in O : Returns(f, o, stop, nxt, base, step)
  <2> HIDE DEF O, V, stop, nxt, rank, base, step
  <2> QED BY <1>4, Recursion
<1> DEFINE P(g) == g = [o \in O |-> IF o = Len(data) \/ FrameEnd(data, o) = o THEN << >>
                              ELSE <<SubSeq(data, o + 1, FrameEnd(data, o))>> \o g[FrameEnd(data, o)]]
<1>6. \A o \in O : f[o] = IF Halts(data, o) THEN << >>
                          ELSE <<SubSeq(data, o + 1, FrameEnd(data, o))>> \o f[FrameEnd(data, o)]
  <2> TAKE o \in O
  <2>1. CASE Halts(data, o)
    BY <1>5, <2>1 DEF Returns
  <2>2. CASE ~Halts(data, o)
    <3>1. nxt[o] = FrameEnd(data, o) /\ nxt[o] \in O /\ f[nxt[o]] \in V
      BY <1>1, <2>2
    <3>2. step[<<o, f[nxt[o]]>>] = <<SubSeq(data, o + 1, FrameEnd(data, o))>> \o f[nxt[o]]
      BY <2>2, <3>1
    <3> QED BY <1>5, <2>2, <3>1, <3>2 DEF Returns
  <2> QED BY <2>1, <2>2
<1>7. P(f)
  BY <1>6 DEF Halts
<1> DEFINE d == FromOf(data)
<1>8. P(d)
  <2>1. d = CHOOSE g : P(g)
    BY DEF FromOf
  <2> HIDE DEF P, d
  <2> QED BY <1>7, <2>1
<1> HIDE DEF d
<1>9. d = [o \in O |-> IF Halts(data, o) THEN << >>
                       ELSE <<SubSeq(data, o + 1, FrameEnd(data, o))>> \o d[FrameEnd(data, o)]]
  BY <1>8 DEF Halts
<1> DEFINE T == {o \in O : d[o] = f[o]}
<1>10. \A o \in O : o \in stop \/ nxt[o] \in T => o \in T
  <2> TAKE o \in O
  <2>1. o \in stop <=> Halts(data, o)
    OBVIOUS
  <2>2. ~Halts(data, o) => nxt[o] = FrameEnd(data, o)
    OBVIOUS
  <2>3. d[o] = IF Halts(data, o) THEN << >>
               ELSE <<SubSeq(data, o + 1, FrameEnd(data, o))>> \o d[FrameEnd(data, o)]
    BY <1>9
  <2> QED BY <1>6, <2>1, <2>2, <2>3
<1>11. \A o \in O : o \in T
  <2> HIDE DEF O, V, stop, nxt, rank, base, step, T
  <2> QED BY <1>4, <1>10, CallInduction
<1>12. d = [o \in O |-> d[o]]
  BY <1>9
<1>13. d \in [O -> V]
  BY <1>11, <1>12
<1> QED BY <1>9, <1>13 DEF d

\* parse and handlePacketDatas by these functions.
LEMMA ParsePackets ==
  ASSUME NEW buff
  PROVE  /\ Parse(buff) = [data |-> SubSeq(buff, 1, CutOf(buff)[0]),
                           rest |-> SubSeq(buff, CutOf(buff)[0] + 1, Len(buff))]
         /\ Packets(buff) = FromOf(buff)[0]
BY DEF Parse, Packets, CutOf, FromOf

-----------------------------------------------------------------------------
(* A stream of bytes that consists of frames.                              *)

\* The frames of the items of r make up S; the i-th of them ends at pos[i].
Laid(S, r, pos) ==
  /\ pos \in [0 .. Len(r) -> Nat] /\ pos[0] = 0 /\ pos[Len(r)] = Len(S)
  /\ \A i \in 1 .. Len(r) :
       /\ pos[i] = pos[i - 1] + Len(Frame(r[i]))
       /\ \A j \in 1 .. Len(Frame(r[i])) : S[pos[i - 1] + j] = Frame(r[i])[j]

\* buff is a first part of S.
FirstOf(buff, S) == Len(buff) <= Len(S) /\ \A x \in 1 .. Len(buff) : buff[x] = S[x]

\* Every frame ends behind the one before.
LEMMA LaidGrows ==
  ASSUME NEW S \in Seq(Nat), NEW r \in Seq(Items), NEW pos, Laid(S, r, pos)
  PROVE  /\ \A i \in 0 .. Len(r) : pos[i] \in Nat
         /\ \A i \in 0 .. Len(r) - 1 : pos[i + 1] > pos[i]
         /\ \A i, j \in 0 .. Len(r) : i <= j => pos[i] <= pos[j]
<1>1. \A i \in 0 .. Len(r) : pos[i] \in Nat
  BY DEF Laid
<1>2. ASSUME NEW i \in 0 .. Len(r) - 1 PROVE pos[i + 1] > pos[i]
  <2>1. i + 1 \in 1 .. Len(r) /\ i + 1 - 1 = i /\ r[i + 1] \in Items /\ i \in 0 .. Len(r)
    OBVIOUS
  <2>2. pos[i + 1] = pos[i] + Len(Frame(r[i + 1]))
    BY <2>1 DEF Laid
  <2>3. Len(Frame(r[i + 1])) \in Nat /\ Len(Frame(r[i + 1])) > 0
    BY <2>1, Frames1
  <2> QED BY <1>1, <2>1, <2>2, <2>3
<1> DEFINE H == {n \in Nat : \A i \in 0 .. Len(r) : i + n <= Len(r) => pos[i] <= pos[i + n]}
<1>3. 0 \in H
  BY <1>1
<1>4. ASSUME NEW n \in H PROVE n + 1 \in H
  <2> SUFFICES ASSUME NEW i \in 0 .. Len(r), i + (n + 1) <= Len(r) PROVE pos[i] <= pos[i + (n + 1)]
    OBVIOUS
  <2>0. n \in Nat /\ Len(r) \in Nat
    OBVIOUS
  <2>1. i + n \in 0 .. Len(r) - 1 /\ i + n + 1 \in 0 .. Len(r) /\ i + n \in 0 .. Len(r) /\ i + n + 1 = i + (n + 1)
    BY <2>0
  <2>2. pos[i] <= pos[i + n] /\ pos[i + n + 1] > pos[i + n]
    BY <1>2, <2>1
  <2> QED BY <1>1, <2>1, <2>2
<1>5. H = Nat
  <2> HIDE DEF H
  <2>1. H \in SUBSET Nat
    BY DEF H
  <2> QED BY <1>3, <1>4, <2>1, Induction
<1>6. ASSUME NEW i \in 0 .. Len(r), NEW j \in 0 .. Len(r), i <= j PROVE pos[i] <= pos[j]
  <2>1. j - i \in Nat /\ i + (j - i) = j /\ i + (j - i) <= Len(r)
    BY <1>6
  <2>2. \A n \in Nat : i + n <= Len(r) => pos[i] <= pos[i + n]
    BY <1>5
  <2> QED BY <2>1, <2>2
<1> QED BY <1>1, <1>2, <1>6

\* FrameEnd at the end of a frame finds the end of the next one.
LEMMA LaidEnd ==
  ASSUME NEW S \in Seq(Nat), NEW r \in Seq(Items), NEW pos, Laid(S, r, pos),
         NEW buff \in Seq(Nat), FirstOf(buff, S), NEW i \in 0 .. Len(r) - 1, pos[i] < Len(buff)
  PROVE  FrameEnd(buff, pos[i]) = IF pos[i + 1] <= Len(buff) THEN pos[i + 1] ELSE pos[i]
<1> DEFINE f == Frame(r[i + 1])
           o == pos[i]
<1>1. i + 1 \in 1 .. Len(r) /\ i + 1 - 1 = i /\ r[i + 1] \in Items /\ i \in 0 .. Len(r)
  OBVIOUS
<1>2. pos[i + 1] = o + Len(f) /\ \A j \in 1 .. Len(f) : S[o + j] = f[j]
  BY <1>1 DEF Laid
<1>3. o \in Nat /\ Len(buff) \in Nat /\ o \in 0 .. Len(buff) - 1
  BY <1>1, LaidGrows
<1>4. Len(f) \in Nat /\ EndsRight(f)
  BY <1>1, Frames1
<1> HIDE DEF f, o
<1>5. Agrees(buff, o, f)
  <2> SUFFICES ASSUME NEW j \in 1 .. Len(f), o + j <= Len(buff) PROVE buff[o + j] = f[j]
    BY DEF Agrees
  <2>1. o + j \in 1 .. Len(buff)
    BY <1>3, <1>4
  <2> QED BY <1>2, <2>1 DEF FirstOf
<1>6. FrameEnd(buff, o) = IF o + Len(f) <= Len(buff) THEN o + Len(f) ELSE o
  BY <1>3, <1>4, <1>5 DEF EndsRight
<1> QED BY <1>2, <1>6 DEF o

\* What lies between the ends of two frames is the second one.
LEMMA LaidFrame ==
  ASSUME NEW S \in Seq(Nat), NEW r \in Seq(Items), NEW pos, Laid(S, r, pos),
         NEW data \in Seq(Nat), FirstOf(data, S), NEW i \in 0 .. Len(r) - 1, pos[i + 1] <= Len(data)
  PROVE  SubSeq(data, pos[i] + 1, pos[i + 1]) = Frame(r[i + 1])
<1> DEFINE f == Frame(r[i + 1])
           a == pos[i]
           b == pos[i + 1]
           e == SubSeq(data, a + 1, b)
<1>1. i + 1 \in 1 .. Len(r) /\ i + 1 - 1 = i /\ r[i + 1] \in Items /\ i \in 0 .. Len(r) /\ i + 1 \in 0 .. Len(r)
  OBVIOUS
<1>2. b = a + Len(f) /\ \A j \in 1 .. Len(f) : S[a + j] = f[j]
  BY <1>1 DEF Laid
<1>3. a \in Nat /\ b \in Nat /\ Len(data) \in Nat /\ b <= Len(data)
  BY <1>1, LaidGrows
<1>4. f \in Seq(Nat) /\ Len(f) \in Nat
  BY <1>1, Frames1
<1> HIDE DEF f, a, b
<1>5. \A x \in a + 1 .. b : x \in 1 .. Len(data) /\ data[x] \in Nat
  BY <1>3
<1>6. /\ e \in Seq(Nat) /\ Len(e) = IF a + 1 <= b THEN b - (a + 1) + 1 ELSE 0
      /\ \A j \in 1 .. b - (a + 1) + 1 : e[j] = data[a + 1 + j - 1]
  BY <1>3, <1>5, SubSeqProperties
<1> HIDE DEF e
<1>7. Len(e) = Len(f) /\ \A j \in 1 .. Len(f) : e[j] = data[a + j] /\ a + j \in 1 .. Len(data)
  BY <1>2, <1>3, <1>4, <1>6
<1>8. \A j \in 1 .. Len(f) : e[j] = f[j]
  BY <1>2, <1>7 DEF FirstOf
<1>9. e = f
  BY <1>4, <1>6, <1>7, <1>8, SeqEqual
<1> QED BY <1>9 DEF e, f, a, b

\* From the end of a frame that is followed by a complete one parse goes on.
LEMMA LaidNext ==
  ASSUME NEW S \in Seq(Nat), NEW r \in Seq(Items), NEW pos, Laid(S, r, pos),
         NEW data \in Seq(Nat), FirstOf(data, S), NEW i \in 0 .. Len(r) - 1, pos[i + 1] <= Len(data)
  PROVE  FrameEnd(data, pos[i]) = pos[i + 1] /\ ~Halts(data, pos[i])
<1>1. i \in 0 .. Len(r) /\ i + 1 \in 0 .. Len(r)
  OBVIOUS
<1>2. pos[i] \in Nat /\ pos[i + 1] \in Nat /\ pos[i] < pos[i + 1] /\ Len(data) \in Nat
  BY <1>1, LaidGrows
<1>3. FrameEnd(data, pos[i]) = pos[i + 1]
  BY <1>2, LaidEnd
<1> QED BY <1>2, <1>3 DEF Halts

\* parse cuts behind the last frame that is complete, the k-th.
LEMMA CutLaid ==
  ASSUME NEW S \in Seq(Nat), NEW r \in Seq(Items), NEW pos, Laid(S, r, pos),
         NEW buff \in Seq(Nat), FirstOf(buff, S), NEW k \in 0 .. Len(r),
         pos[k] <= Len(buff), k < Len(r) => pos[k + 1] > Len(buff)
  PROVE  CutOf(buff)[0] = pos[k]
<1> DEFINE cut == CutOf(buff)
           H == {n \in Nat : n <= k => cut[pos[k - n]] = pos[k]}
<1>0. Len(buff) \in Nat /\ Len(S) \in Nat /\ Len(r) \in Nat /\ k \in Nat /\ \A i \in 0 .. Len(r) : pos[i] \in Nat
  BY LaidGrows
<1>1. \A i \in 0 .. k : pos[i] \in 0 .. Len(buff)
  <2> TAKE i \in 0 .. k
  <2>1. i \in 0 .. Len(r) /\ i <= k
    BY <1>0
  <2>2. pos[i] <= pos[k]
    BY <2>1, LaidGrows
  <2> QED BY <1>0, <2>1, <2>2
<1>2. \A o \in 0 .. Len(buff) : cut[o] = IF Halts(buff, o) THEN o ELSE cut[FrameEnd(buff, o)]
  BY CutExists
<1> HIDE DEF cut
<1>3. Halts(buff, pos[k])
  <2>1. CASE k = Len(r)
    <3>1. pos[k] = Len(S) /\ Len(buff) <= Len(S)
      BY <2>1 DEF Laid, FirstOf
    <3> QED BY <1>0, <3>1 DEF Halts
  <2>2. CASE k < Len(r) /\ pos[k] < Len(buff)
    <3>1. k \in 0 .. Len(r) - 1 /\ pos[k + 1] > Len(buff) /\ pos[k + 1] \in Nat
      BY <1>0, <2>2
    <3>2. FrameEnd(buff, pos[k]) = pos[k]
      BY <1>0, <2>2, <3>1, LaidEnd
    <3> QED BY <3>2 DEF Halts
  <2> QED BY <1>0, <2>1, <2>2 DEF Halts
<1>4. 0 \in H
  <2>1. cut[pos[k]] = pos[k]
    BY <1>0, <1>1, <1>2, <1>3
  <2> QED BY <1>0, <2>1
<1>5. ASSUME NEW n \in H PROVE n + 1 \in H
  <2> SUFFICES ASSUME n + 1 <= k PROVE cut[pos[k - (n + 1)]] = pos[k]
    OBVIOUS
  <2> DEFINE i == k - (n + 1)
  <2>1. n \in Nat /\ n <= k /\ i \in 0 .. Len(r) - 1 /\ i \in 0 .. k /\ i + 1 \in 0 .. k /\ i + 1 = k - n
    BY <1>0
  <2>2. cut[pos[i + 1]] = pos[k]
    BY <2>1
  <2> HIDE DEF i
  <2>3. pos[i + 1] > pos[i] /\ pos[i + 1] \in 0 .. Len(buff) /\ pos[i] \in 0 .. Len(buff)
    BY <1>1, <2>1, LaidGrows
  <2>4. FrameEnd(buff, pos[i]) = pos[i + 1]
    <3>1. pos[i] < Len(buff) /\ pos[i + 1] <= Len(buff)
      BY ONLY <1>0, <2>3
    <3> QED BY <2>1, <3>1, LaidEnd
  <2>5. ~Halts(buff, pos[i])
    BY <1>0, <2>3, <2>4 DEF Halts
  <2>6. cut[pos[i]] = pos[k]
    BY <1>2, <2>2, <2>3, <2>4, <2>5
  <2> QED BY <2>6 DEF i
<1>6. H = Nat
  <2> HIDE DEF H
  <2>1. H \in SUBSET Nat
    BY DEF H
  <2> QED BY <1>4, <1>5, <2>1, Induction
<1>7. cut[pos[k - k]] = pos[k]
  <2>1. k \in H
    BY <1>0, <1>6
  <2> QED BY <1>0, <2>1
<1>8. pos[k - k] = 0
  BY <1>0 DEF Laid
<1> QED BY <1>7, <1>8 DEF cut

\* One sequence before others.
LEMMA ConsSeq ==
  ASSUME NEW a \in Seq(Nat), NEW t \in Seq(Seq(Nat))
  PROVE  /\ Push(a, t) \in Seq(Seq(Nat)) /\ Len(Push(a, t)) = Len(t) + 1 /\ Push(a, t)[1] = a
         /\ \A i \in 1 .. Len(t) : Push(a, t)[i + 1] = t[i]
<1> DEFINE s == <<a>>
           u == s \o t
<1>1. s \in Seq(Seq(Nat)) /\ Len(s) = 1 /\ s[1] = a
  OBVIOUS
<1>2. Push(a, t) = u
  BY DEF Push
<1> HIDE DEF s
<1>3. /\ u \in Seq(Seq(Nat)) /\ Len(u) = Len(s) + Len(t)
      /\ \A i \in 1 .. Len(s) + Len(t) : u[i] = IF i <= Len(s) THEN s[i] ELSE t[i - Len(s)]
  BY <1>1, ConcatProperties
<1>4. Len(t) \in Nat
  OBVIOUS
<1> HIDE DEF u
<1>5. u[1] = a /\ Len(u) = Len(t) + 1
  <2>1. 1 \in 1 .. Len(s) + Len(t) /\ 1 <= Len(s)
    BY ONLY <1>1, <1>4
  <2>2. u[1] = s[1]
    BY ONLY <1>3, <2>1
  <2> QED BY ONLY <1>1, <1>3, <1>4, <2>2
<1>6. ASSUME NEW i \in 1 .. Len(t) PROVE u[i + 1] = t[i]
  <2> DEFINE x == i + 1
  <2>1. x \in 1 .. Len(s) + Len(t) /\ ~(x <= Len(s)) /\ x - Len(s) = i
    BY ONLY <1>1, <1>4, i \in 1 .. Len(t)
  <2> HIDE DEF x
  <2>2. u[x] = IF x <= Len(s) THEN s[x] ELSE t[x - Len(s)]
    BY ONLY <1>3, <2>1
  <2>3. u[x] = t[i]
    BY ONLY <2>1, <2>2
  <2> QED BY ONLY <2>3 DEF x
<1> QED BY <1>2, <1>3, <1>5, <1>6

\* handlePacketDatas takes the frames one by one.
LEMMA FromLaid ==
  ASSUME NEW S \in Seq(Nat), NEW r \in Seq(Items), NEW pos, Laid(S, r, pos),
         NEW data \in Seq(Nat), FirstOf(data, S), NEW k \in 0 .. Len(r), Len(data) = pos[k]
  PROVE  FromOf(data)[0] = [i \in 1 .. k |-> Frame(r[i])]
<1> DEFINE from == FromOf(data)
           H == {n \in Nat : n <= k => /\ Len(from[pos[k - n]]) = n
                                       /\ \A j \in 1 .. n : from[pos[k - n]][j] = Frame(r[k - n + j])}
<1>0. Len(data) \in Nat /\ Len(r) \in Nat /\ k \in Nat /\ \A i \in 0 .. Len(r) : pos[i] \in Nat
  BY LaidGrows
<1>1. \A i \in 0 .. k : pos[i] \in 0 .. Len(data)
  <2> TAKE i \in 0 .. k
  <2>1. i \in 0 .. Len(r) /\ i <= k
    BY <1>0
  <2>2. pos[i] <= pos[k]
    BY <2>1, LaidGrows
  <2> QED BY <1>0, <2>1, <2>2
<1>2. \A o \in 0 .. Len(data) :
        /\ from[o] \in Seq(Seq(Nat))
        /\ from[o] = IF Halts(data, o) THEN << >>
                     ELSE Push(SubSeq(data, o + 1, FrameEnd(data, o)), from[FrameEnd(data, o)])
  BY FromExists DEF Push
<1> HIDE DEF from
<1>3. 0 \in H
  <2>1. from[pos[k]] = << >>
    <3>1. Halts(data, pos[k])
      BY DEF Halts
    <3> QED BY <1>0, <1>1, <1>2, <3>1
  <2>2. k - 0 = k
    BY <1>0
  <2> QED BY <2>1, <2>2
<1>4. ASSUME NEW n \in H PROVE n + 1 \in H
  <2> SUFFICES ASSUME n + 1 <= k
               PROVE  /\ Len(from[pos[k - (n + 1)]]) = n + 1
                      /\ \A j \in 1 .. n + 1 : from[pos[k - (n + 1)]][j] = Frame(r[k - (n + 1) + j])
    OBVIOUS
  <2> DEFINE i == k - (n + 1)
             f == Frame(r[i + 1])
             t == from[pos[i + 1]]
             e == SubSeq(data, pos[i] + 1, pos[i + 1])
  <2>1. n \in Nat /\ n <= k /\ i \in 0 .. Len(r) - 1 /\ i \in 0 .. k /\ i + 1 \in 0 .. k /\ i + 1 = k - n
        /\ i + 1 \in 1 .. Len(r) /\ i + 1 - 1 = i /\ r[i + 1] \in Items
    BY <1>0
  <2>2. Len(t) = n /\ \A j \in 1 .. n : t[j] = Frame(r[i + 1 + j])
    BY <2>1
  <2>7. i + 1 = k - (n + 1) + 1
    OBVIOUS
  <2>9. f \in Seq(Nat) /\ pos[i + 1] \in 0 .. Len(data) /\ pos[i] \in 0 .. Len(data)
    BY <1>1, <2>1, Frames1
  <2> HIDE DEF f, e, t, i
  <2>3. pos[i + 1] <= Len(data)
    BY <1>0, <2>9
  <2>4. FrameEnd(data, pos[i]) = pos[i + 1] /\ ~Halts(data, pos[i])
    BY <2>1, <2>3, LaidNext
  <2>6. from[pos[i]] = Push(e, t) /\ t \in Seq(Seq(Nat))
    BY <1>2, <2>4, <2>9 DEF e, t
  <2>10. e = f
    BY <2>1, <2>3, LaidFrame DEF e, f
  <2>11. /\ Len(Push(f, t)) = n + 1 /\ Push(f, t)[1] = f
         /\ \A j \in 1 .. n : Push(f, t)[j + 1] = t[j]
    BY <2>2, <2>6, <2>9, ConsSeq
  <2>12. \A j \in 1 .. n + 1 : from[pos[i]][j] = Frame(r[i + j])
    <3> TAKE j \in 1 .. n + 1
    <3>1. CASE j = 1
      BY <2>6, <2>10, <2>11, <3>1 DEF f
    <3>2. CASE j > 1
      <4>1. j - 1 \in 1 .. n /\ (j - 1) + 1 = j /\ i + 1 + (j - 1) = i + j
        BY <2>1, <3>2
      <4>2. Push(f, t)[(j - 1) + 1] = Frame(r[i + 1 + (j - 1)])
        BY <2>2, <2>11, <4>1
      <4> QED BY <2>6, <2>10, <4>1, <4>2
    <3> QED BY <2>1, <3>1, <3>2
  <2> QED BY <2>6, <2>10, <2>11, <2>12 DEF i
<1>5. H = Nat
  <2> HIDE DEF H
  <2>1. H \in SUBSET Nat
    BY DEF H
  <2> QED BY <1>3, <1>4, <2>1, Induction
<1>6. pos[k - k] = 0 /\ \A j \in 1 .. k : k - k + j = j
  BY <1>0 DEF Laid
<1>7. Len(from[0]) = k /\ \A j \in 1 .. k : from[0][j] = Frame(r[j])
  <2>1. k \in H
    BY <1>0, <1>5
  <2> QED BY <1>0, <1>6, <2>1
<1>8. from[0] \in Seq(Seq(Nat))
  BY <1>0, <1>2
<1>9. from[0] = [i \in 1 .. k |-> Frame(r[i])]
  BY <1>0, <1>7, <1>8
<1> QED BY <1>9 DEF from

\* A difference.
LEMMA Difference ==
  ASSUME NEW a \in Nat, NEW c \in Nat, c <= a
  PROVE  a - c \in Nat
OBVIOUS

\* Places after the first c are moved by c.
LEMMA Shifted ==
  ASSUME NEW a \in Nat, NEW c \in Nat, NEW j \in Nat, NEW n \in Nat, c <= a, 1 <= j, a + j <= n
  PROVE  a - c + j \in 1 .. n - c /\ c + (a - c + j) = a + j
OBVIOUS

\* The bytes that follow the k-th frame consist of the frames that follow it.
LEMMA LaidRest ==
  ASSUME NEW S \in Seq(Nat), NEW r \in Seq(Items), NEW pos, Laid(S, r, pos), NEW k \in 0 .. Len(r),
         NEW S2 \in Seq(Nat), Len(S2) = Len(S) - pos[k], \A x \in 1 .. Len(S2) : S2[x] = S[pos[k] + x]
  PROVE  /\ SubSeq(r, k + 1, Len(r)) \in Seq(Items)
         /\ Laid(S2, SubSeq(r, k + 1, Len(r)), [i \in 0 .. Len(r) - k |-> pos[k + i] - pos[k]])
<1> DEFINE r2 == SubSeq(r, k + 1, Len(r))
           p == [i \in 0 .. Len(r) - k |-> pos[k + i] - pos[k]]
<1>1. Len(r) \in Nat /\ k \in Nat /\ Len(S) \in Nat /\ \A i \in 0 .. Len(r) : pos[i] \in Nat
  BY LaidGrows
<1>2. r2 \in Seq(Items) /\ Len(r2) = Len(r) - k /\ \A i \in 1 .. Len(r) - k : r2[i] = r[k + i]
  <2>1. \A i \in k + 1 .. Len(r) : r[i] \in Items
    BY <1>1
  <2>2. /\ r2 \in Seq(Items) /\ Len(r2) = IF k + 1 <= Len(r) THEN Len(r) - (k + 1) + 1 ELSE 0
        /\ \A i \in 1 .. Len(r) - (k + 1) + 1 : r2[i] = r[k + 1 + i - 1]
    BY <1>1, <2>1, SubSeqProperties
  <2> HIDE DEF r2
  <2>3. k <= Len(r) /\ Len(r) - (k + 1) + 1 = Len(r) - k /\ (k + 1 <= Len(r) \/ Len(r) - k = 0)
    BY <1>1
  <2>5. Len(r2) = Len(r) - k
    BY <2>2, <2>3
  <2>6. \A i \in 1 .. Len(r) - k : r2[i] = r[k + 1 + i - 1]
    BY <2>2, <2>3
  <2>4. \A i \in 1 .. Len(r) - k : k + 1 + i - 1 = k + i
    BY <1>1
  <2> QED BY <2>2, <2>4, <2>5, <2>6
<1>3. \A i \in 0 .. Len(r) - k : k + i \in 0 .. Len(r) /\ pos[k + i] \in Nat /\ pos[k + i] >= pos[k] /\ pos[k] \in Nat
  <2> TAKE i \in 0 .. Len(r) - k
  <2>1. k + i \in 0 .. Len(r) /\ k <= k + i
    BY <1>1
  <2> QED BY <1>1, <2>1, LaidGrows
<1>4. p \in [0 .. Len(r) - k -> Nat]
  <2>1. \A i \in 0 .. Len(r) - k : pos[k + i] - pos[k] \in Nat
    BY <1>3, Difference
  <2> QED BY <2>1
<1>5. p[0] = 0 /\ p[Len(r) - k] = Len(S2)
  <2>1. 0 \in 0 .. Len(r) - k /\ Len(r) - k \in 0 .. Len(r) - k /\ k + 0 = k /\ k + (Len(r) - k) = Len(r)
    BY <1>1
  <2>2. pos[Len(r)] = Len(S)
    BY DEF Laid
  <2> QED BY <1>1, <2>1, <2>2
<1> HIDE DEF r2
<1>6. ASSUME NEW i \in 1 .. Len(r) - k
      PROVE  /\ p[i] = p[i - 1] + Len(Frame(r2[i]))
             /\ \A j \in 1 .. Len(Frame(r2[i])) : S2[p[i - 1] + j] = Frame(r2[i])[j]
  <2>1. /\ i \in 0 .. Len(r) - k /\ i - 1 \in 0 .. Len(r) - k /\ k + i \in 1 .. Len(r) /\ k + i - 1 = k + (i - 1)
        /\ k + i \in 0 .. Len(r) /\ k + i - 1 \in 0 .. Len(r)
    BY <1>1
  <2> DEFINE f == Frame(r[k + i])
             a == pos[k + i - 1]
             b == pos[k + i]
  <2>2. b = a + Len(f) /\ \A j \in 1 .. Len(f) : S[a + j] = f[j]
    BY <2>1 DEF Laid
  <2>3. a \in Nat /\ b \in Nat /\ b <= Len(S) /\ pos[k] \in Nat /\ pos[k] <= a /\ Len(f) \in Nat
    <3>1. b <= pos[Len(r)] /\ pos[k] <= a
      BY <1>1, <1>3, <2>1, LaidGrows
    <3>2. pos[Len(r)] = Len(S)
      BY DEF Laid
    <3>3. r[k + i] \in Items
      BY <2>1
    <3>4. Len(f) \in Nat
      BY <3>3, Frames1
    <3> QED BY <1>1, <2>1, <3>1, <3>2, <3>4
  <2>4. p[i] = b - pos[k] /\ p[i - 1] = a - pos[k] /\ Frame(r2[i]) = f
    BY <1>2, <2>1
  <2> HIDE DEF p, f, a, b
  <2>5. ASSUME NEW j \in 1 .. Len(f) PROVE S2[a - pos[k] + j] = f[j]
    <3> DEFINE c == pos[k]
    <3>2. c \in Nat /\ c <= a /\ Len(S2) = Len(S) - c /\ a + Len(f) <= Len(S) /\ j \in Nat /\ j >= 1 /\ j <= Len(f)
      BY <2>2, <2>3
    <3> HIDE DEF c
    <3>3. a - c + j \in 1 .. Len(S2) /\ c + (a - c + j) = a + j
      <4>1. a + j <= Len(S)
        BY <1>1, <2>3, <3>2
      <4>2. a - c + j \in 1 .. Len(S) - c /\ c + (a - c + j) = a + j
        <5>1. a \in Nat /\ c \in Nat /\ j \in Nat /\ Len(S) \in Nat /\ c <= a /\ 1 <= j /\ a + j <= Len(S)
          BY <1>1, <2>3, <3>2, <4>1
        <5> HIDE DEF c
        <5> QED BY <5>1, Shifted
      <4> QED BY <3>2, <4>2
    <3>1. a - pos[k] + j \in 1 .. Len(S2) /\ pos[k] + (a - pos[k] + j) = a + j
      BY <3>3 DEF c
    <3> QED BY <2>2, <3>1
  <2> QED BY <2>2, <2>3, <2>4, <2>5
<1>7. Laid(S2, r2, p)
  <2> HIDE DEF p
  <2> QED BY <1>2, <1>4, <1>5, <1>6 DEF Laid
<1> QED BY <1>2, <1>7 DEF r2

\* A frame more.
LEMMA LaidMore ==
  ASSUME NEW S \in Seq(Nat), NEW r \in Seq(Items), NEW pos, Laid(S, r, pos), NEW m \in Items
  PROVE  \E p : Laid(S \o Frame(m), r \o <<m>>, p)
<1> DEFINE f == Frame(m)
           S2 == S \o f
           r2 == r \o <<m>>
           p == [i \in 0 .. Len(r) + 1 |-> IF i <= Len(r) THEN pos[i] ELSE Len(S) + Len(f)]
<1>1. Len(r) \in Nat /\ Len(S) \in Nat /\ \A i \in 0 .. Len(r) : pos[i] \in Nat
  BY LaidGrows
<1>2. f \in Seq(Nat) /\ Len(f) \in Nat
  BY Frames1
<1>3. r2 \in Seq(Items) /\ Len(r2) = Len(r) + 1 /\ r2[Len(r) + 1] = m /\ \A i \in 1 .. Len(r) : r2[i] = r[i]
  <2>1. <<m>> \in Seq(Items) /\ Len(<<m>>) = 1 /\ <<m>>[1] = m
    OBVIOUS
  <2> DEFINE q == <<m>>
  <2> HIDE DEF q
  <2>2. q \in Seq(Items) /\ Len(q) = 1 /\ q[1] = m
    BY <2>1 DEF q
  <2>3. /\ r \o q \in Seq(Items) /\ Len(r \o q) = Len(r) + Len(q)
        /\ \A i \in 1 .. Len(r) + Len(q) : (r \o q)[i] = IF i <= Len(r) THEN r[i] ELSE q[i - Len(r)]
    BY <2>2, ConcatProperties
  <2>4. /\ Len(r) + 1 \in 1 .. Len(r) + 1 /\ ~(Len(r) + 1 <= Len(r)) /\ Len(r) + 1 - Len(r) = 1
        /\ \A i \in 1 .. Len(r) : i \in 1 .. Len(r) + 1 /\ i <= Len(r)
    BY <1>1
  <2>5. r2 = r \o q
    BY DEF q
  <2> HIDE DEF r2
  <2> QED BY <2>2, <2>3, <2>4, <2>5
<1> HIDE DEF f
<1>4. /\ S2 \in Seq(Nat) /\ Len(S2) = Len(S) + Len(f)
      /\ \A x \in 1 .. Len(S) + Len(f) : S2[x] = IF x <= Len(S) THEN S[x] ELSE f[x - Len(S)]
  BY <1>2, ConcatProperties
<1> HIDE DEF S2, r2
<1>5. p \in [0 .. Len(r2) -> Nat] /\ p[0] = 0 /\ p[Len(r2)] = Len(S2)
  BY <1>1, <1>2, <1>3, <1>4 DEF Laid
<1>6. ASSUME NEW i \in 1 .. Len(r)
      PROVE  /\ p[i] = p[i - 1] + Len(Frame(r2[i]))
             /\ \A j \in 1 .. Len(Frame(r2[i])) : S2[p[i - 1] + j] = Frame(r2[i])[j]
  <2>1. i \in 0 .. Len(r) /\ i - 1 \in 0 .. Len(r) /\ r[i] \in Items /\ Len(r) \in 0 .. Len(r) /\ i <= Len(r)
    BY <1>1
  <2> DEFINE g == Frame(r[i])
             a == pos[i - 1]
             b == pos[i]
  <2>2. b = a + Len(g) /\ \A j \in 1 .. Len(g) : S[a + j] = g[j]
    BY DEF Laid
  <2>3. p[i] = b /\ p[i - 1] = a /\ Frame(r2[i]) = g
    BY <1>1, <1>3, <2>1
  <2>4. b <= Len(S) /\ a \in Nat /\ b \in Nat /\ Len(g) \in Nat
    <3>1. b <= pos[Len(r)]
      BY <1>1, <2>1, LaidGrows
    <3>2. pos[Len(r)] = Len(S)
      BY DEF Laid
    <3>3. Len(g) \in Nat
      BY <2>1, Frames1
    <3> QED BY <1>1, <2>1, <3>1, <3>2, <3>3
  <2> HIDE DEF p, g, a, b
  <2>5. ASSUME NEW j \in 1 .. Len(g) PROVE S2[a + j] = g[j]
    <3>1. a + j \in 1 .. Len(S) + Len(f) /\ a + j <= Len(S)
      BY <1>1, <1>2, <2>2, <2>4
    <3> QED BY <1>4, <2>2, <3>1
  <2> QED BY <2>2, <2>3, <2>5
<1>7. /\ p[Len(r) + 1] = p[Len(r) + 1 - 1] + Len(Frame(r2[Len(r) + 1]))
      /\ \A j \in 1 .. Len(Frame(r2[Len(r) + 1])) :
           S2[p[Len(r) + 1 - 1] + j] = Frame(r2[Len(r) + 1])[j]
  <2>1. Frame(r2[Len(r) + 1]) = f
    BY <1>3 DEF f
  <2>2. p[Len(r) + 1] = Len(S) + Len(f) /\ p[Len(r) + 1 - 1] = Len(S)
    BY <1>1, <1>2 DEF Laid
  <2> HIDE DEF p
  <2>3. \A j \in 1 .. Len(f) : S2[Len(S) + j] = f[j]
    <3> TAKE j \in 1 .. Len(f)
    <3>1. Len(S) + j \in 1 .. Len(S) + Len(f) /\ ~(Len(S) + j <= Len(S)) /\ Len(S) + j - Len(S) = j
      BY <1>1, <1>2
    <3> QED BY <1>4, <3>1
  <2> QED BY <2>1, <2>2, <2>3
<1> HIDE DEF p
<1>8. \A i \in 1 .. Len(r2) : i \in 1 .. Len(r) \/ i = Len(r) + 1
  BY <1>1, <1>3
<1>9. Laid(S2, r2, p)
  <2>1. ASSUME NEW i \in 1 .. Len(r2)
        PROVE  /\ p[i] = p[i - 1] + Len(Frame(r2[i]))
               /\ \A j \in 1 .. Len(Frame(r2[i])) : S2[p[i - 1] + j] = Frame(r2[i])[j]
    <3>1. CASE i \in 1 .. Len(r)
      BY <1>6, <3>1
    <3>2. CASE i = Len(r) + 1
      BY <1>7, <3>2
    <3> QED BY <1>8, <3>1, <3>2
  <2> QED BY <1>5, <2>1 DEF Laid
<1> QED BY <1>9 DEF S2, r2, f

\* A sequence is its first n elements and the others.
LEMMA Parts ==
  ASSUME NEW T, NEW s \in Seq(T), NEW n \in 0 .. Len(s)
  PROVE  /\ SubSeq(s, 1, n) \in Seq(T) /\ Len(SubSeq(s, 1, n)) = n
         /\ \A i \in 1 .. n : SubSeq(s, 1, n)[i] = s[i]
         /\ SubSeq(s, n + 1, Len(s)) \in Seq(T) /\ Len(SubSeq(s, n + 1, Len(s))) = Len(s) - n
         /\ \A i \in 1 .. Len(s) - n : SubSeq(s, n + 1, Len(s))[i] = s[n + i]
         /\ s = SubSeq(s, 1, n) \o SubSeq(s, n + 1, Len(s))
<1> DEFINE h == SubSeq(s, 1, n)
           e == SubSeq(s, n + 1, Len(s))
           l == Len(s)
<1>1. l \in Nat /\ n \in Nat /\ n <= l
  OBVIOUS
<1>2. /\ h \in Seq(T) /\ Len(h) = IF 1 <= n THEN n - 1 + 1 ELSE 0
      /\ \A i \in 1 .. n - 1 + 1 : h[i] = s[1 + i - 1]
  <2>1. \A i \in 1 .. n : s[i] \in T
    OBVIOUS
  <2> QED BY <1>1, <2>1, SubSeqProperties
<1>3. /\ e \in Seq(T) /\ Len(e) = IF n + 1 <= l THEN l - (n + 1) + 1 ELSE 0
      /\ \A i \in 1 .. l - (n + 1) + 1 : e[i] = s[n + 1 + i - 1]
  <2>1. \A i \in n + 1 .. l : s[i] \in T
    OBVIOUS
  <2> QED BY <1>1, <2>1, SubSeqProperties
<1>9. l = Len(s)
  OBVIOUS
<1> HIDE DEF h, e, l
<1>4. /\ (IF 1 <= n THEN n - 1 + 1 ELSE 0) = n /\ n - 1 + 1 = n
      /\ (IF n + 1 <= l THEN l - (n + 1) + 1 ELSE 0) = l - n /\ l - (n + 1) + 1 = l - n
      /\ \A i \in 1 .. n : 1 + i - 1 = i
      /\ \A i \in 1 .. l - n : n + 1 + i - 1 = n + i
  BY <1>1
<1>5. Len(h) = n /\ Len(e) = l - n
  BY <1>2, <1>3, <1>4
<1>6. \A i \in 1 .. n : h[i] = s[i]
  BY <1>2, <1>4
<1>7. \A i \in 1 .. l - n : e[i] = s[n + i]
  BY <1>3, <1>4
<1>8. s = h \o e
  <2> DEFINE k == h \o e
  <2>1. /\ k \in Seq(T) /\ Len(k) = Len(h) + Len(e)
        /\ \A i \in 1 .. Len(h) + Len(e) : k[i] = IF i <= Len(h) THEN h[i] ELSE e[i - Len(h)]
    BY <1>2, <1>3, ConcatProperties
  <2> HIDE DEF k
  <2>2. Len(k) = l
    BY <1>1, <1>5, <2>1
  <2>3. ASSUME NEW i \in 1 .. l PROVE k[i] = s[i]
    <3>1. i \in Nat /\ i \in 1 .. Len(h) + Len(e) /\ (i <= n => i \in 1 .. n)
          /\ (~(i <= n) => i - n \in 1 .. l - n /\ n + (i - n) = i)
      BY <1>1, <1>5
    <3>2. CASE i <= n
      <4>1. k[i] = h[i]
        BY <1>5, <2>1, <3>1, <3>2
      <4> QED BY <1>6, <3>1, <3>2, <4>1
    <3>3. CASE ~(i <= n)
      <4>1. k[i] = e[i - n]
        BY <1>5, <2>1, <3>1, <3>3
      <4> QED BY <1>7, <3>1, <3>3, <4>1
    <3> QED BY <3>2, <3>3
  <2>4. k = s
    BY <1>9, <2>1, <2>2, <2>3, SeqEqual
  <2> QED BY <2>4 DEF k
<1> QED BY <1>2, <1>3, <1>5, <1>6, <1>7, <1>8 DEF h, e, l

\* h is the first n bytes of s.
First(h, s, n) == h \in Seq(Nat) /\ Len(h) = n /\ \A i \in 1 .. n : h[i] = s[i]

\* What is read is a first part of the stream.
LEMMA ReadFirst ==
  ASSUME NEW t \in Seq(Nat), NEW c \in Seq(Nat), NEW n \in 1 .. Len(c), NEW h, First(h, c, n)
  PROVE  /\ t \o h \in Seq(Nat) /\ Len(t \o h) = Len(t) + n /\ FirstOf(t \o h, t \o c)
<1> DEFINE B == t \o h
           S == t \o c
<1>0. h \in Seq(Nat) /\ Len(h) = n /\ \A i \in 1 .. n : h[i] = c[i]
  BY DEF First
<1>1. /\ S \in Seq(Nat) /\ Len(S) = Len(t) + Len(c)
      /\ \A i \in 1 .. Len(t) + Len(c) : S[i] = IF i <= Len(t) THEN t[i] ELSE c[i - Len(t)]
  BY ConcatProperties
<1>2. /\ B \in Seq(Nat) /\ Len(B) = Len(t) + n
      /\ \A i \in 1 .. Len(t) + n : B[i] = IF i <= Len(t) THEN t[i] ELSE h[i - Len(t)]
  BY <1>0, ConcatProperties
<1>3. Len(t) \in Nat /\ Len(c) \in Nat /\ n \in Nat /\ n <= Len(c)
  OBVIOUS
<1> HIDE DEF B, S
<1>4. \A x \in 1 .. Len(t) + n : x \in 1 .. Len(t) + Len(c) /\ (~(x <= Len(t)) => x - Len(t) \in 1 .. n)
  BY <1>3
<1>5. \A x \in 1 .. Len(t) + n : B[x] = S[x]
  BY <1>0, <1>1, <1>2, <1>4
<1>6. Len(B) <= Len(S)
  BY <1>1, <1>2, <1>3
<1> QED BY <1>2, <1>5, <1>6 DEF FirstOf, B, S

\* The last frame that is complete in a first part of L bytes.
LEMMA LastWhole ==
  ASSUME NEW S \in Seq(Nat), NEW r \in Seq(Items), NEW pos, Laid(S, r, pos), NEW L \in Nat
  PROVE  \E k \in 0 .. Len(r) : pos[k] <= L /\ (k < Len(r) => pos[k + 1] > L)
<1> DEFINE T == {i \in 0 .. Len(r) : i = Len(r) \/ pos[i + 1] > L}
<1>1. Len(r) \in Nat /\ \A i \in 0 .. Len(r) : pos[i] \in Nat
  BY LaidGrows
<1>2. T \in SUBSET Nat /\ Len(r) \in T
  BY <1>1
<1>3. PICK k \in T : \A i \in T : k <= i
  <2> HIDE DEF T
  <2>1. T # {}
    BY <1>2
  <2> QED BY <1>2, <2>1, LeastNumber
<1>4. k \in 0 .. Len(r) /\ (k < Len(r) => pos[k + 1] > L) /\ k \in Nat
  BY <1>1
<1>5. pos[k] <= L
  <2>1. CASE k = 0
    BY <2>1 DEF Laid
  <2>2. CASE k > 0
    <3>1. k - 1 \in 0 .. Len(r) /\ k - 1 # Len(r) /\ k - 1 + 1 = k /\ ~(k <= k - 1)
      BY <1>1, <1>4, <2>2
    <3>2. k - 1 \notin T
      BY <1>3, <3>1
    <3>3. ~(pos[k] > L)
      BY <3>1, <3>2
    <3> QED BY <1>1, <1>4, <3>3
  <2> QED BY <1>4, <2>1, <2>2
<1> QED BY <1>4, <1>5

\* e are the bytes of s after the first a, and the k-th frame
\* is the last that is complete in L bytes.
After(e, s, a) == e \in Seq(Nat) /\ Len(e) = Len(s) - a /\ \A i \in 1 .. Len(s) - a : e[i] = s[a + i]
LastIn(r, pos, k, L) == k \in 0 .. Len(r) /\ pos[k] <= L /\ (k < Len(r) => pos[k + 1] > L)

\* What parse gives of buff, and the frames of the first k items of r.
Data(buff) == Parse(buff).data
Rest(buff) == Parse(buff).rest
FramesOf(r, k) == [i \in 1 .. k |-> Frame(r[i])]

\* The two parts of the bytes in hand.
LEMMA SplitAt ==
  ASSUME NEW s \in Seq(Nat), NEW n \in 0 .. Len(s)
  PROVE  First(SubSeq(s, 1, n), s, n) /\ After(SubSeq(s, n + 1, Len(s)), s, n)
<1> DEFINE h == SubSeq(s, 1, n)
           e == SubSeq(s, n + 1, Len(s))
<1>1. /\ h \in Seq(Nat) /\ Len(h) = n /\ \A i \in 1 .. n : h[i] = s[i]
      /\ e \in Seq(Nat) /\ Len(e) = Len(s) - n /\ \A i \in 1 .. Len(s) - n : e[i] = s[n + i]
  BY Parts
<1> HIDE DEF h, e
<1>2. First(h, s, n) /\ After(e, s, n)
  BY <1>1 DEF First, After
<1> QED BY <1>2 DEF h, e

\* The same of what is read from a stream after t was kept.
LEMMA ReadAfter ==
  ASSUME NEW t \in Seq(Nat), NEW c \in Seq(Nat), NEW h, NEW n \in 1 .. Len(c), First(h, c, n),
         NEW c2, After(c2, c, n)
  PROVE  /\ t \o c \in Seq(Nat) /\ t \o h \in Seq(Nat) /\ FirstOf(t \o h, t \o c)
         /\ After(c2, t \o c, Len(t \o h))
<1> DEFINE S == t \o c
           B == t \o h
<1>1. h \in Seq(Nat) /\ Len(h) = n /\ \A i \in 1 .. n : h[i] = c[i]
  BY DEF First
<1>2. B \in Seq(Nat) /\ Len(B) = Len(t) + n /\ FirstOf(B, S)
  BY ReadFirst
<1>3. /\ S \in Seq(Nat) /\ Len(S) = Len(t) + Len(c)
      /\ \A i \in 1 .. Len(t) + Len(c) : S[i] = IF i <= Len(t) THEN t[i] ELSE c[i - Len(t)]
  BY ConcatProperties
<1>4. c2 \in Seq(Nat) /\ Len(c2) = Len(c) - n /\ \A i \in 1 .. Len(c) - n : c2[i] = c[n + i]
  BY DEF After
<1> HIDE DEF S, B
<1>5. Len(t) \in Nat /\ Len(c) \in Nat /\ n \in Nat
  OBVIOUS
<1>6. Len(S) - Len(B) = Len(c) - n
  BY ONLY <1>2, <1>3, <1>5
<1>7. \A i \in 1 .. Len(c) - n : /\ Len(t) + n + i \in 1 .. Len(t) + Len(c) /\ ~(Len(t) + n + i <= Len(t))
                                 /\ Len(t) + n + i - Len(t) = n + i
  BY ONLY <1>5
<1>8. \A i \in 1 .. Len(c) - n : c2[i] = S[Len(B) + i]
  <2> TAKE i \in 1 .. Len(c) - n
  <2>1. S[Len(t) + n + i] = c[n + i]
    <3> DEFINE x == Len(t) + n + i
    <3>1. x \in 1 .. Len(t) + Len(c) /\ ~(x <= Len(t)) /\ x - Len(t) = n + i
      BY ONLY <1>7, i \in 1 .. Len(c) - n
    <3> HIDE DEF x
    <3>2. S[x] = IF x <= Len(t) THEN t[x] ELSE c[x - Len(t)]
      BY ONLY <1>3, <3>1
    <3>3. S[x] = c[n + i]
      BY ONLY <3>1, <3>2
    <3> QED BY ONLY <3>3 DEF x
  <2>2. Len(B) + i = Len(t) + n + i
    BY ONLY <1>2
  <2>3. c2[i] = c[n + i]
    BY ONLY <1>4, i \in 1 .. Len(c) - n
  <2> QED BY ONLY <2>1, <2>2, <2>3
<1>9. After(c2, S, Len(B))
  BY <1>4, <1>6, <1>8 DEF After
<1> QED BY <1>2, <1>3, <1>9 DEF S, B

\* What was kept, and what is still to be read, follow what was cut off.
LEMMA RestAfter ==
  ASSUME NEW S \in Seq(Nat), NEW B \in Seq(Nat), FirstOf(B, S), NEW c2, After(c2, S, Len(B)),
         NEW a \in 0 .. Len(B), NEW e, After(e, B, a)
  PROVE  After(e \o c2, S, a) /\ FirstOf(e, e \o c2)
<1>0. /\ c2 \in Seq(Nat) /\ Len(c2) = Len(S) - Len(B) /\ \A i \in 1 .. Len(S) - Len(B) : c2[i] = S[Len(B) + i]
      /\ e \in Seq(Nat) /\ Len(e) = Len(B) - a /\ \A i \in 1 .. Len(B) - a : e[i] = B[a + i]
  BY DEF After
<1> DEFINE T == e \o c2
<1>1. /\ T \in Seq(Nat) /\ Len(T) = Len(e) + Len(c2)
      /\ \A x \in 1 .. Len(e) + Len(c2) : T[x] = IF x <= Len(e) THEN e[x] ELSE c2[x - Len(e)]
  BY <1>0, ConcatProperties
<1> HIDE DEF T
<1>2. /\ Len(B) \in Nat /\ Len(S) \in Nat /\ Len(e) \in Nat /\ Len(c2) \in Nat
      /\ a \in Nat /\ a <= Len(B) /\ Len(B) <= Len(S)
  BY <1>0 DEF FirstOf
<1>3. Len(T) = Len(S) - a
  BY <1>0, <1>1, <1>2
<1>4. ASSUME NEW x \in 1 .. Len(S) - a PROVE T[x] = S[a + x]
  <2>1. x \in 1 .. Len(e) + Len(c2) /\ x \in Nat
    BY <1>0, <1>2
  <2>2. CASE x <= Len(e)
    <3>1. x \in 1 .. Len(B) - a /\ a + x \in 1 .. Len(B)
      BY <1>0, <1>2, <2>1, <2>2
    <3>2. B[a + x] = S[a + x]
      BY <3>1 DEF FirstOf
    <3>3. T[x] = e[x]
      BY <1>1, <2>1, <2>2
    <3> QED BY <1>0, <3>1, <3>2, <3>3
  <2>3. CASE ~(x <= Len(e))
    <3>1. x - Len(e) \in 1 .. Len(c2) /\ Len(B) + (x - Len(e)) = a + x
      BY <1>0, <1>2, <2>1, <2>3
    <3>2. T[x] = c2[x - Len(e)]
      BY <1>1, <2>1, <2>3
    <3> QED BY <1>0, <3>1, <3>2
  <2> QED BY <2>2, <2>3
<1>5. FirstOf(e, T)
  <2>1. Len(e) <= Len(T) /\ \A x \in 1 .. Len(e) : x \in 1 .. Len(e) + Len(c2) /\ x <= Len(e)
    BY <1>0, <1>1, <1>2
  <2> QED BY <1>1, <2>1 DEF FirstOf
<1>6. After(T, S, a)
  BY <1>1, <1>3, <1>4 DEF After
<1> QED BY <1>5, <1>6 DEF T

\* LaidRest, whatever the bytes that follow are called.
LEMMA LaidAfter ==
  ASSUME NEW S \in Seq(Nat), NEW r \in Seq(Items), NEW pos, Laid(S, r, pos), NEW k \in 0 .. Len(r),
         NEW T, After(T, S, pos[k])
  PROVE  /\ SubSeq(r, k + 1, Len(r)) \in Seq(Items)
         /\ Laid(T, SubSeq(r, k + 1, Len(r)), [i \in 0 .. Len(r) - k |-> pos[k + i] - pos[k]])
<1>1. T \in Seq(Nat) /\ Len(T) = Len(S) - pos[k] /\ \A x \in 1 .. Len(T) : T[x] = S[pos[k] + x]
  BY DEF After
<1> QED BY <1>1, LaidRest

\* What parse and handlePacketDatas make of a first part of the stream.
LEMMA CutRight ==
  ASSUME NEW S \in Seq(Nat), NEW r \in Seq(Items), NEW pos, Laid(S, r, pos),
         NEW B \in Seq(Nat), FirstOf(B, S), NEW k, LastIn(r, pos, k, Len(B))
  PROVE  /\ pos[k] \in 0 .. Len(B)
         /\ Data(B) = SubSeq(B, 1, pos[k])
         /\ Rest(B) = SubSeq(B, pos[k] + 1, Len(B))
         /\ Packets(Data(B)) = FramesOf(r, k)
<1>0. k \in 0 .. Len(r) /\ pos[k] <= Len(B) /\ (k < Len(r) => pos[k + 1] > Len(B))
  BY DEF LastIn
<1>1. CutOf(B)[0] = pos[k]
  BY <1>0, CutLaid
<1>2. pos[k] \in Nat /\ Len(B) \in Nat
  BY <1>0, LaidGrows
<1> DEFINE a == pos[k]
           data == SubSeq(B, 1, a)
           rest == SubSeq(B, a + 1, Len(B))
<1>3. a \in 0 .. Len(B)
  BY <1>0, <1>2
<1>4. Parse(B) = [data |-> data, rest |-> rest]
  BY <1>1, ParsePackets
<1>8. a = pos[k]
  OBVIOUS
<1> HIDE DEF a
<1>5. First(data, B, a)
  BY <1>3, SplitAt
<1> HIDE DEF data, rest
<1>10. data \in Seq(Nat) /\ Len(data) = a /\ \A i \in 1 .. a : data[i] = B[i]
  BY <1>5 DEF First
<1>6. FirstOf(data, S)
  <2>1. Len(B) <= Len(S) /\ \A x \in 1 .. Len(B) : B[x] = S[x]
    BY DEF FirstOf
  <2>4. Len(S) \in Nat
    OBVIOUS
  <2>2. \A x \in 1 .. a : x \in 1 .. Len(B)
    BY <1>2, <1>3
  <2>3. Len(data) <= Len(S)
    BY <1>2, <1>3, <1>10, <2>1, <2>4
  <2> QED BY <1>10, <2>1, <2>2, <2>3 DEF FirstOf
<1>7. FromOf(data)[0] = FramesOf(r, k)
  BY <1>0, <1>10, <1>6, <1>8, FromLaid DEF FramesOf
<1>9. Packets(data) = FramesOf(r, k)
  BY <1>7, ParsePackets
<1>11. Data(B) = data /\ Rest(B) = rest
  BY <1>4 DEF Data, Rest
<1>12. Packets(Data(B)) = FramesOf(r, k)
  BY <1>9, <1>11
<1> QED BY <1>3, <1>11, <1>12 DEF a, data, rest

\* A first part that ends before the first frame does is kept.
LEMMA NoneWhole ==
  ASSUME NEW S \in Seq(Nat), NEW r \in Seq(Items), NEW pos, Laid(S, r, pos),
         NEW B \in Seq(Nat), FirstOf(B, S), 0 < Len(r) => pos[1] > Len(B)
  PROVE  Data(B) = << >>
<1>1. 0 \in 0 .. Len(r) /\ 0 + 1 = 1 /\ Len(B) \in Nat /\ 0 <= Len(B) /\ 0 \in 0 .. Len(B)
  OBVIOUS
<1>2. pos[0] = 0
  BY DEF Laid
<1>3. LastIn(r, pos, 0, Len(B))
  BY <1>1, <1>2 DEF LastIn
<1>4. Data(B) = SubSeq(B, 1, pos[0])
  BY <1>3, CutRight
<1>5. Data(B) = SubSeq(B, 1, 0)
  BY <1>2, <1>4
<1> DEFINE e == SubSeq(B, 1, 0)
<1>6. First(e, B, 0)
  BY <1>1, SplitAt
<1> HIDE DEF e
<1>7. e = << >>
  BY <1>6 DEF First
<1> QED BY <1>5, <1>7 DEF e

\* What follows the last frame that is complete has no complete one.
LEMMA NoneAfter ==
  ASSUME NEW S \in Seq(Nat), NEW r \in Seq(Items), NEW pos, Laid(S, r, pos),
         NEW B \in Seq(Nat), NEW k, LastIn(r, pos, k, Len(B)), pos[k] \in 0 .. Len(B),
         NEW e, After(e, B, pos[k]), 0 < Len(SubSeq(r, k + 1, Len(r)))
  PROVE  [i \in 0 .. Len(r) - k |-> pos[k + i] - pos[k]][1] > Len(e)
<1> DEFINE r2 == SubSeq(r, k + 1, Len(r))
           a == pos[k]
<1>1. k \in 0 .. Len(r) /\ (k < Len(r) => pos[k + 1] > Len(B)) /\ a \in 0 .. Len(B) /\ Len(B) \in Nat
  BY DEF LastIn
<1>2. Len(r) \in Nat /\ k \in Nat /\ k <= Len(r)
  BY <1>1
<1>3. k < Len(r)
  <2> SUFFICES ASSUME k = Len(r) PROVE FALSE
    BY <1>2
  <2>1. r2 = << >>
    BY <1>2
  <2> QED BY <2>1
<1>4. 1 \in 0 .. Len(r) - k /\ k + 1 \in 0 .. Len(r)
  BY <1>2, <1>3
<1>5. pos[k + 1] \in Nat
  BY <1>4, LaidGrows
<1>6. Len(e) = Len(B) - a
  BY DEF After
<1>7. [i \in 0 .. Len(r) - k |-> pos[k + i] - pos[k]][1] = pos[k + 1] - a
  BY <1>4
<1> DEFINE x == pos[k + 1]
<1>8. x \in Nat /\ x > Len(B) /\ a \in Nat /\ Len(B) \in Nat
  BY <1>1, <1>3, <1>5
<1> HIDE DEF x, a
<1>9. x - a > Len(B) - a
  BY <1>8
<1> QED BY <1>6, <1>7, <1>9 DEF x

\* A read hands over whole frames, and what it keeps has none.
LEMMA ReadLaid ==
  ASSUME NEW t \in Seq(Nat), NEW c \in Seq(Nat), NEW r \in Seq(Items), NEW pos, Laid(t \o c, r, pos),
         NEW n \in 1 .. Len(c)
  PROVE  LET B  == t \o SubSeq(c, 1, n)
             c2 == SubSeq(c, n + 1, Len(c))
         IN  /\ Rest(B) \in Seq(Nat) /\ c2 \in Seq(Nat) /\ Data(Rest(B)) = << >>
             /\ \E k \in 0 .. Len(r) :
                  /\ Packets(Data(B)) = FramesOf(r, k)
                  /\ SubSeq(r, k + 1, Len(r)) \in Seq(Items)
                  /\ \E p : Laid(Rest(B) \o c2, SubSeq(r, k + 1, Len(r)), p)
<1> DEFINE S == t \o c
           h == SubSeq(c, 1, n)
           c2 == SubSeq(c, n + 1, Len(c))
           B == t \o h
<1>1. First(h, c, n) /\ After(c2, c, n)
  <2>1. n \in 0 .. Len(c)
    OBVIOUS
  <2> QED BY <2>1, SplitAt
<1>5. Laid(S, r, pos)
  OBVIOUS
<1>2. c2 \in Seq(Nat)
  <2> HIDE DEF c2
  <2> QED BY <1>1 DEF After
<1> HIDE DEF h, c2
<1>3. S \in Seq(Nat) /\ B \in Seq(Nat) /\ FirstOf(B, S) /\ After(c2, S, Len(B))
  BY <1>1, ReadAfter
<1> HIDE DEF S, B
<1>4. Len(B) \in Nat
  BY <1>3
<1>6. \E k \in 0 .. Len(r) : pos[k] <= Len(B) /\ (k < Len(r) => pos[k + 1] > Len(B))
  BY <1>3, <1>4, <1>5, LastWhole
<1>7. PICK k \in 0 .. Len(r) : LastIn(r, pos, k, Len(B))
  BY <1>6 DEF LastIn
<1> DEFINE a == pos[k]
           e == SubSeq(B, a + 1, Len(B))
           r2 == SubSeq(r, k + 1, Len(r))
           p == [i \in 0 .. Len(r) - k |-> pos[k + i] - pos[k]]
<1>8. a \in 0 .. Len(B) /\ Rest(B) = e /\ Packets(Data(B)) = FramesOf(r, k)
  BY <1>3, <1>5, <1>7, CutRight
<1>9. After(e, B, a)
  BY <1>3, <1>8, SplitAt
<1>12. e \in Seq(Nat)
  <2> HIDE DEF e
  <2> QED BY <1>9 DEF After
<1>13. 0 < Len(r2) => p[1] > Len(e)
  <2> HIDE DEF e
  <2> QED BY <1>3, <1>5, <1>7, <1>8, <1>9, NoneAfter
<1> HIDE DEF e
<1>10. After(e \o c2, S, pos[k]) /\ FirstOf(e, e \o c2)
  BY <1>3, <1>8, <1>9, RestAfter
<1> DEFINE T == e \o c2
<1>14. T \in Seq(Nat)
  BY <1>2, <1>12, ConcatProperties
<1>15. After(T, S, pos[k]) /\ FirstOf(e, T)
  BY <1>10
<1> HIDE DEF T
<1>11. r2 \in Seq(Items) /\ Laid(T, r2, p)
  BY <1>3, <1>5, <1>15, LaidAfter
<1> HIDE DEF r2, p
<1>16. Data(e) = << >>
  BY <1>11, <1>12, <1>13, <1>14, <1>15, NoneWhole
<1>17. \E q : Laid(Rest(B) \o c2, r2, q)
  BY <1>8, <1>11 DEF T
<1>18. Rest(B) \in Seq(Nat) /\ Data(Rest(B)) = << >>
  BY <1>8, <1>12, <1>16
<1>19. \E l \in 0 .. Len(r) :
         /\ Packets(Data(B)) = FramesOf(r, l)
         /\ SubSeq(r, l + 1, Len(r)) \in Seq(Items)
         /\ \E q : Laid(Rest(B) \o c2, SubSeq(r, l + 1, Len(r)), q)
  BY <1>8, <1>11, <1>17 DEF r2
<1> QED BY <1>2, <1>18, <1>19 DEF B, h, c2

\* The first i frames are those before the i-th, and the i-th.
LEMMA LaidPart ==
  ASSUME NEW S \in Seq(Nat), NEW r \in Seq(Items), NEW pos, Laid(S, r, pos), NEW i \in 1 .. Len(r)
  PROVE  /\ i = 1 => SubSeq(S, 1, pos[i]) = Frame(r[i])
         /\ SubSeq(S, 1, pos[i]) = SubSeq(S, 1, pos[i - 1]) \o Frame(r[i])
<1> DEFINE a == pos[i - 1]
           b == pos[i]
           f == Frame(r[i])
           h == SubSeq(S, 1, b)
           g == SubSeq(S, 1, a)
<1>1. i - 1 \in 0 .. Len(r) /\ i \in 0 .. Len(r) /\ Len(r) \in 0 .. Len(r) /\ i <= Len(r) /\ i - 1 <= Len(r) /\ r[i] \in Items
  OBVIOUS
<1>2. /\ a \in Nat /\ b \in Nat /\ b = a + Len(f) /\ b <= Len(S)
      /\ \A j \in 1 .. Len(f) : S[a + j] = f[j]
  <2>1. a \in Nat /\ b \in Nat /\ b <= pos[Len(r)]
    BY <1>1, LaidGrows
  <2>2. pos[Len(r)] = Len(S) /\ b = a + Len(f) /\ \A j \in 1 .. Len(f) : S[a + j] = f[j]
    BY DEF Laid
  <2> QED BY <2>1, <2>2
<1>3. f \in Seq(Nat) /\ Len(f) \in Nat
  BY <1>1, Frames1
<1>9. i = 1 => a = 0
  BY DEF Laid
<1> HIDE DEF f, a, b
<1>4. a \in 0 .. Len(S) /\ b \in 0 .. Len(S)
  BY <1>2, <1>3
<1>5. First(h, S, b) /\ First(g, S, a)
  BY <1>4, SplitAt
<1> HIDE DEF h, g
<1>6. /\ h \in Seq(Nat) /\ Len(h) = b /\ \A j \in 1 .. b : h[j] = S[j]
      /\ g \in Seq(Nat) /\ Len(g) = a /\ \A j \in 1 .. a : g[j] = S[j]
  BY <1>5 DEF First
<1> DEFINE k == g \o f
<1>7. /\ k \in Seq(Nat) /\ Len(k) = Len(g) + Len(f)
      /\ \A j \in 1 .. Len(g) + Len(f) : k[j] = IF j <= Len(g) THEN g[j] ELSE f[j - Len(g)]
  BY <1>3, <1>6, ConcatProperties
<1>10. a = 0 => k = f
  <2> SUFFICES ASSUME a = 0 PROVE k = f
    OBVIOUS
  <2>1. g = << >>
    BY <1>6
  <2> QED BY <1>3, <2>1, ConcatEmptySeq
<1> HIDE DEF k
<1>8. h = k
  <2>1. Len(h) = Len(k)
    BY <1>2, <1>6, <1>7
  <2>2. ASSUME NEW j \in 1 .. Len(h) PROVE h[j] = k[j]
    <3>1. j \in Nat /\ j \in 1 .. b /\ j \in 1 .. Len(g) + Len(f)
      BY <1>2, <1>6
    <3>2. CASE j <= a
      <4>1. j \in 1 .. a
        BY <1>2, <3>1, <3>2
      <4>2. k[j] = g[j]
        BY <1>6, <1>7, <3>1, <3>2
      <4> QED BY <1>6, <3>1, <4>1, <4>2
    <3>3. CASE ~(j <= a)
      <4>1. j - a \in 1 .. Len(f) /\ a + (j - a) = j
        BY <1>2, <1>3, <3>1, <3>3
      <4>2. k[j] = f[j - a]
        BY <1>6, <1>7, <3>1, <3>3
      <4>3. S[a + (j - a)] = f[j - a]
        BY <1>2, <4>1
      <4> QED BY <1>6, <3>1, <4>1, <4>2, <4>3
    <3> QED BY <3>2, <3>3
  <2> QED BY <1>6, <1>7, <2>1, <2>2, SeqEqual
<1>11. (i = 1 => h = f) /\ h = k
  BY <1>8, <1>9, <1>10
<1> QED BY <1>11 DEF f, a, b, h, g, k

\* A stream is its frames, one after the other.
LEMMA LaidFlat ==
  ASSUME NEW S \in Seq(Nat), NEW r \in Seq(Items), NEW pos, Laid(S, r, pos)
  PROVE  S = FlattenSeq(FramesOf(r, Len(r)))
<1> DEFINE n == Len(r)
           q == FramesOf(r, n)
           O == 1 .. n
           g == [i \in O |-> SubSeq(S, 1, pos[i])]
           P(h) == h = [i \in 1 .. Len(q) |-> IF i = 1 THEN q[i] ELSE h[i - 1] \o q[i]]
           d == CHOOSE h : P(h)
<1>1. n \in Nat /\ Len(S) \in Nat
  OBVIOUS
<1>2. Len(q) = n /\ \A i \in O : q[i] = Frame(r[i])
  BY <1>1 DEF FramesOf
<1>3. pos[0] = 0 /\ pos[n] = Len(S)
  BY DEF Laid
<1>4. CASE n = 0
  <2>1. q = << >>
    BY <1>4 DEF FramesOf
  <2>2. S = << >>
    BY <1>3, <1>4
  <2> QED BY <2>1, <2>2 DEF FlattenSeq
<1>5. CASE n > 0
  <2>1. \A i \in O : g[i] = IF i = 1 THEN q[i] ELSE g[i - 1] \o q[i]
    <3> TAKE i \in O
    <3>2. i # 1 => i - 1 \in O
      BY <1>1
    <3>1. g[i] = SubSeq(S, 1, pos[i]) /\ (i # 1 => g[i - 1] = SubSeq(S, 1, pos[i - 1]))
      BY <3>2
    <3> HIDE DEF g, q
    <3>3. /\ i = 1 => SubSeq(S, 1, pos[i]) = Frame(r[i])
          /\ SubSeq(S, 1, pos[i]) = SubSeq(S, 1, pos[i - 1]) \o Frame(r[i])
      BY LaidPart
    <3>4. q[i] = Frame(r[i])
      BY <1>2
    <3>5. CASE i = 1
      BY <3>1, <3>3, <3>4, <3>5
    <3>6. CASE i # 1
      <4>1. SubSeq(S, 1, pos[i]) = g[i - 1] \o q[i]
        BY <3>1, <3>3, <3>4, <3>6
      <4> QED BY <3>1, <3>6, <4>1
    <3> QED BY <3>5, <3>6
  <2>2. P(g)
    <3>1. g = [i \in O |-> g[i]]
      OBVIOUS
    <3> HIDE DEF g, q, O
    <3>2. O = 1 .. Len(q)
      BY <1>2 DEF O
    <3> QED BY <2>1, <3>1, <3>2
  <2>3. P(d)
    <3> HIDE DEF P
    <3> QED BY <2>2
  <2>4. FlattenSeq(q) = d[n]
    <3> HIDE DEF q
    <3> QED BY <1>2, <1>5 DEF FlattenSeq
  <2> HIDE DEF d, g, q
  <2>5. \A i \in O : d[i] = IF i = 1 THEN q[i] ELSE d[i - 1] \o q[i]
    BY <1>2, <2>3
  <2> DEFINE G == {i \in Nat : i + 1 \in O => d[i + 1] = g[i + 1]}
  <2>6. 0 \in G
    BY <1>5, <2>1, <2>5
  <2>7. ASSUME NEW i \in G PROVE i + 1 \in G
    <3> SUFFICES ASSUME i + 1 + 1 \in O PROVE d[i + 1 + 1] = g[i + 1 + 1]
      OBVIOUS
    <3>1. i + 1 \in O /\ i + 1 + 1 # 1 /\ i + 1 + 1 - 1 = i + 1
      BY <1>1
    <3>2. d[i + 1] = g[i + 1]
      BY <3>1
    <3> DEFINE j == i + 1 + 1
    <3>3. j \in O /\ j # 1 /\ j - 1 = i + 1
      BY <3>1
    <3> HIDE DEF G, O, P, j
    <3>4. d[j] = d[j - 1] \o q[j] /\ g[j] = g[j - 1] \o q[j]
      BY <2>1, <2>5, <3>3
    <3>5. d[j] = g[j]
      BY <3>2, <3>3, <3>4
    <3> QED BY <3>5 DEF j
  <2>8. n - 1 \in G
    <3>1. G \in SUBSET Nat
      OBVIOUS
    <3> HIDE DEF G
    <3>2. G = Nat
      BY <2>6, <2>7, <3>1, Induction
    <3> QED BY <1>1, <1>5, <3>2
  <2>9. d[n] = g[n]
    <3>1. n - 1 + 1 = n /\ n \in O
      BY <1>1, <1>5
    <3> QED BY <2>8, <3>1
  <2>10. g[n] = SubSeq(S, 1, Len(S))
    <3>1. n \in O
      BY <1>1, <1>5
    <3> QED BY <1>3, <3>1 DEF g
  <2>11. SubSeq(S, 1, Len(S)) = S
    OBVIOUS
  <2> QED BY <2>4, <2>9, <2>10, <2>11 DEF q
<1> QED BY <1>1, <1>4, <1>5

\* The frames of the first k items.
LEMMA FramesIs ==
  ASSUME NEW a \in Seq(Items), NEW k \in 0 .. Len(a)
  PROVE  /\ FramesOf(a, k) \in Seq(Seq(Nat)) /\ Len(FramesOf(a, k)) = k
         /\ \A i \in 1 .. k : FramesOf(a, k)[i] = Frame(a[i])
<1>1. k \in Nat /\ \A i \in 1 .. k : a[i] \in Items
  OBVIOUS
<1>2. \A i \in 1 .. k : Frame(a[i]) \in Seq(Nat)
  BY <1>1, Frames1
<1> QED BY <1>1, <1>2 DEF FramesOf

\* Frames of a first part.
LEMMA FramesFirst ==
  ASSUME NEW r \in Seq(Items), NEW k \in 0 .. Len(r)
  PROVE  LET a == SubSeq(r, 1, k) IN FramesOf(a, Len(a)) = FramesOf(r, k)
<1> DEFINE a == SubSeq(r, 1, k)
<1>1. a \in Seq(Items) /\ Len(a) = k /\ \A i \in 1 .. k : a[i] = r[i]
  BY Parts
<1> HIDE DEF a
<1>2. FramesOf(a, Len(a)) = FramesOf(r, k)
  BY <1>1 DEF FramesOf
<1> QED BY <1>2 DEF a

\* Frames of two sequences, one behind the other.
LEMMA FramesJoin ==
  ASSUME NEW a \in Seq(Items), NEW r \in Seq(Items)
  PROVE  LET F == FramesOf(a \o r, Len(a \o r))
         IN  /\ SubSeq(F, 1, Len(a)) = FramesOf(a, Len(a))
             /\ SubSeq(F, Len(a) + 1, Len(F)) = FramesOf(r, Len(r))
<1> DEFINE o == a \o r
           F == FramesOf(o, Len(o))
           n == Len(a)
           l == Len(r)
<1>1. o \in Seq(Items) /\ Len(o) = n + l
      /\ \A i \in 1 .. n + l : o[i] = IF i <= n THEN a[i] ELSE r[i - n]
  BY ConcatProperties
<1>2. n \in Nat /\ l \in Nat
  OBVIOUS
<1> HIDE DEF o
<1>3. /\ F \in Seq(Seq(Nat)) /\ Len(F) = n + l /\ \A i \in 1 .. n + l : F[i] = Frame(o[i])
  BY <1>1, <1>2, FramesIs
<1> HIDE DEF F
<1>4. n \in 0 .. Len(F) /\ Len(F) - n = l
  BY <1>2, <1>3
<1> DEFINE h == SubSeq(F, 1, n)
           e == SubSeq(F, n + 1, Len(F))
<1>5. /\ h \in Seq(Seq(Nat)) /\ Len(h) = n /\ \A i \in 1 .. n : h[i] = F[i]
      /\ e \in Seq(Seq(Nat)) /\ Len(e) = Len(F) - n /\ \A i \in 1 .. Len(F) - n : e[i] = F[n + i]
  BY <1>3, <1>4, Parts
<1> HIDE DEF h, e
<1> DEFINE fa == FramesOf(a, n)
           fr == FramesOf(r, l)
<1>6. /\ fa \in Seq(Seq(Nat)) /\ Len(fa) = n /\ \A i \in 1 .. n : fa[i] = Frame(a[i])
      /\ fr \in Seq(Seq(Nat)) /\ Len(fr) = l /\ \A i \in 1 .. l : fr[i] = Frame(r[i])
  BY <1>2, FramesIs
<1> HIDE DEF fa, fr, n, l
<1>7. h = fa
  <2>1. \A i \in 1 .. n : i \in 1 .. n + l /\ i <= n
    BY <1>2
  <2>2. \A i \in 1 .. n : o[i] = a[i]
    BY <1>1, <2>1
  <2>3. \A i \in 1 .. n : h[i] = fa[i]
    BY <1>3, <1>5, <1>6, <2>1, <2>2
  <2> QED BY <1>5, <1>6, <2>3, SeqEqual
<1>8. e = fr
  <2>1. \A i \in 1 .. l : n + i \in 1 .. n + l /\ ~(n + i <= n) /\ n + i - n = i
    BY <1>2
  <2>2. \A i \in 1 .. l : o[n + i] = r[i]
    <3> TAKE i \in 1 .. l
    <3> DEFINE x == n + i
    <3>1. x \in 1 .. n + l /\ ~(x <= n) /\ x - n = i
      BY <1>2
    <3> HIDE DEF x
    <3>2. o[x] = r[i]
      BY <1>1, <3>1
    <3> QED BY <3>2 DEF x
  <2>3. \A i \in 1 .. l : e[i] = fr[i]
    BY <1>3, <1>4, <1>5, <1>6, <2>1, <2>2
  <2>4. Len(e) = Len(fr) /\ \A i \in 1 .. Len(e) : e[i] = fr[i]
    BY <1>4, <1>5, <1>6, <2>3
  <2> QED BY <1>5, <1>6, <2>4, SeqEqual
<1> QED BY <1>7, <1>8 DEF h, e, fa, fr, n, l, F, o

\* The items owed to a client are those of the frames in hand and those whose
\* bytes are kept or still to be read.
Stream(o, p, B, c) ==
  /\ o \in Seq(Items) /\ B \in Seq(Nat) /\ c \in Seq(Nat)
  /\ B # << >> => Data(B) = << >>
  /\ \E a, r \in Seq(Items) :
       /\ o = a \o r /\ p = FramesOf(a, Len(a))
       /\ \E pos : Laid(B \o c, r, pos)

\* At first nothing is owed.
LEMMA StreamInit == Stream(<< >>, << >>, << >>, << >>)
<1> DEFINE e == << >>
           pos == [i \in 0 .. 0 |-> 0]
<1>1. e \in Seq(Items) /\ e \in Seq(Nat) /\ e \o e = e /\ Len(e) = 0 /\ FramesOf(e, 0) = e
  BY DEF FramesOf
<1>2. Laid(e, e, pos)
  <2>1. pos \in [0 .. 0 -> Nat] /\ pos[0] = 0
    OBVIOUS
  <2>2. \A i \in 1 .. 0 : FALSE
    OBVIOUS
  <2> HIDE DEF e, pos
  <2> QED BY <1>1, <2>1, <2>2 DEF Laid
<1>3. \E q : Laid(e \o e, e, q)
  <2> HIDE DEF e, pos
  <2> QED BY <1>1, <1>2
<1>5. Stream(e, e, e, e)
  <2>1. e = << >>
    OBVIOUS
  <2> HIDE DEF e, pos
  <2> QED BY <1>1, <1>3, <2>1 DEF Stream
<1> QED BY <1>5

\* The server sends.
LEMMA StreamSend ==
  ASSUME NEW o, NEW p, NEW B, NEW c, Stream(o, p, B, c), NEW m \in Items
  PROVE  Stream(o \o <<m>>, p, B, c \o Frame(m))
<1>1. PICK a, r \in Seq(Items) : o = a \o r /\ p = FramesOf(a, Len(a)) /\ \E pos : Laid(B \o c, r, pos)
  BY DEF Stream
<1>2. PICK pos : Laid(B \o c, r, pos)
  BY <1>1
<1>3. o \in Seq(Items) /\ B \in Seq(Nat) /\ c \in Seq(Nat) /\ (B # << >> => Data(B) = << >>)
  BY DEF Stream
<1> DEFINE q == <<m>>
           f == Frame(m)
<1>4. q \in Seq(Items) /\ f \in Seq(Nat)
  BY Frames1
<1>5. B \o c \in Seq(Nat)
  BY <1>3, ConcatProperties
<1>6. \E s : Laid((B \o c) \o f, r \o q, s)
  BY <1>2, <1>5, LaidMore
<1> HIDE DEF q, f
<1>7. (B \o c) \o f = B \o (c \o f) /\ (a \o r) \o q = a \o (r \o q)
  <2>1. (B \o c) \o f = B \o (c \o f)
    <3>1. B \in Seq(Nat) /\ c \in Seq(Nat) /\ f \in Seq(Nat)
      BY <1>3, <1>4
    <3> QED BY <3>1, ConcatAssociative
  <2>2. (a \o r) \o q = a \o (r \o q)
    BY <1>4, ConcatAssociative
  <2> QED BY <2>1, <2>2
<1>8. r \o q \in Seq(Items) /\ o \o q \in Seq(Items) /\ c \o f \in Seq(Nat)
  BY <1>3, <1>4, ConcatProperties
<1>9. o \o q = a \o (r \o q) /\ \E s : Laid(B \o (c \o f), r \o q, s)
  BY <1>1, <1>6, <1>7
<1>10. Stream(o \o q, p, B, c \o f)
  BY <1>1, <1>3, <1>8, <1>9 DEF Stream
<1> QED BY <1>10 DEF q, f

\* The client reads n bytes.
LEMMA StreamRead ==
  ASSUME NEW o, NEW B, NEW c, Stream(o, << >>, B, c), NEW n \in 1 .. Len(c)
  PROVE  LET buff == B \o SubSeq(c, 1, n)
         IN  Stream(o, Packets(Data(buff)), Rest(buff), SubSeq(c, n + 1, Len(c)))
<1>1. PICK a, r \in Seq(Items) : o = a \o r /\ << >> = FramesOf(a, Len(a)) /\ \E pos : Laid(B \o c, r, pos)
  BY DEF Stream
<1>2. PICK pos : Laid(B \o c, r, pos)
  BY <1>1
<1>3. o \in Seq(Items) /\ B \in Seq(Nat) /\ c \in Seq(Nat)
  BY DEF Stream
<1>4. o = r
  <2>1. Len(a) \in Nat /\ Len(a) \in 0 .. Len(a)
    OBVIOUS
  <2>2. Len(FramesOf(a, Len(a))) = Len(a)
    BY <2>1, FramesIs
  <2>3. Len(a) = 0
    BY <1>1, <2>2
  <2>4. a = << >>
    BY <2>3
  <2> QED BY <1>1, <2>4, ConcatEmptySeq
<1> DEFINE buff == B \o SubSeq(c, 1, n)
           c2 == SubSeq(c, n + 1, Len(c))
<1>5. /\ Rest(buff) \in Seq(Nat) /\ c2 \in Seq(Nat) /\ Data(Rest(buff)) = << >>
      /\ \E k \in 0 .. Len(r) :
                  /\ Packets(Data(buff)) = FramesOf(r, k)
                  /\ SubSeq(r, k + 1, Len(r)) \in Seq(Items)
                  /\ \E p : Laid(Rest(buff) \o c2, SubSeq(r, k + 1, Len(r)), p)
  BY <1>2, <1>3, ReadLaid
<1> HIDE DEF buff, c2
<1>6. PICK k \in 0 .. Len(r) :
                  /\ Packets(Data(buff)) = FramesOf(r, k)
                  /\ SubSeq(r, k + 1, Len(r)) \in Seq(Items)
                  /\ \E p : Laid(Rest(buff) \o c2, SubSeq(r, k + 1, Len(r)), p)
  BY <1>5
<1> DEFINE h == SubSeq(r, 1, k)
           e == SubSeq(r, k + 1, Len(r))
<1>7. h \in Seq(Items) /\ r = h \o e
  BY Parts
<1>8. FramesOf(h, Len(h)) = FramesOf(r, k)
  BY FramesFirst
<1>9. e \in Seq(Items) /\ \E p : Laid(Rest(buff) \o c2, e, p)
  BY <1>6
<1> HIDE DEF h, e
<1>10. Stream(o, Packets(Data(buff)), Rest(buff), c2)
  BY <1>3, <1>4, <1>5, <1>6, <1>7, <1>8, <1>9 DEF Stream
<1> QED BY <1>10 DEF buff, c2

\* The connection is lost: what is left of the stream is the frames in hand.
LEMMA StreamLose ==
  ASSUME NEW o, NEW p, NEW B, NEW c, Stream(o, p, B, c)
  PROVE  Len(p) \in 0 .. Len(o) /\ Stream(SubSeq(o, 1, Len(p)), p, << >>, << >>)
<1>1. PICK a, r \in Seq(Items) : o = a \o r /\ p = FramesOf(a, Len(a))
  BY DEF Stream
<1>2. Len(a) \in Nat /\ Len(r) \in Nat /\ Len(a) \in 0 .. Len(a)
  OBVIOUS
<1>3. Len(p) = Len(a)
  BY <1>1, <1>2, FramesIs
<1>4. o \in Seq(Items) /\ Len(o) = Len(a) + Len(r) /\ \A i \in 1 .. Len(a) : o[i] = a[i]
  <2>1. /\ a \o r \in Seq(Items) /\ Len(a \o r) = Len(a) + Len(r)
        /\ \A i \in 1 .. Len(a) + Len(r) : (a \o r)[i] = IF i <= Len(a) THEN a[i] ELSE r[i - Len(a)]
    BY ConcatProperties
  <2>2. \A i \in 1 .. Len(a) : i \in 1 .. Len(a) + Len(r) /\ i <= Len(a)
    BY <1>2
  <2> QED BY <1>1, <2>1, <2>2
<1>5. Len(a) \in 0 .. Len(o)
  BY <1>2, <1>4
<1>6. SubSeq(o, 1, Len(a)) = a
  <2> DEFINE h == SubSeq(o, 1, Len(a))
  <2>1. h \in Seq(Items) /\ Len(h) = Len(a) /\ \A i \in 1 .. Len(a) : h[i] = o[i]
    BY <1>4, <1>5, Parts
  <2> HIDE DEF h
  <2>2. \A i \in 1 .. Len(h) : h[i] = a[i]
    BY <1>4, <2>1
  <2>3. h = a
    BY <2>1, <2>2, SeqEqual
  <2> QED BY <2>3 DEF h
<1>7. Stream(a, p, << >>, << >>)
  <2> DEFINE e == << >>
  <2>1. Stream(e, e, e, e)
    BY StreamInit
  <2>2. PICK x, y \in Seq(Items) : e = x \o y /\ \E pos : Laid(e \o e, y, pos)
    BY <2>1 DEF Stream
  <2>3. y = e
    <3>1. Len(x \o y) = Len(x) + Len(y) /\ Len(x) \in Nat /\ Len(y) \in Nat
      BY ConcatProperties
    <3>2. Len(x \o y) = 0
      BY <2>2
    <3>3. Len(y) = 0
      BY ONLY <3>1, <3>2
    <3> QED BY <3>3
  <2>4. a = a \o e /\ e \in Seq(Nat) /\ e \in Seq(Items) /\ e = << >>
    BY ConcatEmptySeq
  <2> HIDE DEF e
  <2>5. Stream(a, p, e, e)
    BY <1>1, <2>2, <2>3, <2>4 DEF Stream
  <2> QED BY <2>5 DEF e
<1> QED BY <1>3, <1>5, <1>6, <1>7

\* A frame in hand is that of the first item owed.
LEMMA StreamHandle ==
  ASSUME NEW o, NEW p, NEW B, NEW c, Stream(o, p, B, c), p # << >>
  PROVE  /\ o # << >> /\ Stream(Tail(o), Tail(p), B, c)
         /\ p[1][1] = Recv <=> Head(o) # PONG
<1>1. PICK a, r \in Seq(Items) : o = a \o r /\ p = FramesOf(a, Len(a)) /\ \E pos : Laid(B \o c, r, pos)
  BY DEF Stream
<1>2. o \in Seq(Items) /\ B \in Seq(Nat) /\ c \in Seq(Nat) /\ (B # << >> => Data(B) = << >>)
  BY DEF Stream
<1> DEFINE n == Len(a)
<1>3. n \in Nat /\ n \in 0 .. Len(a)
  OBVIOUS
<1>4. p \in Seq(Seq(Nat)) /\ Len(p) = n /\ \A i \in 1 .. n : p[i] = Frame(a[i])
  BY <1>1, <1>3, FramesIs
<1>5. n > 0 /\ a # << >>
  <2>1. n # 0
    BY <1>4
  <2> QED BY <1>3, <2>1
<1>6. /\ o \in Seq(Items) /\ Len(o) = Len(a) + Len(r)
      /\ \A i \in 1 .. Len(a) + Len(r) : o[i] = IF i <= Len(a) THEN a[i] ELSE r[i - Len(a)]
  BY <1>1, ConcatProperties
<1>7. 1 \in 1 .. n /\ 1 \in 1 .. Len(a) + Len(r) /\ 1 <= Len(a) /\ Len(o) > 0
  BY <1>3, <1>5, <1>6
<1>8. o # << >> /\ o[1] = a[1] /\ p[1] = Frame(a[1]) /\ a[1] \in Items
  BY <1>4, <1>6, <1>7
<1>9. Head(o) = o[1]
  BY <1>6, <1>7
<1>10. p[1][1] = Recv <=> Head(o) # PONG
  BY <1>8, <1>9, Frames1
<1> DEFINE ta == Tail(a)
           tp == Tail(p)
           to == Tail(o)
<1>11. ta \in Seq(Items) /\ Len(ta) = n - 1 /\ \A i \in 1 .. Len(ta) : ta[i] = a[i + 1]
  BY <1>5, HeadTailProperties
<1>12. tp \in Seq(Seq(Nat)) /\ Len(tp) = n - 1 /\ \A i \in 1 .. Len(tp) : tp[i] = p[i + 1]
  BY <1>4, HeadTailProperties
<1>13. to \in Seq(Items) /\ Len(to) = Len(o) - 1 /\ \A i \in 1 .. Len(to) : to[i] = o[i + 1]
  BY <1>6, <1>8, HeadTailProperties
<1> HIDE DEF ta, tp, to, n
<1>14. tp = FramesOf(ta, Len(ta))
  <2> DEFINE F == FramesOf(ta, Len(ta))
  <2>1. Len(ta) \in 0 .. Len(ta) /\ Len(ta) \in Nat
    BY <1>11
  <2>2. F \in Seq(Seq(Nat)) /\ Len(F) = Len(ta) /\ \A i \in 1 .. Len(ta) : F[i] = Frame(ta[i])
    BY <1>11, <2>1, FramesIs
  <2> HIDE DEF F
  <2>3. \A i \in 1 .. Len(tp) : i \in 1 .. Len(ta) /\ i + 1 \in 1 .. n
    BY <1>3, <1>5, <1>11, <1>12
  <2>4. \A i \in 1 .. Len(tp) : tp[i] = F[i]
    BY <1>4, <1>11, <1>12, <2>2, <2>3
  <2> QED BY <1>11, <1>12, <2>2, <2>4, SeqEqual DEF F
<1>15. to = ta \o r
  <2> DEFINE k == ta \o r
  <2>1. /\ k \in Seq(Items) /\ Len(k) = Len(ta) + Len(r)
        /\ \A i \in 1 .. Len(ta) + Len(r) : k[i] = IF i <= Len(ta) THEN ta[i] ELSE r[i - Len(ta)]
    BY <1>11, ConcatProperties
  <2> HIDE DEF k
  <2>0. Len(r) \in Nat /\ n = Len(a)
    BY DEF n
  <2>5. Len(k) = Len(ta) + Len(r) /\ Len(ta) = n - 1 /\ Len(to) = Len(o) - 1 /\ Len(o) = n + Len(r)
    BY <1>6, <1>11, <1>13, <2>0, <2>1
  <2>2. Len(k) = Len(to)
    BY <1>3, <2>0, <2>5
  <2>3. ASSUME NEW i \in 1 .. Len(to) PROVE to[i] = k[i]
    <3> DEFINE x == i + 1
    <3>1. i \in Nat /\ i \in 1 .. Len(ta) + Len(r) /\ x \in 1 .. Len(a) + Len(r)
          /\ (i <= Len(ta) <=> x <= Len(a)) /\ x - Len(a) = i - Len(ta) /\ (i <= Len(ta) => i \in 1 .. Len(ta))
      BY <1>3, <1>6, <1>11, <1>13, <2>0
    <3>2. to[i] = o[x] /\ (i <= Len(ta) => ta[i] = a[x])
      BY <1>11, <1>13, <3>1
    <3> HIDE DEF x
    <3>3. CASE i <= Len(ta)
      <4>1. o[x] = a[x]
        BY <1>6, <3>1, <3>3
      <4>2. k[i] = ta[i]
        BY <2>1, <3>1, <3>3
      <4> QED BY <3>2, <3>3, <4>1, <4>2
    <3>4. CASE ~(i <= Len(ta))
      <4>1. o[x] = r[x - Len(a)]
        BY <1>6, <3>1, <3>4
      <4>2. k[i] = r[i - Len(ta)]
        BY <2>1, <3>1, <3>4
      <4> QED BY <3>1, <3>2, <4>1, <4>2
    <3> QED BY <3>3, <3>4
  <2>4. to = k
    BY <1>13, <2>1, <2>2, <2>3, SeqEqual
  <2> QED BY <2>4 DEF k
<1>16. Stream(to, tp, B, c)
  BY <1>1, <1>2, <1>11, <1>13, <1>14, <1>15 DEF Stream
<1> QED BY <1>8, <1>10, <1>16 DEF to, tp

\* What FramesWhole says of one client.
LEMMA StreamWhole ==
  ASSUME NEW o, NEW p, NEW B, NEW c, Stream(o, p, B, c)
  PROVE  LET F == [i \in DOMAIN o |-> Frame(o[i])]
         IN  /\ p = SubSeq(F, 1, Len(p))
             /\ B \o c = FlattenSeq(SubSeq(F, Len(p) + 1, Len(F)))
             /\ B # << >> => Parse(B).data = << >>
<1>1. PICK a, r \in Seq(Items) : o = a \o r /\ p = FramesOf(a, Len(a)) /\ \E pos : Laid(B \o c, r, pos)
  BY DEF Stream
<1>2. PICK pos : Laid(B \o c, r, pos)
  BY <1>1
<1>3. o \in Seq(Items) /\ B \in Seq(Nat) /\ c \in Seq(Nat) /\ (B # << >> => Data(B) = << >>)
  BY DEF Stream
<1>4. Len(p) = Len(a)
  <2>1. Len(a) \in 0 .. Len(a)
    OBVIOUS
  <2> QED BY <1>1, <2>1, FramesIs
<1> DEFINE F == FramesOf(o, Len(o))
<1>5. [i \in DOMAIN o |-> Frame(o[i])] = F
  <2>1. DOMAIN o = 1 .. Len(o)
    BY <1>3
  <2> QED BY <2>1 DEF FramesOf
<1>6. SubSeq(F, 1, Len(a)) = p /\ SubSeq(F, Len(a) + 1, Len(F)) = FramesOf(r, Len(r))
  <2>1. LET G == FramesOf(a \o r, Len(a \o r))
        IN  /\ SubSeq(G, 1, Len(a)) = FramesOf(a, Len(a))
            /\ SubSeq(G, Len(a) + 1, Len(G)) = FramesOf(r, Len(r))
    BY FramesJoin
  <2> QED BY <1>1, <2>1
<1> HIDE DEF F
<1>7. B \o c \in Seq(Nat)
  BY <1>3, ConcatProperties
<1>8. B \o c = FlattenSeq(FramesOf(r, Len(r)))
  BY <1>2, <1>7, LaidFlat
<1>9. p = SubSeq(F, 1, Len(p)) /\ B \o c = FlattenSeq(SubSeq(F, Len(p) + 1, Len(F)))
  BY <1>4, <1>6, <1>8
<1> QED BY <1>3, <1>5, <1>9 DEF Data

-----------------------------------------------------------------------------
(* Types, and the streams of the clients.                                  *)

TaskTyped ==
  /\ count \in Counts /\ isRunning \in BOOLEAN /\ stopC \in BOOLEAN
  /\ pairs \subseteq SUBSET Uids /\ todo \subseteq pairs
  /\ at \in {"select", "round", "chance", "off"} /\ round \in 0 .. Rounds
ConnsTyped ==
  /\ onlineFinished \in BOOLEAN /\ losses \in 0 .. MaxLoss
  /\ online \subseteq clients /\ clients \subseteq OnlineUids
SendsTyped ==
  /\ route \in Seq(OnlineUids \X Uids) /\ Len(route) <= MaxMsg /\ sendMsgCount = Len(route)
  /\ wire \subseteq 1 .. Len(route) /\ missed \subseteq Msgs
NetTyped ==
  /\ toClient \in [OnlineUids -> Seq(Nat)] /\ owed \in [OnlineUids -> Seq(Items)]
  /\ tmpBuff \in [OnlineUids -> Seq(Nat)] /\ packets \in [OnlineUids -> Seq(Seq(Nat))]
  /\ recvCount \in [OnlineUids -> Nat]
StatsTyped ==
  /\ statsAt \in {"idle", "sum", "expect"} /\ listed \subseteq OnlineUids /\ summed \subseteq OnlineUids
  /\ sum \in Nat /\ recv \in Nat /\ expectRecv \in Nat
Typed == TaskTyped /\ ConnsTyped /\ SendsTyped /\ NetTyped /\ StatsTyped

Streams == \A u \in OnlineUids : Stream(owed[u], packets[u], tmpBuff[u], toClient[u])

\* The invariant has the types that the run checks.
LEMMA TypedOK == Typed => TypeOK
<1> SUFFICES ASSUME Typed PROVE TypeOK
  OBVIOUS
<1> USE DEF Typed, TaskTyped, ConnsTyped, SendsTyped, NetTyped, StatsTyped
<1>1. MaxMsg \in Nat /\ Len(route) \in Nat
  BY Numbers
<1>2. sendMsgCount \in 0 .. MaxMsg /\ wire \subseteq Msgs
  BY <1>1 DEF Msgs
<1>3. \A u \in OnlineUids :
       /\ {toClient[u], tmpBuff[u]} \subseteq Seq(Nat) /\ packets[u] \in Seq(Seq(Nat))
       /\ owed[u] \in Seq({PONG} \cup Msgs) /\ recvCount[u] \in Nat
  BY DEF Items
<1>4. {isRunning, stopC} \subseteq BOOLEAN /\ {listed, summed} \subseteq SUBSET OnlineUids
      /\ {sum, recv, expectRecv} \subseteq Nat
  OBVIOUS
<1> QED BY <1>2, <1>3, <1>4 DEF TypeOK

\* generateData makes pairs of users.
LEMMA PairsInit ==
  ASSUME NEW c \in Counts, NEW P, P \in RandomPairs(Users(c), c)
  PROVE  P \subseteq SUBSET Uids
<1>1. Users(c) \subseteq Uids
  BY DEF Uids
<1> DEFINE all == {{i, j} : i, j \in Users(c)} \ {{i} : i \in Users(c)}
<1>2. P = {} \/ P \subseteq all
  BY DEF RandomPairs
<1>3. \A x \in all : x \subseteq Uids
  BY <1>1
<1> HIDE DEF all
<1> QED BY <1>2, <1>3

\* The invariant holds at first.
LEMMA InitTyped == Init => Typed /\ Streams
<1> SUFFICES ASSUME Init PROVE Typed /\ Streams
  OBVIOUS
<1> USE DEF Init
<1>1. TaskTyped
  <2>1. pairs \subseteq SUBSET Uids
    BY PairsInit
  <2>2. count \in Counts /\ isRunning = TRUE /\ stopC = FALSE /\ at = "select" /\ round = 0 /\ todo = {}
    OBVIOUS
  <2>3. 0 \in 0 .. Rounds
    BY Numbers
  <2> QED BY <2>1, <2>2, <2>3 DEF TaskTyped
<1>2. SendsTyped
  BY Numbers DEF SendsTyped
<1>6. ConnsTyped
  <2>1. onlineFinished = FALSE /\ losses = 0 /\ online = {} /\ clients = {}
    OBVIOUS
  <2>2. 0 \in 0 .. MaxLoss
    BY Numbers
  <2> QED BY ONLY <2>1, <2>2 DEF ConnsTyped
<1>3. NetTyped
  <2>1. << >> \in Seq(Nat) /\ << >> \in Seq(Items) /\ << >> \in Seq(Seq(Nat))
    OBVIOUS
  <2> QED BY <2>1 DEF NetTyped
<1>4. StatsTyped
  BY DEF StatsTyped
<1>5. Streams
  BY StreamInit DEF Streams
<1> QED BY <1>1, <1>2, <1>3, <1>4, <1>5, <1>6 DEF Typed

\* The sending of the p2p task.
LEMMA RandSendTyped ==
  ASSUME Typed, NEW from, NEW to \in Uids, MayGoOn, RandSend(from, to)
  PROVE  SendsTyped'
<1> USE DEF Typed, ConnsTyped, SendsTyped, MayGoOn
<1>0. Len(route) \in Nat /\ MaxMsg \in Nat
  BY Numbers
<1>1. CASE from \in online
  <2>1. /\ sendMsgCount' = sendMsgCount + 1
        /\ route' = Append(route, <<from, to>>)
        /\ wire' \subseteq wire \cup {Len(route) + 1}
        /\ missed' \subseteq missed \cup {Len(route) + 1}
    BY <1>1 DEF RandSend, Send
  <2>2. <<from, to>> \in OnlineUids \X Uids
    BY <1>1
  <2>3. route' \in Seq(OnlineUids \X Uids) /\ Len(route') = Len(route) + 1
    BY <2>1, <2>2
  <2>4. wire' \subseteq 1 .. Len(route')
    <3>1. \A x \in 1 .. Len(route) : x \in 1 .. Len(route) + 1
      BY <1>0
    <3>2. Len(route) + 1 \in 1 .. Len(route) + 1
      BY <1>0
    <3> QED BY <2>1, <2>3, <3>1, <3>2
  <2>5. Len(route') <= MaxMsg
    BY <1>0, <1>1, <2>3
  <2>6. missed' \subseteq Msgs
    <3>1. Len(route) + 1 \in Msgs
      BY <1>0 DEF Msgs
    <3> QED BY <2>1, <3>1
  <2>7. sendMsgCount' = Len(route')
    BY <2>1, <2>3
  <2> QED BY <2>3, <2>4, <2>5, <2>6, <2>7
<1>2. CASE from \notin online
  BY <1>2 DEF RandSend, sends
<1> QED BY <1>1, <1>2

\* A step of sendLoop.
LEMMA LoopTyped ==
  ASSUME Typed, Loop
  PROVE  /\ TaskTyped' /\ SendsTyped'
         /\ UNCHANGED <<net, reader, stats, conns, count, pairs>>
<1> USE DEF Typed, TaskTyped, SendsTyped, task, loop, sends
<1>1. CASE Tick
  BY <1>1, Numbers DEF Tick
<1>2. CASE Stopped
  BY <1>2 DEF Stopped
<1>3. CASE NextRound
  <2>1. UNCHANGED <<task, sends, conns, net, reader, stats>>
    BY <1>3 DEF NextRound
  <2>2. round' \in 0 .. Rounds /\ todo' \subseteq pairs /\ at' \in {"select", "round", "chance", "off"}
    BY <1>3, Numbers DEF NextRound
  <2> QED BY <2>1, <2>2
<1>4. CASE \E p \in todo : SendPair(p)
  <2>1. PICK p \in todo : SendPair(p)
    BY <1>4
  <2>2. /\ todo' = todo \ {p}
        /\ \/ \E from \in p : \E to \in p \ {from} : RandSend(from, to)
           \/ at = "chance" /\ UNCHANGED sends
        /\ UNCHANGED <<task, at, round, conns, net, reader, stats>> /\ MayGoOn
    BY <2>1 DEF SendPair
  <2>3. TaskTyped'
    BY <2>2
  <2>4. SendsTyped'
    <3>1. CASE \E from \in p : \E to \in p \ {from} : RandSend(from, to)
      <4>1. PICK from \in p : \E to \in p \ {from} : RandSend(from, to)
        BY <3>1
      <4>2. PICK to \in p \ {from} : RandSend(from, to)
        BY <4>1
      <4>3. to \in Uids
        OBVIOUS
      <4> QED BY <2>2, <4>2, <4>3, RandSendTyped
    <3>2. CASE UNCHANGED sends
      BY <2>2, <3>2
    <3> QED BY <2>2, <3>1, <3>2
  <2> QED BY <2>2, <2>3, <2>4
<1>5. CASE ChanceDone
  BY <1>5 DEF ChanceDone
<1> QED BY <1>1, <1>2, <1>3, <1>4, <1>5 DEF Loop

\* What the statistics do leaves the rest alone.
LEMMA CountTyped ==
  ASSUME Typed, Count
  PROVE  StatsTyped' /\ UNCHANGED <<task, loop, sends, conns, net, reader>>
<1> USE DEF Typed, StatsTyped, ConnsTyped, SendsTyped, NetTyped
<1>0. Len(route) \in Nat
  OBVIOUS
<1>1. CASE CountBegin
  BY <1>1 DEF CountBegin
<1>2. CASE \E u \in listed : CountClient(u)
  <2>1. PICK u \in listed : CountClient(u)
    BY <1>2
  <2>2. u \in OnlineUids /\ recvCount[u] \in Nat
    OBVIOUS
  <2>3. summed' = summed \cup {u} /\ sum' = sum + recvCount[u]
        /\ UNCHANGED <<task, loop, sends, conns, net, reader, statsAt, listed, recv, expectRecv>>
    BY <2>1 DEF CountClient
  <2> QED BY <2>2, <2>3
<1>3. CASE CountRecv
  BY <1>3 DEF CountRecv
<1>4. CASE CountExpect
  BY <1>0, <1>4 DEF CountExpect
<1> QED BY <1>1, <1>2, <1>3, <1>4 DEF Count

\* A message after a pong is one item after the other.
LEMMA TwoItems ==
  ASSUME NEW s \in Seq(Items), NEW x \in Items, NEW y \in Items
  PROVE  s \o <<x, y>> = (s \o <<x>>) \o <<y>>
<1> DEFINE p == <<x>>
           q == <<y>>
           l == <<x, y>>
           r == p \o q
<1>1. /\ p \in Seq(Items) /\ Len(p) = 1 /\ p[1] = x
      /\ q \in Seq(Items) /\ Len(q) = 1 /\ q[1] = y
      /\ l \in Seq(Items) /\ Len(l) = 2 /\ l[1] = x /\ l[2] = y
  OBVIOUS
<1> HIDE DEF p, q, l
<1>5. /\ r \in Seq(Items) /\ Len(r) = Len(p) + Len(q)
      /\ \A i \in 1 .. Len(p) + Len(q) : r[i] = IF i <= Len(p) THEN p[i] ELSE q[i - Len(p)]
  BY <1>1, ConcatProperties
<1> HIDE DEF r
<1>6. Len(r) = 2 /\ r[1] = x /\ r[2] = y
  BY <1>1, <1>5
<1>7. \A i \in 1 .. Len(l) : l[i] = r[i]
  <2>1. \A i \in 1 .. Len(l) : i = 1 \/ i = 2
    BY <1>1
  <2> QED BY <1>1, <1>6, <2>1
<1>8. l = r
  BY <1>1, <1>5, <1>6, <1>7, SeqEqual
<1>2. p \in Seq(Items) /\ q \in Seq(Items) /\ <<x, y>> = p \o q
  BY <1>1, <1>8 DEF l, r
<1>3. (s \o p) \o q = s \o (p \o q)
  BY <1>2, ConcatAssociative
<1>4. s \o <<x, y>> = (s \o p) \o q
  BY <1>2, <1>3
<1> QED BY <1>4 DEF p, q

\* What the server does for one client.
LEMMA TakeStream ==
  ASSUME Typed, Streams, NEW m \in wire, ServerTake(m)
  PROVE  /\ NetTyped' /\ Streams' /\ SendsTyped'
         /\ UNCHANGED <<task, loop, conns, sendMsgCount, route, reader, stats>>
<1> USE DEF Typed, ConnsTyped, SendsTyped, NetTyped
<1> DEFINE to == route[m][2]
           f == Frame(m)
           g == Frame(PONG)
<1>1. /\ UNCHANGED <<task, loop, conns, sendMsgCount, route, reader, stats>>
      /\ wire' = wire \ {m} /\ missed' \subseteq missed \cup {m}
      /\ IF to \in online
         THEN \/ /\ toClient' = [toClient EXCEPT ![to] = @ \o f]
                 /\ owed' = [owed EXCEPT ![to] = @ \o <<m>>]
              \/ /\ toClient' = [toClient EXCEPT ![to] = @ \o g \o f]
                 /\ owed' = [owed EXCEPT ![to] = @ \o <<PONG, m>>]
         ELSE UNCHANGED <<toClient, owed>>
  BY DEF ServerTake
<1>2. m \in Items /\ PONG \in Items
  <2>1. m \in 1 .. Len(route) /\ Len(route) <= MaxMsg /\ Len(route) \in Nat /\ MaxMsg \in Nat
    BY Numbers
  <2> QED BY <2>1 DEF Items, Msgs
<1>3. f \in Seq(Nat) /\ g \in Seq(Nat)
  BY <1>2, Frames1
<1>9. m \in Msgs
  <2>1. m \in 1 .. Len(route) /\ Len(route) <= MaxMsg /\ Len(route) \in Nat /\ MaxMsg \in Nat
    BY Numbers
  <2> QED BY <2>1 DEF Msgs
<1>10. SendsTyped' /\ UNCHANGED <<packets, tmpBuff, recvCount>>
  <2>1. missed' \subseteq Msgs
    BY <1>1, <1>9
  <2> QED BY <1>1, <2>1 DEF reader
<1>4. CASE to \notin online
  <2>1. UNCHANGED <<toClient, owed>>
    BY <1>1, <1>4
  <2> QED BY <1>1, <1>10, <2>1 DEF Streams
<1>5. CASE to \in online
  <2> DEFINE o1 == owed[to] \o <<m>>
             c1 == toClient[to] \o f
             o2 == owed[to] \o <<PONG, m>>
             c2 == toClient[to] \o g \o f
             p == packets[to]
             B == tmpBuff[to]
  <2>0. to \in OnlineUids
    BY <1>5
  <2>1. Stream(owed[to], p, B, toClient[to])
    BY <2>0 DEF Streams
  <2>2. Stream(o1, p, B, c1)
    BY <1>2, <2>1, StreamSend
  <2>3. Stream(o2, p, B, c2)
    <3>1. Stream(owed[to] \o <<PONG>>, p, B, toClient[to] \o g)
      BY <1>2, <2>1, StreamSend
    <3>2. Stream((owed[to] \o <<PONG>>) \o <<m>>, p, B, (toClient[to] \o g) \o f)
      BY <1>2, <3>1, StreamSend
    <3>3. owed[to] \in Seq(Items)
      BY <2>0
    <3>4. o2 = (owed[to] \o <<PONG>>) \o <<m>>
      BY <1>2, <3>3, TwoItems
    <3> QED BY <3>2, <3>4
  <2>4. o1 \in Seq(Items) /\ c1 \in Seq(Nat) /\ o2 \in Seq(Items) /\ c2 \in Seq(Nat)
    BY <2>2, <2>3 DEF Stream
  <2>5. \/ toClient' = [toClient EXCEPT ![to] = c1] /\ owed' = [owed EXCEPT ![to] = o1]
        \/ toClient' = [toClient EXCEPT ![to] = c2] /\ owed' = [owed EXCEPT ![to] = o2]
    BY <1>1, <1>5
  <2> HIDE DEF o1, c1, o2, c2, p, B, to, f, g
  <2>6. NetTyped'
    BY <1>10, <2>0, <2>4, <2>5
  <2>7. \A u \in OnlineUids \ {to} : owed'[u] = owed[u] /\ toClient'[u] = toClient[u]
    BY <2>5
  <2>8. Stream(owed'[to], p, B, toClient'[to])
    BY <2>0, <2>2, <2>3, <2>5
  <2>9. Streams'
    <3> SUFFICES ASSUME NEW u \in OnlineUids PROVE Stream(owed'[u], packets[u], tmpBuff[u], toClient'[u])
      BY <1>10 DEF Streams
    <3>1. CASE u = to
      BY <2>8, <3>1 DEF p, B
    <3>2. CASE u # to
      BY <2>7, <3>2 DEF Streams
    <3> QED BY <3>1, <3>2
  <2> QED BY <1>1, <1>10, <2>6, <2>9
<1> QED BY <1>4, <1>5

\* A connection is lost.
LEMMA LoseStream ==
  ASSUME Typed, Streams, NEW u \in OnlineUids, Lose(u)
  PROVE  /\ NetTyped' /\ Streams' /\ SendsTyped' /\ ConnsTyped'
         /\ UNCHANGED <<task, loop, sendMsgCount, route, recvCount, stats>>
         /\ wire' \subseteq wire /\ \E n \in 0 .. Len(owed[u]) : owed' = [owed EXCEPT ![u] = SubSeq(@, 1, n)]
<1> USE DEF Typed, ConnsTyped, SendsTyped, NetTyped
<1> DEFINE n == Len(packets[u])
           o == SubSeq(owed[u], 1, n)
<1>1. /\ online' = online \ {u} /\ losses' = losses + 1 /\ losses < MaxLoss
      /\ toClient' = [toClient EXCEPT ![u] = << >>] /\ tmpBuff' = [tmpBuff EXCEPT ![u] = << >>]
      /\ owed' = [owed EXCEPT ![u] = o]
      /\ UNCHANGED <<task, loop, onlineFinished, clients, sendMsgCount, route, packets, recvCount, stats>>
  BY DEF Lose
<1>2. wire' \subseteq wire /\ missed' \subseteq missed \cup wire \cup Msgs
  BY DEF Lose
<1>3. Stream(owed[u], packets[u], tmpBuff[u], toClient[u])
  BY DEF Streams
<1>4. n \in 0 .. Len(owed[u]) /\ Stream(o, packets[u], << >>, << >>)
  BY <1>3, StreamLose
<1>5. o \in Seq(Items)
  BY <1>4 DEF Stream
<1>6. ConnsTyped'
  <2>1. losses' \in 0 .. MaxLoss
    BY <1>1, Numbers
  <2> QED BY <1>1, <2>1
<1>7. SendsTyped'
  <2>1. wire \subseteq Msgs
    <3>1. Len(route) \in Nat /\ MaxMsg \in Nat /\ Len(route) <= MaxMsg
      BY Numbers
    <3> QED BY <3>1 DEF Msgs
  <2> QED BY <1>1, <1>2, <2>1
<1> HIDE DEF n, o
<1>8. NetTyped'
  <2>1. << >> \in Seq(Nat)
    OBVIOUS
  <2> QED BY <1>1, <1>5, <2>1
<1>9. Streams'
  <2> SUFFICES ASSUME NEW v \in OnlineUids PROVE Stream(owed'[v], packets[v], tmpBuff'[v], toClient'[v])
    BY <1>1 DEF Streams
  <2>1. CASE v = u
    BY <1>1, <1>4, <2>1
  <2>2. CASE v # u
    BY <1>1, <2>2 DEF Streams
  <2> QED BY <2>1, <2>2
<1>10. \E k \in 0 .. Len(owed[u]) : owed' = [owed EXCEPT ![u] = SubSeq(@, 1, k)]
  BY <1>1, <1>4 DEF o
<1> QED BY <1>1, <1>2, <1>6, <1>7, <1>8, <1>9, <1>10

\* A read.
LEMMA ReadStream ==
  ASSUME Typed, Streams, NEW u \in OnlineUids, NEW n \in 1 .. Len(toClient[u]), Read(u, n)
  PROVE  /\ NetTyped' /\ Streams'
         /\ UNCHANGED <<task, loop, sends, conns, owed, recvCount, stats>>
<1> USE DEF Typed, NetTyped
<1> DEFINE B == tmpBuff[u] \o SubSeq(toClient[u], 1, n)
           p2 == Packets(Data(B))
           B2 == Rest(B)
           c2 == SubSeq(toClient[u], n + 1, Len(toClient[u]))
<1>1. /\ packets[u] = << >>
      /\ packets' = [packets EXCEPT ![u] = p2] /\ tmpBuff' = [tmpBuff EXCEPT ![u] = B2]
      /\ toClient' = [toClient EXCEPT ![u] = c2]
      /\ UNCHANGED <<task, loop, sends, conns, owed, recvCount, stats>>
  BY DEF Read, Data, Rest
<1>2. Stream(owed[u], << >>, tmpBuff[u], toClient[u])
  BY <1>1 DEF Streams
<1>3. Stream(owed[u], p2, B2, c2)
  BY <1>2, StreamRead
<1>4. B2 \in Seq(Nat) /\ c2 \in Seq(Nat)
  BY <1>3 DEF Stream
<1>5. p2 \in Seq(Seq(Nat))
  <2>1. PICK a \in Seq(Items) : p2 = FramesOf(a, Len(a))
    BY <1>3 DEF Stream
  <2>2. Len(a) \in 0 .. Len(a)
    OBVIOUS
  <2> QED BY <2>1, <2>2, FramesIs
<1> HIDE DEF p2, B2, c2
<1>6. NetTyped'
  BY <1>1, <1>4, <1>5
<1>7. Streams'
  <2> SUFFICES ASSUME NEW v \in OnlineUids PROVE Stream(owed[v], packets'[v], tmpBuff'[v], toClient'[v])
    BY <1>1 DEF Streams
  <2>1. CASE v = u
    BY <1>1, <1>3, <2>1
  <2>2. CASE v # u
    BY <1>1, <2>2 DEF Streams
  <2> QED BY <2>1, <2>2
<1> QED BY <1>1, <1>6, <1>7

\* A frame is handled: that of the first item owed.
LEMMA HandleStream ==
  ASSUME Typed, Streams, NEW u \in OnlineUids, HandlePacket(u)
  PROVE  /\ NetTyped' /\ Streams'
         /\ UNCHANGED <<task, loop, sends, conns, toClient, tmpBuff, stats>>
         /\ owed[u] # << >> /\ owed' = [owed EXCEPT ![u] = Tail(@)]
         /\ recvCount' = IF Head(owed[u]) # PONG THEN [recvCount EXCEPT ![u] = @ + 1] ELSE recvCount
<1> USE DEF Typed, NetTyped
<1>1. /\ packets[u] # << >>
      /\ packets' = [packets EXCEPT ![u] = Tail(packets[u])] /\ owed' = [owed EXCEPT ![u] = Tail(owed[u])]
      /\ recvCount' = IF packets[u][1][1] = Recv THEN [recvCount EXCEPT ![u] = recvCount[u] + 1] ELSE recvCount
      /\ UNCHANGED <<task, loop, sends, conns, toClient, tmpBuff, stats>>
  BY DEF HandlePacket
<1>2. Stream(owed[u], packets[u], tmpBuff[u], toClient[u])
  BY DEF Streams
<1>3. /\ owed[u] # << >> /\ Stream(Tail(owed[u]), Tail(packets[u]), tmpBuff[u], toClient[u])
      /\ packets[u][1][1] = Recv <=> Head(owed[u]) # PONG
  BY <1>1, <1>2, StreamHandle
<1>4. Tail(owed[u]) \in Seq(Items) /\ Tail(packets[u]) \in Seq(Seq(Nat))
  <2>1. owed[u] \in Seq(Items) /\ packets[u] \in Seq(Seq(Nat))
    OBVIOUS
  <2> QED BY <1>1, <1>3, <2>1, HeadTailProperties
<1>5. NetTyped'
  <2>1. recvCount[u] + 1 \in Nat
    OBVIOUS
  <2>2. recvCount' \in [OnlineUids -> Nat]
    BY <1>1, <2>1
  <2> QED BY <1>1, <1>4, <2>2
<1>6. Streams'
  <2> SUFFICES ASSUME NEW v \in OnlineUids PROVE Stream(owed'[v], packets'[v], tmpBuff[v], toClient[v])
    BY <1>1 DEF Streams
  <2>1. CASE v = u
    BY <1>1, <1>3, <2>1
  <2>2. CASE v # u
    BY <1>1, <2>2 DEF Streams
  <2> QED BY <2>1, <2>2
<1>7. recvCount' = IF Head(owed[u]) # PONG THEN [recvCount EXCEPT ![u] = @ + 1] ELSE recvCount
  BY <1>1, <1>3
<1>8. owed' = [owed EXCEPT ![u] = Tail(@)]
  BY <1>1
<1> QED BY <1>1, <1>3, <1>5, <1>6, <1>7, <1>8

\* What nobody reads or sends does not change.
LEMMA Kept ==
  ASSUME Typed, Streams, UNCHANGED <<net, reader>>
  PROVE  NetTyped' /\ Streams'
BY DEF Typed, NetTyped, Streams, net, reader

\* Every step keeps the types and the streams.
LEMMA NextTyped == Typed /\ Streams /\ [Next]_vars => Typed' /\ Streams'
<1> SUFFICES ASSUME Typed, Streams, [Next]_vars PROVE Typed' /\ Streams'
  OBVIOUS
<1>1. CASE \E u \in OnlineUids : Online(u)
  <2>1. PICK u \in OnlineUids : Online(u)
    BY <1>1
  <2>2. online' = online \cup {u} /\ clients' = clients \cup {u}
        /\ UNCHANGED <<task, loop, onlineFinished, losses, sends, net, reader, stats>>
    BY <2>1 DEF Online
  <2>3. ConnsTyped'
    BY <2>2 DEF Typed, ConnsTyped
  <2> QED BY <2>2, <2>3, Kept DEF Typed, TaskTyped, SendsTyped, StatsTyped, task, loop, sends, stats
<1>9. CASE OnlineFinished
  <2>1. onlineFinished' = TRUE
        /\ UNCHANGED <<task, loop, clients, online, losses, sends, net, reader, stats>>
    BY <1>9 DEF OnlineFinished
  <2>2. ConnsTyped'
    BY <2>1 DEF Typed, ConnsTyped
  <2> QED BY <2>1, <2>2, Kept DEF Typed, TaskTyped, SendsTyped, StatsTyped, task, loop, sends, stats
<1>10. CASE \E u \in OnlineUids : Lose(u)
  <2>1. PICK u \in OnlineUids : Lose(u)
    BY <1>10
  <2>2. NetTyped' /\ Streams' /\ SendsTyped' /\ ConnsTyped' /\ UNCHANGED <<task, loop, stats>>
    BY <2>1, LoseStream
  <2> QED BY <2>2 DEF Typed, TaskTyped, StatsTyped, task, loop, stats
<1>2. CASE \E u \in OnlineUids : HandlePacket(u)
  <2>1. PICK u \in OnlineUids : HandlePacket(u)
    BY <1>2
  <2>2. NetTyped' /\ Streams' /\ UNCHANGED <<task, loop, sends, conns, toClient, tmpBuff, stats>>
    BY <2>1, HandleStream
  <2> QED BY <2>2 DEF Typed, TaskTyped, ConnsTyped, SendsTyped, StatsTyped, task, loop, conns, sends, stats
<1>3. CASE \E u \in OnlineUids : \E n \in 1 .. Len(toClient[u]) : Read(u, n)
  <2>1. PICK u \in OnlineUids : \E n \in 1 .. Len(toClient[u]) : Read(u, n)
    BY <1>3
  <2>2. NetTyped' /\ Streams' /\ UNCHANGED <<task, loop, sends, conns, owed, recvCount, stats>>
    BY <2>1, ReadStream
  <2> QED BY <2>2 DEF Typed, TaskTyped, ConnsTyped, SendsTyped, StatsTyped, task, loop, conns, sends, stats
<1>4. CASE Loop
  <2>1. TaskTyped' /\ SendsTyped' /\ UNCHANGED <<net, reader, stats, conns>>
    BY <1>4, LoopTyped
  <2> QED BY <2>1, Kept DEF Typed, ConnsTyped, StatsTyped, conns, stats
<1>5. CASE Stop
  <2>1. isRunning' = FALSE /\ stopC' = TRUE
        /\ UNCHANGED <<count, pairs, loop, sends, conns, net, reader, stats>>
    BY <1>5 DEF Stop
  <2> QED BY <2>1, Kept DEF Typed, TaskTyped, ConnsTyped, SendsTyped, StatsTyped, loop, conns, sends, stats
<1>6. CASE Server
  <2>1. PICK m \in wire : ServerTake(m)
    BY <1>6 DEF Server
  <2>2. NetTyped' /\ Streams' /\ SendsTyped' /\ UNCHANGED <<task, loop, conns, stats>>
    BY <2>1, TakeStream
  <2> QED BY <2>2 DEF Typed, TaskTyped, ConnsTyped, StatsTyped, task, loop, conns, stats
<1>7. CASE Count
  <2>1. StatsTyped' /\ UNCHANGED <<task, loop, sends, conns, net, reader>>
    BY <1>7, CountTyped
  <2> QED BY <2>1, Kept DEF Typed, TaskTyped, ConnsTyped, SendsTyped, task, loop, conns, sends
<1>8. CASE UNCHANGED vars
  BY <1>8, Kept DEF Typed, TaskTyped, ConnsTyped, SendsTyped, StatsTyped, vars, task, loop, conns, sends, stats
<1> QED BY <1>1, <1>2, <1>3, <1>4, <1>5, <1>6, <1>7, <1>8, <1>9, <1>10 DEF Next, Reader

\* Types and streams are an inductive invariant.
LEMMA TypedAlways == Spec => [](Typed /\ Streams)
<1> QED BY InitTyped, NextTyped, PTL DEF Spec

\* Every variable keeps its type: the fields of p2pTask (task_p2p.go:16-25),
\* the bytes and frames of readLoop, the counters of testClient and the report.
THEOREM TypeCorrect == Spec => []TypeOK
<1>1. Typed /\ Streams => TypeOK
  BY TypedOK
<1> QED BY <1>1, TypedAlways, PTL

\* Whatever the bytes read at a time, readLoop (common.go:7-50,
\* client.go:482-491) hands over the frames the server sent, whole and in
\* order: none is lost, repeated, cut or joined with another.
THEOREM FramesCorrect == Spec => []FramesWhole
<1>1. Typed /\ Streams => FramesWhole
  <2> SUFFICES ASSUME Streams, NEW u \in OnlineUids
               PROVE  LET F == [i \in DOMAIN owed[u] |-> Frame(owed[u][i])]
                      IN  /\ packets[u] = SubSeq(F, 1, Len(packets[u]))
                          /\ tmpBuff[u] \o toClient[u] = FlattenSeq(SubSeq(F, Len(packets[u]) + 1, Len(F)))
                          /\ tmpBuff[u] # << >> => Parse(tmpBuff[u]).data = << >>
    BY DEF FramesWhole
  <2>1. Stream(owed[u], packets[u], tmpBuff[u], toClient[u])
    BY DEF Streams
  <2> DEFINE o == owed[u]
             p == packets[u]
             B == tmpBuff[u]
             c == toClient[u]
  <2>2. Stream(o, p, B, c)
    BY <2>1
  <2> HIDE DEF o, p, B, c
  <2>3. LET F == [i \in DOMAIN o |-> Frame(o[i])]
        IN  /\ p = SubSeq(F, 1, Len(p))
            /\ B \o c = FlattenSeq(SubSeq(F, Len(p) + 1, Len(F)))
            /\ B # << >> => Parse(B).data = << >>
    BY <2>2, StreamWhole
  <2> QED BY <2>3 DEF o, p, B, c
<1> QED BY <1>1, TypedAlways, PTL

-----------------------------------------------------------------------------
(* Received and expected.                                                  *)

\* The messages to users of U that nobody has to handle any more.
Done(U) ==
  {m \in 1 .. Len(route) :
     /\ route[m][2] \in U /\ m \notin wire
     /\ \A i \in 1 .. Len(owed[route[m][2]]) : owed[route[m][2]][i] # m}

\* A message that is owed was sent to that client, has been taken, and is owed
\* once.
OwedOnce ==
  \A u \in OnlineUids : \A i \in 1 .. Len(owed[u]) : owed[u][i] # PONG =>
    /\ owed[u][i] \in 1 .. Len(route) /\ owed[u][i] \notin wire /\ route[owed[u][i]][2] = u
    /\ \A j \in 1 .. Len(owed[u]) : owed[u][j] = owed[u][i] => j = i

Received == \A u \in OnlineUids : recvCount[u] <= Cardinality(Done({u}))

Summing ==
  /\ statsAt \in {"sum", "expect"} => sum <= Cardinality(Done(summed))
  /\ statsAt = "expect" => recv <= sendMsgCount
  /\ RecvNeverOver

Counted == OwedOnce /\ Received /\ Summing

\* The steps, as far as the counters go.
SendStep ==
  /\ \E e \in OnlineUids \X Uids : route' = Append(route, e)
  /\ wire' \subseteq wire \cup {Len(route) + 1} /\ sendMsgCount' = sendMsgCount + 1
  /\ UNCHANGED <<owed, recvCount, stats>>
LoseStep ==
  /\ wire' \subseteq wire /\ UNCHANGED <<sendMsgCount, route, recvCount, stats>>
  /\ \E u \in OnlineUids : \E n \in 0 .. Len(owed[u]) : owed' = [owed EXCEPT ![u] = SubSeq(@, 1, n)]
TakeStep ==
  \E m \in wire :
    /\ wire' = wire \ {m} /\ UNCHANGED <<sendMsgCount, route, recvCount, stats>>
    /\ \/ route[m][2] \notin online /\ UNCHANGED owed
       \/ /\ route[m][2] \in OnlineUids
          /\ \/ owed' = [owed EXCEPT ![route[m][2]] = @ \o <<m>>]
             \/ owed' = [owed EXCEPT ![route[m][2]] = (@ \o <<PONG>>) \o <<m>>]
HandleStep ==
  \E u \in OnlineUids :
    /\ owed[u] # << >> /\ owed' = [owed EXCEPT ![u] = Tail(@)]
    /\ recvCount' = IF Head(owed[u]) # PONG THEN [recvCount EXCEPT ![u] = @ + 1] ELSE recvCount
    /\ UNCHANGED <<sends, stats>>
CountStep == Count /\ UNCHANGED <<sends, owed, recvCount>>
OtherStep == UNCHANGED <<sends, owed, recvCount, stats>>

\* Every step is one of these.
LEMMA Steps ==
  ASSUME Typed, Streams, [Next]_vars
  PROVE  SendStep \/ TakeStep \/ LoseStep \/ HandleStep \/ CountStep \/ OtherStep
<1>1. CASE OnlineFinished \/ \E u \in OnlineUids : Online(u)
  BY <1>1 DEF OnlineFinished, Online, OtherStep, net, reader
<1>9. CASE \E u \in OnlineUids : Lose(u)
  <2>1. PICK u \in OnlineUids : Lose(u)
    BY <1>9
  <2>2. /\ UNCHANGED <<sendMsgCount, route, recvCount, stats>> /\ wire' \subseteq wire
        /\ \E n \in 0 .. Len(owed[u]) : owed' = [owed EXCEPT ![u] = SubSeq(@, 1, n)]
    BY <2>1, LoseStream
  <2> QED BY <2>2 DEF LoseStep
<1>2. CASE \E u \in OnlineUids : HandlePacket(u)
  <2>1. PICK u \in OnlineUids : HandlePacket(u)
    BY <1>2
  <2>2. /\ UNCHANGED <<task, loop, sends, conns, toClient, tmpBuff, stats>>
        /\ owed[u] # << >> /\ owed' = [owed EXCEPT ![u] = Tail(@)]
        /\ recvCount' = IF Head(owed[u]) # PONG THEN [recvCount EXCEPT ![u] = @ + 1] ELSE recvCount
    BY <2>1, HandleStream
  <2> QED BY <2>2 DEF HandleStep
<1>3. CASE \E u \in OnlineUids : \E n \in 1 .. Len(toClient[u]) : Read(u, n)
  <2>1. PICK u \in OnlineUids : \E n \in 1 .. Len(toClient[u]) : Read(u, n)
    BY <1>3
  <2>2. UNCHANGED <<task, loop, sends, conns, owed, recvCount, stats>>
    BY <2>1, ReadStream
  <2> QED BY <2>2 DEF OtherStep
<1>4. CASE Loop
  <2>1. UNCHANGED <<net, reader, stats>>
    BY <1>4, LoopTyped
  <2>2. CASE \E p \in todo : SendPair(p)
    <3>1. PICK p \in todo : SendPair(p)
      BY <2>2
    <3>2. \/ \E from \in p : \E to \in p \ {from} : RandSend(from, to)
          \/ UNCHANGED sends
      BY <3>1 DEF SendPair
    <3>3. CASE \E from \in p : \E to \in p \ {from} : RandSend(from, to)
      <4>1. PICK from \in p : \E to \in p \ {from} : RandSend(from, to)
        BY <3>3
      <4>2. PICK to \in p \ {from} : RandSend(from, to)
        BY <4>1
      <4>3. to \in Uids
        BY DEF Typed, TaskTyped
      <4>4. CASE from \in online
        <5>1. /\ sendMsgCount' = sendMsgCount + 1
              /\ route' = Append(route, <<from, to>>) /\ wire' \subseteq wire \cup {Len(route) + 1}
          BY <4>2, <4>4 DEF RandSend, Send
        <5>2. <<from, to>> \in OnlineUids \X Uids
          BY <4>3, <4>4 DEF Typed, ConnsTyped
        <5> QED BY <2>1, <5>1, <5>2 DEF SendStep, net, reader
      <4>5. CASE from \notin online
        BY <2>1, <4>2, <4>5 DEF RandSend, OtherStep, net, reader
      <4> QED BY <4>4, <4>5
    <3>4. CASE UNCHANGED sends
      BY <2>1, <3>4 DEF OtherStep, net, reader
    <3> QED BY <3>2, <3>3, <3>4
  <2>3. CASE Tick \/ Stopped \/ NextRound \/ ChanceDone
    <3>1. UNCHANGED sends
      BY <2>3 DEF Tick, Stopped, NextRound, ChanceDone
    <3> QED BY <2>1, <3>1 DEF OtherStep, net, reader
  <2> QED BY <1>4, <2>2, <2>3 DEF Loop
<1>5. CASE Stop
  BY <1>5 DEF Stop, OtherStep, net, reader
<1>6. CASE Server
  <2>1. PICK m \in wire : ServerTake(m)
    BY <1>6 DEF Server
  <2> DEFINE to == route[m][2]
  <2>2. /\ wire' = wire \ {m} /\ UNCHANGED <<sendMsgCount, route, reader, stats>>
        /\ \/ to \notin online /\ UNCHANGED owed
           \/ /\ to \in online
              /\ \/ owed' = [owed EXCEPT ![to] = owed[to] \o <<m>>]
                 \/ owed' = [owed EXCEPT ![to] = owed[to] \o <<PONG, m>>]
    BY <2>1 DEF ServerTake
  <2>3. to \in online => to \in OnlineUids /\ owed[to] \in Seq(Items)
    BY DEF Typed, ConnsTyped, NetTyped
  <2>4. m \in Items /\ PONG \in Items
    <3>1. m \in 1 .. Len(route) /\ Len(route) <= MaxMsg /\ Len(route) \in Nat /\ MaxMsg \in Nat
      BY Numbers DEF Typed, SendsTyped
    <3> QED BY <3>1 DEF Items, Msgs
  <2>5. to \in online => owed[to] \o <<PONG, m>> = (owed[to] \o <<PONG>>) \o <<m>>
    BY <2>3, <2>4, TwoItems
  <2> QED BY <2>2, <2>3, <2>5 DEF TakeStep, reader
<1>7. CASE Count
  BY <1>7, CountTyped DEF CountStep, net, reader
<1>8. CASE UNCHANGED vars
  BY <1>8 DEF OtherStep, vars, net, reader
<1> QED BY <1>1, <1>2, <1>3, <1>4, <1>5, <1>6, <1>7, <1>8, <1>9 DEF Next, Reader

\* A length.
LEMMA LenNat ==
  ASSUME NEW T, NEW s \in Seq(T)
  PROVE  Len(s) \in Nat
OBVIOUS

\* One item behind others.
LEMMA ItemMore ==
  ASSUME NEW s \in Seq(Items), NEW x \in Items
  PROVE  /\ s \o <<x>> \in Seq(Items) /\ Len(s \o <<x>>) = Len(s) + 1 /\ (s \o <<x>>)[Len(s) + 1] = x
         /\ \A i \in 1 .. Len(s) : (s \o <<x>>)[i] = s[i]
<1> DEFINE q == <<x>>
           t == s \o q
<1>1. q \in Seq(Items) /\ Len(q) = 1 /\ q[1] = x
  OBVIOUS
<1> HIDE DEF q
<1>2. /\ t \in Seq(Items) /\ Len(t) = Len(s) + Len(q)
      /\ \A i \in 1 .. Len(s) + Len(q) : t[i] = IF i <= Len(s) THEN s[i] ELSE q[i - Len(s)]
  BY <1>1, ConcatProperties
<1> HIDE DEF t
<1>3. Len(s) \in Nat
  OBVIOUS
<1>4. /\ Len(s) + 1 \in 1 .. Len(s) + 1 /\ ~(Len(s) + 1 <= Len(s)) /\ Len(s) + 1 - Len(s) = 1
      /\ \A i \in 1 .. Len(s) : i \in 1 .. Len(s) + 1 /\ i <= Len(s)
  BY <1>3
<1>5. t[Len(s) + 1] = x /\ \A i \in 1 .. Len(s) : t[i] = s[i]
  BY <1>1, <1>2, <1>4
<1> QED BY <1>1, <1>2, <1>5 DEF t, q

\* What is owed after the server has taken m.
Longer(o, o2, m) ==
  /\ o2 \in Seq(Items) /\ Len(o) < Len(o2) /\ o2[Len(o2)] = m
  /\ \A i \in 1 .. Len(o) : o2[i] = o[i]
  /\ \A i \in 1 .. Len(o2) : i > Len(o) => i = Len(o2) \/ o2[i] = PONG

\* Both of the things the server may do make what is owed longer.
LEMMA OwedGrows ==
  ASSUME NEW o \in Seq(Items), NEW m \in Items
  PROVE  Longer(o, o \o <<m>>, m) /\ Longer(o, (o \o <<PONG>>) \o <<m>>, m)
<1>1. PONG \in Items /\ Len(o) \in Nat
  BY DEF Items
<1> DEFINE a == o \o <<m>>
           b == o \o <<PONG>>
           c == b \o <<m>>
<1>2. a \in Seq(Items) /\ Len(a) = Len(o) + 1 /\ a[Len(o) + 1] = m /\ \A i \in 1 .. Len(o) : a[i] = o[i]
  BY ItemMore
<1>3. b \in Seq(Items) /\ Len(b) = Len(o) + 1 /\ b[Len(o) + 1] = PONG /\ \A i \in 1 .. Len(o) : b[i] = o[i]
  BY <1>1, ItemMore
<1>8. c = b \o <<m>>
  OBVIOUS
<1> HIDE DEF a, b
<1>4. c \in Seq(Items) /\ Len(c) = Len(b) + 1 /\ c[Len(b) + 1] = m /\ \A i \in 1 .. Len(b) : c[i] = b[i]
  BY <1>3, ItemMore
<1> HIDE DEF c
<1>5. Longer(o, a, m)
  <2>1. \A i \in 1 .. Len(a) : i > Len(o) => i = Len(a)
    BY <1>1, <1>2
  <2>2. Len(o) < Len(a)
    BY <1>1, <1>2
  <2> QED BY <1>2, <2>1, <2>2 DEF Longer
<1>6. Longer(o, c, m)
  <2>1. \A i \in 1 .. Len(c) : i > Len(o) => i = Len(c) \/ (i = Len(o) + 1 /\ i \in 1 .. Len(b))
    BY <1>1, <1>3, <1>4
  <2>2. \A i \in 1 .. Len(o) : i \in 1 .. Len(b)
    BY <1>1, <1>3
  <2>3. Len(o) < Len(c)
    BY <1>1, <1>3, <1>4
  <2>4. \A i \in 1 .. Len(o) : c[i] = o[i]
    BY <1>3, <1>4, <2>2
  <2>5. \A i \in 1 .. Len(c) : i > Len(o) => i = Len(c) \/ c[i] = PONG
    BY <1>3, <1>4, <2>1
  <2>6. c[Len(c)] = m
    BY <1>4
  <2> QED BY <1>4, <2>3, <2>4, <2>5, <2>6 DEF Longer
<1> QED BY <1>5, <1>6 DEF a, b, c

\* What is owed after the first item was handled.
LEMMA TailIs ==
  ASSUME NEW o \in Seq(Items), o # << >>
  PROVE  /\ Tail(o) \in Seq(Items) /\ Len(Tail(o)) = Len(o) - 1 /\ Len(o) \in Nat /\ Len(o) > 0
         /\ Head(o) = o[1]
         /\ \A i \in 1 .. Len(Tail(o)) : Tail(o)[i] = o[i + 1]
<1>1. Len(o) \in Nat /\ Len(o) > 0 /\ Head(o) = o[1]
  OBVIOUS
<1> QED BY <1>1, HeadTailProperties

\* A step of the sends.
LEMMA SendCounted ==
  ASSUME Typed, Counted, SendStep
  PROVE  OwedOnce' /\ \A U \in SUBSET OnlineUids : Done(U) \subseteq Done(U)'
<1> USE DEF Typed, SendsTyped, NetTyped
<1>1. PICK e \in OnlineUids \X Uids : route' = Append(route, e)
  BY DEF SendStep
<1>2. wire' \subseteq wire \cup {Len(route) + 1} /\ owed' = owed
  BY DEF SendStep
<1>3. Len(route) \in Nat /\ Len(route') = Len(route) + 1 /\ \A m \in 1 .. Len(route) : route'[m] = route[m]
  BY <1>1
<1>4. \A m \in 1 .. Len(route) : m \in 1 .. Len(route') /\ (m \notin wire => m \notin wire')
  BY <1>2, <1>3
<1>5. OwedOnce'
  <2> SUFFICES ASSUME NEW u \in OnlineUids, NEW i \in 1 .. Len(owed[u]), owed[u][i] # PONG
               PROVE  /\ owed[u][i] \in 1 .. Len(route') /\ owed[u][i] \notin wire' /\ route'[owed[u][i]][2] = u
                      /\ \A j \in 1 .. Len(owed[u]) : owed[u][j] = owed[u][i] => j = i
    BY <1>2 DEF OwedOnce
  <2>1. /\ owed[u][i] \in 1 .. Len(route) /\ owed[u][i] \notin wire /\ route[owed[u][i]][2] = u
        /\ \A j \in 1 .. Len(owed[u]) : owed[u][j] = owed[u][i] => j = i
    BY DEF Counted, OwedOnce
  <2> QED BY <1>3, <1>4, <2>1
<1>6. ASSUME NEW U \in SUBSET OnlineUids PROVE Done(U) \subseteq Done(U)'
  <2> SUFFICES ASSUME NEW m \in Done(U) PROVE m \in Done(U)'
    OBVIOUS
  <2>1. /\ m \in 1 .. Len(route) /\ route[m][2] \in U /\ m \notin wire
        /\ \A i \in 1 .. Len(owed[route[m][2]]) : owed[route[m][2]][i] # m
    BY DEF Done
  <2>2. m \in 1 .. Len(route') /\ m \notin wire' /\ route'[m] = route[m]
    BY <1>3, <1>4, <2>1
  <2> QED BY <1>2, <2>1, <2>2 DEF Done
<1> QED BY <1>5, <1>6

\* A lost connection.
LEMMA LoseCounted ==
  ASSUME Typed, Counted, LoseStep
  PROVE  OwedOnce' /\ \A U \in SUBSET OnlineUids : Done(U) \subseteq Done(U)'
<1> USE DEF Typed, NetTyped
<1>1. wire' \subseteq wire /\ route' = route
  BY DEF LoseStep
<1>2. PICK u \in OnlineUids : \E n \in 0 .. Len(owed[u]) : owed' = [owed EXCEPT ![u] = SubSeq(@, 1, n)]
  BY DEF LoseStep
<1>3. PICK n \in 0 .. Len(owed[u]) : owed' = [owed EXCEPT ![u] = SubSeq(@, 1, n)]
  BY <1>2
<1>4. \A v \in OnlineUids : \A i \in 1 .. Len(owed'[v]) : i \in 1 .. Len(owed[v]) /\ owed'[v][i] = owed[v][i]
  <2> TAKE v \in OnlineUids
  <2>1. CASE v # u
    BY <1>3, <2>1
  <2>2. CASE v = u
    <3> DEFINE o == owed[u]
               h == SubSeq(o, 1, n)
    <3>1. o \in Seq(Items) /\ n \in 0 .. Len(o)
      OBVIOUS
    <3>2. owed'[v] = h /\ owed[v] = o
      BY <1>3, <2>2
    <3> HIDE DEF o
    <3>3. Len(h) = n /\ \A i \in 1 .. n : h[i] = o[i]
      BY <3>1, Parts
    <3>4. Len(o) \in Nat
      BY <3>1
    <3> HIDE DEF h
    <3>5. \A i \in 1 .. n : i \in 1 .. Len(o)
      BY <3>1, <3>4
    <3> QED BY <3>2, <3>3, <3>5
  <2> QED BY <2>1, <2>2
<1>5. OwedOnce'
  <2> SUFFICES ASSUME NEW v \in OnlineUids, NEW i \in 1 .. Len(owed'[v]), owed'[v][i] # PONG
               PROVE  /\ owed'[v][i] \in 1 .. Len(route) /\ owed'[v][i] \notin wire' /\ route[owed'[v][i]][2] = v
                      /\ \A j \in 1 .. Len(owed'[v]) : owed'[v][j] = owed'[v][i] => j = i
    BY <1>1 DEF OwedOnce
  <2>1. i \in 1 .. Len(owed[v]) /\ owed'[v][i] = owed[v][i]
    BY <1>4
  <2>2. /\ owed[v][i] \in 1 .. Len(route) /\ owed[v][i] \notin wire /\ route[owed[v][i]][2] = v
        /\ \A j \in 1 .. Len(owed[v]) : owed[v][j] = owed[v][i] => j = i
    BY <2>1 DEF Counted, OwedOnce
  <2> QED BY <1>1, <1>4, <2>1, <2>2
<1>6. ASSUME NEW U \in SUBSET OnlineUids PROVE Done(U) \subseteq Done(U)'
  <2> SUFFICES ASSUME NEW m \in Done(U) PROVE m \in Done(U)'
    OBVIOUS
  <2>1. /\ m \in 1 .. Len(route) /\ route[m][2] \in U /\ m \notin wire
        /\ \A i \in 1 .. Len(owed[route[m][2]]) : owed[route[m][2]][i] # m
    BY DEF Done
  <2>2. \A i \in 1 .. Len(owed'[route[m][2]]) : owed'[route[m][2]][i] # m
    BY <1>4, <2>1
  <2> QED BY <1>1, <2>1, <2>2 DEF Done
<1> QED BY <1>5, <1>6

\* A step of the server.
LEMMA TakeCounted ==
  ASSUME Typed, Counted, TakeStep
  PROVE  OwedOnce' /\ \A U \in SUBSET OnlineUids : Done(U) \subseteq Done(U)'
<1> USE DEF Typed, SendsTyped, NetTyped
<1>1. PICK m \in wire : /\ wire' = wire \ {m} /\ UNCHANGED <<sendMsgCount, route, recvCount, stats>>
         /\ \/ route[m][2] \notin online /\ UNCHANGED owed
            \/ /\ route[m][2] \in OnlineUids
               /\ \/ owed' = [owed EXCEPT ![route[m][2]] = @ \o <<m>>]
                  \/ owed' = [owed EXCEPT ![route[m][2]] = (@ \o <<PONG>>) \o <<m>>]
  BY DEF TakeStep
<1> DEFINE to == route[m][2]
<1>2. m \in 1 .. Len(route) /\ m \in Items /\ m # PONG
  <2>1. m \in 1 .. Len(route) /\ Len(route) <= MaxMsg /\ Len(route) \in Nat /\ MaxMsg \in Nat
    BY Numbers
  <2> QED BY <2>1 DEF Items, Msgs, PONG
<1>3. \A u \in OnlineUids : owed'[u] = owed[u] \/ (u = to /\ Longer(owed[u], owed'[u], m))
  <2> TAKE u \in OnlineUids
  <2>2. CASE owed'[u] = owed[u]
    BY <2>2
  <2>3. CASE owed'[u] # owed[u]
    <3>1. /\ to \in OnlineUids /\ u = to
          /\ owed'[u] = owed[u] \o <<m>> \/ owed'[u] = (owed[u] \o <<PONG>>) \o <<m>>
      BY <1>1, <2>3
    <3>2. owed[u] \in Seq(Items)
      OBVIOUS
    <3>3. Longer(owed[u], owed'[u], m)
      BY <1>2, <3>1, <3>2, OwedGrows
    <3> QED BY <3>1, <3>3
  <2> QED BY <2>2, <2>3
<1>9. route' = route /\ \A x : x \notin wire => x \notin wire'
  BY <1>1
<1>10. m \notin wire'
  BY <1>1
<1> HIDE DEF to
<1>4. OwedOnce'
  <2> SUFFICES ASSUME NEW u \in OnlineUids, NEW i \in 1 .. Len(owed'[u]), owed'[u][i] # PONG
               PROVE  /\ owed'[u][i] \in 1 .. Len(route) /\ owed'[u][i] \notin wire' /\ route[owed'[u][i]][2] = u
                      /\ \A j \in 1 .. Len(owed'[u]) : owed'[u][j] = owed'[u][i] => j = i
    BY <1>9 DEF OwedOnce
  <2>0. \A k \in 1 .. Len(owed[u]) : owed[u][k] # PONG =>
          /\ owed[u][k] \in 1 .. Len(route) /\ owed[u][k] \notin wire /\ route[owed[u][k]][2] = u
          /\ \A j \in 1 .. Len(owed[u]) : owed[u][j] = owed[u][k] => j = k
    BY DEF Counted, OwedOnce
  <2>1. CASE owed'[u] = owed[u]
    BY <1>9, <2>0, <2>1
  <2>2. CASE u = to /\ Longer(owed[u], owed'[u], m)
    <3> DEFINE o == owed[u]
               p == owed'[u]
    <3>1. /\ o \in Seq(Items) /\ p \in Seq(Items) /\ Len(o) < Len(p) /\ p[Len(p)] = m
          /\ \A k \in 1 .. Len(o) : p[k] = o[k]
          /\ \A k \in 1 .. Len(p) : k > Len(o) => k = Len(p) \/ p[k] = PONG
      BY <2>2 DEF Longer
    <3>6. \A k \in 1 .. Len(o) : o[k] # PONG =>
          /\ o[k] \in 1 .. Len(route) /\ o[k] \notin wire /\ route[o[k]][2] = u
          /\ \A j \in 1 .. Len(o) : o[j] = o[k] => j = k
      BY <2>0
    <3>7. i \in 1 .. Len(p) /\ p[i] # PONG
      OBVIOUS
    <3> HIDE DEF o, p
    <3>2. Len(o) \in Nat /\ Len(p) \in Nat
      <4>1. o \in Seq(Items) /\ p \in Seq(Items)
        BY <3>1
      <4> QED BY <4>1, LenNat
    <3>3. \A k \in 1 .. Len(o) : o[k] # m
      BY <1>2, <3>6
    <3>8. \A k \in 1 .. Len(p) : k \in 1 .. Len(o) \/ k > Len(o)
      BY <3>2
    <3>4. CASE i \in 1 .. Len(o)
      <4>1. /\ p[i] = o[i] /\ o[i] \in 1 .. Len(route) /\ o[i] \notin wire' /\ route[o[i]][2] = u
            /\ \A j \in 1 .. Len(o) : o[j] = o[i] => j = i
        BY <1>9, <3>1, <3>4, <3>6, <3>7
      <4>2. ASSUME NEW j \in 1 .. Len(p), p[j] = p[i] PROVE j = i
        <5>1. CASE j \in 1 .. Len(o)
          BY <3>1, <4>1, <4>2, <5>1
        <5>2. CASE j > Len(o)
          <6>1. p[j] = m \/ p[j] = PONG
            BY <3>1, <5>2
          <6> QED BY <3>3, <3>4, <3>7, <4>1, <4>2, <6>1
        <5> QED BY <3>8, <5>1, <5>2
      <4> QED BY <4>1, <4>2 DEF p
    <3>5. CASE i > Len(o)
      <4>1. i = Len(p) /\ p[i] = m
        BY <3>1, <3>5, <3>7
      <4>2. ASSUME NEW j \in 1 .. Len(p), p[j] = p[i] PROVE j = i
        <5>1. j \notin 1 .. Len(o)
          BY <3>1, <3>3, <4>1, <4>2
        <5>2. j = Len(p) \/ p[j] = PONG
          BY <3>1, <3>8, <5>1
        <5> QED BY <1>2, <4>1, <4>2, <5>2
      <4>3. route[m][2] = u
        BY <2>2 DEF to
      <4> QED BY <1>2, <1>10, <4>1, <4>2, <4>3 DEF p
    <3> QED BY <3>4, <3>5, <3>7, <3>8
  <2> QED BY <1>3, <2>1, <2>2
<1>5. ASSUME NEW U \in SUBSET OnlineUids PROVE Done(U) \subseteq Done(U)'
  <2> SUFFICES ASSUME NEW x \in Done(U) PROVE x \in Done(U)'
    OBVIOUS
  <2> DEFINE u == route[x][2]
  <2>1. /\ x \in 1 .. Len(route) /\ u \in U /\ x \notin wire
        /\ \A i \in 1 .. Len(owed[u]) : owed[u][i] # x
    BY DEF Done
  <2>2. x # m /\ x \notin wire' /\ u \in OnlineUids /\ x # PONG
    <3>1. x # m /\ x \notin wire' /\ u \in OnlineUids
      BY <1>9, <2>1
    <3>2. x \in Nat /\ x >= 1
      BY <2>1
    <3> QED BY <3>1, <3>2 DEF PONG
  <2>4. u = route'[x][2]
    BY <1>9
  <2> HIDE DEF u
  <2>3. \A i \in 1 .. Len(owed'[u]) : owed'[u][i] # x
    <3>1. CASE owed'[u] = owed[u]
      BY <2>1, <3>1
    <3>2. CASE Longer(owed[u], owed'[u], m)
      <4> TAKE i \in 1 .. Len(owed'[u])
      <4>1. i \in 1 .. Len(owed[u]) \/ i > Len(owed[u])
        <5>1. owed[u] \in Seq(Items)
          BY <2>2
        <5>2. Len(owed[u]) \in Nat /\ i \in Nat /\ i >= 1
          BY ONLY <5>1, i \in 1 .. Len(owed'[u])
        <5> QED BY ONLY <5>2
      <4> QED BY <2>1, <2>2, <3>2, <4>1 DEF Longer
    <3> QED BY <1>3, <2>2, <3>1, <3>2
  <2>5. x \in 1 .. Len(route') /\ route'[x][2] \in U
    BY <1>9, <2>1, <2>4
  <2> QED BY <2>2, <2>3, <2>4, <2>5 DEF Done
<1> QED BY <1>4, <1>5

\* Fewer numbers of the first n.
LEMMA Fewer ==
  ASSUME NEW n \in Nat, NEW T \in SUBSET (1 .. n), NEW S \in SUBSET T
  PROVE  /\ IsFiniteSet(S) /\ Cardinality(S) \in Nat /\ Cardinality(T) \in Nat
         /\ Cardinality(S) <= Cardinality(T) /\ Cardinality(T) <= n
<1>1. IsFiniteSet(1 .. n) /\ Cardinality(1 .. n) = n
  <2>1. IsFiniteSet(1 .. n) /\ Cardinality(1 .. n) = IF 1 > n THEN 0 ELSE n - 1 + 1
    BY FS_Interval
  <2> QED BY <2>1
<1>2. IsFiniteSet(T) /\ Cardinality(T) <= n
  BY <1>1, FS_Subset
<1>3. IsFiniteSet(S) /\ Cardinality(S) <= Cardinality(T)
  BY <1>2, FS_Subset
<1> QED BY <1>2, <1>3, FS_CardinalityType

\* Messages done are messages sent.
LEMMA DoneIn ==
  ASSUME Typed, NEW U
  PROVE  Len(route) \in Nat /\ Done(U) \in SUBSET (1 .. Len(route)) /\ sendMsgCount = Len(route)
<1>1. Len(route) \in Nat /\ sendMsgCount = Len(route)
  BY DEF Typed, SendsTyped
<1> QED BY <1>1 DEF Done

\* The same after a step.
LEMMA DoneInNext ==
  ASSUME Typed', NEW U
  PROVE  Len(route') \in Nat /\ Done(U)' \in SUBSET (1 .. Len(route')) /\ sendMsgCount' = Len(route')
<1>1. Len(route') \in Nat /\ sendMsgCount' = Len(route')
  BY DEF Typed, SendsTyped
<1> QED BY <1>1 DEF Done

\* More is done, and nothing else happens.
LEMMA MoreDone ==
  ASSUME Typed, Typed', Counted, \A U \in SUBSET OnlineUids : Done(U) \subseteq Done(U)',
         UNCHANGED stats, sendMsgCount' >= sendMsgCount
  PROVE  Summing' /\ (UNCHANGED recvCount => Received')
<1>1. \A U \in SUBSET OnlineUids :
        /\ Cardinality(Done(U)) \in Nat /\ Cardinality(Done(U)') \in Nat
        /\ Cardinality(Done(U)) <= Cardinality(Done(U)')
  <2> TAKE U \in SUBSET OnlineUids
  <2>1. Len(route') \in Nat /\ Done(U)' \in SUBSET (1 .. Len(route')) /\ Done(U) \in SUBSET Done(U)'
    BY DoneInNext
  <2> DEFINE n == Len(route')
             T == Done(U)'
             D == Done(U)
  <2>2. n \in Nat /\ T \in SUBSET (1 .. n) /\ D \in SUBSET T
    BY <2>1
  <2> HIDE DEF n, T, D
  <2>3. Cardinality(D) \in Nat /\ Cardinality(T) \in Nat /\ Cardinality(D) <= Cardinality(T)
    BY <2>2, Fewer
  <2> QED BY <2>3 DEF T, D
<1>2. summed \in SUBSET OnlineUids /\ sum \in Nat /\ recv \in Nat /\ sendMsgCount \in Nat /\ sendMsgCount' \in Nat
  BY DoneIn, DoneInNext DEF Typed, StatsTyped
<1>3. Summing'
  <2>1. /\ statsAt' = statsAt /\ summed' = summed /\ sum' = sum /\ recv' = recv /\ expectRecv' = expectRecv
    BY DEF stats
  <2>2. statsAt \in {"sum", "expect"} => sum <= Cardinality(Done(summed)')
    <3>5. PICK V \in SUBSET OnlineUids : V = summed
      BY <1>2
    <3>6. Done(V) = Done(summed) /\ Done(V)' = Done(summed)'
      BY <2>1, <3>5 DEF Done
    <3> DEFINE x == Cardinality(Done(V))
               y == Cardinality(Done(V)')
    <3>1. x \in Nat /\ y \in Nat /\ x <= y
      BY <1>1, <1>2
    <3>2. statsAt \in {"sum", "expect"} => sum <= x
      BY <3>6 DEF Counted, Summing
    <3> HIDE DEF x, y
    <3>3. sum <= x => sum <= y
      BY <1>2, <3>1
    <3>4. statsAt \in {"sum", "expect"} => sum <= y
      BY <3>2, <3>3
    <3> QED BY <3>4, <3>6 DEF y
  <2> QED BY <1>2, <2>1, <2>2 DEF Counted, Summing, RecvNeverOver
<1>4. ASSUME UNCHANGED recvCount PROVE Received'
  <2> SUFFICES ASSUME NEW u \in OnlineUids PROVE recvCount[u] <= Cardinality(Done({u})')
    BY <1>4 DEF Received
  <2>1. {u} \in SUBSET OnlineUids /\ recvCount[u] \in Nat
    BY DEF Typed, NetTyped
  <2>2. recvCount[u] <= Cardinality(Done({u}))
    BY DEF Counted, Received
  <2> QED BY <1>1, <2>1, <2>2
<1> QED BY <1>3, <1>4

\* A frame is handled.
LEMMA HandleCounted ==
  ASSUME Typed, Typed', Counted, HandleStep
  PROVE  Counted'
<1> USE DEF Typed, SendsTyped, NetTyped
<1>1. PICK u \in OnlineUids :
        /\ owed[u] # << >> /\ owed' = [owed EXCEPT ![u] = Tail(@)]
        /\ recvCount' = IF Head(owed[u]) # PONG THEN [recvCount EXCEPT ![u] = @ + 1] ELSE recvCount
        /\ UNCHANGED <<sends, stats>>
  BY DEF HandleStep
<1>2. route' = route /\ wire' = wire /\ sendMsgCount' = sendMsgCount
  BY <1>1 DEF sends
<1> DEFINE o == owed[u]
           t == Tail(o)
           m == o[1]
<1>3. o \in Seq(Items) /\ o # << >>
  BY <1>1
<1>4. /\ Len(t) = Len(o) - 1 /\ Len(o) \in Nat /\ Len(o) > 0 /\ Head(o) = m
      /\ \A i \in 1 .. Len(t) : t[i] = o[i + 1]
  BY <1>3, TailIs
<1>5. owed'[u] = t /\ \A v \in OnlineUids \ {u} : owed'[v] = owed[v]
  BY <1>1
<1>6. \A i \in 1 .. Len(o) : o[i] # PONG =>
        /\ o[i] \in 1 .. Len(route) /\ o[i] \notin wire /\ route[o[i]][2] = u
        /\ \A j \in 1 .. Len(o) : o[j] = o[i] => j = i
  BY DEF Counted, OwedOnce
<1>11. o = owed[u]
  OBVIOUS
<1> HIDE DEF o, t, m
<1>7. \A i \in 1 .. Len(t) : i + 1 \in 1 .. Len(o) /\ i + 1 # 1 /\ 1 \in 1 .. Len(o)
  BY <1>4
<1>8. OwedOnce'
  <2> SUFFICES ASSUME NEW v \in OnlineUids, NEW i \in 1 .. Len(owed'[v]), owed'[v][i] # PONG
               PROVE  /\ owed'[v][i] \in 1 .. Len(route) /\ owed'[v][i] \notin wire /\ route[owed'[v][i]][2] = v
                      /\ \A j \in 1 .. Len(owed'[v]) : owed'[v][j] = owed'[v][i] => j = i
    BY <1>2 DEF OwedOnce
  <2>1. CASE v # u
    <3>1. OwedOnce /\ owed'[v] = owed[v]
      BY <1>5, <2>1 DEF Counted
    <3>2. i \in 1 .. Len(owed[v]) /\ owed[v][i] # PONG
      BY ONLY <3>1, i \in 1 .. Len(owed'[v]), owed'[v][i] # PONG
    <3>3. /\ owed[v][i] \in 1 .. Len(route) /\ owed[v][i] \notin wire /\ route[owed[v][i]][2] = v
          /\ \A j \in 1 .. Len(owed[v]) : owed[v][j] = owed[v][i] => j = i
      BY ONLY <3>1, <3>2, v \in OnlineUids DEF OwedOnce
    <3> QED BY ONLY <3>1, <3>3
  <2>2. CASE v = u
    <3>1. i \in 1 .. Len(t) /\ owed'[v] = t /\ t[i] # PONG
      BY <1>5, <2>2
    <3>2. i + 1 \in 1 .. Len(o) /\ t[i] = o[i + 1]
      BY <1>4, <1>7, <3>1
    <3>3. /\ t[i] \in 1 .. Len(route) /\ t[i] \notin wire /\ route[t[i]][2] = u
          /\ \A j \in 1 .. Len(o) : o[j] = t[i] => j = i + 1
      BY <1>6, <3>1, <3>2
    <3>4. \A j \in 1 .. Len(t) : t[j] = t[i] => j = i
      <4> TAKE j \in 1 .. Len(t)
      <4>1. j + 1 \in 1 .. Len(o) /\ t[j] = o[j + 1]
        BY <1>4, <1>7
      <4>2. t[j] = t[i] => j + 1 = i + 1
        BY <3>3, <4>1
      <4>3. i \in Int /\ j \in Int
        OBVIOUS
      <4>4. j + 1 = i + 1 => j = i
        BY <4>3
      <4> QED BY <4>2, <4>4
    <3> QED BY <2>2, <3>1, <3>3, <3>4
  <2> QED BY <2>1, <2>2
<1>9. ASSUME NEW U \in SUBSET OnlineUids PROVE Done(U) \subseteq Done(U)'
  <2> SUFFICES ASSUME NEW x \in Done(U) PROVE x \in Done(U)'
    OBVIOUS
  <2> DEFINE v == route[x][2]
  <2>1. /\ x \in 1 .. Len(route) /\ v \in U /\ x \notin wire
        /\ \A i \in 1 .. Len(owed[v]) : owed[v][i] # x
    BY DEF Done
  <2>2. v = route'[x][2] /\ v \in OnlineUids
    BY <1>2, <2>1
  <2> HIDE DEF v
  <2>3. \A i \in 1 .. Len(owed'[v]) : owed'[v][i] # x
    <3>1. CASE v # u
      BY <1>5, <2>1, <2>2, <3>1
    <3>2. CASE v = u
      <4>1. owed'[v] = t /\ owed[v] = o
        BY <1>5, <1>11, <3>2
      <4> QED BY <1>4, <1>7, <2>1, <4>1
    <3> QED BY <3>1, <3>2
  <2> QED BY <1>2, <2>1, <2>2, <2>3 DEF Done
<1>10. Summing' /\ (UNCHANGED recvCount => Received')
  <2>1. sendMsgCount \in Nat
    BY DoneIn
  <2>2. UNCHANGED stats /\ sendMsgCount' >= sendMsgCount
    BY <1>1, <1>2, <2>1
  <2>3. \A U \in SUBSET OnlineUids : Done(U) \subseteq Done(U)'
    BY <1>9
  <2> QED BY <2>2, <2>3, MoreDone
<1>12. Received'
  <2>1. CASE m = PONG
    <3>1. UNCHANGED recvCount
      BY <1>1, <1>4, <1>11, <2>1
    <3> QED BY <1>10, <3>1
  <2>2. CASE m # PONG
    <3>1. 1 \in 1 .. Len(o)
      BY <1>4
    <3>2. /\ m \in 1 .. Len(route) /\ m \notin wire /\ route[m][2] = u
          /\ \A j \in 1 .. Len(o) : o[j] = m => j = 1
      BY <1>6, <2>2, <3>1 DEF m
    <3>3. m \notin Done({u})
      <4>1. owed[route[m][2]][1] = m /\ 1 \in 1 .. Len(owed[route[m][2]])
        BY <1>11, <3>1, <3>2 DEF m
      <4> QED BY <4>1 DEF Done
    <3>4. m \in Done({u})'
      <4>1. \A i \in 1 .. Len(t) : t[i] # m
        BY <1>4, <1>7, <3>2
      <4> QED BY <1>2, <1>5, <3>2, <4>1 DEF Done
    <3>5. recvCount'[u] = recvCount[u] + 1 /\ \A v \in OnlineUids \ {u} : recvCount'[v] = recvCount[v]
      BY <1>1, <1>4, <1>11, <2>2
    <3>6. \A v \in OnlineUids : /\ {v} \in SUBSET OnlineUids /\ recvCount[v] \in Nat
                                /\ recvCount[v] <= Cardinality(Done({v}))
      BY DEF Counted, Received
    <3>7. Cardinality(Done({u})) + 1 <= Cardinality(Done({u})') /\ Cardinality(Done({u})) \in Nat /\ Cardinality(Done({u})') \in Nat
      <4> DEFINE D == Done({u})
                 T == Done({u})'
                 n == Len(route')
      <4>1. n \in Nat /\ T \in SUBSET (1 .. n) /\ D \in SUBSET T
        BY <1>9, DoneInNext
      <4>2. m \notin D /\ m \in T
        BY <3>3, <3>4
      <4> HIDE DEF D, T, n
      <4>3. IsFiniteSet(D) /\ Cardinality(D) \in Nat
        BY <4>1, Fewer
      <4>4. Cardinality(D \cup {m}) = Cardinality(D) + 1
        BY <4>2, <4>3, FS_AddElement
      <4>5. D \cup {m} \in SUBSET T
        BY <4>1, <4>2
      <4>6. Cardinality(D \cup {m}) <= Cardinality(T) /\ Cardinality(T) \in Nat
        BY <4>1, <4>5, Fewer
      <4> QED BY <4>3, <4>4, <4>6 DEF D, T
    <3> SUFFICES ASSUME NEW v \in OnlineUids PROVE recvCount'[v] <= Cardinality(Done({v})')
      BY DEF Received
    <3>8. CASE v = u
      <4> DEFINE x == Cardinality(Done({u}))
                 y == Cardinality(Done({u})')
                 c == recvCount[u]
      <4>1. x \in Nat /\ y \in Nat /\ x + 1 <= y /\ c \in Nat /\ c <= x
        BY <3>6, <3>7
      <4> HIDE DEF x, y, c
      <4>2. c + 1 <= y
        BY <4>1
      <4> QED BY <3>5, <3>8, <4>2 DEF c, y
    <3>9. CASE v # u
      <4> DEFINE D == Done({v})
                 T == Done({v})'
                 n == Len(route')
                 c == recvCount[v]
      <4>1. n \in Nat /\ T \in SUBSET (1 .. n) /\ D \in SUBSET T /\ c \in Nat /\ c <= Cardinality(D)
        BY <1>9, <3>6, DoneInNext
      <4> HIDE DEF D, T, n, c
      <4>2. Cardinality(D) \in Nat /\ Cardinality(T) \in Nat /\ Cardinality(D) <= Cardinality(T)
        BY <4>1, Fewer
      <4>3. c <= Cardinality(T)
        BY <4>1, <4>2
      <4> QED BY <3>5, <3>9, <4>3 DEF c, T
    <3> QED BY <3>8, <3>9
  <2> QED BY <2>1, <2>2
<1> QED BY <1>8, <1>10, <1>12 DEF Counted

\* The statistics.
LEMMA CountCounted ==
  ASSUME Typed, Typed', Counted, CountStep
  PROVE  Counted'
<1>1. Count /\ UNCHANGED <<sends, owed, recvCount>>
  BY DEF CountStep
<1>2. /\ \A U : Done(U)' = Done(U)
      /\ sendMsgCount' = sendMsgCount
  BY <1>1 DEF sends, Done
<1>3. OwedOnce' /\ Received'
  BY <1>1, <1>2 DEF sends, Counted, OwedOnce, Received
<1>4. summed \in SUBSET OnlineUids /\ sum \in Nat /\ recv \in Nat /\ sendMsgCount \in Nat /\ expectRecv \in Nat
  BY DoneIn DEF Typed, StatsTyped
<1>5. /\ statsAt \in {"sum", "expect"} => sum <= Cardinality(Done(summed))
      /\ statsAt = "expect" => recv <= sendMsgCount
  BY DEF Counted, Summing
<1>6. \A U : /\ IsFiniteSet(Done(U)) /\ Cardinality(Done(U)) \in Nat /\ Cardinality(Done(U)) <= sendMsgCount
  <2> TAKE U
  <2> DEFINE n == Len(route)
             T == Done(U)
  <2>1. n \in Nat /\ T \in SUBSET (1 .. n) /\ sendMsgCount = n
    BY DoneIn
  <2> HIDE DEF n, T
  <2>2. IsFiniteSet(T) /\ Cardinality(T) \in Nat /\ Cardinality(T) <= n
    BY <2>1, Fewer
  <2> QED BY <2>1, <2>2 DEF T
<1>7. Summing'
  <2>1. CASE CountBegin
    <3>1. statsAt' = "sum" /\ summed' = {} /\ sum' = 0
      BY <2>1 DEF CountBegin
    <3>2. 0 <= Cardinality(Done({}))
      BY <1>6
    <3> QED BY <1>2, <3>1, <3>2 DEF Summing, RecvNeverOver
  <2>2. CASE \E u \in listed : CountClient(u)
    <3>1. PICK u \in listed : CountClient(u)
      BY <2>2
    <3>2. /\ statsAt = "sum" /\ statsAt' = "sum" /\ u \notin summed /\ u \in OnlineUids
          /\ summed' = summed \cup {u} /\ sum' = sum + recvCount[u]
      BY <3>1 DEF CountClient, Typed, StatsTyped
    <3> DEFINE A == Done(summed)
               C == Done({u})
               D == Done(summed \cup {u})
    <3>3. A \cup C = D /\ A \cap C = {}
      BY <3>2 DEF Done
    <3>4. /\ IsFiniteSet(A) /\ IsFiniteSet(C)
          /\ Cardinality(A) \in Nat /\ Cardinality(C) \in Nat
      BY <1>6
    <3>5. sum <= Cardinality(A) /\ recvCount[u] <= Cardinality(C) /\ recvCount[u] \in Nat
      BY <1>5, <3>2 DEF Counted, Received, Typed, NetTyped
    <3>9. Done(summed)' = D
      BY <1>1, <3>2 DEF Done, sends
    <3>10. Cardinality(Done(summed)') = Cardinality(D)
      BY <3>9
    <3> HIDE DEF A, C, D
    <3>6. Cardinality(D) = Cardinality(A) + Cardinality(C)
      <4>1. Cardinality(A \cup C) = Cardinality(A) + Cardinality(C) - Cardinality(A \cap C)
        BY <3>4, FS_Union
      <4>2. Cardinality(A \cap C) = 0
        BY <3>3, FS_EmptySet
      <4>3. Cardinality(D) = Cardinality(A) + Cardinality(C) - 0
        BY <3>3, <4>1, <4>2
      <4> QED BY <3>4, <4>3
    <3>7. sum + recvCount[u] <= Cardinality(D)
      BY <1>4, <3>4, <3>5, <3>6
    <3> QED BY <3>2, <3>7, <3>10 DEF Summing, RecvNeverOver
  <2>3. CASE CountRecv
    <3>1. statsAt = "sum" /\ statsAt' = "expect" /\ recv' = sum /\ summed' = summed /\ sum' = sum
      BY <2>3 DEF CountRecv
    <3>2. sum <= sendMsgCount /\ sum <= Cardinality(Done(summed))
      BY <1>4, <1>5, <1>6, <3>1
    <3> QED BY <1>2, <3>1, <3>2 DEF Summing, RecvNeverOver
  <2>4. CASE CountExpect
    <3>1. statsAt = "expect" /\ statsAt' = "idle" /\ expectRecv' = sendMsgCount /\ recv' = recv
      BY <2>4 DEF CountExpect
    <3> QED BY <1>5, <3>1 DEF Summing, RecvNeverOver
  <2> QED BY <1>1, <2>1, <2>2, <2>3, <2>4 DEF Count
<1> QED BY <1>3, <1>7 DEF Counted

\* Nothing is counted at first.
LEMMA InitCounted == Init => Counted
<1> SUFFICES ASSUME Init PROVE Counted
  OBVIOUS
<1>1. Typed
  BY InitTyped
<1>2. /\ owed = [u \in OnlineUids |-> << >>] /\ recvCount = [u \in OnlineUids |-> 0]
      /\ statsAt = "idle" /\ recv = 0 /\ expectRecv = 0
  BY DEF Init
<1>3. OwedOnce
  <2>1. \A u \in OnlineUids : owed[u] = << >>
    BY <1>2
  <2>2. Len(<< >>) = 0
    OBVIOUS
  <2> QED BY <2>1, <2>2 DEF OwedOnce
<1>4. Received
  <2> SUFFICES ASSUME NEW u \in OnlineUids PROVE recvCount[u] <= Cardinality(Done({u}))
    BY DEF Received
  <2> DEFINE n == Len(route)
             T == Done({u})
  <2>1. n \in Nat /\ T \in SUBSET (1 .. n)
    BY <1>1, DoneIn
  <2> HIDE DEF n, T
  <2>2. Cardinality(T) \in Nat
    BY <2>1, Fewer
  <2>3. recvCount[u] = 0
    BY <1>2
  <2>4. recvCount[u] <= Cardinality(T)
    BY <2>2, <2>3
  <2> QED BY <2>4 DEF T
<1>5. Summing
  BY <1>2 DEF Summing, RecvNeverOver
<1> QED BY <1>3, <1>4, <1>5 DEF Counted

\* Every step keeps what the counters may show.
LEMMA NextCounted == Typed /\ Typed' /\ Streams /\ Counted /\ [Next]_vars => Counted'
<1> SUFFICES ASSUME Typed, Typed', Streams, Counted, [Next]_vars PROVE Counted'
  OBVIOUS
<1>0. sendMsgCount \in Nat
  BY DoneIn
<1>1. CASE SendStep
  <2>1. OwedOnce' /\ \A U \in SUBSET OnlineUids : Done(U) \subseteq Done(U)'
    BY <1>1, SendCounted
  <2>2. UNCHANGED stats /\ UNCHANGED recvCount /\ sendMsgCount' >= sendMsgCount
    <3>1. UNCHANGED stats /\ UNCHANGED recvCount /\ (sendMsgCount' = sendMsgCount + 1 \/ sendMsgCount' = sendMsgCount)
      BY ONLY <1>1 DEF SendStep
    <3> QED BY ONLY <1>0, <3>1
  <2>3. Summing' /\ (UNCHANGED recvCount => Received')
    BY <2>1, <2>2, MoreDone
  <2> QED BY <2>1, <2>2, <2>3 DEF Counted
<1>2. CASE TakeStep
  <2>1. OwedOnce' /\ \A U \in SUBSET OnlineUids : Done(U) \subseteq Done(U)'
    BY <1>2, TakeCounted
  <2>2. UNCHANGED stats /\ UNCHANGED recvCount /\ sendMsgCount' >= sendMsgCount
    <3>1. UNCHANGED stats /\ UNCHANGED recvCount /\ sendMsgCount' = sendMsgCount
      BY ONLY <1>2 DEF TakeStep
    <3> QED BY ONLY <1>0, <3>1
  <2>3. Summing' /\ (UNCHANGED recvCount => Received')
    BY <2>1, <2>2, MoreDone
  <2> QED BY <2>1, <2>2, <2>3 DEF Counted
<1>6. CASE LoseStep
  <2>1. OwedOnce' /\ \A U \in SUBSET OnlineUids : Done(U) \subseteq Done(U)'
    BY <1>6, LoseCounted
  <2>2. UNCHANGED stats /\ UNCHANGED recvCount /\ sendMsgCount' >= sendMsgCount
    <3>1. UNCHANGED stats /\ UNCHANGED recvCount /\ sendMsgCount' = sendMsgCount
      BY ONLY <1>6 DEF LoseStep
    <3> QED BY ONLY <1>0, <3>1
  <2>3. Summing' /\ (UNCHANGED recvCount => Received')
    BY <2>1, <2>2, MoreDone
  <2> QED BY <2>1, <2>2, <2>3 DEF Counted
<1>3. CASE HandleStep
  BY <1>3, HandleCounted
<1>4. CASE CountStep
  BY <1>4, CountCounted
<1>5. CASE OtherStep
  <2>1. UNCHANGED <<sends, owed, recvCount, stats>>
    BY ONLY <1>5 DEF OtherStep
  <2>2. OwedOnce'
    <3>1. OwedOnce
      BY DEF Counted
    <3> QED BY ONLY <2>1, <3>1 DEF OwedOnce, sends
  <2>3. Received'
    <3>1. Received
      BY DEF Counted
    <3> QED BY ONLY <2>1, <3>1 DEF Received, Done, sends
  <2>4. Summing'
    <3>1. Summing
      BY DEF Counted
    <3> QED BY ONLY <2>1, <3>1 DEF Summing, RecvNeverOver, Done, sends, stats
  <2> QED BY ONLY <2>2, <2>3, <2>4 DEF Counted
<1> QED BY <1>1, <1>2, <1>3, <1>4, <1>5, <1>6, Steps

\* No report shows more received than expected (task_stats.go:111-144), for
\* any number of users and of messages: each message received is one of those
\* counted by the send, and none is received twice.
THEOREM NeverOver == Spec => []RecvNeverOver
<1>1. Init => Counted
  BY InitCounted
<1>2. Typed /\ Typed' /\ Streams /\ Counted /\ [Next]_vars => Counted'
  BY NextCounted
<1>3. Counted => RecvNeverOver
  BY DEF Counted, Summing
<1> QED BY <1>1, <1>2, <1>3, TypedAlways, PTL DEF Spec

-----------------------------------------------------------------------------
(* The pairs.                                                              *)

TwoOf(n) == {{i, j} : i, j \in 1 .. n} \ {{i} : i \in 1 .. n}

\* A set of two users is a pair of different ones.
LEMMA TwoOfHas ==
  ASSUME NEW n \in Nat, NEW p
  PROVE  p \in TwoOf(n) <=> \E i, j \in 1 .. n : i # j /\ p = {i, j}
<1>1. ASSUME p \in TwoOf(n) PROVE \E i, j \in 1 .. n : i # j /\ p = {i, j}
  <2>1. PICK i \in 1 .. n, j \in 1 .. n : p = {i, j}
    BY <1>1 DEF TwoOf
  <2>2. p # {i}
    BY <1>1 DEF TwoOf
  <2>3. i # j
    BY <2>1, <2>2
  <2> QED BY <2>1, <2>3
<1>2. ASSUME NEW i \in 1 .. n, NEW j \in 1 .. n, i # j, p = {i, j} PROVE p \in TwoOf(n)
  <2>1. \A k \in 1 .. n : p # {k}
    BY <1>2
  <2> QED BY <1>2, <2>1 DEF TwoOf
<1> QED BY <1>1, <1>2

\* The pairs with the last of n + 1 users.
LEMMA TwoWithLast ==
  ASSUME NEW n \in Nat
  PROVE  LET L == {{i, n + 1} : i \in 1 .. n}
         IN  /\ IsFiniteSet(L) /\ Cardinality(L) = n
             /\ TwoOf(n + 1) = TwoOf(n) \cup L /\ TwoOf(n) \cap L = {}
<1> DEFINE L == {{i, n + 1} : i \in 1 .. n}
           f == [i \in 1 .. n |-> {i, n + 1}]
<1>1. f \in Bijection(1 .. n, L)
  <2>1. f \in [1 .. n -> L]
    OBVIOUS
  <2>2. \A t \in L : \E i \in 1 .. n : f[i] = t
    OBVIOUS
  <2>3. \A i, j \in 1 .. n : f[i] = f[j] => i = j
    <3> TAKE i \in 1 .. n, j \in 1 .. n
    <3>1. f[i] = {i, n + 1} /\ f[j] = {j, n + 1}
      OBVIOUS
    <3>2. i # n + 1 /\ j # n + 1
      OBVIOUS
    <3> HIDE DEF f
    <3> QED BY <3>1, <3>2
  <2>4. f \in Surjection(1 .. n, L)
    <3> HIDE DEF f, L
    <3> QED BY <2>1, <2>2 DEF Surjection
  <2>5. f \in Injection(1 .. n, L)
    <3>1. DOMAIN f = 1 .. n
      OBVIOUS
    <3> HIDE DEF f, L
    <3> QED BY <2>1, <2>3, <3>1 DEF Injection, IsInjective
  <2> QED BY <2>4, <2>5 DEF Bijection
<1>2. ExistsBijection(1 .. n, L)
  BY <1>1 DEF ExistsBijection
<1>3. Cardinality(L) = n /\ IsFiniteSet(L)
  <2> HIDE DEF L
  <2> QED BY <1>2, FS_CountingElements, FS_NatBijection
<1>4. TwoOf(n + 1) = TwoOf(n) \cup L
  <2>0. n + 1 \in Nat
    OBVIOUS
  <2>1. ASSUME NEW p \in TwoOf(n + 1) PROVE p \in TwoOf(n) \cup L
    <3>1. PICK i \in 1 .. n + 1, j \in 1 .. n + 1 : i # j /\ p = {i, j}
      BY <2>0, TwoOfHas
    <3>2. CASE i = n + 1
      <4>1. j \in 1 .. n /\ p = {j, n + 1}
        BY <3>1, <3>2
      <4> QED BY <4>1
    <3>3. CASE j = n + 1
      <4>1. i \in 1 .. n /\ p = {i, n + 1}
        BY <3>1, <3>3
      <4> QED BY <4>1
    <3>4. CASE i # n + 1 /\ j # n + 1
      <4>1. i \in 1 .. n /\ j \in 1 .. n
        BY <3>4
      <4> QED BY <3>1, <4>1, TwoOfHas
    <3> QED BY <3>2, <3>3, <3>4
  <2>2. ASSUME NEW p \in TwoOf(n) PROVE p \in TwoOf(n + 1)
    <3>1. PICK i \in 1 .. n, j \in 1 .. n : i # j /\ p = {i, j}
      BY TwoOfHas
    <3>2. i \in 1 .. n + 1 /\ j \in 1 .. n + 1
      OBVIOUS
    <3> QED BY <2>0, <3>1, <3>2, TwoOfHas
  <2>3. ASSUME NEW p \in L PROVE p \in TwoOf(n + 1)
    <3>1. PICK i \in 1 .. n : p = {i, n + 1}
      OBVIOUS
    <3>2. i \in 1 .. n + 1 /\ n + 1 \in 1 .. n + 1 /\ i # n + 1
      OBVIOUS
    <3> QED BY <2>0, <3>1, <3>2, TwoOfHas
  <2> QED BY <2>1, <2>2, <2>3
<1>5. TwoOf(n) \cap L = {}
  <2> SUFFICES ASSUME NEW p \in TwoOf(n), p \in L PROVE FALSE
    OBVIOUS
  <2>1. PICK i \in 1 .. n, j \in 1 .. n : i # j /\ p = {i, j}
    BY TwoOfHas
  <2>2. n + 1 \in p
    OBVIOUS
  <2>3. n + 1 = i \/ n + 1 = j
    BY <2>1, <2>2
  <2> QED BY <2>3
<1> QED BY <1>3, <1>4, <1>5

\* n users make n * (n - 1) / 2 pairs.
LEMMA CountTwoOf ==
  ASSUME NEW n \in Nat
  PROVE  IsFiniteSet(TwoOf(n)) /\ Cardinality(TwoOf(n)) \in Nat /\ 2 * Cardinality(TwoOf(n)) = n * (n - 1)
<1> DEFINE G == {k \in Nat : /\ IsFiniteSet(TwoOf(k)) /\ Cardinality(TwoOf(k)) \in Nat
                             /\ 2 * Cardinality(TwoOf(k)) = k * (k - 1)}
<1>1. 0 \in G
  <2>1. TwoOf(0) = {}
    <3>1. 1 .. 0 = {}
      OBVIOUS
    <3> QED BY <3>1 DEF TwoOf
  <2>2. IsFiniteSet(TwoOf(0)) /\ Cardinality(TwoOf(0)) = 0
    BY <2>1, FS_EmptySet
  <2> QED BY <2>2
<1>2. ASSUME NEW k \in G PROVE k + 1 \in G
  <2> DEFINE L == {{i, k + 1} : i \in 1 .. k}
             A == TwoOf(k)
             B == TwoOf(k + 1)
  <2>1. k \in Nat /\ IsFiniteSet(A) /\ Cardinality(A) \in Nat /\ 2 * Cardinality(A) = k * (k - 1)
    OBVIOUS
  <2>2. IsFiniteSet(L) /\ Cardinality(L) = k /\ B = A \cup L /\ A \cap L = {}
    BY <2>1, TwoWithLast
  <2> HIDE DEF L, A, B
  <2>3. /\ IsFiniteSet(A \cup L)
        /\ Cardinality(A \cup L) = Cardinality(A) + Cardinality(L) - Cardinality(A \cap L)
    BY <2>1, <2>2, FS_Union
  <2>4. Cardinality(A \cap L) = 0
    BY <2>2, FS_EmptySet
  <2>5. Cardinality(B) = Cardinality(A) + k - 0
    BY <2>2, <2>3, <2>4
  <2> DEFINE a == Cardinality(A)
  <2>6. a \in Nat /\ 2 * a = k * (k - 1) /\ Cardinality(B) = a + k
    BY <2>1, <2>5
  <2> HIDE DEF a
  <2>7. Cardinality(B) \in Nat /\ 2 * Cardinality(B) = (k + 1) * (k + 1 - 1)
    BY <2>1, <2>6
  <2>8. IsFiniteSet(B)
    BY <2>2, <2>3
  <2>9. k + 1 \in Nat
    BY <2>1
  <2> QED BY <2>7, <2>8, <2>9 DEF B
<1>3. G = Nat
  <2>1. G \in SUBSET Nat
    OBVIOUS
  <2> HIDE DEF G
  <2> QED BY <1>1, <1>2, <2>1, Induction
<1> QED BY <1>3

\* Enough in terms of minUsersForPairs.
LEMMA RootIs ==
  ASSUME NEW k \in Nat, NEW n \in Nat
  PROVE  (2 * k - 1) * (2 * k - 1) >= 1 + 8 * n <=> k * (k - 1) >= 2 * n
<1>1. (2 * k - 1) * (2 * k - 1) = 4 * (k * (k - 1)) + 1
  OBVIOUS
<1> DEFINE s == (2 * k - 1) * (2 * k - 1)
           t == k * (k - 1)
<1>2. s = 4 * t + 1 /\ t \in Int
  BY <1>1
<1> HIDE DEF s, t
<1>3. s >= 1 + 8 * n <=> t >= 2 * n
  BY <1>2
<1> QED BY <1>3 DEF s, t

\* More users make more pairs.
LEMMA MoreUsers ==
  ASSUME NEW k \in Nat, NEW l \in Nat, NEW n \in Nat, k >= 1, l >= k, k * (k - 1) >= 2 * n
  PROVE  l * (l - 1) >= 2 * n
<1>1. l - k \in Nat /\ l = k + (l - k)
  OBVIOUS
<1> DEFINE d == l - k
<1>2. d \in Nat /\ l = k + d
  BY <1>1
<1> HIDE DEF d
<1>3. (k + d) * (k + d - 1) = k * (k - 1) + d * (2 * k - 1) + d * d
  BY <1>2
<1>4. d * (2 * k - 1) >= 0 /\ d * d >= 0 /\ d * (2 * k - 1) \in Int /\ d * d \in Int /\ k * (k - 1) \in Int
  BY <1>2
<1> DEFINE x == d * (2 * k - 1)
           y == d * d
           z == k * (k - 1)
<1>5. x >= 0 /\ y >= 0 /\ x \in Int /\ y \in Int /\ z \in Int /\ z >= 2 * n /\ l * (l - 1) = z + x + y
  BY <1>2, <1>3, <1>4
<1> HIDE DEF x, y, z
<1> QED BY <1>5

\* minUsersForPairs is the first number of users with enough pairs
\* (task_p2p.go:192-208).
LEMMA MinUsersIs ==
  ASSUME NEW n \in Nat
  PROVE  /\ MinUsers(n) \in 1 .. n + 1 /\ MinUsers(n) * (MinUsers(n) - 1) >= 2 * n
         /\ \A k \in 1 .. n + 1 : k * (k - 1) >= 2 * n => MinUsers(n) <= k
<1> DEFINE T == {k \in 1 .. n + 1 : (2 * k - 1) * (2 * k - 1) >= 1 + 8 * n}
<1>1. \A k \in 1 .. n + 1 : k \in T <=> k * (k - 1) >= 2 * n
  <2> TAKE k \in 1 .. n + 1
  <2>1. k \in Nat
    OBVIOUS
  <2> QED BY <2>1, RootIs
<1>2. n + 1 \in T
  <2>1. n + 1 \in 1 .. n + 1
    OBVIOUS
  <2>2. (n + 1) * (n + 1 - 1) = n * n + n
    OBVIOUS
  <2>3. n * n >= n /\ n * n \in Nat
    OBVIOUS
  <2>4. (n + 1) * (n + 1 - 1) >= 2 * n
    BY <2>2, <2>3
  <2> QED BY <1>1, <2>1, <2>4
<1>3. T \in SUBSET Nat
  OBVIOUS
<1>4. MinUsers(n) = Min(T)
  BY DEF MinUsers
<1>6. \A k \in T : k \in 1 .. n + 1
  OBVIOUS
<1> HIDE DEF T
<1>7. T # {}
  BY <1>2
<1>5. PICK k \in T : \A i \in T : k <= i
  BY <1>3, <1>7, LeastNumber
<1>8. Min(T) = k
  BY <1>3, <1>5, LeastIs
<1> QED BY <1>1, <1>4, <1>5, <1>6, <1>8

\* The larger of two numbers.
LEMMA MaxOfTwo ==
  ASSUME NEW a \in Nat, NEW b \in Nat
  PROVE  Max({a, b}) \in {a, b} /\ Max({a, b}) >= a /\ Max({a, b}) >= b
<1>1. \E x \in {a, b} : \A y \in {a, b} : x >= y
  <2>1. CASE a >= b
    BY <2>1
  <2>2. CASE b >= a
    BY <2>2
  <2> QED BY <2>1, <2>2
<1>2. Max({a, b}) \in {a, b} /\ \A y \in {a, b} : Max({a, b}) >= y
  <2> DEFINE S == {a, b}
  <2>1. \E x \in S : \A y \in S : x >= y
    BY <1>1
  <2> HIDE DEF S
  <2>2. Max(S) \in S /\ \A y \in S : Max(S) >= y
    BY <2>1 DEF Max
  <2> QED BY <2>2 DEF S
<1> QED BY <1>2

\* No fewer users have that many pairs.
LEMMA LeastUsers ==
  ASSUME NEW n \in Nat, n > 0
  PROVE  MinUsers(n) <= Least(n) /\ Least(n) \in Nat
<1> DEFINE P(k) == Enough(k, n) /\ \A j \in 0 .. k - 1 : ~Enough(j, n)
           m == MinUsers(n)
<1>1. /\ m \in 1 .. n + 1 /\ m * (m - 1) >= 2 * n
      /\ \A k \in 1 .. n + 1 : k * (k - 1) >= 2 * n => m <= k
  BY MinUsersIs
<1> HIDE DEF m
<1>7. m \in Nat
  BY <1>1
<1>8. m \in 0 .. n + 1
  BY <1>1
<1>2. ~Enough(0, n)
  BY DEF Enough
<1>3. \A j \in 0 .. m - 1 : ~Enough(j, n)
  <2> TAKE j \in 0 .. m - 1
  <2>1. CASE j = 0
    BY <1>2, <2>1
  <2>2. CASE j # 0
    <3>1. j \in 1 .. n + 1 /\ ~(m <= j)
      BY <1>1, <2>2
    <3> QED BY <1>1, <3>1 DEF Enough
  <2> QED BY <2>1, <2>2
<1>4. P(m)
  BY <1>1, <1>3 DEF Enough
<1>5. Least(n) = CHOOSE k \in 0 .. n + 1 : P(k)
  BY DEF Least
<1> DEFINE l == Least(n)
<1>9. \E k \in 0 .. n + 1 : P(k)
  BY <1>4, <1>8
<1>6. l \in 0 .. n + 1 /\ P(l)
  <2> HIDE DEF P
  <2> QED BY <1>5, <1>9
<1> HIDE DEF l
<1>10. l # 0 /\ l * (l - 1) >= 2 * n
  BY <1>2, <1>6 DEF Enough
<1>11. l \in 1 .. n + 1
  BY <1>6, <1>10
<1>12. m <= l
  BY <1>1, <1>10, <1>11
<1>13. l \in Nat
  BY <1>11
<1> QED BY <1>12, <1>13 DEF l, m

\* generateData does as it was asked.
LEMMA InitPairs ==
  ASSUME NEW n \in Nat, NEW P, P \in RandomPairs(Users(n), n)
  PROVE  /\ Cardinality(P) = n
         /\ \A p \in P : Cardinality(p) = 2
         /\ \A u \in UNION P : u > NOnline => u <= Least(n)
<1> DEFINE m == MinUsers(n)
           N == Max({NOnline, m})
<1>1. NOnline \in Nat /\ NOnline > 0
  BY Numbers
<1>2. m \in 1 .. n + 1 /\ m * (m - 1) >= 2 * n
  BY MinUsersIs
<1>3. m \in Nat /\ m >= 1
  BY <1>2
<1>9. n > 0 => m <= Least(n) /\ Least(n) \in Nat
  BY LeastUsers
<1>10. Users(n) = 1 .. N
  BY DEF Users
<1> HIDE DEF m
<1>4. N \in {NOnline, m} /\ N >= NOnline /\ N >= m
  BY <1>1, <1>3, MaxOfTwo
<1> HIDE DEF N
<1>5. N \in Nat /\ N * (N - 1) >= 2 * n
  <2>1. N \in Nat
    BY <1>1, <1>3, <1>4
  <2> QED BY <1>2, <1>3, <1>4, <2>1, MoreUsers
<1>6. IsFiniteSet(TwoOf(N)) /\ Cardinality(TwoOf(N)) \in Nat /\ 2 * Cardinality(TwoOf(N)) = N * (N - 1)
  BY <1>5, CountTwoOf
<1>7. ~(n > Cardinality(TwoOf(N)))
  <2> DEFINE c == Cardinality(TwoOf(N))
             s == N * (N - 1)
  <2>1. c \in Nat /\ 2 * c = s /\ s >= 2 * n
    BY <1>5, <1>6
  <2> HIDE DEF c, s
  <2>2. ~(n > c)
    BY <2>1
  <2> QED BY <2>2 DEF c
<1>8. P \in SUBSET TwoOf(N) /\ Cardinality(P) = n
  BY <1>7, <1>10 DEF RandomPairs, TwoOf
<1>11. ASSUME NEW p \in P PROVE Cardinality(p) = 2 /\ p \subseteq 1 .. N
  <2>1. PICK i \in 1 .. N, j \in 1 .. N : i # j /\ p = {i, j}
    BY <1>5, <1>8, TwoOfHas
  <2>2. IsFiniteSet({i}) /\ Cardinality({i}) = 1
    BY FS_Singleton
  <2>3. Cardinality({i} \cup {j}) = 1 + 1
    <3>1. j \notin {i}
      BY <2>1
    <3> QED BY <2>2, <3>1, FS_AddElement
  <2>4. {i} \cup {j} = p
    BY <2>1
  <2> QED BY <2>1, <2>3, <2>4
<1>12. ASSUME NEW u \in UNION P, u > NOnline PROVE u <= Least(n)
  <2>1. PICK p \in P : u \in p
    OBVIOUS
  <2>2. u \in 1 .. N /\ IsFiniteSet(P)
    BY <1>6, <1>8, <1>11, <2>1, FS_Subset
  <2>3. n # 0
    <3>1. P # {}
      BY <2>1
    <3> QED BY <1>8, <2>2, <3>1, FS_EmptySet
  <2>4. u <= m /\ n > 0
    BY <1>1, <1>3, <1>4, <1>12, <2>2, <2>3
  <2>5. Least(n) \in Nat /\ u \in Nat
    BY <1>5, <1>9, <2>2, <2>4
  <2> QED BY <1>3, <1>9, <2>4, <2>5
<1> QED BY <1>8, <1>11, <1>12

\* The pairs are as asked for at first.
LEMMA InitPairsOK == Init => PairsAsAsked
<1> SUFFICES ASSUME Init PROVE PairsAsAsked
  OBVIOUS
<1>1. count \in Nat /\ pairs \in RandomPairs(Users(count), count)
  BY P2pAssumption DEF Init
<1> QED BY <1>1, InitPairs DEF PairsAsAsked

\* No step of anybody changes how many pairs were asked for, or the pairs.
LEMMA PairsKept == [Next]_vars => UNCHANGED <<count, pairs>>
<1> SUFFICES ASSUME [Next]_vars PROVE UNCHANGED <<count, pairs>>
  OBVIOUS
<1> USE DEF task
<1>1. ASSUME NEW u \in OnlineUids, Online(u) \/ Lose(u) \/ Reader(u) PROVE UNCHANGED <<count, pairs>>
  BY <1>1 DEF Online, Lose, Reader, HandlePacket, Read
<1>7. CASE OnlineFinished
  BY <1>7 DEF OnlineFinished
<1>2. CASE Loop
  BY <1>2 DEF Loop, Tick, Stopped, NextRound, SendPair, ChanceDone
<1>3. CASE Stop
  BY <1>3 DEF Stop
<1>4. CASE Server
  BY <1>4 DEF Server, ServerTake
<1>5. CASE Count
  BY <1>5 DEF Count, CountBegin, CountClient, CountRecv, CountExpect
<1>6. CASE UNCHANGED vars
  BY <1>6 DEF vars
<1> QED BY <1>1, <1>2, <1>3, <1>4, <1>5, <1>6, <1>7 DEF Next

\* The task has the number of pairs it was asked for, and invents no more
\* users than these need (task_p2p.go:57-58), for every number of pairs.
THEOREM PairsCorrect == Spec => []PairsAsAsked
<1>1. PairsAsAsked /\ [Next]_vars => PairsAsAsked'
  BY PairsKept DEF PairsAsAsked
<1> QED BY <1>1, InitPairsOK, PTL DEF Spec
=============================================================================
