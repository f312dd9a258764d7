------------------------------- MODULE Frames -------------------------------
(***************************************************************************)
(* How the reader cuts what it received into frames (parse and             *)
(* decodeLength, pkg/client/common.go, and the loop of handlePacketDatas). *)
(* A frame is one header byte alone, when it is a heartbeat, or a header,  *)
(* the length of its body, and the body.  The length is written in digits, *)
(* the lowest first; a digit of Base or more says that another one follows *)
(* (Base is 128 in the code), and four digits are read at most.            *)
(***************************************************************************)
EXTENDS Naturals, Sequences, SequencesExt, FiniteSetsExt

CONSTANTS
  Base,          \* the code's 128: the values of one digit of a length
  Heartbeats     \* the header bytes of PING and PONG

ASSUME FramesAssumption == Base \in Nat \ {0, 1} /\ Heartbeats \subseteq Nat

MaxDigits == 4

\* decodeLength: the length at the start of data, if all its digits are there.
DecodeLength(data) ==
  LET ends == {i \in DOMAIN data : i <= MaxDigits /\ (data[i] < Base \/ i = MaxDigits)}
      n    == Min(ends)
      digit(i) == IF i <= n THEN data[i] % Base ELSE 0
  IN  IF ends = {} THEN [has |-> FALSE, size |-> 0, value |-> 0]
      ELSE [has |-> TRUE, size |-> n,
            value |-> digit(1) + Base * (digit(2) + Base * (digit(3) + Base * digit(4)))]

\* Mutant: the digits of the length are not counted.
FrameEndShort(buff, o) ==
  IF buff[o + 1] \in Heartbeats THEN o + 1
  ELSE LET len == DecodeLength(SubSeq(buff, o + 2, Len(buff)))
           end == o + 2 + len.value
       IN  IF len.has /\ end <= Len(buff) THEN end ELSE o

\* Where the frame ends that begins after the first o bytes of buff: at o
\* when it is not complete yet.
FrameEnd(buff, o) ==
  IF buff[o + 1] \in Heartbeats THEN o + 1
  ELSE LET len == DecodeLength(SubSeq(buff, o + 2, Len(buff)))
           end == o + 1 + len.size + len.value
       IN  IF len.has /\ end <= Len(buff) THEN end ELSE o

\* parse: the whole frames at the start of buff, and the bytes that remain.
Parse(buff) ==
  LET cut[o \in 0 .. Len(buff)] ==
        IF o = Len(buff) \/ FrameEnd(buff, o) = o THEN o ELSE cut[FrameEnd(buff, o)]
  IN  [data |-> SubSeq(buff, 1, cut[0]), rest |-> SubSeq(buff, cut[0] + 1, Len(buff))]

\* The loop of handlePacketDatas: the frames of data, one by one.  What parse
\* leaves in data ends with a whole frame.
Packets(data) ==
  LET from[o \in 0 .. Len(data)] ==
        IF o = Len(data) \/ FrameEnd(data, o) = o THEN << >>
        ELSE <<SubSeq(data, o + 1, FrameEnd(data, o))>> \o from[FrameEnd(data, o)]
  IN  from[0]

\* A frame as the peer's EncodeFrame writes it.
Encode(header, body) ==
  LET digits[n \in 0 .. Len(body)] ==
        IF n < Base THEN <<n>> ELSE <<Base + (n % Base)>> \o digits[n \div Base]
  IN  <<header>> \o digits[Len(body)] \o body
=============================================================================
