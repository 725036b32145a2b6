----------------------------- MODULE ModbusProofs -----------------------------
(***************************************************************************)
(* That a reading lands in the register it is of, and that a write said to *)
(* have succeeded was made, for any registers, any queue, any noise, any   *)
(* number of requests and any slaves, as long as replies are in step with  *)
(* requests: slip says what puts them out of step (a read in the gap, a    *)
(* restart with a reply half in, a late answer), and a bus at rest puts    *)
(* them back in step.  Types hold whatever happens.                        *)
(*                                                                         *)
(* The argument is that of a half-duplex line: in step, at most one        *)
(* request is not over (ExchangeInv), it is the one the driver believes it *)
(* has sent (Current), and when it times out nothing of it is left.        *)
(*                                                                         *)
(* And that a value keeps its number on the way to a slave and back, for   *)
(* every type and both orders.  There the work is in division: a number is *)
(* its words and a word its bytes in one way (DividesOnce), so what the    *)
(* code takes apart by words is what the slave's manual takes apart by     *)
(* powers, and what is put together again is the number.                   *)
(***************************************************************************)
EXTENDS Modbus, ModbusValue, SequenceTheorems, TLAPS

\* The request the driver takes a message for.
Current == IF queue # <<>> THEN [op |-> "read", reg |-> queue[1]]
           ELSE [op |-> "write", reg |-> expected.reg, value |-> expected.value]

IsWrite(a) == a.kind = "done" /\ a.req.op = "write"

\* What is left of a request: the answer of a slave to it, that was carried out.
Concerns(p) ==
  IsBody(p) => /\ p.ans.req = Current
               /\ IsWrite(p.ans) => written[p.ans.req.reg] = p.ans.req.value

NoBody(s) == \A i \in 1..Len(s) : ~IsBody(s[i])
OneBody(s) == \A i, j \in 1..Len(s) : IsBody(s[i]) /\ IsBody(s[j]) => i = j

\* Nothing of a request is left.
Quiet == bus = <<>> /\ tail = <<>> /\ NoBody(rx)

\* The current request is still with the slave, or its body is yet to come, or
\* is in the ring; there is none when nothing is awaited or its time is over.
ExchangeInv ==
  /\ ~want_rx \/ send_age = RespTimeout => Quiet
  /\ bus # <<>> => bus = <<Current>> /\ tail = <<>> /\ NoBody(rx)
  /\ tail # <<>> => /\ Len(tail) = 1 /\ IsBody(tail[1]) /\ Concerns(tail[1])
                    /\ NoBody(rx)
  /\ OneBody(rx) /\ \A i \in 1..Len(rx) : Concerns(rx[i])

\* The receive timer started after the request was sent.
TimerInv == rx_age # NoTimer => want_rx /\ rx_age <= send_age

WasWritten == written[expected.reg] = expected.value

\* A write on its way is that of the command that waits, until it times out.
CommandInv ==
  /\ cmd = "waiting" => queue = <<>>
  /\ want_rx /\ queue = <<>> =>
       send_age = RespTimeout \/ (cmd = "waiting" /\ send_age = cmd_age)
  /\ cmd = "waiting" /\ ~not_done => ~want_rx /\ (passfail => WasWritten)

InStep == ExchangeInv /\ TimerInv /\ CommandInv

\* In step or not, the receive timer runs only while a reply is awaited.
TimerRuns == rx_age # NoTimer => want_rx

ModbusInv == TypeOK /\ TimerRuns /\ (slip = "none" => InStep)

OwnReadings == \A r \in Reg : OwnReading(r)

-----------------------------------------------------------------------------
(* Pieces and sequences of them.                                           *)

\* What a piece is made of.
LEMMA Pieces ==
  /\ Junk \in Piece /\ ~IsBody(Junk)
  /\ \A a \in Answer : Header(a) \in Piece /\ ~IsBody(Header(a))
  /\ \A a \in Answer, ok \in BOOLEAN :
       Body(a, ok) \in Piece /\ IsBody(Body(a, ok)) /\ Body(a, ok).ans = a
  /\ \A p \in Piece : p.part = "header" => p.ans \in Answer /\ ~IsBody(p)
  /\ \A p \in Piece : IsBody(p) => p.ans \in Answer
<1>1. Junk \in Piece /\ ~IsBody(Junk)
  BY DEF Piece, Junk, IsBody
<1>2. \A a \in Answer : Header(a) \in Piece /\ ~IsBody(Header(a))
  BY DEF Piece, Header, IsBody
<1>3. \A a \in Answer, ok \in BOOLEAN :
        Body(a, ok) \in Piece /\ IsBody(Body(a, ok)) /\ Body(a, ok).ans = a
  BY DEF Piece, Body, IsBody
<1>4. ASSUME NEW p \in Piece
      PROVE  /\ p.part = "header" => p.ans \in Answer /\ ~IsBody(p)
             /\ IsBody(p) => p.ans \in Answer
  BY DEF Piece, Junk, Header, Body, IsBody
<1>5. QED
  BY <1>1, <1>2, <1>3, <1>4

\* A good body names the answer it is of.
LEMMA GoodBody ==
  ASSUME NEW p \in Piece, NEW a, p = Body(a, TRUE)
  PROVE  IsBody(p) /\ p.ans = a /\ a \in Answer
<1>1. IsBody(p) /\ p.ans = a
  BY DEF Body, IsBody
<1>2. QED
  BY <1>1, Pieces

\* A part of a sequence has no piece of its own.
LEMMA PartOf ==
  ASSUME NEW s \in Seq(Piece), NEW m \in Nat \ {0}, NEW n \in 0..Len(s)
  PROVE  LET t == SubSeq(s, m, n)
         IN /\ t \in Seq(Piece)
            /\ \A i \in 1..Len(t) : m + i - 1 \in m..n /\ t[i] = s[m + i - 1]
            /\ \A i \in 1..Len(t) : \E j \in 1..Len(s) : s[j] = t[i]
            /\ OneBody(s) => OneBody(t)
            /\ NoBody(s) => NoBody(t)
<1> DEFINE t == SubSeq(s, m, n)
<1>1. \A i \in m..n : s[i] \in Piece
  OBVIOUS
<1>2. /\ t \in Seq(Piece)
      /\ Len(t) = IF m <= n THEN n - m + 1 ELSE 0
      /\ \A i \in 1..(n - m + 1) : t[i] = s[m + i - 1]
  BY <1>1, SubSeqProperties
<1> HIDE DEF t
<1>3. \A i \in 1..Len(t) : /\ m + i - 1 \in m..n /\ m + i - 1 \in 1..Len(s)
                           /\ t[i] = s[m + i - 1]
  BY <1>2
<1>4. OneBody(s) => OneBody(t)
  <2> SUFFICES ASSUME OneBody(s), NEW i \in 1..Len(t), NEW j \in 1..Len(t),
                      IsBody(t[i]), IsBody(t[j])
               PROVE  i = j
    BY DEF OneBody
  <2>1. m + i - 1 = m + j - 1
    BY <1>3 DEF OneBody
  <2>2. QED
    BY <1>2, <2>1
<1>5. NoBody(s) => NoBody(t)
  BY <1>2, <1>3 DEF NoBody
<1>6. \A i \in 1..Len(t) : \E j \in 1..Len(s) : s[j] = t[i]
  BY <1>3
<1>7. QED
  BY <1>2, <1>3, <1>4, <1>5, <1>6 DEF t

\* The tail of a sequence is such a part.
LEMMA TailPart ==
  ASSUME NEW s \in Seq(Piece), s # <<>>
  PROVE  /\ Tail(s) \in Seq(Piece)
         /\ \A i \in 1..Len(Tail(s)) : \E j \in 1..Len(s) : s[j] = Tail(s)[i]
         /\ OneBody(s) => OneBody(Tail(s))
<1>1. Tail(s) = SubSeq(s, 2, Len(s)) /\ Len(s) \in 0..Len(s)
  BY TailIsSubSeq
<1>2. /\ SubSeq(s, 2, Len(s)) \in Seq(Piece)
      /\ \A i \in 1..Len(SubSeq(s, 2, Len(s))) :
           \E j \in 1..Len(s) : s[j] = SubSeq(s, 2, Len(s))[i]
      /\ OneBody(s) => OneBody(SubSeq(s, 2, Len(s)))
  BY <1>1, PartOf
<1>3. QED
  BY <1>1, <1>2

\* A message ends with a body, and when there is one only, none is left.
LEMMA MessageEnds ==
  ASSUME NEW a, NEW bytes \in Seq(Piece), NEW left, Message(a, bytes, left)
  PROVE  /\ left \in Seq(Piece) /\ (OneBody(bytes) => NoBody(left))
         /\ \E i \in 1..Len(bytes) : IsBody(bytes[i])
         /\ \/ \E i \in 1..Len(bytes) : bytes[i] = Body(a, TRUE) /\ GoodCrc(a)
            \/ BadCrc
            \/ NoStop(a)
<1>1. PICK i \in 1..Len(bytes) : /\ IsBody(bytes[i])
                                 /\ left = SubSeq(bytes, i + 1, Len(bytes))
  BY DEF Message
<1>2. /\ left \in Seq(Piece)
      /\ \A k \in 1..Len(left) : /\ (i + 1) + k - 1 \in (i + 1)..Len(bytes)
                                 /\ left[k] = bytes[(i + 1) + k - 1]
  <2>1. i + 1 \in Nat \ {0} /\ Len(bytes) \in 0..Len(bytes)
    OBVIOUS
  <2>2. QED
    BY <1>1, <2>1, PartOf
<1>3. OneBody(bytes) => NoBody(left)
  <2> SUFFICES ASSUME OneBody(bytes), NEW k \in 1..Len(left), IsBody(left[k])
               PROVE  FALSE
    BY DEF NoBody
  <2>1. (i + 1) + k - 1 \in (i + 1)..Len(bytes) /\ left[k] = bytes[(i + 1) + k - 1]
    BY <1>2
  <2>2. (i + 1) + k - 1 = i
    BY <1>1, <2>1 DEF OneBody
  <2>3. QED
    BY <2>1, <2>2
<1>4. 1 \in 1..Len(bytes)
  OBVIOUS
<1>5. \/ bytes[1] = Body(a, TRUE) /\ GoodCrc(a)
      \/ BadCrc
      \/ NoStop(a)
  BY DEF Message
<1>6. QED
  BY <1>1, <1>2, <1>3, <1>4, <1>5

-----------------------------------------------------------------------------
(* What a pass that reads bytes may do.                                    *)

NothingEnds ==
  UNCHANGED <<queue, want_rx, good_age, retransmits, state, value, not_done, passfail>>

\* A message was read, and nothing is awaited any more.
Ends ==
  /\ want_rx' = FALSE /\ head' = Nothing /\ rx_age' = NoTimer
  /\ OneBody(rx) => NoBody(rx')
  /\ \E i \in 1..Len(rx) : IsBody(rx[i])
  /\ \/ UNCHANGED <<queue, good_age, retransmits, state, value, not_done, passfail>>
     \/ \E a \in Answer : /\ \E i \in 1..Len(rx) : rx[i] = Body(a, TRUE)
                          /\ GoodCrc(a)

\* No body is left that was not there before, and no second one.
NoneAdded ==
  OneBody(rx) =>
    /\ OneBody(rx')
    /\ \A i \in 1..Len(rx') : IsBody(rx'[i]) => \E j \in 1..Len(rx) : rx[j] = rx'[i]

\* A pass takes pieces off, and either nothing ends, or the exchange does.
LEMMA PassTakes ==
  ASSUME TypeOK, NoisePass \/ HeaderPass \/ BodyPass
  PROVE  /\ want_rx /\ rx' \in Seq(Piece) /\ NoneAdded
         /\ UNCHANGED <<send_age, bus, expected, cmd, cmd_age, written, tail, slip,
                        asks, faults>>
         /\ \/ /\ NothingEnds
               /\ rx_age' \in {NoTimer, 0, rx_age}
               /\ head' \in {Nothing, Garbled} \cup Answer
            \/ Ends
<1>1. rx \in Seq(Piece) /\ head \in {Nothing, Garbled} \cup Answer
  BY DEF TypeOK
<1>2. want_rx /\ UNCHANGED <<send_age, bus, expected, cmd, cmd_age, written, tail, slip,
                              asks, faults>>
  BY DEF NoisePass, HeaderPass, BodyPass, cmdvars
<1>3. CASE NoisePass
  <2>1. NothingEnds
    BY <1>3 DEF NoisePass, NothingEnds
  <2>2. PICK n \in {2, 3} : n <= Len(rx) + 1 /\ rx' = SubSeq(rx, n, Len(rx))
    <3>1. CASE \E n \in {1, 2} : n <= Len(rx) /\ rx' = SubSeq(rx, n + 1, Len(rx))
      BY <1>1, <3>1
    <3>2. CASE Len(rx) > 1 /\ rx' = SubSeq(rx, 3, Len(rx))
      BY <1>1, <3>2
    <3>3. QED
      BY <1>3, <3>1, <3>2 DEF NoisePass
  <2>3. /\ rx' \in Seq(Piece) /\ (OneBody(rx) => OneBody(rx'))
        /\ \A i \in 1..Len(rx') : \E j \in 1..Len(rx) : rx[j] = rx'[i]
    <3>1. n \in Nat \ {0} /\ Len(rx) \in 0..Len(rx)
      BY <1>1
    <3>3. \A k \in 0..Len(rx) :
             LET t == SubSeq(rx, n, k)
             IN  /\ t \in Seq(Piece) /\ (OneBody(rx) => OneBody(t))
                 /\ \A i \in 1..Len(t) : \E j \in 1..Len(rx) : rx[j] = t[i]
      BY <1>1, <3>1, PartOf, Zenon
    <3>4. QED
      BY <2>2, <3>1, <3>3, Zenon
  <2>4. rx_age' \in {NoTimer, 0, rx_age} /\ head' \in {Nothing, Garbled} \cup Answer
    BY <1>1, <1>3 DEF NoisePass
  <2>5. QED
    BY <1>2, <2>1, <2>3, <2>4 DEF NoneAdded
<1>4. CASE HeaderPass
  <2> DEFINE rest == Tail(rx)
             a == rx[1].ans
  <2>1. rx # <<>> /\ a \in Answer
    BY <1>1, <1>4, Pieces DEF HeaderPass
  <2>2. /\ rest \in Seq(Piece) /\ (OneBody(rx) => OneBody(rest))
        /\ \A i \in 1..Len(rest) : \E j \in 1..Len(rx) : rx[j] = rest[i]
    BY <1>1, <2>1, TailPart
  <2>3. CASE head' = a /\ rx' = rest /\ rx_age' = 0 /\ NothingEnds
    BY <1>2, <2>1, <2>2, <2>3 DEF NoneAdded
  <2>4. CASE rx_age' = NoTimer /\ Message(a, rest, rx')
    <3>1. /\ rx' \in Seq(Piece) /\ (OneBody(rx) => NoBody(rx'))
          /\ \E i \in 1..Len(rest) : IsBody(rest[i])
      BY <2>2, <2>4, MessageEnds
    <3>2. NoneAdded
      BY <3>1 DEF NoneAdded, NoBody, OneBody
    <3>3. \E i \in 1..Len(rx) : IsBody(rx[i])
      BY <2>2, <3>1
    <3>4. CASE \E i \in 1..Len(rest) : rest[i] = Body(a, TRUE) /\ GoodCrc(a)
      <4>1. Ends
        BY <2>1, <2>2, <2>4, <3>1, <3>3, <3>4 DEF Ends, GoodCrc
      <4>2. QED
        BY <1>2, <3>1, <3>2, <4>1
    <3>5. CASE BadCrc
      <4>1. Ends
        BY <2>4, <3>1, <3>3, <3>5 DEF Ends, BadCrc
      <4>2. QED
        BY <1>2, <3>1, <3>2, <4>1
    <3>6. CASE NoStop(a)
      BY <1>2, <2>1, <2>4, <3>1, <3>2, <3>6 DEF NoStop, NothingEnds
    <3>7. QED
      BY <2>2, <2>4, <3>4, <3>5, <3>6, MessageEnds
  <2>5. CASE rx_age' = NoTimer /\ rx' = <<Junk>> /\ NoStop(a)
    <3>1. rx' \in Seq(Piece) /\ Len(rx') = 1 /\ ~IsBody(rx'[1])
      BY <2>5, Pieces
    <3>2. NoneAdded
      BY <3>1 DEF NoneAdded, OneBody
    <3>3. QED
      BY <1>2, <2>1, <2>5, <3>1, <3>2 DEF NoStop, NothingEnds
  <2>6. QED
    BY <1>4, <2>3, <2>4, <2>5 DEF HeaderPass, NothingEnds
<1>5. CASE BodyPass
  <2>1. head \in {Garbled} \cup Answer
    BY <1>1, <1>5 DEF BodyPass
  <2>2. CASE rx_age' = NoTimer /\ Message(head, rx, rx')
    <3>1. /\ rx' \in Seq(Piece) /\ (OneBody(rx) => NoBody(rx'))
          /\ \E i \in 1..Len(rx) : IsBody(rx[i])
      BY <1>1, <2>2, MessageEnds
    <3>2. NoneAdded
      BY <3>1 DEF NoneAdded, NoBody, OneBody
    <3>3. CASE \E i \in 1..Len(rx) : rx[i] = Body(head, TRUE) /\ GoodCrc(head)
      <4>1. PICK i \in 1..Len(rx) : rx[i] = Body(head, TRUE)
        BY <3>3
      <4>2. head \in Answer
        <5>1. rx[i] \in Piece
          BY <1>1
        <5>2. QED
          BY <4>1, <5>1, GoodBody
      <4>3. Ends
        BY <2>2, <3>1, <3>3, <4>2 DEF Ends, GoodCrc
      <4>4. QED
        BY <1>2, <3>1, <3>2, <4>3
    <3>4. CASE BadCrc
      <4>1. Ends
        BY <2>2, <3>1, <3>4 DEF Ends, BadCrc
      <4>2. QED
        BY <1>2, <3>1, <3>2, <4>1
    <3>5. CASE NoStop(head)
      BY <1>2, <2>1, <2>2, <3>1, <3>2, <3>5 DEF NoStop, NothingEnds
    <3>6. QED
      BY <1>1, <2>2, <3>3, <3>4, <3>5, MessageEnds
  <2>3. CASE rx' = <<>> /\ rx_age' = rx_age /\ head' = head /\ NothingEnds
    <3>1. rx' \in Seq(Piece) /\ NoneAdded
      BY <2>3 DEF NoneAdded, OneBody
    <3>2. QED
      BY <1>1, <1>2, <2>3, <3>1
  <2>4. QED
    BY <1>5, <2>2, <2>3 DEF BodyPass, NothingEnds
<1>6. QED
  BY <1>3, <1>4, <1>5

-----------------------------------------------------------------------------
(* Types.                                                                  *)

QueueTypes == /\ queue \in Seq(Reg) /\ Len(queue) <= Slots
              /\ retransmits \in 0..(MaxRetransmits - 1)
AgeTypes == /\ send_age \in 0..RespTimeout /\ cmd_age \in 0..RespTimeout
            /\ rx_age \in {NoTimer} \cup 0..RespTimeout
            /\ good_age \in 0..(TxGap + 1)
FlagTypes == /\ want_rx \in BOOLEAN /\ not_done \in BOOLEAN /\ passfail \in BOOLEAN
             /\ cmd \in {"none", "waiting", "success", "failed", "timed out"}
RegTypes == /\ state \in [Reg -> {"INVALID", "WAITING", "READY"}]
            /\ value \in [Reg -> Reg \cup {NoValue, CrcBytes}]
WriteTypes == /\ written \in [Reg -> Value \cup {NoValue}]
              /\ expected \in [reg : Reg, value : Value]
WireTypes == rx \in Seq(Piece) /\ tail \in Seq(Piece) /\ bus \in Seq(Request)
HeadType == head \in {Nothing, Garbled} \cup Answer
CountTypes == /\ slip \in {"none", "gap", "restart", "late"}
              /\ asks \in Nat /\ faults \in Nat

\* The types by what they belong to.
LEMMA TypeParts ==
  TypeOK <=> /\ QueueTypes /\ AgeTypes /\ FlagTypes /\ RegTypes
             /\ WriteTypes /\ WireTypes /\ HeadType /\ CountTypes
BY Zenon DEF TypeOK, QueueTypes, AgeTypes, FlagTypes, RegTypes, WriteTypes, WireTypes,
             HeadType, CountTypes

\* What a tick makes of an age.
LEMMA Ages ==
  ASSUME NEW limit \in Nat, NEW age \in 0..limit
  PROVE  Older(age, limit) \in 0..limit
BY DEF Older

\* What a request sent leaves.
LEMMA Sends ==
  ASSUME QueueTypes, RegTypes, WireTypes, NEW r \in Reg, DoStartRead(r)
  PROVE  /\ want_rx' = TRUE /\ send_age' = 0 /\ send_age' \in 0..RespTimeout
         /\ bus' = Append(bus, [op |-> "read", reg |-> r]) /\ bus' \in Seq(Request)
         /\ state' = [state EXCEPT ![r] = "WAITING"]
         /\ state' \in [Reg -> {"INVALID", "WAITING", "READY"}]
<1>1. [op |-> "read", reg |-> r] \in Request
  BY DEF Request
<1>2. want_rx' = TRUE /\ send_age' = 0 /\ bus' = Append(bus, [op |-> "read", reg |-> r])
  BY Zenon DEF DoStartRead, Transmit
<1>3. state' = [state EXCEPT ![r] = "WAITING"]
  BY DEF DoStartRead
<1>4. bus' \in Seq(Request)
  BY <1>1, <1>2, AppendProperties DEF WireTypes
<1>5. send_age' \in 0..RespTimeout
  BY <1>2, ModbusAssumption
<1>6. state' \in [Reg -> {"INVALID", "WAITING", "READY"}]
  BY <1>3 DEF RegTypes
<1>7. QED
  BY <1>2, <1>3, <1>4, <1>5, <1>6

\* What a message with a good CRC leaves.
LEMMA GoodCrcTypes ==
  ASSUME TypeOK, NEW a \in Answer, GoodCrc(a)
  PROVE  /\ QueueTypes' /\ RegTypes' /\ good_age' \in 0..(TxGap + 1)
         /\ not_done' \in BOOLEAN /\ passfail' \in BOOLEAN
<1>0. QueueTypes /\ AgeTypes /\ FlagTypes /\ RegTypes
  BY TypeParts
<1>1. CASE a.kind = "done" /\ a.req.op = "write"
  <2>1. Acknowledged(a.req)
    BY <1>1 DEF GoodCrc
  <2>2. passfail' \in BOOLEAN /\ not_done' \in BOOLEAN
    BY <2>1, Zenon DEF Acknowledged
  <2>3. QED
    BY <1>0, <2>1, <2>2 DEF Acknowledged, QueueTypes, AgeTypes, RegTypes
<1>2. CASE ForCurrent(a) /\ queue = <<>>
  BY <1>0, <1>2 DEF ForCurrent, QueueTypes, AgeTypes, FlagTypes, RegTypes
<1>3. CASE ForCurrent(a) /\ queue # <<>>
  <2>1. queue[1] \in Reg /\ Tail(queue) \in Seq(Reg) /\ Len(Tail(queue)) <= Slots
    BY <1>0, <1>3, ModbusAssumption DEF QueueTypes
  <2>2. /\ queue' = Tail(queue) /\ good_age' = 0 /\ retransmits' = 0
        /\ UNCHANGED <<not_done, passfail>>
    BY <1>3 DEF ForCurrent
  <2>3. a.req.reg \in Reg
    BY DEF Answer, Request
  <2>4. \/ state' = [state EXCEPT ![queue[1]] = "INVALID"] /\ UNCHANGED value
        \/ Lands(queue[1], a)
    BY <1>3 DEF ForCurrent
  <2>5. \E v \in {"INVALID", "READY"} : state' = [state EXCEPT ![queue[1]] = v]
    BY <2>4 DEF Lands
  <2>6. \/ UNCHANGED value
        \/ \E v \in Reg \cup {CrcBytes} : value' = [value EXCEPT ![queue[1]] = v]
    BY <2>3, <2>4 DEF Lands
  <2>7. value' \in [Reg -> Reg \cup {NoValue, CrcBytes}]
    BY <1>0, <2>1, <2>6 DEF RegTypes
  <2>8. state' \in [Reg -> {"INVALID", "WAITING", "READY"}]
    BY <1>0, <2>1, <2>5 DEF RegTypes
  <2>9. not_done' \in BOOLEAN /\ passfail' \in BOOLEAN
    BY <1>0, <2>2 DEF FlagTypes
  <2>10. QED
    BY <2>1, <2>2, <2>7, <2>8, <2>9, ModbusAssumption DEF QueueTypes, RegTypes
<1>4. QED
  BY <1>1, <1>2, <1>3 DEF GoodCrc

\* Every variable keeps its type, whatever the slaves and the line do.
LEMMA TypeStep == ASSUME TypeOK, [Next]_vars PROVE TypeOK'
<1> USE ModbusAssumption
<1> SUFFICES /\ QueueTypes' /\ AgeTypes' /\ FlagTypes' /\ RegTypes'
             /\ WriteTypes' /\ WireTypes' /\ HeadType' /\ CountTypes'
  BY Zenon, TypeParts DEF TypeOK, QueueTypes, AgeTypes, FlagTypes, RegTypes, WriteTypes,
     WireTypes, HeadType, CountTypes
<1>0. /\ QueueTypes /\ AgeTypes /\ FlagTypes /\ RegTypes
      /\ WriteTypes /\ WireTypes /\ HeadType /\ CountTypes
  BY TypeParts
<1>1. CASE \E r \in Reg : StartRead(r)
  <2>1. PICK r \in Reg : StartRead(r)
    BY <1>1
  <2>2. QueueTypes'
    <3>1. CASE Stale
      BY <1>0, <2>1, <3>1 DEF StartRead, QueueTypes
    <3>2. CASE ~Stale
      <4>1. Len(queue) # Slots /\ queue' = Append(queue, r) /\ UNCHANGED retransmits
        BY <2>1, <3>2 DEF StartRead, Full
      <4>2. QED
        BY <1>0, <4>1, AppendProperties DEF QueueTypes
    <3>3. QED
      BY <3>1, <3>2
  <2>3. want_rx' \in BOOLEAN /\ send_age' \in 0..RespTimeout /\ bus' \in Seq(Request)
        /\ state' \in [Reg -> {"INVALID", "WAITING", "READY"}]
    <3>1. CASE DoStartRead(r)
      BY <1>0, <3>1, Sends
    <3>2. CASE UNCHANGED <<want_rx, send_age, bus>>
               /\ state' = [state EXCEPT ![r] = "WAITING"]
      BY <1>0, <3>2 DEF AgeTypes, FlagTypes, WireTypes, RegTypes
    <3>3. QED
      BY <2>1, <3>1, <3>2 DEF StartRead
  <2>4. good_age' \in 0..(TxGap + 1)
    BY <1>0, <2>1 DEF StartRead, AgeTypes
  <2>5. CountTypes'
    BY <1>0, <2>1 DEF StartRead, Slip, CountTypes
  <2>6. UNCHANGED <<rx_age, head, value, expected, not_done, passfail, cmd, cmd_age, rx,
                    tail, written, faults>>
    BY <2>1 DEF StartRead
  <2>7. QED
    BY <1>0, <2>2, <2>3, <2>4, <2>5, <2>6
    DEF AgeTypes, FlagTypes, RegTypes, WriteTypes, WireTypes, HeadType, CountTypes
<1>2. CASE \E r \in Reg, v \in Value : SetReg(r, v)
  <2>1. PICK r \in Reg, v \in Value : SetReg(r, v)
    BY <1>2
  <2>2. [op |-> "write", reg |-> r, value |-> v] \in Request
    BY DEF Request
  <2>3. want_rx' = TRUE /\ send_age' = 0
        /\ bus' = Append(bus, [op |-> "write", reg |-> r, value |-> v])
    BY <2>1, Zenon DEF SetReg, Transmit
  <2>4. bus' \in Seq(Request)
    BY <1>0, <2>2, <2>3, AppendProperties DEF WireTypes
  <2>5. expected' = [reg |-> r, value |-> v] /\ not_done' = TRUE /\ passfail' = TRUE
        /\ cmd' = "waiting" /\ cmd_age' = 0
    BY <2>1, Zenon DEF SetReg
  <2>6. asks' = asks + 1
        /\ UNCHANGED <<queue, rx_age, good_age, retransmits, head, state, value,
                       rx, tail, written, slip, faults>>
    BY <2>1 DEF SetReg
  <2>7. QED
    <3>1. QueueTypes'
      BY <1>0, <2>3, <2>4, <2>5, <2>6 DEF QueueTypes
    <3>2. AgeTypes'
      BY <1>0, <2>3, <2>4, <2>5, <2>6 DEF AgeTypes
    <3>3. FlagTypes'
      BY <1>0, <2>3, <2>4, <2>5, <2>6 DEF FlagTypes
    <3>4. RegTypes'
      BY <1>0, <2>3, <2>4, <2>5, <2>6 DEF RegTypes
    <3>5. WriteTypes'
      BY <1>0, <2>3, <2>4, <2>5, <2>6 DEF WriteTypes
    <3>6. WireTypes'
      BY <1>0, <2>3, <2>4, <2>5, <2>6 DEF WireTypes
    <3>7. HeadType'
      BY <1>0, <2>3, <2>4, <2>5, <2>6 DEF HeadType
    <3>8. CountTypes'
      BY <1>0, <2>3, <2>4, <2>5, <2>6 DEF CountTypes
    <3>9. QED
      BY <3>1, <3>2, <3>3, <3>4, <3>5, <3>6, <3>7, <3>8
<1>3. CASE SetReturns
  <2>1. cmd' \in {"none", "waiting", "success", "failed", "timed out"}
    BY <1>3 DEF SetReturns
  <2>2. UNCHANGED <<queue, want_rx, send_age, rx_age, good_age, retransmits, head, state,
                    value, expected, not_done, passfail, cmd_age, wire, slip, asks,
                    faults>>
    BY <1>3 DEF SetReturns
  <2>3. QED
    BY <1>0, <2>1, <2>2
    DEF wire, QueueTypes, AgeTypes, FlagTypes, RegTypes, WriteTypes, WireTypes, HeadType,
        CountTypes
<1>4. CASE IdlePass
  <2>1. want_rx' \in BOOLEAN /\ send_age' \in 0..RespTimeout /\ bus' \in Seq(Request)
        /\ state' \in [Reg -> {"INVALID", "WAITING", "READY"}]
    <3>1. CASE Due
      <4>1. queue[1] \in Reg
        BY <1>0, <3>1 DEF Due, QueueTypes
      <4>2. DoStartRead(queue[1])
        BY <1>4, <3>1 DEF IdlePass
      <4>3. QED
        BY <1>0, <4>1, <4>2, Sends
    <3>2. CASE ~Due
      BY <1>0, <1>4, <3>2 DEF IdlePass, AgeTypes, FlagTypes, RegTypes, WireTypes
    <3>3. QED
      BY <3>1, <3>2
  <2>2. rx' = <<>> /\ UNCHANGED <<queue, rx_age, good_age, retransmits, head, value,
                                  expected, not_done, passfail, cmdvars>>
    BY <1>4 DEF IdlePass
  <2>3. QED
    <3>1. QueueTypes'
      BY <1>0, <2>1, <2>2 DEF cmdvars, QueueTypes
    <3>2. AgeTypes'
      BY <1>0, <2>1, <2>2 DEF cmdvars, AgeTypes
    <3>3. FlagTypes'
      BY <1>0, <2>1, <2>2 DEF cmdvars, FlagTypes
    <3>4. RegTypes'
      BY <1>0, <2>1, <2>2 DEF cmdvars, RegTypes
    <3>5. WriteTypes'
      BY <1>0, <2>1, <2>2 DEF cmdvars, WriteTypes
    <3>6. WireTypes'
      BY <1>0, <2>1, <2>2 DEF cmdvars, WireTypes
    <3>7. HeadType'
      BY <1>0, <2>1, <2>2 DEF cmdvars, HeadType
    <3>8. CountTypes'
      BY <1>0, <2>1, <2>2 DEF cmdvars, CountTypes
    <3>9. QED
      BY <3>1, <3>2, <3>3, <3>4, <3>5, <3>6, <3>7, <3>8
<1>5. CASE TimeoutPass
  <2>1. QueueTypes'
    <3>1. retransmits' \in 0..(MaxRetransmits - 1)
      BY <1>0, <1>5 DEF TimeoutPass, QueueTypes
    <3>2. queue' = queue \/ queue' = <<>> \/ (queue # <<>> /\ queue' = Tail(queue))
      BY <1>5, Zenon DEF TimeoutPass
    <3>3. queue' \in Seq(Reg) /\ Len(queue') <= Slots
      <4>1. CASE queue' = queue
        BY <1>0, <4>1 DEF QueueTypes
      <4>2. CASE queue' = <<>>
        BY <4>2, EmptySeq
      <4>3. CASE queue # <<>> /\ queue' = Tail(queue)
        BY <1>0, <4>3, HeadTailProperties DEF QueueTypes
      <4>4. QED
        BY <3>2, <4>1, <4>2, <4>3
    <3>4. QED
      BY <3>1, <3>3 DEF QueueTypes
  <2>2. want_rx' \in BOOLEAN /\ send_age' \in 0..RespTimeout /\ bus' \in Seq(Request)
        /\ state' \in [Reg -> {"INVALID", "WAITING", "READY"}]
    <3>1. CASE queue # <<>> /\ DoStartRead(queue[1])
      <4>1. queue[1] \in Reg
        BY <1>0, <3>1 DEF QueueTypes
      <4>2. QED
        BY <1>0, <3>1, <4>1, Sends
    <3>2. CASE want_rx' = FALSE /\ UNCHANGED <<send_age, bus, state>>
      BY <1>0, <3>2 DEF AgeTypes, WireTypes, RegTypes
    <3>3. QED
      BY <1>5, <3>1, <3>2 DEF TimeoutPass
  <2>3. /\ head' = Nothing /\ rx_age' = NoTimer /\ rx' = <<>>
        /\ UNCHANGED <<good_age, value, expected, not_done, passfail, cmdvars>>
    BY <1>5 DEF TimeoutPass
  <2>4. QED
    <3>1. AgeTypes'
      BY <1>0, <2>1, <2>2, <2>3 DEF cmdvars, AgeTypes
    <3>2. FlagTypes'
      BY <1>0, <2>1, <2>2, <2>3 DEF cmdvars, FlagTypes
    <3>3. RegTypes'
      BY <1>0, <2>1, <2>2, <2>3 DEF cmdvars, RegTypes
    <3>4. WriteTypes'
      BY <1>0, <2>1, <2>2, <2>3 DEF cmdvars, WriteTypes
    <3>5. WireTypes'
      BY <1>0, <2>1, <2>2, <2>3 DEF cmdvars, WireTypes
    <3>6. HeadType'
      BY <1>0, <2>1, <2>2, <2>3 DEF cmdvars, HeadType
    <3>7. CountTypes'
      BY <1>0, <2>1, <2>2, <2>3 DEF cmdvars, CountTypes
    <3>8. QED
      BY <3>1, <3>2, <3>3, <3>4, <3>5, <3>6, <3>7, <1>0, <2>1, <2>2, <2>3
<1>6. CASE FewBytesPass
  <2>1. QueueTypes'
    BY <1>0, <1>6 DEF FewBytesPass, cmdvars, QueueTypes
  <2>2. AgeTypes'
    BY <1>0, <1>6 DEF FewBytesPass, cmdvars, AgeTypes
  <2>3. FlagTypes'
    BY <1>0, <1>6 DEF FewBytesPass, cmdvars, FlagTypes
  <2>4. RegTypes'
    BY <1>0, <1>6 DEF FewBytesPass, cmdvars, RegTypes
  <2>5. WriteTypes'
    BY <1>0, <1>6 DEF FewBytesPass, cmdvars, WriteTypes
  <2>6. WireTypes'
    BY <1>0, <1>6 DEF FewBytesPass, cmdvars, WireTypes
  <2>7. HeadType'
    BY <1>0, <1>6 DEF FewBytesPass, cmdvars, HeadType
  <2>8. CountTypes'
    BY <1>0, <1>6 DEF FewBytesPass, cmdvars, CountTypes
  <2>9. QED
    BY <2>1, <2>2, <2>3, <2>4, <2>5, <2>6, <2>7, <2>8
<1>7. CASE NoisePass \/ HeaderPass \/ BodyPass
  <2>1. /\ rx' \in Seq(Piece)
        /\ UNCHANGED <<send_age, bus, expected, cmd, cmd_age, written, tail, slip,
                       asks, faults>>
    BY <1>7, PassTakes
  <2>2. CASE /\ NothingEnds
             /\ rx_age' \in {NoTimer, 0, rx_age}
             /\ head' \in {Nothing, Garbled} \cup Answer
    <3>1. QueueTypes'
      BY <1>0, <2>1, <2>2 DEF NothingEnds, QueueTypes
    <3>2. AgeTypes'
      BY <1>0, <2>1, <2>2 DEF NothingEnds, AgeTypes
    <3>3. FlagTypes'
      BY <1>0, <2>1, <2>2 DEF NothingEnds, FlagTypes
    <3>4. RegTypes'
      BY <1>0, <2>1, <2>2 DEF NothingEnds, RegTypes
    <3>5. WriteTypes'
      BY <1>0, <2>1, <2>2 DEF NothingEnds, WriteTypes
    <3>6. WireTypes'
      BY <1>0, <2>1, <2>2 DEF NothingEnds, WireTypes
    <3>7. HeadType'
      BY <1>0, <2>1, <2>2 DEF NothingEnds, HeadType
    <3>8. CountTypes'
      BY <1>0, <2>1, <2>2 DEF NothingEnds, CountTypes
    <3>9. QED
      BY <3>1, <3>2, <3>3, <3>4, <3>5, <3>6, <3>7, <3>8
  <2>3. CASE Ends
    <3>1. want_rx' = FALSE /\ head' = Nothing /\ rx_age' = NoTimer
      BY <2>3, Zenon DEF Ends
    <3>2. CASE UNCHANGED <<queue, good_age, retransmits, state, value, not_done,
                           passfail>>
      BY <1>0, <2>1, <3>1, <3>2
      DEF QueueTypes, AgeTypes, FlagTypes, RegTypes, WriteTypes, WireTypes, HeadType,
          CountTypes
    <3>3. CASE \E a \in Answer : GoodCrc(a)
      <4>1. /\ QueueTypes' /\ RegTypes' /\ good_age' \in 0..(TxGap + 1)
            /\ not_done' \in BOOLEAN /\ passfail' \in BOOLEAN
        BY <3>3, GoodCrcTypes
      <4>2. QED
        BY <1>0, <2>1, <3>1, <4>1
        DEF AgeTypes, FlagTypes, WriteTypes, WireTypes, HeadType, CountTypes
    <3>4. QED
      BY <2>3, <3>2, <3>3 DEF Ends
  <2>4. QED
    BY <1>7, <2>2, <2>3, PassTakes
<1>8. CASE SlaveAnswers
  <2>1. PICK kind \in {"done", "exception"}, ok \in BOOLEAN :
          /\ bus' = Tail(bus)
          /\ rx' = Append(rx, Header([kind |-> kind, req |-> bus[1]]))
          /\ tail' = <<Body([kind |-> kind, req |-> bus[1]], ok)>>
          /\ faults' \in {faults, faults + 1}
          /\ written' = IF kind = "done" /\ bus[1].op = "write"
                        THEN [written EXCEPT ![bus[1].reg] = bus[1].value]
                        ELSE written
    BY <1>8 DEF SlaveAnswers
  <2> DEFINE a == [kind |-> kind, req |-> bus[1]]
  <2>2. bus # <<>> /\ bus[1] \in Request /\ bus' \in Seq(Request)
    BY <1>0, <1>8, <2>1 DEF SlaveAnswers, WireTypes
  <2>3. a \in Answer
    BY <2>2 DEF Answer
  <2>4. Header(a) \in Piece /\ Body(a, ok) \in Piece
    BY <2>3, Pieces
  <2>5. rx' = Append(rx, Header(a)) /\ tail' = <<Body(a, ok)>>
    BY <2>1
  <2> HIDE DEF a
  <2>6. rx' \in Seq(Piece) /\ tail' \in Seq(Piece)
    BY <1>0, <2>4, <2>5, AppendProperties DEF WireTypes
  <2>7. written' \in [Reg -> Value \cup {NoValue}]
    <3>1. bus[1].op = "write" => bus[1].value \in Value
      BY <2>2 DEF Request
    <3>2. QED
      BY <1>0, <2>1, <3>1 DEF WriteTypes
  <2>8. faults' \in Nat
    BY <1>0, <2>1 DEF CountTypes
  <2>9. UNCHANGED <<master, slip, asks>>
    BY <1>8 DEF SlaveAnswers
  <2>10. QED
    BY <1>0, <2>2, <2>6, <2>7, <2>8, <2>9
    DEF master, QueueTypes, AgeTypes, FlagTypes, RegTypes, WriteTypes, WireTypes,
        HeadType, CountTypes
<1>9. CASE BodyArrives
  <2>1. rx' \in Seq(Piece) /\ tail' \in Seq(Piece)
    BY <1>0, <1>9, ConcatProperties DEF BodyArrives, WireTypes
  <2>2. UNCHANGED <<master, bus, written, slip, asks, faults>>
    BY <1>9 DEF BodyArrives
  <2>3. QED
    BY <1>0, <2>1, <2>2
    DEF master, QueueTypes, AgeTypes, FlagTypes, RegTypes, WriteTypes, WireTypes,
        HeadType, CountTypes
<1>10. CASE LineFault
  <2>1. rx \in Seq(Piece) /\ tail \in Seq(Piece) /\ Junk \in Piece
    BY <1>0, Pieces DEF WireTypes
  <2>2. tail' \in Seq(Piece) /\ faults' \in Nat
    <3>1. (tail' = tail \/ tail' = <<>>) /\ faults' = faults + 1
      BY <1>10 DEF LineFault
    <3>2. tail' \in Seq(Piece)
      BY <2>1, <3>1, EmptySeq
    <3>3. QED
      BY <1>0, <3>1, <3>2 DEF CountTypes
  <2>3. rx' \in Seq(Piece)
    <3>1. CASE rx' = Append(rx, Junk)
      BY <2>1, <3>1, AppendProperties
    <3>2. CASE rx # <<>> /\ rx' = SubSeq(rx, 1, Len(rx) - 1)
      <4>1. 1 \in Nat \ {0} /\ Len(rx) - 1 \in 0..Len(rx)
        BY <2>1, <3>2
      <4>2. QED
        BY <2>1, <3>2, <4>1, PartOf
    <3>3. QED
      BY <1>10, <2>1, <3>1, <3>2 DEF LineFault
  <2>4. UNCHANGED <<master, bus, written, slip, asks>>
    BY <1>10 DEF LineFault
  <2>5. QED
    BY <1>0, <2>2, <2>3, <2>4
    DEF master, QueueTypes, AgeTypes, FlagTypes, RegTypes, WriteTypes, WireTypes,
        HeadType, CountTypes
<1>11. CASE Tick
  <2>1. send_age' \in 0..RespTimeout /\ cmd_age' \in 0..RespTimeout
    BY <1>0, <1>11, Ages DEF Tick, AgeTypes
  <2>2. good_age' \in 0..(TxGap + 1)
    <3>1. TxGap + 1 \in Nat /\ good_age \in 0..(TxGap + 1)
          /\ good_age' = Older(good_age, TxGap + 1)
      BY <1>0, <1>11 DEF Tick, AgeTypes
    <3>2. QED
      BY <3>1, Ages
  <2>3. rx_age' \in {NoTimer} \cup 0..RespTimeout
    BY <1>0, <1>11, Ages DEF Tick, AgeTypes
  <2>4. (bus' = bus /\ tail' = tail) \/ (bus' = <<>> /\ tail' = <<>>)
    BY <1>11 DEF Tick
  <2>5. UNCHANGED <<queue, want_rx, retransmits, head, state, value, expected,
                    not_done, passfail, cmd, rx, written, asks>>
    BY <1>11 DEF Tick
  <2>6. bus' \in Seq(Request) /\ tail' \in Seq(Piece)
    BY <1>0, <2>4, EmptySeq DEF WireTypes
  <2>7. CountTypes'
    BY <1>0, <1>11 DEF Tick, CountTypes
  <2>8. QED
    BY <1>0, <2>1, <2>2, <2>3, <2>5, <2>6, <2>7
    DEF QueueTypes, AgeTypes, FlagTypes, RegTypes, WriteTypes, WireTypes, HeadType
<1>12. CASE UNCHANGED vars
  BY <1>0, <1>12
  DEF vars, master, wire, QueueTypes, AgeTypes, FlagTypes, RegTypes, WriteTypes,
      WireTypes, HeadType, CountTypes
<1>13. QED
  BY <1>1, <1>2, <1>3, <1>4, <1>5, <1>6, <1>7, <1>8, <1>9, <1>10, <1>11, <1>12
  DEF Next, Process

-----------------------------------------------------------------------------
(* One exchange at a time.                                                 *)

\* A request just sent, on a line where nothing is left.
LEMMA FreshExchange ==
  ASSUME bus' = <<Current'>>, tail' = <<>>, NoBody(rx'),
         want_rx', send_age' # RespTimeout
  PROVE  ExchangeInv'
<1>1. OneBody(rx') /\ \A i \in 1..Len(rx') : ~IsBody(rx'[i])
  BY DEF NoBody, OneBody
<1>2. \A i \in 1..Len(rx') : Concerns(rx[i])'
  BY <1>1 DEF Concerns
<1>3. QED
  BY <1>1, <1>2 DEF ExchangeInv

\* A line where nothing is left.
LEMMA QuietExchange == Quiet => ExchangeInv
<1> SUFFICES ASSUME Quiet PROVE ExchangeInv
  OBVIOUS
<1>1. OneBody(rx) /\ \A i \in 1..Len(rx) : Concerns(rx[i])
  BY DEF Quiet, NoBody, OneBody, Concerns
<1>2. QED
  BY <1>1 DEF ExchangeInv, Quiet

\* The exchange does not end, and its request stays the current one.
LEMMA SameExchange ==
  ASSUME ExchangeInv, Current' = Current, UNCHANGED <<written, bus, tail>>,
         ~want_rx' => ~want_rx,
         send_age' = RespTimeout => send_age = RespTimeout,
         OneBody(rx'),
         \A i \in 1..Len(rx') : IsBody(rx'[i]) => \E j \in 1..Len(rx) : rx[j] = rx'[i]
  PROVE  ExchangeInv'
<1>1. NoBody(rx) => NoBody(rx')
  BY DEF NoBody
<1>2. ASSUME NEW i \in 1..Len(rx') PROVE Concerns(rx[i])'
  <2>1. CASE IsBody(rx'[i])
    <3>1. PICK j \in 1..Len(rx) : rx[j] = rx'[i]
      BY <2>1
    <3>2. Concerns(rx[j])
      BY DEF ExchangeInv
    <3>3. QED
      BY <2>1, <3>1, <3>2 DEF Concerns
  <2>2. CASE ~IsBody(rx'[i])
    BY <2>2 DEF Concerns
  <2>3. QED
    BY <2>1, <2>2
<1>3. Concerns(tail[1]) => Concerns(tail[1])'
  BY DEF Concerns
<1>4. Quiet => Quiet'
  BY <1>1 DEF Quiet
<1>5. QED
  BY <1>1, <1>2, <1>3, <1>4 DEF ExchangeInv

\* A read that leaves all in step is sent on a quiet line, or waits.
LEMMA StartReadKeeps ==
  ASSUME TypeOK, InStep, NEW r \in Reg, StartRead(r), slip' = "none"
  PROVE  ExchangeInv' /\ TimerInv' /\ CommandInv' /\ OwnReadings
<1>1. /\ QueueTypes /\ AgeTypes /\ FlagTypes /\ RegTypes /\ WireTypes
      /\ ExchangeInv /\ TimerInv /\ CommandInv
  BY TypeParts DEF InStep
<1>2. /\ want_rx \/ queue = <<>> \/ Stale
      /\ ~Stale \/ rx_age = NoTimer
      /\ cmd # "waiting"
  BY DEF StartRead, ReadAllowed, Slip, ReadInGap, RestartInFrame
<1>3. UNCHANGED <<rx_age, value, expected, not_done, passfail, cmd, cmd_age, rx, tail,
                  written>>
      /\ queue' = (IF Stale THEN <<r>> ELSE Append(queue, r))
  BY DEF StartRead
<1>4. queue' # <<>> /\ (queue # <<>> /\ ~Stale => queue'[1] = queue[1])
                   /\ (queue = <<>> \/ Stale => queue'[1] = r)
  BY <1>1, <1>3, AppendProperties DEF QueueTypes
<1>5. state' = [state EXCEPT ![r] = "WAITING"]
  BY DEF StartRead, DoStartRead
<1>6. OwnReadings
  BY <1>1, <1>3, <1>5 DEF OwnReadings, OwnReading, RegTypes
<1>7. CommandInv'
  BY <1>1, <1>2, <1>3, <1>4 DEF CommandInv, WasWritten
<1>8. CASE DoStartRead(r) /\ (~want_rx \/ Stale)
  <2>1. Quiet
    <3>1. CASE ~want_rx
      BY <1>1, <3>1 DEF ExchangeInv
    <3>2. CASE want_rx /\ Stale
      <4>1. send_age = RespTimeout
        BY <1>1, <3>2, ModbusAssumption DEF Stale, AgeTypes
      <4>2. QED
        BY <1>1, <4>1 DEF ExchangeInv
    <3>3. QED
      BY <1>8, <3>1, <3>2
  <2>2. want_rx' = TRUE /\ send_age' = 0
        /\ bus' = Append(bus, [op |-> "read", reg |-> r])
    BY <1>1, <1>8, Sends
  <2>3. bus' = <<[op |-> "read", reg |-> r]>>
    BY <2>1, <2>2 DEF Quiet
  <2>4. queue'[1] = r
    BY <1>2, <1>4, <1>8
  <2>5. bus' = <<Current'>>
    BY <1>4, <2>3, <2>4 DEF Current
  <2>6. ExchangeInv'
    BY <1>3, <2>1, <2>2, <2>5, ModbusAssumption, FreshExchange DEF Quiet
  <2>7. rx_age = NoTimer
    BY <1>1, <1>2, <1>8 DEF TimerInv
  <2>8. TimerInv'
    BY <1>3, <2>7 DEF TimerInv
  <2>9. QED
    BY <1>6, <1>7, <2>6, <2>8
<1>9. CASE want_rx /\ ~Stale /\ UNCHANGED <<want_rx, send_age, bus>>
  <2>1. TimerInv'
    BY <1>1, <1>3, <1>9 DEF TimerInv
  <2>2. CASE queue # <<>>
    <3>1. Current' = Current
      BY <1>4, <1>9, <2>2 DEF Current
    <3>2. ExchangeInv'
      BY <1>1, <1>3, <1>9, <3>1, SameExchange DEF ExchangeInv
    <3>3. QED
      BY <1>6, <1>7, <2>1, <3>2
  <2>3. CASE queue = <<>>
    <3>1. send_age = RespTimeout
      BY <1>1, <1>2, <1>9, <2>3 DEF CommandInv
    <3>2. Quiet'
      BY <1>1, <1>3, <1>9, <3>1 DEF ExchangeInv, Quiet
    <3>3. ExchangeInv'
      BY <3>2, QuietExchange, PTL
    <3>4. QED
      BY <1>6, <1>7, <2>1, <3>3
  <2>4. QED
    BY <2>2, <2>3
<1>10. QED
  BY <1>8, <1>9 DEF StartRead

\* A write is sent on a quiet line, and the command waits for it.
LEMMA SetRegKeeps ==
  ASSUME TypeOK, InStep, NEW r \in Reg, NEW v \in Value, SetReg(r, v)
  PROVE  ExchangeInv' /\ TimerInv' /\ CommandInv' /\ OwnReadings
<1>1. WireTypes /\ ExchangeInv /\ TimerInv
  BY TypeParts DEF InStep
<1>2. ~want_rx /\ queue = <<>>
  BY DEF SetReg, HasPending
<1>3. want_rx' = TRUE /\ send_age' = 0
      /\ bus' = Append(bus, [op |-> "write", reg |-> r, value |-> v])
  BY Zenon DEF SetReg, Transmit
<1>4. expected' = [reg |-> r, value |-> v] /\ not_done' = TRUE
      /\ cmd' = "waiting" /\ cmd_age' = 0
  BY Zenon DEF SetReg
<1>5. UNCHANGED <<queue, rx_age, state, value, rx, tail>>
  BY DEF SetReg
<1>6. Quiet
  BY <1>1, <1>2 DEF ExchangeInv
<1>7. bus' = <<Current'>>
  BY <1>2, <1>3, <1>4, <1>5, <1>6 DEF Quiet, Current
<1>8. ExchangeInv'
  BY <1>3, <1>5, <1>6, <1>7, ModbusAssumption, FreshExchange DEF Quiet
<1>9. TimerInv'
  BY <1>1, <1>2, <1>5 DEF TimerInv
<1>10. CommandInv'
  BY <1>2, <1>3, <1>4, <1>5 DEF CommandInv
<1>11. OwnReadings
  BY <1>1, <1>5 DEF OwnReadings, OwnReading
<1>12. QED
  BY <1>8, <1>9, <1>10, <1>11

\* A command that returns says what was written.
LEMMA SetReturnsKeeps ==
  ASSUME TypeOK, InStep, SetReturns
  PROVE  ExchangeInv' /\ TimerInv' /\ CommandInv' /\ OwnReadings
<1>1. AgeTypes /\ ExchangeInv /\ TimerInv /\ CommandInv
  BY TypeParts DEF InStep
<1>2. UNCHANGED <<queue, want_rx, send_age, rx_age, state, value, expected, not_done,
                  passfail, cmd_age, rx, bus, tail, written>>
  BY DEF SetReturns, wire
<1>3. ExchangeInv' /\ TimerInv' /\ OwnReadings
  BY <1>1, <1>2
  DEF ExchangeInv, Quiet, NoBody, OneBody, Concerns, Current, TimerInv, OwnReadings, OwnReading
<1>4. cmd = "waiting" /\ cmd' # "waiting"
  BY DEF SetReturns
<1>5. cmd' = "success" => WasWritten
  BY <1>1, <1>4 DEF SetReturns, HasPending, CommandInv
<1>6. want_rx => cmd_age = RespTimeout
  <2>1. ~want_rx \/ cmd_age >= RespTimeout
    BY Zenon DEF SetReturns, HasPending
  <2>2. QED
    BY <1>1, <2>1, ModbusAssumption DEF AgeTypes
<1>7. CommandInv'
  BY <1>1, <1>2, <1>4, <1>5, <1>6 DEF CommandInv, WasWritten
<1>8. QED
  BY <1>3, <1>7

\* The head of the queue is sent, or sent again, on a quiet line.
LEMMA HeadSent ==
  ASSUME TypeOK, InStep, Quiet, queue # <<>>, DoStartRead(queue[1]), NoBody(rx'),
         rx_age' = NoTimer,
         UNCHANGED <<queue, value, expected, not_done, passfail, cmdvars>>
  PROVE  ExchangeInv' /\ TimerInv' /\ CommandInv' /\ OwnReadings
<1>1. QueueTypes /\ RegTypes /\ WireTypes /\ CommandInv
  BY TypeParts DEF InStep
<1>2. queue[1] \in Reg
  BY <1>1 DEF QueueTypes
<1>3. /\ want_rx' = TRUE /\ send_age' = 0
      /\ bus' = Append(bus, [op |-> "read", reg |-> queue[1]])
      /\ state' = [state EXCEPT ![queue[1]] = "WAITING"]
  BY <1>1, <1>2, Sends
<1>4. UNCHANGED <<queue, value, expected, not_done, passfail, cmd, cmd_age, written,
                  tail>>
  BY DEF cmdvars
<1>5. bus' = <<Current'>>
  BY <1>3, <1>4 DEF Quiet, Current
<1>6. ExchangeInv'
  BY <1>3, <1>4, <1>5, ModbusAssumption, FreshExchange DEF Quiet
<1>7. TimerInv'
  BY DEF TimerInv
<1>8. CommandInv'
  BY <1>1, <1>4 DEF CommandInv, WasWritten
<1>9. OwnReadings
  BY <1>1, <1>3, <1>4 DEF OwnReadings, OwnReading, RegTypes
<1>10. QED
  BY <1>6, <1>7, <1>8, <1>9

\* With nothing awaited, the line is quiet.
LEMMA IdlePassKeeps ==
  ASSUME TypeOK, InStep, IdlePass
  PROVE  ExchangeInv' /\ TimerInv' /\ CommandInv' /\ OwnReadings
<1>1. ExchangeInv /\ TimerInv /\ CommandInv
  BY DEF InStep
<1>2. ~want_rx /\ rx' = <<>>
      /\ UNCHANGED <<queue, rx_age, value, expected, not_done, passfail, cmdvars>>
  BY DEF IdlePass
<1>3. Quiet /\ rx_age = NoTimer /\ NoBody(rx')
  BY <1>1, <1>2, EmptySeq DEF ExchangeInv, TimerInv, NoBody
<1>4. CASE Due
  BY <1>2, <1>3, <1>4, HeadSent DEF IdlePass, Due
<1>5. CASE ~Due
  <2>1. UNCHANGED <<want_rx, send_age, bus, state>>
    BY <1>5 DEF IdlePass
  <2>2. UNCHANGED <<cmd, cmd_age, written, tail>>
    BY <1>2 DEF cmdvars
  <2>3. Quiet'
    BY <1>3, <2>1, <2>2 DEF Quiet
  <2>4. ExchangeInv'
    BY <2>3, QuietExchange, PTL
  <2>5. TimerInv' /\ CommandInv' /\ OwnReadings
    BY <1>1, <1>2, <2>1, <2>2
    DEF TimerInv, CommandInv, WasWritten, OwnReadings, OwnReading
  <2>6. QED
    BY <2>4, <2>5
<1>6. QED
  BY <1>4, <1>5

\* A request that timed out has left nothing.
LEMMA TimeoutPassKeeps ==
  ASSUME TypeOK, InStep, TimeoutPass
  PROVE  ExchangeInv' /\ TimerInv' /\ CommandInv' /\ OwnReadings
<1>1. /\ QueueTypes /\ AgeTypes /\ ExchangeInv /\ TimerInv /\ CommandInv
  BY TypeParts DEF InStep
<1>2. want_rx /\ TimedOut /\ rx_age' = NoTimer /\ rx' = <<>>
      /\ UNCHANGED <<value, expected, not_done, passfail, cmdvars>>
  BY DEF TimeoutPass
<1>3. send_age = RespTimeout
  BY <1>1, <1>2, ModbusAssumption DEF TimedOut, TimerInv, AgeTypes
<1>4. Quiet /\ NoBody(rx')
  BY <1>1, <1>2, <1>3, EmptySeq DEF ExchangeInv, NoBody
<1>5. CASE queue # <<>> /\ DoStartRead(queue[1]) /\ UNCHANGED queue
  BY <1>2, <1>4, <1>5, HeadSent
<1>6. CASE /\ want_rx' = FALSE /\ UNCHANGED <<send_age, bus, state>>
           /\ queue = <<>> => queue' = <<>>
  <2>1. UNCHANGED <<cmd, cmd_age, written, tail>>
    BY <1>2 DEF cmdvars
  <2>2. Quiet'
    BY <1>4, <1>6, <2>1 DEF Quiet
  <2>3. ExchangeInv'
    BY <2>2, QuietExchange, PTL
  <2>4. TimerInv' /\ OwnReadings
    BY <1>1, <1>2, <1>6 DEF TimerInv, OwnReadings, OwnReading
  <2>5. CommandInv'
    BY <1>1, <1>2, <1>6, <2>1 DEF CommandInv, WasWritten
  <2>6. QED
    BY <2>3, <2>4, <2>5
<1>7. QED
  BY <1>5, <1>6, Zenon DEF TimeoutPass

\* A message with a good CRC is the answer to the current request.
LEMMA GoodCrcKeeps ==
  ASSUME TypeOK, InStep, NEW a \in Answer, NEW i \in 1..Len(rx), rx[i] = Body(a, TRUE),
         GoodCrc(a), UNCHANGED <<expected, cmd, cmd_age, written>>
  PROVE  CommandInv' /\ OwnReadings
<1>1. QueueTypes /\ RegTypes /\ WireTypes /\ ExchangeInv /\ CommandInv
  BY TypeParts DEF InStep
<1>2. rx[i] \in Piece
  BY <1>1, LenProperties DEF WireTypes
<1>3. IsBody(rx[i]) /\ rx[i].ans = a
  BY <1>2, GoodBody
<1>4. a.req = Current /\ (IsWrite(a) => written[a.req.reg] = a.req.value)
  BY <1>1, <1>3 DEF ExchangeInv, Concerns
<1>5. want_rx' = FALSE
  BY Zenon DEF GoodCrc
<1>6. CASE IsWrite(a)
  <2>1. a.req = [op |-> "write", reg |-> expected.reg, value |-> expected.value]
    BY <1>4, <1>6 DEF Current, IsWrite
  <2>2. WasWritten'
    BY <1>4, <1>6, <2>1 DEF WasWritten
  <2>3. UNCHANGED <<queue, state, value>>
    BY <1>6 DEF GoodCrc, Acknowledged, IsWrite
  <2>4. QED
    BY <1>1, <1>5, <2>2, <2>3 DEF CommandInv, OwnReadings, OwnReading
<1>7. CASE ~IsWrite(a)
  <2>1. ForCurrent(a)
    BY <1>7 DEF GoodCrc, IsWrite
  <2>2. UNCHANGED <<not_done, passfail>>
    BY <2>1 DEF ForCurrent
  <2>3. CASE queue = <<>>
    <3>1. UNCHANGED <<queue, state, value>>
      BY <2>1, <2>3 DEF ForCurrent
    <3>2. QED
      BY <1>1, <1>5, <2>2, <3>1
      DEF CommandInv, WasWritten, OwnReadings, OwnReading
  <2>4. CASE queue # <<>>
    <3>1. a.req.op = "read" /\ a.req.reg = queue[1]
      BY <1>4, <2>4 DEF Current
    <3>2. queue[1] \in Reg
      BY <1>1, <2>4 DEF QueueTypes
    <3>3. CommandInv'
      BY <1>1, <1>5, <2>4 DEF CommandInv, WasWritten
    <3>4. a.kind \in {"done", "exception"}
      BY DEF Answer
    <3>5. \/ state' = [state EXCEPT ![queue[1]] = "INVALID"] /\ UNCHANGED value
          \/ /\ state' = [state EXCEPT ![queue[1]] = "READY"]
             /\ value' = [value EXCEPT ![queue[1]] = queue[1]]
      BY <2>1, <2>4, <3>1, <3>4 DEF ForCurrent, Lands
    <3>6. OwnReadings
      BY <1>1, <3>2, <3>5 DEF OwnReadings, OwnReading, RegTypes
    <3>7. QED
      BY <3>3, <3>6
  <2>5. QED
    BY <2>3, <2>4
<1>8. QED
  BY <1>6, <1>7

\* A pass that reads bytes: with the body the exchange is over.
LEMMA TakesKeeps ==
  ASSUME TypeOK, InStep, NoisePass \/ HeaderPass \/ BodyPass
  PROVE  ExchangeInv' /\ TimerInv' /\ CommandInv' /\ OwnReadings
<1>1. /\ TypeOK /\ AgeTypes /\ ExchangeInv /\ TimerInv /\ CommandInv
      /\ OneBody(rx)
  BY TypeParts DEF InStep, ExchangeInv
<1>2. /\ want_rx /\ rx' \in Seq(Piece) /\ OneBody(rx')
      /\ \A i \in 1..Len(rx') :
           IsBody(rx'[i]) => \E j \in 1..Len(rx) : rx[j] = rx'[i]
      /\ UNCHANGED <<send_age, bus, expected, cmd, cmd_age, written, tail>>
  BY <1>1, PassTakes DEF NoneAdded
<1>3. CASE NothingEnds /\ rx_age' \in {NoTimer, 0, rx_age}
  <2>1. UNCHANGED <<queue, want_rx, state, value, not_done, passfail>>
    BY <1>3 DEF NothingEnds
  <2>2. Current' = Current
    BY <1>2, <2>1 DEF Current
  <2>3. ExchangeInv'
    BY <1>1, <1>2, <2>1, <2>2, SameExchange
  <2>4. TimerInv'
    BY <1>1, <1>2, <1>3, <2>1 DEF TimerInv, AgeTypes
  <2>5. CommandInv' /\ OwnReadings
    BY <1>1, <1>2, <2>1 DEF CommandInv, WasWritten, OwnReadings, OwnReading
  <2>6. QED
    BY <2>3, <2>4, <2>5
<1>4. CASE Ends
  <2>1. want_rx' = FALSE /\ rx_age' = NoTimer /\ NoBody(rx')
    BY <1>1, <1>4, Zenon DEF Ends
  <2>2. ~NoBody(rx)
    BY <1>4 DEF Ends, NoBody
  <2>3. Quiet'
    BY <1>1, <1>2, <2>1, <2>2 DEF ExchangeInv, Quiet
  <2>4. ExchangeInv' /\ TimerInv'
    <3>1. TimerInv'
      BY <2>1 DEF TimerInv
    <3>2. ExchangeInv'
      BY <2>3, QuietExchange, PTL
    <3>3. QED
      BY <3>1, <3>2
  <2>5. CASE UNCHANGED <<queue, good_age, retransmits, state, value, not_done, passfail>>
    BY <1>1, <1>2, <2>1, <2>4, <2>5
    DEF CommandInv, WasWritten, OwnReadings, OwnReading
  <2>6. CASE \E a \in Answer : /\ \E i \in 1..Len(rx) : rx[i] = Body(a, TRUE)
                               /\ GoodCrc(a)
    <3>1. PICK a \in Answer, i \in 1..Len(rx) : rx[i] = Body(a, TRUE) /\ GoodCrc(a)
      BY <2>6
    <3>2. CommandInv' /\ OwnReadings
      BY <1>2, <3>1, GoodCrcKeeps
    <3>3. QED
      BY <2>4, <3>2
  <2>7. QED
    BY <1>4, <2>5, <2>6 DEF Ends
<1>5. QED
  BY <1>1, <1>3, <1>4, PassTakes

\* A slave does what the current request says, and its answer is of that one.
LEMMA SlaveKeeps ==
  ASSUME TypeOK, InStep, SlaveAnswers
  PROVE  ExchangeInv' /\ TimerInv' /\ CommandInv' /\ OwnReadings
<1>1. /\ WireTypes /\ WriteTypes /\ ExchangeInv /\ TimerInv /\ CommandInv
  BY TypeParts DEF InStep
<1>2. bus # <<>> /\ UNCHANGED master
  BY DEF SlaveAnswers
<1>3. UNCHANGED <<queue, want_rx, send_age, rx_age, state, value, expected, not_done,
                  passfail, cmd, cmd_age>>
  BY <1>2 DEF master
<1>4. /\ bus = <<Current>> /\ NoBody(rx)
      /\ want_rx /\ send_age # RespTimeout
  BY <1>1, <1>2 DEF ExchangeInv, Quiet
<1>5. bus[1] = Current /\ bus[1] \in Request /\ Current' = Current
  BY <1>1, <1>2, <1>3, <1>4 DEF WireTypes, Current
<1>6. PICK kind \in {"done", "exception"}, ok \in BOOLEAN :
        /\ bus' = Tail(bus)
        /\ rx' = Append(rx, Header([kind |-> kind, req |-> bus[1]]))
        /\ tail' = <<Body([kind |-> kind, req |-> bus[1]], ok)>>
        /\ written' = IF kind = "done" /\ bus[1].op = "write"
                      THEN [written EXCEPT ![bus[1].reg] = bus[1].value]
                      ELSE written
  BY DEF SlaveAnswers
<1> DEFINE a == [kind |-> kind, req |-> bus[1]]
<1>7. a \in Answer /\ a.req = Current /\ a.kind = kind
  BY <1>5 DEF Answer
<1>8. rx' = Append(rx, Header(a)) /\ tail' = <<Body(a, ok)>> /\ bus' = <<>>
  BY <1>4, <1>6
<1>9. written' = IF IsWrite(a) THEN [written EXCEPT ![a.req.reg] = a.req.value]
                 ELSE written
  BY <1>6, <1>7 DEF IsWrite
<1> HIDE DEF a
<1>10. Header(a) \in Piece /\ ~IsBody(Header(a))
       /\ IsBody(Body(a, ok)) /\ Body(a, ok).ans = a
  BY <1>7, Pieces
<1>11. NoBody(rx')
  BY <1>1, <1>4, <1>8, <1>10, AppendProperties DEF WireTypes, NoBody
<1>12. Len(tail') = 1 /\ IsBody(tail'[1]) /\ tail'[1].ans = a
  BY <1>8, <1>10
<1>13. IsWrite(a) => written'[a.req.reg] = a.req.value
  <2>1. IsWrite(a) => a.req.reg \in Reg
    BY <1>5, <1>7 DEF IsWrite, Request
  <2>2. QED
    BY <1>1, <1>9, <2>1 DEF WriteTypes
<1>14. Concerns(tail[1])'
  BY <1>5, <1>7, <1>12, <1>13 DEF Concerns
<1>15. OneBody(rx') /\ \A i \in 1..Len(rx') : Concerns(rx[i])'
  BY <1>11 DEF NoBody, OneBody, Concerns
<1>16. ExchangeInv'
  BY <1>3, <1>4, <1>8, <1>11, <1>12, <1>14, <1>15 DEF ExchangeInv
<1>17. CommandInv'
  <2>1. CASE IsWrite(a)
    <3>1. queue = <<>>
      BY <1>7, <2>1 DEF IsWrite, Current
    <3>2. cmd = "waiting" /\ not_done
      BY <1>1, <1>4, <3>1 DEF CommandInv
    <3>3. QED
      BY <1>1, <1>3, <3>2 DEF CommandInv
  <2>2. CASE ~IsWrite(a)
    BY <1>1, <1>3, <1>9, <2>2 DEF CommandInv, WasWritten
  <2>3. QED
    BY <2>1, <2>2
<1>18. TimerInv' /\ OwnReadings
  BY <1>1, <1>3 DEF TimerInv, OwnReadings, OwnReading
<1>19. QED
  BY <1>16, <1>17, <1>18

\* The body follows its header: it is the only one.
LEMMA BodyKeeps ==
  ASSUME TypeOK, InStep, BodyArrives
  PROVE  ExchangeInv' /\ TimerInv' /\ CommandInv' /\ OwnReadings
<1>1. WireTypes /\ ExchangeInv /\ TimerInv /\ CommandInv
  BY TypeParts DEF InStep
<1>2. tail # <<>> /\ rx' = rx \o tail /\ tail' = <<>>
      /\ UNCHANGED <<master, bus, written>>
  BY DEF BodyArrives
<1>3. UNCHANGED <<queue, want_rx, send_age, rx_age, state, value, expected, not_done,
                  passfail, cmd, cmd_age>>
  BY <1>2 DEF master
<1>4. /\ Len(tail) = 1 /\ Concerns(tail[1]) /\ NoBody(rx)
      /\ bus = <<>> /\ want_rx /\ send_age # RespTimeout
  BY <1>1, <1>2 DEF ExchangeInv, Quiet
<1>5. /\ Len(rx') = Len(rx) + 1 /\ Len(rx) \in Nat
      /\ \A i \in 1..Len(rx) : rx'[i] = rx[i] /\ ~IsBody(rx'[i])
      /\ rx'[Len(rx) + 1] = tail[1]
  <2>1. rx \in Seq(Piece) /\ tail \in Seq(Piece) /\ Len(rx) \in Nat
    BY <1>1 DEF WireTypes
  <2>2. /\ Len(rx') = Len(rx) + 1
        /\ \A i \in 1..(Len(rx) + 1) :
             rx'[i] = IF i <= Len(rx) THEN rx[i] ELSE tail[i - Len(rx)]
    BY <1>2, <1>4, <2>1, ConcatProperties
  <2>3. rx'[Len(rx) + 1] = tail[1]
    BY <2>1, <2>2
  <2>4. \A i \in 1..Len(rx) : rx'[i] = rx[i] /\ ~IsBody(rx'[i])
    BY <1>4, <2>1, <2>2 DEF NoBody
  <2>5. QED
    BY <2>1, <2>2, <2>3, <2>4
<1>6. \A i \in 1..Len(rx') : i \in 1..Len(rx) \/ i = Len(rx) + 1
  BY <1>5
<1>7. OneBody(rx')
  BY <1>5, <1>6 DEF OneBody
<1>8. Current' = Current
  BY <1>3 DEF Current
<1>9. ASSUME NEW i \in 1..Len(rx') PROVE Concerns(rx[i])'
  <2>1. CASE i \in 1..Len(rx)
    BY <1>5, <2>1 DEF Concerns
  <2>2. CASE i = Len(rx) + 1
    BY <1>2, <1>4, <1>5, <1>8, <2>2 DEF Concerns
  <2>3. QED
    BY <1>6, <2>1, <2>2
<1>10. ExchangeInv'
  BY <1>2, <1>3, <1>4, <1>7, <1>9 DEF ExchangeInv
<1>11. TimerInv' /\ CommandInv' /\ OwnReadings
  BY <1>1, <1>2, <1>3
  DEF TimerInv, CommandInv, WasWritten, OwnReadings, OwnReading
<1>12. QED
  BY <1>10, <1>11

\* Noise and losses bring no body.
LEMMA FaultKeeps ==
  ASSUME TypeOK, InStep, LineFault
  PROVE  ExchangeInv' /\ TimerInv' /\ CommandInv' /\ OwnReadings
<1>1. WireTypes /\ ExchangeInv /\ TimerInv /\ CommandInv
  BY TypeParts DEF InStep
<1>2. UNCHANGED <<master, bus, written>>
  BY DEF LineFault
<1>3. UNCHANGED <<queue, want_rx, send_age, rx_age, state, value, expected, not_done,
                  passfail, cmd, cmd_age>>
  BY <1>2 DEF master
<1>4. TimerInv' /\ CommandInv' /\ OwnReadings
  BY <1>1, <1>2, <1>3
  DEF TimerInv, CommandInv, WasWritten, OwnReadings, OwnReading
<1>5. Current' = Current
  BY <1>3 DEF Current
<1>6. CASE UNCHANGED tail
           /\ (rx' = Append(rx, Junk) \/ (rx # <<>> /\ rx' = SubSeq(rx, 1, Len(rx) - 1)))
  <2>1. OneBody(rx') /\ \A i \in 1..Len(rx') :
          IsBody(rx'[i]) => \E j \in 1..Len(rx) : rx[j] = rx'[i]
    <3>0. rx \in Seq(Piece) /\ OneBody(rx)
      BY <1>1 DEF WireTypes, ExchangeInv
    <3>1. CASE rx' = Append(rx, Junk)
      <4>1. Junk \in Piece /\ ~IsBody(Junk)
        BY Pieces
      <4>2. /\ Len(rx') = Len(rx) + 1 /\ Len(rx) \in Nat
            /\ \A i \in 1..Len(rx) : rx'[i] = rx[i]
            /\ rx'[Len(rx) + 1] = Junk
        BY <3>0, <3>1, <4>1, AppendProperties
      <4>3. \A i \in 1..Len(rx') : i \in 1..Len(rx) \/ i = Len(rx) + 1
        BY <4>2
      <4>4. OneBody(rx')
        BY <3>0, <4>1, <4>2, <4>3 DEF OneBody
      <4>5. QED
        BY <4>1, <4>2, <4>3, <4>4
    <3>2. CASE rx # <<>> /\ rx' = SubSeq(rx, 1, Len(rx) - 1)
      <4>1. 1 \in Nat \ {0} /\ Len(rx) - 1 \in 0..Len(rx)
        BY <3>0, <3>2
      <4>2. QED
        BY <3>0, <3>2, <4>1, PartOf
    <3>3. QED
      BY <1>6, <3>1, <3>2
  <2>2. ExchangeInv'
    BY <1>1, <1>2, <1>3, <1>5, <1>6, <2>1, SameExchange
  <2>3. QED
    BY <1>4, <2>2
<1>7. CASE tail # <<>> /\ tail' = <<>> /\ UNCHANGED rx
  <2>1. bus = <<>>
    BY <1>1, <1>7 DEF ExchangeInv
  <2>2. NoBody(rx)
    BY <1>1, <1>7 DEF ExchangeInv
  <2>3. Quiet'
    BY <1>2, <1>7, <2>1, <2>2 DEF Quiet
  <2>4. ExchangeInv'
    BY <2>3, QuietExchange, PTL
  <2>5. QED
    BY <1>4, <2>4
<1>8. QED
  BY <1>6, <1>7 DEF LineFault

\* When the time of a request is over and no answer comes late, nothing of it is left.
LEMMA TickKeeps ==
  ASSUME TypeOK, InStep, Tick, slip = "none", slip' = "none"
  PROVE  ExchangeInv' /\ TimerInv' /\ CommandInv' /\ OwnReadings
<1>1. /\ AgeTypes /\ WireTypes /\ ExchangeInv /\ TimerInv /\ CommandInv
  BY TypeParts DEF InStep
<1>2. UNCHANGED <<queue, want_rx, state, value, expected, not_done, passfail, cmd, rx,
                  written>>
  BY DEF Tick
<1>3. /\ send_age' = Older(send_age, RespTimeout)
      /\ rx_age' = IF rx_age = NoTimer THEN NoTimer ELSE Older(rx_age, RespTimeout)
      /\ cmd_age' = Older(cmd_age, RespTimeout)
  BY DEF Tick
<1>4. TimerInv'
  BY <1>1, <1>2, <1>3, ModbusAssumption DEF TimerInv, Older, AgeTypes
<1>5. CommandInv'
  BY <1>1, <1>2, <1>3, ModbusAssumption
  DEF CommandInv, WasWritten, Older, AgeTypes
<1>6. OwnReadings
  BY <1>1, <1>2 DEF OwnReadings, OwnReading
<1>7. (bus' = bus /\ tail' = tail) \/ (bus' = <<>> /\ tail' = <<>>)
  BY DEF Tick
<1>8. NoBody(rx)
  <2>1. CASE ~want_rx
    BY <1>1, <2>1 DEF ExchangeInv, Quiet
  <2>2. CASE want_rx /\ head # Nothing
    BY <2>2 DEF Tick, MainLoopIdle, HasBody, NoBody
  <2>3. CASE want_rx /\ head = Nothing
    <3>1. rx = <<>> \/ rx = <<Junk>>
      BY <2>3 DEF Tick, MainLoopIdle
    <3>2. QED
      BY <3>1, Pieces, EmptySeq DEF NoBody
  <2>4. QED
    BY <2>1, <2>2, <2>3
<1>9. CASE bus' = <<>> /\ tail' = <<>>
  <2>1. Quiet'
    BY <1>2, <1>8, <1>9 DEF Quiet
  <2>2. ExchangeInv'
    BY <2>1, QuietExchange, PTL
  <2>3. QED
    BY <1>4, <1>5, <1>6, <2>2
<1>10. CASE bus' = bus /\ tail' = tail /\ send_age' # RespTimeout
  <2>1. Current' = Current
    BY <1>2 DEF Current
  <2>2. OneBody(rx') /\ \A i \in 1..Len(rx') :
          IsBody(rx'[i]) => \E j \in 1..Len(rx) : rx[j] = rx'[i]
    BY <1>1, <1>2 DEF ExchangeInv
  <2>3. ExchangeInv'
    BY <1>1, <1>2, <1>10, <2>1, <2>2, SameExchange
  <2>4. QED
    BY <1>4, <1>5, <1>6, <2>3
<1>11. send_age' = RespTimeout => bus' = <<>> /\ tail' = <<>>
  <2> SUFFICES ASSUME send_age' = RespTimeout, bus' # <<>> \/ tail' # <<>> PROVE FALSE
    BY Zenon
  <2>1. bus' = bus /\ tail' = tail /\ ~Late
    BY DEF Tick
  <2>2. send_age = RespTimeout
    BY <1>1, <1>3, <2>1, ModbusAssumption DEF Late, Older, AgeTypes
  <2>3. QED
    BY <1>1, <2>1, <2>2 DEF ExchangeInv, Quiet
<1>12. QED
  BY <1>7, <1>9, <1>10, <1>11

\* A bus at rest is in step again.
LEMMA RestKeeps ==
  ASSUME TypeOK, TimerRuns, Tick, slip # "none", slip' = "none"
  PROVE  InStep'
<1>1. AtRest /\ UNCHANGED <<bus, tail>>
  BY DEF Tick
<1>2. /\ UNCHANGED <<want_rx, cmd, rx>> /\ MainLoopIdle
      /\ rx_age' = IF rx_age = NoTimer THEN NoTimer ELSE Older(rx_age, RespTimeout)
  BY DEF Tick
<1>3. ~want_rx' /\ cmd' # "waiting" /\ bus' = <<>> /\ tail' = <<>>
  BY <1>1, <1>2 DEF AtRest
<1>4. rx' = <<>> /\ NoBody(rx')
  BY <1>1, <1>2, EmptySeq DEF AtRest, MainLoopIdle, NoBody
<1>5. Quiet'
  BY <1>3, <1>4 DEF Quiet
<1>6. ExchangeInv'
  BY <1>5, QuietExchange, PTL
<1>7. rx_age' = NoTimer
  BY <1>1, <1>2 DEF AtRest, TimerRuns
<1>8. QED
  BY <1>3, <1>6, <1>7 DEF InStep, TimerInv, CommandInv

\* In step or not, the timer runs only while a reply is awaited.
LEMMA TimerRunsStep == ASSUME TypeOK, TimerRuns, [Next]_vars PROVE TimerRuns'
<1>1. CASE \E r \in Reg : StartRead(r)
  BY <1>1 DEF StartRead, DoStartRead, Transmit, TimerRuns
<1>2. CASE \E r \in Reg, v \in Value : SetReg(r, v)
  <2>1. want_rx' = TRUE
    BY <1>2, Zenon DEF SetReg, Transmit
  <2>2. QED
    BY <2>1 DEF TimerRuns
<1>3. CASE SetReturns \/ SlaveAnswers \/ BodyArrives \/ LineFault \/ UNCHANGED vars
  <2>1. UNCHANGED <<want_rx, rx_age>>
    BY <1>3 DEF SetReturns, SlaveAnswers, BodyArrives, LineFault, vars, master
  <2>2. QED
    BY <2>1 DEF TimerRuns
<1>4. CASE IdlePass
  <2>1. rx_age' = NoTimer
    BY <1>4 DEF IdlePass, TimerRuns
  <2>2. QED
    BY <2>1 DEF TimerRuns
<1>5. CASE TimeoutPass
  BY <1>5 DEF TimeoutPass, TimerRuns
<1>6. CASE FewBytesPass
  BY <1>6 DEF FewBytesPass, TimerRuns
<1>7. CASE NoisePass \/ HeaderPass \/ BodyPass
  <2>1. want_rx /\ (NothingEnds \/ Ends)
    BY <1>7, PassTakes
  <2>2. CASE NothingEnds
    BY <2>1, <2>2 DEF NothingEnds, TimerRuns
  <2>3. CASE Ends
    BY <2>3, Zenon DEF Ends, TimerRuns
  <2>4. QED
    BY <2>1, <2>2, <2>3
<1>8. CASE Tick
  <2>1. UNCHANGED want_rx /\ (rx_age = NoTimer => rx_age' = NoTimer)
    BY <1>8 DEF Tick
  <2>2. QED
    BY <2>1 DEF TimerRuns
<1>9. QED
  BY <1>1, <1>2, <1>3, <1>4, <1>5, <1>6, <1>7, <1>8 DEF Next, Process

\* Once out of step, only a tick puts the bus back in step.
LEMMA OnlyRestHeals ==
  ASSUME TypeOK, [Next]_vars, slip # "none", slip' = "none"
  PROVE  Tick
<1>1. CASE \E r \in Reg : StartRead(r)
  BY <1>1 DEF StartRead, Slip
<1>2. CASE \E r \in Reg, v \in Value : SetReg(r, v)
  BY <1>2 DEF SetReg
<1>3. CASE SetReturns \/ SlaveAnswers \/ BodyArrives \/ LineFault \/ UNCHANGED vars
  BY <1>3 DEF SetReturns, SlaveAnswers, BodyArrives, LineFault, vars
<1>4. CASE IdlePass \/ TimeoutPass \/ FewBytesPass
  BY <1>4 DEF IdlePass, TimeoutPass, FewBytesPass, cmdvars
<1>5. CASE NoisePass \/ HeaderPass \/ BodyPass
  BY <1>5, PassTakes
<1>6. QED
  BY <1>1, <1>2, <1>3, <1>4, <1>5 DEF Next, Process

\* A step that stays in step keeps what holds there, and lands no reading of another
\* register.
LEMMA InStepStep ==
  ASSUME TypeOK, InStep, [Next]_vars, slip = "none", slip' = "none"
  PROVE  InStep' /\ OwnReadings
<1>1. AgeTypes /\ ExchangeInv /\ TimerInv /\ CommandInv
  BY TypeParts DEF InStep
<1>2. SUFFICES ExchangeInv' /\ TimerInv' /\ CommandInv' /\ OwnReadings
  BY DEF InStep
<1>3. CASE FewBytesPass
  <2>1. want_rx /\ rx_age' = 0
        /\ UNCHANGED <<queue, want_rx, send_age, state, value, expected, not_done,
                       passfail, rx, bus, cmdvars>>
    BY <1>3 DEF FewBytesPass
  <2>2. QED
    BY <1>1, <2>1
    DEF ExchangeInv, Quiet, NoBody, OneBody, Concerns, Current, TimerInv, AgeTypes,
        CommandInv, WasWritten, OwnReadings, OwnReading, cmdvars
<1>4. CASE UNCHANGED vars
  BY <1>1, <1>4
  DEF ExchangeInv, Quiet, NoBody, OneBody, Concerns, Current, TimerInv,
      CommandInv, WasWritten, OwnReadings, OwnReading, vars, master, wire
<1>5. CASE ~FewBytesPass /\ ~UNCHANGED vars
  BY <1>5, StartReadKeeps, SetRegKeeps, SetReturnsKeeps, IdlePassKeeps,
     TimeoutPassKeeps, TakesKeeps, SlaveKeeps, BodyKeeps, FaultKeeps, TickKeeps
  DEF Next, Process
<1>6. QED
  BY <1>3, <1>4, <1>5

\* A step that falls out of step lands no reading: it is a read or a tick.
LEMMA SlipLandsNothing ==
  ASSUME TypeOK, [Next]_vars, slip = "none", slip' # "none"
  PROVE  OwnReadings /\ cmd' = cmd
<1>1. RegTypes
  BY TypeParts
<1>2. CASE \E r \in Reg : StartRead(r)
  <2>1. PICK r \in Reg : StartRead(r)
    BY <1>2
  <2>2. UNCHANGED <<value, cmd>> /\ state' = [state EXCEPT ![r] = "WAITING"]
    BY <2>1 DEF StartRead, DoStartRead
  <2>3. QED
    BY <1>1, <2>2 DEF OwnReadings, OwnReading, RegTypes
<1>3. CASE Tick
  BY <1>3 DEF Tick, OwnReadings, OwnReading
<1>4. CASE \E r \in Reg, v \in Value : SetReg(r, v)
  BY <1>4 DEF SetReg
<1>5. CASE SetReturns \/ SlaveAnswers \/ BodyArrives \/ LineFault \/ UNCHANGED vars
  BY <1>5 DEF SetReturns, SlaveAnswers, BodyArrives, LineFault, vars
<1>6. CASE IdlePass \/ TimeoutPass \/ FewBytesPass
  BY <1>6 DEF IdlePass, TimeoutPass, FewBytesPass, cmdvars
<1>7. CASE NoisePass \/ HeaderPass \/ BodyPass
  BY <1>7, PassTakes
<1>8. QED
  BY <1>2, <1>3, <1>4, <1>5, <1>6, <1>7 DEF Next, Process

\* Every step keeps the invariant.
LEMMA ModbusInvStep == ASSUME ModbusInv, [Next]_vars PROVE ModbusInv'
<1>1. TypeOK /\ TimerRuns /\ TypeOK' /\ TimerRuns'
  BY TypeStep, TimerRunsStep DEF ModbusInv
<1>2. ASSUME slip' = "none" PROVE InStep'
  <2>1. CASE slip = "none"
    BY <1>1, <1>2, <2>1, InStepStep DEF ModbusInv
  <2>2. CASE slip # "none"
    BY <1>1, <1>2, <2>2, OnlyRestHeals, RestKeeps
  <2>3. QED
    BY <2>1, <2>2
<1>3. QED
  BY <1>1, <1>2 DEF ModbusInv

\* The invariant holds at the start.
LEMMA ModbusInvInit == Init => ModbusInv
<1> SUFFICES ASSUME Init PROVE ModbusInv
  OBVIOUS
<1>1. /\ QueueTypes /\ AgeTypes /\ RegTypes /\ WriteTypes /\ HeadType /\ CountTypes
  BY ModbusAssumption, EmptySeq
  DEF Init, QueueTypes, AgeTypes, RegTypes, WriteTypes, HeadType, CountTypes
<1>2. FlagTypes
  BY DEF Init, FlagTypes
<1>3. WireTypes
  BY EmptySeq DEF Init, WireTypes
<1>4. Quiet /\ queue = <<>> /\ ~want_rx /\ rx_age = NoTimer /\ cmd = "none"
  BY EmptySeq DEF Init, Quiet, NoBody
<1>5. ExchangeInv
  BY <1>4, QuietExchange
<1>6. TimerInv /\ CommandInv
  BY <1>4 DEF TimerInv, CommandInv
<1>7. TimerRuns
  BY <1>4 DEF TimerRuns
<1>8. QED
  BY <1>1, <1>2, <1>3, <1>5, <1>6, <1>7, TypeParts DEF ModbusInv, InStep

\* The invariant holds in every state of the specification.
LEMMA ModbusAlways == Spec => []ModbusInv
BY ModbusInvInit, ModbusInvStep, PTL DEF Spec

\* A reading that lands in a register is of that register (modbus_uart_ring_in_process
\* takes every reply for the head of the queue), as long as replies are in step with
\* requests, and again when the bus has been at rest.
THEOREM ModbusReadingsAreOwn == Spec => ReadingsAreOwn
<1>1. ASSUME ModbusInv, [Next]_vars PROVE slip = "none" => OwnReadings
  <2>1. TypeOK /\ (slip = "none" => InStep)
    BY <1>1 DEF ModbusInv
  <2>2. QED
    BY <1>1, <2>1, InStepStep, SlipLandsNothing
<1>2. ModbusInv /\ [Next]_vars => [slip = "none" => OwnReadings]_vars
  BY <1>1
<1>3. QED
  BY <1>2, ModbusAlways, PTL DEF Spec, ReadingsAreOwn, OwnReadings

\* "Successfully set" is printed only for a value that the slave has taken
\* (_modbus_set_reg_cb), in step again.
THEOREM ModbusSuccess == Spec => SuccessMeansWritten
<1> DEFINE A == slip = "none" /\ cmd = "waiting" /\ cmd' = "success"
                  => written[expected.reg] = expected.value
<1>1. ASSUME ModbusInv, [Next]_vars PROVE A
  <2> SUFFICES ASSUME slip = "none", cmd = "waiting", cmd' = "success"
               PROVE  written[expected.reg] = expected.value
    BY Zenon
  <2>1. TypeOK /\ CommandInv
    BY <1>1 DEF ModbusInv, InStep
  <2>2. CASE SetReturns
    BY <2>1, <2>2 DEF SetReturns, CommandInv, WasWritten
  <2>3. CASE NoisePass \/ HeaderPass \/ BodyPass
    BY <2>1, <2>3, PassTakes
  <2>4. CASE \/ \E r \in Reg : StartRead(r)
             \/ \E r \in Reg, v \in Value : SetReg(r, v)
    BY <2>4 DEF StartRead, SetReg
  <2>5. CASE \/ IdlePass \/ TimeoutPass \/ FewBytesPass
             \/ SlaveAnswers \/ BodyArrives \/ LineFault \/ Tick \/ UNCHANGED vars
    BY <2>5 DEF IdlePass, TimeoutPass, FewBytesPass, SlaveAnswers, BodyArrives, LineFault,
       Tick, cmdvars, vars, master
  <2>6. QED
    BY <1>1, <2>2, <2>3, <2>4, <2>5 DEF Next, Process
<1>2. ModbusInv /\ [Next]_vars => [A]_vars
  BY <1>1
<1>3. QED
  BY <1>2, ModbusAlways, PTL DEF Spec, SuccessMeansWritten

\* Every variable of the master, of the line and of the slaves has its type, in step
\* or not.
THEOREM ModbusTypes == Spec => []TypeOK
BY ModbusAlways, PTL DEF ModbusInv

-----------------------------------------------------------------------------
(* The value of a register: division, words and bytes.                    *)

\* What division gives.
LEMMA Divides ==
  ASSUME NEW b \in Nat \ {0}, NEW v \in Int
  PROVE  \E q \in Int, r \in 0..(b - 1) : v \div b = q /\ v % b = r /\ v = b * q + r
<1>1. PICK q \in Int : q = v \div b
  OBVIOUS
<1>2. PICK r \in 0..(b - 1) : r = v % b
  OBVIOUS
<1>3. b \in Int /\ b > 0 /\ r \in Int
  OBVIOUS
<1>4. v = b * q + r
  BY <1>1, <1>2, <1>3, Z3
<1> QED BY <1>1, <1>2, <1>4, Zenon

\* There is one way to divide.
LEMMA DividesOnce ==
  ASSUME NEW b \in Nat \ {0}, NEW v \in Int, NEW q \in Int, NEW r \in 0..(b - 1), v = b * q + r
  PROVE  v \div b = q /\ v % b = r
<1>1. b \in Int /\ b > 0 /\ r \in Int /\ 0 <= r /\ r < b
  OBVIOUS
<1>2. v \div b = q
  BY <1>1, Z3
<1>3. v % b = r
  BY <1>1, Z3
<1> QED BY <1>2, <1>3

\* Of what is below a product the quotient is below a factor.
LEMMA DividesBelow ==
  ASSUME NEW b \in Nat \ {0}, NEW c \in Nat \ {0}, NEW v \in 0..(b * c - 1)
  PROVE  \E q \in 0..(c - 1), r \in 0..(b - 1) : v \div b = q /\ v % b = r /\ v = b * q + r
<1>0. v \in Int /\ 0 <= v /\ v < b * c /\ b \in Int /\ b > 0 /\ c \in Int
  OBVIOUS
<1>1. PICK q \in Int, r \in 0..(b - 1) : v \div b = q /\ v % b = r /\ v = b * q + r
  BY <1>0, Divides, Zenon
<1>2. r \in Int /\ 0 <= r /\ r < b
  BY <1>1
<1>3. 0 <= q
  <2> SUFFICES ASSUME q <= -1 PROVE FALSE
    OBVIOUS
  <2>1. b * q <= -b
    BY <1>0, Z3
  <2>2. b * q \in Int
    BY <1>0
  <2>3. v < 0
    BY <1>0, <1>1, <1>2, <2>1, <2>2, Z3
  <2> QED BY <1>0, <2>3
<1>4. q < c
  <2> SUFFICES ASSUME c <= q PROVE FALSE
    BY <1>0
  <2>1. b * c <= b * q
    BY <1>0, Z3
  <2>2. b * c <= v
    BY <1>0, <1>1, <1>2, <2>1, Z3
  <2> QED BY <1>0, <2>2
<1>5. q \in 0..(c - 1)
  BY <1>0, <1>3, <1>4
<1> QED BY <1>1, <1>5, Zenon

\* Bytes, words and the 32 bits.
LEMMA Sizes ==
  /\ Byte \in Nat \ {0} /\ Word \in Nat \ {0} /\ Long \in Nat \ {0}
  /\ HalfWord \in Nat \ {0} /\ HalfLong \in Nat \ {0}
  /\ Word = Byte * Byte /\ Long = Word * Word /\ Word = 2 * HalfWord /\ Long = 2 * HalfLong
  /\ Word <= Long
<1>1. HalfByte \in Nat \ {0} /\ Byte \in Nat \ {0} /\ Byte = 2 * HalfByte
  BY ModbusValueAssumption DEF Byte
<1>2. HalfWord \in Nat \ {0} /\ HalfWord = HalfByte * Byte
  BY <1>1, Z3 DEF HalfWord
<1>3. Word = Byte * Byte
  BY DEF Word
<1>4. Byte * Byte = 2 * (HalfByte * Byte)
  BY <1>1, Z3
<1>5. Word = 2 * HalfWord /\ Word \in Nat \ {0}
  BY <1>2, <1>3, <1>4
<1>6. HalfLong = HalfWord * Word /\ HalfLong \in Nat \ {0}
  BY <1>2, <1>5, Z3 DEF HalfLong
<1>7. Long = Word * Word
  BY DEF Long
<1>8. Word * Word = 2 * (HalfWord * Word)
  BY <1>2, <1>5, Z3
<1>9. Word <= Word * Word
  BY <1>5, Z3
<1>10. Long = 2 * HalfLong /\ Long \in Nat \ {0} /\ Word <= Long
  BY <1>5, <1>6, <1>7, <1>8, <1>9
<1> QED BY <1>1, <1>2, <1>3, <1>5, <1>6, <1>7, <1>10

\* A number of 32 bits is two words.
LEMMA Parts ==
  ASSUME NEW v \in 0..(Long - 1)
  PROVE  \E h, l \in 0..(Word - 1) : v \div Word = h /\ v % Word = l /\ v = h * Word + l
<1>0. Word \in Nat \ {0} /\ Word \in Int /\ Long = Word * Word
  BY Sizes
<1>1. PICK h \in 0..(Word - 1), l \in 0..(Word - 1) :
          v \div Word = h /\ v % Word = l /\ v = Word * h + l
  BY <1>0, DividesBelow
<1>2. h \in Int /\ l \in Int
  BY <1>0
<1>3. Word * h = h * Word
  BY <1>0, <1>2, Z3
<1> QED BY <1>1, <1>3, Zenon

\* A word is two bytes.
LEMMA WordParts ==
  ASSUME NEW w \in 0..(Word - 1)
  PROVE  \E h, l \in 0..(Byte - 1) : w \div Byte = h /\ w % Byte = l /\ w = h * Byte + l
<1>0. Byte \in Nat \ {0} /\ Byte \in Int /\ Word = Byte * Byte
  BY Sizes
<1>1. PICK h \in 0..(Byte - 1), l \in 0..(Byte - 1) :
          w \div Byte = h /\ w % Byte = l /\ w = Byte * h + l
  BY <1>0, DividesBelow
<1>2. h \in Int /\ l \in Int
  BY <1>0
<1>3. Byte * h = h * Byte
  BY <1>0, <1>2, Z3
<1> QED BY <1>1, <1>3, Zenon

\* A word is itself as a word and as 32 bits.
LEMMA WordFits ==
  ASSUME NEW w \in 0..(Word - 1)
  PROVE  w \in Int /\ w % Word = w /\ w % Long = w
<1>0. Word \in Nat \ {0} /\ Long \in Nat \ {0} /\ Word <= Long
  BY Sizes
<1>1. w \in Int /\ w = Word * 0 + w /\ w = Long * 0 + w /\ w \in 0..(Long - 1)
  BY <1>0
<1> QED BY <1>0, <1>1, DividesOnce

\* The low word of a number is that of its 32 bits.
LEMMA LowWord ==
  ASSUME NEW x \in Int
  PROVE  (x % Long) % Word = x % Word /\ x % Long \in 0..(Long - 1) /\ x % Word \in 0..(Word - 1)
<1>0. Word \in Nat \ {0} /\ Long \in Nat \ {0} /\ Long = Word * Word /\ Word \in Int
  BY Sizes
<1>1. PICK q \in Int, v \in 0..(Long - 1) : x \div Long = q /\ x % Long = v /\ x = Long * q + v
  BY <1>0, Divides
<1>2. PICK h \in 0..(Word - 1), l \in 0..(Word - 1) :
          v \div Word = h /\ v % Word = l /\ v = h * Word + l
  BY Parts
<1>3. h \in Int /\ l \in Int /\ Word * q + h \in Int
  BY <1>0
<1>4. x = Word * (Word * q + h) + l
  BY <1>0, <1>1, <1>2, <1>3, Z3
<1>5. x % Word = l
  BY <1>0, <1>3, <1>4, DividesOnce
<1> QED BY <1>1, <1>2, <1>5

\* The bytes of the powers are those of the words.
LEMMA PowersAre ==
  ASSUME NEW v \in 0..(Long - 1)
  PROVE  /\ Power(v, 0) = (v % Word) % Byte /\ Power(v, 1) = (v % Word) \div Byte
         /\ Power(v, 2) = (v \div Word) % Byte /\ Power(v, 3) = (v \div Word) \div Byte
<1>0. /\ Byte \in Nat \ {0} /\ Word \in Nat \ {0} /\ Word = Byte * Byte /\ Long \in Nat \ {0}
      /\ Byte \in Int /\ Word \in Int
  BY Sizes
<1>1. PICK h \in 0..(Word - 1), l \in 0..(Word - 1) :
          v \div Word = h /\ v % Word = l /\ v = h * Word + l
  BY Parts
<1>2. PICK h1 \in 0..(Byte - 1), h0 \in 0..(Byte - 1) :
          h \div Byte = h1 /\ h % Byte = h0 /\ h = h1 * Byte + h0
  BY WordParts
<1>3. PICK l1 \in 0..(Byte - 1), l0 \in 0..(Byte - 1) :
          l \div Byte = l1 /\ l % Byte = l0 /\ l = l1 * Byte + l0
  BY WordParts
<1>4. h \in Int /\ l \in Int /\ h1 \in Int /\ h0 \in Int /\ l1 \in Int /\ l0 \in Int /\ v \in Int
  BY <1>0, Sizes
<1>5. PICK u \in Int : u = Byte * h + l1
  BY <1>0, <1>4
<1>6. v = Byte * u + l0
  BY <1>0, <1>1, <1>3, <1>4, <1>5, Z3
<1>7. v % Byte = l0 /\ v \div Byte = u
  BY <1>0, <1>4, <1>6, DividesOnce
<1>8. u % Byte = l1
  BY <1>0, <1>4, <1>5, DividesOnce
<1>9. PICK c \in Nat \ {0} : c = Word * Byte
  <2>1. Word * Byte \in Int /\ Word * Byte > 0
    BY <1>0, Z3
  <2> QED BY <2>1
<1>10. PICK r \in Int : r = Word * h0 + l
  BY <1>0, <1>4
<1>11. v = c * h1 + r
  BY <1>0, <1>1, <1>2, <1>4, <1>9, <1>10, Z3
<1>12. r \in 0..(c - 1)
  <2>1. h0 <= Byte - 1 /\ 0 <= h0 /\ l < Word /\ 0 <= l /\ 0 < Word
    BY <1>0
  <2>2. Word * h0 >= 0 /\ Word * h0 <= Word * (Byte - 1)
    BY <1>0, <1>4, <2>1, Z3
  <2>3. Word * (Byte - 1) = c - Word
    BY <1>0, <1>9, Z3
  <2>4. 0 <= r /\ r < c
    BY <1>0, <1>4, <1>10, <2>1, <2>2, <2>3, Z3
  <2> QED BY <2>4
<1>13. v \div c = h1
  BY <1>4, <1>11, <1>12, DividesOnce
<1>14. Power(v, 0) = v % Byte /\ Power(v, 1) = (v \div Byte) % Byte
       /\ Power(v, 2) = (v \div Word) % Byte /\ Power(v, 3) = v \div (Word * Byte)
  BY DEF Power
<1>15. Power(v, 0) = l0 /\ Power(v, 1) = l1
  BY <1>7, <1>8, <1>14, Zenon
<1>16. Power(v, 2) = h0
  BY <1>1, <1>2, <1>14, Zenon
<1>17. Power(v, 3) = h1
  BY <1>9, <1>13, <1>14, Zenon
<1>18. (v % Word) % Byte = l0 /\ (v % Word) \div Byte = l1
  BY <1>1, <1>3, Zenon
<1>19. (v \div Word) % Byte = h0 /\ (v \div Word) \div Byte = h1
  BY <1>1, <1>2, Zenon
<1> QED BY <1>15, <1>16, <1>17, <1>18, <1>19, Zenon

-----------------------------------------------------------------------------
(* Words and their bytes.                                                  *)

\* The bytes AppendU16 gives are a word's two, in either order.
LEMMA OrderSmall ==
  ASSUME NEW r \in Register, r.type \in Small, NEW m \in Int
  PROVE  InOrder(m, r) = AppendU16(m % Word, r)
<1>0. r.type \notin Large
  BY DEF Large, Small
<1>1. PICK v \in 0..(Long - 1) : v = m % Long
  BY LowWord
<1>2. PICK w \in 0..(Word - 1) : w = m % Word
  BY LowWord
<1>3. v % Word = w
  BY <1>1, <1>2, LowWord
<1>4. PICK p0, p1 : p0 = Power(v, 0) /\ p1 = Power(v, 1)
  OBVIOUS
<1>5. p0 = w % Byte /\ p1 = w \div Byte
  <2>1. Power(v, 0) = (v % Word) % Byte /\ Power(v, 1) = (v % Word) \div Byte
    BY PowersAre
  <2> QED BY <1>3, <1>4, <2>1, Zenon
<1>6. r.bytes = "MSB" \/ (r.bytes = "LSB" /\ r.bytes # "MSB")
  BY DEF Register
<1>7. CASE r.bytes = "MSB"
  <2>1. InOrder(m, r) = <<p1, p0>>
    BY <1>0, <1>1, <1>4, <1>7 DEF InOrder
  <2>2. AppendU16(m % Word, r) = <<w \div Byte, w % Byte>>
    BY <1>2, <1>7, Zenon DEF AppendU16
  <2> QED BY <1>5, <2>1, <2>2, Zenon
<1>8. CASE r.bytes = "LSB" /\ r.bytes # "MSB"
  <2>1. InOrder(m, r) = <<p0, p1>>
    BY <1>0, <1>1, <1>4, <1>8 DEF InOrder
  <2>2. AppendU16(m % Word, r) = <<w % Byte, w \div Byte>>
    BY <1>2, <1>8, Zenon DEF AppendU16
  <2> QED BY <1>5, <2>1, <2>2, Zenon
<1> QED BY <1>6, <1>7, <1>8

\* And those of AppendU32 the four of 32 bits.
LEMMA OrderLarge ==
  ASSUME NEW r \in Register, r.type \in Large, NEW m \in Int
  PROVE  InOrder(m, r) = AppendU32(m % Long, r)
<1>0. r.type \notin Small
  BY DEF Large, Small
<1>1. PICK v \in 0..(Long - 1) : v = m % Long
  BY LowWord
<1>2. PICK p0, p1, p2, p3 : p0 = Power(v, 0) /\ p1 = Power(v, 1) /\ p2 = Power(v, 2) /\ p3 = Power(v, 3)
  OBVIOUS
<1>3. /\ p0 = (v % Word) % Byte /\ p1 = (v % Word) \div Byte
      /\ p2 = (v \div Word) % Byte /\ p3 = (v \div Word) \div Byte
  BY <1>2, PowersAre, Zenon
<1>4. /\ r.bytes = "MSB" \/ (r.bytes = "LSB" /\ r.bytes # "MSB")
      /\ r.words = "MSW" \/ (r.words = "LSW" /\ r.words # "MSW")
  BY DEF Register
<1>5. CASE r.bytes = "MSB" /\ r.words = "MSW"
  <2>1. InOrder(m, r) = <<p3, p2, p1, p0>>
    BY <1>0, <1>1, <1>2, <1>5 DEF InOrder
  <2>2. AppendU16(v \div Word, r) = <<p3, p2>> /\ AppendU16(v % Word, r) = <<p1, p0>>
    BY <1>3, <1>5, Zenon DEF AppendU16
  <2>3. AppendU32(v, r) = Both(<<p3, p2>>, <<p1, p0>>)
    BY <1>5, <2>2, Zenon DEF AppendU32
  <2> QED BY <1>1, <2>1, <2>3 DEF Both
<1>6. CASE r.bytes = "LSB" /\ r.bytes # "MSB" /\ r.words = "MSW"
  <2>1. InOrder(m, r) = <<p2, p3, p0, p1>>
    BY <1>0, <1>1, <1>2, <1>6 DEF InOrder
  <2>2. AppendU16(v \div Word, r) = <<p2, p3>> /\ AppendU16(v % Word, r) = <<p0, p1>>
    BY <1>3, <1>6, Zenon DEF AppendU16
  <2>3. AppendU32(v, r) = Both(<<p2, p3>>, <<p0, p1>>)
    BY <1>6, <2>2, Zenon DEF AppendU32
  <2> QED BY <1>1, <2>1, <2>3 DEF Both
<1>7. CASE r.bytes = "MSB" /\ r.words = "LSW" /\ r.words # "MSW"
  <2>1. InOrder(m, r) = <<p1, p0, p3, p2>>
    BY <1>0, <1>1, <1>2, <1>7 DEF InOrder
  <2>2. AppendU16(v \div Word, r) = <<p3, p2>> /\ AppendU16(v % Word, r) = <<p1, p0>>
    BY <1>3, <1>7, Zenon DEF AppendU16
  <2>3. AppendU32(v, r) = Both(<<p1, p0>>, <<p3, p2>>)
    BY <1>7, <2>2, Zenon DEF AppendU32
  <2> QED BY <1>1, <2>1, <2>3 DEF Both
<1>8. CASE r.bytes = "LSB" /\ r.bytes # "MSB" /\ r.words = "LSW" /\ r.words # "MSW"
  <2>1. InOrder(m, r) = <<p0, p1, p2, p3>>
    BY <1>0, <1>1, <1>2, <1>8 DEF InOrder
  <2>2. AppendU16(v \div Word, r) = <<p2, p3>> /\ AppendU16(v % Word, r) = <<p0, p1>>
    BY <1>3, <1>8, Zenon DEF AppendU16
  <2>3. AppendU32(v, r) = Both(<<p0, p1>>, <<p2, p3>>)
    BY <1>8, <2>2, Zenon DEF AppendU32
  <2> QED BY <1>1, <2>1, <2>3 DEF Both
<1> QED BY <1>4, <1>5, <1>6, <1>7, <1>8, Zenon

\* The two bytes of a word give the word.
LEMMA SmallBack ==
  ASSUME NEW r \in Register, NEW w \in 0..(Word - 1)
  PROVE  DataToU16(AppendU16(w, r)[1], AppendU16(w, r)[2], r) = w
<1>1. PICK h \in 0..(Byte - 1), l \in 0..(Byte - 1) :
          w \div Byte = h /\ w % Byte = l /\ w = h * Byte + l
  BY WordParts
<1>2. AppendU16(w, r) = IF r.bytes = "MSB" THEN <<h, l>> ELSE <<l, h>>
  BY <1>1, Zenon DEF AppendU16
<1>3. PICK n \in Int : n = h * Byte + l
  BY Sizes, <1>1
<1>4. DataToU16(AppendU16(w, r)[1], AppendU16(w, r)[2], r) = h * Byte + l
  BY <1>2 DEF DataToU16
<1> QED BY <1>1, <1>4, Zenon

\* The four bytes of 32 bits give the 32 bits.
LEMMA LargeBack ==
  ASSUME NEW r \in Register, NEW v \in 0..(Long - 1)
  PROVE  DataToU32(AppendU32(v, r), r) = v
<1>1. PICK h \in 0..(Word - 1), l \in 0..(Word - 1) :
          v \div Word = h /\ v % Word = l /\ v = h * Word + l
  BY Parts
<1>2. PICK a, b : a = AppendU16(h, r) /\ b = AppendU16(l, r)
  OBVIOUS
<1>3. DataToU16(a[1], a[2], r) = h /\ DataToU16(b[1], b[2], r) = l
  BY <1>2, SmallBack, Zenon
<1>4. AppendU32(v, r) = IF r.words = "MSW" THEN Both(a, b) ELSE Both(b, a)
  BY <1>1, <1>2, Zenon DEF AppendU32
<1>5. CASE r.words = "MSW"
  <2>1. PICK d : d = AppendU32(v, r)
    OBVIOUS
  <2>2. d[1] = a[1] /\ d[2] = a[2] /\ d[3] = b[1] /\ d[4] = b[2]
    BY <1>4, <1>5, <2>1 DEF Both
  <2>3. DataToU32(d, r) = h * Word + l
    BY <1>3, <1>5, <2>2, Zenon DEF DataToU32
  <2> QED BY <1>1, <2>1, <2>3, Zenon
<1>6. CASE r.words # "MSW"
  <2>1. PICK d : d = AppendU32(v, r)
    OBVIOUS
  <2>2. d[1] = b[1] /\ d[2] = b[2] /\ d[3] = a[1] /\ d[4] = a[2]
    BY <1>4, <1>6, <2>1 DEF Both
  <2>3. DataToU32(d, r) = h * Word + l
    BY <1>3, <1>6, <2>2, Zenon DEF DataToU32
  <2> QED BY <1>1, <2>1, <2>3, Zenon
<1> QED BY <1>5, <1>6

-----------------------------------------------------------------------------
(* Numbers of a type.                                                      *)

\* What a register of the type can have.
InType(r) == CASE r.type = "U16" -> 0..(Word - 1)
               [] r.type = "I16" -> -HalfWord..(HalfWord - 1)
               [] r.type = "I32" -> -HalfLong..(HalfLong - 1)
               [] OTHER -> 0..(Long - 1)

\* What a signed number is in its bits.
LEMMA SignedBits ==
  ASSUME NEW half \in Nat \ {0}, NEW whole \in Nat \ {0}, whole = 2 * half,
         NEW m \in -half..(half - 1)
  PROVE  m % whole = IF m < 0 THEN m + whole ELSE m
<1>1. m \in Int /\ -half <= m /\ m < half
  OBVIOUS
<1>2. CASE m < 0
  <2>1. PICK n \in 0..(whole - 1) : n = m + whole
    BY <1>1, <1>2
  <2>2. m = whole * (-1) + n
    BY <1>1, <2>1
  <2>3. m % whole = n
    BY <1>1, <2>2, DividesOnce
  <2> QED BY <1>2, <2>1, <2>3
<1>3. CASE ~(m < 0)
  <2>1. m \in 0..(whole - 1) /\ m = whole * 0 + m
    BY <1>1, <1>3
  <2>2. m % whole = m
    BY <1>1, <2>1, DividesOnce
  <2> QED BY <1>3, <2>2
<1> QED BY <1>2, <1>3

\* A signed word is that of its bits.
LEMMA SignedWord ==
  ASSUME NEW w \in 0..(Word - 1)
  PROVE  Int16(w) \in -HalfWord..(HalfWord - 1) /\ Int16(w) % Word = w
<1>0. HalfWord \in Nat \ {0} /\ Word \in Nat \ {0} /\ Word = 2 * HalfWord
  BY Sizes
<1>1. PICK m \in -HalfWord..(HalfWord - 1) : m = Int16(w) /\ (IF m < 0 THEN m + Word ELSE m) = w
  <2>1. w \in Int /\ 0 <= w /\ w < Word
    BY <1>0
  <2>2. CASE w < HalfWord
    <3>1. Int16(w) = w
      BY <2>2, Zenon DEF Int16
    <3> QED BY <1>0, <2>1, <2>2, <3>1
  <2>3. CASE ~(w < HalfWord)
    <3>1. Int16(w) = w - Word
      BY <2>3, Zenon DEF Int16
    <3>2. PICK n \in -HalfWord..(HalfWord - 1) : n = w - Word
      BY <1>0, <2>1, <2>3
    <3>3. n < 0 /\ n + Word = w
      BY <1>0, <2>1, <3>2
    <3> QED BY <3>1, <3>2, <3>3
  <2> QED BY <2>2, <2>3
<1>2. m % Word = IF m < 0 THEN m + Word ELSE m
  BY <1>0, SignedBits
<1> QED BY <1>1, <1>2

\* What is meant is of the type, and the same word.
LEMMA MeantInType ==
  ASSUME NEW r \in Register, NEW x \in Int, Settable(x, r)
  PROVE  Meant(x, r) \in InType(r) /\ (r.type \in Small => Meant(x, r) % Word = x % Word)
                                   /\ (r.type \in Large => Meant(x, r) = x)
<1>1. PICK w \in 0..(Word - 1) : w = x % Word
  BY LowWord
<1>2. r.type \in {"U16", "I16", "U32", "I32", "FLOAT"}
  BY DEF Register, Small, Large
<1>3. CASE r.type = "U16"
  <2>1. Meant(x, r) = w /\ InType(r) = 0..(Word - 1)
    BY <1>1, <1>3, Zenon DEF Meant, InType
  <2>2. w % Word = w
    BY WordFits
  <2>3. r.type \notin Large
    BY <1>3 DEF Large
  <2> QED BY <1>1, <2>1, <2>2, <2>3, Zenon
<1>4. CASE r.type = "I16"
  <2>1. Meant(x, r) = Int16(w) /\ InType(r) = -HalfWord..(HalfWord - 1)
    BY <1>1, <1>4 DEF Meant, InType
  <2>2. r.type \notin Large
    BY <1>4 DEF Large
  <2> QED BY <1>1, <2>1, <2>2, SignedWord, Zenon
<1>5. CASE r.type = "I32"
  <2>1. Meant(x, r) = x /\ InType(r) = -HalfLong..(HalfLong - 1) /\ r.type \notin Small
    BY <1>5 DEF Meant, InType, Small
  <2>2. x \in -HalfLong..(HalfLong - 1)
    BY <1>5, Zenon DEF Settable
  <2> QED BY <2>1, <2>2, Zenon
<1>6. CASE r.type \in {"U32", "FLOAT"}
  <2>1. Meant(x, r) = x /\ InType(r) = 0..(Long - 1) /\ r.type \notin Small
    BY <1>6 DEF Meant, InType, Small
  <2>2. x \in 0..(Long - 1)
    BY <1>6 DEF Settable
  <2> QED BY <2>1, <2>2, Zenon
<1> QED BY <1>2, <1>3, <1>4, <1>5, <1>6

\* What is sent to a slave is what is meant in its order.
LEMMA SentAsMeant ==
  ASSUME NEW r \in Register, NEW x \in Int, Settable(x, r)
  PROVE  AppendValue(x % Long, r) = InOrder(Meant(x, r), r)
<1>0. Meant(x, r) \in Int
  BY MeantInType, Sizes DEF InType
<1>1. CASE r.type \in Small
  <2>1. AppendValue(x % Long, r) = AppendU16((x % Long) % Word, r)
    BY <1>1, Zenon DEF AppendValue
  <2>2. (x % Long) % Word = x % Word
    BY LowWord
  <2>3. Meant(x, r) % Word = x % Word
    BY <1>1, MeantInType
  <2>4. InOrder(Meant(x, r), r) = AppendU16(Meant(x, r) % Word, r)
    BY <1>0, <1>1, OrderSmall
  <2> QED BY <2>1, <2>2, <2>3, <2>4, Zenon
<1>2. CASE r.type \notin Small
  <2>0. r.type \in Large
    BY <1>2 DEF Register
  <2>1. AppendValue(x % Long, r) = AppendU32(x % Long, r)
    BY <1>2, Zenon DEF AppendValue
  <2>2. Meant(x, r) = x
    BY <2>0, MeantInType
  <2>3. InOrder(x, r) = AppendU32(x % Long, r)
    BY <2>0, OrderLarge
  <2> QED BY <2>1, <2>2, <2>3, Zenon
<1> QED BY <1>1, <1>2

\* What a slave has is what is read.
LEMMA ReadAsHeld ==
  ASSUME NEW r \in Register, NEW m \in InType(r)
  PROVE  RegGet(RegValue(InOrder(m, r), r), r) = m
<1>0. m \in Int
  BY Sizes DEF InType
<1>1. PICK v \in 0..(Long - 1) : v = m % Long
  BY <1>0, LowWord
<1>2. PICK w \in 0..(Word - 1) : w = m % Word
  BY <1>0, LowWord
<1>3. r.type \in {"U16", "I16", "U32", "I32", "FLOAT"}
  BY DEF Register, Small, Large
<1>4. PICK d : d = InOrder(m, r)
  OBVIOUS
<1>5. ASSUME r.type \in Small PROVE DataToU16(d[1], d[2], r) = w
  <2>1. d = AppendU16(w, r)
    BY <1>0, <1>2, <1>4, <1>5, OrderSmall, Zenon
  <2> QED BY <2>1, SmallBack, Zenon
<1>6. ASSUME r.type \in Large PROVE DataToU32(d, r) = v
  <2>1. d = AppendU32(v, r)
    BY <1>0, <1>1, <1>4, <1>6, OrderLarge, Zenon
  <2> QED BY <2>1, LargeBack, Zenon
<1>7. CASE r.type = "U16"
  <2>0. m \in 0..(Word - 1) /\ r.type \in Small
    BY <1>7 DEF InType, Small
  <2>1. m % Word = m
    BY <2>0, WordFits
  <2>2. RegValue(d, r) = w
    BY <1>5, <1>7, <2>0, Zenon DEF RegValue
  <2>3. RegGet(w, r) = w % Word
    BY <1>7, Zenon DEF RegGet
  <2> QED BY <1>2, <1>4, <2>1, <2>2, <2>3, Zenon
<1>8. CASE r.type = "I16"
  <2>0. m \in -HalfWord..(HalfWord - 1) /\ r.type \in Small
    BY <1>8 DEF InType, Small
  <2>1. m % Word = IF m < 0 THEN m + Word ELSE m
    BY <2>0, Sizes, SignedBits
  <2>2. Int16(w) = m
    BY <1>0, <1>2, <2>0, <2>1, Sizes DEF Int16
  <2>3. RegValue(d, r) = m % Long
    BY <1>5, <1>8, <2>0, <2>2 DEF RegValue
  <2>4. (m % Long) % Word = w
    BY <1>0, <1>2, LowWord
  <2>5. RegGet(m % Long, r) = Int16((m % Long) % Word)
    BY <1>8 DEF RegGet
  <2> QED BY <1>4, <2>2, <2>3, <2>4, <2>5, Zenon
<1>9. CASE r.type = "I32"
  <2>0. m \in -HalfLong..(HalfLong - 1) /\ r.type \in Large
    BY <1>9 DEF InType, Large
  <2>1. m % Long = IF m < 0 THEN m + Long ELSE m
    BY <2>0, Sizes, SignedBits
  <2>2. Int32(v) = m
    BY <1>0, <1>1, <2>0, <2>1, Sizes DEF Int32
  <2>3. RegValue(d, r) = v
    BY <1>6, <1>9, <2>0 DEF RegValue
  <2>4. RegGet(v, r) = Int32(v)
    BY <1>9 DEF RegGet
  <2> QED BY <1>4, <2>2, <2>3, <2>4, Zenon
<1>10. CASE r.type \in {"U32", "FLOAT"}
  <2>0. m \in 0..(Long - 1) /\ r.type \in Large
    BY <1>10 DEF InType, Large
  <2>1. Long \in Nat \ {0} /\ m = Long * 0 + m
    BY <1>0, Sizes
  <2>5. m % Long = m
    BY <1>0, <2>0, <2>1, DividesOnce
  <2>2. v = m
    BY <1>1, <2>5
  <2>3. RegValue(d, r) = v
    BY <1>6, <1>10, <2>0 DEF RegValue
  <2>4. RegGet(v, r) = v
    BY <1>10 DEF RegGet
  <2> QED BY <1>4, <2>2, <2>3, <2>4, Zenon
<1> QED BY <1>3, <1>7, <1>8, <1>9, <1>10

-----------------------------------------------------------------------------
(* The value survives.                                                     *)

ValueInv ==
  /\ mb_reg \in Register
  /\ holds \in InType(mb_reg)
  /\ slave = InOrder(holds, mb_reg)
  /\ value_state = "ready" => RegGet(value_data, mb_reg) = was_read
  /\ set_said = "waits" /\ mb_reg.type \in Small => set_expected = holds % Word
  /\ set_said = "failed" => mb_reg.type \in Small /\ mb_reg.bytes = "LSB"

\* Zero is of every type.
LEMMA ValueInitInv ==
  ASSUME ValueInit
  PROVE  ValueInv
<1>1. mb_reg \in Register /\ holds = 0 /\ slave = InOrder(0, mb_reg)
      /\ value_state = "none" /\ set_said = ""
  BY DEF ValueInit
<1>2. 0 \in InType(mb_reg)
  BY Sizes DEF InType
<1> QED BY <1>1, <1>2 DEF ValueInv

\* A command leaves the slave what was meant.
LEMMA SetValueInv ==
  ASSUME ValueInv, SetValue
  PROVE  ValueInv'
<1>1. PICK x \in Int :
        /\ Settable(x, mb_reg)
        /\ slave' = AppendValue(x % Long, mb_reg) /\ holds' = Meant(x, mb_reg)
        /\ set_expected' = IF mb_reg.type \in Small THEN x % Word ELSE 2
        /\ set_said' = "waits"
        /\ UNCHANGED <<mb_reg, value_state, value_data, was_read>>
  BY ModbusValueAssumption DEF SetValue
<1>2. mb_reg \in Register /\ (value_state = "ready" => RegGet(value_data, mb_reg) = was_read)
  BY DEF ValueInv
<1>3. holds' \in InType(mb_reg) /\ (mb_reg.type \in Small => holds' % Word = x % Word)
  BY <1>1, <1>2, MeantInType
<1>4. slave' = InOrder(holds', mb_reg)
  BY <1>1, <1>2, SentAsMeant
<1> QED BY <1>1, <1>2, <1>3, <1>4 DEF ValueInv

\* What a slave answers to the write of one register is understood, unless it
\* comes least significant byte first.
LEMMA SetAcknowledgedInv ==
  ASSUME ValueInv, SetAcknowledged
  PROVE  ValueInv'
<1>1. set_said = "waits" /\ UNCHANGED <<mb_reg, slave, value_state, value_data, holds, was_read>>
  BY DEF SetAcknowledged
<1>2. set_said' \in {"ok", "failed"}
  BY DEF SetAcknowledged
<1>3. mb_reg \in Register /\ holds \in InType(mb_reg) /\ slave = InOrder(holds, mb_reg)
  BY DEF ValueInv
<1>4. ASSUME mb_reg.type \in Small, mb_reg.bytes = "MSB" PROVE set_said' = "ok"
  <2>1. holds \in Int
    BY <1>3, Sizes DEF InType
  <2>2. PICK w \in 0..(Word - 1) : w = holds % Word
    BY <2>1, LowWord
  <2>3. slave = AppendU16(w, mb_reg)
    BY <1>3, <1>4, <2>1, <2>2, OrderSmall
  <2>4. DataToU16(slave[1], slave[2], mb_reg) = w
    BY <1>3, <2>3, SmallBack, Zenon
  <2>5. slave[1] * Byte + slave[2] = w
    BY <1>4, <2>4, Zenon DEF DataToU16
  <2>6. set_expected = w
    BY <1>1, <1>4, <2>2 DEF ValueInv
  <2> QED BY <2>5, <2>6, Zenon DEF SetAcknowledged
<1>5. ASSUME mb_reg.type \in Large PROVE set_said' = "ok"
  BY <1>5, Zenon DEF SetAcknowledged
<1>6. set_said' = "failed" => mb_reg.type \in Small /\ mb_reg.bytes = "LSB"
  BY <1>3, <1>4, <1>5 DEF Register
<1> QED BY <1>1, <1>2, <1>6 DEF ValueInv

\* A reply is read as the number the slave has.
LEMMA ValueReplyInv ==
  ASSUME ValueInv, ValueReply
  PROVE  ValueInv'
<1>1. /\ value_data' = RegValue(slave, mb_reg) /\ was_read' = holds
      /\ UNCHANGED <<mb_reg, slave, set_expected, set_said, holds>>
  BY DEF ValueReply
<1>2. mb_reg \in Register /\ holds \in InType(mb_reg) /\ slave = InOrder(holds, mb_reg)
  BY DEF ValueInv
<1>3. RegGet(value_data', mb_reg) = was_read'
  BY <1>1, <1>2, ReadAsHeld, Zenon
<1> QED BY <1>1, <1>3 DEF ValueInv

\* The slave's own numbers are of its register's type.
LEMMA SlaveChangesInv ==
  ASSUME ValueInv, SlaveChanges
  PROVE  ValueInv'
<1>1. PICK x \in Int :
        /\ Settable(x, mb_reg) /\ set_said # "waits"
        /\ slave' = InOrder(x, mb_reg) /\ holds' = Meant(x, mb_reg)
        /\ UNCHANGED <<mb_reg, value_state, value_data, set_expected, set_said, was_read>>
  BY ModbusValueAssumption DEF SlaveChanges
<1>2. mb_reg \in Register
  BY DEF ValueInv
<1>3. /\ holds' \in InType(mb_reg) /\ (mb_reg.type \in Small => holds' % Word = x % Word)
      /\ (mb_reg.type \in Large => holds' = x)
  BY <1>1, <1>2, MeantInType
<1>4. InOrder(x, mb_reg) = InOrder(holds', mb_reg)
  <2>0. holds' \in Int
    BY <1>3, Sizes DEF InType
  <2>1. CASE mb_reg.type \in Large
    BY <1>3, <2>1
  <2>2. CASE mb_reg.type \in Small
    <3>1. InOrder(x, mb_reg) = AppendU16(x % Word, mb_reg)
      BY <1>2, <2>2, OrderSmall
    <3>2. InOrder(holds', mb_reg) = AppendU16(holds' % Word, mb_reg)
      BY <1>2, <2>0, <2>2, OrderSmall
    <3> QED BY <1>3, <2>2, <3>1, <3>2, Zenon
  <2> QED BY <1>2, <2>1, <2>2 DEF Register
<1> QED BY <1>1, <1>2, <1>3, <1>4 DEF ValueInv

\* Every step keeps the invariant.
LEMMA ValueNextInv ==
  ASSUME ValueInv, [ValueNext]_valueVars
  PROVE  ValueInv'
<1>1. CASE SetValue
  BY <1>1, SetValueInv
<1>2. CASE SetAcknowledged
  BY <1>2, SetAcknowledgedInv
<1>3. CASE ValueStartRead
  BY <1>3 DEF ValueStartRead, ValueInv
<1>4. CASE ValueReply
  BY <1>4, ValueReplyInv
<1>5. CASE ValueRefused
  BY <1>5 DEF ValueRefused, ValueInv
<1>6. CASE SlaveChanges
  BY <1>6, SlaveChangesInv
<1>7. CASE UNCHANGED valueVars
  BY <1>7 DEF valueVars, ValueInv
<1> QED BY <1>1, <1>2, <1>3, <1>4, <1>5, <1>6, <1>7 DEF ValueNext

\* What a command sets is what the slave has, and what is measured is what the
\* slave had, whatever the type, the two orders and the number.
THEOREM ModbusValueSurvives == ValueSpec => []ValueSurvives
<1>1. ValueInit => ValueInv
  BY ValueInitInv
<1>2. ValueInv /\ [ValueNext]_valueVars => ValueInv'
  BY ValueNextInv
<1>3. ValueInv => ValueSurvives
  BY DEF ValueInv, ValueSurvives, Measurement
<1> QED BY <1>1, <1>2, <1>3, PTL DEF ValueSpec
==============================================================================
