--------------------------- MODULE UplinkTypeProofs ---------------------------
(***************************************************************************)
(* That the positions and counters of Uplink stay in their bounds, for     *)
(* every interval, however late the network answers, and with counters     *)
(* read by command at any time.                                            *)
(***************************************************************************)
EXTENDS Uplink, TLAPS, FiniteSetTheorems, WellFoundedInduction

\* A set of naturals has a least element.
LEMMA NatOrder ==
  \E R : /\ IsWellFoundedOn(R, Nat) /\ \A a, b \in Nat : a < b => <<a, b>> \in R
<1>1. IsWellFoundedOn(OpToRel(<, Nat), Nat)
  BY NatLessThanWellFounded, Zenon
<1>2. \A a, b \in Nat : a < b => <<a, b>> \in OpToRel(<, Nat)
  BY Zenon DEF OpToRel
<1>3. QED
  BY <1>1, <1>2, Zenon

\* The least element of a set of naturals is one of its elements.
LEMMA MinIsIn == ASSUME NEW S, S \subseteq Nat, S # {} PROVE Min(S) \in S
<1>1. PICK R : /\ IsWellFoundedOn(R, Nat)
               /\ \A a, b \in Nat : a < b => <<a, b>> \in R
  BY NatOrder
<1>2. IsWellFoundedOn(R, Nat)
  BY <1>1
<1>3. PICK x \in S : \A y \in S : ~ (<<y, x>> \in R)
  BY <1>2, WFMin, Zenon
<1>4. \A y \in S : y \in Nat /\ x \in Nat
  OBVIOUS
<1>5. \A y \in S : ~(y < x)
  BY <1>1, <1>3, <1>4, Zenon
<1>6. \A y \in S : x <= y
  BY <1>4, <1>5
<1>7. \E z \in S : \A y \in S : z <= y
  BY <1>6
<1>8. QED
  BY <1>7 DEF Min

\* Where a fragment starts is a slot.
LEMMA FromIsSlot ==
  ASSUME start \in 0..N
  PROVE  From \in Slot /\ (start # N => From = start)
  BY UplinkAssumption DEF Slot, From

-----------------------------------------------------------------------------
(* The types, for every interval and with commands that read a counter.   *)

\* What is remembered of a counter is never more than its count, or taking it
\* off would make a count of 2^32 of it.
Remembered == \A s \in Pulse : send_count[s] <= count[s]

CountTypes == TypeOK /\ Remembered

\* A fragment ends at a slot or behind the last, and what it takes out of the
\* slots is what the packet says.
LEMMA FragmentTypes ==
  ASSUME TypeOK, NEW i \in Int, FillPacket(i)
  PROVE  /\ start' \in 0..N /\ prev' \in 0..N /\ pending' \in BOOLEAN /\ dropping' \in BOOLEAN
         /\ val' \in [Slot -> Nat \cup {NoSample}] /\ collected' \in [Slot -> Nat]
         /\ packet' \in [Slot -> Nat \cup {NoSample}] /\ link' \in LinkState
<1> DEFINE full == {s \in Listed(i) : val[s] # NoSample}
           over == {s \in full : Cardinality({t \in full : t < s}) >= Fits}
           gone == {s \in Listed(i) : s < StopAt(i)}
           sent == {s \in gone : val[s] # NoSample}
<1>1. /\ start \in 0..N /\ val \in [Slot -> Nat \cup {NoSample}] /\ collected \in [Slot -> Nat]
      /\ pending \in BOOLEAN /\ N \in Nat \ {0}
  BY UplinkAssumption DEF TypeOK
<1>2. From \in 0..(N - 1)
  BY <1>1, FromIsSlot DEF Slot
<1>3. over \subseteq 0..(N - 1)
  BY <1>1, <1>2 DEF Listed
<1>4. StopAt(i) = IF over = {} THEN N ELSE Min(over)
  BY DEF StopAt
<1>5. StopAt(i) \in 0..N
  <2> HIDE DEF over
  <2>1. CASE over = {}
    BY <1>1, <1>4, <2>1
  <2>2. CASE over # {}
    <3>1. over \subseteq Nat
      BY <1>3
    <3>2. Min(over) \in over
      BY <2>2, <3>1, MinIsIn
    <3>3. StopAt(i) = Min(over) /\ Min(over) \in 0..(N - 1)
      BY <1>3, <1>4, <2>2, <3>2
    <3>4. QED
      BY <1>1, <3>3
  <2>3. QED
    BY <2>1, <2>2
<1>6. /\ val' = [s \in Slot |-> IF s \in gone THEN NoSample ELSE val[s]]
      /\ collected' = [s \in Slot |-> IF s \in gone THEN 0 ELSE collected[s]]
      /\ start' = StopAt(i) /\ prev' = From /\ dropping' = FALSE
      /\ pending' = IF sent = {} THEN pending ELSE StopAt(i) # N
      /\ link' = IF sent = {} THEN "idle" ELSE "wait_ok"
      /\ packet' = [s \in Slot |-> IF s \in sent THEN val[s] ELSE NoSample]
  BY DEF FillPacket
<1> HIDE DEF gone, sent
<1>7. /\ val' \in [Slot -> Nat \cup {NoSample}] /\ collected' \in [Slot -> Nat]
      /\ packet' \in [Slot -> Nat \cup {NoSample}]
  BY <1>1, <1>6
<1>8. pending' \in BOOLEAN
  <2>1. CASE sent = {}
    BY <1>1, <1>6, <2>1
  <2>2. CASE sent # {}
    <3>1. pending' = (StopAt(i) # N)
      BY <1>6, <2>2
    <3>2. QED
      BY <3>1
  <2>3. QED
    BY <2>1, <2>2
<1>9. link' \in LinkState
  BY <1>6 DEF LinkState
<1>10. prev' \in 0..N
  BY <1>1, <1>2, <1>6
<1>11. QED
  BY <1>5, <1>6, <1>7, <1>8, <1>9, <1>10

\* A sampling takes each reading as it is, or adds it to the one that waits.
LEMMA SampleTypes == ASSUME CountTypes, Sample PROVE CountTypes'
<1> DEFINE S == {s \in Slot : SampleDue(s)}
<1>1. /\ pc' = "send"
      /\ UNCHANGED <<link, age, ic, pending, start, prev, no_con, dropping, instant, count,
                     packet, total, reported, losses, extras, reads>>
      /\ val' = [s \in Slot |->
                   IF s \notin S THEN val[s]
                   ELSE Reading(s) + (IF val[s] = NoSample THEN 0 ELSE val[s])]
      /\ collected' = [s \in Slot |->
                         IF s \in S THEN collected[s] + 1 ELSE collected[s]]
      /\ send_count' = [s \in Pulse |-> IF s \in S THEN count[s] ELSE send_count[s]]
  BY DEF Sample, ReadAll, chunks, bounds
<1>2. /\ val \in [Slot -> Nat \cup {NoSample}] /\ collected \in [Slot -> Nat]
      /\ count \in [Pulse -> Nat] /\ send_count \in [Pulse -> Nat]
      /\ \A s \in Pulse : send_count[s] <= count[s]
  BY DEF CountTypes, TypeOK, Remembered
<1> HIDE DEF S
<1>3. \A s \in Slot : Reading(s) \in Nat
  BY <1>2 DEF Reading
<1>4. val' \in [Slot -> Nat \cup {NoSample}]
  <2>1. \A s \in Slot : (IF val[s] = NoSample THEN 0 ELSE val[s]) \in Nat
    BY <1>2
  <2>2. \A s \in Slot : Reading(s) + (IF val[s] = NoSample THEN 0 ELSE val[s]) \in Nat
    BY <1>3, <2>1
  <2>3. \A s \in Slot : val[s] \in Nat \cup {NoSample}
    BY <1>2
  <2>4. QED
    BY <1>1, <2>2, <2>3
<1>5. collected' \in [Slot -> Nat]
  BY <1>1, <1>2
<1>6. send_count' \in [Pulse -> Nat] /\ \A s \in Pulse : send_count'[s] <= count'[s]
  BY <1>1, <1>2
<1>7. QED
  BY <1>1, <1>4, <1>5, <1>6 DEF CountTypes, TypeOK, Remembered

\* _measurements_send.
LEMMA SendTypes == ASSUME CountTypes, Send PROVE CountTypes'
<1>1. /\ pc' = "top"
      /\ UNCHANGED <<no_con, instant, count, send_count, total, reported, losses, extras, reads>>
  BY DEF Send, counter, bounds
<1>2. Cycle \in Nat \ {0} /\ ic \in 0..(Cycle - 1) /\ 0 \in 0..N
  BY UplinkAssumption DEF CountTypes, TypeOK
<1>3. CASE ~Overdue
  <2>1. UNCHANGED <<link, age, ic, pending, start, prev, dropping, val, collected, packet>>
    BY <1>3 DEF Send, chunks, data
  <2>2. QED
    BY <1>1, <2>1 DEF CountTypes, TypeOK, Remembered
<1>4. CASE Overdue
  <2>1. PICK i : i = (ic + 1) % Cycle
    OBVIOUS
  <2>2. ic' = i /\ SendWhenDue(i)
    BY <1>4, <2>1 DEF Send
  <2>3. i \in 0..(Cycle - 1) /\ i \in Int
    BY <1>2, <2>1
  <2>4. NoPacket \in [Slot -> Nat \cup {NoSample}]
    BY DEF NoPacket
  <2>5. CASE /\ ~Connected
             /\ IF dropping THEN pending' = FALSE /\ UNCHANGED <<start, prev>>
                            ELSE NoChunks
             /\ dropping' = TRUE
             /\ UNCHANGED <<link, age, data, packet>>
    BY <1>1, <1>2, <2>2, <2>3, <2>5 DEF CountTypes, TypeOK, Remembered, NoChunks, data
  <2>6. CASE /\ LinkLost /\ packet' = NoPacket
             /\ NoChunks /\ dropping' = FALSE
             /\ UNCHANGED <<age, data>>
    BY <1>1, <1>2, <2>2, <2>3, <2>4, <2>6
    DEF CountTypes, TypeOK, Remembered, NoChunks, data, LinkLost, LinkState
  <2>7. CASE /\ age' = 0 /\ pending' = TRUE /\ dropping' = FALSE
             /\ UNCHANGED <<link, start, prev, data, packet>>
    <3>1. age' \in 0..(TransmitInterval + 1)
      BY <2>7 DEF TransmitInterval
    <3>2. pending' \in BOOLEAN /\ dropping' \in BOOLEAN
      BY <2>7, Zenon
    <3>3. UNCHANGED <<link, start, prev, val, collected, packet>>
      BY <2>7 DEF data
    <3>4. QED
      BY <1>1, <2>2, <2>3, <3>1, <3>2, <3>3 DEF CountTypes, TypeOK, Remembered
  <2>8. CASE /\ age' = IF pending THEN age ELSE 0
             /\ FillPacket(i)
    <3>1. /\ start' \in 0..N /\ prev' \in 0..N /\ pending' \in BOOLEAN /\ dropping' \in BOOLEAN
          /\ val' \in [Slot -> Nat \cup {NoSample}] /\ collected' \in [Slot -> Nat]
          /\ packet' \in [Slot -> Nat \cup {NoSample}] /\ link' \in LinkState
      BY <2>3, <2>8, FragmentTypes DEF CountTypes
    <3>2. age' \in 0..(TransmitInterval + 1)
      BY <2>8 DEF CountTypes, TypeOK, TransmitInterval
    <3>3. QED
      BY <1>1, <2>2, <2>3, <3>1, <3>2 DEF CountTypes, TypeOK, Remembered
  <2>9. QED
    BY <2>2, <2>5, <2>6, <2>7, <2>8 DEF SendWhenDue
<1>5. QED
  BY <1>3, <1>4

\* on_protocol_sent_ack(true).
LEMMA AckTypes == ASSUME CountTypes, Ack PROVE CountTypes'
<1>1. /\ count \in [Pulse -> Nat] /\ send_count \in [Pulse -> Nat]
      /\ \A s \in Pulse : send_count[s] <= count[s]
      /\ reported \in [Pulse -> Nat] /\ packet \in [Slot -> Nat \cup {NoSample}]
      /\ Pulse \subseteq Slot /\ Cycle \in Nat \ {0} /\ ic \in Int /\ 0 \in 0..N
  BY UplinkAssumption DEF CountTypes, TypeOK, Remembered
<1>2. /\ UNCHANGED <<pc, age, ic, no_con, instant, total, losses, extras, reads>>
      /\ count' = [s \in Pulse |-> IF s \in Told THEN count[s] - send_count[s] ELSE count[s]]
      /\ send_count' = [s \in Pulse |-> IF s \in Told THEN 0 ELSE send_count[s]]
      /\ reported' = [s \in Pulse |-> reported[s]
                        + (IF packet[s] = NoSample THEN 0 ELSE packet[s])]
  BY DEF Ack, TakeOff, MainLoopVars, bounds
<1>3. /\ count' \in [Pulse -> Nat] /\ send_count' \in [Pulse -> Nat]
      /\ \A s \in Pulse : send_count'[s] <= count'[s]
  <2>1. \A s \in Pulse : count[s] - send_count[s] \in Nat
    BY <1>1
  <2>2. count' \in [Pulse -> Nat]
    BY <1>1, <1>2, <2>1
  <2>3. send_count' \in [Pulse -> Nat]
    BY <1>1, <1>2
  <2>4. \A s \in Pulse : send_count'[s] <= count'[s]
    BY <1>1, <1>2, <2>1
  <2>5. QED
    BY <2>2, <2>3, <2>4
<1>4. reported' \in [Pulse -> Nat]
  <2>1. \A s \in Pulse : (IF packet[s] = NoSample THEN 0 ELSE packet[s]) \in Nat
    BY <1>1
  <2>2. QED
    BY <1>1, <1>2, <2>1
<1>5. CASE pending
  <2>1. FillPacket(ic)
    BY <1>5 DEF Ack
  <2>2. /\ start' \in 0..N /\ prev' \in 0..N /\ pending' \in BOOLEAN /\ dropping' \in BOOLEAN
        /\ val' \in [Slot -> Nat \cup {NoSample}] /\ collected' \in [Slot -> Nat]
        /\ packet' \in [Slot -> Nat \cup {NoSample}] /\ link' \in LinkState
    BY <1>1, <2>1, FragmentTypes DEF CountTypes
  <2>3. QED
    BY <1>2, <1>3, <1>4, <2>2 DEF CountTypes, TypeOK, Remembered
<1>6. CASE ~pending
  <2>1. /\ link' \in LinkState /\ packet' = NoPacket /\ NoChunks
        /\ UNCHANGED <<dropping, val, collected>>
    BY <1>6 DEF Ack, LinkAck, LinkState, data
  <2>2. packet' \in [Slot -> Nat \cup {NoSample}]
    BY <2>1 DEF NoPacket
  <2>3. QED
    BY <1>1, <1>2, <1>3, <1>4, <2>1, <2>2 DEF CountTypes, TypeOK, Remembered, NoChunks
<1>7. QED
  BY <1>5, <1>6

\* Every step keeps the types.
LEMMA CountTypesStep == ASSUME CountTypes, [Next]_vars PROVE CountTypes'
<1>1. NoPacket \in [Slot -> Nat \cup {NoSample}] /\ 0 \in 0..N /\ Pulse \subseteq Slot
  BY UplinkAssumption DEF NoPacket
<1>2. CASE Sample \/ Send \/ Ack
  BY <1>2, SampleTypes, SendTypes, AckTypes
<1>3. CASE PassDisconnected \/ PassReconnected
  <2>1. age' \in 0..(TransmitInterval + 1) /\ no_con' \in BOOLEAN
    <3>1. age' \in {age, 0}
      BY <1>3 DEF PassDisconnected, PassReconnected
    <3>2. no_con' \in BOOLEAN
      BY <1>3, Zenon DEF PassDisconnected, PassReconnected
    <3>3. QED
      BY <3>1, <3>2 DEF CountTypes, TypeOK, TransmitInterval
  <2>2. pending' \in BOOLEAN /\ start' \in 0..N /\ prev' \in 0..N
    BY <1>1, <1>3 DEF PassDisconnected, PassReconnected, NoChunks, CountTypes, TypeOK, chunks
  <2>3. UNCHANGED <<link, pc, ic, dropping, val, collected, instant, count, send_count, packet,
                    total, reported, losses, extras, reads>>
    BY <1>3 DEF PassDisconnected, PassReconnected, data, counter, bounds
  <2>4. QED
    BY <2>1, <2>2, <2>3 DEF CountTypes, TypeOK, Remembered
<1>4. CASE Pass
  <2>1. instant' \subseteq instant /\ pc' \in {"instant", "sample"}
    BY <1>4 DEF Pass
  <2>2. QED
    BY <1>4, <2>1 DEF Pass, CountTypes, TypeOK, Remembered, chunks, data, counter, bounds
<1>5. CASE InstantSend
  <2>1. link' \in LinkState /\ packet' \in {packet, NoPacket}
    BY <1>5 DEF InstantSend, LinkSend, LinkState, CountTypes, TypeOK
  <2>2. QED
    BY <1>1, <1>5, <2>1 DEF InstantSend, CountTypes, TypeOK, Remembered, chunks, data, counter, bounds
<1>6. CASE JoinNetwork \/ ModemOk
  <2>1. link' \in LinkState
    BY <1>6 DEF JoinNetwork, ModemOk, LinkUp, LinkOk, LinkState
  <2>2. QED
    BY <1>6, <2>1 DEF JoinNetwork, ModemOk, MainLoopVars, CountTypes, TypeOK, Remembered,
                      chunks, data, counter, bounds
<1>7. CASE AckTimeout \/ Lost \/ SendErrorCode
  <2>1. link' \in LinkState /\ packet' = NoPacket
    BY <1>7 DEF AckTimeout, Lost, SendErrorCode, LinkAckTimeout, LinkLost, LinkSend, LinkState
  <2>2. losses' \in Nat /\ extras' \in Nat /\ reads' \in Nat
    BY <1>7 DEF AckTimeout, Lost, SendErrorCode, CountTypes, TypeOK
  <2>3. pending' \in BOOLEAN /\ start' \in 0..N /\ prev' \in 0..N
    BY <1>1, <1>7 DEF AckTimeout, Lost, SendErrorCode, NoChunks, chunks, CountTypes, TypeOK
  <2>4. QED
    BY <1>1, <1>7, <2>1, <2>2, <2>3
    DEF AckTimeout, Lost, SendErrorCode, MainLoopVars, CountTypes, TypeOK, Remembered, data, counter
<1>8. ASSUME NEW s \in Pulse, PulseISR(s) PROVE CountTypes'
  <2>1. /\ count' \in [Pulse -> Nat] /\ total' \in [Pulse -> Nat]
        /\ \A t \in Pulse : send_count[t] <= count'[t]
    BY <1>8 DEF PulseISR, CountTypes, TypeOK, Remembered
  <2>2. QED
    BY <1>8, <2>1 DEF PulseISR, CountTypes, TypeOK, Remembered, chunks, data, bounds
<1>9. ASSUME NEW s \in Pulse, ReadCommand(s) PROVE CountTypes'
  <2>1. /\ send_count' \in [Pulse -> Nat] /\ reads' \in Nat
        /\ \A t \in Pulse : send_count'[t] <= count[t]
    BY <1>9 DEF ReadCommand, ReadAll, CountTypes, TypeOK, Remembered
  <2>2. QED
    BY <1>9, <2>1 DEF ReadCommand, CountTypes, TypeOK, Remembered, chunks, data
<1>10. ASSUME NEW s \in Slot \ Pulse, WatchISR(s) PROVE CountTypes'
  BY <1>10 DEF WatchISR, CountTypes, TypeOK, Remembered, chunks, data, counter
<1>11. CASE Tick
  <2>1. age' \in 0..(TransmitInterval + 1)
    BY <1>11 DEF Tick, Overdue, CountTypes, TypeOK, TransmitInterval
  <2>2. QED
    BY <1>11, <2>1 DEF Tick, CountTypes, TypeOK, Remembered, chunks, data, counter, bounds
<1>12. CASE UNCHANGED vars
  BY <1>12 DEF vars, CountTypes, TypeOK, Remembered, chunks, data, counter, bounds
<1>13. QED
  BY <1>2, <1>3, <1>4, <1>5, <1>6, <1>7, <1>8, <1>9, <1>10, <1>11, <1>12 DEF Next, MainLoop

LEMMA CountTypesInit == ASSUME Init PROVE CountTypes
<1>1. link \in LinkState /\ packet \in [Slot -> Nat \cup {NoSample}]
  BY DEF Init, LinkInit, LinkState, NoPacket
<1>2. /\ age \in 0..(TransmitInterval + 1) /\ ic \in 0..(Cycle - 1)
      /\ start \in 0..N /\ prev \in 0..N
  BY UplinkAssumption DEF Init, TransmitInterval
<1>3. pc = "top" /\ losses = 0 /\ extras = 0 /\ reads = 0 /\ instant = {}
  BY DEF Init
<1>4. /\ val \in [Slot -> Nat \cup {NoSample}] /\ collected \in [Slot -> Nat]
      /\ count \in [Pulse -> Nat] /\ send_count \in [Pulse -> Nat]
      /\ total \in [Pulse -> Nat] /\ reported \in [Pulse -> Nat]
      /\ \A s \in Pulse : send_count[s] <= count[s]
  BY DEF Init
<1>5. pending \in BOOLEAN /\ no_con \in BOOLEAN /\ dropping \in BOOLEAN
  BY Zenon DEF Init
<1>6. QED
  BY <1>1, <1>2, <1>3, <1>4, <1>5 DEF CountTypes, TypeOK, Remembered

\* For every interval of every slot, however late the network answers and with
\* counters read by command at any time: the positions of a fragment are of
\* slots, and an acknowledgement never takes more off a counter than it has
\* (_pulsecount_ack, pulsecount.c).
THEOREM UplinkTypes == Spec => [](TypeOK /\ \A s \in Pulse : send_count[s] <= count[s])
<1>1. Init => CountTypes
  BY CountTypesInit
<1>2. CountTypes /\ [Next]_vars => CountTypes'
  BY CountTypesStep
<1>3. CountTypes => TypeOK /\ \A s \in Pulse : send_count[s] <= count[s]
  BY DEF CountTypes, Remembered
<1>4. QED
  BY <1>1, <1>2, <1>3, PTL DEF Spec
==============================================================================
