------------------------------ MODULE UplinkProofs ------------------------------
(***************************************************************************)
(* That no pulse is lost or told twice, and no fragment of a send is       *)
(* forgotten, for any number of slots, counters, measurements to a packet, *)
(* pulses, losses, instant sends and error codes, where packets are        *)
(* prompt, all measurements have interval 1 and no command reads a counter *)
(* (OneInterval; see the run uplink_second for an interval of 2).          *)
(*                                                                         *)
(* The invariant relates what the packet on its way says of a counter, its *)
(* send_count and the positions of the fragment (PacketInv), and says that *)
(* nothing is sampled before the packet is over (ChunkInv, DataInv).       *)
(*                                                                         *)
(* And, with no such assumption, what the variables of both instances in   *)
(* MCUplink hold (UplinkKeepsTypes), from UplinkTypeProofs.                *)
(***************************************************************************)
EXTENDS MCUplink, UplinkTypeProofs

OneInterval == PromptAck /\ MaxReads = 0 /\ \A s \in Slot : Interval[s] = 1

Types ==
  /\ link \in LinkState /\ pc \in {"top", "instant", "sample", "send"}
  /\ age \in 0..5 /\ ic \in Int /\ pending \in BOOLEAN /\ no_con \in BOOLEAN
  /\ start \in 0..N /\ prev \in 0..N
  /\ val \in [Slot -> Nat \cup {NoSample}] /\ collected \in [Slot -> {0, 1}]
  /\ packet \in [Slot -> Nat \cup {NoSample}]
  /\ count \in [Pulse -> Nat] /\ send_count \in [Pulse -> Nat]
  /\ total \in [Pulse -> Int] /\ reported \in [Pulse -> Int]

\* No fragment is on its way or waits to be sent.
NoFragment == ~pending /\ start = 0 /\ prev = 0

\* A packet is on its way.
InFlight == link \in {"wait_ok", "wait_ack"}

\* What is yet to be sent was sampled; time stands still until all of it was.
ChunkInv ==
  /\ link = "idle" \/ no_con => NoFragment
  /\ no_con => pc = "top"
  /\ InFlight /\ pending => start < N /\ \A s \in Slot : start <= s => val[s] # NoSample
  /\ InFlight /\ ~NoFragment => age = 0

\* The slots of the fragment on its way.
InFragment(s) == prev <= s /\ s < start

\* The packet says of a counter what it is told to take off, and of no other.
PacketInv ==
  InFlight =>
    /\ \A s \in Slot : InFragment(s) => val[s] = NoSample
    /\ \A s \in Pulse : IF InFragment(s) THEN packet[s] = send_count[s]
                        ELSE packet[s] = NoSample

\* A slot holds one sample, that of a counter the reading it remembers.
DataInv ==
  /\ \A s \in Slot : collected[s] = 0 <=> val[s] = NoSample
  /\ \A s \in Pulse : val[s] # NoSample => val[s] = send_count[s]

\* When the interval is over every slot was sampled.
SampledInv == pc = "send" /\ Overdue => \A s \in Slot : val[s] # NoSample

CountInv == /\ \A s \in Pulse : send_count[s] <= count[s]
            /\ PulsesKept

UpInv == Types /\ ChunkInv /\ PacketInv /\ DataInv /\ SampledInv /\ CountInv

-----------------------------------------------------------------------------
(* The end of a fragment.                                                  *)

\* With interval 1 all slots are sent every time.
LEMMA AllListed ==
  ASSUME OneInterval, start \in 0..N, NEW i \in Int
  PROVE  Listed(i) = {s \in Slot : From <= s}
<1>1. \A s \in Slot : i % Interval[s] = 0
  <2>1. i % 1 = 0
    OBVIOUS
  <2>2. QED
    BY <2>1 DEF OneInterval
<1>2. N \in Nat \ {0} /\ From \in Slot
  BY UplinkAssumption, FromIsSlot
<1>3. Listed(i) = {s \in From..(N - 1) : TRUE}
  BY <1>1, <1>2 DEF Listed, Slot
<1>4. QED
  BY <1>2, <1>3 DEF Slot

\* A fragment holds at least the slot it starts with.
LEMMA FragmentEnds ==
  ASSUME OneInterval, start \in 0..N, NEW i \in Int,
         \A s \in Slot : From <= s => val[s] # NoSample
  PROVE  StopAt(i) \in (From + 1)..N
<1> DEFINE full == {s \in Listed(i) : val[s] # NoSample}
           over == {s \in full : Cardinality({t \in full : t < s}) >= Fits}
<1>1. N \in Nat \ {0} /\ Fits \in Nat \ {0} /\ From \in 0..(N - 1)
  <2>1. From \in Slot
    BY FromIsSlot
  <2>2. QED
    BY <2>1, UplinkAssumption DEF Slot
<1>2. full \subseteq From..(N - 1)
  BY DEF Listed
<1>3. From \notin over
  <2>1. {t \in full : t < From} = {}
    BY <1>1, <1>2
  <2>2. Cardinality({t \in full : t < From}) = 0
    BY <2>1, FS_EmptySet
  <2>3. QED
    BY <1>1, <2>2
<1>4. over \subseteq (From + 1)..(N - 1)
  BY <1>1, <1>2, <1>3
<1>5. StopAt(i) = IF over = {} THEN N ELSE Min(over)
  BY DEF StopAt
<1> HIDE DEF over
<1>6. CASE over = {}
  BY <1>1, <1>5, <1>6
<1>7. CASE over # {}
  <2>1. over \subseteq Nat
    BY <1>1, <1>4
  <2>2. Min(over) \in over
    BY <1>7, <2>1, MinIsIn
  <2>3. Min(over) \in (From + 1)..(N - 1)
    BY <1>4, <2>2
  <2>4. StopAt(i) = Min(over)
    BY <1>5, <1>7
  <2>5. QED
    BY <1>1, <2>3, <2>4
<1>8. QED
  BY <1>6, <1>7

\* What a fragment takes: the slots between its positions, and no others.
LEMMA FragmentFilled ==
  ASSUME OneInterval, Types, NEW i \in Int, FillPacket(i),
         \A s \in Slot : From <= s => val[s] # NoSample
  PROVE  /\ start' \in (From + 1)..N /\ prev' = From /\ From \in Slot
         /\ link' = "wait_ok" /\ pending' = (start' # N)
         /\ val' \in [Slot -> Nat \cup {NoSample}] /\ collected' \in [Slot -> {0, 1}]
         /\ packet' \in [Slot -> Nat \cup {NoSample}]
         /\ \A s \in Slot : InFragment(s)' =>
              /\ val'[s] = NoSample /\ collected'[s] = 0
              /\ packet'[s] = val[s] /\ From <= s
         /\ \A s \in Slot : ~InFragment(s)' =>
              /\ val'[s] = val[s] /\ collected'[s] = collected[s]
              /\ packet'[s] = NoSample
<1> DEFINE stop == StopAt(i)
           gone == {s \in Listed(i) : s < stop}
           sent == {s \in gone : val[s] # NoSample}
<1>1. start \in 0..N /\ val \in [Slot -> Nat \cup {NoSample}]
      /\ collected \in [Slot -> {0, 1}]
  BY DEF Types
<1>2. stop \in (From + 1)..N /\ From \in Slot
  <2>1. stop \in (From + 1)..N
    BY <1>1, FragmentEnds
  <2>2. From \in Slot
    BY <1>1, FromIsSlot
  <2>3. QED
    BY <2>1, <2>2
<1>3. gone = {s \in Slot : From <= s /\ s < stop}
  BY <1>1, AllListed
<1>4. sent = gone
  BY <1>3
<1>5. From \in gone
  <2>1. From \in Int
    BY <1>2 DEF Slot
  <2>2. QED
    BY <1>2, <1>3, <2>1
<1>6. /\ val' = [s \in Slot |-> IF s \in gone THEN NoSample ELSE val[s]]
      /\ collected' = [s \in Slot |-> IF s \in gone THEN 0 ELSE collected[s]]
      /\ start' = stop /\ prev' = From
      /\ pending' = IF sent = {} THEN pending ELSE stop # N
      /\ link' = IF sent = {} THEN "idle" ELSE "wait_ok"
      /\ packet' = [s \in Slot |-> IF s \in sent THEN val[s] ELSE NoSample]
  BY DEF FillPacket
<1> HIDE DEF stop, gone, sent
<1>7. \A s \in Slot : InFragment(s)' <=> s \in gone
  BY <1>3, <1>6 DEF InFragment
<1>8. /\ val' \in [Slot -> Nat \cup {NoSample}] /\ collected' \in [Slot -> {0, 1}]
  BY <1>1, <1>6
<1>9. packet' \in [Slot -> Nat \cup {NoSample}]
  BY <1>1, <1>6
<1>10. link' = "wait_ok" /\ pending' = (start' # N)
  BY <1>4, <1>5, <1>6
<1>11. \A s \in Slot : InFragment(s)' =>
         /\ val'[s] = NoSample /\ collected'[s] = 0
         /\ packet'[s] = val[s] /\ From <= s
  BY <1>3, <1>4, <1>6, <1>7
<1>12. \A s \in Slot : ~InFragment(s)' =>
         /\ val'[s] = val[s] /\ collected'[s] = collected[s]
         /\ packet'[s] = NoSample
  BY <1>4, <1>6, <1>7
<1>13. QED
  BY <1>2, <1>6, <1>8, <1>9, <1>10, <1>11, <1>12

\* A fragment of readings that are remembered is a packet that says what its
\* counters are to take off.
LEMMA NewPacket ==
  ASSUME OneInterval, UpInv, NEW i \in Int, FillPacket(i),
         \A s \in Slot : From <= s => val[s] # NoSample,
         age' = 0, no_con' = FALSE, pc' # "send",
         \A s \in Pulse : val[s] # NoSample => send_count'[s] = send_count[s]
  PROVE  ChunkInv' /\ PacketInv' /\ DataInv' /\ SampledInv'
<1>1. Types /\ DataInv /\ N \in Nat \ {0} /\ \A s \in Pulse : s \in Slot
  BY UplinkAssumption DEF UpInv
<1>2. /\ start' \in (From + 1)..N /\ prev' = From /\ From \in Slot
      /\ link' = "wait_ok" /\ pending' = (start' # N)
  BY <1>1, FragmentFilled
<1>3. \A s \in Slot : InFragment(s)' =>
        /\ val'[s] = NoSample /\ collected'[s] = 0
        /\ packet'[s] = val[s] /\ From <= s
  BY <1>1, FragmentFilled
<1>4. \A s \in Slot : ~InFragment(s)' =>
        /\ val'[s] = val[s] /\ collected'[s] = collected[s]
        /\ packet'[s] = NoSample
  BY <1>1, FragmentFilled
<1>5. ChunkInv'
  <2>1. start' \in Int /\ From \in Int /\ From < start'
    BY <1>1, <1>2 DEF Slot
  <2>2. \A s \in Slot : start' <= s => val'[s] # NoSample
    <3>1. ASSUME NEW s \in Slot, start' <= s PROVE From <= s /\ ~InFragment(s)'
      <4>1. s \in Int
        BY <1>1 DEF Slot
      <4>2. QED
        BY <2>1, <3>1, <4>1 DEF InFragment
    <3>2. QED
      BY <1>4, <3>1
  <2>3. start' # N => start' < N
    BY <1>1, <1>2 DEF Slot
  <2>4. QED
    BY <1>2, <2>2, <2>3 DEF ChunkInv
<1>6. PacketInv'
  <2>1. \A s \in Pulse : InFragment(s)' => packet'[s] = send_count'[s]
    BY <1>1, <1>3 DEF DataInv
  <2>2. QED
    BY <1>1, <1>3, <1>4, <2>1 DEF PacketInv
<1>7. DataInv'
  <2>1. \A s \in Slot : collected'[s] = 0 <=> val'[s] = NoSample
    BY <1>1, <1>3, <1>4 DEF DataInv
  <2>2. \A s \in Pulse : val'[s] # NoSample => val'[s] = send_count'[s]
    BY <1>1, <1>3, <1>4 DEF DataInv
  <2>3. QED
    BY <2>1, <2>2 DEF DataInv
<1>8. SampledInv'
  BY DEF SampledInv
<1>9. QED
  BY <1>5, <1>6, <1>7, <1>8

-----------------------------------------------------------------------------
(* The steps of the main loop.                                             *)

\* A slot is sampled in the second half of the interval, once.
LEMMA DueOnce ==
  ASSUME OneInterval, Types, NEW s \in Slot
  PROVE  SampleDue(s) <=> collected[s] = 0 /\ age >= 2
<1>1. Interval[s] = 1 /\ age \in 0..5 /\ ic \in Int /\ collected[s] \in {0, 1}
  BY DEF OneInterval, Types
<1>2. (ic % Interval[s]) * TransmitInterval = 0
  <2>1. ic % 1 = 0
    BY <1>1
  <2>2. QED
    BY <1>1, <2>1 DEF TransmitInterval
<1>3. collected[s] * Interval[s] * TransmitInterval = collected[s] * 4
  BY <1>1 DEF TransmitInterval
<1>4. (Interval[s] * TransmitInterval) \div 2 = 2
  BY <1>1 DEF TransmitInterval
<1>5. SampleDue(s) <=> age + 0 >= collected[s] * 4 + 2
  BY <1>2, <1>3, <1>4 DEF SampleDue
<1>6. QED
  BY <1>1, <1>5

\* A sampling keeps the invariant: it finds nothing of an earlier interval.
LEMMA SampleKeeps == ASSUME OneInterval, UpInv, Sample PROVE UpInv'
<1> DEFINE S == {s \in Slot : SampleDue(s)}
<1>1. /\ pc = "sample" /\ pc' = "send"
      /\ UNCHANGED <<link, age, ic, pending, start, prev, no_con, count, packet,
                     total, reported>>
      /\ val' = [s \in Slot |->
                   IF s \notin S THEN val[s]
                   ELSE Reading(s) + (IF val[s] = NoSample THEN 0 ELSE val[s])]
      /\ collected' = [s \in Slot |->
                         IF s \in S THEN collected[s] + 1 ELSE collected[s]]
      /\ send_count' = [s \in Pulse |-> IF s \in S THEN count[s] ELSE send_count[s]]
  BY DEF Sample, ReadAll, chunks
<1>2. Types /\ DataInv /\ \A s \in Pulse : s \in Slot
  BY UplinkAssumption DEF UpInv
<1>3. /\ \A s \in S : s \in Slot /\ collected[s] = 0 /\ age >= 2 /\ val[s] = NoSample
      /\ \A s \in Slot \ S : ~(collected[s] = 0 /\ age >= 2)
  BY <1>2, DueOnce DEF DataInv
<1>4. /\ val \in [Slot -> Nat \cup {NoSample}] /\ collected \in [Slot -> {0, 1}]
      /\ count \in [Pulse -> Nat] /\ send_count \in [Pulse -> Nat] /\ age \in 0..5
      /\ NoSample = -1
  BY <1>2 DEF Types, NoSample
<1> HIDE DEF S
<1>5. \A s \in Slot : Reading(s) \in Nat
  BY <1>4 DEF Reading
<1>6. \A s \in S : val'[s] = Reading(s) /\ collected'[s] = 1
  BY <1>1, <1>3, <1>5
<1>7. \A s \in Slot \ S : val'[s] = val[s] /\ collected'[s] = collected[s]
  BY <1>1
<1>8. /\ val' \in [Slot -> Nat \cup {NoSample}] /\ collected' \in [Slot -> {0, 1}]
  <2>1. \A s \in Slot : val'[s] \in Nat \cup {NoSample} /\ collected'[s] \in {0, 1}
    BY <1>4, <1>5, <1>6, <1>7
  <2>2. /\ DOMAIN val' = Slot /\ val' = [s \in Slot |-> val'[s]]
        /\ DOMAIN collected' = Slot /\ collected' = [s \in Slot |-> collected'[s]]
    BY <1>1
  <2>3. QED
    BY <2>1, <2>2
<1>9. send_count' \in [Pulse -> Nat]
  BY <1>1, <1>4
<1>10. Types'
  BY <1>1, <1>2, <1>8, <1>9 DEF Types
<1>11. ChunkInv'
  <2>1. \A s \in Slot : val[s] # NoSample => val'[s] # NoSample
    BY <1>3, <1>7
  <2>2. QED
    BY <1>1, <2>1 DEF UpInv, ChunkInv, NoFragment, InFlight
<1>12. PacketInv'
  <2>1. CASE InFlight /\ ~NoFragment
    <3>1. S = {}
      BY <1>3, <2>1 DEF UpInv, ChunkInv
    <3>2. \A s \in Slot : val'[s] = val[s]
      BY <1>7, <3>1
    <3>3. \A s \in Pulse : send_count'[s] = send_count[s]
      BY <1>1, <3>1
    <3>4. QED
      BY <1>1, <1>2, <3>2, <3>3 DEF UpInv, PacketInv, InFragment, InFlight
  <2>2. CASE NoFragment
    <3>1. \A s \in Slot : ~InFragment(s)
      BY <2>2 DEF NoFragment, InFragment, Slot
    <3>2. QED
      BY <1>1, <1>2, <3>1 DEF UpInv, PacketInv, InFragment, InFlight
  <2>3. CASE ~InFlight
    BY <1>1, <2>3 DEF PacketInv, InFlight
  <2>4. QED
    BY <2>1, <2>2, <2>3
<1>13. DataInv'
  <2>1. ASSUME NEW s \in Slot PROVE collected'[s] = 0 <=> val'[s] = NoSample
    BY <1>2, <1>4, <1>5, <1>6, <1>7 DEF DataInv
  <2>2. ASSUME NEW s \in Pulse, val'[s] # NoSample PROVE val'[s] = send_count'[s]
    <3>1. CASE s \in S
      BY <1>1, <1>6, <3>1 DEF Reading
    <3>2. CASE s \notin S
      BY <1>1, <1>2, <1>7, <2>2, <3>2 DEF DataInv
    <3>3. QED
      BY <3>1, <3>2
  <2>3. QED
    BY <2>1, <2>2 DEF DataInv
<1>14. SampledInv'
  <2>1. ASSUME age > 4, NEW s \in Slot PROVE val'[s] # NoSample
    BY <1>2, <1>3, <1>4, <1>5, <1>6, <1>7, <2>1 DEF DataInv
  <2>2. QED
    BY <1>1, <2>1 DEF SampledInv, Overdue, TransmitInterval
<1>15. CountInv'
  <2>1. \A s \in Pulse : send_count'[s] <= count'[s]
    BY <1>1, <1>4 DEF UpInv, CountInv
  <2>2. QED
    BY <1>1, <2>1 DEF UpInv, CountInv, PulsesKept
<1>16. QED
  BY <1>10, <1>11, <1>12, <1>13, <1>14, <1>15 DEF UpInv

\* _measurements_send: the fragment of a packet, or nothing but a send put off.
LEMMA SendKeeps == ASSUME OneInterval, UpInv, Send PROVE UpInv'
<1>1. /\ pc = "send" /\ pc' = "top" /\ ~no_con
      /\ UNCHANGED <<no_con, count, send_count, total, reported>>
  BY DEF Send, counter, UpInv, ChunkInv
<1>2. Types /\ N \in Nat \ {0} /\ \A s \in Pulse : s \in Slot
  BY UplinkAssumption DEF UpInv
<1>3. CountInv'
  BY <1>1 DEF UpInv, CountInv, PulsesKept
<1>4. CASE ~Overdue
  <2>1. UNCHANGED <<link, age, ic, pending, start, prev, val, collected, packet>>
    BY <1>4 DEF Send, chunks, data
  <2>2. Types' /\ ChunkInv' /\ PacketInv' /\ DataInv' /\ SampledInv'
    BY <1>1, <1>2, <2>1 DEF UpInv, Types, ChunkInv, NoFragment, InFlight, PacketInv,
       InFragment, DataInv, SampledInv
  <2>3. QED
    BY <1>3, <2>2 DEF UpInv
<1>5. CASE Overdue
  <2>1. \A s \in Slot : val[s] # NoSample
    BY <1>1, <1>5 DEF UpInv, SampledInv
  <2>2. PICK i : i = (ic + 1) % Cycle /\ ic' = i /\ SendWhenDue(i)
    BY <1>5 DEF Send
  <2>3. i \in Int
    BY <1>2, <2>2, UplinkAssumption DEF Types
  <2>4. CASE ~Connected \/ ~SendReady
    <3>1. /\ UNCHANGED <<val, collected>>
          /\ age' \in {age, 0}
          /\ link' = "down" \/ /\ ~pending /\ pending' /\ age' = 0
                               /\ UNCHANGED <<link, start, prev, packet>>
          /\ \/ UNCHANGED <<start, prev>> /\ pending' \in BOOLEAN
             \/ start' = 0 /\ prev' = 0 /\ pending' = FALSE
          /\ packet' = packet \/ packet' = NoPacket
      BY <2>2, <2>4 DEF SendWhenDue, Connected, SendReady, LinkLost, NoChunks, data
    <3>2. Types'
      <4>1. NoPacket \in [Slot -> Nat \cup {NoSample}]
        BY DEF NoPacket
      <4>2. link' \in LinkState /\ age' \in 0..5 /\ start' \in 0..N /\ prev' \in 0..N
        BY <1>2, <3>1 DEF Types, LinkState
      <4>3. QED
        BY <1>1, <1>2, <2>2, <2>3, <3>1, <4>1, <4>2 DEF Types
    <3>3. CASE link' = "down"
      <4>1. ChunkInv' /\ PacketInv' /\ SampledInv'
        BY <1>1, <3>3 DEF ChunkInv, InFlight, PacketInv, SampledInv
      <4>2. DataInv'
        BY <1>1, <3>1 DEF UpInv, DataInv
      <4>3. QED
        BY <1>3, <3>2, <4>1, <4>2 DEF UpInv
    <3>4. CASE link' # "down"
      <4>1. InFlight /\ UNCHANGED <<link, start, prev, packet>> /\ age' = 0
        BY <1>2, <2>4, <3>1, <3>4 DEF Types, LinkState, InFlight, Connected, SendReady
      <4>2. NoFragment
        BY <1>2, <1>5, <4>1 DEF UpInv, ChunkInv, Overdue, TransmitInterval
      <4>3. start' < N /\ link' # "idle"
        BY <1>2, <4>1, <4>2 DEF NoFragment, InFlight
      <4>4. ChunkInv'
        BY <1>1, <2>1, <3>1, <4>1, <4>3 DEF ChunkInv
      <4>5. PacketInv'
        BY <1>1, <3>1, <4>1 DEF UpInv, PacketInv, InFragment, InFlight
      <4>6. DataInv' /\ SampledInv'
        BY <1>1, <3>1 DEF UpInv, DataInv, SampledInv
      <4>7. QED
        BY <1>3, <3>2, <4>4, <4>5, <4>6 DEF UpInv
    <3>5. QED
      BY <3>3, <3>4
  <2>5. CASE SendReady
    <3>1. link = "idle" /\ FillPacket(i) /\ ~pending /\ age' = 0
      BY <2>2, <2>5 DEF SendWhenDue, SendReady, Connected, UpInv, ChunkInv, NoFragment
    <3>2. ChunkInv' /\ PacketInv' /\ DataInv' /\ SampledInv'
      <4>1. no_con' = FALSE
        BY <1>1, <1>2 DEF Types
      <4>2. \A s \in Slot : From <= s => val[s] # NoSample
        BY <2>1
      <4>3. /\ pc' # "send"
            /\ \A s \in Pulse : val[s] # NoSample => send_count'[s] = send_count[s]
        BY <1>1
      <4>4. QED
        BY <2>3, <3>1, <4>1, <4>2, <4>3, NewPacket
    <3>3. Types'
      <4>1. /\ start' \in (From + 1)..N /\ prev' = From /\ From \in Slot
            /\ link' = "wait_ok" /\ pending' = (start' # N)
            /\ val' \in [Slot -> Nat \cup {NoSample}] /\ collected' \in [Slot -> {0, 1}]
            /\ packet' \in [Slot -> Nat \cup {NoSample}]
        BY <1>2, <2>1, <2>3, <3>1, FragmentFilled
      <4>2. start' \in 0..N /\ prev' \in 0..N
        BY <1>2, <4>1 DEF Slot
      <4>3. QED
        BY <1>1, <1>2, <2>2, <2>3, <3>1, <4>1, <4>2 DEF Types, LinkState
    <3>4. QED
      BY <1>3, <3>2, <3>3 DEF UpInv
  <2>6. QED
    BY <2>4, <2>5
<1>6. QED
  BY <1>4, <1>5

\* The rest of the loop, with a packet that has no reading in it.
LEMMA PassKeeps ==
  ASSUME OneInterval, UpInv,
         PassDisconnected \/ PassReconnected \/ Pass \/ InstantSend
  PROVE  UpInv'
<1>1. UNCHANGED <<ic, val, collected, count, send_count, total, reported>>
  BY DEF PassDisconnected, PassReconnected, Pass, InstantSend, data, counter
<1>2. Types /\ N \in Nat \ {0}
  BY UplinkAssumption DEF UpInv
<1>3. DataInv' /\ CountInv'
  BY <1>1 DEF UpInv, DataInv, CountInv, PulsesKept
<1>4. CASE PassDisconnected
  <2>1. /\ link = "down" /\ pc = "top" /\ UNCHANGED <<link, pc, age, packet>>
        /\ no_con' = TRUE /\ pending' = FALSE /\ start' = 0 /\ prev' = 0
    BY <1>4 DEF PassDisconnected, NoticesLoss, Connected, NoChunks
  <2>2. Types'
    <3>1. start' = 0 /\ prev' = 0
      BY <2>1
    <3>2. start' \in 0..N /\ prev' \in 0..N
      BY <1>2, <3>1
    <3>3. no_con' \in BOOLEAN /\ pending' \in BOOLEAN
      BY <2>1, Zenon
    <3>4. UNCHANGED <<link, pc, age, packet>>
      BY <2>1
    <3>5. QED
      BY <1>1, <1>2, <3>2, <3>3, <3>4 DEF Types
  <2>3. ChunkInv' /\ PacketInv' /\ SampledInv'
    BY <2>1 DEF ChunkInv, NoFragment, InFlight, PacketInv, SampledInv
  <2>4. QED
    BY <1>3, <2>2, <2>3 DEF UpInv
<1>5. CASE PassReconnected
  <2>1. /\ no_con /\ no_con' = FALSE /\ age' = 0 /\ pc = "top"
        /\ UNCHANGED <<link, pc, pending, start, prev, packet>>
    BY <1>5 DEF PassReconnected, NoticesReturn, chunks
  <2>2. Types'
    <3>1. age' = 0 /\ UNCHANGED <<link, pc, pending, start, prev, packet>>
      BY <2>1
    <3>2. no_con' \in BOOLEAN
      BY <2>1, Zenon
    <3>3. QED
      BY <1>1, <1>2, <3>1, <3>2 DEF Types
  <2>3. ChunkInv' /\ SampledInv'
    BY <2>1 DEF UpInv, ChunkInv, NoFragment, InFlight, SampledInv
  <2>4. PacketInv'
    BY <1>1, <2>1 DEF UpInv, PacketInv, InFlight, InFragment
  <2>5. QED
    BY <1>3, <2>2, <2>3, <2>4 DEF UpInv
<1>6. CASE Pass
  <2>1. /\ ~no_con /\ pc' \in {"instant", "sample"}
        /\ UNCHANGED <<link, age, pending, start, prev, no_con, packet>>
    BY <1>6 DEF Pass, chunks
  <2>2. Types'
    <3>1. pc' \in {"top", "instant", "sample", "send"}
      BY <2>1
    <3>2. QED
      BY <1>1, <1>2, <2>1, <3>1 DEF Types
  <2>3. ChunkInv' /\ SampledInv'
    BY <1>1, <2>1 DEF UpInv, ChunkInv, NoFragment, InFlight, SampledInv
  <2>4. PacketInv'
    BY <1>1, <2>1 DEF UpInv, PacketInv, InFlight, InFragment
  <2>5. QED
    BY <1>3, <2>2, <2>3, <2>4 DEF UpInv
<1>7. CASE InstantSend
  <2>1. /\ pc = "instant" /\ pc' = "sample"
        /\ UNCHANGED <<age, pending, start, prev, no_con>>
        /\ \/ link = "idle" /\ link' = "wait_ok" /\ packet' = NoPacket
           \/ UNCHANGED <<link, packet>>
    BY <1>7 DEF InstantSend, SendReady, LinkSend, chunks
  <2>2. Types'
    <3>1. NoPacket \in [Slot -> Nat \cup {NoSample}]
      BY DEF NoPacket
    <3>2. QED
      BY <1>1, <1>2, <2>1, <3>1 DEF Types, LinkState
  <2>3. ChunkInv' /\ SampledInv'
    BY <1>1, <2>1 DEF UpInv, ChunkInv, NoFragment, InFlight, SampledInv
  <2>4. PacketInv'
    <3>1. CASE link = "idle" /\ link' = "wait_ok" /\ packet' = NoPacket
      <4>1. \A s \in Slot : ~InFragment(s)' /\ packet'[s] = NoSample
        BY <2>1, <3>1 DEF UpInv, ChunkInv, NoFragment, InFragment, NoPacket, Slot
      <4>2. QED
        BY <4>1, UplinkAssumption DEF PacketInv
    <3>2. CASE UNCHANGED <<link, packet>>
      BY <1>1, <2>1, <3>2 DEF UpInv, PacketInv, InFlight, InFragment
    <3>3. QED
      BY <2>1, <3>1, <3>2
  <2>5. QED
    BY <1>3, <2>2, <2>3, <2>4 DEF UpInv
<1>8. QED
  BY <1>4, <1>5, <1>6, <1>7

-----------------------------------------------------------------------------
(* The modem, the network, the interrupts and the clock.                   *)

\* A packet goes a step further, is lost, or is one with no reading in it.
LEMMA NetworkKeeps ==
  ASSUME OneInterval, UpInv,
         JoinNetwork \/ ModemOk \/ AckTimeout \/ Lost \/ SendErrorCode
  PROVE  UpInv'
<1>1. UNCHANGED <<pc, age, ic, no_con, val, collected, count, send_count, total, reported>>
  BY DEF JoinNetwork, ModemOk, AckTimeout, Lost, SendErrorCode, MainLoopVars, data, counter
<1>2. Types /\ N \in Nat \ {0} /\ NoPacket \in [Slot -> Nat \cup {NoSample}]
  BY UplinkAssumption DEF UpInv, NoPacket
<1>3. DataInv' /\ CountInv' /\ SampledInv'
  BY <1>1 DEF UpInv, DataInv, CountInv, PulsesKept, SampledInv, Overdue
<1>4. CASE JoinNetwork
  <2>1. /\ link = "down" /\ link' = "idle" /\ UNCHANGED <<pending, start, prev, packet>>
    BY <1>4 DEF JoinNetwork, LinkUp, chunks
  <2>2. no_con
    BY <1>4, <2>1 DEF JoinNetwork, NoticesLoss, Connected
  <2>3. Types'
    BY <1>1, <1>2, <2>1 DEF Types, LinkState
  <2>4. ChunkInv' /\ PacketInv'
    BY <1>1, <2>1, <2>2 DEF UpInv, ChunkInv, NoFragment, InFlight, PacketInv
  <2>5. QED
    BY <1>3, <2>3, <2>4 DEF UpInv
<1>5. CASE ModemOk
  <2>1. /\ link = "wait_ok" /\ link' = "wait_ack"
        /\ UNCHANGED <<pending, start, prev, packet>>
    BY <1>5 DEF ModemOk, LinkOk, chunks
  <2>2. Types'
    BY <1>1, <1>2, <2>1 DEF Types, LinkState
  <2>3. ChunkInv'
    BY <1>1, <2>1 DEF UpInv, ChunkInv, NoFragment, InFlight
  <2>4. PacketInv'
    BY <1>1, <2>1 DEF UpInv, InFlight, PacketInv, InFragment
  <2>5. QED
    BY <1>3, <2>2, <2>3, <2>4 DEF UpInv
<1>6. CASE AckTimeout \/ Lost
  <2>1. /\ link' = "down" /\ packet' = NoPacket
        /\ \/ UNCHANGED <<pending, start, prev>>
           \/ pending' = FALSE /\ start' = 0 /\ prev' = 0
    BY <1>6 DEF AckTimeout, Lost, LinkAckTimeout, LinkLost, NoChunks, chunks
  <2>2. pending' \in BOOLEAN /\ start' \in 0..N /\ prev' \in 0..N
    <3>1. start' \in {start, 0} /\ prev' \in {prev, 0}
      BY <2>1
    <3>2. pending' \in BOOLEAN
      BY <1>2, <2>1, Zenon DEF Types
    <3>3. QED
      BY <1>2, <3>1, <3>2 DEF Types
  <2>3. Types'
    BY <1>1, <1>2, <2>1, <2>2 DEF Types, LinkState
  <2>4. ChunkInv' /\ PacketInv'
    BY <1>1, <2>1 DEF UpInv, ChunkInv, NoFragment, InFlight, PacketInv
  <2>5. QED
    BY <1>3, <2>3, <2>4 DEF UpInv
<1>7. CASE SendErrorCode
  <2>1. /\ link = "idle" /\ link' = "wait_ok" /\ packet' = NoPacket
        /\ UNCHANGED <<pending, start, prev>>
    BY <1>7 DEF SendErrorCode, LinkSend, chunks
  <2>2. Types'
    BY <1>1, <1>2, <2>1 DEF Types, LinkState
  <2>3. NoFragment /\ NoFragment'
    BY <2>1 DEF UpInv, ChunkInv, NoFragment
  <2>4. ChunkInv'
    BY <1>1, <2>1, <2>3 DEF UpInv, ChunkInv, NoFragment
  <2>5. \A s \in Slot : ~InFragment(s)' /\ packet'[s] = NoSample
    BY <2>1, <2>3 DEF NoFragment, InFragment, NoPacket, Slot
  <2>6. PacketInv'
    BY <2>5, UplinkAssumption DEF PacketInv
  <2>7. QED
    BY <1>3, <2>2, <2>4, <2>6 DEF UpInv
<1>8. QED
  BY <1>4, <1>5, <1>6, <1>7

\* on_protocol_sent_ack: what is taken off the counters is what the packet said,
\* and the next fragment is of slots that were not told.
LEMMA AckTakesOff ==
  ASSUME UpInv, Ack, NEW s \in Pulse
  PROVE  /\ InFragment(s) => /\ packet[s] = send_count[s]
                             /\ count'[s] = count[s] - send_count[s]
                             /\ send_count'[s] = 0 /\ val[s] = NoSample
                             /\ reported'[s] = reported[s] + send_count[s]
         /\ ~InFragment(s) => /\ count'[s] = count[s] /\ send_count'[s] = send_count[s]
                              /\ reported'[s] = reported[s]
<1>1. link = "wait_ack" /\ TakeOff /\ UNCHANGED total
      /\ reported' = [t \in Pulse |-> reported[t]
                        + (IF packet[t] = NoSample THEN 0 ELSE packet[t])]
  BY DEF Ack
<1>2. s \in Slot /\ send_count[s] \in Nat /\ reported[s] \in Int /\ NoSample = -1
  BY UplinkAssumption DEF UpInv, Types, NoSample
<1>3. s \in Told <=> InFragment(s)
  BY DEF Told, InFragment
<1>4. /\ InFragment(s) => packet[s] = send_count[s] /\ val[s] = NoSample
      /\ ~InFragment(s) => packet[s] = NoSample
  BY <1>1, <1>2 DEF UpInv, PacketInv, InFlight
<1>5. /\ InFragment(s) => count'[s] = count[s] - send_count[s] /\ send_count'[s] = 0
      /\ ~InFragment(s) => count'[s] = count[s] /\ send_count'[s] = send_count[s]
  BY <1>1, <1>3 DEF TakeOff
<1>6. /\ InFragment(s) => reported'[s] = reported[s] + send_count[s]
      /\ ~InFragment(s) => reported'[s] = reported[s]
  <2>1. reported'[s] = reported[s] + (IF packet[s] = NoSample THEN 0 ELSE packet[s])
    BY <1>1
  <2>2. QED
    BY <1>2, <1>4, <2>1
<1>7. QED
  BY <1>4, <1>5, <1>6

\* So does an acknowledgement, with the next fragment it sends.
LEMMA AckKeeps == ASSUME OneInterval, UpInv, Ack PROVE UpInv'
<1>1. /\ link = "wait_ack" /\ TakeOff /\ pc = "top"
      /\ UNCHANGED <<pc, age, ic, no_con, total>>
      /\ reported' = [t \in Pulse |-> reported[t]
                        + (IF packet[t] = NoSample THEN 0 ELSE packet[t])]
      /\ IF pending THEN FillPacket(ic)
         ELSE /\ LinkAck /\ packet' = NoPacket /\ NoChunks
              /\ UNCHANGED <<dropping, data>>
  BY DEF Ack, MainLoopVars
<1>2. Types /\ N \in Nat \ {0} /\ NoPacket \in [Slot -> Nat \cup {NoSample}]
      /\ \A s \in Pulse : s \in Slot
  BY UplinkAssumption DEF UpInv, NoPacket
<1>3. /\ count \in [Pulse -> Nat] /\ send_count \in [Pulse -> Nat] /\ ic \in Int
      /\ total \in [Pulse -> Int] /\ reported \in [Pulse -> Int]
  BY <1>2 DEF Types
<1>4. \A s \in Pulse : val[s] # NoSample => send_count'[s] = send_count[s]
  BY AckTakesOff
<1>5. CountInv' /\ count' \in [Pulse -> Nat] /\ send_count' \in [Pulse -> Nat]
      /\ reported' \in [Pulse -> Int]
  <2>1. ASSUME NEW s \in Pulse
        PROVE  /\ count'[s] \in Nat /\ send_count'[s] \in Nat /\ reported'[s] \in Int
               /\ send_count'[s] <= count'[s] /\ count'[s] + reported'[s] = total'[s]
    <3>1. /\ count[s] \in Nat /\ send_count[s] \in Nat /\ reported[s] \in Int
          /\ total[s] \in Int /\ send_count[s] <= count[s]
          /\ count[s] + reported[s] = total[s]
      BY <1>3 DEF UpInv, CountInv, PulsesKept
    <3>2. CASE InFragment(s)
      <4>1. /\ count'[s] = count[s] - send_count[s] /\ send_count'[s] = 0
            /\ reported'[s] = reported[s] + send_count[s]
        BY <3>2, AckTakesOff
      <4>2. QED
        BY <1>1, <3>1, <4>1
    <3>3. CASE ~InFragment(s)
      <4>1. /\ count'[s] = count[s] /\ send_count'[s] = send_count[s]
            /\ reported'[s] = reported[s]
        BY <3>3, AckTakesOff
      <4>2. QED
        BY <1>1, <3>1, <4>1
    <3>4. QED
      BY <3>2, <3>3
  <2>2. /\ count' = [s \in Pulse |-> count'[s]]
        /\ send_count' = [s \in Pulse |-> send_count'[s]]
        /\ reported' = [s \in Pulse |-> reported'[s]]
    BY <1>1 DEF TakeOff
  <2>3. CountInv'
    BY <2>1 DEF CountInv, PulsesKept
  <2>4. QED
    BY <2>1, <2>2, <2>3
<1>6. CASE pending
  <2>1. FillPacket(ic) /\ InFlight
    BY <1>1, <1>6 DEF InFlight
  <2>2. no_con' = FALSE /\ age' = 0 /\ start < N
        /\ \A s \in Slot : start <= s => val[s] # NoSample
    BY <1>1, <1>2, <1>6, <2>1 DEF UpInv, ChunkInv, NoFragment, Types
  <2>3. \A s \in Slot : From <= s => val[s] # NoSample
    BY <1>2, <2>2, FromIsSlot DEF Types
  <2>4. pc' # "send"
    BY <1>1
  <2>5. ChunkInv' /\ PacketInv' /\ DataInv' /\ SampledInv'
    BY <1>3, <1>4, <2>1, <2>2, <2>3, <2>4, NewPacket
  <2>6. /\ start' \in (From + 1)..N /\ prev' = From /\ From \in Slot
        /\ link' = "wait_ok" /\ pending' = (start' # N)
        /\ val' \in [Slot -> Nat \cup {NoSample}] /\ collected' \in [Slot -> {0, 1}]
        /\ packet' \in [Slot -> Nat \cup {NoSample}]
    BY <1>2, <1>3, <2>1, <2>3, FragmentFilled
  <2>7. start' \in 0..N /\ prev' \in 0..N
    BY <1>2, <2>6 DEF Slot
  <2>8. Types'
    BY <1>1, <1>2, <1>5, <2>6, <2>7 DEF Types, LinkState
  <2>9. QED
    BY <1>5, <2>5, <2>8 DEF UpInv
<1>7. CASE ~pending
  <2>1. /\ link' = "idle" /\ packet' = NoPacket /\ pending' = FALSE
        /\ start' = 0 /\ prev' = 0 /\ UNCHANGED <<val, collected>>
    BY <1>1, <1>7 DEF LinkAck, NoChunks, data
  <2>2. start' \in 0..N /\ prev' \in 0..N /\ pending' \in BOOLEAN
    <3>1. start' = 0 /\ prev' = 0
      BY <2>1
    <3>2. pending' \in BOOLEAN
      BY <2>1, Zenon
    <3>3. QED
      BY <1>2, <3>1, <3>2
  <2>3. Types'
    BY <1>1, <1>2, <1>5, <2>1, <2>2 DEF Types, LinkState
  <2>4. ChunkInv' /\ PacketInv' /\ SampledInv'
    BY <1>1, <2>1 DEF UpInv, ChunkInv, NoFragment, InFlight, PacketInv, SampledInv
  <2>5. DataInv'
    BY <1>4, <2>1 DEF UpInv, DataInv
  <2>6. QED
    BY <1>5, <2>3, <2>4, <2>5 DEF UpInv
<1>8. QED
  BY <1>6, <1>7

\* A pulse is on its counter.
LEMMA PulseKeeps == ASSUME UpInv, NEW s \in Pulse, PulseISR(s) PROVE UpInv'
<1>1. /\ UNCHANGED <<link, pc, age, ic, pending, start, prev, no_con, val, collected,
                     send_count, packet, reported>>
      /\ count' = [count EXCEPT ![s] = @ + 1] /\ total' = [total EXCEPT ![s] = @ + 1]
  BY DEF PulseISR, chunks, data
<1>2. /\ count \in [Pulse -> Nat] /\ send_count \in [Pulse -> Nat]
      /\ total \in [Pulse -> Int] /\ reported \in [Pulse -> Int]
  BY DEF UpInv, Types
<1>3. count' \in [Pulse -> Nat] /\ total' \in [Pulse -> Int]
  BY <1>1, <1>2
<1>4. Types'
  BY <1>1, <1>3 DEF UpInv, Types
<1>5. CountInv'
  BY <1>1, <1>2 DEF UpInv, CountInv, PulsesKept
<1>6. ChunkInv' /\ SampledInv' /\ DataInv'
  BY <1>1 DEF UpInv, ChunkInv, NoFragment, InFlight, SampledInv, Overdue, DataInv
<1>7. PacketInv'
  BY <1>1 DEF UpInv, PacketInv, InFlight, InFragment
<1>8. QED
  BY <1>4, <1>5, <1>6, <1>7 DEF UpInv

\* No time passes while a packet is on its way.
LEMMA TickKeeps == ASSUME OneInterval, UpInv, Tick PROVE UpInv'
<1>1. /\ UNCHANGED <<link, pc, ic, pending, start, prev, no_con, val, collected, count,
                     send_count, packet, total, reported>>
      /\ age' = (IF Overdue THEN age ELSE age + 1)
      /\ ~InFlight /\ pc = "top"
  BY DEF Tick, OneInterval, InFlight, chunks, data, counter
<1>2. age \in 0..5
  BY DEF UpInv, Types
<1>3. age' \in 0..5
  BY <1>1, <1>2 DEF Overdue, TransmitInterval
<1>4. Types'
  BY <1>1, <1>3 DEF UpInv, Types
<1>5. DataInv' /\ CountInv' /\ SampledInv'
  BY <1>1 DEF UpInv, DataInv, CountInv, PulsesKept, SampledInv
<1>6. ChunkInv' /\ PacketInv'
  BY <1>1 DEF UpInv, ChunkInv, NoFragment, InFlight, PacketInv
<1>7. QED
  BY <1>4, <1>5, <1>6 DEF UpInv

\* What changes nothing the invariant speaks of.
LEMMA NothingKeeps ==
  ASSUME UpInv, (\E s \in Slot \ Pulse : WatchISR(s)) \/ UNCHANGED vars
  PROVE  UpInv'
<1>1. UNCHANGED <<link, pc, age, ic, pending, start, prev, no_con, val, collected, count,
                  send_count, packet, total, reported>>
  BY DEF WatchISR, vars, chunks, data, counter
<1>2. Types' /\ ChunkInv' /\ DataInv' /\ SampledInv' /\ CountInv'
  BY <1>1 DEF UpInv, Types, ChunkInv, NoFragment, InFlight, DataInv, SampledInv,
     Overdue, CountInv, PulsesKept
<1>3. PacketInv'
  BY <1>1 DEF UpInv, PacketInv, InFlight, InFragment
<1>4. QED
  BY <1>2, <1>3 DEF UpInv

-----------------------------------------------------------------------------

\* The sensor starts with nothing sampled, counted or sent.
LEMMA UpInvInit == ASSUME Init PROVE UpInv
<1>1. N \in Nat \ {0} /\ \A s \in Pulse : s \in Slot
  BY UplinkAssumption
<1>2. /\ link = "down" /\ pc = "top" /\ age = 0 /\ ic = 0 /\ start = 0 /\ prev = 0
      /\ pending = FALSE /\ no_con = FALSE
      /\ val = [s \in Slot |-> NoSample] /\ collected = [s \in Slot |-> 0]
      /\ packet = NoPacket
  BY DEF Init, LinkInit
<1>3. /\ count = [s \in Pulse |-> 0] /\ send_count = [s \in Pulse |-> 0]
      /\ total = [s \in Pulse |-> 0] /\ reported = [s \in Pulse |-> 0]
  BY DEF Init
<1>4. /\ count \in [Pulse -> Nat] /\ send_count \in [Pulse -> Nat]
      /\ total \in [Pulse -> Int] /\ reported \in [Pulse -> Int]
  BY <1>3
<1>5. /\ val \in [Slot -> Nat \cup {NoSample}] /\ collected \in [Slot -> {0, 1}]
      /\ packet \in [Slot -> Nat \cup {NoSample}]
  BY <1>2 DEF NoPacket
<1>6. age \in 0..5 /\ ic \in Int /\ start \in 0..N /\ prev \in 0..N
  BY <1>1, <1>2
<1>7. Types
  BY <1>2, <1>4, <1>5, <1>6 DEF Types, LinkState
<1>8. ChunkInv /\ PacketInv /\ SampledInv
  BY <1>2 DEF ChunkInv, InFlight, PacketInv, SampledInv
<1>9. DataInv
  BY <1>1, <1>2 DEF DataInv
<1>10. CountInv
  BY <1>3 DEF CountInv, PulsesKept
<1>11. QED
  BY <1>7, <1>8, <1>9, <1>10 DEF UpInv

\* With MaxReads = 0 no command reads a counter.
LEMMA NoReads ==
  ASSUME OneInterval, reads \in Nat, [Next]_vars
  PROVE  reads' \in Nat /\ \A s \in Pulse : ~ReadCommand(s)
<1>1. \A s \in Pulse : ~ReadCommand(s)
  BY DEF ReadCommand, OneInterval
<1>2. UNCHANGED reads
  BY <1>1 DEF Next, MainLoop, PassDisconnected, PassReconnected, Pass, InstantSend, Sample,
     Send, JoinNetwork, ModemOk, Ack, AckTimeout, Lost, SendErrorCode, PulseISR, WatchISR,
     Tick, bounds, vars
<1>3. QED
  BY <1>1, <1>2

\* Every step keeps the invariant.
LEMMA UpInvStep == ASSUME OneInterval, UpInv, reads \in Nat, [Next]_vars PROVE UpInv'
<1>1. CASE MainLoop
  BY <1>1, PassKeeps, SampleKeeps, SendKeeps DEF MainLoop
<1>2. CASE JoinNetwork \/ ModemOk \/ AckTimeout \/ Lost \/ SendErrorCode
  BY <1>2, NetworkKeeps
<1>3. CASE Ack
  BY <1>3, AckKeeps
<1>4. CASE \E s \in Pulse : PulseISR(s)
  BY <1>4, PulseKeeps
<1>5. CASE \E s \in Pulse : ReadCommand(s)
  BY <1>5, NoReads
<1>6. CASE (\E s \in Slot \ Pulse : WatchISR(s)) \/ UNCHANGED vars
  BY <1>6, NothingKeeps
<1>7. CASE Tick
  BY <1>7, TickKeeps
<1>8. QED
  BY <1>1, <1>2, <1>3, <1>4, <1>5, <1>6, <1>7 DEF Next

\* The invariant holds in every state of the specification.
LEMMA UpAlways == ASSUME OneInterval PROVE Spec => []UpInv
<1> DEFINE I == UpInv /\ reads \in Nat
<1>1. Init => I
  <2>1. Init => reads = 0
    BY DEF Init
  <2>2. QED
    BY <2>1, UpInvInit
<1>2. I /\ [Next]_vars => I'
  BY UpInvStep, NoReads
<1>3. I => UpInv
  OBVIOUS
<1>4. QED
  BY <1>1, <1>2, <1>3, PTL DEF Spec

\* No pulse is lost and none is told twice, and no fragment of a send is left
\* out: what PromptNoFragmentForgotten checks of the run uplink, for any number
\* of slots, counters, measurements to a packet, pulses and losses.
THEOREM UplinkKeepsPulses ==
  ASSUME OneInterval
  PROVE  Spec => [](NoFragmentForgotten /\ PulsesKept)
<1>1. UpInv => NoFragmentForgotten /\ PulsesKept
  BY DEF UpInv, ChunkInv, NoFragment, CountInv, NoFragmentForgotten
<1>2. QED
  BY <1>1, UpAlways, PTL

\* What the run uplink checks of its instance with prompt answers, for any
\* numbers of slots, counters, pulses and losses.
THEOREM UplinkPromptForgetsNothing ==
  ASSUME OneInterval
  PROVE  MCSpec => []PromptNoFragmentForgotten
<1> DEFINE I == Prompt => UpInv /\ reads \in Nat
<1>1. MCInit => I
  <2>1. Init => UpInv
    BY UpInvInit
  <2>2. Init => reads = 0
    BY DEF Init
  <2>3. QED
    BY <2>1, <2>2 DEF MCInit, Prompt
<1>2. I /\ [MCNext]_<<instance, vars>> => I'
  <2> SUFFICES ASSUME I, [MCNext]_<<instance, vars>>, Prompt'
               PROVE  UpInv' /\ (reads \in Nat)'
    OBVIOUS
  <2>1. instance' = instance
    BY DEF MCNext
  <2>2. Prompt
    BY <2>1 DEF Prompt
  <2>3. [Next]_vars
    BY <2>2 DEF MCNext, Prompt
  <2>4. QED
    BY <2>2, <2>3, UpInvStep, NoReads
<1>3. I => PromptNoFragmentForgotten
  BY DEF UpInv, ChunkInv, NoFragment, CountInv, NoFragmentForgotten, PromptNoFragmentForgotten
<1>4. QED
  BY <1>1, <1>2, <1>3, PTL DEF MCSpec
-----------------------------------------------------------------------------
(* The types of both instances.                                             *)

\* The second instance once more, with what UplinkTypeProofs says of it.
SlowTypes == INSTANCE UplinkTypeProofs WITH
  N <- 2, Pulse <- MCOnePulse, Interval <- MCSlowEvery, Cycle <- 2, Fits <- 1,
  PromptAck <- FALSE, MaxPulses <- 1, MaxLosses <- 1, MaxExtras <- 1, MaxReads <- 1

\* Both copies of the second instance take the same steps.
LEMMA SlowNext == Slow!Next => SlowTypes!Next
<1>1. Slow!PassDisconnected => SlowTypes!PassDisconnected
  BY DEF Slow!PassDisconnected, Slow!NoticesLoss, Slow!Connected, Slow!NoChunks, Slow!data,
     Slow!counter, Slow!bounds, SlowTypes!PassDisconnected, SlowTypes!NoticesLoss,
     SlowTypes!Connected, SlowTypes!NoChunks, SlowTypes!data, SlowTypes!counter,
     SlowTypes!bounds
<1>2. Slow!PassReconnected => SlowTypes!PassReconnected
  BY DEF Slow!PassReconnected, Slow!NoticesReturn, Slow!Connected, Slow!chunks, Slow!data,
     Slow!counter, Slow!bounds, SlowTypes!PassReconnected, SlowTypes!NoticesReturn,
     SlowTypes!Connected, SlowTypes!chunks, SlowTypes!data, SlowTypes!counter,
     SlowTypes!bounds
<1>3. Slow!Pass => SlowTypes!Pass
  BY DEF Slow!Pass, Slow!HasWork, Slow!NoticesLoss, Slow!Connected, Slow!NoticesReturn,
     Slow!ToSendInstantly, Slow!SendReady, Slow!Overdue, Slow!TransmitInterval, Slow!Slot,
     Slow!SampleDue, Slow!Cardinality, Slow!chunks, Slow!data, Slow!counter, Slow!bounds,
     SlowTypes!Pass, SlowTypes!HasWork, SlowTypes!NoticesLoss, SlowTypes!Connected,
     SlowTypes!NoticesReturn, SlowTypes!ToSendInstantly, SlowTypes!SendReady,
     SlowTypes!Overdue, SlowTypes!TransmitInterval, SlowTypes!Slot, SlowTypes!SampleDue,
     SlowTypes!Cardinality, SlowTypes!chunks, SlowTypes!data, SlowTypes!counter,
     SlowTypes!bounds
<1>4. Slow!InstantSend => SlowTypes!InstantSend
  BY DEF Slow!InstantSend, Slow!SendReady, Slow!TooSoon, Slow!LinkSend, Slow!NoPacket,
     Slow!Slot, Slow!NoSample, Slow!chunks, Slow!data, Slow!counter, Slow!bounds,
     SlowTypes!InstantSend, SlowTypes!SendReady, SlowTypes!TooSoon, SlowTypes!LinkSend,
     SlowTypes!NoPacket, SlowTypes!Slot, SlowTypes!NoSample, SlowTypes!chunks,
     SlowTypes!data, SlowTypes!counter, SlowTypes!bounds
<1>5. Slow!Sample => SlowTypes!Sample
  BY DEF Slow!Sample, Slow!Slot, Slow!SampleDue, Slow!TransmitInterval, Slow!Reading,
     Slow!NoSample, Slow!ReadAll, Slow!chunks, Slow!bounds, SlowTypes!Sample,
     SlowTypes!Slot, SlowTypes!SampleDue, SlowTypes!TransmitInterval, SlowTypes!Reading,
     SlowTypes!NoSample, SlowTypes!ReadAll, SlowTypes!chunks, SlowTypes!bounds
<1>6. Slow!Send => SlowTypes!Send
  BY DEF Slow!Send, Slow!Overdue, Slow!TransmitInterval, Slow!SendWhenDue, Slow!Connected,
     Slow!NoChunks, Slow!data, Slow!SendReady, Slow!LinkLost, Slow!NoPacket, Slow!Slot,
     Slow!NoSample, Slow!FillPacket, Slow!StopAt, Slow!Listed, Slow!From, Slow!Cardinality,
     Slow!Min, Slow!chunks, Slow!counter, Slow!bounds, SlowTypes!Send, SlowTypes!Overdue,
     SlowTypes!TransmitInterval, SlowTypes!SendWhenDue, SlowTypes!Connected,
     SlowTypes!NoChunks, SlowTypes!data, SlowTypes!SendReady, SlowTypes!LinkLost,
     SlowTypes!NoPacket, SlowTypes!Slot, SlowTypes!NoSample, SlowTypes!FillPacket,
     SlowTypes!StopAt, SlowTypes!Listed, SlowTypes!From, SlowTypes!Cardinality,
     SlowTypes!Min, SlowTypes!chunks, SlowTypes!counter, SlowTypes!bounds
<1>7. Slow!JoinNetwork => SlowTypes!JoinNetwork
  BY DEF Slow!JoinNetwork, Slow!NoticesLoss, Slow!Connected, Slow!LinkUp, Slow!MainLoopVars,
     Slow!chunks, Slow!data, Slow!counter, Slow!bounds, SlowTypes!JoinNetwork,
     SlowTypes!NoticesLoss, SlowTypes!Connected, SlowTypes!LinkUp, SlowTypes!MainLoopVars,
     SlowTypes!chunks, SlowTypes!data, SlowTypes!counter, SlowTypes!bounds
<1>8. Slow!ModemOk => SlowTypes!ModemOk
  BY DEF Slow!ModemOk, Slow!LinkOk, Slow!MainLoopVars, Slow!chunks, Slow!data, Slow!counter,
     Slow!bounds, SlowTypes!ModemOk, SlowTypes!LinkOk, SlowTypes!MainLoopVars,
     SlowTypes!chunks, SlowTypes!data, SlowTypes!counter, SlowTypes!bounds
<1>9. Slow!Ack => SlowTypes!Ack
  BY DEF Slow!Ack, Slow!TakeOff, Slow!Told, Slow!NoSample, Slow!FillPacket, Slow!StopAt,
     Slow!Listed, Slow!From, Slow!Cardinality, Slow!Min, Slow!Slot, Slow!LinkAck,
     Slow!NoPacket, Slow!NoChunks, Slow!data, Slow!MainLoopVars, Slow!bounds, SlowTypes!Ack,
     SlowTypes!TakeOff, SlowTypes!Told, SlowTypes!NoSample, SlowTypes!FillPacket,
     SlowTypes!StopAt, SlowTypes!Listed, SlowTypes!From, SlowTypes!Cardinality,
     SlowTypes!Min, SlowTypes!Slot, SlowTypes!LinkAck, SlowTypes!NoPacket,
     SlowTypes!NoChunks, SlowTypes!data, SlowTypes!MainLoopVars, SlowTypes!bounds
<1>10. Slow!AckTimeout => SlowTypes!AckTimeout
  BY DEF Slow!AckTimeout, Slow!LinkAckTimeout, Slow!NoPacket, Slow!Slot, Slow!NoSample,
     Slow!NoChunks, Slow!MainLoopVars, Slow!data, Slow!counter, SlowTypes!AckTimeout,
     SlowTypes!LinkAckTimeout, SlowTypes!NoPacket, SlowTypes!Slot, SlowTypes!NoSample,
     SlowTypes!NoChunks, SlowTypes!MainLoopVars, SlowTypes!data, SlowTypes!counter
<1>11. Slow!Lost => SlowTypes!Lost
  BY DEF Slow!Lost, Slow!LinkLost, Slow!NoPacket, Slow!Slot, Slow!NoSample,
     Slow!MainLoopVars, Slow!chunks, Slow!data, Slow!counter, SlowTypes!Lost,
     SlowTypes!LinkLost, SlowTypes!NoPacket, SlowTypes!Slot, SlowTypes!NoSample,
     SlowTypes!MainLoopVars, SlowTypes!chunks, SlowTypes!data, SlowTypes!counter
<1>12. Slow!SendErrorCode => SlowTypes!SendErrorCode
  BY DEF Slow!SendErrorCode, Slow!LinkSend, Slow!NoPacket, Slow!Slot, Slow!NoSample,
     Slow!MainLoopVars, Slow!chunks, Slow!data, Slow!counter, SlowTypes!SendErrorCode,
     SlowTypes!LinkSend, SlowTypes!NoPacket, SlowTypes!Slot, SlowTypes!NoSample,
     SlowTypes!MainLoopVars, SlowTypes!chunks, SlowTypes!data, SlowTypes!counter
<1>13. Slow!Tick => SlowTypes!Tick
  BY DEF Slow!Tick, Slow!HasWork, Slow!NoticesLoss, Slow!Connected, Slow!NoticesReturn,
     Slow!ToSendInstantly, Slow!SendReady, Slow!Overdue, Slow!TransmitInterval, Slow!Slot,
     Slow!SampleDue, Slow!chunks, Slow!data, Slow!counter, Slow!bounds, SlowTypes!Tick,
     SlowTypes!HasWork, SlowTypes!NoticesLoss, SlowTypes!Connected, SlowTypes!NoticesReturn,
     SlowTypes!ToSendInstantly, SlowTypes!SendReady, SlowTypes!Overdue,
     SlowTypes!TransmitInterval, SlowTypes!Slot, SlowTypes!SampleDue, SlowTypes!chunks,
     SlowTypes!data, SlowTypes!counter, SlowTypes!bounds
<1>14. \A s : Slow!PulseISR(s) => SlowTypes!PulseISR(s)
  BY DEF Slow!PulseISR, Slow!chunks, Slow!data, Slow!bounds, SlowTypes!PulseISR,
     SlowTypes!chunks, SlowTypes!data, SlowTypes!bounds
<1>15. \A s : Slow!ReadCommand(s) => SlowTypes!ReadCommand(s)
  BY DEF Slow!ReadCommand, Slow!ReadAll, Slow!chunks, Slow!data, SlowTypes!ReadCommand,
     SlowTypes!ReadAll, SlowTypes!chunks, SlowTypes!data
<1>16. \A s : Slow!WatchISR(s) => SlowTypes!WatchISR(s)
  BY DEF Slow!WatchISR, Slow!chunks, Slow!data, Slow!counter, SlowTypes!WatchISR,
     SlowTypes!chunks, SlowTypes!data, SlowTypes!counter
<1>17. QED
  BY <1>1, <1>2, <1>3, <1>4, <1>5, <1>6, <1>7, <1>8,
     <1>9, <1>10, <1>11, <1>12, <1>13, <1>14, <1>15, <1>16
  DEF Slow!Next, SlowTypes!Next, Slow!MainLoop, SlowTypes!MainLoop, Slow!Slot, SlowTypes!Slot

\* The invariant: that of UplinkTypes, in either instance.
BothTypes == (Prompt => CountTypes) /\ (Late => SlowTypes!CountTypes)

\* The second instance is one: it has slots and counters as Uplink assumes.
LEMMA SlowIsUplink == SlowTypes!UplinkAssumption
<1>1. SlowTypes!Slot = {0, 1}
  BY DEF SlowTypes!Slot
<1>2. MCSlowEvery \in [{0, 1} -> 1..2] /\ MCSlowEvery[0] = 2 /\ MCSlowEvery[1] = 1
  BY DEF MCSlowEvery
<1>3. \A s \in {0, 1} : 2 % MCSlowEvery[s] = 0
  BY <1>2
<1>4. {1} \subseteq Nat /\ MCOnePulse \subseteq {0, 1} /\ FALSE \in BOOLEAN
  BY DEF MCOnePulse
<1>5. QED
  BY <1>1, <1>2, <1>3, <1>4 DEF SlowTypes!UplinkAssumption

LEMMA BothTypesStep == ASSUME BothTypes, [MCNext]_<<instance, vars>> PROVE BothTypes'
<1>1. instance' = instance
  BY DEF MCNext
<1>2. Prompt => CountTypes'
  <2>1. Prompt => [Next]_vars
    BY DEF MCNext, Prompt
  <2>2. QED
    BY <2>1, CountTypesStep DEF BothTypes
<1>3. Late => SlowTypes!CountTypes'
  <2>1. Late => [SlowTypes!Next]_(SlowTypes!vars)
    BY SlowNext DEF MCNext, Late, vars, chunks, data, counter, bounds,
       SlowTypes!vars, SlowTypes!chunks, SlowTypes!data, SlowTypes!counter, SlowTypes!bounds
  <2>2. QED
    BY <2>1, SlowIsUplink, SlowTypes!CountTypesStep DEF BothTypes
<1>4. QED
  BY <1>1, <1>2, <1>3 DEF BothTypes, Prompt, Late

\* TypeOK holds of both instances of Uplink the model checker is given.
THEOREM UplinkKeepsTypes == MCSpec => []UplinkTypeOK
<1>1. MCInit => BothTypes
  <2>1. Slow!Init => SlowTypes!Init
    BY DEF Slow!Init, SlowTypes!Init, Slow!LinkInit, SlowTypes!LinkInit, Slow!Slot, SlowTypes!Slot,
       Slow!NoSample, SlowTypes!NoSample, Slow!NoPacket, SlowTypes!NoPacket
  <2>2. QED
    BY <2>1, CountTypesInit, SlowIsUplink, SlowTypes!CountTypesInit DEF MCInit, BothTypes, Prompt, Late
<1>2. BothTypes /\ [MCNext]_<<instance, vars>> => BothTypes'
  BY BothTypesStep
<1>3. BothTypes => UplinkTypeOK
  <2>1. SlowTypes!TypeOK => Slow!TypeOK
    BY DEF Slow!TypeOK, SlowTypes!TypeOK, Slow!LinkState, SlowTypes!LinkState, Slow!Slot, SlowTypes!Slot,
       Slow!NoSample, SlowTypes!NoSample, Slow!TransmitInterval, SlowTypes!TransmitInterval
  <2>2. QED
    BY <2>1 DEF BothTypes, UplinkTypeOK, CountTypes, SlowTypes!CountTypes
<1>4. QED
  BY <1>1, <1>2, <1>3, PTL DEF MCSpec
=============================================================================
