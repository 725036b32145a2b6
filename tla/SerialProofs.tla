---------------------------- MODULE SerialProofs -----------------------------
(***************************************************************************)
(* Theorems about the serial ports and what they carry.  About Ring, for a *)
(* producer that is an interrupt handler and a consumer that asks for at   *)
(* most what is pending, the way every UART driver of the STM uses it: the *)
(* types, what each call relies on, and that the ring implements ByteFifo, *)
(* for every buffer size.  That the lines handed over are those of the     *)
(* stream; that a UART sends what it was given, whole and in order, with   *)
(* the DMA, the interrupt and the RS-485 driver at any times; that the     *)
(* command an ESP32 is sent over MQTT reaches the main loop whole; that    *)
(* what it publishes is whole; that the server reads from the payload of   *)
(* an uplink what was put into it; and what the variables of all of them   *)
(* hold.                                                                   *)
(***************************************************************************)
EXTENDS MCSerial, SequenceTheorems, NaturalsInduction, WellFoundedInduction, TLAPS

\* The two conditions on the clients the theorems need.
GoodClients == ~Threaded /\ ~Overread

(* Arithmetic of positions: the remainder is a conditional.                *)

LEMMA ModDef ==
  ASSUME NEW r \in Slot, NEW i \in 0..Size
  PROVE  /\ (r + i) % Size \in Slot
         /\ (r + i) % Size = IF r + i < Size THEN r + i ELSE r + i - Size
BY RingAssumption, SMT DEF Slot

LEMMA IncDef ==
  ASSUME NEW p \in Slot
  PROVE  /\ Inc(p) \in Slot
         /\ Inc(p) = IF p + 1 = Size THEN 0 ELSE p + 1
BY RingAssumption, SMT DEF Slot, Inc

LEMMA SpanType ==
  ASSUME NEW r \in Slot, NEW w \in Slot
  PROVE  (IF r <= w THEN w - r ELSE Size - r + w) \in 0..(Size - 1)
BY RingAssumption DEF Slot

\* What is pending never fills the ring.
LEMMA PendingType ==
  ASSUME r_pos \in Slot, w_pos \in Slot
  PROVE  Pending \in 0..(Size - 1)
BY RingAssumption DEF Slot, Pending

\* The i-th unread byte is in the ring, and not where the producer stores.
LEMMA AtProperties ==
  ASSUME r_pos \in Slot, w_pos \in Slot, NEW i \in 1..Pending
  PROVE  /\ (r_pos + i - 1) % Size \in Slot
         /\ (r_pos + i - 1) % Size # w_pos
         /\ (r_pos + i - 1) % Size =
              IF r_pos + i - 1 < Size THEN r_pos + i - 1
              ELSE r_pos + i - 1 - Size
<1>1. i - 1 \in 0..Size
  BY PendingType, RingAssumption
<1>2. r_pos + (i - 1) = r_pos + i - 1
  BY PendingType, RingAssumption DEF Slot
<1>3. (r_pos + i - 1) % Size = IF r_pos + i - 1 < Size THEN r_pos + i - 1
                               ELSE r_pos + i - 1 - Size
  BY <1>1, <1>2, ModDef
<1> QED
  BY <1>3, RingAssumption DEF Pending, Slot

LEMMA UnreadSeq ==
  ASSUME r_pos \in Slot, w_pos \in Slot, buf \in [Slot -> Byte]
  PROVE  /\ Unread \in Seq(Byte)
         /\ Len(Unread) = Pending
         /\ \A i \in 1..Pending : Unread[i] = At(i) /\ At(i) \in Byte
<1>1. \A i \in 1..Pending : At(i) \in Byte
  BY AtProperties DEF At
<1>2. Pending \in Nat
  BY PendingType, RingAssumption
<1>3. Unread \in [1..Pending -> Byte]
  BY <1>1 DEF Unread
<1>4. Unread \in Seq(Byte)
  BY <1>2, <1>3, SeqDef
<1>5. Len(Unread) = Pending
  BY <1>2, <1>3, <1>4, LenProperties
<1> QED
  BY <1>1, <1>4, <1>5 DEF Unread

\* Dropping the k oldest bytes.
LEMMA Advance ==
  ASSUME r_pos \in Slot, w_pos \in Slot, buf \in [Slot -> Byte],
         NEW k \in 0..Pending, r_pos' = (r_pos + k) % Size,
         w_pos' = w_pos, buf' = buf
  PROVE  /\ r_pos' \in Slot
         /\ Pending' = Pending - k
         /\ Unread' = SubSeq(Unread, k + 1, Len(Unread))
         /\ \A i \in 1..(Pending - k) : At(i)' = At(i + k)
<1>1. k \in 0..Size
  BY PendingType, RingAssumption
<1>2. /\ r_pos' \in Slot
      /\ r_pos' = IF r_pos + k < Size THEN r_pos + k ELSE r_pos + k - Size
  BY <1>1, ModDef
<1>3. Pending' = Pending - k
  BY <1>2, RingAssumption DEF Pending, Slot
<1>4. ASSUME NEW i \in 1..(Pending - k) PROVE At(i)' = At(i + k)
  <2>1. /\ i \in 1..Pending' /\ i + k \in 1..Pending
        /\ r_pos + (i + k) - 1 = r_pos + i - 1 + k
    BY <1>3, PendingType, RingAssumption DEF Slot
  <2>2. (r_pos + (i + k) - 1) % Size =
          IF r_pos + (i + k) - 1 < Size THEN r_pos + (i + k) - 1
          ELSE r_pos + (i + k) - 1 - Size
    BY <2>1, AtProperties
  <2>3. i - 1 \in 0..Size /\ r_pos' + (i - 1) = r_pos' + i - 1
    BY <1>2, <2>1, PendingType, RingAssumption DEF Slot
  <2>4. (r_pos' + i - 1) % Size =
          IF r_pos' + i - 1 < Size THEN r_pos' + i - 1
          ELSE r_pos' + i - 1 - Size
    BY <1>2, <2>3, ModDef
  <2>5. (r_pos' + i - 1) % Size = (r_pos + (i + k) - 1) % Size
    <3>1. CASE r_pos + k < Size
      <4>1. r_pos' + i - 1 = r_pos + (i + k) - 1
        BY <1>2, <2>1, <3>1, PendingType, RingAssumption DEF Slot
      <4> QED
        BY <4>1
    <3>2. CASE ~(r_pos + k < Size)
      <4>1. /\ r_pos' + i - 1 = r_pos + (i + k) - 1 - Size
            /\ r_pos' + i - 1 < Size
            /\ ~(r_pos + (i + k) - 1 < Size)
        BY <1>2, <2>1, <3>2, PendingType, RingAssumption DEF Slot
      <4> QED
        BY <4>1, <2>2, <2>4
    <3> QED
      BY <3>1, <3>2
  <2> QED
    BY <2>5 DEF At
<1>5. /\ Unread' \in Seq(Byte) /\ Len(Unread') = Pending - k
      /\ \A i \in 1..(Pending - k) : Unread'[i] = At(i)'
  <2>1. Pending' \in Nat
    BY <1>3, PendingType, RingAssumption
  <2>2. Unread' = [i \in 1..Pending' |-> At(i)']
    BY DEF Unread
  <2>3. \A i \in 1..Pending' : At(i)' \in Byte
    BY <1>3, <1>4, UnreadSeq, PendingType, RingAssumption
  <2>4. Unread' \in [1..Pending' -> Byte]
    BY <2>2, <2>3
  <2>5. Unread' \in Seq(Byte)
    BY <2>1, <2>4, SeqDef
  <2> QED
    BY <1>3, <2>1, <2>2, <2>4, <2>5, LenProperties
<1>6. /\ SubSeq(Unread, k + 1, Len(Unread)) \in Seq(Byte)
      /\ Len(SubSeq(Unread, k + 1, Len(Unread))) = Pending - k
      /\ \A i \in 1..(Pending - k) :
           SubSeq(Unread, k + 1, Len(Unread))[i] = At(i + k)
  <2>1. Pending \in Nat /\ k \in Nat
    BY PendingType, RingAssumption
  <2>2. \A i \in (k + 1)..Len(Unread) : Unread[i] \in Byte
    BY <2>1, UnreadSeq
  <2>3. /\ SubSeq(Unread, k + 1, Len(Unread)) \in Seq(Byte)
        /\ Len(SubSeq(Unread, k + 1, Len(Unread))) =
             IF k + 1 <= Len(Unread) THEN Len(Unread) - (k + 1) + 1 ELSE 0
        /\ \A i \in 1..(Len(Unread) - (k + 1) + 1) :
             SubSeq(Unread, k + 1, Len(Unread))[i] = Unread[k + 1 + i - 1]
    BY <2>1, <2>2, UnreadSeq, SubSeqProperties
  <2>4. \A i \in 1..(Pending - k) : k + 1 + i - 1 = i + k /\ i + k \in 1..Pending
    BY <2>1
  <2> QED
    BY <2>1, <2>3, <2>4, UnreadSeq
<1>7. Unread' = SubSeq(Unread, k + 1, Len(Unread))
  BY <1>4, <1>5, <1>6, SeqEqual
<1> QED
  BY <1>2, <1>3, <1>4, <1>7

(***************************************************************************)
(* Types.                                                                  *)
(***************************************************************************)
LEMMA TypeInit == Init => TypeOK
BY RingAssumption DEF Init, TypeOK, Slot

LEMMA TypeNext == TypeOK /\ CallInv /\ [Next]_vars => TypeOK'
<1> SUFFICES ASSUME TypeOK, CallInv, [Next]_vars PROVE TypeOK'
  OBVIOUS
<1> USE RingAssumption DEF TypeOK
<1>1. ASSUME NEW b \in Byte, AddStore(b) PROVE TypeOK'
  BY <1>1, IncDef DEF AddStore, consumer
<1>2. CASE AddPublish
  BY <1>2 DEF AddPublish, consumer
<1>3. ASSUME NEW k \in 0..MaxLen, NEW name, Call(name, k),
             name \in {"read", "peek", "discard", "consume", "readline",
                       "clear"}
      PROVE  TypeOK'
  BY <1>3, PendingType DEF Call, ring, producer
<1>4. CASE CallRead \/ CallPeek \/ CallDiscard \/ CallConsume
  BY <1>3, <1>4 DEF CallRead, CallPeek, CallDiscard, CallConsume, Request
<1>5. CASE CallClear \/ CallReadline
  BY <1>3, <1>5 DEF CallClear, CallReadline
<1>6. CASE CopyByte
  BY <1>6 DEF CopyByte, ring, producer
<1>7. CASE CheckByte
  <2>1. held' = <<>> /\ out' \in Seq(Byte)
    <3>1. held \in Seq(Byte)
      <4>1. CASE held = <<>>
        BY <4>1
      <4>2. CASE \E b \in Byte : held = <<b>>
        BY <4>2
      <4> QED
        BY <4>1, <4>2
    <3>2. out \o held \in Seq(Byte)
      BY <3>1, ConcatProperties
    <3> QED
      BY <1>7, <3>2 DEF CheckByte
  <2>2. pos' \in Slot /\ r_pos' \in Slot
    BY <1>7, IncDef DEF CheckByte
  <2> QED
    BY <1>7, <2>1, <2>2 DEF CheckByte, Return, producer
<1>8. CASE DiscardByte
  <2>1. len - 1 \in 0..MaxLen
    BY <1>8, PendingType DEF DiscardByte, CallInv
  <2> QED
    BY <1>8, <2>1, IncDef DEF DiscardByte, Return, producer
<1>9. CASE ScanLine
  <2>1. toread <= Pending /\ toread <= len
    BY <1>9 DEF ScanLine, CallInv
  <2>2. LineEnds \subseteq 1..Pending
    BY <2>1, PendingType DEF LineEnds
  <2>3. r_pos' \in Slot
    BY <1>9, <2>1, <2>2, PendingType, SMT DEF ScanLine, Slot
  <2>4. \A n \in 0..Pending : SubSeq(Unread, 1, n) \in Seq(Byte)
    BY UnreadSeq, PendingType, SubSeqProperties
  <2>5. out' \in Seq(Byte)
    <3>1. CASE \E end \in LineEnds : out' = SubSeq(Unread, 1, end - 1)
      BY <2>2, <2>4, <3>1, PendingType
    <3>2. CASE toread = len /\ out' = SubSeq(Unread, 1, len)
      BY <2>1, <2>4, <3>2
    <3>3. CASE out' = out
      BY <3>3
    <3> QED
      BY <1>9, <3>1, <3>2, <3>3 DEF ScanLine
  <2> QED
    BY <1>9, <2>3, <2>5 DEF ScanLine, Return, producer
<1>10. CASE ConsumeByte
  BY <1>10, IncDef DEF ConsumeByte, ring, producer
<1>11. CASE ConsumeDone
  <2>1. PICK consumed \in 0..Len(out) :
          /\ r_pos' = (pos + Size - (Len(out) - consumed)) % Size
          /\ out' = SubSeq(out, 1, consumed)
    BY <1>11 DEF ConsumeDone
  <2>2. Len(out) \in Nat /\ Len(out) <= Pending
    BY <1>11, LenProperties, PendingType DEF ConsumeDone, CallInv
  <2>3. out' \in Seq(Byte)
    BY <2>1, <2>2, ElementOfSeq, SubSeqProperties
  <2>4. r_pos' \in Slot
    BY <2>1, <2>2, PendingType, SMT DEF Slot
  <2> QED
    BY <1>11, <2>3, <2>4 DEF ConsumeDone, Return, producer
<1>12. CASE ClearRead \/ ClearWrite
  BY <1>12 DEF ClearRead, ClearWrite, Return, producer, Slot
<1>13. CASE UNCHANGED vars
  BY <1>13 DEF vars, ring, producer, consumer
<1> QED
  BY <1>1, <1>2, <1>4, <1>5, <1>6, <1>7, <1>8, <1>9, <1>10, <1>11, <1>12,
     <1>13 DEF Next, Producer, Consumer
(***************************************************************************)
(* What each call relies on.                                               *)
(***************************************************************************)
LEMMA IncMod ==
  ASSUME NEW r \in Slot, NEW i \in 0..(Size - 1)
  PROVE  Inc((r + i) % Size) = (r + (i + 1)) % Size
<1>1. i \in 0..Size /\ i + 1 \in 0..Size
  BY RingAssumption
<1>2. (r + i) % Size = IF r + i < Size THEN r + i ELSE r + i - Size
  BY <1>1, ModDef
<1>3. (r + (i + 1)) % Size =
        IF r + (i + 1) < Size THEN r + (i + 1) ELSE r + (i + 1) - Size
  BY <1>1, ModDef
<1>4. Inc((r + i) % Size) = IF ((r + i) % Size) + 1 = Size THEN 0
                            ELSE ((r + i) % Size) + 1
  BY <1>1, ModDef, IncDef
<1> QED
  BY <1>2, <1>3, <1>4, RingAssumption DEF Slot

\* The byte i places after the oldest is the one at its index.
LEMMA AtIndex ==
  ASSUME r_pos \in Slot, w_pos \in Slot, NEW i \in 0..(Pending - 1)
  PROVE  /\ buf[(r_pos + i) % Size] = At(i + 1)
         /\ (r_pos + i) % Size # w_pos
<1>1. i + 1 \in 1..Pending /\ r_pos + (i + 1) - 1 = r_pos + i
  BY PendingType, RingAssumption DEF Slot
<1> QED
  BY <1>1, AtProperties DEF At

\* A store of the producer changes no unread byte.
LEMMA StoreKeeps ==
  ASSUME TypeOK, NEW b \in Byte, AddStore(b)
  PROVE  /\ Pending' = Pending
         /\ \A i \in 1..Pending : At(i)' = At(i)
<1>1. Pending' = Pending
  BY DEF AddStore, Pending
<1>2. ASSUME NEW i \in 1..Pending PROVE At(i)' = At(i)
  BY <1>2, AtProperties DEF AddStore, At, TypeOK
<1> QED
  BY <1>1, <1>2

LEMMA PublishAdds ==
  ASSUME TypeOK, CallInv, AddPublish
  PROVE  /\ Pending' = Pending + 1
         /\ \A i \in 1..Pending + 1 : At(i)' = At(i)
         /\ At(Pending + 1) = buf[w_pos]
<1>1. w_pos' = Inc(w_pos) /\ Inc(w_pos) # r_pos /\ r_pos' = r_pos /\ buf' = buf
  BY DEF AddPublish, CallInv
<1>2. Pending' = Pending + 1
  <2>1. w_pos' = IF w_pos + 1 = Size THEN 0 ELSE w_pos + 1
    BY <1>1, IncDef DEF TypeOK
  <2>2. w_pos' # r_pos /\ r_pos' = r_pos
    BY <1>1
  <2> QED
    BY <2>1, <2>2, RingAssumption DEF Pending, TypeOK, Slot
<1>3. \A i \in 1..Pending + 1 : At(i)' = At(i)
  BY <1>1 DEF At
<1>4. /\ Pending \in 0..Size
      /\ r_pos + Pending = r_pos + (Pending + 1) - 1
  BY PendingType, RingAssumption DEF TypeOK, Slot
<1>5. (r_pos + Pending) % Size = w_pos
  <2>1. (r_pos + Pending) % Size = IF r_pos + Pending < Size THEN r_pos + Pending
                                   ELSE r_pos + Pending - Size
    BY <1>4, ModDef DEF TypeOK
  <2>2. (IF r_pos + Pending < Size THEN r_pos + Pending
         ELSE r_pos + Pending - Size) = w_pos
    BY RingAssumption DEF Pending, TypeOK, Slot
  <2> QED
    BY <2>1, <2>2
<1> QED
  BY <1>2, <1>3, <1>4, <1>5 DEF At

LEMMA CallInvInit == Init => CallInv
BY DEF Init, CallInv

LEMMA CallInvNext ==
  ASSUME GoodClients, TypeOK, CallInv, [Next]_vars
  PROVE  CallInv'
<1> USE DEF TypeOK
<1>a. MainMayRun <=> ~adding
  BY DEF GoodClients, MainMayRun
<1>b. Len(out) \in Nat /\ Pending \in 0..(Size - 1) /\ len \in Nat
  BY PendingType, RingAssumption
<1>1. ASSUME NEW b \in Byte, AddStore(b) PROVE CallInv'
  <2>1. UNCHANGED <<r_pos, w_pos, op, len, toread, pos, held, out>>
    BY <1>1 DEF AddStore, consumer
  <2>2. Pending' = Pending /\ \A i \in 1..Pending : At(i)' = At(i)
    BY <1>1, StoreKeeps
  <2>3. adding' => w_next' = Inc(w_pos') /\ w_next' # r_pos'
    BY <1>1, <2>1 DEF AddStore
  <2>4. op \in {"read", "peek"} => buf'[pos] = buf[pos]
    <3>1. op \in {"read", "peek"} => pos # w_pos
      <4>1. CASE op = "read"
        BY <1>b, <4>1, RingAssumption DEF CallInv, Pending, Slot
      <4>2. CASE op = "peek"
        <5>1. Len(out) \in 0..(Pending - 1)
          BY <1>b, <4>2 DEF CallInv
        <5> QED
          BY <4>2, <5>1, AtIndex DEF CallInv
      <4> QED
        BY <4>1, <4>2
    <3> QED
      BY <1>1, <3>1 DEF AddStore
  <2>5. op = "consume" => \A i \in 1..Len(out) : At(i)' = At(i)
    BY <1>b, <2>2, RingAssumption DEF CallInv
  <2> QED
    BY <2>1, <2>2, <2>3, <2>4, <2>5 DEF CallInv
<1>2. CASE AddPublish
  <2>1. UNCHANGED <<buf, r_pos, op, len, toread, pos, held, out>> /\ ~adding'
    BY <1>2 DEF AddPublish, consumer
  <2>2. Pending' = Pending + 1
    BY <1>2, PublishAdds
  <2>3. \A i \in 1..Len(out) : At(i)' = At(i)
    BY <2>1 DEF At
  <2> QED
    BY <1>b, <2>1, <2>2, <2>3, RingAssumption DEF CallInv
<1>3. ASSUME NEW k \in 1..MaxLen, NEW name, Call(name, k),
             \/ name \in {"read", "peek", "discard", "consume"} /\ k <= Pending
             \/ name = "readline" \/ name = "clear"
      PROVE  CallInv'
  <2>1. /\ ~adding' /\ UNCHANGED <<buf, r_pos, w_pos>> /\ op' = name
        /\ len' = k /\ pos' = r_pos /\ held' = <<>> /\ out' = <<>>
        /\ toread' = IF Pending > k THEN k ELSE Pending
    <3>1. ~adding'
      BY <1>a, <1>3 DEF Call, producer
    <3> QED
      BY <1>3, <3>1 DEF Call, ring
  <2>2. Pending' = Pending /\ Len(out') = 0
    BY <2>1 DEF Pending
  <2>3. (r_pos + 0) % Size = r_pos /\ r_pos + 0 = r_pos
    <3>1. 0 \in 0..Size /\ r_pos + 0 = r_pos /\ r_pos < Size
      BY RingAssumption DEF Slot
    <3>2. (r_pos + 0) % Size =
            IF r_pos + 0 < Size THEN r_pos + 0 ELSE r_pos + 0 - Size
      BY <3>1, ModDef
    <3> QED
      BY <3>1, <3>2
  <2> QED
    BY <1>b, <1>3, <2>1, <2>2, <2>3, RingAssumption DEF CallInv
<1>4. CASE CallRead \/ CallPeek \/ CallDiscard \/ CallConsume
  BY <1>3, <1>4 DEF CallRead, CallPeek, CallDiscard, CallConsume, Request,
                    GoodClients
<1>5. CASE CallReadline
  BY <1>3, <1>5 DEF CallReadline
<1>6. CASE CallClear
  BY <1>a, <1>6 DEF CallClear, Call, producer, CallInv
<1>7. CASE CopyByte
  <2>1. /\ UNCHANGED <<buf, r_pos, w_pos, adding, w_next>>
        /\ UNCHANGED <<op, len, toread, pos, out>>
        /\ held' = <<buf[pos]>> /\ op \in {"read", "peek"}
    BY <1>7 DEF CopyByte, ring, producer
  <2>2. Pending' = Pending /\ \A i \in 1..Len(out) : At(i)' = At(i)
    BY <2>1 DEF Pending, At
  <2> QED
    BY <2>1, <2>2 DEF CallInv
<1>8. CASE CheckByte
  <2>1. /\ ~adding' /\ held' = <<>> /\ op \in {"read", "peek"}
        /\ UNCHANGED <<buf, w_pos, len, toread>>
    BY <1>a, <1>8 DEF CheckByte, CallInv, producer
  <2>2. CASE op' = "idle"
    BY <2>1, <2>2 DEF CallInv
  <2>3. CASE op' # "idle"
    <3>1. /\ out' = out \o held /\ pos' = Inc(pos) /\ op' = op
          /\ r_pos' = IF op = "read" THEN Inc(pos) ELSE r_pos
          /\ Len(out') # len /\ held # <<>>
      BY <1>8, <2>3 DEF CheckByte, Return
    <3>2. Len(out') = Len(out) + 1
      <4>1. PICK b \in Byte : held = <<b>>
        BY <3>1
      <4>2. held \in Seq(Byte) /\ Len(held) = 1
        BY <4>1
      <4> QED
        BY <3>1, <4>2, ConcatProperties
    <3>3. CASE op = "read"
      <4>1. Pending' = Pending - 1
        <5>1. r_pos' = (r_pos + 1) % Size /\ 1 \in 0..Pending
          BY <1>b, <3>1, <3>3 DEF CallInv, Inc
        <5> QED
          BY <2>1, <5>1, Advance
      <4> QED
        BY <1>b, <2>1, <3>1, <3>2, <3>3, <4>1, RingAssumption DEF CallInv
    <3>4. CASE op = "peek"
      <4>1. Pending' = Pending
        BY <2>1, <3>1, <3>4 DEF Pending
      <4>2. Len(out) \in 0..(Size - 1)
        BY <1>b, <3>4, RingAssumption DEF CallInv
      <4>3. pos' = (r_pos' + Len(out')) % Size
        BY <3>1, <3>2, <3>4, <4>2, IncMod DEF CallInv
      <4> QED
        BY <1>b, <2>1, <3>1, <3>2, <3>4, <4>1, <4>3, RingAssumption DEF CallInv
    <3> QED
      BY <2>1, <3>3, <3>4
  <2> QED
    BY <2>2, <2>3
<1>9. CASE DiscardByte
  <2>1. /\ ~adding' /\ op = "discard" /\ UNCHANGED <<buf, w_pos, held, out>>
    BY <1>a, <1>9 DEF DiscardByte, producer
  <2>2. CASE op' = "idle"
    BY <2>1, <2>2 DEF CallInv
  <2>3. CASE op' # "idle"
    <3>1. /\ op' = op /\ pos' = Inc(pos) /\ r_pos' = Inc(pos)
          /\ len' = len - 1 /\ len' # 0
      BY <1>9, <2>3 DEF DiscardByte, Return
    <3>2. Pending' = Pending - 1
      <4>1. r_pos' = (r_pos + 1) % Size /\ 1 \in 0..Pending
        BY <1>b, <2>1, <3>1 DEF CallInv, Inc
      <4> QED
        BY <2>1, <4>1, Advance
    <3> QED
      BY <1>b, <2>1, <3>1, <3>2, RingAssumption DEF CallInv
  <2> QED
    BY <2>2, <2>3
<1>10. CASE ScanLine \/ ConsumeDone \/ ClearWrite
  <2>1. ~adding' /\ op' = "idle" /\ held' = held
        /\ op \in {"readline", "consume", "clearing"}
    BY <1>a, <1>10 DEF ScanLine, ConsumeDone, ClearWrite, Return, producer
  <2> QED
    BY <2>1 DEF CallInv
<1>11. CASE ConsumeByte
  <2>1. /\ ~adding' /\ op = "consume" /\ op' = op /\ held' = held
        /\ UNCHANGED <<buf, r_pos, w_pos, len, toread>>
        /\ Len(out) < len /\ pos # w_pos
        /\ out' = Append(out, buf[pos]) /\ pos' = Inc(pos)
    BY <1>a, <1>11 DEF ConsumeByte, ring, producer
  <2>2. Pending' = Pending /\ \A i \in 1..Len(out') : At(i)' = At(i)
    BY <2>1 DEF Pending, At
  <2>3. Len(out) \in 0..(Pending - 1)
    BY <1>b, <2>1 DEF CallInv
  <2>4. buf[pos] = At(Len(out) + 1)
    BY <2>1, <2>3, AtIndex DEF CallInv
  <2>5. /\ Len(out') = Len(out) + 1
        /\ \A i \in 1..Len(out') :
             out'[i] = IF i <= Len(out) THEN out[i] ELSE buf[pos]
    BY <2>1, AppendProperties
  <2>6. \A i \in 1..Len(out') : out'[i] = At(i)'
    BY <1>b, <2>1, <2>2, <2>4, <2>5 DEF CallInv
  <2>7. Len(out) \in 0..(Size - 1)
    BY <1>b, <2>3, RingAssumption
  <2>8. pos' = (r_pos' + Len(out')) % Size
    BY <2>1, <2>5, <2>7, IncMod DEF CallInv
  <2> QED
    BY <1>b, <2>1, <2>2, <2>5, <2>6, <2>8 DEF CallInv
<1>12. CASE ClearRead
  BY <1>a, <1>12 DEF ClearRead, producer, CallInv
<1>13. CASE UNCHANGED vars
  <2>1. Pending' = Pending /\ \A i \in 1..Len(out) : At(i)' = At(i)
    BY <1>13 DEF vars, ring, Pending, At
  <2> QED
    BY <1>13, <2>1 DEF vars, ring, producer, consumer, CallInv, Inc
<1> QED
  BY <1>1, <1>2, <1>4, <1>5, <1>6, <1>7, <1>8, <1>9, <1>10, <1>11, <1>12,
     <1>13 DEF Next, Producer, Consumer
(***************************************************************************)
(* The ring implements a bounded queue of bytes.                           *)
(***************************************************************************)
LEMMA SameUnread ==
  ASSUME UNCHANGED <<buf, r_pos, w_pos>>
  PROVE  Unread' = Unread
BY DEF Unread, Pending, At

\* The first byte of the queue moves to the caller: discard's and read's step.
LEMMA FirstLeaves ==
  ASSUME TypeOK, 1 <= Pending, r_pos' = Inc(r_pos), UNCHANGED <<buf, w_pos>>
  PROVE  /\ Unread # <<>>
         /\ Head(Unread) = buf[r_pos]
         /\ Unread' = Tail(Unread)
         /\ Unread' = SubSeq(Unread, 2, Len(Unread))
<1> USE DEF TypeOK
<1>1. Pending \in Nat /\ 1 \in 0..Pending /\ r_pos' = (r_pos + 1) % Size
  BY PendingType, RingAssumption DEF Inc
<1>2. Unread' = SubSeq(Unread, 1 + 1, Len(Unread))
  BY <1>1, Advance
<1>3. /\ Unread \in Seq(Byte) /\ Len(Unread) = Pending /\ Unread[1] = At(1)
      /\ Unread # <<>>
  BY <1>1, UnreadSeq
<1>4. Head(Unread) = Unread[1] /\ Tail(Unread) = SubSeq(Unread, 2, Len(Unread))
  BY <1>3, TailIsSubSeq
<1>5. 0 \in 0..(Pending - 1) /\ 0 + 1 = 1 /\ r_pos + 0 = r_pos /\ r_pos < Size
      /\ 0 \in 0..Size
  BY <1>1, RingAssumption DEF Slot
<1>6. (r_pos + 0) % Size = r_pos
  BY <1>5, ModDef
<1>7. At(1) = buf[r_pos]
  BY <1>5, <1>6, AtIndex
<1> QED
  BY <1>2, <1>3, <1>4, <1>7

LEMMA StepRefines ==
  ASSUME GoodClients, TypeOK, CallInv, [Next]_vars
  PROVE  [Fifo!Next]_Fifo!vars
<1> USE DEF TypeOK
<1> DEFINE fifo == IF op = "clearing" THEN <<>> ELSE Unread
<1>a. MainMayRun <=> ~adding
  BY DEF GoodClients, MainMayRun
<1>b. /\ Len(out) \in Nat /\ Pending \in 0..(Size - 1) /\ len \in Nat
      /\ Unread \in Seq(Byte) /\ Len(Unread) = Pending
      /\ \A i \in 1..Pending : Unread[i] = At(i) /\ At(i) \in Byte
  BY PendingType, RingAssumption, UnreadSeq
<1>c. ASSUME fifo' = fifo, out' = out PROVE [Fifo!Next]_Fifo!vars
  BY <1>c DEF Fifo!vars
<1>1. ASSUME NEW b \in Byte, AddStore(b) PROVE [Fifo!Next]_Fifo!vars
  <2>1. UNCHANGED <<op, out>>
    BY <1>1 DEF AddStore, consumer
  <2>2. Pending' = Pending /\ \A i \in 1..Pending : At(i)' = At(i)
    BY <1>1, StoreKeeps
  <2>3. Unread' = Unread
    BY <2>2 DEF Unread
  <2> QED
    BY <1>c, <2>1, <2>3
<1>2. CASE AddPublish
  <2>1. UNCHANGED <<buf, op, out>>
    BY <1>2 DEF AddPublish, consumer
  <2>2. CASE op = "clearing"
    BY <1>c, <2>1, <2>2
  <2>3. CASE op # "clearing"
    <3>1. /\ Pending' = Pending + 1
          /\ \A i \in 1..Pending + 1 : At(i)' = At(i)
          /\ At(Pending + 1) = buf[w_pos]
      BY <1>2, PublishAdds
    <3>2. Unread' = [i \in 1..Pending + 1 |-> At(i)]
      BY <3>1 DEF Unread
    <3>3. buf[w_pos] \in Byte
      OBVIOUS
    <3>4. /\ Append(Unread, buf[w_pos]) \in Seq(Byte)
          /\ Len(Append(Unread, buf[w_pos])) = Pending + 1
          /\ \A i \in 1..Pending + 1 : Append(Unread, buf[w_pos])[i] =
               IF i <= Pending THEN Unread[i] ELSE buf[w_pos]
      BY <1>b, <3>3, AppendProperties
    <3>5. \A i \in 1..Pending + 1 : Append(Unread, buf[w_pos])[i] = At(i)
      BY <1>b, <3>1, <3>4
    <3>6. \A i \in 1..Pending + 1 : At(i) \in Byte
      BY <1>b, <3>1, <3>3
    <3>7. /\ Unread' \in [1..Pending + 1 -> Byte] /\ Pending + 1 \in Nat
          /\ \A i \in 1..Pending + 1 : Unread'[i] = At(i)
      BY <1>b, <3>2, <3>6
    <3>8. Unread' \in Seq(Byte) /\ Len(Unread') = Pending + 1
      BY <3>7, SeqDef, LenProperties
    <3>9. Unread' = Append(Unread, buf[w_pos])
      BY <3>4, <3>5, <3>7, <3>8, SeqEqual
    <3>10. Len(Unread) < Size - 1
      <4>1. r_pos' \in Slot /\ w_pos' \in Slot
        BY <1>2 DEF AddPublish
      <4>2. Pending' \in 0..(Size - 1)
        BY <4>1, SpanType DEF Pending
      <4> QED
        BY <1>b, <3>1, <4>2, RingAssumption
    <3>11. Fifo!Put(buf[w_pos])
      BY <2>1, <2>3, <3>9, <3>10 DEF Fifo!Put
    <3> QED
      BY <3>3, <3>11 DEF Fifo!Next
  <2> QED
    BY <2>2, <2>3
<1>3. ASSUME NEW k, NEW name, Call(name, k), name # "clearing"
      PROVE  [Fifo!Next]_Fifo!vars
  <2>1. UNCHANGED <<buf, r_pos, w_pos>> /\ op' = name /\ op = "idle"
        /\ out' = <<>>
    BY <1>3 DEF Call, ring
  <2>2. Unread' = Unread
    BY <2>1, SameUnread
  <2>3. Fifo!Start
    BY <1>3, <2>1, <2>2 DEF Fifo!Start
  <2> QED
    BY <2>3 DEF Fifo!Next
<1>4. CASE CallRead \/ CallPeek \/ CallDiscard \/ CallConsume \/ CallClear
           \/ CallReadline
  BY <1>3, <1>4 DEF CallRead, CallPeek, CallDiscard, CallConsume, CallClear,
                    CallReadline
<1>5. CASE CopyByte
  <2>1. UNCHANGED <<buf, r_pos, w_pos, op, out>>
    BY <1>5 DEF CopyByte, ring
  <2> QED
    BY <1>c, <2>1, SameUnread
<1>6. CASE CheckByte
  <2>1. /\ op \in {"read", "peek"} /\ held = <<buf[pos]>>
        /\ UNCHANGED <<buf, w_pos>>
    BY <1>6 DEF CheckByte, CallInv
  <2>2. op' # "clearing"
    BY <1>6, <2>1 DEF CheckByte, Return
  <2>3. op = "peek" => Len(out) \in 0..(Pending - 1)
    BY <1>b DEF CallInv
  <2>4. CASE op = "read"
    <3>1. pos = r_pos /\ pos # w_pos /\ 1 <= Pending
      <4>1. pos = r_pos /\ 1 <= Pending
        BY <1>b, <2>4 DEF CallInv
      <4> QED
        BY <4>1, RingAssumption DEF Pending, Slot
    <3>2. out' = out \o held /\ r_pos' = Inc(r_pos)
      BY <1>6, <2>4, <3>1 DEF CheckByte
    <3>3. Unread # <<>> /\ Head(Unread) = buf[pos] /\ Unread' = Tail(Unread)
      BY <2>1, <3>1, <3>2, FirstLeaves
    <3>4. out' = Append(out, buf[pos])
      <4>1. buf[pos] \in Byte
        OBVIOUS
      <4> QED
        BY <2>1, <3>2, <4>1, AppendIsConcat
    <3>5. Fifo!Take
      BY <2>2, <2>4, <3>3, <3>4 DEF Fifo!Take
    <3> QED
      BY <3>5 DEF Fifo!Next
  <2>5. CASE op = "peek"
    <3>1. pos # w_pos /\ buf[pos] = At(Len(out) + 1)
      BY <2>3, <2>5, AtIndex DEF CallInv
    <3>2. out' = out \o held /\ r_pos' = r_pos
      BY <1>6, <2>5, <3>1 DEF CheckByte
    <3>3. Unread' = Unread
      BY <2>1, <3>2, SameUnread
    <3>4. out' = Append(out, Unread[Len(out) + 1]) /\ Len(out) < Len(Unread)
      <4>1. buf[pos] \in Byte /\ Len(out) + 1 \in 1..Pending
        BY <1>b, <2>3, <2>5
      <4> QED
        BY <1>b, <2>1, <2>3, <2>5, <3>1, <3>2, <4>1, AppendIsConcat
    <3>5. Fifo!Look
      BY <2>2, <2>5, <3>3, <3>4 DEF Fifo!Look
    <3> QED
      BY <3>5 DEF Fifo!Next
  <2> QED
    BY <2>1, <2>4, <2>5
<1>7. CASE DiscardByte
  <2>1. /\ op = "discard" /\ pos = r_pos /\ 1 <= Pending
        /\ UNCHANGED <<buf, w_pos, out>>
    BY <1>7, <1>b DEF DiscardByte, CallInv
  <2>2. pos # w_pos
    BY <2>1, RingAssumption DEF Pending, Slot
  <2>3. r_pos' = Inc(r_pos) /\ op' \in {"idle", "discard"}
    BY <1>7, <2>1, <2>2 DEF DiscardByte, Return
  <2>4. Unread # <<>> /\ Unread' = Tail(Unread)
    BY <2>1, <2>3, FirstLeaves
  <2>5. Fifo!Drop
    BY <2>1, <2>3, <2>4 DEF Fifo!Drop
  <2> QED
    BY <2>5 DEF Fifo!Next
<1>8. CASE ScanLine
  <2>1. /\ op = "readline" /\ op' = "idle" /\ UNCHANGED <<buf, w_pos>>
        /\ toread \in 0..Pending /\ toread <= len
    BY <1>8, <1>b, RingAssumption DEF ScanLine, Return, CallInv
  <2>2. CASE LineEnds # {}
    <3>1. PICK end \in LineEnds :
            /\ out' = SubSeq(Unread, 1, end - 1)
            /\ r_pos' = (r_pos + end
                           + IF end + 1 \in LineEnds THEN 1 ELSE 0) % Size
      BY <1>8, <2>2 DEF ScanLine
    <3> DEFINE t == IF end + 1 \in LineEnds THEN 2 ELSE 1
               k == end - 1 + t
    <3>2. /\ end \in 1..Pending /\ k \in 0..Pending
          /\ r_pos + k = r_pos + end + IF end + 1 \in LineEnds THEN 1 ELSE 0
      BY <1>b, <2>1, RingAssumption DEF LineEnds, Slot
    <3>3. Unread' = SubSeq(Unread, k + 1, Len(Unread))
      BY <2>1, <3>1, <3>2, Advance
    <3>4. \A i \in (end - 1 + 1)..(end - 1 + t) : Unread[i] \in Terminator
      <4>1. \A i \in LineEnds : i \in 1..Pending /\ At(i) \in Terminator
        BY <1>b, <2>1 DEF LineEnds
      <4>2. \A i \in (end - 1 + 1)..(end - 1 + t) : i \in LineEnds
        BY <3>1, <3>2
      <4> QED
        BY <1>b, <4>1, <4>2
    <3>5. end - 1 \in 0..(Size - 1) /\ t \in {1, 2}
      BY <1>b, <3>2, RingAssumption
    <3>6. op # "clearing" /\ op' # "clearing"
      BY <2>1
    <3>7. end - 1 + t <= Len(Unread)
      BY <1>b, <3>2, <3>5
    <3> HIDE DEF t
    <3>8. Fifo!Line(end - 1, t)
      BY <3>1, <3>3, <3>4, <3>6, <3>7 DEF Fifo!Line
    <3> QED
      BY <3>5, <3>8 DEF Fifo!Next
  <2>3. CASE LineEnds = {} /\ toread = len
    <3>1. /\ out' = SubSeq(Unread, 1, len) /\ r_pos' = (r_pos + len) % Size
          /\ len \in 0..Pending
      BY <1>8, <1>b, <2>1, <2>3 DEF ScanLine
    <3>2. Unread' = SubSeq(Unread, len + 1, Len(Unread))
      BY <2>1, <3>1, Advance
    <3>3. Fifo!Hand(len) /\ len \in 0..(Size - 1)
      BY <1>b, <2>1, <3>1, <3>2, RingAssumption DEF Fifo!Hand
    <3> QED
      BY <3>3 DEF Fifo!Next
  <2>4. CASE LineEnds = {} /\ toread < len
    <3>1. UNCHANGED <<r_pos, out>>
      BY <1>8, <2>4, <1>b, <2>1 DEF ScanLine
    <3> QED
      BY <1>c, <2>1, <3>1, SameUnread
  <2> QED
    BY <1>b, <2>1, <2>2, <2>3, <2>4
<1>9. CASE ConsumeByte
  <2>1. /\ op = "consume" /\ op' = op /\ UNCHANGED <<buf, r_pos, w_pos>>
        /\ Len(out) < len /\ out' = Append(out, buf[pos])
    BY <1>9 DEF ConsumeByte, ring
  <2>2. Len(out) \in 0..(Pending - 1) /\ Len(out) + 1 \in 1..Pending
    BY <1>b, <2>1 DEF CallInv
  <2>3. buf[pos] = Unread[Len(out) + 1]
    BY <1>b, <2>1, <2>2, AtIndex DEF CallInv
  <2>4. Unread' = Unread
    BY <2>1, SameUnread
  <2>5. Fifo!Look
    BY <1>b, <2>1, <2>2, <2>3, <2>4 DEF Fifo!Look
  <2> QED
    BY <2>5 DEF Fifo!Next
<1>10. CASE ConsumeDone
  <2>1. PICK c \in 0..Len(out) :
          /\ r_pos' = (pos + Size - (Len(out) - c)) % Size
          /\ out' = SubSeq(out, 1, c)
    BY <1>10 DEF ConsumeDone
  <2>2. /\ op = "consume" /\ op' = "idle" /\ UNCHANGED <<buf, w_pos>>
        /\ pos = (r_pos + Len(out)) % Size /\ Len(out) <= Pending
        /\ \A i \in 1..Len(out) : out[i] = At(i)
    BY <1>10, <1>b DEF ConsumeDone, Return, CallInv
  <2>3. r_pos' = (r_pos + c) % Size
    <3>1. /\ Len(out) \in 0..Size /\ c \in 0..Size /\ Size - (Len(out) - c) \in 0..Size
          /\ pos + (Size - (Len(out) - c)) = pos + Size - (Len(out) - c)
      BY <1>b, <2>2, RingAssumption DEF Slot
    <3>2. pos = IF r_pos + Len(out) < Size THEN r_pos + Len(out)
                ELSE r_pos + Len(out) - Size
      BY <2>2, <3>1, ModDef
    <3>3. r_pos' = IF pos + (Size - (Len(out) - c)) < Size
                   THEN pos + (Size - (Len(out) - c))
                   ELSE pos + (Size - (Len(out) - c)) - Size
      BY <2>1, <3>1, ModDef
    <3>4. (r_pos + c) % Size = IF r_pos + c < Size THEN r_pos + c
                               ELSE r_pos + c - Size
      BY <3>1, ModDef
    <3>5. r_pos' = IF r_pos + c < Size THEN r_pos + c ELSE r_pos + c - Size
      <4>1. /\ Len(out) \in Nat /\ c \in Nat /\ c <= Len(out)
            /\ Len(out) < Size /\ r_pos \in Nat /\ r_pos < Size /\ Size \in Nat
        BY <1>b, <2>2, RingAssumption DEF Slot
      <4>2. CASE r_pos + Len(out) < Size
        <5>1. pos = r_pos + Len(out)
          BY <3>2, <4>2
        <5>2. /\ pos + (Size - (Len(out) - c)) = r_pos + c + Size
              /\ ~(pos + (Size - (Len(out) - c)) < Size) /\ r_pos + c < Size
          BY <4>1, <4>2, <5>1
        <5> QED
          BY <3>3, <4>1, <5>2
      <4>3. CASE ~(r_pos + Len(out) < Size)
        <5>1. pos = r_pos + Len(out) - Size
          BY <3>2, <4>3
        <5>2. pos + (Size - (Len(out) - c)) = r_pos + c
          BY <4>1, <5>1
        <5> QED
          BY <3>3, <4>1, <5>2
      <4> QED
        BY <4>2, <4>3
    <3> QED
      BY <3>4, <3>5
  <2>4. c \in 0..Pending
    BY <1>b, <2>2
  <2>5. Unread' = SubSeq(Unread, c + 1, Len(Unread))
    BY <2>2, <2>3, <2>4, Advance
  <2>6. SubSeq(out, 1, c) = SubSeq(Unread, 1, c)
    <3>1. /\ SubSeq(out, 1, c) \in Seq(Byte)
          /\ Len(SubSeq(out, 1, c)) = IF 1 <= c THEN c - 1 + 1 ELSE 0
          /\ \A i \in 1..(c - 1 + 1) : SubSeq(out, 1, c)[i] = out[1 + i - 1]
      BY <1>b, SubSeqProperties, ElementOfSeq
    <3>2. /\ SubSeq(Unread, 1, c) \in Seq(Byte)
          /\ Len(SubSeq(Unread, 1, c)) = IF 1 <= c THEN c - 1 + 1 ELSE 0
          /\ \A i \in 1..(c - 1 + 1) :
               SubSeq(Unread, 1, c)[i] = Unread[1 + i - 1]
      BY <1>b, <2>4, SubSeqProperties
    <3>3. \A i \in 1..c : out[i] = Unread[i] /\ 1 + i - 1 = i
      BY <1>b, <2>2, <2>4
    <3>4. \A i \in 1..c : SubSeq(out, 1, c)[i] = SubSeq(Unread, 1, c)[i]
      BY <1>b, <3>1, <3>2, <3>3
    <3> QED
      BY <1>b, <3>1, <3>2, <3>4, SeqEqual
  <2>7. op # "clearing" /\ op' # "clearing" /\ c \in 0..Len(Unread)
    BY <1>b, <2>2, <2>4
  <2>8. Fifo!Hand(c)
    BY <2>1, <2>5, <2>6, <2>7 DEF Fifo!Hand
  <2>9. c \in 0..(Size - 1)
    BY <1>b, <2>4, RingAssumption
  <2> QED
    BY <2>8, <2>9 DEF Fifo!Next
<1>11. CASE ClearRead
  <2>1. fifo' = <<>> /\ out' = out
    BY <1>11 DEF ClearRead
  <2>2. Fifo!Clear
    BY <2>1 DEF Fifo!Clear
  <2> QED
    BY <2>2 DEF Fifo!Next
<1>12. CASE ClearWrite
  <2>1. op = "clearing" /\ op' = "idle" /\ r_pos' = 0 /\ w_pos' = 0
        /\ out' = out
    BY <1>12 DEF ClearWrite, Return, CallInv
  <2>2. Pending' = 0
    BY <2>1 DEF Pending
  <2>3. Unread' = <<>>
    BY <2>2 DEF Unread
  <2> QED
    BY <1>c, <2>1, <2>3
<1>13. CASE UNCHANGED vars
  <2>1. UNCHANGED <<buf, r_pos, w_pos, op, out>>
    BY <1>13 DEF vars, ring, consumer
  <2> QED
    BY <1>c, <2>1, SameUnread
<1> QED
  BY <1>1, <1>2, <1>4, <1>5, <1>6, <1>7, <1>8, <1>9, <1>10, <1>11, <1>12,
     <1>13 DEF Next, Producer, Consumer

(***************************************************************************)
(* The theorems.                                                           *)
(***************************************************************************)
\* ring_buf_*: for every buffer size, the positions stay in the buffer and
\* each call finds, at every step, what it relies on (see CallInv), whatever
\* the interrupt handler adds in between.
THEOREM RingInv ==
  ASSUME GoodClients
  PROVE  Spec => [](TypeOK /\ CallInv)
<1>1. Init => TypeOK /\ CallInv
  BY TypeInit, CallInvInit
<1>2. TypeOK /\ CallInv /\ [Next]_vars => (TypeOK /\ CallInv)'
  BY TypeNext, CallInvNext
<1> QED
  BY <1>1, <1>2, PTL DEF Spec

LEMMA InitRefines == Init => Fifo!Init
<1> SUFFICES ASSUME Init PROVE Fifo!Init
  OBVIOUS
<1>1. Pending = 0
  BY DEF Init, Pending
<1>2. Unread = <<>>
  BY <1>1 DEF Unread
<1> QED
  BY <1>2 DEF Init, Fifo!Init

\* The ring is the bounded queue ByteFifo for every buffer size and every set
\* of bytes: nothing is lost, doubled or reordered between an interrupt
\* handler that adds and a main loop that reads, peeks, discards, consumes,
\* clears or takes lines.
THEOREM RingRefines ==
  ASSUME GoodClients
  PROVE  Spec => Refines
<1>1. TypeOK /\ CallInv /\ [Next]_vars => [Fifo!Next]_Fifo!vars
  BY StepRefines
<1>2. Spec => [](TypeOK /\ CallInv)
  BY RingInv
<1> QED
  BY <1>1, <1>2, InitRefines, PTL DEF Spec, Refines, Fifo!Spec

(***************************************************************************)
(* Lines.  What a stream says is defined by recursion over its bytes, so   *)
(* what is said of it is shown by induction over their number.             *)
(***************************************************************************)
\* Induction over the naturals.
LEMMA NatInduct ==
  ASSUME NEW T, 0 \in T, \A n \in Nat : n \in T => n + 1 \in T
  PROVE  Nat \subseteq T
<1> DEFINE U == Nat \ T
<1>1. SUFFICES ASSUME U # {} PROVE FALSE
  OBVIOUS
<1>2. PICK R : /\ IsWellFoundedOn(R, Nat)
               /\ \A i, j \in Nat : i < j => <<i, j>> \in R
  <2>1. IsWellFoundedOn(OpToRel(<, Nat), Nat)
    BY NatLessThanWellFounded, Zenon
  <2>2. \A i, j \in Nat : i < j => <<i, j>> \in OpToRel(<, Nat)
    BY Zenon DEF OpToRel
  <2>3. QED
    BY <2>1, <2>2, Zenon
<1>3. U \subseteq Nat
  OBVIOUS
<1>4. PICK m \in U : \A y \in U : ~ (<<y, m>> \in R)
  <2> HIDE DEF U
  <2>1. IsWellFoundedOn(R, Nat)
    BY <1>2
  <2>2. QED
    BY <1>1, <1>3, <2>1, WFMin, Zenon
<1>5. m \in Nat /\ m # 0 /\ m - 1 \in Nat /\ m - 1 < m
  BY <1>4
<1>6. m - 1 \notin U
  BY <1>2, <1>4, <1>5
<1>7. QED
  BY <1>4, <1>5, <1>6

\* What a stream was read as is defined byte by byte.
LEMMA ReadingIs ==
  ASSUME NEW s \in Seq(Byte)
  PROVE  /\ Reading(s)[0] = [done |-> <<>>, cur |-> <<>>]
         /\ \A i \in 1..Len(s) : Reading(s)[i] = ReadOne(Reading(s)[i - 1], s[i])
<1> DEFINE Step(f, i) == IF i = 0 THEN [done |-> <<>>, cur |-> <<>>] ELSE ReadOne(f[i - 1], s[i])
           IsOn(f, n) == f = [i \in 0..n |-> Step(f, i)]
           T == {n \in Nat : \E f : IsOn(f, n)}
<1>1. 0 \in T
  <2> DEFINE g == [i \in 0..0 |-> [done |-> <<>>, cur |-> <<>>]]
  <2>1. IsOn(g, 0)
    OBVIOUS
  <2>2. QED
    BY <2>1
<1>2. ASSUME NEW n \in Nat, n \in T PROVE n + 1 \in T
  <2>1. PICK f : IsOn(f, n)
    BY <1>2
  <2> DEFINE g == [i \in 0..(n + 1) |-> IF i = n + 1 THEN ReadOne(f[n], s[n + 1]) ELSE f[i]]
  <2>2. \A i \in 0..n : g[i] = f[i] /\ f[i] = Step(f, i)
    BY <2>1, SMT
  <2>3. ASSUME NEW i \in 0..(n + 1) PROVE g[i] = Step(g, i)
    <3>1. CASE i = n + 1
      <4>1. g[n] = f[n] /\ i - 1 = n /\ i # 0
        BY <2>2, <3>1
      <4>2. QED
        BY <3>1, <4>1
    <3>2. CASE i = 0
      <4>1. i \in 0..n /\ i # n + 1
        BY <3>2
      <4>2. g[i] = f[i] /\ f[i] = [done |-> <<>>, cur |-> <<>>]
        BY <2>2, <3>2, <4>1
      <4>3. QED
        BY <3>2, <4>2
    <3>3. CASE i # n + 1 /\ i # 0
      <4>1. i - 1 \in 0..n /\ i \in 0..n
        BY <3>3
      <4>2. QED
        BY <2>2, <4>1, <3>3
    <3>4. QED
      BY <3>1, <3>2, <3>3
  <2>4. g = [i \in 0..(n + 1) |-> g[i]]
    OBVIOUS
  <2>5. IsOn(g, n + 1)
    <3> HIDE DEF g, Step
    <3>1. QED
      BY <2>3, <2>4
  <2>6. QED
    <3>1. n + 1 \in Nat /\ \E h : IsOn(h, n + 1)
      <4> HIDE DEF IsOn
      <4>1. QED
        BY <2>5
    <3>2. QED
      BY <3>1
<1>3. Len(s) \in T
  <2>1. Nat \subseteq T
    <3> HIDE DEF T
    <3>1. QED
      BY <1>1, <1>2, NatInduct
  <2>2. QED
    BY <2>1
<1>4. IsOn(Reading(s), Len(s))
  <2>1. PICK g : IsOn(g, Len(s))
    BY <1>3
  <2>2. Reading(s) = CHOOSE f : IsOn(f, Len(s))
    BY DEF Reading
  <2>3. QED
    <3> HIDE DEF IsOn
    <3>1. QED
      BY <2>1, <2>2, Zenon
<1>5. \A i \in 0..Len(s) : Reading(s)[i] = Step(Reading(s), i)
  BY <1>4
<1>6. QED
  <2>1. \A i \in 1..Len(s) : i \in 0..Len(s) /\ i # 0
    OBVIOUS
  <2>2. QED
    BY <1>5, <2>1

\* The lines read so far and the one underway.
LEMMA ReadOneType ==
  ASSUME NEW d \in Seq(Seq(Byte)), NEW c \in Seq(Byte), NEW b \in Byte
  PROVE  LET r == ReadOne([done |-> d, cur |-> c], b)
         IN  /\ r = [done |-> r.done, cur |-> r.cur]
             /\ r.done \in Seq(Seq(Byte)) /\ r.cur \in Seq(Byte)
             /\ r.done = d \/ \E l \in Seq(Byte) : r.done = Append(d, l)
<1>1. Append(c, b) \in Seq(Byte) /\ <<>> \in Seq(Byte)
  BY AppendProperties, EmptySeq
<1>2. \A l \in Seq(Byte) : Append(d, l) \in Seq(Seq(Byte))
  BY AppendProperties
<1>3. QED
  BY <1>1, <1>2 DEF ReadOne

LEMMA ReadingType ==
  ASSUME NEW s \in Seq(Byte)
  PROVE  \A i \in 0..Len(s) :
           /\ Reading(s)[i] = [done |-> Reading(s)[i].done, cur |-> Reading(s)[i].cur]
           /\ Reading(s)[i].done \in Seq(Seq(Byte)) /\ Reading(s)[i].cur \in Seq(Byte)
<1> DEFINE R(i) == Reading(s)[i]
           Typed(r) == /\ r = [done |-> r.done, cur |-> r.cur]
                       /\ r.done \in Seq(Seq(Byte)) /\ r.cur \in Seq(Byte)
           T == {i \in Nat : i <= Len(s) => Typed(R(i))}
<1>1. Len(s) \in Nat /\ \A i \in 1..Len(s) : s[i] \in Byte
  BY LenProperties, ElementOfSeq
<1>2. 0 \in T
  <2>1. <<>> \in Seq(Byte) /\ <<>> \in Seq(Seq(Byte))
    BY EmptySeq
  <2>2. R(0) = [done |-> <<>>, cur |-> <<>>]
    BY ReadingIs
  <2>3. Typed(R(0))
    BY <2>1, <2>2
  <2>4. QED
    BY <2>3
<1>3. ASSUME NEW n \in Nat, n \in T PROVE n + 1 \in T
  <2>1. SUFFICES ASSUME n + 1 <= Len(s) PROVE Typed(R(n + 1))
    OBVIOUS
  <2>2. n + 1 \in 1..Len(s) /\ (n + 1) - 1 = n /\ n <= Len(s)
    BY <1>1, <2>1
  <2>3. Typed(R(n)) /\ s[n + 1] \in Byte
    BY <1>1, <1>3, <2>2
  <2>4. R(n + 1) = ReadOne(R(n), s[n + 1])
    BY <2>2, ReadingIs
  <2>5. PICK d \in Seq(Seq(Byte)), c \in Seq(Byte) : R(n) = [done |-> d, cur |-> c]
    BY <2>3
  <2>6. QED
    BY <2>3, <2>4, <2>5, ReadOneType
<1>4. Nat \subseteq T
  <2> HIDE DEF T
  <2>1. QED
    BY <1>2, <1>3, NatInduct
<1>5. QED
  BY <1>1, <1>4

\* Lines that were read stay read.
LEMMA ReadingGrows ==
  ASSUME NEW s \in Seq(Byte), NEW i \in 0..Len(s)
  PROVE  \A j \in i..Len(s) :
           /\ Len(Reading(s)[i].done) <= Len(Reading(s)[j].done)
           /\ \A k \in 1..Len(Reading(s)[i].done) :
                Reading(s)[i].done[k] = Reading(s)[j].done[k]
<1> DEFINE D(j) == Reading(s)[j].done
           Starts(a, b) == Len(a) <= Len(b) /\ \A k \in 1..Len(a) : a[k] = b[k]
           T == {n \in Nat : i + n <= Len(s) => Starts(D(i), D(i + n))}
<1>1. Len(s) \in Nat /\ i \in Nat /\ (\A j \in 1..Len(s) : s[j] \in Byte)
  BY LenProperties, ElementOfSeq
<1>2. \A j \in 0..Len(s) : D(j) \in Seq(Seq(Byte)) /\ Len(D(j)) \in Nat
  BY ReadingType, LenProperties
<1>3. 0 \in T
  <2>1. i + 0 = i
    BY <1>1
  <2>2. QED
    BY <1>2, <2>1
<1>4. ASSUME NEW n \in Nat, n \in T PROVE n + 1 \in T
  <2>1. SUFFICES ASSUME i + (n + 1) <= Len(s) PROVE Starts(D(i), D(i + (n + 1)))
    OBVIOUS
  <2>2. /\ i + (n + 1) \in 1..Len(s) /\ (i + (n + 1)) - 1 = i + n
        /\ i + n \in 0..Len(s) /\ i + n <= Len(s)
    BY <1>1, <2>1
  <2>3. Starts(D(i), D(i + n))
    BY <1>4, <2>2
  <2>4. Reading(s)[i + (n + 1)] = ReadOne(Reading(s)[i + n], s[i + (n + 1)])
    BY <2>2, ReadingIs
  <2>5. PICK d \in Seq(Seq(Byte)), c \in Seq(Byte) : Reading(s)[i + n] = [done |-> d, cur |-> c]
    BY <2>2, ReadingType
  <2>6. D(i + (n + 1)) = d \/ \E l \in Seq(Byte) : D(i + (n + 1)) = Append(d, l)
    <3> DEFINE b == s[i + (n + 1)]
               r == ReadOne([done |-> d, cur |-> c], b)
    <3>1. b \in Byte
      BY <1>1, <2>2
    <3>2. r.done = d \/ \E l \in Seq(Byte) : r.done = Append(d, l)
      <4> HIDE DEF b
      <4>1. QED
        BY <3>1, ReadOneType
    <3>3. D(i + (n + 1)) = r.done
      BY <2>4, <2>5
    <3> HIDE DEF r, D
    <3>4. QED
      BY <3>2, <3>3
  <2>7. d = D(i + n)
    BY <2>5
  <2>8. Starts(d, D(i + (n + 1)))
    <3>1. CASE D(i + (n + 1)) = d
      <4> HIDE DEF D
      <4>1. QED
        BY <3>1, LenProperties
    <3>2. CASE \E l \in Seq(Byte) : D(i + (n + 1)) = Append(d, l)
      <4> HIDE DEF D
      <4>1. PICK l \in Seq(Byte) : D(i + (n + 1)) = Append(d, l)
        BY <3>2
      <4>2. QED
        BY <4>1, AppendProperties, LenProperties
    <3>3. QED
      BY <2>6, <3>1, <3>2
  <2>9. QED
    <3> DEFINE a == D(i)
               b == D(i + (n + 1))
    <3>1. Len(a) \in Nat /\ Len(b) \in Nat /\ Len(d) \in Nat
      BY <1>1, <1>2, <2>2, <2>7
    <3>2. Starts(a, d) /\ Starts(d, b)
      BY <2>3, <2>7, <2>8
    <3> HIDE DEF a, b
    <3>3. Starts(a, b)
      BY <3>1, <3>2
    <3>4. QED
      BY <3>3 DEF a, b
<1>5. Nat \subseteq T
  <2> HIDE DEF T
  <2>1. QED
    BY <1>3, <1>4, NatInduct
<1>6. ASSUME NEW j \in i..Len(s) PROVE Starts(D(i), D(j))
  <2>1. PICK n \in Nat : i + n = j /\ j <= Len(s)
    <3>1. j - i \in Nat /\ i + (j - i) = j /\ j <= Len(s)
      BY <1>1
    <3>2. QED
      BY <3>1
  <2>2. n \in T
    BY <1>5
  <2>3. i + n <= Len(s) => Starts(D(i), D(i + n))
    BY <2>2
  <2>4. QED
    BY <2>1, <2>3
<1>7. QED
  BY <1>6

\* One more byte changes nothing of what was read before it.
LEMMA ReadingKeeps ==
  ASSUME NEW s \in Seq(Byte), NEW b \in Byte
  PROVE  \A i \in 0..Len(s) : Reading(Append(s, b))[i] = Reading(s)[i]
<1> DEFINE more == Append(s, b)
           T == {n \in Nat : n <= Len(s) => Reading(more)[n] = Reading(s)[n]}
<1>1. /\ more \in Seq(Byte) /\ Len(more) = Len(s) + 1 /\ Len(s) \in Nat
      /\ \A i \in 1..Len(s) : more[i] = s[i]
  BY AppendProperties, LenProperties
<1> HIDE DEF more
<1>2. 0 \in T
  BY <1>1, ReadingIs
<1>3. ASSUME NEW n \in Nat, n \in T PROVE n + 1 \in T
  <2>1. SUFFICES ASSUME n + 1 <= Len(s) PROVE Reading(more)[n + 1] = Reading(s)[n + 1]
    OBVIOUS
  <2>2. /\ n + 1 \in 1..Len(s) /\ n + 1 \in 1..Len(more) /\ (n + 1) - 1 = n
        /\ n <= Len(s)
    BY <1>1, <2>1
  <2>3. /\ Reading(more)[n + 1] = ReadOne(Reading(more)[n], more[n + 1])
        /\ Reading(s)[n + 1] = ReadOne(Reading(s)[n], s[n + 1])
    BY <1>1, <2>2, ReadingIs
  <2>4. QED
    BY <1>1, <1>3, <2>2, <2>3
<1>4. Nat \subseteq T
  <2> HIDE DEF T
  <2>1. QED
    BY <1>2, <1>3, NatInduct
<1>5. QED
  BY <1>1, <1>4 DEF more

\* The n bytes of a stream after the first c, and one more.
LEMMA Stretch ==
  ASSUME NEW s \in Seq(Byte), NEW c \in 0..Len(s), NEW n \in 0..(Len(s) - c)
  PROVE  /\ SubSeq(s, c + 1, c + n) \in Seq(Byte)
         /\ Len(SubSeq(s, c + 1, c + n)) = n
         /\ \A i \in 1..n : SubSeq(s, c + 1, c + n)[i] = s[c + i]
<1>1. /\ Len(s) \in Nat /\ c \in Nat /\ n \in Nat
      /\ \A i \in 1..Len(s) : s[i] \in Byte
  BY LenProperties, ElementOfSeq
<1>2. \A i \in (c + 1)..(c + n) : i \in 1..Len(s)
  BY <1>1
<1>3. /\ c + 1 \in Int /\ c + n \in Int /\ (c + n) - (c + 1) + 1 = n
      /\ (IF c + 1 <= c + n THEN (c + n) - (c + 1) + 1 ELSE 0) = n
      /\ \A i \in 1..n : c + 1 + i - 1 = c + i
  BY <1>1
<1>4. QED
  BY <1>1, <1>2, <1>3, SubSeqProperties

LEMMA StretchMore ==
  ASSUME NEW s \in Seq(Byte), NEW c \in 0..Len(s), NEW n \in 0..(Len(s) - c), n + c < Len(s)
  PROVE  SubSeq(s, c + 1, c + (n + 1)) = Append(SubSeq(s, c + 1, c + n), s[c + (n + 1)])
<1> DEFINE one == SubSeq(s, c + 1, c + n)
           two == SubSeq(s, c + 1, c + (n + 1))
           b == s[c + (n + 1)]
<1>1. /\ Len(s) \in Nat /\ c \in Nat /\ n \in Nat /\ n + 1 \in 0..(Len(s) - c)
      /\ c + (n + 1) \in 1..Len(s)
  BY LenProperties
<1>2. b \in Byte
  BY <1>1, ElementOfSeq
<1>3. /\ one \in Seq(Byte) /\ Len(one) = n /\ \A i \in 1..n : one[i] = s[c + i]
      /\ two \in Seq(Byte) /\ Len(two) = n + 1 /\ \A i \in 1..(n + 1) : two[i] = s[c + i]
  BY <1>1, Stretch
<1>4. two[n + 1] = b
  BY <1>1, <1>3, SMTT(30)
<1> HIDE DEF one, two, b
<1>5. /\ Append(one, b) \in Seq(Byte) /\ Len(Append(one, b)) = n + 1
      /\ \A i \in 1..n : Append(one, b)[i] = one[i]
      /\ Append(one, b)[n + 1] = b
  BY <1>2, <1>3, AppendProperties
<1>6. \A i \in 1..(n + 1) : two[i] = Append(one, b)[i]
  <2>1. \A i \in 1..(n + 1) : i \in 1..n \/ i = n + 1
    BY <1>1
  <2>2. QED
    BY <1>3, <1>4, <1>5, <2>1
<1>7. two = Append(one, b)
  BY <1>3, <1>5, <1>6, SeqEqual
<1>8. QED
  BY <1>7 DEF one, two, b

\* Bytes that end no line gather.
LEMMA ReadingGathers ==
  ASSUME NEW s \in Seq(Byte), NEW c \in 0..Len(s), Reading(s)[c].cur = <<>>,
         NEW k \in 0..(LineLen - 2), c + k <= Len(s),
         \A i \in 1..k : s[c + i] \notin Terminator
  PROVE  Reading(s)[c + k] = [done |-> Reading(s)[c].done,
                              cur |-> SubSeq(s, c + 1, c + k)]
<1> DEFINE Is(n) == Reading(s)[c + n] = [done |-> Reading(s)[c].done,
                                         cur |-> SubSeq(s, c + 1, c + n)]
           T == {n \in Nat : n <= k => Is(n)}
<1>1. /\ Len(s) \in Nat /\ c \in Nat /\ k \in Nat /\ LineLen \in Nat
      /\ \A i \in 1..Len(s) : s[i] \in Byte
  BY LenProperties, ElementOfSeq, LineAssumption
<1>2. 0 \in T
  <2>1. c + 0 = c /\ 0 \in 0..(Len(s) - c)
    BY <1>1
  <2>2. SubSeq(s, c + 1, c + 0) = <<>>
    BY <2>1, Stretch, EmptySeq
  <2>3. Reading(s)[c] = [done |-> Reading(s)[c].done, cur |-> <<>>]
    BY ReadingType
  <2>4. Is(0)
    BY <2>1, <2>2, <2>3
  <2>5. QED
    BY <2>4
<1>3. ASSUME NEW n \in Nat, n \in T PROVE n + 1 \in T
  <2>1. SUFFICES ASSUME n + 1 <= k PROVE Is(n + 1)
    OBVIOUS
  <2>2. /\ c + (n + 1) \in 1..Len(s) /\ (c + (n + 1)) - 1 = c + n /\ n <= k
        /\ n \in 0..(Len(s) - c) /\ n + c < Len(s) /\ n + 1 \in 1..k
    BY <1>1, <2>1
  <2> DEFINE one == SubSeq(s, c + 1, c + n)
             two == SubSeq(s, c + 1, c + (n + 1))
             b == s[c + (n + 1)]
  <2>3. Reading(s)[c + n] = [done |-> Reading(s)[c].done, cur |-> one]
    BY <1>3, <2>2
  <2>4. Reading(s)[c + (n + 1)] = ReadOne(Reading(s)[c + n], b)
    BY <2>2, ReadingIs
  <2>5. b \notin Terminator
    BY <1>1, <2>2
  <2>6. two = Append(one, b) /\ Len(Append(one, b)) = n + 1
    <3>1. two = Append(one, b)
      BY <2>2, StretchMore
    <3>2. n + 1 \in 0..(Len(s) - c)
      BY <1>1, <2>2
    <3>3. Len(two) = n + 1
      BY <3>2, Stretch
    <3> HIDE DEF one, two, b
    <3>4. QED
      BY <3>1, <3>3
  <2>7. n + 1 # LineLen - 1
    BY <1>1, <2>1
  <2> HIDE DEF one, two, b
  <2>8. ReadOne([done |-> Reading(s)[c].done, cur |-> one], b)
          = [done |-> Reading(s)[c].done, cur |-> two]
    BY <2>5, <2>6, <2>7 DEF ReadOne
  <2>9. QED
    BY <2>3, <2>4, <2>8 DEF two
<1>4. Nat \subseteq T
  <2> HIDE DEF T
  <2>1. QED
    BY <1>2, <1>3, NatInduct
<1>5. QED
  BY <1>1, <1>4

\* How many bytes of the stream the main loop has taken out of the ring.
Taken == Len(stream) - Pending - (IF adding THEN 1 ELSE 0)

\* The ring holds the end of the stream, and what was taken out of it was read
\* as the lines handed over, with no line half read.
LineInv ==
  /\ stream \in Seq(Byte)
  /\ op \in {"idle", "readline"}
  /\ op = "readline" => len = LineLen - 1 /\ out = <<>>
  /\ Taken \in 0..Len(stream)
  /\ \A i \in 1..Pending : At(i) = stream[Taken + i]
  /\ adding => buf[w_pos] = stream[Len(stream)]
  /\ Reading(stream)[Taken] = [done |-> lines, cur |-> <<>>]

\* The steps of the UART are steps of the ring.
LEMMA LineStep ==
  ASSUME [LNext]_lvars
  PROVE  [Next]_vars
<1>1. CASE Receive
  BY <1>1 DEF Receive, Next, Producer
<1>2. CASE Received
  BY <1>2 DEF Received, Next, Producer
<1>3. CASE Drain
  <2>1. LineLen - 1 \in 1..MaxLen
    BY LineAssumption
  <2>2. QED
    BY <1>3, <2>1 DEF Drain, Next, Consumer, CallReadline
<1>4. CASE Handle
  BY <1>4 DEF Handle, Next, Consumer
<1>5. CASE UNCHANGED lvars
  BY <1>5 DEF lvars
<1>6. QED
  BY <1>1, <1>2, <1>3, <1>4, <1>5 DEF LNext

LEMMA LineInvInit == LInit => LineInv
<1> SUFFICES ASSUME LInit PROVE LineInv
  OBVIOUS
<1>1. stream = <<>> /\ lines = <<>> /\ op = "idle" /\ ~adding /\ r_pos = 0 /\ w_pos = 0
  BY DEF LInit, Init
<1>2. Pending = 0 /\ stream \in Seq(Byte) /\ Len(stream) = 0
  BY <1>1, EmptySeq DEF Pending
<1>3. Taken = 0
  BY <1>1, <1>2 DEF Taken
<1>4. Reading(stream)[Taken] = [done |-> lines, cur |-> <<>>]
  BY <1>1, <1>2, <1>3, ReadingIs
<1>5. QED
  BY <1>1, <1>2, <1>3, <1>4 DEF LineInv

LEMMA ReceiveInv ==
  ASSUME TypeOK, CallInv, LineInv, Receive
  PROVE  LineInv'
<1>1. PICK b \in Byte : AddStore(b) /\ stream' = Append(stream, b) /\ lines' = lines
  BY DEF Receive
<1>2. /\ Pending' = Pending /\ \A i \in 1..Pending : At(i)' = At(i)
      /\ Pending \in Nat
  BY <1>1, StoreKeeps, PendingType DEF TypeOK
<1>3. /\ ~adding /\ adding' /\ UNCHANGED <<w_pos, op, len, out>>
      /\ buf'[w_pos] = b
  BY <1>1 DEF AddStore, TypeOK, consumer
<1>4. /\ stream' \in Seq(Byte) /\ Len(stream') = Len(stream) + 1 /\ Len(stream) \in Nat
      /\ \A i \in 1..Len(stream) : stream'[i] = stream[i]
      /\ stream'[Len(stream) + 1] = b
  BY <1>1, AppendProperties, LenProperties DEF LineInv
<1>5. Taken' = Taken /\ Taken \in 0..Len(stream) /\ Taken = Len(stream) - Pending
  BY <1>2, <1>3, <1>4 DEF Taken, LineInv
<1>6. \A i \in 1..Pending' : At(i)' = stream'[Taken' + i]
  <2>1. \A i \in 1..Pending : Taken + i \in 1..Len(stream)
    BY <1>2, <1>4, <1>5
  <2>2. QED
    BY <1>2, <1>4, <1>5, <2>1 DEF LineInv
<1>7. Reading(stream')[Taken'] = Reading(stream)[Taken]
  BY <1>1, <1>5, ReadingKeeps DEF LineInv
<1>8. adding' => buf'[w_pos'] = stream'[Len(stream')]
  BY <1>3, <1>4
<1>9. Reading(stream')[Taken'] = [done |-> lines', cur |-> <<>>]
  BY <1>1, <1>7 DEF LineInv
<1>10. stream' \in Seq(Byte) /\ Taken' \in 0..Len(stream')
  BY <1>4, <1>5
<1>11. QED
  BY <1>3, <1>6, <1>8, <1>9, <1>10 DEF LineInv

LEMMA ReceivedInv ==
  ASSUME TypeOK, CallInv, LineInv, Received
  PROVE  LineInv'
<1>1. AddPublish /\ UNCHANGED <<stream, lines>>
  BY DEF Received
<1>2. /\ Pending' = Pending + 1 /\ At(Pending + 1) = buf[w_pos]
      /\ \A i \in 1..Pending + 1 : At(i)' = At(i)
      /\ Pending \in Nat
  BY <1>1, PublishAdds, PendingType DEF TypeOK
<1>3. adding /\ ~adding' /\ UNCHANGED <<op, len, out>>
  BY <1>1 DEF AddPublish, consumer
<1>4. Len(stream) \in Nat
  BY LenProperties DEF LineInv
<1>5. /\ Taken' = Taken /\ Taken \in 0..Len(stream)
      /\ Taken + (Pending + 1) = Len(stream)
  BY <1>1, <1>2, <1>3, <1>4 DEF Taken, LineInv
<1>6. \A i \in 1..Pending' : At(i)' = stream'[Taken' + i]
  <2>1. \A i \in 1..Pending' : i \in 1..Pending \/ i = Pending + 1
    BY <1>2
  <2>2. At(Pending + 1) = stream[Taken + (Pending + 1)]
    BY <1>2, <1>3, <1>5 DEF LineInv
  <2>3. QED
    BY <1>1, <1>2, <1>5, <2>1, <2>2 DEF LineInv
<1>7. QED
  BY <1>1, <1>3, <1>5, <1>6 DEF LineInv

\* What a line takes out of the ring is what the stream says next.
LEMMA UnreadIsNext ==
  ASSUME TypeOK, LineInv, ~adding, NEW n \in 0..Pending
  PROVE  /\ SubSeq(Unread, 1, n) = SubSeq(stream, Taken + 1, Taken + n)
         /\ n \in 0..(Len(stream) - Taken)
<1>1. Pending \in Nat /\ Len(stream) \in Nat /\ n \in Nat
  BY PendingType, RingAssumption, LenProperties DEF TypeOK, LineInv
<1>2. /\ Taken \in 0..Len(stream) /\ n \in 0..(Len(stream) - Taken)
      /\ Taken + Pending = Len(stream)
  BY <1>1 DEF Taken, LineInv
<1>3. /\ SubSeq(stream, Taken + 1, Taken + n) \in Seq(Byte)
      /\ Len(SubSeq(stream, Taken + 1, Taken + n)) = n
      /\ \A i \in 1..n : SubSeq(stream, Taken + 1, Taken + n)[i] = stream[Taken + i]
  BY <1>2, Stretch DEF LineInv
<1>4. /\ Unread \in Seq(Byte) /\ Len(Unread) = Pending
      /\ \A i \in 1..Pending : Unread[i] = At(i) /\ At(i) \in Byte
  BY UnreadSeq DEF TypeOK
<1>5. /\ SubSeq(Unread, 1, n) \in Seq(Byte) /\ Len(SubSeq(Unread, 1, n)) = n
      /\ \A i \in 1..n : SubSeq(Unread, 1, n)[i] = Unread[i]
  <2>1. /\ \A i \in 1..n : Unread[i] \in Byte
        /\ (IF 1 <= n THEN n - 1 + 1 ELSE 0) = n /\ n - 1 + 1 = n
        /\ \A i \in 1..n : 1 + i - 1 = i
    BY <1>1, <1>4
  <2>2. 1 \in Int /\ n \in Int
    BY <1>1
  <2>3. QED
    BY <2>1, <2>2, SubSeqProperties
<1>6. \A i \in 1..n : SubSeq(Unread, 1, n)[i] = SubSeq(stream, Taken + 1, Taken + n)[i]
  <2>1. \A i \in 1..n : i \in 1..Pending
    BY <1>1
  <2>2. QED
    BY <1>3, <1>4, <1>5, <2>1 DEF LineInv
<1>7. SubSeq(Unread, 1, n) = SubSeq(stream, Taken + 1, Taken + n)
  BY <1>3, <1>5, <1>6, SeqEqual
<1>8. QED
  BY <1>2, <1>7

\* Bytes are taken out of the ring up to where a line ends.
LEMMA TakenInv ==
  ASSUME TypeOK, LineInv, ~adding, NEW k \in 0..Pending,
         r_pos' = (r_pos + k) % Size, UNCHANGED <<buf, w_pos, adding, stream>>,
         op' = "idle",
         Reading(stream)[Taken + k] = [done |-> lines', cur |-> <<>>]
  PROVE  LineInv'
<1>1. /\ Pending' = Pending - k
      /\ \A i \in 1..(Pending - k) : At(i)' = At(i + k)
  BY Advance DEF TypeOK
<1>2. Pending \in Nat /\ k \in Nat /\ Len(stream) \in Nat
  BY PendingType, RingAssumption, LenProperties DEF TypeOK, LineInv
<1>3. Taken' = Taken + k /\ Taken + Pending = Len(stream) /\ Taken \in Nat
  BY <1>1, <1>2 DEF Taken, LineInv
<1>4. Taken' \in 0..Len(stream')
  BY <1>2, <1>3
<1>5. \A i \in 1..Pending' : At(i)' = stream'[Taken' + i]
  <2>1. \A i \in 1..(Pending - k) : i + k \in 1..Pending /\ Taken + (i + k) = (Taken + k) + i
    BY <1>2, <1>3
  <2>2. QED
    BY <1>1, <1>3, <2>1 DEF LineInv
<1>6. QED
  BY <1>3, <1>4, <1>5 DEF LineInv

\* A terminator ends the line underway, and ends nothing when there is none.
LEMMA Ends ==
  ASSUME NEW d, NEW c, NEW b \in Terminator
  PROVE  ReadOne([done |-> d, cur |-> c], b)
           = [done |-> IF c # <<>> THEN Append(d, c) ELSE d, cur |-> <<>>]
BY DEF ReadOne

LEMMA HandleInv ==
  ASSUME GoodClients, TypeOK, CallInv, LineInv, Handle
  PROVE  LineInv'
<1>1. /\ op = "readline" /\ ~adding /\ op' = "idle" /\ UNCHANGED <<buf, w_pos, adding, stream>>
      /\ len = LineLen - 1 /\ out = <<>> /\ toread <= Pending /\ toread <= len
      /\ lines' = IF out' # <<>> THEN Append(lines, out') ELSE lines
  BY DEF Handle, ScanLine, MainMayRun, GoodClients, Return, LineInv, CallInv, producer
<1>2. /\ Pending \in Nat /\ toread \in Nat /\ Len(stream) \in Nat /\ LineLen \in Nat
      /\ LineLen >= 2 /\ Taken \in Nat /\ Taken \in 0..Len(stream)
      /\ Taken + Pending = Len(stream)
  BY <1>1, PendingType, RingAssumption, LineAssumption, LenProperties
     DEF TypeOK, LineInv, Taken
<1>3. /\ Reading(stream)[Taken].cur = <<>> /\ Reading(stream)[Taken].done = lines
      /\ stream \in Seq(Byte)
  BY DEF LineInv
<1>4. \A i \in 1..toread : At(i) = stream[Taken + i]
  BY <1>1, <1>2 DEF LineInv
<1>5. ASSUME NEW end \in LineEnds, \A i \in LineEnds : end <= i,
             out' = SubSeq(Unread, 1, end - 1),
             r_pos' = (r_pos + end + IF end + 1 \in LineEnds THEN 1 ELSE 0) % Size
      PROVE  LineInv'
  <2>1. /\ end \in 1..toread /\ end - 1 \in 0..Pending /\ end - 1 \in 0..(LineLen - 2)
        /\ Taken + (end - 1) <= Len(stream) /\ Taken + end \in 1..Len(stream)
        /\ (Taken + end) - 1 = Taken + (end - 1) /\ end \in 0..Pending
    BY <1>1, <1>2, <1>5 DEF LineEnds
  <2>2. \A i \in 1..(end - 1) : stream[Taken + i] \notin Terminator
    <3>1. \A i \in 1..(end - 1) : i \in 1..toread /\ ~(end <= i)
      BY <2>1, <1>2
    <3>2. QED
      BY <1>4, <1>5, <3>1 DEF LineEnds
  <2>3. out' = SubSeq(stream, Taken + 1, Taken + (end - 1))
    BY <1>1, <1>5, <2>1, UnreadIsNext
  <2>4. Reading(stream)[Taken + (end - 1)] = [done |-> lines, cur |-> out']
    BY <1>2, <1>3, <2>1, <2>2, <2>3, ReadingGathers
  <2>5. stream[Taken + end] \in Terminator
    BY <1>4, <1>5, <2>1 DEF LineEnds
  <2>6. Reading(stream)[Taken + end] = [done |-> lines', cur |-> <<>>]
    <3>1. Reading(stream)[Taken + end] = ReadOne([done |-> lines, cur |-> out'], stream[Taken + end])
      BY <1>3, <2>1, <2>4, ReadingIs
    <3>2. QED
      BY <1>1, <2>5, <3>1, Ends
  <2>7. CASE end + 1 \notin LineEnds
    <3>1. r_pos' = (r_pos + end) % Size
      <4>1. r_pos + end + 0 = r_pos + end
        BY <2>1, RingAssumption DEF TypeOK, Slot
      <4>2. QED
        BY <1>5, <2>7, <4>1
    <3>2. QED
      BY <1>1, <2>1, <2>6, <3>1, TakenInv
  <2>8. CASE end + 1 \in LineEnds
    <3>1. /\ end + 1 \in 0..Pending /\ end + 1 \in 1..toread
          /\ Taken + (end + 1) \in 1..Len(stream) /\ (Taken + (end + 1)) - 1 = Taken + end
      BY <1>1, <1>2, <2>1, <2>8 DEF LineEnds
    <3>2. stream[Taken + (end + 1)] \in Terminator
      BY <1>4, <2>8, <3>1 DEF LineEnds
    <3>3. Reading(stream)[Taken + (end + 1)] = [done |-> lines', cur |-> <<>>]
      <4>1. Reading(stream)[Taken + (end + 1)]
              = ReadOne([done |-> lines', cur |-> <<>>], stream[Taken + (end + 1)])
        BY <1>3, <2>6, <3>1, ReadingIs
      <4>2. QED
        BY <3>2, <4>1, Ends
    <3>4. r_pos' = (r_pos + (end + 1)) % Size
      <4>1. r_pos + end + 1 = r_pos + (end + 1)
        BY <2>1, RingAssumption DEF TypeOK, Slot
      <4>2. QED
        BY <1>5, <2>8, <4>1
    <3>5. QED
      BY <1>1, <3>1, <3>3, <3>4, TakenInv
  <2>9. QED
    BY <2>7, <2>8
<1>6. ASSUME LineEnds = {}, toread = len, out' = SubSeq(Unread, 1, len),
             r_pos' = (r_pos + len) % Size
      PROVE  LineInv'
  <2>1. PICK n \in Nat : n + 1 = len
    <3>1. LineLen - 2 \in Nat /\ (LineLen - 2) + 1 = len
      BY <1>1, <1>2
    <3>2. QED
      BY <3>1
  <2>2. /\ n \in 0..(LineLen - 2) /\ n + 1 = LineLen - 1 /\ len \in 0..Pending
        /\ n \in 0..(Len(stream) - Taken) /\ n + Taken < Len(stream)
        /\ Taken + n <= Len(stream) /\ Taken + (n + 1) \in 1..Len(stream)
        /\ (Taken + (n + 1)) - 1 = Taken + n /\ n + 1 \in 1..toread
        /\ n + 1 \in 0..(Len(stream) - Taken)
    BY <1>1, <1>2, <1>6, <2>1
  <2>3. \A i \in 1..(n + 1) : stream[Taken + i] \notin Terminator
    BY <1>4, <1>6, <2>1 DEF LineEnds
  <2>4. out' = SubSeq(stream, Taken + 1, Taken + (n + 1))
    BY <1>1, <1>6, <2>1, <2>2, UnreadIsNext
  <2>5. out' = Append(SubSeq(stream, Taken + 1, Taken + n), stream[Taken + (n + 1)])
    BY <1>2, <1>3, <2>2, <2>4, StretchMore
  <2>6. Len(out') = LineLen - 1 /\ out' # <<>>
    <3>1. Len(out') = n + 1
      BY <1>2, <1>3, <2>2, <2>4, Stretch
    <3>2. QED
      BY <2>2, <3>1, EmptySeq
  <2>7. Reading(stream)[Taken + n] = [done |-> lines, cur |-> SubSeq(stream, Taken + 1, Taken + n)]
    <3>1. \A i \in 1..n : stream[Taken + i] \notin Terminator
      BY <2>3
    <3>2. QED
      BY <1>2, <1>3, <2>2, <3>1, ReadingGathers
  <2>8. Reading(stream)[Taken + (n + 1)]
          = ReadOne(Reading(stream)[Taken + n], stream[Taken + (n + 1)])
    BY <1>3, <2>2, ReadingIs
  <2>9. stream[Taken + (n + 1)] \notin Terminator
    BY <2>2, <2>3
  <2>10. Reading(stream)[Taken + (n + 1)] = [done |-> lines', cur |-> <<>>]
    <3> DEFINE one == SubSeq(stream, Taken + 1, Taken + n)
               b == stream[Taken + (n + 1)]
    <3>1. /\ out' = Append(one, b) /\ b \notin Terminator
          /\ Reading(stream)[Taken + (n + 1)] = ReadOne([done |-> lines, cur |-> one], b)
      BY <2>5, <2>7, <2>8, <2>9
    <3> HIDE DEF one, b
    <3>2. ReadOne([done |-> lines, cur |-> one], b) = [done |-> Append(lines, out'), cur |-> <<>>]
      BY <2>6, <3>1 DEF ReadOne
    <3>3. QED
      BY <1>1, <2>6, <3>1, <3>2
  <2>11. QED
    BY <1>1, <1>6, <2>1, <2>2, <2>10, TakenInv
<1>7. ASSUME UNCHANGED <<r_pos, out>> PROVE LineInv'
  <2>1. lines' = lines
    BY <1>1, <1>7
  <2>2. /\ Pending' = Pending /\ Taken' = Taken /\ \A i \in 1..Pending : At(i)' = At(i)
    BY <1>1, <1>7 DEF Pending, Taken, At
  <2>3. QED
    BY <1>1, <2>1, <2>2 DEF LineInv
<1>8. QED
  BY <1>5, <1>6, <1>7 DEF Handle, ScanLine

\* uart_ring_in_drain: the lines handed over are those of the bytes accepted,
\* for every ring, line buffer and stream, wherever the interrupt comes.
THEOREM UartLinesAreThoseSent ==
  ASSUME GoodClients
  PROVE  LSpec => []LinesAreThoseSent
<1> DEFINE I == TypeOK /\ CallInv /\ LineInv
<1>1. LInit => I
  BY TypeInit, CallInvInit, LineInvInit DEF LInit
<1>2. I /\ [LNext]_lvars => I'
  <2> SUFFICES ASSUME I, [LNext]_lvars PROVE I'
    OBVIOUS
  <2>1. TypeOK' /\ CallInv'
    BY LineStep, TypeNext, CallInvNext
  <2>2. CASE Drain
    <3>1. /\ op' = "readline" /\ len' = LineLen - 1 /\ out' = <<>>
          /\ UNCHANGED <<buf, r_pos, w_pos, adding, stream, lines>>
      BY <2>2 DEF Drain, Call, ring, producer
    <3>2. /\ Pending' = Pending /\ Taken' = Taken /\ \A i \in 1..Pending : At(i)' = At(i)
      BY <3>1 DEF Pending, Taken, At
    <3>3. LineInv'
      BY <3>1, <3>2 DEF LineInv
    <3>4. QED
      BY <2>1, <3>3
  <2>3. CASE UNCHANGED lvars
    <3>1. UNCHANGED <<buf, r_pos, w_pos, adding, op, len, out, stream, lines>>
      BY <2>3 DEF lvars, vars, ring, producer, consumer
    <3>2. /\ Pending' = Pending /\ Taken' = Taken /\ \A i \in 1..Pending : At(i)' = At(i)
      BY <3>1 DEF Pending, Taken, At
    <3>3. LineInv'
      BY <3>1, <3>2 DEF LineInv
    <3>4. QED
      BY <2>1, <3>3
  <2>4. QED
    BY <2>1, <2>2, <2>3, ReceiveInv, ReceivedInv, HandleInv DEF LNext
<1>3. I => LinesAreThoseSent
  <2> SUFFICES ASSUME I PROVE LinesAreThoseSent
    OBVIOUS
  <2> DEFINE all == Reading(stream)[Len(stream)].done
  <2>1. /\ stream \in Seq(Byte) /\ Taken \in 0..Len(stream) /\ Len(stream) \in Nat
        /\ Reading(stream)[Taken].done = lines
    BY LenProperties DEF LineInv
  <2>2. /\ lines \in Seq(Seq(Byte)) /\ all \in Seq(Seq(Byte))
        /\ Len(lines) \in Nat /\ Len(all) \in Nat
    <3>1. Len(stream) \in 0..Len(stream)
      BY <2>1
    <3>2. lines \in Seq(Seq(Byte)) /\ all \in Seq(Seq(Byte))
      BY <2>1, <3>1, ReadingType
    <3>3. QED
      BY <3>2, LenProperties
  <2>3. Len(lines) <= Len(all) /\ \A k \in 1..Len(lines) : lines[k] = all[k]
    <3>1. Len(stream) \in Taken..Len(stream)
      BY <2>1
    <3>2. \A j \in Taken..Len(stream) :
            /\ Len(Reading(stream)[Taken].done) <= Len(Reading(stream)[j].done)
            /\ \A k \in 1..Len(Reading(stream)[Taken].done) :
                 Reading(stream)[Taken].done[k] = Reading(stream)[j].done[k]
      BY <2>1, ReadingGrows
    <3>3. QED
      BY <2>1, <3>1, <3>2
  <2> HIDE DEF all
  <2>4. SubSeq(lines, 1, Len(lines)) = SubSeq(all, 1, Len(lines))
    <3> DEFINE n == Len(lines)
    <3>1. n \in Nat /\ n <= Len(all) /\ \A k \in 1..n : k \in 1..Len(all)
      BY <2>2, <2>3
    <3>2. /\ SubSeq(lines, 1, n) \in Seq(Seq(Byte)) /\ Len(SubSeq(lines, 1, n)) = n
          /\ \A k \in 1..n : SubSeq(lines, 1, n)[k] = lines[k]
      BY <2>2, <3>1
    <3>3. /\ SubSeq(all, 1, n) \in Seq(Seq(Byte)) /\ Len(SubSeq(all, 1, n)) = n
          /\ \A k \in 1..n : SubSeq(all, 1, n)[k] = all[k]
      BY <2>2, <3>1
    <3> HIDE DEF n
    <3>4. QED
      BY <2>3, <3>2, <3>3, SeqEqual DEF n
  <2>5. S!IsPrefix(lines, all)
    BY <2>3, <2>4 DEF S!IsPrefix
  <2>6. QED
    BY <2>5 DEF LinesAreThoseSent, LinesOf, all
<1>4. QED
  BY <1>1, <1>2, <1>3, PTL DEF LSpec

-----------------------------------------------------------------------------
(* The bytes of a UART, from the ring to the line.                        *)

OutByte == (Nat \ {0}) \X (Nat \ {0})
OneByte == {<<>>, <<Raw>>} \cup {<<b>> : b \in OutByte}

\* The bytes of the ring, from the line back to the ring.
Whole(w, s, t, d, r) == w \o s \o t \o d \o r

\* A byte of the ring as a sequence.
LEMMA Singles == \A b \in OutByte : <<b>> \in Seq(OutByte) /\ <<b>> \in OneByte /\ b # Raw /\ OfRing(<<b>>) = <<b>>
<1> TAKE b \in OutByte
<1>1. <<b>> \in Seq(OutByte) /\ <<b>> \in OneByte
  BY DEF OneByte
<1>2. b # Raw
  BY DEF OutByte, Raw
<1>3. OfRing(<<b>>) = <<b>>
  BY <1>2 DEF OfRing
<1> QED BY <1>1, <1>2, <1>3

\* What is of the ring in a register of the UART.
LEMMA OfRings ==
  /\ OfRing(<<>>) = <<>> /\ OfRing(<<Raw>>) = <<>>
  /\ \A o \in OneByte : OfRing(o) \in Seq(OutByte)
<1>1. OfRing(<<>>) = <<>> /\ OfRing(<<Raw>>) = <<>>
  BY DEF OfRing
<1>2. \A o \in OneByte : OfRing(o) \in Seq(OutByte)
  BY <1>1, Singles, EmptySeq DEF OneByte
<1> QED BY <1>1, <1>2

\* Concatenation is associative.
LEMMA Assoc ==
  ASSUME NEW a \in Seq(OutByte), NEW b \in Seq(OutByte), NEW c \in Seq(OutByte)
  PROVE  (a \o b) \o c = a \o (b \o c)
BY ConcatAssociative

\* And keeps to bytes of the ring.
LEMMA Joins == /\ \A a, b \in Seq(OutByte) : a \o b \in Seq(OutByte)
               /\ \A a, b, c \in Seq(OutByte) : (a \o b) \o c = a \o (b \o c)
               /\ \A a \in Seq(OutByte) : a \o <<>> = a /\ <<>> \o a = a
               /\ <<>> \in Seq(OutByte)
<1>1. \A a, b \in Seq(OutByte) : a \o b \in Seq(OutByte)
  BY ConcatProperties
<1>2. \A a, b, c \in Seq(OutByte) : (a \o b) \o c = a \o (b \o c)
  BY ConcatAssociative
<1>3. \A a \in Seq(OutByte) : a \o <<>> = a /\ <<>> \o a = a
  BY ConcatEmptySeq
<1> QED BY <1>1, <1>2, <1>3, EmptySeq

\* The bytes on their way, from the line back to the ring.
LEMMA Wholes ==
  ASSUME NEW w \in Seq(OutByte), NEW s \in Seq(OutByte), NEW t \in Seq(OutByte),
         NEW d \in Seq(OutByte), NEW r \in Seq(OutByte)
  PROVE  /\ Whole(w, s, t, d, r) = (((w \o s) \o t) \o d) \o r
         /\ Whole(w, s, t, d, r) \in Seq(OutByte)
         /\ Whole(w \o s, <<>>, t, d, r) = Whole(w, s, t, d, r)
         /\ Whole(w, t, <<>>, d, r) = Whole(w, <<>>, t, d, r)
<1>0. <<>> \in Seq(OutByte)
  BY EmptySeq
<1>1. w \o s \in Seq(OutByte) /\ (w \o s) \o t \in Seq(OutByte) /\ ((w \o s) \o t) \o d \in Seq(OutByte)
      /\ (((w \o s) \o t) \o d) \o r \in Seq(OutByte)
  BY ConcatProperties
<1>2. (w \o s) \o <<>> = w \o s
  BY <1>1, ConcatEmptySeq
<1>3. (w \o t) \o <<>> = (w \o <<>>) \o t
  BY ConcatEmptySeq, ConcatProperties
<1> QED BY <1>1, <1>2, <1>3, Zenon DEF Whole

\* The DMA moves them on.
LEMMA WholeDma ==
  ASSUME NEW w \in Seq(OutByte), NEW s \in Seq(OutByte), NEW d \in Seq(OutByte), NEW r \in Seq(OutByte), d # <<>>
  PROVE  Whole(w, s, <<Head(d)>>, Tail(d), r) = Whole(w, s, <<>>, d, r)
<1>1. Head(d) \in OutByte /\ Tail(d) \in Seq(OutByte) /\ d = <<Head(d)>> \o Tail(d)
  <2>1. Head(d) \in OutByte /\ Tail(d) \in Seq(OutByte)
    BY HeadTailProperties
  <2>2. 1 \in 1..Len(d) /\ Len(d) \in 1..Len(d)
    BY EmptySeq
  <2>3. SubSeq(d, 1, Len(d)) = <<d[1]>> \o SubSeq(d, 2, Len(d))
    BY <2>2, SubSeqRecursiveFirst
  <2>4. SubSeq(d, 1, Len(d)) = d /\ Tail(d) = SubSeq(d, 2, Len(d)) /\ Head(d) = d[1]
    BY SubSeqFull, TailIsSubSeq
  <2> QED BY <2>1, <2>3, <2>4
<1>2. <<Head(d)>> \in Seq(OutByte) /\ <<>> \in Seq(OutByte) /\ w \o s \in Seq(OutByte)
  BY <1>1, Singles, EmptySeq, ConcatProperties
<1>3. ((w \o s) \o <<Head(d)>>) \o Tail(d) = (w \o s) \o d
  <2> DEFINE h == <<Head(d)>>
             tl == Tail(d)
             ws == w \o s
  <2>a. h \in Seq(OutByte)
    BY <1>2
  <2>b. tl \in Seq(OutByte)
    BY <1>1
  <2>c. ws \in Seq(OutByte)
    BY <1>2
  <2>1. h \o tl = d
    BY <1>1
  <2> HIDE DEF h, tl, ws
  <2>2. (ws \o h) \o tl = ws \o d
    <3>1. (ws \o h) \o tl = ws \o (h \o tl)
      BY <2>a, <2>b, <2>c, Assoc, Zenon
    <3> QED BY <2>1, <3>1, Zenon
  <2> QED BY <2>2 DEF h, tl, ws
<1>4. ((w \o s) \o <<>>) \o d = (w \o s) \o d
  BY <1>2, ConcatEmptySeq
<1> QED BY <1>3, <1>4, Zenon DEF Whole

\* As does taking them out of the ring.
LEMMA WholeConsume ==
  ASSUME NEW w \in Seq(OutByte), NEW s \in Seq(OutByte), NEW r \in Seq(OutByte), NEW n \in 1..Len(r)
  PROVE  /\ SubSeq(r, 1, n) \in Seq(OutByte) /\ SubSeq(r, n + 1, Len(r)) \in Seq(OutByte)
         /\ Whole(w, s, <<>>, SubSeq(r, 1, n), SubSeq(r, n + 1, Len(r))) = Whole(w, s, <<>>, <<>>, r)
         /\ n = 1 => Whole(w, s, <<Head(r)>>, <<>>, SubSeq(r, n + 1, Len(r))) = Whole(w, s, <<>>, <<>>, r)
<1> DEFINE a == SubSeq(r, 1, n)
           b == SubSeq(r, n + 1, Len(r))
           ws == w \o s
<1>0. Len(r) \in Nat /\ \A i \in 1..Len(r) : r[i] \in OutByte
  BY ElementOfSeq, LenProperties
<1>1. a \in Seq(OutByte) /\ b \in Seq(OutByte)
  <2> DEFINE l == Len(r)
  <2>1. l \in Nat /\ n \in 1..l
    BY <1>0
  <2>2. \A i \in 1..l : r[i] \in OutByte
    BY <1>0
  <2> HIDE DEF l
  <2>3. /\ \A i \in 1..n : r[i] \in OutByte
        /\ \A i \in (n + 1)..l : r[i] \in OutByte
        /\ n \in Int /\ n + 1 \in Int /\ l \in Int /\ 1 \in Int
    BY <2>1, <2>2
  <2> QED BY <2>3, SubSeqProperties DEF l
<1>2. a \o b = r
  <2> DEFINE l == Len(r)
  <2>1. l \in Nat /\ n \in 1..l
    BY <1>0
  <2> HIDE DEF l
  <2>2. 1 \in 1..(l + 1) /\ n \in (1 - 1)..l /\ l \in n..l
    BY <2>1
  <2>3. SubSeq(r, 1, n) \o SubSeq(r, n + 1, l) = SubSeq(r, 1, l)
    BY <2>2, ConcatAdjacentSubSeq DEF l
  <2> QED BY <2>3, SubSeqFull DEF l
<1>m. ws \in Seq(OutByte)
  BY ConcatProperties
<1>3. <<>> \in Seq(OutByte) /\ ws \in Seq(OutByte) /\ ws \o <<>> = ws
  BY <1>m, EmptySeq, ConcatEmptySeq
<1> HIDE DEF a, b, ws
<1>4. (ws \o a) \o b = ws \o r
  <2>1. (ws \o a) \o b = ws \o (a \o b)
    <3>1. a \in Seq(OutByte)
      BY <1>1
    <3>2. b \in Seq(OutByte)
      BY <1>1
    <3> QED BY <3>1, <3>2, <1>m, Assoc, Zenon
  <2> QED BY <1>2, <2>1, Zenon
<1>5. n = 1 => a = <<Head(r)>>
  <2> SUFFICES ASSUME n = 1 PROVE a = <<Head(r)>>
    OBVIOUS
  <2>1. SubSeq(r, 1, 1) = <<r[1]>> \o SubSeq(r, 2, 1)
    BY SubSeqRecursiveFirst
  <2>2. SubSeq(r, 2, 1) = <<>>
    BY SubSeqEmpty
  <2>3. <<r[1]>> \in Seq(OutByte) /\ r[1] = Head(r)
    BY <1>0, Singles
  <2> QED BY <2>1, <2>2, <2>3, Joins, Zenon DEF a
<1> USE DEF ws
<1>6. ((ws \o <<>>) \o a) \o b = ((ws \o <<>>) \o <<>>) \o r
  BY <1>3, <1>4, Zenon
<1>7. n = 1 => ((ws \o a) \o <<>>) \o b = ((ws \o <<>>) \o <<>>) \o r
  <2>1. ws \o a \in Seq(OutByte) /\ (ws \o a) \o <<>> = ws \o a
    BY <1>1, <1>3, ConcatProperties, ConcatEmptySeq
  <2> QED BY <1>3, <1>4, <2>1, Zenon
<1> QED BY <1>1, <1>5, <1>6, <1>7, Zenon DEF Whole, a, b

\* What goes into the ring comes last.
LEMMA WholeMore ==
  ASSUME NEW w \in Seq(OutByte), NEW s \in Seq(OutByte), NEW t \in Seq(OutByte),
         NEW d \in Seq(OutByte), NEW r \in Seq(OutByte), NEW x \in Seq(OutByte)
  PROVE  Whole(w, s, t, d, r \o x) = Whole(w, s, t, d, r) \o x
<1> DEFINE p == ((w \o s) \o t) \o d
<1>1. p \in Seq(OutByte)
  BY Joins, Zenon
<1> HIDE DEF p
<1>2. p \o (r \o x) = (p \o r) \o x
  BY <1>1, Assoc
<1> QED BY <1>2 DEF Whole, p

OutSeqs ==
  /\ line \in {"debug", "rs485"}
  /\ wire \in Seq(OutByte) /\ accepted \in Seq(OutByte) /\ sending \in Seq(OutByte)
  /\ dma \in Seq(OutByte) /\ text \in Seq(OutByte)
  /\ tdr \in OneByte /\ shift \in OneByte
  /\ copied \in Nat /\ slot \in Nat /\ count \in Nat /\ stop_age \in Nat

OutControl ==
  /\ text # <<>> => copied < Len(text)
  /\ slot # 0 => text # <<>>
  /\ ~doing_dma => dma = <<>>
  /\ line = "rs485" => raw = ""
  /\ stopping => line = "rs485"

\* The line being copied is in order, and the ring ends with what was copied of
\* it, unless the ring is full.
InLine ==
  /\ slot # 0 => slot = Len(sending) + 1
  /\ text # <<>> => \A j \in 1..Len(text) : text[j] = <<text[1][1], j>>
  /\ text # <<>> /\ copied > 0 =>
       \/ Room = 0 /\ slot = 0
       \/ accepted # <<>> /\ accepted[Len(accepted)] = text[copied]

\* The driver is on while anything is on its way, and off only after it.
Driven ==
  /\ line = "rs485" /\ ~driver => shift = <<>> /\ tdr = <<>> /\ ~doing_dma
  /\ stopping => /\ text = <<>> /\ sending = <<>> /\ tdr = <<>> /\ ~doing_dma
                 /\ stop_age > 0 => shift = <<>>

OutInv == /\ OutSeqs /\ OutControl
          /\ spoilt = {} => OnItsWay = accepted /\ NoHoles /\ InLine /\ Driven

\* A line is its bytes in order.
LEMMA LineSeq == ASSUME NEW k \in 1..LongestLine, count \in Nat
                 PROVE  Line(k) \in Seq(OutByte) /\ Len(Line(k)) = k /\ \A i \in 1..k : Line(k)[i] = <<count + 1, i>>
<1>1. k \in Nat /\ count + 1 \in Nat \ {0}
  BY UartOutAssumption
<1>2. Line(k) \in [1..k -> OutByte]
  BY <1>1 DEF Line, OutByte
<1>3. Line(k) \in Seq(OutByte) /\ Len(Line(k)) = k
  BY <1>1, <1>2 DEF Line
<1> QED BY <1>3 DEF Line

\* The next byte of the text.
LEMMA TextNext == ASSUME OutSeqs, OutControl, text # <<>>, NextByte
                  PROVE  /\ text' \in Seq(OutByte) /\ copied' \in Nat
                         /\ text' # <<>> => /\ copied' < Len(text') /\ text' = text /\ copied' = copied + 1
                         /\ copied + 1 \in 1..Len(text) /\ text[copied + 1] \in OutByte
<1> DEFINE l == Len(text)
<1>1. l \in Nat /\ copied \in Nat /\ copied < l
  BY LenProperties DEF OutSeqs, OutControl
<1>2. \/ copied + 1 = l /\ text' = <<>> /\ copied' = 0
      \/ copied + 1 # l /\ copied' = copied + 1 /\ text' = text
  BY DEF NextByte
<1>3. text \in Seq(OutByte) /\ <<>> \in Seq(OutByte)
  BY EmptySeq DEF OutSeqs
<1> HIDE DEF l
<1>4. copied + 1 \in 1..l /\ (copied + 1 # l => copied + 1 < l) /\ 0 \in Nat /\ copied + 1 \in Nat
  BY <1>1
<1>5. text[copied + 1] \in OutByte
  BY <1>3, <1>4, ElementOfSeq DEF l
<1>6. text' # <<>> => copied' < Len(text') /\ text' = text /\ copied' = copied + 1
  BY <1>2, <1>4, Zenon DEF l
<1> QED BY <1>2, <1>3, <1>4, <1>5, <1>6, Zenon DEF l

\* A text is given.
LEMMA GiveInv == ASSUME OutInv, Give PROVE OutInv'
<1>1. PICK k \in 1..LongestLine :
        /\ MainFree /\ text' = Line(k) /\ copied' = 0 /\ count' = count + 1
        /\ spoilt' = IF stopping THEN spoilt \cup {"stopping"} ELSE spoilt
        /\ UNCHANGED <<line, sending, slot, lately, raw, transmitter, rs485, accepted>>
  BY DEF Give
<1>2. count \in Nat /\ k \in Nat \ {0}
  BY UartOutAssumption DEF OutInv, OutSeqs
<1>3. Line(k) \in Seq(OutByte) /\ Len(Line(k)) = k /\ \A i \in 1..k : Line(k)[i] = <<count + 1, i>>
  BY <1>2, LineSeq
<1>4. OutSeqs'
  BY <1>1, <1>2, <1>3 DEF OutInv, OutSeqs, transmitter, rs485
<1>5. OutControl'
  <2>1. text' # <<>> => copied' < Len(text')
    <3>1. 0 < k
      BY <1>2
    <3> QED BY <1>1, <1>3, <3>1
  <2>2. slot' = 0
    BY <1>1 DEF OutInv, OutControl, MainFree
  <2> QED BY <1>1, <2>1, <2>2 DEF OutInv, OutControl, transmitter, rs485
<1>6. ASSUME spoilt' = {} PROVE (OnItsWay = accepted /\ NoHoles /\ InLine /\ Driven)'
  <2>1. spoilt = {} /\ ~stopping
    BY <1>1, <1>6
  <2>2. OnItsWay' = accepted' /\ NoHoles'
    BY <1>1, <2>1 DEF OutInv, OnItsWay, NoHoles, transmitter
  <2>3. InLine'
    <3>1. slot' = 0 /\ copied' = 0
      BY <1>1 DEF OutInv, OutControl, MainFree
    <3>2. \A j \in 1..Len(text') : text'[j] = <<text'[1][1], j>>
      <4>1. 1 \in 1..k
        BY <1>2
      <4>2. text'[1] = <<count + 1, 1>> /\ text'[1][1] = count + 1
        BY <1>1, <1>3, <4>1
      <4> QED BY <1>1, <1>3, <4>2
    <3> QED BY <3>1, <3>2 DEF InLine
  <2>4. Driven'
    BY <1>1, <2>1 DEF OutInv, Driven, transmitter, rs485
  <2> QED BY <2>2, <2>3, <2>4
<1> QED BY <1>4, <1>5, <1>6 DEF OutInv

\* A byte is stored.
LEMMA StoreInv == ASSUME OutInv, StoreByte PROVE OutInv'
<1>1. /\ text # <<>> /\ slot = 0 /\ line' = line /\ sending' = sending /\ accepted' = accepted /\ count' = count
      /\ spoilt' = spoilt /\ wire' = wire /\ dma' = dma /\ tdr' = tdr /\ shift' = shift /\ doing_dma' = doing_dma
      /\ driver' = driver /\ stopping' = stopping /\ stop_age' = stop_age /\ Room' = Room
  BY DEF StoreByte, transmitter, rs485, Room
<1>2. \/ Room > 0 /\ slot' = Len(sending) + 1 /\ UNCHANGED <<text, copied, lately, raw>>
      \/ Room = 0 /\ NextByte /\ UNCHANGED <<slot, lately, raw>>
      \/ /\ text' = <<>> /\ copied' = 0 /\ UNCHANGED slot
         /\ raw' = IF line = "debug" THEN "wait" ELSE ""
  BY DEF StoreByte
<1>3. text \in Seq(OutByte) /\ copied \in Nat /\ <<>> \in Seq(OutByte) /\ Len(sending) \in Nat
  BY EmptySeq, LenProperties DEF OutInv, OutSeqs
<1>4. OutSeqs' /\ OutControl' /\ (text' # <<>> => text' = text)
  <2>1. CASE Room > 0 /\ slot' = Len(sending) + 1 /\ UNCHANGED <<text, copied, lately, raw>>
    <3>1. slot' \in Nat
      <4> DEFINE n == Len(sending)
      <4>1. n \in Nat /\ slot' = n + 1
        BY <1>3, <2>1
      <4> HIDE DEF n
      <4> QED BY <4>1
    <3>2. OutSeqs'
      BY <1>1, <2>1, <3>1, Zenon DEF OutInv, OutSeqs
    <3> QED BY <1>1, <2>1, <3>2, Zenon DEF OutInv, OutControl
  <2>2. CASE Room = 0 /\ NextByte /\ UNCHANGED <<slot, lately, raw>>
    <3>1. text' \in Seq(OutByte) /\ copied' \in Nat /\ (text' # <<>> => copied' < Len(text') /\ text' = text)
      BY <1>1, <2>2, TextNext DEF OutInv
    <3>2. OutSeqs'
      BY <1>1, <2>2, <3>1, Zenon DEF OutInv, OutSeqs
    <3>3. slot' = 0 /\ raw' = raw
      BY <1>1, <2>2
    <3> QED BY <1>1, <3>1, <3>2, <3>3, Zenon DEF OutInv, OutControl
  <2>3. CASE text' = <<>> /\ copied' = 0 /\ slot' = slot /\ raw' = IF line = "debug" THEN "wait" ELSE ""
    <3>1. copied' \in Nat /\ slot' = 0 /\ slot' \in Nat /\ (line' = "rs485" => raw' = "")
      BY <1>1, <2>3
    <3>2. OutSeqs'
      BY <1>1, <1>3, <2>3, <3>1, Zenon DEF OutInv, OutSeqs
    <3> QED BY <1>1, <2>3, <3>1, <3>2, Zenon DEF OutInv, OutControl
  <2> QED BY <1>2, <2>1, <2>2, <2>3
<1>5. ASSUME spoilt' = {} PROVE (OnItsWay = accepted /\ NoHoles /\ InLine /\ Driven)'
  <2>1. spoilt = {} /\ OnItsWay = accepted /\ NoHoles /\ InLine /\ Driven
    BY <1>1, <1>5 DEF OutInv
  <2>2. OnItsWay' = accepted' /\ NoHoles'
    BY <1>1, <2>1 DEF OnItsWay, NoHoles
  <2>3. Driven'
    BY <1>1, <2>1 DEF Driven
  <2>4. \A j \in 1..Len(text) : text[j] = <<text[1][1], j>>
    BY <1>1, <2>1 DEF InLine
  <2>5. InLine'
    <3>1. CASE Room > 0 /\ slot' = Len(sending) + 1 /\ UNCHANGED <<text, copied, lately, raw>>
      <4>1. ~(Room = 0)
        BY <3>1
      <4>2. copied > 0 => accepted # <<>> /\ accepted[Len(accepted)] = text[copied]
        BY <1>1, <2>1, <4>1, Zenon DEF InLine
      <4> QED BY <1>1, <2>4, <3>1, <4>2, Zenon DEF InLine
    <3>2. CASE Room = 0 /\ NextByte /\ UNCHANGED <<slot, lately, raw>>
      <4>1. slot' = 0 /\ Room' = 0
        BY <1>1, <3>2
      <4> QED BY <1>4, <2>4, <4>1, Zenon DEF InLine
    <3>3. CASE text' = <<>> /\ slot' = slot
      BY <1>1, <3>3, Zenon DEF InLine
    <3> QED BY <1>2, <3>1, <3>2, <3>3
  <2> QED BY <2>2, <2>3, <2>5
<1> QED BY <1>4, <1>5 DEF OutInv

\* What is on its way is of the ring, and what is added to the ring comes last.
LEMMA OnItsWayMore ==
  ASSUME OutSeqs, NEW x \in Seq(OutByte), sending' = sending \o x,
         wire' = wire, shift' = shift, tdr' = tdr, dma' = dma
  PROVE  OnItsWay' = OnItsWay \o x
<1> DEFINE p == wire \o OfRing(shift) \o OfRing(tdr) \o dma
<1>1. p \in Seq(OutByte)
  <2>1. wire \in Seq(OutByte) /\ OfRing(shift) \in Seq(OutByte) /\ OfRing(tdr) \in Seq(OutByte)
        /\ dma \in Seq(OutByte)
    BY OfRings DEF OutSeqs
  <2>2. wire \o OfRing(shift) \in Seq(OutByte)
    BY <2>1, ConcatProperties
  <2>3. wire \o OfRing(shift) \o OfRing(tdr) \in Seq(OutByte)
    BY <2>1, <2>2, ConcatProperties
  <2> QED BY <2>1, <2>3, ConcatProperties
<1>2. sending \in Seq(OutByte)
  BY DEF OutSeqs
<1>3. OnItsWay' = p \o (sending \o x) /\ OnItsWay = p \o sending
  BY Zenon DEF OnItsWay
<1> HIDE DEF p
<1>4. p \o (sending \o x) = (p \o sending) \o x
  BY <1>1, <1>2, Assoc, Zenon
<1> QED BY <1>3, <1>4, Zenon

\* One more byte of a line, after the one before it.
LEMMA NoHolesMore ==
  ASSUME accepted \in Seq(OutByte), NoHoles, NEW b \in OutByte, accepted' = Append(accepted, b),
         b[2] > 1 => accepted # <<>> /\ accepted[Len(accepted)] = <<b[1], b[2] - 1>>
  PROVE  NoHoles'
<1> DEFINE n == Len(accepted)
<1>1. /\ n \in Nat /\ accepted' \in Seq(OutByte) /\ Len(accepted') = n + 1
      /\ \A i \in 1..n : accepted'[i] = accepted[i]
      /\ accepted'[n + 1] = b
  BY AppendProperties, LenProperties
<1>2. DOMAIN accepted = 1..n /\ DOMAIN accepted' = 1..(n + 1)
  BY <1>1, LenProperties
<1>3. accepted # <<>> => n > 0
  BY EmptySeq
<1>4. b[2] > 1 => n > 0 /\ accepted[n] = <<b[1], b[2] - 1>>
  BY <1>3
<1> HIDE DEF n
<1>5. ASSUME NEW i \in 1..(n + 1), accepted'[i][2] > 1
      PROVE  i > 1 /\ accepted'[i - 1] = <<accepted'[i][1], accepted'[i][2] - 1>>
  <2>1. CASE i \in 1..n
    <3>1. accepted'[i] = accepted[i] /\ i > 1 /\ accepted[i - 1] = <<accepted[i][1], accepted[i][2] - 1>>
      BY <1>1, <1>2, <1>5, <2>1 DEF NoHoles
    <3>2. i - 1 \in 1..n
      BY <1>1, <2>1, <3>1
    <3>3. accepted'[i - 1] = accepted[i - 1]
      BY <1>1, <3>2
    <3> QED BY <3>1, <3>3
  <2>2. CASE i = n + 1
    <3>1. n > 0 /\ accepted[n] = <<b[1], b[2] - 1>> /\ accepted'[i] = b
      BY <1>1, <1>4, <1>5, <2>2
    <3>2. i > 1 /\ i - 1 = n /\ n \in 1..n
      BY <1>1, <2>2, <3>1
    <3> QED BY <1>1, <3>1, <3>2
  <2> QED BY <1>1, <2>1, <2>2
<1> QED BY <1>2, <1>5, Zenon DEF NoHoles

\* A byte is published.
LEMMA PublishInv == ASSUME OutInv, PublishByte PROVE OutInv'
<1> DEFINE b == text[copied + 1]
<1>1. /\ slot # 0 /\ slot' = 0 /\ NextByte /\ accepted' = Append(accepted, b)
      /\ sending' = IF Len(sending) >= slot THEN SubSeq(sending, 1, slot) ELSE Append(sending, b)
      /\ line' = line /\ count' = count /\ spoilt' = spoilt /\ wire' = wire /\ dma' = dma /\ tdr' = tdr
      /\ shift' = shift /\ doing_dma' = doing_dma /\ driver' = driver /\ stopping' = stopping
      /\ stop_age' = stop_age /\ raw' = raw
  BY DEF PublishByte, transmitter, rs485
<1>2. /\ text # <<>> /\ text' \in Seq(OutByte) /\ copied' \in Nat /\ copied + 1 \in 1..Len(text) /\ b \in OutByte
      /\ text' # <<>> => copied' < Len(text') /\ text' = text /\ copied' = copied + 1
  <2>1. OutSeqs /\ OutControl /\ text # <<>>
    BY <1>1 DEF OutInv, OutControl
  <2> QED BY <1>1, <2>1, TextNext
<1>3. sending \in Seq(OutByte) /\ accepted \in Seq(OutByte) /\ copied \in Nat /\ slot \in Nat
  BY DEF OutInv, OutSeqs
<1> HIDE DEF b
<1>4. sending' \in Seq(OutByte) /\ accepted' \in Seq(OutByte)
  <2>1. Append(sending, b) \in Seq(OutByte) /\ accepted' \in Seq(OutByte)
    BY <1>1, <1>2, <1>3, AppendProperties
  <2>2. ASSUME Len(sending) >= slot PROVE SubSeq(sending, 1, slot) \in Seq(OutByte)
    <3> DEFINE n == Len(sending)
    <3>1. n \in Nat /\ n >= slot /\ \A i \in 1..n : sending[i] \in OutByte
      BY <1>3, <2>2, LenProperties, ElementOfSeq
    <3> HIDE DEF n
    <3>2. slot \in Int /\ 1 \in Int /\ \A i \in 1..slot : sending[i] \in OutByte
      BY <1>3, <3>1
    <3> QED BY <3>2, SubSeqProperties
  <2> QED BY <1>1, <2>1, <2>2
<1>5. OutSeqs'
  BY <1>1, <1>2, <1>4 DEF OutInv, OutSeqs
<1>6. OutControl'
  BY <1>1, <1>2, Zenon DEF OutInv, OutControl
<1>7. ASSUME spoilt' = {} PROVE (OnItsWay = accepted /\ NoHoles /\ InLine /\ Driven)'
  <2>1. spoilt = {} /\ OnItsWay = accepted /\ NoHoles /\ InLine /\ Driven
    BY <1>1, <1>7 DEF OutInv
  <2>2. sending' = Append(sending, b)
    <3> DEFINE n == Len(sending)
    <3>1. slot = n + 1 /\ n \in Nat
      BY <1>1, <1>3, <2>1, LenProperties DEF InLine
    <3>2. sending' = IF n >= slot THEN SubSeq(sending, 1, slot) ELSE Append(sending, b)
      BY <1>1
    <3> HIDE DEF n
    <3> QED BY <3>1, <3>2
  <2>3. OnItsWay' = accepted'
    <3>0. <<b>> \in Seq(OutByte)
      BY <1>2, Singles
    <3>1. sending' = sending \o <<b>> /\ accepted' = accepted \o <<b>>
      BY <1>1, <1>2, <1>3, <2>2, AppendIsConcat
    <3>2. OnItsWay' = OnItsWay \o <<b>>
      BY <1>1, <3>0, <3>1, OnItsWayMore DEF OutInv
    <3> QED BY <2>1, <3>1, <3>2, Zenon
  <2>4. /\ b = <<text[1][1], copied + 1>>
        /\ copied > 0 => accepted # <<>> /\ accepted[Len(accepted)] = <<text[1][1], copied>>
    <3>1. \A j \in 1..Len(text) : text[j] = <<text[1][1], j>>
      BY <1>2, <2>1 DEF InLine
    <3>2. copied > 0 => accepted # <<>> /\ accepted[Len(accepted)] = text[copied]
      BY <1>1, <1>2, <2>1, Zenon DEF InLine
    <3>3. copied > 0 => copied \in 1..Len(text)
      <4> DEFINE n == Len(text)
      <4>1. n \in Nat /\ copied \in Nat /\ copied + 1 \in 1..n
        BY <1>2, <1>3, LenProperties DEF OutInv, OutSeqs
      <4> HIDE DEF n
      <4>2. copied > 0 => copied \in 1..n
        BY <4>1
      <4> QED BY <4>2 DEF n
    <3> QED BY <1>2, <3>1, <3>2, <3>3 DEF b
  <2>5. NoHoles'
    <3>1. b[2] = copied + 1 /\ b[1] = text[1][1]
      BY <2>4
    <3>2. b[2] > 1 => copied > 0 /\ b[2] - 1 = copied
      BY <1>3, <3>1
    <3>3. b[2] > 1 => accepted # <<>> /\ accepted[Len(accepted)] = <<b[1], b[2] - 1>>
      BY <2>4, <3>1, <3>2, Zenon
    <3> QED BY <1>1, <1>2, <1>3, <2>1, <3>3, NoHolesMore
  <2>6. InLine'
    <3>1. text' # <<>> => \A j \in 1..Len(text') : text'[j] = <<text'[1][1], j>>
      BY <1>2, <2>1, Zenon DEF InLine
    <3>2. text' # <<>> => accepted' # <<>> /\ accepted'[Len(accepted')] = text'[copied']
      <4>1. accepted' # <<>> /\ accepted'[Len(accepted')] = b
        <5>1. /\ accepted' # <<>> /\ Len(accepted') = Len(accepted) + 1
              /\ accepted'[Len(accepted) + 1] = b
          BY <1>1, <1>2, <1>3, AppendProperties, SMTT(30)
        <5> QED BY <5>1, Zenon
      <4> QED BY <1>2, <4>1, Zenon DEF b
    <3> QED BY <1>1, <3>1, <3>2, Zenon DEF InLine
  <2>7. Driven'
    <3>1. ~stopping
      BY <1>2, <2>1 DEF Driven
    <3> QED BY <1>1, <2>1, <3>1 DEF Driven
  <2> QED BY <2>3, <2>5, <2>6, <2>7
<1> QED BY <1>5, <1>6, <1>7 DEF OutInv

\* The beginning of a new line at the end of what was accepted.
LEMMA NoHolesLine ==
  ASSUME accepted \in Seq(OutByte), NoHoles, NEW x \in Seq(OutByte), NEW l,
         \A i \in 1..Len(x) : x[i] = <<l, i>>, accepted' = accepted \o x
  PROVE  NoHoles'
<1> DEFINE n == Len(accepted)
           m == Len(x)
<1>1. /\ n \in Nat /\ m \in Nat /\ accepted' \in Seq(OutByte) /\ Len(accepted') = n + m
      /\ \A i \in 1..(n + m) : accepted'[i] = IF i <= n THEN accepted[i] ELSE x[i - n]
  BY ConcatProperties, LenProperties
<1>2. DOMAIN accepted = 1..n /\ DOMAIN accepted' = 1..(n + m)
  BY <1>1, LenProperties
<1>3. \A i \in 1..m : x[i] = <<l, i>>
  OBVIOUS
<1> HIDE DEF n, m
<1>4. ASSUME NEW i \in 1..(n + m), accepted'[i][2] > 1
      PROVE  i > 1 /\ accepted'[i - 1] = <<accepted'[i][1], accepted'[i][2] - 1>>
  <2>1. CASE i <= n
    <3>1. accepted'[i] = accepted[i] /\ i \in 1..n
      BY <1>1, <2>1
    <3>2. i > 1 /\ accepted[i - 1] = <<accepted[i][1], accepted[i][2] - 1>>
      BY <1>2, <1>4, <3>1 DEF NoHoles
    <3>3. i - 1 \in 1..(n + m) /\ i - 1 <= n
      BY <1>1, <2>1, <3>2
    <3>4. accepted'[i - 1] = accepted[i - 1]
      BY <1>1, <3>3
    <3> QED BY <3>1, <3>2, <3>4
  <2>2. CASE ~(i <= n)
    <3> DEFINE j == i - n
    <3>1. j \in 1..m /\ n \in Nat /\ i = n + j
      BY <1>1, <2>2
    <3>2. accepted'[i] = x[j]
      BY <1>1, <2>2
    <3> HIDE DEF j
    <3>3. accepted'[i] = <<l, j>>
      BY <1>3, <3>1, <3>2
    <3>4. j > 1
      BY <1>4, <3>3
    <3>5. j - 1 \in 1..m /\ i - 1 \in 1..(n + m) /\ ~(i - 1 <= n) /\ (i - 1) - n = j - 1 /\ i > 1
      BY <1>1, <3>1, <3>4
    <3>6. accepted'[i - 1] = x[j - 1]
      BY <1>1, <3>5
    <3>7. accepted'[i - 1] = <<l, j - 1>>
      BY <1>3, <3>5, <3>6
    <3> QED BY <3>3, <3>5, <3>7
  <2> QED BY <2>1, <2>2
<1> QED BY <1>2, <1>4, Zenon DEF NoHoles

\* An interrupt adds what fits of its line, and keeps the ring and the line
\* being copied made of bytes.
LEMMA IsrInv == ASSUME OutInv, IsrLog PROVE OutInv'
<1>1. PICK k \in 1..LongestLine :
        /\ line = "debug"
        /\ sending' = sending \o SubSeq(Line(k), 1, Least(k, Room))
        /\ accepted' = accepted \o SubSeq(Line(k), 1, Least(k, Room))
        /\ text' = [i \in DOMAIN text |-> IF i <= k THEN Line(k)[i] ELSE text[i]]
        /\ count' = count + 1
        /\ spoilt' = IF text # <<>> THEN spoilt \cup {"shared"} ELSE spoilt
        /\ UNCHANGED <<line, copied, slot, transmitter, rs485>>
  BY DEF IsrLog
<1>2. count \in Nat /\ k \in Nat \ {0} /\ sending \in Seq(OutByte) /\ accepted \in Seq(OutByte) /\ text \in Seq(OutByte)
  BY UartOutAssumption DEF OutInv, OutSeqs
<1>3. Line(k) \in Seq(OutByte) /\ Len(Line(k)) = k /\ \A i \in 1..k : Line(k)[i] = <<count + 1, i>>
  BY <1>2, LineSeq
<1> DEFINE fit == Least(k, Room)
           x == SubSeq(Line(k), 1, fit)
<1>4. fit \in Int /\ fit <= k
  <2>1. Room \in Int
    <3> DEFINE n == Len(sending)
    <3>1. n \in Nat /\ Room = OutSize - 1 - n
      BY <1>2, LenProperties DEF Room
    <3> HIDE DEF n
    <3> QED BY <3>1, UartOutAssumption
  <2> QED BY <1>2, <2>1 DEF Least
<1> HIDE DEF fit
<1>5. /\ x \in Seq(OutByte) /\ Len(x) = IF 1 <= fit THEN fit ELSE 0
      /\ \A i \in 1..Len(x) : x[i] = <<count + 1, i>>
  <2>1. \A i \in 1..fit : Line(k)[i] \in OutByte /\ Line(k)[i] = <<count + 1, i>>
    <3>1. \A i \in 1..fit : i \in 1..k
      BY <1>2, <1>4
    <3>2. \A i \in 1..k : Line(k)[i] \in OutByte
      BY <1>3, ElementOfSeq
    <3> QED BY <1>3, <3>1, <3>2
  <2>2. x \in Seq(OutByte) /\ Len(x) = (IF 1 <= fit THEN fit - 1 + 1 ELSE 0)
        /\ \A i \in 1..(fit - 1 + 1) : x[i] = Line(k)[1 + i - 1]
    BY <1>4, <2>1, SubSeqProperties
  <2>3. Len(x) = IF 1 <= fit THEN fit ELSE 0
    BY <1>4, <2>2
  <2>4. ASSUME NEW i \in 1..Len(x) PROVE x[i] = <<count + 1, i>>
    <3>1. i \in 1..fit /\ i \in 1..(fit - 1 + 1) /\ 1 + i - 1 = i
      BY <1>4, <2>3
    <3>2. x[i] = Line(k)[1 + i - 1]
      BY <2>2, <3>1
    <3> QED BY <2>1, <3>1, <3>2
  <2> QED BY <2>2, <2>3, <2>4
<1>6. sending' = sending \o x /\ accepted' = accepted \o x
  BY <1>1 DEF fit
<1> HIDE DEF x
<1>7. sending' \in Seq(OutByte) /\ accepted' \in Seq(OutByte)
  BY <1>2, <1>5, <1>6, ConcatProperties
<1>8. text' \in Seq(OutByte) /\ Len(text') = Len(text)
  <2> DEFINE n == Len(text)
  <2>1. n \in Nat /\ DOMAIN text = 1..n /\ \A i \in 1..n : text[i] \in OutByte
    BY <1>2, LenProperties, ElementOfSeq
  <2>2. text' = [i \in 1..n |-> IF i <= k THEN Line(k)[i] ELSE text[i]]
    BY <1>1, <2>1
  <2>3. \A i \in 1..k : Line(k)[i] \in OutByte
    BY <1>3, ElementOfSeq
  <2> HIDE DEF n
  <2>4. text' \in [1..n -> OutByte]
    <3> SUFFICES ASSUME NEW i \in 1..n PROVE (IF i <= k THEN Line(k)[i] ELSE text[i]) \in OutByte
      BY <2>2
    <3>1. CASE i <= k
      <4>1. i \in 1..k
        BY <1>2, <2>1, <3>1
      <4> QED BY <2>3, <3>1, <4>1
    <3>2. CASE ~(i <= k)
      BY <2>1, <3>2
    <3> QED BY <3>1, <3>2
  <2>5. text' \in Seq(OutByte) /\ Len(text') = n
    BY <2>1, <2>4, SeqDef, LenProperties
  <2> QED BY <2>5 DEF n
<1>9. text' = <<>> <=> text = <<>>
  BY <1>2, <1>8, EmptySeq
<1>10. OutSeqs'
  BY <1>1, <1>2, <1>7, <1>8 DEF OutInv, OutSeqs, transmitter, rs485
<1>11. OutControl'
  <2>1. text' # <<>> => copied' < Len(text')
    BY <1>1, <1>8, <1>9, Zenon DEF OutInv, OutControl
  <2>2. line' # "rs485" /\ (slot' # 0 => text' # <<>>) /\ ~stopping /\ stopping' = stopping
        /\ (~doing_dma' => dma' = <<>>)
    BY <1>1, <1>9 DEF OutInv, OutControl, transmitter, rs485
  <2> QED BY <2>1, <2>2 DEF OutControl
<1>12. ASSUME spoilt' = {} PROVE (OnItsWay = accepted /\ NoHoles /\ InLine /\ Driven)'
  <2>1. text = <<>> /\ spoilt = {} /\ OnItsWay = accepted /\ NoHoles /\ InLine /\ Driven
    BY <1>1, <1>12 DEF OutInv
  <2>2. OnItsWay' = accepted'
    <3>1. OnItsWay' = OnItsWay \o x
      BY <1>1, <1>5, <1>6, OnItsWayMore DEF OutInv, transmitter
    <3> QED BY <1>6, <2>1, <3>1, Zenon
  <2>3. NoHoles'
    BY <1>2, <1>5, <1>6, <2>1, NoHolesLine
  <2>4. InLine'
    <3>1. slot' = 0 /\ text' = <<>>
      BY <1>1, <1>9, <2>1 DEF OutInv, OutControl
    <3> QED BY <3>1 DEF InLine
  <2>5. Driven'
    <3>1. ~stopping' /\ line' # "rs485"
      BY <1>1 DEF OutInv, OutControl, rs485
    <3> QED BY <3>1 DEF Driven
  <2> QED BY <2>2, <2>3, <2>4, <2>5
<1> QED BY <1>10, <1>11, <1>12 DEF OutInv

\* What is on its way, as Whole, of bytes of the ring.
LEMMA WholeIs ==
  ASSUME OutSeqs
  PROVE  /\ OnItsWay = Whole(wire, OfRing(shift), OfRing(tdr), dma, sending)
         /\ OfRing(shift) \in Seq(OutByte) /\ OfRing(tdr) \in Seq(OutByte)
<1>1. OfRing(shift) \in Seq(OutByte) /\ OfRing(tdr) \in Seq(OutByte)
  BY OfRings DEF OutSeqs
<1> QED BY <1>1, Zenon DEF OnItsWay, Whole

\* A pause ends.
LEMMA PauseInv == ASSUME OutInv, RateLimitPasses \/ RawReady PROVE OutInv'
<1>1. /\ UNCHANGED <<line, sending, text, copied, slot, transmitter, rs485, accepted, count, spoilt>>
      /\ raw' = raw \/ raw = "wait"
  BY DEF RateLimitPasses, RawReady, ring_out
<1>2. line' = "rs485" => raw' = ""
  BY <1>1 DEF OutInv, OutControl
<1>3. OutSeqs' /\ OutControl'
  BY <1>1, <1>2 DEF OutInv, OutSeqs, OutControl, transmitter, rs485
<1>4. ASSUME spoilt' = {} PROVE (OnItsWay = accepted /\ NoHoles /\ InLine /\ Driven)'
  BY <1>1, <1>4 DEF OutInv, OnItsWay, NoHoles, InLine, Driven, Room, transmitter, rs485
<1> QED BY <1>3, <1>4 DEF OutInv

\* A byte is written past the ring.
LEMMA RawWriteInv == ASSUME OutInv, RawWrite PROVE OutInv'
<1>1. /\ raw = "go" /\ raw' = "" /\ tdr' = <<Raw>>
      /\ UNCHANGED <<line, ring_out, doing_dma, dma, shift, wire, rs485, accepted, count>>
      /\ spoilt' = IF tdr # <<>> THEN spoilt \cup {"raw"} ELSE spoilt
  BY DEF RawWrite
<1>2. line # "rs485" /\ ~stopping
  BY <1>1 DEF OutInv, OutControl
<1>3. tdr' \in OneByte
  BY <1>1 DEF OneByte
<1>4. OutSeqs' /\ OutControl'
  BY <1>1, <1>3 DEF OutInv, OutSeqs, OutControl, ring_out, rs485
<1>5. ASSUME spoilt' = {} PROVE (OnItsWay = accepted /\ NoHoles /\ InLine /\ Driven)'
  <2>1. tdr = <<>> /\ spoilt = {}
    BY <1>1, <1>5
  <2>2. OfRing(tdr') = <<>> /\ OfRing(tdr) = <<>>
    BY <1>1, <2>1, OfRings
  <2>3. OnItsWay' = wire \o OfRing(shift) \o OfRing(tdr') \o dma \o sending
    BY <1>1 DEF OnItsWay, ring_out
  <2>4. OnItsWay' = OnItsWay
    BY <2>2, <2>3, Zenon DEF OnItsWay
  <2>5. NoHoles' /\ InLine' /\ Driven'
    BY <1>1, <1>2, <2>1 DEF OutInv, NoHoles, InLine, Driven, Room, ring_out, rs485
  <2> QED BY <1>1, <2>1, <2>4, <2>5 DEF OutInv
<1> QED BY <1>4, <1>5 DEF OutInv

\* The ring is drained into the DMA.
LEMMA DrainInv == ASSUME OutInv, OutDrain PROVE OutInv'
<1> DEFINE n == Least(Len(sending), PacketSize)
           r == SubSeq(sending, n + 1, Len(sending))
<1>1. /\ text = <<>> /\ sending # <<>> /\ (line = "rs485" => driver)
      /\ ~doing_dma /\ tdr = <<>>
      /\ sending' = r
      /\ \/ n = 1 /\ tdr' = <<Head(sending)>> /\ doing_dma' = doing_dma /\ dma' = dma
         \/ n # 1 /\ doing_dma' = TRUE /\ dma' = SubSeq(sending, 1, n) /\ tdr' = tdr
      /\ UNCHANGED <<line, text, copied, slot, lately, raw, shift, wire, rs485, accepted, count, spoilt>>
  BY DEF OutDrain, Consume, MainFree, TxEmpty
<1>2. sending \in Seq(OutByte) /\ wire \in Seq(OutByte) /\ <<>> \in Seq(OutByte)
  BY EmptySeq DEF OutInv, OutSeqs
<1>3. n \in 1..Len(sending)
  <2> DEFINE l == Len(sending)
  <2>1. l \in Nat /\ l > 0
    BY <1>1, <1>2, EmptySeq
  <2>2. n = Least(l, PacketSize)
    OBVIOUS
  <2> HIDE DEF l, n
  <2>3. n \in 1..l
    BY <2>1, <2>2, UartOutAssumption DEF Least
  <2> QED BY <2>3 DEF l
<1> HIDE DEF n
<1>4. OutSeqs
  BY DEF OutInv
<1> DEFINE s == OfRing(shift)
<1>5. s \in Seq(OutByte) /\ OnItsWay = Whole(wire, s, <<>>, <<>>, sending)
  <2>1. OfRing(tdr) = <<>> /\ dma = <<>>
    BY <1>1, OfRings DEF OutInv, OutControl
  <2> QED BY <1>4, <2>1, WholeIs, Zenon
<1> HIDE DEF s, r
<1>6. /\ SubSeq(sending, 1, n) \in Seq(OutByte) /\ r \in Seq(OutByte)
      /\ Whole(wire, s, <<>>, SubSeq(sending, 1, n), r) = Whole(wire, s, <<>>, <<>>, sending)
      /\ n = 1 => Whole(wire, s, <<Head(sending)>>, <<>>, r) = Whole(wire, s, <<>>, <<>>, sending)
  BY <1>2, <1>3, <1>5, WholeConsume DEF r
<1>7. <<Head(sending)>> \in OneByte /\ OfRing(<<Head(sending)>>) = <<Head(sending)>>
  <2>1. Head(sending) \in OutByte
    BY <1>1, <1>2, HeadTailProperties
  <2> QED BY <2>1, Singles
<1>8. tdr' \in OneByte /\ dma' \in Seq(OutByte) /\ (~doing_dma' => dma' = <<>>)
  BY <1>1, <1>2, <1>6, <1>7 DEF OneByte, OutInv, OutControl
<1>9. OutSeqs'
  BY <1>1, <1>4, <1>6, <1>8 DEF OutSeqs, rs485
<1>10. OutControl'
  BY <1>1, <1>8 DEF OutInv, OutControl, rs485
<1>11. ASSUME spoilt' = {} PROVE (OnItsWay = accepted /\ NoHoles /\ InLine /\ Driven)'
  <2>1. spoilt = {} /\ OnItsWay = accepted /\ NoHoles /\ Driven
    BY <1>1, <1>11 DEF OutInv
  <2>2. OnItsWay' = Whole(wire, s, OfRing(tdr'), dma', r)
    <3>1. wire' = wire /\ OfRing(shift') = s /\ sending' = r
      BY <1>1 DEF s
    <3> QED BY <3>1, Zenon DEF OnItsWay, Whole
  <2>3. OnItsWay' = OnItsWay
    <3>1. CASE n = 1 /\ tdr' = <<Head(sending)>> /\ dma' = dma
      <4>1. dma' = <<>> /\ OfRing(tdr') = <<Head(sending)>>
        BY <1>1, <1>7, <3>1 DEF OutInv, OutControl
      <4> QED BY <1>5, <1>6, <2>2, <3>1, <4>1, Zenon
    <3>2. CASE n # 1 /\ dma' = SubSeq(sending, 1, n) /\ tdr' = tdr
      <4>1. OfRing(tdr') = <<>>
        BY <1>1, <3>2, OfRings
      <4> QED BY <1>5, <1>6, <2>2, <3>2, <4>1, Zenon
    <3> QED BY <1>1, <3>1, <3>2
  <2>4. InLine'
    BY <1>1 DEF OutInv, OutControl, InLine
  <2>5. Driven'
    BY <1>1, <2>1 DEF Driven, rs485
  <2>6. NoHoles'
    BY <1>1, <2>1 DEF NoHoles
  <2> QED BY <1>1, <2>1, <2>3, <2>4, <2>5, <2>6, Zenon
<1> QED BY <1>9, <1>10, <1>11 DEF OutInv

\* The RS-485 driver.
LEMMA DriverInv == ASSUME OutInv, DriverOn \/ StopBegins \/ DriverOff PROVE OutInv'
<1>1. /\ line = "rs485" /\ text = <<>>
      /\ UNCHANGED <<line, ring_out, raw, transmitter, accepted, count, spoilt>>
  BY DEF DriverOn, StopBegins, DriverOff, MainFree
<1>2. stop_age' \in Nat
  BY DEF DriverOn, StopBegins, DriverOff, OutInv, OutSeqs
<1>3. OutSeqs' /\ OutControl'
  BY <1>1, <1>2 DEF OutInv, OutSeqs, OutControl, ring_out, transmitter
<1>4. ASSUME spoilt' = {} PROVE (OnItsWay = accepted /\ NoHoles /\ InLine /\ Driven)'
  <2>1. spoilt = {} /\ Driven /\ OnItsWay = accepted /\ NoHoles /\ InLine
    BY <1>1, <1>4 DEF OutInv
  <2>2. OnItsWay' = accepted' /\ NoHoles' /\ InLine'
    BY <1>1, <2>1 DEF OnItsWay, NoHoles, InLine, Room, ring_out, transmitter
  <2>3. CASE DriverOn
    <3>1. driver' = TRUE /\ stopping' = stopping /\ sending # <<>>
      BY <2>3 DEF DriverOn
    <3>2. driver' /\ ~stopping'
      BY <2>1, <3>1 DEF Driven
    <3>9. Driven'
      BY <3>2, Zenon DEF Driven
    <3> QED BY <2>2, <3>9
  <2>4. CASE StopBegins
    <3>1. /\ driver' = driver /\ driver /\ stop_age' = 0 /\ sending = <<>> /\ tdr = <<>> /\ ~doing_dma
      BY <2>4 DEF StopBegins, TxEmpty
    <3>2. driver' /\ text' = <<>> /\ sending' = <<>> /\ tdr' = <<>> /\ ~doing_dma' /\ ~(stop_age' > 0)
      BY <1>1, <3>1 DEF ring_out, transmitter
    <3>9. Driven'
      BY <3>2, Zenon DEF Driven
    <3> QED BY <2>2, <3>9
  <2>5. CASE DriverOff
    <3>1. stop_age > 0
      <4>1. stop_age > StopDelay /\ stop_age \in Nat
        BY <2>5 DEF DriverOff, OutInv, OutSeqs
      <4> QED BY <4>1, UartOutAssumption
    <3>2. stopping /\ stopping' = FALSE
      BY <2>5 DEF DriverOff
    <3>3. shift = <<>> /\ tdr = <<>> /\ ~doing_dma
      BY <2>1, <3>1, <3>2, Zenon DEF Driven
    <3>4. shift' = <<>> /\ tdr' = <<>> /\ ~doing_dma' /\ ~stopping'
      BY <1>1, <3>2, <3>3 DEF transmitter
    <3>9. Driven'
      BY <3>4, Zenon DEF Driven
    <3> QED BY <2>2, <3>9
  <2> QED BY <2>1, <2>2, <2>3, <2>4, <2>5
<1> QED BY <1>3, <1>4 DEF OutInv

\* The DMA and the UART.
LEMMA HardwareInv == ASSUME OutInv, Hardware PROVE OutInv'
<1>0. OutSeqs /\ OutControl
  BY DEF OutInv
<1>1. UNCHANGED <<line, ring_out, raw, accepted, count, spoilt, driver, stopping>>
  BY DEF Hardware, DmaStep, ToShift, DmaIsr, ByteTime, rs485
<1>2. /\ wire \in Seq(OutByte) /\ dma \in Seq(OutByte) /\ sending \in Seq(OutByte) /\ <<>> \in Seq(OutByte)
      /\ OfRing(shift) \in Seq(OutByte) /\ OfRing(tdr) \in Seq(OutByte) /\ OfRing(<<>>) = <<>>
  BY <1>0, WholeIs, OfRings, EmptySeq DEF OutSeqs
<1>3. ASSUME NEW w, NEW d, NEW t, NEW s,
             wire' = w, dma' = d, tdr' = t, shift' = s
      PROVE  OnItsWay' = Whole(w, OfRing(s), OfRing(t), d, sending)
  <2>1. sending' = sending
    BY <1>1 DEF ring_out
  <2> QED BY <1>3, <2>1, Zenon DEF OnItsWay, Whole
<1>4. OnItsWay = Whole(wire, OfRing(shift), OfRing(tdr), dma, sending)
  BY <1>0, WholeIs
<1>5. ASSUME wire' \in Seq(OutByte), dma' \in Seq(OutByte), tdr' \in OneByte, shift' \in OneByte,
             stop_age' \in Nat, ~doing_dma' => dma' = <<>>
      PROVE  OutSeqs' /\ OutControl'
  BY <1>0, <1>1, <1>5 DEF OutSeqs, OutControl, ring_out
<1>6. ASSUME spoilt' = {} => OnItsWay' = OnItsWay /\ Driven', OutSeqs', OutControl'
      PROVE  OutInv'
  <2>1. ASSUME spoilt' = {} PROVE (OnItsWay = accepted /\ NoHoles /\ InLine /\ Driven)'
    <3>1. spoilt = {} /\ OnItsWay = accepted /\ NoHoles /\ InLine /\ accepted' = accepted
      BY <1>1, <2>1 DEF OutInv
    <3>2. NoHoles' /\ InLine'
      BY <1>1, <3>1 DEF NoHoles, InLine, Room, ring_out
    <3>3. OnItsWay' = accepted' /\ Driven'
      BY <1>6, <2>1, <3>1
    <3> QED BY <3>2, <3>3
  <2> QED BY <1>6, <2>1 DEF OutInv
<1>7. spoilt' = {} => spoilt = {} /\ Driven
  BY <1>1 DEF OutInv
<1>8. CASE DmaStep
  <2>1. /\ doing_dma /\ dma # <<>> /\ tdr = <<>> /\ tdr' = <<Head(dma)>> /\ dma' = Tail(dma)
        /\ doing_dma' = doing_dma /\ shift' = shift /\ wire' = wire /\ stop_age' = stop_age
    BY <1>8 DEF DmaStep, rs485
  <2>2. Head(dma) \in OutByte /\ Tail(dma) \in Seq(OutByte)
    BY <1>2, <2>1, HeadTailProperties
  <2>3. tdr' \in OneByte /\ OfRing(tdr') = <<Head(dma)>> /\ OfRing(tdr) = <<>>
    BY <1>2, <2>1, <2>2, Singles
  <2>4. Whole(wire, OfRing(shift), <<Head(dma)>>, Tail(dma), sending)
          = Whole(wire, OfRing(shift), <<>>, dma, sending)
    BY <1>2, <2>1, WholeDma
  <2>5. OnItsWay' = OnItsWay
    BY <1>3, <1>4, <2>1, <2>3, <2>4, Zenon
  <2>6. OutSeqs' /\ OutControl'
    BY <1>0, <1>5, <2>1, <2>2, <2>3 DEF OutSeqs
  <2>7. spoilt' = {} => Driven'
    BY <1>1, <1>7, <2>1 DEF Driven, ring_out
  <2> QED BY <1>6, <2>5, <2>6, <2>7
<1>9. CASE ToShift
  <2>1. /\ tdr # <<>> /\ shift = <<>> /\ shift' = tdr /\ tdr' = <<>>
        /\ doing_dma' = doing_dma /\ dma' = dma /\ wire' = wire /\ stop_age' = stop_age
    BY <1>9 DEF ToShift, rs485
  <2>2. OnItsWay' = OnItsWay
    <3>1. Whole(wire, OfRing(tdr), <<>>, dma, sending) = Whole(wire, <<>>, OfRing(tdr), dma, sending)
      BY <1>2, Wholes
    <3>2. OfRing(shift) = <<>>
      BY <1>2, <2>1
    <3> QED BY <1>2, <1>3, <1>4, <2>1, <3>1, <3>2, Zenon
  <2>3. OutSeqs' /\ OutControl'
    <3>1. tdr' \in OneByte
      BY <2>1 DEF OneByte
    <3> QED BY <1>0, <1>5, <2>1, <3>1 DEF OutSeqs, OutControl
  <2>4. spoilt' = {} => Driven'
    BY <1>1, <1>7, <2>1 DEF Driven, ring_out
  <2> QED BY <1>6, <2>2, <2>3, <2>4
<1>10. CASE DmaIsr
  <2>1. /\ dma = <<>> /\ doing_dma' = FALSE
        /\ dma' = dma /\ wire' = wire /\ tdr' = tdr /\ shift' = shift /\ stop_age' = stop_age
    BY <1>10 DEF DmaIsr, rs485
  <2>2. OnItsWay' = OnItsWay
    BY <1>3, <1>4, <2>1, Zenon
  <2>3. OutSeqs' /\ OutControl'
    BY <1>0, <1>5, <2>1 DEF OutSeqs
  <2>4. spoilt' = {} => Driven'
    BY <1>1, <1>7, <2>1 DEF Driven, ring_out
  <2> QED BY <1>6, <2>2, <2>3, <2>4
<1>11. CASE ByteTime
  <2>1. /\ shift # <<>> \/ tdr = <<>>
        /\ wire' = IF line = "rs485" => driver THEN wire \o OfRing(shift) ELSE wire
        /\ shift' = <<>> /\ dma' = dma /\ tdr' = tdr /\ doing_dma' = doing_dma
        /\ stop_age' = Least(stop_age + 1, StopDelay + 1)
    BY <1>11 DEF ByteTime
  <2>2. wire' \in Seq(OutByte)
    <3>1. wire \o OfRing(shift) \in Seq(OutByte)
      BY <1>2, ConcatProperties
    <3> QED BY <1>2, <2>1, <3>1
  <2>3. stop_age' \in Nat
    BY <1>0, <2>1, UartOutAssumption DEF Least, OutSeqs
  <2>4. OutSeqs' /\ OutControl'
    <3>1. shift' \in OneByte
      BY <2>1 DEF OneByte
    <3> QED BY <1>0, <1>5, <2>1, <2>2, <2>3, <3>1 DEF OutSeqs, OutControl
  <2>5. ASSUME spoilt' = {} PROVE OnItsWay' = OnItsWay /\ Driven'
    <3>1. Driven
      BY <1>7, <2>5
    <3>2. OnItsWay' = OnItsWay
      <4>1. CASE line = "rs485" => driver
        <5>1. Whole(wire \o OfRing(shift), <<>>, OfRing(tdr), dma, sending)
                = Whole(wire, OfRing(shift), OfRing(tdr), dma, sending)
          BY <1>2, Wholes
        <5>2. wire' = wire \o OfRing(shift)
          BY <2>1, <4>1
        <5> QED BY <1>2, <1>3, <1>4, <2>1, <5>1, <5>2, Zenon
      <4>2. CASE ~(line = "rs485" => driver)
        <5>1. shift = <<>> /\ wire' = wire
          BY <2>1, <3>1, <4>2 DEF Driven
        <5> QED BY <1>3, <1>4, <2>1, <5>1, Zenon
      <4> QED BY <4>1, <4>2
    <3>3. Driven'
      BY <1>1, <2>1, <3>1 DEF Driven, ring_out
    <3> QED BY <3>2, <3>3
  <2> QED BY <1>6, <2>4, <2>5
<1> QED BY <1>8, <1>9, <1>10, <1>11 DEF Hardware

\* Whatever step is taken.
LEMMA OutNextInv == ASSUME OutInv, [UNext]_outVars PROVE OutInv'
<1>1. CASE UNCHANGED outVars
  <2>1. /\ UNCHANGED <<line, sending, text, copied, slot, raw, wire, dma, tdr, shift, doing_dma>>
        /\ UNCHANGED <<driver, stopping, stop_age, accepted, count, spoilt>>
    BY <1>1 DEF outVars, ring_out, transmitter, rs485
  <2>2. OutSeqs' /\ OutControl'
    BY <2>1 DEF OutInv, OutSeqs, OutControl
  <2>3. spoilt' = {} => (OnItsWay = accepted /\ NoHoles /\ InLine /\ Driven)'
    BY <2>1 DEF OutInv, OnItsWay, NoHoles, InLine, Driven, Room
  <2> QED BY <2>2, <2>3 DEF OutInv
<1> QED BY <1>1, GiveInv, IsrInv, PauseInv, StoreInv, PublishInv, DrainInv, DriverInv, RawWriteInv,
           HardwareInv, Zenon DEF UNext, MainPass

\* An empty sequence has no member.
LEMMA NoneOfNone == ASSUME NEW s \in Seq(OutByte), s = <<>>, NEW i \in DOMAIN s PROVE FALSE
<1>1. DOMAIN s = 1..Len(s) /\ Len(s) = 0
  BY LenProperties, EmptySeq
<1>2. i \in 1..0
  BY <1>1
<1> QED BY <1>2

\* Nothing is sent at first.
LEMMA OutInitInv == UInit => OutInv
<1> SUFFICES ASSUME UInit PROVE OutInv
  OBVIOUS
<1> USE DEF UInit
<1>1. <<>> \in Seq(OutByte) /\ <<>> \in OneByte
  BY EmptySeq DEF OneByte
<1>2. OutSeqs /\ OutControl
  BY <1>1 DEF OutSeqs, OutControl
<1>3. OnItsWay = accepted
  BY <1>1, OfRings, ConcatEmptySeq, Zenon DEF OnItsWay
<1>4. NoHoles
  <2>1. accepted \in Seq(OutByte) /\ accepted = <<>>
    BY <1>1
  <2>2. ASSUME NEW i \in DOMAIN accepted PROVE FALSE
    BY <2>1, <2>2, NoneOfNone, Zenon
  <2> QED BY <2>2, Zenon DEF NoHoles
<1>5. InLine
  BY DEF InLine
<1>6. Driven
  BY Zenon DEF Driven
<1> QED BY <1>2, <1>3, <1>4, <1>5, <1>6 DEF OutInv

\* For any ring, any lines and any times of the interrupt, the driver and the
\* DMA: what the line carries is what was accepted, in order and once, with the
\* raw bytes between, and no line loses a byte from its middle.
THEOREM UartOutIsWhole == USpec => []OutIsWhole
<1>1. UInit => OutInv
  BY OutInitInv
<1>2. OutInv /\ [UNext]_outVars => OutInv'
  BY OutNextInv
<1>3. OutInv => OutIsWhole
  BY DEF OutInv, OutIsWhole
<1> QED BY <1>1, <1>2, <1>3, PTL DEF USpec

-----------------------------------------------------------------------------
(* The ESP32.                                                             *)

-----------------------------------------------------------------------------
(* The command slot.                                                       *)

Cell == Command \cup {""}
Two == Cell \X Cell

\* One at a time: the slot is the MQTT task's until the flag is set, and the
\* main loop's until it is cleared.
SlotInv ==
  /\ cmd \in Two /\ message \in Cell
  /\ taken \in Seq(Two) /\ run \in Seq(Two)
  /\ handler \in {"idle", "copy1", "copy2", "ready"}
  /\ main \in {"loop", "read1", "read2", "answer"}
  /\ handler # "idle" => ~cmd_ready
  /\ main # "loop" => cmd_ready
  /\ handler \in {"copy2", "ready"} => cmd[1] = message
  /\ handler = "ready" => cmd[2] = message
  /\ main = "read1" => command = <<>>
  /\ main = "read2" => command = <<cmd[1]>>

\* What was run is what was taken, but for the one in the slot.
RunInv ==
  /\ cmd_ready /\ main # "answer" => Len(taken) = Len(run) + 1 /\ taken[Len(taken)] = cmd
  /\ ~(cmd_ready /\ main # "answer") => Len(taken) = Len(run)
  /\ \A i \in 1..Len(run) : run[i] = taken[i]

\* A cell after another.
LEMMA Pairs ==
  ASSUME NEW Any, NEW x \in Any, NEW y \in Any
  PROVE  Len(<<x>>) = 1 /\ Append(<<x>>, y) = <<x, y>>
<1>1. <<x>> \in Seq(Any) /\ <<x, y>> \in Seq(Any) /\ Len(<<x>>) = 1 /\ Len(<<x, y>>) = 2
  OBVIOUS
<1>2. /\ Append(<<x>>, y) \in Seq(Any) /\ Len(Append(<<x>>, y)) = 2
      /\ Append(<<x>>, y)[1] = x /\ Append(<<x>>, y)[2] = y
  BY <1>1, AppendProperties
<1>3. \A i \in 1..2 : Append(<<x>>, y)[i] = <<x, y>>[i]
  BY <1>1, <1>2
<1> QED BY <1>1, <1>2, <1>3, SeqEqual

\* One cell copied.
LEMMA CopyInv == ASSUME SlotInv, RunInv, CopyCell PROVE SlotInv' /\ RunInv'
<1>1. /\ handler \in {"copy1", "copy2"} /\ ~cmd_ready /\ main = "loop"
      /\ cmd' = IF handler = "copy1" THEN <<message, cmd[2]>> ELSE <<cmd[1], message>>
      /\ handler' = IF handler = "copy1" THEN "copy2" ELSE "ready"
      /\ UNCHANGED <<message, cmd_ready, main, command, messages, run, taken>>
  BY DEF SlotInv, CopyCell
<1>2. cmd \in Two /\ message \in Cell
  BY DEF SlotInv
<1>3. /\ cmd' \in Two /\ cmd'[1] = (IF handler = "copy1" THEN message ELSE cmd[1])
      /\ handler = "copy2" => cmd'[2] = message
  BY <1>1, <1>2 DEF Two
<1>4. handler = "copy2" => cmd[1] = message
  BY DEF SlotInv
<1>5. SlotInv'
  BY <1>1, <1>3, <1>4 DEF SlotInv
<1>6. RunInv'
  BY <1>1 DEF RunInv
<1> QED BY <1>5, <1>6

\* The flag is set.
LEMMA ReadyInv == ASSUME SlotInv, RunInv, CopyReady PROVE SlotInv' /\ RunInv'
<1>1. /\ handler = "ready" /\ ~cmd_ready /\ main = "loop" /\ cmd[1] = message /\ cmd[2] = message
      /\ handler' = "idle" /\ cmd_ready' = TRUE /\ taken' = Append(taken, <<message, message>>)
      /\ UNCHANGED <<message, cmd, main, command, run>>
  BY DEF SlotInv, CopyReady
<1>2. cmd \in Two /\ message \in Cell /\ taken \in Seq(Two) /\ run \in Seq(Two)
  BY DEF SlotInv
<1>3. cmd = <<message, message>> /\ cmd \in Two
  BY <1>1, <1>2 DEF Two
<1> DEFINE n == Len(taken)
           m == Len(run)
<1>4. /\ taken' \in Seq(Two) /\ Len(taken') = n + 1 /\ taken'[n + 1] = cmd /\ n \in Nat
      /\ \A i \in 1..n : taken'[i] = taken[i]
  BY <1>1, <1>2, <1>3, AppendProperties, LenProperties
<1>5. m = n /\ \A i \in 1..m : run[i] = taken[i]
  BY <1>1, <1>4 DEF RunInv
<1>6. SlotInv'
  <2>1. taken' \in Seq(Two)
    BY <1>4
  <2> HIDE DEF n, m
  <2> QED BY <1>1, <1>2, <2>1 DEF SlotInv
<1>7. RunInv'
  <2>1. Len(run') = m /\ run' = run
    BY <1>1
  <2>2. Len(taken') = n + 1
    BY <1>4
  <2> HIDE DEF n, m
  <2>3. /\ Len(taken') = Len(run') + 1 /\ taken'[Len(taken')] = cmd'
        /\ \A i \in 1..Len(run') : run'[i] = taken'[i]
    BY <1>1, <1>4, <1>5, <2>1, <2>2
  <2> QED BY <1>1, <2>3, Zenon DEF RunInv
<1> QED BY <1>6, <1>7

\* A cell is read.
LEMMA ReadInv == ASSUME SlotInv, RunInv, ReadCell PROVE SlotInv' /\ RunInv'
<1>1. /\ main \in {"read1", "read2"} /\ cmd_ready /\ handler = "idle"
      /\ command' = Append(command, cmd[Len(command) + 1])
      /\ main' = IF main = "read1" THEN "read2" ELSE "answer"
      /\ run' = IF main = "read2" THEN Append(run, command') ELSE run
      /\ UNCHANGED <<handler, message, cmd, cmd_ready, taken>>
  BY DEF SlotInv, ReadCell
<1>2. cmd \in Two /\ taken \in Seq(Two) /\ run \in Seq(Two)
  BY DEF SlotInv
<1> DEFINE n == Len(taken)
           m == Len(run)
<1>3. n \in Nat /\ m \in Nat /\ n = m + 1 /\ taken[n] = cmd /\ \A i \in 1..m : run[i] = taken[i]
  BY <1>1, <1>2, LenProperties DEF RunInv
<1>4. CASE main = "read1"
  <2>1. command' = <<cmd[1]>>
    BY <1>1, <1>4 DEF SlotInv
  <2>2. SlotInv'
    BY <1>1, <1>2, <1>4, <2>1 DEF SlotInv
  <2>3. RunInv'
    BY <1>1, <1>4 DEF RunInv
  <2> QED BY <2>2, <2>3
<1>5. CASE main = "read2"
  <2>1. command = <<cmd[1]>>
    BY <1>5 DEF SlotInv
  <2>2. command' = <<cmd[1], cmd[2]>>
    <3>1. Len(<<cmd[1]>>) = 1 /\ Append(<<cmd[1]>>, cmd[2]) = <<cmd[1], cmd[2]>>
      <4>1. cmd[1] \in Cell /\ cmd[2] \in Cell
        BY <1>2 DEF Two
      <4> QED BY <4>1, Pairs
    <3>2. Len(command) + 1 = 2
      BY <2>1, <3>1
    <3>3. command' = Append(command, cmd[2])
      BY <1>1, <3>2, Zenon
    <3> QED BY <2>1, <3>1, <3>3, Zenon
  <2>3. command' = cmd
    BY <1>2, <2>2 DEF Two
  <2>4. /\ run' \in Seq(Two) /\ Len(run') = m + 1 /\ run'[m + 1] = cmd
        /\ \A i \in 1..m : run'[i] = run[i]
    BY <1>1, <1>2, <1>5, <2>3, AppendProperties
  <2>5. SlotInv'
    <3>1. run' \in Seq(Two)
      BY <2>4
    <3> HIDE DEF n, m
    <3> QED BY <1>1, <1>2, <1>5, <3>1 DEF SlotInv
  <2>6. RunInv'
    <3>1. Len(taken') = n /\ taken' = taken /\ Len(run') = m + 1
      BY <1>1, <2>4
    <3> HIDE DEF n, m
    <3>2. Len(taken') = Len(run') /\ \A i \in 1..Len(run') : run'[i] = taken'[i]
      BY <1>3, <2>4, <3>1
    <3> QED BY <1>1, <1>5, <3>2 DEF RunInv
  <2> QED BY <2>5, <2>6
<1> QED BY <1>1, <1>4, <1>5

\* The other steps of both tasks.
LEMMA OtherInv ==
  ASSUME SlotInv, RunInv, LoopCommand \/ Answer \/ MqttData \/ UNCHANGED slotVars
  PROVE  SlotInv' /\ RunInv'
<1>1. CASE LoopCommand
  BY <1>1 DEF LoopCommand, SlotInv, RunInv
<1>2. CASE Answer
  BY <1>2 DEF Answer, SlotInv, RunInv
<1>3. CASE MqttData
  <2>1. PICK c \in Command :
          /\ handler = "idle"
          /\ cmd' = IF cmd_ready THEN cmd ELSE <<"", "">>
          /\ IF cmd_ready \/ c \in TooLong THEN UNCHANGED <<handler, message>>
             ELSE handler' = "copy1" /\ message' = c
          /\ UNCHANGED <<cmd_ready, main, command, taken, run>>
    BY <1>3 DEF MqttData
  <2>2. <<"", "">> \in Two /\ c \in Cell
    BY DEF Two, Cell
  <2>3. cmd' \in Two /\ message' \in Cell
    BY <2>1, <2>2 DEF SlotInv
  <2>4. SlotInv'
    BY <2>1, <2>3 DEF SlotInv
  <2>5. RunInv'
    BY <2>1 DEF RunInv
  <2> QED BY <2>4, <2>5
<1>4. CASE UNCHANGED slotVars
  BY <1>4 DEF slotVars, SlotInv, RunInv
<1> QED BY <1>1, <1>2, <1>3, <1>4

LEMMA CommandInit == EInit => SlotInv /\ RunInv
<1> SUFFICES ASSUME EInit PROVE SlotInv /\ RunInv
  OBVIOUS
<1>1. <<"", "">> \in Two /\ <<>> \in Seq(Two) /\ "" \in Cell
  BY EmptySeq DEF Two, Cell
<1>2. SlotInv
  BY <1>1 DEF SlotInv, EInit
<1>3. RunInv
  BY DEF RunInv, EInit
<1> QED BY <1>2, <1>3

LEMMA CommandInv == ASSUME SlotInv, RunInv, [ENext]_espVars PROVE SlotInv' /\ RunInv'
<1>1. \/ CopyCell \/ CopyReady \/ ReadCell \/ LoopCommand \/ Answer \/ MqttData \/ UNCHANGED slotVars
  BY DEF ENext, MainLoop, Wifi, Mqtt, LoopWifi, LoopMqtt, CommsConn, SetString, SetAuthmode, SetAutostart,
         GotIp, WifiLost, MqttConnected, MqttDisconnected, espVars
<1> QED BY <1>1, CopyInv, ReadyInv, ReadInv, OtherInv

\* Commands are run whole, once and in order, for any messages.
THEOREM EspCommandIsWhole == ESpec => []CommandIsWhole
<1>1. EInit => SlotInv /\ RunInv
  BY CommandInit
<1>2. (SlotInv /\ RunInv) /\ [ENext]_espVars => (SlotInv /\ RunInv)'
  BY CommandInv
<1>3. SlotInv /\ RunInv => CommandIsWhole
  <2> SUFFICES ASSUME SlotInv, RunInv PROVE CommandIsWhole
    OBVIOUS
  <2> DEFINE n == Len(taken)
             m == Len(run)
  <2>1. n \in Nat /\ m \in Nat /\ (n = m \/ n = m + 1) /\ DOMAIN run = 1..m
    BY LenProperties DEF SlotInv, RunInv
  <2>2. \A i \in 1..m : run[i] = taken[i]
    BY DEF RunInv
  <2> HIDE DEF n, m
  <2>3. m <= n
    BY <2>1
  <2> QED BY <2>1, <2>2, <2>3, Zenon DEF CommandIsWhole, n, m
<1> QED BY <1>1, <1>2, <1>3, PTL DEF ESpec

-----------------------------------------------------------------------------
(* The JSON object.                                                        *)

Token == [t : Int, size : Nat]
End(more) == IF more THEN <<Comma>> ELSE <<>>

\* What is built is the object of what was told, and a comma at most.
JsonInv ==
  /\ connected \in BOOLEAN /\ full \in BOOLEAN /\ left \in BOOLEAN
  /\ told \in Seq(Token) /\ \A i \in 1..Len(told) : told[i].t \in Nat \ {0}
  /\ left => full
  /\ json # <<>> => json = Object(told) \o End(left)

\* Its length and its tokens.
LEMMA Objects ==
  ASSUME NEW items \in Seq(Token)
  PROVE  /\ Object(items) \in Seq(Token) /\ Object(items) # <<>>
         /\ Len(Object(items)) = IF items = <<>> THEN 1 ELSE 2 * Len(items)
         /\ \A i \in 1..Len(Object(items)) : Object(items)[i] =
              IF i = 1 THEN Open ELSE IF i % 2 = 0 THEN items[i \div 2] ELSE Comma
<1> DEFINE n == Len(items)
           l == IF items = <<>> THEN 1 ELSE 2 * n
<1>1. n \in Nat /\ (items # <<>> => n > 0) /\ \A i \in 1..n : items[i] \in Token
  BY LenProperties, EmptySeq, ElementOfSeq
<1>2. Open \in Token /\ Comma \in Token
  BY DEF Open, Comma, Tok, Token
<1>3. Object(items) = [i \in 1..l |-> IF i = 1 THEN Open ELSE IF i % 2 = 0 THEN items[i \div 2] ELSE Comma]
  BY DEF Object
<1>4. items = <<>> => l = 1
  OBVIOUS
<1>5. items # <<>> => l = 2 * n
  OBVIOUS
<1> HIDE DEF n, l
<1>6. l \in Nat /\ l > 0
  BY <1>1, <1>4, <1>5
<1>7. ASSUME NEW i \in 1..l, i # 1, i % 2 = 0 PROVE i \div 2 \in 1..n
  <2>1. CASE items = <<>>
    BY <1>4, <1>7, <2>1
  <2>2. CASE items # <<>>
    BY <1>1, <1>5, <1>7, <2>2
  <2> QED BY <2>1, <2>2
<1>8. Object(items) \in [1..l -> Token]
  BY <1>1, <1>2, <1>3, <1>7
<1>9. Object(items) \in Seq(Token) /\ Len(Object(items)) = l
  BY <1>6, <1>8, SeqDef, LenProperties
<1>10. Object(items) # <<>>
  BY <1>6, <1>9, EmptySeq
<1>11. l = IF items = <<>> THEN 1 ELSE 2 * Len(items)
  BY DEF l, n
<1>12. \A i \in 1..l : Object(items)[i] = IF i = 1 THEN Open ELSE IF i % 2 = 0 THEN items[i \div 2] ELSE Comma
  BY <1>3
<1> QED BY <1>9, <1>10, <1>11, <1>12, Zenon

\* One more token, after a comma unless it is the first.
LEMMA ObjectMore ==
  ASSUME NEW items \in Seq(Token), NEW x \in Token
  PROVE  Object(Append(items, x))
           = Append(IF items = <<>> THEN Object(items) ELSE Append(Object(items), Comma), x)
<1> DEFINE n == Len(items)
           o == Object(items)
           items1 == Append(items, x)
           o1 == Object(items1)
<1>1. /\ n \in Nat /\ (items = <<>> <=> n = 0)
      /\ items1 \in Seq(Token) /\ items1 # <<>> /\ Len(items1) = n + 1
      /\ items1[n + 1] = x /\ \A i \in 1..n : items1[i] = items[i]
  BY LenProperties, EmptySeq, AppendProperties
<1>2. Comma \in Token /\ o \in Seq(Token) /\ o1 \in Seq(Token)
  <2>1. Comma \in Token
    BY DEF Comma, Tok, Token
  <2>2. o \in Seq(Token)
    BY Objects
  <2>3. o1 \in Seq(Token)
    BY <1>1, Objects
  <2> QED BY <2>1, <2>2, <2>3
<1>3. Len(o) = (IF items = <<>> THEN 1 ELSE 2 * n) /\ Len(o1) = 2 * (n + 1)
  BY <1>1, Objects
<1>4. /\ \A i \in 1..Len(o) : o[i] = IF i = 1 THEN Open ELSE IF i % 2 = 0 THEN items[i \div 2] ELSE Comma
      /\ \A i \in 1..Len(o1) : o1[i] = IF i = 1 THEN Open ELSE IF i % 2 = 0 THEN items1[i \div 2] ELSE Comma
  BY <1>1, Objects
<1>5. CASE items = <<>>
  <2>1. n = 0 /\ Len(o) = 1 /\ Len(o1) = 2
    BY <1>1, <1>3, <1>5
  <2>2. o[1] = Open /\ o1[1] = Open /\ o1[2] = x
    <3> HIDE DEF n, o, o1, items1
    <3>1. 1 \in 1..Len(o) /\ 1 \in 1..Len(o1) /\ 2 \in 1..Len(o1) /\ 2 % 2 = 0 /\ 2 \div 2 = n + 1 /\ 2 # 1
      BY <2>1
    <3> QED BY <1>1, <1>4, <3>1, Zenon
  <2>3. /\ Append(o, x) \in Seq(Token) /\ Len(Append(o, x)) = 2
        /\ Append(o, x)[1] = o[1] /\ Append(o, x)[2] = x
    <3>1. o \in Seq(Token)
      BY <1>2
    <3>0. Len(o) = 1
      BY <2>1
    <3> HIDE DEF o, o1, n, items1
    <3>2. /\ Append(o, x) \in Seq(Token) /\ Len(Append(o, x)) = Len(o) + 1
          /\ Append(o, x)[Len(o) + 1] = x /\ \A i \in 1..Len(o) : Append(o, x)[i] = o[i]
      BY <3>1, AppendProperties
    <3>3. 1 \in 1..Len(o) /\ Len(o) + 1 = 2
      BY <3>0
    <3>4. Append(o, x)[1] = o[1]
      BY <3>2, <3>3
    <3> QED BY <3>2, <3>3, <3>4
  <2> HIDE DEF o, o1, n, items1
  <2>4. \A i \in 1..2 : o1[i] = Append(o, x)[i]
    BY <2>2, <2>3
  <2>5. o1 = Append(o, x)
    BY <1>2, <2>1, <2>3, <2>4, SeqEqual
  <2> QED BY <1>5, <2>5, Zenon DEF o, o1, items1
<1>6. CASE items # <<>>
  <2> DEFINE c == Append(o, Comma)
             d == Append(c, x)
             l == 2 * n
  <2>1. n > 0 /\ Len(o) = l /\ Len(o1) = l + 2 /\ l \in Nat
    <3> HIDE DEF n, o, o1, items1
    <3> QED BY <1>1, <1>3, <1>6
  <2>2. c \in Seq(Token) /\ Len(c) = l + 1 /\ c[l + 1] = Comma /\ \A i \in 1..l : c[i] = o[i]
    <3> HIDE DEF o, l
    <3> QED BY <1>2, <2>1, AppendProperties
  <2>3. d \in Seq(Token) /\ Len(d) = l + 2 /\ d[l + 2] = x /\ \A i \in 1..(l + 1) : d[i] = c[i]
    <3>1. d \in Seq(Token) /\ Len(d) = (l + 1) + 1 /\ d[(l + 1) + 1] = x /\ \A i \in 1..(l + 1) : d[i] = c[i]
      <4> HIDE DEF c, l
      <4> QED BY <2>1, <2>2, AppendProperties
    <3>2. (l + 1) + 1 = l + 2
      BY <2>1
    <3> QED BY <3>1, <3>2
  <2>4. l = 2 * n
    OBVIOUS
  <2> HIDE DEF o, o1, c, d, items1, n, l
  <2>5. ASSUME NEW i \in 1..(l + 2) PROVE o1[i] = d[i]
    <3>0. o1[i] = IF i = 1 THEN Open ELSE IF i % 2 = 0 THEN items1[i \div 2] ELSE Comma
      BY <1>4, <2>1
    <3>1. CASE i \in 1..l
      <4>1. d[i] = o[i]
        BY <2>1, <2>2, <2>3, <3>1
      <4>2. o[i] = IF i = 1 THEN Open ELSE IF i % 2 = 0 THEN items[i \div 2] ELSE Comma
        BY <1>4, <2>1, <3>1
      <4>3. i % 2 = 0 => i \div 2 \in 1..n
        BY <1>1, <2>1, <2>4, <3>1
      <4>4. i % 2 = 0 => items1[i \div 2] = items[i \div 2]
        BY <1>1, <4>3
      <4> QED BY <3>0, <4>1, <4>2, <4>4
    <3>2. CASE i = l + 1
      <4>1. i # 1 /\ i % 2 # 0
        BY <1>1, <2>1, <2>4, <3>2
      <4>2. d[i] = Comma
        BY <2>1, <2>2, <2>3, <3>2
      <4> QED BY <3>0, <4>1, <4>2
    <3>3. CASE i = l + 2
      <4>1. i # 1 /\ i % 2 = 0 /\ i \div 2 = n + 1
        BY <1>1, <2>1, <2>4, <3>3
      <4> QED BY <1>1, <2>3, <3>0, <3>3, <4>1
    <3> QED BY <2>1, <3>1, <3>2, <3>3
  <2>6. o1 = d
    BY <1>2, <2>1, <2>3, <2>5, SeqEqual
  <2> QED BY <1>6, <2>6, Zenon DEF o, o1, c, d, items1
<1> QED BY <1>5, <1>6

\* An object is open while it has no items.
LEMMA ObjectOpened ==
  ASSUME NEW items \in Seq(Token), \A i \in 1..Len(items) : items[i].t \in Nat \ {0}
  PROVE  Opened(Object(items)) <=> items = <<>>
<1> DEFINE n == Len(items)
           o == Object(items)
<1>1. n \in Nat /\ (items = <<>> <=> n = 0)
  BY LenProperties, EmptySeq
<1>2. /\ Len(o) = IF items = <<>> THEN 1 ELSE 2 * n
      /\ \A i \in 1..Len(o) : o[i] = IF i = 1 THEN Open ELSE IF i % 2 = 0 THEN items[i \div 2] ELSE Comma
  BY Objects
<1>3. \A i \in 1..n : items[i].t \in Nat \ {0}
  OBVIOUS
<1> HIDE DEF n, o
<1>4. CASE items = <<>>
  <2>1. Len(o) = 1 /\ 1 \in 1..Len(o)
    BY <1>2, <1>4
  <2> QED BY <1>2, <1>4, <2>1, Zenon DEF Opened, o
<1>5. CASE items # <<>>
  <2> DEFINE l == Len(o)
  <2>1. l = 2 * n /\ n \in 1..n
    BY <1>1, <1>2, <1>5
  <2>2. l \in 1..l /\ l # 1 /\ l % 2 = 0 /\ l \div 2 = n
    <3> HIDE DEF l
    <3> QED BY <1>1, <1>5, <2>1
  <2>3. o[l] = items[n]
    BY <1>2, <2>2
  <2>4. items[n] # Open
    <3>1. items[n].t # 0
      BY <1>3, <2>1
    <3> QED BY <3>1 DEF Open, Tok
  <2> QED BY <1>5, <2>3, <2>4 DEF Opened, o
<1> QED BY <1>4, <1>5

\* What is appended to an object that it fits in, or of which only the comma fits.
LEMMA Appended ==
  ASSUME NEW items \in Seq(Token), \A i \in 1..Len(items) : items[i].t \in Nat \ {0},
         NEW x \in Token
  PROVE  /\ FitsMeas(Object(items), x) => AppendMeas(Object(items), x) = Object(Append(items, x))
         /\ ~FitsMeas(Object(items), x) =>
              AppendMeas(Object(items), x) \in {Object(items), Append(Object(items), Comma)}
<1>1. Opened(Object(items)) <=> items = <<>>
  BY ObjectOpened
<1>2. WithComma(Object(items)) = IF items = <<>> THEN Object(items) ELSE Append(Object(items), Comma)
  BY <1>1 DEF WithComma
<1>3. Object(Append(items, x)) = Append(WithComma(Object(items)), x)
  BY <1>2, ObjectMore
<1> QED BY <1>3 DEF AppendMeas

\* The items told, with one more.
LEMMA ToldMore ==
  ASSUME NEW items \in Seq(Token), \A i \in 1..Len(items) : items[i].t \in Nat \ {0},
         NEW x \in Token, x.t \in Nat \ {0}
  PROVE  /\ Append(items, x) \in Seq(Token)
         /\ \A i \in 1..Len(Append(items, x)) : Append(items, x)[i].t \in Nat \ {0}
         /\ Append(items, x) # <<>>
<1> DEFINE n == Len(items)
           more == Append(items, x)
<1>1. /\ n \in Nat /\ more \in Seq(Token) /\ Len(more) = n + 1 /\ more # <<>>
      /\ \A i \in 1..n : more[i] = items[i]
      /\ more[n + 1] = x
  BY LenProperties, AppendProperties
<1>2. \A i \in 1..n : items[i].t \in Nat \ {0}
  OBVIOUS
<1> HIDE DEF n, more
<1>3. ASSUME NEW i \in 1..(n + 1) PROVE more[i].t \in Nat \ {0}
  <2>1. CASE i \in 1..n
    BY <1>1, <1>2, <2>1
  <2>2. CASE i = n + 1
    BY <1>1, <2>2
  <2> QED BY <1>1, <2>1, <2>2
<1> QED BY <1>1, <1>3 DEF more

\* A token of a measurement.
LEMMA TokenIs ==
  ASSUME NEW k \in Nat \ {0}, NEW size \in ItemSizes
  PROVE  Tok(k, size) \in Token /\ Tok(k, size).t = k
BY JsonAssumption DEF Tok, Token

\* Three at once.
LEMMA Three ==
  ASSUME NEW items \in Seq(Token), NEW x \in Token, NEW y \in Token, NEW z \in Token
  PROVE  items \o <<x, y, z>> = Append(Append(Append(items, x), y), z)
<1> DEFINE n == Len(items)
           a == Append(items, x)
           b == Append(a, y)
           c == Append(b, z)
           t == <<x, y, z>>
<1>1. n \in Nat /\ t \in Seq(Token) /\ Len(t) = 3 /\ t[1] = x /\ t[2] = y /\ t[3] = z
  BY LenProperties
<1>2. a \in Seq(Token) /\ Len(a) = n + 1 /\ a[n + 1] = x /\ \A i \in 1..n : a[i] = items[i]
  BY AppendProperties
<1> HIDE DEF a, t
<1>3. b \in Seq(Token) /\ Len(b) = Len(a) + 1 /\ b[Len(a) + 1] = y /\ \A i \in 1..Len(a) : b[i] = a[i]
  BY <1>2, AppendProperties
<1> HIDE DEF b
<1>4. c \in Seq(Token) /\ Len(c) = Len(b) + 1 /\ c[Len(b) + 1] = z /\ \A i \in 1..Len(b) : c[i] = b[i]
  BY <1>3, AppendProperties
<1>5. /\ items \o t \in Seq(Token) /\ Len(items \o t) = n + Len(t)
      /\ \A i \in 1..(n + Len(t)) : (items \o t)[i] = IF i <= n THEN items[i] ELSE t[i - n]
  BY <1>1, ConcatProperties
<1> DEFINE e == items \o t
<1> HIDE DEF c, e, n
<1>6. Len(c) = n + 3 /\ Len(e) = n + 3
  BY <1>1, <1>2, <1>3, <1>4, <1>5 DEF e
<1>7. ASSUME NEW i \in 1..(n + 3) PROVE e[i] = c[i]
  <2>0. e[i] = IF i <= n THEN items[i] ELSE t[i - n]
    BY <1>1, <1>5 DEF e
  <2>1. CASE i <= n
    BY <1>1, <1>2, <1>3, <1>4, <2>0, <2>1
  <2>2. CASE i = n + 1
    BY <1>1, <1>2, <1>3, <1>4, <2>0, <2>2
  <2>3. CASE i = n + 2
    BY <1>1, <1>2, <1>3, <1>4, <2>0, <2>3
  <2>4. CASE i = n + 3
    BY <1>1, <1>2, <1>3, <1>4, <2>0, <2>4
  <2> QED BY <1>1, <2>1, <2>2, <2>3, <2>4
<1>8. e = c
  BY <1>4, <1>5, <1>6, <1>7, SeqEqual DEF e
<1> QED BY <1>8 DEF e, t, c, b, a

\* The object is built.
LEMMA JsonSingleInv == ASSUME JsonInv, JsonSingle PROVE JsonInv'
<1>1. PICK size \in ItemSizes : LET token == Tok(Len(told) + 1, size)
        IN /\ json # <<>> /\ ~full
           /\ json' = IF connected THEN AppendMeas(json, token) ELSE json
           /\ full' = ~(connected /\ FitsMeas(json, token))
           /\ told' = IF full' THEN told ELSE Append(told, token)
           /\ left' = (full' /\ json' # json)
           /\ connected' = connected
  BY DEF JsonSingle, Building
<1> DEFINE token == Tok(Len(told) + 1, size)
<1>2. token \in Token /\ token.t \in Nat \ {0}
  <2>1. Len(told) + 1 \in Nat \ {0}
    <3> DEFINE n == Len(told)
    <3>1. n \in Nat
      BY LenProperties DEF JsonInv
    <3> HIDE DEF n
    <3> QED BY <3>1
  <2> QED BY <2>1, TokenIs
<1> HIDE DEF token
<1>3. /\ told \in Seq(Token) /\ \A i \in 1..Len(told) : told[i].t \in Nat \ {0}
      /\ Object(told) \in Seq(Token) /\ Comma \in Token
  BY Objects DEF JsonInv, Comma, Tok, Token
<1>4. json = Object(told)
  <2>1. json = Object(told) \o <<>>
    BY <1>1 DEF JsonInv, End
  <2> QED BY <1>3, <2>1, ConcatEmptySeq
<1>5. CASE connected /\ FitsMeas(json, token)
  <2>1. /\ json' = AppendMeas(json, token) /\ ~full' /\ full' = FALSE /\ told' = Append(told, token)
        /\ left' = FALSE
    BY <1>1, <1>5 DEF token
  <2>2. json' = Object(told')
    BY <1>2, <1>3, <1>4, <1>5, <2>1, Appended
  <2>3. told' \in Seq(Token) /\ \A i \in 1..Len(told') : told'[i].t \in Nat \ {0}
    BY <1>2, <1>3, <2>1, ToldMore
  <2>4. json' = Object(told') \o <<>>
    BY <2>2, <2>3, Objects, ConcatEmptySeq
  <2> QED BY <1>1, <2>1, <2>3, <2>4 DEF JsonInv, End
<1>6. CASE ~(connected /\ FitsMeas(json, token))
  <2>1. full' = TRUE /\ told' = told /\ (left' <=> json' # json) /\ left' \in BOOLEAN
    BY <1>1, <1>6 DEF token
  <2>2. json' = json \/ json' = Append(json, Comma)
    <3>1. CASE connected
      <4>1. ~FitsMeas(json, token) /\ json' = AppendMeas(json, token)
        BY <1>1, <1>6, <3>1 DEF token
      <4> QED BY <1>2, <1>3, <1>4, <4>1, Appended
    <3>2. CASE ~connected
      BY <1>1, <3>2 DEF token
    <3> QED BY <3>1, <3>2
  <2>3. json' = Object(told') \o End(left')
    <3>1. CASE json' = json
      <4>1. ~left'
        BY <2>1, <3>1
      <4> QED BY <1>3, <1>4, <2>1, <3>1, <4>1, ConcatEmptySeq DEF End
    <3>2. CASE json' # json
      <4>1. left' /\ json' = Append(json, Comma)
        BY <2>1, <2>2, <3>2
      <4>2. Append(json, Comma) = json \o <<Comma>>
        BY <1>3, <1>4, AppendIsConcat
      <4> QED BY <1>4, <2>1, <4>1, <4>2 DEF End
    <3> QED BY <3>1, <3>2
  <2> QED BY <1>1, <1>3, <2>1, <2>3 DEF JsonInv
<1> QED BY <1>5, <1>6

\* An averaged measurement goes in as three.
LEMMA JsonAveragedInv == ASSUME JsonInv, JsonAveraged PROVE JsonInv'
<1>1. PICK size \in ItemSizes :
        LET mean == Tok(Len(told) + 1, size)
            min == Tok(Len(told) + 2, size)
            max == Tok(Len(told) + 3, size)
            one == AppendMeas(json, mean)
            two == AppendMeas(one, min)
            all == FitsMeas(json, mean) /\ FitsMeas(one, min) /\ FitsMeas(two, max)
        IN /\ json # <<>> /\ ~full
           /\ full' = ~(connected /\ all)
           /\ json' = IF full' THEN json ELSE AppendMeas(two, max)
           /\ told' = IF full' THEN told ELSE told \o <<mean, min, max>>
           /\ connected' = connected /\ left' = left
  BY DEF JsonAveraged, Building
<1> DEFINE mean == Tok(Len(told) + 1, size)
           min == Tok(Len(told) + 2, size)
           max == Tok(Len(told) + 3, size)
           one == AppendMeas(json, mean)
           two == AppendMeas(one, min)
           all == FitsMeas(json, mean) /\ FitsMeas(one, min) /\ FitsMeas(two, max)
<1>2. /\ mean \in Token /\ mean.t \in Nat \ {0} /\ min \in Token /\ min.t \in Nat \ {0}
      /\ max \in Token /\ max.t \in Nat \ {0}
  <2> DEFINE n == Len(told)
  <2>1. n \in Nat
    BY LenProperties DEF JsonInv
  <2> HIDE DEF n
  <2>2. n + 1 \in Nat \ {0} /\ n + 2 \in Nat \ {0} /\ n + 3 \in Nat \ {0}
    BY <2>1
  <2> QED BY <2>2, TokenIs DEF n
<1>3. /\ told \in Seq(Token) /\ \A i \in 1..Len(told) : told[i].t \in Nat \ {0}
      /\ Object(told) \in Seq(Token) /\ left \in BOOLEAN
  BY Objects DEF JsonInv
<1>4. json = Object(told) /\ ~left
  <2>1. json = Object(told) \o <<>> /\ ~left
    BY <1>1 DEF JsonInv, End
  <2> QED BY <1>3, <2>1, ConcatEmptySeq
<1>5. /\ json # <<>> /\ ~full /\ connected' = connected /\ left' = left /\ full' = ~(connected /\ all)
      /\ json' = IF full' THEN json ELSE AppendMeas(two, max)
      /\ told' = IF full' THEN told ELSE told \o <<mean, min, max>>
  BY <1>1
<1> HIDE DEF mean, min, max
<1>6. CASE connected /\ all
  <2> DEFINE t1 == Append(told, mean)
             t2 == Append(t1, min)
             t3 == Append(t2, max)
  <2>1. t1 \in Seq(Token) /\ \A i \in 1..Len(t1) : t1[i].t \in Nat \ {0}
    BY <1>2, <1>3, ToldMore
  <2>2. one = Object(t1)
    BY <1>2, <1>3, <1>4, <1>6, Appended
  <2> HIDE DEF t1, one
  <2>3. t2 \in Seq(Token) /\ \A i \in 1..Len(t2) : t2[i].t \in Nat \ {0}
    BY <1>2, <2>1, ToldMore
  <2>4. two = Object(t2)
    BY <1>2, <1>6, <2>1, <2>2, Appended
  <2> HIDE DEF t2, two
  <2>5. t3 \in Seq(Token) /\ \A i \in 1..Len(t3) : t3[i].t \in Nat \ {0}
    BY <1>2, <2>3, ToldMore
  <2>6. AppendMeas(two, max) = Object(t3)
    BY <1>2, <1>6, <2>3, <2>4, Appended
  <2>7. told' = t3 /\ json' = Object(t3) /\ full' = FALSE
    <3>1. full' = FALSE
      BY <1>5, <1>6
    <3>2. told' = told \o <<mean, min, max>> /\ json' = AppendMeas(two, max)
      BY <1>5, <3>1
    <3>3. told \o <<mean, min, max>> = t3
      BY <1>2, <1>3, Three DEF t1, t2
    <3> QED BY <2>6, <3>1, <3>2, <3>3
  <2> HIDE DEF t3
  <2>8. json' = Object(told') \o <<>>
    BY <2>5, <2>7, Objects, ConcatEmptySeq
  <2>9. ~left' /\ left' \in BOOLEAN /\ connected' = connected
    BY <1>3, <1>4, <1>5
  <2> QED BY <2>5, <2>7, <2>8, <2>9 DEF JsonInv, End
<1>7. CASE ~(connected /\ all)
  <2>1. full' = TRUE /\ told' = told /\ json' = json
    BY <1>5, <1>7
  <2> QED BY <1>5, <2>1 DEF JsonInv
<1> QED BY <1>6, <1>7

\* A message is begun or published, or MQTT changes.
LEMMA JsonOtherInv ==
  ASSUME JsonInv, JsonBegin \/ JsonSend \/ MqttChanges \/ UNCHANGED jsonVars
  PROVE  JsonInv'
<1>1. CASE JsonBegin
  <2>1. json' = <<Open>> /\ full' = FALSE /\ told' = <<>> /\ left' = FALSE /\ connected' = connected
    BY <1>1 DEF JsonBegin
  <2>2. <<>> \in Seq(Token) /\ Len(<<>>) = 0 /\ Object(<<>>) = <<Open>> /\ <<Open>> \o <<>> = <<Open>>
    <3>1. <<>> \in Seq(Token) /\ Len(<<>>) = 0 /\ <<Open>> \in Seq(Token)
      BY EmptySeq DEF Open, Tok, Token
    <3>2. Object(<<>>) \in Seq(Token) /\ Len(Object(<<>>)) = 1 /\ Object(<<>>)[1] = Open
      <4>1. Len(Object(<<>>)) = 1
        BY <3>1, Objects
      <4>2. 1 \in 1..Len(Object(<<>>))
        BY <4>1
      <4> QED BY <3>1, <4>1, <4>2, Objects
    <3>3. Len(<<Open>>) = 1 /\ <<Open>>[1] = Open
      OBVIOUS
    <3>4. Object(<<>>) = <<Open>>
      BY <3>1, <3>2, <3>3, SeqEqual
    <3> QED BY <3>1, <3>4, ConcatEmptySeq
  <2>3. \A i \in 1..Len(told') : told'[i].t \in Nat \ {0}
    <3>1. Len(told') = 0
      BY <2>1, <2>2
    <3> QED BY <3>1
  <2>4. json' = Object(told') \o End(left')
    BY <2>1, <2>2 DEF End
  <2> QED BY <2>1, <2>2, <2>3, <2>4 DEF JsonInv
<1>2. CASE JsonSend
  <2>1. json' = <<>> /\ full' = FALSE /\ told' = <<>> /\ left' = FALSE /\ connected' = connected
    BY <1>2 DEF JsonSend
  <2>2. <<>> \in Seq(Token) /\ Len(told') = 0
    BY <2>1, EmptySeq
  <2>3. \A i \in 1..Len(told') : told'[i].t \in Nat \ {0}
    BY <2>2
  <2> QED BY <2>1, <2>2, <2>3 DEF JsonInv
<1>3. CASE MqttChanges
  BY <1>3 DEF MqttChanges, JsonInv
<1>4. CASE UNCHANGED jsonVars
  BY <1>4 DEF jsonVars, JsonInv
<1> QED BY <1>1, <1>2, <1>3, <1>4

\* What is published is what was built, closed.
LEMMA Publishes == ASSUME JsonInv, JsonIsWhole, [JNext]_jsonVars PROVE JsonIsWhole'
<1>1. CASE published' = published
  BY <1>1 DEF JsonIsWhole
<1>2. CASE published' # published
  <2>1. /\ json # <<>>
        /\ published' = [text |-> Append(json, Close), items |-> told, left |-> left]
    BY <1>2 DEF JNext, JsonBegin, JsonSingle, JsonAveraged, JsonSend, MqttChanges, jsonVars
  <2>2. json = Object(told) \o End(left) /\ told \in Seq(Token)
    BY <2>1 DEF JsonInv
  <2>3. json \in Seq(Token) /\ Close \in Token
    <3>1. Object(told) \in Seq(Token) /\ End(left) \in Seq(Token)
      <4>1. Object(told) \in Seq(Token)
        BY <2>2, Objects
      <4>2. Comma \in Token
        BY DEF Comma, Tok, Token
      <4>3. <<Comma>> \in Seq(Token) /\ <<>> \in Seq(Token)
        BY <4>2, EmptySeq
      <4> QED BY <4>1, <4>3 DEF End
    <3>2. Close \in Token
      BY DEF Close, Tok, Token
    <3> QED BY <2>2, <3>1, <3>2, ConcatProperties
  <2>4. Append(json, Close) = json \o <<Close>>
    BY <2>3, AppendIsConcat
  <2>5. /\ published'.text = Append(json, Close) /\ published'.items = told /\ published'.left = left
    BY <2>1
  <2> QED BY <2>2, <2>4, <2>5, Zenon DEF JsonIsWhole, End
<1> QED BY <1>1, <1>2

LEMMA JsonInitInv == JInit => JsonInv /\ JsonIsWhole
<1> SUFFICES ASSUME JInit PROVE JsonInv /\ JsonIsWhole
  OBVIOUS
<1>1. json = <<>> /\ full = FALSE /\ told = <<>> /\ left = FALSE /\ connected \in BOOLEAN
      /\ published.text = <<>>
  BY DEF JInit
<1>2. <<>> \in Seq(Token) /\ Len(told) = 0
  BY <1>1, EmptySeq
<1>3. \A i \in 1..Len(told) : told[i].t \in Nat \ {0}
  BY <1>2
<1> QED BY <1>1, <1>2, <1>3 DEF JsonInv, JsonIsWhole

LEMMA JsonStep == ASSUME JsonInv, [JNext]_jsonVars PROVE JsonInv'
BY JsonSingleInv, JsonAveragedInv, JsonOtherInv DEF JNext

\* What the broker gets is what was told, and what comes from it is run whole,
\* for every buffer, measurement and message, whatever the tasks do when.
THEOREM EspBothWhole == ESpec /\ JSpec => []EspIsWhole
<1>1. JInit => JsonInv /\ JsonIsWhole
  BY JsonInitInv
<1>2. (JsonInv /\ JsonIsWhole) /\ [JNext]_jsonVars => (JsonInv /\ JsonIsWhole)'
  BY JsonStep, Publishes
<1>3. ESpec => []CommandIsWhole
  BY EspCommandIsWhole
<1>4. EspIsWhole <=> JsonIsWhole /\ CommandIsWhole
  BY DEF EspIsWhole
<1> QED BY <1>1, <1>2, <1>3, <1>4, PTL DEF JSpec
-----------------------------------------------------------------------------
(* What the server reads.  A payload is read entry by entry, and an entry  *)
(* as it was before, whatever is appended after it.                        *)

\* What division gives.
LEMMA Divides ==
  ASSUME NEW b \in Nat \ {0}, NEW v \in Int
  PROVE  \E q \in Int, r \in 0..(b - 1) : v \div b = q /\ v % b = r /\ v = b * q + r
<1>1. PICK q \in Int : q = v \div b
  OBVIOUS
<1>2. PICK r \in 0..(b - 1) : r = v % b
  OBVIOUS
<1>3. b \in Int /\ b > 0 /\ r \in Int
  OBVIOUS
<1>4. v = b * q + r
  BY <1>1, <1>2, <1>3, Z3
<1> QED BY <1>1, <1>2, <1>4, Zenon

\* There is one way to divide.
LEMMA DividesOnce ==
  ASSUME NEW b \in Nat \ {0}, NEW v \in Int, NEW q \in Int, NEW r \in 0..(b - 1), v = b * q + r
  PROVE  v \div b = q /\ v % b = r
<1>1. b \in Int /\ b > 0 /\ r \in Int /\ 0 <= r /\ r < b
  OBVIOUS
<1>2. v \div b = q
  BY <1>1, Z3
<1>3. v % b = r
  BY <1>1, Z3
<1> QED BY <1>2, <1>3

\* Two digits of a number are what it leaves by their base squared.
LEMMA TwoDigits ==
  ASSUME NEW b \in Nat \ {0}, NEW v \in Int
  PROVE  ((v \div b) % b) * b + (v % b) = v % (b * b)
<1>1. PICK q \in Int, r \in 0..(b - 1) : v \div b = q /\ v % b = r /\ v = b * q + r
  BY Divides
<1>2. PICK h \in Int, d \in 0..(b - 1) : q \div b = h /\ q % b = d /\ q = b * h + d
  BY Divides
<1>3. b \in Int /\ b > 0 /\ r \in Int /\ 0 <= r /\ r < b /\ d \in Int /\ 0 <= d /\ d < b
  OBVIOUS
<1>4. b * q = (b * b) * h + d * b
  BY <1>2, <1>3, Z3
<1>5. d * b <= b * b - b /\ d * b >= 0 /\ d * b \in Int /\ b * b \in Int
  BY <1>3, Z3
<1>6. PICK low \in 0..(b * b - 1) : low = d * b + r
  BY <1>3, <1>5
<1>7. v = (b * b) * h + low
  <2>1. (b * b) * h \in Int
    BY <1>5
  <2> QED BY <1>1, <1>3, <1>4, <1>5, <1>6, <2>1
<1>8. b * b \in Nat \ {0}
  BY <1>3, <1>5, Z3
<1>9. v % (b * b) = low
  BY <1>7, <1>8, DividesOnce
<1> QED BY <1>1, <1>2, <1>6, <1>9

\* The bits of a signed number.
LEMMA SignedBits ==
  ASSUME NEW half \in Nat \ {0}, NEW whole \in Nat \ {0}, whole = 2 * half, NEW m \in -half..(half - 1)
  PROVE  m % whole = IF m < 0 THEN m + whole ELSE m
<1>1. m \in Int /\ -half <= m /\ m < half
  OBVIOUS
<1>2. CASE m < 0
  <2>1. PICK n \in 0..(whole - 1) : n = m + whole
    BY <1>1, <1>2
  <2>2. m = whole * (-1) + n
    BY <1>1, <2>1
  <2>3. m % whole = n
    BY <1>1, <2>2, DividesOnce
  <2> QED BY <1>2, <2>1, <2>3
<1>3. CASE ~(m < 0)
  <2>1. m \in 0..(whole - 1) /\ m = whole * 0 + m
    BY <1>1, <1>3
  <2>2. m % whole = m
    BY <1>1, <2>1, DividesOnce
  <2> QED BY <1>3, <2>2
<1> QED BY <1>2, <1>3

\* The sizes of the types, and the halves at which the signed ones end.
LEMMA Radixes ==
  /\ Radix \in Nat \ {0} /\ Radix2 \in Nat \ {0} /\ Radix4 \in Nat \ {0}
  /\ Limit(1) = Radix /\ Limit(2) = Radix2 /\ Limit(4) = Radix4
  /\ Radix2 = Radix * Radix /\ Radix4 = Radix2 * Radix2
  /\ \E h, h2, h4 \in Nat \ {0} : /\ Radix = 2 * h /\ Radix2 = 2 * h2 /\ Radix4 = 2 * h4
                                  /\ Radix \div 2 = h /\ Radix2 \div 2 = h2 /\ Radix4 \div 2 = h4
                                  /\ Radix <= h4 /\ h <= h2 /\ h2 <= h4
<1>1. PICK h \in Nat \ {0} : h = HalfByte /\ Radix = 2 * h
  BY PayloadAssumption DEF Radix
<1>2. Radix \in Nat \ {0} /\ Radix \in Int /\ h \in Int /\ h >= 1 /\ Radix >= 2
  BY <1>1
<1>3. Radix2 = Radix * Radix /\ Radix4 = Radix2 * Radix2
  BY DEF Radix2, Radix4
<1>4. PICK h2 \in Int : h2 = h * Radix
  BY <1>2
<1>5. Radix2 = 2 * h2 /\ h2 >= Radix
  BY <1>1, <1>2, <1>3, <1>4, Z3
<1>6. Radix2 \in Int /\ Radix2 >= 2
  BY <1>2, <1>5
<1>7. PICK h4 \in Int : h4 = h2 * Radix2
  BY <1>6
<1>8. Radix4 = 2 * h4 /\ h4 >= h2
  BY <1>3, <1>5, <1>6, <1>2, <1>7, Z3
<1>9. Radix \div 2 = h /\ Radix2 \div 2 = h2 /\ Radix4 \div 2 = h4
  BY <1>1, <1>5, <1>8
<1>10. Limit(1) = Radix /\ Limit(2) = Radix2 /\ Limit(4) = Radix4
  BY DEF Limit
<1>11. h2 \in Nat \ {0} /\ h4 \in Nat \ {0} /\ Radix2 \in Nat \ {0} /\ Radix4 \in Nat \ {0} /\ Radix <= h4 /\ h <= h2
  BY <1>1, <1>2, <1>5, <1>6, <1>8
<1> QED BY <1>1, <1>2, <1>3, <1>5, <1>8, <1>9, <1>10, <1>11
-----------------------------------------------------------------------------
\* The bytes of s in b, from p on.
Placed(b, p, s) == \A i \in 1..Len(s) : ByteAt(b, p + i - 1) = s[i]

\* Bytes one after the other are placed one after the other.
LEMMA PlacedBoth ==
  ASSUME NEW Any, NEW b, NEW p \in Int, NEW s \in Seq(Any), NEW t \in Seq(Any), Placed(b, p, s \o t)
  PROVE  Placed(b, p, s) /\ Placed(b, p + Len(s), t)
<1>1. /\ Len(s) \in Nat /\ Len(t) \in Nat /\ Len(s \o t) = Len(s) + Len(t)
      /\ \A i \in 1..Len(s \o t) : (s \o t)[i] = IF i <= Len(s) THEN s[i] ELSE t[i - Len(s)]
  BY ConcatProperties, LenProperties
<1>2. ASSUME NEW i \in 1..Len(s) PROVE ByteAt(b, p + i - 1) = s[i]
  <2>1. i \in 1..Len(s \o t) /\ i <= Len(s)
    BY <1>1
  <2> QED BY <1>1, <2>1 DEF Placed
<1>3. ASSUME NEW i \in 1..Len(t) PROVE ByteAt(b, (p + Len(s)) + i - 1) = t[i]
  <2>1. /\ Len(s) + i \in 1..Len(s \o t) /\ ~(Len(s) + i <= Len(s)) /\ (Len(s) + i) - Len(s) = i
        /\ p + (Len(s) + i) - 1 = (p + Len(s)) + i - 1
    BY <1>1
  <2>2. ByteAt(b, p + (Len(s) + i) - 1) = (s \o t)[Len(s) + i]
    BY <2>1 DEF Placed
  <2> QED BY <1>1, <2>1, <2>2
<1> QED BY <1>2, <1>3 DEF Placed

\* What the bytes of a number are.
LEMMA BytesAre ==
  ASSUME NEW v \in Int
  PROVE  /\ AppendI8(v) \in Seq(Int) /\ AppendI16(v) \in Seq(Int) /\ AppendI32(v) \in Seq(Int) /\ AppendI64(v) \in Seq(Int)
         /\ Len(AppendI8(v)) = 1 /\ Len(AppendI16(v)) = 2 /\ Len(AppendI32(v)) = 4 /\ Len(AppendI64(v)) = 8
         /\ AppendI8(v)[1] = v % Radix
<1>1. \A w \in Int : w % Radix \in Int /\ w \div Radix \in Int /\ w \div Radix2 \in Int /\ w \div Radix4 \in Int
  BY Radixes
<1>2. \A w \in Int : AppendI8(w) \in Seq(Int) /\ Len(AppendI8(w)) = 1 /\ AppendI8(w)[1] = w % Radix
  BY <1>1 DEF AppendI8
<1> DEFINE SizeIs(s, n) == s \in Seq(Int) /\ Len(s) = n
<1>6. \A s, t : \A n \in Nat : SizeIs(s, n) /\ SizeIs(t, n) => SizeIs(s \o t, n + n)
  BY ConcatProperties
<1> HIDE DEF SizeIs
<1>3. \A w \in Int : AppendI16(w) \in Seq(Int) /\ Len(AppendI16(w)) = 2
  <2> TAKE w \in Int
  <2>1. SizeIs(AppendI8(w), 1) /\ SizeIs(AppendI8(w \div Radix), 1)
    BY <1>1, <1>2 DEF SizeIs
  <2>2. SizeIs(AppendI16(w), 1 + 1)
    BY <1>6, <2>1 DEF AppendI16
  <2> QED BY <2>2 DEF SizeIs
<1>4. \A w \in Int : AppendI32(w) \in Seq(Int) /\ Len(AppendI32(w)) = 4
  <2> TAKE w \in Int
  <2>1. SizeIs(AppendI16(w), 2) /\ SizeIs(AppendI16(w \div Radix2), 2)
    BY <1>1, <1>3 DEF SizeIs
  <2>2. SizeIs(AppendI32(w), 2 + 2)
    BY <1>6, <2>1 DEF AppendI32
  <2> QED BY <2>2 DEF SizeIs
<1>5. AppendI64(v) \in Seq(Int) /\ Len(AppendI64(v)) = 8
  <2>1. SizeIs(AppendI32(v), 4) /\ SizeIs(AppendI32(v \div Radix4), 4)
    BY <1>1, <1>4 DEF SizeIs
  <2>2. SizeIs(AppendI64(v), 4 + 4)
    BY <1>6, <2>1 DEF AppendI64
  <2> QED BY <2>2 DEF SizeIs
<1> QED BY <1>2, <1>3, <1>4, <1>5

\* The server has the bits of what was put.
LEMMA GetI8 ==
  ASSUME NEW b, NEW p \in Int, NEW v \in Int, Placed(b, p, AppendI8(v))
  PROVE  ByteAt(b, p) = v % Radix
<1>1. 1 \in 1..Len(AppendI8(v)) /\ p + 1 - 1 = p
  BY BytesAre
<1> QED BY <1>1, BytesAre DEF Placed

\* Two bytes give the number back, by what two bytes can hold.
LEMMA GetI16 ==
  ASSUME NEW b, NEW p \in Int, NEW v \in Int, Placed(b, p, AppendI16(v))
  PROVE  Decode_u16(b, p) = v % Radix2
<1>1. v \div Radix \in Int /\ Radix \in Nat \ {0} /\ Radix2 = Radix * Radix /\ Limit(1) = Radix
  BY Radixes
<1>2. Placed(b, p, AppendI8(v)) /\ Placed(b, p + 1, AppendI8(v \div Radix))
  <2>1. Len(AppendI8(v)) = 1 /\ AppendI8(v) \in Seq(Int) /\ AppendI8(v \div Radix) \in Seq(Int)
    BY <1>1, BytesAre
  <2> QED BY <2>1, PlacedBoth DEF AppendI16
<1>3. ByteAt(b, p) = v % Radix /\ ByteAt(b, p + 1) = (v \div Radix) % Radix
  BY <1>1, <1>2, GetI8
<1>4. Decode_u16(b, p) = ((v \div Radix) % Radix) * Radix + (v % Radix)
  BY <1>1, <1>3 DEF Decode_u16
<1> QED BY <1>1, <1>4, TwoDigits

\* Four bytes do too.
LEMMA GetI32 ==
  ASSUME NEW b, NEW p \in Int, NEW v \in Int, Placed(b, p, AppendI32(v))
  PROVE  U32(b, p) = v % Radix4
<1>1. v \div Radix2 \in Int /\ Radix2 \in Nat \ {0} /\ Radix4 = Radix2 * Radix2 /\ Limit(2) = Radix2
  BY Radixes
<1>2. Placed(b, p, AppendI16(v)) /\ Placed(b, p + 2, AppendI16(v \div Radix2))
  <2>1. Len(AppendI16(v)) = 2 /\ AppendI16(v) \in Seq(Int) /\ AppendI16(v \div Radix2) \in Seq(Int)
    BY <1>1, BytesAre
  <2> QED BY <2>1, PlacedBoth DEF AppendI32
<1>3. Decode_u16(b, p) = v % Radix2 /\ Decode_u16(b, p + 2) = (v \div Radix2) % Radix2
  BY <1>1, <1>2, GetI16
<1>4. U32(b, p) = ((v \div Radix2) % Radix2) * Radix2 + (v % Radix2)
  BY <1>1, <1>3 DEF U32
<1> QED BY <1>1, <1>4, TwoDigits

\* A number below the limit of a type is its own bits.
LEMMA OwnBits ==
  ASSUME NEW whole \in Nat \ {0}, NEW v \in 0..(whole - 1)
  PROVE  v % whole = v
<1>1. v \in Int /\ v = whole * 0 + v
  OBVIOUS
<1> QED BY <1>1, DividesOnce

\* A value: its type, and as many bytes as that takes.
ValueType == {Uint8, Uint16, Uint32, Uint64, Int8, Int16, Int32, Int64, Float, Str}
IsValue(d) == d \in Seq(Int) /\ d[1] \in ValueType /\ Len(d) = 1 + SizeOf(d[1])

\* Every type of a value has bytes, and what is no type has none.
LEMMA TypeSizes ==
  /\ \A type : SizeOf(type) \in Nat
  /\ \A type \in ValueType : SizeOf(type) \in Nat \ {0}
  /\ \A type : SizeOf(type) # 0 => type \in ValueType
BY PayloadAssumption DEF SizeOf, ValueType, Uint8, Uint16, Uint32, Uint64, Int8, Int16, Int32, Int64, Float, Str

\* A type before as many bytes as it takes makes a value.
LEMMA Headed ==
  ASSUME NEW type \in ValueType, NEW s \in Seq(Int), Len(s) = SizeOf(type)
  PROVE  /\ IsValue(<<type>> \o s) /\ (<<type>> \o s)[1] = type
         /\ \A b : \A p \in Int : Placed(b, p, <<type>> \o s) => ByteAt(b, p) = type /\ Placed(b, p + 1, s)
<1>1. type \in Int /\ <<type>> \in Seq(Int) /\ Len(<<type>>) = 1 /\ <<type>>[1] = type
  BY DEF ValueType, Uint8, Uint16, Uint32, Uint64, Int8, Int16, Int32, Int64, Float, Str
<1>2. /\ <<type>> \o s \in Seq(Int) /\ Len(<<type>> \o s) = 1 + Len(s) /\ (<<type>> \o s)[1] = type
  <2>1. Len(s) \in Nat
    BY LenProperties
  <2> QED BY <1>1, <2>1, ConcatProperties
<1>3. ASSUME NEW b, NEW p \in Int, Placed(b, p, <<type>> \o s) PROVE ByteAt(b, p) = type /\ Placed(b, p + 1, s)
  <2>1. Placed(b, p, <<type>>) /\ Placed(b, p + 1, s)
    BY <1>1, <1>3, PlacedBoth
  <2>2. 1 \in 1..Len(<<type>>) /\ p + 1 - 1 = p
    BY <1>1
  <2>3. ByteAt(b, p + 1 - 1) = <<type>>[1]
    BY <2>1, <2>2 DEF Placed
  <2> QED BY <1>1, <2>1, <2>2, <2>3
<1> QED BY <1>2, <1>3 DEF IsValue

\* A number has as many bytes as its type takes.
LEMMA BytesFit ==
  ASSUME NEW v \in Int, NEW type \in ValueType \ {Str}
  PROVE  Bytes(v, SizeOf(type)) \in Seq(Int) /\ Len(Bytes(v, SizeOf(type))) = SizeOf(type)
<1>1. SizeOf(type) \in {1, 2, 4, 8}
  BY DEF SizeOf, ValueType, Uint8, Uint16, Uint32, Uint64, Int8, Int16, Int32, Int64, Float, Str
<1>2. \A n \in {1, 2, 4, 8} : Bytes(v, n) \in Seq(Int) /\ Len(Bytes(v, n)) = n
  BY BytesAre DEF Bytes
<1> QED BY <1>1, <1>2

\* An integer is sent as a value, ...
LEMMA I64IsValue ==
  ASSUME NEW v \in Int
  PROVE  /\ IsValue(DataI64(v)) /\ CompressedType(v) \in ValueType \ {Str, Float}
         /\ \A b : \A p \in Int : Placed(b, p, DataI64(v)) =>
              ByteAt(b, p) = CompressedType(v) /\ Placed(b, p + 1, Bytes(v, SizeOf(CompressedType(v))))
<1>1. CompressedType(v) \in ValueType \ {Str, Float}
  BY Radixes DEF CompressedType, ValueType, Uint8, Uint16, Uint32, Uint64, Int8, Int16, Int32, Int64, Float, Str
<1> QED BY <1>1, BytesFit, Headed DEF DataI64

\* ... a float is, ...
LEMMA FloatIsValue ==
  ASSUME NEW v \in Int
  PROVE  /\ IsValue(DataFloat(v))
         /\ \A b : \A p \in Int : Placed(b, p, DataFloat(v)) => ByteAt(b, p) = Float /\ Placed(b, p + 1, AppendI32(v))
<1>1. Float \in ValueType /\ SizeOf(Float) = 4 /\ Bytes(v, 4) = AppendI32(v) /\ Float # Str
  BY DEF ValueType, SizeOf, Bytes, Uint8, Uint16, Uint32, Uint64, Int8, Int16, Int32, Int64, Float, Str
<1>2. AppendI32(v) \in Seq(Int) /\ Len(AppendI32(v)) = 4
  BY BytesAre
<1> QED BY <1>1, <1>2, Headed DEF DataFloat

\* ... and so is a string.
LEMMA StrIsValue ==
  /\ IsValue(DataStr)
  /\ \A b : \A p \in Int : Placed(b, p, DataStr) => ByteAt(b, p) = Str /\ ByteAt(b, p + 1) = Text
<1> DEFINE s == [i \in 1..StrLen |-> Text]
<1>1. Str \in ValueType /\ SizeOf(Str) = StrLen
  BY DEF ValueType, SizeOf, Uint8, Uint16, Uint32, Uint64, Int8, Int16, Int32, Int64, Float, Str
<1>2. StrLen \in Nat \ {0} /\ Text \in Int
  BY PayloadAssumption DEF Text
<1>3. s \in Seq(Int) /\ Len(s) = StrLen /\ s[1] = Text
  BY <1>2
<1> HIDE DEF s
<1>4. /\ IsValue(<<Str>> \o s)
      /\ \A b : \A p \in Int : Placed(b, p, <<Str>> \o s) => ByteAt(b, p) = Str /\ Placed(b, p + 1, s)
  BY <1>1, <1>3, Headed
<1>5. ASSUME NEW b, NEW p \in Int, Placed(b, p + 1, s) PROVE ByteAt(b, p + 1) = Text
  <2>1. 1 \in 1..Len(s) /\ (p + 1) + 1 - 1 = p + 1
    BY <1>2, <1>3
  <2> QED BY <1>3, <1>5, <2>1 DEF Placed
<1> QED BY <1>4, <1>5 DEF DataStr, s

\* A signed number of 32 bits.
LEMMA Get32 ==
  ASSUME NEW b, NEW p \in Int, NEW v \in Int, Decodable(v), Placed(b, p, AppendI32(v))
  PROVE  Decode_i32(b, p) = v
<1>1. PICK h4 \in Nat \ {0} : Radix4 = 2 * h4 /\ Limit(4) \div 2 = h4 /\ Radix4 \div 2 = h4
  BY Radixes
<1>2. Radix4 \in Nat \ {0} /\ Limit(4) = Radix4
  BY Radixes
<1>3. v \in -h4..(h4 - 1)
  BY <1>1, <1>2 DEF Decodable
<1>4. U32(b, p) = v % Radix4
  BY GetI32
<1>5. v % Radix4 = IF v < 0 THEN v + Radix4 ELSE v
  BY <1>1, <1>2, <1>3, SignedBits
<1>6. Decode_u32(b, p) = v
  BY <1>1, <1>2, <1>3, <1>4, <1>5 DEF Decode_u32, Signed32
<1>7. (Limit(4) - 1) \div 2 = h4 - 1
  BY <1>1, <1>2
<1> QED BY <1>3, <1>6, <1>7 DEF Decode_i32

\* A float is read as it was, ...
LEMMA FloatDecodes ==
  ASSUME NEW b, NEW p \in Int, NEW v \in Int, Decodable(v), Placed(b, p, DataFloat(v))
  PROVE  Decode_value(b, p) = v
<1>1. ByteAt(b, p) = Float /\ Placed(b, p + 1, AppendI32(v)) /\ p + 1 \in Int
  BY FloatIsValue
<1>2. Decode_i32(b, p + 1) = v
  BY <1>1, Get32
<1> QED BY <1>1, <1>2 DEF Decode_value, Uint8, Uint16, Uint32, Uint64, Int8, Int16, Int32, Int64, Float, Str

\* ... and a string by its characters.
LEMMA StrDecodes ==
  ASSUME NEW b, NEW p \in Int, Placed(b, p, DataStr)
  PROVE  Decode_value(b, p) = Text
<1>1. ByteAt(b, p) = Str /\ ByteAt(b, p + 1) = Text
  BY StrIsValue
<1> QED BY <1>1 DEF Decode_value, Uint8, Uint16, Uint32, Uint64, Int8, Int16, Int32, Int64, Float, Str

\* A value of the type it was put as is read by that type.
LEMMA I64Decodes ==
  ASSUME NEW b, NEW p \in Int, NEW v \in Int, Decodable(v), Placed(b, p, DataI64(v))
  PROVE  Decode_value(b, p) = v
<1> DEFINE type == CompressedType(v)
<1>1. /\ type \in ValueType \ {Str, Float} /\ ByteAt(b, p) = type /\ Placed(b, p + 1, Bytes(v, SizeOf(type)))
      /\ p + 1 \in Int
  BY I64IsValue
<1>2. PICK h \in Nat \ {0}, h2 \in Nat \ {0}, h4 \in Nat \ {0} :
         /\ Radix = 2 * h /\ Radix2 = 2 * h2 /\ Radix4 = 2 * h4
         /\ Limit(1) \div 2 = h /\ Limit(2) \div 2 = h2 /\ Limit(4) \div 2 = h4
  BY Radixes
<1>3. /\ Radix \in Nat \ {0} /\ Radix2 \in Nat \ {0} /\ Radix4 \in Nat \ {0}
      /\ Limit(1) = Radix /\ Limit(2) = Radix2 /\ Limit(4) = Radix4
  BY Radixes
<1>4. v \in -h4..(h4 - 1) /\ v # -h
  BY <1>2, <1>3 DEF Decodable
<1>12. h <= h2 /\ h2 <= h4 /\ Radix <= Radix2 /\ Radix2 <= Radix4
  <2>1. Radix \div 2 = h /\ Radix2 \div 2 = h2 /\ Radix4 \div 2 = h4
    BY <1>2, <1>3
  <2>2. h <= h2 /\ h2 <= h4
    BY <2>1, Radixes
  <2> QED BY <1>2, <2>2
<1>5. CASE v > 0 /\ v < Radix
  <2>1. type = Uint8
    BY <1>2, <1>3, <1>4, <1>12, <1>5 DEF CompressedType
  <2>2. Placed(b, p + 1, AppendI8(v))
    BY <1>1, <2>1 DEF SizeOf, Bytes, Uint8, Uint16, Uint32, Uint64, Int8, Int16, Int32, Int64, Float, Str
  <2>3. ByteAt(b, p + 1) = v
    BY <1>1, <1>2, <1>3, <1>5, <2>2, GetI8, OwnBits
  <2> QED BY <1>1, <2>1, <2>3 DEF Decode_value, Uint8, Uint16, Uint32, Uint64, Int8, Int16, Int32, Int64, Float, Str
<1>6. CASE v >= Radix /\ v < Radix2
  <2>1. type = Uint16
    BY <1>2, <1>3, <1>4, <1>12, <1>6 DEF CompressedType
  <2>2. Placed(b, p + 1, AppendI16(v))
    BY <1>1, <2>1 DEF SizeOf, Bytes, Uint8, Uint16, Uint32, Uint64, Int8, Int16, Int32, Int64, Float, Str
  <2>3. Decode_u16(b, p + 1) = v
    BY <1>1, <1>2, <1>3, <1>6, <2>2, GetI16, OwnBits
  <2> QED BY <1>1, <2>1, <2>3 DEF Decode_value, Uint8, Uint16, Uint32, Uint64, Int8, Int16, Int32, Int64, Float, Str
<1>7. CASE v >= Radix2
  <2>1. type = Uint32
    BY <1>2, <1>3, <1>4, <1>12, <1>7 DEF CompressedType
  <2>2. Placed(b, p + 1, AppendI32(v))
    BY <1>1, <2>1 DEF SizeOf, Bytes, Uint8, Uint16, Uint32, Uint64, Int8, Int16, Int32, Int64, Float, Str
  <2>3. U32(b, p + 1) = v
    BY <1>1, <1>2, <1>3, <1>4, <1>7, <2>2, GetI32, OwnBits
  <2>4. Decode_u32(b, p + 1) = v
    BY <1>2, <1>4, <2>3 DEF Decode_u32, Signed32
  <2> QED BY <1>1, <2>1, <2>4 DEF Decode_value, Uint8, Uint16, Uint32, Uint64, Int8, Int16, Int32, Int64, Float, Str
<1>8. CASE v <= 0 /\ v > -h
  <2>1. type = Int8
    BY <1>2, <1>3, <1>4, <1>12, <1>8 DEF CompressedType
  <2>2. Placed(b, p + 1, AppendI8(v))
    BY <1>1, <2>1 DEF SizeOf, Bytes, Uint8, Uint16, Uint32, Uint64, Int8, Int16, Int32, Int64, Float, Str
  <2>3. ByteAt(b, p + 1) = v % Radix
    BY <1>1, <2>2, GetI8
  <2>4. v % Radix = IF v < 0 THEN v + Radix ELSE v
    BY <1>2, <1>3, <1>8, SignedBits
  <2>5. Decode_i8(b, p + 1) = v
    BY <1>2, <1>3, <1>8, <2>3, <2>4 DEF Decode_i8
  <2> QED BY <1>1, <2>1, <2>5 DEF Decode_value, Uint8, Uint16, Uint32, Uint64, Int8, Int16, Int32, Int64, Float, Str
<1>9. CASE v < -h /\ v >= -h2
  <2>1. type = Int16
    BY <1>2, <1>3, <1>4, <1>12, <1>9 DEF CompressedType
  <2>2. Placed(b, p + 1, AppendI16(v))
    BY <1>1, <2>1 DEF SizeOf, Bytes, Uint8, Uint16, Uint32, Uint64, Int8, Int16, Int32, Int64, Float, Str
  <2>3. Decode_u16(b, p + 1) = v % Radix2
    BY <1>1, <2>2, GetI16
  <2>4. v % Radix2 = v + Radix2
    <3>1. v \in -h2..(h2 - 1) /\ v < 0
      BY <1>2, <1>4, <1>9
    <3> QED BY <1>2, <1>3, <3>1, SignedBits
  <2>5. Decode_i16(b, p + 1) = v
    BY <1>2, <1>3, <1>4, <1>9, <2>3, <2>4 DEF Decode_i16
  <2> QED BY <1>1, <2>1, <2>5 DEF Decode_value, Uint8, Uint16, Uint32, Uint64, Int8, Int16, Int32, Int64, Float, Str
<1>10. CASE v < -h2
  <2>1. type = Int32
    BY <1>2, <1>3, <1>4, <1>12, <1>10 DEF CompressedType
  <2>2. Placed(b, p + 1, AppendI32(v))
    BY <1>1, <2>1 DEF SizeOf, Bytes, Uint8, Uint16, Uint32, Uint64, Int8, Int16, Int32, Int64, Float, Str
  <2>3. Decode_i32(b, p + 1) = v
    BY <1>1, <1>4, <2>2, <1>2, <1>3, Get32
  <2> QED BY <1>1, <2>1, <2>3 DEF Decode_value, Uint8, Uint16, Uint32, Uint64, Int8, Int16, Int32, Int64, Float, Str
<1>11. (v > 0 /\ v < Radix) \/ (v >= Radix /\ v < Radix2) \/ v >= Radix2 \/ (v <= 0 /\ v > -h)
       \/ (v < -h /\ v >= -h2) \/ v < -h2
  BY <1>2, <1>3, <1>4
<1> QED BY <1>5, <1>6, <1>7, <1>8, <1>9, <1>10, <1>11
-----------------------------------------------------------------------------
\* A payload that goes on as another does.
Begins(b, c) == /\ b \in Seq(Int) /\ c \in Seq(Int) /\ Len(b) <= Len(c)
                /\ \A i \in 1..Len(b) : ByteAt(c, i) = ByteAt(b, i)

\* A byte that is not 0 is within.
LEMMA ByteIn == ASSUME NEW b \in Seq(Int), NEW i, ByteAt(b, i) # 0 PROVE i \in 1..Len(b)
BY DEF ByteAt

\* A whole value is read as before.
LEMMA ValueKept ==
  ASSUME NEW b, NEW c, Begins(b, c), NEW q \in Nat \ {0}, AfterValue(b, q) <= Len(b) + 1
  PROVE  q <= Len(b) /\ AfterValue(c, q) = AfterValue(b, q) /\ Decode_value(c, q) = Decode_value(b, q)
         /\ AfterValue(b, q) \in Nat /\ AfterValue(b, q) > q
<1> DEFINE type == ByteAt(b, q)
           Same(i) == ByteAt(c, i) = ByteAt(b, i)
<1>1. Len(b) \in Nat /\ SizeOf(type) \in Nat /\ AfterValue(b, q) = q + 1 + SizeOf(type)
  BY LenProperties, TypeSizes DEF AfterValue, Begins
<1>2. q \in 1..Len(b) /\ AfterValue(b, q) \in Nat /\ AfterValue(b, q) > q
  BY <1>1
<1>3. Same(q)
  BY <1>2 DEF Begins
<1>4. AfterValue(c, q) = AfterValue(b, q)
  BY <1>3 DEF AfterValue
<1>5. \A k \in 1..8 : k <= SizeOf(type) => Same(q + k)
  <2> TAKE k \in 1..8
  <2> HAVE k <= SizeOf(type)
  <2>1. q + k \in 1..Len(b)
    BY <1>1, <1>2
  <2> QED BY <2>1 DEF Begins
<1>6. Same(q + 1) \/ SizeOf(type) = 0
  <2>1. 1 \in 1..8 /\ (1 <= SizeOf(type) \/ SizeOf(type) = 0)
    BY <1>1
  <2> QED BY <1>5, <2>1
<1> DEFINE u16(d) == Decode_u16(d, q + 1)
           u32(d) == U32(d, q + 1)
<1>7. SizeOf(type) >= 2 => Decode_u16(c, q + 1) = Decode_u16(b, q + 1)
  <2> HAVE SizeOf(type) >= 2
  <2>1. Same(q + 1) /\ Same(q + 2) /\ (q + 1) + 1 = q + 2
    BY <1>1, <1>5
  <2> QED BY <2>1 DEF Decode_u16
<1>8. SizeOf(type) >= 4 => U32(c, q + 1) = U32(b, q + 1)
  <2> HAVE SizeOf(type) >= 4
  <2>1. /\ Same(q + 1) /\ Same(q + 2) /\ Same(q + 3) /\ Same(q + 4)
        /\ (q + 1) + 1 = q + 2 /\ (q + 1) + 2 = q + 3 /\ ((q + 1) + 2) + 1 = q + 4
    BY <1>1, <1>5
  <2> QED BY <2>1 DEF U32, Decode_u16
<1>9. SizeOf(type) >= 8 => U32(c, (q + 1) + 4) = U32(b, (q + 1) + 4)
  <2> HAVE SizeOf(type) >= 8
  <2>1. /\ Same(q + 5) /\ Same(q + 6) /\ Same(q + 7) /\ Same(q + 8)
        /\ (q + 1) + 4 = q + 5 /\ (q + 5) + 1 = q + 6 /\ (q + 5) + 2 = q + 7 /\ (q + 7) + 1 = q + 8
    BY <1>1, <1>5
  <2> QED BY <2>1 DEF U32, Decode_u16
<1>10. /\ type \in {Uint8, Int8} => SizeOf(type) = 1
       /\ type \in {Uint16, Int16} => SizeOf(type) = 2
       /\ type \in {Uint32, Int32, Float} => SizeOf(type) = 4
       /\ type \in {Uint64, Int64} => SizeOf(type) = 8
       /\ type = Str => SizeOf(type) # 0
  BY PayloadAssumption, SMTT(30) DEF SizeOf, Uint8, Uint16, Uint32, Uint64, Int8, Int16, Int32, Int64, Float, Str
<1>11. Decode_value(c, q) = Decode_value(b, q)
  <2>1. CASE type \in {Uint8, Int8, Str}
    <3>1. Same(q + 1)
      BY <1>6, <1>10, <2>1
    <3> QED BY <1>3, <2>1, <3>1 DEF Decode_value, Decode_i8, Uint8, Uint16, Uint32, Uint64, Int8, Int16, Int32, Int64, Float, Str
  <2>2. CASE type \in {Uint16, Int16}
    BY <1>3, <1>7, <1>10, <2>2 DEF Decode_value, Decode_i16, Uint8, Uint16, Uint32, Uint64, Int8, Int16, Int32, Int64, Float, Str
  <2>3. CASE type \in {Uint32, Int32, Float}
    <3>1. U32(c, q + 1) = U32(b, q + 1)
      BY <1>8, <1>10, <2>3
    <3>2. Decode_u32(c, q + 1) = Decode_u32(b, q + 1)
      BY <3>1 DEF Decode_u32
    <3>3. Decode_i32(c, q + 1) = Decode_i32(b, q + 1)
      BY <3>2 DEF Decode_i32
    <3> QED BY <1>3, <2>3, <3>2, <3>3 DEF Decode_value, Uint8, Uint16, Uint32, Uint64, Int8, Int16, Int32, Int64, Float, Str
  <2>4. CASE type \in {Uint64, Int64}
    <3>1. U32(c, q + 1) = U32(b, q + 1) /\ U32(c, (q + 1) + 4) = U32(b, (q + 1) + 4)
      BY <1>8, <1>9, <1>10, <2>4
    <3>2. Decode_u64(c, q + 1) = Decode_u64(b, q + 1)
      BY <3>1, Zenon DEF Decode_u64
    <3>3. Decode_i64(c, q + 1) = Decode_i64(b, q + 1)
      BY <3>2, Zenon DEF Decode_i64
    <3> QED BY <1>3, <2>4, <3>2, <3>3 DEF Decode_value, Uint8, Uint16, Uint32, Uint64, Int8, Int16, Int32, Int64, Float, Str
  <2>5. CASE type \notin ValueType
    BY <1>3, <2>5 DEF Decode_value, ValueType, Uint8, Uint16, Uint32, Uint64, Int8, Int16, Int32, Int64, Float, Str
  <2> QED BY <2>1, <2>2, <2>3, <2>4, <2>5 DEF ValueType
<1> QED BY <1>2, <1>4, <1>11

\* A whole entry is read as before.
LEMMA EntryKept ==
  ASSUME NEW b, NEW c, Begins(b, c), NEW p \in Nat, After(b, p) # 0
  PROVE  /\ p \in 1..Len(b) /\ After(b, p) \in (p + 1)..(Len(b) + 1)
         /\ After(c, p) = After(b, p) /\ Read(c, p) = Read(b, p)
<1> DEFINE n == Many(b, p)
           s(i) == Start(b, p)[i]
<1>1. /\ NameLen \in Nat \ {0} /\ Len(b) \in Nat /\ Len(c) \in Nat /\ Len(b) <= Len(c)
      /\ DOMAIN b = 1..Len(b) /\ DOMAIN c = 1..Len(c) /\ b \in Seq(Int)
  BY PayloadAssumption, LenProperties DEF Begins
<1>2. n # 0 /\ \A i \in 1..n : IsWhole(b, p, i)
  BY DEF After
<1>3. p \in 1..Len(b) /\ n \in {1, 3} /\ ByteAt(b, p + NameLen) \in {Single, Averaged}
  BY <1>1, <1>2 DEF Many
<1>4. p + NameLen \in 1..Len(b)
  <2>1. ByteAt(b, p + NameLen) # 0
    BY <1>3 DEF Single, Averaged
  <2> QED BY <1>1, <2>1, ByteIn
<1>5. ByteAt(c, p) = ByteAt(b, p) /\ ByteAt(c, p + NameLen) = ByteAt(b, p + NameLen)
  BY <1>3, <1>4 DEF Begins
<1>6. Many(c, p) = n
  <2>1. p \in DOMAIN b /\ p \in DOMAIN c
    BY <1>1, <1>3
  <2> QED BY <1>5, <2>1 DEF Many
<1>7. /\ s(1) = p + NameLen + 1 /\ s(2) = AfterValue(b, s(1)) /\ s(3) = AfterValue(b, s(2)) /\ s(4) = AfterValue(b, s(3))
      /\ Start(c, p)[1] = p + NameLen + 1 /\ Start(c, p)[2] = AfterValue(c, Start(c, p)[1])
      /\ Start(c, p)[3] = AfterValue(c, Start(c, p)[2]) /\ Start(c, p)[4] = AfterValue(c, Start(c, p)[3])
  BY DEF Start
<1> DEFINE Kept(i) == /\ s(i) \in Nat \ {0} /\ s(i) > p /\ s(i + 1) \in Nat /\ s(i + 1) > s(i) /\ s(i + 1) <= Len(b) + 1
                      /\ Start(c, p)[i] = s(i) /\ Start(c, p)[i + 1] = s(i + 1)
                      /\ Decode_value(c, s(i)) = Decode_value(b, s(i)) /\ IsWhole(c, p, i)
<1>8. ASSUME NEW i \in 1..n, s(i) \in Nat \ {0}, s(i) > p, Start(c, p)[i] = s(i) PROVE Kept(i)
  <2>1. s(i + 1) = AfterValue(b, s(i)) /\ Start(c, p)[i + 1] = AfterValue(c, Start(c, p)[i])
    <3>1. i \in {1, 2, 3}
      BY <1>3
    <3> QED BY <1>7, <3>1
  <2>2. AfterValue(b, s(i)) <= Len(b) + 1
    BY <1>2 DEF IsWhole
  <2>3. /\ AfterValue(c, s(i)) = AfterValue(b, s(i)) /\ Decode_value(c, s(i)) = Decode_value(b, s(i))
        /\ AfterValue(b, s(i)) \in Nat /\ AfterValue(b, s(i)) > s(i)
    BY <1>8, <2>2, ValueKept
  <2>4. IsWhole(c, p, i)
    BY <1>1, <1>8, <2>2, <2>3 DEF IsWhole
  <2> QED BY <1>8, <2>1, <2>2, <2>3, <2>4
<1>9. Kept(1)
  <2>1. 1 \in 1..n /\ s(1) \in Nat \ {0} /\ s(1) > p /\ Start(c, p)[1] = s(1)
    BY <1>1, <1>3, <1>7
  <2> HIDE DEF Kept, s, n
  <2> QED BY <1>8, <2>1
<1>10. n = 3 => Kept(2) /\ Kept(3)
  <2> HAVE n = 3
  <2>1. ASSUME NEW i \in {1, 2}, Kept(i) PROVE Kept(i + 1)
    <3>1. i + 1 \in 1..n /\ s(i + 1) \in Nat \ {0} /\ s(i + 1) > p /\ Start(c, p)[i + 1] = s(i + 1)
      BY <2>1
    <3> HIDE DEF Kept, s, n
    <3> QED BY <1>8, <3>1
  <2> HIDE DEF Kept
  <2> QED BY <1>9, <2>1
<1>11. \A i \in 1..n : Kept(i)
  <2>1. ASSUME NEW i \in 1..n PROVE i = 1 \/ (n = 3 /\ i \in {2, 3})
    BY <1>3
  <2> HIDE DEF Kept
  <2> QED BY <1>9, <1>10, <2>1
<1>12. n \in 1..n /\ After(b, p) = s(n + 1)
  BY <1>2, <1>3 DEF After
<1>13. After(b, p) \in (p + 1)..(Len(b) + 1)
  <2>1. Kept(n)
    BY <1>11, <1>12
  <2> QED BY <1>1, <1>12, <2>1
<1>14. After(c, p) = s(n + 1)
  <2>1. Start(c, p)[n + 1] = s(n + 1) /\ \A i \in 1..n : IsWhole(c, p, i)
    BY <1>11, <1>12
  <2> QED BY <1>2, <1>6, <2>1 DEF After
<1>15. Read(c, p) = Read(b, p)
  <2>1. {j \in 1..Many(b, p) : IsWhole(b, p, j)} = 1..n
    BY <1>2
  <2>2. {j \in 1..Many(c, p) : IsWhole(c, p, j)} = 1..n
    BY <1>6, <1>11
  <2>3. Read(b, p) = {<<ByteAt(b, p), i, Decode_value(b, s(i))>> : i \in 1..n}
    BY <2>1 DEF Read
  <2>4. Read(c, p) = {<<ByteAt(c, p), i, Decode_value(c, Start(c, p)[i])>> : i \in 1..n}
    BY <2>2 DEF Read
  <2>5. \A i \in 1..n : Decode_value(c, Start(c, p)[i]) = Decode_value(b, s(i))
    BY <1>11
  <2> QED BY <1>5, <2>3, <2>4, <2>5
<1> QED BY <1>3, <1>12, <1>13, <1>14, <1>15

\* Where the entries are is defined entry by entry.
LEMMA EntryPosIs ==
  ASSUME NEW b \in Seq(Int)
  PROVE  /\ EntryPos(b)[0] = 2
         /\ \A k \in 1..Len(b) : EntryPos(b)[k] = After(b, EntryPos(b)[k - 1])
<1> DEFINE Step(f, i) == IF i = 0 THEN 2 ELSE After(b, f[i - 1])
           IsOn(f, n) == f = [i \in 0..n |-> Step(f, i)]
           T == {n \in Nat : \E f : IsOn(f, n)}
<1>1. 0 \in T
  <2>1. IsOn([i \in 0..0 |-> 2], 0)
    OBVIOUS
  <2> QED BY <2>1
<1>2. ASSUME NEW n \in Nat, n \in T PROVE n + 1 \in T
  <2>1. PICK f : IsOn(f, n)
    BY <1>2
  <2> DEFINE g == [i \in 0..(n + 1) |-> IF i = n + 1 THEN After(b, f[n]) ELSE f[i]]
  <2>2. \A i \in 0..n : g[i] = f[i] /\ f[i] = Step(f, i)
    BY <2>1, SMT
  <2>3. ASSUME NEW i \in 0..(n + 1) PROVE g[i] = Step(g, i)
    <3>1. CASE i = n + 1
      <4>1. g[n] = f[n] /\ i - 1 = n /\ i # 0
        BY <2>2, <3>1
      <4> QED BY <3>1, <4>1
    <3>2. CASE i = 0
      <4>1. i \in 0..n /\ i # n + 1
        BY <3>2
      <4> QED BY <2>2, <3>2, <4>1
    <3>3. CASE i # n + 1 /\ i # 0
      <4>1. i - 1 \in 0..n /\ i \in 0..n
        BY <3>3
      <4> QED BY <2>2, <4>1, <3>3
    <3> QED BY <3>1, <3>2, <3>3
  <2>4. IsOn(g, n + 1)
    <3>1. g = [i \in 0..(n + 1) |-> g[i]]
      OBVIOUS
    <3> HIDE DEF g, Step
    <3> QED BY <2>3, <3>1
  <2>5. n + 1 \in Nat /\ \E h : IsOn(h, n + 1)
    <3> HIDE DEF IsOn
    <3> QED BY <2>4
  <2> QED BY <2>5
<1>3. Len(b) \in T
  <2>1. Nat \subseteq T
    <3> HIDE DEF T
    <3> QED BY <1>1, <1>2, NatInduct
  <2> QED BY <2>1, LenProperties
<1>4. IsOn(EntryPos(b), Len(b))
  <2>1. PICK g : IsOn(g, Len(b))
    BY <1>3
  <2>2. EntryPos(b) = CHOOSE f : IsOn(f, Len(b))
    BY DEF EntryPos
  <2> HIDE DEF IsOn
  <2> QED BY <2>1, <2>2, Zenon
<1>5. \A i \in 0..Len(b) : EntryPos(b)[i] = Step(EntryPos(b), i)
  BY <1>4
<1>6. 0 \in 0..Len(b) /\ \A k \in 1..Len(b) : k \in 0..Len(b) /\ k # 0
  BY LenProperties
<1> QED BY <1>5, <1>6

\* Where there is an entry, there was one before it, and whole.
LEMMA EntryPosGrows ==
  ASSUME NEW b \in Seq(Int), NEW N \in 0..Len(b), EntryPos(b)[N] # 0
  PROVE  /\ \A k \in 0..N : EntryPos(b)[k] \in Nat /\ EntryPos(b)[k] >= k + 2
         /\ \A k \in 0..(N - 1) : After(b, EntryPos(b)[k]) # 0
<1> DEFINE P(k) == EntryPos(b)[k]
           Good(k) == /\ P(k) \in Nat
                      /\ P(k) # 0 => /\ \A j \in 0..k : P(j) \in Nat /\ P(j) >= j + 2
                                     /\ \A j \in 0..(k - 1) : After(b, P(j)) # 0
           T == {k \in Nat : k <= N => Good(k)}
<1>1. Len(b) \in Nat /\ Begins(b, b)
  BY LenProperties DEF Begins
<1>2. 0 \in T
  <2>1. P(0) = 2
    BY EntryPosIs
  <2> QED BY <2>1
<1>3. ASSUME NEW k \in Nat, k \in T PROVE k + 1 \in T
  <2>1. SUFFICES ASSUME k + 1 <= N PROVE Good(k + 1)
    OBVIOUS
  <2>2. k + 1 \in 1..Len(b) /\ (k + 1) - 1 = k /\ k <= N
    BY <1>1, <2>1
  <2>3. P(k + 1) = After(b, P(k)) /\ Good(k)
    BY <1>3, <2>2, EntryPosIs
  <2>4. CASE After(b, P(k)) = 0
    BY <2>3, <2>4
  <2>5. CASE After(b, P(k)) # 0
    <3>1. P(k) \in 1..Len(b) /\ After(b, P(k)) \in (P(k) + 1)..(Len(b) + 1)
      BY <1>1, <2>3, <2>5, EntryKept
    <3>2. /\ \A j \in 0..k : P(j) \in Nat /\ P(j) >= j + 2
          /\ \A j \in 0..(k - 1) : After(b, P(j)) # 0
      BY <2>3, <3>1
    <3>3. P(k + 1) \in Nat /\ P(k + 1) >= (k + 1) + 2
      <4>1. P(k) \in Nat /\ P(k) >= k + 2
        BY <3>2
      <4> QED BY <1>1, <2>3, <3>1, <4>1
    <3>4. ASSUME NEW j \in 0..(k + 1) PROVE P(j) \in Nat /\ P(j) >= j + 2
      <4>1. j \in 0..k \/ j = k + 1
        OBVIOUS
      <4> QED BY <3>2, <3>3, <4>1
    <3>5. ASSUME NEW j \in 0..((k + 1) - 1) PROVE After(b, P(j)) # 0
      <4>1. j \in 0..(k - 1) \/ j = k
        OBVIOUS
      <4> QED BY <2>5, <3>2, <4>1
    <3> QED BY <3>3, <3>4, <3>5
  <2> QED BY <2>4, <2>5
<1>4. N \in T
  <2>1. Nat \subseteq T
    <3> HIDE DEF T
    <3> QED BY <1>2, <1>3, NatInduct
  <2> QED BY <1>1, <2>1
<1> QED BY <1>4

\* What is read so far is read again of a payload that goes on.
LEMMA LoopKept ==
  ASSUME NEW b, NEW c, Begins(b, c), NEW N \in 0..Len(b), EntryPos(b)[N] # 0
  PROVE  /\ \A k \in 0..N : EntryPos(c)[k] = EntryPos(b)[k]
         /\ \A k \in 0..(N - 1) : Read(c, EntryPos(c)[k]) = Read(b, EntryPos(b)[k])
<1> DEFINE T == {k \in Nat : k <= N => EntryPos(c)[k] = EntryPos(b)[k]}
<1>1. b \in Seq(Int) /\ c \in Seq(Int) /\ Len(b) \in Nat /\ Len(c) \in Nat /\ Len(b) <= Len(c)
  BY LenProperties DEF Begins
<1>2. \A k \in 0..(N - 1) : k \in 0..N /\ EntryPos(b)[k] \in Nat /\ After(b, EntryPos(b)[k]) # 0
  BY <1>1, EntryPosGrows
<1>3. 0 \in T
  BY <1>1, EntryPosIs
<1>4. ASSUME NEW k \in Nat, k \in T PROVE k + 1 \in T
  <2>1. SUFFICES ASSUME k + 1 <= N PROVE EntryPos(c)[k + 1] = EntryPos(b)[k + 1]
    OBVIOUS
  <2>2. k + 1 \in 1..Len(b) /\ k + 1 \in 1..Len(c) /\ (k + 1) - 1 = k /\ k <= N /\ k \in 0..(N - 1)
    BY <1>1, <2>1
  <2>3. /\ EntryPos(b)[k + 1] = After(b, EntryPos(b)[k]) /\ EntryPos(c)[k + 1] = After(c, EntryPos(c)[k])
        /\ EntryPos(c)[k] = EntryPos(b)[k]
    BY <1>1, <1>4, <2>2, EntryPosIs
  <2> QED BY <1>2, <2>2, <2>3, EntryKept
<1>5. \A k \in 0..N : EntryPos(c)[k] = EntryPos(b)[k]
  <2>1. Nat \subseteq T
    <3> HIDE DEF T
    <3> QED BY <1>3, <1>4, NatInduct
  <2> QED BY <2>1
<1>6. ASSUME NEW k \in 0..(N - 1) PROVE Read(c, EntryPos(c)[k]) = Read(b, EntryPos(b)[k])
  <2>1. Read(c, EntryPos(b)[k]) = Read(b, EntryPos(b)[k])
    BY <1>2, EntryKept
  <2> QED BY <1>2, <1>5, <2>1
<1> QED BY <1>5, <1>6

\* Nothing is read where there is no entry.
LEMMA NoEntry ==
  ASSUME NEW b \in Seq(Int), NEW p, p \notin 1..Len(b)
  PROVE  Read(b, p) = {} /\ After(b, p) = 0
<1>1. DOMAIN b = 1..Len(b)
  BY LenProperties
<1>2. Many(b, p) = 0
  BY <1>1 DEF Many
<1>3. 1..0 = {}
  OBVIOUS
<1> QED BY <1>2, <1>3 DEF Read, After

\* A payload is read by the entries up to its end.
LEMMA DecodeWhole ==
  ASSUME NEW b \in Seq(Int), ByteAt(b, 1) = Version, NEW N \in 0..Len(b), EntryPos(b)[N] = Len(b) + 1
  PROVE  Decode(b) = UNION {Read(b, EntryPos(b)[k]) : k \in 0..(N - 1)}
<1> DEFINE T == {d \in Nat : N + d <= Len(b) => EntryPos(b)[N + d] \in {0, Len(b) + 1}}
<1>1. Len(b) \in Nat /\ N + 0 = N
  BY LenProperties
<1>2. 0 \in T
  BY <1>1
<1>3. ASSUME NEW d \in Nat, d \in T PROVE d + 1 \in T
  <2>1. SUFFICES ASSUME N + (d + 1) <= Len(b) PROVE EntryPos(b)[N + (d + 1)] = 0
    OBVIOUS
  <2>2. N + (d + 1) \in 1..Len(b) /\ (N + (d + 1)) - 1 = N + d /\ N + d <= Len(b)
    BY <1>1, <2>1
  <2>3. EntryPos(b)[N + (d + 1)] = After(b, EntryPos(b)[N + d]) /\ EntryPos(b)[N + d] \notin 1..Len(b)
    BY <1>1, <1>3, <2>2, EntryPosIs
  <2> QED BY <2>3, NoEntry
<1>4. \A k \in N..Len(b) : Read(b, EntryPos(b)[k]) = {}
  <2>1. Nat \subseteq T
    <3> HIDE DEF T
    <3> QED BY <1>2, <1>3, NatInduct
  <2> TAKE k \in N..Len(b)
  <2>2. k - N \in Nat /\ N + (k - N) = k /\ k <= Len(b)
    BY <1>1
  <2>3. EntryPos(b)[N + (k - N)] \in {0, Len(b) + 1}
    <3>1. k - N \in T
      BY <2>1, <2>2
    <3> QED BY <2>2, <3>1
  <2>4. EntryPos(b)[k] \notin 1..Len(b)
    BY <1>1, <2>2, <2>3
  <2> QED BY <2>4, NoEntry
<1>5. Decode(b) = UNION {Read(b, EntryPos(b)[k]) : k \in 0..Len(b)}
  BY DEF Decode, Version
<1>6. \A k \in 0..Len(b) : k \in 0..(N - 1) \/ k \in N..Len(b)
  BY <1>1
<1>7. 0..(N - 1) \subseteq 0..Len(b)
  BY <1>1
<1> QED BY <1>4, <1>5, <1>6, <1>7
-----------------------------------------------------------------------------
\* What is appended follows on.
LEMMA Follows ==
  ASSUME NEW b \in Seq(Int), NEW e \in Seq(Int)
  PROVE  /\ b \o e \in Seq(Int) /\ Len(b \o e) = Len(b) + Len(e) /\ Begins(b, b \o e) /\ Placed(b \o e, Len(b) + 1, e)
<1> DEFINE c == b \o e
<1>1. /\ Len(b) \in Nat /\ Len(e) \in Nat /\ c \in Seq(Int) /\ Len(c) = Len(b) + Len(e)
      /\ \A i \in 1..Len(c) : c[i] = IF i <= Len(b) THEN b[i] ELSE e[i - Len(b)]
  BY ConcatProperties, LenProperties
<1>2. DOMAIN b = 1..Len(b) /\ DOMAIN c = 1..Len(c)
  BY <1>1, LenProperties
<1> HIDE DEF c
<1>3. ASSUME NEW i \in 1..Len(b) PROVE ByteAt(c, i) = ByteAt(b, i)
  <2>1. i \in 1..Len(c) /\ i <= Len(b)
    BY <1>1
  <2> QED BY <1>1, <1>2, <2>1 DEF ByteAt
<1>4. ASSUME NEW i \in 1..Len(e) PROVE ByteAt(c, (Len(b) + 1) + i - 1) = e[i]
  <2>1. Len(b) + i \in 1..Len(c) /\ ~(Len(b) + i <= Len(b)) /\ (Len(b) + i) - Len(b) = i
        /\ (Len(b) + 1) + i - 1 = Len(b) + i
    BY <1>1
  <2>2. ByteAt(c, Len(b) + i) = c[Len(b) + i]
    BY <1>2, <2>1 DEF ByteAt
  <2> QED BY <1>1, <2>1, <2>2
<1>5. Begins(b, c) /\ Placed(c, Len(b) + 1, e)
  <2>1. Len(b) <= Len(c)
    BY <1>1
  <2> QED BY <1>1, <1>3, <1>4, <2>1 DEF Begins, Placed
<1> QED BY <1>1, <1>5 DEF c

\* A payload that is read to its end, ...
Complete(b, N) == /\ b \in Seq(Int) /\ Len(b) >= 1 /\ ByteAt(b, 1) = Version
                  /\ N \in 0..(Len(b) - 1) /\ EntryPos(b)[N] = Len(b) + 1

\* ... and with one more entry.
LEMMA OneMore ==
  ASSUME NEW b, NEW N, Complete(b, N), NEW e \in Seq(Int), Len(e) >= 1,
         After(b \o e, Len(b) + 1) = Len(b \o e) + 1
  PROVE  /\ Complete(b \o e, N + 1)
         /\ Decode(b \o e) = Decode(b) \cup Read(b \o e, Len(b) + 1)
<1> DEFINE c == b \o e
<1>1. /\ b \in Seq(Int) /\ Len(b) \in Nat /\ Len(b) >= 1 /\ ByteAt(b, 1) = Version /\ N \in 0..(Len(b) - 1)
      /\ EntryPos(b)[N] = Len(b) + 1 /\ Len(e) \in Nat
  BY LenProperties DEF Complete
<1>2. c \in Seq(Int) /\ Len(c) = Len(b) + Len(e) /\ Begins(b, c)
  BY <1>1, Follows
<1>3. After(c, Len(b) + 1) = Len(c) + 1
  OBVIOUS
<1> HIDE DEF c
<1>4. N \in 0..Len(b) /\ EntryPos(b)[N] # 0
  BY <1>1
<1>5. /\ \A k \in 0..N : EntryPos(c)[k] = EntryPos(b)[k]
      /\ \A k \in 0..(N - 1) : Read(c, EntryPos(c)[k]) = Read(b, EntryPos(b)[k])
  BY <1>2, <1>4, LoopKept
<1>6. EntryPos(c)[N] = Len(b) + 1
  BY <1>1, <1>5
<1>7. EntryPos(c)[N + 1] = Len(c) + 1
  <2>1. N + 1 \in 1..Len(c) /\ (N + 1) - 1 = N
    BY <1>1, <1>2
  <2> QED BY <1>2, <1>3, <1>6, <2>1, EntryPosIs
<1>8. ByteAt(c, 1) = Version
  BY <1>1, <1>2 DEF Begins
<1>9. Complete(c, N + 1)
  <2>1. Len(e) \in Nat /\ Len(e) >= 1 /\ Len(b) \in Nat /\ N \in Nat /\ N <= Len(b) - 1
    BY <1>1
  <2>2. N + 1 \in 0..(Len(c) - 1) /\ Len(c) >= 1
    BY <1>2, <2>1
  <2> QED BY <1>2, <1>7, <1>8, <2>2 DEF Complete
<1>10. Decode(b) = UNION {Read(b, EntryPos(b)[k]) : k \in 0..(N - 1)}
  BY <1>1, <1>4, DecodeWhole
<1>11. Decode(c) = UNION {Read(c, EntryPos(c)[k]) : k \in 0..N}
  <2>1. N + 1 \in 0..Len(c) /\ (N + 1) - 1 = N
    BY <1>1, <1>2
  <2> QED BY <1>2, <1>7, <1>8, <2>1, DecodeWhole
<1>12. UNION {Read(c, EntryPos(c)[k]) : k \in 0..N}
         = (UNION {Read(c, EntryPos(c)[k]) : k \in 0..(N - 1)}) \cup Read(c, EntryPos(c)[N])
  <2>1. 0..N = 0..(N - 1) \cup {N}
    BY <1>1
  <2> QED BY <2>1, Zenon
<1>13. Decode(c) = Decode(b) \cup Read(c, Len(b) + 1)
  <2>1. {Read(c, EntryPos(c)[k]) : k \in 0..(N - 1)} = {Read(b, EntryPos(b)[k]) : k \in 0..(N - 1)}
    BY <1>5
  <2> QED BY <1>6, <1>10, <1>11, <1>12, <2>1
<1> QED BY <1>9, <1>13 DEF c

\* The parts of an entry.
LEMMA EntryParts ==
  ASSUME NEW name \in Int, NEW type \in Int, NEW data \in Seq(Int)
  PROVE  /\ Entry(name, type, data) \in Seq(Int) /\ Len(Entry(name, type, data)) = NameLen + 1 + Len(data)
         /\ \A c : \A p \in Int : Placed(c, p, Entry(name, type, data)) =>
              ByteAt(c, p) = name /\ ByteAt(c, p + NameLen) = type /\ Placed(c, p + NameLen + 1, data)
<1> DEFINE ns == [i \in 1..NameLen |-> name]
           rest == <<type>> \o data
<1>1. NameLen \in Nat \ {0} /\ Len(data) \in Nat
  BY PayloadAssumption, LenProperties
<1>2. ns \in Seq(Int) /\ Len(ns) = NameLen /\ ns[1] = name
  BY <1>1
<1>3. <<type>> \in Seq(Int) /\ Len(<<type>>) = 1 /\ <<type>>[1] = type
  OBVIOUS
<1>4. rest \in Seq(Int) /\ Len(rest) = 1 + Len(data)
  BY <1>1, <1>3, Follows
<1>5. Entry(name, type, data) = ns \o rest
  BY DEF Entry
<1> HIDE DEF ns, rest
<1>6. ns \o rest \in Seq(Int) /\ Len(ns \o rest) = NameLen + (1 + Len(data))
  BY <1>2, <1>4, Follows
<1>7. ASSUME NEW c, NEW p \in Int, Placed(c, p, ns \o rest)
      PROVE  ByteAt(c, p) = name /\ ByteAt(c, p + NameLen) = type /\ Placed(c, p + NameLen + 1, data)
  <2>1. Placed(c, p, ns) /\ Placed(c, p + Len(ns), rest)
    BY <1>2, <1>4, <1>7, PlacedBoth
  <2>6. p + Len(ns) = p + NameLen /\ p + NameLen \in Int
    BY <1>1, <1>2
  <2>2. Placed(c, p + NameLen, <<type>>) /\ Placed(c, p + NameLen + 1, data)
    BY <1>3, <2>1, <2>6, PlacedBoth DEF rest
  <2>3. 1 \in 1..Len(ns) /\ 1 \in 1..Len(<<type>>) /\ p + 1 - 1 = p /\ (p + NameLen) + 1 - 1 = p + NameLen
    BY <1>1, <1>2, <1>3
  <2>4. ByteAt(c, p) = name
    BY <1>2, <2>1, <2>3 DEF Placed
  <2>5. ByteAt(c, p + NameLen) = type
    BY <1>3, <2>2, <2>3 DEF Placed
  <2> QED BY <2>2, <2>4, <2>5
<1> QED BY <1>1, <1>5, <1>6, <1>7

\* Where a value ends.
LEMMA ValueEnds ==
  ASSUME NEW c, NEW q \in Int, NEW d, IsValue(d), Placed(c, q, d)
  PROVE  AfterValue(c, q) = q + Len(d) /\ Len(d) \in Nat /\ Len(d) >= 2
<1>1. SizeOf(d[1]) \in Nat \ {0} /\ Len(d) = 1 + SizeOf(d[1])
  BY TypeSizes DEF IsValue
<1>2. 1 \in 1..Len(d) /\ q + 1 - 1 = q
  BY <1>1
<1>3. ByteAt(c, q) = d[1]
  BY <1>2 DEF Placed
<1> QED BY <1>1, <1>3 DEF AfterValue

\* A single value is read, ...
LEMMA SingleRead ==
  ASSUME NEW c \in Seq(Int), NEW p \in Nat \ {0}, NEW name \in Int, NEW d, IsValue(d),
         Placed(c, p, Entry(name, Single, d)), Len(c) + 1 = p + Len(Entry(name, Single, d))
  PROVE  /\ After(c, p) = Len(c) + 1 /\ Placed(c, p + NameLen + 1, d)
         /\ Read(c, p) = {<<name, 1, Decode_value(c, p + NameLen + 1)>>}
<1>1. d \in Seq(Int) /\ Single \in Int /\ p \in Int
  BY DEF IsValue, Single
<1>2. /\ ByteAt(c, p) = name /\ ByteAt(c, p + NameLen) = Single /\ Placed(c, p + NameLen + 1, d)
      /\ Len(Entry(name, Single, d)) = NameLen + 1 + Len(d)
  BY <1>1, EntryParts
<1>3. NameLen \in Nat \ {0} /\ Len(c) \in Nat /\ DOMAIN c = 1..Len(c)
  BY PayloadAssumption, LenProperties
<1>4. AfterValue(c, p + NameLen + 1) = (p + NameLen + 1) + Len(d) /\ Len(d) \in Nat
  BY <1>2, <1>3, ValueEnds
<1>5. p \in DOMAIN c /\ AfterValue(c, p + NameLen + 1) = Len(c) + 1
  BY <1>2, <1>3, <1>4
<1>6. Many(c, p) = 1
  BY <1>2, <1>5 DEF Many, Single, Averaged
<1>7. Start(c, p)[1] = p + NameLen + 1 /\ Start(c, p)[1 + 1] = Len(c) + 1
  BY <1>5 DEF Start
<1>8. IsWhole(c, p, 1)
  BY <1>3, <1>5, <1>7 DEF IsWhole
<1>9. 1..1 = {1}
  OBVIOUS
<1>10. After(c, p) = Len(c) + 1
  BY <1>6, <1>7, <1>8, <1>9 DEF After
<1>11. {j \in 1..Many(c, p) : IsWhole(c, p, j)} = {1}
  BY <1>6, <1>8, <1>9
<1>12. Read(c, p) = {<<name, 1, Decode_value(c, p + NameLen + 1)>>}
  BY <1>2, <1>7, <1>11 DEF Read
<1> QED BY <1>2, <1>10, <1>12

\* ... and so are three.
LEMMA AveragedRead ==
  ASSUME NEW c \in Seq(Int), NEW p \in Nat \ {0}, NEW name \in Int, NEW d, NEW e, NEW f, IsValue(d), IsValue(e), IsValue(f),
         Placed(c, p, Entry(name, Averaged, d \o e \o f)), Len(c) + 1 = p + Len(Entry(name, Averaged, d \o e \o f))
  PROVE  LET one == p + NameLen + 1
             two == one + Len(d)
             three == two + Len(e)
         IN  /\ After(c, p) = Len(c) + 1 /\ {one, two, three} \subseteq Int
             /\ Placed(c, one, d) /\ Placed(c, two, e) /\ Placed(c, three, f)
             /\ Read(c, p) = {<<name, 1, Decode_value(c, one)>>, <<name, 2, Decode_value(c, two)>>,
                              <<name, 3, Decode_value(c, three)>>}
<1> DEFINE one == p + NameLen + 1
           two == one + Len(d)
           three == two + Len(e)
<1>1. d \in Seq(Int) /\ e \in Seq(Int) /\ f \in Seq(Int) /\ Averaged \in Int /\ p \in Int
  BY DEF IsValue, Averaged
<1>2. /\ d \o e \in Seq(Int) /\ Len(d \o e) = Len(d) + Len(e)
      /\ d \o e \o f \in Seq(Int) /\ Len(d \o e \o f) = (Len(d) + Len(e)) + Len(f)
      /\ Len(d) \in Nat /\ Len(e) \in Nat /\ Len(f) \in Nat
  BY <1>1, ConcatProperties, LenProperties
<1>3. /\ ByteAt(c, p) = name /\ ByteAt(c, p + NameLen) = Averaged /\ Placed(c, one, d \o e \o f)
      /\ Len(Entry(name, Averaged, d \o e \o f)) = NameLen + 1 + Len(d \o e \o f)
  <2> DEFINE all == d \o e \o f
  <2>1. all \in Seq(Int) /\ Placed(c, p, Entry(name, Averaged, all))
    BY <1>2
  <2> HIDE DEF all
  <2>2. /\ ByteAt(c, p) = name /\ ByteAt(c, p + NameLen) = Averaged /\ Placed(c, one, all)
        /\ Len(Entry(name, Averaged, all)) = NameLen + 1 + Len(all)
    BY <1>1, <2>1, EntryParts
  <2> QED BY <2>2 DEF all
<1>4. NameLen \in Nat \ {0} /\ Len(c) \in Nat /\ DOMAIN c = 1..Len(c)
  BY PayloadAssumption, LenProperties
<1>5. one \in Int /\ two \in Int /\ three \in Int /\ one + (Len(d) + Len(e)) = three
  BY <1>2, <1>4
<1>6. three + Len(f) = Len(c) + 1
  BY <1>2, <1>3, <1>4
<1> HIDE DEF one, two, three
<1>7. Placed(c, one, d \o e) /\ Placed(c, one + Len(d \o e), f)
  BY <1>1, <1>2, <1>3, <1>5, PlacedBoth
<1>8. Placed(c, one, d) /\ Placed(c, two, e) /\ Placed(c, three, f)
  BY <1>1, <1>2, <1>5, <1>7, PlacedBoth DEF two
<1>9. AfterValue(c, one) = two /\ AfterValue(c, two) = three /\ AfterValue(c, three) = Len(c) + 1
  BY <1>5, <1>6, <1>8, ValueEnds DEF two, three
<1>10. /\ Start(c, p)[1] = one /\ Start(c, p)[2] = two /\ Start(c, p)[3] = three /\ Start(c, p)[3 + 1] = Len(c) + 1
  BY <1>9 DEF Start, one
<1>11. p \in DOMAIN c /\ two <= Len(c) + 1 /\ three <= Len(c) + 1
  BY <1>2, <1>4, <1>5, <1>6 DEF one, two, three
<1>12. Many(c, p) = 3
  BY <1>3, <1>11 DEF Many, Single, Averaged
<1>13. \A i \in {1, 2, 3} : IsWhole(c, p, i)
  BY <1>4, <1>9, <1>10, <1>11 DEF IsWhole
<1>14. 1..3 = {1, 2, 3}
  OBVIOUS
<1>15. After(c, p) = Len(c) + 1
  BY <1>10, <1>12, <1>13, <1>14 DEF After
<1>16. {j \in 1..Many(c, p) : IsWhole(c, p, j)} = {1, 2, 3}
  BY <1>12, <1>13, <1>14
<1>17. Read(c, p) = {<<name, i, Decode_value(c, Start(c, p)[i])>> : i \in {1, 2, 3}}
  BY <1>3, <1>16 DEF Read
<1>18. Read(c, p) = {<<name, 1, Decode_value(c, one)>>, <<name, 2, Decode_value(c, two)>>, <<name, 3, Decode_value(c, three)>>}
  BY <1>10, <1>17
<1> QED BY <1>5, <1>8, <1>15, <1>18 DEF one, two, three
-----------------------------------------------------------------------------
\* A value of each kind, as it is sent.
DataOf(kind, v) == CASE kind = "i64" -> DataI64(v) [] kind = "float" -> DataFloat(v) [] kind = "str" -> DataStr
Kinds == {"i64", "float", "str"}

\* Each kind of value is read as what it was sent as.
LEMMA DataOfDecodes ==
  ASSUME NEW kind \in Kinds, NEW v \in Int
  PROVE  /\ IsValue(DataOf(kind, v))
         /\ \A c : \A p \in Int : Placed(c, p, DataOf(kind, v)) =>
              /\ kind = "str" => Decode_value(c, p) = Text
              /\ kind # "str" /\ Decodable(v) => Decode_value(c, p) = v
<1>1. CASE kind = "i64"
  <2>1. DataOf(kind, v) = DataI64(v) /\ kind # "str"
    BY <1>1 DEF DataOf
  <2> QED BY <2>1, I64IsValue, I64Decodes
<1>2. CASE kind = "float"
  <2>1. DataOf(kind, v) = DataFloat(v) /\ kind # "str"
    BY <1>2 DEF DataOf
  <2> QED BY <2>1, FloatIsValue, FloatDecodes
<1>3. CASE kind = "str"
  <2>1. DataOf(kind, v) = DataStr
    BY <1>3 DEF DataOf
  <2> QED BY <1>3, <2>1, StrIsValue, StrDecodes
<1> QED BY <1>1, <1>2, <1>3 DEF Kinds

\* A measurement that can be read.
Measured(m) == /\ m.kind \in Kinds /\ m.single \in BOOLEAN /\ m.n \in Nat \ {0}
               /\ m.sum \in Int /\ m.min \in Int /\ m.max \in Int
               /\ m.kind = "str" => m.single

\* A mean is an integer.
LEMMA QuotInt == ASSUME NEW a \in Int, NEW b \in Nat \ {0} PROVE Quot(a, b) \in Int
<1>1. b \in Int /\ b > 0 /\ -a \in Int
  OBVIOUS
<1>2. a \div b \in Int /\ (-a) \div b \in Int
  BY <1>1
<1> QED BY <1>2 DEF Quot

\* The bytes of a measurement are those of its one or three values.
LEMMA DataIs ==
  ASSUME NEW m, Measured(m)
  PROVE  /\ m.single => Sent(m) = <<m.sum>> /\ Data(m) = DataOf(m.kind, m.sum)
         /\ ~m.single => LET v == Quot(m.sum, m.n)
                         IN /\ v \in Int /\ Sent(m) = <<v, m.min, m.max>>
                            /\ Data(m) = DataOf(m.kind, v) \o DataOf(m.kind, m.min) \o DataOf(m.kind, m.max)
<1>1. CASE m.single
  <2>1. Sent(m) = <<m.sum>> /\ DOMAIN Sent(m) = {1} /\ Sent(m)[1] = m.sum
    <3>1. Sent(m) = <<m.sum>>
      BY <1>1 DEF Sent
    <3> QED BY <3>1
  <2>2. CASE m.kind = "i64"
    <3> DEFINE s == [i \in DOMAIN Sent(m) |-> DataI64(Sent(m)[i])]
    <3>1. s = <<DataI64(m.sum)>>
      BY <2>1
    <3>2. Data(m) = Flatten(s)
      BY <2>2 DEF Data
    <3> HIDE DEF s
    <3>3. Flatten(s) = DataI64(m.sum)
      BY <3>1 DEF Flatten
    <3> QED BY <1>1, <2>1, <2>2, <3>2, <3>3 DEF DataOf
  <2>3. CASE m.kind = "float"
    <3> DEFINE s == [i \in DOMAIN Sent(m) |-> DataFloat(Sent(m)[i])]
    <3>1. s = <<DataFloat(m.sum)>>
      BY <2>1
    <3>2. Data(m) = Flatten(s)
      BY <2>3 DEF Data
    <3> HIDE DEF s
    <3>3. Flatten(s) = DataFloat(m.sum)
      BY <3>1 DEF Flatten
    <3> QED BY <1>1, <2>1, <2>3, <3>2, <3>3 DEF DataOf
  <2>4. CASE m.kind = "str"
    BY <1>1, <2>1, <2>4 DEF Data, DataOf
  <2> QED BY <2>2, <2>3, <2>4 DEF Measured, Kinds
<1>2. CASE ~m.single
  <2> DEFINE v == Quot(m.sum, m.n)
  <2>1. v \in Int
    BY QuotInt DEF Measured
  <2>2. Sent(m) = <<v, m.min, m.max>>
    BY <1>2 DEF Sent
  <2> HIDE DEF v
  <2>3. /\ DOMAIN Sent(m) = 1..3
        /\ Sent(m)[1] = v /\ Sent(m)[2] = m.min /\ Sent(m)[3] = m.max
    BY <2>2
  <2>4. CASE m.kind = "i64"
    <3> DEFINE s == [i \in DOMAIN Sent(m) |-> DataI64(Sent(m)[i])]
    <3>1. s[1] = DataI64(v) /\ s[2] = DataI64(m.min) /\ s[3] = DataI64(m.max) /\ Len(s) = 3
      BY <2>3
    <3>2. Data(m) = Flatten(s)
      BY <2>4 DEF Data
    <3> HIDE DEF s
    <3>3. Flatten(s) = DataI64(v) \o DataI64(m.min) \o DataI64(m.max)
      BY <3>1 DEF Flatten
    <3> QED BY <1>2, <2>1, <2>2, <2>4, <3>2, <3>3 DEF DataOf, v
  <2>5. CASE m.kind = "float"
    <3> DEFINE s == [i \in DOMAIN Sent(m) |-> DataFloat(Sent(m)[i])]
    <3>1. s[1] = DataFloat(v) /\ s[2] = DataFloat(m.min) /\ s[3] = DataFloat(m.max) /\ Len(s) = 3
      BY <2>3
    <3>2. Data(m) = Flatten(s)
      BY <2>5 DEF Data
    <3> HIDE DEF s
    <3>3. Flatten(s) = DataFloat(v) \o DataFloat(m.min) \o DataFloat(m.max)
      BY <3>1 DEF Flatten
    <3> QED BY <1>2, <2>1, <2>2, <2>5, <3>2, <3>3 DEF DataOf, v
  <2> QED BY <1>2, <2>4, <2>5 DEF Measured, Kinds
<1> QED BY <1>1, <1>2

\* What an entry says is what is read of it.
Says(R, name, m) ==
  /\ {t[1] : t \in R} = {name}
  /\ m.single => \A t, u \in R : t = u
  /\ m.kind = "str" => <<name, 1, Text>> \in R
  /\ m.kind # "str" => \A i \in DOMAIN Sent(m) : Decodable(Sent(m)[i]) => <<name, i, Sent(m)[i]>> \in R

\* One more entry adds to what is read what it says, and nothing else.
LEMMA EntryRead ==
  ASSUME NEW b, NEW N, Complete(b, N), NEW name \in Int, NEW m, Measured(m)
  PROVE  LET c == b \o EntryOf(name, m)
         IN /\ Complete(c, N + 1)
            /\ \E R : Decode(c) = Decode(b) \cup R /\ Says(R, name, m)
<1> DEFINE e == EntryOf(name, m)
           c == b \o e
           p == Len(b) + 1
<1>1. b \in Seq(Int) /\ p \in Nat \ {0} /\ p \in Int /\ Len(b) \in Nat
  BY LenProperties DEF Complete
<1>2. m.kind \in Kinds /\ m.sum \in Int /\ m.min \in Int /\ m.max \in Int /\ m.single \in BOOLEAN
  BY DEF Measured
<1>3. NameLen \in Nat \ {0}
  BY PayloadAssumption
<1>4. CASE m.single
  <2> DEFINE d == DataOf(m.kind, m.sum)
             q == p + NameLen + 1
  <2>1. e = Entry(name, Single, d) /\ Sent(m) = <<m.sum>>
    BY <1>4, DataIs DEF EntryOf
  <2>2. IsValue(d) /\ q \in Int
    BY <1>1, <1>2, <1>3, DataOfDecodes
  <2>3. d \in Seq(Int) /\ Single \in Int
    BY <2>2 DEF IsValue, Single
  <2> HIDE DEF d
  <2>4. e \in Seq(Int) /\ Len(e) = NameLen + 1 + Len(d) /\ Len(d) \in Nat
    BY <2>1, <2>3, EntryParts, LenProperties
  <2> HIDE DEF e
  <2>5. c \in Seq(Int) /\ Len(c) = Len(b) + Len(e) /\ Placed(c, p, e)
    BY <1>1, <2>4, Follows
  <2>6. Len(e) \in Nat /\ Len(e) >= 1
    BY <1>3, <2>4
  <2>7. Len(c) + 1 = p + Len(e)
    BY <1>1, <2>5, <2>6
  <2> HIDE DEF c, p
  <2>8. After(c, p) = Len(c) + 1 /\ Placed(c, q, d) /\ Read(c, p) = {<<name, 1, Decode_value(c, q)>>}
    BY <1>1, <2>1, <2>2, <2>5, <2>7, SingleRead
  <2>9. Complete(c, N + 1) /\ Decode(c) = Decode(b) \cup Read(c, p)
    BY <2>4, <2>6, <2>8, OneMore DEF c, p
  <2>10. Says(Read(c, p), name, m)
    <3>1. /\ m.kind = "str" => Decode_value(c, q) = Text
          /\ m.kind # "str" /\ Decodable(m.sum) => Decode_value(c, q) = m.sum
      BY <1>2, <2>2, <2>8, DataOfDecodes DEF d
    <3>2. {t[1] : t \in Read(c, p)} = {name}
      <4> HIDE DEF q
      <4> QED BY <2>8
    <3>3. DOMAIN Sent(m) = {1} /\ Sent(m)[1] = m.sum
      BY <2>1
    <3> HIDE DEF q
    <3>4. \A t, u \in Read(c, p) : t = u
      BY <2>8
    <3> QED BY <2>8, <3>1, <3>2, <3>3, <3>4 DEF Says
  <2> QED BY <2>9, <2>10 DEF c, e
<1>5. CASE ~m.single
  <2> DEFINE v == Quot(m.sum, m.n)
             d == DataOf(m.kind, v)
             x == DataOf(m.kind, m.min)
             y == DataOf(m.kind, m.max)
             all == d \o x \o y
             one == p + NameLen + 1
             two == one + Len(d)
             three == two + Len(x)
  <2>1. v \in Int /\ e = Entry(name, Averaged, all) /\ Sent(m) = <<v, m.min, m.max>> /\ m.kind # "str"
    BY <1>5, DataIs DEF EntryOf, Measured
  <2> HIDE DEF v
  <2>2. IsValue(d) /\ IsValue(x) /\ IsValue(y)
    BY <1>2, <2>1, DataOfDecodes
  <2> HIDE DEF d, x, y
  <2>3. d \in Seq(Int) /\ x \in Seq(Int) /\ y \in Seq(Int) /\ Averaged \in Int
    BY <2>2 DEF IsValue, Averaged
  <2>4. all \in Seq(Int)
    BY <2>3, Follows
  <2>5. e \in Seq(Int) /\ Len(e) = NameLen + 1 + Len(all) /\ Len(all) \in Nat
    <3> HIDE DEF all
    <3> QED BY <2>1, <2>3, <2>4, EntryParts, LenProperties
  <2> HIDE DEF e
  <2>6. c \in Seq(Int) /\ Len(c) = Len(b) + Len(e) /\ Placed(c, p, e)
    BY <1>1, <2>5, Follows
  <2>7. Len(e) \in Nat /\ Len(e) >= 1
    BY <1>3, <2>5
  <2>8. Len(c) + 1 = p + Len(e)
    BY <1>1, <2>6, <2>7
  <2> HIDE DEF c, p
  <2>9. /\ After(c, p) = Len(c) + 1 /\ {one, two, three} \subseteq Int
        /\ Placed(c, one, d) /\ Placed(c, two, x) /\ Placed(c, three, y)
        /\ Read(c, p) = {<<name, 1, Decode_value(c, one)>>, <<name, 2, Decode_value(c, two)>>,
                         <<name, 3, Decode_value(c, three)>>}
    BY <1>1, <2>1, <2>2, <2>6, <2>8, AveragedRead
  <2>10. Complete(c, N + 1) /\ Decode(c) = Decode(b) \cup Read(c, p)
    BY <2>5, <2>7, <2>9, OneMore DEF c, p
  <2> HIDE DEF one, two, three
  <2>11. Says(Read(c, p), name, m)
    <3>1. /\ Decodable(v) => Decode_value(c, one) = v
          /\ Decodable(m.min) => Decode_value(c, two) = m.min
          /\ Decodable(m.max) => Decode_value(c, three) = m.max
      BY <1>2, <2>1, <2>9, DataOfDecodes DEF d, x, y
    <3>2. {t[1] : t \in Read(c, p)} = {name}
      BY <2>9
    <3>3. DOMAIN Sent(m) = {1, 2, 3} /\ Sent(m)[1] = v /\ Sent(m)[2] = m.min /\ Sent(m)[3] = m.max
      BY <2>1
    <3>4. ASSUME NEW i \in DOMAIN Sent(m), Decodable(Sent(m)[i]) PROVE <<name, i, Sent(m)[i]>> \in Read(c, p)
      BY <2>9, <3>1, <3>3, <3>4
    <3> QED BY <1>5, <2>1, <3>2, <3>4 DEF Says
  <2> QED BY <2>10, <2>11 DEF c, e
<1> QED BY <1>2, <1>4, <1>5
-----------------------------------------------------------------------------
\* What is appended is bytes.
LEMMA DataSeq ==
  ASSUME NEW m, m.kind \in Kinds, m.single \in BOOLEAN, m.n \in Nat \ {0},
         m.sum \in Int, m.min \in Int, m.max \in Int
  PROVE  Data(m) \in Seq(Int)
<1>1. \A v \in Int : DataOf(m.kind, v) \in Seq(Int)
  BY DataOfDecodes DEF IsValue
<1>2. CASE m.kind = "str" /\ ~m.single
  <2>1. Data(m) = DataStr
    BY <1>2 DEF Data
  <2> QED BY <2>1, StrIsValue DEF IsValue
<1>3. CASE Measured(m) /\ m.single
  BY <1>1, <1>3, DataIs
<1>4. CASE Measured(m) /\ ~m.single
  <2>1. PICK v \in Int : Data(m) = DataOf(m.kind, v) \o DataOf(m.kind, m.min) \o DataOf(m.kind, m.max)
    BY <1>4, DataIs
  <2>2. DataOf(m.kind, v) \o DataOf(m.kind, m.min) \in Seq(Int) /\ DataOf(m.kind, m.max) \in Seq(Int)
    BY <1>1, Follows
  <2> QED BY <2>1, <2>2, Follows
<1> QED BY <1>2, <1>3, <1>4 DEF Measured

\* What is read of a payload is what was appended, ...
IsTold(read) ==
  /\ {t[1] : t \in read} = {e.name : e \in entries}
  /\ \A e \in entries : Survives(e) => ValuesOf(e) \subseteq read
ReadBack == \E N \in Nat : Complete(ctx, N) /\ IsTold(Decode(ctx))

\* ... if it is made of whole entries.
PayloadInv ==
  /\ ctx \in Seq(Int) /\ Len(ctx) \in 1..PayloadLen /\ ctx[1] = Version
  /\ {e.name : e \in entries} \subseteq Name
  /\ (\A e \in entries : Readable(e)) => ReadBack
  /\ err \in -1..(Limit(1) - 1)
  /\ err # -1 => Decode(err_ctx) = {<<ErrName, 1, err>>}

\* Nothing is read of a payload that has but begun.
LEMMA EmptyRead == Complete(<<Version>>, 0) /\ Decode(<<Version>>) = {}
<1> DEFINE b == <<Version>>
<1>1. b \in Seq(Int) /\ Len(b) = 1 /\ ByteAt(b, 1) = Version
  BY DEF Version, ByteAt
<1> HIDE DEF b
<1>2. EntryPos(b)[0] = Len(b) + 1 /\ 0 \in 0..Len(b)
  <2>1. EntryPos(b)[0] = 2
    BY <1>1, EntryPosIs
  <2> QED BY <1>1, <2>1
<1>3. 0..(0 - 1) = {}
  OBVIOUS
<1>4. Decode(b) = UNION {Read(b, EntryPos(b)[k]) : k \in 0..(0 - 1)}
  BY <1>1, <1>2, DecodeWhole
<1>5. Decode(b) = {}
  BY <1>3, <1>4
<1> QED BY <1>1, <1>2, <1>5 DEF Complete, b

\* A payload that has just begun is read as empty, ...
LEMMA PayloadInit == PInit => PayloadInv
<1> SUFFICES ASSUME PInit PROVE PayloadInv
  OBVIOUS
<1>1. ctx = <<Version>> /\ entries = {} /\ err = -1
  BY DEF PInit
<1>2. ctx \in Seq(Int) /\ Len(ctx) \in 1..PayloadLen /\ ctx[1] = Version
  BY <1>1, PayloadAssumption DEF Version
<1>3. Complete(ctx, 0) /\ IsTold(Decode(ctx))
  BY <1>1, EmptyRead DEF IsTold
<1>4. err \in -1..(Limit(1) - 1)
  BY <1>1, Radixes
<1> QED BY <1>1, <1>2, <1>3, <1>4 DEF PayloadInv, ReadBack

\* ... also when it begins again.
LEMMA PayloadBegun == PayloadInv /\ ProtocolInit => PayloadInv'
<1> SUFFICES ASSUME PayloadInv, ProtocolInit PROVE PayloadInv'
  OBVIOUS
<1>1. ctx' = <<Version>> /\ entries' = {} /\ err' = err /\ err_ctx' = err_ctx
  BY DEF ProtocolInit
<1>2. ctx' \in Seq(Int) /\ Len(ctx') \in 1..PayloadLen /\ ctx'[1] = Version
  BY <1>1, PayloadAssumption DEF Version
<1>3. Complete(ctx', 0) /\ IsTold(Decode(ctx))'
  BY <1>1, EmptyRead DEF IsTold
<1> QED BY <1>1, <1>2, <1>3 DEF PayloadInv, ReadBack

\* An entry that is sent as it is told of leaves the payload readable.
LEMMA Appends ==
  ASSUME PayloadInv, NEW name \in Name, NEW m, NEW e, AppendMeasurement(name, m, e),
         e.name = name, m.kind = e.kind, m.single = e.single, m.single \in BOOLEAN, m.kind \in Kinds,
         m.n \in Nat \ {0}, m.sum \in Int, m.min \in Int, m.max \in Int,
         Survives(e) => e.kind = "str" \/ Sent(m) = e.values
  PROVE  PayloadInv'
<1> DEFINE c == ctx \o EntryOf(name, m)
<1>1. /\ ctx \in Seq(Int) /\ Len(ctx) \in 1..PayloadLen /\ ctx[1] = Version
      /\ {x.name : x \in entries} \subseteq Name
      /\ err \in -1..(Limit(1) - 1) /\ (err # -1 => Decode(err_ctx) = {<<ErrName, 1, err>>})
      /\ (\A x \in entries : Readable(x)) => ReadBack
  BY DEF PayloadInv
<1>2. err' = err /\ err_ctx' = err_ctx
  BY DEF AppendMeasurement
<1>3. CASE ~(Len(c) <= PayloadLen)
  <2>1. ctx' = ctx /\ entries' = entries
    BY <1>3 DEF AppendMeasurement
  <2> QED BY <1>1, <1>2, <2>1 DEF PayloadInv, ReadBack, IsTold
<1>4. CASE Len(c) <= PayloadLen
  <2>1. ctx' = c /\ entries' = entries \cup {e}
    BY <1>4 DEF AppendMeasurement
  <2>2. name \in Int
    BY PayloadAssumption
  <2>3. Data(m) \in Seq(Int)
    BY DataSeq
  <2>4. EntryOf(name, m) \in Seq(Int)
    <3>1. (IF m.single THEN Single ELSE Averaged) \in Int
      BY DEF Single, Averaged
    <3> QED BY <2>2, <2>3, <3>1, EntryParts DEF EntryOf
  <2>5. c \in Seq(Int) /\ Len(c) \in 1..PayloadLen /\ c[1] = Version
    <3>1. c \in Seq(Int) /\ Len(c) = Len(ctx) + Len(EntryOf(name, m)) /\ Begins(ctx, c)
      BY <1>1, <2>4, Follows
    <3>2. Len(ctx) \in Nat /\ Len(EntryOf(name, m)) \in Nat /\ Len(ctx) >= 1 /\ PayloadLen \in Nat
      BY <1>1, <2>4, LenProperties, PayloadAssumption
    <3>3. Len(c) \in 1..PayloadLen
      BY <1>4, <3>1, <3>2
    <3>4. ByteAt(c, 1) = c[1] /\ ByteAt(ctx, 1) = ctx[1]
      <4>1. 1 \in DOMAIN c /\ 1 \in DOMAIN ctx
        BY <1>1, <3>1, <3>2, <3>3
      <4> QED BY <4>1 DEF ByteAt
    <3>5. ByteAt(c, 1) = ByteAt(ctx, 1)
      BY <3>1, <3>2 DEF Begins
    <3> QED BY <1>1, <3>1, <3>3, <3>4, <3>5
  <2>6. {x.name : x \in entries'} = {x.name : x \in entries} \cup {name}
    BY <2>1
  <2>7. ASSUME \A x \in entries' : Readable(x) PROVE ReadBack'
    <3>1. (\A x \in entries : Readable(x)) /\ Readable(e)
      BY <2>1, <2>7
    <3>2. PICK N \in Nat : Complete(ctx, N) /\ IsTold(Decode(ctx))
      BY <1>1, <3>1 DEF ReadBack
    <3>3. Measured(m)
      BY <3>1 DEF Measured, Readable
    <3>4. Complete(c, N + 1) /\ \E R : Decode(c) = Decode(ctx) \cup R /\ Says(R, name, m)
      BY <2>2, <3>2, <3>3, EntryRead
    <3>5. PICK R : Decode(c) = Decode(ctx) \cup R /\ Says(R, name, m)
      BY <3>4
    <3> HIDE DEF c
    <3>6. {t[1] : t \in Decode(c)} = {x.name : x \in entries'}
      <4>1. {t[1] : t \in Decode(c)} = {t[1] : t \in Decode(ctx)} \cup {t[1] : t \in R}
        BY <3>5
      <4> QED BY <2>6, <3>2, <3>5, <4>1 DEF IsTold, Says
    <3>7. ASSUME NEW x \in entries', Survives(x) PROVE ValuesOf(x) \subseteq Decode(c)
      <4>1. CASE x \in entries
        <5>1. ValuesOf(x) \subseteq Decode(ctx)
          BY <3>2, <3>7, <4>1 DEF IsTold
        <5> QED BY <3>5, <5>1
      <4>2. CASE x = e
        <5>1. ASSUME e.kind = "str" PROVE ValuesOf(e) \subseteq R
          BY <3>5, <5>1 DEF ValuesOf, Says
        <5>2. ASSUME e.kind # "str" PROVE ValuesOf(e) \subseteq R
          <6>1. /\ Sent(m) = e.values
                /\ \A i \in DOMAIN e.values : Decodable(e.values[i])
            BY <3>7, <4>2, <5>2 DEF Survives
          <6>2. ValuesOf(e) = {<<name, i, e.values[i]>> : i \in DOMAIN e.values}
            BY <5>2 DEF ValuesOf
          <6>3. \A i \in DOMAIN e.values : <<name, i, e.values[i]>> \in R
            BY <3>5, <5>2, <6>1 DEF Says
          <6> QED BY <6>2, <6>3
        <5> QED BY <3>5, <4>2, <5>1, <5>2
      <4> QED BY <2>1, <4>1, <4>2
    <3>8. IsTold(Decode(ctx))'
      BY <2>1, <3>6, <3>7 DEF IsTold
    <3>9. N + 1 \in Nat /\ Complete(ctx', N + 1)
      BY <2>1, <3>4
    <3> QED BY <3>8, <3>9 DEF ReadBack
  <2> QED BY <1>1, <1>2, <2>1, <2>5, <2>6, <2>7 DEF PayloadInv
<1> QED BY <1>3, <1>4

\* One measurement each.
LEMMA PayloadSingle == PayloadInv /\ AppendSingle => PayloadInv'
<1> SUFFICES ASSUME PayloadInv, AppendSingle PROVE PayloadInv'
  OBVIOUS
<1>1. PICK name \in Fresh, kind \in Kinds, v \in Value :
        LET m == [kind |-> kind, single |-> TRUE, sum |-> v, n |-> 1, min |-> v, max |-> v]
        IN AppendMeasurement(name, m, Told(name, m))
  BY DEF AppendSingle, Kinds
<1> DEFINE m == [kind |-> kind, single |-> TRUE, sum |-> v, n |-> 1, min |-> v, max |-> v]
           e == Told(name, m)
<1>2. /\ e.name = name /\ m.kind = e.kind /\ m.single = e.single /\ m.single \in BOOLEAN /\ m.kind \in Kinds
      /\ m.n = 1 /\ m.sum = v /\ m.min = v /\ m.max = v /\ Sent(m) = e.values
  BY DEF Told
<1>3. v \in Int /\ name \in Name /\ 1 \in Nat \ {0}
  BY PayloadAssumption DEF Fresh
<1>4. AppendMeasurement(name, m, e)
  BY <1>1
<1> HIDE DEF m, e
<1> QED BY <1>2, <1>3, <1>4, Appends

\* Averaged ones add their three values, ...
LEMMA PayloadAveraged == PayloadInv /\ AppendAveraged => PayloadInv'
<1> SUFFICES ASSUME PayloadInv, AppendAveraged PROVE PayloadInv'
  OBVIOUS
<1>1. PICK name \in Fresh, kind \in Kinds, v \in Sample, u \in Sample :
        LET m == [kind |-> kind, single |-> FALSE, sum |-> v + u, n |-> 2,
                  min |-> IF v < u THEN v ELSE u, max |-> IF v < u THEN u ELSE v]
        IN AppendMeasurement(name, m, Told(name, m))
  BY DEF AppendAveraged, Kinds
<1> DEFINE m == [kind |-> kind, single |-> FALSE, sum |-> v + u, n |-> 2,
                 min |-> IF v < u THEN v ELSE u, max |-> IF v < u THEN u ELSE v]
           e == Told(name, m)
<1>2. v \in Int /\ u \in Int /\ name \in Name /\ 2 \in Nat \ {0}
  BY PayloadAssumption DEF Fresh
<1>3. /\ e.name = name /\ m.kind = e.kind /\ m.single = e.single /\ m.single \in BOOLEAN /\ m.kind \in Kinds
      /\ m.n = 2 /\ m.sum \in Int /\ m.min \in Int /\ m.max \in Int /\ Sent(m) = e.values
  BY <1>2 DEF Told
<1>4. AppendMeasurement(name, m, e)
  BY <1>1
<1> HIDE DEF m, e
<1> QED BY <1>2, <1>3, <1>4, Appends

\* ... and instant ones what is left of theirs.
LEMMA PayloadInstant == PayloadInv /\ AppendInstant => PayloadInv'
<1> SUFFICES ASSUME PayloadInv, AppendInstant PROVE PayloadInv'
  OBVIOUS
<1> DEFINE enum == Limit(EnumBytes)
<1>1. PICK name \in Fresh, single \in BOOLEAN, v \in Value :
        AppendMeasurement(name,
          [kind |-> "i64", single |-> single, sum |-> v % Limit(EnumBytes), n |-> 1, min |-> 0, max |-> 0],
          [name |-> name, kind |-> "i64", single |-> single, instant |-> TRUE, values |-> <<v>>])
  BY DEF AppendInstant
<1> DEFINE m == [kind |-> "i64", single |-> single, sum |-> v % enum, n |-> 1, min |-> 0, max |-> 0]
           e == [name |-> name, kind |-> "i64", single |-> single, instant |-> TRUE, values |-> <<v>>]
<1>2. v \in Int /\ name \in Name /\ 1 \in Nat \ {0} /\ 0 \in Int
  BY PayloadAssumption DEF Fresh
<1>3. enum \in Nat \ {0}
  BY PayloadAssumption, Radixes
<1> HIDE DEF enum
<1>4. v % enum \in Int
  BY <1>2, <1>3, Divides
<1>5. /\ e.name = name /\ m.kind = e.kind /\ m.single = e.single /\ m.single \in BOOLEAN /\ m.kind \in Kinds
      /\ m.n = 1 /\ m.sum = v % enum /\ m.min = 0 /\ m.max = 0
      /\ e.instant /\ e.values = <<v>>
  BY DEF Kinds
<1>6. AppendMeasurement(name, m, e)
  BY <1>1 DEF enum
<1>7. ASSUME Survives(e) PROVE Sent(m) = e.values
  <2>1. e.single /\ v \in 0..(enum - 1)
    BY <1>5, <1>7 DEF Survives, enum
  <2>2. v % enum = v
    BY <1>3, <2>1, OwnBits
  <2> HIDE DEF m, e
  <2> QED BY <1>5, <2>1, <2>2 DEF Sent
<1> HIDE DEF m, e
<1> QED BY <1>2, <1>4, <1>5, <1>6, <1>7, Appends

\* An error code can be read in any payload it is sent in.
LEMMA PayloadError == PayloadInv /\ SendErrorCode => PayloadInv'
<1> SUFFICES ASSUME PayloadInv, SendErrorCode PROVE PayloadInv'
  OBVIOUS
<1>1. PICK code \in 0..(Limit(1) - 1) : err_ctx' = ErrEntry(code) /\ err' = code
  BY DEF SendErrorCode
<1>2. ctx' = ctx /\ entries' = entries
  BY DEF SendErrorCode
<1> DEFINE m == [kind |-> "i64", single |-> TRUE, sum |-> code, n |-> 1, min |-> code, max |-> code]
           c == <<Version>> \o EntryOf(ErrName, m)
<1>3. code \in Int /\ ErrName \in Int /\ code >= 0 /\ Radix \in Nat /\ code < Radix
  BY Radixes DEF ErrName
<1>4. Measured(m) /\ m.single /\ m.kind = "i64" /\ m.sum = code
  BY <1>3 DEF Measured, Kinds
<1> HIDE DEF m
<1>5. ErrEntry(code) = c
  <2>1. Data(m) = DataI64(code)
    BY <1>4, DataIs DEF DataOf
  <2> QED BY <1>4, <2>1 DEF ErrEntry, EntryOf
<1>6. Sent(m) = <<code>>
  BY <1>4, DataIs
<1>7. Decodable(code)
  <2>1. PICK h, h4 \in Nat \ {0} : Limit(1) \div 2 = h /\ Limit(4) \div 2 = h4 /\ Radix <= h4
    BY Radixes
  <2>2. code \in -h4..(h4 - 1) /\ code # -h
    BY <1>3, <2>1
  <2> QED BY <2>1, <2>2 DEF Decodable
<1>8. PICK R : Decode(c) = Decode(<<Version>>) \cup R /\ Says(R, ErrName, m)
  BY <1>3, <1>4, EmptyRead, EntryRead
<1>9. <<ErrName, 1, code>> \in R
  <2>1. DOMAIN Sent(m) = {1} /\ Sent(m)[1] = code
    BY <1>6
  <2>2. m.kind # "str"
    BY <1>4
  <2> QED BY <1>7, <1>8, <2>1, <2>2 DEF Says
<1>10. R = {<<ErrName, 1, code>>}
  BY <1>4, <1>8, <1>9 DEF Says
<1>11. Decode(err_ctx') = {<<ErrName, 1, err'>>}
  BY <1>1, <1>5, <1>8, <1>10, EmptyRead
<1>12. err' \in -1..(Limit(1) - 1)
  BY <1>1, Radixes
<1>13. (\A e \in entries' : Readable(e)) => ReadBack'
  BY <1>2 DEF PayloadInv, ReadBack, IsTold
<1> QED BY <1>2, <1>11, <1>12, <1>13 DEF PayloadInv

\* What is read changes only with the payload.
LEMMA PayloadStutter == PayloadInv /\ UNCHANGED payloadVars => PayloadInv'
BY DEF PayloadInv, ReadBack, IsTold, payloadVars

LEMMA PayloadStep == ASSUME PayloadInv, [PNext]_payloadVars PROVE PayloadInv'
BY PayloadBegun, PayloadSingle, PayloadAveraged, PayloadInstant, PayloadError, PayloadStutter DEF PNext

LEMMA PayloadTypesAre == PayloadInv => PayloadTypeOK
BY PayloadAssumption DEF PayloadInv, PayloadTypeOK

\* The server reads from a payload the measurements appended to it and no
\* others, each with its values, and from that of an error code the code.
THEOREM PayloadIsRead == PSpec => [](PayloadTypeOK /\ PayloadDecodes)
<1>1. PayloadInv /\ [PNext]_payloadVars => PayloadInv'
  BY PayloadStep
<1>2. PayloadInv => PayloadTypeOK /\ PayloadDecodes
  <2>1. PayloadInv => PayloadDecodes
    BY DEF PayloadInv, PayloadDecodes, ReadBack, IsTold
  <2> QED BY <2>1, PayloadTypesAre
<1> QED BY PayloadInit, <1>1, <1>2, PTL DEF PSpec
-----------------------------------------------------------------------------
(* What the variables of all parts hold.                                   *)

\* How long the timer sleeps at most is what it was asked for.
LEMMA PrescaleIs == \A t \in 0..SLEEP_MAX : Fitting(t) # {} /\ Prescale(t) \in Prescaler
<1> TAKE t \in 0..SLEEP_MAX
<1>1. 128 \in Fitting(t)
  BY DEF Fitting, Prescaler, LSI_KHZ, UINT16_MAX, SLEEP_MAX
<1>2. \E d \in Fitting(t) : \A e \in Fitting(t) : d <= e
  <2>1. Fitting(t) \subseteq {1, 2, 4, 8, 16, 32, 64, 128}
    BY DEF Fitting, Prescaler
  <2> QED BY <1>1, <2>1
<1>3. Prescale(t) \in Fitting(t)
  BY <1>1, <1>2 DEF Prescale
<1> QED BY <1>1, <1>3 DEF Fitting

LEMMA SleepBounds == SLEEP_MIN \in Nat /\ SLEEP_MAX \in Nat
BY DEF SLEEP_MIN, SLEEP_MAX

LEMMA Quotient == \A n \in Nat, d \in Nat \ {0} : n \div d \in Nat /\ (n \div d) * d <= n
BY SMT

LEMMA SmallerProduct == \A m, n, d \in Nat : m <= n => m * d \in Nat /\ m * d <= n * d
BY SMT

LEMMA SleepsNoLonger == \A t \in 0..SLEEP_MAX : Sleeps(t) <= t
<1> TAKE t \in 0..SLEEP_MAX
<1> DEFINE d == Prescale(t)
           n == (t * 1000) \div (32 * d)
           m == n % 65536
<1>1. Fitting(t) # {} /\ d \in Prescaler
  BY PrescaleIs
<1>2. Sleeps(t) = (m * d) \div 32
  BY <1>1 DEF Sleeps, Count, LSI_KHZ, UINT16_MAX
<1> HIDE DEF d
<1>3. t \in Nat /\ d \in Nat \ {0}
  BY <1>1, SleepBounds DEF Prescaler
<1>4. n \in Nat /\ n * (32 * d) <= t * 1000
  <2>1. t * 1000 \in Nat /\ 32 * d \in Nat \ {0}
    BY <1>3
  <2> QED BY <2>1, Quotient
<1> HIDE DEF n
<1>5. m \in Nat /\ m <= n
  BY <1>4
<1> HIDE DEF m
<1>6. m * d \in Nat /\ m * d <= n * d
  BY <1>3, <1>4, <1>5, SmallerProduct
<1>7. n * (32 * d) = 32 * (n * d) /\ n * d \in Nat
  BY <1>3, <1>4
<1>8. m * d <= 32 * t
  BY <1>3, <1>4, <1>6, <1>7
<1>9. \A k \in Nat : k <= 32 * t => k \div 32 <= t
  BY <1>3
<1> QED BY <1>2, <1>6, <1>8, <1>9

MsFit == ms \in 0..SLEEP_MAX
SleepInv ==
  /\ step \in {"awake", "drain", "armed", "entering", "asleep"}
  /\ timer \in {"off", "counting", "flagged", "over"}
  /\ sleeponexit => step \in {"entering", "asleep"}
  /\ MsFit

\* What is left of a sleep when the rings are empty.
LEMMA Drains ==
  \A n \in 0..SLEEP_MAX, spent \in Nat : ~(n - spent < SLEEP_MIN) => n - spent - SLEEP_MIN \in 0..SLEEP_MAX
BY SleepBounds

LEMMA SleepInvStep == ASSUME SleepInv, [SNext]_sleepVars PROVE SleepInv'
<1>0. MsFit
  BY DEF SleepInv
<1>1. CASE Ask
  <2>1. PICK t \in Nat : ms' = IF t > SLEEP_MAX THEN SLEEP_MAX ELSE t
    BY <1>1, SleepAssumption DEF Ask
  <2>2. MsFit'
    BY <2>1, SleepBounds DEF MsFit
  <2> QED BY <1>1, <2>2 DEF Ask, SleepInv
<1>2. CASE DrainOut
  <2>1. PICK spent \in Drained : DrainOut!(spent)
    BY <1>2 DEF DrainOut
  <2>2. spent \in Nat
    BY SleepAssumption
  <2>3. \/ ms - spent < SLEEP_MIN /\ ms' = ms
        \/ ~(ms - spent < SLEEP_MIN) /\ ms' = ms - spent - SLEEP_MIN
    BY <2>1, Zenon
  <2>4. MsFit'
    BY <1>0, <2>2, <2>3, Drains, Zenon DEF MsFit
  <2> QED BY <2>1, <2>4 DEF SleepInv
<1>3. CASE SetSleepOnExit \/ Wfi \/ WakeUp \/ Match \/ WatchdogBites
  BY <1>3 DEF SetSleepOnExit, Wfi, WakeUp, Match, WatchdogBites, SleepInv, MsFit
<1>4. CASE LptimIsr \/ WakeIsr
  BY <1>4 DEF LptimIsr, WakeIsr, ExitSleepMode, SleepInv, MsFit
<1>5. CASE UNCHANGED sleepVars
  BY <1>5 DEF sleepVars, SleepInv, MsFit
<1> QED BY <1>1, <1>2, <1>3, <1>4, <1>5 DEF SNext, Goes

LEMMA SleepInvInit == SInit => SleepInv
<1> SUFFICES ASSUME SInit PROVE SleepInv
  OBVIOUS
<1>1. MsFit
  BY DEF SInit, MsFit, SLEEP_MAX
<1> QED BY <1>1, Zenon DEF SInit, SleepInv

LEMMA SleepTypesAre == SleepInv => SleepTypeOK
BY SleepsNoLonger DEF SleepInv, MsFit, SleepTypeOK

-----------------------------------------------------------------------------
\* What a UART has to send fits its buffers.
GivenByte == (0..MaxLines) \X (0..LongestLine)
OutRoom ==
  /\ count \in 0..MaxLines
  /\ sending \in Seq(GivenByte) /\ Len(sending) < OutSize
  /\ text \in Seq(GivenByte) /\ Len(text) <= LongestLine /\ copied \in 0..LongestLine
  /\ slot \in 0..(OutSize - 1)
  /\ Len(dma) <= PacketSize
OutTimes ==
  /\ raw \in {"", "wait", "go"}
  /\ start_age \in 0..StartDelay /\ stop_age \in 0..(StopDelay + 1)
  /\ spoilt \subseteq {"shared", "raw", "stopping"}
OutStops == stopping => driver
OutFlags == OutTimes /\ OutStops

\* A line given is of bytes of a line that may be given.
LEMMA LineGiven ==
  ASSUME NEW k \in 1..LongestLine, count \in 0..MaxLines, count < MaxLines
  PROVE  /\ k \in Nat /\ Line(k) \in Seq(GivenByte) /\ Len(Line(k)) = k
         /\ \A i \in 1..k : Line(k)[i] \in GivenByte
         /\ count + 1 \in 0..MaxLines
<1>1. k \in Nat /\ count + 1 \in 0..MaxLines /\ k <= LongestLine /\ LongestLine \in Nat
  BY UartOutAssumption
<1>2. \A i \in 1..k : i \in 0..LongestLine
  BY <1>1
<1>3. Line(k) \in [1..k -> GivenByte]
  BY <1>1, <1>2 DEF Line, GivenByte
<1> QED BY <1>1, <1>3

\* Part of what is to be sent.
LEMMA PartOf ==
  ASSUME NEW Any, NEW s \in Seq(Any), NEW m \in 1..(Len(s) + 1), NEW n \in 0..Len(s)
  PROVE  SubSeq(s, m, n) \in Seq(Any) /\ Len(SubSeq(s, m, n)) = IF m <= n THEN n - m + 1 ELSE 0
<1>1. m \in Int /\ n \in Int /\ \A i \in m..n : i \in 1..Len(s)
  BY LenProperties
<1>2. \A i \in m..n : s[i] \in Any
  BY <1>1, ElementOfSeq
<1> QED BY <1>1, <1>2, SubSeqProperties

\* The room there is.
LEMMA RoomIs == ASSUME OutRoom
                PROVE  /\ Len(sending) \in Nat /\ Room \in 0..(OutSize - 1) /\ Room = OutSize - 1 - Len(sending)
                       /\ OutSize \in Nat /\ OutSize >= 2 /\ LongestLine \in Nat
<1> DEFINE n == Len(sending)
<1>1. n \in Nat /\ n < OutSize
  BY LenProperties DEF OutRoom
<1>2. Room = OutSize - 1 - n
  BY DEF Room
<1> HIDE DEF n
<1>3. OutSize \in Nat /\ OutSize >= 2 /\ LongestLine \in Nat
  BY UartOutAssumption
<1>4. Room \in 0..(OutSize - 1)
  BY <1>1, <1>2, <1>3
<1> QED BY <1>1, <1>2, <1>3, <1>4 DEF n

LEMMA GiveRoom == ASSUME OutRoom, Give PROVE OutRoom'
<1>1. PICK k \in 1..LongestLine :
        /\ count < MaxLines /\ text' = Line(k) /\ copied' = 0 /\ count' = count + 1
        /\ UNCHANGED <<sending, slot, dma>>
  BY DEF Give, transmitter
<1>2. count \in 0..MaxLines
  BY DEF OutRoom
<1>3. Line(k) \in Seq(GivenByte) /\ Len(Line(k)) = k /\ count + 1 \in 0..MaxLines
  BY <1>1, <1>2, LineGiven
<1>4. k <= LongestLine /\ 0 \in 0..LongestLine
  BY UartOutAssumption
<1> QED BY <1>1, <1>3, <1>4 DEF OutRoom

\* The next byte of a line.
LEMMA NextRoom ==
  ASSUME OutRoom, OutSeqs, OutControl, text # <<>>, NextByte
  PROVE  /\ text' \in Seq(GivenByte) /\ Len(text') <= LongestLine /\ copied' \in 0..LongestLine
         /\ text[copied + 1] \in GivenByte
<1> DEFINE l == Len(text)
<1>1. l \in Nat /\ copied \in Nat /\ copied < l /\ l <= LongestLine /\ text \in Seq(GivenByte) /\ LongestLine \in Nat
  BY LenProperties, RoomIs DEF OutRoom, OutSeqs, OutControl
<1>2. \/ copied + 1 = l /\ text' = <<>> /\ copied' = 0
      \/ copied + 1 # l /\ copied' = copied + 1 /\ text' = text
  BY DEF NextByte
<1>3. <<>> \in Seq(GivenByte) /\ Len(<<>>) = 0
  BY EmptySeq
<1>4. copied + 1 \in 1..l
  <2> HIDE DEF l
  <2> QED BY <1>1
<1>5. text[copied + 1] \in GivenByte
  BY <1>1, <1>4, ElementOfSeq
<1>6. copied' \in 0..LongestLine
  <2> HIDE DEF l
  <2> QED BY <1>1, <1>2
<1>7. text' \in Seq(GivenByte) /\ Len(text') <= LongestLine
  <2>1. Len(<<>>) <= LongestLine
    BY <1>1, <1>3
  <2>2. CASE text' = <<>>
    BY <1>3, <2>1, <2>2
  <2>3. CASE text' = text
    BY <1>1, <2>3, Zenon
  <2> QED BY <1>2, <2>2, <2>3
<1> QED BY <1>5, <1>6, <1>7

LEMMA StoreRoom == ASSUME OutRoom, OutSeqs, OutControl, StoreByte PROVE OutRoom'
<1>1. text # <<>> /\ slot = 0 /\ UNCHANGED <<count, sending, dma>>
  BY DEF StoreByte, transmitter
<1>2. \/ Room > 0 /\ slot' = Len(sending) + 1 /\ UNCHANGED <<text, copied>>
      \/ NextByte /\ slot' = slot
      \/ text' = <<>> /\ copied' = 0 /\ slot' = slot
  BY DEF StoreByte
<1>3. slot' \in 0..(OutSize - 1)
  <2> DEFINE n == Len(sending)
  <2>1. n \in Nat /\ Room = OutSize - 1 - n /\ OutSize \in Nat /\ slot \in 0..(OutSize - 1)
    BY RoomIs DEF OutRoom
  <2>2. (Room > 0 /\ slot' = n + 1) \/ slot' = slot
    BY <1>2
  <2> HIDE DEF n
  <2> QED BY <2>1, <2>2
<1>4. text' \in Seq(GivenByte) /\ Len(text') <= LongestLine /\ copied' \in 0..LongestLine
  <2>1. <<>> \in Seq(GivenByte) /\ Len(<<>>) = 0 /\ 0 \in 0..LongestLine /\ 0 <= LongestLine
    BY EmptySeq, UartOutAssumption
  <2>2. NextByte => text' \in Seq(GivenByte) /\ Len(text') <= LongestLine /\ copied' \in 0..LongestLine
    BY <1>1, NextRoom
  <2> QED BY <1>2, <2>1, <2>2 DEF OutRoom
<1> QED BY <1>1, <1>3, <1>4 DEF OutRoom

LEMMA PublishRoom == ASSUME OutRoom, OutSeqs, OutControl, PublishByte PROVE OutRoom'
<1> DEFINE b == text[copied + 1]
           n == Len(sending)
<1>1. /\ slot # 0 /\ slot' = 0 /\ NextByte /\ UNCHANGED <<count, dma>>
      /\ sending' = IF n >= slot THEN SubSeq(sending, 1, slot) ELSE Append(sending, b)
  BY DEF PublishByte, transmitter
<1>2. text # <<>>
  BY <1>1 DEF OutControl
<1>3. /\ text' \in Seq(GivenByte) /\ Len(text') <= LongestLine /\ copied' \in 0..LongestLine
      /\ b \in GivenByte
  BY <1>1, <1>2, NextRoom
<1>4. n \in Nat /\ sending \in Seq(GivenByte) /\ slot \in 0..(OutSize - 1) /\ OutSize \in Nat /\ OutSize >= 2
  BY RoomIs DEF OutRoom
<1>5. sending' \in Seq(GivenByte) /\ Len(sending') < OutSize
  <2>1. CASE n >= slot
    <3>1. slot \in 0..n /\ 1 \in 1..(n + 1) /\ 1 <= slot /\ slot - 1 + 1 = slot /\ slot < OutSize
      <4> HIDE DEF n
      <4> QED BY <1>1, <1>4, <2>1
    <3>2. SubSeq(sending, 1, slot) \in Seq(GivenByte) /\ Len(SubSeq(sending, 1, slot)) = slot
      BY <1>4, <3>1, PartOf
    <3> QED BY <1>1, <2>1, <3>1, <3>2
  <2>2. CASE ~(n >= slot)
    <3>1. Append(sending, b) \in Seq(GivenByte) /\ Len(Append(sending, b)) = n + 1
      BY <1>3, <1>4, AppendProperties
    <3>2. n + 1 < OutSize
      <4> HIDE DEF n
      <4> QED BY <1>4, <2>2
    <3> QED BY <1>1, <2>2, <3>1, <3>2
  <2> QED BY <2>1, <2>2
<1>6. 0 \in 0..(OutSize - 1)
  BY <1>4
<1> QED BY <1>1, <1>3, <1>5, <1>6 DEF OutRoom

LEMMA IsrRoom == ASSUME OutRoom, IsrLog PROVE OutRoom'
<1>1. PICK k \in 1..LongestLine :
        /\ count < MaxLines
        /\ sending' = sending \o SubSeq(Line(k), 1, Least(k, Room))
        /\ text' = [i \in DOMAIN text |-> IF i <= k THEN Line(k)[i] ELSE text[i]]
        /\ count' = count + 1
        /\ UNCHANGED <<copied, slot, dma>>
  BY DEF IsrLog, transmitter
<1>2. count \in 0..MaxLines /\ sending \in Seq(GivenByte) /\ text \in Seq(GivenByte)
  BY DEF OutRoom
<1>3. /\ k \in Nat /\ Line(k) \in Seq(GivenByte) /\ Len(Line(k)) = k /\ count + 1 \in 0..MaxLines
      /\ \A i \in 1..k : Line(k)[i] \in GivenByte
  BY <1>1, <1>2, LineGiven
<1> DEFINE fit == Least(k, Room)
           x == SubSeq(Line(k), 1, fit)
           n == Len(sending)
<1>4. fit \in 0..k /\ fit <= Room
  BY <1>3, RoomIs DEF Least
<1>5. x \in Seq(GivenByte) /\ Len(x) = fit
  <2> HIDE DEF fit
  <2>1. 1 \in 1..(k + 1) /\ (1 <= fit => fit - 1 + 1 = fit) /\ (~(1 <= fit) => fit = 0)
    BY <1>3, <1>4
  <2> QED BY <1>3, <1>4, <2>1, PartOf
<1>6. sending \o x \in Seq(GivenByte) /\ Len(sending \o x) = n + fit
  BY <1>2, <1>5, ConcatProperties
<1>7. n + fit < OutSize
  <2>1. n \in Nat /\ Room = OutSize - 1 - n /\ OutSize \in Nat /\ fit \in Nat /\ fit <= Room
    BY <1>3, <1>4, RoomIs
  <2> HIDE DEF n, fit
  <2> QED BY <2>1
<1>8. text' \in Seq(GivenByte) /\ Len(text') = Len(text)
  <2> DEFINE m == Len(text)
  <2>1. m \in Nat /\ DOMAIN text = 1..m /\ \A i \in 1..m : text[i] \in GivenByte
    BY <1>2, LenProperties, ElementOfSeq
  <2>2. text' = [i \in 1..m |-> IF i <= k THEN Line(k)[i] ELSE text[i]]
    BY <1>1, <2>1
  <2> HIDE DEF m
  <2>4. text' \in [1..m -> GivenByte]
    <3> SUFFICES ASSUME NEW i \in 1..m PROVE (IF i <= k THEN Line(k)[i] ELSE text[i]) \in GivenByte
      BY <2>2
    <3>1. CASE i <= k
      <4>1. i \in 1..k
        BY <1>3, <2>1, <3>1
      <4> QED BY <1>3, <3>1, <4>1
    <3>2. CASE ~(i <= k)
      BY <2>1, <3>2
    <3> QED BY <3>1, <3>2
  <2>5. text' \in Seq(GivenByte) /\ Len(text') = m
    BY <2>1, <2>4, SeqDef, LenProperties
  <2> QED BY <2>5 DEF m
<1> QED BY <1>1, <1>3, <1>6, <1>7, <1>8 DEF OutRoom

LEMMA DrainRoom == ASSUME OutRoom, OutDrain PROVE OutRoom'
<1> DEFINE l == Len(sending)
           n == Least(l, PacketSize)
<1>1. /\ sending # <<>>
      /\ sending' = SubSeq(sending, n + 1, l)
      /\ dma' = dma \/ dma' = SubSeq(sending, 1, n)
      /\ UNCHANGED <<text, copied, slot, count>>
  BY DEF OutDrain, Consume
<1>2. sending \in Seq(GivenByte) /\ l \in Nat /\ l # 0 /\ PacketSize \in Nat \ {0} /\ l < OutSize /\ OutSize \in Nat
  BY <1>1, UartOutAssumption, RoomIs, EmptySeq DEF OutRoom
<1>3. n \in 1..l /\ n <= PacketSize
  <2> HIDE DEF l
  <2> QED BY <1>2 DEF Least
<1> HIDE DEF n
<1>4. sending' \in Seq(GivenByte) /\ Len(sending') < OutSize
  <2>1. n + 1 \in 1..(l + 1) /\ l \in 0..l /\ (IF n + 1 <= l THEN l - (n + 1) + 1 ELSE 0) < OutSize
    <3> HIDE DEF l
    <3> QED BY <1>2, <1>3
  <2> QED BY <1>1, <1>2, <2>1, PartOf
<1>5. Len(dma') <= PacketSize
  <2>1. 1 \in 1..(l + 1) /\ n \in 0..l /\ (IF 1 <= n THEN n - 1 + 1 ELSE 0) = n
    <3> HIDE DEF l
    <3> QED BY <1>2, <1>3
  <2>2. Len(SubSeq(sending, 1, n)) = n
    BY <1>2, <2>1, PartOf
  <2> QED BY <1>1, <1>3, <2>2 DEF OutRoom
<1> QED BY <1>1, <1>4, <1>5 DEF OutRoom

LEMMA OutRoomStep == ASSUME OutInv, OutRoom, [UNext]_outVars PROVE OutRoom'
<1>1. OutSeqs /\ OutControl
  BY DEF OutInv
<1>2. CASE DmaStep
  <2>1. dma # <<>> /\ dma' = Tail(dma) /\ UNCHANGED <<count, sending, text, copied, slot>>
    BY <1>2 DEF DmaStep, ring_out
  <2>2. dma \in Seq(OutByte)
    BY <1>1 DEF OutSeqs
  <2>3. Len(Tail(dma)) = Len(dma) - 1 /\ Len(dma) \in Nat
    BY <2>1, <2>2, HeadTailProperties, LenProperties
  <2>4. Len(dma') <= PacketSize
    <3> DEFINE n == Len(dma)
    <3>1. n \in Nat /\ n <= PacketSize /\ PacketSize \in Nat /\ Len(dma') = n - 1
      BY <2>1, <2>3, UartOutAssumption DEF OutRoom
    <3> HIDE DEF n
    <3> QED BY <3>1
  <2> QED BY <2>1, <2>4 DEF OutRoom
<1>3. CASE RateLimitPasses \/ RawReady \/ RawWrite \/ DriverOn \/ StopBegins \/ DriverOff \/ ToShift
           \/ DmaIsr \/ ByteTime \/ UNCHANGED outVars
  <2>1. UNCHANGED <<count, sending, text, copied, slot, dma>>
    BY <1>3 DEF RateLimitPasses, RawReady, RawWrite, DriverOn, StopBegins, DriverOff, ToShift, DmaIsr,
                ByteTime, outVars, ring_out, transmitter
  <2> QED BY <2>1 DEF OutRoom
<1> QED BY <1>1, <1>2, <1>3, GiveRoom, StoreRoom, PublishRoom, IsrRoom, DrainRoom
        DEF UNext, MainPass, Hardware


\* Nothing is sent before a line is given.
LEMMA OutInit == UInit => OutRoom /\ OutFlags
<1> SUFFICES ASSUME UInit PROVE OutRoom /\ OutFlags
  OBVIOUS
<1>1. <<>> \in Seq(GivenByte) /\ Len(<<>>) = 0
  BY EmptySeq
<1>2. /\ sending = <<>> /\ text = <<>> /\ dma = <<>> /\ copied = 0 /\ slot = 0 /\ count = 0
      /\ raw = "" /\ start_age = 0 /\ stop_age = 0 /\ spoilt = {}
  BY DEF UInit
<1>3. /\ 0 \in 0..MaxLines /\ 0 \in 0..LongestLine /\ 0 \in 0..(OutSize - 1) /\ 0 < OutSize
      /\ 0 <= LongestLine /\ 0 <= PacketSize /\ 0 \in 0..StartDelay /\ 0 \in 0..(StopDelay + 1)
  BY UartOutAssumption
<1>4. OutRoom
  BY <1>1, <1>2, <1>3 DEF OutRoom
<1>5. OutTimes
  BY <1>2, <1>3 DEF OutTimes
<1>6. OutStops
  BY Zenon DEF UInit, OutStops
<1> QED BY <1>4, <1>5, <1>6 DEF OutFlags

\* One more of what is at most n.
LEMMA Leasts == ASSUME NEW n \in Nat, NEW k \in 0..n PROVE Least(k + 1, n) \in 0..n
BY DEF Least

LEMMA Delays == /\ StartDelay \in Nat /\ StopDelay + 1 \in Nat
                /\ 0 \in 0..StartDelay /\ 0 \in 0..(StopDelay + 1)
BY UartOutAssumption

LEMMA OutTimesStep == ASSUME OutTimes, [UNext]_outVars PROVE OutTimes'
<1> USE DEF OutTimes
<1>1. CASE Give
  BY <1>1 DEF Give, rs485
<1>2. CASE IsrLog
  BY <1>2 DEF IsrLog, rs485
<1>3. CASE StoreByte
  BY <1>3 DEF StoreByte, rs485
<1>4. CASE RawReady \/ RawWrite
  BY <1>4 DEF RawReady, RawWrite, rs485
<1>5. CASE DriverOn \/ StopBegins \/ DriverOff
  BY <1>5, Delays DEF DriverOn, StopBegins, DriverOff
<1>6. CASE ByteTime
  <2>1. start_age' \in 0..StartDelay /\ stop_age' \in 0..(StopDelay + 1)
    BY <1>6, Delays, Leasts DEF ByteTime
  <2> QED BY <1>6, <2>1 DEF ByteTime
<1>7. CASE RateLimitPasses \/ PublishByte \/ OutDrain \/ DmaStep \/ ToShift \/ DmaIsr \/ UNCHANGED outVars
  BY <1>7 DEF RateLimitPasses, PublishByte, OutDrain, DmaStep, ToShift, DmaIsr, outVars, ring_out, rs485
<1> QED BY <1>1, <1>2, <1>3, <1>4, <1>5, <1>6, <1>7 DEF UNext, MainPass, Hardware

LEMMA OutStopsStep == ASSUME OutStops, [UNext]_outVars PROVE OutStops'
<1>1. CASE StopBegins \/ DriverOff \/ DriverOn
  BY <1>1, Zenon DEF StopBegins, DriverOff, DriverOn, OutStops
<1>2. CASE UNCHANGED <<driver, stopping>>
  BY <1>2, Zenon DEF OutStops
<1>3. \/ StopBegins \/ DriverOff \/ DriverOn \/ UNCHANGED <<driver, stopping>>
  BY DEF UNext, MainPass, Hardware, Give, IsrLog, StoreByte, RawReady, RawWrite, ByteTime, RateLimitPasses,
         PublishByte, OutDrain, DmaStep, ToShift, DmaIsr, outVars, ring_out, rs485
<1> QED BY <1>1, <1>2, <1>3

LEMMA OneIs == \A x \in OneByte : Len(x) <= 1
<1> SUFFICES ASSUME NEW x \in OneByte PROVE Len(x) <= 1
  OBVIOUS
<1>1. x = <<>> \/ \E b : x = <<b>>
  BY DEF OneByte
<1>2. CASE x = <<>>
  BY <1>2
<1>3. CASE \E b : x = <<b>>
  <2>1. PICK b : x = <<b>>
    BY <1>3
  <2> QED BY <2>1
<1> QED BY <1>1, <1>2, <1>3

LEMMA OutTypesAre == OutInv /\ OutRoom /\ OutFlags => UartOutTypeOK
<1> SUFFICES ASSUME OutInv, OutRoom, OutFlags PROVE UartOutTypeOK
  OBVIOUS
<1>1. Len(tdr) <= 1 /\ Len(shift) <= 1 /\ line \in {"debug", "rs485"}
  BY OneIs DEF OutInv, OutSeqs
<1> QED BY <1>1 DEF OutRoom, OutFlags, OutTimes, OutStops, GivenByte, UartOutTypeOK

-----------------------------------------------------------------------------
\* What the ESP32 was told, and how many messages it took.
EspFields ==
  /\ wifi \subseteq {"type", "ssid", "password", "autostart"}
  /\ wifi # {} => "type" \in wifi
EspOrder == (mqtt_started => wifi_started) /\ (has_mqtt => session /\ mqtt_started)
EspCount ==
  /\ messages \in Nat
  /\ main \in {"answer", "loop"} => Len(command) <= 2
  /\ Len(taken) + (IF handler = "idle" THEN 0 ELSE 1) <= messages

LEMMA EspFieldsStep == ASSUME EspFields, [ENext]_espVars PROVE EspFields'
<1> USE DEF EspFields
<1>1. CASE SetString
  BY <1>1 DEF SetString, Prepared
<1>2. CASE SetAuthmode \/ SetAutostart
  BY <1>2 DEF SetAuthmode, SetAutostart, Prepared
<1>3. CASE wifi' = wifi
  BY <1>3
<1> QED BY <1>1, <1>2, <1>3
        DEF ENext, MainLoop, Wifi, Mqtt, LoopWifi, LoopMqtt, CommsConn, GotIp, WifiLost, MqttConnected,
            MqttDisconnected, LoopCommand, ReadCell, Answer, MqttData, CopyCell, CopyReady, espVars

LEMMA EspOrderStep == ASSUME EspOrder, [ENext]_espVars PROVE EspOrder'
<1> USE DEF EspOrder
<1>1. CASE LoopWifi
  BY <1>1, Zenon DEF LoopWifi, WifiStart
<1>2. CASE CommsConn
  BY <1>2, Zenon DEF CommsConn, WifiStart
<1>3. CASE LoopMqtt
  BY <1>3, Zenon DEF LoopMqtt
<1>4. CASE WifiLost
  <2>1. has_mqtt' = FALSE /\ mqtt_started' = mqtt_started /\ wifi_started' = wifi_started
    BY <1>4 DEF WifiLost
  <2> QED BY <2>1, Zenon
<1>5. CASE MqttConnected
  BY <1>5, Zenon DEF MqttConnected
<1>6. CASE MqttDisconnected
  BY <1>6, Zenon DEF MqttDisconnected
<1>7. CASE UNCHANGED <<mqtt_started, wifi_started, has_mqtt, session>>
  BY <1>7, Zenon
<1>8. \/ LoopWifi \/ CommsConn \/ LoopMqtt \/ WifiLost \/ MqttConnected \/ MqttDisconnected
      \/ UNCHANGED <<mqtt_started, wifi_started, has_mqtt, session>>
  BY DEF ENext, MainLoop, Wifi, Mqtt, GotIp, LoopCommand, ReadCell, Answer, MqttData, CopyCell, CopyReady,
         SetString, SetAuthmode, SetAutostart, flags, espVars
<1> QED BY <1>1, <1>2, <1>3, <1>4, <1>5, <1>6, <1>7, <1>8

LEMMA EspCountStep == ASSUME SlotInv, EspCount, [ENext]_espVars PROVE EspCount'
<1> DEFINE n == Len(taken)
<1>1. n \in Nat /\ handler \in {"idle", "copy1", "copy2", "ready"} /\ taken \in Seq(Two)
  BY LenProperties DEF SlotInv
<1>2. CASE MqttData
  <2>1. /\ messages' = messages + 1 /\ handler = "idle" /\ UNCHANGED <<main, command, taken>>
    BY <1>2 DEF MqttData
  <2>2. n + 0 <= messages /\ messages \in Nat
    BY <2>1 DEF EspCount
  <2>3. n + (IF handler' = "idle" THEN 0 ELSE 1) <= messages'
    <3> HIDE DEF n
    <3> QED BY <1>1, <2>1, <2>2
  <2> QED BY <2>1, <2>2, <2>3 DEF EspCount
<1>3. CASE CopyReady
  <2>1. /\ handler = "ready" /\ handler' = "idle" /\ taken' = Append(taken, <<message, message>>)
        /\ UNCHANGED <<main, command, messages>>
    BY <1>3 DEF CopyReady
  <2>2. Len(taken') = n + 1
    <3>1. <<message, message>> \in Two
      BY DEF SlotInv, Two
    <3> QED BY <1>1, <2>1, <3>1, AppendProperties
  <2>3. n + 1 <= messages /\ messages \in Nat
    BY <2>1 DEF EspCount
  <2>4. Len(taken') + 0 <= messages'
    <3> HIDE DEF n
    <3> QED BY <1>1, <2>1, <2>2, <2>3
  <2> QED BY <2>1, <2>3, <2>4 DEF EspCount
<1>4. CASE CopyCell
  <2>1. handler # "idle" /\ handler' # "idle" /\ UNCHANGED <<main, command, messages, taken>>
    BY <1>4 DEF CopyCell
  <2> QED BY <2>1 DEF EspCount
<1>5. CASE ReadCell
  <2>1. /\ main \in {"read1", "read2"} /\ command' = Append(command, cmd[Len(command) + 1])
        /\ main' = (IF main = "read1" THEN "read2" ELSE "answer")
        /\ UNCHANGED <<handler, messages, taken>>
    BY <1>5 DEF ReadCell
  <2>2. main = "read2" => Len(command') <= 2
    <3>1. HAVE main = "read2"
    <3>2. command = <<cmd[1]>> /\ cmd[1] \in Cell /\ cmd[2] \in Cell
      BY <3>1 DEF SlotInv, Two
    <3>3. Len(command) = 1 /\ command' = Append(<<cmd[1]>>, cmd[2])
      BY <2>1, <3>2
    <3>4. command' = <<cmd[1], cmd[2]>>
      BY <3>2, <3>3, Pairs
    <3> QED BY <3>4
  <2> QED BY <2>1, <2>2 DEF EspCount
<1>6. CASE LoopCommand
  BY <1>6 DEF LoopCommand, EspCount
<1>7. CASE Answer
  BY <1>7 DEF Answer, EspCount
<1>8. CASE UNCHANGED <<main, command, messages, taken, handler>>
  BY <1>8 DEF EspCount
<1> QED BY <1>2, <1>3, <1>4, <1>5, <1>6, <1>7, <1>8
        DEF ENext, MainLoop, Wifi, Mqtt, LoopWifi, LoopMqtt, CommsConn, SetString, SetAuthmode, SetAutostart,
            GotIp, WifiLost, MqttConnected, MqttDisconnected, espVars, slotVars

LEMMA EspInit == EInit => EspFields /\ EspOrder /\ EspCount
<1> SUFFICES ASSUME EInit PROVE EspFields /\ EspOrder /\ EspCount
  OBVIOUS
<1>1. EspFields
  BY DEF EInit, EspFields
<1>2. EspOrder
  BY Zenon DEF EInit, EspOrder
<1>3. EspCount
  <2>1. taken = <<>> /\ command = <<>> /\ handler = "idle" /\ messages = 0
    BY DEF EInit
  <2>2. Len(<<>>) = 0
    OBVIOUS
  <2> QED BY <2>1, <2>2 DEF EspCount
<1> QED BY <1>1, <1>2, <1>3

LEMMA EspTypesAre == SlotInv /\ EspFields /\ EspOrder /\ EspCount => EspTypeOK
<1> SUFFICES ASSUME SlotInv, EspFields, EspOrder, EspCount PROVE EspTypeOK
  OBVIOUS
<1> DEFINE n == Len(taken)
<1>1. n \in Nat /\ messages \in Nat /\ n + (IF handler = "idle" THEN 0 ELSE 1) <= messages
  BY LenProperties DEF SlotInv, EspCount
<1>2. n <= messages
  <2> HIDE DEF n
  <2> QED BY <1>1
<1>3. Len(command) <= 2
  <2>1. CASE main = "read1"
    <3>1. command = <<>> /\ Len(<<>>) = 0
      BY <2>1 DEF SlotInv
    <3> QED BY <3>1
  <2>2. CASE main = "read2"
    <3>1. command = <<cmd[1]>> /\ Len(<<cmd[1]>>) = 1
      BY <2>2 DEF SlotInv
    <3> QED BY <3>1
  <2>3. CASE main \in {"answer", "loop"}
    BY <2>3 DEF EspCount
  <2> QED BY <2>1, <2>2, <2>3 DEF SlotInv
<1> QED BY <1>2, <1>3 DEF SlotInv, EspFields, EspOrder, EspTypeOK

-----------------------------------------------------------------------------
\* How much of the buffer the tokens take is defined token by token.
Within(s) == Pos(s) + CloseSize < JsonSize
Sum(f, s, n) == f = [i \in 0..n |-> IF i = 0 THEN 0 ELSE f[i - 1] + s[i].size]

LEMMA SumIs ==
  ASSUME NEW f, NEW s, NEW n \in Nat, Sum(f, s, n)
  PROVE  f[0] = 0 /\ \A i \in 1..n : f[i] = f[i - 1] + s[i].size
<1>1. \A i \in 0..n : f[i] = IF i = 0 THEN 0 ELSE f[i - 1] + s[i].size
  BY DEF Sum
<1>2. 0 \in 0..n /\ \A i \in 1..n : i \in 0..n /\ i # 0
  OBVIOUS
<1> QED BY <1>1, <1>2

LEMMA SumExists == ASSUME NEW s, NEW n \in Nat PROVE \E f : Sum(f, s, n)
<1> DEFINE Step(f, i) == IF i = 0 THEN 0 ELSE f[i - 1] + s[i].size
           T == {k \in Nat : \E f : Sum(f, s, k)}
<1>1. 0 \in T
  <2>1. Sum([i \in 0..0 |-> 0], s, 0)
    BY DEF Sum
  <2> QED BY <2>1
<1>2. ASSUME NEW k \in Nat, k \in T PROVE k + 1 \in T
  <2>1. PICK f : Sum(f, s, k)
    BY <1>2
  <2> DEFINE g == [i \in 0..(k + 1) |-> IF i = k + 1 THEN f[k] + s[k + 1].size ELSE f[i]]
  <2>2. \A i \in 0..k : g[i] = f[i] /\ f[i] = Step(f, i)
    BY <2>1, SMT DEF Sum
  <2>3. ASSUME NEW i \in 0..(k + 1) PROVE g[i] = Step(g, i)
    <3>1. CASE i = k + 1
      <4>1. g[k] = f[k] /\ i - 1 = k /\ i # 0
        BY <2>2, <3>1
      <4> QED BY <3>1, <4>1
    <3>2. CASE i = 0
      <4>1. i \in 0..k /\ i # k + 1
        BY <3>2
      <4> QED BY <2>2, <3>2, <4>1
    <3>3. CASE i # k + 1 /\ i # 0
      <4>1. i - 1 \in 0..k /\ i \in 0..k
        BY <3>3
      <4> QED BY <2>2, <4>1, <3>3
    <3> QED BY <3>1, <3>2, <3>3
  <2>4. Sum(g, s, k + 1)
    <3>1. g = [i \in 0..(k + 1) |-> g[i]]
      OBVIOUS
    <3>2. g = [i \in 0..(k + 1) |-> Step(g, i)]
      <4> HIDE DEF g, Step
      <4> QED BY <2>3, <3>1
    <3> HIDE DEF g
    <3> QED BY <3>2 DEF Sum
  <2>5. k + 1 \in Nat /\ \E h : Sum(h, s, k + 1)
    <3> HIDE DEF g
    <3> QED BY <2>4
  <2> QED BY <2>5
<1>3. Nat \subseteq T
  <2> HIDE DEF T
  <2> QED BY <1>1, <1>2, NatInduct
<1> QED BY <1>3

LEMMA PosIs == ASSUME NEW s PROVE Len(s) \in Nat => \E f : Sum(f, s, Len(s)) /\ Pos(s) = f[Len(s)]
<1> DEFINE sums == CHOOSE f : Sum(f, s, Len(s))
<1>1. HAVE Len(s) \in Nat
<1>2. Sum(sums, s, Len(s))
  BY <1>1, SumExists, Zenon
<1>3. Pos(s) = sums[Len(s)]
  BY DEF Pos, Sum
<1> QED BY <1>2, <1>3, Zenon

\* The sums of the same tokens are the same.
LEMMA SumSame ==
  ASSUME NEW f, NEW g, NEW s \in Seq(Token), NEW t, NEW m \in Nat,
         Len(s) <= m, Sum(f, s, Len(s)), Sum(g, t, m), \A i \in 1..Len(s) : t[i] = s[i]
  PROVE  f[Len(s)] = g[Len(s)] /\ f[Len(s)] \in Nat
<1> DEFINE n == Len(s)
           T == {i \in Nat : i <= n => f[i] = g[i] /\ f[i] \in Nat}
<1>1. n \in Nat /\ n <= m /\ \A i \in 1..n : s[i].size \in Nat /\ t[i] = s[i]
  <2>1. n \in Nat /\ \A i \in 1..n : s[i] \in Token
    BY LenProperties, ElementOfSeq
  <2>2. \A x \in Token : x.size \in Nat
    BY DEF Token
  <2> QED BY <2>1, <2>2
<1>2. f[0] = 0 /\ \A i \in 1..n : f[i] = f[i - 1] + s[i].size
  BY <1>1, SumIs
<1>3. g[0] = 0 /\ \A i \in 1..m : g[i] = g[i - 1] + t[i].size
  BY SumIs
<1> HIDE DEF n
<1>4. 0 \in T
  BY <1>2, <1>3
<1>5. ASSUME NEW i \in Nat, i \in T PROVE i + 1 \in T
  <2>1. CASE i + 1 <= n
    <3>1. i + 1 \in 1..n /\ i + 1 \in 1..m /\ i + 1 - 1 = i /\ i <= n
      BY <1>1, <2>1
    <3>2. f[i + 1] = f[i] + s[i + 1].size /\ g[i + 1] = g[i] + s[i + 1].size /\ s[i + 1].size \in Nat
      BY <1>1, <1>2, <1>3, <3>1
    <3>3. f[i] = g[i] /\ f[i] \in Nat
      BY <1>5, <3>1
    <3>4. f[i + 1] = g[i + 1] /\ f[i + 1] \in Nat
      BY <3>2, <3>3
    <3> QED BY <3>4
  <2>2. CASE ~(i + 1 <= n)
    BY <2>2
  <2> QED BY <2>1, <2>2
<1>6. Nat \subseteq T
  <2> HIDE DEF T
  <2> QED BY <1>4, <1>5, NatInduct
<1>7. n \in T /\ n <= n
  BY <1>1, <1>6
<1> QED BY <1>7 DEF n

\* One token more takes its size.
LEMMA PosMore ==
  ASSUME NEW s \in Seq(Token), NEW x \in Token
  PROVE  Pos(Append(s, x)) = Pos(s) + x.size /\ Pos(s) \in Nat /\ x.size \in Nat
<1> DEFINE n == Len(s)
           t == Append(s, x)
<1>1. n \in Nat /\ Len(t) = n + 1 /\ t[n + 1] = x /\ \A i \in 1..n : t[i] = s[i]
  BY LenProperties, AppendProperties
<1>2. PICK f : Sum(f, s, n) /\ Pos(s) = f[n]
  BY <1>1, PosIs
<1> HIDE DEF t
<1>3. Len(t) \in Nat
  BY <1>1
<1>4. PICK g : Sum(g, t, n + 1) /\ Pos(t) = g[n + 1]
  BY <1>1, <1>3, PosIs
<1>5. n + 1 \in Nat /\ n <= n + 1 /\ n + 1 \in 1..(n + 1) /\ n + 1 - 1 = n
  BY <1>1
<1>6. f[n] = g[n] /\ f[n] \in Nat
  BY <1>1, <1>2, <1>4, <1>5, SumSame
<1>7. g[n + 1] = g[n] + x.size
  BY <1>1, <1>4, <1>5, SumIs
<1>8. x.size \in Nat
  BY DEF Token
<1> QED BY <1>2, <1>4, <1>6, <1>7, <1>8 DEF t

\* The buffer begins with room for what closes it.
LEMMA EmptyWithin == Pos(<<>>) = 0 /\ Within(<<>>) /\ Within(<<Open>>)
<1>1. Len(<<>>) = 0 /\ Len(<<>>) \in Nat /\ 0 \in Nat
  OBVIOUS
<1>2. PICK f : Sum(f, <<>>, 0) /\ Pos(<<>>) = f[0]
  BY <1>1, PosIs
<1>3. Pos(<<>>) = 0
  BY <1>1, <1>2, SumIs
<1>4. <<>> \in Seq(Token) /\ Open \in Token /\ Open.size = 1
  BY EmptySeq DEF Open, Tok, Token
<1>5. Append(<<>>, Open) = <<Open>>
  OBVIOUS
<1>6. Pos(<<Open>>) = 1
  <2>1. Pos(Append(<<>>, Open)) = Pos(<<>>) + Open.size
    BY <1>4, PosMore
  <2> QED BY <1>3, <1>4, <1>5, <2>1
<1> QED BY <1>3, <1>6, JsonAssumption DEF Within, CloseSize

\* What is appended fits.
LEMMA FitsWithin ==
  ASSUME NEW s \in Seq(Token), NEW x \in Token, Fits(s, x)
  PROVE  Within(Append(s, x)) /\ Append(s, x) \in Seq(Token)
<1>1. Append(s, x) \in Seq(Token)
  BY AppendProperties
<1>2. Pos(Append(s, x)) = Pos(s) + x.size /\ Pos(s) \in Nat /\ x.size \in Nat
  BY PosMore
<1>3. x.size + CloseSize < JsonSize - Pos(s)
  BY DEF Fits
<1> QED BY <1>1, <1>2, <1>3, JsonAssumption DEF Within, CloseSize

LEMMA AppendWithin ==
  ASSUME NEW s \in Seq(Token), NEW x \in Token, Within(s)
  PROVE  Within(AppendMeas(s, x)) /\ AppendMeas(s, x) \in Seq(Token)
<1>1. Comma \in Token
  BY DEF Comma, Tok, Token
<1>2. Fits(s, Comma) => Within(Append(s, Comma)) /\ Append(s, Comma) \in Seq(Token)
  BY <1>1, FitsWithin
<1>3. CASE FitsMeas(s, x)
  <2>1. WithComma(s) \in Seq(Token) /\ Fits(WithComma(s), x)
    BY <1>2, <1>3 DEF FitsMeas, WithComma
  <2>2. AppendMeas(s, x) = Append(WithComma(s), x)
    BY <1>3 DEF AppendMeas
  <2> QED BY <2>1, <2>2, FitsWithin
<1>4. CASE ~FitsMeas(s, x)
  BY <1>2, <1>4 DEF AppendMeas
<1> QED BY <1>3, <1>4

LEMMA JsonSeq == ASSUME JsonInv PROVE json \in Seq(Token) /\ (json = <<>> \/ json[1] = Open)
<1>1. CASE json = <<>>
  BY <1>1, EmptySeq
<1>2. CASE json # <<>>
  <2> DEFINE o == Object(told)
             e == End(left)
  <2>1. json = o \o e /\ o \in Seq(Token) /\ Len(o) \in Nat \ {0} /\ \A i \in 1..Len(o) : o[i] =
          IF i = 1 THEN Open ELSE IF i % 2 = 0 THEN told[i \div 2] ELSE Comma
    BY <1>2, Objects, LenProperties, EmptySeq DEF JsonInv
  <2>2. e \in Seq(Token)
    <3>1. Comma \in Token
      BY DEF Comma, Tok, Token
    <3> QED BY <3>1, EmptySeq DEF End
  <2> HIDE DEF o, e
  <2>3. json \in Seq(Token) /\ 1 \in 1..Len(o) /\ 1 \in 1..(Len(o) + Len(e)) /\ 1 <= Len(o)
    BY <2>1, <2>2, ConcatProperties, LenProperties
  <2>4. json[1] = o[1]
    BY <2>1, <2>2, <2>3, ConcatProperties
  <2> QED BY <2>1, <2>3, <2>4
<1> QED BY <1>1, <1>2

LEMMA JsonWithinStep == ASSUME JsonInv, Within(json), [JNext]_jsonVars PROVE Within(json')
<1>1. json \in Seq(Token) /\ Len(told) \in Nat
  BY JsonSeq, LenProperties DEF JsonInv
<1>2. CASE JsonSingle
  <2>1. PICK size \in ItemSizes :
          json' = IF connected THEN AppendMeas(json, Tok(Len(told) + 1, size)) ELSE json
    BY <1>2 DEF JsonSingle
  <2>2. Tok(Len(told) + 1, size) \in Token
    BY <1>1, TokenIs
  <2> QED BY <1>1, <2>1, <2>2, AppendWithin
<1>3. CASE JsonAveraged
  <2>1. PICK size \in ItemSizes :
          \/ json' = json
          \/ json' = AppendMeas(AppendMeas(AppendMeas(json, Tok(Len(told) + 1, size)), Tok(Len(told) + 2, size)),
                                Tok(Len(told) + 3, size))
    BY <1>3 DEF JsonAveraged
  <2>2. /\ Tok(Len(told) + 1, size) \in Token /\ Tok(Len(told) + 2, size) \in Token
        /\ Tok(Len(told) + 3, size) \in Token
    BY <1>1, TokenIs
  <2> QED BY <1>1, <2>1, <2>2, AppendWithin
<1>4. CASE JsonBegin \/ JsonSend
  BY <1>4, EmptyWithin DEF JsonBegin, JsonSend
<1>5. CASE MqttChanges \/ UNCHANGED jsonVars
  BY <1>5 DEF MqttChanges, jsonVars
<1> QED BY <1>2, <1>3, <1>4, <1>5 DEF JNext

LEMMA JsonTypesAre == JsonInv /\ Within(json) => JsonTypeOK
BY JsonSeq DEF JsonInv, JsonTypeOK, Within

-----------------------------------------------------------------------------
SerialInv ==
  /\ TypeOK /\ CallInv
  /\ OutInv /\ OutRoom /\ OutFlags
  /\ SleepInv /\ PayloadInv
  /\ SlotInv /\ RunInv /\ EspFields /\ EspOrder /\ EspCount
  /\ JsonInv /\ Within(json)

\* A step is one of each part, or leaves it alone.
LEMMA SerialSteps ==
  ASSUME [UseRing \/ UseOut \/ UseSleep \/ UsePayload \/ UseEsp \/ UseJson]_MCVars
  PROVE  /\ [Next]_vars /\ [UNext]_outVars /\ [SNext]_sleepVars /\ [PNext]_payloadVars
         /\ [ENext]_espVars /\ [JNext]_jsonVars
<1>1. CASE UseRing
  <2>1. [Next]_vars
    BY <1>1, LineStep DEF UseRing
  <2> QED BY <1>1, <2>1 DEF UseRing
<1>2. CASE UseOut \/ UseSleep \/ UsePayload \/ UseEsp \/ UseJson
  BY <1>2 DEF UseOut, UseSleep, UsePayload, UseEsp, UseJson, lvars
<1>3. CASE UNCHANGED MCVars
  BY <1>3 DEF MCVars, lvars
<1> QED BY <1>1, <1>2, <1>3

LEMMA SerialInit == MCInit => SerialInv
<1> SUFFICES ASSUME MCInit PROVE SerialInv
  OBVIOUS
<1>1. Init /\ UInit /\ SInit /\ PInit /\ EInit /\ JInit
  BY DEF MCInit, LInit
<1>2. Within(json)
  BY <1>1, EmptyWithin DEF JInit
<1> QED BY <1>1, <1>2, TypeInit, CallInvInit, OutInitInv, OutInit, SleepInvInit, PayloadInit, CommandInit,
           EspInit, JsonInitInv DEF SerialInv

\* What the variables of all parts hold, for any buffers, lines, messages,
\* payloads and measurements, whatever is interrupted by what.
THEOREM SerialKeepsTypes ==
  ASSUME GoodClients
  PROVE  MCSpec => []SerialTypeOK
<1> DEFINE Steps == UseRing \/ UseOut \/ UseSleep \/ UsePayload \/ UseEsp \/ UseJson
<1>1. SerialInv /\ [Steps]_MCVars => SerialInv'
  <2> SUFFICES ASSUME SerialInv, [Steps]_MCVars PROVE SerialInv'
    OBVIOUS
  <2>1. /\ [Next]_vars /\ [UNext]_outVars /\ [SNext]_sleepVars /\ [PNext]_payloadVars
        /\ [ENext]_espVars /\ [JNext]_jsonVars
    BY SerialSteps
  <2>2. TypeOK' /\ CallInv'
    BY <2>1, TypeNext, CallInvNext DEF SerialInv
  <2>3. OutInv' /\ OutRoom' /\ OutFlags'
    BY <2>1, OutNextInv, OutRoomStep, OutTimesStep, OutStopsStep DEF SerialInv, OutFlags
  <2>4. SleepInv' /\ PayloadInv'
    BY <2>1, SleepInvStep, PayloadStep DEF SerialInv
  <2>5. SlotInv' /\ RunInv' /\ EspFields' /\ EspOrder' /\ EspCount'
    BY <2>1, CommandInv, EspFieldsStep, EspOrderStep, EspCountStep DEF SerialInv
  <2>6. JsonInv' /\ Within(json)'
    BY <2>1, JsonStep, JsonWithinStep DEF SerialInv
  <2> QED BY <2>2, <2>3, <2>4, <2>5, <2>6 DEF SerialInv
<1>2. SerialInv => SerialTypeOK
  BY OutTypesAre, SleepTypesAre, PayloadTypesAre, EspTypesAre, JsonTypesAre DEF SerialInv, SerialTypeOK
<1> QED BY SerialInit, <1>1, <1>2, PTL DEF MCSpec
=============================================================================
