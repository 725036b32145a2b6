-------------------------------- MODULE Ring --------------------------------
(***************************************************************************)
(* core/src/ring.c: the byte ring every UART, the CAN receiver and the     *)
(* modbus queue are built on.  One producer (on the STM an interrupt       *)
(* handler, on the ESP32 and Linux a thread) adds bytes while one consumer *)
(* (the main loop) is inside one of the reading functions.                 *)
(*                                                                         *)
(* Every access of one side to a variable of the other is a step of its    *)
(* own.  The buffer holds Size - 1 bytes: w_pos never catches r_pos.       *)
(***************************************************************************)
EXTENDS Integers, Sequences

CONSTANTS Byte,        \* the bytes the producer may add
          Terminator,  \* those that end a line: '\n' and '\r'
          Size,        \* ring_buf->size
          MaxLen,      \* the longest request of the consumer
          Threaded,    \* TRUE: the producer is a thread; FALSE: an interrupt
          Overread     \* TRUE: the consumer may ask for more than is pending

ASSUME RingAssumption ==
  /\ Size \in Nat /\ Size >= 2
  /\ MaxLen \in Nat
  /\ Terminator \subseteq Byte
  /\ Threaded \in BOOLEAN
  /\ Overread \in BOOLEAN

VARIABLES
  buf, r_pos, w_pos,  \* ring_buf_t
  adding,             \* the producer is between its check and its w_pos store
  w_next,             \* ... and this is what it will store
  op,                 \* the consumer's call, or "idle"
  len,                \* its len
  toread,             \* readline: the pending bytes it found on entry
  pos,                \* its local r_pos
  held,               \* the byte it copied and has not checked, in a sequence
  out                 \* the bytes it has handed to its caller

ring == <<buf, r_pos, w_pos>>
producer == <<adding, w_next>>
consumer == <<op, len, toread, pos, held, out>>
vars == <<ring, producer, consumer>>

Slot == 0..(Size - 1)

\* Mutated form of Inc: the position does not wrap.
IncNoWrap(p) == p + 1

Inc(p) == (p + 1) % Size

\* ring_buf_get_pending.
Pending == IF r_pos <= w_pos THEN w_pos - r_pos ELSE Size - r_pos + w_pos

\* The i-th unread byte, and all of them.
At(i) == buf[(r_pos + i - 1) % Size]
Unread == [i \in 1..Pending |-> At(i)]

Init ==
  /\ buf \in [Slot -> Byte]      \* zeroed or left over: any content
  /\ r_pos = 0 /\ w_pos = 0
  /\ adding = FALSE /\ w_next = 0
  /\ op = "idle" /\ len = 0 /\ toread = 0 /\ pos = 0 /\ held = <<>> /\ out = <<>>

-----------------------------------------------------------------------------
(* The producer: ring_buf_add.                                             *)

\* Mutated form of AddStore: no full check.
AddStoreNoCheck(b) ==
  /\ ~adding
  /\ buf' = [buf EXCEPT ![w_pos] = b]
  /\ adding' = TRUE
  /\ w_next' = Inc(w_pos)
  /\ UNCHANGED <<r_pos, w_pos, consumer>>

\* The full check and the store of the byte; a full ring refuses the byte.
AddStore(b) ==
  /\ ~adding
  /\ Inc(w_pos) # r_pos
  /\ buf' = [buf EXCEPT ![w_pos] = b]
  /\ adding' = TRUE
  /\ w_next' = Inc(w_pos)
  /\ UNCHANGED <<r_pos, w_pos, consumer>>

AddPublish ==
  /\ adding
  /\ w_pos' = w_next
  /\ adding' = FALSE
  /\ UNCHANGED <<buf, r_pos, w_next, consumer>>

-----------------------------------------------------------------------------
(* The consumer.  An interrupt handler runs to its end before it resumes.  *)

MainMayRun == Threaded \/ ~adding

\* Entering a call: the parameters and the local copy of r_pos.
Call(name, k) ==
  /\ MainMayRun
  /\ op = "idle"
  /\ op' = name
  /\ len' = k
  /\ toread' = IF Pending > k THEN k ELSE Pending
  /\ pos' = r_pos
  /\ held' = <<>>
  /\ out' = <<>>
  /\ UNCHANGED <<ring, producer>>

Return == op' = "idle"

\* can_drain_array asks for more than may be there and looks at the count it
\* gets back; every other caller asks for what get_pending returned.
Request == {k \in 1..MaxLen : Overread \/ k <= Pending}

CallRead == \E k \in Request : Call("read", k)
CallPeek == \E k \in Request : Call("peek", k)
CallDiscard == \E k \in Request : Call("discard", k)
CallConsume == \E k \in Request : Call("consume", k)
CallClear == Call("clear", 0)

\* readline with room for k bytes and the final zero.
CallReadline == \E k \in 1..MaxLen : Pending > 0 /\ Call("readline", k)

\* read and peek copy the byte at the position before they compare it.
CopyByte ==
  /\ MainMayRun
  /\ op \in {"read", "peek"} /\ held = <<>>
  /\ held' = <<buf[pos]>>
  /\ UNCHANGED <<ring, producer, op, len, toread, pos, out>>

CheckByte ==
  /\ MainMayRun
  /\ held # <<>>
  /\ held' = <<>>
  /\ IF pos = w_pos
     THEN Return /\ UNCHANGED <<r_pos, pos, out>>
     ELSE /\ out' = out \o held
          /\ pos' = Inc(pos)
          /\ r_pos' = IF op = "read" THEN Inc(pos) ELSE r_pos
          /\ IF Len(out') = len THEN Return ELSE UNCHANGED op
  /\ UNCHANGED <<buf, w_pos, producer, len, toread>>

\* discard: len counts down to the bytes still to drop.
DiscardByte ==
  /\ MainMayRun
  /\ op = "discard"
  /\ IF pos = w_pos
     THEN Return /\ UNCHANGED <<r_pos, pos, len>>
     ELSE /\ pos' = Inc(pos)
          /\ r_pos' = Inc(pos)
          /\ len' = len - 1
          /\ IF len' = 0 THEN Return ELSE UNCHANGED op
  /\ UNCHANGED <<buf, w_pos, producer, toread, held, out>>

\* readline scans the bytes pending on entry, which the producer cannot touch.
LineEnds == {i \in 1..toread : At(i) \in Terminator}

\* Mutated forms of ScanLine: the byte behind a terminator always goes with
\* it; a line that fills the buffer stays.
ScanLineSkips ==
  /\ MainMayRun
  /\ op = "readline"
  /\ Return
  /\ \/ \E end \in LineEnds :
          /\ \A i \in LineEnds : end <= i
          /\ out' = SubSeq(Unread, 1, end - 1)
          /\ r_pos' = (r_pos + end + IF end < toread THEN 1 ELSE 0) % Size
     \/ /\ LineEnds = {} /\ toread = len
        /\ out' = SubSeq(Unread, 1, len)
        /\ r_pos' = (r_pos + len) % Size
     \/ /\ LineEnds = {} /\ toread < len
        /\ UNCHANGED <<r_pos, out>>
  /\ UNCHANGED <<buf, w_pos, producer, len, toread, pos, held>>

ScanLineStuck ==
  /\ MainMayRun
  /\ op = "readline"
  /\ Return
  /\ \/ \E end \in LineEnds :
          /\ \A i \in LineEnds : end <= i
          /\ out' = SubSeq(Unread, 1, end - 1)
          /\ r_pos' = (r_pos + end) % Size
     \/ LineEnds = {} /\ UNCHANGED <<r_pos, out>>
  /\ UNCHANGED <<buf, w_pos, producer, len, toread, pos, held>>

\* A line leaves with its terminator, and with the byte after it when that is
\* a pending terminator too; a line that fills the buffer leaves without one;
\* an unfinished line stays.
ScanLine ==
  /\ MainMayRun
  /\ op = "readline"
  /\ Return
  /\ \/ \E end \in LineEnds :
          /\ \A i \in LineEnds : end <= i
          /\ out' = SubSeq(Unread, 1, end - 1)
          /\ r_pos' = (r_pos + end + IF end + 1 \in LineEnds THEN 1 ELSE 0)
                        % Size
     \/ /\ LineEnds = {} /\ toread = len
        /\ out' = SubSeq(Unread, 1, len)
        /\ r_pos' = (r_pos + len) % Size
     \/ /\ LineEnds = {} /\ toread < len
        /\ UNCHANGED <<r_pos, out>>
  /\ UNCHANGED <<buf, w_pos, producer, len, toread, pos, held>>

\* consume copies up to len bytes out, ...
ConsumeByte ==
  /\ MainMayRun
  /\ op = "consume"
  /\ Len(out) < len /\ pos # w_pos
  /\ out' = Append(out, buf[pos])
  /\ pos' = Inc(pos)
  /\ UNCHANGED <<ring, producer, op, len, toread, held>>

\* Mutated form of ConsumeDone: no rewind over what the callback left.
ConsumeDoneNoRewind ==
  /\ MainMayRun
  /\ op = "consume"
  /\ Len(out) = len \/ pos = w_pos
  /\ Return
  /\ r_pos' = pos
  /\ \E consumed \in 0..Len(out) : out' = SubSeq(out, 1, consumed)
  /\ UNCHANGED <<buf, w_pos, producer, len, toread, pos, held>>

\* ... hands them to its callback, and rewinds over those it did not take.
ConsumeDone ==
  /\ MainMayRun
  /\ op = "consume"
  /\ Len(out) = len \/ pos = w_pos
  /\ Return
  /\ \E consumed \in 0..Len(out) :
       /\ r_pos' = (pos + Size - (Len(out) - consumed)) % Size
       /\ out' = SubSeq(out, 1, consumed)
  /\ UNCHANGED <<buf, w_pos, producer, len, toread, pos, held>>

\* ring_buf_clear: two stores, and the producer may run between them.
ClearRead ==
  /\ MainMayRun
  /\ op = "clear"
  /\ r_pos' = 0
  /\ op' = "clearing"
  /\ UNCHANGED <<buf, w_pos, producer, len, toread, pos, held, out>>

ClearWrite ==
  /\ MainMayRun
  /\ op = "clearing"
  /\ w_pos' = 0
  /\ Return
  /\ UNCHANGED <<buf, r_pos, producer, len, toread, pos, held, out>>

-----------------------------------------------------------------------------
Producer == (\E b \in Byte : AddStore(b)) \/ AddPublish

Consumer == \/ CallRead \/ CallPeek \/ CallDiscard \/ CallConsume
            \/ CallClear \/ CallReadline
            \/ CopyByte \/ CheckByte \/ DiscardByte \/ ScanLine
            \/ ConsumeByte \/ ConsumeDone
            \/ ClearRead \/ ClearWrite

Next == Producer \/ Consumer

Spec == Init /\ [][Next]_vars

-----------------------------------------------------------------------------
(* Properties.                                                             *)

\* The types of the variables.
TypeOK ==
  /\ buf \in [Slot -> Byte]
  /\ r_pos \in Slot /\ w_pos \in Slot /\ pos \in Slot
  /\ adding \in BOOLEAN /\ w_next \in Slot
  /\ op \in {"idle", "read", "peek", "discard", "consume", "readline",
             "clear", "clearing"}
  /\ len \in 0..MaxLen /\ toread \in 0..MaxLen
  /\ held = <<>> \/ \E b \in Byte : held = <<b>>
  /\ out \in Seq(Byte)

\* What each call relies on while it runs: its position is that of the next
\* unread byte it has not dealt with, that byte is pending, a byte it has
\* copied is still the one in the ring, and what consume has copied is a prefix
\* of what is unread.  (For an interrupt as producer, and requests of at most
\* what is pending.)
CallInv ==
  /\ adding => w_next = Inc(w_pos) /\ w_next # r_pos
  /\ held # <<>> => op \in {"read", "peek"} /\ held = <<buf[pos]>>
  /\ op = "read" => /\ pos = r_pos
                    /\ Len(out) < len /\ len - Len(out) <= Pending
  /\ op = "peek" => /\ pos = (r_pos + Len(out)) % Size
                    /\ Len(out) < len /\ len <= Pending
  /\ op = "discard" => /\ pos = r_pos /\ out = <<>>
                       /\ 1 <= len /\ len <= Pending
  /\ op = "consume" => /\ pos = (r_pos + Len(out)) % Size
                       /\ Len(out) <= len /\ len <= Pending
                       /\ \A i \in 1..Len(out) : out[i] = At(i)
  /\ op = "readline" => toread <= Pending /\ toread <= len
  /\ op = "clearing" => r_pos = 0

\* The ring is a bounded queue: bytes come out in the order they were
\* accepted, each once, and what the caller is handed is what leaves.  A
\* clear takes effect at its first store; bytes added before its second one
\* are lost with the rest.
Fifo == INSTANCE ByteFifo
          WITH Capacity <- Size - 1,
               fifo <- IF op = "clearing" THEN <<>> ELSE Unread,
               out <- out

Refines == Fifo!Spec
=============================================================================
