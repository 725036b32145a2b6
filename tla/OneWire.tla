-------------------------------- MODULE OneWire --------------------------------
(***************************************************************************)
(* The temperature probe (sensors/src/ds18b20.c) at the end of a one-wire  *)
(* line that the main loop times itself (ports/stm/src/w1.c), with the     *)
(* probe as it reads the line.  Interrupts are not held off: one that runs *)
(* within a slot makes a 1 that is sent a 0, and a 0 that is read a 1.     *)
(*                                                                         *)
(* A slot of the line is a step.  A check sum holds for what was sent, and *)
(* for zeros.                                                              *)
(***************************************************************************)
EXTENDS Integers, Sequences

CONSTANTS
  RawTemps,    \* what the probe may measure: its 16 bits
  MaxW1Faults  \* bound: slots spoilt by an interrupt, and faults of the line

NoTemp == 99999      \* an error: no temperature is told
Word == 65535         \* a register of the probe is 16 bits
ASSUME OneWireAssumption == RawTemps \subseteq 1..Word /\ MaxW1Faults \in Nat

VARIABLES
  w1_todo,     \* the slots still to do of what the driver does
  w1_out,      \* the pin is an output
  w1_read,     \* the bits read
  w1_line,     \* "good", "open": no probe, "short": always low
  probe,       \* its mode, the bits heard, its memory, what it sends next
  sampled,     \* history: the temperature when the sample was begun
  w1_told,     \* what the last collect returned: sixteenths of a degree, or NoTemp
  w1_step,     \* "idle", "init", "waiting", "collect"
  w1_faults, w1_init_faults

w1Vars == <<w1_todo, w1_out, w1_read, w1_line, probe, sampled, w1_told, w1_step, w1_faults, w1_init_faults>>

Bit(v, i) == (v \div 2 ^ i) % 2
SkipRom == 204       \* 0xCC
ConvT == 68          \* 0x44
ReadScp == 190       \* 0xBE
Bits(byte) == [i \in 1..8 |-> Bit(byte, i - 1)]
ValueOf(bits) == LET sum[i \in 0..Len(bits)] == IF i = 0 THEN 0 ELSE sum[i - 1] + bits[i] * 2 ^ (i - 1)
                 IN  sum[Len(bits)]

Slot(op, bit) == [op |-> op, bit |-> bit]
\* w1_send_byte: the pin is turned round for each byte
SendByte(b) == [i \in 1..10 |-> CASE i = 1 -> Slot("out", 0)
                                  [] i \in 2..9 -> Slot("send", Bits(b)[i - 1])
                                  [] i = 10 -> Slot("in", 0)]
\* w1_reset, two bytes, and w1_read_byte: all that is ever done
Exchange(function, bits) ==
  [i \in 1..(21 + bits) |-> CASE i = 1 -> Slot("reset", 0)
                              [] i \in 2..11 -> SendByte(SkipRom)[i - 1]
                              [] i \in 12..21 -> SendByte(function)[i - 11]
                              [] i > 21 -> Slot("read", 0)]

\* The probe after a reset, and when it has heard a bit
Hears(bit) ==
  LET heard == Append(probe.heard, bit)
  IN  IF Len(heard) < 8 THEN [probe EXCEPT !.heard = heard]
      ELSE [probe EXCEPT !.heard = <<>>, !.mode =
              CASE probe.mode = "rom" /\ heard = Bits(SkipRom) -> "function"
                [] probe.mode = "function" /\ heard = Bits(ReadScp) -> "sending"
                [] OTHER -> "deaf",
            !.memory = IF probe.mode = "function" /\ heard = Bits(ConvT) THEN sampled ELSE @,
            !.next = 0]

W1Fault == w1_faults < MaxW1Faults /\ w1_faults' = w1_faults + 1
           /\ w1_init_faults' = w1_init_faults + (IF w1_step = "init" THEN 1 ELSE 0)
NoW1Fault == UNCHANGED <<w1_faults, w1_init_faults>>

\* w1_reset: low is the presence of a probe, high after it a line that is let go
ResetSlot ==
  /\ w1_todo # <<>> /\ Head(w1_todo).op = "reset" /\ w1_out' = FALSE
  /\ IF w1_line = "good"
     THEN /\ probe' = [probe EXCEPT !.mode = "rom", !.heard = <<>>]
          /\ w1_todo' = Tail(w1_todo) /\ UNCHANGED <<w1_step, w1_told>>
     ELSE /\ w1_todo' = <<>> /\ w1_step' = "idle" /\ w1_told' = NoTemp /\ UNCHANGED probe   \* ERROR
  /\ UNCHANGED <<w1_read, w1_line, sampled>> /\ NoW1Fault

\* _w1_set_direction
TurnSlot ==
  /\ w1_todo # <<>> /\ Head(w1_todo).op \in {"in", "out"}
  /\ w1_out' = (Head(w1_todo).op = "out") /\ w1_todo' = Tail(w1_todo)
  /\ UNCHANGED <<w1_read, w1_line, probe, sampled, w1_told, w1_step>> /\ NoW1Fault

\* _w1_send_bit: a pulse, that is long for a 0
SendSlot ==
  /\ w1_todo # <<>> /\ Head(w1_todo).op = "send" /\ w1_todo' = Tail(w1_todo)
  /\ \E late \in BOOLEAN :
       /\ IF late THEN Head(w1_todo).bit = 1 /\ W1Fault ELSE NoW1Fault
       /\ probe' = IF w1_out /\ w1_line = "good" /\ probe.mode \in {"rom", "function"}
                   THEN Hears(IF late THEN 0 ELSE Head(w1_todo).bit) ELSE probe
  /\ UNCHANGED <<w1_out, w1_read, w1_line, sampled, w1_told, w1_step>>

\* _w1_read_bit: the probe answers a short pulse, with a longer one for a 0
ReadSlot ==
  /\ w1_todo # <<>> /\ Head(w1_todo).op = "read" /\ w1_todo' = Tail(w1_todo) /\ w1_out' = FALSE
  /\ LET sends == w1_line = "good" /\ probe.mode = "sending"
         level == IF w1_line = "short" THEN 0 ELSE IF sends THEN Bit(probe.memory, probe.next) ELSE 1
     IN  /\ \E late \in BOOLEAN :
              /\ IF late THEN level = 0 /\ w1_line = "good" /\ W1Fault ELSE NoW1Fault
              /\ w1_read' = Append(w1_read, IF late THEN 1 ELSE level)
         /\ probe' = IF sends THEN [probe EXCEPT !.next = @ + 1] ELSE probe
  /\ UNCHANGED <<w1_line, sampled, w1_told, w1_step>>

\* The line breaks, is shorted, or is mended.
W1Line ==
  /\ \/ w1_line = "good" /\ w1_line' \in {"open", "short"} /\ W1Fault
     \/ w1_line # "good" /\ w1_line' = "good" /\ NoW1Fault
  /\ probe' = [probe EXCEPT !.mode = "deaf"]
  /\ UNCHANGED <<w1_todo, w1_out, w1_read, sampled, w1_told, w1_step>>

\* _ds18b20_measurements_init
DsInit(t) ==
  /\ w1_step = "idle" /\ w1_todo = <<>> /\ w1_step' = "init" /\ sampled' = t
  /\ w1_todo' = Exchange(ConvT, 0)
  /\ w1_told' = NoTemp /\ w1_init_faults' = 0
  /\ UNCHANGED <<w1_out, w1_read, w1_line, probe, w1_faults>>
\* ... the conversion time
DsWait ==
  /\ w1_step = "init" /\ w1_todo = <<>> /\ w1_step' = "waiting"
  /\ UNCHANGED <<w1_todo, w1_out, w1_read, w1_line, probe, sampled, w1_told>> /\ NoW1Fault
\* _ds18b20_measurements_collect
DsCollect ==
  /\ w1_step = "waiting" /\ w1_step' = "collect" /\ w1_read' = <<>>
  /\ w1_todo' = Exchange(ReadScp, 16)
  /\ UNCHANGED <<w1_out, w1_line, probe, sampled, w1_told>> /\ NoW1Fault

\* Mutated: a negative value is not one more
SixteenthsBelow(t) ==
  LET whole == t \div 16  part == t % 16
  IN  IF t < 32768 THEN whole * 16 + part ELSE (whole - 4096) * 16 - ((16 - part) % 16)
\* what integer_bits and decimal_bits are, together
Sixteenths(t) ==
  LET whole == t \div 16  part == t % 16
      above == whole - 4096 + 1                      \* | 0xF000, + 1
  IN  IF t < 32768 THEN whole * 16 + part
      ELSE IF part = 0 THEN (above - 1) * 16 ELSE above * 16 + (part - 16)

\* _ds18b20_crc_check, _ds18b20_empty_check
Checked(t) == (t = probe.memory \/ t = 0) /\ t # 0
DsGot ==
  /\ w1_step = "collect" /\ w1_todo = <<>> /\ w1_step' = "idle"
  /\ w1_told' = IF Checked(ValueOf(w1_read)) THEN Sixteenths(ValueOf(w1_read)) ELSE NoTemp
  /\ UNCHANGED <<w1_todo, w1_out, w1_read, w1_line, probe, sampled>> /\ NoW1Fault

PowerUpTemp == 1360      \* what the probe holds before its first conversion: 85 degrees
W1Init ==
  /\ w1_todo = <<>> /\ w1_out = FALSE /\ w1_read = <<>> /\ w1_line = "good" /\ sampled = 0
  /\ probe = [mode |-> "deaf", heard |-> <<>>, memory |-> PowerUpTemp, next |-> 0]
  /\ w1_told = NoTemp /\ w1_step = "idle" /\ w1_faults = 0 /\ w1_init_faults = 0
W1Next == \/ ResetSlot \/ TurnSlot \/ SendSlot \/ ReadSlot \/ W1Line \/ DsWait \/ DsCollect \/ DsGot
          \/ \E t \in RawTemps : DsInit(t)
W1Spec == W1Init /\ [][W1Next]_w1Vars
--------------------------------------------------------------------------------
(* What the variables hold; between what the driver does the line is let go. *)
W1TypeOK == /\ Len(w1_todo) <= 37 /\ Len(w1_read) <= 16 /\ Len(probe.heard) < 8 /\ probe.next \in 0..16
            /\ w1_step \in {"idle", "init", "waiting", "collect"} /\ (w1_step = "idle" => w1_todo = <<>>)
            /\ (w1_step \in {"idle", "waiting"} => ~w1_out)

Signed(t) == IF t < 32768 THEN t ELSE t - 65536
(* What is told is the temperature of this sample, to its sign and its      *)
(* sixteenths, whatever interrupts and faults come while it is collected.   *)
(* (One that spoils the command to convert leaves the one of before.)       *)
ToldIsSampled == w1_told # NoTemp /\ w1_init_faults = 0 => w1_told = Signed(sampled)
(* What is told is a temperature the probe held: never what an interrupt, a *)
(* break or a short made of it.                                             *)
ToldIsOfProbe == w1_told # NoTemp => w1_told \in {Signed(t) : t \in RawTemps \union {PowerUpTemp}}

(* The temperature told is the probe's, of this sample.                     *)
ProbeIsTold == ToldIsSampled /\ ToldIsOfProbe
================================================================================
