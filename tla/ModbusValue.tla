----------------------------- MODULE ModbusValue -----------------------------
(***************************************************************************)
(* The value of a modbus register: from the command that sets it to the    *)
(* bytes the slave is sent, and from those it answers to value_data        *)
(* (core/src/modbus.c, modbus_mem.c) and the measurement                   *)
(* (modbus_measurements.c).  A register has a type, its device an order of *)
(* the bytes in a word and one of the words.  Here a reply is the one      *)
(* asked for; Modbus is about those that are not.                          *)
(*                                                                         *)
(* A byte has 2 * HalfByte values.  A float is the number its bits are.    *)
(***************************************************************************)
EXTENDS Integers, Sequences

CONSTANTS HalfByte,  \* 128
          Number     \* those that commands and slaves give registers

ASSUME ModbusValueAssumption == HalfByte \in Nat \ {0} /\ Number \subseteq Int

Byte == 2 * HalfByte
HalfWord == HalfByte * Byte
Word == Byte * Byte
HalfLong == HalfWord * Word
Long == Word * Word

VARIABLES
  mb_reg,       \* its type, and byte_order and word_order of its device
  slave,        \* the bytes of the slave's register
  value_state,  \* "none", "waiting", "ready" or "invalid"
  value_data,
  set_expected, \* _modbus_reg_set_expected.value
  set_said,     \* mb_reg_set: "", "waits", "ok", "failed"
  holds,        \* history: the number the slave's register has, and had ...
  was_read      \* ... when it was last read

valueVars == <<mb_reg, slave, value_state, value_data, set_expected, set_said,
               holds, was_read>>

Small == {"U16", "I16"}
Large == {"U32", "I32", "FLOAT"}
Register == [type : Small \cup Large, bytes : {"MSB", "LSB"}, words : {"MSW", "LSW"}]

\* int16_t and int32_t.
Int16(v) == IF v < HalfWord THEN v ELSE v - Word
Int32(v) == IF v < HalfLong THEN v ELSE v - Long

-----------------------------------------------------------------------------
(* Writing.                                                                *)

AppendU16(v, r) ==
  IF r.bytes = "MSB" THEN <<v \div Byte, v % Byte>> ELSE <<v % Byte, v \div Byte>>

Both(first, second) == <<first[1], first[2], second[1], second[2]>>

\* Mutated form of AppendU32: the words always go most significant first.
AppendU32Msw(v, r) == Both(AppendU16(v \div Word, r), AppendU16(v % Word, r))

AppendU32(v, r) ==
  IF r.words = "MSW" THEN Both(AppendU16(v \div Word, r), AppendU16(v % Word, r))
                     ELSE Both(AppendU16(v % Word, r), AppendU16(v \div Word, r))

AppendValue(v, r) == IF r.type \in Small THEN AppendU16(v % Word, r) ELSE AppendU32(v, r)

\* Of a number that takes more than 32 bits it is undefined what a float
\* becomes; one of 32 bits loses its upper word to a type of 16.
Settable(x, r) == IF r.type \in {"I16", "I32"} THEN x \in -HalfLong..(HalfLong - 1)
                                               ELSE x \in 0..(Long - 1)
Meant(x, r) == CASE r.type = "U16" -> x % Word
                 [] r.type = "I16" -> Int16(x % Word)
                 [] OTHER -> x

-----------------------------------------------------------------------------
(* Reading.                                                                *)

DataToU16(first, second, r) ==
  IF r.bytes = "MSB" THEN first * Byte + second ELSE second * Byte + first

DataToU32(d, r) ==
  LET word_1 == DataToU16(d[1], d[2], r)
      word_2 == DataToU16(d[3], d[4], r)
  IN IF r.words = "MSW" THEN word_1 * Word + word_2 ELSE word_2 * Word + word_1

\* _modbus_reg_cb: an int16_t goes into the uint32_t with its sign.
RegValue(d, r) == CASE r.type = "U16" -> DataToU16(d[1], d[2], r)
                    [] r.type = "I16" -> Int16(DataToU16(d[1], d[2], r)) % Long
                    [] OTHER -> DataToU32(d, r)

\* modbus_reg_get_u16 and its like.
RegGet(v, r) == CASE r.type = "U16" -> v % Word
                  [] r.type = "I16" -> Int16(v % Word)
                  [] r.type = "I32" -> Int32(v)
                  [] OTHER -> v

\* _modbus_measurements_get.
Measurement == CASE value_state = "waiting" -> "busy"
                 [] value_state = "ready" -> RegGet(value_data, mb_reg)
                 [] OTHER -> "error"

-----------------------------------------------------------------------------
(* The device and the slave.                                               *)

\* The bytes of a number in the order a slave's manual gives: those of the
\* powers of a byte, 0 the least.
Power(v, k) == CASE k = 0 -> v % Byte
                 [] k = 1 -> (v \div Byte) % Byte
                 [] k = 2 -> (v \div Word) % Byte
                 [] k = 3 -> v \div (Word * Byte)
InOrder(v, r) ==
  LET p(k) == Power(v % Long, k)
  IN CASE r.type \in Small /\ r.bytes = "MSB" -> <<p(1), p(0)>>
       [] r.type \in Small /\ r.bytes = "LSB" -> <<p(0), p(1)>>
       [] r.type \in Large /\ r.bytes = "MSB" /\ r.words = "MSW" -> <<p(3), p(2), p(1), p(0)>>
       [] r.type \in Large /\ r.bytes = "LSB" /\ r.words = "MSW" -> <<p(2), p(3), p(0), p(1)>>
       [] r.type \in Large /\ r.bytes = "MSB" /\ r.words = "LSW" -> <<p(1), p(0), p(3), p(2)>>
       [] r.type \in Large /\ r.bytes = "LSB" /\ r.words = "LSW" -> <<p(0), p(1), p(2), p(3)>>

ValueInit ==
  /\ mb_reg \in Register
  /\ holds = 0 /\ slave = InOrder(0, mb_reg)
  /\ value_state = "none" /\ value_data = 0 /\ was_read = 0
  /\ set_expected = 0 /\ set_said = ""

ValuePending == value_state = "waiting" \/ set_said = "waits"

\* mb_reg_set: refused while anything is pending.  The slave stores the bytes.
SetValue == \E x \in Number :
  /\ Settable(x, mb_reg) /\ ~ValuePending
  /\ slave' = AppendValue(x % Long, mb_reg) /\ holds' = Meant(x, mb_reg)
  /\ set_expected' = IF mb_reg.type \in Small THEN x % Word ELSE 2
  /\ set_said' = "waits"
  /\ UNCHANGED <<mb_reg, value_state, value_data, was_read>>

\* The slave acknowledges several registers with their number, a single one
\* with its value, which is read most significant byte first.
SetAcknowledged ==
  /\ set_said = "waits"
  /\ set_said' = IF mb_reg.type \in Large \/ slave[1] * Byte + slave[2] = set_expected
                 THEN "ok" ELSE "failed"
  /\ UNCHANGED <<mb_reg, slave, value_state, value_data, set_expected, holds, was_read>>

ValueStartRead ==
  /\ ~ValuePending
  /\ value_state' = "waiting"
  /\ UNCHANGED <<mb_reg, slave, value_data, set_expected, set_said, holds, was_read>>

\* The slave's answer, or an exception or one of another length.
ValueReply ==
  /\ value_state = "waiting"
  /\ value_state' = "ready"
  /\ value_data' = RegValue(slave, mb_reg)
  /\ was_read' = holds
  /\ UNCHANGED <<mb_reg, slave, set_expected, set_said, holds>>
ValueRefused ==
  /\ value_state = "waiting"
  /\ value_state' = "invalid"
  /\ UNCHANGED <<mb_reg, slave, value_data, set_expected, set_said, holds, was_read>>

\* The slave measures something else; what a command wrote it takes first.
SlaveChanges == \E x \in Number :
  /\ Settable(x, mb_reg) /\ set_said # "waits"
  /\ slave' = InOrder(x, mb_reg) /\ holds' = Meant(x, mb_reg)
  /\ UNCHANGED <<mb_reg, value_state, value_data, set_expected, set_said, was_read>>

ValueNext == \/ SetValue \/ SetAcknowledged
             \/ ValueStartRead \/ ValueReply \/ ValueRefused
             \/ SlaveChanges

ValueSpec == ValueInit /\ [][ValueNext]_valueVars

-----------------------------------------------------------------------------
(* Properties.                                                             *)

\* What a command sets is what the slave has, and what is measured is what the
\* slave had when it was read: for every type and both orders.  The slave's
\* word that it was set is understood, but for that of a device that sends a
\* word's least significant byte first.
ValueSurvives ==
  /\ slave = InOrder(holds, mb_reg)
  /\ value_state = "ready" => Measurement = was_read
  /\ set_said = "failed" => mb_reg.type \in Small /\ mb_reg.bytes = "LSB"
==============================================================================
