------------------------------- MODULE Payload ------------------------------
(***************************************************************************)
(* The uplink payload: protocols/src/hexblob.c writes it, and              *)
(* lorawan_protocol/protocol.js, which the network server runs, reads it.  *)
(* A measurement is its name, whether it is single or averaged, and one or *)
(* three values (mean, min and max), each with the smallest type that      *)
(* holds it; one that does not fit is taken back.                          *)
(*                                                                         *)
(* A byte has 2 * HalfByte values, so that those at every boundary of 1, 2, *)
(* 4 and 8 bytes are small numbers; a name is NameLen times the same cell.  *)
(***************************************************************************)
EXTENDS Integers, Sequences

CONSTANTS HalfByte,   \* 128
          NameLen,    \* 4
          StrLen,     \* PROTOCOL_SEND_STR_LEN
          EnumBytes,  \* sizeof(measurements_value_type_t): 1 on the STM, or 4
          PayloadLen, \* PROTOCOL_HEX_ARRAY_SIZE
          Name,       \* the measurements
          Value,      \* the values a single one may have
          Sample      \* the samples of an averaged one

\* Names are numbers no type has.
ASSUME PayloadAssumption ==
  /\ {HalfByte, NameLen, StrLen, PayloadLen} \subseteq Nat \ {0} /\ EnumBytes \in {1, 4}
  /\ Value \subseteq Int /\ Sample \subseteq Int
  /\ \A n \in Name : n \in Nat /\ n > 100

VARIABLES ctx,     \* _protocol_ctx: the bytes of buf before pos
          entries, \* history: what was appended, and said to be
          err_ctx, \* history: the payload of the last error code, and
          err      \* ... the code, or -1

payloadVars == <<ctx, entries, err_ctx, err>>

-----------------------------------------------------------------------------
(* Writing.                                                                *)

\* How many values 1, 2, 4 and 8 bytes have.
Radix == 2 * HalfByte
Radix2 == Radix * Radix
Radix4 == Radix2 * Radix2
Limit(bytes) == CASE bytes = 1 -> Radix [] bytes = 2 -> Radix2 [] bytes = 4 -> Radix4
                  [] bytes = 8 -> Radix4 * Radix4
Signed32(v) == IF v >= Limit(4) \div 2 THEN v - Limit(4) ELSE v
Version == 2
Single == 1
Averaged == 2
Uint8 == 1
Uint16 == 2
Uint32 == 3
Uint64 == 4
Int8 == 17
Int16 == 18
Int32 == 19
Int64 == 20
Float == 21
Str == 32
Text == 99     \* a character

SizeOf(type) == CASE type \in {Uint8, Int8} -> 1
                  [] type \in {Uint16, Int16} -> 2
                  [] type \in {Uint32, Int32, Float} -> 4
                  [] type \in {Uint64, Int64} -> 8
                  [] type = Str -> StrLen
                  [] OTHER -> 0

CompressedType(v) ==
  CASE v >= Limit(4) -> Uint64
    [] v \in Limit(2)..(Limit(4) - 1) -> Uint32
    [] v \in Limit(1)..(Limit(2) - 1) -> Uint16
    [] v \in 1..(Limit(1) - 1) -> Uint8
    [] v \in -(Limit(1) \div 2)..0 -> Int8
    [] v \in -(Limit(2) \div 2)..(-(Limit(1) \div 2) - 1) -> Int16
    [] v \in -(Limit(4) \div 2)..(-(Limit(2) \div 2) - 1) -> Int32
    [] v < -(Limit(4) \div 2) -> Int64

\* Little endian, two's complement.
AppendI8(v) == <<v % Radix>>
AppendI16(v) == AppendI8(v) \o AppendI8(v \div Radix)
AppendI32(v) == AppendI16(v) \o AppendI16(v \div Radix2)
AppendI64(v) == AppendI32(v) \o AppendI32(v \div Radix4)
Bytes(v, n) == CASE n = 1 -> AppendI8(v) [] n = 2 -> AppendI16(v) [] n = 4 -> AppendI32(v)
                 [] n = 8 -> AppendI64(v)

DataI64(v) == LET type == CompressedType(v) IN <<type>> \o Bytes(v, SizeOf(type))
DataFloat(v) == <<Float>> \o Bytes(v, 4)
DataStr == <<Str>> \o [i \in 1..StrLen |-> Text]

\* Division as in C.
Quot(a, b) == IF a >= 0 THEN a \div b ELSE -((-a) \div b)

\* The values sent of a measurement: [kind, single, sum, n, min, max].
Sent(m) == IF m.single THEN <<m.sum>> ELSE <<Quot(m.sum, m.n), m.min, m.max>>

Flatten(s) == IF Len(s) = 1 THEN s[1] ELSE s[1] \o s[2] \o s[3]
Data(m) ==
  LET v == Sent(m)
  IN CASE m.kind = "i64" -> Flatten([i \in DOMAIN v |-> DataI64(v[i])])
       [] m.kind = "float" -> Flatten([i \in DOMAIN v |-> DataFloat(v[i])])
       [] m.kind = "str" -> DataStr

Entry(name, type, data) == [i \in 1..NameLen |-> name] \o (<<type>> \o data)
EntryOf(name, m) == Entry(name, IF m.single THEN Single ELSE Averaged, Data(m))

-----------------------------------------------------------------------------
(* The operations.                                                         *)

PInit == ctx = <<Version>> /\ entries = {} /\ err_ctx = <<>> /\ err = -1

ProtocolInit ==
  /\ ctx' = <<Version>> /\ entries' = {}
  /\ UNCHANGED <<err_ctx, err>>

\* Mutated form of AppendMeasurement: what did not fit stays, cut short.
AppendMeasurementNoRollback(name, m, e) ==
  LET all == ctx \o EntryOf(name, m)
  IN /\ ctx' = IF Len(all) <= PayloadLen THEN all ELSE SubSeq(all, 1, PayloadLen)
     /\ entries' = IF Len(all) <= PayloadLen THEN entries \cup {e} ELSE entries
     /\ UNCHANGED <<err_ctx, err>>

\* All of the entry, or before_pos again.
AppendMeasurement(name, m, e) ==
  /\ IF Len(ctx \o EntryOf(name, m)) <= PayloadLen
     THEN ctx' = ctx \o EntryOf(name, m) /\ entries' = entries \cup {e}
     ELSE UNCHANGED <<ctx, entries>>
  /\ UNCHANGED <<err_ctx, err>>

Fresh == Name \ {e.name : e \in entries}
Told(name, m) == [name |-> name, kind |-> m.kind, single |-> m.single,
                  instant |-> FALSE, values |-> Sent(m)]

AppendSingle == \E name \in Fresh, kind \in {"i64", "float", "str"}, v \in Value :
  LET m == [kind |-> kind, single |-> TRUE, sum |-> v, n |-> 1, min |-> v, max |-> v]
  IN /\ kind = "float" => Signed32(v % Limit(4)) = v   \* an int32_t
     /\ AppendMeasurement(name, m, Told(name, m))

AppendAveraged == \E name \in Fresh, kind \in {"i64", "float", "str"},
                     v, u \in Sample :
  LET m == [kind |-> kind, single |-> FALSE, sum |-> v + u, n |-> 2,
            min |-> IF v < u THEN v ELSE u, max |-> IF v < u THEN u ELSE v]
  IN AppendMeasurement(name, m, Told(name, m))

\* protocol_append_instant_measurement copies the bytes of an enum out of the
\* reading into a zeroed measurement.
AppendInstant == \E name \in Fresh, single \in BOOLEAN, v \in Value :
  AppendMeasurement(name,
    [kind |-> "i64", single |-> single, sum |-> v % Limit(EnumBytes), n |-> 1,
     min |-> 0, max |-> 0],
    [name |-> name, kind |-> "i64", single |-> single, instant |-> TRUE,
     values |-> <<v>>])

ErrName == 100
ErrEntry(code) == <<Version>> \o Entry(ErrName, Single, DataI64(code))

\* In a buffer of its own, also while a payload is being built: collecting for
\* an instant send runs the main loop, where a downlink may ask for one.
SendErrorCode == \E code \in 0..(Limit(1) - 1) :
  /\ err_ctx' = ErrEntry(code) /\ err' = code
  /\ UNCHANGED <<ctx, entries>>

PNext == ProtocolInit \/ AppendSingle \/ AppendAveraged \/ AppendInstant
         \/ SendErrorCode

PSpec == PInit /\ [][PNext]_payloadVars

-----------------------------------------------------------------------------
(* Reading: Decode of protocol.js, whose | and << are on 32 bits, so that a *)
(* shift by 32 is none.                                                     *)

ByteAt(b, p) == IF p \in DOMAIN b THEN b[p] ELSE 0

Decode_u16(b, p) == ByteAt(b, p + 1) * Limit(1) + ByteAt(b, p)
U32(b, p) == Decode_u16(b, p + 2) * Limit(2) + Decode_u16(b, p)
Decode_u32(b, p) == Signed32(U32(b, p))
Or[x \in Nat, y \in Nat] ==
  IF x = 0 \/ y = 0 THEN x + y
  ELSE 2 * Or[x \div 2, y \div 2] + (IF x % 2 = 1 \/ y % 2 = 1 THEN 1 ELSE 0)
Decode_u64(b, p) == Signed32(Or[U32(b, p + 4), U32(b, p)])
Decode_i8(b, p) ==
  IF ByteAt(b, p) > Limit(1) \div 2 THEN ByteAt(b, p) - Limit(1) ELSE ByteAt(b, p)
Decode_i16(b, p) == IF Decode_u16(b, p) >= Limit(2) \div 2
                    THEN Decode_u16(b, p) - Limit(2) ELSE Decode_u16(b, p)

Decode_i32(b, p) == LET v == Decode_u32(b, p)
                    IN IF v > (Limit(4) - 1) \div 2 THEN v - Limit(4) ELSE v
Decode_i64(b, p) == LET v == Decode_u64(b, p)
                    IN IF v > (Limit(8) - 1) \div 2 THEN v - (Limit(8) - 2) ELSE v

Decode_value(b, p) ==
  LET type == ByteAt(b, p)
  IN CASE type = Uint8 -> ByteAt(b, p + 1)
       [] type = Uint16 -> Decode_u16(b, p + 1)
       [] type = Uint32 -> Decode_u32(b, p + 1)
       [] type = Uint64 -> Decode_u64(b, p + 1)
       [] type \in {Int32, Float} -> Decode_i32(b, p + 1)
       [] type = Int64 -> Decode_i64(b, p + 1)
       [] type = Int8 -> Decode_i8(b, p + 1)
       [] type = Int16 -> Decode_i16(b, p + 1)
       [] type = Str -> ByteAt(b, p + 1)   \* by its characters
       [] OTHER -> 0

\* What is read of the entry at p: where its values start, ...
Many(b, p) == CASE p \in DOMAIN b /\ ByteAt(b, p + NameLen) = Single -> 1
                [] p \in DOMAIN b /\ ByteAt(b, p + NameLen) = Averaged -> 3
                [] OTHER -> 0
AfterValue(b, q) == q + 1 + SizeOf(ByteAt(b, q))
Start(b, p) == LET one == p + NameLen + 1
                   two == AfterValue(b, one)
                   three == AfterValue(b, two)
               IN  <<one, two, three, AfterValue(b, three)>>
\* ... and for each of them that is whole the name, which one it is, and the value.
IsWhole(b, p, i) == AfterValue(b, Start(b, p)[i]) <= Len(b) + 1
Read(b, p) == {<<ByteAt(b, p), i, Decode_value(b, Start(b, p)[i])>> :
                 i \in {j \in 1..Many(b, p) : IsWhole(b, p, j)}}

\* The loop: where the entry after that at p is; at 0 there is none.
After(b, p) == IF Many(b, p) # 0 /\ \A i \in 1..Many(b, p) : IsWhole(b, p, i)
               THEN Start(b, p)[Many(b, p) + 1] ELSE 0
EntryPos(b) == LET pos[k \in 0..Len(b)] == IF k = 0 THEN 2 ELSE After(b, pos[k - 1]) IN pos

Decode(b) == IF ByteAt(b, 1) \in {1, 2} THEN UNION {Read(b, EntryPos(b)[k]) : k \in 0..Len(b)} ELSE {}

-----------------------------------------------------------------------------
(* Properties.                                                             *)

PayloadTypeOK ==
  /\ Len(ctx) <= PayloadLen /\ ctx[1] = Version
  /\ {e.name : e \in entries} \subseteq Name
  /\ err \in -1..(Limit(1) - 1)

\* What the decoder returns as it was: not the least value of one byte, nor
\* what takes more than 31 bits.
Decodable(v) == v \in -(Limit(4) \div 2)..(Limit(4) \div 2 - 1)
                /\ v # -(Limit(1) \div 2)

\* An instant measurement is sent as an enum's worth of a single value, and an
\* averaged string as one value of three.
Survives(e) == /\ \A i \in DOMAIN e.values : e.kind # "str" => Decodable(e.values[i])
               /\ e.instant => e.single /\ e.values[1] \in 0..(Limit(EnumBytes) - 1)
Readable(e) == e.kind = "str" => e.single
ValuesOf(e) == IF e.kind = "str" THEN {<<e.name, 1, Text>>}
               ELSE {<<e.name, i, e.values[i]>> : i \in DOMAIN e.values}

\* The server reads from a payload the measurements appended to it and no
\* others, each with its values, however many fitted, whatever did not, and
\* with an error code sent in between; and the error code.
PayloadDecodes ==
  /\ (\A e \in entries : Readable(e)) =>
       LET read == Decode(ctx)
       IN /\ {t[1] : t \in read} = {e.name : e \in entries}
          /\ \A e \in entries : Survives(e) => ValuesOf(e) \subseteq read
  /\ err # -1 => Decode(err_ctx) = {<<ErrName, 1, err>>}
=============================================================================
