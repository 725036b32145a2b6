------------------------------- MODULE EspJson ------------------------------
(***************************************************************************)
(* The measurements of the ESP32 (ports/esp32/src/protocol.c): a JSON      *)
(* object built in a buffer and published over MQTT.  A token has a length *)
(* and is appended only if JSON_CLOSE_SIZE bytes stay free behind it.      *)
(***************************************************************************)
EXTENDS Esp32

CONSTANTS JsonSize,   \* JSON_BUF_SIZE
          ItemSizes,  \* the lengths of "name" : value
          MaxItems    \* bound: measurements in an object

CloseSize == 2  \* JSON_CLOSE_SIZE

\* The buffer holds the brace that begins an object and the one that ends it.
ASSUME JsonAssumption ==
  JsonSize \in Nat /\ JsonSize > CloseSize + 1 /\ ItemSizes \subseteq Nat \ {0}

VARIABLES
  connected,  \* _has_mqtt, which the WiFi and MQTT tasks set
  json,       \* _json_buf up to _json_buf_pos, as tokens [t, size]
  full,       \* an append was refused: the measurements go on to send
  told,       \* history: the items appended
  left,       \* history: a comma was left behind
  published   \* history: the last object published: its text, what was told to
              \* be in it, and whether a comma was left behind

jsonVars == <<connected, json, full, told, left, published>>

JInit == /\ connected \in BOOLEAN
         /\ json = <<>> /\ full = FALSE /\ told = <<>> /\ left = FALSE
         /\ published = [text |-> <<>>, items |-> <<>>, left |-> FALSE]

-----------------------------------------------------------------------------
(* Appending.                                                              *)

Tok(t, size) == [t |-> t, size |-> size]
Open == Tok(0, 1)     \* the braces and the comma
Comma == Tok(-1, 1)
Close == Tok(-2, 1)

\* _json_buf_pos.
Pos(s) ==
  LET pos[i \in 0..Len(s)] == IF i = 0 THEN 0 ELSE pos[i - 1] + s[i].size
  IN pos[Len(s)]

\* vsnprintf, and the look at what it would have written.
Fits(s, token) == token.size + CloseSize < JsonSize - Pos(s)

\* _protocol_append_meas: a comma first unless the object is new.
Opened(s) == s[Len(s)] = Open
WithComma(s) == IF Opened(s) THEN s ELSE Append(s, Comma)
FitsMeas(s, token) == (Opened(s) \/ Fits(s, Comma)) /\ Fits(WithComma(s), token)
AppendMeas(s, token) ==
  IF FitsMeas(s, token) THEN Append(WithComma(s), token)
  ELSE IF Opened(s) \/ ~Fits(s, Comma) THEN s ELSE Append(s, Comma)

\* protocol_init.
JsonBegin ==
  /\ connected
  /\ json' = <<Open>>
  /\ full' = FALSE /\ told' = <<>> /\ left' = FALSE
  /\ UNCHANGED <<connected, published>>

Building == json # <<>> /\ ~full /\ Len(told) < MaxItems

\* A measurement of one sample: one item, and what was written stays.
JsonSingle == \E size \in ItemSizes :
  LET token == Tok(Len(told) + 1, size)
  IN /\ Building
     /\ json' = IF connected THEN AppendMeas(json, token) ELSE json
     /\ full' = ~(connected /\ FitsMeas(json, token))
     /\ told' = IF full' THEN told ELSE Append(told, token)
     /\ left' = (full' /\ json' # json)
     /\ UNCHANGED <<connected, published>>

\* One of several: mean, min and max, or init_pos again.
JsonAveraged == \E size \in ItemSizes :
  LET mean == Tok(Len(told) + 1, size)
      min == Tok(Len(told) + 2, size)
      max == Tok(Len(told) + 3, size)
      one == AppendMeas(json, mean)
      two == AppendMeas(one, min)
      all == FitsMeas(json, mean) /\ FitsMeas(one, min) /\ FitsMeas(two, max)
  IN /\ Building
     /\ full' = ~(connected /\ all)
     /\ json' = IF full' THEN json ELSE AppendMeas(two, max)
     /\ told' = IF full' THEN told ELSE told \o <<mean, min, max>>
     /\ UNCHANGED <<connected, left, published>>

\* protocol_send: the closing brace, or nothing is sent; what was built stays
\* in the buffer until the next protocol_init.
JsonSend ==
  /\ json # <<>>
  /\ IF Fits(json, Close)
     THEN published' = [text |-> Append(json, Close), items |-> told,
                        left |-> left]
     ELSE UNCHANGED published
  /\ json' = <<>> /\ full' = FALSE /\ told' = <<>> /\ left' = FALSE
  /\ UNCHANGED connected

\* The tasks, at any time.
MqttChanges == connected' = ~connected /\ UNCHANGED <<json, full, told, left, published>>

JNext == JsonBegin \/ JsonSingle \/ JsonAveraged \/ JsonSend \/ MqttChanges
JSpec == JInit /\ [][JNext]_jsonVars

-----------------------------------------------------------------------------
(* Properties.                                                             *)

JsonTypeOK == /\ connected \in BOOLEAN
              /\ json = <<>> \/ json[1] = Open
              /\ Pos(json) + CloseSize < JsonSize

\* The object so far: the brace, and the items with commas between them.
Object(items) ==
  [i \in 1..(IF items = <<>> THEN 1 ELSE 2 * Len(items)) |->
     IF i = 1 THEN Open ELSE IF i % 2 = 0 THEN items[i \div 2] ELSE Comma]

\* What is published is an object of all the measurements that were said to be
\* appended, each whole, and of no part of one that was not; but for the comma
\* that a measurement of one sample leaves behind when only that fits.
JsonIsWhole ==
  published.text # <<>> =>
    published.text = Object(published.items)
                     \o (IF published.left THEN <<Comma>> ELSE <<>>) \o <<Close>>

\* What goes to the broker and what comes from it is whole.
EspIsWhole == JsonIsWhole /\ CommandIsWhole
=============================================================================
