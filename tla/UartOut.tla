------------------------------ MODULE UartOut -------------------------------
(***************************************************************************)
(* What a UART sends (core/src/uart_rings.c, ports/stm/src/uarts.c): the   *)
(* out-ring, the DMA that empties it, the transmitter's two registers and, *)
(* on the RS-485 line, the driver that modbus_uart_ring_do_out_drain       *)
(* (core/src/modbus.c) turns on before and off after a frame.              *)
(*                                                                         *)
(* line says which UART it is: the debug one, where an interrupt handler   *)
(* may log while the main loop does, or the RS-485 one, which only the     *)
(* main loop writes.  A byte is <<l, i>>, the i-th of the l-th line given; *)
(* Raw is one of those platform_raw_msg writes past the ring.              *)
(***************************************************************************)
EXTENDS Integers, Sequences

CONSTANTS OutSize,     \* the ring's size
          PacketSize,  \* DMA_DATA_PCK_SZ
          LongestLine, \* the longest line given, in bytes
          StartDelay,  \* modbus_start_delay and
          StopDelay,   \* modbus_stop_delay, in byte times
          MaxLines     \* bound: lines given in a behaviour

\* The delays are 3.5 characters, or 0 and 1 with the binary protocol.
ASSUME UartOutAssumption ==
  /\ OutSize \in Nat /\ OutSize >= 2
  /\ PacketSize \in Nat \ {0} /\ LongestLine \in Nat
  /\ StartDelay \in Nat /\ StopDelay \in Nat \ {0} /\ MaxLines \in Nat

VARIABLES
  line,           \* "debug" or "rs485"
  sending,        \* ring_out_bufs: the bytes published
  text,           \* what main's uart_ring_out is copying from (log_buffer)
  copied,         \* its n
  slot,           \* w_next of the byte it stored and has not published, or 0
  lately,         \* last_sent is less than UART_RATE_LIMIT_MS ago
  raw,            \* platform_raw_msg: "" none, "wait" for TXE, "go" to write
  doing_dma,      \* uart_doing_dma
  dma,            \* what is left of the DMA's transfer from uart_dma_buf
  tdr, shift,     \* the transmitter: empty or one byte each
  driver,         \* rs485_transmitting: the RS-485 driver is on
  stopping,       \* rs485_transmit_stopping
  start_age, stop_age,  \* byte times since rs485_start/stop_transmitting
  wire,           \* history: the bytes of the ring sent
  accepted,       \* history: the bytes the ring took
  count,          \* history: the lines given
  spoilt          \* history: what befell them (see below)

ring_out == <<sending, text, copied, slot, lately>>
transmitter == <<doing_dma, dma, tdr, shift, wire>>
rs485 == <<driver, stopping, start_age, stop_age>>
outVars == <<line, ring_out, raw, transmitter, rs485, accepted, count, spoilt>>

UInit ==
  /\ line \in {"debug", "rs485"}
  /\ sending = <<>> /\ text = <<>> /\ copied = 0 /\ slot = 0 /\ lately = FALSE
  /\ raw = "" /\ doing_dma = FALSE /\ dma = <<>> /\ tdr = <<>> /\ shift = <<>>
  /\ driver = FALSE /\ stopping = FALSE /\ start_age = 0 /\ stop_age = 0
  /\ wire = <<>> /\ accepted = <<>> /\ count = 0 /\ spoilt = {}

-----------------------------------------------------------------------------
(* uart_ring_out.                                                          *)

Raw == <<0, 0>>
Room == OutSize - 1 - Len(sending)
OfRing(one) == IF one = <<Raw>> THEN <<>> ELSE one   \* what of it the ring gave
Line(k) == [i \in 1..k |-> <<count + 1, i>>]
Least(m, n) == IF m <= n THEN m ELSE n

\* The main loop is in neither uart_ring_out nor platform_raw_msg.
MainFree == text = <<>> /\ raw = ""

\* A line given while the driver waits to go off finds stopping set, and
\* rs485_stop_transmitting will still be the time of the line before.
Give == \E k \in 1..LongestLine :
  /\ MainFree
  /\ count < MaxLines
  /\ text' = Line(k) /\ copied' = 0
  /\ count' = count + 1
  /\ spoilt' = IF stopping THEN spoilt \cup {"stopping"} ELSE spoilt
  /\ UNCHANGED <<line, sending, slot, lately, raw, transmitter, rs485, accepted>>

\* n + 1 of the line, or the end of the call.
NextByte == IF copied + 1 = Len(text) THEN text' = <<>> /\ copied' = 0
                                      ELSE copied' = copied + 1 /\ UNCHANGED text

\* ring_buf_add: the full check and the store.  The first byte a full ring
\* refuses ends the call with a message; those of the next 250 ms are dropped.
StoreByte ==
  /\ text # <<>> /\ slot = 0 /\ raw = ""
  /\ \/ /\ Room > 0
        /\ slot' = Len(sending) + 1
        /\ UNCHANGED <<text, copied, lately, raw>>
     \/ /\ Room = 0 /\ lately
        /\ NextByte
        /\ UNCHANGED <<slot, lately, raw>>
     \/ /\ Room = 0 /\ ~lately
        /\ lately' = TRUE
        /\ text' = <<>> /\ copied' = 0
        /\ raw' = IF line = "debug" THEN "wait" ELSE ""
        /\ UNCHANGED slot
  /\ UNCHANGED <<line, sending, transmitter, rs485, accepted, count, spoilt>>

\* ... and its store of w_pos.  What an interrupt added in between is cut off
\* again, but for its first byte, which took the slot.
PublishByte ==
  /\ slot # 0 /\ raw = ""
  /\ sending' = IF Len(sending) >= slot THEN SubSeq(sending, 1, slot)
                ELSE Append(sending, text[copied + 1])
  /\ accepted' = Append(accepted, text[copied + 1])
  /\ slot' = 0
  /\ NextByte
  /\ UNCHANGED <<line, lately, raw, transmitter, rs485, count, spoilt>>

\* log_error in an interrupt handler: it rewrites log_buffer, from which main
\* may be copying, and adds its own line.
IsrLog == \E k \in 1..LongestLine :
  /\ line = "debug" /\ raw = "" /\ count < MaxLines
  /\ LET fit == Least(k, Room)
     IN /\ sending' = sending \o SubSeq(Line(k), 1, fit)
        /\ accepted' = accepted \o SubSeq(Line(k), 1, fit)
        /\ lately' = (lately \/ fit < k)
        /\ raw' = IF fit < k /\ ~lately THEN "wait" ELSE raw
  /\ text' = [i \in DOMAIN text |-> IF i <= k THEN Line(k)[i] ELSE text[i]]
  /\ count' = count + 1
  /\ spoilt' = IF text # <<>> THEN spoilt \cup {"shared"} ELSE spoilt
  /\ UNCHANGED <<line, copied, slot, transmitter, rs485>>

RateLimitPasses ==
  /\ lately /\ lately' = FALSE
  /\ UNCHANGED <<line, sending, text, copied, slot, raw, transmitter, rs485,
                 accepted, count, spoilt>>

\* usart_send_blocking: wait for TXE, then write; the DMA may write between.
RawReady ==
  /\ raw = "wait" /\ tdr = <<>> /\ raw' = "go"
  /\ UNCHANGED <<line, ring_out, transmitter, rs485, accepted, count, spoilt>>
RawWrite ==
  /\ raw = "go" /\ raw' = ""
  /\ tdr' = <<Raw>>
  /\ spoilt' = IF tdr # <<>> THEN spoilt \cup {"raw"} ELSE spoilt
  /\ UNCHANGED <<line, ring_out, doing_dma, dma, shift, wire, rs485, accepted,
                 count>>

-----------------------------------------------------------------------------
(* uart_ring_out_drain, by the main loop.                                  *)

TxEmpty == ~doing_dma /\ tdr = <<>>   \* uart_is_tx_empty

\* Mutated form of Consume: without the look at uart_is_tx_empty the bytes are
\* copied over those the DMA is sending before uart_dma_out refuses them.
ConsumeBusy ==
  LET n == Least(Len(sending), PacketSize)
  IN IF TxEmpty
     THEN /\ sending' = SubSeq(sending, n + 1, Len(sending))
          /\ IF n = 1
             THEN tdr' = <<Head(sending)>> /\ UNCHANGED <<doing_dma, dma>>
             ELSE /\ doing_dma' = TRUE /\ dma' = SubSeq(sending, 1, n)
                  /\ UNCHANGED tdr
     ELSE /\ dma' = SubSeq(sending, 1, Least(n, Len(dma)))
          /\ UNCHANGED <<sending, doing_dma, tdr>>

\* ring_buf_consume into uart_dma_buf, and uart_dma_out: one byte goes to the
\* transmitter directly.
Consume ==
  LET n == Least(Len(sending), PacketSize)
  IN /\ TxEmpty
     /\ sending' = SubSeq(sending, n + 1, Len(sending))
     /\ IF n = 1
        THEN tdr' = <<Head(sending)>> /\ UNCHANGED <<doing_dma, dma>>
        ELSE /\ doing_dma' = TRUE /\ dma' = SubSeq(sending, 1, n)
             /\ UNCHANGED tdr

OutDrain ==
  /\ MainFree /\ sending # <<>>
  /\ line = "rs485" => driver /\ start_age >= StartDelay
  /\ Consume
  /\ UNCHANGED <<line, text, copied, slot, lately, raw, shift, wire, rs485,
                 accepted, count, spoilt>>

\* modbus_uart_ring_do_out_drain: the driver goes on StartDelay before the
\* first byte ...
DriverOn ==
  /\ line = "rs485" /\ MainFree
  /\ sending # <<>> /\ ~driver
  /\ driver' = TRUE /\ start_age' = 0
  /\ UNCHANGED <<line, ring_out, raw, transmitter, stopping, stop_age, accepted,
                 count, spoilt>>

\* ... and off more than StopDelay after the transmitter took the last one.
StopBegins ==
  /\ line = "rs485" /\ MainFree
  /\ sending = <<>> /\ driver /\ TxEmpty /\ ~stopping
  /\ stopping' = TRUE /\ stop_age' = 0
  /\ UNCHANGED <<line, ring_out, raw, transmitter, driver, start_age, accepted,
                 count, spoilt>>
DriverOff ==
  /\ line = "rs485" /\ MainFree
  /\ sending = <<>> /\ TxEmpty /\ stopping
  /\ stop_age > StopDelay
  /\ driver' = FALSE /\ stopping' = FALSE
  /\ UNCHANGED <<line, ring_out, raw, transmitter, start_age, stop_age, accepted,
                 count, spoilt>>

-----------------------------------------------------------------------------
(* The hardware, and process_complete_dma.                                 *)

DmaStep ==
  /\ doing_dma /\ dma # <<>> /\ tdr = <<>>
  /\ tdr' = <<Head(dma)>> /\ dma' = Tail(dma)
  /\ UNCHANGED <<line, ring_out, raw, doing_dma, shift, wire, rs485, accepted,
                 count, spoilt>>

ToShift ==
  /\ tdr # <<>> /\ shift = <<>>
  /\ shift' = tdr /\ tdr' = <<>>
  /\ UNCHANGED <<line, ring_out, raw, doing_dma, dma, wire, rs485, accepted,
                 count, spoilt>>

\* Mutated form of DmaIsr: the interrupt forgets uart_doing_dma.
DmaIsrForgets ==
  /\ doing_dma /\ dma = <<>>
  /\ UNCHANGED <<line, ring_out, raw, doing_dma, dma, tdr, shift, wire, rs485,
                 accepted, count, spoilt>>

DmaIsr ==
  /\ doing_dma /\ dma = <<>>
  /\ doing_dma' = FALSE
  /\ UNCHANGED <<line, ring_out, raw, dma, tdr, shift, wire, rs485, accepted,
                 count, spoilt>>

\* A byte time passes.  The byte reaches the line if the driver is on.
ByteTime ==
  /\ shift # <<>> \/ tdr = <<>>
  /\ tdr # <<>> \/ dma = <<>>
  /\ shift # <<>> \/ (driver /\ (start_age < StartDelay
                                 \/ (stopping /\ stop_age <= StopDelay)))
  /\ wire' = IF line = "rs485" => driver THEN wire \o OfRing(shift) ELSE wire
  /\ shift' = <<>>
  /\ start_age' = Least(start_age + 1, StartDelay)
  /\ stop_age' = Least(stop_age + 1, StopDelay + 1)
  /\ UNCHANGED <<line, ring_out, raw, doing_dma, dma, tdr, driver, stopping,
                 accepted, count, spoilt>>

-----------------------------------------------------------------------------

MainPass == StoreByte \/ PublishByte \/ OutDrain \/ DriverOn \/ StopBegins
            \/ DriverOff \/ RawReady \/ RawWrite
Hardware == DmaStep \/ ToShift \/ DmaIsr \/ ByteTime

UNext == Give \/ IsrLog \/ RateLimitPasses \/ MainPass \/ Hardware

\* The main loop goes on, and so does the hardware.
USpec == UInit /\ [][UNext]_outVars /\ WF_outVars(MainPass) /\ WF_outVars(Hardware)

-----------------------------------------------------------------------------
(* Properties.                                                             *)

UartOutTypeOK ==
  /\ line \in {"debug", "rs485"}
  /\ sending \in Seq((0..MaxLines) \X (0..LongestLine)) /\ Len(sending) < OutSize
  /\ Len(text) <= LongestLine /\ copied \in 0..LongestLine
  /\ slot \in 0..(OutSize - 1)
  /\ raw \in {"", "wait", "go"}
  /\ Len(dma) <= PacketSize /\ Len(tdr) <= 1 /\ Len(shift) <= 1
  /\ stopping => driver
  /\ start_age \in 0..StartDelay /\ stop_age \in 0..(StopDelay + 1)
  /\ spoilt \subseteq {"shared", "raw", "stopping"}

OnItsWay == wire \o OfRing(shift) \o OfRing(tdr) \o dma \o sending

\* A line the ring takes part of, it takes the beginning of.
NoHoles == \A i \in DOMAIN accepted :
  accepted[i][2] > 1 =>
    i > 1 /\ accepted[i - 1] = <<accepted[i][1], accepted[i][2] - 1>>

\* Every byte a ring accepted goes out once, in order and with the RS-485
\* driver on for all of it, and a full ring costs a line its end, not its
\* middle: but for an interrupt that logs while the main loop does, the
\* message that the debug ring is full, and a frame given within the stop
\* delay of the one before, which is cut short.
OutIsWhole == spoilt = {} => OnItsWay = accepted /\ NoHoles

Busy == sending # <<>> \/ doing_dma \/ tdr # <<>> \/ shift # <<>> \/ driver

\* What was given goes out and the RS-485 driver lets the line go.
OutDrains == Busy ~> ~Busy
=============================================================================
