----------------------------- MODULE UartLines ------------------------------
(***************************************************************************)
(* The command and comms UARTs of core/src/uart_rings.c: the receive       *)
(* interrupt puts bytes in the in-ring (uart_ring_in), the main loop calls *)
(* uart_ring_in_drain, which reads at most one line per pass and hands a   *)
(* non-empty one to cmds_process or protocol_process.                      *)
(*                                                                         *)
(* The ring is Ring's, at the grain of its stores; stream and lines are    *)
(* histories: the bytes the ring accepted and the lines that were handed   *)
(* over.                                                                   *)
(***************************************************************************)
EXTENDS Ring

CONSTANTS LineLen,   \* CMD_LINELEN, the size of line_buffer
          MaxStream  \* bound: bytes accepted in a behaviour

\* UART_0_IN_BUF_SIZE is CMD_LINELEN and UART_1_IN_BUF_SIZE is larger: a ring
\* that is full holds at least one line buffer.
ASSUME LineAssumption ==
  /\ LineLen \in Nat /\ LineLen >= 2
  /\ LineLen <= Size
  /\ MaxLen = LineLen - 1
  /\ MaxStream \in Nat

VARIABLES stream, lines

lvars == <<vars, stream, lines>>

LInit == Init /\ stream = <<>> /\ lines = <<>>

Receive == \E b \in Byte : /\ Len(stream) < MaxStream
                           /\ AddStore(b)
                           /\ stream' = Append(stream, b)
                           /\ UNCHANGED lines

Received == AddPublish /\ UNCHANGED <<stream, lines>>

\* uart_ring_in_drain: nothing when nothing is pending, else readline ...
Drain == /\ Pending > 0
         /\ Call("readline", LineLen - 1)
         /\ UNCHANGED <<stream, lines>>

\* ... and the handler, when readline returned a length.
Handle == /\ ScanLine
          /\ lines' = IF out' # <<>> THEN Append(lines, out') ELSE lines
          /\ UNCHANGED stream

LNext == Receive \/ Received \/ Drain \/ Handle

\* The interrupt handler ends, and the main loop drains on every pass.
LSpec == /\ LInit /\ [][LNext]_lvars
         /\ WF_lvars(Received) /\ WF_lvars(Drain \/ Handle)

-----------------------------------------------------------------------------
(* Properties.                                                             *)

\* Reading a stream of bytes as lines, with no interrupts and no ring: a
\* terminator ends a non-empty line, and so does a full line buffer.
ReadOne(acc, b) ==
  LET cur == IF b \in Terminator THEN acc.cur ELSE Append(acc.cur, b)
      ended == b \in Terminator \/ Len(cur) = LineLen - 1
  IN [done |-> IF ended /\ cur # <<>> THEN Append(acc.done, cur) ELSE acc.done,
      cur |-> IF ended THEN <<>> ELSE cur]

\* Where that is after each number of bytes.
Reading(s) ==
  LET after[i \in 0..Len(s)] ==
        IF i = 0 THEN [done |-> <<>>, cur |-> <<>>]
        ELSE ReadOne(after[i - 1], s[i])
  IN  after

S == INSTANCE SequencesExt
LinesOf(s) == Reading(s)[Len(s)].done

\* The lines handed over are the lines of the accepted bytes, whatever the
\* interleaving of the interrupt with readline's two looks at w_pos: a pair
\* '\n' '\r' that arrives in two parts, or a full buffer, changes nothing.
LinesAreThoseSent == S!IsPrefix(lines, LinesOf(stream))

\* Every complete line reaches its handler: no state of the ring, full
\* included, leaves the drain with a ring it never empties.
EveryLineIsHandled == <>[](lines = LinesOf(stream))
=============================================================================
