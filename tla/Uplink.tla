-------------------------------- MODULE Uplink --------------------------------
(***************************************************************************)
(* The way of a measurement out of the sensor: measurements_loop_iteration *)
(* samples and sends (core/src/measurements.c), a send that does not fit   *)
(* one packet goes in fragments, each sent when the one before is          *)
(* acknowledged (on_protocol_sent_ack), and the subsystems are told of the *)
(* acknowledgement.  One of them counts pulses in an interrupt and takes   *)
(* off its count what was acknowledged (sensors/src/pulsecount.c).         *)
(*                                                                         *)
(* Time passes in ticks, four to a transmit interval; age is the time      *)
(* since _last_sent_ms.  The main loop does all it has to do between two   *)
(* ticks.  Measurements have samplecount 1.                                *)
(***************************************************************************)
EXTENDS Link, Integers, FiniteSets, FiniteSetsExt

CONSTANTS
  N,            \* MEASUREMENTS_MAX_NUMBER: the slots are 0..N-1
  Pulse,        \* the slots of pulse counters
  Interval,     \* Interval[s]: def->interval
  Cycle,        \* a common multiple of the intervals: the count is kept modulo it
  Fits,         \* how many measurements fit a packet
  PromptAck,    \* TRUE: a packet is over before half an interval has passed
  MaxPulses,    \* bound: pulses
  MaxLosses,    \* bound: packets and connections lost
  MaxExtras,    \* bound: instant sends and error codes
  MaxReads      \* bound: reads by command

Slot == 0..(N - 1)

ASSUME UplinkAssumption ==
  /\ N \in Nat \ {0} /\ Pulse \subseteq Slot
  /\ Cycle \in Nat \ {0} /\ Fits \in Nat \ {0}
  /\ Interval \in [Slot -> 1..Cycle] /\ \A s \in Slot : Cycle % Interval[s] = 0
  /\ PromptAck \in BOOLEAN
  /\ {MaxPulses, MaxLosses, MaxExtras, MaxReads} \subseteq Nat

VARIABLES
  pc,          \* where measurements_loop_iteration is
  age,         \* time since _last_sent_ms
  ic,          \* _interval_count modulo Cycle
  pending,     \* _pending_send
  start, prev, \* _measurements_chunk_start_pos, _measurements_chunk_prev_start_pos
  no_con,      \* measurements_loop_iteration's has_printed_no_con
  dropping,    \* _measurements_send's has_printed_no_con
  val,         \* per slot: data->value, or NoSample when num_samples is 0
  collected,   \* per slot: data->num_samples_collected
  instant,     \* the slots with data->instant_send
  count,       \* per counter: count ...
  send_count,  \* ... and send_count
  packet,      \* what the packet on its way says of each slot
  total,       \* history: pulses that came
  reported,    \* history: pulses in packets that were acknowledged
  losses, extras, reads  \* counters for the bounds

chunks == <<pending, start, prev>>
data == <<val, collected>>
counter == <<count, send_count>>
bounds == <<losses, extras, reads>>
vars == <<link, pc, age, ic, chunks, no_con, dropping, data, instant, counter,
          packet, total, reported, bounds>>

NoSample == -1
NoPacket == [s \in Slot |-> NoSample]

TransmitInterval == 4   \* INTERVAL_TRANSMIT_MS, in ticks
TooSoon == 4            \* from this age on, a scheduled uplink comes soon

Overdue == age > TransmitInterval

Init ==
  /\ LinkInit
  /\ pc = "top" /\ age = 0 /\ ic = 0
  /\ pending = FALSE /\ start = 0 /\ prev = 0
  /\ no_con = FALSE /\ dropping = FALSE
  /\ val = [s \in Slot |-> NoSample] /\ collected = [s \in Slot |-> 0]
  /\ instant = {}
  /\ count = [s \in Pulse |-> 0] /\ send_count = [s \in Pulse |-> 0]
  /\ packet = NoPacket
  /\ total = [s \in Pulse |-> 0] /\ reported = [s \in Pulse |-> 0]
  /\ losses = 0 /\ extras = 0 /\ reads = 0

-----------------------------------------------------------------------------
(* Sampling.                                                               *)

\* The middle of the interval after those already collected has come.
SampleDue(s) ==
  age + (ic % Interval[s]) * TransmitInterval
    >= collected[s] * Interval[s] * TransmitInterval
         + (Interval[s] * TransmitInterval) \div 2

\* _pulsecount_get: what is read is remembered, to be taken off when it is
\* acknowledged.  A sample of another kind is 0 here.
Reading(s) == IF s \in Pulse THEN count[s] ELSE 0
ReadAll(S) == send_count' = [s \in Pulse |-> IF s \in S THEN count[s]
                                                        ELSE send_count[s]]

\* _measurements_sample: a second sample before the first is sent adds to it.
Sample ==
  /\ pc = "sample"
  /\ pc' = "send"
  /\ LET S == {s \in Slot : SampleDue(s)}
     IN /\ val' = [s \in Slot |->
                     IF s \notin S THEN val[s]
                     ELSE Reading(s) + (IF val[s] = NoSample THEN 0 ELSE val[s])]
        /\ collected' = [s \in Slot |->
                           IF s \in S THEN collected[s] + 1 ELSE collected[s]]
        /\ ReadAll(S)
  /\ UNCHANGED <<link, age, ic, chunks, no_con, dropping, instant, count, packet,
                 total, reported, bounds>>

-----------------------------------------------------------------------------
(* Sending.                                                                *)

\* Mutated form of From: after the last slot it stays there.
FromNoWrap == start

\* Where a fragment starts, and the slots of this interval from there on.
From == IF start = N THEN 0 ELSE start
Listed(i) == {s \in From..(N - 1) : i % Interval[s] = 0}

\* Mutated form of StopAt: the loop runs one slot too far.
StopAtTooFar(i) ==
  LET full == {s \in Listed(i) : val[s] # NoSample}
      over == {s \in full : Cardinality({t \in full : t < s}) >= Fits}
  IN IF over = {} THEN N + 1 ELSE Min(over)

\* Where the fragment ends: at the first measurement that does not fit.
StopAt(i) ==
  LET full == {s \in Listed(i) : val[s] # NoSample}
      over == {s \in full : Cardinality({t \in full : t < s}) >= Fits}
  IN IF over = {} THEN N ELSE Min(over)

\* The part of _measurements_send that finds the modem idle, for interval
\* count i.
FillPacket(i) ==
  LET stop == StopAt(i)
      gone == {s \in Listed(i) : s < stop}
      sent == {s \in gone : val[s] # NoSample}
  IN /\ val' = [s \in Slot |-> IF s \in gone THEN NoSample ELSE val[s]]
     /\ collected' = [s \in Slot |-> IF s \in gone THEN 0 ELSE collected[s]]
     /\ start' = stop
     /\ prev' = From
     /\ dropping' = FALSE
     /\ pending' = IF sent = {} THEN pending ELSE stop # N
     /\ link' = IF sent = {} THEN "idle" ELSE "wait_ok"
     /\ packet' = [s \in Slot |-> IF s \in sent THEN val[s] ELSE NoSample]

NoChunks == pending' = FALSE /\ start' = 0 /\ prev' = 0

\* _measurements_send from the loop: a disconnection drops, a packet on its way
\* postpones, and a second interval with it still on its way resets the modem.
SendWhenDue(i) ==
  \/ /\ ~Connected
     /\ IF dropping THEN pending' = FALSE /\ UNCHANGED <<start, prev>>
                    ELSE NoChunks
     /\ dropping' = TRUE
     /\ UNCHANGED <<link, age, data, packet>>
  \/ /\ Connected /\ ~SendReady /\ pending
     /\ LinkLost /\ packet' = NoPacket
     /\ NoChunks /\ dropping' = FALSE
     /\ UNCHANGED <<age, data>>
  \/ /\ Connected /\ ~SendReady /\ ~pending
     /\ age' = 0 /\ pending' = TRUE /\ dropping' = FALSE
     /\ UNCHANGED <<link, start, prev, data, packet>>
  \/ /\ SendReady
     /\ age' = IF pending THEN age ELSE 0
     /\ FillPacket(i)

Send ==
  /\ pc = "send"
  /\ pc' = "top"
  /\ IF Overdue
     THEN LET i == (ic + 1) % Cycle IN ic' = i /\ SendWhenDue(i)
     ELSE UNCHANGED <<link, age, ic, chunks, dropping, data, packet>>
  /\ UNCHANGED <<no_con, instant, counter, total, reported, bounds>>

-----------------------------------------------------------------------------
(* The rest of measurements_loop_iteration.                                *)

\* What a pass would have to do.
NoticesLoss == ~Connected /\ ~no_con
NoticesReturn == Connected /\ no_con
ToSendInstantly == Connected /\ SendReady /\ instant # {}
HasWork == \/ NoticesLoss \/ NoticesReturn \/ ToSendInstantly
           \/ Connected /\ (Overdue \/ \E s \in Slot : SampleDue(s))

\* Mutated form of PassDisconnected: the fragments are not forgotten.
PassDisconnectedKeeps ==
  /\ pc = "top" /\ NoticesLoss
  /\ no_con' = TRUE
  /\ UNCHANGED <<link, pc, chunks, age, ic, dropping, data, instant, counter,
                 packet, total, reported, bounds>>

\* The pass while not connected, and the first one after.
PassDisconnected ==
  /\ pc = "top" /\ NoticesLoss
  /\ no_con' = TRUE /\ NoChunks
  /\ UNCHANGED <<link, pc, age, ic, dropping, data, instant, counter, packet,
                 total, reported, bounds>>

PassReconnected ==
  /\ pc = "top" /\ NoticesReturn
  /\ no_con' = FALSE /\ age' = 0
  /\ UNCHANGED <<link, pc, ic, chunks, dropping, data, instant, counter, packet,
                 total, reported, bounds>>

\* A pass with nothing to send at once, or with it: in the order of the slots the
\* flags are cleared and the readings taken, in a nested main loop, up to the one
\* that does not fit, whose flag is gone too.  One without a reading takes no
\* room.
Pass ==
  /\ pc = "top" /\ HasWork /\ Connected /\ ~no_con
  /\ pc' = IF ToSendInstantly THEN "instant" ELSE "sample"
  /\ \E S \in SUBSET instant :
       /\ \/ S = instant
          \/ Cardinality(S) > Fits /\ \A s \in S, t \in instant \ S : s < t
       /\ instant' = IF ToSendInstantly THEN instant \ S ELSE instant
  /\ UNCHANGED <<link, age, ic, chunks, no_con, dropping, data, counter, packet,
                 total, reported, bounds>>

\* ... then _measurements_check_instant_send looks whether it may send.  There
\* may be no reading to send.
InstantSend ==
  /\ pc = "instant"
  /\ pc' = "sample"
  /\ \/ /\ SendReady /\ start \in {0, N} /\ age < TooSoon
        /\ LinkSend /\ packet' = NoPacket
     \/ UNCHANGED <<link, packet>>
  /\ UNCHANGED <<age, ic, chunks, no_con, dropping, data, instant, counter, total,
                 reported, bounds>>

-----------------------------------------------------------------------------
(* The modem and the network.                                              *)

MainLoopVars == <<pc, age, ic, no_con, instant>>

JoinNetwork ==
  /\ pc = "top" /\ ~NoticesLoss
  /\ LinkUp
  /\ UNCHANGED <<MainLoopVars, chunks, dropping, data, counter, packet, total,
                 reported, bounds>>

ModemOk ==
  /\ pc = "top"
  /\ LinkOk
  /\ UNCHANGED <<MainLoopVars, chunks, dropping, data, counter, packet, total,
                 reported, bounds>>

\* The subsystems on_protocol_sent_ack tells.
Told == {s \in Pulse : prev <= s /\ s < start}

\* Mutated form of TakeOff: the count starts again from zero.
TakeOffAll ==
  /\ count' = [s \in Pulse |-> IF s \in Told THEN 0 ELSE count[s]]
  /\ send_count' = [s \in Pulse |-> IF s \in Told THEN 0 ELSE send_count[s]]

\* _pulsecount_ack.
TakeOff ==
  /\ count' = [s \in Pulse |-> IF s \in Told THEN count[s] - send_count[s]
                                             ELSE count[s]]
  /\ send_count' = [s \in Pulse |-> IF s \in Told THEN 0 ELSE send_count[s]]

\* on_protocol_sent_ack(true): with more to send the next fragment goes out.
Ack ==
  /\ pc = "top"
  /\ link = "wait_ack"
  /\ TakeOff
  /\ reported' = [s \in Pulse |-> reported[s]
                    + (IF packet[s] = NoSample THEN 0 ELSE packet[s])]
  /\ IF pending THEN FillPacket(ic)
     ELSE /\ LinkAck /\ packet' = NoPacket
          /\ NoChunks
          /\ UNCHANGED <<dropping, data>>
  /\ UNCHANGED <<MainLoopVars, total, bounds>>

\* rak3172_loop_iteration: on_protocol_sent_ack(false), and a reset.
AckTimeout ==
  /\ pc = "top" /\ losses < MaxLosses
  /\ losses' = losses + 1
  /\ LinkAckTimeout /\ packet' = NoPacket
  /\ NoChunks
  /\ UNCHANGED <<MainLoopVars, dropping, data, counter, total, reported, extras,
                 reads>>

\* A loss the measurements are not told of; a command from the network may
\* reset the modem in the nested main loop too.
Lost ==
  /\ pc \in {"top", "instant"} /\ losses < MaxLosses
  /\ losses' = losses + 1
  /\ LinkLost /\ packet' = NoPacket
  /\ UNCHANGED <<MainLoopVars, chunks, dropping, data, counter, total, reported,
                 extras, reads>>

\* rak3172_loop_iteration has an error code to send.
SendErrorCode ==
  /\ pc = "top" /\ extras < MaxExtras
  /\ extras' = extras + 1
  /\ LinkSend /\ packet' = NoPacket
  /\ UNCHANGED <<MainLoopVars, chunks, dropping, data, counter, total, reported,
                 losses, reads>>

-----------------------------------------------------------------------------
(* The interrupts, the commands and the clock.                             *)

\* pulsecount_isr.
PulseISR(s) ==
  /\ \A t \in Pulse : total[t] <= MaxPulses
  /\ total[s] < MaxPulses
  /\ count' = [count EXCEPT ![s] = @ + 1]
  /\ total' = [total EXCEPT ![s] = @ + 1]
  /\ UNCHANGED <<link, pc, age, ic, chunks, no_con, dropping, data, instant,
                 send_count, packet, reported, bounds>>

\* io_watch_isr asks for an instant send.
WatchISR(s) ==
  /\ extras < MaxExtras
  /\ extras' = extras + 1
  /\ instant' = instant \cup {s}
  /\ UNCHANGED <<link, pc, age, ic, chunks, no_con, dropping, data, counter,
                 packet, total, reported, losses, reads>>

\* A command reads a counter.
ReadCommand(s) ==
  /\ pc = "top" /\ reads < MaxReads
  /\ reads' = reads + 1
  /\ ReadAll({s})
  /\ UNCHANGED <<link, pc, age, ic, chunks, no_con, dropping, data, instant,
                 count, packet, total, reported, losses, extras>>

Tick ==
  /\ pc = "top" /\ ~HasWork
  /\ PromptAck => link \in {"down", "idle"}
  /\ age' = IF Overdue THEN age ELSE age + 1
  /\ UNCHANGED <<link, pc, ic, chunks, no_con, dropping, data, instant, counter,
                 packet, total, reported, bounds>>

MainLoop == PassDisconnected \/ PassReconnected \/ Pass \/ InstantSend
              \/ Sample \/ Send

Next == \/ MainLoop
        \/ JoinNetwork \/ ModemOk \/ Ack \/ AckTimeout \/ Lost \/ SendErrorCode
        \/ \E s \in Pulse : PulseISR(s) \/ ReadCommand(s)
        \/ \E s \in Slot \ Pulse : WatchISR(s)
        \/ Tick

Spec == Init /\ [][Next]_vars

-----------------------------------------------------------------------------
(* Properties.                                                             *)

TypeOK ==
  /\ link \in LinkState /\ pc \in {"top", "instant", "sample", "send"}
  /\ age \in 0..(TransmitInterval + 1) /\ ic \in 0..(Cycle - 1)
  /\ pending \in BOOLEAN /\ start \in 0..N /\ prev \in 0..N
  /\ no_con \in BOOLEAN /\ dropping \in BOOLEAN
  /\ val \in [Slot -> Nat \cup {NoSample}] /\ collected \in [Slot -> Nat]
  /\ instant \subseteq Slot \ Pulse
  /\ count \in [Pulse -> Nat] /\ send_count \in [Pulse -> Nat]
  /\ packet \in [Slot -> Nat \cup {NoSample}]
  /\ total \in [Pulse -> Nat] /\ reported \in [Pulse -> Nat]
  /\ {losses, extras, reads} \subseteq Nat

\* No pulse is lost and none is reported twice: what the counter holds and what
\* acknowledged packets said add up to the pulses that came, over lost packets,
\* resets, fragments and pulses that come while a packet is on its way.
PulsesKept == \A s \in Pulse : count[s] + reported[s] = total[s]

\* A fragmented send is never left half done: with the modem idle, either no
\* fragment is waiting or the loop has yet to notice a lost connection.
NoFragmentForgotten == link = "idle" /\ ~no_con => ~pending

\* "Function to tell subsystem measurement was successfully sent."
\* (measurements.h): a counter is lowered only by what the acknowledged packet
\* said of it.
AckMeansSent ==
  [][\A s \in Pulse : count'[s] < count[s] => packet[s] = count[s] - count'[s]]_vars
=============================================================================
