---------------------------------- MODULE Hpm ----------------------------------
(***************************************************************************)
(* The particle sensor (sensors/src/hpm.c): once powered it sends a long   *)
(* packet every second over its UART; each has its value stored, the       *)
(* fourth is believed, and power is turned off.  A short packet, the       *)
(* answer to a request that is never sent, is believed at once.  Two       *)
(* measurements, "PM10" and "PM25", share the value and the power.  A      *)
(* packet is its first byte and the rest, which may reach the ring apart.  *)
(*                                                                         *)
(* Time passes in steps of a second.                                       *)
(***************************************************************************)
EXTENDS Integers, Sequences

CONSTANTS
  HpmTimeout,     \* HPM_TIMEOUT_MS
  MaxHpmBegins,   \* bound: samples begun
  MaxHpmNoise     \* bound: packets spoilt on the line, or not sent

ASSUME HpmAssumption == /\ {HpmTimeout, MaxHpmBegins, MaxHpmNoise} \subseteq Nat
                        /\ HpmTimeout > 6

PmName == {"PM10", "PM25"}

VARIABLES
  hpm_valid, hpm_is_on, hpm_use_ref, hpm_powered,
  hpm_age,          \* time since _hpm_start_time
  last_collect,     \* _hpm_last_collect_time
  pm_entry,         \* pm10_entry and pm25_entry: hpm_age at the packet they are of
  message_count, header_active,
  header,           \* id of the packet that header_active is of
  hpm_ring,         \* what is pending in the in-ring
  pm_due,           \* time until it is collected
  pm_wanted,        \* names of the measurements that are being collected
  old_value,        \* history: a measurement was told a value from before it was begun
  hpm_fresh,        \* history: measurements for which a packet was believed since
  hpm_begins, hpm_noise

hpmBounds == <<hpm_begins, hpm_noise>>
hpmHistory == <<old_value, hpm_fresh>>
hpmDriver == <<hpm_valid, hpm_is_on, hpm_use_ref, hpm_powered, hpm_age, last_collect>>
hpmPackets == <<pm_entry, message_count, header_active, header>>
hpmVars == <<hpmDriver, hpmPackets, hpm_ring, pm_due, pm_wanted, hpmHistory, hpmBounds>>

Long == 0          \* the first byte of a long packet
Short == 3         \* that of a short one
Rest == 1          \* the rest of one that is good
Spoilt == 2        \* a first byte, or a rest, that is not

\* since_boot_delta of a time that is still to come is huge
InTime(from) == hpm_age >= from /\ hpm_age - from < HpmTimeout

\* hpm_enable
TurnOn == /\ hpm_is_on' = TRUE /\ hpm_powered' = TRUE /\ hpm_age' = 0
          /\ hpm_use_ref' = hpm_use_ref + 1
TurnOff == LET left == IF hpm_use_ref > 0 THEN hpm_use_ref - 1 ELSE 0
           IN  /\ hpm_is_on' = FALSE /\ hpm_use_ref' = left
               /\ hpm_powered' = (hpm_powered /\ left > 0) /\ UNCHANGED hpm_age

\* _hpm_collection_time: a tenth more than it took before
CollectionIn == last_collect + 1
PmBegins(n) == /\ hpm_begins < MaxHpmBegins /\ hpm_begins' = hpm_begins + 1
               /\ pm_due' = [pm_due EXCEPT ![n] = CollectionIn]
               /\ hpm_fresh' = hpm_fresh \ {n}
               /\ n \notin pm_wanted /\ pm_wanted' = pm_wanted \cup {n}
\* _hpm_init
HpmInit(n) ==
  /\ PmBegins(n)
  /\ IF hpm_is_on THEN UNCHANGED hpmDriver ELSE TurnOn /\ UNCHANGED <<hpm_valid, last_collect>>
  /\ UNCHANGED <<hpmPackets, hpm_ring, old_value, hpm_noise>>

\* _hpm_is_valid_now
StillValid == hpm_valid /\ hpm_age <= HpmTimeout /\ InTime(last_collect)

\* _hpm_get_pm10, _hpm_get_pm25
HpmGet(n) ==
  /\ n \in pm_wanted /\ pm_due[n] = 0
  /\ hpm_valid' = StillValid
  /\ IF StillValid
     THEN /\ pm_wanted' = pm_wanted \ {n}
          /\ old_value' = (old_value \/ n \notin hpm_fresh)
          /\ UNCHANGED <<hpm_is_on, hpm_use_ref, hpm_powered, hpm_age>>
     ELSE IF hpm_age < HpmTimeout           \* BUSY: it will be asked again
     THEN UNCHANGED <<pm_wanted, old_value, hpm_is_on, hpm_use_ref, hpm_powered, hpm_age>>
     ELSE pm_wanted' = pm_wanted \ {n} /\ TurnOff /\ UNCHANGED old_value
  /\ UNCHANGED <<last_collect, hpm_fresh, hpmPackets, hpm_ring, pm_due, hpmBounds>>

\* _hpm_is_valid, after a value is stored
Believed == hpm_valid' = TRUE /\ last_collect' = hpm_age /\ hpm_fresh' = PmName /\ UNCHANGED old_value

\* process_part_measure_response
ShortResponse ==
  /\ pm_entry' = hpm_age /\ Believed /\ hpm_ring' = Tail(hpm_ring)
  /\ UNCHANGED <<message_count, hpm_is_on, hpm_use_ref, hpm_powered, hpm_age>>

\* process_part_measure_long_response, once the value is stored
NotYet == message_count' = message_count + 1 /\ hpm_ring' = Tail(hpm_ring) /\ UNCHANGED <<hpmDriver, hpmHistory>>
Fourth == IF hpm_is_on THEN TurnOff /\ hpm_ring' = <<>>
          ELSE UNCHANGED <<hpm_is_on, hpm_use_ref, hpm_powered, hpm_age>> /\ hpm_ring' = Tail(hpm_ring)
\* Mutated: message_count is not cleared
LongResponseCountKept ==
  /\ pm_entry' = hpm_age
  /\ IF message_count <= 2 THEN NotYet ELSE Believed /\ Fourth /\ UNCHANGED message_count
LongResponse ==
  /\ pm_entry' = hpm_age
  /\ IF message_count <= 2 THEN NotYet ELSE Believed /\ Fourth /\ message_count' = 0

\* hpm_ring_process, at a first byte and at the rest of a packet
HpmHeader ==
  /\ hpm_ring # <<>> /\ ~header_active
  /\ header_active' = (Head(hpm_ring) \in {Long, Short}) /\ hpm_ring' = Tail(hpm_ring)
  /\ header' = IF Head(hpm_ring) \in {Long, Short} THEN Head(hpm_ring) ELSE header
  /\ UNCHANGED <<hpmDriver, pm_entry, message_count, pm_due, pm_wanted, hpmHistory, hpmBounds>>
HpmBody ==
  /\ hpm_ring # <<>> /\ header_active /\ header_active' = FALSE
  /\ IF Head(hpm_ring) # Rest THEN hpm_ring' = Tail(hpm_ring) /\ UNCHANGED <<hpmDriver, pm_entry, message_count, hpmHistory>>
     ELSE IF header = Long THEN LongResponse ELSE ShortResponse
  /\ UNCHANGED <<header, pm_due, pm_wanted, hpmBounds>>

\* A second: the sensor that has power sends a packet, all, spoilt, none, or
\* another one than it should; or it is dead from now on.
Older(age) == IF age > HpmTimeout THEN age ELSE age + 1
HpmTime == /\ hpm_ring = <<>> /\ hpm_age' = Older(hpm_age)
           /\ pm_due' = [n \in PmName |-> IF pm_due[n] = 0 THEN 0 ELSE pm_due[n] - 1]
HpmDead == hpm_noise > MaxHpmNoise
HpmSecond ==
  /\ HpmTime
  /\ \/ /\ hpm_ring' = (IF hpm_powered /\ ~HpmDead THEN <<Long, Rest>> ELSE <<>>)
        /\ UNCHANGED hpm_noise
     \/ /\ hpm_powered /\ hpm_noise < MaxHpmNoise /\ hpm_noise' = hpm_noise + 1
        /\ hpm_ring' \in {<<>>, <<Long>>, <<Rest>>, <<Spoilt, Rest>>, <<Long, Spoilt>>, <<Short, Rest>>}
     \/ hpm_powered /\ ~HpmDead /\ hpm_ring' = <<>> /\ hpm_noise' = MaxHpmNoise + 1
  /\ UNCHANGED <<hpm_valid, hpm_is_on, hpm_use_ref, hpm_powered, last_collect, hpm_fresh,
                 hpmPackets, pm_wanted, old_value, hpm_begins>>

HpmStart ==
  /\ hpm_valid = FALSE /\ hpm_is_on = FALSE /\ hpm_use_ref = 0 /\ hpm_powered = FALSE
  /\ hpm_age = HpmTimeout + 1 /\ last_collect = 6 /\ hpm_fresh = {}
  /\ pm_entry = 0 /\ message_count = 0 /\ header_active = FALSE /\ header = Long /\ hpm_ring = <<>>
  /\ pm_due = [n \in PmName |-> 0] /\ pm_wanted = {} /\ old_value = FALSE /\ hpm_begins = 0 /\ hpm_noise = 0

HpmNext == \/ HpmHeader \/ HpmBody \/ HpmSecond
           \/ \E n \in PmName : HpmInit(n) \/ HpmGet(n)
\* The ring is drained, time passes, and who waits asks again.
HpmFair == /\ WF_hpmVars(HpmHeader \/ HpmBody) /\ WF_hpmVars(HpmSecond)
           /\ \A n \in PmName : WF_hpmVars(HpmGet(n))
HpmSpec == HpmStart /\ [][HpmNext]_hpmVars /\ HpmFair
--------------------------------------------------------------------------------
(* What the variables hold. *)
HpmTypeOK ==
  /\ {hpm_valid, hpm_is_on, hpm_powered, header_active, old_value} \subseteq BOOLEAN
  /\ hpm_use_ref \in 0..1 /\ message_count \in 0..3
  /\ {hpm_age, last_collect, pm_entry} \subseteq 0..(HpmTimeout + 1) /\ header \in {Long, Short}
  /\ pm_wanted \cup hpm_fresh \subseteq PmName /\ hpm_ring \in Seq({Long, Short, Rest, Spoilt}) /\ Len(hpm_ring) <= 2

(* hpm_is_on, the count of uses and the power agree, however the two        *)
(* measurements begin, end and time out.                                    *)
PowerFollowsUse == /\ hpm_is_on <=> hpm_use_ref = 1
                   /\ hpm_is_on <=> hpm_powered

(* A sensor that sends its packets is not told for another time, although   *)
(* hpm_valid and the value are never cleared and the two measurements       *)
(* begin at any time.  (One that stops has its last value told again.)      *)
ValueIsFresh == hpm_noise = 0 => ~old_value

(* "First seems to always be 0, second always seems to be high, third       *)
(* seems alright, fourth is better" (hpm.c:153): what a get tells is the    *)
(* fourth's once the sensor is off again.  While it is on, and hpm_valid is *)
(* up from the time before, a get may come ahead of the fourth packet: it   *)
(* is told the third's then, never the first two's.                         *)
ValueHasSettled == hpm_noise = 0 /\ StillValid => pm_entry >= IF hpm_is_on THEN 3 ELSE 4

(* What is told is measured after it was asked for, by a sensor that is     *)
(* powered for it and that has settled.                                     *)
ValueIsGood == PowerFollowsUse /\ ValueIsFresh /\ ValueHasSettled

(* Whoever begins a measurement gets a value or an error, whatever became of   *)
(* the packets.                                                             *)
HpmEnds == \A n \in PmName : n \in pm_wanted ~> n \notin pm_wanted
================================================================================
