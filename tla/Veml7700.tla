-------------------------------- MODULE Veml7700 --------------------------------
(***************************************************************************)
(* The light sensor (sensors/src/veml7700.c).  A reading begins at the     *)
(* lowest gain and a short integration time; while the counts are low, the *)
(* gain, and then the time, is raised and the reading begun again.  All    *)
(* sixteen settings must be done in VEML7700_MAX_READ_TIME.  The driver is *)
(* called by a sampler, that begins, iterates and collects (Sampler).      *)
(*                                                                         *)
(* What light there is, is the number of settings that are too low for it. *)
(* Times are in milliseconds.                                              *)
(***************************************************************************)
EXTENDS Integers

CONSTANTS
  Light,           \* the lights there may be, in 0..16 (16: always too dark)
  Pace,            \* how long after it is due the main loop may come to a reading
  MaxVemlFaults    \* bound: transfers that fail, slow readings, and samples given up

ASSUME VemlAssumption == Light \subseteq 0..16 /\ Pace \subseteq Nat /\ MaxVemlFaults \in Nat

VARIABLES
  veml_state, gain_index, int_index, veml_valid, lux,
  veml_on,        \* the chip measures
  veml_since,     \* time since start_time
  veml_owned,     \* the sampler has begun and not yet ended
  light, pace,    \* what is so during this reading
  told,           \* what the last get returned: a light, or -1
  timed_out, cut, \* history: a reading took too long; the measurement was deleted when done
  veml_faults

vemlReading == <<veml_state, gain_index, int_index, veml_valid, lux, veml_on, veml_since>>
vemlVars == <<vemlReading, veml_owned, light, pace, told, timed_out, cut, veml_faults>>

MaxReadTime == 6600 + 100
IntTime == <<25, 50, 100, 200, 400, 800>>        \* _veml7700_integration_times
IntMultiplier == <<32, 16, 8, 4, 2, 1>>
GainMultiplier == <<16, 8, 2, 1>>                \* _veml7700_gains
DefaultInt == 2                                  \* _veml7700_default_ctx
Settings == 4 * (int_index - DefaultInt) + gain_index

\* _veml7700_get_wait_time
WaitTime == (IntTime[int_index + 1] * 11) \div 10

TransferFails == veml_faults < MaxVemlFaults /\ veml_faults' = veml_faults + 1
TransferWorks == UNCHANGED veml_faults

\* _veml7700_light_measurements_init; how it goes on is known when it begins
VemlStarts ==
  \/ veml_state = "OFF"
  \/ veml_state = "READING" /\ veml_since > MaxReadTime
VemlBegin ==
  /\ ~veml_owned /\ VemlStarts
  /\ veml_state' = "READING" /\ veml_since' = 0 /\ gain_index' = 0 /\ int_index' = DefaultInt
  /\ light' \in Light /\ pace' \in Pace
  /\ \/ /\ IF pace' > 5 THEN TransferFails ELSE TransferWorks
        /\ veml_on' = TRUE /\ veml_owned' = TRUE
     \/ TransferFails /\ veml_on' = FALSE /\ veml_owned' = FALSE     \* ERROR
  /\ told' = -1
  /\ UNCHANGED <<veml_valid, lux, timed_out, cut>>

\* bad_exit: if the chip cannot be told either, it stays on
BadExit == veml_state' = "OFF" /\ UNCHANGED <<gain_index, int_index, veml_valid, lux>>
\* _veml7700_increase_settings
Increased ==
  IF gain_index + 1 < 4 THEN gain_index' = gain_index + 1 /\ UNCHANGED int_index
  ELSE gain_index' = 0 /\ int_index' = int_index + 1
CanIncrease == gain_index + 1 < 4 \/ int_index + 1 < 6

\* Mutated: what could not be converted is told
VemlDoneKeepsLux(l) == /\ veml_state' = "DONE" /\ veml_valid' = TRUE /\ veml_on' = FALSE
                       /\ UNCHANGED <<gain_index, int_index, lux>>
VemlDone(l) == /\ veml_state' = "DONE" /\ veml_valid' = TRUE /\ lux' = l /\ veml_on' = FALSE
               /\ UNCHANGED <<gain_index, int_index>>
\* _veml7700_iteration_reading, when the wait is over.  A count that cannot be
\* read is 0, as if it were dark.
VemlIterate ==
  /\ veml_owned /\ veml_state = "READING"
  /\ veml_since' = veml_since + WaitTime + 1 + pace
  /\ timed_out' = (timed_out \/ veml_since' > MaxReadTime)
  /\ \/ /\ veml_since' > MaxReadTime /\ TransferWorks
        /\ BadExit /\ veml_on' = FALSE /\ veml_owned' = FALSE
     \/ /\ veml_since' <= MaxReadTime
        /\ \/ TransferWorks /\ UNCHANGED veml_owned
              /\ IF Settings >= light THEN VemlDone(light)
                 ELSE IF CanIncrease THEN Increased /\ UNCHANGED <<veml_state, veml_valid, lux, veml_on>>
                 ELSE VemlDone(16)
           \/ TransferFails /\ UNCHANGED veml_owned                     \* the read
              /\ IF CanIncrease THEN Increased /\ UNCHANGED <<veml_state, veml_valid, lux, veml_on>>
                 ELSE VemlDone(16)
           \/ TransferFails /\ BadExit /\ veml_owned' = FALSE           \* a write
              /\ veml_on' \in BOOLEAN
  /\ UNCHANGED <<light, pace, told, cut>>

\* Mutated: the state is left
VemlGetStays ==
  /\ veml_owned /\ veml_state = "DONE" /\ veml_owned' = FALSE
  /\ told' = IF veml_valid THEN lux ELSE -1
  /\ veml_valid' = FALSE
  /\ UNCHANGED <<veml_state, gain_index, int_index, lux, veml_on, veml_since, light, pace, timed_out, cut, veml_faults>>
\* _veml7700_light_measurements_get; BUSY before that
VemlGet ==
  /\ veml_owned /\ veml_state = "DONE" /\ veml_owned' = FALSE /\ veml_state' = "OFF"
  /\ told' = IF veml_valid THEN lux ELSE -1
  /\ veml_valid' = FALSE
  /\ UNCHANGED <<gain_index, int_index, lux, veml_on, veml_since, light, pace, timed_out, cut, veml_faults>>

\* A command stops waiting, or the measurement is deleted: the driver is not told.
VemlGivenUp ==
  /\ veml_owned /\ TransferFails /\ veml_owned' = FALSE
  /\ cut' = (cut \/ veml_state = "DONE")
  /\ UNCHANGED <<vemlReading, light, pace, told, timed_out>>
\* The next sample is much later.
VemlIdle ==
  /\ ~veml_owned /\ veml_state = "READING" /\ veml_since <= MaxReadTime
  /\ veml_since' = MaxReadTime + 1
  /\ UNCHANGED <<veml_state, gain_index, int_index, veml_valid, lux, veml_on, veml_owned, light, pace,
                 told, timed_out, cut, veml_faults>>

VemlInit ==
  /\ veml_state = "OFF" /\ gain_index = 0 /\ int_index = DefaultInt /\ veml_valid = FALSE /\ lux = 0
  /\ veml_on = FALSE /\ veml_since = MaxReadTime + 1 /\ veml_owned = FALSE
  /\ light = 0 /\ pace = 0 /\ told = -1 /\ timed_out = FALSE /\ cut = FALSE /\ veml_faults = 0
VemlNext == VemlBegin \/ VemlIterate \/ VemlGet \/ VemlGivenUp \/ VemlIdle
\* The sampler begins again and again, iterates and collects; time passes.
VemlFair == /\ WF_vemlVars(VemlBegin) /\ WF_vemlVars(VemlIterate)
            /\ WF_vemlVars(VemlGet) /\ WF_vemlVars(VemlIdle)
VemlSpec == VemlInit /\ [][VemlNext]_vemlVars /\ VemlFair
--------------------------------------------------------------------------------
(* What the variables hold; the multiplier of the resolution fits its       *)
(* uint8_t.                                                                 *)
VemlTypeOK ==
  /\ veml_state \in {"OFF", "READING", "DONE"} /\ gain_index \in 0..3 /\ int_index \in DefaultInt..5
  /\ GainMultiplier[gain_index + 1] * IntMultiplier[int_index + 1] < 256
  /\ veml_valid => veml_state = "DONE"

(* Polled within 5 ms of each reading's end, with no transfer failing, even *)
(* the dark is read in time: the margin of VEML7700_MAX_READ_TIME is enough *)
(* for its sixteen readings.                                                *)
PromptIsInTime == timed_out => veml_faults > 0

(* The chip is off unless it is being read, and what is told is the light   *)
(* of the reading that was begun last, or darkness if its transfer failed.  *)
OffWhenDone == veml_faults = 0 /\ veml_state # "READING" => ~veml_on
ToldItsLight == told = -1 \/ told = light \/ (told = 16 /\ veml_faults > 0)

(* The light is told in time, of this reading, and the chip is off then.    *)
LightIsTold == PromptIsInTime /\ OffWhenDone /\ ToldItsLight

(* After any failures, timeouts and samples given up the light is read      *)
(* again; but not if the measurement was deleted when a reading was done.   *)
LightIsReadAgain == /\ veml_owned ~> (told = light \/ cut)
                    /\ told # -1 ~> (veml_owned \/ cut)
================================================================================
