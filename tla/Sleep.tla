------------------------------- MODULE Sleep --------------------------------
(***************************************************************************)
(* Sleeping (ports/stm/src/sleep.c): the low-power timer is set to wake    *)
(* the device, SLEEPONEXIT makes every other interrupt go back to sleep,   *)
(* and only its own interrupt, a received end of line or a watched input   *)
(* clears it.  An interrupt that comes before SLEEPONEXIT is set finds     *)
(* nothing to clear and is forgotten; the watchdog is what is left then.   *)
(***************************************************************************)
EXTENDS Integers

CONSTANTS Asked,     \* the times asked for, in ms
          Drained,   \* how long the out-rings may take to empty, in ms
          HoldUp     \* how long interrupts may hold the main loop up between
                     \* the start of the timer and SLEEPONEXIT, in ms

ASSUME SleepAssumption == Asked \subseteq Nat /\ Drained \subseteq Nat /\ HoldUp \in Nat

SLEEP_MIN == 33
SLEEP_MAX == 30000
IWDG_MAX_TIME == 32760
LSI_KHZ == 32
UINT16_MAX == 65535

VARIABLES
  step,         \* "awake", "drain", "armed", "entering" or "asleep"
  ms,           \* the time left to sleep
  timer,        \* LPTIM1: "off", "counting", "flagged" (its interrupt is
                \* pending) or "over"
  sleeponexit,  \* SCB_SCR_SLEEPONEXIT
  forgotten,    \* history: a wake-up came in this sleep before its flag
  bitten        \* history: the watchdog ended this sleep

sleepVars == <<step, ms, timer, sleeponexit, forgotten, bitten>>

SInit == /\ step = "awake" /\ ms = 0 /\ timer = "off" /\ sleeponexit = FALSE
         /\ forgotten = FALSE /\ bitten = FALSE

-----------------------------------------------------------------------------
(* The count of the timer.                                                 *)

\* while (count >= LSI * UINT16_MAX / 1000) count /= 2: up to 7 times.
Prescaler == {1, 2, 4, 8, 16, 32, 64, 128}
Fitting(t) == {d \in Prescaler : t \div d < (LSI_KHZ * UINT16_MAX) \div 1000}
Prescale(t) == IF Fitting(t) = {} THEN 128
               ELSE CHOOSE d \in Fitting(t) : \A e \in Fitting(t) : d <= e

Count(t) == IF Fitting(t) = {} THEN 65534 ELSE (t * 1000) \div (LSI_KHZ * Prescale(t))

\* Only the low 16 bits go to the compare register.
Sleeps(t) == ((Count(t) % (UINT16_MAX + 1)) * Prescale(t)) \div LSI_KHZ

-----------------------------------------------------------------------------
(* sleep_for_ms.                                                           *)

Ask == \E t \in Asked :
  /\ step = "awake"
  /\ t >= SLEEP_MIN
  /\ step' = "drain"
  /\ ms' = IF t > SLEEP_MAX THEN SLEEP_MAX ELSE t
  /\ forgotten' = FALSE /\ bitten' = FALSE
  /\ UNCHANGED <<timer, sleeponexit>>

\* The out-rings are empty after some time; if little is left, no sleep.
DrainOut == \E spent \in Drained :
  /\ step = "drain"
  /\ IF ms - spent < SLEEP_MIN
     THEN step' = "awake" /\ UNCHANGED <<ms, timer>>
     ELSE step' = "armed" /\ ms' = ms - spent - SLEEP_MIN /\ timer' = "counting"
  /\ UNCHANGED <<sleeponexit, forgotten, bitten>>

\* SLEEPONEXIT is set, then wfi.
SetSleepOnExit ==
  /\ step = "armed" /\ timer # "flagged"
  /\ step' = "entering" /\ sleeponexit' = TRUE
  /\ UNCHANGED <<ms, timer, forgotten, bitten>>
Wfi ==
  /\ step = "entering" /\ step' = "asleep"
  /\ UNCHANGED <<ms, timer, sleeponexit, forgotten, bitten>>

\* Any interrupt (the millisecond's) returns to a main loop that may run.
WakeUp ==
  /\ step = "asleep" /\ ~sleeponexit /\ timer # "flagged"
  /\ step' = "awake"
  /\ UNCHANGED <<ms, timer, sleeponexit, forgotten, bitten>>

-----------------------------------------------------------------------------
(* Interrupts.                                                             *)

\* The timer matches: before the sleep only if main was held up for so long.
Match ==
  /\ timer = "counting"
  /\ step = "asleep" \/ Sleeps(ms) <= HoldUp
  /\ timer' = "flagged"
  /\ UNCHANGED <<step, ms, sleeponexit, forgotten, bitten>>

\* sleep_exit_sleep_mode: "Not sleeping." before the flag is set.
ExitSleepMode ==
  /\ sleeponexit' = FALSE
  /\ forgotten' = (forgotten \/ (step = "armed" /\ ~sleeponexit))

LptimIsr ==
  /\ timer = "flagged"
  /\ timer' = IF sleeponexit THEN "off" ELSE "over"
  /\ ExitSleepMode
  /\ UNCHANGED <<step, ms, bitten>>

\* A received end of line (process_serial) or a watched input that sends at
\* once (io_watch.c): the same, and the timer is turned off with the flag.
WakeIsr ==
  /\ step # "awake"
  /\ timer' = IF sleeponexit THEN "off" ELSE timer
  /\ ExitSleepMode
  /\ UNCHANGED <<step, ms, bitten>>

\* Nothing wakes the device: iwdg_set_period_ms(IWDG_MAX_TIME_MS) has run out,
\* and the program starts again.
WatchdogBites ==
  /\ step = "asleep" /\ sleeponexit
  /\ timer \in {"off", "over"} \/ Sleeps(ms) > IWDG_MAX_TIME
  /\ step' = "awake" /\ timer' = "off" /\ sleeponexit' = FALSE
  /\ bitten' = TRUE
  /\ UNCHANGED <<ms, forgotten>>

-----------------------------------------------------------------------------

Goes == DrainOut \/ SetSleepOnExit \/ Wfi \/ WakeUp \/ LptimIsr
        \/ (step = "asleep" /\ Match) \/ WatchdogBites

SNext == Ask \/ Goes \/ Match \/ WakeIsr

\* The processor, the timer and the watchdog go on; no line need come.
SSpec == SInit /\ [][SNext]_sleepVars /\ WF_sleepVars(Goes)

-----------------------------------------------------------------------------
(* Properties.                                                             *)

\* ... and the timer never wakes the device later than what was asked for.
SleepTypeOK ==
  /\ step \in {"awake", "drain", "armed", "entering", "asleep"}
  /\ timer \in {"off", "counting", "flagged", "over"}
  /\ sleeponexit => step \in {"entering", "asleep"}
  /\ step \in {"armed", "entering", "asleep"} => Sleeps(ms) <= ms

\* Every sleep ends, by the watchdog only if a wake-up came before SLEEPONEXIT.
SleepEnds == /\ step = "asleep" ~> step = "awake"
             /\ (step = "asleep" /\ ~forgotten) ~> (step = "awake" /\ ~bitten)
=============================================================================
