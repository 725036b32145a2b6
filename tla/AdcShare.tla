------------------------------- MODULE AdcShare -------------------------------
(***************************************************************************)
(* core/src/adcs.c: one converter for the current clamps (sensors/src/     *)
(* cc.c), the 4-20 mA inputs (ftma.c) and the battery (ports/stm/src/      *)
(* bat.c).  A client begins a conversion of its channels into the one      *)
(* buffer, with a key that keeps the others out; the DMA interrupt ends    *)
(* it; the client collects and releases.  Clamps share a conversion, and   *)
(* so do 4-20 mA inputs.  A reading is known by its channel.               *)
(*                                                                         *)
(* A command that waits does so in a nested main loop in which no          *)
(* measurement is made: it is one step, in which the conversion is done or *)
(* not.                                                                    *)
(***************************************************************************)
EXTENDS Integers, Sequences, FiniteSets

CONSTANTS
  Clamps,        \* ADC_CC_COUNT
  Ftmas,         \* ADC_FTMA_COUNT
  MaxCcCommands  \* bound: commands "cc", "cc_cal", "bat" and sleeps

ASSUME AdcAssumption == {Clamps, Ftmas} \subseteq Nat \ {0} /\ MaxCcCommands \in Nat

BAT == 0
CC == 1..Clamps
FTMA == (Clamps + 1)..(Clamps + Ftmas)
Reading == {BAT} \cup CC \cup FTMA

VARIABLES
  adc_key, in_use,   \* _adcs_active_key, _adcs_in_use
  samples,           \* channels of the conversion in _adcs_buffer, in order
  converting,        \* the ADC is at work, and will interrupt
  cc_active,         \* _cc_adc_active_clamps, which are kept in order
  cc_running,        \* clamps for which _cc_running
  cc_isolated,       \* _cc_running_isolated; 0 for ADCS_TYPE_INVALID
  ftma_running,      \* _ftma_is_running
  ftma_inited,       \* inputs for which _ftma_channel_inited
  bat_running,       \* _bat_running
  wanted,            \* clamps the measurements have enabled
  begun,             \* readings the measurements have begun and not collected
  got,               \* the latest reading collected and what it was made from
  given_up,          \* some step left another client's reading behind
  adc_commands

adc == <<adc_key, in_use, samples, converting>>
cc == <<cc_active, cc_running, cc_isolated>>
others == <<ftma_running, ftma_inited, bat_running>>
adcVars == <<adc, cc, others, wanted, begun, got, given_up, adc_commands>>

None == [of |-> {}, from |-> {}]

-----------------------------------------------------------------------------
(* adcs.c.                                                                 *)

\* adcs_begin is refused (ADCS_RESP_WAIT) while there is a conversion or a key.
Free == ~in_use /\ adc_key = "none"

AdcBegin(channels, key) ==
  /\ in_use' = TRUE /\ converting' = TRUE
  /\ adc_key' = key /\ samples' = channels

\* adcs_dma_complete.
DmaComplete ==
  /\ converting /\ converting' = FALSE /\ in_use' = FALSE
  /\ UNCHANGED <<adc_key, samples, cc, others, wanted, begun, got, given_up,
                 adc_commands>>

\* adcs_collect_rms, adcs_collect_avg: every step-th sample from start on.
Collected(key) == ~in_use /\ adc_key = key
ChannelsAt(start, step) ==
  { samples[((start + n * step) % Len(samples)) + 1] : n \in 0..Len(samples) }

Release(key) == adc_key' = IF adc_key = key THEN "none" ELSE adc_key

-----------------------------------------------------------------------------
(* cc.c.                                                                   *)

Below(i, s) == { j \in s : j < i }
Ascending(s) == [n \in 1..Cardinality(s) |-> CHOOSE i \in s : Cardinality(Below(i, s)) = n - 1]
ActiveIndex(i) == Cardinality(Below(i, cc_active))

\* _cc_begin for the measurements; a reading that is refused or must wait
\* changes nothing.
CcBegin(i) ==
  /\ i \in wanted /\ i \notin begun
  /\ cc_active # {} /\ cc_isolated = 0
  /\ \/ cc_running \ {i} # {} /\ UNCHANGED adc
     \/ cc_running \ {i} = {} /\ Free /\ AdcBegin(Ascending(cc_active), "cc")
  /\ cc_running' = cc_running \cup {i} /\ begun' = begun \cup {i}
  /\ UNCHANGED <<cc_active, cc_isolated, others, wanted, got, given_up,
                 adc_commands>>

\* Mutated form of ReleaseAuto: the other clamps are not asked.
ReleaseAutoAlways == Release("cc")

\* _cc_release_auto.
ReleaseAuto == IF cc_running' = {} THEN Release("cc") ELSE UNCHANGED adc_key

\* The distance of two samples of a clamp.
CcStep == IF cc_isolated # 0 THEN 1 ELSE Cardinality(cc_active)

\* _cc_get.  A clamp that is not active is an error that releases nothing; an
\* RMS without peaks is one too, after which the clamp is done with.
CcGet(i) ==
  /\ i \in begun
  /\ \/ /\ i \notin cc_active \/ i \notin cc_running
        /\ begun' = begun \ {i}
        /\ UNCHANGED <<adc, cc, got>>
     \/ /\ i \in cc_active \cap cc_running /\ ~Collected("cc")
        /\ cc_isolated' = 0
        /\ UNCHANGED <<adc, cc_active, cc_running, begun, got>>
     \/ /\ i \in cc_active \cap cc_running /\ Collected("cc")
        /\ got' \in {None, [of |-> {i}, from |-> ChannelsAt(ActiveIndex(i), CcStep)]}
        /\ cc_running' = cc_running \ {i} /\ cc_isolated' = 0
        /\ begun' = begun \ {i}
        /\ ReleaseAuto
        /\ UNCHANGED <<in_use, samples, converting, cc_active>>
  /\ UNCHANGED <<others, wanted, given_up, adc_commands>>

\* Mutated form of CcEnable: the clamp after the one named becomes active.
CcEnableNext(i) ==
  /\ wanted' = (wanted \ {i}) \cup ({i} \ wanted)
  /\ IF cc_running = {}
     THEN /\ cc_active' = (cc_active \ {i}) \cup { j + 1 : j \in {i} \cap wanted' }
          /\ UNCHANGED given_up
     ELSE given_up' = TRUE /\ UNCHANGED cc_active
  /\ UNCHANGED <<adc, cc_running, cc_isolated, others, begun, got, adc_commands>>

\* _cc_enable: refused, and nobody told, while a clamp is read.
CcEnable(i) ==
  /\ wanted' = (wanted \ {i}) \cup ({i} \ wanted)
  /\ IF cc_running = {}
     THEN /\ cc_active' = (cc_active \ {i}) \cup ({i} \cap wanted')
          /\ UNCHANGED given_up
     ELSE given_up' = TRUE /\ UNCHANGED cc_active
  /\ UNCHANGED <<adc, cc_running, cc_isolated, others, begun, got, adc_commands>>

-----------------------------------------------------------------------------
(* ftma.c and bat.c.                                                       *)

FtmaBegin(i) ==
  /\ i \notin begun /\ i \notin ftma_inited
  /\ \/ ftma_running /\ UNCHANGED <<adc, ftma_running>>
     \/ /\ ~ftma_running /\ Free
        /\ AdcBegin(Ascending(FTMA), "ftma") /\ ftma_running' = TRUE
  /\ ftma_inited' = ftma_inited \cup {i} /\ begun' = begun \cup {i}
  /\ UNCHANGED <<cc, bat_running, wanted, got, given_up, adc_commands>>

\* Mutated form of FtmaGet: the first input collected releases the ADC.
FtmaGetReleases(i) ==
  /\ i \in begun /\ i \in ftma_inited /\ Collected("ftma")
  /\ got' = [of |-> {i}, from |-> ChannelsAt(i - Clamps - 1, Ftmas)]
  /\ ftma_running' = FALSE
  /\ ftma_inited' = ftma_inited \ {i} /\ begun' = begun \ {i}
  /\ Release("ftma")
  /\ UNCHANGED <<in_use, samples, converting, cc, bat_running, wanted, given_up,
                 adc_commands>>

\* _ftma_get, with _ftma_auto_release; it waits until the conversion is done.
FtmaGet(i) ==
  /\ i \in begun /\ i \in ftma_inited /\ Collected("ftma")
  /\ got' = [of |-> {i}, from |-> ChannelsAt(i - Clamps - 1, Ftmas)]
  /\ ftma_running' = FALSE
  /\ ftma_inited' = ftma_inited \ {i} /\ begun' = begun \ {i}
  /\ IF ftma_inited' = {} THEN Release("ftma") ELSE UNCHANGED adc_key
  /\ UNCHANGED <<in_use, samples, converting, cc, bat_running, wanted, given_up,
                 adc_commands>>

\* _bat_begin.  _bat_starting_time stays 0, so that the battery reading that is
\* running has always timed out: it is released, also in the middle of it.
BatBegin ==
  /\ BAT \notin begun
  /\ adc_key = "none" \/ (adc_key = "bat" /\ bat_running)
  /\ IF in_use
     THEN /\ bat_running /\ bat_running' = FALSE /\ Release("bat")
          /\ UNCHANGED <<in_use, samples, converting, begun>>
     ELSE /\ AdcBegin(<<BAT>>, "bat") /\ bat_running' = TRUE
          /\ begun' = begun \cup {BAT}
  /\ UNCHANGED <<cc, ftma_running, ftma_inited, wanted, got, given_up, adc_commands>>

\* _bat_get.
BatGet ==
  /\ BAT \in begun
  /\ \/ ~bat_running /\ UNCHANGED <<adc_key, bat_running, got>>
     \/ /\ bat_running /\ Collected("bat")
        /\ got' = [of |-> {BAT}, from |-> ChannelsAt(0, 1)]
        /\ bat_running' = FALSE /\ Release("bat")
  /\ begun' = begun \ {BAT}
  /\ UNCHANGED <<in_use, samples, converting, cc, ftma_running, ftma_inited, wanted,
                 given_up, adc_commands>>

-----------------------------------------------------------------------------
(* Commands, which wait for their reading.                                 *)

AdcCommand == adc_commands < MaxCcCommands /\ adc_commands' = adc_commands + 1

\* The conversion a command begins with key is done and released in time; or it
\* is not, and is left behind.
DoneInTime == UNCHANGED <<in_use, converting, adc_key>>
NotInTime(key) ==
  in_use' = TRUE /\ converting' = TRUE /\ adc_key' = key /\ given_up' = TRUE

\* cc_get_blocking.  The clamp is noted as isolated before the converter is
\* asked, and stays so when that is in use or the clamp is not active.
CcBlocking(i) ==
  /\ AdcCommand /\ cc_running \ {i} = {}
  /\ \/ /\ ~Free
        /\ cc_isolated' = i /\ given_up' = TRUE
        /\ UNCHANGED <<adc, cc_running, got>>
     \/ /\ Free /\ samples' = <<i>> /\ DoneInTime
        /\ cc_running' = {}
        /\ IF i \in cc_active
           THEN /\ cc_isolated' = 0 /\ UNCHANGED given_up
                /\ got' \in {None, [of |-> {i}, from |-> {i}]}
           ELSE cc_isolated' = i /\ given_up' = TRUE /\ UNCHANGED got
     \/ /\ Free /\ samples' = <<i>> /\ NotInTime("cc")
        /\ cc_isolated' = i /\ cc_running' = cc_running \cup {i}
        /\ UNCHANGED got
  /\ UNCHANGED <<cc_active, others, wanted, begun>>

\* cc_get_all_blocking: all clamps are active meanwhile, and stay so when the
\* converter is in use or too slow, or one has no reading.
CcAllBlocking ==
  /\ AdcCommand /\ cc_running = {}
  /\ \/ /\ ~Free \/ cc_isolated # 0
        /\ cc_active' = CC
        /\ UNCHANGED <<adc, cc_running, given_up>>
     \/ /\ Free /\ cc_isolated = 0
        /\ samples' = Ascending(CC) /\ DoneInTime
        /\ cc_active' \in {cc_active, CC}
        /\ UNCHANGED <<cc_running, given_up>>
     \/ /\ Free /\ cc_isolated = 0
        /\ samples' = Ascending(CC) /\ NotInTime("cc")
        /\ cc_active' = CC /\ cc_running' = CC
  /\ UNCHANGED <<cc_isolated, others, wanted, begun, got>>

\* _cc_calibrate: the active clamps change whether one is read or not; when the
\* converter is in use or too slow, or a clamp has no peaks, they stay changed.
CcCalibrate ==
  /\ AdcCommand
  /\ \/ /\ ~Free
        /\ cc_active' = CC
        /\ given_up' = (given_up \/ cc_running # {})
        /\ UNCHANGED <<adc, cc_running>>
     \/ /\ Free /\ samples' = Ascending(CC) /\ DoneInTime
        /\ cc_running' = {} /\ cc_active' \in {cc_active, CC}
        /\ UNCHANGED given_up
     \/ /\ Free /\ samples' = Ascending(CC)
        /\ in_use' = TRUE /\ converting' = TRUE /\ UNCHANGED adc_key
        /\ cc_active' = CC /\ cc_running' = {} /\ UNCHANGED given_up
  /\ UNCHANGED <<cc_isolated, others, wanted, begun, got>>

\* bat_get_blocking and bat_on_battery: as _bat_begin they release a battery
\* reading that is running.
BatBlocking ==
  /\ AdcCommand
  /\ adc_key = "none" \/ (adc_key = "bat" /\ bat_running)
  /\ \/ /\ in_use
        /\ bat_running' = FALSE /\ Release("bat")
        /\ UNCHANGED <<in_use, samples, converting, given_up>>
     \/ /\ ~in_use /\ samples' = <<BAT>>
        /\ adc_key' = "none" /\ UNCHANGED <<in_use, converting, given_up>>
        /\ bat_running' = FALSE
     \/ /\ ~in_use /\ samples' = <<BAT>> /\ NotInTime("bat")
        /\ bat_running' = TRUE
  /\ UNCHANGED <<cc, ftma_running, ftma_inited, wanted, begun, got>>

\* The measurements give a reading up when the next is due; the device sleeps,
\* with the converter off: its conversion, if any, never ends.
GiveUp ==
  /\ AdcCommand /\ given_up' = TRUE
  /\ \E r \in begun : begun' = begun \ {r}
  /\ UNCHANGED <<adc, cc, others, wanted, got>>
Sleep ==
  /\ AdcCommand /\ converting
  /\ converting' = FALSE /\ given_up' = TRUE
  /\ UNCHANGED <<adc_key, in_use, samples, cc, others, wanted, begun, got>>

-----------------------------------------------------------------------------

AdcInit ==
  /\ adc_key = "none" /\ in_use = FALSE /\ converting = FALSE /\ samples = <<BAT>>
  /\ cc_active = CC /\ wanted = CC /\ cc_running = {} /\ cc_isolated = 0
  /\ ftma_running = FALSE /\ ftma_inited = {} /\ bat_running = FALSE
  /\ begun = {} /\ got = None /\ given_up = FALSE /\ adc_commands = 0

Get == \/ (\E i \in CC : CcGet(i))
       \/ (\E i \in FTMA : FtmaGet(i))
       \/ BatGet

AdcNext ==
  \/ DmaComplete \/ Get \/ BatBegin
  \/ (\E i \in CC : CcBegin(i) \/ CcEnable(i) \/ CcBlocking(i))
  \/ (\E i \in FTMA : FtmaBegin(i))
  \/ CcAllBlocking \/ CcCalibrate \/ BatBlocking \/ GiveUp \/ Sleep

AdcFair == /\ WF_adcVars(DmaComplete) /\ WF_adcVars(BatGet)
               /\ (\A i \in CC : WF_adcVars(CcGet(i)))
               /\ \A i \in FTMA : WF_adcVars(FtmaGet(i))

AdcSpec == AdcInit /\ [][AdcNext]_adcVars /\ AdcFair

-----------------------------------------------------------------------------
(* Properties.                                                             *)

\* Type invariant.
AdcTypeOK ==
  /\ adc_key \in {"none", "cc", "ftma", "bat"}
  /\ {in_use, converting, ftma_running, bat_running, given_up} \subseteq BOOLEAN
  /\ samples \in Seq(Reading) /\ samples # <<>>
  /\ cc_running \cup cc_active \cup wanted \subseteq CC /\ cc_isolated \in 0..Clamps
  /\ ftma_inited \subseteq FTMA /\ begun \subseteq Reading
  /\ got.of \cup got.from \subseteq Reading
  /\ adc_commands \in 0..MaxCcCommands

\* The key is always that of a client with a reading to collect, and the clamps
\* and inputs being read are covered by it: no other client can write the
\* buffer they will read.  (The battery may lose its reading, not its key.)
KeyIsOwned ==
  /\ adc_key = "cc" <=> cc_running # {}
  /\ adc_key = "ftma" <=> ftma_inited # {}
  /\ adc_key = "bat" <=> bat_running

\* What is collected as the reading of a channel was converted from it and no
\* other, unless a command, a sleep or a reading given up came in between.
RightChannel == given_up \/ got.of = got.from

\* The clients of the ADC keep out of each other's readings.
ClientsKeepApart == KeyIsOwned /\ RightChannel

\* A reading begun is collected in the end, or fails, unless one was left
\* behind.
BegunIsCollected ==
  \A r \in Reading : (r \in begun) ~> (r \notin begun \/ given_up)
================================================================================
