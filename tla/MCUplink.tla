------------------------------ MODULE MCUplink ------------------------------
(* Instances of Uplink for TLC.  The first has a counter, an IO that is       *)
(* watched and a counter, all sent every interval by a network that answers   *)
(* in time; Slow has a counter sent every second interval and an IO, and a    *)
(* network that answers late.  instance says which.                           *)
EXTENDS Uplink, TLC

VARIABLE instance

MCPulse == {0, 2}
MCEvery == [s \in Slot |-> 1]

MCOnePulse == {0}
MCSlowEvery == [s \in {0, 1} |-> IF s = 0 THEN 2 ELSE 1]
MCSecond == [s \in Slot |-> IF s = 0 THEN 2 ELSE 1]

Slow == INSTANCE Uplink WITH
  N <- 2, Pulse <- MCOnePulse, Interval <- MCSlowEvery, Cycle <- 2, Fits <- 1,
  PromptAck <- FALSE, MaxPulses <- 1, MaxLosses <- 1, MaxExtras <- 1, MaxReads <- 1

MCInit == \/ instance = "prompt" /\ Init
          \/ instance = "slow" /\ Slow!Init
MCNext == /\ \/ instance = "prompt" /\ Next
             \/ instance = "slow" /\ Slow!Next
          /\ UNCHANGED instance
Prompt == instance = "prompt"
Late == instance = "slow"
MCMainLoop == \/ Prompt /\ MainLoop
              \/ Late /\ Slow!MainLoop
MCTick == \/ Prompt /\ Tick
          \/ Late /\ Slow!Tick
MCJoin == \/ Prompt /\ JoinNetwork
          \/ Late /\ Slow!JoinNetwork

\* The main loop and the clock run, and the network takes part.  An answer may
\* take more than an interval with Late, but not every time.
MCSpec ==
  /\ MCInit /\ [][MCNext]_<<instance, vars>>
  /\ WF_vars(MCMainLoop) /\ WF_vars(MCTick) /\ WF_vars(MCJoin)
  /\ WF_vars(Prompt /\ ModemOk) /\ WF_vars(Prompt /\ Ack)
  /\ SF_vars(Late /\ Slow!ModemOk) /\ SF_vars(Late /\ Slow!Ack)

SecondSpec == /\ instance = "second" /\ Init
              /\ [][Next /\ UNCHANGED instance]_<<instance, vars>>

\* The properties of Uplink, each where it is checked.  What the variables
\* hold, the type invariant of both instances ...
UplinkTypeOK == /\ Prompt => TypeOK
                /\ Late => Slow!TypeOK
\* ... no pulse lost or told twice, no fragment left out, and every pulse told
\* in the end, where answers are prompt ...
PromptNoFragmentForgotten == Prompt => NoFragmentForgotten /\ PulsesKept
PromptPulsesReported == <>[](Prompt => \A s \in Pulse : reported[s] = total[s])
\* ... and every sample sent in the end where they are late.
SlowSamplesGoOut == \A s \in 0..1 : Late /\ val[s] # NoSample ~> val[s] = NoSample
=============================================================================
