------------------------------- MODULE MCBoard -------------------------------
(* The parts of a board that do not share state, for TLC: part says which     *)
(* one runs, the others stay as they start.                                   *)
EXTENDS AdcShare, IoPins, Sampler, Hpm, Veml7700, Sai, OneWire

VARIABLE part

\* env01c: IO 2 and IO 4 (5 there) are one pin, IO 3 enables the pull-up of IO 2
MCPinOf == [io \in Io |-> CASE io = 0 -> "C9" [] io = 1 -> "C11" [] io \in {2, 4} -> "B5"
                           [] io = 3 -> "C7" [] OTHER -> "D2"]
MCPullPin == [io \in W1PulseIo |-> IF io = 2 THEN "C7" ELSE "C6"]

MCInit == /\ part \in {"adc", "io", "sampler", "hpm", "veml", "sai", "w1"}
          /\ AdcInit /\ IoInit /\ SamplerInit /\ HpmStart /\ VemlInit /\ SaiInit /\ W1Init
          /\ part # "sampler" => sdef["T"].samplecount = 1

MCAdc == part = "adc" /\ AdcNext /\ UNCHANGED <<part, ioVars, samplerVars, hpmVars, vemlVars, saiVars, w1Vars>>
MCIo == part = "io" /\ IoNext /\ UNCHANGED <<part, adcVars, samplerVars, hpmVars, vemlVars, saiVars, w1Vars>>
MCSampler == part = "sampler" /\ SamplerNext /\ UNCHANGED <<part, adcVars, ioVars, hpmVars, vemlVars, saiVars, w1Vars>>
MCHpm == part = "hpm" /\ HpmNext /\ UNCHANGED <<part, adcVars, ioVars, samplerVars, vemlVars, saiVars, w1Vars>>
MCVeml == part = "veml" /\ VemlNext /\ UNCHANGED <<part, adcVars, ioVars, samplerVars, hpmVars, saiVars, w1Vars>>
MCSai == part = "sai" /\ SaiNext /\ UNCHANGED <<part, adcVars, ioVars, samplerVars, hpmVars, vemlVars, w1Vars>>
MCW1 == part = "w1" /\ W1Next /\ UNCHANGED <<part, adcVars, ioVars, samplerVars, hpmVars, vemlVars, saiVars>>

\* The fairness of each part, when it runs
MCFair ==
  /\ WF_adcVars(part = "adc" /\ DmaComplete) /\ WF_adcVars(part = "adc" /\ BatGet)
  /\ (\A i \in CC : WF_adcVars(part = "adc" /\ CcGet(i)))
  /\ \A i \in FTMA : WF_adcVars(part = "adc" /\ FtmaGet(i))
  /\ WF_hpmVars(part = "hpm" /\ (HpmHeader \/ HpmBody)) /\ WF_hpmVars(part = "hpm" /\ HpmSecond)
  /\ \A n \in PmName : WF_hpmVars(part = "hpm" /\ HpmGet(n))
  /\ WF_vemlVars(part = "veml" /\ VemlBegin) /\ WF_vemlVars(part = "veml" /\ VemlIterate)
  /\ WF_vemlVars(part = "veml" /\ VemlGet) /\ WF_vemlVars(part = "veml" /\ VemlIdle)
  /\ WF_saiVars(part = "sai" /\ Dma2Channel1Isr) /\ WF_saiVars(part = "sai" /\ SaiIterate)
  /\ WF_saiVars(part = "sai" /\ Enough /\ SaiGet)

MCVars == <<part, adcVars, ioVars, samplerVars, hpmVars, vemlVars, saiVars, w1Vars>>
MCSpec == /\ MCInit /\ [][MCAdc \/ MCIo \/ MCSampler \/ MCHpm \/ MCVeml \/ MCSai \/ MCW1]_MCVars
          /\ MCFair
--------------------------------------------------------------------------------
(* What the variables of all parts hold.                                      *)
BoardTypeOK == /\ AdcTypeOK /\ IoTypeOK /\ SamplerTypeOK /\ HpmTypeOK /\ VemlTypeOK
               /\ SaiTypeOK /\ W1TypeOK

(* A sample of the particle sensor, the light sensor or the microphone ends,  *)
(* with a value or an error, whatever becomes of the packets, the transfers   *)
(* and the buffers; and the light sensor is read again after it.              *)
SamplesEnd == HpmEnds /\ LightIsReadAgain /\ SaiEnds
==============================================================================
