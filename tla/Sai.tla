---------------------------------- MODULE Sai ----------------------------------
(***************************************************************************)
(* The microphone (sensors/src/sai.c): the DMA fills a buffer of samples   *)
(* and its interrupt says so; an iteration takes the buffer into a rolling *)
(* root mean square and starts the DMA again, until sai_no_buf buffers are *)
(* in.  The driver is called by a sampler (Sampler).                       *)
(*                                                                         *)
(* A buffer is told from others by whether it is whole, and the rolling    *)
(* value by how many buffers of each kind are in it.  24-bit samples never *)
(* overflow the 64-bit sums; the multiplication by no earlier buffer, that *)
(* divides by 0 in u64_multiply_overflow_check, passes as built for the    *)
(* ARM, and forgets rolling_rms.                                           *)
(***************************************************************************)
EXTENDS Integers

CONSTANTS
  SaiMinNoBuf, SaiMaxNoBuf,  \* SAI_MIN_NO_BUF, SAI_MAX_NO_BUF
  MaxSaiCuts,                \* bound: samples cut short
  MaxSaiSets                 \* bound: changes of sai_no_buf

ASSUME SaiAssumption == {SaiMinNoBuf, SaiMaxNoBuf, MaxSaiCuts, MaxSaiSets} \subseteq Nat /\ SaiMinNoBuf < SaiMaxNoBuf

VARIABLES
  sai_dma,        \* the DMA is filling the buffer
  sai_array,      \* what is in it: "whole" when filled since it was started
  sai_finished, num_rms,
  rolling_rms,    \* buffers in it: whole, torn, and of samples before this one
  sai_no_buf,
  sai_owned,      \* the sampler has begun and not ended
  sai_told,       \* what the last get returned, and how many were asked for
  sai_cuts, sai_sets,
  sai_clean,      \* history: nothing was left by a sample cut short
  sai_changed     \* history: sai_no_buf was set during this sample

saiVars == <<sai_dma, sai_array, sai_finished, num_rms, rolling_rms, sai_no_buf, sai_owned, sai_told,
             sai_cuts, sai_sets, sai_clean, sai_changed>>

NoRms == [whole |-> 0, torn |-> 0, before |-> 0]
\* _sai_dma_init, _sai_dma_on
DmaStart == sai_dma' = TRUE /\ sai_array' = "torn"
\* the buffer is full; the DMA is not circular
Dma2Channel1Isr ==
  /\ sai_dma /\ sai_dma' = FALSE /\ sai_array' = "whole" /\ sai_finished' = TRUE
  /\ UNCHANGED <<num_rms, rolling_rms, sai_no_buf, sai_owned, sai_told, sai_cuts, sai_sets, sai_clean, sai_changed>>

\* _sai_measurements_init: finished and num_rms stay
SaiBegin ==
  /\ ~sai_owned /\ sai_owned' = TRUE /\ DmaStart /\ sai_changed' = FALSE
  /\ rolling_rms' = [whole |-> 0, torn |-> 0, before |-> num_rms]
  /\ UNCHANGED <<sai_finished, num_rms, sai_no_buf, sai_told, sai_cuts, sai_sets, sai_clean>>

\* _sai_collect
RolledIn(kind) == [(IF num_rms = 0 THEN NoRms ELSE rolling_rms) EXCEPT ![kind] = @ + 1]
Enough == num_rms >= sai_no_buf

\* Mutated: the DMA is not started again
SaiIterateOnce ==
  /\ sai_owned /\ ~Enough /\ sai_finished /\ sai_finished' = FALSE
  /\ num_rms' = num_rms + 1 /\ rolling_rms' = RolledIn(sai_array)
  /\ UNCHANGED <<sai_dma, sai_array, sai_no_buf, sai_owned, sai_told, sai_cuts, sai_sets, sai_clean, sai_changed>>
\* Mutated: finished is cleared by nobody
SaiIterateAgain ==
  /\ sai_owned /\ ~Enough /\ sai_finished
  /\ num_rms' = num_rms + 1 /\ rolling_rms' = RolledIn(sai_array)
  /\ IF num_rms' >= sai_no_buf THEN UNCHANGED <<sai_dma, sai_array>> ELSE DmaStart
  /\ UNCHANGED <<sai_finished, sai_no_buf, sai_owned, sai_told, sai_cuts, sai_sets, sai_clean, sai_changed>>
\* _sai_iteration_callback
SaiIterate ==
  /\ sai_owned /\ ~Enough /\ sai_finished /\ sai_finished' = FALSE
  /\ num_rms' = num_rms + 1 /\ rolling_rms' = RolledIn(sai_array)
  /\ IF num_rms' >= sai_no_buf THEN UNCHANGED <<sai_dma, sai_array>> ELSE DmaStart
  /\ UNCHANGED <<sai_no_buf, sai_owned, sai_told, sai_cuts, sai_sets, sai_clean, sai_changed>>

\* _sai_measurements_get, when the collection time is over: it should be enough,
\* but may not be.
SaiGet ==
  /\ sai_owned /\ sai_owned' = FALSE /\ sai_dma' = FALSE
  /\ IF Enough THEN UNCHANGED sai_cuts ELSE sai_cuts < MaxSaiCuts /\ sai_cuts' = sai_cuts + 1
  /\ sai_clean' = (Enough /\ (sai_clean \/ (~sai_finished /\ rolling_rms.before = 0)))
  /\ sai_told' = IF num_rms = 0 THEN [rms |-> NoRms, of |-> 0, clean |-> FALSE]
                 ELSE [rms |-> rolling_rms, of |-> sai_no_buf, clean |-> sai_clean /\ Enough]
  /\ num_rms' = 0
  /\ UNCHANGED <<sai_array, sai_finished, rolling_rms, sai_no_buf, sai_sets, sai_changed>>
\* A command stops waiting: the driver is not told.
SaiGivenUp ==
  /\ sai_owned /\ sai_owned' = FALSE /\ sai_cuts < MaxSaiCuts /\ sai_cuts' = sai_cuts + 1
  /\ sai_clean' = FALSE
  /\ UNCHANGED <<sai_dma, sai_array, sai_finished, num_rms, rolling_rms, sai_no_buf, sai_told, sai_sets, sai_changed>>

\* _sai_set_target_no_buf
NoBuf == (SaiMinNoBuf + 1)..SaiMaxNoBuf
SaiSetNoBuf(n) ==
  /\ sai_sets < MaxSaiSets /\ sai_sets' = sai_sets + 1 /\ n \in NoBuf /\ sai_no_buf' = n
  /\ sai_clean' = (sai_clean /\ ~sai_owned) /\ sai_changed' = (sai_changed \/ sai_owned)
  /\ UNCHANGED <<sai_dma, sai_array, sai_finished, num_rms, rolling_rms, sai_owned, sai_told, sai_cuts>>

SaiInit ==
  /\ sai_dma = FALSE /\ sai_array = "torn" /\ sai_finished = FALSE /\ num_rms = 0
  /\ rolling_rms = NoRms /\ sai_no_buf = SaiMaxNoBuf /\ sai_owned = FALSE
  /\ sai_told = [rms |-> NoRms, of |-> 0, clean |-> FALSE] /\ sai_cuts = 0 /\ sai_sets = 0 /\ sai_clean = TRUE
  /\ sai_changed = FALSE
SaiNext == \/ Dma2Channel1Isr \/ SaiBegin \/ SaiIterate \/ SaiGet \/ SaiGivenUp
           \/ \E n \in 0..SaiMaxNoBuf : SaiSetNoBuf(n)
\* The DMA runs, the main loop iterates, and collects what is complete.
SaiFair == /\ WF_saiVars(Dma2Channel1Isr) /\ WF_saiVars(SaiIterate)
           /\ WF_saiVars(Enough /\ SaiGet)
SaiSpec == SaiInit /\ [][SaiNext]_saiVars /\ SaiFair
--------------------------------------------------------------------------------
(* What the variables hold. *)
SaiTypeOK ==
  /\ num_rms \in 0..SaiMaxNoBuf /\ sai_no_buf \in (SaiMinNoBuf + 1)..SaiMaxNoBuf
  /\ num_rms > 0 => rolling_rms.whole + rolling_rms.torn + rolling_rms.before = num_rms

(* A level is of as many buffers as are asked for, each filled by the DMA   *)
(* since the sample began, unless a sample was cut short since the last     *)
(* one that was not: what that leaves, a finished flag or buffers counted,  *)
(* is gone after one sample.                                                *)
LevelIsWhole ==
  sai_told.clean => /\ sai_told.rms.whole = sai_told.of
                    /\ sai_told.rms.torn = 0 /\ sai_told.rms.before = 0

(* At most one buffer of a level is not whole, whatever was cut short.       *)
TornIsBounded == sai_told.rms.torn <= 1

(* A level is of its sample, but for what a sample cut short leaves.        *)
LevelIsOfItsSample == LevelIsWhole /\ TornIsBounded

(* The DMA is started again until there are enough buffers: a sample ends,  *)
(* if sai_no_buf is not raised after its last one.                          *)
SaiEnds == sai_owned ~> (~sai_owned \/ sai_changed)
================================================================================
