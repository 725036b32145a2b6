-------------------------------- MODULE Sampler --------------------------------
(***************************************************************************)
(* Sampling (core/src/measurements.c): over a transmit interval each       *)
(* measurement is begun and collected samplecount times, at times counted  *)
(* by num_samples_init and num_samples_collected; between the two its      *)
(* sensor is iterated on each pass of the main loop.  A command may read a *)
(* measurement at any time, change how it is sampled, or take it away.     *)
(* Here the measurements are the two of the HTU21D; what happens to a      *)
(* report is in Uplink.                                                    *)
(*                                                                         *)
(* Time passes in ticks a little longer than the pause of the sensor.  No  *)
(* measurement is_immediate, intervals are 1.                              *)
(***************************************************************************)
EXTENDS Integers, Htu21d

CONSTANTS
  SampleInterval,   \* INTERVAL_TRANSMIT_MS, in ticks
  CollectionTime,   \* MEASUREMENT_COLLECTION_MS, in ticks
  SampleCount,      \* the samplecounts a measurement may have
  MaxDisturbances   \* bound: commands, and reads of the chip that fail

ASSUME SamplerAssumption ==
  /\ SampleInterval \in Nat /\ CollectionTime \in Nat
  /\ \A c \in SampleCount : c \in Nat \ {0} /\ CollectionTime <= (SampleInterval \div c) \div 2
  /\ MaxDisturbances \in Nat

VARIABLES
  sdef,         \* per name: interval and samplecount, NoDef when deleted
  ndata,        \* per name: num_samples_init, num_samples_collected,
                \* num_samples, is_collecting, and how many samples were repeats
  htu,          \* the sensor's driver
  at,           \* where the main loop is: <<step, name>>
  since_sent, since_check, wait_time,  \* _last_sent_ms, _check_time
  reading2,     \* _measurements_get_reading2: its name and the time left
  report,       \* history: what the last report said of each name
  sensor_faults, meas_commands, \* how many there were
  fault_in,     \* history: "last" after a fault in a last sample, or "early"
  hindered      \* history: a measurement was changed, or a command held up a sample

sampling == <<sdef, ndata, since_sent, since_check, wait_time>>
history == <<report, sensor_faults, meas_commands, fault_in, hindered>>
samplerVars == <<sampling, htu, at, reading2, history>>

Never == SampleInterval + 2
NoDef == [interval |-> 0, samplecount |-> 0]
NoData == [init |-> 0, collected |-> 0, samples |-> 0, repeats |-> 0, collecting |-> FALSE]
Least(a, b) == IF a < b THEN a ELSE b
\* since_boot_delta of a time that is past is huge
Delta(to, from) == IF to >= from THEN Least(to - from, Never) ELSE Never

IsActive(n) == sdef[n].interval > 0 /\ sdef[n].samplecount > 0
Every(n) == SampleInterval \div sdef[n].samplecount
TimeInit(n, d) == d.init * Every(n) + Every(n) \div 2 - CollectionTime
TimeCollect(n, d) == d.collected * Every(n) + Every(n) \div 2
-----------------------------------------------------------------------------
(* _measurements_sample, slot by slot.                                     *)

\* "Could not collect before next init."
Missed(d) == IF d.collected < d.init THEN [d EXCEPT !.collected = @ + 1] ELSE d

\* _measurements_sample_init_iteration: the new data, driver and wait
SampleInit(n, d) ==
  LET tried == HtuInit(htu, n)
      both == [d EXCEPT !.init = @ + 1, !.collected = @ + 1]
  IN  IF d.collecting THEN [data |-> both, htu |-> htu, busy |-> FALSE]
      ELSE CASE tried.resp = "SUCCESS" ->
                  [data |-> [d EXCEPT !.init = @ + 1, !.collecting = TRUE],
                   htu |-> tried.htu, busy |-> FALSE]
             [] tried.resp = "BUSY" -> [data |-> d, htu |-> tried.htu, busy |-> TRUE]

\* _measurements_sample_get_iteration: the value is taken in, by its type
TakenIn(d, repeat) == [d EXCEPT !.samples = @ + 1, !.repeats = @ + (IF repeat THEN 1 ELSE 0)]

\* _measurements_sample_get_resp: collected, be there a value or not
Got(d, resp, repeat) ==
  LET counted == [d EXCEPT !.collecting = FALSE, !.collected = @ + 1]
  IN  IF resp = "SUCCESS" THEN TakenIn(counted, repeat) ELSE counted

SampleSlot(n) ==
  /\ at = <<"sample", n>> /\ at' = IF n = "T" THEN <<"sample", "H">> ELSE <<"send", "T">>
  /\ LET isInit == since_sent >= TimeInit(n, ndata[n])
         began == IF isInit THEN SampleInit(n, Missed(ndata[n]))
                  ELSE [data |-> ndata[n], htu |-> htu, busy |-> FALSE]
         initWait == IF began.busy THEN 0
                     ELSE Delta(TimeInit(n, ndata[n]) + (IF isInit THEN CollectionTime ELSE 0),
                                since_sent)
         due == TimeCollect(n, ndata[n])
         isGet == since_sent >= due
         tried == HtuGet(began.htu, n)
         getWait == IF isGet THEN Delta(due + Every(n), CollectionTime + since_sent)
                    ELSE Delta(due, since_sent)
     IN  /\ IsActive(n)
         /\ ndata' = [ndata EXCEPT ![n] = IF isGet THEN Got(began.data, tried.resp, n \notin began.htu.new)
                                           ELSE began.data]
         /\ htu' = IF isGet THEN tried.htu ELSE began.htu
         /\ wait_time' = Least(wait_time, Least(initWait, getWait))
  /\ UNCHANGED <<sdef, since_sent, since_check, reading2, history>>

SkipSlot(n) ==
  /\ at = <<"sample", n>> /\ ~IsActive(n)
  /\ at' = IF n = "T" THEN <<"sample", "H">> ELSE <<"send", "T">>
  /\ wait_time' = IF n = "H" /\ ~IsActive("T") THEN 0 ELSE wait_time
  /\ UNCHANGED <<sdef, ndata, since_sent, since_check, htu, reading2, history>>

\* measurements_loop_iteration: sampling when the wait is over
PassBegins ==
  /\ at \in {<<"command", "T">>, <<"top", "T">>} /\ reading2.left = -1
  /\ IF since_check > wait_time
     THEN at' = <<"sample", "T">> /\ since_check' = 0 /\ wait_time' = Never
     ELSE at' = <<"send", "T">> /\ UNCHANGED <<since_check, wait_time>>
  /\ UNCHANGED <<sdef, ndata, since_sent, htu, reading2, history>>

\* Mutated: num_samples_collected goes on
SentKeepsCollected(d) == [d EXCEPT !.samples = 0, !.repeats = 0, !.init = 0]
\* _measurements_send clears what it sends, and the counts of what it has not
Sent(d) == [d EXCEPT !.samples = 0, !.repeats = 0, !.init = 0, !.collected = 0]
SendAtInterval ==
  /\ at = <<"send", "T">> /\ at' = <<"iterate", "T">>
  /\ IF since_sent > SampleInterval
     THEN /\ since_sent' = 0
          /\ report' = [n \in HtuName |-> IF IsActive(n) THEN ndata[n] ELSE NoData]
          /\ ndata' = [n \in HtuName |-> IF IsActive(n) THEN Sent(ndata[n]) ELSE ndata[n]]
     ELSE UNCHANGED <<since_sent, report, ndata>>
  /\ UNCHANGED <<sdef, since_check, wait_time, htu, reading2, sensor_faults, meas_commands, fault_in, hindered>>

Undisturbed == sensor_faults + meas_commands < MaxDisturbances
Owed(n) == ndata[n].init > ndata[n].collected

\* a read of the chip fails; "last": in the last sample of an interval
Chip(n, ok) ==
            \/ ok /\ UNCHANGED <<sensor_faults, fault_in>>
            \/ /\ ~ok /\ Undisturbed /\ sensor_faults' = sensor_faults + 1
               /\ fault_in' = IF since_sent < SampleInterval - Every(n) /\ reading2.left = -1
                              THEN "early" ELSE "last"

AfterIteration(d, resp) ==
  IF resp = "ERROR" THEN [d EXCEPT !.init = @ + 1, !.collected = @ + 1, !.collecting = FALSE] ELSE d

\* _measurements_iterate_callbacks: be it active or not
IterateSlot(n) ==
  /\ at = <<"iterate", n>> /\ at' = IF n = "T" THEN <<"iterate", "H">> ELSE <<"end", "T">>
  /\ IF Owed(n)
     THEN \E ok \in BOOLEAN :
            LET tried == HtuIterate(htu, n, ok)
            IN  /\ ok \/ tried # HtuIterate(htu, n, TRUE)
                /\ Chip(n, ok) /\ htu' = tried.htu
                /\ ndata' = [ndata EXCEPT ![n] = AfterIteration(@, tried.resp)]
     ELSE UNCHANGED <<htu, ndata, sensor_faults, fault_in>>
  /\ UNCHANGED <<sdef, since_sent, since_check, wait_time, reading2, report, meas_commands, hindered>>

\* Time passes, while the main loop runs, waits in a command, or sleeps.
Elapse(t) ==
  /\ since_sent' = Least(since_sent + t, SampleInterval + 1)
  /\ since_check' = Least(since_check + t, Never)
  /\ htu' = Pause(htu)
SleepTime == Least(Delta(wait_time, since_check), Delta(SampleInterval, since_sent))
SamplerTick ==
  /\ at = <<"end", "T">> /\ at' = <<"command", "T">>
  /\ \/ Elapse(1)
     \/ /\ \A n \in HtuName : ~Owed(n)
        /\ since_check < wait_time /\ since_sent < SampleInterval
        /\ SleepTime > 1 /\ Elapse(SleepTime - 1)
  /\ UNCHANGED <<sdef, ndata, wait_time, reading2, history>>
-----------------------------------------------------------------------------
(* Commands                                                                *)
\* one to a pass of the main loop
MeasCommand == /\ at = <<"command", "T">> /\ at' = <<"top", "T">>
               /\ Undisturbed /\ meas_commands' = meas_commands + 1
               /\ UNCHANGED <<report, sensor_faults, fault_in>>

\* _measurements_get_reading2: begins the measurement, unless it is collecting
GetReading(n) ==
  /\ MeasCommand /\ sdef[n] # NoDef /\ ~ndata[n].collecting
  /\ LET tried == HtuInit(htu, n)
     IN  /\ htu' = tried.htu
         /\ IF tried.resp = "SUCCESS"
            THEN /\ reading2' = [name |-> n, left |-> CollectionTime]
                 /\ ndata' = [ndata EXCEPT ![n].collecting = TRUE]
            ELSE UNCHANGED <<reading2, ndata>>
  /\ UNCHANGED <<sdef, since_sent, since_check, wait_time, hindered>>

\* ... iterates it in a nested main loop, and collects it when that succeeds;
\* the flag stays up when it does not
NotReading == [name |-> "T", left |-> -1]
ReadingStep ==
  /\ reading2.left >= 0
  /\ \E ok \in BOOLEAN :
       LET n == reading2.name
           tried == HtuIterate(htu, n, ok)
           over == tried.resp = "SUCCESS" \/ reading2.left = 0
       IN  /\ ok \/ tried # HtuIterate(htu, n, TRUE)
           /\ Chip(n, ok)
           /\ htu' = CASE tried.resp = "SUCCESS" -> HtuGet(tried.htu, n).htu
                       [] over /\ tried.resp # "SUCCESS" -> tried.htu
                       [] ~over -> Pause(tried.htu)
           /\ reading2' = IF over THEN NotReading ELSE [reading2 EXCEPT !.left = @ - 1]
           /\ ndata' = [ndata EXCEPT ![n].collecting = ~over]
           /\ since_sent' = IF over THEN since_sent ELSE Least(since_sent + 1, SampleInterval + 1)
           /\ since_check' = IF over THEN since_check ELSE Least(since_check + 1, Never)
           /\ hindered' = (hindered \/ (~over /\ since_check' > wait_time))
  /\ UNCHANGED <<sdef, wait_time, at, report, meas_commands>>

Redefine(n, def) == hindered' = TRUE /\ sdef' = [sdef EXCEPT ![n] = def]
SetInterval(n, i) == /\ MeasCommand /\ sdef[n] # NoDef /\ Redefine(n, [sdef[n] EXCEPT !.interval = i])
                     /\ UNCHANGED <<ndata, since_sent, since_check, wait_time, htu, reading2>>
SetSamplecount(n, c) == /\ MeasCommand /\ sdef[n] # NoDef
                        /\ Redefine(n, [sdef[n] EXCEPT !.samplecount = c])
                        /\ UNCHANGED <<ndata, since_sent, since_check, wait_time, htu, reading2>>
\* measurements_del, and measurements_add of one deleted: the data is cleared, not the sensor
Delete(n) == /\ MeasCommand /\ sdef[n] # NoDef
             /\ Redefine(n, NoDef) /\ ndata' = [ndata EXCEPT ![n] = NoData]
             /\ UNCHANGED <<since_sent, since_check, wait_time, htu, reading2>>
AddMeas(n) == /\ at = <<"command", "T">> /\ at' = <<"top", "T">> /\ sdef[n] = NoDef
              /\ UNCHANGED <<report, sensor_faults, meas_commands, fault_in>>
              /\ \E c \in SampleCount : Redefine(n, [interval |-> 1, samplecount |-> c])
              /\ ndata' = [ndata EXCEPT ![n] = NoData]
              /\ UNCHANGED <<since_sent, since_check, wait_time, htu, reading2>>
-----------------------------------------------------------------------------
SamplerInit ==
  /\ \E c \in SampleCount : sdef = [n \in HtuName |-> [interval |-> 1, samplecount |-> c]]
  /\ ndata = [n \in HtuName |-> NoData] /\ htu = HtuAtStart
  /\ at = <<"command", "T">> /\ reading2 = NotReading
  /\ since_sent = 0 /\ since_check = 1 /\ wait_time = 0
  /\ report = [n \in HtuName |-> NoData]
  /\ sensor_faults = 0 /\ meas_commands = 0 /\ fault_in = "none" /\ hindered = FALSE

SamplerLoop == \/ PassBegins \/ SendAtInterval \/ SamplerTick \/ ReadingStep
               \/ \E n \in HtuName : SampleSlot(n) \/ SkipSlot(n) \/ IterateSlot(n)
SamplerNext ==
  \/ SamplerLoop
  \/ \E n \in HtuName :
       \/ GetReading(n) \/ Delete(n) \/ AddMeas(n)
       \/ \E i \in {0, 1} : SetInterval(n, i)
       \/ \E c \in SampleCount : SetSamplecount(n, c)

SamplerSpec == SamplerInit /\ [][SamplerNext]_samplerVars
\* the main loop runs
SamplerFair == WF_samplerVars(SamplerLoop)
SamplerFairSpec == SamplerSpec /\ SamplerFair
-----------------------------------------------------------------------------
(* Properties                                                              *)

(* What the variables hold. *)
SamplerTypeOK ==
  /\ htu \in HtuState
  /\ \A n \in HtuName : /\ {ndata[n].init, ndata[n].collected} \subseteq Nat
                        /\ ndata[n].samples <= ndata[n].collected
                        /\ ndata[n].repeats \in 0..ndata[n].samples
  /\ since_sent \in 0..(SampleInterval + 1) /\ {since_check, wait_time} \subseteq 0..Never
  /\ reading2.left \in -1..CollectionTime

(* A sensor that gives no error, whatever is read from it by commands at   *)
(* whatever time: every report has all the samples asked for, each a new   *)
(* reading (the times of _measurements_sample, its wait and its sleep).    *)
AllSamplesNew ==
  sensor_faults = 0 /\ ~hindered => \A n \in HtuName :
    report[n].repeats = 0 /\ (report[n] # NoData => report[n].samples = sdef[n].samplecount)

(* The flag of a value is up only while somebody is to take it down. *)
FlagIsOwned ==
  sensor_faults = 0 /\ ~hindered => \A n \in htu.flags : ndata[n].collecting

(* What is reported are the samples of the interval, and nothing is left of *)
(* them for the next.                                                       *)
SamplesAreNew == AllSamplesNew /\ FlagIsOwned

(* A fault in a sample that is not the last of its interval does not reach  *)
(* into the next: no flag is left up that nobody will take down.            *)
FaultStaysInInterval ==
  fault_in = "early" /\ meas_commands = 0 /\ since_sent < 2 =>
     \A n \in HtuName : n \notin htu.flags \/ ndata[n].collecting

(* "Sensor was busy, will retry." (measurements.c:366): a measurement that  *)
(* found its sensor busy is collected in the end.                           *)
BusyIsRetried ==
  \A n \in HtuName : (at = <<"sample", n>> /\ n \in htu.flags /\ ~ndata[n].collecting)
                       ~> (report[n].samples > report[n].repeats \/ meas_commands > 0)
===============================================================================
