----------------------------- MODULE BoardProofs -----------------------------
(***************************************************************************)
(* Theorems about the parts of a board that do not share state, each for any *)
(* values of its constants: the ADC and its clients, the particle sensor, the *)
(* light sensor, the microphone, the temperature probe with its line, and the *)
(* times at which the main loop samples.  Each is an inductive invariant of *)
(* the part.  The last section puts these and that of the IOs together: what *)
(* the variables of all parts hold.                                        *)
(***************************************************************************)
EXTENDS MCBoard, IoProofs, SequenceTheorems, FiniteSetTheorems

-----------------------------------------------------------------------------
(* The key of the converter is that of a client with a reading to collect. *)

\* The 4-20 mA inputs are running only while one of them is to be collected:
\* the next to begin joins those, and needs no key of its own.
FtmaCovered == ftma_running => ftma_inited # {}

KeyInv == KeyIsOwned /\ FtmaCovered

\* A board that reads clamps has one.
LEMMA SomeClamp == CC # {}
BY AdcAssumption, SMT DEF CC

\* A step of the current clamps.
LEMMA CcKeyNext ==
  ASSUME KeyInv, NEW i \in CC, CcBegin(i) \/ CcGet(i) \/ CcEnable(i) \/ CcBlocking(i)
  PROVE  KeyInv'
<1> USE DEF KeyInv, KeyIsOwned, FtmaCovered, adc, others
<1>1. CASE CcBegin(i)
  BY <1>1 DEF CcBegin, AdcBegin, Free
<1>2. CASE CcGet(i)
  BY <1>2 DEF CcGet, Collected, ReleaseAuto, Release, cc
<1>3. CASE CcEnable(i)
  BY <1>3 DEF CcEnable
<1>4. CASE CcBlocking(i)
  BY <1>4 DEF CcBlocking, Free, DoneInTime, NotInTime
<1> QED BY <1>1, <1>2, <1>3, <1>4

\* A step of the 4-20 mA inputs.
LEMMA FtmaKeyNext ==
  ASSUME KeyInv, NEW i \in FTMA, FtmaBegin(i) \/ FtmaGet(i)
  PROVE  KeyInv'
<1> USE DEF KeyInv, KeyIsOwned, FtmaCovered, adc, cc
<1>1. CASE FtmaBegin(i)
  BY <1>1 DEF FtmaBegin, AdcBegin, Free
<1>2. CASE FtmaGet(i)
  BY <1>2 DEF FtmaGet, Collected, Release
<1> QED BY <1>1, <1>2

\* A step of the battery, or a command that reads it.
LEMMA BatKeyNext ==
  ASSUME KeyInv, BatBegin \/ BatGet \/ BatBlocking
  PROVE  KeyInv'
<1> USE DEF KeyInv, KeyIsOwned, FtmaCovered, cc, adc
<1>1. CASE BatBegin
  BY <1>1 DEF BatBegin, AdcBegin, Release
<1>2. CASE BatGet
  BY <1>2 DEF BatGet, Collected, Release
<1>3. CASE BatBlocking
  BY <1>3 DEF BatBlocking, NotInTime, Release
<1> QED BY <1>1, <1>2, <1>3

\* A command for all clamps: also one that is left behind has a clamp to it.
LEMMA AllKeyNext ==
  ASSUME KeyInv, CcAllBlocking \/ CcCalibrate
  PROVE  KeyInv'
<1> USE DEF KeyInv, KeyIsOwned, FtmaCovered, adc, others
<1>1. CASE CcAllBlocking
  BY <1>1, SomeClamp DEF CcAllBlocking, Free, DoneInTime, NotInTime
<1>2. CASE CcCalibrate
  BY <1>2 DEF CcCalibrate, Free, DoneInTime
<1> QED BY <1>1, <1>2

\* The invariant is inductive.
LEMMA KeyNext == ASSUME KeyInv, [AdcNext]_adcVars PROVE KeyInv'
<1>1. CASE DmaComplete
  BY <1>1 DEF KeyInv, KeyIsOwned, FtmaCovered, DmaComplete, cc, others
<1>2. CASE GiveUp \/ Sleep
  BY <1>2 DEF KeyInv, KeyIsOwned, FtmaCovered, GiveUp, Sleep, adc, cc, others
<1>3. CASE UNCHANGED adcVars
  BY <1>3 DEF KeyInv, KeyIsOwned, FtmaCovered, adcVars, adc, cc, others
<1> QED
  BY <1>1, <1>2, <1>3, CcKeyNext, FtmaKeyNext, BatKeyNext, AllKeyNext DEF AdcNext, Get

\* The key is always that of a client with a reading to collect: a client that
\* has collected, was cut off or gave up in adcs_wait_done holds no key without
\* having a reading that will release it.
THEOREM AdcKeyIsOwned == AdcSpec => []KeyIsOwned
<1>1. AdcInit => KeyInv
  BY DEF AdcInit, KeyInv, KeyIsOwned, FtmaCovered
<1>2. KeyInv /\ [AdcNext]_adcVars => KeyInv'
  BY KeyNext
<1>3. KeyInv => KeyIsOwned
  BY DEF KeyInv
<1> QED BY <1>1, <1>2, <1>3, PTL DEF AdcSpec

\* A client never takes the converter from another one: a key only goes back.
KeyKept == adc_key # "none" => adc_key' \in {adc_key, "none"}

\* Whatever client begins, in the measurements or in a command, the one that
\* holds the key keeps it until it releases it itself.
THEOREM AdcKeyIsKept == AdcSpec => [][KeyKept]_adcVars
<1>1. ASSUME KeyInv, AdcNext
      PROVE  KeyKept
  <2> USE DEF KeyKept, adc
  <2>1. ASSUME NEW i \in CC, CcBegin(i) \/ CcGet(i) \/ CcEnable(i) \/ CcBlocking(i)
        PROVE  KeyKept
    BY <2>1 DEF CcBegin, CcGet, CcEnable, CcBlocking, AdcBegin, Free, ReleaseAuto,
                Release, DoneInTime, NotInTime
  <2>2. ASSUME NEW i \in FTMA, FtmaBegin(i) \/ FtmaGet(i)
        PROVE  KeyKept
    BY <2>2 DEF FtmaBegin, FtmaGet, AdcBegin, Free, Release
  <2>3. CASE BatBegin \/ BatGet \/ BatBlocking
    BY <2>3 DEF BatBegin, BatGet, BatBlocking, AdcBegin, Release, NotInTime
  <2>4. CASE CcAllBlocking \/ CcCalibrate
    BY <2>4 DEF CcAllBlocking, CcCalibrate, Free, DoneInTime, NotInTime
  <2>5. CASE DmaComplete \/ GiveUp \/ Sleep
    BY <2>5 DEF DmaComplete, GiveUp, Sleep
  <2> QED BY <1>1, <2>1, <2>2, <2>3, <2>4, <2>5 DEF AdcNext, Get
<1>2. AdcInit => KeyInv
  BY DEF AdcInit, KeyInv, KeyIsOwned, FtmaCovered
<1>3. KeyInv /\ [AdcNext]_adcVars => KeyInv'
  BY KeyNext
<1>4. KeyInv /\ [AdcNext]_adcVars => [KeyKept]_adcVars
  BY <1>1
<1> QED BY <1>2, <1>3, <1>4, PTL DEF AdcSpec

-----------------------------------------------------------------------------
(* And what it converts for a client are the channels of that client.     *)

\* Positions in the buffer repeat with the number of channels.
LEMMA Wraps == ASSUME NEW l \in Nat \ {0}, NEW start \in 0..(l - 1), NEW n \in Nat PROVE (start + n * l) % l = start
OBVIOUS

\* A subset that lacks a member is smaller.
LEMMA Smaller ==
  ASSUME NEW T, IsFiniteSet(T), NEW U, U \subseteq T, NEW x \in T, x \notin U
  PROVE  Cardinality(U) \in Nat /\ Cardinality(T) \in Nat /\ Cardinality(U) < Cardinality(T)
<1>1. IsFiniteSet(U) /\ Cardinality(U) <= Cardinality(T) /\ Cardinality(U) # Cardinality(T)
  BY FS_Subset
<1>2. Cardinality(U) \in Nat /\ Cardinality(T) \in Nat
  BY <1>1, FS_CardinalityType
<1> QED BY <1>1, <1>2

\* A channel has a place of its own among those of a conversion.
LEMMA RankLess ==
  ASSUME NEW S, S \subseteq Int, IsFiniteSet(S), NEW i \in S, NEW k \in Int, i < k
  PROVE  /\ Cardinality(Below(i, S)) \in Nat
         /\ Cardinality(Below(i, S)) < Cardinality(Below(k, S))
         /\ Cardinality(Below(i, S)) < Cardinality(S)
<1>1. IsFiniteSet(Below(k, S))
  BY FS_Subset DEF Below
<1>2. Below(i, S) \subseteq Below(k, S) /\ i \in Below(k, S) /\ i \notin Below(i, S) /\ Below(i, S) \subseteq S
  <2>1. \A j \in S : j < i => j < k
    OBVIOUS
  <2>2. ~(i < i)
    OBVIOUS
  <2> QED BY <2>1, <2>2, Zenon DEF Below
<1> QED BY <1>1, <1>2, Smaller

\* In ascending order a channel stands behind those below it.
LEMMA Placed ==
  ASSUME NEW S, S \subseteq Int, IsFiniteSet(S), NEW i \in S
  PROVE  /\ Cardinality(S) \in Nat \ {0}
         /\ Cardinality(Below(i, S)) \in 0..(Cardinality(S) - 1)
         /\ Ascending(S)[Cardinality(Below(i, S)) + 1] = i
         /\ Len(Ascending(S)) = Cardinality(S)
<1> DEFINE rank(k) == Cardinality(Below(k, S))
           count == Cardinality(S)
<1>1. count \in Nat
  BY FS_CardinalityType
<1>2. \A k \in S : rank(k) \in Nat /\ rank(k) < count
  <2> TAKE k \in S
  <2>1. k + 1 \in Int /\ k < k + 1
    OBVIOUS
  <2> QED BY <2>1, RankLess
<1>3. \A k \in S : rank(k) = rank(i) => k = i
  <2> TAKE k \in S
  <2>1. CASE k < i
    <3>1. rank(k) \in Nat /\ rank(i) \in Nat /\ rank(k) < rank(i) /\ k \in Int /\ i \in Int
      BY <2>1, <1>2, RankLess
    <3> HIDE DEF rank
    <3> QED BY <3>1
  <2>2. CASE i < k
    <3>1. rank(k) \in Nat /\ rank(i) \in Nat /\ rank(i) < rank(k) /\ k \in Int /\ i \in Int
      BY <2>2, <1>2, RankLess
    <3> HIDE DEF rank
    <3> QED BY <3>1
  <2> QED BY <2>1, <2>2
<1> HIDE DEF count
<1>4. rank(i) + 1 \in 1..count /\ count \in Nat \ {0} /\ rank(i) \in 0..(count - 1) /\ (rank(i) + 1) - 1 = rank(i)
  BY <1>1, <1>2
<1>5. (CHOOSE k \in S : rank(k) = rank(i)) = i
  BY <1>3
<1>6. Ascending(S)[rank(i) + 1] = i
  BY <1>4, <1>5 DEF Ascending, count
<1>7. Len(Ascending(S)) = count
  BY <1>1 DEF Ascending, count
<1> QED BY <1>4, <1>6, <1>7 DEF count

\* At its offset every sample is its own.
LEMMA OwnChannel ==
  ASSUME NEW S, S \subseteq Int, IsFiniteSet(S), NEW i \in S, samples = Ascending(S)
  PROVE  ChannelsAt(Cardinality(Below(i, S)), Cardinality(S)) = {i}
<1> DEFINE start == Cardinality(Below(i, S))
           l == Cardinality(S)
<1>1. l \in Nat \ {0} /\ start \in 0..(l - 1) /\ samples[start + 1] = i /\ Len(samples) = l
  BY Placed
<1>2. \A n \in 0..l : (start + n * l) % l = start
  BY <1>1, Wraps
<1>3. 0 \in 0..l
  BY <1>1
<1>4. ChannelsAt(start, l) = {samples[((start + n * l) % l) + 1] : n \in 0..l}
  BY <1>1, Zenon DEF ChannelsAt
<1> HIDE DEF start, l
<1> QED BY <1>1, <1>2, <1>3, <1>4, Zenon DEF start, l

\* What the readings under way will be collected from, unless one was left
\* behind.
Filled ==
  /\ cc_isolated = 0
  /\ cc_running # {} => samples = Ascending(cc_active)
  /\ ftma_inited # {} => samples = Ascending(FTMA)
  /\ bat_running => samples = <<BAT>>
  /\ got.of = got.from
Kept == cc_running \subseteq CC /\ cc_active \subseteq CC /\ ftma_inited \subseteq FTMA
ApartInv == KeyInv /\ Kept /\ (~given_up => Filled)

\* The channels of a conversion are finitely many numbers.
LEMMA FiniteChannels == /\ \A S \in SUBSET CC : S \subseteq Int /\ IsFiniteSet(S)
                        /\ FTMA \subseteq Int /\ IsFiniteSet(FTMA) /\ Cardinality(FTMA) = Ftmas
                        /\ \A i \in FTMA : Cardinality(Below(i, FTMA)) = i - Clamps - 1
<1>1. Clamps \in Int /\ Ftmas \in Nat \ {0} /\ Clamps + 1 \in Int /\ Clamps + Ftmas \in Int /\ 1 \in Int
  BY AdcAssumption
<1>2. CC \subseteq Int /\ IsFiniteSet(CC)
  BY <1>1, FS_Interval DEF CC
<1>3. FTMA \subseteq Int
  BY <1>1 DEF FTMA
<1>4. IsFiniteSet(FTMA) /\ Cardinality(FTMA) = Ftmas
  <2>1. IsFiniteSet(FTMA) /\ Cardinality(FTMA) =
           IF Clamps + 1 > Clamps + Ftmas THEN 0 ELSE (Clamps + Ftmas) - (Clamps + 1) + 1
    BY <1>1, FS_Interval DEF FTMA
  <2>2. (IF Clamps + 1 > Clamps + Ftmas THEN 0 ELSE (Clamps + Ftmas) - (Clamps + 1) + 1) = Ftmas
    BY <1>1
  <2> QED BY <2>1, <2>2
<1>5. ASSUME NEW i \in FTMA
      PROVE  Cardinality(Below(i, FTMA)) = i - Clamps - 1
  <2>1. i \in Int /\ i - 1 \in Int /\ i >= Clamps + 1
    BY <1>1 DEF FTMA
  <2>2. Below(i, FTMA) = (Clamps + 1)..(i - 1)
    BY <1>1, <2>1 DEF Below, FTMA
  <2>3. Cardinality((Clamps + 1)..(i - 1)) = IF Clamps + 1 > i - 1 THEN 0 ELSE (i - 1) - (Clamps + 1) + 1
    BY <1>1, <2>1, FS_Interval
  <2>4. (IF Clamps + 1 > i - 1 THEN 0 ELSE (i - 1) - (Clamps + 1) + 1) = i - Clamps - 1
    BY <1>1, <2>1
  <2> QED BY <2>2, <2>3, <2>4
<1> QED BY <1>2, <1>3, <1>4, <1>5, FS_Subset

\* A step of the current clamps.
LEMMA CcApart ==
  ASSUME ApartInv, NEW i \in CC, CcBegin(i) \/ CcGet(i) \/ CcEnable(i) \/ CcBlocking(i)
  PROVE  Kept' /\ (~given_up' => Filled')
<1>1. CASE CcBegin(i)
  BY <1>1 DEF CcBegin, AdcBegin, Free, ApartInv, KeyInv, KeyIsOwned, FtmaCovered, Kept, Filled, adc, others
<1>2. CASE CcGet(i)
  <2>1. Kept'
    BY <1>2 DEF CcGet, ApartInv, Kept, cc, others
  <2>2. ASSUME ~given_up, got' \in {None, [of |-> {i}, from |-> ChannelsAt(ActiveIndex(i), CcStep)]},
               i \in cc_active \cap cc_running
        PROVE  got'.of = got'.from
    <3>1. cc_isolated = 0 /\ samples = Ascending(cc_active)
      BY <2>2 DEF ApartInv, Filled
    <3>2. CcStep = Cardinality(cc_active)
      BY <3>1 DEF CcStep
    <3>3. ChannelsAt(ActiveIndex(i), CcStep) = {i}
      BY <2>2, <3>1, <3>2, OwnChannel, FiniteChannels DEF ActiveIndex, ApartInv, Kept
    <3> QED BY <2>2, <3>3 DEF None
  <2> QED BY <1>2, <2>1, <2>2 DEF CcGet, ApartInv, Filled, adc, cc, others
<1>3. CASE CcEnable(i)
  BY <1>3 DEF CcEnable, ApartInv, Kept, Filled, adc, others
<1>4. CASE CcBlocking(i)
  BY <1>4 DEF CcBlocking, Free, DoneInTime, NotInTime, ApartInv, KeyInv, KeyIsOwned, Kept, Filled, adc, others, None
<1> QED BY <1>1, <1>2, <1>3, <1>4

\* A step of the 4-20 mA inputs.
LEMMA FtmaApart ==
  ASSUME ApartInv, NEW i \in FTMA, FtmaBegin(i) \/ FtmaGet(i)
  PROVE  Kept' /\ (~given_up' => Filled')
<1>1. CASE FtmaBegin(i)
  BY <1>1 DEF FtmaBegin, AdcBegin, Free, ApartInv, KeyInv, KeyIsOwned, FtmaCovered, Kept, Filled, adc, cc
<1>2. CASE FtmaGet(i)
  <2>1. Kept'
    BY <1>2 DEF FtmaGet, ApartInv, Kept, cc
  <2>2. ASSUME ~given_up PROVE got'.of = got'.from
    <3>1. samples = Ascending(FTMA)
      BY <1>2, <2>2 DEF FtmaGet, ApartInv, Filled
    <3>2. ChannelsAt(i - Clamps - 1, Ftmas) = {i}
      BY <3>1, OwnChannel, FiniteChannels
    <3> QED BY <1>2, <3>2 DEF FtmaGet
  <2> QED BY <1>2, <2>1, <2>2 DEF FtmaGet, ApartInv, Filled, cc
<1> QED BY <1>1, <1>2

\* A step of the battery.
LEMMA BatApart ==
  ASSUME ApartInv, BatBegin \/ BatGet \/ BatBlocking
  PROVE  Kept' /\ (~given_up' => Filled')
<1>1. CASE BatBegin
  BY <1>1 DEF BatBegin, AdcBegin, ApartInv, KeyInv, KeyIsOwned, FtmaCovered, Kept, Filled, cc
<1>2. CASE BatGet
  <2>1. ASSUME samples = <<BAT>> PROVE ChannelsAt(0, 1) = {BAT}
    <3>1. Len(samples) = 1 /\ samples[1] = BAT
      BY <2>1
    <3>2. \A n \in 0..1 : ((0 + n * 1) % 1) + 1 = 1
      OBVIOUS
    <3>3. ChannelsAt(0, 1) = {samples[((0 + n * 1) % 1) + 1] : n \in 0..1} /\ 0 \in 0..1
      BY <3>1 DEF ChannelsAt
    <3>4. \A n \in 0..1 : samples[((0 + n * 1) % 1) + 1] = BAT
      BY <3>1, <3>2, Zenon
    <3> QED BY <3>3, <3>4, Zenon
  <2> QED BY <1>2, <2>1 DEF BatGet, ApartInv, Kept, Filled, cc
<1>3. CASE BatBlocking
  BY <1>3 DEF BatBlocking, NotInTime, ApartInv, KeyInv, KeyIsOwned, Kept, Filled, cc
<1> QED BY <1>1, <1>2, <1>3

\* The other commands, the interrupt, a reading given up, and sleep.
LEMMA OthersApart ==
  ASSUME ApartInv, CcAllBlocking \/ CcCalibrate \/ DmaComplete \/ GiveUp \/ Sleep \/ UNCHANGED adcVars
  PROVE  Kept' /\ (~given_up' => Filled')
<1>1. CASE CcAllBlocking
  BY <1>1 DEF CcAllBlocking, Free, DoneInTime, NotInTime, ApartInv, KeyInv, KeyIsOwned, Kept, Filled, adc, others
<1>2. CASE CcCalibrate
  <2>1. ~given_up' => ~given_up /\ (adc_key # "none" => cc_running = {} \/ Free)
    BY <1>2 DEF CcCalibrate, Free
  <2>2. Free => cc_running = {} /\ ftma_inited = {} /\ ~bat_running
    BY DEF Free, ApartInv, KeyInv, KeyIsOwned
  <2>3. Kept'
    BY <1>2 DEF CcCalibrate, ApartInv, Kept, others
  <2>4. cc_isolated' = cc_isolated /\ got' = got /\ ftma_inited' = ftma_inited /\ bat_running' = bat_running
    BY <1>2 DEF CcCalibrate, others
  <2>5. CASE Free
    BY <1>2, <2>1, <2>2, <2>3, <2>4, <2>5 DEF CcCalibrate, ApartInv, Filled
  <2>6. CASE ~Free
    <3>1. samples' = samples /\ cc_running' = cc_running /\ (~given_up' => cc_running = {})
      BY <1>2, <2>6 DEF CcCalibrate, adc
    <3> QED BY <2>1, <2>3, <2>4, <3>1 DEF ApartInv, Filled
  <2> QED BY <2>5, <2>6
<1>3. CASE DmaComplete \/ GiveUp \/ Sleep
  BY <1>3 DEF DmaComplete, GiveUp, Sleep, ApartInv, Kept, Filled, adc, cc, others
<1>4. CASE UNCHANGED adcVars
  BY <1>4 DEF adcVars, adc, cc, others, ApartInv, Kept, Filled
<1> QED BY <1>1, <1>2, <1>3, <1>4

\* Every step keeps it.
LEMMA ApartNext == ASSUME ApartInv, [AdcNext]_adcVars PROVE ApartInv'
<1>1. KeyInv'
  BY KeyNext DEF ApartInv
<1>2. Kept' /\ (~given_up' => Filled')
  BY CcApart, FtmaApart, BatApart, OthersApart DEF AdcNext, Get
<1> QED BY <1>1, <1>2 DEF ApartInv

\* For any number of clamps, inputs and commands: what a client collects is
\* what was converted of its own channels, unless a reading was given up.
THEOREM AdcClientsKeepApart == AdcSpec => []ClientsKeepApart
<1>1. AdcInit => ApartInv
  BY DEF AdcInit, ApartInv, KeyInv, KeyIsOwned, FtmaCovered, Kept, Filled, None
<1>2. ApartInv /\ [AdcNext]_adcVars => ApartInv'
  BY ApartNext
<1>3. ApartInv => ClientsKeepApart
  BY DEF ApartInv, KeyInv, Filled, ClientsKeepApart, RightChannel
<1> QED BY <1>1, <1>2, <1>3, PTL DEF AdcSpec

-----------------------------------------------------------------------------
(* The particle sensor.                                                   *)

\* What may be pending in the ring.
Packets == {<<>>, <<Long>>, <<Rest>>, <<Spoilt>>, <<Long, Rest>>, <<Spoilt, Rest>>, <<Long, Spoilt>>, <<Short, Rest>>}

HpmTypes ==
  /\ hpm_use_ref \in 0..1 /\ message_count \in 0..3
  /\ hpm_age \in 0..(HpmTimeout + 1) /\ last_collect \in 0..(HpmTimeout + 1)
  /\ pm_entry \in 0..(HpmTimeout + 1) /\ header \in {Long, Short}
  /\ pm_wanted \subseteq PmName /\ hpm_fresh \subseteq PmName
  /\ pm_due \in [PmName -> Nat] /\ hpm_noise \in Nat
  /\ hpm_ring \in Packets

\* With all packets sent whole: how far into the four the sensor is.
PacketsInStep ==
  /\ hpm_ring \in {<<>>, <<Long, Rest>>, <<Rest>>} /\ (header_active <=> hpm_ring = <<Rest>>) /\ (header_active => header = Long)
  /\ hpm_is_on => hpm_age <= 4 /\ message_count = hpm_age - (IF hpm_ring = <<>> THEN 0 ELSE 1)
  /\ ~hpm_is_on => hpm_ring = <<>> /\ message_count = 0
  /\ last_collect >= 4
  /\ hpm_is_on /\ message_count > 0 => pm_entry = message_count
  /\ hpm_valid /\ ~hpm_is_on => pm_entry >= 4

\* Who waits for a value waits longer than the four packets take.
WaitIsLongEnough ==
  \A n \in pm_wanted \ hpm_fresh : hpm_is_on /\ hpm_age + pm_due[n] > 4

HpmInv ==
  /\ HpmTypes /\ PowerFollowsUse
  /\ hpm_noise = 0 => PacketsInStep /\ WaitIsLongEnough /\ ~old_value

\* The heads and the tails of what the ring may hold.
LEMMA PacketParts ==
  /\ Head(<<Long>>) = Long /\ Head(<<Rest>>) = Rest /\ Head(<<Spoilt>>) = Spoilt
  /\ Head(<<Short, Rest>>) = Short /\ Tail(<<Short, Rest>>) = <<Rest>> /\ <<Short, Rest>> # <<>>
  /\ Head(<<Long, Rest>>) = Long /\ Head(<<Spoilt, Rest>>) = Spoilt /\ Head(<<Long, Spoilt>>) = Long
  /\ Tail(<<Long>>) = <<>> /\ Tail(<<Rest>>) = <<>> /\ Tail(<<Spoilt>>) = <<>>
  /\ Tail(<<Long, Rest>>) = <<Rest>> /\ Tail(<<Spoilt, Rest>>) = <<Rest>> /\ Tail(<<Long, Spoilt>>) = <<Spoilt>>
  /\ <<Long, Rest>> # <<>> /\ <<Rest>> # <<>> /\ <<Long>> # <<>> /\ <<Spoilt>> # <<>>
  /\ <<Spoilt, Rest>> # <<>> /\ <<Long, Spoilt>> # <<>>
  /\ <<Long, Rest>> # <<Rest>> /\ <<Spoilt>> # <<Rest>> /\ <<Long>> # <<Rest>>
BY DEF Long, Short, Rest, Spoilt

\* What is left of it when a packet is taken.
LEMMA PacketTails == \A r \in Packets : r # <<>> => Tail(r) \in Packets
BY PacketParts DEF Packets

\* What the sensor sends is what the ring may hold.
LEMMA SomePackets == <<>> \in Packets /\ <<Long, Rest>> \in Packets /\ <<Rest>> \in Packets /\ <<Long>> \in Packets
                     /\ <<Spoilt, Rest>> \in Packets /\ <<Short, Rest>> \in Packets /\ <<Long, Spoilt>> \in Packets
BY DEF Packets

\* Power and the count of uses, when the sensor is turned on and off.
LEMMA TurnedOn ==
  ASSUME HpmTypes, PowerFollowsUse, ~hpm_is_on, TurnOn
  PROVE  PowerFollowsUse' /\ hpm_use_ref' \in 0..1 /\ hpm_is_on' /\ hpm_age' = 0
<1>1. hpm_use_ref = 0
  BY DEF HpmTypes, PowerFollowsUse
<1>2. hpm_use_ref' = 1 /\ hpm_age' = 0
  BY <1>1 DEF TurnOn
<1>3. hpm_is_on' /\ hpm_powered'
  BY Zenon DEF TurnOn
<1> QED BY <1>2, <1>3 DEF PowerFollowsUse

\* One use less of the power.
LEMMA TurnedOff ==
  ASSUME HpmTypes, PowerFollowsUse, TurnOff
  PROVE  PowerFollowsUse' /\ hpm_use_ref' \in 0..1 /\ ~hpm_is_on' /\ hpm_age' = hpm_age
<1>1. (IF hpm_use_ref > 0 THEN hpm_use_ref - 1 ELSE 0) = 0
  BY DEF HpmTypes
<1>2. hpm_use_ref' = 0 /\ hpm_age' = hpm_age
  BY <1>1 DEF TurnOff
<1>3. ~hpm_is_on'
  BY Zenon DEF TurnOff
<1>4. ~(0 > 0)
  OBVIOUS
<1>5. ~hpm_powered'
  BY <1>1, <1>4, Zenon DEF TurnOff
<1> QED BY <1>2, <1>3, <1>5 DEF PowerFollowsUse

\* A measurement that begins.
LEMMA HpmInitInv == ASSUME HpmInv, NEW n \in PmName, HpmInit(n) PROVE HpmInv'
<1> USE HpmAssumption
<1>1. /\ pm_due' = [pm_due EXCEPT ![n] = last_collect + 1]
      /\ hpm_fresh' = hpm_fresh \ {n} /\ pm_wanted' = pm_wanted \cup {n}
      /\ UNCHANGED <<pm_entry, message_count, header_active, header, hpm_ring, old_value, hpm_noise, hpm_valid, last_collect>>
  BY DEF HpmInit, PmBegins, CollectionIn, hpmDriver, hpmPackets
<1>2. CASE hpm_is_on
  <2>1. UNCHANGED hpmDriver
    BY <1>2 DEF HpmInit
  <2>2. HpmTypes' /\ PowerFollowsUse'
    BY <1>1, <2>1 DEF HpmInv, HpmTypes, PowerFollowsUse, hpmDriver
  <2>3. PacketsInStep => PacketsInStep'
    BY <1>1, <2>1 DEF PacketsInStep, hpmDriver
  <2>4. PacketsInStep /\ WaitIsLongEnough => WaitIsLongEnough'
    BY <1>1, <1>2, <2>1 DEF HpmInv, HpmTypes, PacketsInStep, WaitIsLongEnough, hpmDriver
  <2> QED BY <1>1, <2>2, <2>3, <2>4 DEF HpmInv
<1>3. CASE ~hpm_is_on
  <2>1. TurnOn
    BY <1>3 DEF HpmInit
  <2>2. PowerFollowsUse' /\ hpm_use_ref' \in 0..1 /\ hpm_is_on' /\ hpm_age' = 0
    BY <1>3, <2>1, TurnedOn DEF HpmInv
  <2>3. HpmTypes'
    BY <1>1, <2>2 DEF HpmInv, HpmTypes
  <2>4. PacketsInStep => PacketsInStep'
    <3>1. PacketsInStep => hpm_ring = <<>> /\ message_count = 0 /\ (header_active <=> <<>> = <<Rest>>) /\ last_collect >= 4
      BY <1>3 DEF PacketsInStep
    <3>2. PacketsInStep => hpm_ring' = <<>> /\ message_count' = 0 /\ ~header_active' /\ last_collect' >= 4
      BY <1>1, <3>1, PacketParts
    <3> QED BY <2>2, <3>2, PacketParts DEF PacketsInStep
  <2>5. PacketsInStep /\ WaitIsLongEnough => WaitIsLongEnough'
    BY <1>1, <1>3, <2>2 DEF HpmInv, HpmTypes, PacketsInStep, WaitIsLongEnough
  <2> QED BY <1>1, <2>2, <2>3, <2>4, <2>5 DEF HpmInv
<1> QED BY <1>2, <1>3

\* One that ends.
LEMMA HpmGetInv == ASSUME HpmInv, NEW n \in PmName, HpmGet(n) PROVE HpmInv'
<1> USE HpmAssumption
<1>1. /\ n \in pm_wanted /\ pm_due[n] = 0 /\ pm_wanted' \in {pm_wanted, pm_wanted \ {n}}
      /\ UNCHANGED <<last_collect, hpm_fresh, pm_entry, message_count, header_active, header, hpm_ring, pm_due, hpm_noise>>
  BY DEF HpmGet, hpmBounds, hpmPackets
<1>2. \/ UNCHANGED <<hpm_is_on, hpm_use_ref, hpm_powered, hpm_age>>
      \/ hpm_age >= HpmTimeout /\ TurnOff
  BY DEF HpmGet, HpmInv, HpmTypes
<1>3. old_value' => old_value \/ n \notin hpm_fresh
  BY Zenon DEF HpmGet
<1>0. hpm_valid' => hpm_valid
  BY Zenon DEF HpmGet, StillValid
<1>4. HpmTypes' /\ PowerFollowsUse'
  BY <1>1, <1>2, TurnedOff DEF HpmInv, HpmTypes, PowerFollowsUse
<1>5. ASSUME hpm_noise = 0 PROVE PacketsInStep' /\ WaitIsLongEnough' /\ ~old_value'
  <2>1. PacketsInStep /\ WaitIsLongEnough /\ ~old_value
    BY <1>5 DEF HpmInv
  <2>2. n \in hpm_fresh
    BY <1>1, <2>1 DEF HpmInv, HpmTypes, WaitIsLongEnough, PacketsInStep
  <2>3. hpm_age >= HpmTimeout => ~hpm_is_on
    BY <2>1 DEF HpmInv, HpmTypes, PacketsInStep
  <2>4. (hpm_is_on' <=> hpm_is_on) /\ hpm_age' = hpm_age
    BY <1>2, <2>3, TurnedOff DEF HpmInv
  <2>5. PacketsInStep'
    BY <1>0, <1>1, <2>1, <2>4 DEF PacketsInStep
  <2>6. WaitIsLongEnough'
    BY <1>1, <2>1, <2>4 DEF WaitIsLongEnough
  <2> QED BY <1>3, <2>1, <2>2, <2>5, <2>6
<1> QED BY <1>1, <1>4, <1>5 DEF HpmInv

\* The header of a packet.
LEMMA HpmHeaderInv == ASSUME HpmInv, HpmHeader PROVE HpmInv'
<1> USE HpmAssumption
<1>1. /\ hpm_ring # <<>> /\ hpm_ring' = Tail(hpm_ring) /\ ~header_active
      /\ UNCHANGED <<hpmDriver, pm_entry, message_count, pm_due, pm_wanted, hpmHistory, hpmBounds>>
  BY DEF HpmHeader
<1>2. header_active' <=> Head(hpm_ring) \in {Long, Short}
  BY Zenon DEF HpmHeader
<1>3. header' \in {Long, Short} /\ (Head(hpm_ring) = Long => header' = Long)
  BY DEF HpmHeader, HpmInv, HpmTypes
<1>4. HpmTypes' /\ PowerFollowsUse'
  BY <1>1, <1>3, PacketTails DEF HpmInv, HpmTypes, PowerFollowsUse, hpmDriver, hpmHistory, hpmBounds
<1>5. PacketsInStep => PacketsInStep'
  <2> SUFFICES ASSUME PacketsInStep PROVE PacketsInStep'
    OBVIOUS
  <2>1. hpm_ring = <<Long, Rest>> /\ hpm_ring' = <<Rest>> /\ header_active' /\ header' = Long
    BY <1>1, <1>2, <1>3, PacketParts DEF PacketsInStep
  <2>2. hpm_is_on /\ hpm_is_on' /\ UNCHANGED <<hpm_valid, hpm_age, pm_entry, message_count, last_collect>>
    BY <1>1, <2>1, PacketParts DEF PacketsInStep, hpmDriver
  <2> QED BY <2>1, <2>2, PacketParts DEF PacketsInStep
<1>6. WaitIsLongEnough => WaitIsLongEnough'
  BY <1>1 DEF WaitIsLongEnough, hpmDriver, hpmHistory
<1> QED BY <1>1, <1>4, <1>5, <1>6 DEF HpmInv, hpmHistory, hpmBounds

\* A long packet, before the fourth.
LEMMA HpmNotYetInv ==
  ASSUME HpmInv, hpm_ring # <<>>, header_active, ~header_active', Head(hpm_ring) = Rest, message_count <= 2,
         pm_entry' = hpm_age, NotYet, UNCHANGED <<header, pm_due, pm_wanted, hpm_begins, hpm_noise>>
  PROVE  HpmInv'
<1> USE HpmAssumption
<1>1. message_count' = message_count + 1 /\ hpm_ring' = Tail(hpm_ring) /\ UNCHANGED <<hpmDriver, hpmHistory>>
  BY DEF NotYet
<1>2. HpmTypes' /\ PowerFollowsUse' /\ old_value' = old_value
  BY <1>1, PacketTails DEF HpmInv, HpmTypes, PowerFollowsUse, hpmDriver, hpmHistory
<1>3. PacketsInStep => PacketsInStep'
  <2> SUFFICES ASSUME PacketsInStep PROVE PacketsInStep'
    OBVIOUS
  <2>1. hpm_ring = <<Rest>> /\ hpm_ring' = <<>> /\ hpm_is_on /\ hpm_is_on'
    BY <1>1, PacketParts DEF PacketsInStep, hpmDriver
  <2>2. message_count' = hpm_age' /\ hpm_age' <= 4 /\ last_collect' >= 4 /\ pm_entry' = message_count'
    BY <1>1, <2>1, PacketParts DEF PacketsInStep, hpmDriver, HpmInv, HpmTypes
  <2>3. message_count' = hpm_age' - (IF hpm_ring' = <<>> THEN 0 ELSE 1)
    BY <1>1, <2>1, <2>2 DEF HpmInv, HpmTypes, hpmDriver
  <2> QED BY <2>1, <2>2, <2>3, PacketParts DEF PacketsInStep
<1>4. WaitIsLongEnough => WaitIsLongEnough'
  BY <1>1 DEF WaitIsLongEnough, hpmDriver, hpmHistory
<1> QED BY <1>2, <1>3, <1>4 DEF HpmInv

\* The fourth, and a short one: a value that is believed.
LEMMA HpmBelievedInv ==
  ASSUME HpmInv, hpm_ring # <<>>, header_active, ~header_active', Head(hpm_ring) = Rest,
         pm_entry' = hpm_age, Believed, UNCHANGED <<header, pm_due, pm_wanted, hpm_begins, hpm_noise>>,
         \/ Fourth /\ message_count = 3 /\ message_count' = 0
         \/ /\ header # Long /\ hpm_ring' = Tail(hpm_ring)
            /\ UNCHANGED <<message_count, hpm_is_on, hpm_use_ref, hpm_powered, hpm_age>>
  PROVE  HpmInv'
<1> USE HpmAssumption
<1>1. last_collect' = hpm_age /\ hpm_fresh' = PmName /\ old_value' = old_value
  BY Zenon DEF Believed
<1>2. \/ hpm_is_on /\ TurnOff /\ hpm_ring' = <<>>
      \/ UNCHANGED <<hpm_is_on, hpm_use_ref, hpm_powered, hpm_age>> /\ hpm_ring' = Tail(hpm_ring)
  BY DEF Fourth
<1>3. PowerFollowsUse' /\ hpm_use_ref' \in 0..1 /\ hpm_age' = hpm_age
  BY <1>2, TurnedOff DEF HpmInv, HpmTypes, PowerFollowsUse
<1>4. HpmTypes'
  <2>1. hpm_ring' \in Packets
    BY <1>2, PacketTails, SomePackets DEF HpmInv, HpmTypes
  <2>2. /\ message_count' \in 0..3 /\ last_collect' \in 0..(HpmTimeout + 1) /\ pm_entry' \in 0..(HpmTimeout + 1)
        /\ hpm_age' \in 0..(HpmTimeout + 1) /\ hpm_fresh' \subseteq PmName
    BY <1>1, <1>3 DEF HpmInv, HpmTypes
  <2> QED BY <1>3, <2>1, <2>2 DEF HpmInv, HpmTypes
<1>5. PacketsInStep => PacketsInStep'
  <2> SUFFICES ASSUME PacketsInStep PROVE PacketsInStep'
    OBVIOUS
  <2>1. Fourth /\ message_count = 3 /\ message_count' = 0
    BY DEF PacketsInStep
  <2>2. hpm_ring = <<Rest>> /\ hpm_is_on /\ hpm_age = 4
    BY <2>1, PacketParts DEF PacketsInStep, HpmInv, HpmTypes
  <2>3. hpm_ring' = <<>> /\ ~hpm_is_on'
    BY <2>1, <2>2, TurnedOff DEF Fourth, HpmInv
  <2>4. last_collect' = 4 /\ pm_entry' = 4
    BY <1>1, <2>2
  <2> QED BY <2>1, <2>3, <2>4, PacketParts DEF PacketsInStep
<1>6. WaitIsLongEnough'
  BY <1>1 DEF WaitIsLongEnough, HpmInv, HpmTypes
<1> QED BY <1>1, <1>3, <1>4, <1>5, <1>6 DEF HpmInv

\* The body of a packet.
LEMMA HpmBodyInv == ASSUME HpmInv, HpmBody PROVE HpmInv'
<1>1. /\ hpm_ring # <<>> /\ header_active /\ ~header_active'
      /\ UNCHANGED <<header, pm_due, pm_wanted, hpm_begins, hpm_noise>>
  BY Zenon DEF HpmBody, hpmBounds
<1>2. CASE Head(hpm_ring) # Rest
  <2>1. hpm_ring' = Tail(hpm_ring) /\ UNCHANGED <<hpmDriver, pm_entry, message_count, hpmHistory>>
    BY <1>2 DEF HpmBody
  <2>2. HpmTypes' /\ PowerFollowsUse' /\ old_value' = old_value
    BY <1>1, <2>1, PacketTails DEF HpmInv, HpmTypes, PowerFollowsUse, hpmDriver, hpmHistory
  <2>3. ~PacketsInStep
    BY <1>1, <1>2, PacketParts DEF PacketsInStep
  <2> QED BY <1>1, <2>2, <2>3 DEF HpmInv
<1>3. CASE Head(hpm_ring) = Rest /\ header = Long
  <2>1. LongResponse
    BY <1>3 DEF HpmBody
  <2>2. message_count <= 2 \/ message_count = 3
    BY DEF HpmInv, HpmTypes
  <2>3. CASE message_count <= 2
    BY <1>1, <1>3, <2>1, <2>3, HpmNotYetInv DEF LongResponse
  <2>4. CASE message_count = 3
    <3>1. Believed /\ Fourth /\ message_count' = 0 /\ pm_entry' = hpm_age
      BY <2>1, <2>4 DEF LongResponse
    <3> QED BY <1>1, <1>3, <2>4, <3>1, HpmBelievedInv
  <2> QED BY <2>2, <2>3, <2>4
<1>4. CASE Head(hpm_ring) = Rest /\ header # Long
  <2>1. ShortResponse
    BY <1>4 DEF HpmBody
  <2> QED BY <1>1, <1>4, <2>1, HpmBelievedInv DEF ShortResponse
<1> QED BY <1>2, <1>3, <1>4

\* A second of the sensor.
LEMMA HpmTimeInv ==
  ASSUME HpmInv, HpmTime, UNCHANGED <<hpm_valid, hpm_is_on, hpm_use_ref, hpm_powered, last_collect, hpm_fresh,
                 hpmPackets, pm_wanted, old_value>>,
         \/ hpm_ring' = (IF hpm_powered THEN <<Long, Rest>> ELSE <<>>) /\ UNCHANGED hpm_noise
         \/ /\ hpm_ring' \in {<<>>, <<Long>>, <<Rest>>, <<Spoilt, Rest>>, <<Long, Spoilt>>, <<Short, Rest>>}
            /\ hpm_noise' \in Nat \ {0}
  PROVE  HpmInv'
<1> USE HpmAssumption
<1>1. hpm_ring = <<>> /\ hpm_age' \in {hpm_age, hpm_age + 1} /\ (hpm_age <= 4 => hpm_age' = hpm_age + 1)
      /\ hpm_age' \in 0..(HpmTimeout + 1)
  BY DEF HpmTime, Older, HpmInv, HpmTypes
<1>2. pm_due' \in [PmName -> Nat] /\ \A n \in PmName : pm_due'[n] >= pm_due[n] - 1
  BY DEF HpmTime, HpmInv, HpmTypes
<1>3. HpmTypes' /\ PowerFollowsUse'
  BY <1>1, <1>2, SomePackets DEF HpmInv, HpmTypes, PowerFollowsUse, hpmPackets
<1>4. ASSUME hpm_noise' = 0 PROVE PacketsInStep' /\ WaitIsLongEnough' /\ ~old_value'
  <2>1. hpm_noise = 0 /\ hpm_ring' = (IF hpm_is_on THEN <<Long, Rest>> ELSE <<>>)
    BY <1>4 DEF HpmInv, PowerFollowsUse
  <2>2. PacketsInStep /\ WaitIsLongEnough /\ ~old_value
    BY <2>1 DEF HpmInv
  <2>3. /\ (hpm_is_on' <=> hpm_is_on) /\ ~header_active /\ (header_active' <=> header_active)
        /\ message_count' = message_count /\ last_collect' >= 4 /\ UNCHANGED <<hpm_valid, pm_entry>>
    BY <1>1, <2>2, PacketParts DEF PacketsInStep, hpmPackets
  <2>4. hpm_is_on => hpm_age <= 3 /\ message_count = hpm_age /\ hpm_age' = hpm_age + 1
    BY <1>1, <2>2, PacketParts DEF PacketsInStep, HpmInv, HpmTypes
  <2>5. PacketsInStep'
    <3>1. CASE hpm_is_on
      BY <2>1, <2>2, <2>3, <2>4, <3>1, PacketParts DEF PacketsInStep, HpmInv, HpmTypes
    <3>2. CASE ~hpm_is_on
      BY <2>1, <2>2, <2>3, <3>2, PacketParts DEF PacketsInStep
    <3> QED BY <3>1, <3>2
  <2>6. WaitIsLongEnough'
    BY <1>2, <2>2, <2>3, <2>4 DEF WaitIsLongEnough, HpmInv, HpmTypes
  <2> QED BY <2>2, <2>5, <2>6
<1> QED BY <1>3, <1>4 DEF HpmInv

\* Every step of the particle sensor keeps it.
LEMMA HpmNextInv == ASSUME HpmInv, [HpmNext]_hpmVars PROVE HpmInv'
<1>1. CASE HpmSecond
  <2>1. hpm_noise \in Nat /\ MaxHpmNoise \in Nat
    BY HpmAssumption DEF HpmInv, HpmTypes
  <2>2. hpm_noise' \in {hpm_noise + 1, MaxHpmNoise + 1} => hpm_noise' \in Nat \ {0}
    BY <2>1
  <2>3. HpmDead /\ UNCHANGED hpm_noise => hpm_noise' \in Nat \ {0}
    BY <2>1 DEF HpmDead
  <2>4. \/ hpm_ring' = (IF hpm_powered THEN <<Long, Rest>> ELSE <<>>) /\ UNCHANGED hpm_noise
        \/ /\ hpm_ring' \in {<<>>, <<Long>>, <<Rest>>, <<Spoilt, Rest>>, <<Long, Spoilt>>, <<Short, Rest>>}
           /\ hpm_noise' \in Nat \ {0}
    BY <1>1, <2>2, <2>3 DEF HpmSecond
  <2> QED BY <1>1, <2>4, HpmTimeInv DEF HpmSecond
<1>2. CASE UNCHANGED hpmVars
  BY <1>2 DEF HpmInv, HpmTypes, PowerFollowsUse, PacketsInStep, WaitIsLongEnough,
     hpmVars, hpmDriver, hpmPackets, hpmHistory, hpmBounds
<1> QED BY <1>1, <1>2, HpmInitInv, HpmGetInv, HpmHeaderInv, HpmBodyInv DEF HpmNext

\* It holds at first.
LEMMA HpmStartInv == HpmStart => HpmInv
<1> SUFFICES ASSUME HpmStart PROVE HpmInv
  OBVIOUS
<1>1. HpmTypes
  BY HpmAssumption, SomePackets DEF HpmStart, HpmTypes
<1>2. PowerFollowsUse
  BY DEF HpmStart, PowerFollowsUse
<1>3. PacketsInStep /\ WaitIsLongEnough /\ ~old_value
  BY PacketParts DEF HpmStart, PacketsInStep, WaitIsLongEnough
<1> QED BY <1>1, <1>2, <1>3 DEF HpmInv

\* For any timeout longer than the time first taken, and any number of samples,
\* power follows the uses of the sensor; and with its packets whole a value told
\* was measured since it was asked for, and is the fourth packet's once the sensor
\* is off, the third's if it is told ahead of the fourth.
THEOREM HpmValueIsGood == HpmSpec => []ValueIsGood
<1>1. HpmStart => HpmInv
  BY HpmStartInv
<1>2. HpmInv /\ [HpmNext]_hpmVars => HpmInv'
  BY HpmNextInv
<1>3. HpmInv => ValueHasSettled
  <2> SUFFICES ASSUME HpmInv, hpm_noise = 0, hpm_valid, hpm_age >= last_collect
               PROVE  pm_entry >= IF hpm_is_on THEN 3 ELSE 4
    BY DEF ValueHasSettled, StillValid, InTime
  <2>1. PacketsInStep
    BY DEF HpmInv
  <2>2. CASE hpm_is_on
    <3>1. message_count = hpm_age - (IF hpm_ring = <<>> THEN 0 ELSE 1) /\ hpm_age >= 4
      BY <2>1, <2>2 DEF PacketsInStep, HpmInv, HpmTypes
    <3>2. message_count >= 3
      BY <3>1 DEF HpmInv, HpmTypes
    <3> QED BY <2>1, <2>2, <3>2 DEF PacketsInStep, HpmInv, HpmTypes
  <2>3. CASE ~hpm_is_on
    BY <2>1, <2>3 DEF PacketsInStep
  <2> QED BY <2>2, <2>3
<1>4. HpmInv => ValueIsGood
  BY <1>3 DEF HpmInv, ValueIsGood, ValueIsFresh
<1> QED BY <1>1, <1>2, <1>4, PTL DEF HpmSpec

-----------------------------------------------------------------------------
(* The light sensor.                                                      *)

\* The longest a reading can have taken when it comes to a setting, if each
\* wait is begun and ended within 5 ms: a wait and 6 ms for each setting before.
BeforeTime == CASE int_index = 2 -> 0 [] int_index = 3 -> 464
                [] int_index = 4 -> 1368 [] int_index = 5 -> 3152
SettingTime == CASE int_index = 2 -> 116 [] int_index = 3 -> 226
                 [] int_index = 4 -> 446 [] int_index = 5 -> 886
ByNow == BeforeTime + gain_index * SettingTime

VemlTypes ==
  /\ veml_state \in {"OFF", "READING", "DONE"} /\ gain_index \in 0..3 /\ int_index \in 2..5
  /\ veml_since \in Nat /\ light \in 0..16 /\ pace \in Nat /\ veml_faults \in Nat

VemlPrompt ==
  /\ timed_out => veml_faults > 0
  /\ veml_faults = 0 /\ veml_owned => pace <= 5
  /\ veml_faults = 0 /\ veml_owned /\ veml_state = "READING" => veml_since <= ByNow

VemlTells ==
  /\ veml_valid => veml_state = "DONE"
  /\ veml_valid => lux = light \/ (lux = 16 /\ veml_faults > 0)
  /\ told = -1 \/ told = light \/ (told = 16 /\ veml_faults > 0)

VemlInv == VemlTypes /\ VemlPrompt /\ VemlTells /\ OffWhenDone

\* How long each integration time is waited for.
LEMMA WaitTimes ==
  ASSUME int_index \in 2..5
  PROVE  WaitTime = CASE int_index = 2 -> 110 [] int_index = 3 -> 220
                      [] int_index = 4 -> 440 [] int_index = 5 -> 880
BY DEF WaitTime, IntTime

\* An iteration takes the search to its next setting, or ends it.
LEMMA VemlIterateInv == ASSUME VemlInv, VemlIterate PROVE VemlInv'
<1> DEFINE S == veml_since + WaitTime + 1 + pace
<1>b. ByNow + SettingTime <= 6696 /\ SettingTime \in Nat /\ ByNow \in Nat
  BY DEF VemlInv, VemlTypes, ByNow, BeforeTime, SettingTime
<1>c. WaitTime \in Nat /\ WaitTime + 6 = SettingTime
  BY WaitTimes DEF VemlInv, VemlTypes, SettingTime
<1>a. /\ S \in Nat
      /\ veml_faults = 0 /\ veml_owned /\ veml_state = "READING" => S <= ByNow + SettingTime
  BY <1>b, <1>c DEF VemlInv, VemlTypes, VemlPrompt
<1>m. MaxReadTime = 6700
  BY DEF MaxReadTime
<1>x. /\ veml_since' = S
      /\ UNCHANGED <<light, pace, told, cut>> /\ veml_owned /\ veml_state = "READING"
  BY Zenon DEF VemlIterate
<1>y. timed_out' => timed_out \/ veml_since' > MaxReadTime
  BY Zenon DEF VemlIterate
<1>1. /\ veml_since' = S /\ (timed_out' => timed_out \/ S > 6700)
      /\ UNCHANGED <<light, pace, told, cut>> /\ veml_owned /\ veml_state = "READING"
  BY <1>m, <1>x, <1>y
<1>i. \/ veml_since' > MaxReadTime /\ TransferWorks /\ BadExit /\ veml_on' = FALSE /\ veml_owned' = FALSE
      \/ /\ veml_since' <= MaxReadTime
         /\ \/ TransferWorks /\ UNCHANGED veml_owned
               /\ IF Settings >= light THEN VemlDone(light)
                  ELSE IF CanIncrease THEN Increased /\ UNCHANGED <<veml_state, veml_valid, lux, veml_on>>
                  ELSE VemlDone(16)
            \/ TransferFails /\ UNCHANGED veml_owned
               /\ IF CanIncrease THEN Increased /\ UNCHANGED <<veml_state, veml_valid, lux, veml_on>>
                  ELSE VemlDone(16)
            \/ TransferFails /\ BadExit /\ veml_owned' = FALSE
  BY Zenon DEF VemlIterate
<1>2. S > 6700 => veml_faults > 0
  BY <1>a, <1>b, <1>1 DEF VemlInv, VemlTypes
<1> HIDE DEF S
<1>3. ASSUME UNCHANGED veml_faults \/ veml_faults' = veml_faults + 1,
             veml_state' = "OFF", UNCHANGED <<gain_index, int_index, veml_valid, lux>>,
             veml_owned' = FALSE, veml_on' = FALSE \/ veml_faults' = veml_faults + 1
      PROVE  VemlInv'
  <2>1. VemlTypes'
    BY <1>a, <1>1, <1>3 DEF VemlInv, VemlTypes
  <2>2. VemlPrompt'
    BY <1>1, <1>2, <1>3 DEF VemlInv, VemlTypes, VemlPrompt
  <2>3. VemlTells' /\ OffWhenDone'
    BY <1>1, <1>3 DEF VemlInv, VemlTypes, VemlTells, OffWhenDone
  <2> QED BY <2>1, <2>2, <2>3 DEF VemlInv
<1>4. ASSUME UNCHANGED veml_faults \/ veml_faults' = veml_faults + 1,
             S <= 6700, UNCHANGED veml_owned,
             CanIncrease, Increased, UNCHANGED <<veml_state, veml_valid, lux, veml_on>>
      PROVE  VemlInv'
  <2>1. gain_index' \in 0..3 /\ int_index' \in 2..5
    BY <1>4 DEF CanIncrease, Increased, VemlInv, VemlTypes
  <2>2. ByNow' = ByNow + SettingTime
    BY <1>4 DEF CanIncrease, Increased, VemlInv, VemlTypes, ByNow, BeforeTime, SettingTime
  <2>3. VemlTypes'
    BY <1>a, <1>1, <1>4, <2>1 DEF VemlInv, VemlTypes
  <2>4. VemlPrompt'
    BY <1>a, <1>1, <1>4, <2>2 DEF VemlInv, VemlTypes, VemlPrompt
  <2>5. VemlTells' /\ OffWhenDone'
    BY <1>1, <1>4 DEF VemlInv, VemlTypes, VemlTells, OffWhenDone
  <2> QED BY <2>3, <2>4, <2>5 DEF VemlInv
<1>5. ASSUME NEW l \in 0..16, S <= 6700, UNCHANGED veml_owned, VemlDone(l), UNCHANGED veml_faults \/ veml_faults' = veml_faults + 1,
             l = light \/ (l = 16 /\ veml_faults' > 0)
      PROVE  VemlInv'
  <2>1. VemlTypes'
    BY <1>a, <1>1, <1>5 DEF VemlInv, VemlTypes, VemlDone
  <2>2. VemlPrompt'
    <3>1. veml_state' = "DONE" /\ (timed_out' => timed_out) /\ pace' = pace
      BY <1>a, <1>1, <1>5 DEF VemlDone
    <3> QED BY <1>5, <3>1 DEF VemlInv, VemlTypes, VemlPrompt
  <2>3. VemlTells' /\ OffWhenDone'
    BY <1>1, <1>5 DEF VemlInv, VemlTypes, VemlTells, OffWhenDone, VemlDone
  <2> QED BY <2>1, <2>2, <2>3 DEF VemlInv
<1>6. ~CanIncrease => Settings = 15
  BY DEF CanIncrease, VemlInv, VemlTypes, Settings, DefaultInt
<1>7. ~CanIncrease /\ ~(Settings >= light) => light = 16
  BY <1>6 DEF VemlInv, VemlTypes
<1>8. light \in 0..16 /\ 16 \in 0..16 /\ veml_faults \in Nat
  BY DEF VemlInv, VemlTypes
<1>9. CASE S > 6700
  <2>1. TransferWorks /\ BadExit /\ veml_on' = FALSE /\ veml_owned' = FALSE
    <3>1. ~(veml_since' <= MaxReadTime)
      BY <1>9, <1>a, <1>m, <1>1
    <3> QED BY <3>1, <1>i, Zenon
  <2> QED BY <2>1, <1>3 DEF TransferWorks, BadExit
<1>10. CASE S <= 6700
  <2>1. CASE /\ TransferWorks /\ UNCHANGED veml_owned
             /\ IF Settings >= light THEN VemlDone(light)
                ELSE IF CanIncrease THEN Increased /\ UNCHANGED <<veml_state, veml_valid, lux, veml_on>>
                ELSE VemlDone(16)
    BY <2>1, <1>10, <1>4, <1>5, <1>7, <1>8 DEF TransferWorks
  <2>2. CASE /\ TransferFails /\ UNCHANGED veml_owned
             /\ IF CanIncrease THEN Increased /\ UNCHANGED <<veml_state, veml_valid, lux, veml_on>>
                ELSE VemlDone(16)
    BY <2>2, <1>10, <1>4, <1>5, <1>8 DEF TransferFails
  <2>3. CASE TransferFails /\ BadExit /\ veml_owned' = FALSE
    BY <2>3, <1>3 DEF TransferFails, BadExit
  <2>4. ~(veml_since' > MaxReadTime)
    BY <1>10, <1>a, <1>m, <1>1
  <2> QED BY <1>i, <2>1, <2>2, <2>3, <2>4, Zenon
<1> QED BY <1>9, <1>10, <1>a

\* Every step of the light sensor keeps it.
LEMMA VemlNextInv == ASSUME VemlInv, [VemlNext]_vemlVars PROVE VemlInv'
<1> USE VemlAssumption DEF VemlInv, VemlTypes, VemlPrompt, VemlTells, OffWhenDone, MaxReadTime
<1>1. CASE VemlBegin
  BY <1>1 DEF VemlBegin, VemlStarts, TransferFails, TransferWorks, DefaultInt, ByNow, BeforeTime, SettingTime
<1>2. CASE VemlGet
  BY <1>2 DEF VemlGet
<1>3. CASE VemlGivenUp
  BY <1>3 DEF VemlGivenUp, TransferFails, vemlReading
<1>4. CASE VemlIdle
  BY <1>4 DEF VemlIdle, ByNow, BeforeTime, SettingTime
<1>5. CASE UNCHANGED vemlVars
  BY <1>5 DEF vemlVars, vemlReading, ByNow, BeforeTime, SettingTime
<1> QED BY <1>1, <1>2, <1>3, <1>4, <1>5, VemlIterateInv DEF VemlNext

\* It holds at first, and its types are those of the variables.
LEMMA VemlInvInit == VemlInit => VemlInv
BY VemlAssumption DEF VemlInit, VemlInv, VemlTypes, VemlPrompt, VemlTells, OffWhenDone, DefaultInt, MaxReadTime
LEMMA VemlTypesAre == VemlInv => VemlTypeOK
BY DEF VemlInv, VemlTypes, VemlTells, VemlTypeOK, DefaultInt, GainMultiplier, IntMultiplier

\* With any failures and samples given up, what is told is the light of the
\* reading begun last, or darkness after a failed transfer; when nothing fails
\* it is told within the time allowed, and the chip is off then.
THEOREM VemlLightIsTold == VemlSpec => [](VemlTypeOK /\ LightIsTold)
<1>1. VemlInit => VemlInv
  BY VemlInvInit
<1>2. VemlInv /\ [VemlNext]_vemlVars => VemlInv'
  BY VemlNextInv
<1>3. VemlInv => VemlTypeOK
  BY VemlTypesAre
<1>4. VemlInv => LightIsTold
  BY DEF VemlInv, VemlPrompt, VemlTells, LightIsTold, PromptIsInTime, OffWhenDone, ToldItsLight
<1> QED BY <1>1, <1>2, <1>3, <1>4, PTL DEF VemlSpec

-----------------------------------------------------------------------------
(* The microphone.                                                        *)

\* What holds of the microphone while it is read.  What a sample cut short
\* leaves - a finished flag, buffers counted, a DMA that runs - is what
\* sai_clean says is not there.
SaiTypes ==
  /\ sai_array \in {"whole", "torn"}
  /\ num_rms \in 0..SaiMaxNoBuf /\ sai_no_buf \in NoBuf
  /\ rolling_rms \in [whole : Nat, torn : Nat, before : Nat]
  /\ sai_told.rms \in [whole : Nat, torn : Nat, before : Nat]

SaiCounts == num_rms > 0 => rolling_rms.whole + rolling_rms.torn + rolling_rms.before = num_rms

SaiTorn ==
  /\ sai_told.rms.torn <= 1 /\ rolling_rms.torn <= 1
  /\ sai_owned /\ sai_finished /\ sai_array = "torn" => rolling_rms.torn = 0

SaiCleanly ==
  /\ sai_clean /\ ~sai_owned => ~sai_dma /\ ~sai_finished /\ num_rms = 0
  /\ sai_clean /\ sai_owned =>
       /\ rolling_rms.before = 0 /\ rolling_rms.torn = 0
       /\ num_rms <= sai_no_buf
       /\ sai_finished => sai_array = "whole" /\ ~sai_dma /\ ~Enough
       /\ sai_dma => ~Enough

SaiInv == SaiTypes /\ SaiCounts /\ SaiTorn /\ SaiCleanly /\ LevelIsWhole

\* Every step of the microphone keeps it.
LEMMA SaiNextInv == ASSUME SaiInv, [SaiNext]_saiVars PROVE SaiInv'
<1> USE SaiAssumption DEF SaiInv, SaiTypes, SaiCounts, SaiTorn, SaiCleanly, LevelIsWhole, NoBuf, Enough
<1>1. CASE Dma2Channel1Isr
  BY <1>1 DEF Dma2Channel1Isr
<1>2. CASE SaiBegin
  BY <1>2 DEF SaiBegin, DmaStart
<1>3. CASE SaiIterate
  <2>1. num_rms' = num_rms + 1 /\ rolling_rms' = RolledIn(sai_array) /\ sai_array \in {"whole", "torn"}
    BY <1>3 DEF SaiIterate
  <2>2. rolling_rms' = [whole |-> (IF num_rms = 0 THEN 0 ELSE rolling_rms.whole) + (IF sai_array = "whole" THEN 1 ELSE 0),
                        torn |-> (IF num_rms = 0 THEN 0 ELSE rolling_rms.torn) + (IF sai_array = "torn" THEN 1 ELSE 0),
                        before |-> IF num_rms = 0 THEN 0 ELSE rolling_rms.before]
    BY <2>1 DEF RolledIn, NoRms
  <2>3. SaiTypes'
    BY <1>3, <2>2 DEF SaiIterate, DmaStart
  <2>4. SaiCounts'
    BY <2>1, <2>2
  <2>5. SaiTorn'
    BY <1>3, <2>2 DEF SaiIterate, DmaStart
  <2>6. SaiCleanly'
    BY <1>3, <2>2 DEF SaiIterate, DmaStart
  <2>7. LevelIsWhole'
    BY <1>3 DEF SaiIterate
  <2> QED BY <2>3, <2>4, <2>5, <2>6, <2>7
<1>4. CASE SaiGet
  <2>1. sai_told'.rms = IF num_rms = 0 THEN NoRms ELSE rolling_rms
    BY <1>4 DEF SaiGet
  <2>2. sai_told'.clean => num_rms # 0 /\ sai_clean /\ Enough
    BY <1>4 DEF SaiGet
  <2>3. num_rms # 0 => sai_told'.of = sai_no_buf
    BY <1>4 DEF SaiGet
  <2>4. SaiTypes'
    BY <1>4, <2>1, <2>2 DEF SaiGet, NoRms
  <2>5. SaiCounts' /\ SaiTorn'
    BY <1>4, <2>1 DEF SaiGet, NoRms
  <2>6. SaiCleanly'
    BY <1>4 DEF SaiGet
  <2>7. LevelIsWhole'
    BY <1>4, <2>1, <2>2, <2>3 DEF SaiGet, NoRms
  <2> QED BY <2>4, <2>5, <2>6, <2>7
<1>5. CASE SaiGivenUp
  BY <1>5 DEF SaiGivenUp
<1>6. ASSUME NEW n \in 0..SaiMaxNoBuf, SaiSetNoBuf(n) PROVE SaiInv'
  BY <1>6 DEF SaiSetNoBuf
<1>7. CASE UNCHANGED saiVars
  BY <1>7 DEF saiVars
<1> QED BY <1>1, <1>2, <1>3, <1>4, <1>5, <1>6, <1>7 DEF SaiNext

\* It holds at first, and says what is to be shown.
LEMMA SaiInvInit == SaiInit => SaiInv
<1> SUFFICES ASSUME SaiInit PROVE SaiInv
  OBVIOUS
<1> USE SaiAssumption DEF SaiInit
<1>1. SaiTypes
  BY DEF SaiTypes, NoRms, NoBuf
<1>2. SaiCounts /\ SaiTorn /\ SaiCleanly
  BY DEF SaiCounts, SaiTorn, SaiCleanly, NoRms
<1>3. LevelIsWhole
  BY DEF LevelIsWhole
<1> QED BY <1>1, <1>2, <1>3 DEF SaiInv
LEMMA SaiTypesAre == SaiInv => SaiTypeOK /\ LevelIsOfItsSample
BY DEF SaiInv, SaiTypes, SaiCounts, SaiTorn, SaiTypeOK, LevelIsOfItsSample, TornIsBounded, NoBuf

\* For any number of buffers, cuts and commands, a level is of buffers filled
\* whole during its sample, as many as were asked for, but for what a sample
\* cut short leaves; and at most one of them is torn.
THEOREM SaiLevelIsOfItsSample == SaiSpec => [](SaiTypeOK /\ LevelIsOfItsSample)
<1>1. SaiInit => SaiInv
  BY SaiInvInit
<1>2. SaiInv /\ [SaiNext]_saiVars => SaiInv'
  BY SaiNextInv
<1>3. SaiInv => SaiTypeOK /\ LevelIsOfItsSample
  BY SaiTypesAre
<1> QED BY <1>1, <1>2, <1>3, PTL DEF SaiSpec

-----------------------------------------------------------------------------
(* The temperature probe and its line.                                    *)

\* The slots of the two exchanges, and how many of them are done.
InitSlots == Exchange(ConvT, 0)
CollectSlots == Exchange(ReadScp, 16)
SlotsDone == IF w1_step = "init" THEN 21 - Len(w1_todo) ELSE 37 - Len(w1_todo)

SomeBit == {0, 1} \cup {Bits(b)[i] : b \in {SkipRom, ConvT, ReadScp}, i \in 1..8}
                  \cup {Bit(v, i) : v \in RawTemps \cup {PowerUpTemp}, i \in 0..16}
SomeSlot == [op : {"reset", "out", "in", "send", "read"}, bit : SomeBit]

Program ==
  /\ w1_step \in {"idle", "init", "waiting", "collect"}
  /\ w1_todo \in Seq(SomeSlot)
  /\ w1_step = "init" =>
       Len(w1_todo) <= 21 /\ \A k \in 1..Len(w1_todo) : w1_todo[k] = InitSlots[k + SlotsDone]
  /\ w1_step = "collect" =>
       Len(w1_todo) <= 37 /\ \A k \in 1..Len(w1_todo) : w1_todo[k] = CollectSlots[k + SlotsDone]
  /\ w1_step \in {"idle", "waiting"} => w1_todo = <<>>

\* The probe heard the first n bits of byte.
HeardOf(byte, n) == Len(probe.heard) = n /\ \A i \in 1..n : probe.heard[i] = Bits(byte)[i]

ProbeFits ==
  /\ probe \in [mode : {"deaf", "rom", "function", "sending"}, heard : Seq(SomeBit),
                memory : RawTemps \cup {PowerUpTemp}, next : 0..16]
  /\ Len(probe.heard) < 8
  /\ w1_step = "collect" /\ SlotsDone >= 1 /\ probe.mode = "sending" =>
       probe.next <= (IF SlotsDone <= 21 THEN 0 ELSE SlotsDone - 21)

LineFits ==
  /\ w1_init_faults \in Nat /\ w1_read \in Seq(SomeBit) /\ Len(w1_read) <= 16
  /\ w1_step = "collect" => Len(w1_read) = (IF SlotsDone <= 21 THEN 0 ELSE SlotsDone - 21)
  /\ w1_step \in {"idle", "waiting"} => ~w1_out
  /\ w1_step = "init" /\ SlotsDone = 21 => ~w1_out
  /\ w1_step = "collect" /\ SlotsDone >= 21 => ~w1_out

Hearing ==
  /\ w1_step = "init" /\ SlotsDone >= 1 => w1_line = "good"
  /\ w1_step = "init" /\ SlotsDone \in (2..10) \cup (12..20) => w1_out
  /\ w1_step = "init" /\ SlotsDone \in 1..9 =>
       probe.mode = "rom" /\ HeardOf(SkipRom, IF SlotsDone <= 2 THEN 0 ELSE SlotsDone - 2)
  /\ w1_step = "init" /\ SlotsDone \in 10..19 =>
       probe.mode = "function" /\ HeardOf(ConvT, IF SlotsDone <= 12 THEN 0 ELSE SlotsDone - 12)
  /\ w1_step = "init" /\ SlotsDone \in 20..21 => probe.memory = sampled
  /\ w1_step \in {"waiting", "collect"} => probe.memory = sampled

Told ==
  /\ w1_step # "idle" => w1_told = NoTemp /\ sampled \in RawTemps
  /\ ToldIsSampled /\ ToldIsOfProbe

W1Inv == Program /\ ProbeFits /\ LineFits /\ (w1_init_faults = 0 => Hearing) /\ Told

\* The ten slots of a byte are slots.
LEMMA ByteSlots ==
  ASSUME NEW b \in {SkipRom, ConvT, ReadScp}
  PROVE  \A i \in 1..10 : SendByte(b)[i] \in SomeSlot
BY DEF SendByte, SomeSlot, SomeBit, Slot

\* The slots of the exchange that begins a conversion.
LEMMA InitSlot ==
  /\ InitSlots \in Seq(SomeSlot) /\ Len(InitSlots) = 21
  /\ InitSlots[1] = Slot("reset", 0)
  /\ InitSlots[2] = Slot("out", 0) /\ InitSlots[12] = Slot("out", 0)
  /\ InitSlots[11] = Slot("in", 0) /\ InitSlots[21] = Slot("in", 0)
  /\ \A i \in 1..8 : InitSlots[i + 2] = Slot("send", Bits(SkipRom)[i])
  /\ \A i \in 1..8 : InitSlots[i + 12] = Slot("send", Bits(ConvT)[i])
<1>1. \A i \in 1..21 : InitSlots[i] \in SomeSlot
  <2>1. Slot("reset", 0) \in SomeSlot
    BY DEF Slot, SomeSlot, SomeBit
  <2> QED BY <2>1, ByteSlots DEF InitSlots, Exchange
<1>2. InitSlots \in [1..21 -> SomeSlot]
  BY <1>1 DEF InitSlots, Exchange
<1> QED BY <1>2 DEF InitSlots, Exchange, SendByte

\* The slots of the one that reads its result.
LEMMA CollectSlot ==
  /\ CollectSlots \in Seq(SomeSlot) /\ Len(CollectSlots) = 37
  /\ CollectSlots[1] = Slot("reset", 0)
  /\ CollectSlots[2] = Slot("out", 0) /\ CollectSlots[12] = Slot("out", 0)
  /\ CollectSlots[11] = Slot("in", 0) /\ CollectSlots[21] = Slot("in", 0)
  /\ \A i \in 1..8 : CollectSlots[i + 2].op = "send" /\ CollectSlots[i + 12].op = "send"
  /\ \A i \in 22..37 : CollectSlots[i] = Slot("read", 0)
<1>1. \A i \in 1..37 : CollectSlots[i] \in SomeSlot
  <2>1. Slot("reset", 0) \in SomeSlot /\ Slot("read", 0) \in SomeSlot
    BY DEF Slot, SomeSlot, SomeBit
  <2> QED BY <2>1, ByteSlots DEF CollectSlots, Exchange
<1>2. CollectSlots \in [1..37 -> SomeSlot]
  BY <1>1 DEF CollectSlots, Exchange
<1> QED BY <1>2 DEF CollectSlots, Exchange, SendByte, Slot

\* What each slot of an exchange does.
LEMMA InitOps ==
  ASSUME NEW i \in 1..21
  PROVE  /\ InitSlots[i].op = "reset" => i = 1
         /\ InitSlots[i].op = "out" => i \in {2, 12}
         /\ InitSlots[i].op = "in" => i \in {11, 21}
         /\ InitSlots[i].op = "send" => i \in (3..10) \cup (13..20)
         /\ InitSlots[i].op # "read"
BY DEF InitSlots, Exchange, SendByte, Slot
\* Where in the second exchange each operation is.
LEMMA CollectOps ==
  ASSUME NEW i \in 1..37
  PROVE  /\ CollectSlots[i].op = "reset" => i = 1
         /\ CollectSlots[i].op = "out" => i \in {2, 12}
         /\ CollectSlots[i].op = "in" => i \in {11, 21}
         /\ CollectSlots[i].op = "send" => i \in (3..10) \cup (13..20)
         /\ CollectSlots[i].op = "read" => i >= 22
<1>1. CASE i \in 1..21
  <2>1. CollectSlots[i].op = InitSlots[i].op
    BY <1>1 DEF CollectSlots, InitSlots, Exchange, SendByte, Slot
  <2> QED BY <1>1, <2>1, InitOps
<1>2. CASE i \in 22..37
  <2>1. CollectSlots[i].op = "read"
    BY <1>2 DEF CollectSlots, Exchange, Slot
  <2> QED BY <1>2, <2>1
<1> QED BY <1>1, <1>2

\* How far an exchange is, and when it is done.
LEMMA ProgramLens ==
  ASSUME Program
  PROVE  /\ Len(w1_todo) \in Nat
         /\ w1_todo = <<>> <=> Len(w1_todo) = 0
         /\ w1_step = "init" => SlotsDone \in 0..21 /\ (w1_todo = <<>> <=> SlotsDone = 21)
         /\ w1_step = "collect" => SlotsDone \in 0..37 /\ (w1_todo = <<>> <=> SlotsDone = 37)
         /\ w1_todo # <<>> => w1_step \in {"init", "collect"}
<1>1. Len(w1_todo) \in Nat
  BY LenProperties DEF Program
<1>2. w1_todo = <<>> <=> Len(w1_todo) = 0
  BY EmptySeq DEF Program
<1>3. (w1_step = "init" => Len(w1_todo) <= 21) /\ (w1_step = "collect" => Len(w1_todo) <= 37)
  BY Zenon DEF Program
<1>4. w1_todo # <<>> => w1_step \in {"init", "collect"}
  BY Zenon DEF Program
<1> DEFINE left == Len(w1_todo)
           done == SlotsDone
<1>5. ASSUME w1_step = "init"
      PROVE  done \in 0..21 /\ (left = 0 <=> done = 21)
  <2>1. done = 21 - left /\ left <= 21 /\ left \in Nat
    BY <1>1, <1>3, <1>5, Zenon DEF SlotsDone
  <2> HIDE DEF left, done
  <2> QED BY <2>1
<1>6. ASSUME w1_step = "collect"
      PROVE  done \in 0..37 /\ (left = 0 <=> done = 37)
  <2>1. done = 37 - left /\ left <= 37 /\ left \in Nat
    BY <1>1, <1>3, <1>6 DEF SlotsDone
  <2> HIDE DEF left, done
  <2> QED BY <2>1
<1> QED BY <1>1, <1>2, <1>4, <1>5, <1>6, Zenon

\* A slot takes an exchange one further, and is the one due.
LEMMA Advance ==
  ASSUME Program, w1_todo # <<>>, w1_todo' = Tail(w1_todo), w1_step' = w1_step
  PROVE  /\ Program' /\ SlotsDone' = SlotsDone + 1
         /\ w1_step = "init" => SlotsDone \in 0..20 /\ Head(w1_todo) = InitSlots[SlotsDone + 1]
         /\ w1_step = "collect" => SlotsDone \in 0..36 /\ Head(w1_todo) = CollectSlots[SlotsDone + 1]
<1>1. w1_todo \in Seq(SomeSlot) /\ w1_step \in {"init", "collect"}
  BY ProgramLens DEF Program
<1>2. /\ Len(w1_todo) \in Nat \ {0} /\ Tail(w1_todo) \in Seq(SomeSlot) /\ Head(w1_todo) = w1_todo[1]
      /\ Len(Tail(w1_todo)) = Len(w1_todo) - 1
      /\ \A k \in 1..(Len(w1_todo) - 1) : Tail(w1_todo)[k] = w1_todo[k + 1]
  BY <1>1, HeadTailProperties, ProgramLens
<1>3. SlotsDone' = SlotsDone + 1
  BY <1>1, <1>2 DEF SlotsDone
<1>4. CASE w1_step = "init"
  <2>1. SlotsDone \in 0..20 /\ Head(w1_todo) = InitSlots[SlotsDone + 1]
    <3>1. SlotsDone \in 0..20 /\ 1 \in 1..Len(w1_todo)
      BY <1>2, <1>4, ProgramLens
    <3> QED BY <1>2, <1>4, <3>1 DEF Program
  <2>2. SlotsDone = 21 - Len(w1_todo) /\ SlotsDone' = 21 - Len(w1_todo')
    BY <1>4 DEF SlotsDone
  <2>3. \A k \in 1..Len(w1_todo') : w1_todo'[k] = InitSlots[k + SlotsDone']
    BY <1>2, <1>3, <1>4, <2>1, <2>2 DEF Program
  <2> QED BY <1>2, <1>3, <1>4, <2>1, <2>3, InitSlot DEF Program, InitSlots
<1>5. CASE w1_step = "collect"
  <2>1. SlotsDone \in 0..36 /\ Head(w1_todo) = CollectSlots[SlotsDone + 1]
    <3>1. SlotsDone \in 0..36 /\ 1 \in 1..Len(w1_todo)
      BY <1>2, <1>5, ProgramLens
    <3> QED BY <1>2, <1>5, <3>1 DEF Program
  <2>2. SlotsDone = 37 - Len(w1_todo) /\ SlotsDone' = 37 - Len(w1_todo')
    BY <1>5 DEF SlotsDone
  <2>3. \A k \in 1..Len(w1_todo') : w1_todo'[k] = CollectSlots[k + SlotsDone']
    BY <1>2, <1>3, <1>5, <2>1, <2>2 DEF Program
  <2> QED BY <1>2, <1>3, <1>5, <2>1, <2>3, CollectSlot DEF Program, CollectSlots
<1> QED BY <1>1, <1>4, <1>5

\* Where the driver is when it does the slot at the head.
LEMMA HeadOps ==
  ASSUME Program, w1_todo # <<>>, w1_todo' = Tail(w1_todo), w1_step' = w1_step
  PROVE  /\ Program' /\ SlotsDone' = SlotsDone + 1 /\ SlotsDone \in Nat
         /\ w1_step = "init" => SlotsDone \in 0..20 /\ Head(w1_todo) = InitSlots[SlotsDone + 1]
         /\ w1_step = "collect" => SlotsDone \in 0..36
         /\ w1_step \in {"init", "collect"} /\ Head(w1_todo) \in SomeSlot
         /\ Head(w1_todo).op = "reset" => SlotsDone = 0
         /\ Head(w1_todo).op = "out" => SlotsDone \in {1, 11}
         /\ Head(w1_todo).op = "in" => SlotsDone \in {10, 20}
         /\ Head(w1_todo).op = "send" => SlotsDone \in (2..9) \cup (12..19)
         /\ Head(w1_todo).op = "read" => w1_step = "collect" /\ SlotsDone >= 21
<1> DEFINE op == Head(w1_todo).op
           done == SlotsDone
<1>1. /\ Program' /\ SlotsDone' = SlotsDone + 1
      /\ w1_step = "init" => SlotsDone \in 0..20 /\ Head(w1_todo) = InitSlots[SlotsDone + 1]
      /\ w1_step = "collect" => SlotsDone \in 0..36 /\ Head(w1_todo) = CollectSlots[SlotsDone + 1]
  BY Advance, Zenon
<1>2. w1_step \in {"init", "collect"}
  BY ProgramLens, Zenon
<1>3. Head(w1_todo) \in SomeSlot
  BY HeadTailProperties DEF Program
<1>4. CASE w1_step = "init"
  <2>0. done \in 0..20 /\ op = InitSlots[done + 1].op
    BY <1>1, <1>4, Zenon
  <2>1. done + 1 \in 1..21
    <3> HIDE DEF done, op
    <3> QED BY <2>0
  <2>2. /\ op = "reset" => done + 1 = 1
        /\ op = "out" => done + 1 \in {2, 12}
        /\ op = "in" => done + 1 \in {11, 21}
        /\ op = "send" => done + 1 \in (3..10) \cup (13..20)
        /\ op # "read"
    BY <2>0, <2>1, InitOps, Zenon
  <2>3. done \in Nat /\ done \in 0..20
    <3>1. done \in 0..20
      BY <1>1, <1>4
    <3> HIDE DEF done, op
    <3> QED BY <3>1
  <2> HIDE DEF done, op
  <2>4. /\ op = "reset" => done = 0
        /\ op = "out" => done \in {1, 11}
        /\ op = "in" => done \in {10, 20}
        /\ op = "send" => done \in (2..9) \cup (12..19)
    BY <2>2, <2>3
  <2> QED BY <1>1, <1>2, <1>3, <1>4, <2>2, <2>3, <2>4, Zenon DEF done, op
<1>5. CASE w1_step = "collect"
  <2>0. done \in 0..36 /\ op = CollectSlots[done + 1].op
    BY <1>1, <1>5, Zenon
  <2>1. done + 1 \in 1..37
    <3> HIDE DEF done, op
    <3> QED BY <2>0
  <2>2. /\ op = "reset" => done + 1 = 1
        /\ op = "out" => done + 1 \in {2, 12}
        /\ op = "in" => done + 1 \in {11, 21}
        /\ op = "send" => done + 1 \in (3..10) \cup (13..20)
        /\ op = "read" => done + 1 >= 22
    BY <2>0, <2>1, CollectOps, Zenon
  <2>3. done \in Nat /\ done \in 0..36
    <3> HIDE DEF done, op
    <3> QED BY <2>0
  <2> HIDE DEF done, op
  <2>4. /\ op = "reset" => done = 0
        /\ op = "out" => done \in {1, 11}
        /\ op = "in" => done \in {10, 20}
        /\ op = "send" => done \in (2..9) \cup (12..19)
        /\ op = "read" => done >= 21
    BY <2>2, <2>3
  <2> QED BY <1>1, <1>2, <1>3, <1>5, <2>3, <2>4, Zenon DEF done, op
<1> QED BY <1>2, <1>4, <1>5

\* The conversion to sixteenths is that of a signed word.
LEMMA TypedSixteenths ==
  ASSUME NEW t \in Int
  PROVE  Sixteenths(t) = Signed(t)
BY DEF Sixteenths, Signed

\* The line at rest.
LEMMA W1InitInv == W1Init => W1Inv
<1> SUFFICES ASSUME W1Init PROVE W1Inv
  OBVIOUS
<1>1. Program
  BY EmptySeq DEF W1Init, Program
<1>2. ProbeFits
  BY EmptySeq DEF W1Init, ProbeFits
<1>3. LineFits
  BY EmptySeq DEF W1Init, LineFits
<1>4. Hearing
  BY DEF W1Init, Hearing
<1>5. Told
  BY DEF W1Init, Told, ToldIsSampled, ToldIsOfProbe
<1> QED BY <1>1, <1>2, <1>3, <1>4, <1>5 DEF W1Inv

\* What the probe hears leaves it with less than a byte heard.
LEMMA HearsFits ==
  ASSUME ProbeFits, NEW bit \in SomeBit, probe.mode \in {"rom", "function"}, sampled \in RawTemps
  PROVE  /\ Hears(bit) \in [mode : {"deaf", "rom", "function", "sending"}, heard : Seq(SomeBit),
                            memory : RawTemps \cup {PowerUpTemp}, next : 0..16]
         /\ Len(Hears(bit).heard) < 8 /\ Hears(bit).memory \in {probe.memory, sampled}
         /\ Hears(bit).mode = "sending" => Hears(bit).next = 0
<1> DEFINE heard == Append(probe.heard, bit)
<1>0. /\ probe \in [mode : {"deaf", "rom", "function", "sending"}, heard : Seq(SomeBit),
                    memory : RawTemps \cup {PowerUpTemp}, next : 0..16]
      /\ probe.heard \in Seq(SomeBit) /\ probe.memory \in RawTemps \cup {PowerUpTemp}
  BY DEF ProbeFits
<1>1. heard \in Seq(SomeBit) /\ Len(heard) = Len(probe.heard) + 1 /\ Len(probe.heard) \in 0..7
  <2>1. Len(probe.heard) \in 0..7
    <3> DEFINE n == Len(probe.heard)
    <3>1. n \in Nat /\ n < 8
      BY <1>0, LenProperties DEF ProbeFits
    <3> HIDE DEF n
    <3>2. n \in 0..7
      BY <3>1
    <3> QED BY <3>2 DEF n
  <2> QED BY <1>0, <2>1, AppendProperties
<1>2. <<>> \in Seq(SomeBit) /\ Len(<<>>) = 0
  BY EmptySeq
<1>3. CASE Len(heard) < 8
  <2>1. Hears(bit) = [probe EXCEPT !.heard = heard]
    BY <1>3 DEF Hears
  <2> HIDE DEF heard
  <2> QED BY <1>1, <1>3, <2>1 DEF ProbeFits
<1>4. CASE ~(Len(heard) < 8)
  <2> DEFINE mode == CASE probe.mode = "rom" /\ heard = Bits(SkipRom) -> "function"
                       [] probe.mode = "function" /\ heard = Bits(ReadScp) -> "sending"
                       [] OTHER -> "deaf"
             memory == IF probe.mode = "function" /\ heard = Bits(ConvT) THEN sampled ELSE probe.memory
  <2>1. Hears(bit) = [probe EXCEPT !.heard = <<>>, !.mode = mode, !.memory = memory, !.next = 0]
    BY <1>4 DEF Hears
  <2>2. mode \in {"deaf", "function", "sending"} /\ memory \in {probe.memory, sampled}
    OBVIOUS
  <2>3. mode \in {"deaf", "rom", "function", "sending"} /\ memory \in RawTemps \cup {PowerUpTemp} /\ 0 \in 0..16
    BY <1>0, <2>2
  <2> HIDE DEF heard, mode, memory
  <2>4. Hears(bit) \in [mode : {"deaf", "rom", "function", "sending"}, heard : Seq(SomeBit),
                        memory : RawTemps \cup {PowerUpTemp}, next : 0..16]
    BY <1>0, <1>2, <2>1, <2>3
  <2>5. Hears(bit).heard = <<>> /\ Hears(bit).memory = memory /\ Hears(bit).next = 0
    BY <1>0, <2>1
  <2>6. Len(<<>>) < 8
    BY <1>2
  <2> QED BY <2>2, <2>4, <2>5, <2>6, Zenon
<1> QED BY <1>3, <1>4

\* And byte by byte it hears what was sent.
LEMMA HearsByte ==
  ASSUME ProbeFits, NEW byte \in {SkipRom, ConvT}, NEW n \in 0..7, HeardOf(byte, n),
         Bits(byte)[n + 1] \in SomeBit
  PROVE  LET after == Hears(Bits(byte)[n + 1])
         IN  /\ n < 7 => /\ after.mode = probe.mode /\ Len(after.heard) = n + 1
                         /\ \A i \in 1..(n + 1) : after.heard[i] = Bits(byte)[i]
             /\ n = 7 => /\ Len(after.heard) = 0
                         /\ probe.mode = "rom" /\ byte = SkipRom => after.mode = "function"
                         /\ probe.mode = "function" /\ byte = ConvT => after.memory = sampled
<1> DEFINE heard == Append(probe.heard, Bits(byte)[n + 1])
           after == Hears(Bits(byte)[n + 1])
<1>1. Len(heard) = n + 1 /\ heard \in Seq(SomeBit) /\ heard[n + 1] = Bits(byte)[n + 1]
      /\ \A i \in 1..n : heard[i] = Bits(byte)[i]
  BY AppendProperties, LenProperties DEF ProbeFits, HeardOf
<1>2. \A i \in 1..(n + 1) : heard[i] = Bits(byte)[i]
  BY <1>1
<1>3. CASE n < 7
  <2>1. after = [probe EXCEPT !.heard = heard]
    BY <1>1, <1>3 DEF Hears
  <2> HIDE DEF heard, after
  <2> QED BY <1>1, <1>2, <1>3, <2>1 DEF ProbeFits, after
<1>4. CASE n = 7
  <2>1. heard = Bits(byte)
    <3>1. heard \in [1..8 -> SomeBit]
      <4>1. Len(heard) = 8 /\ heard \in Seq(SomeBit)
        BY <1>1, <1>4
      <4> HIDE DEF heard
      <4> QED BY <4>1, LenProperties
    <3> HIDE DEF heard
    <3> QED BY <1>2, <1>4, <3>1 DEF Bits
  <2>2. after = [probe EXCEPT !.heard = <<>>,
                  !.mode = CASE probe.mode = "rom" /\ heard = Bits(SkipRom) -> "function"
                             [] probe.mode = "function" /\ heard = Bits(ReadScp) -> "sending"
                             [] OTHER -> "deaf",
                  !.memory = IF probe.mode = "function" /\ heard = Bits(ConvT) THEN sampled ELSE @,
                  !.next = 0]
    BY <1>1, <1>4 DEF Hears
  <2>3. Len(<<>>) = 0
    BY EmptySeq
  <2> HIDE DEF heard, after
  <2>4. after.heard = <<>>
    BY <2>2 DEF ProbeFits
  <2>5. probe.mode = "rom" /\ byte = SkipRom => after.mode = "function"
    BY <2>1, <2>2 DEF ProbeFits
  <2>6. probe.mode = "function" /\ byte = ConvT => after.memory = sampled
    BY <2>1, <2>2 DEF ProbeFits
  <2> QED BY <1>4, <2>3, <2>4, <2>5, <2>6 DEF after
<1> QED BY <1>3, <1>4

\* The reset.
LEMMA W1ResetInv == ASSUME W1Inv, ResetSlot PROVE W1Inv'
<1>1. CASE w1_line = "good"
  <2>1. /\ w1_todo # <<>> /\ w1_todo' = Tail(w1_todo) /\ w1_step' = w1_step /\ w1_told' = w1_told
        /\ probe' = [probe EXCEPT !.mode = "rom", !.heard = <<>>] /\ w1_line' = w1_line
        /\ w1_read' = w1_read /\ sampled' = sampled /\ w1_init_faults' = w1_init_faults /\ ~w1_out'
        /\ Head(w1_todo).op = "reset"
    BY <1>1 DEF ResetSlot, NoW1Fault
  <2>2. Program' /\ SlotsDone' = SlotsDone + 1
    BY <2>1, HeadOps DEF W1Inv
  <2>3. w1_step \in {"init", "collect"}
    BY <2>1, HeadOps DEF W1Inv
  <2>4. SlotsDone = 0
    BY <2>1, HeadOps, Zenon DEF W1Inv
  <2>5. <<>> \in Seq(SomeBit) /\ Len(<<>>) = 0
    BY EmptySeq
  <2>6. ProbeFits'
    <3>1. /\ probe' \in [mode : {"deaf", "rom", "function", "sending"}, heard : Seq(SomeBit),
                         memory : RawTemps \cup {PowerUpTemp}, next : 0..16]
          /\ probe'.heard = <<>> /\ probe'.mode = "rom"
      BY <2>1, <2>5 DEF W1Inv, ProbeFits
    <3> QED BY <2>5, <3>1 DEF ProbeFits
  <2>7. LineFits'
    BY <2>1, <2>2, <2>3, <2>4 DEF W1Inv, LineFits
  <2>8. w1_init_faults' = 0 => Hearing'
    BY <1>1, <2>1, <2>2, <2>3, <2>4, <2>5 DEF W1Inv, Hearing, ProbeFits, HeardOf
  <2>9. Told'
    BY <2>1 DEF W1Inv, Told, ToldIsSampled, ToldIsOfProbe
  <2> QED BY <2>2, <2>6, <2>7, <2>8, <2>9 DEF W1Inv
<1>2. CASE w1_line # "good"
  <2>1. /\ w1_todo' = <<>> /\ w1_step' = "idle" /\ w1_told' = NoTemp /\ probe' = probe
        /\ w1_read' = w1_read /\ sampled' = sampled /\ w1_init_faults' = w1_init_faults /\ ~w1_out'
    BY <1>2 DEF ResetSlot, NoW1Fault
  <2>2. Program'
    BY <2>1, EmptySeq DEF Program
  <2>3. ProbeFits' /\ LineFits'
    BY <2>1 DEF W1Inv, ProbeFits, LineFits
  <2>4. Hearing' /\ Told'
    BY <2>1 DEF W1Inv, Hearing, Told, ToldIsSampled, ToldIsOfProbe
  <2> QED BY <2>2, <2>3, <2>4 DEF W1Inv
<1> QED BY <1>1, <1>2

\* The turn of the line.
LEMMA W1TurnInv == ASSUME W1Inv, TurnSlot PROVE W1Inv'
<1>1. /\ w1_todo # <<>> /\ w1_todo' = Tail(w1_todo) /\ w1_step' = w1_step /\ w1_told' = w1_told
      /\ probe' = probe /\ w1_line' = w1_line /\ w1_read' = w1_read /\ sampled' = sampled
      /\ w1_init_faults' = w1_init_faults /\ Head(w1_todo).op \in {"in", "out"}
  BY DEF TurnSlot, NoW1Fault
<1>2. (Head(w1_todo).op = "out" => w1_out') /\ (Head(w1_todo).op = "in" => ~w1_out')
  BY Zenon DEF TurnSlot
<1>3. Program' /\ SlotsDone' = SlotsDone + 1 /\ SlotsDone \in Nat /\ w1_step \in {"init", "collect"}
  BY <1>1, HeadOps DEF W1Inv
<1>4. \/ SlotsDone \in {1, 11} /\ w1_out'
      \/ SlotsDone \in {10, 20} /\ ~w1_out'
  BY <1>1, <1>2, HeadOps, Zenon DEF W1Inv
<1>5. ProbeFits'
  BY <1>1, <1>3, <1>4 DEF W1Inv, ProbeFits
<1>6. LineFits'
  BY <1>1, <1>3, <1>4 DEF W1Inv, LineFits
<1>7. w1_init_faults' = 0 => Hearing'
  BY <1>1, <1>3, <1>4 DEF W1Inv, Hearing, HeardOf
<1>8. Told'
  BY <1>1 DEF W1Inv, Told, ToldIsSampled, ToldIsOfProbe
<1> QED BY <1>3, <1>5, <1>6, <1>7, <1>8 DEF W1Inv

\* A bit that is sent.
LEMMA W1SendInv == ASSUME W1Inv, SendSlot PROVE W1Inv'
<1>1. PICK late \in BOOLEAN :
        /\ IF late THEN Head(w1_todo).bit = 1 /\ W1Fault ELSE NoW1Fault
        /\ probe' = IF w1_out /\ w1_line = "good" /\ probe.mode \in {"rom", "function"}
                    THEN Hears(IF late THEN 0 ELSE Head(w1_todo).bit) ELSE probe
  BY DEF SendSlot
<1>2. /\ w1_todo # <<>> /\ w1_todo' = Tail(w1_todo) /\ w1_step' = w1_step /\ w1_told' = w1_told
      /\ w1_out' = w1_out /\ w1_line' = w1_line /\ w1_read' = w1_read /\ sampled' = sampled
      /\ Head(w1_todo).op = "send"
  BY DEF SendSlot
<1>3. /\ Program' /\ SlotsDone' = SlotsDone + 1 /\ SlotsDone \in Nat /\ w1_step \in {"init", "collect"}
      /\ Head(w1_todo) \in SomeSlot
  BY <1>2, HeadOps DEF W1Inv
<1>4. SlotsDone \in (2..9) \cup (12..19)
  BY <1>2, HeadOps, Zenon DEF W1Inv
<1> DEFINE bit == IF late THEN 0 ELSE Head(w1_todo).bit
<1>5. bit \in SomeBit
  BY <1>3 DEF SomeSlot, SomeBit
<1>6. sampled \in RawTemps
  BY <1>3 DEF W1Inv, Told
<1>7. w1_init_faults \in Nat /\ w1_init_faults' \in Nat /\ (w1_init_faults' = 0 => w1_init_faults = 0)
      /\ (w1_step = "init" /\ late => w1_init_faults' > 0)
  BY <1>1 DEF W1Fault, NoW1Fault, W1Inv, LineFits
<1>8. ProbeFits'
  <2>1. CASE probe' = probe
    BY <1>2, <1>3, <1>4, <2>1 DEF W1Inv, ProbeFits
  <2>2. CASE probe' = Hears(bit) /\ probe.mode \in {"rom", "function"}
    BY <1>2, <1>3, <1>4, <1>5, <1>6, <2>2, HearsFits DEF W1Inv, ProbeFits
  <2> QED BY <1>1, <2>1, <2>2
<1>9. LineFits'
  BY <1>2, <1>3, <1>4, <1>7 DEF W1Inv, LineFits
<1>10. ASSUME w1_init_faults' = 0 PROVE Hearing'
  <2>1. Hearing
    BY <1>7, <1>10 DEF W1Inv
  <2>2. CASE w1_step = "collect"
    <3>1. probe'.memory = sampled
      <4>1. CASE probe' = probe
        BY <2>1, <2>2, <4>1 DEF Hearing
      <4>2. CASE probe' = Hears(bit) /\ probe.mode \in {"rom", "function"}
        BY <1>5, <1>6, <2>1, <2>2, <4>2, HearsFits DEF Hearing, W1Inv
      <4> QED BY <1>1, <4>1, <4>2
    <3> QED BY <1>2, <2>2, <3>1 DEF Hearing
  <2>3. CASE w1_step = "init"
    <3>1. ~late /\ w1_line = "good" /\ w1_out /\ bit = Head(w1_todo).bit
      BY <1>4, <1>7, <1>10, <2>1, <2>3 DEF Hearing
    <3>2. Head(w1_todo) = InitSlots[SlotsDone + 1]
      BY <1>2, <2>3, HeadOps, Zenon DEF W1Inv
    <3>3. CASE SlotsDone \in 2..9
      <4> DEFINE n == SlotsDone - 2
      <4>1. n \in 0..7 /\ SlotsDone = n + 2 /\ n + 1 \in 1..8 /\ SlotsDone + 1 = (n + 1) + 2
        BY <3>3
      <4> HIDE DEF n
      <4>2. probe.mode = "rom" /\ HeardOf(SkipRom, n)
        <5>1. (IF SlotsDone <= 2 THEN 0 ELSE SlotsDone - 2) = n
          BY <4>1
        <5> QED BY <2>1, <2>3, <5>1, <3>3 DEF Hearing
      <4>3. InitSlots[(n + 1) + 2] = Slot("send", Bits(SkipRom)[n + 1])
        BY <4>1, InitSlot
      <4>4. bit = Bits(SkipRom)[n + 1]
        BY <3>1, <3>2, <4>1, <4>3 DEF Slot
      <4>5. probe' = Hears(Bits(SkipRom)[n + 1]) /\ Bits(SkipRom)[n + 1] \in SomeBit
        BY <1>1, <1>5, <3>1, <4>2, <4>4
      <4>6. /\ n < 7 => /\ probe'.mode = "rom" /\ Len(probe'.heard) = n + 1
                        /\ \A i \in 1..(n + 1) : probe'.heard[i] = Bits(SkipRom)[i]
            /\ n = 7 => probe'.mode = "function" /\ Len(probe'.heard) = 0
        <5>1. ProbeFits /\ SkipRom \in {SkipRom, ConvT}
          BY DEF W1Inv
        <5> HIDE DEF bit
        <5> QED BY <4>1, <4>2, <4>5, <5>1, HearsByte
      <4> QED BY <1>2, <1>3, <2>1, <2>3, <3>1, <3>3, <4>1, <4>6 DEF Hearing, HeardOf
    <3>4. CASE SlotsDone \in 12..19
      <4> DEFINE n == SlotsDone - 12
      <4>1. n \in 0..7 /\ SlotsDone = n + 12 /\ n + 1 \in 1..8 /\ SlotsDone + 1 = (n + 1) + 12
        BY <3>4
      <4> HIDE DEF n
      <4>2. probe.mode = "function" /\ HeardOf(ConvT, n)
        <5>1. (IF SlotsDone <= 12 THEN 0 ELSE SlotsDone - 12) = n
          BY <4>1
        <5> QED BY <2>1, <2>3, <5>1, <3>4 DEF Hearing
      <4>3. InitSlots[(n + 1) + 12] = Slot("send", Bits(ConvT)[n + 1])
        BY <4>1, InitSlot
      <4>4. bit = Bits(ConvT)[n + 1]
        BY <3>1, <3>2, <4>1, <4>3 DEF Slot
      <4>5. probe' = Hears(Bits(ConvT)[n + 1]) /\ Bits(ConvT)[n + 1] \in SomeBit
        BY <1>1, <1>5, <3>1, <4>2, <4>4
      <4>6. /\ n < 7 => /\ probe'.mode = "function" /\ Len(probe'.heard) = n + 1
                        /\ \A i \in 1..(n + 1) : probe'.heard[i] = Bits(ConvT)[i]
            /\ n = 7 => probe'.memory = sampled
        <5>1. ProbeFits /\ ConvT \in {SkipRom, ConvT}
          BY DEF W1Inv
        <5> HIDE DEF bit
        <5> QED BY <4>1, <4>2, <4>5, <5>1, HearsByte
      <4> QED BY <1>2, <1>3, <2>1, <2>3, <3>1, <3>4, <4>1, <4>6 DEF Hearing, HeardOf
    <3> QED BY <1>4, <3>3, <3>4
  <2> QED BY <1>3, <2>2, <2>3
<1>11. Told'
  BY <1>2, <1>7 DEF W1Inv, Told, ToldIsSampled, ToldIsOfProbe
<1> QED BY <1>3, <1>8, <1>9, <1>10, <1>11 DEF W1Inv

\* A bit that is read.
LEMMA W1ReadInv == ASSUME W1Inv, ReadSlot PROVE W1Inv'
<1> DEFINE sends == w1_line = "good" /\ probe.mode = "sending"
           level == IF w1_line = "short" THEN 0 ELSE IF sends THEN Bit(probe.memory, probe.next) ELSE 1
<1>1. PICK late \in BOOLEAN :
        /\ IF late THEN level = 0 /\ w1_line = "good" /\ W1Fault ELSE NoW1Fault
        /\ w1_read' = Append(w1_read, IF late THEN 1 ELSE level)
  BY DEF ReadSlot
<1>2. /\ w1_todo # <<>> /\ w1_todo' = Tail(w1_todo) /\ w1_step' = w1_step /\ w1_told' = w1_told
      /\ w1_line' = w1_line /\ sampled' = sampled /\ Head(w1_todo).op = "read" /\ ~w1_out'
      /\ probe' = IF sends THEN [probe EXCEPT !.next = @ + 1] ELSE probe
  BY DEF ReadSlot
<1>3. Program' /\ SlotsDone' = SlotsDone + 1 /\ w1_step = "collect" /\ SlotsDone \in 21..36
  <2>1. /\ Program' /\ SlotsDone' = SlotsDone + 1 /\ SlotsDone >= 21
        /\ w1_step = "collect" /\ SlotsDone \in 0..36
    BY <1>2, HeadOps, Zenon DEF W1Inv
  <2> QED BY <2>1
<1>4. w1_init_faults \in Nat /\ w1_init_faults' = w1_init_faults
  BY <1>1, <1>3 DEF W1Fault, NoW1Fault, W1Inv, LineFits
<1>5. ProbeFits'
  <2>1. /\ probe \in [mode : {"deaf", "rom", "function", "sending"}, heard : Seq(SomeBit),
                      memory : RawTemps \cup {PowerUpTemp}, next : 0..16]
        /\ Len(probe.heard) < 8
        /\ probe.mode = "sending" => probe.next <= SlotsDone - 21
    BY <1>3 DEF W1Inv, ProbeFits
  <2>2. probe.next \in 0..16
    BY <2>1
  <2>3. CASE sends
    <3>1. /\ probe' = [probe EXCEPT !.next = probe.next + 1] /\ probe.next + 1 \in 0..16
          /\ probe.next + 1 <= (IF SlotsDone' <= 21 THEN 0 ELSE SlotsDone' - 21)
      <4>1. probe' = [probe EXCEPT !.next = probe.next + 1]
        BY <1>2, <2>3
      <4>2. probe.next <= SlotsDone - 21 /\ SlotsDone' = SlotsDone + 1 /\ SlotsDone \in 21..36
        BY <1>3, <2>1, <2>3
      <4>3. probe.next + 1 \in 0..16 /\ probe.next + 1 <= (IF SlotsDone' <= 21 THEN 0 ELSE SlotsDone' - 21)
        BY <2>2, <4>2
      <4> QED BY <4>1, <4>3, Zenon
    <3>2. /\ probe' \in [mode : {"deaf", "rom", "function", "sending"}, heard : Seq(SomeBit),
                         memory : RawTemps \cup {PowerUpTemp}, next : 0..16]
          /\ probe'.heard = probe.heard /\ probe'.next = probe.next + 1
      BY <2>1, <3>1
    <3>3. Len(probe'.heard) < 8 /\ probe'.next <= (IF SlotsDone' <= 21 THEN 0 ELSE SlotsDone' - 21)
      BY <2>1, <3>1, <3>2, Zenon
    <3> QED BY <3>2, <3>3, Zenon DEF ProbeFits
  <2>4. CASE ~sends
    <3>1. probe' = probe
      BY <1>2, <2>4
    <3> QED BY <1>3, <2>1, <2>2, <3>1 DEF ProbeFits
  <2> QED BY <2>3, <2>4
<1>6. LineFits'
  <2>1. probe.next \in 0..16 /\ probe.memory \in RawTemps \cup {PowerUpTemp}
    BY DEF W1Inv, ProbeFits
  <2>2. level \in SomeBit /\ 1 \in SomeBit
    <3>1. Bit(probe.memory, probe.next) \in SomeBit /\ 1 \in SomeBit /\ 0 \in SomeBit
      BY <2>1 DEF SomeBit
    <3> QED BY <3>1
  <2> DEFINE read == Len(w1_read)
  <2>3. w1_read \in Seq(SomeBit) /\ read = SlotsDone - 21
    BY <1>3 DEF W1Inv, LineFits
  <2>4. w1_read' \in Seq(SomeBit) /\ Len(w1_read') = read + 1
    <3> DEFINE bit == IF late THEN 1 ELSE level
    <3>1. bit \in SomeBit
      BY <2>2
    <3> HIDE DEF bit, level
    <3> QED BY <1>1, <2>3, <3>1, AppendProperties DEF bit
  <2> HIDE DEF read
  <2>5. Len(w1_read') = SlotsDone - 20
    BY <1>3, <2>3, <2>4
  <2>6. SlotsDone - 20 <= 16 /\ SlotsDone - 20 = (IF SlotsDone' <= 21 THEN 0 ELSE SlotsDone' - 21)
    BY <1>3
  <2>7. Len(w1_read') <= 16 /\ Len(w1_read') = (IF SlotsDone' <= 21 THEN 0 ELSE SlotsDone' - 21)
    BY <2>5, <2>6, Zenon
  <2>8. w1_init_faults' \in Nat
    BY <1>4
  <2> QED BY <1>2, <1>3, <2>4, <2>7, <2>8, Zenon DEF LineFits
<1>7. w1_init_faults' = 0 => Hearing'
  BY <1>2, <1>3, <1>4 DEF W1Inv, Hearing, ProbeFits
<1>8. Told'
  BY <1>2, <1>4 DEF W1Inv, Told, ToldIsSampled, ToldIsOfProbe
<1> QED BY <1>3, <1>5, <1>6, <1>7, <1>8 DEF W1Inv

\* A cable that breaks, is shorted or is mended.
LEMMA W1LineInv == ASSUME W1Inv, W1Line PROVE W1Inv'
<1>1. /\ w1_todo' = w1_todo /\ w1_step' = w1_step /\ w1_told' = w1_told /\ w1_out' = w1_out
      /\ w1_read' = w1_read /\ sampled' = sampled /\ probe' = [probe EXCEPT !.mode = "deaf"]
  BY DEF W1Line
<1>2. Program' /\ SlotsDone' = SlotsDone
  BY <1>1 DEF W1Inv, Program, SlotsDone
<1>3. /\ w1_init_faults' \in Nat /\ (w1_init_faults' = 0 => w1_init_faults = 0)
      /\ w1_line = "good" /\ w1_step = "init" => w1_init_faults' > 0
  BY DEF W1Line, W1Fault, NoW1Fault, W1Inv, LineFits
<1>4. ProbeFits'
  <2>1. /\ probe' \in [mode : {"deaf", "rom", "function", "sending"}, heard : Seq(SomeBit),
                       memory : RawTemps \cup {PowerUpTemp}, next : 0..16]
        /\ probe'.heard = probe.heard /\ probe'.mode = "deaf"
    BY <1>1 DEF W1Inv, ProbeFits
  <2>2. Len(probe'.heard) < 8
    BY <2>1, Zenon DEF W1Inv, ProbeFits
  <2> QED BY <2>1, <2>2 DEF ProbeFits
<1>5. LineFits'
  BY <1>1, <1>2, <1>3, Zenon DEF W1Inv, LineFits
<1>6. w1_init_faults' = 0 => Hearing'
  <2>1. probe'.memory = probe.memory
    BY <1>1 DEF W1Inv, ProbeFits
  <2>2. ASSUME w1_init_faults' = 0 PROVE w1_step = "init" => SlotsDone = 0
    <3>1. Hearing /\ (w1_step = "init" => w1_line # "good")
      BY <1>3, <2>2 DEF W1Inv
    <3>2. w1_step = "init" => SlotsDone \in 0..21 /\ ~(SlotsDone >= 1)
      BY <3>1, ProgramLens DEF Hearing, W1Inv
    <3> QED BY <3>2
  <2> QED BY <1>1, <1>2, <1>3, <2>1, <2>2 DEF W1Inv, Hearing
<1>7. Told'
  BY <1>1, <1>3 DEF W1Inv, Told, ToldIsSampled, ToldIsOfProbe
<1> QED BY <1>2, <1>4, <1>5, <1>6, <1>7 DEF W1Inv

\* A conversion begins.
LEMMA DsInitInv == ASSUME W1Inv, NEW t \in RawTemps, DsInit(t) PROVE W1Inv'
<1>1. /\ w1_step = "idle" /\ w1_step' = "init" /\ sampled' = t /\ w1_todo' = InitSlots
      /\ w1_told' = NoTemp /\ w1_init_faults' = 0 /\ w1_out' = w1_out /\ w1_read' = w1_read
      /\ w1_line' = w1_line /\ probe' = probe
  BY DEF DsInit, InitSlots
<1>2. SlotsDone' = 0
  <2>1. Len(w1_todo') = 21
    BY <1>1, InitSlot
  <2>2. SlotsDone' = 21 - Len(w1_todo')
    BY <1>1 DEF SlotsDone
  <2>3. SlotsDone' = 21 - 21
    BY <2>1, <2>2, Zenon
  <2> QED BY <2>3
<1>3. Program'
  <2>1. \A k \in 1..21 : k + 0 = k
    OBVIOUS
  <2>2. Len(w1_todo') <= 21 /\ \A k \in 1..Len(w1_todo') : w1_todo'[k] = InitSlots[k + SlotsDone']
    <3>1. 21 <= 21 /\ Len(w1_todo') = 21
      BY <1>1, InitSlot
    <3> QED BY <1>1, <1>2, <2>1, <3>1, Zenon
  <2> QED BY <1>1, <2>2, InitSlot, Zenon DEF Program, InitSlots
<1>4. ProbeFits'
  BY <1>1 DEF W1Inv, ProbeFits
<1>5. LineFits'
  BY <1>1, <1>2 DEF W1Inv, LineFits
<1>6. Hearing'
  BY <1>1, <1>2 DEF Hearing
<1>7. Told'
  BY <1>1 DEF Told, ToldIsSampled, ToldIsOfProbe
<1> QED BY <1>3, <1>4, <1>5, <1>6, <1>7 DEF W1Inv

\* Its time passes.
LEMMA DsWaitInv == ASSUME W1Inv, DsWait PROVE W1Inv'
<1>1. /\ w1_step = "init" /\ w1_todo = <<>> /\ w1_step' = "waiting" /\ w1_todo' = w1_todo
      /\ w1_out' = w1_out /\ w1_read' = w1_read /\ w1_line' = w1_line /\ probe' = probe
      /\ sampled' = sampled /\ w1_told' = w1_told /\ w1_init_faults' = w1_init_faults
  BY DEF DsWait, NoW1Fault
<1>2. SlotsDone = 21
  BY <1>1, ProgramLens, Zenon DEF W1Inv
<1>3. Program'
  BY <1>1, Zenon DEF W1Inv, Program
<1>4. ProbeFits' /\ LineFits'
  <2>1. ~w1_out'
    BY <1>1, <1>2 DEF W1Inv, LineFits
  <2> QED BY <1>1, <2>1 DEF W1Inv, ProbeFits, LineFits
<1>5. w1_init_faults' = 0 => Hearing'
  BY <1>1, <1>2 DEF W1Inv, Hearing
<1>6. Told'
  BY <1>1 DEF W1Inv, Told, ToldIsSampled, ToldIsOfProbe
<1> QED BY <1>3, <1>4, <1>5, <1>6 DEF W1Inv

\* Its result is asked for.
LEMMA DsCollectInv == ASSUME W1Inv, DsCollect PROVE W1Inv'
<1>1. /\ w1_step = "waiting" /\ w1_step' = "collect" /\ sampled' = sampled /\ w1_todo' = CollectSlots
      /\ w1_told' = w1_told /\ w1_init_faults' = w1_init_faults /\ w1_out' = w1_out /\ w1_read' = <<>>
      /\ w1_line' = w1_line /\ probe' = probe
  BY DEF DsCollect, CollectSlots, NoW1Fault
<1>2. SlotsDone' = 0
  <2>1. Len(w1_todo') = 37
    BY <1>1, CollectSlot
  <2>2. SlotsDone' = 37 - Len(w1_todo')
    BY <1>1 DEF SlotsDone
  <2>3. SlotsDone' = 37 - 37
    BY <2>1, <2>2, Zenon
  <2> QED BY <2>3
<1>3. Program'
  <2>1. \A k \in 1..37 : k + 0 = k
    OBVIOUS
  <2>2. Len(w1_todo') <= 37 /\ \A k \in 1..Len(w1_todo') : w1_todo'[k] = CollectSlots[k + SlotsDone']
    <3>1. 37 <= 37 /\ Len(w1_todo') = 37
      BY <1>1, CollectSlot
    <3> QED BY <1>1, <1>2, <2>1, <3>1, Zenon
  <2>3. w1_step' \in {"idle", "init", "waiting", "collect"} /\ w1_step' # "init"
        /\ w1_step' \notin {"idle", "waiting"}
    BY <1>1
  <2> QED BY <1>1, <2>2, <2>3, CollectSlot, Zenon DEF Program, CollectSlots
<1>4. ProbeFits'
  BY <1>1, <1>2 DEF W1Inv, ProbeFits
<1>5. LineFits'
  <2>1. w1_read' \in Seq(SomeBit) /\ Len(w1_read') = 0
    BY <1>1, EmptySeq
  <2> QED BY <1>1, <1>2, <2>1 DEF W1Inv, LineFits
<1>6. w1_init_faults' = 0 => Hearing'
  BY <1>1 DEF W1Inv, Hearing
<1>7. Told'
  BY <1>1 DEF W1Inv, Told, ToldIsSampled, ToldIsOfProbe
<1> QED BY <1>3, <1>4, <1>5, <1>6, <1>7 DEF W1Inv

\* The result is there.
LEMMA DsGotInv == ASSUME W1Inv, DsGot PROVE W1Inv'
<1> DEFINE value == ValueOf(w1_read)
<1>1. /\ w1_step = "collect" /\ w1_todo = <<>> /\ w1_step' = "idle" /\ w1_todo' = w1_todo
      /\ w1_out' = w1_out /\ w1_read' = w1_read /\ w1_line' = w1_line /\ probe' = probe
      /\ sampled' = sampled /\ w1_init_faults' = w1_init_faults
      /\ w1_told' = IF Checked(value) THEN Sixteenths(value) ELSE NoTemp
  BY DEF DsGot, NoW1Fault
<1> HIDE DEF value
<1>2. SlotsDone = 37
  BY <1>1, ProgramLens, Zenon DEF W1Inv
<1>3. Program'
  BY <1>1, Zenon DEF W1Inv, Program
<1>4. ProbeFits' /\ LineFits'
  <2>1. ~w1_out'
    BY <1>1, <1>2 DEF W1Inv, LineFits
  <2> QED BY <1>1, <2>1 DEF W1Inv, ProbeFits, LineFits
<1>5. w1_init_faults' = 0 => Hearing'
  BY <1>1 DEF Hearing
<1>6. w1_told' # NoTemp => w1_told' = Signed(probe.memory) /\ probe.memory \in RawTemps \cup {PowerUpTemp}
  <2> DEFINE t == probe.memory
  <2>1. t \in RawTemps \cup {PowerUpTemp}
    BY DEF W1Inv, ProbeFits
  <2>2. w1_told' # NoTemp => value = t /\ w1_told' = Sixteenths(value)
    BY <1>1, Zenon DEF Checked
  <2> HIDE DEF t
  <2>3. t \in 1..Word
    <3>1. PowerUpTemp \in 1..Word
      BY DEF PowerUpTemp, Word
    <3> QED BY <2>1, <3>1, OneWireAssumption
  <2>4. Sixteenths(t) = Signed(t)
    BY <2>3, TypedSixteenths
  <2> QED BY <2>1, <2>2, <2>4, Zenon DEF t
<1>7. Told'
  <2>1. w1_init_faults' = 0 => probe.memory = sampled
    BY <1>1 DEF W1Inv, Hearing
  <2> QED BY <1>1, <1>6, <2>1 DEF Told, ToldIsSampled, ToldIsOfProbe
<1> QED BY <1>3, <1>4, <1>5, <1>6, <1>7 DEF W1Inv

\* Every step of the line and the probe keeps it.
LEMMA W1NextInv == ASSUME W1Inv, [W1Next]_w1Vars PROVE W1Inv'
<1>1. CASE UNCHANGED w1Vars
  <2>1. SlotsDone' = SlotsDone
    BY <1>1 DEF w1Vars, SlotsDone
  <2>2. Program'
    BY <1>1, <2>1 DEF w1Vars, W1Inv, Program
  <2>3. ProbeFits' /\ LineFits'
    BY <1>1, <2>1, Zenon DEF w1Vars, W1Inv, ProbeFits, LineFits
  <2>4. w1_init_faults' = 0 => Hearing'
    BY <1>1, <2>1, Zenon DEF w1Vars, W1Inv, Hearing, HeardOf
  <2>5. Told'
    BY <1>1, Zenon DEF w1Vars, W1Inv, Told, ToldIsSampled, ToldIsOfProbe
  <2> QED BY <2>2, <2>3, <2>4, <2>5 DEF W1Inv
<1> QED
  BY <1>1, W1ResetInv, W1TurnInv, W1SendInv, W1ReadInv, W1LineInv, DsInitInv, DsWaitInv, DsCollectInv, DsGotInv
  DEF W1Next

\* Its types are those of the variables.
LEMMA W1TypesAre == W1Inv => W1TypeOK
<1> SUFFICES ASSUME W1Inv PROVE W1TypeOK
  OBVIOUS
<1> DEFINE left == Len(w1_todo)
<1>1. left <= 37
  <2>1. left = 0 \/ left <= 21 \/ left <= 37
    BY ProgramLens DEF W1Inv, Program
  <2>2. left \in Nat
    BY ProgramLens DEF W1Inv
  <2> HIDE DEF left
  <2> QED BY <2>1, <2>2
<1>2. probe.next \in 0..16
  BY DEF W1Inv, ProbeFits
<1> QED BY <1>1, <1>2, Zenon DEF W1TypeOK, W1Inv, Program, LineFits, ProbeFits

\* For any temperatures, interrupts and breaks of the cable, a temperature told
\* is one the probe held, to its sign and sixteenths, and without a fault in
\* the command to convert that of this sample.
THEOREM W1ProbeIsTold == W1Spec => [](W1TypeOK /\ ProbeIsTold)
<1>1. W1Init => W1Inv
  BY W1InitInv
<1>2. W1Inv /\ [W1Next]_w1Vars => W1Inv'
  BY W1NextInv
<1>3. W1Inv => W1TypeOK
  BY W1TypesAre
<1>4. W1Inv => ProbeIsTold
  BY DEF W1Inv, Told, ProbeIsTold
<1> QED BY <1>1, <1>2, <1>3, <1>4, PTL DEF W1Spec

-----------------------------------------------------------------------------
(* Sampling: in an interval in which no read of the chip fails and nothing *)
(* is changed, each sample is begun and collected at its time.             *)

\* When the k-th sample of an interval is begun, and when it is collected.
Begins(c, k) == k * (SampleInterval \div c) + (SampleInterval \div c) \div 2 - CollectionTime
Ends(c, k) == k * (SampleInterval \div c) + (SampleInterval \div c) \div 2

\* What the times must be like: the sensor has three ticks to be read, one to a
\* pause and one that a pass may be late (MEASUREMENT_COLLECTION_MS is 150, the
\* pause 50), and no sample of the next interval is begun before this one is sent.
Timely == /\ CollectionTime >= 3
          /\ \A c \in SampleCount : Begins(c, c) > SampleInterval

Quiet == sensor_faults = 0 /\ ~hindered

\* The data of a measurement with k samples, and while the next is begun.
Rested(k) == [init |-> k, collected |-> k, samples |-> k, repeats |-> 0, collecting |-> FALSE]
Collecting(k) == [Rested(k) EXCEPT !.collecting = TRUE]
Begun(k) == [init |-> k + 1, collected |-> k, samples |-> k, repeats |-> 0, collecting |-> TRUE]

Data(t, h) == ndata = [n \in HtuName |-> IF n = "T" THEN t ELSE h]
Stage(h, flags, t, u) == /\ h \in HtuState /\ h.flags = flags
                         /\ h.state["T"] = t /\ h.state["H"] = u
HasRead(h, n) == n \in h.valid /\ n \in h.new

Left == wait_time - since_check
Loose == at \in {<<"command", "T">>, <<"top", "T">>}
Before == Loose \/ at \in {<<"send", "T">>, <<"iterate", "T">>}
After == at \in {<<"iterate", "H">>, <<"end", "T">>}

\* Nothing is underway, and the next pass that samples comes in time.
Waits(c, k) ==
  /\ since_sent \in 0..(SampleInterval + 1)
  /\ wait_time \in 0..(Never - 1) /\ since_check \in 0..(wait_time + 1)
  /\ since_sent + Left <= Begins(c, k)
  /\ k > 0 => since_sent >= Ends(c, 0)
  /\ k = c => IF since_sent > SampleInterval THEN Left >= 0
              ELSE since_sent + Left > SampleInterval
RestInv(c, k) ==
  /\ Data(Rested(k), Rested(k)) /\ Stage(htu, {}, "idle", "idle")
  /\ reading2 = NotReading /\ Waits(c, k)
  /\ Before \/ (After /\ since_sent <= SampleInterval)
  /\ at = <<"iterate", "T">> => since_sent <= SampleInterval
  /\ ~Loose => Left >= 0

BegunInv(c, k) ==
  /\ k < c /\ Data(Begun(k), Begun(k)) /\ reading2 = NotReading
  /\ since_sent \in Nat /\ wait_time \in 0..SampleInterval /\ since_check \in 0..(wait_time + 1)
  /\ since_sent + Left = Ends(c, k)
  /\ ~Loose => Left >= 0
  /\ \/ /\ Stage(htu, HtuName, "req", "idle") /\ Left >= 2
        /\ After \/ at \in {<<"send", "T">>, <<"iterate", "T">>}
     \/ /\ Stage(htu, HtuName, "ripe", "idle") /\ Left >= 1 /\ Before
     \/ /\ Stage(htu, HtuName, "idle", "req") /\ Left >= 1 /\ After
        /\ HasRead(htu, "T")
     \/ /\ Stage(htu, HtuName, "idle", "ripe") /\ Left >= 0 /\ Before
        /\ HasRead(htu, "T")
     \/ /\ Stage(htu, HtuName, "idle", "idle") /\ (Before \/ After)
        /\ HasRead(htu, "T") /\ HasRead(htu, "H")

ReadInv(c, k) ==
  LET n == reading2.name
      d(m) == IF m = n THEN Collecting(k) ELSE Rested(k)
  IN  /\ n \in HtuName /\ Data(d("T"), d("H")) /\ Waits(c, k) /\ at = <<"top", "T">>
      /\ \/ /\ reading2.left = CollectionTime /\ Stage(htu, {n}, "req", "idle")
         \/ /\ reading2.left = CollectionTime - 1 /\ Stage(htu, {n}, "ripe", "idle") /\ Left >= 0
         \/ /\ reading2.left = CollectionTime - 2 /\ Stage(htu, {n}, "idle", "ripe") /\ Left >= 0
            /\ n = "H" /\ "T" \in htu.valid

SampleTInv(c, k) ==
  /\ at = <<"sample", "T">> /\ since_check = 0 /\ wait_time = Never /\ reading2 = NotReading
  /\ \/ /\ Data(Rested(k), Rested(k)) /\ Stage(htu, {}, "idle", "idle")
        /\ since_sent \in 0..(Begins(c, k) + 1)
        /\ k > 0 => since_sent >= Ends(c, 0)
        /\ k = c => since_sent <= SampleInterval
     \/ /\ k < c /\ Data(Begun(k), Begun(k)) /\ Stage(htu, HtuName, "idle", "idle")
        /\ HasRead(htu, "T") /\ HasRead(htu, "H")
        /\ since_sent = Ends(c, k) + 1

SampleHInv(c, k) ==
  /\ at = <<"sample", "H">> /\ since_check = 0 /\ reading2 = NotReading
  /\ \/ /\ Data(Rested(k), Rested(k)) /\ Stage(htu, {}, "idle", "idle")
        /\ since_sent \in 0..(Begins(c, k) - 1) /\ wait_time = Begins(c, k) - since_sent
        /\ k > 0 => since_sent >= Ends(c, 0)
        /\ k = c => since_sent <= SampleInterval
     \/ /\ k < c /\ Data(Begun(k), Rested(k)) /\ Stage(htu, {"T"}, "req", "idle")
        /\ since_sent \in Begins(c, k)..(Begins(c, k) + 1)
        /\ wait_time = Ends(c, k) - since_sent
     \/ /\ k < c /\ Data(Rested(k + 1), Begun(k)) /\ Stage(htu, {"H"}, "idle", "idle")
        /\ HasRead(htu, "H")
        /\ since_sent = Ends(c, k) + 1
        /\ wait_time = Begins(c, k + 1) - since_sent

Reported(c) == \A n \in HtuName :
                 report[n].repeats = 0 /\ (report[n] # NoData => report[n].samples = c)

QuietInv(c, k) ==
  /\ c \in SampleCount /\ k \in 0..c
  /\ sdef = [n \in HtuName |-> [interval |-> 1, samplecount |-> c]]
  /\ Reported(c)
  /\ RestInv(c, k) \/ BegunInv(c, k) \/ ReadInv(c, k) \/ SampleTInv(c, k) \/ SampleHInv(c, k)

SamplingInv ==
  /\ sensor_faults \in Nat
  /\ Quiet => \E c \in SampleCount : \E k \in 0..c : QuietInv(c, k)

-----------------------------------------------------------------------------
(* The sensor, an operation at a time.                                     *)

LEMMA HtuBegins ==
  ASSUME NEW h, NEW n \in HtuName, Stage(h, {}, "idle", "idle")
  PROVE  HtuInit(h, n).resp = "SUCCESS" /\ Stage(HtuInit(h, n).htu, {n}, "req", "idle")
BY DEF Stage, HtuInit, HtuState, HtuName, Is, Req

\* The humidity waits for the temperature that was requested.
LEMMA HtuJoins ==
  ASSUME NEW h, Stage(h, {"T"}, "req", "idle")
  PROVE  HtuInit(h, "H").resp = "SUCCESS" /\ Stage(HtuInit(h, "H").htu, HtuName, "req", "idle")
BY DEF Stage, HtuInit, HtuState, HtuName, Is, Req

LEMMA HtuGives ==
  ASSUME NEW h, NEW n \in HtuName, NEW F, Stage(h, F, "idle", "idle"), n \in F, HasRead(h, n)
  PROVE  LET g == HtuGet(h, n)
         IN  /\ g.resp = "SUCCESS" /\ Stage(g.htu, F \ {n}, "idle", "idle")
             /\ \A m \in HtuName \ {n} : HasRead(h, m) => HasRead(g.htu, m)
BY DEF Stage, HtuGet, HtuState, HtuName, Is, HasRead

LEMMA HtuTakesDown ==
  ASSUME NEW h, NEW n \in HtuName, Stage(h, {n}, "idle", "idle")
  PROVE  Stage(HtuGet(h, n).htu, {}, "idle", "idle")
BY DEF Stage, HtuGet, HtuState, HtuName, Is

LEMMA HtuPauses ==
  ASSUME NEW h, NEW F, NEW t, NEW u, Stage(h, F, t, u)
  PROVE  /\ Stage(Pause(h), F, IF t = "req" THEN "ripe" ELSE t, IF u = "req" THEN "ripe" ELSE u)
         /\ Pause(h).valid = h.valid /\ Pause(h).new = h.new
BY DEF Stage, Pause, HtuState, HtuName

\* An iteration with nothing to read.
LEMMA HtuIdles ==
  ASSUME NEW h, NEW n \in HtuName, NEW F, NEW t, NEW u, Stage(h, F, t, u), t # "ripe", u # "ripe"
  PROVE  HtuIterate(h, n, TRUE) = Is(h, "BUSY")
BY DEF Stage, HtuIterate, CollectHumi, Is

\* The temperature is read, and the humidity is wanted.
LEMMA HtuReadsTemp ==
  ASSUME NEW h, NEW n \in HtuName, NEW F, Stage(h, F, "ripe", "idle"), F \in {HtuName, {"H"}}
  PROVE  LET g == HtuIterate(h, n, TRUE)
         IN  g.resp = "BUSY" /\ Stage(g.htu, F, "idle", "req") /\ HasRead(g.htu, "T")
BY DEF Stage, HtuIterate, CollectHumi, Is, Read, Req, HtuState, HtuName, HasRead

LEMMA HtuReadsOnlyTemp ==
  ASSUME NEW h, Stage(h, {"T"}, "ripe", "idle")
  PROVE  LET g == HtuIterate(h, "T", TRUE)
         IN  g.resp = "SUCCESS" /\ Stage(g.htu, {"T"}, "idle", "idle")
BY DEF Stage, HtuIterate, CollectHumi, Is, Read, Req, HtuState, HtuName

LEMMA HtuReadsHumi ==
  ASSUME NEW h, NEW n \in HtuName, NEW F, Stage(h, F, "idle", "ripe"), F \in {HtuName, {"H"}},
         "T" \in h.valid
  PROVE  LET g == HtuIterate(h, n, TRUE)
         IN  /\ g.resp = "SUCCESS" /\ Stage(g.htu, F, "idle", "idle")
             /\ F = HtuName => HasRead(g.htu, "H") /\ (HasRead(h, "T") => HasRead(g.htu, "T"))
BY DEF Stage, HtuIterate, CollectHumi, Is, Read, HtuState, HtuName, HasRead

-----------------------------------------------------------------------------
(* The times of an interval.                                               *)

LEMMA Schedule ==
  ASSUME Timely, NEW c \in SampleCount, NEW k \in 0..c
  PROVE  /\ c \in Nat /\ k \in Nat /\ SampleInterval \in Nat /\ CollectionTime \in Nat
         /\ CollectionTime >= 3 /\ c >= 1
         /\ Begins(c, k) \in Nat /\ Ends(c, k) \in Nat
         /\ Ends(c, k) = Begins(c, k) + CollectionTime
         /\ Ends(c, 0) <= Ends(c, k)
         /\ k < c => /\ Begins(c, k + 1) = Ends(c, k) + (SampleInterval \div c) - CollectionTime
                     /\ Begins(c, k + 1) >= Ends(c, k) + CollectionTime
                     /\ Begins(c, k + 1) \in Nat /\ Begins(c, k + 1) - Ends(c, k) <= SampleInterval
                     /\ Ends(c, k) < SampleInterval
         /\ Begins(c, c) > SampleInterval
         /\ Begins(c, c) <= SampleInterval + Begins(c, 0)
         /\ Begins(c, c) - Ends(c, 0) <= SampleInterval
<1> DEFINE E == SampleInterval \div c
<1>1. /\ c \in Nat /\ c >= 1 /\ k \in Nat /\ k <= c /\ SampleInterval \in Nat
      /\ CollectionTime \in Nat /\ CollectionTime >= 3 /\ CollectionTime <= E \div 2
      /\ Begins(c, c) > SampleInterval
  BY SamplerAssumption DEF Timely
<1>2. E \in Nat /\ c * E <= SampleInterval
  BY <1>1
<1>3. E \div 2 \in Nat /\ 2 * (E \div 2) <= E /\ E <= 2 * (E \div 2) + 1
  BY <1>2
<1>4. k * E \in Nat /\ k * E <= c * E /\ 0 * E = 0
  BY <1>1, <1>2
<1>5. k < c => (k + 1) * E = k * E + E /\ (k + 1) * E <= c * E
  <2>1. SUFFICES ASSUME k < c PROVE (k + 1) * E = k * E + E /\ (k + 1) * E <= c * E
    OBVIOUS
  <2>2. (k + 1) * E = k * E + E
    BY <1>1, <1>2
  <2>3. PICK d \in Nat : c = (k + 1) + d
    BY <2>1, <1>1
  <2>4. c * E = (k + 1) * E + d * E /\ d * E \in Nat
    BY <2>3, <1>1, <1>2
  <2>5. QED
    BY <2>2, <2>4, <1>1, <1>2, <1>4
<1>6. /\ Begins(c, k) = k * E + E \div 2 - CollectionTime /\ Ends(c, k) = k * E + E \div 2
      /\ Begins(c, k + 1) = (k + 1) * E + E \div 2 - CollectionTime
      /\ Begins(c, c) = c * E + E \div 2 - CollectionTime
      /\ Begins(c, 0) = 0 * E + E \div 2 - CollectionTime
      /\ Ends(c, 0) = 0 * E + E \div 2
  BY DEF Begins, Ends
<1> DEFINE ke == k * E
           ke1 == (k + 1) * E
           ce == c * E
           z == 0 * E
           h == E \div 2
<1> HIDE DEF ke, ke1, ce, z, h, E
<1>7. /\ E \in Nat /\ ce <= SampleInterval /\ h \in Nat /\ 2 * h <= E /\ E <= 2 * h + 1
      /\ ke \in Nat /\ ke <= ce /\ z = 0 /\ CollectionTime <= h
      /\ k < c => ke1 = ke + E /\ ke1 <= ce
      /\ Begins(c, k) = ke + h - CollectionTime /\ Ends(c, k) = ke + h
      /\ Begins(c, k + 1) = ke1 + h - CollectionTime
      /\ Begins(c, c) = ce + h - CollectionTime
      /\ Begins(c, 0) = z + h - CollectionTime /\ Ends(c, 0) = z + h
  BY <1>1, <1>2, <1>3, <1>4, <1>5, <1>6 DEF ke, ke1, ce, z, h
<1>8. ce \in Nat
  BY <1>1, <1>2 DEF ce
<1>9. QED
  BY <1>1, <1>7, <1>8 DEF E

\* No sample is more than an interval away.
LEMMA BeginsSoon ==
  ASSUME Timely, NEW c \in SampleCount, NEW k \in 0..c
  PROVE  IF k = 0 THEN Begins(c, k) <= SampleInterval
         ELSE Begins(c, k) <= SampleInterval + Ends(c, 0) /\ Ends(c, 0) \in Nat
<1>1. 0 \in 0..c /\ c \in 0..c
  BY Schedule
<1>2. CASE k = c
  BY <1>1, <1>2, Schedule
<1>3. CASE k # c
  <2>1. Ends(c, 0) \in Nat
    BY <1>1, Schedule
  <2>2. c \in Nat /\ k < c
    <3>1. c \in Nat /\ k \in Nat /\ k <= c
      BY Schedule
    <3>2. QED
      BY <3>1, <1>3
  <2>3. /\ Ends(c, k) < SampleInterval /\ Begins(c, k) \in Nat /\ Ends(c, k) = Begins(c, k) + CollectionTime
        /\ CollectionTime \in Nat /\ SampleInterval \in Nat
    BY <2>2, Schedule
  <2>4. QED
    BY <2>1, <2>3
<1>4. QED
  BY <1>2, <1>3

LEMMA TimesAre ==
  ASSUME NEW c \in SampleCount, NEW n \in HtuName, NEW d,
         sdef = [m \in HtuName |-> [interval |-> 1, samplecount |-> c]]
  PROVE  /\ TimeInit(n, d) = Begins(c, d.init) /\ TimeCollect(n, d) = Ends(c, d.collected)
         /\ Every(n) = SampleInterval \div c /\ IsActive(n)
<1>1. sdef[n].samplecount = c /\ sdef[n].interval = 1 /\ c > 0
  BY SamplerAssumption
<1>2. QED
  BY <1>1 DEF TimeInit, TimeCollect, Begins, Ends, Every, IsActive
-----------------------------------------------------------------------------
(* The steps of an interval in which nothing is changed and nothing fails.  *)

LEMMA PassBeginsKeeps ==
  ASSUME Timely, NEW c \in SampleCount, NEW k \in 0..c, QuietInv(c, k), PassBegins
  PROVE  QuietInv(c, k)'
<1>1. /\ at \in {<<"command", "T">>, <<"top", "T">>} /\ reading2.left = -1
      /\ UNCHANGED <<sdef, ndata, since_sent, htu, reading2, report>>
      /\ \/ /\ since_check > wait_time /\ at' = <<"sample", "T">> /\ since_check' = 0 /\ wait_time' = Never
         \/ /\ ~(since_check > wait_time) /\ at' = <<"send", "T">> /\ UNCHANGED <<since_check, wait_time>>
  BY DEF PassBegins, history
<1>2. k \in Nat /\ Begins(c, k) \in Nat /\ SampleInterval \in Nat /\ CollectionTime >= 3 /\ CollectionTime \in Nat
  BY Schedule
<1>3. CASE RestInv(c, k)
  <2> USE <1>1, <1>2, <1>3 DEF RestInv, Waits, Left, Loose, Before, After
  <2>1. CASE since_check > wait_time
    <3>1. SampleTInv(c, k)'
      BY <2>1 DEF SampleTInv, Data, Stage, Never
    <3>2. QED
      BY <3>1 DEF QuietInv, Reported
  <2>2. CASE ~(since_check > wait_time)
    <3>1. RestInv(c, k)'
      BY <2>2 DEF Data, Stage
    <3>2. QED
      BY <3>1 DEF QuietInv, Reported
  <2>3. QED
    BY <2>1, <2>2
<1>4. CASE BegunInv(c, k)
  <2> USE <1>1, <1>2, <1>4 DEF BegunInv, Left, Loose, Before, After
  <2>1. CASE since_check > wait_time
    <3>1. SampleTInv(c, k)'
      BY <2>1 DEF SampleTInv, Data, Stage, HasRead
    <3>2. QED
      BY <3>1 DEF QuietInv, Reported
  <2>2. CASE ~(since_check > wait_time)
    <3>1. BegunInv(c, k)'
      BY <2>2 DEF Data, Stage, HasRead
    <3>2. QED
      BY <3>1 DEF QuietInv, Reported
  <2>3. QED
    BY <2>1, <2>2
<1>5. ~ReadInv(c, k)
  BY <1>1, <1>2 DEF ReadInv
<1>6. ~SampleTInv(c, k) /\ ~SampleHInv(c, k)
  BY <1>1 DEF SampleTInv, SampleHInv
<1>7. QED
  BY <1>3, <1>4, <1>5, <1>6 DEF QuietInv

\* What a slot has to do in a pass that samples: nothing, begin or collect.

\* The data of a measurement that is begun, and of one that is collected.
LEMMA DataBegins ==
  ASSUME NEW k, NEW r, r = Rested(k), NEW s, s = [r EXCEPT !.init = @ + 1, !.collecting = TRUE]
  PROVE  s = Begun(k)
BY DEF Rested, Begun

LEMMA DataSent ==
  ASSUME NEW k, NEW r, r = Rested(k), NEW s, s = Sent(r)
  PROVE  s = Rested(0)
BY DEF Sent, Rested

LEMMA DataTaken ==
  ASSUME NEW k, NEW l, l = k + 1,
         NEW s, s = [init |-> l, collected |-> l, samples |-> k, repeats |-> 0, collecting |-> FALSE],
         NEW t, t = TakenIn(s, FALSE)
  PROVE  t = Rested(l)
<1>1. s.samples + 1 = l /\ s.repeats + (IF FALSE THEN 1 ELSE 0) = 0
  OBVIOUS
<1>2. t = [s EXCEPT !.samples = l, !.repeats = 0]
  BY <1>1, Zenon DEF TakenIn
<1>3. QED
  BY <1>2 DEF Rested

LEMMA DataGot ==
  ASSUME NEW k, NEW r, r = Begun(k), NEW s, s = [r EXCEPT !.collecting = FALSE, !.collected = @ + 1]
  PROVE  TakenIn(s, FALSE) = Rested(k + 1)
<1>1. s = [init |-> k + 1, collected |-> k + 1, samples |-> k, repeats |-> 0, collecting |-> FALSE]
  BY DEF Begun
<1>2. QED
  BY <1>1, DataTaken, Zenon

\* What a slot is at in a pass that samples: before its next sample, ...
LEMMA SlotWaits ==
  ASSUME NEW c \in SampleCount, NEW k, NEW n \in HtuName, SampleSlot(n),
         sdef = [m \in HtuName |-> [interval |-> 1, samplecount |-> c]],
         ndata[n] = Rested(k),
         since_sent \in Int, Begins(c, k) \in Int, Ends(c, k) \in Int,
         since_sent < Begins(c, k), since_sent < Ends(c, k)
  PROVE  /\ ndata' = [ndata EXCEPT ![n] = @] /\ htu' = htu
         /\ wait_time' = Least(wait_time, Least(Delta(Begins(c, k), since_sent), Delta(Ends(c, k), since_sent)))
<1>1. TimeInit(n, ndata[n]) = Begins(c, k) /\ TimeCollect(n, ndata[n]) = Ends(c, k)
  BY TimesAre DEF Rested
<1>2. ~(since_sent >= Begins(c, k)) /\ ~(since_sent >= Ends(c, k)) /\ Begins(c, k) + 0 = Begins(c, k)
  OBVIOUS
<1>3. QED
  BY <1>1, <1>2 DEF SampleSlot

\* ... at its time to begin, ...
LEMMA SlotBegins ==
  ASSUME NEW c \in SampleCount, NEW k \in Nat, NEW n \in HtuName, SampleSlot(n),
         sdef = [m \in HtuName |-> [interval |-> 1, samplecount |-> c]],
         ndata[n] = Rested(k), HtuInit(htu, n).resp = "SUCCESS",
         since_sent \in Int, Begins(c, k) \in Int, Ends(c, k) \in Int, Begins(c, k) <= since_sent, since_sent < Ends(c, k)
  PROVE  /\ ndata' = [ndata EXCEPT ![n] = Begun(k)] /\ htu' = HtuInit(htu, n).htu
         /\ wait_time' = Least(wait_time, Least(Delta(Begins(c, k) + CollectionTime, since_sent), Delta(Ends(c, k), since_sent)))
<1>1. TimeInit(n, ndata[n]) = Begins(c, k) /\ TimeCollect(n, ndata[n]) = Ends(c, k)
  BY TimesAre DEF Rested
<1>2. since_sent >= Begins(c, k) /\ ~(since_sent >= Ends(c, k))
  OBVIOUS
<1>3. /\ SampleInit(n, Missed(ndata[n])).data = Begun(k) /\ ~SampleInit(n, Missed(ndata[n])).busy
      /\ SampleInit(n, Missed(ndata[n])).htu = HtuInit(htu, n).htu
  <2>1. Missed(ndata[n]) = Rested(k)
    BY DEF Missed, Rested
  <2>2. ~Rested(k).collecting
    BY DEF Rested
  <2>3. [Rested(k) EXCEPT !.init = @ + 1, !.collecting = TRUE] = Begun(k)
    BY DataBegins
  <2>4. QED
    BY <2>1, <2>2, <2>3 DEF SampleInit
<1>4. QED
  BY <1>1, <1>2, <1>3 DEF SampleSlot

\* ... or at its time to collect.
LEMMA SlotCollects ==
  ASSUME NEW c \in SampleCount, NEW k \in Nat, NEW n \in HtuName, SampleSlot(n),
         sdef = [m \in HtuName |-> [interval |-> 1, samplecount |-> c]],
         ndata[n] = Begun(k), n \in htu.new, HtuGet(htu, n).resp = "SUCCESS",
         since_sent \in Int, Begins(c, k + 1) \in Int, Ends(c, k) \in Int,
         since_sent < Begins(c, k + 1), Ends(c, k) <= since_sent
  PROVE  /\ ndata' = [ndata EXCEPT ![n] = Rested(k + 1)] /\ htu' = HtuGet(htu, n).htu
         /\ wait_time' = Least(wait_time, Least(Delta(Begins(c, k + 1), since_sent),
                           Delta(Ends(c, k) + (SampleInterval \div c), CollectionTime + since_sent)))
<1>1. /\ TimeInit(n, ndata[n]) = Begins(c, k + 1) /\ TimeCollect(n, ndata[n]) = Ends(c, k)
      /\ Every(n) = SampleInterval \div c
  BY TimesAre DEF Begun
<1>2. ~(since_sent >= Begins(c, k + 1)) /\ since_sent >= Ends(c, k) /\ Begins(c, k + 1) + 0 = Begins(c, k + 1)
  OBVIOUS
<1>3. Got(ndata[n], "SUCCESS", FALSE) = Rested(k + 1)
  BY DataGot DEF Got
<1>4. QED
  BY <1>1, <1>2, <1>3 DEF SampleSlot

\* A pass that samples: nothing, both begin, or both are collected.
LEMMA SampleTKeeps ==
  ASSUME Timely, NEW c \in SampleCount, NEW k \in 0..c, QuietInv(c, k), SampleSlot("T")
  PROVE  QuietInv(c, k)'
<1>1. /\ at = <<"sample", "T">> /\ at' = <<"sample", "H">>
      /\ UNCHANGED <<sdef, since_sent, since_check, reading2, report>>
  BY DEF SampleSlot, history
<1>2. SampleTInv(c, k)
  BY <1>1 DEF QuietInv, RestInv, BegunInv, ReadInv, SampleHInv, Before, After, Loose
<1>3. since_check' = 0 /\ reading2' = NotReading /\ wait_time = Never /\ "T" \in HtuName /\ "H" \in HtuName
  BY <1>1, <1>2 DEF SampleTInv, HtuName
<1>4. SUFFICES SampleHInv(c, k)'
  BY <1>1 DEF QuietInv, Reported
<1> DEFINE b == Begins(c, k)
           e == Ends(c, k)
           b1 == Begins(c, k + 1)
<1>5. /\ b \in Nat /\ e = b + CollectionTime /\ CollectionTime \in Nat /\ CollectionTime >= 3
      /\ SampleInterval \in Nat /\ k \in Nat /\ c \in Nat
      /\ k > 0 => b <= SampleInterval + Ends(c, 0) /\ Ends(c, 0) \in Nat
      /\ k = 0 => b <= SampleInterval
      /\ k = c => b > SampleInterval
      /\ k < c => /\ b1 = e + (SampleInterval \div c) - CollectionTime /\ b1 \in Nat /\ b1 >= e + CollectionTime
                  /\ b1 - e <= SampleInterval /\ e < SampleInterval
  BY Schedule, BeginsSoon
<1>6. sdef = [m \in HtuName |-> [interval |-> 1, samplecount |-> c]]
  BY DEF QuietInv
<1>7. CASE /\ Data(Rested(k), Rested(k)) /\ Stage(htu, {}, "idle", "idle")
           /\ since_sent \in 0..(b + 1)
           /\ k > 0 => since_sent >= Ends(c, 0)
           /\ k = c => since_sent <= SampleInterval
  <2>1. ndata["T"] = Rested(k) /\ ndata["H"] = Rested(k)
    BY <1>7, <1>3 DEF Data
  <2>2. CASE since_sent < b
    <3>1. /\ ndata' = [ndata EXCEPT !["T"] = @] /\ htu' = htu
          /\ wait_time' = Least(wait_time, Least(Delta(b, since_sent), Delta(e, since_sent)))
      BY <1>3, <1>5, <1>6, <1>7, <2>1, <2>2, SlotWaits
    <3>2. ndata' = ndata
      BY <3>1, <1>7 DEF Data
    <3>3. wait_time' = b - since_sent
      BY <3>1, <1>3, <1>5, <1>7, <2>2 DEF Least, Delta, Never
    <3>4. QED
      BY <1>1, <1>3, <1>5, <1>7, <2>2, <3>1, <3>2, <3>3 DEF SampleHInv, Data, Stage
  <2>3. CASE since_sent >= b
    <3>1. k < c
      BY <1>5, <1>7, <2>3
    <3>2. HtuInit(htu, "T").resp = "SUCCESS" /\ Stage(HtuInit(htu, "T").htu, {"T"}, "req", "idle")
      BY <1>3, <1>7, HtuBegins
    <3>3. /\ ndata' = [ndata EXCEPT !["T"] = Begun(k)] /\ htu' = HtuInit(htu, "T").htu
          /\ wait_time' = Least(wait_time, Least(Delta(b + CollectionTime, since_sent), Delta(e, since_sent)))
      BY <1>3, <1>5, <1>6, <1>7, <2>1, <2>3, <3>2, SlotBegins
    <3>4. Data(Begun(k), Rested(k))'
      BY <3>3, <1>7 DEF Data, Begun, Rested
    <3>5. wait_time' = e - since_sent
      BY <3>1, <3>3, <1>3, <1>5, <1>7, <2>3 DEF Least, Delta, Never
    <3>6. Stage(htu, {"T"}, "req", "idle")'
      BY <3>2, <3>3 DEF Stage
    <3>7. QED
      BY <1>1, <1>3, <1>5, <1>7, <2>3, <3>1, <3>4, <3>5, <3>6 DEF SampleHInv
  <2>4. QED
    BY <2>2, <2>3, <1>5, <1>7
<1>8. CASE /\ k < c /\ Data(Begun(k), Begun(k)) /\ Stage(htu, HtuName, "idle", "idle")
           /\ HasRead(htu, "T") /\ HasRead(htu, "H")
           /\ since_sent = e + 1
  <2>1. ndata["T"] = Begun(k) /\ ndata["H"] = Begun(k)
    BY <1>8, <1>3 DEF Data
  <2>2. /\ HtuGet(htu, "T").resp = "SUCCESS" /\ HasRead(HtuGet(htu, "T").htu, "H")
        /\ Stage(HtuGet(htu, "T").htu, HtuName \ {"T"}, "idle", "idle")
    BY <1>3, <1>8, HtuGives
  <2>3. HtuName \ {"T"} = {"H"}
    BY DEF HtuName
  <2>4. "T" \in htu.new
    BY <1>8 DEF HasRead
  <2>5. /\ ndata' = [ndata EXCEPT !["T"] = Rested(k + 1)] /\ htu' = HtuGet(htu, "T").htu
        /\ wait_time' = Least(wait_time, Least(Delta(b1, since_sent),
                           Delta(e + (SampleInterval \div c), CollectionTime + since_sent)))
    BY <1>3, <1>5, <1>6, <1>8, <2>1, <2>2, <2>4, SlotCollects
  <2>6. Data(Rested(k + 1), Begun(k))'
    BY <2>5, <1>8 DEF Data, Begun, Rested
  <2>7. wait_time' = b1 - since_sent
    BY <2>5, <1>3, <1>5, <1>8 DEF Least, Delta, Never
  <2>8. Stage(htu, {"H"}, "idle", "idle")' /\ HasRead(htu, "H")'
    BY <2>2, <2>3, <2>5 DEF Stage, HasRead
  <2>9. QED
    BY <1>1, <1>3, <1>5, <1>8, <2>6, <2>7, <2>8 DEF SampleHInv
<1>9. QED
  BY <1>2, <1>7, <1>8 DEF SampleTInv

LEMMA DataLevels ==
  ASSUME NEW t, NEW h, Data(t, h), NEW x, x = t, ndata' = [ndata EXCEPT !["H"] = t]
  PROVE  ndata' = [n \in HtuName |-> IF n = "T" THEN t ELSE x]
BY DEF Data, HtuName

LEMMA SampleHKeeps ==
  ASSUME Timely, NEW c \in SampleCount, NEW k \in 0..c, QuietInv(c, k), SampleSlot("H")
  PROVE  \E l \in 0..c : QuietInv(c, l)'
<1>1. /\ at = <<"sample", "H">> /\ at' = <<"send", "T">>
      /\ UNCHANGED <<sdef, since_sent, since_check, reading2, report>>
  BY DEF SampleSlot, history
<1>2. SampleHInv(c, k)
  BY <1>1 DEF QuietInv, RestInv, BegunInv, ReadInv, SampleTInv, Before, After, Loose
<1>3. since_check' = 0 /\ reading2' = NotReading /\ "T" \in HtuName /\ "H" \in HtuName /\ "T" # "H"
  BY <1>1, <1>2 DEF SampleHInv, HtuName
<1>4. ASSUME NEW l \in 0..c, RestInv(c, l)' \/ BegunInv(c, l)'
      PROVE  \E m \in 0..c : QuietInv(c, m)'
  BY <1>1, <1>4 DEF QuietInv, Reported
<1> DEFINE b == Begins(c, k)
           e == Ends(c, k)
           b1 == Begins(c, k + 1)
<1>5. /\ b \in Nat /\ e = b + CollectionTime /\ CollectionTime \in Nat /\ CollectionTime >= 3
      /\ SampleInterval \in Nat /\ k \in Nat /\ c \in Nat /\ k <= c
      /\ k > 0 => b <= SampleInterval + Ends(c, 0) /\ Ends(c, 0) \in Nat
      /\ k = 0 => b <= SampleInterval
      /\ k = c => b > SampleInterval
      /\ k < c => /\ b1 = e + (SampleInterval \div c) - CollectionTime /\ b1 \in Nat /\ b1 >= e + CollectionTime
                  /\ b1 - e <= SampleInterval /\ e < SampleInterval /\ Ends(c, 0) <= e
  BY Schedule, BeginsSoon
<1>6. sdef = [m \in HtuName |-> [interval |-> 1, samplecount |-> c]]
  BY DEF QuietInv
<1>7. CASE /\ Data(Rested(k), Rested(k)) /\ Stage(htu, {}, "idle", "idle")
           /\ since_sent \in 0..(b - 1) /\ wait_time = b - since_sent
           /\ k > 0 => since_sent >= Ends(c, 0)
           /\ k = c => since_sent <= SampleInterval
  <2>1. ndata["T"] = Rested(k) /\ ndata["H"] = Rested(k)
    BY <1>7, <1>3 DEF Data
  <2>2. /\ ndata' = [ndata EXCEPT !["H"] = @] /\ htu' = htu
        /\ wait_time' = Least(wait_time, Least(Delta(b, since_sent), Delta(e, since_sent)))
    BY <1>3, <1>5, <1>6, <1>7, <2>1, SlotWaits
  <2>3. ndata' = ndata
    BY <2>2, <1>7 DEF Data
  <2>4. wait_time' = b - since_sent
    BY <2>2, <1>3, <1>5, <1>7 DEF Least, Delta, Never
  <2>5. RestInv(c, k)'
    BY <1>1, <1>3, <1>5, <1>7, <2>2, <2>3, <2>4
       DEF RestInv, Waits, Left, Loose, Before, After, Data, Stage, Never
  <2>6. QED
    BY <2>5, <1>4
<1>8. CASE /\ k < c /\ Data(Begun(k), Rested(k)) /\ Stage(htu, {"T"}, "req", "idle")
           /\ since_sent \in b..(b + 1)
           /\ wait_time = e - since_sent
  <2>1. ndata["H"] = Rested(k)
    BY <1>8, <1>3 DEF Data
  <2>2. HtuInit(htu, "H").resp = "SUCCESS" /\ Stage(HtuInit(htu, "H").htu, HtuName, "req", "idle")
    BY <1>8, HtuJoins
  <2>3. /\ ndata' = [ndata EXCEPT !["H"] = Begun(k)] /\ htu' = HtuInit(htu, "H").htu
        /\ wait_time' = Least(wait_time, Least(Delta(b + CollectionTime, since_sent), Delta(e, since_sent)))
    BY <1>3, <1>5, <1>6, <1>8, <2>1, <2>2, SlotBegins
  <2>4. Data(Begun(k), Begun(k))'
    <3>1. ndata' = [n \in HtuName |-> IF n = "T" THEN Begun(k) ELSE Begun(k)]
      BY <2>3, <1>8, DataLevels
    <3>2. QED
      BY <3>1 DEF Data, Begun, Rested
  <2>5. wait_time' = e - since_sent
    BY <2>3, <1>3, <1>5, <1>8 DEF Least, Delta, Never
  <2>6. Stage(htu, HtuName, "req", "idle")'
    BY <2>2, <2>3 DEF Stage
  <2>7. BegunInv(c, k)'
    BY <1>1, <1>3, <1>5, <1>8, <2>4, <2>5, <2>6 DEF BegunInv, Left, Loose, Before, After
  <2>8. QED
    BY <2>7, <1>4
<1>9. CASE /\ k < c /\ Data(Rested(k + 1), Begun(k)) /\ Stage(htu, {"H"}, "idle", "idle")
           /\ HasRead(htu, "H")
           /\ since_sent = e + 1
           /\ wait_time = b1 - since_sent
  <2>1. ndata["H"] = Begun(k)
    BY <1>9, <1>3 DEF Data
  <2>2. /\ HtuGet(htu, "H").resp = "SUCCESS" /\ "H" \in htu.new
        /\ Stage(HtuGet(htu, "H").htu, {"H"} \ {"H"}, "idle", "idle")
    BY <1>3, <1>9, HtuGives DEF HasRead
  <2>3. /\ ndata' = [ndata EXCEPT !["H"] = Rested(k + 1)] /\ htu' = HtuGet(htu, "H").htu
        /\ wait_time' = Least(wait_time, Least(Delta(b1, since_sent),
                           Delta(e + (SampleInterval \div c), CollectionTime + since_sent)))
    BY <1>3, <1>5, <1>6, <1>9, <2>1, <2>2, SlotCollects
  <2>4. Data(Rested(k + 1), Rested(k + 1))'
    <3>1. ndata' = [n \in HtuName |-> IF n = "T" THEN Rested(k + 1) ELSE Rested(k + 1)]
      BY <2>3, <1>9, DataLevels, ZenonT(20)
    <3>2. QED
      BY <3>1 DEF Data, Begun, Rested
  <2>5. wait_time' = b1 - since_sent
    BY <2>3, <1>3, <1>5, <1>9 DEF Least, Delta, Never
  <2>6. Stage(htu, {}, "idle", "idle")'
    BY <2>2, <2>3 DEF Stage
  <2>7. k + 1 \in 0..c /\ k + 1 > 0 /\ (k + 1 = c => b1 > SampleInterval)
    <3>1. Begins(c, c) > SampleInterval
      BY Schedule
    <3>2. QED
      BY <1>5, <1>9, <3>1
  <2>8. Waits(c, k + 1)'
    BY <1>1, <1>3, <1>5, <1>9, <2>5, <2>7 DEF Waits, Left, Never
  <2>9. RestInv(c, k + 1)'
    BY <1>1, <1>3, <1>5, <1>9, <2>4, <2>5, <2>6, <2>8 DEF RestInv, Left, Loose, Before, After
  <2>10. QED
    BY <2>7, <2>9, <1>4
<1>10. QED
  BY <1>2, <1>7, <1>8, <1>9 DEF SampleHInv

LEMMA SkipSlotIsNot ==
  ASSUME NEW c \in SampleCount, NEW k, QuietInv(c, k), NEW n \in HtuName
  PROVE  ~SkipSlot(n)
BY TimesAre DEF QuietInv, SkipSlot

\* When the interval is over all its samples were taken.
LEMMA SendKeeps ==
  ASSUME Timely, NEW c \in SampleCount, NEW k \in 0..c, QuietInv(c, k), SendAtInterval
  PROVE  \E l \in 0..c : QuietInv(c, l)'
<1>1. /\ at = <<"send", "T">> /\ at' = <<"iterate", "T">>
      /\ UNCHANGED <<sdef, since_check, wait_time, htu, reading2>>
      /\ IF since_sent > SampleInterval
         THEN /\ since_sent' = 0
              /\ report' = [n \in HtuName |-> IF IsActive(n) THEN ndata[n] ELSE NoData]
              /\ ndata' = [n \in HtuName |-> IF IsActive(n) THEN Sent(ndata[n]) ELSE ndata[n]]
         ELSE UNCHANGED <<since_sent, report, ndata>>
  BY DEF SendAtInterval
<1>2. RestInv(c, k) \/ BegunInv(c, k)
  BY <1>1 DEF QuietInv, ReadInv, SampleTInv, SampleHInv
<1>3. /\ k \in Nat /\ c \in Nat /\ k <= c /\ c >= 1 /\ SampleInterval \in Nat /\ 0 \in 0..c
      /\ Begins(c, k) \in Nat /\ Ends(c, k) \in Nat
      /\ k < c => Ends(c, k) < SampleInterval /\ Begins(c, k) <= Ends(c, k)
      /\ Begins(c, c) <= SampleInterval + Begins(c, 0) /\ Begins(c, 0) \in Int
  <2>1. 0 \in 0..c
    BY Schedule
  <2>2. Begins(c, 0) \in Nat
    BY <2>1, Schedule
  <2>3. QED
    BY <2>1, <2>2, Schedule
<1>4. CASE since_sent > SampleInterval
  <2>1. k = c /\ RestInv(c, k)
    <3>1. ~BegunInv(c, k)
      BY <1>1, <1>3, <1>4 DEF BegunInv, Loose, Left
    <3>2. QED
      BY <1>1, <1>2, <1>3, <1>4, <3>1 DEF RestInv, Waits, Loose, Left
  <2>2. \A n \in HtuName : ndata[n] = Rested(k) /\ IsActive(n)
    BY <2>1, TimesAre DEF RestInv, Data, QuietInv
  <2>3. Sent(Rested(k)) = Rested(0)
    BY DataSent
  <2>4. ndata' = [n \in HtuName |-> Rested(0)] /\ report' = [n \in HtuName |-> Rested(k)]
    BY <1>1, <1>4, <2>2, <2>3
  <2>5. Data(Rested(0), Rested(0))'
    BY <2>4 DEF Data, Rested
  <2>6. Reported(c)'
    BY <2>4, <2>1 DEF Reported, Rested
  <2>7. Waits(c, 0)'
    BY <1>1, <1>3, <1>4, <2>1 DEF RestInv, Waits, Left, Loose, Never
  <2>8. RestInv(c, 0)'
    BY <1>1, <1>3, <1>4, <2>1, <2>5, <2>7 DEF RestInv, Left, Loose, Before, After, Stage
  <2>9. QED
    BY <1>1, <1>3, <2>6, <2>8 DEF QuietInv
<1>5. CASE ~(since_sent > SampleInterval)
  <2>1. UNCHANGED <<since_sent, report, ndata>>
    BY <1>1, <1>5
  <2>2. CASE RestInv(c, k)
    <3>1. RestInv(c, k)'
      BY <1>1, <1>3, <1>5, <2>1, <2>2 DEF RestInv, Waits, Left, Loose, Before, After, Stage, Data
    <3>2. QED
      BY <1>1, <2>1, <3>1 DEF QuietInv, Reported
  <2>3. CASE BegunInv(c, k)
    <3>1. BegunInv(c, k)'
      BY <1>1, <1>3, <1>5, <2>1, <2>3 DEF BegunInv, Left, Loose, Before, After, Stage, Data, HasRead
    <3>2. QED
      BY <1>1, <2>1, <3>1 DEF QuietInv, Reported
  <2>4. QED
    BY <1>2, <2>2, <2>3
<1>6. QED
  BY <1>4, <1>5

\* An iteration reads what is ripe, and reads both before they are due.
LEMMA IterateKeeps ==
  ASSUME Timely, NEW c \in SampleCount, NEW k \in 0..c, QuietInv(c, k), Quiet, Quiet', NEW n \in HtuName, IterateSlot(n)
  PROVE  QuietInv(c, k)'
<1>1. /\ at = <<"iterate", n>> /\ at' = IF n = "T" THEN <<"iterate", "H">> ELSE <<"end", "T">>
      /\ UNCHANGED <<sdef, since_sent, since_check, wait_time, reading2, report>>
  BY DEF IterateSlot
<1>2. RestInv(c, k) \/ BegunInv(c, k)
  BY <1>1 DEF QuietInv, ReadInv, SampleTInv, SampleHInv
<1>3. k \in Nat /\ c \in Nat /\ SampleInterval \in Nat /\ n \in {"T", "H"}
  BY Schedule DEF HtuName
<1>4. CASE RestInv(c, k)
  <2>1. ~Owed(n)
    BY <1>3, <1>4 DEF RestInv, Data, Rested, Owed
  <2>2. htu' = htu /\ ndata' = ndata
    BY <2>1 DEF IterateSlot
  <2>3. RestInv(c, k)'
    BY <1>1, <1>3, <1>4, <2>2 DEF RestInv, Waits, Left, Loose, Before, After, Stage, Data
  <2>4. QED
    BY <1>1, <2>3 DEF QuietInv, Reported
<1>5. CASE BegunInv(c, k)
  <2>1. Owed(n) /\ ndata[n] = Begun(k)
    BY <1>3, <1>5 DEF BegunInv, Data, Begun, Owed
  <2>2. PICK ok \in BOOLEAN : /\ Chip(n, ok) /\ htu' = HtuIterate(htu, n, ok).htu
                              /\ ndata' = [ndata EXCEPT ![n] = AfterIteration(@, HtuIterate(htu, n, ok).resp)]
    BY <2>1 DEF IterateSlot
  <2>3. ok
    BY <2>2 DEF Chip, Quiet
  <2> DEFINE g == HtuIterate(htu, n, TRUE)
  <2>4. htu' = g.htu /\ ndata' = [ndata EXCEPT ![n] = AfterIteration(@, g.resp)]
    BY <2>2, <2>3
  <2>5. ASSUME g.resp # "ERROR" PROVE ndata' = ndata
    BY <2>4, <2>5, <2>1, <1>5 DEF AfterIteration, BegunInv, Data
  <2>6. ASSUME BegunInv(c, k)' PROVE QuietInv(c, k)'
    BY <1>1, <2>6 DEF QuietInv, Reported
  <2> HIDE DEF g
  <2>7. ~Loose /\ Left >= 0 /\ reading2 = NotReading
    BY <1>1, <1>5 DEF BegunInv, Loose
  <2>8. ASSUME Stage(htu, HtuName, "ripe", "idle"), Left >= 1, Before PROVE BegunInv(c, k)'
    <3>1. g.resp = "BUSY" /\ Stage(g.htu, HtuName, "idle", "req") /\ HasRead(g.htu, "T")
      BY <2>8, HtuReadsTemp DEF g
    <3>2. n = "T"
      BY <1>1, <2>8 DEF Before, Loose
    <3>3. QED
      BY <1>1, <1>5, <2>4, <2>5, <2>7, <2>8, <3>1, <3>2 DEF BegunInv, Left, Loose, After, Stage, HasRead, Data
  <2>9. ASSUME Stage(htu, HtuName, "idle", "ripe"), Before, HasRead(htu, "T") PROVE BegunInv(c, k)'
    <3>1. g.resp = "SUCCESS" /\ Stage(g.htu, HtuName, "idle", "idle") /\ HasRead(g.htu, "T") /\ HasRead(g.htu, "H")
      BY <2>9, HtuReadsHumi DEF g, HasRead
    <3>2. n = "T"
      BY <1>1, <2>9 DEF Before, Loose
    <3>3. QED
      BY <1>1, <1>5, <2>4, <2>5, <2>7, <2>9, <3>1, <3>2 DEF BegunInv, Left, Loose, After, Before, Stage, HasRead, Data
  <2>10. ASSUME NEW t \in {"req", "idle"}, NEW u \in {"req", "idle"}, Stage(htu, HtuName, t, u)
         PROVE  htu' = htu /\ ndata' = ndata
    <3>1. g = Is(htu, "BUSY")
      BY <2>10, HtuIdles DEF g
    <3>2. g.htu = htu /\ g.resp = "BUSY"
      BY <3>1 DEF Is
    <3>3. QED
      BY <2>4, <2>5, <3>2
  <2>11. ASSUME Stage(htu, HtuName, "req", "idle"), Left >= 2 PROVE BegunInv(c, k)'
    BY <1>1, <1>3, <1>5, <2>7, <2>10, <2>11 DEF BegunInv, Left, Loose, After, Before, Stage, Data
  <2>12. ASSUME Stage(htu, HtuName, "idle", "req"), Left >= 1, After, HasRead(htu, "T") PROVE BegunInv(c, k)'
    BY <1>1, <1>3, <1>5, <2>7, <2>10, <2>12 DEF BegunInv, Left, Loose, After, Before, Stage, Data, HasRead
  <2>13. ASSUME Stage(htu, HtuName, "idle", "idle"), HasRead(htu, "T"), HasRead(htu, "H") PROVE BegunInv(c, k)'
    BY <1>1, <1>3, <1>5, <2>7, <2>10, <2>13 DEF BegunInv, Left, Loose, After, Before, Stage, Data, HasRead
  <2>14. QED
    BY <1>5, <2>6, <2>8, <2>9, <2>11, <2>12, <2>13 DEF BegunInv
<1>6. QED
  BY <1>2, <1>4, <1>5

\* Time passes, a tick while something is underway, else until the next sample or send.
LEMMA TickKeeps ==
  ASSUME Timely, NEW c \in SampleCount, NEW k \in 0..c, QuietInv(c, k), SamplerTick
  PROVE  QuietInv(c, k)'
<1>1. /\ at = <<"end", "T">> /\ at' = <<"command", "T">>
      /\ UNCHANGED <<sdef, ndata, wait_time, reading2, report>>
      /\ \/ Elapse(1)
         \/ /\ \A n \in HtuName : ~Owed(n)
            /\ since_check < wait_time /\ since_sent < SampleInterval
            /\ SleepTime > 1 /\ Elapse(SleepTime - 1)
  BY DEF SamplerTick, history
<1>2. RestInv(c, k) \/ BegunInv(c, k)
  BY <1>1 DEF QuietInv, ReadInv, SampleTInv, SampleHInv
<1>3. /\ k \in Nat /\ c \in Nat /\ SampleInterval \in Nat /\ Begins(c, k) \in Nat
      /\ k < c => Ends(c, k) < SampleInterval
      /\ k = c => Begins(c, k) > SampleInterval
  BY Schedule
<1>4. htu' = Pause(htu)
  BY <1>1 DEF Elapse
<1>5. CASE RestInv(c, k)
  <2>1. /\ since_sent \in 0..SampleInterval /\ wait_time \in 0..(Never - 1) /\ since_check \in 0..wait_time
        /\ Never = SampleInterval + 2
    BY <1>1, <1>3, <1>5 DEF RestInv, Waits, Loose, Before, After, Left, Never
  <2>2. PICK t \in Nat : /\ t = 1 \/ (t < wait_time - since_check /\ t < SampleInterval - since_sent)
                         /\ Elapse(t)
    <3>1. CASE Elapse(1)
      BY <3>1
    <3>2. CASE ~Elapse(1)
      <4>1. since_check < wait_time /\ since_sent < SampleInterval /\ SleepTime > 1 /\ Elapse(SleepTime - 1)
        BY <1>1, <3>2
      <4>2. SleepTime \in Nat /\ SleepTime <= wait_time - since_check /\ SleepTime <= SampleInterval - since_sent
        BY <2>1, <4>1, <1>3 DEF SleepTime, Least, Delta, Never
      <4>3. SleepTime - 1 \in Nat /\ SleepTime - 1 < wait_time - since_check /\ SleepTime - 1 < SampleInterval - since_sent
        BY <4>1, <4>2, <2>1, <1>3
      <4>4. QED
        BY <4>1, <4>3
    <3>3. QED
      BY <3>1, <3>2
  <2>3. since_sent' = since_sent + t /\ since_check' = since_check + t
    BY <1>3, <2>1, <2>2 DEF Elapse, Least
  <2>4. Stage(htu, {}, "idle", "idle")'
    <3>1. Stage(htu, {}, "idle", "idle")
      BY <1>5 DEF RestInv
    <3>2. Stage(Pause(htu), {}, "idle", "idle")
      BY <3>1, HtuPauses
    <3>3. QED
      BY <3>2, <1>4 DEF Stage
  <2>5. Waits(c, k)'
    <3>1. k > 0 => Ends(c, 0) \in Nat
      BY <1>3, BeginsSoon
    <3>2. QED
      BY <1>1, <1>3, <1>5, <2>1, <2>2, <2>3, <3>1 DEF RestInv, Waits, Left, Loose, Never
  <2>6. RestInv(c, k)'
    BY <1>1, <1>5, <2>4, <2>5 DEF RestInv, Before, After, Loose, Data
  <2>7. QED
    BY <1>1, <2>6 DEF QuietInv, Reported
<1>6. CASE BegunInv(c, k)
  <2>1. Elapse(1)
    <3>1. Owed("T") /\ "T" \in HtuName
      BY <1>3, <1>6 DEF BegunInv, Data, Begun, Owed, HtuName
    <3>2. QED
      BY <1>1, <3>1
  <2>2. /\ since_sent \in 0..SampleInterval /\ wait_time \in 0..SampleInterval /\ since_check \in 0..wait_time
        /\ since_sent + (wait_time - since_check) = Ends(c, k) /\ k < c
    BY <1>1, <1>3, <1>6 DEF BegunInv, Loose, Left
  <2>3. since_sent' = since_sent + 1 /\ since_check' = since_check + 1
    BY <1>3, <2>1, <2>2 DEF Elapse, Least, Never
  <2>4. since_sent' \in Nat /\ (since_sent + Left)' = Ends(c, k) /\ since_check' \in 0..(wait_time' + 1)
        /\ Left' = Left - 1 /\ Left \in Nat
    BY <1>1, <2>2, <2>3 DEF Left
  <2>5. ASSUME NEW t, NEW u, Stage(htu, HtuName, t, u)
        PROVE  /\ Stage(htu, HtuName, IF t = "req" THEN "ripe" ELSE t, IF u = "req" THEN "ripe" ELSE u)'
               /\ \A n \in HtuName : HasRead(htu, n) => HasRead(htu, n)'
    <3>1. /\ Stage(Pause(htu), HtuName, IF t = "req" THEN "ripe" ELSE t, IF u = "req" THEN "ripe" ELSE u)
          /\ Pause(htu).valid = htu.valid /\ Pause(htu).new = htu.new
      BY <2>5, HtuPauses
    <3>2. QED
      BY <3>1, <1>4 DEF Stage, HasRead
  <2> DEFINE Unmoved == /\ k < c /\ Data(Begun(k), Begun(k))' /\ reading2' = NotReading
                     /\ wait_time' \in 0..SampleInterval /\ at' = <<"command", "T">>
  <2>6. Unmoved
    BY <1>1, <1>6 DEF BegunInv, Data, Begun
  <2>7. "T" \in HtuName /\ "H" \in HtuName /\ ~Before /\ Loose' /\ Before'
    BY <1>1 DEF HtuName, Before, Loose
  <2>8. CASE Stage(htu, HtuName, "req", "idle") /\ Left >= 2
    <3>1. Stage(htu, HtuName, "ripe", "idle")' /\ Left' >= 1
      BY <2>4, <2>5, <2>8
    <3>2. BegunInv(c, k)'
      BY <2>4, <2>6, <2>7, <3>1 DEF BegunInv
    <3>3. QED
      BY <1>1, <3>2 DEF QuietInv, Reported
  <2>9. CASE Stage(htu, HtuName, "idle", "req") /\ Left >= 1 /\ HasRead(htu, "T")
    <3>1. Stage(htu, HtuName, "idle", "ripe")' /\ Left' >= 0 /\ HasRead(htu, "T")'
      BY <2>4, <2>5, <2>7, <2>9
    <3>2. BegunInv(c, k)'
      BY <2>4, <2>6, <2>7, <3>1 DEF BegunInv
    <3>3. QED
      BY <1>1, <3>2 DEF QuietInv, Reported
  <2>10. CASE Stage(htu, HtuName, "idle", "idle") /\ HasRead(htu, "T") /\ HasRead(htu, "H")
    <3>1. Stage(htu, HtuName, "idle", "idle")' /\ HasRead(htu, "T")' /\ HasRead(htu, "H")'
      BY <2>4, <2>5, <2>7, <2>10
    <3>2. BegunInv(c, k)'
      BY <2>4, <2>6, <2>7, <3>1 DEF BegunInv
    <3>3. QED
      BY <1>1, <3>2 DEF QuietInv, Reported
  <2>11. QED
    BY <1>6, <2>7, <2>8, <2>9, <2>10 DEF BegunInv
<1>7. QED
  BY <1>2, <1>5, <1>6

\* A command begins to read a measurement: only while nothing is underway.
LEMMA GetReadingKeeps ==
  ASSUME Timely, NEW c \in SampleCount, NEW k \in 0..c, QuietInv(c, k), NEW n \in HtuName, GetReading(n)
  PROVE  QuietInv(c, k)'
<1>1. /\ at = <<"command", "T">> /\ at' = <<"top", "T">> /\ ~ndata[n].collecting
      /\ UNCHANGED <<sdef, since_sent, since_check, wait_time, report>>
  BY DEF GetReading, MeasCommand
<1>2. RestInv(c, k)
  <2>1. ~BegunInv(c, k)
    BY <1>1 DEF BegunInv, Data, Begun, HtuName
  <2>2. QED
    BY <1>1, <2>1 DEF QuietInv, ReadInv, SampleTInv, SampleHInv
<1>3. HtuInit(htu, n).resp = "SUCCESS" /\ Stage(HtuInit(htu, n).htu, {n}, "req", "idle")
  BY <1>2, HtuBegins DEF RestInv
<1>4. /\ htu' = HtuInit(htu, n).htu /\ reading2' = [name |-> n, left |-> CollectionTime]
      /\ ndata' = [ndata EXCEPT ![n].collecting = TRUE]
  BY <1>3 DEF GetReading
<1>5. \A m \in HtuName : ndata[m] = Rested(k)
  BY <1>2 DEF RestInv, Data
<1>6. ndata' = [m \in HtuName |-> IF m = n THEN Collecting(k) ELSE Rested(k)]
  BY <1>2, <1>4, <1>5 DEF RestInv, Data, Collecting
<1>7. reading2.name' = n /\ reading2.left' = CollectionTime
  BY <1>4
<1>8. Data(IF "T" = n THEN Collecting(k) ELSE Rested(k), IF "H" = n THEN Collecting(k) ELSE Rested(k))'
  BY <1>6 DEF Data, Collecting, Rested, HtuName
<1>9. Waits(c, k)' /\ Stage(htu, {n}, "req", "idle")'
  BY <1>1, <1>2, <1>3, <1>4 DEF RestInv, Waits, Left, Stage
<1>10. ReadInv(c, k)'
  BY <1>1, <1>7, <1>8, <1>9 DEF ReadInv, Collecting, Rested
<1>11. QED
  BY <1>1, <1>10 DEF QuietInv, Reported

\* It is over before the next pass that samples, or holds it up.

\* It is over before the next pass that samples, or holds it up.
LEMMA ReadingKeeps ==
  ASSUME Timely, NEW c \in SampleCount, NEW k \in 0..c, QuietInv(c, k), Quiet, Quiet', ReadingStep
  PROVE  QuietInv(c, k)'
<1> DEFINE n == reading2.name
           g == HtuIterate(htu, n, TRUE)
           over == g.resp = "SUCCESS" \/ reading2.left = 0
<1>1. reading2.left >= 0 /\ UNCHANGED <<sdef, wait_time, at, report>>
  BY DEF ReadingStep
<1>2. PICK ok \in BOOLEAN :
        LET tried == HtuIterate(htu, n, ok)
            done == tried.resp = "SUCCESS" \/ reading2.left = 0
        IN  /\ Chip(n, ok)
            /\ htu' = CASE tried.resp = "SUCCESS" -> HtuGet(tried.htu, n).htu
                        [] done /\ tried.resp # "SUCCESS" -> tried.htu
                        [] ~done -> Pause(tried.htu)
            /\ reading2' = IF done THEN NotReading ELSE [reading2 EXCEPT !.left = @ - 1]
            /\ ndata' = [ndata EXCEPT ![n].collecting = ~done]
            /\ since_sent' = IF done THEN since_sent ELSE Least(since_sent + 1, SampleInterval + 1)
            /\ since_check' = IF done THEN since_check ELSE Least(since_check + 1, Never)
            /\ hindered' = (hindered \/ (~done /\ since_check' > wait_time))
  BY DEF ReadingStep
<1>3. ok
  BY <1>2 DEF Chip, Quiet
<1>4. /\ htu' = CASE g.resp = "SUCCESS" -> HtuGet(g.htu, n).htu
                  [] over /\ g.resp # "SUCCESS" -> g.htu
                  [] ~over -> Pause(g.htu)
      /\ reading2' = IF over THEN NotReading ELSE [reading2 EXCEPT !.left = @ - 1]
      /\ ndata' = [ndata EXCEPT ![n].collecting = ~over]
      /\ since_sent' = IF over THEN since_sent ELSE Least(since_sent + 1, SampleInterval + 1)
      /\ since_check' = IF over THEN since_check ELSE Least(since_check + 1, Never)
      /\ hindered' = (hindered \/ (~over /\ since_check' > wait_time))
  BY <1>2, <1>3
<1>5. ReadInv(c, k)
  <2>1. reading2 # NotReading
    BY <1>1 DEF NotReading
  <2>2. QED
    BY <2>1 DEF QuietInv, RestInv, BegunInv, SampleTInv, SampleHInv
<1> HIDE DEF g
<1>6. /\ CollectionTime \in Nat /\ CollectionTime >= 3 /\ SampleInterval \in Nat
      /\ Begins(c, k) \in Nat /\ (k = c => Begins(c, k) > SampleInterval)
      /\ k > 0 => Ends(c, 0) \in Nat
  BY Schedule, BeginsSoon
<1>7. n \in HtuName /\ Waits(c, k) /\ at = <<"top", "T">>
  BY <1>5 DEF ReadInv
<1>8. /\ \A m \in HtuName : ndata[m] = IF m = n THEN Collecting(k) ELSE Rested(k)
      /\ ndata = [m \in HtuName |-> ndata[m]]
  BY <1>5, <1>7 DEF ReadInv, Data, HtuName
<1>9. ASSUME g.resp # "SUCCESS", reading2.left \in Nat \ {0}
      PROVE  /\ htu' = Pause(g.htu) /\ reading2'.name = n /\ reading2'.left = reading2.left - 1
             /\ Data(IF "T" = n THEN Collecting(k) ELSE Rested(k), IF "H" = n THEN Collecting(k) ELSE Rested(k))'
             /\ Waits(c, k)' /\ Left' >= 0
  <2>1. ~over
    BY <1>9
  <2>2. htu' = Pause(g.htu) /\ reading2' = [reading2 EXCEPT !.left = @ - 1] /\ ndata' = [ndata EXCEPT ![n].collecting = TRUE]
    BY <1>4, <2>1, <1>9
  <2>3. ndata' = ndata
    BY <2>2, <1>7, <1>8 DEF Collecting
  <2>4. since_check' <= wait_time /\ since_check' = Least(since_check + 1, Never) /\ since_sent' = Least(since_sent + 1, SampleInterval + 1)
    <3>1. ~(since_check' > wait_time)
      BY <1>4, <2>1, Zenon DEF Quiet
    <3>2. since_check' = Least(since_check + 1, Never) /\ since_sent' = Least(since_sent + 1, SampleInterval + 1)
      BY <1>4, <2>1, Zenon
    <3>3. QED
      BY <3>1, <3>2, <1>6, <1>7 DEF Least, Never, Waits
  <2>5. since_check' = since_check + 1
    BY <2>4, <1>6, <1>7 DEF Least, Never, Waits
  <2>6. Waits(c, k)' /\ Left' >= 0
    BY <1>1, <1>6, <1>7, <2>4, <2>5 DEF Waits, Left, Least, Never
  <2>7. Data(IF "T" = n THEN Collecting(k) ELSE Rested(k), IF "H" = n THEN Collecting(k) ELSE Rested(k))'
    <3>1. reading2'.name = n
      BY <2>2, <1>9
    <3>2. ndata = [m \in HtuName |-> IF m = "T" THEN IF "T" = n THEN Collecting(k) ELSE Rested(k)
                                     ELSE IF "H" = n THEN Collecting(k) ELSE Rested(k)]
      BY <1>5 DEF ReadInv, Data
    <3>3. QED
      BY <2>3, <3>1, <3>2 DEF Data, Collecting, Rested
  <2>8. QED
    BY <2>2, <2>6, <2>7 DEF ReadInv
<1>10. ASSUME g.resp = "SUCCESS", Stage(g.htu, {n}, "idle", "idle"), Left >= 0
       PROVE  RestInv(c, k)'
  <2>1. over
    BY <1>10
  <2>2. /\ htu' = HtuGet(g.htu, n).htu /\ reading2' = NotReading /\ ndata' = [ndata EXCEPT ![n].collecting = FALSE]
        /\ since_sent' = since_sent /\ since_check' = since_check
    BY <1>4, <1>10, <2>1
  <2>3. Stage(htu, {}, "idle", "idle")'
    BY <1>7, <1>10, <2>2, HtuTakesDown DEF Stage
  <2>4. Data(Rested(k), Rested(k))'
    <3>1. \A m \in HtuName : ndata'[m] = Rested(k)
      BY <2>2, <1>7, <1>8 DEF Collecting, Rested
    <3>2. ndata' = [m \in HtuName |-> ndata'[m]]
      BY <2>2, <1>8
    <3>3. QED
      BY <3>1, <3>2 DEF Data, Rested
  <2>5. QED
    BY <1>1, <1>7, <2>2, <2>3, <2>4 DEF RestInv, Waits, Before, Loose, Left
<1>11. ASSUME RestInv(c, k)' \/ ReadInv(c, k)' PROVE QuietInv(c, k)'
  BY <1>1, <1>11 DEF QuietInv, Reported
<1>12. CASE reading2.left = CollectionTime /\ Stage(htu, {n}, "req", "idle")
  <2>1. g = Is(htu, "BUSY")
    BY <1>7, <1>12, HtuIdles DEF g
  <2>2. g.resp = "BUSY" /\ g.htu = htu
    BY <2>1 DEF Is
  <2>3. Stage(Pause(htu), {n}, "ripe", "idle")
    BY <1>12, HtuPauses
  <2>4. Stage(htu, {n}, "ripe", "idle")' /\ reading2'.left = CollectionTime - 1 /\ reading2'.name = n
    BY <1>6, <1>9, <1>12, <2>2, <2>3 DEF Stage
  <2>5. ReadInv(c, k)'
    BY <1>1, <1>6, <1>7, <1>9, <1>12, <2>2, <2>4 DEF ReadInv, Collecting, Rested
  <2>6. QED
    BY <2>5, <1>11
<1>13. CASE reading2.left = CollectionTime - 1 /\ Stage(htu, {n}, "ripe", "idle") /\ Left >= 0
  <2>1. CASE n = "T"
    <3>1. g.resp = "SUCCESS" /\ Stage(g.htu, {n}, "idle", "idle")
      BY <1>13, <2>1, HtuReadsOnlyTemp DEF g
    <3>2. QED
      BY <3>1, <1>10, <1>11, <1>13
  <2>2. CASE n = "H"
    <3>1. g.resp = "BUSY" /\ Stage(g.htu, {n}, "idle", "req") /\ "T" \in g.htu.valid
      BY <1>7, <1>13, <2>2, HtuReadsTemp DEF g, HasRead
    <3>2. Stage(Pause(g.htu), {n}, "idle", "ripe") /\ Pause(g.htu).valid = g.htu.valid
      BY <3>1, HtuPauses
    <3>3. /\ Stage(htu, {n}, "idle", "ripe")' /\ reading2'.left = CollectionTime - 2 /\ reading2'.name = n
          /\ "T" \in htu'.valid
      BY <1>6, <1>9, <1>13, <3>1, <3>2 DEF Stage
    <3>4. ReadInv(c, k)'
      BY <1>1, <1>6, <1>7, <1>9, <1>13, <2>2, <3>1, <3>3 DEF ReadInv, Collecting, Rested
    <3>5. QED
      BY <3>4, <1>11
  <2>3. QED
    BY <1>7, <2>1, <2>2 DEF HtuName
<1>14. CASE reading2.left = CollectionTime - 2 /\ Stage(htu, {n}, "idle", "ripe") /\ Left >= 0
            /\ n = "H" /\ "T" \in htu.valid
  <2>1. g.resp = "SUCCESS" /\ Stage(g.htu, {n}, "idle", "idle")
    BY <1>7, <1>14, HtuReadsHumi DEF g
  <2>2. QED
    BY <2>1, <1>10, <1>11, <1>14
<1>15. QED
  BY <1>5, <1>12, <1>13, <1>14 DEF ReadInv

LEMMA SamplingStart == ASSUME Timely, SamplerInit PROVE SamplingInv
<1>1. PICK c \in SampleCount : sdef = [n \in HtuName |-> [interval |-> 1, samplecount |-> c]]
  BY DEF SamplerInit
<1>2. 0 \in 0..c /\ c # 0
  BY SamplerAssumption
<1>3. SampleInterval \in Nat /\ Begins(c, 0) \in Nat
  BY <1>2, Schedule
<1>4. RestInv(c, 0)
  BY <1>2, <1>3 DEF SamplerInit, RestInv, Waits, Data, Rested, NoData, Stage, HtuAtStart, HtuState, HtuName,
                    Left, Loose, Before, Never
<1>5. QuietInv(c, 0)
  BY <1>1, <1>2, <1>4 DEF QuietInv, Reported, SamplerInit, NoData
<1>6. QED
  BY <1>2, <1>5 DEF SamplingInv, SamplerInit

\* Faults are not forgotten, nor what held up a sample.
LEMMA DisturbedStays ==
  ASSUME sensor_faults \in Nat, [SamplerNext]_samplerVars
  PROVE  sensor_faults' \in Nat /\ (Quiet' => Quiet)
<1>1. CASE SamplerLoop
  <2>1. CASE PassBegins \/ SendAtInterval \/ SamplerTick \/ (\E n \in HtuName : SampleSlot(n) \/ SkipSlot(n))
    BY <2>1 DEF PassBegins, SendAtInterval, SamplerTick, SampleSlot, SkipSlot, history, Quiet
  <2>2. CASE ReadingStep
    <3>1. PICK ok \in BOOLEAN : Chip(reading2.name, ok)
      BY <2>2 DEF ReadingStep
    <3>2. hindered' => hindered' \/ hindered
      OBVIOUS
    <3>3. ~hindered' => ~hindered
      BY <2>2 DEF ReadingStep
    <3>4. QED
      BY <3>1, <3>3 DEF Chip, Quiet
  <2>3. ASSUME NEW n \in HtuName, IterateSlot(n) PROVE sensor_faults' \in Nat /\ (Quiet' => Quiet)
    <3>1. sensor_faults' = sensor_faults \/ \E ok \in BOOLEAN : Chip(n, ok)
      BY <2>3 DEF IterateSlot
    <3>2. hindered' = hindered
      BY <2>3 DEF IterateSlot
    <3>3. QED
      BY <3>1, <3>2 DEF Chip, Quiet
  <2>4. QED
    BY <1>1, <2>1, <2>2, <2>3 DEF SamplerLoop
<1>2. ASSUME NEW n \in HtuName,
             \/ GetReading(n) \/ Delete(n) \/ AddMeas(n)
             \/ \E i \in {0, 1} : SetInterval(n, i)
             \/ \E c \in SampleCount : SetSamplecount(n, c)
      PROVE  sensor_faults' \in Nat /\ (Quiet' => Quiet)
  <2>1. sensor_faults' = sensor_faults
    BY <1>2 DEF GetReading, Delete, AddMeas, SetInterval, SetSamplecount, MeasCommand
  <2>2. hindered' = hindered \/ hindered' = TRUE
    BY <1>2 DEF GetReading, Delete, AddMeas, SetInterval, SetSamplecount, Redefine
  <2>3. QED
    BY <2>1, <2>2 DEF Quiet
<1>3. CASE UNCHANGED samplerVars
  BY <1>3 DEF samplerVars, history, Quiet
<1>4. QED
  BY <1>1, <1>2, <1>3 DEF SamplerNext

LEMMA SamplingStep ==
  ASSUME Timely, SamplingInv, [SamplerNext]_samplerVars
  PROVE  SamplingInv'
<1>1. sensor_faults' \in Nat /\ (Quiet' => Quiet)
  BY DisturbedStays DEF SamplingInv
<1>2. SUFFICES ASSUME Quiet'
               PROVE  \E c \in SampleCount : \E k \in 0..c : QuietInv(c, k)'
  BY <1>1 DEF SamplingInv
<1>3. PICK c \in SampleCount : \E k \in 0..c : QuietInv(c, k)
  BY <1>1, <1>2 DEF SamplingInv
<1>4. PICK k \in 0..c : QuietInv(c, k)
  BY <1>3
<1>5. SUFFICES \E l \in 0..c : QuietInv(c, l)'
  OBVIOUS
<1>6. CASE PassBegins
  BY <1>4, <1>6, PassBeginsKeeps
<1>7. CASE SendAtInterval
  BY <1>4, <1>7, SendKeeps
<1>8. CASE SamplerTick
  BY <1>4, <1>8, TickKeeps
<1>9. CASE ReadingStep
  BY <1>1, <1>2, <1>4, <1>9, ReadingKeeps
<1>10. ASSUME NEW n \in HtuName, SampleSlot(n) PROVE \E l \in 0..c : QuietInv(c, l)'
  BY <1>4, <1>10, SampleTKeeps, SampleHKeeps DEF HtuName
<1>11. ASSUME NEW n \in HtuName, IterateSlot(n) PROVE \E l \in 0..c : QuietInv(c, l)'
  BY <1>1, <1>2, <1>4, <1>11, IterateKeeps
<1>12. ASSUME NEW n \in HtuName, GetReading(n) PROVE \E l \in 0..c : QuietInv(c, l)'
  BY <1>4, <1>12, GetReadingKeeps
<1>13. ASSUME NEW n \in HtuName,
              \/ Delete(n) \/ AddMeas(n)
              \/ \E i \in {0, 1} : SetInterval(n, i)
              \/ \E d \in SampleCount : SetSamplecount(n, d)
       PROVE  FALSE
  BY <1>2, <1>13 DEF Delete, AddMeas, SetInterval, SetSamplecount, Redefine, Quiet
<1>14. CASE UNCHANGED samplerVars
  <2>1. UNCHANGED <<sdef, ndata, since_sent, since_check, wait_time, htu, at, reading2, report>>
    BY <1>14 DEF samplerVars, sampling, history
  <2>2. QuietInv(c, k)'
    BY <1>4, <2>1 DEF QuietInv, Reported, RestInv, BegunInv, ReadInv, SampleTInv, SampleHInv, Waits, Left,
                      Loose, Before, After, Data, Stage, HasRead, Rested, Begun, Collecting
  <2>3. QED
    BY <2>2
<1>15. QED
  BY <1>4, <1>6, <1>7, <1>8, <1>9, <1>10, <1>11, <1>12, <1>13, <1>14, SkipSlotIsNot DEF SamplerNext, SamplerLoop

\* With a sensor that gives no error and no measurement changed, whatever is read
\* by commands, every report has all its samples, each new, and no flag is left
\* up: for every interval, number of samples and collection time that is Timely
\* (_measurements_sample, measurements_loop_iteration).
THEOREM SamplerSamplesAreNew == ASSUME Timely PROVE SamplerSpec => []SamplesAreNew
<1>1. SamplerInit => SamplingInv
  BY SamplingStart
<1>2. SamplingInv /\ [SamplerNext]_samplerVars => SamplingInv'
  BY SamplingStep
<1>3. SamplingInv => SamplesAreNew
  <2>1. SUFFICES ASSUME SamplingInv, Quiet
                 PROVE  /\ \A n \in HtuName : report[n].repeats = 0
                                              /\ (report[n] # NoData => report[n].samples = sdef[n].samplecount)
                        /\ \A n \in htu.flags : ndata[n].collecting
    BY DEF SamplesAreNew, AllSamplesNew, FlagIsOwned, Quiet
  <2>2. PICK c \in SampleCount : \E k \in 0..c : QuietInv(c, k)
    BY <2>1 DEF SamplingInv
  <2>3. PICK k \in 0..c : QuietInv(c, k)
    BY <2>2
  <2>4. \A n \in HtuName : report[n].repeats = 0
                           /\ (report[n] # NoData => report[n].samples = sdef[n].samplecount)
    BY <2>3 DEF QuietInv, Reported
  <2>5. \A n \in htu.flags : ndata[n].collecting
    <3>1. CASE RestInv(c, k)
      BY <3>1 DEF RestInv, Stage
    <3>2. CASE BegunInv(c, k)
      BY <3>2 DEF BegunInv, Stage, Data, Begun
    <3>3. CASE ReadInv(c, k)
      <4>1. htu.flags = {reading2.name} /\ reading2.name \in HtuName
        BY <3>3 DEF ReadInv, Stage
      <4>2. ndata[reading2.name] = Collecting(k)
        BY <3>3 DEF ReadInv, Data, HtuName
      <4>3. QED
        BY <4>1, <4>2 DEF Collecting, Rested
    <3>4. CASE SampleTInv(c, k)
      <4>1. ASSUME Data(Begun(k), Begun(k)), htu.flags = HtuName PROVE \A n \in htu.flags : ndata[n].collecting
        BY <4>1 DEF Data, Begun
      <4>2. QED
        BY <3>4, <4>1 DEF SampleTInv, Stage
    <3>5. CASE SampleHInv(c, k)
      <4>1. ASSUME Data(Begun(k), Rested(k)), htu.flags = {"T"} PROVE \A n \in htu.flags : ndata[n].collecting
        BY <4>1 DEF Data, Begun, HtuName
      <4>2. ASSUME Data(Rested(k + 1), Begun(k)), htu.flags = {"H"} PROVE \A n \in htu.flags : ndata[n].collecting
        BY <4>2 DEF Data, Begun, HtuName
      <4>3. QED
        BY <3>5, <4>1, <4>2 DEF SampleHInv, Stage
    <3>6. QED
      BY <2>3, <3>1, <3>2, <3>3, <3>4, <3>5 DEF QuietInv
  <2>6. QED
    BY <2>4, <2>5
<1>4. QED
  BY <1>1, <1>2, <1>3, PTL DEF SamplerSpec
-----------------------------------------------------------------------------
(* Sampling with a chip that fails.  Each measurement is by itself in one  *)
(* of six phases, each with the time by which it must be looked at again.  *)

\* What the times must be like: as Timely, with two ticks before the first sample
\* of an interval, and one from the end of an interval to a next sample.
Roomy == /\ Timely
         /\ \A c \in SampleCount : Begins(c, 0) >= 2 /\ Begins(c, c) > SampleInterval + 1

Sampling == at \in {<<"sample", "T">>, <<"sample", "H">>}
Unslotted(n) == at = <<"sample", "T">> \/ at = <<"sample", n>>
\* The last tick at which the next pass that samples can begin, or the tick before
\* the one at which this pass did.
Wake(n) == IF Unslotted(n) THEN since_sent - 1 ELSE since_sent + Left

Counts(n, i, k) == ndata[n].init = i /\ ndata[n].collected = k
Flags(n, g, u) == ndata[n].collecting = g /\ (n \in htu.flags <=> u)
Other(n) == IF n = "T" THEN "H" ELSE "T"

\* Waits for its k-th sample, is in it, ...
Down(c, n, k) == /\ Counts(n, k, k) /\ Flags(n, FALSE, FALSE)
                 /\ k > 0 => since_sent >= Ends(c, k - 1)
                 /\ Wake(n) <= Begins(c, k)
In(c, n, k) == /\ Counts(n, k + 1, k) /\ Flags(n, TRUE, TRUE) /\ k < c
               /\ since_sent >= Begins(c, k) /\ Wake(n) <= Ends(c, k)
\* ... or has gone astray: each sample is passed over, "could not collect before next init".
Fresh(c, n) == /\ n = "T" /\ at = <<"sample", "H">> /\ Counts("H", 1, 1) /\ Counts("T", 1, 1)
               /\ since_sent <= Ends(c, 0) + 2 /\ Wake(n) <= Ends(c, 1)
Astray(c, n, k) == /\ Counts(n, k, k) /\ Flags(n, TRUE, TRUE)
                   /\ k > 0 => since_sent >= Begins(c, k - 1)
                   /\ Wake(n) <= Begins(c, k) \/ Fresh(c, n)
\* Its sample failed and its flag is up; the same in the next interval; late for its
\* first sample, the flag just taken down.
Failed(c, n, k) == /\ Counts(n, k + 1, k) /\ Flags(n, FALSE, TRUE) /\ k > 0
                   /\ since_sent >= Begins(c, k - 1) /\ Wake(n) <= Ends(c, k)
                   /\ fault_in = "early" => k < c /\ since_sent >= 2
Stale(c, n) == Counts(n, 0, 0) /\ Flags(n, FALSE, TRUE) /\ Wake(n) <= Ends(c, 0) /\ fault_in # "early"
Late(c, n) == /\ Counts(n, 0, 1) /\ Flags(n, FALSE, FALSE)
              /\ since_sent >= Ends(c, 0) /\ Wake(n) \in Ends(c, 0)..(Ends(c, 0) + 1)
              /\ \/ Counts(Other(n), 1, 1)
                 \/ n = "T" /\ at = <<"sample", "H">> /\ In(c, "H", 0)

Good(c, n) == \E k \in 0..c : Down(c, n, k) \/ In(c, n, k) \/ Astray(c, n, k)
Bad(c, n) == (\E k \in 0..c : Failed(c, n, k)) \/ Stale(c, n) \/ Late(c, n)

\* At most one of them has a flag that somebody is to take down, and then nothing
\* is asked of the chip.
Busy(n) == htu.state[n] # "idle"
ChipIdle == ~Busy("T") /\ ~Busy("H")
Settled == at = <<"sample", "H">> => wait_time \in 1..(SampleInterval + 1)
Phases(c) == \/ Good(c, "T") /\ Settled /\ (Good(c, "H") \/ (Bad(c, "H") /\ ChipIdle))
             \/ Bad(c, "T") /\ Good(c, "H") /\ ChipIdle

Steps == {<<"command", "T">>, <<"sample", "T">>, <<"sample", "H">>, <<"send", "T">>,
          <<"iterate", "T">>, <<"iterate", "H">>, <<"end", "T">>}
NData == [init : Nat, collected : Nat, samples : Int, repeats : Int, collecting : BOOLEAN]
Times(c) ==
  /\ sdef = [n \in HtuName |-> [interval |-> 1, samplecount |-> c]] /\ reading2 = NotReading
  /\ ndata \in [HtuName -> NData] /\ htu \in HtuState
  /\ at \in Steps /\ since_sent \in 0..(SampleInterval + 1)
  /\ wait_time \in 0..Never /\ since_check \in 0..Never
  /\ Sampling => since_check = 0
  /\ at = <<"sample", "T">> => wait_time = Never
  /\ ~Sampling => wait_time <= SampleInterval + 1 /\ Left >= -1
  /\ at \notin {<<"command", "T">>, <<"sample", "T">>} => Left >= 0

\* What is asked of the chip for the humidity is read before that is collected.
Spare(c, k, x) == since_sent + x < Ends(c, k) \/ (~Sampling /\ Left >= x)
ReadInTime(c) == \A k \in 0..c : Counts("H", k + 1, k) /\ ndata["H"].collecting = TRUE =>
  /\ htu.state["T"] = "req" => Spare(c, k, 2)
  /\ htu.state["T"] = "ripe" => Spare(c, k, 1) /\ at # <<"end", "T">>
  /\ htu.state["H"] = "req" => Spare(c, k, 1)
  /\ htu.state["H"] = "ripe" => Spare(c, k, 0) /\ at # <<"end", "T">>
ChipInv ==
  /\ ~Busy("T") \/ ~Busy("H")
  /\ Busy("H") => "H" \in htu.flags /\ "T" \in htu.valid
  /\ htu.state["T"] = "req" => at \notin {<<"command", "T">>, <<"sample", "T">>}
  /\ htu.state["H"] = "req" => at \in {<<"iterate", "H">>, <<"end", "T">>}
Joins(c) == at = <<"sample", "H">> /\ ("T" \notin htu.flags \/ htu.state["T"] = "req") =>
  \A k \in 0..c : Counts("H", k, k) /\ Flags("H", FALSE, FALSE) =>
                  since_sent <= Begins(c, k) \/ wait_time >= 2

FaultInv(c) == Times(c) /\ Phases(c) /\ ReadInTime(c) /\ ChipInv /\ Joins(c)
SamplerFaultInv ==
  /\ meas_commands \in Nat
  /\ meas_commands = 0 => \E c \in SampleCount : FaultInv(c)

-----------------------------------------------------------------------------
(* The times of an interval, whatever the sample.                          *)

LEMMA Calendar ==
  ASSUME Roomy, NEW c \in SampleCount
  PROVE  /\ c \in Nat /\ c >= 1 /\ SampleInterval \in Nat /\ CollectionTime \in Nat /\ CollectionTime >= 3
         /\ SampleInterval \div c \in Nat /\ SampleInterval \div c <= SampleInterval
         /\ 2 * CollectionTime <= SampleInterval \div c /\ Ends(c, 0) + CollectionTime <= SampleInterval \div c
         /\ Begins(c, 0) >= 2 /\ Begins(c, 0) <= SampleInterval
         /\ Begins(c, c) > SampleInterval + 1 /\ Begins(c, c) <= SampleInterval + Begins(c, 0)
         /\ \A k \in Nat : /\ Begins(c, k) \in Nat /\ Ends(c, k) = Begins(c, k) + CollectionTime
                           /\ Begins(c, k + 1) = Begins(c, k) + SampleInterval \div c
         /\ \A j, k \in Nat : j < k => Begins(c, j) + SampleInterval \div c <= Begins(c, k)
<1> DEFINE E == SampleInterval \div c
<1>1. /\ c \in Nat /\ c >= 1 /\ SampleInterval \in Nat /\ CollectionTime \in Nat /\ CollectionTime >= 3
      /\ CollectionTime <= E \div 2 /\ Begins(c, 0) >= 2 /\ Begins(c, c) > SampleInterval + 1
  BY SamplerAssumption DEF Roomy, Timely
<1>2. E \in Nat /\ c * E <= SampleInterval /\ E <= SampleInterval
  BY <1>1
<1>3. E \div 2 \in Nat /\ 2 * (E \div 2) <= E
  BY <1>2
<1>4. \A k \in Nat : Begins(c, k) = k * E + E \div 2 - CollectionTime /\ Ends(c, k) = k * E + E \div 2
  BY DEF Begins, Ends
<1>5. \A k \in Nat : k * E \in Nat /\ (k + 1) * E = k * E + E
  BY <1>2
<1>6. \A j, k \in Nat : j < k => j * E + E <= k * E
  <2>1. SUFFICES ASSUME NEW j \in Nat, NEW k \in Nat, j < k PROVE j * E + E <= k * E
    OBVIOUS
  <2>2. PICK d \in Nat : k = (j + 1) + d
    <3>1. k - (j + 1) \in Nat /\ k = (j + 1) + (k - (j + 1))
      BY <2>1
    <3> QED BY <3>1
  <2>3. k * E = (j + 1) * E + d * E /\ d * E \in Nat
    BY <2>2, <1>2
  <2> QED BY <2>3, <1>2, <1>5
<1>7. 0 * E = 0
  BY <1>2
<1> DEFINE h == E \div 2
<1> HIDE DEF E, h
<1>8. /\ E \in Nat /\ h \in Nat /\ 2 * h <= E /\ E <= SampleInterval /\ CollectionTime <= h
      /\ c * E <= SampleInterval
      /\ \A k \in Nat : Begins(c, k) = k * E + h - CollectionTime /\ Ends(c, k) = k * E + h
  BY <1>1, <1>2, <1>3, <1>4 DEF h, E
<1>9. \A k \in Nat : /\ Begins(c, k) \in Nat /\ Ends(c, k) = Begins(c, k) + CollectionTime
                     /\ Begins(c, k + 1) = Begins(c, k) + E
  <2>1. SUFFICES ASSUME NEW k \in Nat
                 PROVE  /\ Begins(c, k) \in Nat /\ Ends(c, k) = Begins(c, k) + CollectionTime
                        /\ Begins(c, k + 1) = Begins(c, k) + E
    OBVIOUS
  <2> DEFINE ke == k * E
             ke1 == (k + 1) * E
  <2>2. ke \in Nat /\ ke1 = ke + E
    BY <1>5
  <2>3. /\ Begins(c, k) = ke + h - CollectionTime /\ Ends(c, k) = ke + h
        /\ Begins(c, k + 1) = ke1 + h - CollectionTime
    BY <1>8
  <2> HIDE DEF ke, ke1
  <2> QED BY <1>1, <1>8, <2>2, <2>3
<1>10. \A j, k \in Nat : j < k => Begins(c, j) + E <= Begins(c, k)
  <2>1. SUFFICES ASSUME NEW j \in Nat, NEW k \in Nat, j < k PROVE Begins(c, j) + E <= Begins(c, k)
    OBVIOUS
  <2> DEFINE ke == k * E
             je == j * E
  <2>2. ke \in Nat /\ je \in Nat /\ je + E <= ke
    BY <1>5, <1>6, <2>1
  <2>3. Begins(c, k) = ke + h - CollectionTime /\ Begins(c, j) = je + h - CollectionTime
    BY <1>8
  <2> HIDE DEF ke, je
  <2> QED BY <1>1, <1>8, <2>2, <2>3
<1>11. Begins(c, 0) = h - CollectionTime /\ Ends(c, 0) = h /\ Begins(c, c) <= SampleInterval + h - CollectionTime
  <2> DEFINE ce == c * E
             z == 0 * E
  <2>1. ce \in Nat /\ ce <= SampleInterval /\ z = 0
    BY <1>1, <1>5, <1>7, <1>8
  <2>2. Begins(c, c) = ce + h - CollectionTime /\ Begins(c, 0) = z + h - CollectionTime /\ Ends(c, 0) = z + h
    BY <1>1, <1>8
  <2> HIDE DEF ce, z
  <2> QED BY <2>1, <2>2, <1>1, <1>8
<1>12. Begins(c, 0) <= SampleInterval /\ Begins(c, c) <= SampleInterval + Begins(c, 0)
       /\ 2 * CollectionTime <= E /\ Ends(c, 0) + CollectionTime <= E
  BY <1>1, <1>8, <1>11
<1> QED BY <1>1, <1>8, <1>9, <1>10, <1>12 DEF E
-----------------------------------------------------------------------------
(* What a slot does, by the time it is and what was counted.               *)

LEMMA FlagRaised ==
  ASSUME NEW h \in HtuState, NEW n \in HtuName, n \notin h.flags
  PROVE  LET g == HtuInit(h, n)
         IN  /\ g.resp = "SUCCESS" /\ g.htu \in HtuState /\ g.htu.flags = h.flags \cup {n} /\ g.htu.valid = h.valid
             /\ g.htu.state["H"] = h.state["H"]
             /\ g.htu.state["T"] = IF h.flags = {} THEN "req" ELSE h.state["T"]
BY DEF HtuInit, HtuState, HtuName, Is, Req

LEMMA FlagIsUp ==
  ASSUME NEW h, NEW n \in h.flags
  PROVE  HtuInit(h, n).resp = "BUSY" /\ HtuInit(h, n).htu = h
BY DEF HtuInit, Is

LEMMA FlagTakenDown ==
  ASSUME NEW h \in HtuState, NEW n \in HtuName
  PROVE  LET g == HtuGet(h, n).htu
         IN  g \in HtuState /\ g.flags = h.flags \ {n} /\ g.valid = h.valid /\ g.state = h.state
BY DEF HtuGet, HtuState, Is

LEMMA CountsGot ==
  ASSUME NEW d \in NData, NEW resp, NEW repeat
  PROVE  LET g == Got(d, resp, repeat)
         IN  g \in NData /\ g.init = d.init /\ g.collected = d.collected + 1 /\ g.collecting = FALSE
<1> DEFINE counted == [d EXCEPT !.collecting = FALSE, !.collected = @ + 1]
<1>1. counted \in NData /\ counted.init = d.init /\ counted.collected = d.collected + 1 /\ counted.collecting = FALSE
  <2>1. PICK k \in Nat : k = d.collected + 1
    BY DEF NData
  <2>2. counted = [d EXCEPT !.collecting = FALSE, !.collected = k]
    BY <2>1
  <2> QED BY <2>1, <2>2 DEF NData
<1> HIDE DEF counted
<1>2. ASSUME NEW e, e = TakenIn(counted, repeat)
      PROVE  e \in NData /\ e.init = counted.init /\ e.collected = counted.collected /\ e.collecting = counted.collecting
  <2>1. PICK s \in Int, r \in Int : s = counted.samples + 1 /\ r = counted.repeats + (IF repeat THEN 1 ELSE 0)
    <3>1. (IF repeat THEN 1 ELSE 0) \in Int
      OBVIOUS
    <3>2. counted.samples \in Int /\ counted.repeats \in Int
      BY <1>1 DEF NData
    <3> QED BY <3>1, <3>2
  <2>2. e = [counted EXCEPT !.samples = s, !.repeats = r]
    BY <1>2, <2>1, Zenon DEF TakenIn
  <2> QED BY <1>1, <2>2 DEF NData
<1> QED BY <1>1, <1>2 DEF Got, counted

\* The turn of n: its counts, whether it is collecting, and for how long it lets the loop wait.
Turned(n, i, k, g, w) ==
  /\ ndata' \in [HtuName -> NData] /\ Counts(n, i, k)' /\ ndata'[n].collecting = g
  /\ \A m \in HtuName \ {n} : ndata'[m] = ndata[m]
  /\ wait_time' = Least(wait_time, w)

LEMMA CountsTurned ==
  ASSUME ndata \in [HtuName -> NData], NEW n \in HtuName, NEW d \in NData, ndata' = [ndata EXCEPT ![n] = d]
  PROVE  /\ ndata' \in [HtuName -> NData] /\ Counts(n, d.init, d.collected)' /\ ndata'[n].collecting = d.collecting
         /\ \A m \in HtuName \ {n} : ndata'[m] = ndata[m]
BY DEF Counts

LEMMA SlotPasses ==
  ASSUME NEW c \in SampleCount, Times(c), NEW n \in HtuName, SampleSlot(n), NEW i, NEW k, Counts(n, i, k),
         NEW g, ndata[n].collecting = g,
         Begins(c, i) \in Int, Ends(c, k) \in Int, since_sent < Begins(c, i), since_sent < Ends(c, k)
  PROVE  /\ Turned(n, i, k, g, Least(Delta(Begins(c, i), since_sent), Delta(Ends(c, k), since_sent)))
         /\ htu' = htu
<1>1. TimeInit(n, ndata[n]) = Begins(c, i) /\ TimeCollect(n, ndata[n]) = Ends(c, k)
  BY TimesAre DEF Times, Counts
<1>2. ~(since_sent >= Begins(c, i)) /\ ~(since_sent >= Ends(c, k)) /\ Begins(c, i) + 0 = Begins(c, i)
  BY DEF Times
<1>3. /\ ndata' = [ndata EXCEPT ![n] = ndata[n]] /\ htu' = htu
      /\ wait_time' = Least(wait_time, Least(Delta(Begins(c, i), since_sent), Delta(Ends(c, k), since_sent)))
  BY <1>1, <1>2 DEF SampleSlot
<1>4. ndata \in [HtuName -> NData] /\ ndata[n] \in NData
  BY DEF Times
<1> QED BY <1>3, <1>4, CountsTurned DEF Turned, Counts

LEMMA SlotTakes ==
  ASSUME NEW c \in SampleCount, Times(c), NEW n \in HtuName, SampleSlot(n), NEW i, NEW k, Counts(n, i, k),
         Begins(c, i) \in Int, Ends(c, k) \in Int, since_sent < Begins(c, i), since_sent >= Ends(c, k)
  PROVE  /\ Turned(n, i, k + 1, FALSE, Least(Delta(Begins(c, i), since_sent),
                     Delta(Ends(c, k) + SampleInterval \div c, CollectionTime + since_sent)))
         /\ htu' = HtuGet(htu, n).htu
<1>1. TimeInit(n, ndata[n]) = Begins(c, i) /\ TimeCollect(n, ndata[n]) = Ends(c, k) /\ Every(n) = SampleInterval \div c
  BY TimesAre DEF Times, Counts
<1>2. ~(since_sent >= Begins(c, i)) /\ since_sent >= Ends(c, k) /\ Begins(c, i) + 0 = Begins(c, i)
  BY DEF Times
<1>3. /\ \E resp : \E repeat : ndata' = [ndata EXCEPT ![n] = Got(ndata[n], resp, repeat)]
      /\ htu' = HtuGet(htu, n).htu
      /\ wait_time' = Least(wait_time, Least(Delta(Begins(c, i), since_sent),
                        Delta(Ends(c, k) + SampleInterval \div c, CollectionTime + since_sent)))
  BY <1>1, <1>2 DEF SampleSlot
<1>4. ndata \in [HtuName -> NData] /\ ndata[n] \in NData
  BY DEF Times
<1>5. PICK g \in NData : /\ ndata' = [ndata EXCEPT ![n] = g] /\ g.init = ndata[n].init
                         /\ g.collected = ndata[n].collected + 1 /\ g.collecting = FALSE
  <2>1. PICK resp, repeat : ndata' = [ndata EXCEPT ![n] = Got(ndata[n], resp, repeat)]
    BY <1>3
  <2> QED BY <2>1, <1>4, CountsGot, Zenon
<1> QED BY <1>3, <1>4, <1>5, CountsTurned DEF Turned, Counts

\* At its time to begin: it begins, ...
LEMMA SlotStarts ==
  ASSUME NEW c \in SampleCount, Times(c), NEW n \in HtuName, SampleSlot(n), NEW i \in Nat, NEW k \in Nat, Counts(n, i, k),
         Begins(c, i) \in Int, Ends(c, k) \in Int, since_sent >= Begins(c, i), since_sent < Ends(c, k),
         i <= k, Flags(n, FALSE, FALSE)
  PROVE  /\ Turned(n, i + 1, k, TRUE, Least(Delta(Begins(c, i) + CollectionTime, since_sent), Delta(Ends(c, k), since_sent)))
         /\ htu' = HtuInit(htu, n).htu
<1>1. TimeInit(n, ndata[n]) = Begins(c, i) /\ TimeCollect(n, ndata[n]) = Ends(c, k)
  BY TimesAre DEF Times, Counts
<1>2. since_sent >= Begins(c, i) /\ ~(since_sent >= Ends(c, k))
  BY DEF Times
<1>3. ndata \in [HtuName -> NData] /\ ndata[n] \in NData /\ htu \in HtuState
  BY DEF Times
<1>4. Missed(ndata[n]) = ndata[n]
  BY DEF Missed, Counts
<1> DEFINE d == [ndata[n] EXCEPT !.init = @ + 1, !.collecting = TRUE]
<1>5. d \in NData /\ d.init = i + 1 /\ d.collected = k /\ d.collecting = TRUE
  <2>1. PICK j \in Nat : j = i + 1
    OBVIOUS
  <2>2. d = [ndata[n] EXCEPT !.init = j, !.collecting = TRUE]
    BY <2>1 DEF Counts
  <2> QED BY <1>3, <2>1, <2>2 DEF NData, Counts
<1>6. HtuInit(htu, n).resp = "SUCCESS" /\ ~ndata[n].collecting
  BY <1>3, FlagRaised DEF Flags
<1>7. /\ SampleInit(n, ndata[n]).data = d /\ SampleInit(n, ndata[n]).htu = HtuInit(htu, n).htu
      /\ ~SampleInit(n, ndata[n]).busy
  BY <1>6 DEF SampleInit
<1> HIDE DEF d
<1>8. /\ ndata' = [ndata EXCEPT ![n] = d] /\ htu' = HtuInit(htu, n).htu
      /\ wait_time' = Least(wait_time, Least(Delta(Begins(c, i) + CollectionTime, since_sent), Delta(Ends(c, k), since_sent)))
  BY <1>1, <1>2, <1>4, <1>7 DEF SampleSlot
<1> QED BY <1>3, <1>5, <1>8, CountsTurned DEF Turned, Counts

\* ... passes over a sample as it is collecting still, ...
LEMMA SlotSkips ==
  ASSUME NEW c \in SampleCount, Times(c), NEW n \in HtuName, SampleSlot(n), NEW k \in Nat, Counts(n, k, k),
         Begins(c, k) \in Int, Ends(c, k) \in Int, since_sent >= Begins(c, k), since_sent < Ends(c, k),
         ndata[n].collecting = TRUE
  PROVE  /\ Turned(n, k + 1, k + 1, TRUE, Least(Delta(Begins(c, k) + CollectionTime, since_sent), Delta(Ends(c, k), since_sent)))
         /\ htu' = htu
<1>1. TimeInit(n, ndata[n]) = Begins(c, k) /\ TimeCollect(n, ndata[n]) = Ends(c, k)
  BY TimesAre DEF Times, Counts
<1>2. since_sent >= Begins(c, k) /\ ~(since_sent >= Ends(c, k))
  BY DEF Times
<1>3. ndata \in [HtuName -> NData] /\ ndata[n] \in NData
  BY DEF Times
<1>4. Missed(ndata[n]) = ndata[n]
  BY DEF Missed, Counts
<1> DEFINE d == [ndata[n] EXCEPT !.init = @ + 1, !.collected = @ + 1]
<1>5. d \in NData /\ d.init = k + 1 /\ d.collected = k + 1 /\ d.collecting = TRUE
  <2>1. PICK j \in Nat : j = k + 1
    OBVIOUS
  <2>2. d = [ndata[n] EXCEPT !.init = j, !.collected = j]
    BY <2>1 DEF Counts
  <2> QED BY <1>3, <2>1, <2>2 DEF NData, Counts
<1>6. SampleInit(n, ndata[n]).data = d /\ SampleInit(n, ndata[n]).htu = htu /\ ~SampleInit(n, ndata[n]).busy
  BY DEF SampleInit
<1> HIDE DEF d
<1>7. /\ ndata' = [ndata EXCEPT ![n] = d] /\ htu' = htu
      /\ wait_time' = Least(wait_time, Least(Delta(Begins(c, k) + CollectionTime, since_sent), Delta(Ends(c, k), since_sent)))
  BY <1>1, <1>2, <1>4, <1>6 DEF SampleSlot
<1> QED BY <1>3, <1>5, <1>7, CountsTurned DEF Turned, Counts

\* ... or finds its flag up, and may take it down the same time.
LEMMA SlotRetries ==
  ASSUME NEW c \in SampleCount, Times(c), NEW n \in HtuName, SampleSlot(n), NEW k \in Nat, Counts(n, k, k),
         Begins(c, k) \in Int, Ends(c, k) \in Int, since_sent >= Begins(c, k), Flags(n, FALSE, TRUE)
  PROVE  \E w : /\ IF since_sent >= Ends(c, k)
                   THEN Turned(n, k, k + 1, FALSE, Least(0, w)) /\ htu' = HtuGet(htu, n).htu
                   ELSE Turned(n, k, k, FALSE, Least(0, w)) /\ htu' = htu
                /\ \E x, y \in Int : w = Delta(x, y)
<1>1. TimeInit(n, ndata[n]) = Begins(c, k) /\ TimeCollect(n, ndata[n]) = Ends(c, k) /\ Every(n) = SampleInterval \div c
  BY TimesAre DEF Times, Counts
<1>3. ndata \in [HtuName -> NData] /\ ndata[n] \in NData
  BY DEF Times
<1>4. Missed(ndata[n]) = ndata[n]
  BY DEF Missed, Counts
<1>5. HtuInit(htu, n).resp = "BUSY" /\ HtuInit(htu, n).htu = htu /\ ~ndata[n].collecting
  BY FlagIsUp DEF Flags
<1>6. SampleInit(n, ndata[n]).data = ndata[n] /\ SampleInit(n, ndata[n]).htu = htu /\ SampleInit(n, ndata[n]).busy
  BY <1>5 DEF SampleInit
<1>7. since_sent \in Int /\ CollectionTime \in Int /\ SampleInterval \div c \in Int
  BY SamplerAssumption DEF Times
<1>8. CASE since_sent >= Ends(c, k)
  <2> DEFINE w == Delta(Ends(c, k) + SampleInterval \div c, CollectionTime + since_sent)
  <2>1. /\ \E resp : \E repeat : ndata' = [ndata EXCEPT ![n] = Got(ndata[n], resp, repeat)]
        /\ htu' = HtuGet(htu, n).htu /\ wait_time' = Least(wait_time, Least(0, w))
    BY <1>1, <1>4, <1>6, <1>8 DEF SampleSlot
  <2>2. PICK g \in NData : /\ ndata' = [ndata EXCEPT ![n] = g] /\ g.init = ndata[n].init
                           /\ g.collected = ndata[n].collected + 1 /\ g.collecting = FALSE
    <3>1. PICK resp, repeat : ndata' = [ndata EXCEPT ![n] = Got(ndata[n], resp, repeat)]
      BY <2>1
    <3> QED BY <3>1, <1>3, CountsGot, Zenon
  <2>3. Turned(n, k, k + 1, FALSE, Least(0, w))
    BY <1>3, <2>1, <2>2, CountsTurned DEF Turned, Counts
  <2>4. \E x, y \in Int : w = Delta(x, y)
    <3>1. Ends(c, k) + SampleInterval \div c \in Int /\ CollectionTime + since_sent \in Int
      BY <1>7
    <3> QED BY <3>1
  <2> QED BY <1>8, <2>1, <2>3, <2>4
<1>9. CASE ~(since_sent >= Ends(c, k))
  <2> DEFINE w == Delta(Ends(c, k), since_sent)
  <2>1. /\ ndata' = [ndata EXCEPT ![n] = ndata[n]] /\ htu' = htu /\ wait_time' = Least(wait_time, Least(0, w))
    BY <1>1, <1>4, <1>6, <1>9 DEF SampleSlot
  <2>2. Turned(n, k, k, FALSE, Least(0, w))
    BY <1>3, <2>1, CountsTurned DEF Turned, Counts, Flags
  <2> QED BY <1>7, <1>9, <2>1, <2>2
<1> QED BY <1>8, <1>9
-----------------------------------------------------------------------------
(* What a slot does, by the phase.                                         *)

LEMMA SlotFrame ==
  ASSUME NEW c \in SampleCount, Times(c), NEW n \in HtuName, SampleSlot(n)
  PROVE  /\ at = <<"sample", n>> /\ at' = IF n = "T" THEN <<"sample", "H">> ELSE <<"send", "T">>
         /\ UNCHANGED <<sdef, since_sent, since_check, reading2, fault_in, meas_commands>>
         /\ since_check = 0 /\ since_sent \in 0..(SampleInterval + 1) /\ wait_time \in 0..Never
         /\ Wake(n) = since_sent - 1 /\ Never = SampleInterval + 2 /\ SampleInterval \in Nat
         /\ n = "T" => wait_time = Never
BY SamplerAssumption DEF SampleSlot, history, Times, Sampling, HtuName, Wake, Unslotted, Never

LEMMA SlotWake ==
  ASSUME NEW c \in SampleCount, Times(c), NEW n \in HtuName, SampleSlot(n),
         NEW w \in 0..Never, wait_time' = Least(wait_time, w)
  PROVE  /\ Wake(n)' <= since_sent + w
         /\ wait_time' \in 0..Never /\ wait_time' <= w /\ wait_time' <= wait_time /\ (n = "T" => wait_time' = w)
<1>1. wait_time' \in 0..Never /\ wait_time' <= w /\ wait_time' <= wait_time /\ (n = "T" => wait_time' = w)
  BY SlotFrame DEF Least
<1>2. ~Unslotted(n)' /\ since_check' = 0 /\ since_sent' = since_sent
  BY SlotFrame DEF Unslotted, HtuName
<1> QED BY <1>1, <1>2, SlotFrame DEF Wake, Left

\* Only the turn's own data and time change.
Slotted(n, w) ==
  /\ ndata' \in [HtuName -> NData] /\ \A m \in HtuName \ {n} : ndata'[m] = ndata[m]
  /\ wait_time' = Least(wait_time, w)

LEMMA DownSlot ==
  ASSUME Roomy, NEW c \in SampleCount, Times(c), NEW n \in HtuName, SampleSlot(n), NEW k \in 0..c, Down(c, n, k)
  PROVE  \E w \in 1..(SampleInterval + 1) :
           /\ Slotted(n, w)
           /\ \/ /\ Down(c, n, k)' /\ htu' = htu
                 /\ since_sent < Begins(c, k) /\ w = Begins(c, k) - since_sent
              \/ /\ In(c, n, k)' /\ htu' = HtuInit(htu, n).htu
                 /\ since_sent \in Begins(c, k)..(Begins(c, k) + 1) /\ w = Ends(c, k) - since_sent
<1> DEFINE b == Begins(c, k)
           e == Ends(c, k)
           s == since_sent
<1>1. /\ b \in Nat /\ e = b + CollectionTime /\ CollectionTime \in Nat /\ CollectionTime >= 3 /\ k \in Nat
      /\ s \in 0..(SampleInterval + 1) /\ s - 1 <= b /\ Never = SampleInterval + 2 /\ SampleInterval \in Nat
  BY Calendar, SlotFrame DEF Down
<1>2. Counts(n, k, k) /\ Flags(n, FALSE, FALSE) /\ ndata[n].collecting = FALSE /\ b \in Int /\ e \in Int
  BY <1>1 DEF Down, Flags
<1>3. b - s <= SampleInterval
  <2>1. CASE k = 0
    BY <1>1, <2>1, Calendar
  <2>2. CASE k > 0
    <3>1. s >= Ends(c, k - 1) /\ k - 1 \in Nat /\ (k - 1) + 1 = k
      BY <1>1, <2>2 DEF Down
    <3>2. Begins(c, k) = Begins(c, k - 1) + SampleInterval \div c /\ Ends(c, k - 1) = Begins(c, k - 1) + CollectionTime
      BY <3>1, Calendar
    <3> QED BY <1>1, <3>1, <3>2, Calendar
  <2> QED BY <1>1, <2>1, <2>2
<1>4. CASE s < b
  <2>1. Turned(n, k, k, FALSE, Least(Delta(b, s), Delta(e, s))) /\ htu' = htu
    <3>1. s < e
      BY <1>1, <1>4
    <3> QED BY <1>2, <1>4, <3>1, SlotPasses
  <2>2. Least(Delta(b, s), Delta(e, s)) = b - s /\ b - s \in 1..(SampleInterval + 1) /\ b - s \in 0..Never
    BY <1>1, <1>3, <1>4 DEF Least, Delta
  <2>3. Wake(n)' <= s + (b - s)
    BY <2>1, <2>2, SlotWake DEF Turned
  <2>4. Down(c, n, k)'
    BY <1>1, <1>2, <2>1, <2>3, SlotFrame DEF Down, Turned, Flags
  <2> QED BY <1>4, <2>1, <2>2, <2>4 DEF Turned, Slotted
<1>5. CASE s >= b
  <2>1. k < c
    <3>1. k # c /\ c \in Nat
      BY <1>1, <1>5, Calendar
    <3> QED BY <1>1, <3>1
  <2>2. Turned(n, k + 1, k, TRUE, Least(Delta(b + CollectionTime, s), Delta(e, s))) /\ htu' = HtuInit(htu, n).htu
    <3>1. s < e /\ k <= k /\ k \in Nat
      BY <1>1
    <3> QED BY <1>2, <1>5, <3>1, SlotStarts
  <2>3. Least(Delta(b + CollectionTime, s), Delta(e, s)) = e - s /\ e - s \in 1..(SampleInterval + 1) /\ e - s \in 0..Never
    <3>1. CollectionTime <= SampleInterval
      BY <1>1, Calendar
    <3> QED BY <1>1, <1>5, <3>1 DEF Least, Delta
  <2>4. Wake(n)' <= s + (e - s)
    BY <2>2, <2>3, SlotWake DEF Turned
  <2>5. n \in htu'.flags
    BY <1>2, <2>2, FlagRaised DEF Times, Flags
  <2>6. In(c, n, k)'
    BY <1>1, <1>5, <2>1, <2>2, <2>4, <2>5, SlotFrame DEF In, Turned, Flags
  <2> QED BY <1>1, <1>5, <2>2, <2>3, <2>6 DEF Turned, Slotted
<1> QED BY <1>1, <1>4, <1>5

LEMMA InSlot ==
  ASSUME Roomy, NEW c \in SampleCount, Times(c), NEW n \in HtuName, SampleSlot(n), NEW k \in 0..c, In(c, n, k)
  PROVE  \E w \in 1..(SampleInterval + 1) :
           /\ Slotted(n, w)
           /\ \/ /\ In(c, n, k)' /\ htu' = htu
                 /\ since_sent < Ends(c, k) /\ w = Ends(c, k) - since_sent
              \/ /\ Down(c, n, k + 1)' /\ k + 1 \in 0..c /\ htu' = HtuGet(htu, n).htu
                 /\ since_sent \in Ends(c, k)..(Ends(c, k) + 1) /\ w = Begins(c, k + 1) - since_sent
<1> DEFINE b == Begins(c, k)
           e == Ends(c, k)
           b1 == Begins(c, k + 1)
           s == since_sent
<1>1. /\ b \in Nat /\ e = b + CollectionTime /\ CollectionTime \in Nat /\ CollectionTime >= 3 /\ k \in Nat
      /\ b1 = b + SampleInterval \div c /\ SampleInterval \div c \in Nat /\ 2 * CollectionTime <= SampleInterval \div c
      /\ SampleInterval \div c <= SampleInterval
      /\ s \in 0..(SampleInterval + 1) /\ s - 1 <= e /\ b <= s /\ Never = SampleInterval + 2 /\ SampleInterval \in Nat
      /\ k < c /\ c \in Nat
  BY Calendar, SlotFrame DEF In
<1>2. /\ Counts(n, k + 1, k) /\ Flags(n, TRUE, TRUE) /\ ndata[n].collecting = TRUE
      /\ b1 \in Int /\ e \in Int /\ k + 1 \in Nat
  BY <1>1 DEF In, Flags
<1>3. CASE s < e
  <2>1. Turned(n, k + 1, k, TRUE, Least(Delta(b1, s), Delta(e, s))) /\ htu' = htu
    <3>1. s < b1
      BY <1>1, <1>3
    <3> QED BY <1>2, <1>3, <3>1, SlotPasses
  <2>2. Least(Delta(b1, s), Delta(e, s)) = e - s /\ e - s \in 1..(SampleInterval + 1) /\ e - s \in 0..Never
    BY <1>1, <1>3 DEF Least, Delta
  <2>3. Wake(n)' <= s + (e - s)
    BY <2>1, <2>2, SlotWake DEF Turned
  <2>4. In(c, n, k)'
    BY <1>1, <1>2, <2>1, <2>3, SlotFrame DEF In, Turned, Flags
  <2> QED BY <1>3, <2>1, <2>2, <2>4 DEF Turned, Slotted
<1>4. CASE s >= e
  <2>1. /\ Turned(n, k + 1, k + 1, FALSE, Least(Delta(b1, s), Delta(e + SampleInterval \div c, CollectionTime + s)))
        /\ htu' = HtuGet(htu, n).htu
    <3>1. s < b1
      BY <1>1
    <3> QED BY <1>2, <1>4, <3>1, SlotTakes
  <2>2. /\ Least(Delta(b1, s), Delta(e + SampleInterval \div c, CollectionTime + s)) = b1 - s
        /\ b1 - s \in 1..(SampleInterval + 1) /\ b1 - s \in 0..Never
    BY <1>1, <1>4 DEF Least, Delta
  <2>3. Wake(n)' <= s + (b1 - s)
    BY <2>1, <2>2, SlotWake DEF Turned
  <2>4. n \notin htu'.flags
    BY <2>1, FlagTakenDown DEF Times
  <2>5. Down(c, n, k + 1)'
    BY <1>1, <1>4, <2>1, <2>3, <2>4, SlotFrame DEF Down, Turned, Flags
  <2> QED BY <1>1, <1>4, <2>1, <2>2, <2>5 DEF Turned, Slotted
<1> QED BY <1>1, <1>3, <1>4

LEMMA AstraySlot ==
  ASSUME Roomy, NEW c \in SampleCount, Times(c), NEW n \in HtuName, SampleSlot(n), NEW k \in 0..c, Astray(c, n, k)
  PROVE  \E w \in 1..(SampleInterval + 1) :
           /\ Slotted(n, w) /\ htu' = htu
           /\ \/ /\ Astray(c, n, k)' /\ Wake(n)' <= Begins(c, k)
                 /\ since_sent < Begins(c, k) /\ w = Begins(c, k) - since_sent
              \/ /\ Astray(c, n, k + 1)' /\ Wake(n)' <= Begins(c, k + 1) /\ k + 1 \in 0..c
                 /\ since_sent \in Begins(c, k)..(Begins(c, k) + 1) /\ w = Ends(c, k) - since_sent
<1> DEFINE b == Begins(c, k)
           e == Ends(c, k)
           b1 == Begins(c, k + 1)
           s == since_sent
<1>0. ~Fresh(c, n)
  BY SlotFrame DEF Fresh, HtuName
<1>1. /\ b \in Nat /\ e = b + CollectionTime /\ CollectionTime \in Nat /\ CollectionTime >= 3 /\ k \in Nat
      /\ b1 = b + SampleInterval \div c /\ SampleInterval \div c \in Nat /\ 2 * CollectionTime <= SampleInterval \div c
      /\ SampleInterval \div c <= SampleInterval
      /\ s \in 0..(SampleInterval + 1) /\ s - 1 <= b /\ Never = SampleInterval + 2 /\ SampleInterval \in Nat
      /\ c \in Nat /\ k <= c
  BY <1>0, Calendar, SlotFrame DEF Astray
<1>2. Counts(n, k, k) /\ Flags(n, TRUE, TRUE) /\ ndata[n].collecting = TRUE /\ b \in Int /\ e \in Int
  BY <1>1 DEF Astray, Flags
<1>3. b - s <= SampleInterval
  <2>1. CASE k = 0
    BY <1>1, <2>1, Calendar
  <2>2. CASE k > 0
    <3>1. s >= Begins(c, k - 1) /\ k - 1 \in Nat /\ (k - 1) + 1 = k
      BY <1>1, <2>2 DEF Astray
    <3>2. Begins(c, k) = Begins(c, k - 1) + SampleInterval \div c /\ Begins(c, k - 1) \in Nat
      BY <3>1, Calendar
    <3> QED BY <1>1, <3>1, <3>2
  <2> QED BY <1>1, <2>1, <2>2
<1>4. CASE s < b
  <2>1. Turned(n, k, k, TRUE, Least(Delta(b, s), Delta(e, s))) /\ htu' = htu
    <3>1. s < e
      BY <1>1, <1>4
    <3> QED BY <1>2, <1>4, <3>1, SlotPasses
  <2>2. Least(Delta(b, s), Delta(e, s)) = b - s /\ b - s \in 1..(SampleInterval + 1) /\ b - s \in 0..Never
    BY <1>1, <1>3, <1>4 DEF Least, Delta
  <2>3. Wake(n)' <= s + (b - s)
    BY <2>1, <2>2, SlotWake DEF Turned
  <2>4. Wake(n)' <= Begins(c, k)
    BY <1>1, <2>3
  <2>5. Astray(c, n, k)'
    BY <1>1, <1>2, <2>1, <2>4, SlotFrame DEF Astray, Turned, Flags
  <2> QED BY <1>4, <2>1, <2>2, <2>4, <2>5 DEF Turned, Slotted
<1>5. CASE s >= b
  <2>1. k < c
    <3>1. k # c
      BY <1>1, <1>5, Calendar
    <3> QED BY <1>1, <3>1
  <2>2. Turned(n, k + 1, k + 1, TRUE, Least(Delta(b + CollectionTime, s), Delta(e, s))) /\ htu' = htu
    <3>1. s < e
      BY <1>1
    <3> QED BY <1>1, <1>2, <1>5, <3>1, SlotSkips
  <2>3. Least(Delta(b + CollectionTime, s), Delta(e, s)) = e - s /\ e - s \in 1..(SampleInterval + 1) /\ e - s \in 0..Never
    BY <1>1, <1>5 DEF Least, Delta
  <2>4. Wake(n)' <= s + (e - s)
    BY <2>2, <2>3, SlotWake DEF Turned
  <2>5. Wake(n)' <= Begins(c, k + 1)
    <3>1. Wake(n)' \in Int
      <4>1. since_sent' \in Int /\ since_check' \in Int
        BY SlotFrame
      <4>2. wait_time' \in Int
        BY <2>2, <2>3, SlotWake DEF Turned
      <4> QED BY <4>1, <4>2 DEF Wake, Left
    <3> QED BY <1>1, <2>4, <3>1
  <2>6. Astray(c, n, k + 1)'
    <3>1. (k + 1) - 1 = k /\ k + 1 > 0
      BY <1>1
    <3> QED BY <1>1, <1>2, <1>5, <2>2, <2>5, <3>1, SlotFrame DEF Astray, Turned, Flags
  <2> QED BY <1>1, <1>5, <2>1, <2>2, <2>3, <2>5, <2>6 DEF Turned, Slotted
<1> QED BY <1>1, <1>4, <1>5

LEMMA FailedSlot ==
  ASSUME Roomy, NEW c \in SampleCount, Times(c), NEW n \in HtuName, SampleSlot(n), NEW k \in 0..c, Failed(c, n, k)
  PROVE  \E w \in 1..Never :
           /\ Slotted(n, w)
           /\ \/ Failed(c, n, k)' /\ htu' = htu /\ since_sent < Ends(c, k)
              \/ /\ Down(c, n, k + 1)' /\ k + 1 \in 0..c /\ htu' = HtuGet(htu, n).htu /\ w <= SampleInterval + 1
                 /\ since_sent \in Ends(c, k)..(Ends(c, k) + 1) /\ w = Begins(c, k + 1) - since_sent
<1> DEFINE b == Begins(c, k)
           e == Ends(c, k)
           b1 == Begins(c, k + 1)
           s == since_sent
<1>1. /\ b \in Nat /\ e = b + CollectionTime /\ CollectionTime \in Nat /\ CollectionTime >= 3 /\ k \in Nat
      /\ b1 = b + SampleInterval \div c /\ SampleInterval \div c \in Nat /\ 2 * CollectionTime <= SampleInterval \div c
      /\ SampleInterval \div c <= SampleInterval
      /\ s \in 0..(SampleInterval + 1) /\ s - 1 <= e /\ Never = SampleInterval + 2 /\ SampleInterval \in Nat
      /\ c \in Nat /\ k <= c /\ Begins(c, c) > SampleInterval + 1 /\ k > 0 /\ s >= Begins(c, k - 1)
  BY Calendar, SlotFrame DEF Failed
<1>2. /\ Counts(n, k + 1, k) /\ Flags(n, FALSE, TRUE) /\ ndata[n].collecting = FALSE
      /\ b1 \in Int /\ e \in Int /\ k + 1 \in Nat
  BY <1>1 DEF Failed, Flags
<1>3. CASE s < e
  <2>1. Turned(n, k + 1, k, FALSE, Least(Delta(b1, s), Delta(e, s))) /\ htu' = htu
    <3>1. s < b1
      BY <1>1, <1>3
    <3> QED BY <1>2, <1>3, <3>1, SlotPasses
  <2>2. PICK w \in 1..Never : w = Least(Delta(b1, s), Delta(e, s)) /\ w <= e - s
    <3>1. Least(Delta(b1, s), Delta(e, s)) \in 1..Never /\ Least(Delta(b1, s), Delta(e, s)) <= e - s
      BY <1>1, <1>3 DEF Least, Delta
    <3> QED BY <3>1
  <2>3. Wake(n)' <= s + w /\ wait_time' \in Int
    BY <1>1, <2>1, <2>2, SlotWake DEF Turned
  <2>4. Wake(n)' <= e
    <3>1. since_sent' \in Int /\ since_check' \in Int
      BY SlotFrame
    <3>2. Wake(n)' \in Int
      BY <2>3, <3>1 DEF Wake, Left
    <3> QED BY <1>1, <2>2, <2>3, <3>2
  <2>5. Failed(c, n, k)'
    BY <1>1, <1>2, <2>1, <2>4, SlotFrame DEF Failed, Turned, Flags
  <2> QED BY <1>3, <2>1, <2>2, <2>5 DEF Turned, Slotted
<1>4. CASE s >= e
  <2>1. k < c
    <3>1. k # c
      BY <1>1, <1>4
    <3> QED BY <1>1, <3>1
  <2>2. /\ Turned(n, k + 1, k + 1, FALSE, Least(Delta(b1, s), Delta(e + SampleInterval \div c, CollectionTime + s)))
        /\ htu' = HtuGet(htu, n).htu
    <3>1. s < b1
      BY <1>1
    <3> QED BY <1>2, <1>4, <3>1, SlotTakes
  <2>3. /\ Least(Delta(b1, s), Delta(e + SampleInterval \div c, CollectionTime + s)) = b1 - s
        /\ b1 - s \in 1..(SampleInterval + 1) /\ b1 - s \in 1..Never /\ b1 - s \in 0..Never
    BY <1>1, <1>4 DEF Least, Delta
  <2>4. Wake(n)' <= s + (b1 - s)
    BY <2>2, <2>3, SlotWake DEF Turned
  <2>5. n \notin htu'.flags
    BY <2>2, FlagTakenDown DEF Times
  <2>6. Down(c, n, k + 1)'
    BY <1>1, <1>4, <2>2, <2>4, <2>5, SlotFrame DEF Down, Turned, Flags
  <2> QED BY <1>1, <1>4, <2>1, <2>2, <2>3, <2>6 DEF Turned, Slotted
<1> QED BY <1>1, <1>3, <1>4

LEMMA DeltaIs == ASSUME NEW x \in Int, NEW y \in Int, SampleInterval \in Nat PROVE Delta(x, y) \in 0..Never
BY DEF Delta, Least, Never

LEMMA StaleSlot ==
  ASSUME Roomy, NEW c \in SampleCount, Times(c), NEW n \in HtuName, SampleSlot(n), Stale(c, n)
  PROVE  \E w \in 0..Never :
           /\ Slotted(n, w)
           /\ \/ Stale(c, n)' /\ htu' = htu /\ since_sent < Ends(c, 0)
              \/ /\ Counts(n, 0, 1)' /\ Flags(n, FALSE, FALSE)' /\ w = 0
                 /\ Wake(n)' \in Ends(c, 0)..(Ends(c, 0) + 1)
                 /\ since_sent \in Ends(c, 0)..(Ends(c, 0) + 1) /\ htu' = HtuGet(htu, n).htu
<1> DEFINE b == Begins(c, 0)
           e == Ends(c, 0)
           s == since_sent
<1>1. /\ b \in Nat /\ e = b + CollectionTime /\ CollectionTime \in Nat /\ CollectionTime >= 3 /\ b <= SampleInterval
      /\ s \in 0..(SampleInterval + 1) /\ s - 1 <= e /\ Never = SampleInterval + 2 /\ SampleInterval \in Nat
  BY Calendar, SlotFrame DEF Stale
<1>2. /\ Counts(n, 0, 0) /\ Flags(n, FALSE, TRUE) /\ ndata[n].collecting = FALSE /\ fault_in # "early"
      /\ b \in Int /\ e \in Int
  BY <1>1 DEF Stale, Flags
<1>3. since_sent' \in Int /\ since_check' \in Int /\ since_sent' = since_sent /\ fault_in' = fault_in
  BY SlotFrame
<1>4. CASE s < b
  <2>1. Turned(n, 0, 0, FALSE, Least(Delta(b, s), Delta(e, s))) /\ htu' = htu
    <3>1. s < e
      BY <1>1, <1>4
    <3> QED BY <1>2, <1>4, <3>1, SlotPasses
  <2>2. Least(Delta(b, s), Delta(e, s)) = b - s /\ b - s \in 0..Never
    BY <1>1, <1>4 DEF Least, Delta
  <2>3. Wake(n)' <= s + (b - s) /\ wait_time' \in Int
    BY <1>1, <2>1, <2>2, SlotWake DEF Turned
  <2>4. Wake(n)' <= e /\ s < e
    <3>1. Wake(n)' \in Int
      BY <1>3, <2>3 DEF Wake, Left
    <3> QED BY <1>1, <1>4, <2>3, <3>1
  <2>5. Stale(c, n)'
    BY <1>2, <1>3, <2>1, <2>4 DEF Stale, Turned, Flags
  <2> QED BY <2>1, <2>2, <2>4, <2>5 DEF Turned, Slotted
<1>5. CASE s >= b
  <2>1. PICK v : /\ IF s >= e THEN Turned(n, 0, 0 + 1, FALSE, Least(0, v)) /\ htu' = HtuGet(htu, n).htu
                    ELSE Turned(n, 0, 0, FALSE, Least(0, v)) /\ htu' = htu
                 /\ \E x, y \in Int : v = Delta(x, y)
    <3>1. 0 \in Nat
      OBVIOUS
    <3> QED BY <1>2, <1>5, <3>1, SlotRetries
  <2>2. v \in 0..Never
    BY <1>1, <2>1, DeltaIs
  <2>3. Least(0, v) = 0 /\ 0 \in 0..Never /\ 0 + 1 = 1
    BY <1>1, <2>2 DEF Least
  <2>4. Wake(n)' <= s + 0 /\ wait_time' \in Int /\ wait_time' = 0
    <3>1. wait_time' = Least(wait_time, 0) /\ wait_time \in 0..Never
      BY <2>1, <2>3, SlotFrame, Zenon DEF Turned
    <3>2. wait_time' = 0
      BY <1>1, <3>1 DEF Least
    <3> QED BY <1>1, <2>1, <2>3, <3>2, SlotWake DEF Turned
  <2>5. Wake(n)' <= s
    <3>1. Wake(n)' \in Int
      BY <1>3, <2>4 DEF Wake, Left
    <3> QED BY <1>1, <2>4, <3>1
  <2>6. Wake(n)' \in Int
    BY <1>3, <2>4 DEF Wake, Left
  <2>7. CASE s >= e
    <3>1. Turned(n, 0, 1, FALSE, 0) /\ htu' = HtuGet(htu, n).htu
      BY <2>1, <2>3, <2>7
    <3>2. n \notin htu'.flags
      BY <3>1, FlagTakenDown DEF Times
    <3>3. Wake(n)' \in e..(e + 1) /\ s \in e..(e + 1)
      <4>1. at' # <<"sample", "T">> /\ at' # <<"sample", n>> /\ since_check' = 0 /\ since_sent' = s
        BY SlotFrame DEF HtuName
      <4>2. Wake(n)' = s
        BY <1>1, <2>4, <4>1 DEF Wake, Unslotted, Left
      <4> QED BY <1>1, <2>7, <4>2
    <3>4. Counts(n, 0, 1)' /\ Flags(n, FALSE, FALSE)' /\ Slotted(n, 0)
      BY <3>1, <3>2, Zenon DEF Turned, Slotted, Flags
    <3> QED BY <2>3, <3>1, <3>3, <3>4, Zenon
  <2>8. CASE ~(s >= e)
    <3>1. Turned(n, 0, 0, FALSE, 0) /\ htu' = htu
      BY <2>1, <2>3, <2>8
    <3>2. Wake(n)' <= e /\ s < e
      BY <1>1, <2>5, <2>6, <2>8
    <3>3. Stale(c, n)'
      BY <1>2, <1>3, <3>1, <3>2 DEF Stale, Turned, Flags
    <3> QED BY <2>3, <3>1, <3>2, <3>3 DEF Turned, Slotted
  <2> QED BY <2>7, <2>8
<1>6. s < b \/ s >= b
  BY <1>1
<1> QED BY <1>4, <1>5, <1>6, Zenon

LEMMA LateSlot ==
  ASSUME Roomy, NEW c \in SampleCount, Times(c), NEW n \in HtuName, SampleSlot(n), Late(c, n)
  PROVE  \E w \in 1..(SampleInterval + 1) :
           /\ Slotted(n, w) /\ htu' = HtuInit(htu, n).htu /\ w = Ends(c, 1) - since_sent
           /\ Counts(n, 1, 1)' /\ Flags(n, TRUE, TRUE)' /\ Wake(n)' <= Ends(c, 1)
           /\ since_sent \in (Ends(c, 0) + 1)..(Ends(c, 0) + 2)
<1> DEFINE b == Begins(c, 0)
           e == Ends(c, 0)
           e1 == Ends(c, 1)
           s == since_sent
<1>1. /\ b \in Nat /\ e = b + CollectionTime /\ CollectionTime \in Nat /\ CollectionTime >= 3 /\ b <= SampleInterval
      /\ SampleInterval \div c <= SampleInterval /\ Begins(c, 1) = b + SampleInterval \div c /\ SampleInterval \div c \in Nat /\ 2 * CollectionTime <= SampleInterval \div c
      /\ e1 = Begins(c, 1) + CollectionTime
      /\ s \in 0..(SampleInterval + 1) /\ s - 1 \in e..(e + 1) /\ Never = SampleInterval + 2 /\ SampleInterval \in Nat
  <2>1. 0 \in Nat /\ 1 \in Nat /\ 0 + 1 = 1
    OBVIOUS
  <2> QED BY <2>1, Calendar, SlotFrame DEF Late
<1>2. /\ Counts(n, 0, 1) /\ Flags(n, FALSE, FALSE) /\ b \in Int /\ e1 \in Int
  <2>1. b \in Int /\ e1 \in Int
    BY <1>1
  <2> QED BY <2>1, Zenon DEF Late
<1>3. /\ Turned(n, 0 + 1, 1, TRUE, Least(Delta(b + CollectionTime, s), Delta(e1, s)))
      /\ htu' = HtuInit(htu, n).htu
  <2>1. 0 \in Nat /\ 1 \in Nat /\ 0 <= 1 /\ s >= b /\ s < e1
    BY <1>1
  <2> QED BY <1>2, <2>1, SlotStarts
<1> DEFINE w == e1 - s
<1>4. w = Least(Delta(b + CollectionTime, s), Delta(e1, s)) /\ w \in 1..(SampleInterval + 1) /\ w \in 0..Never
  BY <1>1 DEF Least, Delta
<1>5. Wake(n)' <= s + w /\ wait_time' \in Int
  BY <1>1, <1>3, <1>4, SlotWake DEF Turned
<1>6. Wake(n)' <= e1
  <2>1. since_sent' \in Int /\ since_check' \in Int
    BY SlotFrame
  <2>2. Wake(n)' \in Int
    BY <1>5, <2>1 DEF Wake, Left
  <2> QED BY <1>1, <1>4, <1>5, <2>2
<1>7. n \in htu'.flags
  BY <1>2, <1>3, FlagRaised DEF Times, Flags
<1> QED BY <1>1, <1>3, <1>4, <1>6, <1>7 DEF Turned, Slotted, Flags
-----------------------------------------------------------------------------
(* What the phases say, and that one stays as the time of its sample nears. *)

LEMMA WakeIsInt ==
  ASSUME NEW c \in SampleCount, Times(c), NEW n \in HtuName
  PROVE  /\ Wake(n) \in Int /\ Left \in Int /\ since_sent \in Int /\ wait_time \in Int /\ since_check \in Int
         /\ SampleInterval \in Nat /\ Never = SampleInterval + 2
<1>1. SampleInterval \in Nat
  BY SamplerAssumption
<1> QED BY <1>1 DEF Times, Wake, Left, Never

LEMMA PhaseIs ==
  ASSUME NEW c \in Nat, NEW n \in HtuName, NEW k \in 0..c
  PROVE  /\ Good(c, n) /\ Counts(n, k + 1, k) => In(c, n, k)
         /\ (Good(c, n) \/ Bad(c, n)) /\ Counts(n, k + 1, k) /\ ndata[n].collecting = TRUE => In(c, n, k)
         /\ (Good(c, n) \/ Bad(c, n)) /\ Counts(n, k, k) /\ Flags(n, FALSE, FALSE) => Down(c, n, k)
         /\ (Good(c, n) \/ Bad(c, n)) /\ Counts(n, k, k) /\ k > 0 => Down(c, n, k) \/ Astray(c, n, k)
         /\ Good(c, n) => ~Counts(n, 0, 1)
<1>1. ASSUME NEW j \in 0..c, Down(c, n, j) \/ Astray(c, n, j)
      PROVE  /\ ~Counts(n, k + 1, k) /\ (Counts(n, k, k) => j = k) /\ ~Counts(n, 0, 1)
  <2>1. Counts(n, j, j)
    BY <1>1 DEF Down, Astray
  <2> QED BY <2>1 DEF Counts
<1>2. ASSUME NEW j \in 0..c, In(c, n, j) \/ Failed(c, n, j)
      PROVE  /\ ~Counts(n, k, k) /\ (Counts(n, k + 1, k) => j = k) /\ ~Counts(n, 0, 1)
  <2>1. Counts(n, j + 1, j)
    BY <1>2 DEF In, Failed
  <2> QED BY <2>1 DEF Counts
<1>3. ASSUME Stale(c, n) PROVE /\ ~Counts(n, k + 1, k) /\ (Counts(n, k, k) => k = 0)
  BY <1>3 DEF Stale, Counts
<1>4. ASSUME Late(c, n) PROVE /\ ~Counts(n, k + 1, k) /\ ~Counts(n, k, k)
  BY <1>4 DEF Late, Counts
<1>5. Bad(c, n) => ndata[n].collecting = FALSE
  BY DEF Bad, Failed, Stale, Late, Flags
<1>6. \A j \in 0..c : Astray(c, n, j) => ~Flags(n, FALSE, FALSE)
  BY DEF Astray, Flags
<1>7. Stale(c, n) => ~Flags(n, FALSE, FALSE)
  BY DEF Stale, Flags
<1>8. ASSUME Good(c, n) PROVE ~Counts(n, 0, 1) /\ (Counts(n, k + 1, k) => In(c, n, k))
                              /\ (Counts(n, k, k) => Down(c, n, k) \/ Astray(c, n, k))
  BY <1>8, <1>1, <1>2 DEF Good
<1>9. ASSUME Bad(c, n) PROVE Counts(n, k, k) => k = 0 /\ Stale(c, n)
  BY <1>9, <1>2, <1>3, <1>4 DEF Bad
<1>10. ~(k > 0 /\ k = 0)
  OBVIOUS
<1> QED BY <1>5, <1>6, <1>7, <1>8, <1>9, <1>10, Zenon

LEMMA PhaseStays ==
  ASSUME Roomy, NEW c \in SampleCount, Times(c), NEW n \in HtuName, ndata'[n] = ndata[n], n \in htu'.flags <=> n \in htu.flags,
         since_sent' \in Int, since_sent' >= since_sent, Wake(n)' \in Int, Wake(n)' <= Wake(n)
  PROVE  /\ \A k \in 0..c : /\ Down(c, n, k) => Down(c, n, k)'
                            /\ In(c, n, k) => In(c, n, k)'
                            /\ Astray(c, n, k) /\ ~Fresh(c, n) => Astray(c, n, k)'
                            /\ fault_in' = fault_in /\ Failed(c, n, k) => Failed(c, n, k)'
         /\ fault_in' = fault_in /\ Stale(c, n) => Stale(c, n)'
<1>1. /\ Wake(n) \in Int /\ since_sent \in Int /\ c \in Nat
      /\ \A k \in Nat : Begins(c, k) \in Int /\ Ends(c, k) \in Int
  <2>1. /\ c \in Nat /\ CollectionTime \in Nat
        /\ \A k \in Nat : Begins(c, k) \in Nat /\ Ends(c, k) = Begins(c, k) + CollectionTime
    BY Calendar
  <2>2. Wake(n) \in Int /\ since_sent \in Int
    BY WakeIsInt
  <2> QED BY <2>1, <2>2
<1>2. \A i, k : Counts(n, i, k) => Counts(n, i, k)'
  BY DEF Counts
<1>3. \A g, u \in BOOLEAN : Flags(n, g, u) => Flags(n, g, u)'
  BY DEF Flags
<1>4. ASSUME NEW k \in 0..c
      PROVE  /\ Down(c, n, k) => Down(c, n, k)'
             /\ In(c, n, k) => In(c, n, k)'
             /\ Astray(c, n, k) /\ ~Fresh(c, n) => Astray(c, n, k)'
             /\ fault_in' = fault_in /\ Failed(c, n, k) => Failed(c, n, k)'
  <2>1. k \in Nat /\ (k > 0 => k - 1 \in Nat)
    BY <1>1
  <2>2. Begins(c, k) \in Int /\ Ends(c, k) \in Int /\ (k > 0 => Begins(c, k - 1) \in Int /\ Ends(c, k - 1) \in Int)
    BY <1>1, <2>1
  <2>3. ASSUME Down(c, n, k) PROVE Down(c, n, k)'
    <3>1. /\ Counts(n, k, k)' /\ Flags(n, FALSE, FALSE)'
      BY <1>2, <1>3, <2>3 DEF Down
    <3>2. (k > 0 => since_sent' >= Ends(c, k - 1)) /\ Wake(n)' <= Begins(c, k)
      BY <1>1, <2>2, <2>3 DEF Down
    <3> QED BY <2>3, <3>1, <3>2, Zenon DEF Down
  <2>4. ASSUME In(c, n, k) PROVE In(c, n, k)'
    <3>1. /\ Counts(n, k + 1, k)' /\ Flags(n, TRUE, TRUE)'
      BY <1>2, <1>3, <2>4 DEF In
    <3>2. since_sent' >= Begins(c, k) /\ Wake(n)' <= Ends(c, k)
      BY <1>1, <2>2, <2>4 DEF In
    <3> QED BY <2>4, <3>1, <3>2, Zenon DEF In
  <2>5. ASSUME Astray(c, n, k), ~Fresh(c, n) PROVE Astray(c, n, k)'
    <3>1. /\ Counts(n, k, k)' /\ Flags(n, TRUE, TRUE)'
      BY <1>2, <1>3, <2>5 DEF Astray
    <3>2. (k > 0 => since_sent' >= Begins(c, k - 1)) /\ Wake(n)' <= Begins(c, k)
      BY <1>1, <2>2, <2>5 DEF Astray
    <3> QED BY <2>5, <3>1, <3>2, Zenon DEF Astray
  <2>6. ASSUME fault_in' = fault_in, Failed(c, n, k) PROVE Failed(c, n, k)'
    <3>1. /\ Counts(n, k + 1, k)' /\ Flags(n, FALSE, TRUE)'
      BY <1>2, <1>3, <2>6 DEF Failed
    <3>2. since_sent' >= Begins(c, k - 1) /\ Wake(n)' <= Ends(c, k) /\ (fault_in' = "early" => k < c /\ since_sent' >= 2)
      BY <1>1, <2>2, <2>6 DEF Failed
    <3> QED BY <2>6, <3>1, <3>2, Zenon DEF Failed
  <2> QED BY <2>3, <2>4, <2>5, <2>6
<1>5. ASSUME fault_in' = fault_in, Stale(c, n) PROVE Stale(c, n)'
  <2>1. /\ Counts(n, 0, 0)' /\ Flags(n, FALSE, TRUE)' /\ Ends(c, 0) \in Int
    BY <1>1, <1>2, <1>3, <1>5 DEF Stale
  <2>2. Wake(n)' <= Ends(c, 0)
    BY <1>1, <1>5, <2>1 DEF Stale
  <2> QED BY <1>5, <2>1, <2>2, Zenon DEF Stale
<1> QED BY <1>4, <1>5

LEMMA GoodStays ==
  ASSUME Roomy, NEW c \in SampleCount, Times(c), NEW n \in HtuName, ndata'[n] = ndata[n], n \in htu'.flags <=> n \in htu.flags,
         since_sent' \in Int, since_sent' >= since_sent, Wake(n)' \in Int, Wake(n)' <= Wake(n)
  PROVE  /\ Good(c, n) /\ ~Fresh(c, n) => Good(c, n)'
         /\ fault_in' = fault_in /\ Bad(c, n) /\ ~Late(c, n) => Bad(c, n)'
<1>1. /\ \A k \in 0..c : /\ Down(c, n, k) => Down(c, n, k)'
                         /\ In(c, n, k) => In(c, n, k)'
                         /\ Astray(c, n, k) /\ ~Fresh(c, n) => Astray(c, n, k)'
                         /\ fault_in' = fault_in /\ Failed(c, n, k) => Failed(c, n, k)'
      /\ fault_in' = fault_in /\ Stale(c, n) => Stale(c, n)'
  BY PhaseStays
<1> QED BY <1>1 DEF Good, Bad
-----------------------------------------------------------------------------
(* The turn of the temperature.                                            *)

LEMMA SlotChip ==
  ASSUME NEW n \in HtuName, htu \in HtuState,
         \/ htu' = htu
         \/ htu' = HtuGet(htu, n).htu
         \/ n \notin htu.flags /\ htu' = HtuInit(htu, n).htu
  PROVE  /\ htu' \in HtuState /\ htu'.valid = htu.valid /\ htu'.state["H"] = htu.state["H"]
         /\ \/ htu'.state["T"] = htu.state["T"]
            \/ htu.flags = {} /\ htu'.state["T"] = "req" /\ htu' = HtuInit(htu, n).htu
         /\ \A m \in HtuName \ {n} : m \in htu'.flags <=> m \in htu.flags
<1>1. CASE htu' = htu
  BY <1>1
<1>2. CASE htu' = HtuGet(htu, n).htu
  BY <1>2, FlagTakenDown
<1>3. CASE n \notin htu.flags /\ htu' = HtuInit(htu, n).htu
  BY <1>3, FlagRaised
<1> QED BY <1>1, <1>2, <1>3

\* What the turn of n leaves to the other.
LEMMA SlotOther ==
  ASSUME NEW c \in SampleCount, Times(c), NEW n \in HtuName, SampleSlot(n), NEW w \in 0..Never, Slotted(n, w)
  PROVE  /\ Wake(Other(n))' \in Int /\ Wake(Other(n))' <= Wake(Other(n)) /\ Wake(n)' \in Int
         /\ n = "T" => Wake("H")' = Wake("H")
         /\ n = "H" => Wake("T")' = since_sent + wait_time' /\ Wake("T") = since_sent + wait_time
         /\ n = "H" => Wake("H")' = since_sent + wait_time'
<1>1. wait_time' \in 0..Never /\ wait_time' <= wait_time
  BY SlotWake DEF Slotted
<1>2. /\ at = <<"sample", n>> /\ at' = IF n = "T" THEN <<"sample", "H">> ELSE <<"send", "T">>
      /\ since_sent' = since_sent /\ since_check' = since_check /\ since_check = 0
      /\ since_sent \in Int /\ wait_time \in Int
  BY SlotFrame, WakeIsInt
<1>3. CASE n = "T"
  BY <1>1, <1>2, <1>3 DEF Wake, Unslotted, Left, Other
<1>4. CASE n = "H"
  <2>1. /\ Unslotted("H") /\ ~Unslotted("T") /\ ~Unslotted("H")' /\ ~Unslotted("T")' /\ Other(n) = "T"
        /\ since_check = 0 /\ since_check' = 0
    BY <1>2, <1>4 DEF Unslotted, Other
  <2>2. /\ Wake("H") = since_sent - 1 /\ Wake("T") = since_sent + (wait_time - 0)
        /\ Wake("H")' = since_sent + (wait_time' - 0) /\ Wake("T")' = since_sent + (wait_time' - 0)
    BY <1>2, <2>1 DEF Wake, Left
  <2>3. n # "T" /\ wait_time' \in Int /\ wait_time' - 0 = wait_time' /\ wait_time - 0 = wait_time
    <3>1. wait_time' \in Int /\ wait_time \in Int
      BY <1>1, <1>2
    <3>2. \A x \in Int : x - 0 = x
      OBVIOUS
    <3>3. n # "T"
      BY <1>4
    <3> QED BY <3>1, <3>2, <3>3, Zenon
  <2> QED BY <1>1, <1>2, <1>4, <2>1, <2>2, <2>3
<1> QED BY <1>3, <1>4 DEF HtuName

\* The times a slot compares: of the same sample, or of samples an interval apart.
LEMMA Spaced ==
  ASSUME Roomy, NEW c \in SampleCount, NEW j \in Nat, NEW k \in Nat
  PROVE  /\ Begins(c, j) \in Nat /\ Ends(c, j) = Begins(c, j) + CollectionTime /\ CollectionTime \in Nat /\ CollectionTime >= 3
         /\ Begins(c, j + 1) = Begins(c, j) + SampleInterval \div c
         /\ SampleInterval \div c \in Nat /\ 2 * CollectionTime <= SampleInterval \div c
         /\ Begins(c, k) \in Nat /\ Ends(c, k) = Begins(c, k) + CollectionTime
         /\ \/ j = k
            \/ j < k /\ Begins(c, j) + SampleInterval \div c <= Begins(c, k)
            \/ k < j /\ Begins(c, k) + SampleInterval \div c <= Begins(c, j)
<1>1. j = k \/ j < k \/ k < j
  OBVIOUS
<1> QED BY <1>1, Calendar

LEMMA TurnOfT ==
  ASSUME Roomy, NEW c \in SampleCount, FaultInv(c), SampleSlot("T")
  PROVE  \E w \in 0..Never :
           /\ Slotted("T", w)
           /\ \/ htu' = htu
              \/ htu' = HtuGet(htu, "T").htu
              \/ /\ "T" \notin htu.flags /\ htu' = HtuInit(htu, "T").htu
                 /\ Good(c, "H") \/ "H" \in htu.flags
           /\ \/ Good(c, "T")' /\ w \in 1..(SampleInterval + 1)
              \/ Bad(c, "T") /\ Bad(c, "T")' /\ (htu' = htu \/ htu' = HtuGet(htu, "T").htu)
           /\ \/ "T" \in htu.flags /\ htu' = htu
              \/ \A k \in 0..c : Down(c, "H", k) => since_sent <= Begins(c, k) \/ w >= 2
<1> DEFINE s == since_sent
           Chip0 == \/ htu' = htu
                    \/ htu' = HtuGet(htu, "T").htu
                    \/ /\ "T" \notin htu.flags /\ htu' = HtuInit(htu, "T").htu
                       /\ Good(c, "H") \/ "H" \in htu.flags
           Joined(w) == \/ "T" \in htu.flags /\ htu' = htu
                        \/ \A k \in 0..c : Down(c, "H", k) => s <= Begins(c, k) \/ w >= 2
           Goal == \E w \in 0..Never :
                     /\ Slotted("T", w) /\ Chip0
                     /\ \/ Good(c, "T")' /\ w \in 1..(SampleInterval + 1)
                        \/ Bad(c, "T") /\ Bad(c, "T")' /\ (htu' = htu \/ htu' = HtuGet(htu, "T").htu)
                     /\ Joined(w)
<1>1. /\ Times(c) /\ Phases(c) /\ "T" \in HtuName /\ "H" \in HtuName /\ c \in Nat /\ c >= 1
      /\ s \in Nat /\ Never = SampleInterval + 2 /\ SampleInterval \in Nat /\ Wake("H") = s - 1
      /\ at = <<"sample", "T">> /\ at' = <<"sample", "H">> /\ since_sent' = s /\ fault_in' = fault_in
  <2>1. Times(c) /\ Phases(c) /\ "T" \in HtuName /\ "H" \in HtuName
    BY DEF FaultInv, HtuName
  <2>2. Wake("H") = s - 1
    BY <2>1, SlotFrame DEF Wake, Unslotted
  <2> QED BY <2>1, <2>2, SlotFrame, Calendar
<1>2. \A k \in 0..c : Down(c, "H", k) => s - 1 <= Begins(c, k)
  BY <1>1 DEF Down
<1>3. \A w \in 1..(SampleInterval + 1) : w \in 0..Never
  BY <1>1
<1>4. ASSUME NEW j \in 0..c, Down(c, "T", j) PROVE Goal
  <2>1. PICK w \in 1..(SampleInterval + 1) :
           /\ Slotted("T", w)
           /\ \/ /\ Down(c, "T", j)' /\ htu' = htu
                 /\ since_sent < Begins(c, j) /\ w = Begins(c, j) - since_sent
              \/ /\ In(c, "T", j)' /\ htu' = HtuInit(htu, "T").htu
                 /\ since_sent \in Begins(c, j)..(Begins(c, j) + 1) /\ w = Ends(c, j) - since_sent
    BY <1>1, <1>4, DownSlot
  <2>2. Good(c, "T")'
    BY <2>1 DEF Good
  <2>3. "T" \notin htu.flags
    BY <1>4 DEF Down, Flags
  <2>4. Joined(w)
    <3>1. SUFFICES ASSUME NEW k \in 0..c, Down(c, "H", k), ~(s <= Begins(c, k)) PROVE w >= 2
      OBVIOUS
    <3>2. j \in Nat /\ k \in Nat /\ s - 1 <= Begins(c, k)
      BY <1>1, <1>2, <3>1
    <3>3. CASE s < Begins(c, j) /\ w = Begins(c, j) - s
      <4>1. k < j /\ Begins(c, k) + SampleInterval \div c <= Begins(c, j)
        <5>1. /\ SampleInterval \div c \in Nat /\ Begins(c, j) \in Nat /\ Begins(c, k) \in Nat
              /\ \/ j = k
                 \/ j < k /\ Begins(c, j) + SampleInterval \div c <= Begins(c, k)
                 \/ k < j /\ Begins(c, k) + SampleInterval \div c <= Begins(c, j)
          BY <3>2, Spaced
        <5>2. Begins(c, k) < Begins(c, j)
          BY <1>1, <3>1, <3>3, <5>1
        <5> QED BY <5>1, <5>2
      <4> QED BY <1>1, <3>2, <3>3, <4>1, Spaced
    <3>4. CASE s \in Begins(c, j)..(Begins(c, j) + 1) /\ w = Ends(c, j) - s
      BY <1>1, <3>2, <3>4, Spaced
    <3> QED BY <2>1, <3>3, <3>4
  <2>5. htu' = htu \/ (Good(c, "H") \/ "H" \in htu.flags)
    <3>1. SUFFICES ASSUME htu' # htu PROVE Good(c, "H") \/ "H" \in htu.flags
      OBVIOUS
    <3>2. since_sent \in Begins(c, j)..(Begins(c, j) + 1)
      BY <2>1, <3>1
    <3>3. ~Late(c, "H")
      <4>1. SUFFICES ASSUME Late(c, "H") PROVE FALSE
        OBVIOUS
      <4>2. Counts("T", 1, 1) /\ s - 1 \in Ends(c, 0)..(Ends(c, 0) + 1)
        BY <1>1, <4>1 DEF Late, Other
      <4>3. j = 1
        BY <1>4, <4>2 DEF Down, Counts
      <4>4. 0 \in Nat /\ 1 \in Nat /\ 0 + 1 = 1
        OBVIOUS
      <4>5. Begins(c, 1) = Begins(c, 0) + SampleInterval \div c
        BY <4>4, Spaced
      <4> QED BY <1>1, <3>2, <4>2, <4>3, <4>4, <4>5, Spaced
    <3>4. Good(c, "H") \/ (\E k \in 0..c : Failed(c, "H", k)) \/ Stale(c, "H")
      BY <1>1, <3>3 DEF Phases, Bad
    <3> QED BY <3>4 DEF Failed, Stale, Flags
  <2> QED BY <1>3, <2>1, <2>2, <2>3, <2>4, <2>5
<1>5. ASSUME NEW j \in 0..c, In(c, "T", j) PROVE Goal
  <2>1. PICK w \in 1..(SampleInterval + 1) :
           /\ Slotted("T", w)
           /\ \/ /\ In(c, "T", j)' /\ htu' = htu
                 /\ since_sent < Ends(c, j) /\ w = Ends(c, j) - since_sent
              \/ /\ Down(c, "T", j + 1)' /\ j + 1 \in 0..c /\ htu' = HtuGet(htu, "T").htu
                 /\ since_sent \in Ends(c, j)..(Ends(c, j) + 1) /\ w = Begins(c, j + 1) - since_sent
    BY <1>1, <1>5, InSlot
  <2>2. Good(c, "T")'
    BY <2>1 DEF Good
  <2>3. Joined(w)
    <3>1. CASE htu' = htu
      BY <1>5, <3>1 DEF In, Flags
    <3>2. CASE since_sent \in Ends(c, j)..(Ends(c, j) + 1) /\ w = Begins(c, j + 1) - since_sent
      <4>1. j \in Nat
        BY <1>1
      <4>2. w >= 2
        BY <1>1, <3>2, <4>1, Spaced
      <4> QED BY <4>2
    <3> QED BY <2>1, <3>1, <3>2
  <2> QED BY <1>3, <2>1, <2>2, <2>3
<1>6. ASSUME NEW j \in 0..c, Astray(c, "T", j) PROVE Goal
  <2>1. PICK w \in 1..(SampleInterval + 1) :
           /\ Slotted("T", w) /\ htu' = htu
           /\ Astray(c, "T", j)' \/ (Astray(c, "T", j + 1)' /\ j + 1 \in 0..c)
    <3>1. PICK w \in 1..(SampleInterval + 1) :
           /\ Slotted("T", w) /\ htu' = htu
           /\ \/ /\ Astray(c, "T", j)' /\ Wake("T")' <= Begins(c, j)
                 /\ since_sent < Begins(c, j) /\ w = Begins(c, j) - since_sent
              \/ /\ Astray(c, "T", j + 1)' /\ Wake("T")' <= Begins(c, j + 1) /\ j + 1 \in 0..c
                 /\ since_sent \in Begins(c, j)..(Begins(c, j) + 1) /\ w = Ends(c, j) - since_sent
      BY <1>1, <1>6, AstraySlot
    <3> QED BY <3>1
  <2>2. Good(c, "T")'
    BY <2>1 DEF Good
  <2>3. Joined(w)
    BY <1>6, <2>1 DEF Astray, Flags
  <2> QED BY <1>3, <2>1, <2>2, <2>3
<1>7. ASSUME NEW j \in 0..c, Failed(c, "T", j) PROVE Goal
  <2>1. PICK w \in 1..Never :
           /\ Slotted("T", w)
           /\ \/ Failed(c, "T", j)' /\ htu' = htu /\ since_sent < Ends(c, j)
              \/ /\ Down(c, "T", j + 1)' /\ j + 1 \in 0..c /\ htu' = HtuGet(htu, "T").htu /\ w <= SampleInterval + 1
                 /\ since_sent \in Ends(c, j)..(Ends(c, j) + 1) /\ w = Begins(c, j + 1) - since_sent
    BY <1>1, <1>7, FailedSlot
  <2>2. CASE Failed(c, "T", j)' /\ htu' = htu
    <3>1. Bad(c, "T") /\ Bad(c, "T")' /\ Joined(w)
      BY <1>7, <2>2 DEF Bad, Failed, Flags
    <3>2. w \in 0..Never
      BY <1>1
    <3> QED BY <2>1, <2>2, <3>1, <3>2
  <2>3. CASE /\ Down(c, "T", j + 1)' /\ j + 1 \in 0..c /\ htu' = HtuGet(htu, "T").htu /\ w <= SampleInterval + 1
             /\ since_sent \in Ends(c, j)..(Ends(c, j) + 1) /\ w = Begins(c, j + 1) - since_sent
    <3>1. Good(c, "T")' /\ w \in 1..(SampleInterval + 1) /\ w \in 0..Never /\ j \in Nat
      BY <1>1, <2>3 DEF Good
    <3>2. w >= 2
      BY <1>1, <2>3, <3>1, Spaced
    <3> QED BY <2>1, <2>3, <3>1, <3>2
  <2> QED BY <2>1, <2>2, <2>3
<1>8. ASSUME Stale(c, "T") PROVE Goal
  <2>1. PICK w \in 0..Never :
           /\ Slotted("T", w)
           /\ \/ Stale(c, "T")' /\ htu' = htu /\ since_sent < Ends(c, 0)
              \/ /\ Counts("T", 0, 1)' /\ Flags("T", FALSE, FALSE)' /\ w = 0
                 /\ Wake("T")' \in Ends(c, 0)..(Ends(c, 0) + 1)
                 /\ since_sent \in Ends(c, 0)..(Ends(c, 0) + 1) /\ htu' = HtuGet(htu, "T").htu
    BY <1>1, <1>8, StaleSlot
  <2>2. CASE Stale(c, "T")' /\ htu' = htu
    <3>1. Bad(c, "T") /\ Bad(c, "T")' /\ Joined(w)
      BY <1>8, <2>2 DEF Bad, Stale, Flags
    <3> QED BY <2>1, <2>2, <3>1
  <2>3. CASE /\ Counts("T", 0, 1)' /\ Flags("T", FALSE, FALSE)'
             /\ Wake("T")' \in Ends(c, 0)..(Ends(c, 0) + 1)
             /\ since_sent \in Ends(c, 0)..(Ends(c, 0) + 1) /\ htu' = HtuGet(htu, "T").htu
    <3>1. Good(c, "H")
      <4>1. ndata["T"].init = 0 /\ ndata["T"].collecting = FALSE /\ "T" \in htu.flags
        BY <1>8 DEF Stale, Counts, Flags
      <4>2. ~Good(c, "T")
        BY <4>1 DEF Good, Down, In, Astray, Flags
      <4> QED BY <1>1, <4>2 DEF Phases
    <3>2. /\ 0 \in Nat /\ 1 \in Nat /\ 0 + 1 = 1 /\ 0 \in 0..c /\ 1 \in 0..c
          /\ Begins(c, 1) = Begins(c, 0) + SampleInterval \div c
      <4>1. 0 \in Nat /\ 1 \in Nat /\ 0 + 1 = 1 /\ 0 \in 0..c /\ 1 \in 0..c
        BY <1>1
      <4> QED BY <4>1, Spaced
    <3>3. ASSUME NEW k \in 0..c, s - 1 <= Begins(c, k) PROVE k >= 1 /\ s <= Begins(c, k)
      <4>1. k \in Nat /\ k # 0
        BY <1>1, <2>3, <3>2, <3>3, Spaced
      <4>2. k = 1 \/ Begins(c, 1) + SampleInterval \div c <= Begins(c, k)
        BY <3>2, <4>1, Spaced
      <4>3. s <= Begins(c, 1)
        BY <1>1, <2>3, <3>2, Spaced
      <4> QED BY <1>1, <3>2, <4>1, <4>2, <4>3, Spaced
    <3>4. ASSUME NEW k \in 0..c, Begins(c, k) <= s PROVE k = 0
      BY <1>1, <2>3, <3>2, <3>4, Spaced
    <3>5. ASSUME NEW k \in 0..c, k > 0, s >= Begins(c, k - 1) PROVE k = 1
      <4>1. k - 1 \in 0..c
        BY <1>1, <3>5
      <4>2. k - 1 = 0
        BY <3>4, <3>5, <4>1
      <4> QED BY <4>2
    <3>6. Joined(w)
      BY <1>2, <3>3
    <3>7. Counts("H", 1, 1) \/ In(c, "H", 0)
      <4>1. PICK k \in 0..c : Down(c, "H", k) \/ In(c, "H", k) \/ Astray(c, "H", k)
        BY <3>1 DEF Good
      <4>2. CASE Down(c, "H", k)
        <5>1. k >= 1 /\ s <= Begins(c, k)
          BY <1>2, <3>3, <4>2
        <5>2. k > 0 /\ s >= Ends(c, k - 1) /\ k - 1 \in Nat
          BY <1>1, <4>2, <5>1 DEF Down
        <5>3. s >= Begins(c, k - 1)
          BY <1>1, <5>2, Spaced
        <5>4. k = 1
          BY <3>5, <5>2, <5>3
        <5> QED BY <4>2, <5>4 DEF Down
      <4>3. CASE In(c, "H", k)
        <5>1. k = 0
          BY <3>4, <4>3 DEF In
        <5> QED BY <4>3, <5>1
      <4>4. CASE Astray(c, "H", k)
        <5>1. s - 1 <= Begins(c, k)
          BY <1>1, <4>4 DEF Astray, Fresh
        <5>2. k > 0 /\ s >= Begins(c, k - 1)
          BY <1>1, <3>3, <4>4, <5>1 DEF Astray
        <5>3. k = 1
          BY <3>5, <5>2
        <5> QED BY <4>4, <5>3 DEF Astray
      <4> QED BY <4>1, <4>2, <4>3, <4>4
    <3>8. (Counts("H", 1, 1) => Counts("H", 1, 1)') /\ (In(c, "H", 0) => In(c, "H", 0)')
      <4>1. Wake("H")' = Wake("H") /\ Wake("H")' \in Int /\ ndata'["H"] = ndata["H"]
        BY <1>1, <2>1, SlotOther DEF Slotted, Other, HtuName
      <4>2. "H" \in htu'.flags <=> "H" \in htu.flags
        BY <1>1, <2>3, FlagTakenDown DEF Times
      <4>3. s \in Int /\ s >= s
        BY <1>1
      <4> QED BY <1>1, <3>2, <4>1, <4>2, <4>3, PhaseStays DEF Counts
    <3>9. Late(c, "T")'
      <4>1. since_sent' >= Ends(c, 0)
        BY <1>1, <2>3, <3>2, Spaced
      <4>2. Counts(Other("T"), 1, 1)' \/ In(c, "H", 0)'
        BY <3>7, <3>8 DEF Other
      <4> QED BY <1>1, <2>3, <4>1, <4>2 DEF Late
    <3> QED BY <1>8, <2>1, <2>3, <3>6, <3>9 DEF Bad
  <2> QED BY <2>1, <2>2, <2>3
<1>9. ASSUME Late(c, "T") PROVE Goal
  <2>1. PICK w \in 1..(SampleInterval + 1) :
           /\ Slotted("T", w) /\ htu' = HtuInit(htu, "T").htu /\ w = Ends(c, 1) - since_sent
           /\ Counts("T", 1, 1)' /\ Flags("T", TRUE, TRUE)' /\ Wake("T")' <= Ends(c, 1)
           /\ since_sent \in (Ends(c, 0) + 1)..(Ends(c, 0) + 2)
    BY <1>1, <1>9, LateSlot
  <2>2. Counts("H", 1, 1) /\ "T" \notin htu.flags /\ Good(c, "H")
    <3>1. Counts("H", 1, 1) /\ "T" \notin htu.flags
      BY <1>1, <1>9 DEF Late, Other, Flags
    <3>2. ~Good(c, "T")
      <4>1. Counts("T", 0, 1) /\ 0 \in 0..c
        BY <1>1, <1>9 DEF Late
      <4> QED BY <1>1, <4>1, PhaseIs
    <3> QED BY <1>1, <3>1, <3>2 DEF Phases
  <2>3. /\ 0 \in Nat /\ 1 \in Nat /\ 0 + 1 = 1 /\ 1 \in 0..c /\ 1 - 1 = 0
        /\ Begins(c, 1) = Begins(c, 0) + SampleInterval \div c
    <3>1. 0 \in Nat /\ 1 \in Nat /\ 0 + 1 = 1 /\ 1 \in 0..c /\ 1 - 1 = 0
      BY <1>1
    <3> QED BY <3>1, Spaced
  <2>4. s < Begins(c, 1) /\ s >= Begins(c, 0) /\ s <= Ends(c, 0) + 2
    <3>1. /\ Ends(c, 0) = Begins(c, 0) + CollectionTime /\ Begins(c, 0) \in Nat /\ CollectionTime \in Nat
          /\ CollectionTime >= 3 /\ SampleInterval \div c \in Nat /\ 2 * CollectionTime <= SampleInterval \div c
      BY <2>3, Spaced
    <3> QED BY <1>1, <2>1, <2>3, <3>1
  <2>5. Astray(c, "T", 1)'
    <3>1. Counts("H", 1, 1)'
      BY <2>1, <2>2 DEF Slotted, HtuName, Counts
    <3>2. Fresh(c, "T")'
      BY <1>1, <2>1, <2>4, <3>1 DEF Fresh
    <3>3. 1 > 0 => since_sent' >= Begins(c, 1 - 1)
      BY <1>1, <2>3, <2>4
    <3> QED BY <2>1, <3>2, <3>3, Zenon DEF Astray
  <2>6. Good(c, "T")'
    BY <2>3, <2>5 DEF Good
  <2>7. Joined(w)
    <3>1. SUFFICES ASSUME NEW k \in 0..c, Down(c, "H", k) PROVE s <= Begins(c, k)
      OBVIOUS
    <3>2. k = 1
      BY <2>2, <3>1 DEF Down, Counts
    <3> QED BY <1>1, <2>3, <2>4, <3>2, Spaced
  <2> QED BY <1>3, <2>1, <2>2, <2>6, <2>7
<1>10. (\E j \in 0..c : Down(c, "T", j) \/ In(c, "T", j) \/ Astray(c, "T", j) \/ Failed(c, "T", j)) \/ Stale(c, "T") \/ Late(c, "T")
  BY <1>1 DEF Phases, Good, Bad
<1> QED BY <1>4, <1>5, <1>6, <1>7, <1>8, <1>9, <1>10

LEMMA SlotOfT ==
  ASSUME Roomy, NEW c \in SampleCount, FaultInv(c), SampleSlot("T")
  PROVE  FaultInv(c)'
<1>1. PICK w \in 0..Never :
        /\ Slotted("T", w)
        /\ \/ htu' = htu
           \/ htu' = HtuGet(htu, "T").htu
           \/ /\ "T" \notin htu.flags /\ htu' = HtuInit(htu, "T").htu
              /\ Good(c, "H") \/ "H" \in htu.flags
        /\ \/ Good(c, "T")' /\ w \in 1..(SampleInterval + 1)
           \/ Bad(c, "T") /\ Bad(c, "T")' /\ (htu' = htu \/ htu' = HtuGet(htu, "T").htu)
        /\ \/ "T" \in htu.flags /\ htu' = htu
           \/ \A k \in 0..c : Down(c, "H", k) => since_sent <= Begins(c, k) \/ w >= 2
  BY TurnOfT
<1>2. /\ Times(c) /\ Phases(c) /\ ReadInTime(c) /\ ChipInv /\ "T" \in HtuName /\ "H" \in HtuName /\ c \in Nat
      /\ at = <<"sample", "T">> /\ at' = <<"sample", "H">> /\ since_sent' = since_sent /\ fault_in' = fault_in
      /\ UNCHANGED <<sdef, since_check, reading2, meas_commands>> /\ since_check = 0
      /\ since_sent \in 0..(SampleInterval + 1) /\ Never = SampleInterval + 2 /\ SampleInterval \in Nat
      /\ Sampling /\ Sampling'
  <2>1. Times(c) /\ Phases(c) /\ ReadInTime(c) /\ ChipInv /\ "T" \in HtuName /\ "H" \in HtuName
    BY DEF FaultInv, HtuName
  <2> QED BY <2>1, SlotFrame, Calendar DEF Sampling
<1>3. /\ htu' \in HtuState /\ htu'.valid = htu.valid /\ htu'.state["H"] = htu.state["H"]
      /\ \/ htu'.state["T"] = htu.state["T"]
         \/ htu.flags = {} /\ htu'.state["T"] = "req" /\ htu' = HtuInit(htu, "T").htu
      /\ "H" \in htu'.flags <=> "H" \in htu.flags
  <2>1. htu \in HtuState
    BY <1>2 DEF Times
  <2> QED BY <1>1, <1>2, <2>1, SlotChip DEF HtuName
<1>4. ndata' \in [HtuName -> NData] /\ ndata'["H"] = ndata["H"] /\ wait_time' = w /\ wait_time' \in 0..Never
  <2>1. wait_time' = w
    BY <1>1, <1>2, SlotWake DEF Slotted
  <2> QED BY <1>1, <1>2, <2>1 DEF Slotted, HtuName
<1>5. Wake("H")' = Wake("H") /\ Wake("H")' \in Int
  BY <1>1, <1>2, SlotOther DEF Other
<1>6. /\ Good(c, "H") => Good(c, "H")'
      /\ Bad(c, "H") /\ Good(c, "T")' => Bad(c, "H")'
  <2>1. since_sent \in Int /\ since_sent >= since_sent
    BY <1>2
  <2>2. ~Fresh(c, "H")
    BY DEF Fresh
  <2>3. /\ Good(c, "H") => Good(c, "H")'
        /\ Bad(c, "H") /\ ~Late(c, "H") => Bad(c, "H")'
    BY <1>2, <1>3, <1>4, <1>5, <2>1, <2>2, GoodStays
  <2>4. ASSUME Late(c, "H"), Good(c, "T")' PROVE Late(c, "H")'
    <3>1. /\ Counts("T", 1, 1) /\ Counts("H", 0, 1) /\ Flags("H", FALSE, FALSE)
          /\ since_sent >= Ends(c, 0) /\ Wake("H") \in Ends(c, 0)..(Ends(c, 0) + 1)
      BY <2>4 DEF Late, Other
    <3>2. ndata'["T"].init = 1 /\ ndata'["T"].collected = 1
      <4>1. 1 \in 0..c /\ 1 > 0 /\ 1 \in Nat /\ 0 \in Nat /\ 0 + 1 = 1
        BY <1>2, Calendar
      <4>2. Down(c, "T", 1) \/ Astray(c, "T", 1)
        BY <1>2, <3>1, <4>1, PhaseIs DEF Phases
      <4>3. since_sent < Begins(c, 1)
        <5>1. /\ Ends(c, 0) = Begins(c, 0) + CollectionTime /\ Begins(c, 0) \in Nat /\ CollectionTime \in Nat
              /\ CollectionTime >= 3 /\ SampleInterval \div c \in Nat /\ 2 * CollectionTime <= SampleInterval \div c
              /\ Begins(c, 1) = Begins(c, 0) + SampleInterval \div c
          BY <4>1, Spaced
        <5>2. Wake("H") = since_sent - 1
          BY <1>2 DEF Wake, Unslotted
        <5> QED BY <1>2, <3>1, <5>1, <5>2
      <4>4. ASSUME Down(c, "T", 1) PROVE Counts("T", 1, 1)'
        <5>1. Down(c, "T", 1)' \/ since_sent \in Begins(c, 1)..(Begins(c, 1) + 1)
          BY <1>2, <4>1, <4>4, DownSlot
        <5>2. Down(c, "T", 1)'
          BY <4>1, <4>3, <5>1, Calendar, <1>2
        <5> QED BY <5>2 DEF Down
      <4>5. ASSUME Astray(c, "T", 1) PROVE Counts("T", 1, 1)'
        <5>1. Astray(c, "T", 1)' \/ since_sent \in Begins(c, 1)..(Begins(c, 1) + 1)
          BY <1>2, <4>1, <4>5, AstraySlot
        <5>2. Astray(c, "T", 1)'
          BY <4>1, <4>3, <5>1, Calendar, <1>2
        <5> QED BY <5>2 DEF Astray
      <4> QED BY <4>2, <4>4, <4>5 DEF Counts
    <3>3. Counts("H", 0, 1)' /\ Flags("H", FALSE, FALSE)' /\ Counts(Other("H"), 1, 1)'
      BY <1>3, <1>4, <3>1, <3>2 DEF Counts, Flags, Other
    <3>4. since_sent' >= Ends(c, 0) /\ Wake("H")' \in Ends(c, 0)..(Ends(c, 0) + 1)
      BY <1>2, <1>5, <3>1
    <3> QED BY <3>3, <3>4, Zenon DEF Late
  <2> QED BY <2>3, <2>4 DEF Bad
<1>7. \A k \in 0..c : Counts("H", k + 1, k)' /\ ndata'["H"].collecting = TRUE => In(c, "H", k)
  BY <1>2, <1>4, PhaseIs DEF Counts, Phases
<1>8. Times(c)'
  <2>1. at' \in Steps
    BY <1>2 DEF Steps
  <2>2. since_check' \in 0..Never
    BY <1>2
  <2>3. since_check' = 0 /\ wait_time' - since_check' >= 0
    BY <1>2, <1>4
  <2> QED BY <1>2, <1>3, <1>4, <2>1, <2>2, <2>3 DEF Times, Left
<1>9. Phases(c)'
  <2>1. \/ Good(c, "T") /\ Settled /\ (Good(c, "H") \/ (Bad(c, "H") /\ ChipIdle))
        \/ Bad(c, "T") /\ Good(c, "H") /\ ChipIdle
    BY <1>2 DEF Phases
  <2>2. ASSUME Good(c, "T")', w \in 1..(SampleInterval + 1) PROVE Phases(c)'
    <3>1. Settled'
      BY <1>4, <2>2 DEF Settled
    <3>2. CASE Good(c, "H")
      BY <1>6, <2>2, <3>1, <3>2 DEF Phases
    <3>3. CASE ~Good(c, "H")
      <4>1. Bad(c, "H") /\ ChipIdle
        BY <2>1, <3>3
      <4>2. ChipIdle'
        <5>1. htu.flags # {} \/ htu'.state["T"] = htu.state["T"]
          <6>1. htu' = htu \/ htu' = HtuGet(htu, "T").htu \/ "H" \in htu.flags
            BY <1>1, <3>3
          <6>2. HtuGet(htu, "T").htu.state = htu.state
            BY <1>2, FlagTakenDown DEF Times
          <6> QED BY <6>1, <6>2
        <5> QED BY <1>3, <4>1, <5>1 DEF ChipIdle, Busy
      <4> QED BY <1>6, <2>2, <3>1, <4>1, <4>2 DEF Phases
    <3> QED BY <3>2, <3>3
  <2>3. ASSUME Bad(c, "T"), Bad(c, "T")', htu' = htu \/ htu' = HtuGet(htu, "T").htu PROVE Phases(c)'
    <3>1. htu'.state = htu.state
      BY <1>2, <2>3, FlagTakenDown DEF Times
    <3>2. CASE Good(c, "H") /\ ChipIdle
      <4>1. ChipIdle' /\ Good(c, "H")'
        BY <1>6, <3>1, <3>2 DEF ChipIdle, Busy
      <4> QED BY <2>3, <4>1 DEF Phases
    <3>3. CASE Good(c, "T")
      <4>1. ASSUME NEW k \in 0..c, Failed(c, "T", k) PROVE FALSE
        <5>1. Counts("T", k + 1, k) /\ ndata["T"].collecting = FALSE
          BY <4>1 DEF Failed, Flags
        <5>2. In(c, "T", k)
          BY <1>2, <3>3, <5>1, PhaseIs
        <5> QED BY <5>1, <5>2 DEF In, Flags
      <4>2. ~Stale(c, "T")
        BY <3>3 DEF Good, Stale, Down, In, Astray, Flags
      <4>3. ~Late(c, "T")
        <5>1. 0 \in 0..c
          BY <1>2
        <5> QED BY <1>2, <3>3, <5>1, PhaseIs DEF Late
      <4> QED BY <2>3, <4>1, <4>2, <4>3 DEF Bad
    <3> QED BY <2>1, <3>2, <3>3
  <2> QED BY <1>1, <2>2, <2>3
<1>10. ReadInTime(c)'
  <2>1. SUFFICES ASSUME NEW k \in 0..c, Counts("H", k + 1, k)', ndata'["H"].collecting = TRUE
                 PROVE  /\ htu'.state["T"] = "req" => Spare(c, k, 2)'
                        /\ htu'.state["T"] = "ripe" => Spare(c, k, 1)' /\ at' # <<"end", "T">>
                        /\ htu'.state["H"] = "req" => Spare(c, k, 1)'
                        /\ htu'.state["H"] = "ripe" => Spare(c, k, 0)' /\ at' # <<"end", "T">>
    BY DEF ReadInTime
  <2>2. In(c, "H", k)
    BY <1>7, <2>1
  <2>3. "H" \in htu.flags
    BY <2>2 DEF In, Flags
  <2>4. htu'.state["T"] = htu.state["T"] /\ htu.state["T"] # "req" /\ htu.state["H"] # "req"
    BY <1>2, <1>3, <2>3 DEF ChipInv
  <2>5. /\ htu.state["T"] = "ripe" => Spare(c, k, 1)
        /\ htu.state["H"] = "ripe" => Spare(c, k, 0)
    BY <1>2, <2>2 DEF ReadInTime, In, Flags
  <2>6. (Spare(c, k, 1) => Spare(c, k, 1)') /\ (Spare(c, k, 0) => Spare(c, k, 0)')
    BY <1>2 DEF Spare
  <2> QED BY <1>2, <1>3, <2>4, <2>5, <2>6
<1>11. ChipInv'
  BY <1>2, <1>3 DEF ChipInv, Busy
<1>12. Joins(c)'
  <2>1. SUFFICES ASSUME "T" \notin htu'.flags \/ htu'.state["T"] = "req",
                        NEW k \in 0..c, Counts("H", k, k)', Flags("H", FALSE, FALSE)'
                 PROVE  since_sent' <= Begins(c, k) \/ wait_time' >= 2
    BY DEF Joins
  <2>2. Counts("H", k, k) /\ Flags("H", FALSE, FALSE)
    BY <1>3, <1>4, <2>1 DEF Counts, Flags
  <2>3. Down(c, "H", k)
    BY <1>2, <2>2, PhaseIs DEF Phases
  <2>4. ~("T" \in htu.flags /\ htu' = htu)
    BY <1>2, <2>1 DEF ChipInv
  <2> QED BY <1>1, <1>2, <1>4, <2>3, <2>4
<1> QED BY <1>8, <1>9, <1>10, <1>11, <1>12 DEF FaultInv
-----------------------------------------------------------------------------
(* The turn of the humidity.                                               *)

LEMMA TurnOfH ==
  ASSUME Roomy, NEW c \in SampleCount, FaultInv(c), SampleSlot("H")
  PROVE  \E w \in 0..Never :
           /\ Slotted("H", w)
           /\ \/ htu' = htu
              \/ htu' = HtuGet(htu, "H").htu /\ ~Busy("H")
              \/ /\ "H" \notin htu.flags /\ htu' = HtuInit(htu, "H").htu
                 /\ Good(c, "T") \/ "T" \in htu.flags
           /\ \/ Good(c, "H")' /\ w <= SampleInterval + 1
              \/ Bad(c, "H") /\ Bad(c, "H")' /\ (htu' = htu \/ htu' = HtuGet(htu, "H").htu)
           /\ \A k \in 0..c : Counts("H", k + 1, k)' /\ ndata'["H"].collecting = TRUE =>
                \/ In(c, "H", k) /\ htu' = htu
                \/ /\ Down(c, "H", k) /\ htu' = HtuInit(htu, "H").htu
                   /\ since_sent \in Begins(c, k)..(Begins(c, k) + 1) /\ w = Ends(c, k) - since_sent
<1> DEFINE s == since_sent
           Chip0 == \/ htu' = htu
                    \/ htu' = HtuGet(htu, "H").htu /\ ~Busy("H")
                    \/ /\ "H" \notin htu.flags /\ htu' = HtuInit(htu, "H").htu
                       /\ Good(c, "T") \/ "T" \in htu.flags
           Started(w) == \A k \in 0..c : Counts("H", k + 1, k)' /\ ndata'["H"].collecting = TRUE =>
                         \/ In(c, "H", k) /\ htu' = htu
                         \/ /\ Down(c, "H", k) /\ htu' = HtuInit(htu, "H").htu
                            /\ s \in Begins(c, k)..(Begins(c, k) + 1) /\ w = Ends(c, k) - s
           Goal == \E w \in 0..Never :
                     /\ Slotted("H", w) /\ Chip0
                     /\ \/ Good(c, "H")' /\ w <= SampleInterval + 1
                        \/ Bad(c, "H") /\ Bad(c, "H")' /\ (htu' = htu \/ htu' = HtuGet(htu, "H").htu)
                     /\ Started(w)
<1>1. /\ Times(c) /\ Phases(c) /\ ReadInTime(c) /\ ChipInv /\ "T" \in HtuName /\ "H" \in HtuName /\ c \in Nat /\ c >= 1
      /\ s \in Nat /\ Never = SampleInterval + 2 /\ SampleInterval \in Nat /\ Wake("H") = s - 1
      /\ at = <<"sample", "H">> /\ Sampling /\ at' = <<"send", "T">> /\ since_sent' = s /\ fault_in' = fault_in
      /\ since_check = 0
  <2>1. Times(c) /\ Phases(c) /\ ReadInTime(c) /\ ChipInv /\ "T" \in HtuName /\ "H" \in HtuName
    BY DEF FaultInv, HtuName
  <2>2. c \in Nat /\ c >= 1
    BY Calendar
  <2>3. /\ at = <<"sample", "H">> /\ at' = <<"send", "T">> /\ since_sent' = s /\ fault_in' = fault_in /\ since_check = 0
        /\ s \in 0..(SampleInterval + 1) /\ Never = SampleInterval + 2 /\ SampleInterval \in Nat /\ Wake("H") = s - 1
    BY <2>1, SlotFrame
  <2>4. s \in Nat /\ Sampling
    BY <2>3 DEF Sampling
  <2> QED BY <2>1, <2>2, <2>3, <2>4
<1>2. \A w \in 1..(SampleInterval + 1) : w \in 0..Never /\ w <= SampleInterval + 1
  BY <1>1
<1>3. \A j, k \in 0..c : Counts("H", j, j)' => ~Counts("H", k + 1, k)'
  BY DEF Counts
<1>4. ASSUME NEW j \in 0..c, Down(c, "H", j) PROVE Goal
  <2>1. PICK w \in 1..(SampleInterval + 1) :
           /\ Slotted("H", w)
           /\ \/ /\ Down(c, "H", j)' /\ htu' = htu
                 /\ since_sent < Begins(c, j) /\ w = Begins(c, j) - since_sent
              \/ /\ In(c, "H", j)' /\ htu' = HtuInit(htu, "H").htu
                 /\ since_sent \in Begins(c, j)..(Begins(c, j) + 1) /\ w = Ends(c, j) - since_sent
    BY <1>1, <1>4, DownSlot
  <2>2. Good(c, "H")'
    BY <2>1 DEF Good
  <2>3. "H" \notin htu.flags
    BY <1>4 DEF Down, Flags
  <2>4. Started(w)
    <3>1. SUFFICES ASSUME NEW k \in 0..c, Counts("H", k + 1, k)', ndata'["H"].collecting = TRUE
                   PROVE  /\ Down(c, "H", k) /\ htu' = HtuInit(htu, "H").htu
                          /\ s \in Begins(c, k)..(Begins(c, k) + 1) /\ w = Ends(c, k) - s
      OBVIOUS
    <3>2. ~Down(c, "H", j)'
      BY <1>3, <3>1 DEF Down
    <3>3. In(c, "H", j)'
      BY <2>1, <3>2
    <3>4. j = k
      BY <3>1, <3>3 DEF In, Counts
    <3> QED BY <1>4, <2>1, <3>2, <3>4
  <2>5. htu' = htu \/ (Good(c, "T") \/ "T" \in htu.flags)
    <3>1. SUFFICES ASSUME htu' # htu PROVE Good(c, "T") \/ "T" \in htu.flags
      OBVIOUS
    <3>2. since_sent \in Begins(c, j)..(Begins(c, j) + 1)
      BY <2>1, <3>1
    <3>3. ~Late(c, "T")
      <4>1. SUFFICES ASSUME Late(c, "T") PROVE FALSE
        OBVIOUS
      <4>2. Counts("H", 1, 1) \/ In(c, "H", 0)
        BY <4>1 DEF Late, Other
      <4>3. Counts("H", 1, 1)
        BY <1>4, <4>2 DEF Down, In, Flags
      <4>4. j = 1
        BY <1>4, <4>3 DEF Down, Counts
      <4>5. 0 \in Nat /\ 1 \in Nat /\ 0 + 1 = 1
        OBVIOUS
      <4>6. Begins(c, 1) = Begins(c, 0) + SampleInterval \div c
        BY <4>5, Spaced
      <4>7. s >= Ends(c, 0) /\ s + wait_time \in Ends(c, 0)..(Ends(c, 0) + 1) /\ wait_time \in Nat
        <5>1. Wake("T") = s + (wait_time - 0)
          BY <1>1 DEF Wake, Unslotted, Left
        <5>2. wait_time \in Nat /\ wait_time - 0 = wait_time
          BY <1>1 DEF Times
        <5> QED BY <4>1, <5>1, <5>2 DEF Late
      <4> QED BY <1>1, <3>2, <4>4, <4>5, <4>6, <4>7, Spaced
    <3>4. Good(c, "T") \/ (\E k \in 0..c : Failed(c, "T", k)) \/ Stale(c, "T")
      BY <1>1, <3>3 DEF Phases, Bad
    <3> QED BY <3>4 DEF Failed, Stale, Flags
  <2> QED BY <1>2, <2>1, <2>2, <2>3, <2>4, <2>5
<1>5. ASSUME NEW j \in 0..c, In(c, "H", j) PROVE Goal
  <2>1. PICK w \in 1..(SampleInterval + 1) :
           /\ Slotted("H", w)
           /\ \/ /\ In(c, "H", j)' /\ htu' = htu
                 /\ since_sent < Ends(c, j) /\ w = Ends(c, j) - since_sent
              \/ /\ Down(c, "H", j + 1)' /\ j + 1 \in 0..c /\ htu' = HtuGet(htu, "H").htu
                 /\ since_sent \in Ends(c, j)..(Ends(c, j) + 1) /\ w = Begins(c, j + 1) - since_sent
    BY <1>1, <1>5, InSlot
  <2>2. Good(c, "H")'
    BY <2>1 DEF Good
  <2>3. CASE In(c, "H", j)' /\ htu' = htu
    <3>1. Started(w)
      <4>1. SUFFICES ASSUME NEW k \in 0..c, Counts("H", k + 1, k)' PROVE In(c, "H", k)
        BY <2>3
      <4>2. j = k
        BY <2>3, <4>1 DEF In, Counts
      <4> QED BY <1>5, <4>2
    <3> QED BY <1>2, <2>1, <2>2, <2>3, <3>1
  <2>4. CASE /\ Down(c, "H", j + 1)' /\ j + 1 \in 0..c /\ htu' = HtuGet(htu, "H").htu
             /\ since_sent \in Ends(c, j)..(Ends(c, j) + 1)
    <3>1. Started(w)
      BY <1>3, <2>4 DEF Down
    <3>2. ~Busy("H")
      <4>1. Counts("H", j + 1, j) /\ ndata["H"].collecting = TRUE
        BY <1>5 DEF In, Flags
      <4>2. htu.state["H"] = "ripe" => Spare(c, j, 0)
        BY <1>1, <4>1 DEF ReadInTime
      <4>3. ~Spare(c, j, 0)
        <5>1. s + 0 = s /\ s >= Ends(c, j) /\ Ends(c, j) \in Int
          <6>1. j \in Nat
            BY <1>1
          <6>2. Ends(c, j) \in Int
            BY <6>1, Spaced
          <6> QED BY <1>1, <2>4, <6>2
        <5> QED BY <1>1, <5>1 DEF Spare
      <4>4. htu.state["H"] # "req"
        BY <1>1 DEF ChipInv
      <4> QED BY <1>1, <4>2, <4>3, <4>4 DEF Busy, Times, HtuState
    <3> QED BY <1>2, <2>1, <2>2, <2>4, <3>1, <3>2
  <2> QED BY <2>1, <2>3, <2>4
<1>6. ASSUME NEW j \in 0..c, Astray(c, "H", j) PROVE Goal
  <2>1. PICK w \in 1..(SampleInterval + 1) :
           /\ Slotted("H", w) /\ htu' = htu
           /\ Astray(c, "H", j)' \/ (Astray(c, "H", j + 1)' /\ j + 1 \in 0..c)
    <3>1. PICK w \in 1..(SampleInterval + 1) :
           /\ Slotted("H", w) /\ htu' = htu
           /\ \/ /\ Astray(c, "H", j)' /\ Wake("H")' <= Begins(c, j)
                 /\ since_sent < Begins(c, j) /\ w = Begins(c, j) - since_sent
              \/ /\ Astray(c, "H", j + 1)' /\ Wake("H")' <= Begins(c, j + 1) /\ j + 1 \in 0..c
                 /\ since_sent \in Begins(c, j)..(Begins(c, j) + 1) /\ w = Ends(c, j) - since_sent
      BY <1>1, <1>6, AstraySlot
    <3> QED BY <3>1
  <2>2. Good(c, "H")'
    BY <2>1 DEF Good
  <2>3. Started(w)
    BY <1>3, <2>1 DEF Astray
  <2> QED BY <1>2, <2>1, <2>2, <2>3
<1>7. ASSUME Bad(c, "H") PROVE ChipIdle /\ Good(c, "T") /\ ndata["H"].collecting = FALSE /\ ~Busy("H") /\ wait_time \in 1..(SampleInterval + 1)
  <2>1. ndata["H"].collecting = FALSE
    BY <1>7 DEF Bad, Failed, Stale, Late, Flags
  <2>2. ~Good(c, "H")
    <3>1. ASSUME NEW j \in 0..c, Counts("H", j + 1, j) PROVE ~Good(c, "H")
      BY <1>1, <2>1, <3>1, PhaseIs DEF In, Flags
    <3>2. CASE \E k \in 0..c : Failed(c, "H", k)
      BY <3>1, <3>2 DEF Failed
    <3>3. CASE Stale(c, "H")
      BY <2>1, <3>3 DEF Good, Stale, Down, In, Astray, Flags
    <3>4. CASE Late(c, "H")
      <4>1. 0 \in 0..c
        BY <1>1
      <4> QED BY <1>1, <3>4, <4>1, PhaseIs DEF Late
    <3> QED BY <1>7, <3>2, <3>3, <3>4 DEF Bad
  <2> QED BY <1>1, <2>1, <2>2 DEF Phases, Settled, ChipIdle
<1>8. ASSUME NEW j \in 0..c, Failed(c, "H", j) PROVE Goal
  <2>1. PICK w \in 1..Never :
           /\ Slotted("H", w)
           /\ \/ Failed(c, "H", j)' /\ htu' = htu /\ since_sent < Ends(c, j)
              \/ /\ Down(c, "H", j + 1)' /\ j + 1 \in 0..c /\ htu' = HtuGet(htu, "H").htu /\ w <= SampleInterval + 1
                 /\ since_sent \in Ends(c, j)..(Ends(c, j) + 1) /\ w = Begins(c, j + 1) - since_sent
    BY <1>1, <1>8, FailedSlot
  <2>2. w \in 0..Never /\ Bad(c, "H") /\ ~Busy("H")
    <3>1. Bad(c, "H")
      BY <1>8 DEF Bad
    <3> QED BY <1>1, <1>7, <2>1, <3>1
  <2>3. CASE Failed(c, "H", j)' /\ htu' = htu
    <3>1. Bad(c, "H")' /\ ndata'["H"].collecting = FALSE
      BY <2>3 DEF Bad, Failed, Flags
    <3> QED BY <2>1, <2>2, <2>3, <3>1
  <2>4. CASE Down(c, "H", j + 1)' /\ j + 1 \in 0..c /\ htu' = HtuGet(htu, "H").htu /\ w <= SampleInterval + 1
    <3>1. Good(c, "H")' /\ ndata'["H"].collecting = FALSE
      BY <2>4 DEF Good, Down, Flags
    <3> QED BY <2>1, <2>2, <2>4, <3>1
  <2> QED BY <2>1, <2>3, <2>4
<1>9. ASSUME Stale(c, "H") PROVE Goal
  <2>1. PICK w \in 0..Never :
           /\ Slotted("H", w)
           /\ \/ Stale(c, "H")' /\ htu' = htu /\ since_sent < Ends(c, 0)
              \/ /\ Counts("H", 0, 1)' /\ Flags("H", FALSE, FALSE)' /\ w = 0
                 /\ Wake("H")' \in Ends(c, 0)..(Ends(c, 0) + 1)
                 /\ since_sent \in Ends(c, 0)..(Ends(c, 0) + 1) /\ htu' = HtuGet(htu, "H").htu
    BY <1>1, <1>9, StaleSlot
  <2>2. Bad(c, "H") /\ ~Busy("H") /\ Good(c, "T") /\ wait_time \in 1..(SampleInterval + 1)
    BY <1>7, <1>9 DEF Bad
  <2>3. CASE Stale(c, "H")' /\ htu' = htu
    <3>1. Bad(c, "H")' /\ ndata'["H"].collecting = FALSE
      BY <2>3 DEF Bad, Stale, Flags
    <3> QED BY <2>1, <2>2, <2>3, <3>1
  <2>4. CASE /\ Counts("H", 0, 1)' /\ Flags("H", FALSE, FALSE)'
             /\ Wake("H")' \in Ends(c, 0)..(Ends(c, 0) + 1)
             /\ since_sent \in Ends(c, 0)..(Ends(c, 0) + 1) /\ htu' = HtuGet(htu, "H").htu
    <3>1. /\ 0 \in Nat /\ 1 \in Nat /\ 0 + 1 = 1 /\ 0 \in 0..c /\ 1 \in 0..c
          /\ Begins(c, 1) = Begins(c, 0) + SampleInterval \div c
          /\ Ends(c, 0) = Begins(c, 0) + CollectionTime /\ Begins(c, 0) \in Nat /\ CollectionTime \in Nat
          /\ CollectionTime >= 3 /\ SampleInterval \div c \in Nat /\ 2 * CollectionTime <= SampleInterval \div c
      <4>1. 0 \in Nat /\ 1 \in Nat /\ 0 + 1 = 1 /\ 0 \in 0..c /\ 1 \in 0..c
        BY <1>1
      <4> QED BY <4>1, Spaced
    <3>2. Wake("T") = s + wait_time
      <4>1. Wake("T") = s + (wait_time - 0)
        BY <1>1 DEF Wake, Unslotted, Left
      <4> QED BY <2>2, <4>1
    <3>3. ASSUME NEW k \in 0..c, Begins(c, k) <= s PROVE k = 0
      BY <1>1, <2>4, <3>1, <3>3, Spaced
    <3>4. ASSUME NEW k \in 0..c, k > 0, s >= Begins(c, k - 1) PROVE k = 1
      <4>1. k - 1 \in 0..c
        BY <1>1, <3>4
      <4>2. k - 1 = 0
        BY <3>3, <3>4, <4>1
      <4> QED BY <4>2
    <3>5. Wake("T") > Ends(c, 0) /\ Wake("T") > Begins(c, 0)
      BY <1>1, <2>2, <2>4, <3>1, <3>2
    <3>6. Counts("T", 1, 1)
      <4>1. PICK k \in 0..c : Down(c, "T", k) \/ In(c, "T", k) \/ Astray(c, "T", k)
        BY <2>2 DEF Good
      <4>2. CASE Down(c, "T", k)
        <5>1. k # 0
          BY <1>1, <2>2, <3>1, <3>2, <3>5, <4>2 DEF Down
        <5>2. k > 0 /\ s >= Ends(c, k - 1) /\ k - 1 \in Nat
          BY <1>1, <4>2, <5>1 DEF Down
        <5>3. s >= Begins(c, k - 1)
          BY <1>1, <5>2, Spaced
        <5>4. k = 1
          BY <3>4, <5>2, <5>3
        <5> QED BY <4>2, <5>4 DEF Down
      <4>3. CASE In(c, "T", k)
        <5>1. k = 0
          BY <3>3, <4>3 DEF In
        <5>2. Wake("T") <= Ends(c, 0)
          BY <4>3, <5>1 DEF In
        <5> QED BY <1>1, <2>2, <3>1, <3>2, <3>5, <5>2
      <4>4. CASE Astray(c, "T", k)
        <5>1. CASE Fresh(c, "T")
          BY <5>1 DEF Fresh
        <5>2. CASE ~Fresh(c, "T")
          <6>1. k # 0
            BY <1>1, <2>2, <3>1, <3>2, <3>5, <4>4, <5>2 DEF Astray
          <6>2. k > 0 /\ s >= Begins(c, k - 1)
            BY <1>1, <4>4, <6>1 DEF Astray
          <6>3. k = 1
            BY <3>4, <6>2
          <6> QED BY <4>4, <6>3 DEF Astray
        <5> QED BY <5>1, <5>2
      <4> QED BY <4>1, <4>2, <4>3, <4>4
    <3>7. Late(c, "H")'
      <4>1. Counts(Other("H"), 1, 1)'
        BY <1>1, <2>1, <3>6 DEF Slotted, Counts, Other
      <4>2. since_sent' >= Ends(c, 0)
        BY <1>1, <2>4, <3>1
      <4> QED BY <2>4, <4>1, <4>2, Zenon DEF Late
    <3>8. Bad(c, "H")' /\ ndata'["H"].collecting = FALSE
      BY <2>4, <3>7 DEF Bad, Flags
    <3> QED BY <2>1, <2>2, <2>4, <3>8
  <2> QED BY <2>1, <2>3, <2>4
<1>10. ASSUME Late(c, "H") PROVE Goal
  <2>1. PICK w \in 1..(SampleInterval + 1) :
           /\ Slotted("H", w) /\ htu' = HtuInit(htu, "H").htu /\ w = Ends(c, 1) - since_sent
           /\ Counts("H", 1, 1)' /\ Flags("H", TRUE, TRUE)' /\ Wake("H")' <= Ends(c, 1)
           /\ since_sent \in (Ends(c, 0) + 1)..(Ends(c, 0) + 2)
    BY <1>1, <1>10, LateSlot
  <2>2. /\ Good(c, "T") /\ wait_time \in 1..(SampleInterval + 1)
        /\ Counts("T", 1, 1) /\ Counts("H", 0, 1) /\ "H" \notin htu.flags
    <3>1. Good(c, "T") /\ wait_time \in 1..(SampleInterval + 1)
      BY <1>7, <1>10 DEF Bad
    <3> QED BY <1>1, <1>10, <3>1 DEF Late, Other, Flags
  <2>3. /\ 0 \in Nat /\ 1 \in Nat /\ 0 + 1 = 1 /\ 1 \in 0..c /\ 1 - 1 = 0 /\ 1 > 0
        /\ Ends(c, 0) = Begins(c, 0) + CollectionTime /\ Begins(c, 0) \in Nat /\ CollectionTime \in Nat
        /\ Begins(c, 1) \in Nat
    <3>1. 0 \in Nat /\ 1 \in Nat /\ 0 + 1 = 1 /\ 1 \in 0..c /\ 1 - 1 = 0 /\ 1 > 0
      BY <1>1
    <3> QED BY <3>1, Spaced
  <2>4. Wake("T") <= Begins(c, 1)
    <3>1. Down(c, "T", 1) \/ Astray(c, "T", 1)
      BY <1>1, <2>2, <2>3, PhaseIs
    <3>2. ~Fresh(c, "T")
      BY <2>2 DEF Fresh, Counts
    <3> QED BY <3>1, <3>2 DEF Down, Astray
  <2>5. Wake("H")' <= Begins(c, 1)
    <3>1. wait_time' \in 0..Never /\ wait_time' <= wait_time /\ w \in 0..Never
      BY <1>1, <1>2, <2>1, SlotWake DEF Slotted
    <3>2. Wake("H")' = s + wait_time' /\ Wake("T") = s + wait_time
      BY <1>1, <2>1, <3>1, SlotOther
    <3> QED BY <1>1, <2>2, <2>3, <2>4, <3>1, <3>2
  <2>6. Astray(c, "H", 1)'
    <3>1. 1 > 0 => since_sent' >= Begins(c, 1 - 1)
      BY <1>1, <2>1, <2>3
    <3> QED BY <2>1, <2>5, <3>1, Zenon DEF Astray
  <2>7. Good(c, "H")'
    BY <2>3, <2>6 DEF Good
  <2>8. Started(w)
    BY <1>3, <2>1, <2>3
  <2> QED BY <1>2, <2>1, <2>2, <2>7, <2>8
<1>11. (\E j \in 0..c : Down(c, "H", j) \/ In(c, "H", j) \/ Astray(c, "H", j) \/ Failed(c, "H", j)) \/ Stale(c, "H") \/ Late(c, "H")
  BY <1>1 DEF Phases, Good, Bad
<1> QED BY <1>4, <1>5, <1>6, <1>8, <1>9, <1>10, <1>11

\* What becomes of the temperature in it.
LEMMA AfterH ==
  ASSUME Roomy, NEW c \in SampleCount, FaultInv(c), SampleSlot("H"), NEW u \in 0..Never, Slotted("H", u),
         "T" \in htu'.flags <=> "T" \in htu.flags
  PROVE  /\ Good(c, "T") => Good(c, "T")'
         /\ Bad(c, "T") /\ Good(c, "H") => Bad(c, "T")'
<1> DEFINE s == since_sent
           b1 == Begins(c, 1)
<1>1. /\ Times(c) /\ Phases(c) /\ "T" \in HtuName /\ "H" \in HtuName /\ c \in Nat
      /\ s \in Nat /\ Never = SampleInterval + 2 /\ SampleInterval \in Nat
      /\ at = <<"sample", "H">> /\ at' = <<"send", "T">> /\ since_sent' = s /\ fault_in' = fault_in
      /\ wait_time \in Nat
  <2>1. Times(c) /\ Phases(c) /\ "T" \in HtuName /\ "H" \in HtuName
    BY DEF FaultInv, HtuName
  <2>2. c \in Nat
    BY Calendar
  <2> QED BY <2>1, <2>2, SlotFrame
<1>2. ndata'["T"] = ndata["T"] /\ wait_time' = Least(wait_time, u)
  BY DEF Slotted, HtuName
<1>3. /\ Wake("T")' \in Int /\ Wake("T")' <= Wake("T")
      /\ Wake("T")' = s + wait_time' /\ Wake("T") = s + wait_time
  BY <1>1, SlotOther DEF Other
<1>4. /\ \A k \in 0..c : /\ Down(c, "T", k) => Down(c, "T", k)'
                         /\ In(c, "T", k) => In(c, "T", k)'
                         /\ Astray(c, "T", k) /\ ~Fresh(c, "T") => Astray(c, "T", k)'
                         /\ Failed(c, "T", k) => Failed(c, "T", k)'
      /\ Stale(c, "T") => Stale(c, "T")'
  <2>1. since_sent' \in Int /\ since_sent' >= since_sent
    BY <1>1
  <2> QED BY <1>1, <1>2, <1>3, <2>1, PhaseStays
<1>5. /\ 0 \in Nat /\ 1 \in Nat /\ 0 + 1 = 1 /\ 1 \in 0..c /\ 0 \in 0..c /\ 1 - 1 = 0 /\ 1 > 0
      /\ b1 \in Nat /\ b1 >= Ends(c, 0) + 3 /\ Ends(c, 0) \in Nat
  <2>1. 0 \in Nat /\ 1 \in Nat /\ 0 + 1 = 1 /\ 1 \in 0..c /\ 0 \in 0..c /\ 1 - 1 = 0 /\ 1 > 0
    BY <1>1, Calendar
  <2>2. /\ Ends(c, 0) = Begins(c, 0) + CollectionTime /\ Begins(c, 0) \in Nat /\ CollectionTime \in Nat
        /\ CollectionTime >= 3 /\ SampleInterval \div c \in Nat /\ 2 * CollectionTime <= SampleInterval \div c
        /\ Begins(c, 1) = Begins(c, 0) + SampleInterval \div c
    BY <2>1, Spaced
  <2> QED BY <2>1, <2>2
\* the humidity waits for a next sample
<1>6. ASSUME Counts("H", 1, 1), s <= Ends(c, 0) + 2, Good(c, "H") \/ Bad(c, "H")
      PROVE  /\ wait_time' = Least(wait_time, b1 - s) /\ b1 - s \in Nat /\ Counts("H", 1, 1)'
             /\ wait_time' <= b1 - s
  <2>1. Down(c, "H", 1) \/ Astray(c, "H", 1)
    BY <1>1, <1>5, <1>6, PhaseIs
  <2>2. s < b1 /\ b1 - s \in Nat
    BY <1>1, <1>5, <1>6
  <2>3. ~(s \in b1..(b1 + 1))
    BY <1>1, <1>5, <2>2
  <2>4. CASE Down(c, "H", 1)
    <3>1. PICK w : Slotted("H", w) /\ Down(c, "H", 1)' /\ w = b1 - s
      BY <1>1, <1>5, <2>3, <2>4, DownSlot
    <3> QED BY <1>1, <2>2, <3>1 DEF Slotted, Down, Least
  <2>5. CASE Astray(c, "H", 1)
    <3>1. PICK w : Slotted("H", w) /\ Astray(c, "H", 1)' /\ w = b1 - s
      BY <1>1, <1>5, <2>3, <2>5, AstraySlot
    <3> QED BY <1>1, <2>2, <3>1 DEF Slotted, Astray, Least
  <2> QED BY <2>1, <2>4, <2>5
<1>7. ASSUME NEW k \in 0..c, Astray(c, "T", k), Fresh(c, "T") PROVE Good(c, "T")'
  <2>1. k = 1 /\ Counts("H", 1, 1) /\ s <= Ends(c, 0) + 2
    BY <1>7 DEF Astray, Fresh, Counts
  <2>2. Wake("T")' <= b1
    <3>1. wait_time' <= b1 - s /\ b1 - s \in Nat
      BY <1>1, <1>6, <2>1 DEF Phases
    <3>2. wait_time' \in Int
      BY <1>1, <1>2, <1>6, <2>1 DEF Phases, Least
    <3> QED BY <1>1, <1>3, <1>5, <3>1, <3>2
  <2>3. Counts("T", 1, 1)' /\ Flags("T", TRUE, TRUE)'
    BY <1>2, <1>7, <2>1 DEF Astray, Counts, Flags
  <2>4. 1 > 0 => since_sent' >= Begins(c, 1 - 1)
    BY <1>1, <1>7, <2>1 DEF Astray
  <2>5. Astray(c, "T", 1)'
    BY <2>2, <2>3, <2>4, Zenon DEF Astray
  <2> QED BY <1>5, <2>5 DEF Good
<1>8. ASSUME Late(c, "T"), Good(c, "H") PROVE Late(c, "T")'
  <2>1. /\ Counts("T", 0, 1) /\ Flags("T", FALSE, FALSE) /\ s >= Ends(c, 0)
        /\ Wake("T") \in Ends(c, 0)..(Ends(c, 0) + 1)
        /\ Counts("H", 1, 1) \/ In(c, "H", 0)
    BY <1>8 DEF Late, Other
  <2>2. s <= Ends(c, 0) + 1 /\ wait_time <= 1
    BY <1>1, <1>3, <1>5, <2>1
  <2>3. Counts("H", 1, 1)' /\ wait_time' = wait_time
    <3>1. CASE Counts("H", 1, 1)
      <4>1. wait_time' = Least(wait_time, b1 - s) /\ b1 - s \in Nat /\ Counts("H", 1, 1)'
        BY <1>1, <1>5, <1>6, <1>8, <2>2, <3>1
      <4>2. b1 - s >= 2
        BY <1>1, <1>5, <2>2, <4>1
      <4> QED BY <1>1, <2>2, <4>1, <4>2 DEF Least
    <3>2. CASE In(c, "H", 0)
      <4>1. ~(s < Ends(c, 0))
        BY <1>1, <1>5, <2>1
      <4>2. PICK w : Slotted("H", w) /\ Down(c, "H", 0 + 1)' /\ w = Begins(c, 0 + 1) - s
        BY <1>1, <1>5, <3>2, <4>1, InSlot
      <4>3. wait_time' = Least(wait_time, b1 - s) /\ Counts("H", 1, 1)'
        BY <1>5, <4>2 DEF Slotted, Down
      <4>4. b1 - s \in Int /\ b1 - s >= 2
        BY <1>1, <1>5, <2>2
      <4> QED BY <1>1, <2>2, <4>3, <4>4 DEF Least
    <3> QED BY <2>1, <3>1, <3>2
  <2>4. Counts("T", 0, 1)' /\ Flags("T", FALSE, FALSE)'
    BY <1>2, <2>1 DEF Counts, Flags
  <2>5. since_sent' >= Ends(c, 0) /\ Wake("T")' \in Ends(c, 0)..(Ends(c, 0) + 1) /\ Counts(Other("T"), 1, 1)'
    BY <1>1, <1>3, <2>1, <2>3 DEF Other
  <2> QED BY <2>4, <2>5, Zenon DEF Late
<1> QED BY <1>4, <1>7, <1>8 DEF Good, Bad

LEMMA SlotOfH ==
  ASSUME Roomy, NEW c \in SampleCount, FaultInv(c), SampleSlot("H")
  PROVE  FaultInv(c)'
<1>1. PICK w \in 0..Never :
        /\ Slotted("H", w)
        /\ \/ htu' = htu
           \/ htu' = HtuGet(htu, "H").htu /\ ~Busy("H")
           \/ /\ "H" \notin htu.flags /\ htu' = HtuInit(htu, "H").htu
              /\ Good(c, "T") \/ "T" \in htu.flags
        /\ \/ Good(c, "H")' /\ w <= SampleInterval + 1
           \/ Bad(c, "H") /\ Bad(c, "H")' /\ (htu' = htu \/ htu' = HtuGet(htu, "H").htu)
        /\ \A k \in 0..c : Counts("H", k + 1, k)' /\ ndata'["H"].collecting = TRUE =>
             \/ In(c, "H", k) /\ htu' = htu
             \/ /\ Down(c, "H", k) /\ htu' = HtuInit(htu, "H").htu
                /\ since_sent \in Begins(c, k)..(Begins(c, k) + 1) /\ w = Ends(c, k) - since_sent
  BY TurnOfH
<1>2. /\ Times(c) /\ Phases(c) /\ ReadInTime(c) /\ ChipInv /\ Joins(c) /\ "T" \in HtuName /\ "H" \in HtuName /\ c \in Nat
      /\ at = <<"sample", "H">> /\ at' = <<"send", "T">> /\ since_sent' = since_sent /\ fault_in' = fault_in
      /\ UNCHANGED <<sdef, since_check, reading2, meas_commands>> /\ since_check = 0 /\ wait_time \in 0..Never
      /\ since_sent \in 0..(SampleInterval + 1) /\ Never = SampleInterval + 2 /\ SampleInterval \in Nat
      /\ Sampling /\ ~Sampling' /\ htu \in HtuState
  <2>1. Times(c) /\ Phases(c) /\ ReadInTime(c) /\ ChipInv /\ Joins(c) /\ "T" \in HtuName /\ "H" \in HtuName /\ htu \in HtuState
    BY DEF FaultInv, HtuName, Times
  <2>2. c \in Nat
    BY Calendar
  <2>3. /\ at = <<"sample", "H">> /\ at' = <<"send", "T">> /\ since_sent' = since_sent /\ fault_in' = fault_in
        /\ UNCHANGED <<sdef, since_check, reading2, meas_commands>> /\ since_check = 0 /\ wait_time \in 0..Never
        /\ since_sent \in 0..(SampleInterval + 1) /\ Never = SampleInterval + 2 /\ SampleInterval \in Nat
    BY <2>1, SlotFrame
  <2>4. Sampling /\ ~Sampling'
    BY <2>3 DEF Sampling
  <2> QED BY <2>1, <2>2, <2>3, <2>4
<1>3. /\ htu' \in HtuState /\ htu'.valid = htu.valid /\ htu'.state["H"] = htu.state["H"]
      /\ \/ htu'.state["T"] = htu.state["T"]
         \/ htu.flags = {} /\ htu'.state["T"] = "req" /\ htu' = HtuInit(htu, "H").htu
      /\ "T" \in htu'.flags <=> "T" \in htu.flags
  BY <1>1, <1>2, SlotChip DEF HtuName
<1>4. ndata' \in [HtuName -> NData] /\ wait_time' = Least(wait_time, w) /\ wait_time' \in Nat
  BY <1>1, <1>2 DEF Slotted, Least
<1>5. /\ Good(c, "T") => Good(c, "T")'
      /\ Bad(c, "T") /\ Good(c, "H") => Bad(c, "T")'
  BY <1>1, <1>3, AfterH
<1>6. \/ Good(c, "T") /\ Settled /\ (Good(c, "H") \/ (Bad(c, "H") /\ ChipIdle))
      \/ Bad(c, "T") /\ Good(c, "H") /\ ChipIdle
  BY <1>2 DEF Phases
<1>7. Settled'
  BY <1>2 DEF Settled
<1>8. ASSUME Bad(c, "H"), htu' = htu \/ htu' = HtuGet(htu, "H").htu PROVE ~Good(c, "H") /\ htu'.state = htu.state
  <2>1. htu'.state = htu.state
    BY <1>2, <1>8, FlagTakenDown
  <2>2. ASSUME NEW k \in 0..c, Failed(c, "H", k) PROVE ~Good(c, "H")
    <3>1. Counts("H", k + 1, k) /\ ndata["H"].collecting = FALSE
      BY <2>2 DEF Failed, Flags
    <3> QED BY <1>2, <3>1, PhaseIs DEF In, Flags
  <2>3. Stale(c, "H") => ~Good(c, "H")
    BY DEF Good, Stale, Down, In, Astray, Flags
  <2>4. Late(c, "H") => ~Good(c, "H")
    <3>1. 0 \in 0..c
      BY <1>2
    <3> QED BY <1>2, <3>1, PhaseIs DEF Late
  <2> QED BY <1>8, <2>1, <2>2, <2>3, <2>4 DEF Bad
<1>9. Phases(c)'
  <2>1. CASE Good(c, "T") /\ Good(c, "H")'
    BY <1>5, <1>7, <2>1 DEF Phases
  <2>2. CASE /\ Bad(c, "H") /\ Bad(c, "H")' /\ (htu' = htu \/ htu' = HtuGet(htu, "H").htu)
    <3>1. Good(c, "T") /\ ChipIdle /\ htu'.state = htu.state
      BY <1>6, <1>8, <2>2
    <3>2. ChipIdle'
      BY <3>1 DEF ChipIdle, Busy
    <3> QED BY <1>5, <1>7, <2>2, <3>1, <3>2 DEF Phases
  <2>3. CASE ~Good(c, "T") /\ Good(c, "H")'
    <3>1. Bad(c, "T") /\ Good(c, "H") /\ ChipIdle
      BY <1>6, <2>3
    <3>2. Bad(c, "T")'
      BY <1>5, <3>1
    <3>3. ChipIdle'
      <4>1. htu' = htu \/ htu' = HtuGet(htu, "H").htu \/ "T" \in htu.flags
        BY <1>1, <2>3
      <4>2. HtuGet(htu, "H").htu.state = htu.state
        BY <1>2, FlagTakenDown
      <4>3. htu'.state["T"] = htu.state["T"]
        BY <1>3, <4>1, <4>2
      <4> QED BY <1>3, <3>1, <4>3 DEF ChipIdle, Busy
    <3> QED BY <2>3, <3>2, <3>3 DEF Phases
  <2> QED BY <1>1, <2>1, <2>2, <2>3
<1>10. Times(c)'
  <2>1. at' \in Steps
    BY <1>2 DEF Steps
  <2>2. wait_time' <= SampleInterval + 1
    <3>1. wait_time <= SampleInterval + 1 \/ w <= SampleInterval + 1
      <4>1. CASE Good(c, "T")
        BY <1>1, <1>2, <1>6, <1>8, <4>1 DEF Settled
      <4>2. CASE ~Good(c, "T")
        BY <1>1, <1>6, <1>8, <4>2
      <4> QED BY <4>1, <4>2
    <3> QED BY <1>2, <1>4, <3>1 DEF Least
  <2>3. Left' = wait_time' /\ Left' >= 0 /\ Left' >= -1
    BY <1>2, <1>4 DEF Left
  <2>4. since_check' \in 0..Never /\ wait_time' \in 0..Never
    BY <1>2, <1>4, <2>2
  <2>5. at' # <<"sample", "T">>
    BY <1>2
  <2> QED BY <1>2, <1>3, <1>4, <2>1, <2>2, <2>3, <2>4, <2>5 DEF Times
<1>11. ReadInTime(c)'
  <2>1. SUFFICES ASSUME NEW k \in 0..c, Counts("H", k + 1, k)', ndata'["H"].collecting = TRUE
                 PROVE  /\ htu'.state["T"] = "req" => Spare(c, k, 2)'
                        /\ htu'.state["T"] = "ripe" => Spare(c, k, 1)' /\ at' # <<"end", "T">>
                        /\ htu'.state["H"] = "req" => Spare(c, k, 1)'
                        /\ htu'.state["H"] = "ripe" => Spare(c, k, 0)' /\ at' # <<"end", "T">>
    BY DEF ReadInTime
  <2>2. k \in Nat
    BY <1>2
  <2>3. /\ Begins(c, k) \in Nat /\ Ends(c, k) = Begins(c, k) + CollectionTime /\ CollectionTime \in Nat
        /\ CollectionTime >= 3
    BY <2>2, Calendar
  <2>4. htu'.state["H"] # "req" /\ at' # <<"end", "T">>
    BY <1>2, <1>3 DEF ChipInv
  <2>5. CASE In(c, "H", k) /\ htu' = htu
    <3>1. /\ htu.state["T"] = "req" => Spare(c, k, 2)
          /\ htu.state["T"] = "ripe" => Spare(c, k, 1)
          /\ htu.state["H"] = "ripe" => Spare(c, k, 0)
      BY <1>2, <2>5 DEF ReadInTime, In, Flags
    <3>2. \A x \in 0..2 : Spare(c, k, x) => Spare(c, k, x)'
      BY <1>2 DEF Spare
    <3> QED BY <2>4, <2>5, <3>1, <3>2
  <2>6. CASE /\ Down(c, "H", k) /\ htu' = HtuInit(htu, "H").htu
             /\ since_sent \in Begins(c, k)..(Begins(c, k) + 1) /\ w = Ends(c, k) - since_sent
    <3>1. htu.state["H"] = "idle"
      BY <1>2, <2>6 DEF ChipInv, Busy, Down, Flags
    <3>2. ASSUME htu'.state["T"] = "req" PROVE Spare(c, k, 2)'
      <4>1. "T" \notin htu.flags \/ htu.state["T"] = "req"
        BY <1>3, <3>2
      <4>2. since_sent <= Begins(c, k) \/ wait_time >= 2
        BY <1>2, <2>6, <4>1 DEF Joins, Down
      <4>3. w >= 2
        BY <1>2, <2>3, <2>6
      <4>4. since_sent + 2 < Ends(c, k) \/ wait_time' >= 2
        BY <1>2, <1>4, <2>3, <2>6, <4>2, <4>3 DEF Least
      <4>5. Left' = wait_time'
        BY <1>2, <1>4 DEF Left
      <4> QED BY <1>2, <4>4, <4>5 DEF Spare
    <3>3. Spare(c, k, 1)'
      <4>1. Left' = wait_time' /\ (since_sent + 1 < Ends(c, k))
        BY <1>2, <1>4, <2>3, <2>6 DEF Left
      <4> QED BY <1>2, <4>1 DEF Spare
    <3> QED BY <1>3, <2>4, <3>1, <3>2, <3>3
  <2> QED BY <1>1, <2>1, <2>5, <2>6
<1>12. ChipInv'
  <2>1. Busy("H")' => "H" \in htu'.flags
    <3>1. CASE htu' = htu
      BY <1>2, <3>1 DEF ChipInv, Busy
    <3>2. CASE ~Busy("H")
      BY <1>3, <3>2 DEF Busy
    <3>3. CASE "H" \notin htu.flags
      BY <1>2, <1>3, <3>3 DEF ChipInv, Busy
    <3> QED BY <1>1, <3>1, <3>2, <3>3
  <2> QED BY <1>2, <1>3, <2>1 DEF ChipInv, Busy
<1>13. Joins(c)'
  BY <1>2 DEF Joins
<1> QED BY <1>9, <1>10, <1>11, <1>12, <1>13 DEF FaultInv
-----------------------------------------------------------------------------
(* What is not a slot.                                                     *)

LEMMA PhasesStay ==
  ASSUME Roomy, NEW c \in SampleCount, Times(c), Phases(c), at # <<"sample", "H">>, at' # <<"sample", "H">>,
         ndata' = ndata, htu'.flags = htu.flags, fault_in' = fault_in, since_sent' \in Int, since_sent' >= since_sent,
         \A n \in HtuName : Wake(n)' \in Int /\ Wake(n)' <= Wake(n) /\ (Late(c, n) => Wake(n)' = Wake(n)),
         ChipIdle => ChipIdle'
  PROVE  Phases(c)'
<1>1. ASSUME NEW n \in HtuName
      PROVE  (Good(c, n) => Good(c, n)') /\ (Bad(c, n) => Bad(c, n)')
  <2>1. ~Fresh(c, n)
    BY DEF Fresh
  <2>2. (Good(c, n) => Good(c, n)') /\ (Bad(c, n) /\ ~Late(c, n) => Bad(c, n)')
    BY <2>1, GoodStays
  <2>3. ASSUME Late(c, n) PROVE Late(c, n)'
    <3>1. Counts(n, 0, 1)' /\ Flags(n, FALSE, FALSE)' /\ Counts(Other(n), 1, 1)'
      BY <2>3 DEF Late, Counts, Flags, Other
    <3>2. since_sent >= Ends(c, 0) /\ Wake(n)' \in Ends(c, 0)..(Ends(c, 0) + 1) /\ Ends(c, 0) \in Int
      <4>1. 0 \in Nat
        OBVIOUS
      <4>2. Ends(c, 0) \in Int
        BY <4>1, Spaced
      <4> QED BY <2>3, <4>2 DEF Late
    <3>3. since_sent' >= Ends(c, 0)
      BY <3>2, WakeIsInt
    <3> QED BY <3>1, <3>2, <3>3, Zenon DEF Late
  <2> QED BY <2>2, <2>3 DEF Bad
<1>2. "T" \in HtuName /\ "H" \in HtuName
  BY DEF HtuName
<1>3. Settled'
  BY DEF Settled
<1>4. /\ Good(c, "T") => Good(c, "T")'
      /\ Good(c, "H") => Good(c, "H")'
      /\ Bad(c, "T") => Bad(c, "T")'
      /\ Bad(c, "H") => Bad(c, "H")'
  BY <1>1, <1>2
<1> QED BY <1>3, <1>4, Zenon DEF Phases

LEMMA PassFaults ==
  ASSUME Roomy, NEW c \in SampleCount, FaultInv(c), PassBegins
  PROVE  FaultInv(c)'
<1>1. /\ Times(c) /\ Phases(c) /\ ReadInTime(c) /\ ChipInv /\ at = <<"command", "T">> /\ ~Sampling
      /\ UNCHANGED <<sdef, ndata, since_sent, htu, reading2, fault_in>>
      /\ since_sent \in Int /\ Left \in Int /\ Left >= -1 /\ wait_time \in Int /\ since_check \in Int
      /\ SampleInterval \in Nat /\ Never = SampleInterval + 2
  <2>1. Times(c) /\ Phases(c) /\ ReadInTime(c) /\ ChipInv
    BY DEF FaultInv
  <2>2. at = <<"command", "T">> /\ UNCHANGED <<sdef, ndata, since_sent, htu, reading2, fault_in>>
    BY <2>1 DEF PassBegins, Times, Steps, history
  <2>3. ~Sampling
    BY <2>2 DEF Sampling
  <2>4. Left >= -1
    BY <2>1, <2>3 DEF Times
  <2>5. "T" \in HtuName
    BY DEF HtuName
  <2>6. /\ since_sent \in Int /\ Left \in Int /\ wait_time \in Int /\ since_check \in Int
        /\ SampleInterval \in Nat /\ Never = SampleInterval + 2
    BY <2>1, <2>5, WakeIsInt
  <2> QED BY <2>1, <2>2, <2>3, <2>4, <2>6, Zenon
<1>2. \A n \in HtuName : Wake(n) = since_sent + Left
  BY <1>1 DEF Wake, Unslotted, HtuName
<1>3. CASE since_check > wait_time
  <2>1. at' = <<"sample", "T">> /\ since_check' = 0 /\ wait_time' = Never /\ Sampling'
    BY <1>3 DEF PassBegins, Sampling
  <2>2. Left = -1
    BY <1>1, <1>3 DEF Left
  <2>3. \A n \in HtuName : Wake(n)' \in Int /\ Wake(n)' <= Wake(n) /\ (Late(c, n) => Wake(n)' = Wake(n))
    BY <1>1, <1>2, <2>1, <2>2 DEF Wake, Unslotted
  <2>4. Phases(c)'
    <3>1. ChipIdle => ChipIdle'
      BY <1>1 DEF ChipIdle, Busy
    <3> QED BY <1>1, <2>1, <2>3, <3>1, PhasesStay
  <2>5. Times(c)'
    <3>1. at' \in Steps /\ since_check' \in 0..Never /\ wait_time' \in 0..Never
      BY <1>1, <2>1 DEF Steps
    <3> QED BY <1>1, <2>1, <3>1 DEF Times
  <2>6. ReadInTime(c)'
    <3>1. SUFFICES ASSUME NEW k \in 0..c, Counts("H", k + 1, k)', ndata'["H"].collecting = TRUE
                   PROVE  /\ htu'.state["T"] = "req" => Spare(c, k, 2)'
                          /\ htu'.state["T"] = "ripe" => Spare(c, k, 1)' /\ at' # <<"end", "T">>
                          /\ htu'.state["H"] = "req" => Spare(c, k, 1)'
                          /\ htu'.state["H"] = "ripe" => Spare(c, k, 0)' /\ at' # <<"end", "T">>
      BY DEF ReadInTime
    <3>2. Counts("H", k + 1, k) /\ ndata["H"].collecting = TRUE
      BY <1>1, <3>1 DEF Counts
    <3>3. /\ htu.state["T"] = "req" => Spare(c, k, 2)
          /\ htu.state["T"] = "ripe" => Spare(c, k, 1)
          /\ htu.state["H"] = "req" => Spare(c, k, 1)
          /\ htu.state["H"] = "ripe" => Spare(c, k, 0)
      BY <1>1, <3>2 DEF ReadInTime
    <3>4. \A x \in 0..2 : Spare(c, k, x) => Spare(c, k, x)'
      BY <1>1, <2>1, <2>2 DEF Spare
    <3> QED BY <1>1, <2>1, <3>3, <3>4
  <2>7. ChipInv'
    BY <1>1, <2>1 DEF ChipInv, Busy
  <2>8. Joins(c)'
    BY <2>1 DEF Joins
  <2> QED BY <2>4, <2>5, <2>6, <2>7, <2>8 DEF FaultInv
<1>4. CASE ~(since_check > wait_time)
  <2>1. at' = <<"send", "T">> /\ UNCHANGED <<since_check, wait_time>> /\ ~Sampling'
    BY <1>4 DEF PassBegins, Sampling
  <2>2. Left >= 0 /\ Left' = Left
    BY <1>1, <1>4, <2>1 DEF Left
  <2>3. \A n \in HtuName : Wake(n)' \in Int /\ Wake(n)' <= Wake(n) /\ (Late(c, n) => Wake(n)' = Wake(n))
    <3>1. \A n \in HtuName : Wake(n)' = since_sent + Left
      BY <1>1, <2>1, <2>2 DEF Wake, Unslotted
    <3> QED BY <1>1, <1>2, <3>1
  <2>4. Phases(c)'
    <3>1. ChipIdle => ChipIdle'
      BY <1>1 DEF ChipIdle, Busy
    <3> QED BY <1>1, <2>1, <2>3, <3>1, PhasesStay
  <2>5. Times(c)'
    <3>1. at' \in Steps
      BY <2>1 DEF Steps
    <3> QED BY <1>1, <2>1, <2>2, <3>1 DEF Times
  <2>6. ReadInTime(c)'
    <3>1. \A k \in 0..c : /\ Counts("H", k + 1, k)' <=> Counts("H", k + 1, k)
                          /\ \A x \in 0..2 : Spare(c, k, x)' <=> Spare(c, k, x)
      BY <1>1, <2>1, <2>2 DEF Counts, Spare
    <3>2. at' # <<"end", "T">> /\ 0 \in 0..2 /\ 1 \in 0..2 /\ 2 \in 0..2 /\ htu' = htu /\ ndata' = ndata
      BY <1>1, <2>1
    <3> QED BY <1>1, <3>1, <3>2 DEF ReadInTime
  <2>7. ChipInv'
    BY <1>1, <2>1 DEF ChipInv, Busy
  <2>8. Joins(c)'
    BY <2>1 DEF Joins
  <2> QED BY <2>4, <2>5, <2>6, <2>7, <2>8 DEF FaultInv
<1> QED BY <1>3, <1>4

\* A send begins the interval anew; a flag that is up stays up.
LEMMA SendFaults ==
  ASSUME Roomy, NEW c \in SampleCount, FaultInv(c), SendAtInterval
  PROVE  FaultInv(c)'
<1>1. /\ Times(c) /\ Phases(c) /\ ReadInTime(c) /\ ChipInv /\ at = <<"send", "T">> /\ at' = <<"iterate", "T">>
      /\ ~Sampling /\ ~Sampling'
      /\ UNCHANGED <<sdef, since_check, wait_time, htu, reading2, fault_in>>
      /\ since_sent \in 0..(SampleInterval + 1) /\ Left \in Int /\ Left >= 0 /\ Left' = Left
      /\ SampleInterval \in Nat /\ Never = SampleInterval + 2 /\ c \in Nat /\ c >= 1
  <2>1. Times(c) /\ Phases(c) /\ ReadInTime(c) /\ ChipInv
    BY DEF FaultInv
  <2>2. /\ at = <<"send", "T">> /\ at' = <<"iterate", "T">>
        /\ UNCHANGED <<sdef, since_check, wait_time, htu, reading2, fault_in>>
    BY DEF SendAtInterval
  <2>3. ~Sampling /\ ~Sampling' /\ Left' = Left
    BY <2>2 DEF Sampling, Left
  <2>4. Left >= 0 /\ since_sent \in 0..(SampleInterval + 1)
    BY <2>1, <2>2 DEF Times
  <2>5. "T" \in HtuName
    BY DEF HtuName
  <2>6. Left \in Int /\ SampleInterval \in Nat /\ Never = SampleInterval + 2
    BY <2>1, <2>5, WakeIsInt
  <2>7. c \in Nat /\ c >= 1
    BY Calendar
  <2> QED BY <2>1, <2>2, <2>3, <2>4, <2>6, <2>7, Zenon
<1>2. /\ \A n \in HtuName : Wake(n) = since_sent + Left /\ Wake(n)' = since_sent' + Left
  BY <1>1 DEF Wake, Unslotted, HtuName
<1>3. ChipIdle => ChipIdle'
  BY <1>1 DEF ChipIdle, Busy
<1>4. ChipInv' /\ Joins(c)' /\ Settled'
  BY <1>1 DEF ChipInv, Busy, Joins, Settled
<1>5. at' \in Steps
  BY <1>1 DEF Steps
<1>6. CASE since_sent > SampleInterval
  <2>1. /\ since_sent' = 0 /\ since_sent = SampleInterval + 1
        /\ ndata' = [n \in HtuName |-> IF IsActive(n) THEN Sent(ndata[n]) ELSE ndata[n]]
    BY <1>1, <1>6 DEF SendAtInterval
  <2>2. \A n \in HtuName : IsActive(n)
    BY <1>1 DEF IsActive, Times
  <2>3. ASSUME NEW n \in HtuName
        PROVE  ndata'[n] \in NData /\ Counts(n, 0, 0)' /\ ndata'[n].collecting = ndata[n].collecting
    <3>1. ndata'[n] = Sent(ndata[n]) /\ ndata[n] \in NData
      BY <1>1, <2>1, <2>2 DEF Times
    <3>2. ASSUME NEW d \in NData, NEW e, e = Sent(d)
          PROVE  e \in NData /\ e.init = 0 /\ e.collected = 0 /\ e.collecting = d.collecting
      <4>1. d = [init |-> d.init, collected |-> d.collected, samples |-> d.samples, repeats |-> d.repeats,
                 collecting |-> d.collecting]
        BY DEF NData
      <4>2. e = [init |-> 0, collected |-> 0, samples |-> 0, repeats |-> 0, collecting |-> d.collecting]
        BY <3>2, <4>1 DEF Sent
      <4>3. d.collecting \in BOOLEAN
        BY DEF NData
      <4> QED BY <4>2, <4>3 DEF NData
    <3> QED BY <3>1, <3>2 DEF Counts
  <2>4. ndata' \in [HtuName -> NData]
    BY <2>1, <2>3
  <2>5. /\ \A k \in 0..c : k < c => Ends(c, k) <= SampleInterval /\ Begins(c, k) <= SampleInterval
        /\ Ends(c, 0) + 1 <= SampleInterval
        /\ Begins(c, c) - (SampleInterval + 1) <= Begins(c, 0) /\ Ends(c, c) - (SampleInterval + 1) <= Ends(c, 0)
        /\ Begins(c, 0) \in Nat /\ Ends(c, 0) \in Nat /\ Begins(c, c) \in Nat /\ Ends(c, c) \in Nat
    <3>1. /\ Begins(c, c) <= SampleInterval + Begins(c, 0) /\ SampleInterval \div c \in Nat
          /\ Ends(c, 0) + CollectionTime <= SampleInterval \div c /\ SampleInterval \div c <= SampleInterval
          /\ CollectionTime >= 3 /\ CollectionTime \in Nat
          /\ Begins(c, 0) \in Nat /\ Ends(c, 0) = Begins(c, 0) + CollectionTime
          /\ Begins(c, c) \in Nat /\ Ends(c, c) = Begins(c, c) + CollectionTime
      <4>1. 0 \in Nat
        OBVIOUS
      <4> QED BY <1>1, <4>1, Calendar
    <3>2. ASSUME NEW k \in 0..c, k < c
          PROVE  Ends(c, k) <= SampleInterval /\ Begins(c, k) <= SampleInterval
      <4>1. k \in Nat
        BY <1>1
      <4>2. /\ Begins(c, k) + SampleInterval \div c <= Begins(c, c) /\ Begins(c, k) \in Nat
            /\ Ends(c, k) = Begins(c, k) + CollectionTime
        BY <1>1, <3>2, <4>1, Calendar
      <4> QED BY <1>1, <3>1, <4>2
    <3> QED BY <1>1, <3>1, <3>2
  <2>6. ASSUME NEW n \in HtuName
        PROVE  Wake(n)' = Wake(n) - (SampleInterval + 1) /\ Wake(n) > SampleInterval /\ Wake(n) \in Int
               /\ \A g, u \in BOOLEAN : Flags(n, g, u) => Flags(n, g, u)'
    <3>1. Wake(n)' = Wake(n) - (SampleInterval + 1) /\ Wake(n) > SampleInterval /\ Wake(n) \in Int
      BY <1>1, <1>2, <2>1
    <3> QED BY <1>1, <2>3, <3>1 DEF Flags
  <2>12. ASSUME NEW n \in HtuName, NEW k \in 0..c, Wake(n) <= Begins(c, k) \/ Wake(n) <= Ends(c, k)
         PROVE  k = c
    <3>1. ~(k < c)
      <4>1. SUFFICES ASSUME k < c PROVE FALSE
        OBVIOUS
      <4>2. Ends(c, k) <= SampleInterval /\ Begins(c, k) <= SampleInterval
        BY <2>5, <4>1
      <4>3. k \in Nat
        BY <1>1
      <4>4. Begins(c, k) \in Int /\ Ends(c, k) \in Int
        BY <4>3, Spaced
      <4> QED BY <1>1, <2>6, <2>12, <4>2, <4>4
    <3> QED BY <1>1, <3>1
  <2>7. ASSUME NEW n \in HtuName, Good(c, n) PROVE Good(c, n)'
    <3>1. PICK k \in 0..c : Down(c, n, k) \/ In(c, n, k) \/ Astray(c, n, k)
      BY <2>7 DEF Good
    <3>2. 0 \in 0..c /\ ~(0 > 0)
      BY <1>1
    <3>3. CASE Down(c, n, k)
      <4>1. k = c
        BY <2>12, <3>3 DEF Down
      <4>2. Wake(n)' <= Begins(c, 0)
        BY <1>1, <2>5, <2>6, <3>3, <4>1 DEF Down
      <4>3. Flags(n, FALSE, FALSE)'
        BY <2>6, <3>3 DEF Down
      <4>4. Down(c, n, 0)'
        BY <2>3, <3>2, <4>2, <4>3, Zenon DEF Down
      <4> QED BY <3>2, <4>4 DEF Good
    <3>4. CASE In(c, n, k)
      BY <1>1, <2>12, <3>4 DEF In
    <3>5. CASE Astray(c, n, k)
      <4>1. Wake(n) <= Begins(c, k)
        BY <1>1, <3>5 DEF Astray, Fresh
      <4>2. k = c
        BY <2>12, <4>1
      <4>3. Wake(n)' <= Begins(c, 0)
        BY <1>1, <2>5, <2>6, <4>1, <4>2
      <4>4. Flags(n, TRUE, TRUE)'
        BY <2>6, <3>5 DEF Astray
      <4>5. Astray(c, n, 0)'
        BY <2>3, <3>2, <4>3, <4>4, Zenon DEF Astray
      <4> QED BY <3>2, <4>5 DEF Good
    <3> QED BY <3>1, <3>3, <3>4, <3>5
  <2>8. ASSUME NEW n \in HtuName, Bad(c, n) PROVE Bad(c, n)'
    <3>0. Wake(n) > Ends(c, 0) /\ ~(Wake(n) <= Ends(c, 0)) /\ ~(Wake(n) \in Ends(c, 0)..(Ends(c, 0) + 1))
      BY <1>1, <2>5, <2>6
    <3>1. ~Stale(c, n)
      BY <3>0 DEF Stale
    <3>2. ~Late(c, n)
      BY <3>0 DEF Late
    <3>3. PICK k \in 0..c : Failed(c, n, k)
      BY <2>8, <3>1, <3>2 DEF Bad
    <3>4. k = c
      BY <2>12, <3>3 DEF Failed
    <3>5. Wake(n)' <= Ends(c, 0)
      BY <1>1, <2>5, <2>6, <3>3, <3>4 DEF Failed
    <3>6. fault_in' # "early"
      BY <1>1, <3>3, <3>4 DEF Failed
    <3>7. Flags(n, FALSE, TRUE)'
      BY <2>6, <3>3 DEF Failed
    <3>8. Stale(c, n)'
      BY <2>3, <3>5, <3>6, <3>7, Zenon DEF Stale
    <3> QED BY <3>8 DEF Bad
  <2>9. Phases(c)'
    <3>1. "T" \in HtuName /\ "H" \in HtuName
      BY DEF HtuName
    <3>2. /\ Good(c, "T") => Good(c, "T")'
          /\ Good(c, "H") => Good(c, "H")'
          /\ Bad(c, "T") => Bad(c, "T")'
          /\ Bad(c, "H") => Bad(c, "H")'
      BY <2>7, <2>8, <3>1
    <3> QED BY <1>1, <1>3, <1>4, <3>2, Zenon DEF Phases
  <2>10. Times(c)'
    BY <1>1, <1>5, <2>1, <2>4 DEF Times
  <2>11. ReadInTime(c)'
    <3>1. ndata'["H"].init = 0
      BY <2>3 DEF Counts, HtuName
    <3>2. \A k \in 0..c : ~Counts("H", k + 1, k)'
      BY <1>1, <3>1 DEF Counts
    <3> QED BY <3>2 DEF ReadInTime
  <2> QED BY <1>4, <2>9, <2>10, <2>11 DEF FaultInv
<1>7. CASE ~(since_sent > SampleInterval)
  <2>1. UNCHANGED <<since_sent, ndata>>
    BY <1>7 DEF SendAtInterval
  <2>2. Phases(c)'
    <3>1. \A n \in HtuName : Wake(n)' \in Int /\ Wake(n)' <= Wake(n) /\ (Late(c, n) => Wake(n)' = Wake(n))
      BY <1>1, <1>2, <2>1
    <3>2. since_sent' \in Int /\ since_sent' >= since_sent /\ at # <<"sample", "H">> /\ at' # <<"sample", "H">>
      BY <1>1, <2>1
    <3> QED BY <1>1, <1>3, <2>1, <3>1, <3>2, PhasesStay
  <2>3. Times(c)'
    BY <1>1, <1>5, <2>1 DEF Times
  <2>4. ReadInTime(c)'
    <3>1. \A k \in 0..c : /\ Counts("H", k + 1, k)' <=> Counts("H", k + 1, k)
                          /\ \A x \in 0..2 : Spare(c, k, x)' <=> Spare(c, k, x)
      BY <1>1, <2>1 DEF Counts, Spare
    <3>2. at' # <<"end", "T">> /\ 0 \in 0..2 /\ 1 \in 0..2 /\ 2 \in 0..2 /\ htu' = htu /\ ndata' = ndata
      BY <1>1, <2>1
    <3> QED BY <1>1, <3>1, <3>2 DEF ReadInTime
  <2> QED BY <1>4, <2>2, <2>3, <2>4 DEF FaultInv
<1> QED BY <1>6, <1>7
-----------------------------------------------------------------------------
(* The sensor is iterated for one that is to be collected.                 *)

\* Nothing is due; or a value is read, or fails, and the humidity may be asked for.
IteratedChip(h, n, ok, t) ==
  /\ t.htu \in HtuState /\ t.htu.flags = h.flags
  /\ \/ /\ t = HtuIterate(h, n, TRUE) /\ t.htu = h /\ t.resp = "BUSY"
        /\ h.state["T"] # "ripe" /\ h.state["H"] # "ripe"
     \/ /\ h.state["T"] # "idle" \/ h.state["H"] # "idle"
        /\ t.htu.state["T"] = "idle"
        /\ t.resp = "ERROR" => ~ok /\ t.htu.state["H"] = "idle"
        /\ \/ t.htu.state["H"] = "idle"
           \/ /\ h.state["T"] = "ripe" /\ t.htu.state["H"] = "req"
              /\ "H" \in h.flags /\ "T" \in t.htu.valid

LEMMA ChipIterates ==
  ASSUME NEW h \in HtuState, NEW n \in HtuName, n \in h.flags, NEW ok \in BOOLEAN,
         h.state["T"] = "idle" \/ h.state["H"] = "idle",
         h.state["H"] # "idle" => "H" \in h.flags /\ "T" \in h.valid,
         NEW t, t = HtuIterate(h, n, ok)
  PROVE  IteratedChip(h, n, ok, t)
<1> USE DEF IteratedChip
<1>1. h.flags # {} /\ h.flags \subseteq {"T", "H"} /\ (h.flags # {"T"} => "H" \in h.flags)
  BY DEF HtuState, HtuName
<1>2. CASE h.state["T"] # "ripe" /\ h.state["H"] # "ripe"
  BY <1>1, <1>2 DEF HtuIterate, CollectHumi, Is
<1>3. CASE h.state["T"] # "ripe" /\ h.state["H"] = "ripe"
  <2>1. "H" \in h.flags /\ "T" \in h.valid /\ h.state["T"] = "idle" /\ h.flags # {"T"}
    BY <1>3
  <2>2. t = CollectHumi(h, n, ok)
    BY <1>1, <1>3, <2>1 DEF HtuIterate
  <2> DEFINE after == IF ok THEN Read(h, "H") ELSE Unread(h, "H")
             done == IF h.flags = {"H"} THEN [after EXCEPT !.valid = @ \ {"T"}] ELSE after
  <2>3. t = IF ok THEN Is(done, "SUCCESS") ELSE Fails(done, n, "H")
    BY <1>3, <2>1, <2>2 DEF CollectHumi
  <2>4. after \in HtuState /\ after.flags = h.flags /\ after.state["H"] = "idle" /\ after.state["T"] = "idle"
    BY <2>1 DEF HtuState, HtuName, Read, Unread
  <2> HIDE DEF after
  <2>5. done \in HtuState /\ done.flags = h.flags /\ done.state["H"] = "idle" /\ done.state["T"] = "idle"
    BY <2>4 DEF HtuState
  <2> HIDE DEF done
  <2>6. t.htu = done /\ (t.resp = "ERROR" => ~ok)
    BY <2>3 DEF Is, Fails
  <2> QED BY <1>3, <2>5, <2>6
<1>4. CASE h.state["T"] = "ripe"
  <2>1. h.state["H"] = "idle"
    BY <1>4
  <2>2. CASE ~ok
    <3>1. t = Fails(Unread(h, "T"), n, "T")
      BY <1>1, <1>4, <2>2 DEF HtuIterate
    <3>2. /\ Unread(h, "T") \in HtuState /\ Unread(h, "T").flags = h.flags
          /\ Unread(h, "T").state["T"] = "idle" /\ Unread(h, "T").state["H"] = "idle"
      BY <2>1 DEF HtuState, HtuName, Unread
    <3>3. t.htu = Unread(h, "T")
      BY <3>1 DEF Is, Fails
    <3> QED BY <1>4, <2>2, <3>2, <3>3
  <2>3. CASE ok
    <3>1. /\ Read(h, "T") \in HtuState /\ Read(h, "T").flags = h.flags /\ "T" \in Read(h, "T").valid
          /\ Read(h, "T").state["T"] = "idle" /\ Read(h, "T").state["H"] = "idle"
      BY <2>1 DEF HtuState, HtuName, Read
    <3>2. CASE h.flags = {"T"}
      <4>1. t.htu = Read(h, "T") /\ t.resp = "SUCCESS"
        BY <1>1, <1>4, <2>3, <3>2 DEF HtuIterate, Is
      <4> QED BY <1>4, <3>1, <4>1
    <3>3. CASE h.flags # {"T"}
      <4>1. t.htu = Req(Read(h, "T"), "H") /\ t.resp = "BUSY"
        BY <1>1, <1>4, <2>3, <3>3 DEF HtuIterate, Is
      <4>2. ASSUME NEW g \in HtuState
            PROVE  /\ Req(g, "H") \in HtuState /\ Req(g, "H").flags = g.flags /\ Req(g, "H").valid = g.valid
                   /\ Req(g, "H").state["H"] = "req" /\ Req(g, "H").state["T"] = g.state["T"]
        BY DEF Req, HtuState, HtuName
      <4>3. /\ t.htu \in HtuState /\ t.htu.flags = h.flags /\ "T" \in t.htu.valid
            /\ t.htu.state["H"] = "req" /\ t.htu.state["T"] = "idle"
        BY <3>1, <4>1, <4>2
      <4> QED BY <1>1, <1>4, <3>3, <4>1, <4>3
    <3> QED BY <3>2, <3>3
  <2> QED BY <2>2, <2>3
<1> QED BY <1>2, <1>3, <1>4

LEMMA IterateFrame ==
  ASSUME Roomy, NEW c \in SampleCount, FaultInv(c), NEW n \in HtuName, IterateSlot(n)
  PROVE  /\ Times(c) /\ Phases(c) /\ ReadInTime(c) /\ ChipInv
         /\ at = <<"iterate", n>> /\ at' = (IF n = "T" THEN <<"iterate", "H">> ELSE <<"end", "T">>)
         /\ ~Sampling /\ ~Sampling' /\ Left' = Left /\ Joins(c)' /\ Settled'
         /\ UNCHANGED <<sdef, since_sent, since_check, wait_time, reading2>>
         /\ at # <<"sample", "H">> /\ at' # <<"sample", "H">>
         /\ since_sent' \in Int /\ since_sent' >= since_sent
         /\ \A m \in HtuName : Wake(m)' \in Int /\ Wake(m)' <= Wake(m) /\ (Late(c, m) => Wake(m)' = Wake(m))
         /\ \A m \in HtuName : ~Fresh(c, m)
         /\ ndata' \in [HtuName -> NData] /\ htu' \in HtuState => Times(c)'
<1>1. Times(c) /\ Phases(c) /\ ReadInTime(c) /\ ChipInv
  BY DEF FaultInv
<1>2. /\ at = <<"iterate", n>> /\ at' = (IF n = "T" THEN <<"iterate", "H">> ELSE <<"end", "T">>)
      /\ UNCHANGED <<sdef, since_sent, since_check, wait_time, reading2>>
  BY DEF IterateSlot
<1>3. /\ ~Sampling /\ ~Sampling' /\ Left' = Left /\ at # <<"sample", "H">> /\ at' # <<"sample", "H">>
      /\ Joins(c)' /\ Settled'
  BY <1>2 DEF Sampling, Left, Joins, Settled
<1>4. \A m \in HtuName : ~Unslotted(m) /\ ~Unslotted(m)' /\ ~Fresh(c, m)
  BY <1>2 DEF Unslotted, Fresh
<1>5. \A m \in HtuName : Wake(m)' = Wake(m) /\ Wake(m) \in Int
  BY <1>1, <1>2, <1>3, <1>4, WakeIsInt DEF Wake
<1>6. since_sent' \in Int /\ since_sent' >= since_sent
  BY <1>1, <1>2, WakeIsInt
<1>7. \A m \in HtuName : Wake(m)' \in Int /\ Wake(m)' <= Wake(m) /\ (Late(c, m) => Wake(m)' = Wake(m))
  BY <1>5
<1>8. ASSUME ndata' \in [HtuName -> NData], htu' \in HtuState PROVE Times(c)'
  <2>1. at' \in Steps /\ at' \notin {<<"command", "T">>, <<"sample", "T">>}
    BY <1>2 DEF Steps, HtuName
  <2>2. Left >= 0 /\ wait_time <= SampleInterval + 1
    BY <1>1, <1>2, <1>3 DEF Times
  <2>3. Left \in Int
    BY <1>1, WakeIsInt
  <2> QED BY <1>1, <1>2, <1>3, <1>8, <2>1, <2>2, <2>3 DEF Times
<1> QED BY <1>1, <1>2, <1>3, <1>4, <1>6, <1>7, <1>8

LEMMA IterateStill ==
  ASSUME Roomy, NEW c \in SampleCount, FaultInv(c), NEW n \in HtuName, IterateSlot(n),
         ndata' = ndata, htu' = htu, fault_in' = fault_in,
         n = "H" => ~Owed("H") \/ (htu.state["T"] # "ripe" /\ htu.state["H"] # "ripe")
  PROVE  FaultInv(c)'
<1>1. ChipIdle => ChipIdle'
  BY DEF ChipIdle, Busy
<1>2. Phases(c)'
  BY <1>1, IterateFrame, PhasesStay
<1>3. Times(c)'
  BY IterateFrame DEF Times
<1>4. ChipInv'
  BY IterateFrame DEF ChipInv, Busy, HtuName
<1>5. ReadInTime(c)'
  <2>1. SUFFICES ASSUME NEW k \in 0..c, Counts("H", k + 1, k)', ndata'["H"].collecting = TRUE
                 PROVE  /\ htu'.state["T"] = "req" => Spare(c, k, 2)'
                        /\ htu'.state["T"] = "ripe" => Spare(c, k, 1)' /\ at' # <<"end", "T">>
                        /\ htu'.state["H"] = "req" => Spare(c, k, 1)'
                        /\ htu'.state["H"] = "ripe" => Spare(c, k, 0)' /\ at' # <<"end", "T">>
    BY DEF ReadInTime
  <2>2. Counts("H", k + 1, k) /\ ndata["H"].collecting = TRUE
    BY <2>1 DEF Counts
  <2>3. /\ htu.state["T"] = "req" => Spare(c, k, 2)
        /\ htu.state["T"] = "ripe" => Spare(c, k, 1)
        /\ htu.state["H"] = "req" => Spare(c, k, 1)
        /\ htu.state["H"] = "ripe" => Spare(c, k, 0)
    BY <2>2, IterateFrame DEF ReadInTime
  <2>4. \A x \in 0..2 : Spare(c, k, x) => Spare(c, k, x)'
    BY IterateFrame DEF Spare
  <2>5. Owed("H")
    <3>1. c \in Nat
      BY Calendar
    <3> QED BY <2>2, <3>1 DEF Owed, Counts
  <2>6. htu.state["T"] = "ripe" \/ htu.state["H"] = "ripe" => at' # <<"end", "T">>
    BY <2>5, IterateFrame DEF HtuName
  <2> QED BY <2>3, <2>4, <2>6
<1> QED BY <1>2, <1>3, <1>4, <1>5, IterateFrame DEF FaultInv

\* The chip is read, or asked for the humidity.
LEMMA IterateReads ==
  ASSUME Roomy, NEW c \in SampleCount, FaultInv(c), NEW n \in HtuName, IterateSlot(n),
         ndata' = ndata, Good(c, "T"), Good(c, "H"), htu' \in HtuState, htu'.flags = htu.flags, htu'.state["T"] = "idle",
         \/ htu'.state["H"] = "idle"
         \/ htu.state["T"] = "ripe" /\ htu'.state["H"] = "req" /\ "H" \in htu.flags /\ "T" \in htu'.valid
  PROVE  FaultInv(c)'
<1>1. Good(c, "T")' /\ Good(c, "H")'
  <2>1. "T" \in HtuName /\ "H" \in HtuName
    BY DEF HtuName
  <2>2. ASSUME NEW m \in HtuName, Good(c, m) PROVE Good(c, m)'
    <3>1. ~Fresh(c, m)
      BY IterateFrame
    <3> QED BY <2>2, <3>1, IterateFrame, GoodStays
  <2> QED BY <2>1, <2>2
<1>2. Phases(c)'
  BY <1>1, IterateFrame DEF Phases
<1>3. Times(c)'
  BY IterateFrame DEF Times
<1>4. ChipInv'
  BY IterateFrame DEF ChipInv, Busy, HtuName
<1>5. ReadInTime(c)'
  <2>1. SUFFICES ASSUME NEW k \in 0..c, Counts("H", k + 1, k)', ndata'["H"].collecting = TRUE, htu'.state["H"] = "req"
                 PROVE  Spare(c, k, 1)'
    BY DEF ReadInTime
  <2>2. Counts("H", k + 1, k) /\ ndata["H"].collecting = TRUE
    BY <2>1 DEF Counts
  <2>3. Spare(c, k, 1)
    BY <2>1, <2>2, IterateFrame DEF ReadInTime
  <2> QED BY <2>3, IterateFrame DEF Spare
<1> QED BY <1>2, <1>3, <1>4, <1>5, IterateFrame DEF FaultInv

\* The read fails: the sample is passed over, the flag stays up.
LEMMA CountsFailed ==
  ASSUME ndata \in [HtuName -> NData], NEW n \in HtuName, NEW k \in Nat, Counts(n, k + 1, k),
         NEW d, d = AfterIteration(ndata[n], "ERROR"), ndata' = [ndata EXCEPT ![n] = d]
  PROVE  /\ ndata' \in [HtuName -> NData] /\ Counts(n, (k + 1) + 1, k + 1)' /\ ndata'[n].collecting = FALSE
         /\ \A m \in HtuName \ {n} : ndata'[m] = ndata[m]
<1>1. PICK j \in Nat, l \in Nat : j = (k + 1) + 1 /\ l = k + 1
  OBVIOUS
<1>2. ndata[n] \in NData
  OBVIOUS
<1>3. d = [ndata[n] EXCEPT !.init = j, !.collected = l, !.collecting = FALSE]
  BY <1>1 DEF AfterIteration, Counts
<1>4. d \in NData /\ d.init = j /\ d.collected = l /\ d.collecting = FALSE
  BY <1>2, <1>3 DEF NData
<1>5. /\ ndata' \in [HtuName -> NData] /\ Counts(n, d.init, d.collected)' /\ ndata'[n].collecting = d.collecting
      /\ \A m \in HtuName \ {n} : ndata'[m] = ndata[m]
  BY <1>4, CountsTurned
<1> QED BY <1>1, <1>4, <1>5 DEF Counts

LEMMA IterateFails ==
  ASSUME Roomy, NEW c \in SampleCount, FaultInv(c), NEW n \in HtuName, IterateSlot(n),
         NEW k \in 0..c, In(c, n, k), Good(c, Other(n)), Chip(n, FALSE),
         ndata' \in [HtuName -> NData], Counts(n, (k + 1) + 1, k + 1)', ndata'[n].collecting = FALSE,
         \A m \in HtuName \ {n} : ndata'[m] = ndata[m],
         htu' \in HtuState, htu'.flags = htu.flags, htu'.state["T"] = "idle", htu'.state["H"] = "idle"
  PROVE  FaultInv(c)'
<1>1. /\ c \in Nat /\ k \in Nat /\ k < c /\ Counts(n, k + 1, k) /\ Flags(n, TRUE, TRUE)
      /\ since_sent >= Begins(c, k) /\ Wake(n) <= Ends(c, k) /\ Wake(n) \in Int /\ since_sent \in Int
  <2>1. c \in Nat /\ Times(c)
    BY Calendar, IterateFrame
  <2>2. Wake(n) \in Int /\ since_sent \in Int
    BY <2>1, WakeIsInt
  <2>3. k \in Nat
    BY <2>1
  <2> QED BY <2>1, <2>2, <2>3, Zenon DEF In
<1>2. /\ Begins(c, k) \in Nat /\ Begins(c, k + 1) = Begins(c, k) + SampleInterval \div c
      /\ Ends(c, k) = Begins(c, k) + CollectionTime /\ Ends(c, k + 1) = Begins(c, k + 1) + CollectionTime
      /\ CollectionTime \in Nat /\ SampleInterval \div c \in Nat /\ SampleInterval \in Nat
      /\ Begins(c, 0) >= 2 /\ Begins(c, 0) \in Nat /\ Begins(c, c) > SampleInterval + 1
      /\ k = 0 \/ Begins(c, 0) + SampleInterval \div c <= Begins(c, k)
  <2>1. k + 1 \in Nat /\ 0 \in Nat /\ (k = 0 \/ 0 < k)
    BY <1>1
  <2> QED BY <1>1, <2>1, Calendar
<1>3. since_sent >= 2
  BY <1>1, <1>2
<1>4. fault_in' = "early" => k + 1 < c
  <2>1. SUFFICES ASSUME fault_in' = "early", k + 1 = c PROVE FALSE
    BY <1>1
  <2>2. Every(n) = SampleInterval \div c
    BY IterateFrame, TimesAre DEF Times
  <2>3. since_sent < SampleInterval - SampleInterval \div c
    BY <2>1, <2>2 DEF Chip
  <2> QED BY <1>1, <1>2, <2>1, <2>3
<1>6. Failed(c, n, k + 1)'
  <2>1. n \in htu'.flags /\ Flags(n, FALSE, TRUE)'
    BY <1>1 DEF Flags
  <2>2. k + 1 > 0 /\ (k + 1) - 1 = k
    BY <1>1
  <2>3. since_sent' >= Begins(c, k) /\ Wake(n)' <= Ends(c, k + 1) /\ since_sent' >= 2
    <3>1. Wake(n)' \in Int /\ Wake(n)' <= Wake(n) /\ since_sent' = since_sent
      BY IterateFrame
    <3> QED BY <1>1, <1>2, <1>3, <3>1
  <2> QED BY <1>4, <2>1, <2>2, <2>3, Zenon DEF Failed
<1>7. Bad(c, n)'
  <2>1. k + 1 \in 0..c
    BY <1>1
  <2> QED BY <1>6, <2>1 DEF Bad
<1>8. Good(c, Other(n))'
  <2>1. Other(n) \in HtuName /\ Other(n) # n
    BY DEF Other, HtuName
  <2>2. ndata'[Other(n)] = ndata[Other(n)] /\ ~Fresh(c, Other(n))
    BY <2>1, IterateFrame
  <2> QED BY <2>1, <2>2, IterateFrame, GoodStays
<1>9. ChipIdle'
  BY DEF ChipIdle, Busy
<1>10. Phases(c)'
  BY <1>7, <1>8, <1>9, IterateFrame DEF Phases, Other, HtuName
<1>11. Times(c)'
  BY IterateFrame
<1>12. ChipInv' /\ ReadInTime(c)'
  BY DEF ChipInv, Busy, ReadInTime
<1> QED BY <1>10, <1>11, <1>12, IterateFrame DEF FaultInv

LEMMA IterateFaults ==
  ASSUME Roomy, NEW c \in SampleCount, FaultInv(c), NEW n \in HtuName, IterateSlot(n)
  PROVE  FaultInv(c)'
<1>1. /\ Times(c) /\ Phases(c) /\ ChipInv /\ ndata \in [HtuName -> NData] /\ htu \in HtuState
      /\ "T" \in HtuName /\ "H" \in HtuName /\ c \in Nat
  BY IterateFrame, Calendar DEF Times, HtuName
<1>2. CASE ~Owed(n)
  <2>1. ndata' = ndata /\ htu' = htu /\ fault_in' = fault_in
    BY <1>2 DEF IterateSlot
  <2> QED BY <1>2, <2>1, IterateStill
<1>3. CASE Owed(n)
  <2>0. PICK ok \in BOOLEAN :
          LET tried == HtuIterate(htu, n, ok)
          IN  /\ ok \/ tried # HtuIterate(htu, n, TRUE)
              /\ Chip(n, ok) /\ htu' = tried.htu
              /\ ndata' = [ndata EXCEPT ![n] = AfterIteration(@, tried.resp)]
    BY <1>3 DEF IterateSlot
  <2>8. PICK t : t = HtuIterate(htu, n, ok)
    OBVIOUS
  <2>1. /\ ok \/ t # HtuIterate(htu, n, TRUE)
        /\ Chip(n, ok) /\ htu' = t.htu
        /\ ndata' = [ndata EXCEPT ![n] = AfterIteration(ndata[n], t.resp)]
    BY <2>0, <2>8
  <2>2. n \in htu.flags /\ \E k \in 0..c : In(c, n, k) \/ Failed(c, n, k)
    <3>1. Good(c, n) \/ Bad(c, n)
      BY <1>1 DEF Phases, HtuName
    <3>2. \A k \in 0..c : ~Down(c, n, k) /\ ~Astray(c, n, k)
      <4>1. \A k \in 0..c : ~Counts(n, k, k)
        BY <1>1, <1>3 DEF Owed, Counts
      <4> QED BY <4>1 DEF Down, Astray
    <3>3. ~Stale(c, n) /\ ~Late(c, n)
      <4>1. ~Counts(n, 0, 0) /\ ~Counts(n, 0, 1)
        BY <1>1, <1>3 DEF Owed, Counts
      <4> QED BY <4>1 DEF Stale, Late
    <3>4. \E k \in 0..c : In(c, n, k) \/ Failed(c, n, k)
      BY <3>1, <3>2, <3>3 DEF Good, Bad
    <3> QED BY <3>4 DEF In, Failed, Flags
  <2>3. IteratedChip(htu, n, ok, t)
    <3>1. htu.state["T"] = "idle" \/ htu.state["H"] = "idle"
      BY <1>1 DEF ChipInv, Busy
    <3>2. htu.state["H"] # "idle" => "H" \in htu.flags /\ "T" \in htu.valid
      BY <1>1 DEF ChipInv, Busy
    <3>3. htu \in HtuState /\ n \in htu.flags
      BY <1>1, <2>2
    <3> QED BY <2>8, <3>1, <3>2, <3>3, ChipIterates
  <2>4. t.resp # "ERROR" => ndata' = ndata
    BY <1>1, <2>1 DEF AfterIteration
  <2>5. htu' = t.htu
    BY <2>1
  <2>6. CASE /\ t = HtuIterate(htu, n, TRUE) /\ t.htu = htu /\ t.resp = "BUSY"
             /\ htu.state["T"] # "ripe" /\ htu.state["H"] # "ripe"
    <3>1. ok
      BY <2>1, <2>6
    <3>2. fault_in' = fault_in
      BY <2>1, <3>1 DEF Chip
    <3> QED BY <2>4, <2>5, <2>6, <3>2, IterateStill
  <2>7. CASE /\ htu.state["T"] # "idle" \/ htu.state["H"] # "idle"
             /\ t.htu.state["T"] = "idle"
             /\ t.resp = "ERROR" => ~ok /\ t.htu.state["H"] = "idle"
             /\ \/ t.htu.state["H"] = "idle"
                \/ /\ htu.state["T"] = "ripe" /\ t.htu.state["H"] = "req"
                   /\ "H" \in htu.flags /\ "T" \in t.htu.valid
    <3>1. ~ChipIdle
      BY <2>7 DEF ChipIdle, Busy
    <3>2. Good(c, "T") /\ Good(c, "H")
      BY <1>1, <3>1 DEF Phases
    <3>3. CASE t.resp # "ERROR"
      BY <2>3, <2>4, <2>5, <2>7, <3>2, <3>3, IterateReads DEF IteratedChip
    <3>4. CASE t.resp = "ERROR"
      <4>1. ~ok /\ Chip(n, FALSE) /\ t.htu.state["H"] = "idle"
        BY <2>1, <2>7, <3>4
      <4>2. PICK k \in 0..c : In(c, n, k)
        <5>1. PICK k \in 0..c : In(c, n, k) \/ Failed(c, n, k)
          BY <2>2
        <5>2. Counts(n, k + 1, k) /\ Good(c, n)
          BY <3>2, <5>1 DEF In, Failed, HtuName
        <5>3. In(c, n, k)
          BY <1>1, <5>2, PhaseIs
        <5> QED BY <5>3
      <4>3. Good(c, Other(n))
        BY <3>2 DEF Other
      <4>4. /\ ndata' \in [HtuName -> NData] /\ Counts(n, (k + 1) + 1, k + 1)' /\ ndata'[n].collecting = FALSE
            /\ \A m \in HtuName \ {n} : ndata'[m] = ndata[m]
        <5>1. PICK d : d = AfterIteration(ndata[n], "ERROR")
          OBVIOUS
        <5>2. ndata' = [ndata EXCEPT ![n] = d] /\ k \in Nat /\ Counts(n, k + 1, k)
          BY <1>1, <2>1, <3>4, <4>2, <5>1 DEF In
        <5> QED BY <1>1, <5>1, <5>2, CountsFailed
      <4> QED BY <2>3, <2>5, <2>7, <4>1, <4>2, <4>3, <4>4, IterateFails DEF IteratedChip
    <3> QED BY <3>3, <3>4
  <2> QED BY <2>3, <2>6, <2>7 DEF IteratedChip
<1> QED BY <1>2, <1>3
-----------------------------------------------------------------------------
(* Time passes: a tick, or, when none is to be collected, until the wait is over. *)

LEMMA ChipRipens ==
  ASSUME NEW h \in HtuState, NEW g, g = Pause(h)
  PROVE  /\ g \in HtuState /\ g.flags = h.flags /\ g.valid = h.valid
         /\ \A n \in HtuName : /\ g.state[n] = "idle" <=> h.state[n] = "idle"
                               /\ g.state[n] # "req"
                               /\ g.state[n] = "ripe" => h.state[n] \in {"req", "ripe"}
BY DEF Pause, HtuState

LEMMA TickFaults ==
  ASSUME Roomy, NEW c \in SampleCount, FaultInv(c), SamplerTick
  PROVE  FaultInv(c)'
<1>1. /\ Times(c) /\ Phases(c) /\ ReadInTime(c) /\ ChipInv /\ at = <<"end", "T">> /\ at' = <<"command", "T">>
      /\ ~Sampling /\ ~Sampling' /\ htu \in HtuState
      /\ UNCHANGED <<sdef, ndata, wait_time, reading2, fault_in>>
  <2>1. Times(c) /\ Phases(c) /\ ReadInTime(c) /\ ChipInv
    BY DEF FaultInv
  <2>2. at = <<"end", "T">> /\ at' = <<"command", "T">> /\ UNCHANGED <<sdef, ndata, wait_time, reading2, fault_in>>
    BY DEF SamplerTick, history
  <2> QED BY <2>1, <2>2 DEF Sampling, Times
<1>2. /\ since_sent \in Nat /\ since_sent <= SampleInterval + 1 /\ since_check \in Nat /\ wait_time \in Nat
      /\ wait_time <= SampleInterval + 1 /\ Left = wait_time - since_check /\ Left >= 0 /\ since_check <= wait_time
      /\ SampleInterval \in Nat /\ Never = SampleInterval + 2
  <2>1. /\ since_sent \in Nat /\ since_sent <= SampleInterval + 1 /\ since_check \in Nat /\ wait_time \in Nat
        /\ SampleInterval \in Nat /\ Never = SampleInterval + 2
    BY <1>1, SamplerAssumption DEF Times, Never
  <2>2. Left >= 0 /\ wait_time <= SampleInterval + 1
    BY <1>1 DEF Times
  <2> QED BY <2>1, <2>2 DEF Left
<1>3. \A n \in HtuName : Wake(n) = since_sent + Left /\ Wake(n)' = since_sent' + Left'
  BY <1>1 DEF Wake, Unslotted, HtuName
<1>4. \E t \in Nat : /\ t >= 1 /\ Elapse(t)
                     /\ t = 1 \/ (~Owed("H") /\ t <= Left /\ since_sent + t <= SampleInterval)
  <2>1. CASE Elapse(1)
    BY <2>1
  <2>2. CASE /\ \A n \in HtuName : ~Owed(n)
             /\ since_check < wait_time /\ since_sent < SampleInterval
             /\ SleepTime > 1 /\ Elapse(SleepTime - 1)
    <3>1. /\ Delta(wait_time, since_check) = wait_time - since_check
          /\ Delta(SampleInterval, since_sent) = SampleInterval - since_sent
      BY <1>2, <2>2 DEF Delta, Least
    <3>2. SleepTime \in Nat /\ SleepTime <= wait_time - since_check /\ SleepTime <= SampleInterval - since_sent
      BY <1>2, <2>2, <3>1 DEF SleepTime, Least
    <3>3. PICK t \in Nat : t = SleepTime - 1 /\ t >= 1
      BY <2>2, <3>2
    <3>4. t <= Left /\ since_sent + t <= SampleInterval /\ Elapse(t) /\ ~Owed("H")
      BY <1>2, <2>2, <3>2, <3>3 DEF HtuName
    <3> QED BY <3>3, <3>4
  <2> QED BY <2>1, <2>2 DEF SamplerTick
<1>5. PICK t \in Nat : /\ t >= 1 /\ Elapse(t)
                       /\ t = 1 \/ (~Owed("H") /\ t <= Left /\ since_sent + t <= SampleInterval)
  BY <1>4
<1>6. /\ since_sent' = Least(since_sent + t, SampleInterval + 1) /\ since_check' = Least(since_check + t, Never)
      /\ htu' = Pause(htu)
  BY <1>5 DEF Elapse
<1>7. /\ since_sent' \in 0..(SampleInterval + 1) /\ since_sent' >= since_sent /\ since_sent' <= since_sent + t
      /\ since_check' = since_check + t /\ since_check' \in 0..Never /\ Left' = Left - t /\ Left' >= -1
      /\ since_sent <= SampleInterval => since_sent' = since_sent + t
  <2>1. since_check + t <= Never /\ Left \in Int
    BY <1>2, <1>5
  <2>2. since_check' = since_check + t
    BY <1>2, <1>6, <2>1 DEF Least
  <2>3. Left' = Left - t
    BY <1>1, <1>2, <2>2 DEF Left
  <2> QED BY <1>2, <1>5, <1>6, <2>1, <2>2, <2>3 DEF Least
<1>8. /\ htu' \in HtuState /\ htu'.flags = htu.flags /\ htu'.valid = htu.valid
      /\ \A n \in HtuName : /\ htu'.state[n] = "idle" <=> htu.state[n] = "idle"
                            /\ htu'.state[n] # "req"
                            /\ htu'.state[n] = "ripe" => htu.state[n] \in {"req", "ripe"}
  BY <1>1, <1>6, ChipRipens
<1>9. Phases(c)'
  <2>1. ChipIdle => ChipIdle'
    BY <1>8 DEF ChipIdle, Busy, HtuName
  <2>2. ASSUME NEW n \in HtuName PROVE Wake(n)' \in Int /\ Wake(n)' <= Wake(n) /\ (Late(c, n) => Wake(n)' = Wake(n))
    <3>1. Wake(n) = since_sent + Left /\ Wake(n)' = since_sent' + Left' /\ Left \in Int
      BY <1>2, <1>3
    <3>2. Wake(n)' \in Int /\ Wake(n)' <= Wake(n)
      <4> DEFINE ss == since_sent'
                 ll == Left'
      <4>1. ss \in Int /\ ll \in Int /\ ss <= since_sent + t /\ ll = Left - t /\ since_sent \in Int
        BY <1>2, <1>7, <3>1
      <4>2. Wake(n)' = ss + ll
        BY <3>1
      <4> HIDE DEF ss, ll
      <4>3. ss + ll \in Int /\ ss + ll <= since_sent + Left
        BY <3>1, <4>1
      <4> QED BY <3>1, <4>2, <4>3
    <3>3. ASSUME Late(c, n) PROVE Wake(n)' = Wake(n)
      <4>1. Wake(n) <= Ends(c, 0) + 1
        <5>1. 0 \in Nat
          OBVIOUS
        <5>2. Ends(c, 0) \in Int
          BY <5>1, Spaced
        <5> QED BY <3>3, <5>2 DEF Late
      <4>2. Ends(c, 0) + 1 <= SampleInterval /\ Ends(c, 0) \in Int
        <5>1. 0 \in Nat
          OBVIOUS
        <5>2. /\ CollectionTime \in Nat /\ CollectionTime >= 3 /\ SampleInterval \div c <= SampleInterval
              /\ SampleInterval \div c \in Nat /\ Ends(c, 0) + CollectionTime <= SampleInterval \div c
              /\ Ends(c, 0) = Begins(c, 0) + CollectionTime /\ Begins(c, 0) \in Nat
          BY <5>1, Calendar
        <5> QED BY <1>2, <5>2
      <4>3. since_sent' = since_sent + t
        BY <1>2, <1>7, <3>1, <4>1, <4>2
      <4> QED BY <1>2, <1>7, <3>1, <4>3
    <3> QED BY <3>2, <3>3
  <2>3. since_sent' \in Int /\ at # <<"sample", "H">> /\ at' # <<"sample", "H">>
    BY <1>1, <1>7
  <2> QED BY <1>1, <1>7, <1>8, <2>1, <2>2, <2>3, PhasesStay
<1>10. Times(c)'
  <2>1. at' \in Steps
    BY <1>1 DEF Steps
  <2> QED BY <1>1, <1>2, <1>7, <1>8, <2>1 DEF Times
<1>11. ReadInTime(c)'
  <2>1. SUFFICES ASSUME NEW k \in 0..c, Counts("H", k + 1, k)', ndata'["H"].collecting = TRUE
                 PROVE  /\ htu'.state["T"] = "req" => Spare(c, k, 2)'
                        /\ htu'.state["T"] = "ripe" => Spare(c, k, 1)' /\ at' # <<"end", "T">>
                        /\ htu'.state["H"] = "req" => Spare(c, k, 1)'
                        /\ htu'.state["H"] = "ripe" => Spare(c, k, 0)' /\ at' # <<"end", "T">>
    BY DEF ReadInTime
  <2>2. Counts("H", k + 1, k) /\ ndata["H"].collecting = TRUE
    BY <1>1, <2>1 DEF Counts
  <2>3. /\ htu.state["T"] = "req" => Spare(c, k, 2)
        /\ htu.state["T"] # "ripe"
        /\ htu.state["H"] = "req" => Spare(c, k, 1)
        /\ htu.state["H"] # "ripe"
    BY <1>1, <2>2 DEF ReadInTime
  <2>4. t = 1 /\ k \in Nat
    <3>1. c \in Nat
      BY Calendar
    <3>2. Owed("H")
      BY <2>2, <3>1 DEF Owed, Counts
    <3> QED BY <1>5, <3>1, <3>2
  <2>5. Ends(c, k) \in Int
    BY <2>4, Spaced
  <2>6. (Spare(c, k, 2) => Spare(c, k, 1)') /\ (Spare(c, k, 1) => Spare(c, k, 0)')
    <3>1. since_sent' \in Int /\ since_sent' <= since_sent + 1 /\ Left \in Int /\ Left' = Left - 1
      BY <1>2, <1>7, <2>4
    <3>2. (since_sent + 2 < Ends(c, k) => since_sent' + 1 < Ends(c, k)) /\ (Left >= 2 => Left' >= 1)
      BY <1>2, <2>5, <3>1
    <3>3. (since_sent + 1 < Ends(c, k) => since_sent' + 0 < Ends(c, k)) /\ (Left >= 1 => Left' >= 0)
      BY <1>2, <2>5, <3>1
    <3> QED BY <1>1, <3>2, <3>3 DEF Spare
  <2> QED BY <1>1, <1>8, <2>3, <2>6 DEF HtuName
<1>12. ChipInv' /\ Joins(c)'
  BY <1>1, <1>8 DEF ChipInv, Busy, Joins, HtuName
<1> QED BY <1>9, <1>10, <1>11, <1>12 DEF FaultInv
-----------------------------------------------------------------------------
(* The specification.                                                      *)

LEMMA FaultInit == ASSUME Roomy, SamplerInit PROVE SamplerFaultInv
<1>1. PICK c \in SampleCount : sdef = [n \in HtuName |-> [interval |-> 1, samplecount |-> c]]
  BY DEF SamplerInit
<1>2. /\ ndata = [n \in HtuName |-> NoData] /\ htu = HtuAtStart
      /\ at = <<"command", "T">> /\ reading2 = NotReading
      /\ since_sent = 0 /\ since_check = 1 /\ wait_time = 0 /\ meas_commands = 0
      /\ SampleInterval \in Nat /\ Never = SampleInterval + 2 /\ c \in Nat /\ Begins(c, 0) >= 2 /\ Begins(c, 0) \in Nat
  <2>1. 0 \in Nat
    OBVIOUS
  <2> QED BY <2>1, SamplerAssumption, Calendar DEF SamplerInit, Never
<1>3. /\ ndata \in [HtuName -> NData] /\ htu \in HtuState /\ ChipIdle /\ Left = -1 /\ ~Sampling
      /\ \A n \in HtuName : Counts(n, 0, 0) /\ Flags(n, FALSE, FALSE) /\ Wake(n) = -1
  <2>1. NoData \in NData
    BY DEF NoData, NData
  <2>2. HtuAtStart \in HtuState /\ HtuAtStart.flags = {} /\ \A n \in HtuName : HtuAtStart.state[n] = "idle"
    BY DEF HtuAtStart, HtuState, HtuName
  <2>3. Left = -1 /\ ~Sampling
    BY <1>2 DEF Left, Sampling
  <2>4. \A n \in HtuName : Wake(n) = -1
    BY <1>2, <2>3 DEF Wake, Unslotted
  <2>5. \A n \in HtuName : Counts(n, 0, 0) /\ Flags(n, FALSE, FALSE)
    BY <1>2, <2>2 DEF Counts, Flags, NoData
  <2> QED BY <1>2, <2>1, <2>2, <2>3, <2>4, <2>5 DEF ChipIdle, Busy, HtuName
<1>4. \A n \in HtuName : Good(c, n)
  <2>1. ASSUME NEW n \in HtuName PROVE Down(c, n, 0)
    <3>1. Counts(n, 0, 0) /\ Flags(n, FALSE, FALSE)
      BY <1>3
    <3>2. Wake(n) = -1 /\ Begins(c, 0) >= 2 /\ Begins(c, 0) \in Nat
      BY <1>2, <1>3
    <3>3. ~(0 > 0)
      OBVIOUS
    <3>4. Wake(n) <= Begins(c, 0)
      BY <3>2
    <3> QED BY <3>1, <3>3, <3>4, Zenon DEF Down
  <2>2. 0 \in 0..c
    BY <1>2
  <2> QED BY <2>1, <2>2 DEF Good
<1>5. Phases(c) /\ Joins(c)
  BY <1>2, <1>4 DEF Phases, Settled, Joins, HtuName
<1>6. Times(c)
  <2>1. at \in Steps
    BY <1>2 DEF Steps
  <2> QED BY <1>1, <1>2, <1>3, <2>1 DEF Times
<1>7. ReadInTime(c) /\ ChipInv
  BY <1>3 DEF ReadInTime, ChipInv, ChipIdle, Busy
<1> QED BY <1>2, <1>5, <1>6, <1>7 DEF SamplerFaultInv, FaultInv

LEMMA LoopFaults == ASSUME Roomy, NEW c \in SampleCount, FaultInv(c), SamplerLoop PROVE FaultInv(c)'
<1>1. sdef = [n \in HtuName |-> [interval |-> 1, samplecount |-> c]] /\ reading2 = NotReading /\ c \in Nat /\ c >= 1
  BY Calendar DEF FaultInv, Times
<1>2. ~ReadingStep
  BY <1>1 DEF ReadingStep, NotReading
<1>3. ASSUME NEW n \in HtuName, SampleSlot(n) PROVE FaultInv(c)'
  BY <1>3, SlotOfT, SlotOfH DEF HtuName
<1>4. ASSUME NEW n \in HtuName PROVE ~SkipSlot(n)
  BY <1>1 DEF SkipSlot, IsActive
<1>5. ASSUME NEW n \in HtuName, IterateSlot(n) PROVE FaultInv(c)'
  BY <1>5, IterateFaults
<1> QED BY <1>2, <1>3, <1>4, <1>5, PassFaults, SendFaults, TickFaults DEF SamplerLoop

LEMMA FaultNext == ASSUME Roomy, SamplerFaultInv, [SamplerNext]_samplerVars PROVE SamplerFaultInv'
<1>1. meas_commands \in Nat
  BY DEF SamplerFaultInv
<1>2. ASSUME MeasCommand PROVE SamplerFaultInv'
  <2>1. meas_commands' = meas_commands + 1
    BY <1>2 DEF MeasCommand
  <2> QED BY <1>1, <2>1 DEF SamplerFaultInv
<1>3. ASSUME SamplerLoop PROVE meas_commands' = meas_commands
  BY <1>3 DEF SamplerLoop, PassBegins, SendAtInterval, SamplerTick, ReadingStep, SampleSlot, SkipSlot, IterateSlot, history
<1>4. ASSUME SamplerLoop PROVE SamplerFaultInv'
  <2>1. CASE meas_commands = 0
    <3>1. PICK c \in SampleCount : FaultInv(c)
      BY <2>1 DEF SamplerFaultInv
    <3>2. FaultInv(c)'
      BY <1>4, <3>1, LoopFaults
    <3> QED BY <1>1, <1>3, <1>4, <3>2 DEF SamplerFaultInv
  <2> QED BY <1>1, <1>3, <1>4, <2>1 DEF SamplerFaultInv
<1>5. ASSUME NEW n \in HtuName, AddMeas(n) PROVE SamplerFaultInv'
  <2>1. meas_commands' = meas_commands /\ sdef[n] = NoDef
    BY <1>5 DEF AddMeas
  <2>2. meas_commands # 0
    <3>1. SUFFICES ASSUME NEW c \in SampleCount, FaultInv(c) PROVE FALSE
      BY DEF SamplerFaultInv
    <3>2. sdef[n].interval = 1
      BY <3>1 DEF FaultInv, Times
    <3> QED BY <2>1, <3>2 DEF NoDef
  <2> QED BY <1>1, <2>1, <2>2 DEF SamplerFaultInv
<1>6. ASSUME UNCHANGED samplerVars PROVE SamplerFaultInv'
  BY <1>6 DEF samplerVars, sampling, history, SamplerFaultInv, FaultInv, Times, Phases, ReadInTime, ChipInv, Joins, Good, Bad,
     Down, In, Astray, Failed, Stale, Late, Fresh, Settled, ChipIdle, Busy, Spare, Sampling, Unslotted, Wake, Left, Counts,
     Flags, Other
<1>7. ASSUME NEW n \in HtuName,
             \/ GetReading(n) \/ Delete(n)
             \/ \E i \in {0, 1} : SetInterval(n, i)
             \/ \E c \in SampleCount : SetSamplecount(n, c)
      PROVE  SamplerFaultInv'
  BY <1>2, <1>7 DEF GetReading, Delete, SetInterval, SetSamplecount
<1> QED BY <1>4, <1>5, <1>6, <1>7 DEF SamplerNext

LEMMA FaultStays == ASSUME Roomy, SamplerFaultInv PROVE FaultStaysInInterval
<1>1. SUFFICES ASSUME fault_in = "early", meas_commands = 0, since_sent < 2, NEW n \in HtuName
               PROVE  n \notin htu.flags \/ ndata[n].collecting
  BY DEF FaultStaysInInterval
<1>2. PICK c \in SampleCount : FaultInv(c)
  BY <1>1 DEF SamplerFaultInv
<1>3. Good(c, n) \/ Bad(c, n)
  BY <1>2 DEF FaultInv, Phases, HtuName
<1>4. CASE Good(c, n)
  BY <1>4 DEF Good, Down, In, Astray, Flags
<1>5. CASE Bad(c, n)
  <2>1. since_sent \in Int
    BY <1>2 DEF FaultInv, Times
  <2>2. ASSUME NEW k \in 0..c, Failed(c, n, k) PROVE FALSE
    <3>1. since_sent >= 2
      BY <1>1, <2>2, Zenon DEF Failed
    <3> QED BY <1>1, <2>1, <3>1
  <2>3. Late(c, n)
    BY <1>1, <1>5, <2>2 DEF Bad, Stale
  <2> QED BY <2>3 DEF Late, Flags
<1> QED BY <1>3, <1>4, <1>5

(* A fault in a sample that is not the last of its interval does not reach *)
(* into the next, whichever measurement it is of, whatever the intervals   *)
(* and the samplecount, when there is room for a tick or two around each   *)
(* sample: _measurements_sample takes the flag down at the time of the next. *)
THEOREM SamplerFaultStays == ASSUME Roomy PROVE SamplerSpec => []FaultStaysInInterval
<1>1. SamplerInit => SamplerFaultInv
  BY FaultInit
<1>2. SamplerFaultInv /\ [SamplerNext]_samplerVars => SamplerFaultInv'
  BY FaultNext
<1>3. SamplerFaultInv => FaultStaysInInterval
  BY FaultStays
<1>4. QED
  BY <1>1, <1>2, <1>3, PTL DEF SamplerSpec

-----------------------------------------------------------------------------
(* What the variables of all parts hold.                                   *)

\* AdcTypeOK in two, the truth values by themselves.
AdcFlags == {in_use, converting, ftma_running, bat_running, given_up} \subseteq BOOLEAN
AdcData ==
  /\ adc_key \in {"none", "cc", "ftma", "bat"} /\ samples \in Seq(Reading) /\ samples # <<>>
  /\ cc_running \cup cc_active \cup wanted \subseteq CC /\ cc_isolated \in 0..Clamps
  /\ ftma_inited \subseteq FTMA /\ begun \subseteq Reading
  /\ got.of \cup got.from \subseteq Reading
  /\ adc_commands \in 0..MaxCcCommands

\* Each place among the channels of a conversion is that of one of them.
LEMMA EachPlaceTaken ==
  ASSUME NEW S, S \subseteq Int, IsFiniteSet(S), NEW m \in 0..(Cardinality(S) - 1)
  PROVE  \E k \in S : Cardinality(Below(k, S)) = m
<1> DEFINE rank == [k \in S |-> Cardinality(Below(k, S))]
           places == 0..(Cardinality(S) - 1)
<1>1. rank \in [S -> places]
  BY Placed
<1>2. Cardinality(S) \in Nat
  BY FS_CardinalityType
<1>3. \A k \in S : rank[k] \in Nat
  <2> HIDE DEF rank
  <2> QED BY <1>1, <1>2
<1>4. \A i, k \in S : rank[i] = rank[k] => i = k
  <2> SUFFICES ASSUME NEW i \in S, NEW k \in S, i < k PROVE rank[i] # rank[k]
    OBVIOUS
  <2>1. k \in Int /\ rank[i] = Cardinality(Below(i, S)) /\ rank[k] = Cardinality(Below(k, S))
    OBVIOUS
  <2> HIDE DEF rank
  <2>2. rank[i] < rank[k]
    BY <2>1, RankLess
  <2> QED BY <1>3, <2>2
<1>5. rank \in Injection(S, places)
  BY <1>1, <1>4 DEF Injection, IsInjective
<1>6. IsFiniteSet(places) /\ Cardinality(places) = Cardinality(S)
  BY <1>2, FS_Interval
<1>7. rank \in Surjection(S, places)
  BY <1>5, <1>6, FS_Injection
<1>8. \A p \in places : \E k \in S : rank[k] = p
  BY <1>7 DEF Surjection
<1> QED BY <1>8

\* A conversion is of channels, whoever asks for it.
LEMMA Channels ==
  /\ CC \subseteq Reading /\ FTMA \subseteq Reading /\ BAT \in Reading
  /\ \A S \in SUBSET CC : S # {} => Ascending(S) \in Seq(Reading) /\ Ascending(S) # <<>>
  /\ Ascending(FTMA) \in Seq(Reading) /\ Ascending(FTMA) # <<>>
<1>1. CC \subseteq Reading /\ FTMA \subseteq Reading /\ BAT \in Reading
  BY DEF Reading
<1>2. ASSUME NEW S, S \subseteq Int, IsFiniteSet(S), S # {}, S \subseteq Reading
      PROVE  Ascending(S) \in Seq(Reading) /\ Ascending(S) # <<>>
  <2> DEFINE count == Cardinality(S)
             nth(m) == CHOOSE i \in S : Cardinality(Below(i, S)) = m - 1
  <2>1. count \in Nat \ {0}
    BY <1>2, Placed
  <2>2. \A m \in 1..count : nth(m) \in S
    <3> TAKE m \in 1..count
    <3>1. m - 1 \in 0..(count - 1)
      BY <2>1
    <3> QED BY <1>2, <3>1, EachPlaceTaken
  <2>3. Ascending(S) = [m \in 1..count |-> nth(m)]
    BY DEF Ascending
  <2> HIDE DEF nth, count
  <2>4. Ascending(S) \in [1..count -> Reading]
    BY <1>2, <2>2, <2>3
  <2> QED BY <2>1, <2>4
<1>3. FTMA # {}
  BY AdcAssumption DEF FTMA
<1> QED BY <1>1, <1>2, <1>3, FiniteChannels

\* What is collected are channels of the conversion.
LEMMA CollectedAre ==
  ASSUME AdcData, NEW start \in Nat, NEW step \in Nat
  PROVE  ChannelsAt(start, step) \subseteq Reading
<1>1. samples \in Seq(Reading) /\ Len(samples) \in Nat \ {0}
  BY DEF AdcData
<1>2. ASSUME NEW n \in 0..Len(samples)
      PROVE  samples[((start + n * step) % Len(samples)) + 1] \in Reading
  <2>1. n * step \in Nat
    BY <1>1
  <2>2. ((start + n * step) % Len(samples)) + 1 \in 1..Len(samples)
    BY <1>1, <2>1
  <2> QED BY <1>1, <2>2
<1> QED BY <1>2 DEF ChannelsAt

\* A step of the current clamps.
LEMMA CcTypes ==
  ASSUME AdcData, NEW i \in CC, CcBegin(i) \/ CcGet(i) \/ CcEnable(i) \/ CcBlocking(i)
  PROVE  AdcData'
<1> USE AdcAssumption
<1>1. i \in Reading /\ <<i>> \in Seq(Reading) /\ <<i>> # <<>> /\ i \in 0..Clamps
  BY Channels DEF CC
<1>2. CASE CcBegin(i)
  BY <1>1, <1>2, Channels DEF CcBegin, AdcBegin, AdcData, adc, others
<1>3. CASE CcGet(i)
  <2>1. ChannelsAt(ActiveIndex(i), CcStep) \subseteq Reading
    <3>1. IsFiniteSet(cc_active) /\ cc_active \subseteq Int
      BY FiniteChannels DEF AdcData
    <3>2. Below(i, cc_active) \subseteq cc_active
      BY DEF Below
    <3>3. ActiveIndex(i) \in Nat /\ Cardinality(cc_active) \in Nat
      BY <3>1, <3>2, FS_CardinalityType, FS_Subset DEF ActiveIndex
    <3> QED BY <3>3, CollectedAre DEF CcStep
  <2>2. got' = got \/ got' \in {None, [of |-> {i}, from |-> ChannelsAt(ActiveIndex(i), CcStep)]}
    BY <1>3 DEF CcGet
  <2>3. got'.of \cup got'.from \subseteq Reading
    BY <1>1, <2>1, <2>2 DEF None, AdcData
  <2>4. /\ adc_key' \in {adc_key, "none"} /\ cc_running' \subseteq cc_running
        /\ cc_isolated' \in {cc_isolated, 0} /\ begun' \subseteq begun
        /\ UNCHANGED <<samples, cc_active, wanted, ftma_inited, adc_commands>>
    BY <1>3 DEF CcGet, ReleaseAuto, Release, adc, cc, others
  <2>5. 0 \in 0..Clamps
    OBVIOUS
  <2> HIDE AdcAssumption
  <2> QED BY <2>3, <2>4, <2>5, Zenon DEF AdcData
<1>4. CASE CcEnable(i)
  BY <1>1, <1>4 DEF CcEnable, AdcData, adc, others
<1>5. CASE CcBlocking(i)
  <2>1. /\ adc_key' \in {adc_key, "cc"} /\ cc_running' \subseteq cc_running \cup {i}
        /\ samples' \in {samples, <<i>>} /\ cc_isolated' \in {0, i}
        /\ UNCHANGED <<cc_active, wanted, ftma_inited, begun>>
    BY <1>5 DEF CcBlocking, DoneInTime, NotInTime, adc, others
  <2>2. got' = got \/ got' \in {None, [of |-> {i}, from |-> {i}]}
    BY <1>5 DEF CcBlocking
  <2>3. got'.of \cup got'.from \subseteq Reading
    BY <1>1, <2>2 DEF None, AdcData
  <2>4. adc_commands' \in 0..MaxCcCommands /\ 0 \in 0..Clamps
    BY <1>5 DEF CcBlocking, AdcCommand, AdcData
  <2> HIDE AdcAssumption
  <2> QED BY <1>1, <2>1, <2>3, <2>4, Zenon DEF AdcData
<1> QED BY <1>2, <1>3, <1>4, <1>5

\* A step of the 4-20 mA inputs.
LEMMA FtmaTypes ==
  ASSUME AdcData, NEW i \in FTMA, FtmaBegin(i) \/ FtmaGet(i)
  PROVE  AdcData'
<1>1. i \in Reading
  BY Channels
<1>2. CASE FtmaBegin(i)
  BY <1>1, <1>2, Channels DEF FtmaBegin, AdcBegin, AdcData, adc, cc
<1>3. CASE FtmaGet(i)
  <2>1. ChannelsAt(i - Clamps - 1, Ftmas) \subseteq Reading
    <3>1. i - Clamps - 1 \in Nat /\ Ftmas \in Nat
      BY AdcAssumption DEF FTMA
    <3> QED BY <3>1, CollectedAre
  <2>2. got'.of \cup got'.from \subseteq Reading
    BY <1>1, <1>3, <2>1 DEF FtmaGet
  <2> QED BY <1>1, <1>3, <2>2 DEF FtmaGet, Release, AdcData, cc
<1> QED BY <1>2, <1>3

\* A step of the battery.
LEMMA BatTypes ==
  ASSUME AdcData, BatBegin \/ BatGet \/ BatBlocking
  PROVE  AdcData'
<1>1. <<BAT>> \in Seq(Reading) /\ <<BAT>> # <<>> /\ BAT \in Reading
  BY Channels
<1>2. CASE BatBegin
  BY <1>1, <1>2 DEF BatBegin, AdcBegin, Release, AdcData, cc
<1>3. CASE BatGet
  <2>1. ChannelsAt(0, 1) \subseteq Reading
    BY CollectedAre
  <2>2. got'.of \cup got'.from \subseteq Reading
    BY <1>1, <1>3, <2>1 DEF BatGet, AdcData
  <2> QED BY <1>1, <1>3, <2>2 DEF BatGet, Release, AdcData, cc
<1>4. CASE BatBlocking
  <2>1. /\ adc_key' \in {adc_key, "none", "bat"} /\ samples' \in {samples, <<BAT>>}
        /\ UNCHANGED <<cc_active, cc_running, cc_isolated, wanted, ftma_inited, begun, got>>
    BY <1>4 DEF BatBlocking, NotInTime, Release, cc
  <2>2. adc_commands' \in 0..MaxCcCommands
    BY <1>4, AdcAssumption DEF BatBlocking, AdcCommand, AdcData
  <2> QED BY <1>1, <2>1, <2>2, Zenon DEF AdcData
<1> QED BY <1>2, <1>3, <1>4

\* A step of the other commands, the interrupt, a reading given up, and sleep.
LEMMA OtherTypes ==
  ASSUME AdcData, CcAllBlocking \/ CcCalibrate \/ DmaComplete \/ GiveUp \/ Sleep
  PROVE  AdcData'
<1> USE AdcAssumption
<1>1. Ascending(CC) \in Seq(Reading) /\ Ascending(CC) # <<>>
  BY Channels, SomeClamp
<1>2. CASE CcAllBlocking
  BY <1>1, <1>2 DEF CcAllBlocking, AdcCommand, DoneInTime, NotInTime, AdcData, adc, others
<1>3. CASE CcCalibrate
  BY <1>1, <1>3 DEF CcCalibrate, AdcCommand, DoneInTime, AdcData, adc, others
<1>4. CASE DmaComplete \/ GiveUp \/ Sleep
  BY <1>4 DEF DmaComplete, GiveUp, Sleep, AdcCommand, AdcData, adc, cc, others
<1> QED BY <1>2, <1>3, <1>4

\* Every step.
LEMMA AdcTypesStep == ASSUME AdcTypeOK, [AdcNext]_adcVars PROVE AdcTypeOK'
<1>1. AdcTypeOK <=> AdcFlags /\ AdcData
  BY DEF AdcTypeOK, AdcFlags, AdcData
<1>2. AdcTypeOK' <=> AdcFlags' /\ AdcData'
  BY DEF AdcTypeOK, AdcFlags, AdcData
<1>3. AdcFlags'
  <2> USE <1>1 DEF AdcFlags, adc, cc, others
  <2>1. ASSUME NEW i \in CC, CcBegin(i) \/ CcGet(i) \/ CcEnable(i) \/ CcBlocking(i) PROVE AdcFlags'
    BY <2>1 DEF CcBegin, AdcBegin, CcGet, CcEnable, CcBlocking, DoneInTime, NotInTime
  <2>2. ASSUME NEW i \in FTMA, FtmaBegin(i) \/ FtmaGet(i) PROVE AdcFlags'
    BY <2>2 DEF FtmaBegin, AdcBegin, FtmaGet
  <2>3. CASE BatBegin \/ BatGet \/ BatBlocking
    BY <2>3 DEF BatBegin, AdcBegin, BatGet, BatBlocking, NotInTime
  <2>4. CASE CcAllBlocking \/ CcCalibrate
    BY <2>4 DEF CcAllBlocking, CcCalibrate, DoneInTime, NotInTime
  <2>5. CASE DmaComplete \/ GiveUp \/ Sleep \/ UNCHANGED adcVars
    BY <2>5 DEF DmaComplete, GiveUp, Sleep, adcVars
  <2> QED BY <2>1, <2>2, <2>3, <2>4, <2>5 DEF AdcNext, Get
<1>4. CASE UNCHANGED adcVars
  BY <1>1, <1>4 DEF adcVars, adc, cc, others, AdcTypeOK
<1>5. AdcNext => AdcData'
  BY <1>1, CcTypes, FtmaTypes, BatTypes, OtherTypes DEF AdcNext, Get
<1> QED BY <1>1, <1>2, <1>3, <1>4, <1>5

\* What a board starts with.
LEMMA AdcTypesInit == AdcInit => AdcTypeOK
<1>1. <<BAT>> \in Seq(Reading) /\ <<BAT>> # <<>>
  BY Channels
<1>2. AdcInit => AdcData
  BY <1>1, AdcAssumption DEF AdcInit, AdcData, None
<1>3. AdcInit => AdcFlags
  BY DEF AdcInit, AdcFlags
<1> QED BY <1>2, <1>3 DEF AdcTypeOK, AdcData, AdcFlags

\* The particle sensor: HpmTypes, and the truth values.
HpmFlags == {hpm_valid, hpm_is_on, hpm_powered, header_active, old_value} \subseteq BOOLEAN

LEMMA HpmFlagsStep == ASSUME HpmFlags, [HpmNext]_hpmVars PROVE HpmFlags'
<1> USE DEF HpmFlags, hpmDriver, hpmHistory, hpmPackets, TurnOn, TurnOff
<1>1. ASSUME NEW n \in PmName, HpmInit(n) PROVE HpmFlags'
  BY <1>1 DEF HpmInit
<1>2. ASSUME NEW n \in PmName, HpmGet(n) PROVE HpmFlags'
  BY <1>2 DEF HpmGet, StillValid
<1>3. CASE HpmHeader
  BY <1>3 DEF HpmHeader
<1>4. CASE HpmBody
  BY <1>4 DEF HpmBody, LongResponse, ShortResponse, NotYet, Believed, Fourth
<1>5. CASE HpmSecond
  BY <1>5 DEF HpmSecond, HpmTime
<1>6. CASE UNCHANGED hpmVars
  BY <1>6 DEF hpmVars
<1> QED BY <1>1, <1>2, <1>3, <1>4, <1>5, <1>6 DEF HpmNext

\* Together they are what its variables hold.
LEMMA HpmTypesAre == ASSUME HpmInv, HpmFlags PROVE HpmTypeOK
<1>1. HpmTypes
  BY DEF HpmInv
<1>2. \A r \in Packets : r \in Seq({Long, Short, Rest, Spoilt}) /\ Len(r) <= 2
  <2>1. \A a, b \in {Long, Short, Rest, Spoilt} : /\ <<a>> \in Seq({Long, Short, Rest, Spoilt}) /\ Len(<<a>>) <= 2
                                           /\ <<a, b>> \in Seq({Long, Short, Rest, Spoilt}) /\ Len(<<a, b>>) <= 2
    OBVIOUS
  <2>2. <<>> \in Seq({Long, Short, Rest, Spoilt}) /\ Len(<<>>) <= 2
    OBVIOUS
  <2> QED BY <2>1, <2>2 DEF Packets
<1> QED BY <1>1, <1>2 DEF HpmTypeOK, HpmTypes, HpmFlags

\* The inputs and outputs: an edge is in the pending register, on the count or
\* taken off it, or was let go.
EdgeCounted(j) ==
  /\ send_count_p[j] >= 0 /\ send_count_p[j] <= count_p[j] /\ taken[j] >= 0
  /\ seen[j] >= 0 /\ seen[j] <= edges_i
  /\ count_p[j] + taken[j] + (IF j \in raised THEN 1 ELSE 0) <= edges_i
IoRest ==
  /\ stray \subseteq W1PulseIo /\ instant_w \subseteq W1PulseIo /\ byhand \subseteq Io
  /\ edges_i \in 0..MaxEdges
  /\ \A j \in W1PulseIo : EdgeCounted(j)

LEMMA CountsAre ==
  ASSUME PinTypes, NEW j \in W1PulseIo
  PROVE  count_p[j] \in Int /\ send_count_p[j] \in Int /\ seen[j] \in Int /\ taken[j] \in Int
BY DEF PinTypes

\* What a board starts with.
LEMMA IoRestInit == ASSUME IoInit PROVE IoRest
<1>1. \A j \in W1PulseIo : count_p[j] = 0 /\ send_count_p[j] = 0 /\ seen[j] = 0 /\ taken[j] = 0
  BY DEF IoInit
<1>2. stray = {} /\ instant_w = {} /\ byhand = {} /\ raised = {} /\ edges_i = 0
  BY DEF IoInit
<1> QED BY <1>1, <1>2, IoPinsAssumption DEF IoRest, EdgeCounted

\* The calls left are for an IO with a line.
LEMMA TodoAre == ASSUME IoInv PROVE \A i \in DOMAIN todo : todo[i].io \in W1PulseIo
<1>1. CASE todo = <<>>
  BY <1>1
<1>2. ASSUME NEW io \in W1PulseIo, AgendaOf(io) PROVE \A i \in DOMAIN todo : todo[i].io \in W1PulseIo
  <2>1. \/ \E a : a.io = io /\ todo = <<a>>
        \/ \E a, b : a.io = io /\ b.io = io /\ todo = <<a, b>>
        \/ \E a, b, c : a.io = io /\ b.io = io /\ c.io = io /\ todo = <<a, b, c>>
    BY <1>2 DEF AgendaOf, Call
  <2> QED BY <2>1
<1> QED BY <1>1, <1>2 DEF IoInv, AgendaInv

\* A call of a handler.
LEMMA IoCallRest == ASSUME IoInv, IoRest, IoCall PROVE IoRest'
<1> DEFINE c == Head(todo)
           io == c.io
<1>1. io \in W1PulseIo /\ UNCHANGED <<raised, instant_w, byhand, stray, edges_i>>
  <2>1. todo # <<>>
    BY DEF IoCall
  <2>2. io \in W1PulseIo
    BY <2>1, AgendaHead DEF IoInv, AgendaInv
  <2> QED BY <2>2 DEF IoCall, ioBounds
<1>2. PinTypes
  BY DEF IoInv
<1>3. \/ UNCHANGED counters
      \/ PulsecountOn(io, c.pull)
      \/ PulsecountOff(io)
  BY DEF IoCall, WatchOn, WatchOff
<1> HIDE DEF c, io
<1>4. ASSUME NEW j \in W1PulseIo PROVE EdgeCounted(j)'
  <2>1. EdgeCounted(j) /\ (j \in raised' <=> j \in raised) /\ edges_i' = edges_i
    BY <1>1 DEF IoRest
  <2>2. \/ /\ count_p'[j] = count_p[j] /\ send_count_p'[j] = send_count_p[j]
           /\ seen'[j] = seen[j] /\ taken'[j] = taken[j]
        \/ /\ count_p'[j] = 0 /\ send_count_p'[j] = 0 /\ taken'[j] = 0
           /\ seen'[j] = IF j \in raised THEN 1 ELSE 0
        \/ /\ count_p'[j] = 0 /\ send_count_p'[j] = 0
           /\ seen'[j] = seen[j] /\ taken'[j] = taken[j]
    BY <1>1, <1>2, <1>3 DEF PulsecountOn, PulsecountOff, counters, PinTypes
  <2>3. count_p[j] \in Int /\ send_count_p[j] \in Int /\ seen[j] \in Int /\ taken[j] \in Int /\ edges_i \in Int
    BY <1>2, CountsAre DEF IoRest
  <2> QED BY <2>1, <2>2, <2>3 DEF EdgeCounted
<1> QED BY <1>1, <1>4 DEF IoRest

\* A command.
LEMMA IoCommandRest == ASSUME IoInv, IoRest, IoCommand PROVE IoRest'
<1>1. UNCHANGED <<raised, counters, instant_w, edges_i>>
  BY DEF IoCommand, SaveIos, LeaveMode, IoOn, IoConfigure, IoEnableW1, IoEnableWatch, IoEnablePulsecount,
         HwPupd, CmdStarts
<1>2. stray' = stray \/ \E io \in Io : stray' = stray \ {io}
  BY IoPinsAssumption DEF IoCommand, SaveIos, LeaveMode, IoOn, IoConfigure, IoEnableW1, IoEnableWatch,
         IoEnablePulsecount, HwPupd
<1>3. \/ byhand' = byhand
      \/ \E io \in Io : byhand' = byhand \ {io} \/ byhand' = byhand \union {io}
  BY IoPinsAssumption DEF IoCommand, SaveIos, LeaveMode, IoOn, IoConfigure, IoEnableW1, IoEnableWatch,
         IoEnablePulsecount, HwPupd
<1>4. stray' \subseteq W1PulseIo /\ byhand' \subseteq Io
  BY <1>2, <1>3 DEF IoRest
<1> QED BY <1>1, <1>4 DEF IoRest, EdgeCounted, counters

\* An edge, an interrupt, a reading or an acknowledgement.
LEMMA IoLineRest ==
  ASSUME IoInv, IoRest, NEW io \in W1PulseIo,
         \/ \E e \in {"R", "F"} : Edge(io, e)
         \/ PulseIsr(io) \/ IoWatchIsr(io) \/ PulseGet(io) \/ PulseAcked(io) \/ InstantSent(io)
  PROVE  IoRest'
<1>1. PinTypes
  BY DEF IoInv
<1>2. UNCHANGED <<byhand, stray>> /\ instant_w' \subseteq W1PulseIo
  BY <1>1 DEF IoRest, PinTypes, Edge, PulseIsr, IoWatchIsr, PulseGet, PulseAcked, InstantSent, hardware
<1>3. edges_i' \in 0..MaxEdges
  BY IoPinsAssumption DEF IoRest, Edge, PulseIsr, IoWatchIsr, PulseGet, PulseAcked, InstantSent, ioBounds
<1>4. ASSUME NEW j \in W1PulseIo PROVE EdgeCounted(j)'
  <2>1. EdgeCounted(j) /\ edges_i \in Int /\ edges_i' \in Int
    BY <1>3, <1>4 DEF IoRest
  <2>2. count_p[j] \in Int /\ send_count_p[j] \in Int /\ seen[j] \in Int /\ taken[j] \in Int
    BY <1>1, CountsAre
  <2>3. CASE \E e \in {"R", "F"} : Edge(io, e)
    <3>1. /\ edges_i' = edges_i + 1 /\ seen'[j] \in {seen[j], seen[j] + 1}
          /\ count_p'[j] = count_p[j] /\ send_count_p'[j] = send_count_p[j] /\ taken'[j] = taken[j]
      BY <1>1, <2>3 DEF Edge, PinTypes
    <3> QED BY <2>1, <2>2, <3>1 DEF EdgeCounted
  <2>4. CASE PulseIsr(io)
    <3>1. /\ edges_i' = edges_i /\ seen'[j] = seen[j]
          /\ send_count_p'[j] = send_count_p[j] /\ taken'[j] = taken[j]
          /\ \/ count_p'[j] = count_p[j] + 1 /\ j \in raised /\ j \notin raised'
             \/ count_p'[j] = count_p[j] /\ (j \in raised' <=> j \in raised)
      BY <1>1, <2>4 DEF PulseIsr, PinTypes, ioBounds
    <3> QED BY <2>1, <2>2, <3>1 DEF EdgeCounted
  <2>5. CASE IoWatchIsr(io) \/ InstantSent(io)
    <3>1. /\ edges_i' = edges_i /\ seen'[j] = seen[j] /\ count_p'[j] = count_p[j]
          /\ send_count_p'[j] = send_count_p[j] /\ taken'[j] = taken[j] /\ (j \in raised' => j \in raised)
      BY <2>5 DEF IoWatchIsr, InstantSent, ioBounds, counters
    <3> QED BY <2>1, <2>2, <3>1 DEF EdgeCounted
  <2>6. CASE PulseGet(io)
    <3>1. /\ edges_i' = edges_i /\ seen'[j] = seen[j] /\ count_p'[j] = count_p[j]
          /\ send_count_p'[j] \in {send_count_p[j], count_p[j]} /\ taken'[j] = taken[j]
          /\ (j \in raised' <=> j \in raised)
      BY <1>1, <2>6 DEF PulseGet, PinTypes, ioBounds
    <3> QED BY <2>1, <2>2, <3>1 DEF EdgeCounted
  <2>7. CASE PulseAcked(io)
    <3>1. /\ edges_i' = edges_i /\ seen'[j] = seen[j] /\ (j \in raised' <=> j \in raised)
          /\ \/ /\ count_p'[j] = count_p[j] /\ send_count_p'[j] = send_count_p[j] /\ taken'[j] = taken[j]
             \/ /\ count_p'[j] = count_p[j] - send_count_p[j] /\ send_count_p'[j] = 0
                /\ taken'[j] = taken[j] + send_count_p[j]
      BY <1>1, <2>7 DEF PulseAcked, PinTypes, ioBounds
    <3> QED BY <2>1, <2>2, <3>1 DEF EdgeCounted
  <2> QED BY <2>3, <2>4, <2>5, <2>6, <2>7
<1> QED BY <1>2, <1>3, <1>4 DEF IoRest

\* Every step.
LEMMA IoRestStep == ASSUME IoInv, IoRest, [IoNext]_ioVars PROVE IoRest'
<1>1. CASE Restart
  <2>1. PICK flags \in {{}, raised} :
          /\ raised' = flags /\ instant_w' = {} /\ count_p' = [j \in W1PulseIo |-> 0]
          /\ send_count_p' = count_p' /\ taken' = count_p'
          /\ seen' = [j \in W1PulseIo |-> IF j \in flags THEN 1 ELSE 0]
    BY <1>1 DEF Restart, WatchdogReset, JumpToApplication, Boot
  <2>2. stray' \subseteq W1PulseIo /\ byhand' \subseteq Io /\ edges_i' = edges_i
    BY <1>1 DEF Restart, WatchdogReset, JumpToApplication
  <2>3. ASSUME NEW j \in W1PulseIo PROVE EdgeCounted(j)'
    <3>1. /\ count_p'[j] = 0 /\ send_count_p'[j] = 0 /\ taken'[j] = 0
          /\ seen'[j] = IF j \in flags THEN 1 ELSE 0
      BY <2>1
    <3>2. EdgeCounted(j) /\ edges_i \in Int
      BY DEF IoRest
    <3>3. count_p[j] \in Int /\ send_count_p[j] \in Int /\ taken[j] \in Int
      BY CountsAre DEF IoInv
    <3>4. j \in flags => j \in raised
      BY <2>1
    <3> QED BY <2>1, <2>2, <3>1, <3>2, <3>3, <3>4 DEF EdgeCounted
  <2> QED BY <2>1, <2>2, <2>3 DEF IoRest
<1>2. CASE UNCHANGED ioVars
  BY <1>2 DEF ioVars, hardware, counters, ioBounds, IoRest, EdgeCounted
<1> QED BY <1>1, <1>2, IoCallRest, IoCommandRest, IoLineRest DEF IoNext

\* Together with the invariant they are what its variables hold.
LEMMA IoTypesAre == ASSUME IoInv, IoRest PROVE IoTypeOK
<1>1. PinTypes
  BY DEF IoInv
<1>2. {ios_state, saved} \subseteq [Io -> [special : Special \union {"PLAIN"}, input : BOOLEAN, pull : Pull, on : BOOLEAN]]
  BY <1>1 DEF PinTypes, IoState
<1>3. /\ count_p \in [W1PulseIo -> 0..MaxEdges] /\ send_count_p \in [W1PulseIo -> 0..MaxEdges]
      /\ seen \in [W1PulseIo -> 0..MaxEdges] /\ taken \in [W1PulseIo -> 0..MaxEdges]
  <2>1. ASSUME NEW j \in W1PulseIo
        PROVE  /\ count_p[j] \in 0..MaxEdges /\ send_count_p[j] \in 0..MaxEdges
               /\ seen[j] \in 0..MaxEdges /\ taken[j] \in 0..MaxEdges
    <3>1. EdgeCounted(j) /\ edges_i \in 0..MaxEdges /\ MaxEdges \in Nat
      BY IoPinsAssumption DEF IoRest
    <3> QED BY <1>1, <3>1, CountsAre DEF EdgeCounted
  <2> QED BY <1>1, <2>1 DEF PinTypes
<1>4. gpio \in [Pin -> [input : BOOLEAN, pull : Pull, level : BOOLEAN]]
  BY <1>1 DEF PinTypes, PinState
<1> QED BY <1>1, <1>2, <1>3, <1>4, TodoAre DEF IoTypeOK, PinTypes, IoRest

\* The times and counts of the sampling, whatever fails and is commanded.
MeasDef == [interval : {0, 1}, samplecount : SampleCount \cup {0}]
MeasData == [init : Nat, collected : Nat, samples : Nat, repeats : Nat, collecting : BOOLEAN]
Ordered(d) == d.samples <= d.collected /\ d.repeats <= d.samples
MeasInv(d) == d \in MeasData /\ Ordered(d)
SamplerTypes ==
  /\ htu \in HtuState
  /\ sdef \in [HtuName -> MeasDef]
  /\ ndata \in [HtuName -> MeasData] /\ \A n \in HtuName : Ordered(ndata[n])
  /\ since_sent \in 0..(SampleInterval + 1) /\ since_check \in 0..Never /\ wait_time \in 0..Never
  /\ reading2 \in [name : HtuName, left : -1..CollectionTime]

\* The driver of the chip stays what it is.
LEMMA HtuTypes ==
  ASSUME NEW h \in HtuState, NEW n \in HtuName, NEW ok \in BOOLEAN
  PROVE  /\ HtuInit(h, n).htu \in HtuState /\ HtuInit(h, n).resp \in {"SUCCESS", "BUSY"}
         /\ HtuGet(h, n).htu \in HtuState /\ Pause(h) \in HtuState
         /\ HtuIterate(h, n, ok).htu \in HtuState
<1>1. HtuInit(h, n).htu \in HtuState /\ HtuInit(h, n).resp \in {"SUCCESS", "BUSY"}
  BY DEF HtuInit, HtuState, HtuName, Is, Req
<1>2. HtuGet(h, n).htu \in HtuState
  BY DEF HtuGet, HtuState, HtuName, Is
<1>3. Pause(h) \in HtuState
  BY DEF Pause, HtuState, HtuName
<1>4. \A g \in HtuState, m \in HtuName : Read(g, m) \in HtuState /\ Unread(g, m) \in HtuState /\ Req(g, m) \in HtuState
  BY DEF Read, Unread, Req, HtuState, HtuName
<1>5. "T" \in HtuName /\ "H" \in HtuName
  BY DEF HtuName
<1>6. CollectHumi(h, n, ok).htu \in HtuState
  <2> DEFINE after == IF "T" \in h.valid /\ ok THEN Read(h, "H") ELSE Unread(h, "H")
             done == IF h.flags = {"H"} THEN [after EXCEPT !.valid = @ \ {"T"}] ELSE after
  <2>1. after \in HtuState
    BY <1>4, <1>5
  <2>2. done \in HtuState
    <3> HIDE DEF after
    <3> QED BY <2>1 DEF HtuState
  <2>3. CollectHumi(h, n, ok).htu \in {h, done}
    BY DEF CollectHumi, Is, Fails
  <2> QED BY <2>2, <2>3
<1>7. HtuIterate(h, n, ok).htu \in HtuState
  <2>1. HtuIterate(h, n, ok).htu \in
          {h, CollectHumi(h, n, ok).htu, Unread(h, "T"), Read(h, "T"), Req(Read(h, "T"), "H")}
    BY DEF HtuIterate, Is, Fails
  <2> QED BY <1>4, <1>5, <1>6, <2>1
<1> QED BY <1>1, <1>2, <1>3, <1>7

\* Waits and pasts are within an interval.
LEMMA Spans ==
  /\ SampleInterval \in Nat /\ Never \in Nat /\ CollectionTime \in Nat
  /\ \A a, b \in Int : Delta(a, b) \in 0..Never
  /\ \A a \in 0..Never, b \in 0..Never : Least(a, b) \in 0..Never
  /\ \A a, t \in Nat : Least(a + t, SampleInterval + 1) \in 0..(SampleInterval + 1) /\ Least(a + t, Never) \in 0..Never
BY SamplerAssumption DEF Delta, Least, Never

\* The data of a measurement with some of its counts set.
Tallied(e, i, c, s, r) == e \in MeasData /\ e.init = i /\ e.collected = c /\ e.samples = s /\ e.repeats = r
LEMMA Tallies ==
  ASSUME NEW d \in MeasData, NEW i \in Nat, NEW c \in Nat, NEW s \in Nat, NEW r \in Nat, NEW yes \in BOOLEAN
  PROVE  /\ Tallied([d EXCEPT !.collecting = FALSE, !.collected = c], d.init, c, d.samples, d.repeats)
         /\ Tallied([d EXCEPT !.init = i, !.collected = c, !.collecting = FALSE], i, c, d.samples, d.repeats)
         /\ Tallied([d EXCEPT !.init = i, !.collected = c], i, c, d.samples, d.repeats)
         /\ Tallied([d EXCEPT !.init = i, !.collecting = TRUE], i, d.collected, d.samples, d.repeats)
         /\ Tallied([d EXCEPT !.collected = c], d.init, c, d.samples, d.repeats)
         /\ Tallied([d EXCEPT !.samples = s, !.repeats = r], d.init, d.collected, s, r)
         /\ Tallied([d EXCEPT !.collecting = yes], d.init, d.collected, d.samples, d.repeats)
         /\ Tallied(d, d.init, d.collected, d.samples, d.repeats)
         /\ Tallied(Sent(d), 0, 0, 0, 0) /\ Tallied(NoData, 0, 0, 0, 0)
BY DEF MeasData, Tallied, Sent, NoData

\* ... and in each of its updates.
LEMMA DataTypes ==
  ASSUME NEW d, MeasInv(d), NEW yes \in BOOLEAN, NEW resp
  PROVE  /\ MeasInv(Missed(d)) /\ MeasInv(Got(d, resp, yes)) /\ MeasInv(Sent(d)) /\ MeasInv(AfterIteration(d, resp))
         /\ MeasInv([d EXCEPT !.collecting = yes]) /\ MeasInv(NoData)
         /\ MeasInv([d EXCEPT !.init = @ + 1, !.collecting = TRUE])
         /\ MeasInv([d EXCEPT !.init = @ + 1, !.collected = @ + 1])
<1>1. /\ d.init \in Nat /\ d.collected \in Nat /\ d.samples \in Nat /\ d.repeats \in Nat /\ d \in MeasData
      /\ d.samples <= d.collected /\ d.repeats <= d.samples
      /\ d.init + 1 \in Nat /\ d.collected + 1 \in Nat /\ d.samples + 1 \in Nat /\ 0 \in Nat
      /\ d.repeats + (IF yes THEN 1 ELSE 0) \in Nat /\ d.repeats + (IF yes THEN 1 ELSE 0) <= d.samples + 1
      /\ d.samples <= d.collected + 1 /\ d.samples + 1 <= d.collected + 1 /\ 0 <= 0
  BY DEF MeasInv, MeasData, Ordered
<1>2. \A e, i, c, s, r : Tallied(e, i, c, s, r) /\ s <= c /\ r <= s => MeasInv(e)
  BY DEF MeasInv, Ordered, Tallied
<1>3. MeasInv(Got(d, resp, yes))
  <2> DEFINE counted == [d EXCEPT !.collecting = FALSE, !.collected = @ + 1]
  <2>1. Tallied(counted, d.init, d.collected + 1, d.samples, d.repeats)
    BY <1>1, Tallies
  <2> HIDE DEF counted
  <2>2. counted \in MeasData /\ counted.samples = d.samples /\ counted.repeats = d.repeats
        /\ counted.init = d.init /\ counted.collected = d.collected + 1
    BY <2>1 DEF Tallied
  <2> DEFINE s == d.samples + 1
             r == d.repeats + (IF yes THEN 1 ELSE 0)
  <2>3. Tallied(TakenIn(counted, yes), d.init, d.collected + 1, s, r)
    <3>1. TakenIn(counted, yes) = [counted EXCEPT !.samples = s, !.repeats = r]
      BY <2>2 DEF TakenIn
    <3>2. s \in Nat /\ r \in Nat
      BY <1>1
    <3> HIDE DEF s, r
    <3>3. Tallied([counted EXCEPT !.samples = s, !.repeats = r], counted.init, counted.collected, s, r)
      BY <1>1, <2>2, <3>2, Tallies
    <3> QED BY <2>2, <3>1, <3>3
  <2>4. MeasInv(counted) /\ MeasInv(TakenIn(counted, yes))
    BY <1>1, <1>2, <2>1, <2>3
  <2> QED BY <2>4 DEF Got, counted
<1>4. MeasInv(d) /\ MeasInv(Sent(d)) /\ MeasInv([d EXCEPT !.collecting = yes]) /\ MeasInv(NoData)
  BY <1>1, <1>2, Tallies
<1>5. MeasInv([d EXCEPT !.collected = @ + 1]) /\ MeasInv([d EXCEPT !.init = @ + 1, !.collected = @ + 1, !.collecting = FALSE])
      /\ MeasInv([d EXCEPT !.init = @ + 1, !.collecting = TRUE]) /\ MeasInv([d EXCEPT !.init = @ + 1, !.collected = @ + 1])
  <2> DEFINE i == d.init + 1
             c == d.collected + 1
  <2>1. i \in Nat /\ c \in Nat /\ d.samples <= c
    BY <1>1
  <2> HIDE DEF i, c
  <2>2. MeasInv([d EXCEPT !.collected = c]) /\ MeasInv([d EXCEPT !.init = i, !.collected = c, !.collecting = FALSE])
        /\ MeasInv([d EXCEPT !.init = i, !.collecting = TRUE]) /\ MeasInv([d EXCEPT !.init = i, !.collected = c])
    BY <1>1, <1>2, <2>1, Tallies
  <2> QED BY <2>2 DEF i, c
<1> QED BY <1>3, <1>4, <1>5 DEF Missed, AfterIteration

\* What a slot begins.
LEMMA InitTypes ==
  ASSUME NEW n \in HtuName, NEW d, MeasInv(d), htu \in HtuState
  PROVE  MeasInv(SampleInit(n, d).data) /\ SampleInit(n, d).htu \in HtuState
<1>1. HtuInit(htu, n).resp \in {"SUCCESS", "BUSY"} /\ HtuInit(htu, n).htu \in HtuState
  BY HtuTypes
<1>2. TRUE \in BOOLEAN
  OBVIOUS
<1>3. MeasInv([d EXCEPT !.init = @ + 1, !.collecting = TRUE]) /\ MeasInv([d EXCEPT !.init = @ + 1, !.collected = @ + 1])
  BY <1>2, DataTypes
<1> DEFINE tried == HtuInit(htu, n)
           begun2 == [d EXCEPT !.init = @ + 1, !.collecting = TRUE]
           both == [d EXCEPT !.init = @ + 1, !.collected = @ + 1]
<1>4. SampleInit(n, d) = IF d.collecting THEN [data |-> both, htu |-> htu, busy |-> FALSE]
                         ELSE IF tried.resp = "SUCCESS" THEN [data |-> begun2, htu |-> tried.htu, busy |-> FALSE]
                         ELSE [data |-> d, htu |-> tried.htu, busy |-> TRUE]
  BY <1>1 DEF SampleInit
<1> HIDE DEF tried, begun2, both
<1>5. MeasInv(both) /\ MeasInv(begun2) /\ tried.htu \in HtuState
  BY <1>1, <1>3 DEF tried, begun2, both
<1> QED BY <1>4, <1>5

\* One measurement's data changes.
LEMMA DataPut ==
  ASSUME SamplerTypes, NEW n \in HtuName, NEW d, MeasInv(d), ndata' = [ndata EXCEPT ![n] = d]
  PROVE  ndata' \in [HtuName -> MeasData] /\ \A m \in HtuName : Ordered(ndata'[m])
BY DEF SamplerTypes, MeasInv

\* A slot of a sampling pass.
LEMMA SlotTypes == ASSUME SamplerTypes, NEW n \in HtuName, SampleSlot(n) PROVE SamplerTypes'
<1> DEFINE d == ndata[n]
           isInit == since_sent >= TimeInit(n, d)
           none == [data |-> d, htu |-> htu, busy |-> FALSE]
           began == IF isInit THEN SampleInit(n, Missed(d)) ELSE none
           due == TimeCollect(n, d)
           isGet == since_sent >= due
           tried == HtuGet(began.htu, n)
           initWait == IF began.busy THEN 0
                       ELSE Delta(TimeInit(n, d) + (IF isInit THEN CollectionTime ELSE 0), since_sent)
           getWait == IF isGet THEN Delta(due + Every(n), CollectionTime + since_sent)
                      ELSE Delta(due, since_sent)
<1>1. /\ IsActive(n)
      /\ ndata' = [ndata EXCEPT ![n] = IF isGet THEN Got(began.data, tried.resp, n \notin began.htu.new)
                                        ELSE began.data]
      /\ htu' = IF isGet THEN tried.htu ELSE began.htu
      /\ wait_time' = Least(wait_time, Least(initWait, getWait))
      /\ UNCHANGED <<sdef, since_sent, since_check, reading2>>
  BY DEF SampleSlot
<1>2. MeasInv(d) /\ htu \in HtuState
  BY DEF SamplerTypes, MeasInv
<1>3. MeasInv(began.data) /\ began.htu \in HtuState
  <2>1. MeasInv(Missed(d))
    BY <1>2, DataTypes
  <2>2. MeasInv(SampleInit(n, Missed(d)).data) /\ SampleInit(n, Missed(d)).htu \in HtuState
    BY <1>2, <2>1, InitTypes
  <2>3. MeasInv(none.data) /\ none.htu \in HtuState
    BY <1>2
  <2> HIDE DEF d, isInit, none
  <2> QED BY <2>2, <2>3
<1>4. /\ TimeInit(n, d) \in Int /\ due \in Int /\ Every(n) \in Nat /\ since_sent \in Nat /\ CollectionTime \in Nat
  <2>1. sdef[n].samplecount \in Nat \ {0} /\ d.init \in Nat /\ d.collected \in Nat
    BY <1>1, <1>2, SamplerAssumption DEF SamplerTypes, MeasDef, IsActive, MeasInv, MeasData
  <2>2. Every(n) \in Nat /\ CollectionTime \in Nat
    BY <2>1, SamplerAssumption DEF Every
  <2>3. d.init * Every(n) \in Nat /\ d.collected * Every(n) \in Nat /\ Every(n) \div 2 \in Nat
    BY <2>1, <2>2
  <2> HIDE DEF d
  <2> QED BY <2>1, <2>2, <2>3 DEF TimeInit, TimeCollect, SamplerTypes
<1>5. wait_time' \in 0..Never
  <2>1. TimeInit(n, d) + (IF isInit THEN CollectionTime ELSE 0) \in Int /\ due + Every(n) \in Int
        /\ CollectionTime + since_sent \in Int /\ since_sent \in Int /\ due \in Int
    <3> HIDE DEF d, due, isInit
    <3> QED BY <1>4
  <2>2. initWait \in 0..Never /\ getWait \in 0..Never
    <3>1. /\ Delta(TimeInit(n, d) + (IF isInit THEN CollectionTime ELSE 0), since_sent) \in 0..Never
          /\ Delta(due + Every(n), CollectionTime + since_sent) \in 0..Never /\ Delta(due, since_sent) \in 0..Never
      <4> HIDE DEF d, due, isInit
      <4> QED BY <2>1, Spans, Zenon
    <3>2. 0 \in 0..Never
      BY Spans
    <3> HIDE DEF d, due, isInit, isGet, began
    <3> QED BY <3>1, <3>2, Zenon
  <2>3. wait_time \in 0..Never
    BY DEF SamplerTypes
  <2> HIDE DEF initWait, getWait
  <2>4. Least(initWait, getWait) \in 0..Never
    BY <2>2, Spans
  <2> QED BY <1>1, <2>3, <2>4, Spans
<1>6. htu' \in HtuState
  <2> HIDE DEF isGet, began
  <2> QED BY <1>1, <1>3, HtuTypes
<1>7. ndata' \in [HtuName -> MeasData] /\ \A m \in HtuName : Ordered(ndata'[m])
  <2>1. (n \notin began.htu.new) \in BOOLEAN
    OBVIOUS
  <2> HIDE DEF isGet, began, tried
  <2>2. MeasInv(Got(began.data, tried.resp, n \notin began.htu.new)) /\ MeasInv(began.data)
    BY <1>3, <2>1, DataTypes
  <2> QED BY <1>1, <2>2, DataPut
<1> QED BY <1>1, <1>5, <1>6, <1>7 DEF SamplerTypes

\* The main loop besides.
LEMMA LoopTypes ==
  ASSUME SamplerTypes, NEW n \in HtuName, SkipSlot(n) \/ PassBegins \/ SendAtInterval \/ SamplerTick \/ IterateSlot(n)
  PROVE  SamplerTypes'
<1>0. 0 \in 0..Never /\ Never \in 0..Never /\ 0 \in 0..(SampleInterval + 1)
  BY Spans
<1>1. CASE SkipSlot(n)
  <2>1. UNCHANGED <<sdef, ndata, since_sent, since_check, htu, reading2>> /\ wait_time' \in {0, wait_time}
    BY <1>1 DEF SkipSlot
  <2> QED BY <1>0, <2>1 DEF SamplerTypes
<1>2. CASE PassBegins
  <2>1. /\ UNCHANGED <<sdef, ndata, since_sent, htu, reading2>>
        /\ since_check' \in {0, since_check} /\ wait_time' \in {Never, wait_time}
    BY <1>2 DEF PassBegins
  <2> QED BY <1>0, <2>1 DEF SamplerTypes
<1>3. CASE SendAtInterval
  <2>1. UNCHANGED <<sdef, since_check, wait_time, htu, reading2>> /\ since_sent' \in {0, since_sent}
    BY <1>3 DEF SendAtInterval
  <2>2. \A m \in HtuName : MeasInv(ndata[m]) /\ MeasInv(Sent(ndata[m]))
    BY DataTypes DEF SamplerTypes, MeasInv
  <2>3. ndata' = ndata \/ ndata' = [m \in HtuName |-> IF IsActive(m) THEN Sent(ndata[m]) ELSE ndata[m]]
    BY <1>3 DEF SendAtInterval
  <2>4. ndata' \in [HtuName -> MeasData] /\ \A m \in HtuName : Ordered(ndata'[m])
    BY <2>2, <2>3 DEF MeasInv, SamplerTypes
  <2>5. since_sent' \in 0..(SampleInterval + 1)
    BY <1>0, <2>1 DEF SamplerTypes
  <2> QED BY <2>1, <2>4, <2>5 DEF SamplerTypes
<1>4. CASE SamplerTick
  <2>1. UNCHANGED <<sdef, ndata, wait_time, reading2>>
    BY <1>4 DEF SamplerTick
  <2>2. PICK t \in Nat : Elapse(t)
    <3>1. SleepTime \in Int
      BY Spans DEF SleepTime, SamplerTypes, Delta, Least
    <3>2. Elapse(1) \/ (SleepTime > 1 /\ Elapse(SleepTime - 1))
      BY <1>4 DEF SamplerTick
    <3>3. SleepTime > 1 => SleepTime - 1 \in Nat
      BY <3>1
    <3> QED BY <3>2, <3>3
  <2>3. since_sent' \in 0..(SampleInterval + 1) /\ since_check' \in 0..Never
    <3>1. since_sent \in Nat /\ since_check \in Nat
      BY DEF SamplerTypes
    <3> QED BY <2>2, <3>1, Spans DEF Elapse
  <2>4. htu' \in HtuState
    BY <2>2, HtuTypes DEF Elapse, SamplerTypes
  <2> QED BY <2>1, <2>3, <2>4 DEF SamplerTypes
<1>5. CASE IterateSlot(n)
  <2>1. UNCHANGED <<sdef, since_sent, since_check, wait_time, reading2>>
    BY <1>5 DEF IterateSlot
  <2>2. \/ UNCHANGED <<htu, ndata>>
        \/ \E ok \in BOOLEAN : /\ htu' = HtuIterate(htu, n, ok).htu
                               /\ ndata' = [ndata EXCEPT ![n] = AfterIteration(@, HtuIterate(htu, n, ok).resp)]
    BY <1>5 DEF IterateSlot
  <2>3. ASSUME NEW ok \in BOOLEAN, htu' = HtuIterate(htu, n, ok).htu,
               ndata' = [ndata EXCEPT ![n] = AfterIteration(@, HtuIterate(htu, n, ok).resp)]
        PROVE  SamplerTypes'
    <3>1. MeasInv(ndata[n]) /\ TRUE \in BOOLEAN
      BY DEF SamplerTypes, MeasInv
    <3>2. MeasInv(AfterIteration(ndata[n], HtuIterate(htu, n, ok).resp))
      BY <3>1, DataTypes
    <3>3. ndata' \in [HtuName -> MeasData] /\ \A m \in HtuName : Ordered(ndata'[m])
      BY <2>3, <3>2, DataPut
    <3>4. htu' \in HtuState
      BY <2>3, HtuTypes DEF SamplerTypes
    <3> QED BY <2>1, <3>3, <3>4 DEF SamplerTypes
  <2> QED BY <2>1, <2>2, <2>3 DEF SamplerTypes
<1> QED BY <1>1, <1>2, <1>3, <1>4, <1>5

\* A command's reading, in its nested main loop.
LEMMA ReadingTypes == ASSUME SamplerTypes, ReadingStep PROVE SamplerTypes'
<1> DEFINE n == reading2.name
<1>1. n \in HtuName /\ reading2 \in [name : HtuName, left : -1..CollectionTime] /\ CollectionTime \in Nat
  BY SamplerAssumption DEF SamplerTypes
<1>2. PICK ok \in BOOLEAN :
        LET tried == HtuIterate(htu, n, ok)
            over == tried.resp = "SUCCESS" \/ reading2.left = 0
        IN  /\ htu' = CASE tried.resp = "SUCCESS" -> HtuGet(tried.htu, n).htu
                        [] over /\ tried.resp # "SUCCESS" -> tried.htu
                        [] ~over -> Pause(tried.htu)
            /\ reading2' = IF over THEN NotReading ELSE [reading2 EXCEPT !.left = @ - 1]
            /\ ndata' = [ndata EXCEPT ![n].collecting = ~over]
            /\ since_sent' = IF over THEN since_sent ELSE Least(since_sent + 1, SampleInterval + 1)
            /\ since_check' = IF over THEN since_check ELSE Least(since_check + 1, Never)
  BY DEF ReadingStep
<1> DEFINE tried == HtuIterate(htu, n, ok)
           over == tried.resp = "SUCCESS" \/ reading2.left = 0
<1>3. reading2.left >= 0 /\ UNCHANGED <<sdef, wait_time>>
  BY DEF ReadingStep
<1>4. tried.htu \in HtuState
  BY <1>1, HtuTypes DEF SamplerTypes
<1>5. htu' \in HtuState
  <2>1. HtuGet(tried.htu, n).htu \in HtuState /\ Pause(tried.htu) \in HtuState
    BY <1>1, <1>4, HtuTypes
  <2>2. htu' \in {HtuGet(tried.htu, n).htu, tried.htu, Pause(tried.htu)}
    BY <1>2
  <2> HIDE DEF tried
  <2> QED BY <1>4, <2>1, <2>2
<1>6. reading2' \in [name : HtuName, left : -1..CollectionTime]
  <2>1. NotReading \in [name : HtuName, left : -1..CollectionTime]
    BY <1>1 DEF NotReading, HtuName
  <2>2. ~over => [reading2 EXCEPT !.left = @ - 1] \in [name : HtuName, left : -1..CollectionTime]
    <3>1. reading2.left - 1 \in -1..CollectionTime
      BY <1>1, <1>3
    <3> QED BY <1>1, <3>1
  <2>3. reading2' = IF over THEN NotReading ELSE [reading2 EXCEPT !.left = @ - 1]
    BY <1>2
  <2> HIDE DEF over
  <2> QED BY <2>1, <2>2, <2>3
<1>7. since_sent' \in 0..(SampleInterval + 1) /\ since_check' \in 0..Never
  <2>1. since_sent \in Nat /\ since_check \in Nat /\ 1 \in Nat
    BY DEF SamplerTypes
  <2>2. since_sent' \in {since_sent, Least(since_sent + 1, SampleInterval + 1)}
        /\ since_check' \in {since_check, Least(since_check + 1, Never)}
    BY <1>2
  <2> QED BY <2>1, <2>2, Spans DEF SamplerTypes
<1>8. ndata' \in [HtuName -> MeasData] /\ \A m \in HtuName : Ordered(ndata'[m])
  <2>1. MeasInv(ndata[n]) /\ (~over) \in BOOLEAN
    BY <1>1 DEF SamplerTypes, MeasInv
  <2>2. ndata' = [ndata EXCEPT ![n] = [@ EXCEPT !.collecting = ~over]]
    BY <1>2
  <2> HIDE DEF n, over
  <2>3. MeasInv([ndata[n] EXCEPT !.collecting = ~over])
    BY <2>1, DataTypes
  <2> QED BY <1>1, <2>2, <2>3, DataPut
<1> QED BY <1>3, <1>5, <1>6, <1>7, <1>8 DEF SamplerTypes

\* A command.
LEMMA CommandTypes ==
  ASSUME SamplerTypes, NEW n \in HtuName,
         \/ GetReading(n) \/ Delete(n) \/ AddMeas(n)
         \/ \E i \in {0, 1} : SetInterval(n, i)
         \/ \E c \in SampleCount : SetSamplecount(n, c)
  PROVE  SamplerTypes'
<1>1. MeasInv(ndata[n]) /\ MeasInv(NoData) /\ TRUE \in BOOLEAN
  BY DataTypes DEF SamplerTypes, MeasInv
<1>2. CASE GetReading(n)
  <2>1. UNCHANGED <<sdef, since_sent, since_check, wait_time>> /\ htu' = HtuInit(htu, n).htu
    BY <1>2 DEF GetReading
  <2>2. \/ UNCHANGED <<reading2, ndata>>
        \/ /\ reading2' = [name |-> n, left |-> CollectionTime]
           /\ ndata' = [ndata EXCEPT ![n] = [@ EXCEPT !.collecting = TRUE]]
    BY <1>2 DEF GetReading
  <2>3. htu' \in HtuState
    BY <2>1, HtuTypes DEF SamplerTypes
  <2>4. reading2' \in [name : HtuName, left : -1..CollectionTime]
    BY <2>2, SamplerAssumption DEF SamplerTypes
  <2>5. ndata' \in [HtuName -> MeasData] /\ \A m \in HtuName : Ordered(ndata'[m])
    <3>1. MeasInv([ndata[n] EXCEPT !.collecting = TRUE])
      BY <1>1, DataTypes
    <3>2. CASE UNCHANGED ndata
      BY <3>2 DEF SamplerTypes
    <3>3. CASE ndata' = [ndata EXCEPT ![n] = [@ EXCEPT !.collecting = TRUE]]
      BY <3>1, <3>3, DataPut
    <3> QED BY <2>2, <3>2, <3>3
  <2> QED BY <2>1, <2>3, <2>4, <2>5 DEF SamplerTypes
<1>3. CASE Delete(n) \/ AddMeas(n) \/ (\E i \in {0, 1} : SetInterval(n, i)) \/ (\E c \in SampleCount : SetSamplecount(n, c))
  <2>1. UNCHANGED <<since_sent, since_check, wait_time, htu, reading2>>
    BY <1>3 DEF Delete, AddMeas, SetInterval, SetSamplecount
  <2>2. UNCHANGED ndata \/ ndata' = [ndata EXCEPT ![n] = NoData]
    BY <1>3 DEF Delete, AddMeas, SetInterval, SetSamplecount
  <2>3. PICK def \in MeasDef : sdef' = [sdef EXCEPT ![n] = def]
    <3>1. sdef[n] \in MeasDef
      BY DEF SamplerTypes
    <3>2. NoDef \in MeasDef /\ (\A c \in SampleCount : [interval |-> 1, samplecount |-> c] \in MeasDef)
      BY DEF NoDef, MeasDef
    <3>3. /\ \A i \in {0, 1} : [sdef[n] EXCEPT !.interval = i] \in MeasDef
          /\ \A c \in SampleCount : [sdef[n] EXCEPT !.samplecount = c] \in MeasDef
      BY <3>1 DEF MeasDef
    <3> QED BY <1>3, <3>2, <3>3 DEF Delete, AddMeas, SetInterval, SetSamplecount, Redefine
  <2>4. sdef' \in [HtuName -> MeasDef]
    BY <2>3 DEF SamplerTypes
  <2>5. ndata' \in [HtuName -> MeasData] /\ \A m \in HtuName : Ordered(ndata'[m])
    <3>1. CASE UNCHANGED ndata
      BY <3>1 DEF SamplerTypes
    <3>2. CASE ndata' = [ndata EXCEPT ![n] = NoData]
      BY <1>1, <3>2, DataPut
    <3> QED BY <2>2, <3>1, <3>2
  <2> QED BY <2>1, <2>4, <2>5 DEF SamplerTypes
<1> QED BY <1>2, <1>3

\* Every step.
LEMMA SamplerTypesStep == ASSUME SamplerTypes, [SamplerNext]_samplerVars PROVE SamplerTypes'
<1>1. CASE UNCHANGED samplerVars
  BY <1>1 DEF samplerVars, sampling, SamplerTypes
<1>2. "T" \in HtuName
  BY DEF HtuName
<1> QED BY <1>1, <1>2, SlotTypes, LoopTypes, ReadingTypes, CommandTypes DEF SamplerNext, SamplerLoop

\* What a board starts with.
LEMMA SamplerTypesInit == SamplerInit => SamplerTypes
<1> SUFFICES ASSUME SamplerInit PROVE SamplerTypes
  OBVIOUS
<1>1. HtuAtStart \in HtuState
  BY DEF HtuAtStart, HtuState, HtuName
<1>2. NoData \in MeasData /\ Ordered(NoData)
  BY DEF NoData, MeasData, Ordered
<1>3. sdef \in [HtuName -> MeasDef]
  BY DEF SamplerInit, MeasDef
<1>4. reading2 \in [name : HtuName, left : -1..CollectionTime]
  BY SamplerAssumption DEF SamplerInit, NotReading, HtuName
<1>5. 0 \in 0..Never /\ 1 \in 0..Never /\ 0 \in 0..(SampleInterval + 1)
  BY Spans DEF Never
<1> QED BY <1>1, <1>2, <1>3, <1>4, <1>5 DEF SamplerInit, SamplerTypes

\* They are what its variables hold.
LEMMA SamplerTypesAre == SamplerTypes => SamplerTypeOK
<1> SUFFICES ASSUME SamplerTypes PROVE SamplerTypeOK
  OBVIOUS
<1>1. ASSUME NEW n \in HtuName
      PROVE  /\ {ndata[n].init, ndata[n].collected} \subseteq Nat
             /\ ndata[n].samples <= ndata[n].collected /\ ndata[n].repeats \in 0..ndata[n].samples
  BY DEF SamplerTypes, MeasData, Ordered
<1> QED BY <1>1 DEF SamplerTypes, SamplerTypeOK

\* What holds of all the parts, whichever of them runs.
BoardInv == /\ AdcTypeOK /\ IoInv /\ IoRest /\ SamplerTypes /\ HpmInv /\ HpmFlags
            /\ VemlInv /\ SaiInv /\ W1Inv

\* A step of one part, while the others stay as they are.
LEMMA BoardKeepsInv ==
  ASSUME BoardInv, [AdcNext]_adcVars, [IoNext]_ioVars, [SamplerNext]_samplerVars, [HpmNext]_hpmVars,
         [VemlNext]_vemlVars, [SaiNext]_saiVars, [W1Next]_w1Vars
  PROVE  BoardInv'
<1>1. AdcTypeOK'
  BY AdcTypesStep DEF BoardInv
<1>2. IoInv' /\ IoRest'
  BY IoInvStep, IoRestStep DEF BoardInv
<1>3. SamplerTypes'
  BY SamplerTypesStep DEF BoardInv
<1>4. HpmInv' /\ HpmFlags'
  BY HpmNextInv, HpmFlagsStep DEF BoardInv
<1>5. VemlInv' /\ SaiInv' /\ W1Inv'
  BY VemlNextInv, SaiNextInv, W1NextInv DEF BoardInv
<1> QED BY <1>1, <1>2, <1>3, <1>4, <1>5 DEF BoardInv

\* The variables of every part of a board hold what they are meant to: the
\* places of the ADC's registry (adcs.c), the counters of the edges (pulsecount.c),
\* the counts of the samples (measurements.c), the states of the drivers.
THEOREM BoardKeepsTypes == MCSpec => []BoardTypeOK
<1>1. MCInit => BoardInv
  <2> SUFFICES ASSUME MCInit PROVE BoardInv
    OBVIOUS
  <2>1. AdcInit /\ IoInit /\ SamplerInit /\ HpmStart /\ VemlInit /\ SaiInit /\ W1Init
    BY DEF MCInit
  <2>2. HpmFlags
    BY <2>1 DEF HpmStart, HpmFlags
  <2> QED BY <2>1, <2>2, AdcTypesInit, IoInvInit, IoRestInit, SamplerTypesInit, HpmStartInv,
             VemlInvInit, SaiInvInit, W1InitInv DEF BoardInv
<1>2. BoardInv /\ [MCAdc \/ MCIo \/ MCSampler \/ MCHpm \/ MCVeml \/ MCSai \/ MCW1]_MCVars => BoardInv'
  <2> SUFFICES ASSUME BoardInv, [MCAdc \/ MCIo \/ MCSampler \/ MCHpm \/ MCVeml \/ MCSai \/ MCW1]_MCVars
               PROVE  BoardInv'
    OBVIOUS
  <2>1. /\ [AdcNext]_adcVars /\ [IoNext]_ioVars /\ [SamplerNext]_samplerVars /\ [HpmNext]_hpmVars
        /\ [VemlNext]_vemlVars /\ [SaiNext]_saiVars /\ [W1Next]_w1Vars
    BY DEF MCAdc, MCIo, MCSampler, MCHpm, MCVeml, MCSai, MCW1, MCVars
  <2> QED BY <2>1, BoardKeepsInv
<1>3. BoardInv => BoardTypeOK
  BY IoTypesAre, SamplerTypesAre, HpmTypesAre, VemlTypesAre, SaiTypesAre, W1TypesAre
     DEF BoardInv, BoardTypeOK
<1> QED BY <1>1, <1>2, <1>3, PTL DEF MCSpec
=============================================================================
