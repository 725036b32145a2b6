-------------------------------- MODULE IoProofs --------------------------------
(***************************************************************************)
(* That the pulse counter and the watch, which share the interrupt line of *)
(* a pin, leave it to each other as they should, that no pulse is counted  *)
(* twice or not at all, and that a restart sets the pins up as the         *)
(* commands did: for any number of IOs, commands, edges and restarts.      *)
(*                                                                         *)
(* The properties speak of the states in which no handler is underway.     *)
(* The invariant adds what holds while one is: which of its calls are left *)
(* (AgendaOf) and that it disturbs no IO but its own (PinSettled, GpioOk), *)
(* unless the two share a pin: what is said of pins is said of those that  *)
(* are their IO's own.                                                     *)
(***************************************************************************)
EXTENDS IoPins, TLAPS

PinState == [input : BOOLEAN, pull : Pull, level : BOOLEAN]
IoState == [special : Special \union {"PLAIN"}, input : BOOLEAN, pull : Pull, on : BOOLEAN]

\* Only an IO with an interrupt line can be in a mode.
PinTypes ==
  /\ ios_state \in [Io -> IoState] /\ saved \in [Io -> IoState]
  /\ \A j \in Io \ W1PulseIo : ios_state[j].special = "PLAIN" /\ saved[j].special = "PLAIN"
  /\ exti \in [W1PulseIo -> {"OFF", "R", "F", "B"}]
  /\ gpio \in [Pin -> PinState]
  /\ count_p \in [W1PulseIo -> Int] /\ send_count_p \in [W1PulseIo -> Int]
  /\ seen \in [W1PulseIo -> Int] /\ taken \in [W1PulseIo -> Int]
  /\ raised \subseteq W1PulseIo

Handled(j) == todo # <<>> /\ Head(todo).io = j

LineOk(j) ==
  /\ j \notin stray => exti[j] = ExtiAtBoot(ios_state[j])
  /\ j \notin byhand /\ PullIsOwn(j) => (PulledUp(j) <=> PullAtBoot(ios_state[j]))

CountOk(j) ==
  IsPulsecount(j) =>
    /\ seen[j] = count_p[j] + taken[j] + (IF j \in raised THEN 1 ELSE 0)
    /\ send_count_p[j] <= count_p[j]

PinSettled(j) == LineOk(j) /\ CountOk(j)

GpioOk(j) ==
  j \notin byhand /\ PinIsOwn(j) /\ ios_state[j].special # "W1" =>
    /\ gpio[PinOf[j]].input = ModeAtBoot(ios_state[j]).input
    /\ gpio[PinOf[j]].pull = ModeAtBoot(ios_state[j]).pull

\* What the handler that put an IO into its mode has left to call.
AgendaOf(io) ==
  LET s == ios_state[io]
      w1off == Call("w1 off", io, "NONE")
      pulseoff == Call("pulse off", io, "NONE")
      w1on == Call("w1 on", io, "NONE")
      pulseon == Call("pulse on", io, s.pull)
      watchon == Call("watch on", io, s.pull)
  IN \/ /\ s.special = "W1"
        /\ \/ todo = <<pulseoff, Call("watch off", io, "NONE"), w1on>>
           \/ exti[io] = "OFF" /\ todo = <<Call("watch off", io, "NONE"), w1on>>
           \/ exti[io] = "OFF" /\ todo = <<w1on>>
     \/ /\ s.special \in EdgeMode
        /\ \/ todo = <<w1off, Call("watch off", io, s.pull), pulseon>>
           \/ todo = <<Call("watch off", io, s.pull), pulseon>>
           \/ todo = <<pulseon>>
     \/ /\ s.special = "WATCH"
        /\ \/ todo = <<w1off, pulseoff, watchon>>
           \/ todo = <<pulseoff, watchon>>
           \/ todo = <<watchon>>
     \/ /\ s.special = "PLAIN" /\ io \in byhand
        /\ todo = <<w1off, pulseoff>> \/ todo = <<pulseoff>>

AgendaInv == todo = <<>> \/ \E io \in W1PulseIo : AgendaOf(io)

IoInv ==
  /\ PinTypes /\ AgendaInv
  /\ \A j \in W1PulseIo : Handled(j) \/ PinSettled(j)
  /\ \A j \in Io : Handled(j) \/ GpioOk(j)

-----------------------------------------------------------------------------

\* Sequences of up to three calls.
LEMMA Tail1 == \A a : <<a>> # <<>> /\ Head(<<a>>) = a /\ Tail(<<a>>) = <<>>
  OBVIOUS
LEMMA Tail2 == \A a, b : <<a, b>> # <<>> /\ Head(<<a, b>>) = a /\ Tail(<<a, b>>) = <<b>>
  OBVIOUS
LEMMA Tail3 ==
  \A a, b, c : /\ <<a, b, c>> # <<>> /\ Head(<<a, b, c>>) = a
              /\ Tail(<<a, b, c>>) = <<b, c>>
  OBVIOUS

\* The fields of a call.
LEMMA CallFields ==
  \A c, k, i, p : c = Call(k, i, p) => c.call = k /\ c.io = i /\ c.pull = p
  BY DEF Call

\* An agenda is of its own IO.
LEMMA AgendaHead ==
  ASSUME NEW io \in W1PulseIo, AgendaOf(io)
  PROVE  todo # <<>> /\ Head(todo).io = io
<1> DEFINE s == ios_state[io]
<1>1. \E c : c.io = io /\ (todo = <<c>> \/ (\E d : todo = <<c, d>>)
                          \/ \E d, e : todo = <<c, d, e>>)
  BY DEF AgendaOf, Call
<1>2. QED
  BY <1>1, Tail1, Tail2, Tail3

\* The pins of an IO.
LEMMA PinsOf ==
  /\ \A j \in W1PulseIo : j \in Io /\ PullPin[j] \in Pin /\ PinOf[j] # PullPin[j]
  /\ \A j \in Io : PinOf[j] \in Pin
  BY IoPinsAssumption DEF Pin

\* What a board starts with, when nothing was saved.
LEMMA IosStateIs ==
  /\ IosState \in [Io -> IoState]
  /\ \A j \in Io : IosState[j].special = "PLAIN"
<1>1. ASSUME NEW j \in Io PROVE IosState[j] \in IoState /\ IosState[j].special = "PLAIN"
  <2> DEFINE pull == IF j \in W1PulseIo THEN "NONE" ELSE "DOWN"
  <2>1. IosState[j] = [special |-> "PLAIN", input |-> TRUE, on |-> FALSE, pull |-> pull]
    BY DEF IosState
  <2>2. pull \in Pull
    BY DEF Pull
  <2> HIDE DEF pull
  <2>3. QED
    BY <2>1, <2>2 DEF IoState
<1>2. QED
  BY <1>1 DEF IosState

\* What a restart makes of a pin.
LEMMA PinAtBootTyped ==
  ASSUME NEW state \in [Io -> IoState], NEW p \in Pin, NEW was \in PinState
  PROVE  PinAtBoot(state, p, was) \in PinState
<1> DEFINE pulls == PullSteps(state, p)
           steps == PinSteps(state, p) \union pulls
<1>1. \A i \in steps : i[2] \in Io
  <2>1. \A i \in PinSteps(state, p) : i[2] \in Io
    BY DEF PinSteps
  <2>2. \A i \in PullSteps(state, p) : i[2] \in Io
    BY PinsOf DEF PullSteps
  <2>3. QED
    BY <2>1, <2>2
<1>2. \A j \in Io : /\ ModeAtBoot(state[j]).input \in BOOLEAN
                    /\ ModeAtBoot(state[j]).pull \in Pull
  BY DEF ModeAtBoot, PulsePupd, Pull, IoState
<1>3. SomeStep(steps) => LastStep(steps) \in steps
  BY DEF SomeStep, LastStep
<1>4. was.input \in BOOLEAN /\ was.pull \in Pull /\ was.level \in BOOLEAN
  BY DEF PinState
<1> DEFINE mode == IF ~SomeStep(steps) THEN was
                   ELSE IF LastStep(steps) \in pulls THEN [input |-> FALSE, pull |-> "NONE"]
                   ELSE ModeAtBoot(state[LastStep(steps)[2]])
           level == IF ~SomeStep(pulls) THEN was.level
                    ELSE PullAtBoot(state[LastStep(pulls)[2]])
<1>5. PinAtBoot(state, p, was) = [input |-> mode.input, pull |-> mode.pull, level |-> level]
  BY DEF PinAtBoot
<1>6. level \in BOOLEAN
  BY <1>4 DEF PullAtBoot
<1> HIDE DEF steps, pulls
<1>7. mode.input \in BOOLEAN /\ mode.pull \in Pull
  <2>1. CASE ~SomeStep(steps)
    BY <1>4, <2>1
  <2>2. CASE SomeStep(steps) /\ LastStep(steps) \in pulls
    BY <2>2 DEF Pull
  <2>3. CASE SomeStep(steps) /\ LastStep(steps) \notin pulls
    BY <1>1, <1>2, <1>3, <2>3
  <2>4. QED
    BY <2>1, <2>2, <2>3
<1> HIDE DEF mode, level
<1>8. QED
  BY <1>5, <1>6, <1>7 DEF PinState

\* The last of the steps of one IO is that IO's.
LEMMA StepsOfOne ==
  ASSUME NEW n \in Int, NEW steps, steps # {},
         steps \subseteq {<<"ios_init", n>>, <<"io_watch_init", n>>}
  PROVE  SomeStep(steps) /\ LastStep(steps) \in steps /\ LastStep(steps)[2] = n
<1> DEFINE first == <<"ios_init", n>>
           second == <<"io_watch_init", n>>
<1>1. IsLast(IF second \in steps THEN second ELSE first, steps)
  BY DEF IsLast
<1>2. SomeStep(steps)
  BY <1>1 DEF SomeStep
<1>3. LastStep(steps) \in steps
  BY <1>2 DEF SomeStep, LastStep
<1>4. QED
  BY <1>2, <1>3

\* A pin of an IO's own is set up as that IO's mode wants it.
LEMMA OwnPinAtBoot ==
  ASSUME NEW state \in [Io -> IoState], NEW io \in Io, NEW was \in PinState, PinIsOwn(io),
         state[io].special # "W1"
  PROVE  /\ PinAtBoot(state, PinOf[io], was).input = ModeAtBoot(state[io]).input
         /\ PinAtBoot(state, PinOf[io], was).pull = ModeAtBoot(state[io]).pull
         /\ PinAtBoot(state, PinOf[io], was).level = was.level
<1> DEFINE p == PinOf[io]
           steps == PinSteps(state, p)
<1>1. PullSteps(state, p) = {}
  BY PinsOf DEF PullSteps, PinIsOwn
<1>2. \A k \in Io : PinOf[k] = p => k = io
  BY DEF PinIsOwn
<1>3. steps \subseteq {<<"ios_init", io>>, <<"io_watch_init", io>>}
  BY <1>2 DEF PinSteps
<1>4. steps # {}
  <2>1. state[io].special \in EdgeMode \union {"PLAIN"} \/ state[io].special = "WATCH"
    BY DEF IoState, Special
  <2>2. CASE state[io].special = "WATCH"
    <3>1. <<"io_watch_init", io>> \in steps
      BY <2>2 DEF PinSteps
    <3>2. QED
      BY <3>1
  <2>3. CASE state[io].special \in EdgeMode \union {"PLAIN"}
    <3>1. <<"ios_init", io>> \in steps
      BY <2>3 DEF PinSteps, EdgeMode
    <3>2. QED
      BY <3>1
  <2>4. QED
    BY <2>1, <2>2, <2>3
<1>5. io \in Int
  BY DEF Io
<1>6. SomeStep(steps) /\ LastStep(steps)[2] = io
  BY <1>3, <1>4, <1>5, StepsOfOne
<1>7. ~SomeStep({})
  BY DEF SomeStep
<1>8. steps \union {} = steps
  OBVIOUS
<1> HIDE DEF steps
<1>9. PinAtBoot(state, p, was) = [input |-> ModeAtBoot(state[io]).input,
                                  pull |-> ModeAtBoot(state[io]).pull, level |-> was.level]
  BY <1>1, <1>6, <1>7, <1>8 DEF PinAtBoot, steps
<1>10. QED
  BY <1>9

\* What enables a pull-up and nothing else is left alone for an IO in no mode, and
\* set for one that is in a mode.
LEMMA OwnPullSteps ==
  ASSUME NEW state \in [Io -> IoState], NEW io \in W1PulseIo, PullIsOwn(io)
  PROVE  /\ PinSteps(state, PullPin[io]) = {}
         /\ PullSteps(state, PullPin[io]) \subseteq {<<"ios_init", io>>, <<"io_watch_init", io>>}
         /\ state[io].special = "PLAIN" => PullSteps(state, PullPin[io]) = {}
         /\ state[io].special # "PLAIN" => <<"ios_init", io>> \in PullSteps(state, PullPin[io])
<1>1. \A k \in W1PulseIo : PullPin[k] = PullPin[io] => k = io
  BY PinsOf DEF PullIsOwn
<1>2. QED
  BY <1>1 DEF PinSteps, PullSteps, PullIsOwn

LEMMA OwnPullOff ==
  ASSUME NEW state \in [Io -> IoState], NEW io \in W1PulseIo, NEW was \in PinState,
         PullIsOwn(io), state[io].special = "PLAIN"
  PROVE  /\ PinAtBoot(state, PullPin[io], was).input = was.input
         /\ PinAtBoot(state, PullPin[io], was).level = was.level
<1>1. PinSteps(state, PullPin[io]) = {} /\ PullSteps(state, PullPin[io]) = {}
  BY OwnPullSteps
<1>2. ~SomeStep({}) /\ {} \union {} = {}
  BY DEF SomeStep
<1>3. PinAtBoot(state, PullPin[io], was) =
        [input |-> was.input, pull |-> was.pull, level |-> was.level]
  BY <1>1, <1>2 DEF PinAtBoot
<1>4. QED
  BY <1>3

LEMMA OwnPullOn ==
  ASSUME NEW state \in [Io -> IoState], NEW io \in W1PulseIo, NEW was \in PinState,
         PullIsOwn(io), state[io].special # "PLAIN"
  PROVE  /\ ~PinAtBoot(state, PullPin[io], was).input
         /\ PullAtBoot(state[io]) => PinAtBoot(state, PullPin[io], was).level
         /\ PinAtBoot(state, PullPin[io], was).level => PullAtBoot(state[io])
<1> DEFINE pulls == PullSteps(state, PullPin[io])
<1>1. /\ PinSteps(state, PullPin[io]) = {} /\ <<"ios_init", io>> \in pulls
      /\ pulls \subseteq {<<"ios_init", io>>, <<"io_watch_init", io>>}
  BY OwnPullSteps
<1>2. io \in Int
  BY PinsOf DEF Io
<1>3. SomeStep(pulls) /\ LastStep(pulls) \in pulls /\ LastStep(pulls)[2] = io
  BY <1>1, <1>2, StepsOfOne
<1>4. {} \union pulls = pulls
  OBVIOUS
<1>5. PinAtBoot(state, PullPin[io], was) = [input |-> FALSE, pull |-> "NONE",
                                            level |-> PullAtBoot(state[io])]
  BY <1>1, <1>3, <1>4 DEF PinAtBoot
<1>6. PICK up \in BOOLEAN : up = PullAtBoot(state[io])
  BY DEF PullAtBoot
<1>7. PinAtBoot(state, PullPin[io], was) = [input |-> FALSE, pull |-> "NONE", level |-> up]
  BY <1>5, <1>6
<1>8. QED
  BY <1>6, <1>7

\* What a board starts with.
LEMMA IoInvInit == ASSUME IoInit PROVE IoInv
<1>1. \A j \in W1PulseIo : j \in Io
  BY IoPinsAssumption
<1>2. /\ ios_state = IosState /\ saved = IosState /\ raised = {} /\ todo = <<>>
      /\ gpio = [p \in Pin |-> PinAtBoot(IosState, p, PoweredOn[p])]
      /\ exti = [j \in W1PulseIo |-> "OFF"]
  BY DEF IoInit, NoLines
<1>3. PoweredOn \in [Pin -> PinState]
      /\ \A p \in Pin : PoweredOn[p].input = TRUE
  <2>1. [input |-> TRUE, pull |-> "NONE", level |-> FALSE] \in PinState
    BY DEF PinState, Pull
  <2>2. QED
    BY <2>1 DEF PoweredOn
<1>4. PinTypes
  <2>1. \A p \in Pin : PinAtBoot(IosState, p, PoweredOn[p]) \in PinState
    BY <1>3, IosStateIs, PinAtBootTyped
  <2>2. gpio \in [Pin -> PinState]
    BY <1>2, <2>1
  <2>3. /\ count_p \in [W1PulseIo -> Int] /\ send_count_p \in [W1PulseIo -> Int]
        /\ seen \in [W1PulseIo -> Int] /\ taken \in [W1PulseIo -> Int]
    <3>1. count_p = [io \in W1PulseIo |-> 0]
      BY DEF IoInit
    <3>2. send_count_p = count_p /\ seen = count_p /\ taken = count_p
      BY DEF IoInit
    <3>3. count_p \in [W1PulseIo -> Int]
      BY <3>1
    <3>4. QED
      BY <3>2, <3>3
  <2>4. QED
    BY <1>2, <2>2, <2>3, IosStateIs DEF PinTypes
<1>5. ASSUME NEW j \in W1PulseIo PROVE LineOk(j)
  <2>1. /\ j \in Io /\ ios_state[j].special = "PLAIN" /\ exti[j] = "OFF" /\ PullPin[j] \in Pin
        /\ gpio[PullPin[j]] = PinAtBoot(IosState, PullPin[j], PoweredOn[PullPin[j]])
    BY <1>1, <1>2, IosStateIs, PinsOf
  <2>2. PullIsOwn(j) => gpio[PullPin[j]].input = TRUE
    BY <1>2, <1>3, <2>1, IosStateIs, OwnPullOff
  <2>3. PullIsOwn(j) => ~PulledUp(j)
    BY <2>2 DEF PulledUp
  <2>4. QED
    BY <2>1, <2>3 DEF LineOk, EdgeMode, ExtiAtBoot, PullAtBoot
<1>6. \A j \in W1PulseIo : CountOk(j)
  BY <1>1, <1>2, IosStateIs DEF CountOk, IsPulsecount, EdgeMode
<1>7. ASSUME NEW j \in Io PROVE GpioOk(j)
  <2>1. /\ PinOf[j] \in Pin /\ ios_state[j] = IosState[j]
        /\ gpio[PinOf[j]] = PinAtBoot(IosState, PinOf[j], PoweredOn[PinOf[j]])
    BY <1>2, PinsOf
  <2>2. /\ IosState \in [Io -> IoState] /\ IosState[j].special # "W1"
        /\ PoweredOn[PinOf[j]] \in PinState
    BY <1>3, <2>1, IosStateIs
  <2>3. PinIsOwn(j) => /\ gpio[PinOf[j]].input = ModeAtBoot(ios_state[j]).input
                       /\ gpio[PinOf[j]].pull = ModeAtBoot(ios_state[j]).pull
    BY <2>1, <2>2, OwnPinAtBoot
  <2>4. QED
    BY <2>3 DEF GpioOk
<1>8. QED
  BY <1>2, <1>4, <1>5, <1>6, <1>7 DEF IoInv, AgendaInv, PinSettled

\* Interrupts: a request is in the register or on the count, and no line changes.
LEMMA InterruptKeeps ==
  ASSUME IoInv, NEW io \in W1PulseIo,
         (\E e \in {"R", "F"} : Edge(io, e)) \/ PulseIsr(io) \/ IoWatchIsr(io)
  PROVE  IoInv'
<1>1. UNCHANGED <<ios_state, saved, todo, exti, gpio, byhand, stray, send_count_p,
                  taken>>
  BY DEF Edge, PulseIsr, IoWatchIsr, hardware, counters
<1>2. PinTypes' /\ \A j \in W1PulseIo : CountOk(j) => CountOk(j)'
  <2>1. /\ count_p \in [W1PulseIo -> Int] /\ seen \in [W1PulseIo -> Int]
        /\ taken \in [W1PulseIo -> Int] /\ send_count_p \in [W1PulseIo -> Int]
        /\ raised \subseteq W1PulseIo
    BY DEF IoInv, PinTypes
  <2>2. /\ count_p' \in [W1PulseIo -> Int] /\ seen' \in [W1PulseIo -> Int]
        /\ raised' \subseteq W1PulseIo
    BY <2>1 DEF Edge, PulseIsr, IoWatchIsr, counters
  <2>3. PinTypes'
    BY <1>1, <2>2 DEF IoInv, PinTypes
  <2>4. ASSUME NEW j \in W1PulseIo, CountOk(j) PROVE CountOk(j)'
    <3>1. IsPulsecount(j)' = IsPulsecount(j)
      BY <1>1 DEF IsPulsecount
    <3>2. CASE \E e \in {"R", "F"} : Edge(io, e)
      <4>1. /\ raised' = raised \union {io} /\ UNCHANGED count_p
            /\ seen' = [seen EXCEPT ![io] = IF io \in raised THEN @ ELSE @ + 1]
        BY <3>2 DEF Edge
      <4>2. QED
        BY <1>1, <2>1, <2>4, <3>1, <4>1 DEF CountOk
    <3>3. CASE PulseIsr(io)
      <4>1. /\ raised' = raised \ {k \in raised : IsPulsecount(k)} /\ UNCHANGED seen
            /\ count_p' = [k \in W1PulseIo |->
                            IF k \in raised /\ IsPulsecount(k) THEN count_p[k] + 1
                            ELSE count_p[k]]
        BY <3>3 DEF PulseIsr
      <4>2. IsPulsecount(j) =>
              /\ j \notin raised'
              /\ count_p'[j] = count_p[j] + (IF j \in raised THEN 1 ELSE 0)
        BY <2>1, <4>1
      <4>3. QED
        BY <1>1, <2>1, <2>4, <3>1, <4>1, <4>2 DEF CountOk
    <3>4. CASE IoWatchIsr(io)
      <4>1. UNCHANGED <<count_p, seen>>
            /\ raised' = raised \ {k \in raised : IsWatch(k)}
        BY <3>4 DEF IoWatchIsr, counters
      <4>2. IsPulsecount(j) => (j \in raised' <=> j \in raised)
        BY <4>1 DEF IsPulsecount, IsWatch, EdgeMode
      <4>3. QED
        BY <1>1, <2>4, <3>1, <4>1, <4>2 DEF CountOk
    <3>5. QED
      BY <3>2, <3>3, <3>4
  <2>5. QED
    BY <2>3, <2>4
<1>3. AgendaInv'
  BY <1>1 DEF IoInv, AgendaInv, AgendaOf
<1>4. \A j \in Io : Handled(j)' = Handled(j) /\ GpioOk(j)' = GpioOk(j)
  BY <1>1 DEF Handled, GpioOk
<1>5. \A j \in W1PulseIo : j \in Io /\ LineOk(j)' = LineOk(j)
  BY <1>1, IoPinsAssumption DEF LineOk, PulledUp
<1>6. QED
  BY <1>2, <1>3, <1>4, <1>5 DEF IoInv, PinSettled

-----------------------------------------------------------------------------
(* The calls a handler makes.                                              *)

\* Driving what enables a pull-up leaves all other pins.
LEMMA PullSets ==
  ASSUME gpio \in [Pin -> PinState], NEW io \in W1PulseIo, NEW up \in BOOLEAN,
         HwPull(io, up)
  PROVE  /\ gpio' \in [Pin -> PinState] /\ PulledUp(io)' = up
         /\ \A p \in Pin : p # PullPin[io] => gpio'[p] = gpio[p]
<1> DEFINE r == [input |-> FALSE, pull |-> "NONE", level |-> up]
<1>1. r \in PinState /\ r.input = FALSE /\ r.level = up
  BY DEF PinState, Pull
<1> HIDE DEF r
<1>2. gpio' = [gpio EXCEPT ![PullPin[io]] = r]
  BY DEF HwPull, r
<1>3. /\ gpio' \in [Pin -> PinState] /\ gpio'[PullPin[io]] = r
      /\ \A p \in Pin : p # PullPin[io] => gpio'[p] = gpio[p]
  BY <1>1, <1>2, PinsOf
<1>4. QED
  BY <1>1, <1>3 DEF PulledUp

\* The same, with the IO's pin made an input.
LEMMA PullAndInputSets ==
  ASSUME gpio \in [Pin -> PinState], NEW io \in W1PulseIo, NEW up \in BOOLEAN, NEW pull,
         PullAndInput(io, up, pull)
  PROVE  /\ gpio' \in [Pin -> PinState] /\ PulledUp(io)' = up
         /\ \A p \in Pin : p # PullPin[io] /\ p # PinOf[io] => gpio'[p] = gpio[p]
         /\ gpio'[PinOf[io]].input = TRUE /\ gpio'[PinOf[io]].pull = PulsePupd(pull)
<1> DEFINE r == [input |-> FALSE, pull |-> "NONE", level |-> up]
           was == gpio[PinOf[io]]
           is == [input |-> TRUE, pull |-> PulsePupd(pull), level |-> was.level]
<1>1. io \in Io /\ PinOf[io] \in Pin /\ PullPin[io] \in Pin /\ PinOf[io] # PullPin[io]
  BY PinsOf
<1>2. was \in PinState
  BY <1>1
<1>3. r \in PinState /\ r.input = FALSE /\ r.level = up
  BY DEF PinState, Pull
<1>4. is \in PinState /\ is.input = TRUE /\ is.pull = PulsePupd(pull)
  BY <1>2 DEF PinState, PulsePupd, Pull
<1>5. /\ DOMAIN gpio' = Pin /\ gpio' = [p \in Pin |-> gpio'[p]]
      /\ gpio'[PullPin[io]] = r
      /\ \A p \in Pin : p # PullPin[io] /\ p # PinOf[io] => gpio'[p] = gpio[p]
  BY <1>1 DEF PullAndInput
<1>6. gpio'[PinOf[io]] = is
  <2>1. gpio'[PinOf[io]] = [was EXCEPT !.input = TRUE, !.pull = PulsePupd(pull)]
    BY <1>1 DEF PullAndInput
  <2>2. was = [input |-> was.input, pull |-> was.pull, level |-> was.level]
    BY <1>2 DEF PinState
  <2> HIDE DEF was
  <2>3. QED
    BY <2>1, <2>2
<1> HIDE DEF r, is
<1>7. gpio' \in [Pin -> PinState]
  BY <1>3, <1>4, <1>5, <1>6
<1>8. QED
  BY <1>3, <1>4, <1>5, <1>6, <1>7 DEF PulledUp

\* A call changes no pin of another IO's own.
LEMMA CallFrame ==
  ASSUME IoInv, NEW io \in W1PulseIo, IoCall, Head(todo).io = io
  PROVE  /\ todo' = Tail(todo) /\ UNCHANGED <<ios_state, saved, raised, byhand, stray>>
         /\ PinTypes'
         /\ \A j \in W1PulseIo \ {io} : PinSettled(j) => PinSettled(j)'
         /\ \A j \in Io \ {io} : GpioOk(j) => GpioOk(j)'
<1>1. /\ todo' = Tail(todo) /\ UNCHANGED <<ios_state, saved, raised, byhand, stray>>
  BY DEF IoCall
<1>2. PinTypes /\ io \in Io /\ \A j \in W1PulseIo : j \in Io
  BY IoPinsAssumption DEF IoInv
<1>3. /\ gpio \in [Pin -> PinState]
      /\ count_p \in [W1PulseIo -> Int] /\ send_count_p \in [W1PulseIo -> Int]
      /\ seen \in [W1PulseIo -> Int] /\ taken \in [W1PulseIo -> Int]
  BY <1>2 DEF PinTypes
<1>4. /\ gpio' \in [Pin -> PinState]
      /\ \A p \in Pin : p # PullPin[io] /\ p # PinOf[io] => gpio'[p] = gpio[p]
  <2>1. \/ UNCHANGED gpio
        \/ \E up \in BOOLEAN : HwPull(io, up)
        \/ \E up \in BOOLEAN : \E pull : PullAndInput(io, up, pull)
    BY DEF IoCall, PulsecountOff, PulsecountOn, WatchOff, WatchOn, hardware
  <2>2. QED
    BY <1>3, <2>1, PullSets, PullAndInputSets
<1>5. /\ exti' \in [W1PulseIo -> {"OFF", "R", "F", "B"}]
      /\ \A j \in W1PulseIo \ {io} : exti'[j] = exti[j]
  <2>1. \A e : EdgeOf(e) \in {"R", "F", "B"}
    BY DEF EdgeOf
  <2>2. exti' = exti \/ \E e \in {"OFF", "R", "F", "B"} : exti' = [exti EXCEPT ![io] = e]
    BY <2>1 DEF IoCall, PulsecountOff, PulsecountOn, WatchOff, WatchOn, hardware
  <2>3. QED
    BY <1>2, <2>2 DEF PinTypes
<1>6. /\ \A j \in W1PulseIo \ {io} : PullIsOwn(j) => PulledUp(j)' = PulledUp(j)
      /\ \A j \in Io \ {io} : PinIsOwn(j) => gpio'[PinOf[j]] = gpio[PinOf[j]]
  <2>1. ASSUME NEW j \in W1PulseIo \ {io}, PullIsOwn(j)
        PROVE  gpio'[PullPin[j]] = gpio[PullPin[j]]
    <3>1. PullPin[j] # PullPin[io] /\ PullPin[j] # PinOf[io] /\ PullPin[j] \in Pin
      BY <1>2, <2>1, PinsOf DEF PullIsOwn
    <3>2. QED
      BY <1>4, <3>1
  <2>2. ASSUME NEW j \in Io \ {io}, PinIsOwn(j) PROVE gpio'[PinOf[j]] = gpio[PinOf[j]]
    <3>1. PinOf[j] # PullPin[io] /\ PinOf[j] # PinOf[io] /\ PinOf[j] \in Pin
      BY <1>2, <2>2, PinsOf DEF PinIsOwn
    <3>2. QED
      BY <1>4, <3>1
  <2>3. QED
    BY <2>1, <2>2 DEF PulledUp
<1>7. /\ count_p' \in [W1PulseIo -> Int] /\ send_count_p' \in [W1PulseIo -> Int]
      /\ \A j \in W1PulseIo \ {io} : /\ count_p'[j] = count_p[j]
                                    /\ send_count_p'[j] = send_count_p[j]
  <2>1. \/ UNCHANGED <<count_p, send_count_p>>
        \/ /\ count_p' = [count_p EXCEPT ![io] = 0]
           /\ send_count_p' = [send_count_p EXCEPT ![io] = 0]
    BY DEF IoCall, PulsecountOff, PulsecountOn, WatchOff, WatchOn, counters
  <2>2. QED
    BY <1>2, <1>3, <2>1
<1>8. /\ seen' \in [W1PulseIo -> Int] /\ taken' \in [W1PulseIo -> Int]
      /\ \A j \in W1PulseIo \ {io} : seen'[j] = seen[j] /\ taken'[j] = taken[j]
  <2>1. \/ UNCHANGED <<seen, taken>>
        \/ /\ seen' = [seen EXCEPT ![io] = IF io \in raised THEN 1 ELSE 0]
           /\ taken' = [taken EXCEPT ![io] = 0]
    BY DEF IoCall, PulsecountOff, PulsecountOn, WatchOff, WatchOn, counters
  <2>2. QED
    BY <1>2, <1>3, <2>1
<1>9. PinTypes'
  BY <1>1, <1>2, <1>4, <1>5, <1>7, <1>8 DEF PinTypes
<1>10. \A j \in W1PulseIo \ {io} : LineOk(j) => LineOk(j)'
  BY <1>1, <1>5, <1>6 DEF LineOk
<1>11. \A j \in W1PulseIo \ {io} : CountOk(j) => CountOk(j)'
  BY <1>1, <1>7, <1>8 DEF CountOk, IsPulsecount
<1>12. \A j \in Io \ {io} : GpioOk(j) => GpioOk(j)'
  BY <1>1, <1>6 DEF GpioOk
<1>13. QED
  BY <1>1, <1>9, <1>10, <1>11, <1>12 DEF PinSettled

\* pulsecount_enable(io, false) and io_watch_enable(io, false) disable the line,
\* but for the former when the IO is a pulse counter now.
LEMMA CallsOff ==
  ASSUME IoInv, NEW io \in W1PulseIo, IoCall, Head(todo).io = io
  PROVE  /\ Head(todo).call = "pulse off" /\ ~IsPulsecount(io) => exti'[io] = "OFF"
         /\ Head(todo).call = "watch off" => exti'[io] = "OFF"
         /\ Head(todo).call = "w1 on" => exti'[io] = exti[io] /\ PulledUp(io)'
<1>1. /\ exti \in [W1PulseIo -> {"OFF", "R", "F", "B"}]
      /\ gpio \in [Pin -> PinState]
  BY DEF IoInv, PinTypes
<1>2. ASSUME Head(todo).call = "pulse off", ~IsPulsecount(io) PROVE exti'[io] = "OFF"
  BY <1>1, <1>2 DEF IoCall, PulsecountOff
<1>3. ASSUME Head(todo).call = "watch off" PROVE exti'[io] = "OFF"
  BY <1>1, <1>3 DEF IoCall, WatchOff
<1>4. ASSUME Head(todo).call = "w1 on" PROVE exti'[io] = exti[io] /\ PulledUp(io)'
  <2>1. HwPull(io, TRUE) /\ UNCHANGED exti
    BY <1>4 DEF IoCall
  <2>2. QED
    BY <1>1, <2>1, PullSets
<1>5. QED
  BY <1>2, <1>3, <1>4

\* A counter that starts with a request on the way.
LEMMA FreshCount ==
  ASSUME NEW io, raised' = raised,
         count_p'[io] = 0, send_count_p'[io] = 0, taken'[io] = 0,
         io \in raised => seen'[io] = 1, io \notin raised => seen'[io] = 0
  PROVE  CountOk(io)'
  BY DEF CountOk

\* The call that starts a mode leaves the pin as its mode wants it, and a
\* counter at zero, with a request that was raised before on the way.
LEMMA CallsOn ==
  ASSUME IoInv, NEW io \in W1PulseIo, IoCall, Head(todo).io = io,
         \/ Head(todo).call = "pulse on" /\ ios_state[io].special \in EdgeMode
         \/ Head(todo).call = "watch on" /\ ios_state[io].special = "WATCH",
         Head(todo).pull = ios_state[io].pull
  PROVE  LineOk(io)' /\ CountOk(io)' /\ GpioOk(io)'
<1>1. /\ exti \in [W1PulseIo -> {"OFF", "R", "F", "B"}] /\ io \in Io
      /\ gpio \in [Pin -> PinState]
      /\ count_p \in [W1PulseIo -> Int] /\ send_count_p \in [W1PulseIo -> Int]
      /\ seen \in [W1PulseIo -> Int] /\ taken \in [W1PulseIo -> Int]
  BY IoPinsAssumption DEF IoInv, PinTypes
<1>2. UNCHANGED <<ios_state, raised, byhand, stray>>
  BY DEF IoCall
<1> DEFINE up == ios_state[io].pull = "UP"
<1>0. up \in BOOLEAN
  OBVIOUS
<1>3. CASE Head(todo).call = "pulse on" /\ ios_state[io].special \in EdgeMode
  <2>1. PulsecountOn(io, ios_state[io].pull)
    BY <1>3 DEF IoCall
  <2>2. /\ exti'[io] = EdgeOf(ios_state[io].special)
        /\ gpio'[PinOf[io]].input = TRUE
        /\ gpio'[PinOf[io]].pull = PulsePupd(ios_state[io].pull)
        /\ PulledUp(io)' = up
    <3>1. PullAndInput(io, up, ios_state[io].pull)
      BY <2>1 DEF PulsecountOn
    <3>2. exti'[io] = EdgeOf(ios_state[io].special)
      BY <1>1, <2>1 DEF PulsecountOn
    <3>3. QED
      BY <1>0, <1>1, <3>1, <3>2, PullAndInputSets
  <2>3. /\ count_p'[io] = 0 /\ send_count_p'[io] = 0 /\ taken'[io] = 0
        /\ io \in raised => seen'[io] = 1
        /\ io \notin raised => seen'[io] = 0
    BY <1>1, <2>1 DEF PulsecountOn
  <2>4. LineOk(io)'
    BY <1>2, <1>3, <2>2 DEF LineOk, ExtiAtBoot, PullAtBoot, EdgeMode
  <2>5. CountOk(io)'
    BY <1>2, <2>3, FreshCount
  <2>6. GpioOk(io)'
    BY <1>2, <1>3, <2>2 DEF GpioOk, ModeAtBoot, EdgeMode
  <2>7. QED
    BY <2>4, <2>5, <2>6
<1>4. CASE Head(todo).call = "watch on" /\ ios_state[io].special = "WATCH"
  <2>1. WatchOn(io, ios_state[io].pull)
    BY <1>4 DEF IoCall
  <2>2. /\ exti'[io] = "B"
        /\ gpio'[PinOf[io]].input = TRUE
        /\ gpio'[PinOf[io]].pull = PulsePupd(ios_state[io].pull)
        /\ PulledUp(io)' = up
    <3>1. PullAndInput(io, up, ios_state[io].pull)
      BY <2>1 DEF WatchOn
    <3>2. exti'[io] = "B"
      BY <1>1, <2>1 DEF WatchOn
    <3>3. QED
      BY <1>0, <1>1, <3>1, <3>2, PullAndInputSets
  <2>3. LineOk(io)'
    BY <1>2, <1>4, <2>2 DEF LineOk, ExtiAtBoot, PullAtBoot, EdgeMode
  <2>4. CountOk(io)'
    BY <1>2, <1>4 DEF CountOk, IsPulsecount, EdgeMode
  <2>5. GpioOk(io)'
    BY <1>2, <1>4, <2>2 DEF GpioOk, ModeAtBoot
  <2>6. QED
    BY <2>3, <2>4, <2>5
<1>5. QED
  BY <1>3, <1>4

\* Each call leaves an agenda, or was the last and leaves the IO as it should be.
LEMMA AgendaGoesOn ==
  ASSUME IoInv, NEW io \in W1PulseIo, AgendaOf(io), IoCall
  PROVE  AgendaOf(io)' \/ (todo' = <<>> /\ PinSettled(io)' /\ GpioOk(io)')
<1>1. Head(todo).io = io
  BY AgendaHead
<1>2. todo' = Tail(todo)
  BY <1>1, CallFrame
<1>3. UNCHANGED <<ios_state, raised, byhand, stray>>
  BY <1>1, CallFrame
<1>4. CASE ios_state[io].special = "W1"
  <2>1. ~IsPulsecount(io)
    BY <1>4 DEF IsPulsecount, EdgeMode
  <2>2. CASE todo = <<Call("pulse off", io, "NONE"), Call("watch off", io, "NONE"),
                      Call("w1 on", io, "NONE")>>
    <3>1. Head(todo) = Call("pulse off", io, "NONE")
          /\ todo' = <<Call("watch off", io, "NONE"), Call("w1 on", io, "NONE")>>
      BY <1>2, <2>2, Tail3
    <3>2. Head(todo).call = "pulse off"
          /\ todo' = <<Call("watch off", io, "NONE"), Call("w1 on", io, "NONE")>>
      BY <3>1, CallFields
    <3>3. exti'[io] = "OFF"
      BY <1>1, <2>1, <3>2, CallsOff
    <3>4. QED
      BY <1>3, <1>4, <3>2, <3>3 DEF AgendaOf
  <2>3. CASE /\ exti[io] = "OFF"
             /\ todo = <<Call("watch off", io, "NONE"), Call("w1 on", io, "NONE")>>
    <3>1. Head(todo) = Call("watch off", io, "NONE") /\ todo' = <<Call("w1 on", io, "NONE")>>
      BY <1>2, <2>3, Tail2
    <3>2. Head(todo).call = "watch off" /\ todo' = <<Call("w1 on", io, "NONE")>>
      BY <3>1, CallFields
    <3>3. exti'[io] = "OFF"
      BY <1>1, <3>2, CallsOff
    <3>4. QED
      BY <1>3, <1>4, <3>2, <3>3 DEF AgendaOf
  <2>4. CASE exti[io] = "OFF" /\ todo = <<Call("w1 on", io, "NONE")>>
    <3>1. Head(todo) = Call("w1 on", io, "NONE") /\ todo' = <<>>
      BY <1>2, <2>4, Tail1
    <3>2. Head(todo).call = "w1 on" /\ todo' = <<>>
      BY <3>1, CallFields
    <3>3. exti'[io] = "OFF" /\ PulledUp(io)'
      BY <1>1, <2>4, <3>2, CallsOff
    <3>4. LineOk(io)'
      BY <1>3, <1>4, <3>3 DEF LineOk, ExtiAtBoot, PullAtBoot, EdgeMode
    <3>5. CountOk(io)' /\ GpioOk(io)'
      BY <1>3, <1>4 DEF CountOk, GpioOk, IsPulsecount, EdgeMode
    <3>6. QED
      BY <3>2, <3>4, <3>5 DEF PinSettled
  <2>5. QED
    BY <1>4, <2>2, <2>3, <2>4 DEF AgendaOf, EdgeMode
<1>5. CASE ios_state[io].special \in EdgeMode
  <2>1. CASE todo = <<Call("w1 off", io, "NONE"), Call("watch off", io, ios_state[io].pull),
                      Call("pulse on", io, ios_state[io].pull)>>
    <3>1. todo' = <<Call("watch off", io, ios_state[io].pull),
                  Call("pulse on", io, ios_state[io].pull)>>
      BY <1>2, <2>1, Tail3
    <3>2. QED
      BY <1>3, <1>5, <3>1 DEF AgendaOf
  <2>2. CASE todo = <<Call("watch off", io, ios_state[io].pull),
                      Call("pulse on", io, ios_state[io].pull)>>
    <3>1. todo' = <<Call("pulse on", io, ios_state[io].pull)>>
      BY <1>2, <2>2, Tail2
    <3>2. QED
      BY <1>3, <1>5, <3>1 DEF AgendaOf
  <2>3. CASE todo = <<Call("pulse on", io, ios_state[io].pull)>>
    <3>1. Head(todo) = Call("pulse on", io, ios_state[io].pull) /\ todo' = <<>>
      BY <1>2, <2>3, Tail1
    <3>2. PICK p : p = ios_state[io].pull /\ Head(todo) = Call("pulse on", io, p)
      BY <3>1
    <3>3. Head(todo) = Call("pulse on", io, p)
      BY <3>2
    <3>4. Head(todo).call = "pulse on" /\ Head(todo).pull = p
      BY <3>3, CallFields
    <3>5. QED
      BY <1>1, <1>5, <3>1, <3>2, <3>4, CallsOn DEF PinSettled
  <2>4. QED
    BY <1>5, <2>1, <2>2, <2>3 DEF AgendaOf, EdgeMode
<1>6. CASE ios_state[io].special = "WATCH"
  <2>1. CASE todo = <<Call("w1 off", io, "NONE"), Call("pulse off", io, "NONE"),
                      Call("watch on", io, ios_state[io].pull)>>
    <3>1. todo' = <<Call("pulse off", io, "NONE"),
                  Call("watch on", io, ios_state[io].pull)>>
      BY <1>2, <2>1, Tail3
    <3>2. QED
      BY <1>3, <1>6, <3>1 DEF AgendaOf
  <2>2. CASE todo = <<Call("pulse off", io, "NONE"),
                      Call("watch on", io, ios_state[io].pull)>>
    <3>1. todo' = <<Call("watch on", io, ios_state[io].pull)>>
      BY <1>2, <2>2, Tail2
    <3>2. QED
      BY <1>3, <1>6, <3>1 DEF AgendaOf
  <2>3. CASE todo = <<Call("watch on", io, ios_state[io].pull)>>
    <3>1. Head(todo) = Call("watch on", io, ios_state[io].pull) /\ todo' = <<>>
      BY <1>2, <2>3, Tail1
    <3>2. PICK p : p = ios_state[io].pull /\ Head(todo) = Call("watch on", io, p)
      BY <3>1
    <3>3. Head(todo) = Call("watch on", io, p)
      BY <3>2
    <3>4. Head(todo).call = "watch on" /\ Head(todo).pull = p
      BY <3>3, CallFields
    <3>5. QED
      BY <1>1, <1>6, <3>1, <3>2, <3>4, CallsOn DEF PinSettled
  <2>4. QED
    BY <1>6, <2>1, <2>2, <2>3 DEF AgendaOf, EdgeMode
<1>7. CASE ios_state[io].special = "PLAIN" /\ io \in byhand
  <2>1. CASE todo = <<Call("w1 off", io, "NONE"), Call("pulse off", io, "NONE")>>
    <3>1. todo' = <<Call("pulse off", io, "NONE")>>
      BY <1>2, <2>1, Tail2
    <3>2. QED
      BY <1>3, <1>7, <3>1 DEF AgendaOf
  <2>2. CASE todo = <<Call("pulse off", io, "NONE")>>
    <3>1. Head(todo) = Call("pulse off", io, "NONE") /\ todo' = <<>>
      BY <1>2, <2>2, Tail1
    <3>2. Head(todo).call = "pulse off" /\ todo' = <<>>
      BY <3>1, CallFields
    <3>3. ~IsPulsecount(io)
      BY <1>7 DEF IsPulsecount, EdgeMode
    <3>4. exti'[io] = "OFF"
      BY <1>1, <3>2, <3>3, CallsOff
    <3>5. LineOk(io)' /\ CountOk(io)' /\ GpioOk(io)'
      BY <1>3, <1>7, <3>4
      DEF LineOk, CountOk, GpioOk, IsPulsecount, ExtiAtBoot, EdgeMode
    <3>6. QED
      BY <3>2, <3>5 DEF PinSettled
  <2>3. QED
    BY <1>7, <2>1, <2>2 DEF AgendaOf, EdgeMode
<1>8. QED
  BY <1>4, <1>5, <1>6, <1>7 DEF AgendaOf

\* An agenda is of its own IO: after a step as well.
LEMMA AgendaHeadNext ==
  ASSUME NEW io \in W1PulseIo, AgendaOf(io)'
  PROVE  todo' # <<>> /\ Head(todo').io = io
<1>1. \E c : c.io = io /\ (todo' = <<c>> \/ (\E d : todo' = <<c, d>>)
                          \/ \E d, e : todo' = <<c, d, e>>)
  BY DEF AgendaOf, Call
<1>2. QED
  BY <1>1, Tail1, Tail2, Tail3

\* A call is of the one IO whose handler is underway.
LEMMA CallKeeps == ASSUME IoInv, IoCall PROVE IoInv'
<1>1. PICK io \in W1PulseIo : AgendaOf(io)
  BY DEF IoInv, AgendaInv, IoCall
<1>2. Head(todo).io = io /\ todo # <<>>
  BY <1>1, AgendaHead
<1>3. /\ PinTypes'
      /\ \A j \in W1PulseIo \ {io} : PinSettled(j) => PinSettled(j)'
      /\ \A j \in Io \ {io} : GpioOk(j) => GpioOk(j)'
  BY <1>2, CallFrame
<1>4. /\ \A j \in W1PulseIo \ {io} : PinSettled(j)'
      /\ \A j \in Io \ {io} : GpioOk(j)'
  BY <1>2, <1>3 DEF IoInv, Handled
<1>5. CASE AgendaOf(io)'
  <2>1. todo' # <<>> /\ Head(todo)'.io = io
    BY <1>5, AgendaHeadNext
  <2>2. AgendaInv' /\ Handled(io)'
    BY <1>5, <2>1 DEF AgendaInv, Handled
  <2>3. QED
    BY <1>3, <1>4, <2>2 DEF IoInv
<1>6. CASE todo' = <<>> /\ PinSettled(io)' /\ GpioOk(io)'
  <2>1. AgendaInv'
    BY <1>6 DEF AgendaInv
  <2>2. QED
    BY <1>3, <1>4, <1>6, <2>1 DEF IoInv
<1>7. QED
  BY <1>1, <1>5, <1>6, AgendaGoesOn

-----------------------------------------------------------------------------
(* What starts with no handler underway.                                   *)

\* Every pin is as its mode wants it.
LEMMA AllSettled ==
  ASSUME IoInv, todo = <<>>
  PROVE  /\ \A j \in W1PulseIo : j \in Io /\ LineOk(j) /\ CountOk(j)
         /\ \A j \in Io : GpioOk(j)
  BY IoPinsAssumption DEF IoInv, Handled, PinSettled

\* A reading is sent and acknowledged: what is taken off the count was on it.
LEMMA PulseReadKeeps ==
  ASSUME IoInv, NEW io \in W1PulseIo, PulseGet(io) \/ PulseAcked(io) \/ InstantSent(io)
  PROVE  IoInv'
<1>1. /\ todo = <<>>
      /\ UNCHANGED <<ios_state, saved, todo, exti, gpio, byhand, stray, raised, seen>>
  BY DEF PulseGet, PulseAcked, InstantSent, hardware, counters
<1>2. /\ count_p \in [W1PulseIo -> Int] /\ send_count_p \in [W1PulseIo -> Int]
      /\ seen \in [W1PulseIo -> Int] /\ taken \in [W1PulseIo -> Int]
  BY DEF IoInv, PinTypes
<1>3. /\ count_p' \in [W1PulseIo -> Int] /\ send_count_p' \in [W1PulseIo -> Int]
      /\ taken' \in [W1PulseIo -> Int]
      /\ \A j \in W1PulseIo : CountOk(j) => CountOk(j)'
  <2>1. CASE PulseGet(io)
    <3>1. /\ UNCHANGED <<count_p, taken>>
          /\ send_count_p' = [send_count_p EXCEPT ![io] = count_p[io]]
      BY <2>1 DEF PulseGet
    <3>2. QED
      BY <1>1, <1>2, <3>1 DEF CountOk, IsPulsecount
  <2>2. CASE PulseAcked(io)
    <3>1. /\ count_p' = [count_p EXCEPT ![io] = @ - send_count_p[io]]
          /\ send_count_p' = [send_count_p EXCEPT ![io] = 0]
          /\ taken' = [taken EXCEPT ![io] = @ + send_count_p[io]]
      BY <2>2 DEF PulseAcked
    <3>2. /\ count_p' \in [W1PulseIo -> Int] /\ send_count_p' \in [W1PulseIo -> Int]
          /\ taken' \in [W1PulseIo -> Int]
      BY <1>2, <3>1
    <3>3. ASSUME NEW j \in W1PulseIo, CountOk(j) PROVE CountOk(j)'
      <4>1. CASE j = io
        BY <1>1, <1>2, <3>1, <3>3, <4>1 DEF CountOk, IsPulsecount
      <4>2. CASE j # io
        BY <1>1, <1>2, <3>1, <3>3, <4>2 DEF CountOk, IsPulsecount
      <4>3. QED
        BY <4>1, <4>2
    <3>4. QED
      BY <3>2, <3>3
  <2>3. CASE InstantSent(io)
    <3>1. UNCHANGED <<count_p, send_count_p, taken>>
      BY <2>3 DEF InstantSent, counters
    <3>2. QED
      BY <1>1, <1>2, <3>1 DEF CountOk, IsPulsecount
  <2>4. QED
    BY <2>1, <2>2, <2>3
<1>4. PinTypes'
  BY <1>1, <1>3 DEF IoInv, PinTypes
<1>5. /\ \A j \in W1PulseIo : LineOk(j)'
      /\ \A j \in Io : GpioOk(j)'
  BY <1>1, AllSettled DEF LineOk, GpioOk, PulledUp
<1>6. QED
  BY <1>1, <1>3, <1>4, <1>5, AllSettled DEF IoInv, AgendaInv, PinSettled

\* A command that touches no line, and remembers a pull set by hand as such.
LEMMA PlainStep ==
  ASSUME IoInv, todo = <<>>, UNCHANGED <<todo, exti, raised, counters, stray>>,
         ios_state' \in [Io -> IoState], saved' \in [Io -> IoState],
         gpio' \in [Pin -> PinState],
         \A j \in Io \ W1PulseIo : saved'[j].special = "PLAIN",
         \A j \in Io : ios_state'[j].special = ios_state[j].special,
         \A j \in Io : ios_state[j].special # "PLAIN" => ios_state'[j].pull = ios_state[j].pull,
         \A j \in Io : GpioOk(j)',
         \A j \in W1PulseIo \ byhand' : PullIsOwn(j) => PulledUp(j)' = PulledUp(j),
         byhand \subseteq byhand'
  PROVE  IoInv'
<1>1. PinTypes'
  <2>1. \A j \in Io \ W1PulseIo : ios_state'[j].special = "PLAIN"
    BY DEF IoInv, PinTypes
  <2>2. UNCHANGED <<exti, raised, count_p, send_count_p, seen, taken>>
    BY DEF counters
  <2>3. QED
    BY <2>1, <2>2 DEF IoInv, PinTypes
<1>2. ASSUME NEW j \in W1PulseIo PROVE LineOk(j)' /\ CountOk(j)'
  <2>1. j \in Io /\ LineOk(j) /\ CountOk(j)
    BY AllSettled
  <2>2. /\ ios_state'[j].special = ios_state[j].special
        /\ ios_state[j].special # "PLAIN" => ios_state'[j].pull = ios_state[j].pull
    BY <2>1
  <2>3. ExtiAtBoot(ios_state'[j]) = ExtiAtBoot(ios_state[j])
    BY <2>2 DEF ExtiAtBoot
  <2>4. PullAtBoot(ios_state'[j]) <=> PullAtBoot(ios_state[j])
    BY <2>2 DEF PullAtBoot
  <2>5. LineOk(j)'
    <3>1. exti'[j] = exti[j] /\ (j \in stray' <=> j \in stray)
      OBVIOUS
    <3>2. j \notin byhand' /\ PullIsOwn(j) => j \notin byhand /\ PulledUp(j)' = PulledUp(j)
      OBVIOUS
    <3>3. QED
      BY <2>1, <2>3, <2>4, <3>1, <3>2 DEF LineOk
  <2>6. CountOk(j)'
    BY <2>1, <2>2 DEF CountOk, IsPulsecount, counters
  <2>7. QED
    BY <2>5, <2>6
<1>3. QED
  BY <1>1, <1>2 DEF IoInv, AgendaInv, PinSettled

\* The command that saves changes no pin.
LEMMA SaveKeeps == ASSUME IoInv, SaveIos PROVE IoInv'
<1>1. /\ todo = <<>> /\ UNCHANGED <<todo, exti, raised, counters, stray>>
      /\ saved' = ios_state /\ UNCHANGED <<ios_state, gpio, byhand>>
  BY DEF SaveIos, CmdStarts, hardware
<1>2. /\ ios_state \in [Io -> IoState]
      /\ gpio \in [Pin -> PinState]
      /\ \A j \in Io \ W1PulseIo : ios_state[j].special = "PLAIN"
  BY DEF IoInv, PinTypes
<1>3. \A j \in Io : GpioOk(j)'
  BY <1>1, AllSettled DEF GpioOk
<1>4. QED
  BY <1>1, <1>2, <1>3, PlainStep DEF PulledUp

\* Whether an output is on has no part in how it is set up.
LEMMA OnKeeps ==
  ASSUME IoInv, NEW io \in Io, NEW on \in BOOLEAN, IoOn(io, on)
  PROVE  IoInv'
<1>1. /\ todo = <<>> /\ UNCHANGED <<todo, exti, raised, counters, stray>>
      /\ UNCHANGED <<saved, byhand>>
      /\ ios_state' = [ios_state EXCEPT ![io].on = on]
      /\ gpio' = [gpio EXCEPT ![PinOf[io]].level = on]
  BY DEF IoOn, CmdStarts
<1>2. /\ ios_state \in [Io -> IoState] /\ saved \in [Io -> IoState]
      /\ gpio \in [Pin -> PinState]
      /\ \A j \in Io \ W1PulseIo : saved[j].special = "PLAIN"
  BY DEF IoInv, PinTypes
<1>3. /\ ios_state' \in [Io -> IoState]
      /\ \A j \in Io : /\ ios_state'[j].special = ios_state[j].special
                      /\ ios_state'[j].pull = ios_state[j].pull
                      /\ ios_state'[j].input = ios_state[j].input
  BY <1>1, <1>2 DEF IoState
<1>4. /\ gpio' \in [Pin -> PinState]
      /\ \A p \in Pin : /\ gpio'[p].input = gpio[p].input /\ gpio'[p].pull = gpio[p].pull
                        /\ p # PinOf[io] => gpio'[p] = gpio[p]
  BY <1>1, <1>2 DEF PinState
<1>5. ASSUME NEW j \in Io PROVE GpioOk(j)'
  <2>1. /\ ModeAtBoot(ios_state'[j]).input = ModeAtBoot(ios_state[j]).input
        /\ ModeAtBoot(ios_state'[j]).pull = ModeAtBoot(ios_state[j]).pull
    BY <1>3 DEF ModeAtBoot
  <2>2. gpio'[PinOf[j]].input = gpio[PinOf[j]].input /\ gpio'[PinOf[j]].pull = gpio[PinOf[j]].pull
    BY <1>4, PinsOf
  <2>3. GpioOk(j)
    BY <1>1, AllSettled
  <2>4. QED
    BY <1>1, <1>3, <2>1, <2>2, <2>3 DEF GpioOk
<1>6. ASSUME NEW j \in W1PulseIo, PullIsOwn(j) PROVE PulledUp(j)' = PulledUp(j)
  <2>1. PullPin[j] # PinOf[io] /\ PullPin[j] \in Pin
    BY <1>6, PinsOf DEF PullIsOwn
  <2>2. QED
    BY <1>4, <2>1 DEF PulledUp
<1>7. QED
  BY <1>1, <1>2, <1>3, <1>4, <1>5, <1>6, PlainStep

\* A plain pin is set up at once, as a restart would.
LEMMA ConfigureKeeps ==
  ASSUME IoInv, NEW io \in Io, NEW input \in BOOLEAN, NEW pull \in Pull,
         IoConfigure(io, input, pull)
  PROVE  IoInv'
<1> DEFINE s == [special |-> "PLAIN", input |-> input, pull |-> pull, on |-> FALSE]
<1>1. /\ todo = <<>> /\ UNCHANGED <<todo, exti, raised, counters, stray>>
      /\ UNCHANGED <<saved, byhand>>
      /\ ios_state[io].special = "PLAIN"
  BY DEF IoConfigure, CmdStarts
<1>2. /\ ios_state' = [ios_state EXCEPT ![io] = s]
      /\ gpio' = [gpio EXCEPT ![PinOf[io]].input = input, ![PinOf[io]].pull = pull]
  BY DEF IoConfigure
<1>3. /\ ios_state \in [Io -> IoState] /\ saved \in [Io -> IoState]
      /\ gpio \in [Pin -> PinState]
      /\ \A j \in Io \ W1PulseIo : saved[j].special = "PLAIN"
  BY DEF IoInv, PinTypes
<1>4. s \in IoState /\ s.special = "PLAIN" /\ s.input = input /\ s.pull = pull
  BY DEF IoState
<1>5. /\ gpio' \in [Pin -> PinState]
      /\ gpio'[PinOf[io]].input = input /\ gpio'[PinOf[io]].pull = pull
      /\ \A p \in Pin : p # PinOf[io] => gpio'[p] = gpio[p]
  <2>1. PinOf[io] \in Pin
    BY PinsOf
  <2> DEFINE is == [gpio[PinOf[io]] EXCEPT !.input = input, !.pull = pull]
  <2>2. is \in PinState /\ is.input = input /\ is.pull = pull
    BY <1>3, <2>1 DEF PinState
  <2>3. gpio' = [gpio EXCEPT ![PinOf[io]] = is]
    BY <1>2, <1>3, <2>1 DEF PinState
  <2> HIDE DEF is
  <2>4. QED
    BY <1>3, <2>1, <2>2, <2>3
<1> HIDE DEF s
<1>6. /\ ios_state' \in [Io -> IoState] /\ ios_state'[io] = s
      /\ \A j \in Io \ {io} : ios_state'[j] = ios_state[j]
  BY <1>2, <1>3, <1>4
<1>7. /\ \A j \in Io : ios_state'[j].special = ios_state[j].special
      /\ \A j \in Io :
           ios_state[j].special # "PLAIN" => ios_state'[j].pull = ios_state[j].pull
  BY <1>1, <1>4, <1>6
<1>8. GpioOk(io)'
  <2>1. ModeAtBoot(s).input = input /\ ModeAtBoot(s).pull = pull
    BY <1>4 DEF ModeAtBoot
  <2>2. QED
    BY <1>5, <1>6, <2>1 DEF GpioOk
<1>9. ASSUME NEW j \in Io \ {io} PROVE GpioOk(j)'
  <2>1. PinIsOwn(j) => PinOf[j] # PinOf[io] /\ PinOf[j] \in Pin
    BY PinsOf DEF PinIsOwn
  <2>2. PinIsOwn(j) => gpio'[PinOf[j]] = gpio[PinOf[j]]
    BY <1>5, <2>1
  <2>3. QED
    BY <1>1, <1>6, <2>2, AllSettled DEF GpioOk
<1>10. \A j \in Io : GpioOk(j)'
  BY <1>8, <1>9
<1>11. ASSUME NEW j \in W1PulseIo, PullIsOwn(j) PROVE PulledUp(j)' = PulledUp(j)
  <2>1. PullPin[j] # PinOf[io] /\ PullPin[j] \in Pin
    BY <1>11, PinsOf DEF PullIsOwn
  <2>2. QED
    BY <1>5, <2>1 DEF PulledUp
<1>12. /\ saved' \in [Io -> IoState]
       /\ \A j \in Io \ W1PulseIo : saved'[j].special = "PLAIN"
  BY <1>1, <1>3
<1>13. QED
  BY <1>1, <1>5, <1>6, <1>7, <1>10, <1>11, <1>12, PlainStep

\* A pull set by hand is remembered as such.
LEMMA PupdKeeps ==
  ASSUME IoInv, NEW io \in W1PulseIo, NEW up \in BOOLEAN, HwPupd(io, up)
  PROVE  IoInv'
<1>1. /\ todo = <<>> /\ UNCHANGED <<todo, exti, raised, counters, stray>>
      /\ UNCHANGED <<ios_state, saved>> /\ byhand' = byhand \union {io} /\ HwPull(io, up)
  BY DEF HwPupd, CmdStarts
<1>2. /\ ios_state \in [Io -> IoState] /\ saved \in [Io -> IoState]
      /\ gpio \in [Pin -> PinState]
      /\ \A j \in Io \ W1PulseIo : saved[j].special = "PLAIN"
  BY DEF IoInv, PinTypes
<1>3. /\ gpio' \in [Pin -> PinState]
      /\ \A p \in Pin : p # PullPin[io] => gpio'[p] = gpio[p]
  BY <1>1, <1>2, PullSets
<1>4. ASSUME NEW j \in W1PulseIo \ byhand', PullIsOwn(j) PROVE PulledUp(j)' = PulledUp(j)
  <2>1. PullPin[j] # PullPin[io] /\ PullPin[j] \in Pin
    BY <1>1, <1>4, PinsOf DEF PullIsOwn
  <2>2. QED
    BY <1>3, <2>1 DEF PulledUp
<1>5. ASSUME NEW j \in Io PROVE GpioOk(j)'
  <2>1. PinIsOwn(j) => PinOf[j] # PullPin[io] /\ PinOf[j] \in Pin
    BY PinsOf DEF PinIsOwn
  <2>2. PinIsOwn(j) => gpio'[PinOf[j]] = gpio[PinOf[j]]
    BY <1>3, <2>1
  <2>3. QED
    BY <1>1, <2>2, AllSettled DEF GpioOk
<1>6. QED
  BY <1>1, <1>2, <1>3, <1>4, <1>5, PlainStep

-----------------------------------------------------------------------------
(* Commands that change a mode.                                            *)

\* The IO whose mode changes has its whole agenda before it; no other changes.
LEMMA ModeStep ==
  ASSUME IoInv, todo = <<>>, NEW io \in W1PulseIo, NEW s \in IoState,
         ios_state' = [ios_state EXCEPT ![io] = s],
         UNCHANGED <<saved, hardware, raised, counters>>,
         \A j \in Io \ {io} : /\ j \in byhand' <=> j \in byhand
                              /\ j \in stray' <=> j \in stray,
         AgendaOf(io)'
  PROVE  IoInv'
<1>1. /\ ios_state \in [Io -> IoState] /\ io \in Io
      /\ \A j \in Io \ W1PulseIo : ios_state[j].special = "PLAIN"
  BY IoPinsAssumption DEF IoInv, PinTypes
<1>2. /\ ios_state' \in [Io -> IoState]
      /\ \A j \in Io \ {io} : ios_state'[j] = ios_state[j]
  BY <1>1
<1>3. UNCHANGED <<saved, gpio, exti, raised, count_p, send_count_p, seen, taken>>
  BY DEF hardware, counters
<1>4. PinTypes'
  <2>1. \A j \in Io \ W1PulseIo : ios_state'[j].special = "PLAIN"
    BY <1>1, <1>2
  <2>2. QED
    BY <1>2, <1>3, <2>1 DEF IoInv, PinTypes
<1>5. \A j \in W1PulseIo \ {io} : LineOk(j)' /\ CountOk(j)'
  BY <1>2, <1>3, AllSettled DEF LineOk, CountOk, IsPulsecount, PulledUp
<1>6. \A j \in Io \ {io} : GpioOk(j)'
  BY <1>2, <1>3, AllSettled DEF GpioOk
<1>7. AgendaInv' /\ Handled(io)'
  BY AgendaHeadNext DEF AgendaInv, Handled
<1>8. QED
  BY <1>4, <1>5, <1>6, <1>7 DEF IoInv, PinSettled

\* An IO becomes one-wire, a pulse counter, watched.
LEMMA W1Keeps == ASSUME IoInv, NEW io \in W1PulseIo, IoEnableW1(io) PROVE IoInv'
<1> DEFINE s == [special |-> "W1", input |-> FALSE, pull |-> ios_state[io].pull,
                 on |-> FALSE]
<1>1. /\ io \in Io /\ ios_state \in [Io -> IoState]
  BY IoPinsAssumption DEF IoInv, PinTypes
<1>2. ios_state[io].pull \in Pull
  BY <1>1 DEF IoState
<1>3. s \in IoState /\ s.special = "W1"
  BY <1>2 DEF IoState, Special
<1>4. /\ todo = <<>> /\ UNCHANGED <<saved, hardware, raised, counters>>
      /\ byhand' = byhand \ {io} /\ stray' = stray \ {io}
      /\ ios_state' = [ios_state EXCEPT ![io] = s]
      /\ todo' = <<Call("pulse off", io, "NONE"), Call("watch off", io, "NONE"),
                   Call("w1 on", io, "NONE")>>
  BY DEF IoEnableW1, EnterMode, CmdStarts
<1> HIDE DEF s
<1>5. ios_state'[io] = s
  BY <1>1, <1>4
<1>6. AgendaOf(io)'
  BY <1>3, <1>4, <1>5 DEF AgendaOf
<1>7. QED
  BY <1>3, <1>4, <1>6, ModeStep

LEMMA PulseKeeps ==
  ASSUME IoInv, NEW io \in W1PulseIo, NEW pull \in Pull, NEW edge \in EdgeMode,
         IoEnablePulsecount(io, pull, edge)
  PROVE  IoInv'
<1> DEFINE s == [special |-> edge, input |-> FALSE, pull |-> pull, on |-> FALSE]
<1>1. /\ io \in Io /\ ios_state \in [Io -> IoState]
  BY IoPinsAssumption DEF IoInv, PinTypes
<1>2. s \in IoState /\ s.special = edge /\ s.pull = pull
  BY DEF IoState, Special
<1>3. /\ todo = <<>> /\ UNCHANGED <<saved, hardware, raised, counters>>
      /\ byhand' = byhand \ {io} /\ stray' = stray \ {io}
      /\ ios_state' = [ios_state EXCEPT ![io] = s]
      /\ todo' = <<Call("w1 off", io, "NONE"), Call("watch off", io, pull),
                   Call("pulse on", io, pull)>>
  BY DEF IoEnablePulsecount, EnterMode, CmdStarts
<1> HIDE DEF s
<1>4. ios_state'[io] = s
  BY <1>1, <1>3
<1>5. AgendaOf(io)'
  BY <1>2, <1>3, <1>4 DEF AgendaOf
<1>6. QED
  BY <1>2, <1>3, <1>5, ModeStep

LEMMA WatchKeeps ==
  ASSUME IoInv, NEW io \in W1PulseIo, NEW pull \in Pull, IoEnableWatch(io, pull)
  PROVE  IoInv'
<1> DEFINE s == [special |-> "WATCH", input |-> FALSE, pull |-> pull, on |-> FALSE]
<1>1. /\ io \in Io /\ ios_state \in [Io -> IoState]
  BY IoPinsAssumption DEF IoInv, PinTypes
<1>2. s \in IoState /\ s.special = "WATCH" /\ s.pull = pull
  BY DEF IoState, Special
<1>3. /\ todo = <<>> /\ UNCHANGED <<saved, hardware, raised, counters>>
      /\ byhand' = byhand \ {io} /\ stray' = stray \ {io}
      /\ ios_state' = [ios_state EXCEPT ![io] = s]
      /\ todo' = <<Call("w1 off", io, "NONE"), Call("pulse off", io, "NONE"),
                   Call("watch on", io, pull)>>
  BY DEF IoEnableWatch, EnterMode, CmdStarts
<1> HIDE DEF s
<1>4. ios_state'[io] = s
  BY <1>1, <1>3
<1>5. AgendaOf(io)'
  BY <1>2, <1>3, <1>4 DEF AgendaOf
<1>6. QED
  BY <1>2, <1>3, <1>5, ModeStep

\* io_configure of an IO in a mode: the pin keeps what it was set up as.
LEMMA LeaveKeeps == ASSUME IoInv, NEW io \in Io, LeaveMode(io) PROVE IoInv'
<1> DEFINE s == [ios_state[io] EXCEPT !.special = "PLAIN"]
<1>1. /\ ios_state \in [Io -> IoState]
      /\ \A j \in Io \ W1PulseIo : ios_state[j].special = "PLAIN"
  BY DEF IoInv, PinTypes
<1>2. io \in W1PulseIo
  BY <1>1 DEF LeaveMode
<1>3. s \in IoState /\ s.special = "PLAIN"
  BY <1>1 DEF IoState
<1>4. /\ todo = <<>> /\ UNCHANGED <<saved, hardware, raised, counters>>
      /\ byhand' = byhand \union {io} /\ stray' = stray \ {io}
      /\ ios_state' = [ios_state EXCEPT ![io] = s]
      /\ todo' = <<Call("w1 off", io, "NONE"), Call("pulse off", io, "NONE")>>
  BY DEF LeaveMode, CmdStarts
<1> HIDE DEF s
<1>5. ios_state'[io] = s
  BY <1>1, <1>4
<1>6. AgendaOf(io)'
  BY <1>3, <1>4, <1>5 DEF AgendaOf
<1>7. QED
  BY <1>2, <1>3, <1>4, <1>6, ModeStep

-----------------------------------------------------------------------------
(* A restart sets the pins up as the saved modes want them.                *)

\* It starts over, with all counts at 0 and no request on the way but what the
\* register holds; what is left of lines and pulls is remembered as such.
LEMMA BootKeeps ==
  ASSUME IoInv, NEW state \in [Io -> IoState], NEW pins \in [Pin -> PinState],
         NEW lines \in [W1PulseIo -> {"OFF", "R", "F", "B"}], NEW flags \in SUBSET W1PulseIo,
         Boot(state, pins, lines, flags), saved' \in [Io -> IoState],
         \A j \in Io \ W1PulseIo : state[j].special = "PLAIN" /\ saved'[j].special = "PLAIN",
         \A j \in W1PulseIo \ stray' : ExtiAtBoot(state[j]) = "OFF" => lines[j] = "OFF",
         \A j \in W1PulseIo \ byhand' :
           state[j].special = "PLAIN" /\ PullIsOwn(j)
             => ~(~pins[PullPin[j]].input /\ pins[PullPin[j]].level)
  PROVE  IoInv'
<1>1. /\ ios_state' = state /\ todo' = <<>> /\ raised' = flags
      /\ gpio' = [p \in Pin |-> PinAtBoot(state, p, pins[p])]
      /\ exti' = [io \in W1PulseIo |-> IF ExtiAtBoot(state[io]) # "OFF" THEN ExtiAtBoot(state[io])
                                       ELSE lines[io]]
  BY DEF Boot
<1>2. /\ count_p' = [io \in W1PulseIo |-> 0] /\ send_count_p' = count_p' /\ taken' = count_p'
      /\ seen' = [io \in W1PulseIo |-> IF io \in flags THEN 1 ELSE 0]
  BY DEF Boot
<1>3. PinTypes'
  <2>1. exti' \in [W1PulseIo -> {"OFF", "R", "F", "B"}]
    <3>1. \A j \in W1PulseIo : ExtiAtBoot(state[j]) \in {"OFF", "R", "F", "B"}
      BY DEF ExtiAtBoot, EdgeOf
    <3>2. QED
      BY <1>1, <3>1
  <2>2. gpio' \in [Pin -> PinState]
    <3>1. \A p \in Pin : PinAtBoot(state, p, pins[p]) \in PinState
      BY PinAtBootTyped
    <3>2. QED
      BY <1>1, <3>1
  <2>3. count_p' \in [W1PulseIo -> Int] /\ seen' \in [W1PulseIo -> Int]
    <3>1. count_p' \in [W1PulseIo -> Int]
      BY <1>2
    <3>2. \A j \in W1PulseIo : (IF j \in flags THEN 1 ELSE 0) \in Int
      OBVIOUS
    <3>3. seen' \in [W1PulseIo -> Int]
      BY <1>2, <3>2
    <3>4. QED
      BY <3>1, <3>3
  <2>4. send_count_p' \in [W1PulseIo -> Int] /\ taken' \in [W1PulseIo -> Int]
    BY <1>2, <2>3
  <2>5. QED
    BY <1>1, <2>1, <2>2, <2>3, <2>4 DEF PinTypes
<1>4. ASSUME NEW j \in W1PulseIo PROVE LineOk(j)'
  <2>1. j \in Io /\ PullPin[j] \in Pin /\ pins[PullPin[j]] \in PinState
    BY PinsOf
  <2>2. j \notin stray' => exti'[j] = ExtiAtBoot(state[j])
    BY <1>1
  <2>3. ASSUME j \notin byhand', PullIsOwn(j) PROVE PulledUp(j)' <=> PullAtBoot(state[j])
    <3>1. gpio'[PullPin[j]] = PinAtBoot(state, PullPin[j], pins[PullPin[j]])
      BY <1>1, <2>1
    <3>2. CASE state[j].special = "PLAIN"
      <4>1. /\ gpio'[PullPin[j]].input = pins[PullPin[j]].input
            /\ gpio'[PullPin[j]].level = pins[PullPin[j]].level
        BY <2>1, <2>3, <3>1, <3>2, OwnPullOff
      <4>2. QED
        BY <2>3, <3>2, <4>1 DEF PulledUp, PullAtBoot
    <3>3. CASE state[j].special # "PLAIN"
      <4>1. /\ ~PinAtBoot(state, PullPin[j], pins[PullPin[j]]).input
            /\ PullAtBoot(state[j]) => PinAtBoot(state, PullPin[j], pins[PullPin[j]]).level
            /\ PinAtBoot(state, PullPin[j], pins[PullPin[j]]).level => PullAtBoot(state[j])
        BY <2>1, <2>3, <3>3, OwnPullOn
      <4>2. QED
        BY <2>1, <3>1, <4>1 DEF PulledUp
    <3>4. QED
      BY <3>2, <3>3
  <2>4. QED
    BY <1>1, <2>2, <2>3 DEF LineOk
<1>5. ASSUME NEW j \in W1PulseIo PROVE CountOk(j)'
  <2>1. /\ count_p'[j] = 0 /\ send_count_p'[j] = 0 /\ taken'[j] = 0
        /\ seen'[j] = IF j \in flags THEN 1 ELSE 0
    BY <1>2
  <2>2. QED
    BY <1>1, <2>1 DEF CountOk
<1>6. ASSUME NEW j \in Io PROVE GpioOk(j)'
  <2>1. /\ PinOf[j] \in Pin /\ pins[PinOf[j]] \in PinState
        /\ gpio'[PinOf[j]] = PinAtBoot(state, PinOf[j], pins[PinOf[j]])
    BY <1>1, PinsOf
  <2>2. PinIsOwn(j) /\ state[j].special # "W1" =>
          /\ gpio'[PinOf[j]].input = ModeAtBoot(state[j]).input
          /\ gpio'[PinOf[j]].pull = ModeAtBoot(state[j]).pull
    BY <2>1, OwnPinAtBoot
  <2>3. QED
    BY <1>1, <2>2 DEF GpioOk
<1>7. QED
  BY <1>1, <1>3, <1>4, <1>5, <1>6 DEF IoInv, AgendaInv, PinSettled

\* What ios_init takes from flash.
LEMMA IosInitIs ==
  ASSUME NEW state \in [Io -> IoState], \A j \in Io \ W1PulseIo : state[j].special = "PLAIN"
  PROVE  /\ IosInit(state) \in [Io -> IoState]
         /\ \A j \in Io \ W1PulseIo : IosInit(state)[j].special = "PLAIN"
  BY IosStateIs DEF IosInit

\* The watchdog clears the hardware.
LEMMA WatchdogKeeps == ASSUME IoInv, WatchdogReset PROVE IoInv'
<1>1. /\ Boot(IosInit(saved), PoweredOn, NoLines, {})
      /\ byhand' = {} /\ stray' = {} /\ UNCHANGED saved
  BY DEF WatchdogReset
<1>2. /\ saved \in [Io -> IoState] /\ \A j \in Io \ W1PulseIo : saved[j].special = "PLAIN"
  BY DEF IoInv, PinTypes
<1>3. /\ PoweredOn \in [Pin -> PinState] /\ \A p \in Pin : PoweredOn[p].input = TRUE
  <2>1. [input |-> TRUE, pull |-> "NONE", level |-> FALSE] \in PinState
    BY DEF PinState, Pull
  <2>2. QED
    BY <2>1 DEF PoweredOn
<1>4. /\ NoLines \in [W1PulseIo -> {"OFF", "R", "F", "B"}] /\ \A j \in W1PulseIo : NoLines[j] = "OFF"
  BY DEF NoLines
<1>5. \A j \in W1PulseIo : ~(~PoweredOn[PullPin[j]].input /\ PoweredOn[PullPin[j]].level)
  BY <1>3, PinsOf
<1>6. /\ IosInit(saved) \in [Io -> IoState]
      /\ \A j \in Io \ W1PulseIo : IosInit(saved)[j].special = "PLAIN"
  BY <1>2, IosInitIs
<1>7. saved' \in [Io -> IoState] /\ \A j \in Io \ W1PulseIo : saved'[j].special = "PLAIN"
  BY <1>1, <1>2
<1>8. \A j \in Io \ W1PulseIo : IosInit(saved)[j].special = "PLAIN" /\ saved'[j].special = "PLAIN"
  BY <1>6, <1>7
<1>9. PICK state, flags : state = IosInit(saved) /\ flags = {}
  OBVIOUS
<1>10. state \in [Io -> IoState] /\ flags \in SUBSET W1PulseIo
       /\ \A j \in Io \ W1PulseIo : state[j].special = "PLAIN" /\ saved'[j].special = "PLAIN"
  BY <1>6, <1>8, <1>9
<1>11. Boot(state, PoweredOn, NoLines, flags)
  BY <1>1, <1>9
<1>12. QED
  BY <1>3, <1>4, <1>5, <1>7, <1>10, <1>11, BootKeeps

\* The jump leaves it: a pull-up that is on is of an IO in a mode, or by hand.
LEMMA JumpKeeps == ASSUME IoInv, JumpToApplication PROVE IoInv'
<1> DEFINE state == IosInit(saved')
<1>1. /\ todo = <<>> /\ saved' \in {saved, IosState} /\ Boot(state, gpio, exti, raised)
      /\ stray' = {io \in W1PulseIo : exti[io] # "OFF" /\ ExtiAtBoot(state[io]) = "OFF"}
      /\ byhand' = {io \in Io : /\ state[io].special = "PLAIN"
                                /\ io \in byhand \/ ios_state[io].special # "PLAIN"}
  BY DEF JumpToApplication
<1>2. /\ gpio \in [Pin -> PinState] /\ exti \in [W1PulseIo -> {"OFF", "R", "F", "B"}]
      /\ raised \in SUBSET W1PulseIo
      /\ saved \in [Io -> IoState] /\ \A j \in Io \ W1PulseIo : saved[j].special = "PLAIN"
  BY DEF IoInv, PinTypes
<1>3. saved' \in [Io -> IoState] /\ \A j \in Io \ W1PulseIo : saved'[j].special = "PLAIN"
  BY <1>1, <1>2, IosStateIs
<1>4. /\ state \in [Io -> IoState]
      /\ \A j \in Io \ W1PulseIo : state[j].special = "PLAIN"
  BY <1>3, IosInitIs
<1> HIDE DEF state
<1>5. \A j \in W1PulseIo \ stray' : ExtiAtBoot(state[j]) = "OFF" => exti[j] = "OFF"
  BY <1>1
<1>6. ASSUME NEW j \in W1PulseIo \ byhand', state[j].special = "PLAIN", PullIsOwn(j)
      PROVE  ~(~gpio[PullPin[j]].input /\ gpio[PullPin[j]].level)
  <2>1. j \in Io /\ j \notin byhand /\ ios_state[j].special = "PLAIN" /\ LineOk(j)
    BY <1>1, <1>6, AllSettled
  <2>2. ~PulledUp(j)
    BY <1>6, <2>1 DEF LineOk, PullAtBoot
  <2>3. QED
    BY <2>2 DEF PulledUp
<1>7. \A j \in Io \ W1PulseIo : state[j].special = "PLAIN" /\ saved'[j].special = "PLAIN"
  BY <1>3, <1>4
<1>8. QED
  BY <1>1, <1>2, <1>3, <1>4, <1>5, <1>6, <1>7, BootKeeps

LEMMA RestartKeeps == ASSUME IoInv, Restart PROVE IoInv'
  BY WatchdogKeeps, JumpKeeps DEF Restart

-----------------------------------------------------------------------------

\* Every step keeps the invariant.
LEMMA IoInvStep == ASSUME IoInv, [IoNext]_ioVars PROVE IoInv'
<1>1. CASE IoCommand
  <2>1. CASE SaveIos
    BY <2>1, SaveKeeps
  <2>2. CASE \E io \in Io : LeaveMode(io)
    BY <2>2, LeaveKeeps
  <2>3. CASE \E io \in Io, on \in BOOLEAN : IoOn(io, on)
    BY <2>3, OnKeeps
  <2>4. CASE \E io \in Io, input \in BOOLEAN, pull \in Pull : IoConfigure(io, input, pull)
    BY <2>4, ConfigureKeeps
  <2>5. CASE \E io \in W1PulseIo : IoEnableW1(io)
    BY <2>5, W1Keeps
  <2>6. CASE \E io \in W1PulseIo, pull \in Pull : IoEnableWatch(io, pull)
    BY <2>6, WatchKeeps
  <2>7. CASE \E io \in W1PulseIo, pull \in Pull, edge \in EdgeMode :
               IoEnablePulsecount(io, pull, edge)
    BY <2>7, PulseKeeps
  <2>8. CASE \E io \in W1PulseIo, up \in BOOLEAN : HwPupd(io, up)
    BY <2>8, PupdKeeps
  <2>9. QED
    BY <1>1, <2>1, <2>2, <2>3, <2>4, <2>5, <2>6, <2>7, <2>8 DEF IoCommand
<1>2. CASE IoCall
  BY <1>2, CallKeeps
<1>3. CASE Restart
  BY <1>3, RestartKeeps
<1>4. CASE \E io \in W1PulseIo :
             (\E e \in {"R", "F"} : Edge(io, e)) \/ PulseIsr(io) \/ IoWatchIsr(io)
  BY <1>4, InterruptKeeps
<1>5. CASE \E io \in W1PulseIo : PulseGet(io) \/ PulseAcked(io) \/ InstantSent(io)
  BY <1>5, PulseReadKeeps
<1>6. CASE UNCHANGED ioVars
  <2>1. UNCHANGED <<ios_state, saved, todo, gpio, exti, raised, count_p,
                    send_count_p, seen, taken, byhand, stray>>
    BY <1>6 DEF ioVars, hardware, counters
  <2>2. PinTypes' /\ AgendaInv'
    BY <2>1 DEF IoInv, PinTypes, AgendaInv, AgendaOf
  <2>3. \A j : /\ Handled(j)' = Handled(j) /\ PinSettled(j)' = PinSettled(j)
              /\ GpioOk(j)' = GpioOk(j)
    BY <2>1 DEF Handled, PinSettled, LineOk, CountOk, GpioOk, IsPulsecount, PulledUp
  <2>4. QED
    BY <2>2, <2>3 DEF IoInv
<1>7. QED
  BY <1>1, <1>2, <1>3, <1>4, <1>5, <1>6 DEF IoNext

\* The invariant holds in every state of the specification.
LEMMA IoInvHolds == IoSpec => []IoInv
<1>1. IoInit => IoInv
  BY IoInvInit
<1>2. IoInv /\ [IoNext]_ioVars => IoInv'
  BY IoInvStep
<1>3. QED
  BY <1>1, <1>2, PTL DEF IoSpec

\* The line that the pulse counter and the watch of an IO share is as its mode
\* wants it once a handler is through, and an interrupt nobody acknowledges is
\* only of an IO whose mode is being ended (the order of the calls in
\* io_enable_pulsecount, io_enable_watch, io_enable_w1 and io_configure), or of a
\* line that reset or wipe left enabled (platform_reset_sys).
THEOREM IoLinesAreServed == IoSpec => []LinesAreServed
<1>1. ASSUME IoInv PROVE LineServesMode
  BY <1>1, AllSettled DEF LineServesMode, LineOk
<1>2. ASSUME IoInv PROVE SpinsOnlyOnLeaving
  <2> SUFFICES ASSUME NEW io \in W1PulseIo, Spins(io)
               PROVE  /\ ios_state[io].special \in {"PLAIN", "W1"}
                      /\ io \in stray \/ (todo # <<>> /\ Head(todo).io = io)
    BY DEF SpinsOnlyOnLeaving
  <2>1. exti[io] # "OFF" /\ ios_state[io].special \in {"PLAIN", "W1"}
    <3>1. io \in Io /\ ios_state \in [Io -> IoState]
      BY <1>2, IoPinsAssumption DEF IoInv, PinTypes
    <3>2. ios_state[io].special \in Special \union {"PLAIN"}
      BY <3>1 DEF IoState
    <3>3. QED
      BY <3>2 DEF Spins, Asks, IsPulsecount, IsWatch, Special
  <2>2. io \in stray \/ ~LineOk(io)
    BY <2>1 DEF LineOk, ExtiAtBoot, EdgeMode
  <2>3. io \in stray \/ Handled(io)
    BY <1>2, <2>2 DEF IoInv, PinSettled
  <2>4. QED
    BY <2>1, <2>3 DEF Handled
<1>3. IoInv => LinesAreServed
  BY <1>1, <1>2 DEF LinesAreServed
<1>4. QED
  BY <1>3, IoInvHolds, PTL

\* Every request of a counter's line is on its count, acknowledged or still in
\* the register (pulsecount_isr, pulsecount_acked).
THEOREM IoPulsesCountedOnce == IoSpec => []PulsesCountedOnce
<1>1. IoInv => PulsesCountedOnce
  BY AllSettled DEF PulsesCountedOnce, CountOk
<1>2. QED
  BY <1>1, IoInvHolds, PTL

-----------------------------------------------------------------------------
(* A restart with everything saved.                                        *)

\* From pins that are on only where they were on, and pull-ups of IOs in no
\* mode that are off.
LEMMA BootKeepsPins ==
  ASSUME IoInv, todo = <<>>, NEW pins \in [Pin -> PinState], NEW lines, NEW flags,
         Boot(ios_state, pins, lines, flags),
         \A p \in Pin : pins[p].level => gpio[p].level,
         \A j \in W1PulseIo \ byhand : ios_state[j].special = "PLAIN" /\ PullIsOwn(j)
           => ~(~pins[PullPin[j]].input /\ pins[PullPin[j]].level),
         \A j \in W1PulseIo \ stray : ExtiAtBoot(ios_state[j]) = "OFF" => lines[j] = "OFF"
  PROVE  PinsKept
<1>1. /\ ios_state' = ios_state
      /\ gpio' = [p \in Pin |-> PinAtBoot(ios_state, p, pins[p])]
      /\ exti' = [io \in W1PulseIo |-> IF ExtiAtBoot(ios_state[io]) # "OFF"
                                       THEN ExtiAtBoot(ios_state[io]) ELSE lines[io]]
  BY DEF Boot
<1>2. ios_state \in [Io -> IoState] /\ gpio \in [Pin -> PinState]
  BY DEF IoInv, PinTypes
<1>3. ASSUME NEW io \in Io \ byhand, PinIsOwn(io), ios_state[io].special # "W1"
      PROVE  /\ gpio'[PinOf[io]].input = gpio[PinOf[io]].input
             /\ gpio'[PinOf[io]].pull = gpio[PinOf[io]].pull
             /\ gpio'[PinOf[io]].level => gpio[PinOf[io]].level
  <2>1. /\ PinOf[io] \in Pin /\ pins[PinOf[io]] \in PinState
        /\ gpio'[PinOf[io]] = PinAtBoot(ios_state, PinOf[io], pins[PinOf[io]])
    BY <1>1, PinsOf
  <2>2. /\ gpio'[PinOf[io]].input = ModeAtBoot(ios_state[io]).input
        /\ gpio'[PinOf[io]].pull = ModeAtBoot(ios_state[io]).pull
        /\ gpio'[PinOf[io]].level = pins[PinOf[io]].level
    BY <1>2, <1>3, <2>1, OwnPinAtBoot
  <2>3. GpioOk(io)
    BY AllSettled
  <2>4. QED
    BY <1>3, <2>1, <2>2, <2>3 DEF GpioOk
<1>4. ASSUME NEW io \in W1PulseIo \ byhand, PullIsOwn(io) PROVE PulledUp(io)' = PulledUp(io)
  <2>1. /\ io \in Io /\ PullPin[io] \in Pin /\ pins[PullPin[io]] \in PinState
        /\ gpio'[PullPin[io]] = PinAtBoot(ios_state, PullPin[io], pins[PullPin[io]])
    BY <1>1, PinsOf
  <2>2. PulledUp(io) <=> PullAtBoot(ios_state[io])
    BY <1>4, AllSettled DEF LineOk
  <2>3. PulledUp(io)' <=> PullAtBoot(ios_state[io])
    <3>1. CASE ios_state[io].special = "PLAIN"
      <4>1. /\ gpio'[PullPin[io]].input = pins[PullPin[io]].input
            /\ gpio'[PullPin[io]].level = pins[PullPin[io]].level
        BY <1>2, <1>4, <2>1, <3>1, OwnPullOff
      <4>2. QED
        BY <1>4, <3>1, <4>1 DEF PulledUp, PullAtBoot
    <3>2. CASE ios_state[io].special # "PLAIN"
      <4>1. /\ ~PinAtBoot(ios_state, PullPin[io], pins[PullPin[io]]).input
            /\ PullAtBoot(ios_state[io]) => PinAtBoot(ios_state, PullPin[io], pins[PullPin[io]]).level
            /\ PinAtBoot(ios_state, PullPin[io], pins[PullPin[io]]).level => PullAtBoot(ios_state[io])
        BY <1>2, <1>4, <2>1, <3>2, OwnPullOn
      <4>2. QED
        BY <2>1, <4>1 DEF PulledUp
    <3>3. QED
      BY <3>1, <3>2
  <2>4. PulledUp(io) \in BOOLEAN /\ PulledUp(io)' \in BOOLEAN
    BY DEF PulledUp
  <2>5. QED
    BY <2>2, <2>3, <2>4
<1>5. \A io \in W1PulseIo \ stray : exti'[io] = exti[io]
  BY <1>1, AllSettled DEF LineOk
<1>6. QED
  BY <1>1, <1>3, <1>4, <1>5 DEF PinsKept

\* A restart of either kind with everything saved leaves the pins as the commands
\* had set them up, save those left or pulled by hand and those that IOs share; and
\* no output is on that was off (ios_init, io_watch_init, platform_reset_sys).
THEOREM IoRestartKeepsPins == IoSpec => RestartKeepsPins
<1>1. ASSUME IoNext, restarts_i' # restarts_i PROVE Restart
  BY <1>1
  DEF IoNext, IoCommand, IoCall, SaveIos, LeaveMode, IoOn, IoConfigure, IoEnableW1,
      IoEnableWatch, IoEnablePulsecount, HwPupd, CmdStarts, Edge, PulseIsr, IoWatchIsr,
      PulseGet, PulseAcked, InstantSent, ioBounds
<1>2. ASSUME IoInv, Restart, todo = <<>>, saved' = ios_state, ~Cleared(saved')
      PROVE  PinsKept
  <2>1. IosInit(saved') = ios_state
    BY <1>2 DEF IosInit
  <2>2. gpio \in [Pin -> PinState]
    BY <1>2 DEF IoInv, PinTypes
  <2>3. CASE WatchdogReset
    <3>1. Boot(ios_state, PoweredOn, NoLines, {})
      BY <2>1, <2>3 DEF WatchdogReset
    <3>2. /\ PoweredOn \in [Pin -> PinState]
          /\ \A p \in Pin : PoweredOn[p].input = TRUE /\ PoweredOn[p].level = FALSE
      <4>1. [input |-> TRUE, pull |-> "NONE", level |-> FALSE] \in PinState
        BY DEF PinState, Pull
      <4>2. QED
        BY <4>1 DEF PoweredOn
    <3>3. \A j \in W1PulseIo : PullPin[j] \in Pin /\ NoLines[j] = "OFF"
      BY PinsOf DEF NoLines
    <3>4. QED
      BY <1>2, <3>1, <3>2, <3>3, BootKeepsPins
  <2>4. CASE JumpToApplication
    <3>1. Boot(ios_state, gpio, exti, raised)
      BY <2>1, <2>4 DEF JumpToApplication
    <3>2. \A j \in W1PulseIo \ byhand : ios_state[j].special = "PLAIN" /\ PullIsOwn(j)
            => ~(~gpio[PullPin[j]].input /\ gpio[PullPin[j]].level)
      BY <1>2, AllSettled DEF LineOk, PullAtBoot, PulledUp
    <3>3. \A j \in W1PulseIo \ stray : ExtiAtBoot(ios_state[j]) = "OFF" => exti[j] = "OFF"
      BY <1>2, AllSettled DEF LineOk
    <3>4. QED
      BY <1>2, <2>2, <3>1, <3>2, <3>3, BootKeepsPins
  <2>5. QED
    BY <1>2, <2>3, <2>4 DEF Restart
<1>3. IoInv /\ [IoNext]_ioVars
        => [restarts_i' # restarts_i /\ todo = <<>> /\ saved' = ios_state /\ ~Cleared(saved')
              => PinsKept]_ioVars
  BY <1>1, <1>2
<1>4. QED
  BY <1>3, IoInvHolds, PTL DEF IoSpec, RestartKeepsPins
=================================================================================
