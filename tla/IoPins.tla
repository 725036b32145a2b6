-------------------------------- MODULE IoPins --------------------------------
(***************************************************************************)
(* The IOs of a board (core/src/io.c): plain inputs and outputs, and on    *)
(* the pins that have an interrupt line the special modes, pulse counter   *)
(* (sensors/src/pulsecount.c), one-wire and watch (sensors/src/io_watch.c).*)
(* The pulse counter and the watch of a pin share its line: a handler      *)
(* that changes the mode calls both of them, one after the other, and the  *)
(* interrupt may come between two of the calls.  IOs may share a pin, and  *)
(* a pin may be what enables the pull-up of another IO, as on env01c       *)
(* (model/env01c/env01c_pinmap.h:53-94).                                   *)
(*                                                                         *)
(* A restart sets the pins up from the saved state.  The watchdog resets   *)
(* the hardware before; the commands reset and wipe only jump to the       *)
(* application, and the pins, the interrupt lines and the pending register *)
(* stay as they are.  An interrupt between that jump and the end of        *)
(* ios_init, which finds ios_state unset, is not modelled.                 *)
(***************************************************************************)
EXTENDS Integers, Sequences

CONSTANTS
  IoCount,       \* IOS_COUNT: the IOs are 0..IoCount-1
  W1PulseIo,     \* the IOs with an interrupt line (model_can_io_be_special)
  PinOf,         \* IOS_PORT_N_PINS: the pin of each IO
  PullPin,       \* W1_PULSE_n_PULLUP_EN_PORT_N_PINS: what enables the board's pull-up
  MaxIoCommands, \* bound: commands
  MaxEdges,      \* bound: edges on the lines
  MaxIoRestarts  \* bound: restarts

Io == 0..(IoCount - 1)
EdgeMode == {"PULSE R", "PULSE F", "PULSE B"}  \* io_special_t
Special == EdgeMode \union {"W1", "WATCH"}
Pull == {"NONE", "UP", "DOWN"}
Pin == {PinOf[io] : io \in Io} \union {PullPin[io] : io \in W1PulseIo}

ASSUME IoPinsAssumption ==
  /\ IoCount \in Nat \ {0} /\ W1PulseIo \subseteq Io \ {0}
  /\ \A io \in W1PulseIo : PinOf[io] # PullPin[io]
  /\ {MaxIoCommands, MaxEdges, MaxIoRestarts} \subseteq Nat

VARIABLES
  ios_state,  \* per IO: [special, input, pull, on]
  saved,      \* ios_state as it is in flash
  todo,       \* calls a handler has left, each a record with its io
  gpio,       \* hardware: per pin [input, pull, level], the level its output register has
  exti,       \* hardware: the edges each line asks for, "OFF" when disabled
  raised,     \* hardware: the IOs with a flag in the pending register
  count_p, send_count_p, \* the pulse counters
  instant_w,  \* the watched IOs with instant_send set
  seen,       \* history: requests raised since the counter was started
  taken,      \* history: pulses taken off by acknowledgements since
  byhand,     \* history: IOs that left a mode by io_configure, or had hw_pupd, or
              \* kept the pull-up of a mode over a jump
  stray,      \* history: IOs whose line a jump left enabled that have no mode for it
  commands_i, edges_i, restarts_i \* counters for the bounds

hardware == <<gpio, exti>>
counters == <<count_p, send_count_p, seen, taken>>
ioBounds == <<commands_i, edges_i, restarts_i>>
ioVars == <<ios_state, saved, todo, hardware, raised, counters, instant_w,
            byhand, stray, ioBounds>>

IsPulsecount(io) == ios_state[io].special \in EdgeMode
IsWatch(io) == ios_state[io].special = "WATCH"

IosState == [io \in Io |-> [special |-> "PLAIN", input |-> TRUE, on |-> FALSE,
                           pull |-> IF io \in W1PulseIo THEN "NONE" ELSE "DOWN"]]
Cleared(state) == state[0] = [special |-> "PLAIN", input |-> FALSE, pull |-> "NONE", on |-> FALSE]

\* model_setup_pulse_pupd: a pull-up is the board's, not the processor's
PulsePupd(pull) == IF pull = "DOWN" THEN "DOWN" ELSE "NONE"
-----------------------------------------------------------------------------
(* The interrupt.  A line that asks for it and is in no mode with a handler *)
(* is not acknowledged: its interrupt is taken again and again.             *)
Asks(io) == io \in raised /\ exti[io] # "OFF"
Spins(io) == Asks(io) /\ ~IsPulsecount(io) /\ ~IsWatch(io)
Idle == \A io \in W1PulseIo : ~Asks(io)

Edge(io, e) ==
  /\ edges_i < MaxEdges /\ exti[io] \in {e, "B"}
  /\ edges_i' = edges_i + 1 /\ raised' = raised \union {io}
  /\ seen' = [seen EXCEPT ![io] = IF io \in raised THEN @ ELSE @ + 1]
  /\ UNCHANGED <<ios_state, saved, todo, hardware, count_p, send_count_p, taken,
                 instant_w, byhand, stray, commands_i, restarts_i>>

\* Mutated: every flag is reset, only the own pulse counted
PulseIsrOwnOnly(io) ==
  /\ Asks(io) /\ IsPulsecount(io)
  /\ raised' = {j \in raised : ~IsPulsecount(j)}
  /\ count_p' = [count_p EXCEPT ![io] = @ + 1]
  /\ UNCHANGED <<ios_state, saved, todo, hardware, send_count_p, seen, taken,
                 instant_w, byhand, stray, ioBounds>>
\* W1_PULSE_n_ISR: the handler looks at the lines of all IOs in its mode
PulseIsr(io) ==
  /\ Asks(io) /\ IsPulsecount(io)
  /\ LET Its == {j \in raised : IsPulsecount(j)}
     IN  /\ raised' = raised \ Its
         /\ count_p' = [j \in W1PulseIo |-> IF j \in Its THEN count_p[j] + 1 ELSE count_p[j]]
  /\ UNCHANGED <<ios_state, saved, todo, hardware, send_count_p, seen, taken,
                 instant_w, byhand, stray, ioBounds>>
IoWatchIsr(io) ==
  /\ Asks(io) /\ IsWatch(io)
  /\ LET Its == {j \in raised : IsWatch(j)}
     IN  raised' = raised \ Its /\ instant_w' = instant_w \union Its
  /\ UNCHANGED <<ios_state, saved, todo, hardware, counters, byhand, stray, ioBounds>>
-----------------------------------------------------------------------------
(* The calls of the handlers that change a mode, each made with ios_state   *)
(* already at the new mode.                                                 *)
Call(c, io, pull) == [call |-> c, io |-> io, pull |-> pull]

\* model_w1_pulse_enable_pupd
HwPull(io, up) ==
  gpio' = [gpio EXCEPT ![PullPin[io]] = [input |-> FALSE, pull |-> "NONE", level |-> up]]
\* the same, and then gpio_mode_setup of the IO's pin as an input: its level stays
PullAndInput(io, up, pull) ==
  gpio' = [gpio EXCEPT ![PullPin[io]] = [input |-> FALSE, pull |-> "NONE", level |-> up],
                       ![PinOf[io]].input = TRUE, ![PinOf[io]].pull = PulsePupd(pull)]

\* pulsecount_enable(io, false): nothing when the IO is a pulse counter now
PulsecountOff(io) ==
  IF IsPulsecount(io) THEN UNCHANGED <<hardware, counters>>
  ELSE /\ exti' = [exti EXCEPT ![io] = "OFF"]
       /\ count_p' = [count_p EXCEPT ![io] = 0]
       /\ send_count_p' = [send_count_p EXCEPT ![io] = 0]
       /\ UNCHANGED <<gpio, seen, taken>>

EdgeOf(special) == IF special = "PULSE R" THEN "R" ELSE IF special = "PULSE F" THEN "F" ELSE "B"

\* the counter starts at 0 but the pending register is left as it is
PulsecountOn(io, pull) ==
  /\ PullAndInput(io, pull = "UP", ios_state[io].pull)
  /\ exti' = [exti EXCEPT ![io] = EdgeOf(ios_state[io].special)]
  /\ count_p' = [count_p EXCEPT ![io] = 0] /\ send_count_p' = [send_count_p EXCEPT ![io] = 0]
  /\ seen' = [seen EXCEPT ![io] = IF io \in raised THEN 1 ELSE 0]
  /\ taken' = [taken EXCEPT ![io] = 0]

WatchOff(io, pull) ==
  HwPull(io, pull = "UP") /\ exti' = [exti EXCEPT ![io] = "OFF"] /\ UNCHANGED counters
WatchOn(io, pull) ==
  /\ PullAndInput(io, pull = "UP", pull) /\ exti' = [exti EXCEPT ![io] = "B"]
  /\ UNCHANGED counters

IoCall ==
  /\ Idle /\ todo # <<>> /\ todo' = Tail(todo)
  /\ LET c == Head(todo)
     IN  \/ c.call = "w1 on" /\ HwPull(c.io, TRUE) /\ UNCHANGED <<exti, counters>>
         \/ c.call = "w1 off" /\ HwPull(c.io, FALSE) /\ UNCHANGED <<exti, counters>>
         \/ c.call = "pulse on" /\ PulsecountOn(c.io, c.pull)
         \/ c.call = "pulse off" /\ PulsecountOff(c.io)
         \/ c.call = "watch on" /\ WatchOn(c.io, c.pull)
         \/ c.call = "watch off" /\ WatchOff(c.io, c.pull)
  /\ UNCHANGED <<ios_state, saved, raised, instant_w, byhand, stray, ioBounds>>
-----------------------------------------------------------------------------
(* Commands                                                                *)
CmdStarts == /\ Idle /\ todo = <<>> /\ commands_i < MaxIoCommands
             /\ commands_i' = commands_i + 1 /\ UNCHANGED <<edges_i, restarts_i>>

EnterMode(io, special, pull) ==
  ios_state' = [ios_state EXCEPT ![io] =
                  [special |-> special, input |-> FALSE, pull |-> pull, on |-> FALSE]]

IoEnableW1(io) ==
  /\ CmdStarts /\ io \in W1PulseIo /\ EnterMode(io, "W1", ios_state[io].pull)
  /\ todo' = <<Call("pulse off", io, "NONE"), Call("watch off", io, "NONE"), Call("w1 on", io, "NONE")>>
  /\ byhand' = byhand \ {io} /\ stray' = stray \ {io}
  /\ UNCHANGED <<saved, hardware, raised, counters, instant_w>>
\* Mutated: the watch is disabled last
IoEnablePulsecountWatchLast(io, pull, edge) ==
  /\ CmdStarts /\ io \in W1PulseIo /\ EnterMode(io, edge, pull)
  /\ todo' = <<Call("w1 off", io, "NONE"), Call("pulse on", io, pull), Call("watch off", io, pull)>>
  /\ byhand' = byhand \ {io} /\ stray' = stray \ {io}
  /\ UNCHANGED <<saved, hardware, raised, counters, instant_w>>
IoEnablePulsecount(io, pull, edge) ==
  /\ CmdStarts /\ io \in W1PulseIo /\ EnterMode(io, edge, pull)
  /\ todo' = <<Call("w1 off", io, "NONE"), Call("watch off", io, pull), Call("pulse on", io, pull)>>
  /\ byhand' = byhand \ {io} /\ stray' = stray \ {io}
  /\ UNCHANGED <<saved, hardware, raised, counters, instant_w>>
IoEnableWatch(io, pull) ==
  /\ CmdStarts /\ io \in W1PulseIo /\ EnterMode(io, "WATCH", pull)
  /\ todo' = <<Call("w1 off", io, "NONE"), Call("pulse off", io, "NONE"), Call("watch on", io, pull)>>
  /\ byhand' = byhand \ {io} /\ stray' = stray \ {io}
  /\ UNCHANGED <<saved, hardware, raised, counters, instant_w>>

\* io_configure of an IO in a mode only ends the mode: the pin stays an input.
\* pulsecount_enable disables the line, be it the watch's.
LeaveMode(io) ==
  /\ CmdStarts /\ ios_state[io].special # "PLAIN"
  /\ ios_state' = [ios_state EXCEPT ![io].special = "PLAIN"]
  /\ todo' = <<Call("w1 off", io, "NONE"), Call("pulse off", io, "NONE")>>
  /\ byhand' = byhand \union {io} /\ stray' = stray \ {io}
  /\ UNCHANGED <<saved, hardware, raised, counters, instant_w>>
IoConfigure(io, input, pull) ==
  /\ CmdStarts /\ ios_state[io].special = "PLAIN"
  /\ ios_state' = [ios_state EXCEPT ![io] =
                     [special |-> "PLAIN", input |-> input, pull |-> pull, on |-> FALSE]]
  /\ gpio' = [gpio EXCEPT ![PinOf[io]].input = input, ![PinOf[io]].pull = pull]
  /\ UNCHANGED <<saved, todo, exti, raised, counters, instant_w, byhand, stray>>
IoOn(io, on) ==
  /\ CmdStarts /\ ~ios_state[io].input
  /\ ios_state' = [ios_state EXCEPT ![io].on = on]
  /\ gpio' = [gpio EXCEPT ![PinOf[io]].level = on]
  /\ UNCHANGED <<saved, todo, exti, raised, counters, instant_w, byhand, stray>>
HwPupd(io, up) ==
  /\ CmdStarts /\ io \in W1PulseIo /\ HwPull(io, up) /\ byhand' = byhand \union {io}
  /\ UNCHANGED <<ios_state, saved, todo, exti, raised, counters, instant_w, stray>>
SaveIos ==
  /\ CmdStarts /\ saved' = ios_state
  /\ UNCHANGED <<ios_state, todo, hardware, raised, counters, instant_w, byhand, stray>>

IoCommand ==
  \/ SaveIos
  \/ \E io \in Io :
       \/ LeaveMode(io)
       \/ \E on \in BOOLEAN : IoOn(io, on)
       \/ \E input \in BOOLEAN, pull \in Pull : IoConfigure(io, input, pull)
  \/ \E io \in W1PulseIo :
       \/ IoEnableW1(io)
       \/ \E pull \in Pull : IoEnableWatch(io, pull)
       \/ \E pull \in Pull, edge \in EdgeMode : IoEnablePulsecount(io, pull, edge)
       \/ \E up \in BOOLEAN : HwPupd(io, up)

\* a reading is sent, and acknowledged
PulseGet(io) ==
  /\ Idle /\ todo = <<>> /\ IsPulsecount(io) /\ count_p[io] # send_count_p[io]
  /\ send_count_p' = [send_count_p EXCEPT ![io] = count_p[io]]
  /\ UNCHANGED <<ios_state, saved, todo, hardware, raised, count_p, seen, taken,
                 instant_w, byhand, stray, ioBounds>>
PulseAcked(io) ==
  /\ Idle /\ todo = <<>> /\ send_count_p[io] # 0
  /\ count_p' = [count_p EXCEPT ![io] = @ - send_count_p[io]]
  /\ send_count_p' = [send_count_p EXCEPT ![io] = 0]
  /\ taken' = [taken EXCEPT ![io] = @ + send_count_p[io]]
  /\ UNCHANGED <<ios_state, saved, todo, hardware, raised, seen, instant_w,
                 byhand, stray, ioBounds>>
\* measurements_check_instant_send
InstantSent(io) ==
  /\ Idle /\ todo = <<>> /\ io \in instant_w /\ instant_w' = instant_w \ {io}
  /\ UNCHANGED <<ios_state, saved, todo, hardware, raised, counters, byhand, stray, ioBounds>>
-----------------------------------------------------------------------------
(* A restart: ios_init, IO after IO, and then io_watch_init, IO after IO.   *)
(* What the last of them writes to a pin stays.                             *)
IosInit(state) == IF Cleared(state) THEN IosState ELSE state

ExtiAtBoot(s) == IF s.special \in EdgeMode THEN EdgeOf(s.special)
                 ELSE IF s.special = "WATCH" THEN "B" ELSE "OFF"
\* Mutated: the pull-up of a counter is forgotten
PullAtBootOfWatch(s) == s.special = "W1" \/ (s.special = "WATCH" /\ s.pull = "UP")
PullAtBoot(s) == s.special = "W1" \/ (s.special # "PLAIN" /\ s.pull = "UP")

IsLast(i, steps) == \A j \in steps : IF i[1] = j[1] THEN i[2] >= j[2] ELSE i[1] = "io_watch_init"
SomeStep(steps) == \E i \in steps : IsLast(i, steps)
LastStep(steps) == CHOOSE i \in steps : IsLast(i, steps)

\* the steps that set the pin p up for their IO, and those that switch a pull-up with it
PinSteps(state, p) ==
  {<<"ios_init", n>> : n \in {k \in Io : PinOf[k] = p /\ state[k].special \notin {"W1", "WATCH"}}}
  \union {<<"io_watch_init", n>> : n \in {k \in Io : PinOf[k] = p /\ state[k].special = "WATCH"}}
PullSteps(state, p) ==
  LET Its == {k \in W1PulseIo : PullPin[k] = p}
  IN  {<<"ios_init", n>> : n \in {k \in Its : state[k].special # "PLAIN"}}
      \union {<<"io_watch_init", n>> : n \in {k \in Its : state[k].special = "WATCH"}}

ModeAtBoot(s) == IF s.special = "PLAIN" THEN [input |-> s.input, pull |-> s.pull]
                 ELSE [input |-> TRUE, pull |-> PulsePupd(s.pull)]
PinAtBoot(state, p, was) ==
  LET pulls == PullSteps(state, p)
      steps == PinSteps(state, p) \union pulls
      mode == IF ~SomeStep(steps) THEN was
              ELSE IF LastStep(steps) \in pulls THEN [input |-> FALSE, pull |-> "NONE"]
              ELSE ModeAtBoot(state[LastStep(steps)[2]])
  IN  [input |-> mode.input, pull |-> mode.pull,
       level |-> IF ~SomeStep(pulls) THEN was.level ELSE PullAtBoot(state[LastStep(pulls)[2]])]

PoweredOn == [p \in Pin |-> [input |-> TRUE, pull |-> "NONE", level |-> FALSE]]
NoLines == [io \in W1PulseIo |-> "OFF"]

Boot(state, pins, lines, flags) ==
  /\ ios_state' = state
  /\ gpio' = [p \in Pin |-> PinAtBoot(state, p, pins[p])]
  /\ exti' = [io \in W1PulseIo |-> IF ExtiAtBoot(state[io]) # "OFF" THEN ExtiAtBoot(state[io])
                                   ELSE lines[io]]
  /\ raised' = flags /\ todo' = <<>> /\ instant_w' = {}
  /\ count_p' = [io \in W1PulseIo |-> 0] /\ send_count_p' = count_p' /\ taken' = count_p'
  /\ seen' = [io \in W1PulseIo |-> IF io \in flags THEN 1 ELSE 0]

WatchdogReset ==
  /\ Boot(IosInit(saved), PoweredOn, NoLines, {})
  /\ byhand' = {} /\ stray' = {} /\ UNCHANGED saved
\* reset, or wipe, which clears the saved state: platform_reset_sys
JumpToApplication ==
  /\ Idle /\ todo = <<>> /\ saved' \in {saved, IosState}
  /\ LET state == IosInit(saved')
     IN  /\ Boot(state, gpio, exti, raised)
         /\ stray' = {io \in W1PulseIo : exti[io] # "OFF" /\ ExtiAtBoot(state[io]) = "OFF"}
         /\ byhand' = {io \in Io : /\ state[io].special = "PLAIN"
                                   /\ io \in byhand \/ ios_state[io].special # "PLAIN"}
Restart ==
  /\ restarts_i < MaxIoRestarts /\ restarts_i' = restarts_i + 1
  /\ WatchdogReset \/ JumpToApplication
  /\ UNCHANGED <<commands_i, edges_i>>

IoInit ==
  /\ ios_state = IosState /\ saved = IosState /\ todo = <<>>
  /\ gpio = [p \in Pin |-> PinAtBoot(IosState, p, PoweredOn[p])]
  /\ exti = NoLines /\ raised = {} /\ instant_w = {} /\ byhand = {} /\ stray = {}
  /\ count_p = [io \in W1PulseIo |-> 0] /\ send_count_p = count_p
  /\ seen = count_p /\ taken = count_p
  /\ commands_i = 0 /\ edges_i = 0 /\ restarts_i = 0

IoNext ==
  \/ IoCommand \/ IoCall \/ Restart
  \/ \E io \in W1PulseIo :
       \/ \E e \in {"R", "F"} : Edge(io, e)
       \/ PulseIsr(io) \/ IoWatchIsr(io)
       \/ PulseGet(io) \/ PulseAcked(io) \/ InstantSent(io)

\* the watchdog restarts a device that spins
IoSpec == IoInit /\ [][IoNext]_ioVars
-----------------------------------------------------------------------------
(* Properties                                                              *)

(* What the variables hold. *)
IoTypeOK ==
  /\ {ios_state, saved} \subseteq
       [Io -> [special : Special \union {"PLAIN"}, input : BOOLEAN, pull : Pull, on : BOOLEAN]]
  /\ gpio \in [Pin -> [input : BOOLEAN, pull : Pull, level : BOOLEAN]]
  /\ exti \in [W1PulseIo -> {"OFF", "R", "F", "B"}]
  /\ raised \union instant_w \union stray \subseteq W1PulseIo /\ byhand \subseteq Io
  /\ {count_p, send_count_p, seen, taken} \subseteq [W1PulseIo -> 0..MaxEdges]
  /\ \A i \in DOMAIN todo : todo[i].io \in W1PulseIo

(* When a handler is through, the line the two modes share is as the mode   *)
(* of its IO wants it, whatever mode the IO came from: counting the right   *)
(* edges, watching, or off (the order in which io_enable_pulsecount,        *)
(* io_enable_watch, io_enable_w1 and io_configure call the two).  A line    *)
(* that a jump left enabled stays so until its IO enters or leaves a mode.  *)
LineServesMode ==
  todo = <<>> => \A io \in W1PulseIo \ stray : exti[io] = ExtiAtBoot(ios_state[io])

(* An interrupt that nobody acknowledges stops the device until the         *)
(* watchdog restarts it.  It can only be of an IO whose mode is being ended *)
(* just now, between the change of ios_state and the call that disables     *)
(* the line, or of one whose mode was not saved before reset or wipe: never *)
(* of an IO in a mode with a handler, of one that left it, or after the     *)
(* watchdog (W1_PULSE_1_ISR returns without exti_reset_request).            *)
SpinsOnlyOnLeaving ==
  \A io \in W1PulseIo :
    Spins(io) => /\ ios_state[io].special \in {"PLAIN", "W1"}
                 /\ io \in stray \/ (todo # <<>> /\ Head(todo).io = io)

(* The interrupt lines are as the modes want them, and acknowledged; and a  *)
(* line can only be left over where the saved state knows nothing of it.    *)
LinesAreServed == LineServesMode /\ SpinsOnlyOnLeaving

(* Every request a counter's line raised is counted once: it is on the      *)
(* count, taken off by an acknowledgement, or still in the register, also   *)
(* when the interrupts of two lines come together (pulsecount_isr).         *)
PulsesCountedOnce ==
  todo = <<>> => \A io \in W1PulseIo :
    IsPulsecount(io) => /\ seen[io] = count_p[io] + taken[io] + (IF io \in raised THEN 1 ELSE 0)
                        /\ send_count_p[io] <= count_p[io]

\* nothing else uses the IO's pin, or what enables its pull-up
PinIsOwn(io) ==
  \A k \in Io : /\ k # io => PinOf[k] # PinOf[io]
                /\ k \in W1PulseIo => PullPin[k] # PinOf[io]
PullIsOwn(io) ==
  \A k \in Io : /\ PinOf[k] # PullPin[io]
                /\ k \in W1PulseIo \ {io} => PullPin[k] # PullPin[io]
PulledUp(io) == ~gpio[PullPin[io]].input /\ gpio[PullPin[io]].level
PinsKept ==
  /\ ios_state' = ios_state
  /\ \A io \in Io \ byhand :
       PinIsOwn(io) /\ ios_state[io].special # "W1" =>
         /\ gpio'[PinOf[io]].input = gpio[PinOf[io]].input
         /\ gpio'[PinOf[io]].pull = gpio[PinOf[io]].pull
         /\ gpio'[PinOf[io]].level => gpio[PinOf[io]].level
  /\ \A io \in W1PulseIo \ byhand : PullIsOwn(io) => PulledUp(io)' = PulledUp(io)
  /\ \A io \in W1PulseIo \ stray : exti'[io] = exti[io]

(* A restart of either kind with everything saved leaves direction, pull    *)
(* and line of the IOs as the commands had set them up: ios_init and        *)
(* io_watch_init do what the handlers did.  It is not so for an IO whose    *)
(* mode was left or whose pull was set by hand, for one that shares its pin *)
(* or its pull-up with another IO, which the restart sets up in the order   *)
(* of their numbers, and when IO 0 is a plain output without pull: its      *)
(* state is then 0, and ios_init takes that for a configuration with no     *)
(* IOs.  An output may be off after it, for IO_OUT_ON is saved but nobody   *)
(* drives it again; none is on that was off.                                *)
RestartKeepsPins ==
  [][restarts_i' # restarts_i /\ todo = <<>> /\ saved' = ios_state /\ ~Cleared(saved')
       => PinsKept]_ioVars
===============================================================================
