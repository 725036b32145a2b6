------------------------------- MODULE Modbus -------------------------------
(***************************************************************************)
(* core/src/modbus.c: the modbus master of the sensor.  Registers to read  *)
(* wait in a queue; one request is on the bus at a time; the reply is      *)
(* collected by modbus_uart_ring_in_process, which the main loop calls on  *)
(* every pass, and belongs to the register at the head of the queue.  A    *)
(* command may write a register, and waits in a nested main loop for the   *)
(* acknowledgement.                                                        *)
(*                                                                         *)
(* Bytes are pieces of a reply: its header, its body with the CRC, and     *)
(* noise of a byte or two.  Time passes in ticks, long against a pass of   *)
(* the main loop; an age saturates at the largest one the code compares.   *)
(***************************************************************************)
EXTENDS Integers, Sequences

CONSTANTS
  Reg,             \* the registers configured, each with its address
  Unit,            \* Unit[r]: the unit_id of its device
  Value,           \* the values a command may write
  NoValue,         \* a register's value before its first reading
  CrcBytes,        \* the bytes of a CRC taken for a value
  Slots,           \* MODBUS_SLOTS
  RespTimeout,     \* MODBUS_RESP_TIMEOUT_MS, in ticks
  TxGap,           \* MODBUS_TX_GAP_MS, in ticks
  MaxRetransmits,  \* MODBUS_MAX_RETRANSMITS
  Binary,          \* modbus_bus->binary_protocol
  MaxAsks,         \* bound: reads and writes asked for in a behaviour
  MaxFaults        \* bound: noise, lost pieces, damaged bodies, late answers

ASSUME ModbusAssumption ==
  /\ Slots \in Nat \ {0} /\ RespTimeout \in Nat \ {0} /\ TxGap \in Nat
  /\ MaxRetransmits \in Nat \ {0}
  /\ Binary \in BOOLEAN
  /\ MaxAsks \in Nat /\ MaxFaults \in Nat
  /\ NoValue \notin Reg /\ CrcBytes \notin Reg /\ NoValue \notin Value

VARIABLES
  queue,         \* _message_queue: registers, head first
  want_rx,       \* modbus_want_rx
  send_age,      \* time since modbus_cur_send_time
  rx_age,        \* time since modbus_read_timing_init, or NoTimer when it is 0
  good_age,      \* time since modbus_read_last_good
  retransmits,   \* modbus_retransmit_count
  head,          \* modbuspacket's header while modbuspacket_len is not 0
  state, value,  \* per register: value_state, and whose reading value_data is
  expected,      \* _modbus_reg_set_expected: register and value ...
  not_done,      \* ... its not_done ...
  passfail,      \* ... and passfail
  cmd, cmd_age,  \* mb_reg_set: "none", "waiting", or what it printed; its wait
  rx,            \* the EXT_UART in-ring
  bus, tail,     \* requests no slave has answered; the pieces still to come
  written,       \* the slaves' registers, as far as commands wrote them
  slip,          \* not of the code: why replies fell behind requests, or "none"
  asks, faults   \* counters for the bounds

master == <<queue, want_rx, send_age, rx_age, good_age, retransmits, head,
            state, value, expected, not_done, passfail, cmd, cmd_age>>
wire == <<rx, bus, tail, written>>
vars == <<master, wire, slip, asks, faults>>

Request == [op : {"read"}, reg : Reg]
             \cup [op : {"write"}, reg : Reg, value : Value]
Answer == [kind : {"done", "exception"}, req : Request]
Nothing == [kind |-> "nothing"]
Garbled == [kind |-> "garbled"]   \* noise and a piece of a header read as one
NoTimer == -1

Junk == [part |-> "junk"]
Header(a) == [part |-> "header", ans |-> a]
Body(a, ok) == [part |-> "body", ans |-> a, ok |-> ok]
Piece == {Junk} \cup {Header(a) : a \in Answer}
           \cup {Body(a, ok) : a \in Answer, ok \in BOOLEAN}

IsBody(p) == p.part = "body"

Init ==
  /\ queue = <<>> /\ want_rx = FALSE
  /\ send_age = 0 /\ rx_age = NoTimer /\ good_age = 0 /\ retransmits = 0
  /\ head = Nothing
  /\ state = [r \in Reg |-> "INVALID"] /\ value = [r \in Reg |-> NoValue]
  /\ expected \in [reg : Reg, value : Value]
  /\ not_done = FALSE /\ passfail = FALSE
  /\ cmd = "none" /\ cmd_age = 0
  /\ rx = <<>> /\ bus = <<>> /\ tail = <<>>
  /\ written = [r \in Reg |-> NoValue]
  /\ slip = "none" /\ asks = 0 /\ faults = 0

HasPending == want_rx \/ queue # <<>>

TimedOut == (IF rx_age = NoTimer THEN send_age ELSE rx_age) >= RespTimeout

Due == queue # <<>> /\ good_age > TxGap

-----------------------------------------------------------------------------
(* Sending.                                                                *)

\* A request goes out; the two timers of a send.
Transmit(req) ==
  /\ want_rx' = TRUE
  /\ send_age' = 0
  /\ bus' = Append(bus, req)

\* _modbus_do_start_read.
DoStartRead(r) ==
  /\ Transmit([op |-> "read", reg |-> r])
  /\ state' = [state EXCEPT ![r] = "WAITING"]

\* Is there room, or is the queue full of what a dead bus left behind?
Full == Len(queue) = Slots
Stale == Full /\ (want_rx => send_age >= RespTimeout)

\* When _modbus_measurements_init is called: from the measurement loop at any
\* time (a get command looks at modbus_has_pending first), but not from the
\* nested main loop of a command.
ReadAllowed == asks < MaxAsks /\ cmd # "waiting"

\* The two reads that make replies fall behind requests: one in the gap between
\* two requests goes out ahead of the queue; a restart with a reply half in
\* leaves its timer running, which may send the new request twice.
ReadInGap == ~want_rx /\ queue # <<>> /\ ~Stale
RestartInFrame == Stale /\ rx_age # NoTimer
Slip == IF slip # "none" THEN slip
        ELSE IF ReadInGap THEN "gap"
        ELSE IF RestartInFrame THEN "restart" ELSE "none"

\* Mutated forms of StartRead: a full queue is not refused; the read goes out
\* at once though a reply is awaited.
StartReadNoFullCheck(r) ==
  /\ ReadAllowed
  /\ asks' = asks + 1
  /\ slip' = Slip
  /\ queue' = Append(queue, r)
  /\ IF want_rx
     THEN /\ state' = [state EXCEPT ![r] = "WAITING"]
          /\ UNCHANGED <<want_rx, send_age, bus>>
     ELSE DoStartRead(r)
  /\ UNCHANGED <<good_age, rx_age, retransmits, head, value, expected, not_done,
                 passfail, cmd, cmd_age, rx, tail, written, faults>>

StartReadAtOnce(r) ==
  /\ ReadAllowed
  /\ Full => Stale
  /\ asks' = asks + 1
  /\ slip' = Slip
  /\ queue' = IF Stale THEN <<r>> ELSE Append(queue, r)
  /\ good_age' = IF Stale THEN TxGap + 1 ELSE good_age
  /\ DoStartRead(r)
  /\ UNCHANGED <<rx_age, retransmits, head, value, expected, not_done, passfail,
                 cmd, cmd_age, rx, tail, written, faults>>

\* modbus_start_read.  A full queue refuses, unless the bus has been silent
\* for the timeout: then the queue is emptied and this read goes out at once.
StartRead(r) ==
  /\ ReadAllowed
  /\ Full => Stale
  /\ asks' = asks + 1
  /\ slip' = Slip
  /\ queue' = IF Stale THEN <<r>> ELSE Append(queue, r)
  /\ good_age' = IF Stale THEN TxGap + 1 ELSE good_age
  /\ IF want_rx /\ ~Stale
     THEN /\ state' = [state EXCEPT ![r] = "WAITING"]
          /\ UNCHANGED <<want_rx, send_age, bus>>
     ELSE DoStartRead(r)
  /\ UNCHANGED <<rx_age, retransmits, head, value, expected, not_done, passfail,
                 cmd, cmd_age, rx, tail, written, faults>>

\* Mutated form of SetReg: not_done is not set.
SetRegNotWaiting(r, v) ==
  /\ asks < MaxAsks
  /\ cmd # "waiting"
  /\ ~HasPending
  /\ Transmit([op |-> "write", reg |-> r, value |-> v])
  /\ expected' = [reg |-> r, value |-> v]
  /\ passfail' = TRUE
  /\ cmd' = "waiting" /\ cmd_age' = 0
  /\ asks' = asks + 1
  /\ UNCHANGED <<not_done, queue, rx_age, good_age, retransmits, head, state,
                 value, rx, tail, written, slip, faults>>

\* mb_reg_set: refused while anything is pending.
SetReg(r, v) ==
  /\ asks < MaxAsks
  /\ cmd # "waiting"
  /\ ~HasPending
  /\ Transmit([op |-> "write", reg |-> r, value |-> v])
  /\ expected' = [reg |-> r, value |-> v]
  /\ not_done' = TRUE       \* the union holds the unit_id ...
  /\ passfail' = TRUE       \* ... and the register's address
  /\ cmd' = "waiting" /\ cmd_age' = 0
  /\ asks' = asks + 1
  /\ UNCHANGED <<queue, rx_age, good_age, retransmits, head, state, value,
                 rx, tail, written, slip, faults>>

\* main_loop_iterate_for returns to _modbus_set_reg_cb.
SetReturns ==
  /\ cmd = "waiting"
  /\ \/ /\ ~HasPending /\ ~not_done
        /\ cmd' = IF passfail THEN "success" ELSE "failed"
     \/ /\ HasPending \/ not_done
        /\ cmd_age >= RespTimeout
        /\ cmd' = "timed out"
  /\ UNCHANGED <<queue, want_rx, send_age, rx_age, good_age, retransmits, head,
                 state, value, expected, not_done, passfail, cmd_age,
                 wire, slip, asks, faults>>

-----------------------------------------------------------------------------
(* modbus_uart_ring_in_process, one pass each.                             *)

cmdvars == <<cmd, cmd_age, written, tail, slip, asks, faults>>

\* Nothing is awaited: what came is dropped, the next request goes out after
\* the gap.
IdlePass ==
  /\ ~want_rx
  /\ rx # <<>> \/ Due
  /\ rx' = <<>>
  /\ IF Due THEN DoStartRead(queue[1])
            ELSE UNCHANGED <<want_rx, send_age, bus, state>>
  /\ UNCHANGED <<queue, rx_age, good_age, retransmits, head, value, expected,
                 not_done, passfail, cmdvars>>

\* Mutated form of TimeoutPass: retransmissions are not counted.
TimeoutPassNoCount ==
  /\ want_rx /\ TimedOut
  /\ head' = Nothing /\ rx_age' = NoTimer /\ rx' = <<>>
  /\ IF queue # <<>> THEN DoStartRead(queue[1])
     ELSE want_rx' = FALSE /\ UNCHANGED <<send_age, bus, state>>
  /\ UNCHANGED <<queue, retransmits, good_age, value, expected, not_done,
                 passfail, cmdvars>>

\* _modbus_has_timedout: send the head again, or after MaxRetransmits give it
\* up.
TimeoutPass ==
  /\ want_rx /\ TimedOut
  /\ head' = Nothing /\ rx_age' = NoTimer /\ rx' = <<>>
  /\ IF retransmits + 1 < MaxRetransmits
     THEN /\ retransmits' = retransmits + 1
          /\ UNCHANGED queue
          /\ IF queue # <<>> THEN DoStartRead(queue[1])
             ELSE want_rx' = FALSE /\ UNCHANGED <<send_age, bus, state>>
     ELSE /\ retransmits' = 0
          /\ queue' = IF queue = <<>> THEN <<>> ELSE Tail(queue)
          /\ want_rx' = FALSE
          /\ UNCHANGED <<send_age, bus, state>>
  /\ UNCHANGED <<good_age, value, expected, not_done, passfail, cmdvars>>

\* A byte or two, too few for a header, start the receive timer.
FewBytesPass ==
  /\ want_rx /\ ~TimedOut
  /\ head = Nothing /\ rx = <<Junk>> /\ rx_age = NoTimer
  /\ rx_age' = 0
  /\ UNCHANGED <<queue, want_rx, send_age, good_age, retransmits, head, state,
                 value, expected, not_done, passfail, rx, bus, cmdvars>>

\* A message with a bad CRC: nothing is awaited any more, the head of the
\* queue stays.
BadCrc == /\ head' = Nothing
          /\ want_rx' = FALSE
          /\ UNCHANGED <<queue, good_age, retransmits, state, value, not_done,
                         passfail>>

\* Its last byte is not the stop: only the bytes are gone.
NoStop(a) == /\ head' = a
             /\ UNCHANGED <<queue, want_rx, good_age, retransmits, state, value,
                            not_done, passfail>>

\* A write was acknowledged: is it the one the command waits for?
Acknowledged(req) ==
  /\ not_done' = FALSE
  /\ passfail' = (req = [op |-> "write", reg |-> expected.reg,
                         value |-> expected.value])
  /\ UNCHANGED <<queue, good_age, retransmits, state, value>>

\* The data of a message lands in register r: a reading of the register that
\* was asked, or the CRC behind an exception code that looks like a length.
Lands(r, a) ==
  IF a.kind = "done"
  THEN /\ state' = [state EXCEPT ![r] = "READY"]
       /\ value' = [value EXCEPT ![r] = a.req.reg]
  ELSE \/ /\ state' = [state EXCEPT ![r] = "READY"]
          /\ value' = [value EXCEPT ![r] = CrcBytes]
       \/ /\ state' = [state EXCEPT ![r] = "INVALID"]
          /\ UNCHANGED value

\* Every other message is for "the current register", the head of the queue.
ForCurrent(a) ==
  /\ UNCHANGED <<not_done, passfail>>
  /\ IF queue = <<>>
     THEN UNCHANGED <<queue, good_age, retransmits, state, value>>
     ELSE /\ queue' = Tail(queue)
          /\ good_age' = 0
          /\ retransmits' = 0
          /\ IF \/ a.kind = "exception" /\ a.req.op = "read"
                \/ Unit[queue[1]] # Unit[a.req.reg]
             THEN /\ state' = [state EXCEPT ![queue[1]] = "INVALID"]
                  /\ UNCHANGED value
             ELSE Lands(queue[1], a)

GoodCrc(a) ==
  /\ head' = Nothing
  /\ want_rx' = FALSE
  /\ IF a.kind = "done" /\ a.req.op = "write" THEN Acknowledged(a.req)
     ELSE ForCurrent(a)

\* As many bytes as the header a announced are in: those up to the first body.
\* left is what stays in the ring.
Message(a, bytes, left) ==
  /\ \E i \in 1..Len(bytes) :
       /\ IsBody(bytes[i])
       /\ \A j \in 1..(i - 1) : ~IsBody(bytes[j])
       /\ left = SubSeq(bytes, i + 1, Len(bytes))
  /\ IF bytes[1] = Body(a, TRUE) THEN GoodCrc(a)
     ELSE BadCrc \/ (Binary /\ NoStop(a))

HasBody(bytes) == \E i \in 1..Len(bytes) : IsBody(bytes[i])

\* Enough bytes for a header that begin with noise, or with a body whose header
\* was lost: they go, alone or with what follows, or look like a header.
NoisePass ==
  /\ want_rx /\ ~TimedOut
  /\ head = Nothing /\ rx # <<>> /\ rx # <<Junk>>
  /\ rx[1].part # "header"
  /\ \/ /\ \E n \in {1, 2} : n <= Len(rx) /\ rx' = SubSeq(rx, n + 1, Len(rx))
        /\ rx_age' = NoTimer
        /\ UNCHANGED head
     \/ /\ Len(rx) > 1 /\ rx[2].part = "header"
        /\ head' = Garbled /\ rx' = SubSeq(rx, 3, Len(rx)) /\ rx_age' = 0
  /\ UNCHANGED <<queue, want_rx, send_age, good_age, retransmits, state, value,
                 expected, not_done, passfail, bus, cmdvars>>

\* A header.  The message may be complete already; with binary framing this
\* pass counts a byte too many (len is reduced by 3 of the 4 bytes read) and
\* may read the message without its stop byte.
HeaderPass ==
  /\ want_rx /\ ~TimedOut
  /\ head = Nothing /\ rx # <<>>
  /\ rx[1].part = "header"
  /\ LET rest == Tail(rx)
         a == rx[1].ans
     IN \/ /\ ~HasBody(rest)
           /\ head' = a /\ rx' = rest /\ rx_age' = 0
           /\ UNCHANGED <<want_rx, queue, good_age, retransmits, state, value,
                          not_done, passfail>>
        \/ /\ HasBody(rest)
           /\ rx_age' = NoTimer
           /\ Message(a, rest, rx')
        \/ /\ Binary /\ HasBody(rest)
           /\ rx_age' = NoTimer /\ rx' = <<Junk>>
           /\ NoStop(a)
  /\ UNCHANGED <<send_age, bus, expected, cmdvars>>

\* The rest of a message, after its header; a garbled header may announce more
\* than will come.
BodyPass ==
  /\ want_rx /\ ~TimedOut
  /\ head # Nothing /\ HasBody(rx)
  /\ \/ /\ rx_age' = NoTimer
        /\ Message(head, rx, rx')
     \/ /\ head = Garbled /\ rx' = <<>>
        /\ UNCHANGED <<rx_age, head, want_rx, queue, good_age, retransmits, state,
                       value, not_done, passfail>>
  /\ UNCHANGED <<send_age, bus, expected, cmdvars>>

Process == \/ IdlePass \/ TimeoutPass \/ FewBytesPass
           \/ NoisePass \/ HeaderPass \/ BodyPass

-----------------------------------------------------------------------------
(* The slaves, the line and the clock.                                     *)

\* A slave takes the oldest request, does it or refuses it; its header is in.
SlaveAnswers ==
  /\ bus # <<>> /\ tail = <<>>
  /\ \E kind \in {"done", "exception"}, ok \in BOOLEAN :
       LET req == bus[1]
           a == [kind |-> kind, req |-> req]
       IN /\ bus' = Tail(bus)
          /\ rx' = Append(rx, Header(a))
          /\ tail' = <<Body(a, ok)>>
          /\ ok \/ faults < MaxFaults
          /\ faults' = IF ok THEN faults ELSE faults + 1
          /\ written' = IF kind = "done" /\ req.op = "write"
                        THEN [written EXCEPT ![req.reg] = req.value]
                        ELSE written
  /\ UNCHANGED <<master, slip, asks>>

BodyArrives ==
  /\ tail # <<>>
  /\ rx' = rx \o tail
  /\ tail' = <<>>
  /\ UNCHANGED <<master, bus, written, slip, asks, faults>>

\* Noise, or a piece lost.
LineFault ==
  /\ faults < MaxFaults
  /\ faults' = faults + 1
  /\ \/ rx' = Append(rx, Junk) /\ UNCHANGED tail
     \/ tail # <<>> /\ tail' = <<>> /\ UNCHANGED rx
     \/ /\ rx # <<>> /\ rx[Len(rx)].part = "header"
        /\ rx' = SubSeq(rx, 1, Len(rx) - 1) /\ UNCHANGED tail
  /\ UNCHANGED <<master, bus, written, slip, asks>>

Older(age, limit) == IF age < limit THEN age + 1 ELSE limit

\* The main loop has nothing left to do in the driver: a tick is long.
MainLoopIdle == ~ \/ ~want_rx /\ (rx # <<>> \/ Due)
                  \/ want_rx /\ TimedOut
                  \/ want_rx /\ head = Nothing /\ rx # <<>>
                       /\ (rx # <<Junk>> \/ rx_age = NoTimer)
                  \/ want_rx /\ head # Nothing /\ HasBody(rx)

\* Nothing is awaited or on its way, and no command is waiting: whatever slipped
\* is over.  (With MainLoopIdle the ring is empty too.)
AtRest == ~want_rx /\ cmd # "waiting" /\ bus = <<>> /\ tail = <<>>

\* Is a slave not done when the time of its request is over?
Late == send_age = RespTimeout - 1 /\ (bus # <<>> \/ tail # <<>>)

\* What a slave has not sent by the timeout comes late, or never: a reply does not
\* say what it replies to, and a late one is taken for the next.
Tick ==
  /\ MainLoopIdle
  /\ send_age' = Older(send_age, RespTimeout)
  /\ rx_age' = IF rx_age = NoTimer THEN NoTimer ELSE Older(rx_age, RespTimeout)
  /\ good_age' = Older(good_age, TxGap + 1)
  /\ cmd_age' = Older(cmd_age, RespTimeout)
  /\ \/ /\ Late /\ faults < MaxFaults
        /\ faults' = faults + 1
        /\ slip' = IF slip = "none" THEN "late" ELSE slip
        /\ UNCHANGED <<bus, tail>>
     \/ /\ Late
        /\ bus' = <<>> /\ tail' = <<>>
        /\ UNCHANGED <<slip, faults>>
     \/ /\ ~Late
        /\ slip' = IF AtRest THEN "none" ELSE slip
        /\ UNCHANGED <<bus, tail, faults>>
  /\ UNCHANGED <<queue, want_rx, retransmits, head, state, value, expected,
                 not_done, passfail, cmd, rx, written, asks>>

Next == \/ \E r \in Reg : StartRead(r)
        \/ \E r \in Reg, v \in Value : SetReg(r, v)
        \/ SetReturns
        \/ Process
        \/ SlaveAnswers \/ BodyArrives \/ LineFault \/ Tick

Spec == Init /\ [][Next]_vars

\* The main loop runs, time passes, and a slave is on the line; slaves and
\* callers need do nothing.
FairSpec == Spec /\ WF_vars(Process) /\ WF_vars(SetReturns) /\ WF_vars(Tick)

-----------------------------------------------------------------------------
(* Properties.                                                             *)

TypeOK ==
  /\ queue \in Seq(Reg) /\ Len(queue) <= Slots
  /\ want_rx \in BOOLEAN
  /\ send_age \in 0..RespTimeout
  /\ rx_age \in {NoTimer} \cup 0..RespTimeout
  /\ good_age \in 0..(TxGap + 1)
  /\ retransmits \in 0..(MaxRetransmits - 1)
  /\ head \in {Nothing, Garbled} \cup Answer
  /\ state \in [Reg -> {"INVALID", "WAITING", "READY"}]
  /\ value \in [Reg -> Reg \cup {NoValue, CrcBytes}]
  /\ expected \in [reg : Reg, value : Value]
  /\ not_done \in BOOLEAN /\ passfail \in BOOLEAN
  /\ cmd \in {"none", "waiting", "success", "failed", "timed out"}
  /\ cmd_age \in 0..RespTimeout
  /\ rx \in Seq(Piece) /\ tail \in Seq(Piece)
  /\ bus \in Seq(Request)
  /\ written \in [Reg -> Value \cup {NoValue}]
  /\ slip \in {"none", "gap", "restart", "late"} /\ asks \in Nat /\ faults \in Nat

\* Is what r holds its own reading, or what it held before?
OwnReading(r) ==
  state'[r] = "READY" => value'[r] = r \/ (state[r] = "READY" /\ value'[r] = value[r])

\* A reading that lands in a register is of that register, not of another one and
\* not the bytes of a CRC: "we think we have the whole message for current
\* register" (modbus.c:881).  Of what makes replies fall behind requests only a
\* read in the gap is allowed for.
RightRegister == [][(slip \in {"none", "gap"}) => \A r \in Reg : OwnReading(r)]_vars

\* While replies are in step with requests - no read in the gap, no restart with a
\* reply half in, no late reply since the bus was last at rest - the same, whatever
\* is lost, damaged or noise.
ReadingsAreOwn == [][slip = "none" => \A r \in Reg : OwnReading(r)]_vars

\* And "Successfully set" is printed only when the slave has taken the value: the
\* flags of _modbus_reg_set_expected do not mislead the command that waits.
SuccessMeansWritten ==
  [][slip = "none" /\ cmd = "waiting" /\ cmd' = "success"
       => written[expected.reg] = expected.value]_vars

\* Dead slaves, damaged replies and noise never block the driver: once nothing
\* more is asked for, every read is answered or given up and the bus is free.
BusComesToRest == <>[]~HasPending

\* The command returns.
SetTerminates == cmd = "waiting" ~> cmd # "waiting"

\* Neither the registers nor a command wait for ever.
NobodyWaits == BusComesToRest /\ SetTerminates
=============================================================================
