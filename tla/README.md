# OpenSmartMonitor firmware: specifications, model checking and proofs

This directory verifies the firmware of the OpenSmartMonitor (OSM), a battery or
mains powered sensor that reads Modbus meters, pulse counters, current clamps and
other sensors, and sends their measurements over LoRaWAN (STM32 boards) or MQTT
(ESP32 boards).  It holds TLA+ modules translated from the C code, TLC
configurations that check them on small instances, and proofs that TLAPS checks
for every value of the constants.

    tlc -workers 4 -config serial.cfg MCSerial       # model-check one run
    tlapm SerialProofs.tla                             # check the proofs

`PROJECT.json` lists the runs, for every definition the source lines it stands
for (`map`), a mutation of the code that each property catches (`mutants`), the
hazards of the code with the properties that watch them, the disagreements found
(`findings`) and the theorems.

## 1. The system

The firmware is one main loop (`core/src/main.c`, `osm_main`) and interrupt
handlers.  Each pass of the loop drains the receive rings
(`uart_rings_in_drain`), drains the transmit rings (`uart_rings_out_drain`),
and runs `measurements_loop_iteration`, and every second or so
`protocol_loop_iteration`.  There is no scheduler and there are no locks; what
is hard comes from four things:

* **Interrupts** add bytes to rings, count pulses, complete ADC conversions and
  wake the device while the loop is in the middle of a function.
* **The loop nests.**  A function that must wait calls `main_loop_iterate_for`
  (`core/src/common.c`), which drains the rings, and so runs handlers of
  replies, of modem lines and of commands from the network, before the function
  goes on with what it had read.
* **Others answer late, twice or never**: Modbus slaves, the modem, the network,
  every sensor.
* **Power may be lost** while flash pages are erased and written.

### Components

| component | state it keeps | operations | interacts with | what makes it correct |
|---|---|---|---|---|
| byte ring, `core/src/ring.c` | buffer, `r_pos`, `w_pos` | add, read, peek, discard, readline, consume, clear | interrupt (or thread) adds; main loop reads | a bounded FIFO: nothing lost, doubled or reordered |
| UART receive, `core/src/uart_rings.c` | in-rings, shared `line_buffer` | `uart_ring_in`, `uart_ring_in_drain` | hands lines to `cmds_process`, `protocol_process`, bytes to Modbus and HPM | whole lines, in order, each once, and each in the end |
| UART transmit, `core/src/uart_rings.c`, `log.c`, `ports/stm/src/uarts.c` | out-rings, DMA buffers, `uart_doing_dma`, the RS-485 driver | `uart_ring_out`, `uart_ring_out_drain`, DMA-complete interrupt | everything that prints; the modem; Modbus | bytes in order, with the driver on; a full ring costs a line its end only |
| payload encoding, `protocols/src/hexblob.c`, `lorawan_protocol/protocol.js` | position in a packet | add a measurement or take it back; decode | measurements; the network server | what is added decodes to the value |
| sleep, `ports/stm/src/sleep.c` | low-power timer, SLEEPONEXIT | sleep, wake-up interrupts | main loop, UARTs, watched inputs | wakes, and not late |
| Modbus, `core/src/modbus.c` | queue of registers, one transaction, retransmit count, receive timers | `modbus_start_read`, `modbus_uart_ring_in_process`, `_modbus_set_reg_cb` | slaves; measurements; commands | a register only ever holds its own readings; the bus never blocks |
| Modbus memory, `core/src/modbus_mem.c` | block allocator with free list, device list, register lists | add and delete devices and registers, save | the queue holds pointers into it; measurements by name | lists disjoint, no block lost, no dangling register, what is saved is there |
| measurements, `core/src/measurements.c` | per measurement: readings, counts, flags; interval count; fragment positions; pending flag | `measurements_loop_iteration`, `on_protocol_sent_ack`, commands | sensors; protocol; modem | every sample asked for is taken once, sent or kept; acknowledgements reach those that were sent |
| pulse counters, `sensors/src/pulsecount.c` | `count`, `send_count` | interrupt, `_get`, `_ack` | measurements | no pulse lost, none reported twice |
| LoRaWAN modem RAK3172, `comms/src/rak3172.c` | state, init and reset counts, error code, time of last send | one function per state, `_loop_iteration`, `_send`, commands | modem on a UART; measurements | connects in the end; one packet at a time, its end told truly |
| LoRaWAN modem RAK4270, `comms/src/rak4270.c` | the same, and the packet kept to be sent again | the same shape | the same | connects in the end; never repeats what was acknowledged |
| ADC arbiter, `core/src/adcs.c`, and its clients `cc.c`, `ftma.c`, `bat.c` | key, in-use flag, buffer; who is running | begin, collect, wait, release, completion interrupt | measurements, commands, sleep | one client at a time; the values are those of its conversion |
| inputs and outputs, `core/src/io.c`, `sensors/src/io_watch.c` | mode and pull of each IO, interrupt lines | commands, interrupts, restart | pulse counters, one-wire, measurements | the line serves the mode; a restart restores it |
| temperature and humidity, `sensors/src/htu21d.c` | requests, flags, validity | begin, iterate, get | two measurements on one chip | each sample a new reading |
| particle sensor, `sensors/src/hpm.c` | packet header across drains, reference count of the power | begin, iterate, get, drain | two measurements | powered while one needs it; no old value |
| light sensor, `sensors/src/veml7700.c` | gain, integration time, state | begin, iterate, get | measurements | the light that is there, or an error |
| microphone, `sensors/src/sai.c` | two buffers, rolling value, DMA | begin, iterate, get, interrupt | measurements | the level of its own buffers |
| one-wire probe, `sensors/src/ds18b20.c`, `ports/stm/src/w1.c` | the line | begin, get | interrupts | the temperature, or an error |
| firmware update, `ports/stm/src/update.c`, `ports/stm/bootloader` | download position, page buffer, ready flag in the configuration page | start, chunk, complete; boot | flash; commands | power lost at any point leaves a firmware that runs |
| persistent configuration, `core/src/persist_base.c`, `ports/stm/src/persist_config.c` | two pages of flash | commit, wipe | all | what a save says is saved is there |
| ESP32 port, `ports/esp32/src/protocol.c` | WiFi and MQTT flags, a slot for one command, the JSON buffer | tasks, callbacks, main loop | broker | each command once and whole; objects whole |
| CAN, `ports/stm/src/can_comm.c`, `sensors/src/can_impl.c` | a ring of packets | receive timer interrupt, drain | ring | packets whole |
| LoRaWAN keys, Linux port, host tools, tables of models, third-party HAL | | | stand-ins for hardware, or programs on a computer | no protocol of their own |

`PROJECT.json` lists all of them under `components`, with what is modelled and
what is not.

## 2. Modules

| module | kind | stands for |
|---|---|---|
| `ByteFifo` | abstract | a bounded FIFO of bytes: what `ring.c` promises |
| `Ring` | detailed | `ring.c`, one step per access to shared state |
| `UartLines` | composition over `Ring` | the receive path of the command and modem UARTs |
| `UartOut` | detailed | an out-ring with its DMA, the transmitter and the RS-485 driver |
| `Payload` | algorithm | the encoder of the device against the decoder of the server |
| `Sleep` | detailed | the timer and the interrupts that end a sleep |
| `Esp32`, `EspJson` | detailed | the ESP32's connection and commands; its JSON objects |
| `Modbus` | detailed | the Modbus master with its slaves and its line |
| `ModbusMem` | detailed | the Modbus configuration, its blocks, its measurements, its saving |
| `ModbusValue` | detailed | the value of one register, from a command to the slave's bytes and back to the measurement |
| `FwUpdate` | detailed | firmware download, configuration page, bootloader, power losses |
| `Link` | abstract | what the measurements may count on from a modem driver |
| `Rak3172` | detailed | the RAK3172 driver with the modem and the network |
| `Rak4270` | detailed | the RAK4270 driver with the modem and the network |
| `Uplink` | composition over `Link` | measurements, fragments, acknowledgements and pulse counters |
| `Htu21d` | operators | the temperature and humidity chip |
| `Sampler` | composition over `Htu21d` | the times at which measurements are begun and collected |
| `AdcShare` | detailed | the ADC with all its clients |
| `IoPins` | detailed | IOs, their modes and interrupt lines, restarts |
| `Hpm`, `Veml7700`, `Sai`, `OneWire` | detailed | the other sensors |
| `SerialProofs` | proofs | theorems about `Ring`, `UartLines`, `UartOut`, `Esp32`, `EspJson` and `Payload`, and the types of all parts of `MCSerial` |
| `ModbusProofs` | proofs | theorems about `Modbus` and `ModbusValue` |
| `FlashProofs` | proofs | theorems about what flash keeps: `FwUpdate` and `ModbusMem` |
| `RakProofs` | proofs | theorems about both modems, `Rak3172` and `Rak4270` |
| `UplinkTypeProofs` | proofs | the types of `Uplink` |
| `UplinkProofs` | proofs | theorems about `Uplink`, and its two instances in `MCUplink` |
| `BoardProofs` | proofs | theorems about `AdcShare`, `Sampler`, `Hpm`, `Veml7700`, `Sai` and `OneWire`, and the types of all parts of `MCBoard` |
| `IoProofs` | proofs | theorems about `IoPins` |
| `MCSerial`, `MCDevice`, `MCModbus`, `MCFwUpdate`, `MCUplink`, `MCModems`, `MCBoard` | instances | constants for TLC, and runs of several modules |

`Ring` implements `ByteFifo` (`Ring!Refines`); `UartLines` extends `Ring`, so its
lines go through the real ring.  `Rak3172` implements `Link`
(`Rak3172!IsLink`), and `Uplink` is built on `Link`: what `Uplink` shows of the
measurements holds with the real driver beneath, without a product of the two
state spaces.

An `MC` module of several components has a variable `part` that is chosen at the
start: TLC looks at each component with the others at rest, so that a run is the
sum of their state spaces and not the product.  Components are put in one run
only where they share no state.

Some modules hold *mutated forms* of an operator, named for the bug they
contain and placed before the operator itself.  They are no part of the
specification: they are what the properties are tried against.

### Ring and UartLines

`buf`, `r_pos`, `w_pos` are the fields of `ring_buf_t`; the rest are the locals of
the two functions that may be active at once, one of the producer (`adding`,
`w_next`) and one of the consumer (`op`, `len`, `toread`, `pos`, `held`, `out`).
`ring_buf_add` is two steps (`AddStore`: check and store of the byte;
`AddPublish`: store of `w_pos`), since the consumer may look in between when the
producer is a thread.  With an interrupt handler as producer
(`Threaded = FALSE`) the consumer waits for `AddPublish`, which says that a
handler runs to its end.  Every reading function takes a step per look at
`w_pos` or store of `r_pos`, so a byte can arrive at each point at which it can
on the hardware.  `held` is the byte that `ring_buf_read` and `ring_buf_peek` copy
*before* they compare the positions.  `ring_buf_clear` is two steps.
`ring_buf_readline` computes the pending count once, and its scan touches only
bytes the producer cannot reach, so it is one step after the call.

`Overread` says whether a consumer may ask for more than `ring_buf_get_pending`
returned.  All do not but `can_drain_array`.

In `UartLines`, `Receive`/`Received` are `uart_ring_in` in the receive interrupt,
`Drain`/`Handle` one pass of `uart_ring_in_drain`: at most one line per pass,
`line_buffer` of `LineLen` bytes, empty lines not handed on.  `stream` and `lines`
are histories.

### UartOut

`line` says which UART it is, the debug one or the RS-485 one.  A line is given byte
by byte (`Give`, `NextByte`, `StoreByte`, `PublishByte`: on the debug UART
`log_error` of an interrupt may come between any two, `IsrLog`, which rewrites the
text and adds to the same ring).  `Room` is the rate limit: the room in the ring,
asked for at each byte.  `OutDrain` hands bytes to the DMA (`Consume`), whose steps
fill the data register and the shift register; `DmaIsr` ends it.  `RawReady` and
`RawWrite` are `platform_raw_msg`, which writes the data register past the ring.
`DriverOn`, `StopBegins`, `DriverOff` are `modbus_uart_ring_do_out_drain` with its two
delays.  What the code does to a line in three cases is named rather than
excluded (`spoilt`): *shared*, an interrupt that logs while the main loop adds;
*raw*, the message that the debug ring is full; *stopping*, a frame given within the
stop delay of the one before (`modbus.c:1066`).

### Payload

Values are small because bytes are: a byte has `2 * HalfByte` values, and with
`HalfByte` of 2 the boundaries of types of 1, 2, 4 and 8 bytes are 4, 16, 256 and 65536.  The encoder is the chain
`AppendMeasurement` (an entry taken back when it does not fit), `Entry`, `Data`,
`CompressedType`, `Bytes`; the decoder is `protocol.js` function by function: `EntryPos` is its
loop, a recursive function along the packet, `Read` and `After` one turn of it.
An error code has a buffer of its own, as `protocol_send_error_code` saves and
restores the context.  `PayloadDecodes` says for which values the decoder returns what
was put in: not the least value of one byte, nor what takes more than 31 bits (the
shifts of JavaScript), nor an averaged string.

### Sleep

`Count` is the compare value as `sleep_for_ms` computes it: `Prescale` is the
prescaler it ends with, the least of `Prescaler` that `Fitting` allows, and `Sleeps(ms)` what the timer then lasts.  `step` follows the
function from `Ask` through the flushing of the rings to `Wfi`; the timer may match and
a line may come at each step.  A wake-up between the start of the timer and the
setting of SLEEPONEXIT finds nothing to clear (`forgotten`), and then a line, a
watched input or the watchdog ends the sleep.

### Esp32 and EspJson

The main loop starts WiFi and MQTT; `GotIp`, `WifiLost`, `MqttConnected`,
`MqttDisconnected` and `MqttData` are the handlers of the other tasks.  A command is
two cells of `_cmd` and a flag, copied and read cell by cell.  Settings
(`SetString`, `SetAuthmode`, `SetAutostart`) go through `Prepared`, which wipes a
LoRaWAN configuration also when the setting is then refused.
`EspJson` is the buffer in which an object is built token by token; `JsonSingle`
leaves its comma behind when the item does not fit.

### Modbus and ModbusMem

The variables of `Modbus` are the file-scope variables of `modbus.c` of the same
role (each declaration says which).  A reply is abstracted to three pieces: a header
(the first three bytes, from which the length follows), a body with its CRC, and
noise; a body may be damaged, a piece lost, a header garbled by noise before it.
A request goes out in one step: `Transmit`.  Each branch of
`modbus_uart_ring_in_process` is an action: nothing awaited (`IdlePass`), timeout
with retransmission or giving up (`TimeoutPass`), too few bytes (`FewBytesPass`),
bytes that are no header (`NoisePass`), a header, maybe with its body
(`HeaderPass`), a body (`BodyPass`).  `GoodCrc`, `Acknowledged`, `ForCurrent` and `Lands`
are what the code does with a message, including what it does wrongly with one
that is not for the register at the head of the queue.  `SetReg`/`SetReturns` are the
command `mb_reg_set` before and after its nested main loop, during which the
receive passes go on.  The union of `_modbus_set_reg_cb`'s expectations with
a register's fields is why `not_done` and `passfail` start as true.
Time passes in ticks that are long against a pass of the main loop (`Tick` waits
for `MainLoopIdle`); ages saturate at the largest value that is compared.

A Modbus reply does not say what it replies to, so the driver can only count on replies
being in step with requests.  Three things put them out of step, and all are in the model: a
read in the gap between two requests (`ReadInGap`), a full queue restarted with a reply
half in (`RestartInFrame`), and a reply that comes after its time (`Tick`, when a slave
is `Late`).  The history variable `slip` says which came first.  It is taken back when
time passes with the bus at rest (`AtRest`: nothing awaited, nothing on its way, no command
waiting), since the next exchange is then alone again.  `ReadingsAreOwn` and `SuccessMeansWritten`
speak of the steps with no slip; what a read in the gap does is refuted in `modbus_gap`.

`ModbusMem` has the blocks of `modbus_bus_t` with their links (free, devices,
registers), the copy in flash, the measurements that go by a register's name, and the
queue of pointers into the blocks.  Adding and deleting devices and registers, reading, saving, a
restart, and the replies of the queue are actions.  `ToldItsRegister` says that a measurement is told what its
own register was asked, up to the point where a block that is freed is still in the
queue: from there the register that takes the block is told what it was not asked.

`ModbusValue` is about the bytes that `Modbus` abstracts from: a register has a type
(16 or 32 bits, signed or not, or a float), its device an order of the bytes in a word
and of the words.  `AppendValue` is what a command sends, `RegValue` what a reply leaves
in `value_data`, `RegGet` what the measurement makes of it.  `InOrder` is the reference
both are compared with, the bytes by the powers of a byte, and is written from no code.
A byte has `2 * HalfByte` values, so `Int16`, `Int32` and the remainders wrap where those of
the code do.

### Link, Rak3172, Rak4270 and Uplink

`Link` has four states: down, idle, waiting for the modem's OK, waiting for the
network's acknowledgement.

`Rak3172` has an action for each `_rak3172_process_state_*` function, for the
timeouts and the end of a reset in `rak3172_loop_iteration`, for the two halves of
`rak3172_send` around its nested main loop, and for the commands.  The modem
answers each command from what the driver expects of it; joins and packets may
be refused or unanswered.  A timeout comes only when the modem has said all it
will say (`said = <<>>`).  The state `SEND_WAIT_REPLAY` is absent: it is entered only by
`rak3172_send_str`, which nothing calls.

`Rak4270` is the same for the older modem, which keeps its packet: `resend_count`
counts what an error of the radio repeats.  `SendsTheLatest` relates the packet kept,
the one on the air and those acknowledged.  Its states around `WAIT_UCONF_OK` are
absent: nothing enters them.

`Uplink` has an action for each part of a pass of `measurements_loop_iteration`
(`PassDisconnected`, `PassReconnected`, `Pass`, `InstantSend`, `Sample`, `Send`), for
`on_protocol_sent_ack` in both forms (`Ack`, `AckTimeout`), for the pulse interrupt, the
watch interrupt and the reading of a counter by command.  `FillPacket` is
`_measurements_send` with an idle modem: it goes from `start` through the slots
whose interval divides the interval count, takes each reading out of its slot,
stops at the first that does not fit (`Fits` to a packet) and leaves `start` there.
A transmit interval is four ticks, and a sample is due in its middle.

### Sampler and Htu21d

`SampleSlot` is one round of the loop in `_measurements_sample`, with the times at
which a measurement is begun and collected and the wait that is left; `IterateSlot` is
`_measurements_iterate_callbacks`, `SendAtInterval` the clearing of the counts when an
interval is over, `SamplerTick` the clock and the sleep.  `GetReading` and
`ReadingStep` are a command that reads a measurement, around its nested main loop.
The chip is `Htu21d`: operators from a state and a call to a state and an answer.
What a report says is a history: how many samples, how many of them were repeats.

### AdcShare, IoPins and the sensors

`AdcShare`: a reading is known by its channel, the buffer (`samples`) by the channels
that were converted into it, so `RightChannel` tells a value from another client's.
`given_up` marks what the code leaves behind: a command that timed out, a sleep, a
clamp that was turned off while it was read.

`IoPins`: a command that changes a mode is a list of calls still to make (`todo`),
between any two of which the interrupt may come.  `gpio` has the direction, pull and output level
of each *pin*; `PinOf` and `PullPin` say which pin is an IO's and which enables its pull-up,
and pins may be shared as they are on env01c, where IO 2 and IO 5 are both PB5 and IO 3 is
the pull-up enable of the second counter (`env01c_pinmap.h:67`, `:85`).  A restart is of two
kinds.  `WatchdogReset` resets the hardware first; `JumpToApplication` is what `reset` and
`wipe` do (`stm.c:208`): pins, interrupt lines and the pending register stay.  `Boot` is then
`ios_init`, IO after IO, and `io_watch_init`, IO after IO, and the last to write to a
pin wins (`LastStep`); neither drives an output.  `stray` are the IOs whose line a jump left
enabled with no mode for it, `byhand` those whose mode was left, or whose pull-up was switched,
by a command that nothing saves.

`Hpm`: `pm_entry` says which packet the stored value is of.  Each packet of the right form stores its
value (`hpm.c:146`) before the packets are counted, so a get with `hpm_valid` still up
from the session before can be told a value ahead of the fourth packet; `ValueHasSettled` says it
is then the third's, never the first's or the second's.  The short packet, which sets
`hpm_valid` at once, is among the packets a noisy line may bring.

`Veml7700`, `Sai` and `OneWire` take their driver's callbacks as actions, with
the device at the other end: light that changes
while settings are tried; buffers that arrive while a sample is cut short; a line that
interrupts disturb.

### FwUpdate

The flash is two areas of addresses (`fw`, `new`), each address holding a unit of an
image or blank, and the configuration page (`cfg`: the flag and whether its version
is known).  `mode` says which step of which program runs: the application (`idle`,
`add` a byte, `flush` a full page, write the `last` one, `check` the CRC, `commit` the
configuration) or the bootloader (`boot`, `copy`, `clear` the flag, `run`, `stop` in
`error_state`).  Downlinks come in any order, of any image, so lost, doubled and mixed
ones are among them.  `Reboot` may come in any mode and cuts off the write
underway: the page is as it was, or erased and programmed up to somewhere.  An erase
that is cut off is assumed to leave the page either as it was or erased.  A page
write may also fail without a reboot, which the code notices by comparing.

`WordBits` stands for 32, scaled down so that "all ones" is still larger than any
size; `PendingBits` is the width of the field `pending_fw`, which is **one bit** in
`persist_config_header.h`, and so it is 1 in every instance.  The rest of the code
(`bootloader.c:107` and `:112`, `persist_set_fw_ready`) is written for 32.

With a flag of one bit the code does not promise that every boot starts a whole image: the
bootloader copies one page of a longer update, and one page of new over the rest of old is
what it starts.  What the code does keep to, with a flag of any width, is
`BootsAsFlagged` and `ReadyIsCopied`: the pages a saved flag stands for are copied, all of
them and no others, wherever power is lost, and they are those of an image that is whole
in the spare area.  `to_run` is that firmware: what was there, under the pages of the flag.
`cfg.known` is false of a configuration page that was erased and not written again.  Its flag reads as
one, and the firmware the next boot starts has the first page of whatever the spare area
holds, half a download included; `to_run` follows the code in that too.

## 3. Runs

| run | module | shows | bounds |
|---|---|---|---|
| `serial` | `MCSerial` | the ring refines `ByteFifo` and each call finds what it relies on; lines are those of the bytes accepted, and each is handled; what a UART accepts goes out whole; the server reads what the device put in a payload; the ESP32's objects and commands are whole; nothing hangs | ring of 4 with requests up to 3, so that it wraps and fills; both terminators, streams of 5; lines of up to 3 bytes in an out-ring of 4, a DMA of 2; bytes of two bits in a payload of 16; 3 messages, 2 losses, 3 settings; objects of 4 items in 16 bytes |
| `device` | `MCDevice` | while replies are in step with requests, a register that says READY holds its own reading, and a write said to have succeeded was made; a value comes through every type and order; the configuration's blocks are each in one list and a measurement is told of its register; every boot starts what the saved flag stands for, and of an update that was ready its pages | 2 registers on a device, queue of 2 (so it fills), 3 requests, 2 faults, late answers among them, reads in the gap and restarts at any time, symmetry of the two registers, timeout of 2 ticks, 2 attempts; every type of register in both orders, bytes of 4 values, 19 numbers: the ends of each type's range and what is next to them (`MCNumber`); 4 blocks, 2 names each, 4 commands, 2 reads; images of two pages, of an odd size (3) and of an even one (4), one that is too big (5), a factory image of one page, a flag of one bit, with no bound on downlinks, reboots and failed writes |
| `modbus_rest` | `MCModbus` | every read is answered or given up and every write command returns, with late or dead slaves, noise, and binary framing | 2 registers on two devices, queue of 1, 2 requests, 3 faults |
| `uplink` | `MCUplink` | no pulse lost or told twice, no fragment forgotten, every pulse told in the end; with slow answers every sample leaves the sensor | 3 slots, 1 to a packet: three fragments; 2 pulses per counter, 2 losses, 2 instant sends or error codes; slow: 2 slots with intervals 1 and 2, a read by command |
| `rak_link` | `MCModems` | the RAK3172's driver is what `Link` promises, and tells the truth; the RAK4270's never repeats what was acknowledged; both connect in the end | 5 init messages (three without a replay, two with), 2 short resets, 2 failures, 3 commands; 2 packets, 2 resends, 4 lost lines |
| `board` | `MCBoard` | the clients of the ADC keep apart and collect what they begin; lines serve the modes of their IOs, pulses are counted once, a restart restores the pins that are not shared; samples are new and faults stay in their interval; each sensor tells what was measured, or an error, and ends | 2 clamps, 2 inputs, 2 commands; 5 IOs of which two share a pin and one is the pull-up enable of another, as on env01c, 2 commands, 2 edges, a restart of either kind; intervals of 20 ticks, 1 or 2 samples, a disturbance; 3 begins of the particle sensor, a packet lost or spoilt, then a dead sensor, a timeout of 9 s as in the code; three kinds of light, three paces, 2 faults; up to 3 buffers, 2 cuts; one line fault |
| `modbus_gap` | `MCModbus` | *violated*: `RightRegister` when a read starts in the gap between two | 2 registers, otherwise as `device` |
| `config_save` | `ModbusMem` | *violated*: `SavedIsInFlash` when blocks are reused | 6 commands |
| `uplink_second` | `MCUplink` | *violated*: a counter is told of an acknowledgement of a packet it is not in | 2 slots with intervals 2 and 1 |
| `rak_alive` | `Rak3172` | *violated*: an acknowledgement passed on is that of another packet | 1 command |
| `fw_flag` | `MCFwUpdate` | *violated*: `ReadyIsInstalled`, with the one bit the field has: of an update of odd size one page is copied (the trace), one of even size is never installed | as in `device` |
| `sampler_busy` | `Sampler` | *violated*: a measurement that found its sensor busy is retried | 1 disturbance |

What the properties say, and the code they watch, is in the comment before each.
Those that relate most: `Refines` (all of the ring against a queue),
`LinesAreThoseSent` (the stream against the lines), `OutIsWhole` (what was accepted
against what is on the wire and on its way), `PayloadDecodes` (encoder against
decoder), `ReadingsAreOwn` (queue, transaction and registers against the replies),
`SuccessMeansWritten` (the command against the slave), `ToldItsRegister` (measurements
against blocks, over deletions), `PromptNoFragmentForgotten` (interrupt, readings,
fragments, acknowledgements), `IsLink` (driver against what its user assumes),
`SendsTheLatest` (packet kept against acknowledged), `ClientsKeepApart`,
`RestartKeepsPins`, `SamplesAreNew` (driver's flags against the times of sampling),
`BootsAsFlagged` and `ReadyIsCopied` (flag, spare area and firmware over any number
of power losses).

`CHECK_DEADLOCK FALSE` stands where the system may stop: a bounded stream that was
read, requests or commands used up with all ages saturated, a modem that is idle with
nobody sending.  `uplink` is checked for deadlock.

### Bounds

Bounds are constants named `Max...`; they count what the environment does (bytes,
requests, faults, losses, pulses, commands), never what the code does.  Each
instance reaches the case it is for: ring full and wrapped, queue full, all
attempts used, packet too small twice in a row, second reset of the modem, a block
freed while queued, a sample cut short.  That every action of every module fires in
some passing run is part of what was looked at.

### Fairness

Where several parts are in one run, the fairness of a part is stated for it alone.

* `UartLines`: the interrupt handler ends, and the main loop drains on every
  pass.  `UartOut`: the main loop passes and the hardware sends (`MainPass`,
  `Hardware`).  `Sleep`: the function goes on and the timer and the watchdog count
  (`Goes`).  `Esp32`: the main loop goes on, and WiFi and the broker come back when
  lost, which is bounded.
* `Modbus!FairSpec`: the main loop calls the receive function and returns from
  its nested form, and time passes; slaves and callers owe nothing.
* `MCUplink!MCSpec`: the main loop and the clock run; the modem joins, says OK and
  passes on acknowledgements when it can.  Losses are bounded, which is "once the
  network stops losing packets".  With slow answers fairness is strong for OK and
  acknowledgement: a packet may be overtaken by the next interval many times, not
  every time.  Without it the code's own timeout (a second interval with the send
  still pending resets the modem) could repeat for ever.
* `MCModems!MCSpec`: lines are processed, resets and nested waits end, timeouts fire.
* `MCBoard!MCFair`: interrupts of the DMA come, and the main loop iterates and
  collects what was begun.  A measurement is never obliged to begin.

### Assumptions that carry weight

* `device`: `ReadingsAreOwn` and `SuccessMeansWritten` speak of the steps in which replies
  are in step with requests (`slip = "none"`, section 2).  Slips are not kept out of the model:
  after each the run goes on, and the properties hold again from when the bus came to rest.
  Replies need not be prompt, nor callers considerate.
* `uplink`, first instance: a packet is over before half an interval has passed
  (`PromptAck`): 20 s (`RAK3172_ACK_TIMEOUT_MS`) against 7.5 minutes by default.  All
  counters have interval 1, and no command reads a counter while its packet is on its
  way (`MaxReads = 0`).  `uplink_second` shows what the first of these two protects
  from; a read by command breaks `AckMeansSent` in the same way (`pulsecount.c:264`).
* `Uplink` takes the nested main loop of a send as one step, which `Rak3172` justifies:
  seen from the measurements it is the state `wait_ok`.
* `JoinNetwork` waits until the main loop has noticed that the connection was lost:
  joining takes more than a dozen lines, each processed in a pass of its own.
* `Rak3172`: the boot message after a power-on is not lost.  In OFF there is no
  timeout, so a lost one would leave the modem off until a command.
* `board`: a sample has three ticks between its begin and its collection, and all samples
  end before their interval does (`Timely`, named in `BoardProofs` since the theorem needs
  it; section 5 says what TLC finds without it).  `FaultStaysInInterval` takes a little more,
  `Roomy`: two ticks before the first sample, and one tick more behind the end of an
  interval.  The run's interval of 20 ticks has both.
* `Hpm`: its timeout is longer than the first collection time, as in the code (9 s against
  6 s, and a tenth more).  `ValueIsFresh` and `ValueHasSettled` are of a sensor that sends its packets.
* `OutIsWhole`, `PayloadDecodes`, `JsonIsWhole`, `ReadingsAreOwn`, `ToldItsRegister`, `RightChannel`,
  `LinesAreServed`, `SamplesAreNew` and `SleepEnds` name the cases in which the code does otherwise
  (`spoilt`, `Survives`, `left`, `slip`, `mem_stale`, `given_up`, `stray`, `hindered`, `forgotten`):
  those cases are in the models, and the next section lists them.  In those cases the properties
  promise nothing: `hazards` in `PROJECT.json` says so at each line.

## 4. Disagreements found

`findings` in `PROJECT.json` quotes the lines.  In short:

1. `modbus.c:606`: a read that starts while nothing is awaited but the queue is not
   empty goes out at once, and its reply lands in the register at the head.
2. `measurements.c:300`: an acknowledgement reaches every slot between two
   positions, not only those in the packet.
3. `rak3172.c:803`: the packet of the command `connect` is not remembered, and its
   acknowledgement is taken for that of the next packet.
4. `persist_config_header.h:18`: the size of a firmware update is stored in a field of
   one bit.  An even size becomes 0 and nothing is installed; an odd one becomes 1
   and one page is copied over the old firmware, and that half image is booted.  An erased
   configuration page reads as 1 too: when power is lost between the erase and the write
   of a save, the next boot copies the first page of whatever the spare area holds,
   half a download included, over the firmware.
5. `modbus_mem.c:593`: the comparison before a save follows the links of the running
   configuration on both sides, so a device deleted and another added in its blocks
   are not saved, and the save says it was done.
6. `measurements.c:353`: a sensor that fails in the last sample of an interval leaves
   its flag up, and the measurement is then busy, never retried.

What the models have besides, and the properties name rather than forbid, since
nothing in the repository says otherwise:

* Ring: with `Overread = TRUE` TLC refutes `Refines` (`ring.c:68` copies a byte before
  it compares the positions, so a reader that asks for more than is pending, as
  `can_drain_array` does, may get a stale byte and skip the new one), and with
  `Threaded = TRUE` as well (a clear in the middle of `ring_buf_add` brings discarded
  bytes back).
* UARTs: an interrupt that logs while the main loop does rewrites `log_buffer`, and
  what it added is cut off when the main loop stores its `w_pos`; the message that
  the debug ring is full is written past the DMA's back and takes the place of a byte;
  the stop delay of the RS-485 driver is not begun again by the next frame
  (`modbus.c:1066`).
* Sleep: the timer's count is `ms*1000/32` where 32 to a millisecond would be meant,
  which wakes the device 2.3 % early, never late; a line that arrives before SLEEPONEXIT is set does
  not wake it.
* Payload: of an instant measurement one byte is sent (`sizeof` of an enum,
  `hexblob.c:284`); the decoder reads the least value of a byte as positive, and what
  takes 8 bytes, or 4 from 2^31, wrongly; an averaged string is sent as one value and
  read as three.
* ESP32: the comma of an item that did not fit stays, which leaves an object that is
  not JSON; nothing calls `on_protocol_sent_ack`, so pulses are never taken off; a
  refused setting wipes a LoRaWAN configuration; a session that survives a loss of WiFi
  leaves `_has_mqtt` false.
* Modbus: a read that finds the queue full and the bus silent empties the queue and is
  sent at once (`modbus.c:587`), but leaves `modbus_read_timing_init` as it is.  If that
  timer of the message given up runs out first, the request is sent a second time
  before its reply is due; the first reply completes it, and the second one, with
  a good CRC, is taken for the next register that is asked.
* Modbus values: the answer to the write of one register is decoded with the high byte
  first, whatever the device's order (`modbus.c:837`), so such a write to a device with
  the low byte first is made, and reported as failed.
* Modbus configuration: a block freed while it is queued is written to by the reply;
  a register is deleted through the first device with its `unit_id`.
* ADC: commands that time out keep the key, a clamp disabled while it is read is never
  released, a sleep in the middle of a conversion leaves it in use, and the battery
  check ends a reading of the battery that is underway.
* IO: an interrupt of a mode that is being left spins until the watchdog; so does one of a
  mode that was not saved before `reset`, or was lost to `wipe`: the jump to the application
  leaves its line enabled, and its IO is plain.  A saved IO 0
  that is a plain output without pull resets all IOs at boot.  `IO_OUT_ON` is saved, but an
  output that was on is not driven again after a power loss.  IOs that share a pin, or a
  pull-up, are set up at boot in the order of their numbers, whatever the order of the commands
  was.
* Particles: a value is stored before the packet is counted (`hpm.c:146`), so a get ahead of the
  fourth packet, with `hpm_valid` up from the session before, is told the third's value; and
  of a sensor that stopped its last value is told again.
* Light: a reading whose last transfer failed counts as dark, and one that was done but
  not collected refuses all later ones until a restart.
* Microphone: a number of buffers raised after the last one came leaves the sample
  without end, and a sample cut short leaves a flag that the next one takes for its own.

## 5. Proofs

Every safety property of a passing run, invariant or action property, is the
statement of a theorem; what is left to TLC alone is liveness, at the end of this section.

`SerialProofs` proves two theorems about `Ring` for every `Size >= 2`, every set of bytes and every
`MaxLen`, for clients that are `GoodClients` (the producer an interrupt handler,
requests of at most what is pending):

* `RingInv`: `Spec => [](TypeOK /\ CallInv)`.
* `RingRefines`: `Spec => Refines`, that is `Ring` implements `ByteFifo`.

`TypeOK` alone is not inductive: `r_pos` after a `consume` is in range only if the
position really is `Len(out)` bytes ahead of `r_pos`.  `CallInv` says, for each
call that can be in progress, how its locals relate to the ring, and is what an
interrupt may not disturb.  The conjunction of the two is inductive: `TypeNext` and
`CallInvNext` have a step per action.  The argument rests on lemmas about
positions (`ModDef`, `IncDef`: the remainder as a conditional), about the unread
bytes (`AtProperties`: an unread byte is never where the producer stores;
`StoreKeeps`, `PublishAdds`: what the two halves of an addition do to them;
`Advance`: what moving `r_pos` by `k` does) and, for the refinement,
`StepRefines`: each action maps to a step of `ByteFifo` or a stutter.

What the ring's proof does *not* cover are the two limits named in section 4.

On top of it, `UartLinesAreThoseSent`: `LSpec => []LinesAreThoseSent`, for every ring, line
buffer and stream: whenever the interrupt comes, the lines handed on are those of the
bytes that were accepted.  `Reading` is a recursive function along a sequence;
`ReadingIs` shows that it has the values its definition gives, by well-founded
induction over its length, and `LineInv` says where in the reading of the stream the
unread bytes of the ring and those in the line buffer stand.

It has four theorems about the rest of the serial side.

* `UartOutIsWhole`: `USpec => []OutIsWhole`, for every size of ring, DMA and line.  The bytes
  given to a UART are those on its line, then those in its transmitter, its data
  register, its DMA buffer and its ring, in this order (`Whole`), which each step
  only moves along; `NoHoles` says that a line that was not cut has all its bytes.
* `EspBothWhole`: `ESpec /\ JSpec => []EspIsWhole`, for every buffer size and message: a
  command is read as it was copied (`SlotInv`: the flag says whose the slot is;
  `RunInv`: what was read are cells of one message), and an object is what was told
  with the commas between (`JsonInv`, with the comma left by an item that did not fit).
* `PayloadIsRead`: `PSpec => [](PayloadTypeOK /\ PayloadDecodes)`, for bytes of any even number
  of values, packets and tables of any size, and all values within what the decoder
  can read: what the server reads is what the device put in, entry by entry.  The
  invariant, `PayloadInv`, says of a context that it is made of whole entries
  (`Complete`), also when an entry that did not fit was taken back.  The arithmetic is in
  `TwoDigits` and the lemmas about `SignedBits`: a number is read back from its bytes
  in the width `CompressedType` chose.  A decoder reads forward and never looks back, so
  what it reads of a payload it reads again of one that goes on (`ValueKept`, `EntryKept`,
  `LoopKept`, the last by induction along the loop), and one more entry adds just what
  it `Says` (`EntryRead`, `OneMore`).
* `SerialKeepsTypes`: `MCSpec => []SerialTypeOK`, of the run `serial`, for every value of the
  constants, with `GoodClients`.  None of the bounds is one the instance gives.  What is in an
  out-ring fits it, and the slot of the next byte follows from how many were added
  (`OutRoom`); messages that are being copied are counted, so no more are taken than came
  (`EspCount`); every append leaves room for the brace that closes an object (`Within`),
  where `Pos` is a recursive sum, unfolded by induction along the tokens (`SumIs`, `PosMore`):
  this is where `JSON_BUF_SIZE` must be more than `JSON_CLOSE_SIZE + 1`; and the timer never
  lasts longer than the sleep asked for (`SleepsNoLonger`), since some prescaler always fits
  30 s.

`RakProofs` proves three theorems about `Rak3172` for every number of init messages
above 2, of short resets, of failures and of commands, with or without the command
`connect`:

* `RakTypes`: `Spec => []TypeOK`; in it, `init_count` never runs past
  `_rak3172_init_msgs`.
* `RakIsLink`: `Spec => IsLink`, that is the driver implements `Link`.  This is what
  makes it sound to build `Uplink` on `Link` alone.
* `RakTellsTheTruth`: `Spec => ToldTheTruth`.

The invariant is `TypeOK` with two more conjuncts.  `FromTheFirst` says that the wait
for the boot message has `init_count = 0`: without it the index could leave the
array on the way through the next state.  `OnePacket` says that while a send waits in the nested main
loop no other packet is on its way.  It holds because the send starts in `idle`, and
because a downlink's command can move the state only to `off` or `resetting`, from
where it takes another join to get back to `idle`; in a state without `OnePacket` an
acknowledgement would be passed on while the link still waits for an "OK", which
`ToldTheTruth` forbids.
`RakNext` has a step per action; `TakenLines`, `InitLines` and `SendLines` say that
the lines of the modem stay lines, `ResetInv` what a reset leaves.  `LinkStepMap` and
`TruthStep` then show each action to be a step of the link, and to tell the truth.

`ModemsKeepTypes`: `MCSpec => []ModemsTypeOK` puts `RakTypes` together with the types of the
RAK4270's driver, where the first step of a state (`FirstStep`) keeps the index of the
init messages in its array.

It also proves `Rak4270SendsTheLatest`: `Rak4270Spec => SendsTheLatest`, for any
number of packets, resends, init messages, lost lines and commands.  The state part of
the property, `HoldsTheLatest`, speaks of a send underway and is not inductive: a resend
puts what is held back on the air, so what is held must be the latest packet
(`HeldIsLatest`) and not acknowledged (`HeldIsOpen`) in every state of the driver, also
with the modem off or being set up again.

`FlashProofs` proves theorems about `FwUpdate` for every set of images and every size
of page, downlink and area, with losses of power without number:

* `FwBootsAsFlagged`: `FwSpec => []BootsAsFlagged`.
* `FwReadyIsCopied`: `FwSpec => []ReadyIsCopied`.
* `DeviceKeepsTypes`: `MCSpec => []DeviceTypeOK`, of the run `device`, with `ModbusTypes` from
  `ModbusProofs`.  That the download stays in the spare area and the copy in the firmware's
  is part of it: `CopyInside` has it from `FlagInv`, since the flag is the length of an image
  that fits, and a flag that is not could have the bootloader copy past the end.

None assumes anything of the flag's width, which is one bit in the code; were it that of a
size, `ReadyIsCopied` would say that the whole update is installed, which `fw_flag` refutes for one bit.
The invariant says what each place that speaks of an update relies on: a
flag that was saved is of an image that is whole in the spare area
(`FlagInv`), and what would be committed is that flag or one about to be (`PendingInv`); no flag
stands while the spare area is written (`DownloadInv`); the
firmware area differs from what is to run only in the pages of the flag, and while the
bootloader runs (`AskedInv`); and an update said to be ready waits for the flag, or has its pages in
what is to run (`ReadyInv`).  What closes the argument is that the bootloader compares the areas
before it clears the flag: however often the copy was cut short, the firmware is then what
was to run.

And two about `ModbusMem`, for any number of blocks, names, commands, reads and restarts:

* `ModbusMemIsWhole`: `MemSpec => []MemIsWhole`: each block is in one list, no list has a
  loop, and none is lost.
* `ModbusToldItsRegister`: `MemSpec => []ToldItsRegister`.

A list is given by a number for each block, the list it is in, and a stamp for each that
falls along the links (`Linked`): the head is the only block of the list that no
other names as its next, and a stamp that falls leaves no room for a loop.
`ListIs` shows that a walk along such a list meets all its blocks and ends, by
induction along the walk and, that it ends in time, by the pigeonhole principle.
`Move` is what all commands have in common: a block goes from the front, or the
middle, of one list to the front of another.  Deleting a device frees its
registers one by one, a recursive function, and `FreedInTurn` follows it by
induction.  The second theorem needs `ToldInv`: the requests in the queue are of
blocks that are registers, and the one on the bus is that of the first, as long
as no queued block was freed (`mem_stale`).

`BoardProofs` proves theorems about the parts of a board, each for every value of the
constants of its module.

`AdcShare`, any number of clamps, inputs and commands:

* `AdcKeyIsOwned`: `AdcSpec => []KeyIsOwned`, the key of the converter is always that of a client
  with a reading to collect.  It is inductive with `FtmaCovered`: a 4-20 mA input that
  joins those running asks for no key, which is right only while one of them is still
  to be collected.
* `AdcKeyIsKept`: `AdcSpec => [][KeyKept]_adcVars`.
* `AdcClientsKeepApart`: `AdcSpec => []ClientsKeepApart`, that is also the buffer holds the
  channels of the client that reads it.  The buffer has the channels in ascending
  order, so a client finds its channel by counting those below (`Placed`), and positions
  repeat with the number of channels (`Wraps`).

`Sampler`:

* `SamplerSamplesAreNew`: `SamplerSpec => []SamplesAreNew`, for any sampling interval, counts of
  samples and disturbances.  It assumes `Timely`: a sample has three ticks from begin to
  collection, which is what two pauses of the chip and one late pass take
  (150 ms against pauses of 50 ms, `htu21d.c:25`), and the sample after the last
  would be begun after the interval.  The second is needed: with an interval of 18
  ticks, a collection of 4 and 2 samples, TLC refutes `SamplesAreNew`, since one more sample is
  begun in the very pass that sends, and the counts that would collect it are
  cleared.  It holds for every interval that is a multiple of its number of samples (with
  half a sample's share longer than the collection), and for the default of 15 minutes
  with any count up to 500.  The invariant lists what
  the data, the chip, the wait and the place in the main loop are between two samples
  (`RestInv`), in one (`BegunInv`), in a command's reading (`ReadInv`) and in the middle of a
  sampling pass (`SampleTInv`, `SampleHInv`).
* `SamplerFaultStays`: `SamplerSpec => []FaultStaysInInterval`, under `Roomy`: `Timely`, two ticks
  before the first sample, and one tick more between the end of an interval and the
  sample that would follow.  With a chip that fails, the two measurements no longer go
  together, so the invariant has the phase of each: at rest with its flag down, in its
  sample, gone `Astray` after the other's sample failed (flag up, nothing begun), `Failed`,
  `Stale` (a flag nobody was there to take down) or `Late`.  Each phase has its bounds on the time
  of the next wake; at most one of the two is out of step, and then the chip is
  idle.  The flag is taken down by the collection that follows, which comes before the
  interval ends because the wake of a late one is no earlier than its next sample.

The other sensors:

* `HpmValueIsGood`: power follows the count of uses, the ring holds packets in step with
  the header last read and the stored value is of the packet last counted (`PacketsInStep`),
  and whoever waits for a value of its own waits past the fourth packet
  (`WaitIsLongEnough`).
* `VemlLightIsTold`: `VemlTypeOK` and `LightIsTold`.  The time a reading may take is summed up
  setting by setting (`BeforeTime`, `SettingTime`).
* `SaiLevelIsOfItsSample`: `SaiTypeOK` and `LevelIsOfItsSample`; the buffers summed up are those
  counted, with at most one torn.
* `W1ProbeIsTold`: `W1TypeOK` and `ProbeIsTold`.  The invariant follows the two exchanges slot by
  slot: what is left of the program, what the probe heard of the byte, and what the
  driver read of the sixteen bits.

All of them, with the types of the IOs from `IoProofs`:

* `BoardKeepsTypes`: `MCSpec => []BoardTypeOK`, of the run `board`.  The channels of a buffer, taken in
  ascending order, are taken each at most once, so a position stays in the buffer (`AdcTypes`,
  `EachPlaceTaken`); an edge of an input is in the register, on the count, or taken off, so
  no count exceeds the edges there were (`EdgeCounted`); the phases of `SamplerFaultStays`
  have the types of the times they bound (`SamplerTypes`).

`IoProofs` proves three theorems about `IoPins` for any number of IOs, pins shared in any
way, and commands, edges and restarts of either kind without number:

* `IoLinesAreServed`: `IoSpec => []LinesAreServed`,
* `IoPulsesCountedOnce`: `IoSpec => []PulsesCountedOnce`,
* `IoRestartKeepsPins`: `IoSpec => RestartKeepsPins`.

The properties speak of the states with no handler underway, in between which a handler
leaves the two users of a line at odds.  The invariant says what holds then:
`AgendaOf(io)` lists, for each mode, the calls a handler may have left and what those it
made have done, and every IO but the one whose handler is underway is `PinSettled`: its line
is as its mode wants it (`LineOk`), unless a jump left it `stray`, and its pulses are
counted (`CountOk`).  `GpioOk` says the same of its pin, if the pin is its own.
`AgendaGoesOn` has a case per call; `PlainStep` and `ModeStep` are what the commands
that touch no line, and those that change a mode, have in common.  A boot is `BootKeeps`, with
`WatchdogKeeps` and `JumpKeeps` for its two kinds: of a pin that is its IO's own the last step that writes to
it is that IO's (`OwnPinAtBoot`).

`UplinkProofs` proves theorems about `Uplink` for any number of slots and counters, any
size of a packet, and pulses, losses, instant sends and error codes without number:

* `UplinkKeepsPulses`: `Spec => [](NoFragmentForgotten /\ PulsesKept)`.
* `UplinkTypes` (in `UplinkTypeProofs`):
  `Spec => [](TypeOK /\ \A s \in Pulse : send_count[s] <= count[s])`.
* `UplinkKeepsTypes`: `MCSpec => []UplinkTypeOK`, of both instances of the run `uplink`.

The types hold for any intervals, late answers and reads by command: an acknowledgement takes no
more off than was counted, and `count - send_count`, unsigned in the code, never wraps.
The first assumes `OneInterval`, the first instance of the run `uplink`: packets are prompt, every
measurement has interval 1 and no command reads a counter.  `AckMeansSent` has no theorem: with
other intervals it is false, as `uplink_second` shows.  `PulsesKept` alone is not inductive: an acknowledgement
takes `send_count` off, and the packet said `val`.  `PacketInv` says that the two agree
for the slots between the positions while a packet is on its way, `ChunkInv` when the
positions stand for one and that the clock then stands at the start of the interval, so
that nothing is sampled, and no `send_count` renewed, under a packet; `DataInv` and
`SampledInv` that a reading that waits is the one its counter remembers and that every
slot holds one when the interval is over.  `FragmentEnds` shows that a fragment holds at least the slot it starts
with, which is why a send comes to its end.  `UplinkPromptForgetsNothing` states the first for
`MCSpec`, the specification TLC checks, with any constants in place of its instance's.
For the second instance, `UplinkProofs` instantiates `UplinkTypeProofs` with the same constants
as `MCUplink` does `Uplink`, and `SlowNext` shows that the two take the same steps.  (Were the
instance in `MCUplink` one of `UplinkTypeProofs`, TLC would take the first instance's `N` for its
slots.)

`ModbusProofs` proves theorems about `Modbus` for every set of registers and devices,
every queue, either framing, and requests, noise, losses and damage without number:

* `ModbusReadingsAreOwn`: `Spec => ReadingsAreOwn`.
* `ModbusSuccess`: `Spec => SuccessMeansWritten`.
* `ModbusTypes`: `Spec => []TypeOK`.

None assumes anything beyond the ASSUME of the module: reads in the gap, restarts with a reply half
in and late replies are steps of `Spec`.  The first two are action properties of the steps with no slip.
The invariant, `ModbusInv`, is the types, that the receive timer runs only while a reply is awaited (`TimerRuns`),
and that with no slip all is `InStep`.  A reply does not say
which request it is of, so `InStep` must: `ExchangeInv` says that at most one
request is not over, counting those with the slave and the bodies still to come or in
the ring, that it is `Current`, the one the driver takes a message for, and that
nothing of it is left once its time is over or nothing is awaited.  The last holds
because time passes only when the driver has read what came (`MainLoopIdle`), and
`TimerInv` adds that the receive timer cannot run out before the request's own.  This is
what a restart of a full queue with the timer running breaks.  `CommandInv` says
that a write on its way is that of the command that waits, or has timed out; without
it a read asked for after the command gave up would take the write's answer for its own.
After a slip nothing of this holds, until the bus is at rest when time passes: there nothing is
left that could be taken for something else, and `InStep` holds again (`OnlyRestHeals`).
`PassTakes` reduces the branches of the receiver to two: pieces go and nothing ends, or
the body is read and the exchange ends.

`ModbusValueSurvives`: `ValueSpec => []ValueSurvives`, for bytes of any even number of values, 256
among them, and all numbers a command or a slave may give: what the firmware puts
in order and takes out of it is what the powers of a byte say, for five types and four
orders.  It is arithmetic: a number has one expansion in bytes, and the signed types
wrap at half of theirs.

### What only TLC checks

* Liveness under fairness, which TLAPS cannot prove: `EveryLineIsHandled`,
  `NothingHangs`, `NobodyWaits`, `PromptPulsesReported`, `SlowSamplesGoOut`, `ModemsConnect`,
  `BegunIsCollected`, `SamplesEnd` (which has `LightIsReadAgain` in it).
* What the six runs that expect a violation show.

Every other property of the runs is proved.  What no proof says is that the
constants of a run satisfy the assumptions of a theorem where these are more than the
ASSUME of a module (`GoodClients`, `OneInterval`, `Timely`, `Roomy`):
TLC checks the property for these constants itself.

## 6. Plan

The modules and theorems planned are there.  What would carry on, the most
useful first:

1. Power lost between the two `flash_set_data` of a commit (`stm.c:238`): the measurements
   page in `FwUpdate`, and what `persistent_init` makes of one page without the other.
2. The flag of an instant send, a bit of a word that the interrupt and the main loop both
   write back (`measurements.c:932`), as a read and a write of its own in `Uplink`.
3. `Uplink` and `Sampler` as one module: they are joined by what `Sampler` says of the report
   of an interval, which `Uplink` takes for granted.
4. The forwarding of a UART over MQTT, and `is_immediate`.
5. The inductive invariants of `SamplerFaultStays` for an interval that is not `Roomy`: the
   bounds on a late wake are not the best possible.

## 7. Not modelled

* CAN: its ring is given the size of one packet's data, 8 bytes, and so holds 7, fewer
  than the header of 8 that is added first; and nothing calls `can_drain_array`.  No
  packet gets through, so there is nothing to say of one.  (Its way of reading a ring
  is `Overread` in `Ring`.)
* IOs: the boards env01 and sens01, where two counters share an interrupt line whose handler looks only at the
  mode of IO 4 and which the disabling of either disables for both (and where env01 has no
  pull-up to enable); `IO_DIR_LOCKED`; an interrupt between the jump of `reset` and the end of
  `ios_init`.
* The wrap of the clock after 49 days (`since_boot_delta` is then one short).
* `is_immediate`, and the names of measurements and the saving of their list.
* Arithmetic without state: the root mean squares of the ADC and of the microphone,
  degrees, decibels and lux, the removal of echoed bytes.
* Parsing and printing of commands, LoRaWAN keys (`lw.c`), calibration values and
  names, register access of the HAL, the I2C peripheral, tables of models.
* The forwarding of a UART over MQTT and the drivers of the ESP32; the Linux port,
  which stands in for hardware in tests; host tools and third-party code.

`PROJECT.json` marks each component `modelled`, `partly` or `not_modelled` with the
reason.
