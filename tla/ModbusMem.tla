------------------------------- MODULE ModbusMem -------------------------------
(***************************************************************************)
(* The modbus configuration (core/src/modbus_mem.c), devices and their     *)
(* registers in blocks of one blob that is saved with the configuration    *)
(* (ports/stm/src/persist_config.c); the measurements of its registers     *)
(* (modbus_measurements.c); and the queue of modbus.c (Modbus), that holds *)
(* pointers to blocks.                                                     *)
(*                                                                         *)
(* A block is its number, 0 for none.  No unit_id is the offset of a block.*)
(* The addresses of registers stand for all that is configured of them.    *)
(***************************************************************************)
EXTENDS Integers, Sequences, FiniteSets

CONSTANTS
  Blocks,          \* MODBUS_BLOCKS
  DevName, RegName, UnitId, RegAddr,
  MemSlots,        \* MODBUS_SLOTS
  MaxMemCommands,  \* bound: commands given
  MaxMemReads      \* bound: reads started, requests repeated, restarts

ASSUME ModbusMemAssumption ==
  /\ {Blocks, MemSlots, MaxMemCommands, MaxMemReads} \subseteq Nat \ {0}
  /\ UnitId \subseteq 1..255 /\ RegAddr \subseteq Nat

VARIABLES
  mem,             \* modbus_bus: blocks, first_dev, first_free
  meas,            \* names of the measurements of registers
  mem_flash,       \* mem and meas as they were saved
  said_saved,      \* "Flash successfully written." was logged by the last command
  mem_queue,       \* _message_queue
  asked,           \* what the request on the bus asks for, or Nobody
  mem_stale,       \* history: a block was freed while in the queue
  mem_commands, mem_reads

memBounds == <<mem_commands, mem_reads>>
memVars == <<mem, meas, mem_flash, said_saved, mem_queue, asked, mem_stale, memBounds>>

Block == 1..Blocks
Nobody == <<0, 0>>
Empty == [is |-> "free", name |-> "", unit |-> 0, addr |-> 0, first |-> 0, next |-> 0,
          state |-> "INVALID", value |-> Nobody]

\* What is reached from a block by next, in order
Chain(b) == LET at[i \in 0..Blocks] == IF i = 0 THEN b ELSE IF at[i - 1] = 0 THEN 0 ELSE mem.blocks[at[i - 1]].next
            IN  at
Reached(b) == {Chain(b)[i] : i \in 0..Blocks} \ {0}
FirstOf(b, ok) ==
  LET hits == {i \in 0..Blocks : Chain(b)[i] \in ok}
  IN  IF hits = {} THEN 0 ELSE Chain(b)[CHOOSE i \in hits : \A j \in hits : i <= j]

Devices == Reached(mem.first_dev)
RegsOf(d) == Reached(mem.blocks[d].first)
\* modbus_get_device_by_id, modbus_get_device_by_name, modbus_dev_get_reg_by_name
DeviceById(u) == FirstOf(mem.first_dev, {b \in Block : mem.blocks[b].unit = u})
DeviceByName(n) == FirstOf(mem.first_dev, {b \in Block : mem.blocks[b].name = n})
RegByName(d, n) == FirstOf(mem.blocks[d].first, {b \in Block : mem.blocks[b].name = n})
\* modbus_get_reg
GetReg(n) == LET d == FirstOf(mem.first_dev, {b \in Devices : RegByName(b, n) # 0})
             IN  IF d = 0 THEN 0 ELSE RegByName(d, n)

\* _modbus_free
Freed(m, b) == [m EXCEPT !.blocks[b] = [Empty EXCEPT !.next = m.first_free], !.first_free = b]
\* _modbus_allocate_block, and the memset of who takes it
Allocated(m, new) ==
  [m EXCEPT !.blocks[m.first_free] = new, !.first_free = m.blocks[m.first_free].next]

MemCommand(saved) == mem_commands < MaxMemCommands /\ mem_commands' = mem_commands + 1 /\ said_saved' = saved

\* mb_dev_add: _modbus_add_dev_cb, modbus_add_device
AddDevice(u, n) ==
  /\ MemCommand(FALSE) /\ DeviceByName(n) = 0 /\ mem.first_free # 0
  /\ mem' = [Allocated(mem, [Empty EXCEPT !.is = "dev", !.name = n, !.unit = u, !.next = mem.first_dev])
             EXCEPT !.first_dev = mem.first_free]
  /\ UNCHANGED <<meas, mem_flash, mem_queue, asked, mem_stale, mem_reads>>

\* mb_reg_add: _modbus_add_reg_cb, modbus_dev_add_reg, modbus_measurement_add
AddReg(u, n, a) ==
  LET d == DeviceById(u)
  IN  /\ MemCommand(FALSE) /\ d # 0 /\ RegByName(d, n) = 0 /\ mem.first_free # 0
      /\ mem' = [Allocated(mem, [Empty EXCEPT !.is = "reg", !.name = n, !.unit = u, !.addr = a, !.next = mem.blocks[d].first])
                 EXCEPT !.blocks[d].first = mem.first_free]
      /\ meas' = meas \cup {n}
      /\ UNCHANGED <<mem_flash, mem_queue, asked, mem_stale, mem_reads>>

Queued == {mem_queue[i] : i \in 1..Len(mem_queue)}
\* Mutated: the one before it is not told
UnlinkedFirstOnly(d, b) ==
  IF mem.blocks[d].first = b THEN Freed([mem EXCEPT !.blocks[d].first = mem.blocks[b].next], b)
  ELSE IF b \in RegsOf(d) THEN Freed(mem, b) ELSE mem
\* modbus_reg_del, in the list of the first device with its unit_id
Unlinked(d, b) ==
  IF d = 0 \/ b \notin RegsOf(d) THEN mem                       \* "Failed to find register in device!"
  ELSE IF mem.blocks[d].first = b THEN Freed([mem EXCEPT !.blocks[d].first = mem.blocks[b].next], b)
  ELSE LET before == CHOOSE p \in RegsOf(d) : mem.blocks[p].next = b
       IN  Freed([mem EXCEPT !.blocks[before].next = mem.blocks[b].next], b)
\* mb_reg_del: modbus_measurement_del_reg
DelReg(n) ==
  LET b == GetReg(n)
  IN  /\ MemCommand(FALSE) /\ b # 0
      /\ mem' = Unlinked(DeviceById(mem.blocks[b].unit), b)
      /\ meas' = meas \ {n}
      /\ mem_stale' = (mem_stale \/ b \in Queued)
      /\ UNCHANGED <<mem_flash, mem_queue, asked, mem_reads>>

\* modbus_dev_del: its registers in order, then itself
RegsFreed(d) == LET after[i \in 0..Blocks] ==
                      IF i = 0 THEN mem
                      ELSE LET b == Chain(mem.blocks[d].first)[i - 1] IN IF b = 0 THEN after[i - 1] ELSE Freed(after[i - 1], b)
                IN  after[Blocks]
\* mb_dev_del: modbus_measurement_del_dev
DelDevice(n) ==
  LET d == DeviceByName(n)
  IN  /\ MemCommand(FALSE) /\ d # 0
      /\ mem' = IF mem.first_dev = d THEN Freed([RegsFreed(d) EXCEPT !.first_dev = mem.blocks[d].next], d)
                ELSE LET before == CHOOSE p \in Devices : mem.blocks[p].next = d
                     IN  Freed([RegsFreed(d) EXCEPT !.blocks[before].next = mem.blocks[d].next], d)
      /\ meas' = meas \ {mem.blocks[b].name : b \in RegsOf(d)}
      /\ mem_stale' = (mem_stale \/ Queued \cap RegsOf(d) # {})
      /\ UNCHANGED <<mem_flash, mem_queue, asked, mem_reads>>

\* modbus_persist_config_cmp: the heads of the two lists are compared, and then
\* the blocks of the blob in use with themselves
MemDiffers == \/ mem.first_dev # mem_flash.mem.first_dev \/ mem.first_free # mem_flash.mem.first_free
              \/ Cardinality(Devices \cup UNION {RegsOf(d) : d \in Devices}) >= Blocks
\* save: persist_commit
SaveConfig ==
  /\ MemCommand(TRUE)
  /\ mem_flash' = IF MemDiffers \/ meas # mem_flash.meas THEN [mem |-> mem, meas |-> meas] ELSE mem_flash
  /\ UNCHANGED <<mem, meas, mem_queue, asked, mem_stale, mem_reads>>

MemRead == mem_reads < MaxMemReads /\ mem_reads' = mem_reads + 1
\* What a request says, and the mark it leaves: value_state lies where the high
\* byte of a device's unit_id does
AsksFor(b) == IF mem.blocks[b].is = "reg" THEN <<mem.blocks[b].unit, mem.blocks[b].addr>> ELSE Nobody
Waits(m, b) == CASE m.blocks[b].is = "reg" -> [m EXCEPT !.blocks[b].state = "WAITING"]
                 [] m.blocks[b].is = "dev" -> [m EXCEPT !.blocks[b].unit = (@ % 2 ^ 12) + 2 ^ 12]
                 [] OTHER -> m

\* _modbus_measurements_init, modbus_start_read, _modbus_do_start_read
StartMemRead(n) ==
  LET b == GetReg(n)
  IN  /\ MemRead /\ n \in meas /\ b # 0 /\ DeviceById(mem.blocks[b].unit) # 0 /\ Len(mem_queue) < MemSlots
      /\ mem_queue' = Append(mem_queue, b) /\ mem' = Waits(mem, b)
      /\ asked' = IF mem_queue = <<>> THEN AsksFor(b) ELSE asked
      /\ UNCHANGED <<meas, mem_flash, said_saved, mem_stale, mem_commands>>
\* _modbus_has_timedout: it is sent again, or dropped; and _modbus_next_message
Resend == /\ MemRead /\ mem_queue # <<>>
          /\ asked' = AsksFor(Head(mem_queue)) /\ mem' = Waits(mem, Head(mem_queue))
          /\ UNCHANGED <<meas, mem_flash, said_saved, mem_queue, mem_stale, mem_commands>>
\* Mutated: the next of the queue is not asked for
NextNotAsked(m, q) == mem' = m /\ asked' = IF q = <<>> THEN Nobody ELSE asked
NextMemRead(m, q) == IF q = <<>> THEN mem' = m /\ asked' = Nobody
                     ELSE mem' = Waits(m, Head(q)) /\ asked' = AsksFor(Head(q))
DropMemRead == /\ MemRead /\ mem_queue # <<>> /\ mem_queue' = Tail(mem_queue)
               /\ NextMemRead(mem, mem_queue')
               /\ UNCHANGED <<meas, mem_flash, said_saved, mem_stale, mem_commands>>

\* the end of modbus_uart_ring_in_process, _modbus_reg_cb
Answered(m, b) ==
  CASE m.blocks[b].is = "reg" ->
         IF DeviceById(m.blocks[b].unit) # 0 /\ m.blocks[b].unit = asked[1]
         THEN [m EXCEPT !.blocks[b].state = "READY", !.blocks[b].value = asked]
         ELSE [m EXCEPT !.blocks[b].state = "INVALID"]
    [] m.blocks[b].is = "dev" -> [m EXCEPT !.blocks[b].unit = @ % 2 ^ 12]
    [] OTHER -> m
MemReply == /\ mem_queue # <<>> /\ asked # Nobody /\ mem_queue' = Tail(mem_queue)
            /\ NextMemRead(Answered(mem, Head(mem_queue)), mem_queue')
            /\ UNCHANGED <<meas, mem_flash, said_saved, mem_stale, memBounds>>

\* persistent_init, modbus_bus_init
MemRestart == /\ MemRead /\ mem' = mem_flash.mem /\ meas' = mem_flash.meas /\ mem_queue' = <<>> /\ asked' = Nobody
              /\ UNCHANGED <<mem_flash, said_saved, mem_stale, mem_commands>>

MemAtStart == [blocks |-> [b \in Block |-> [Empty EXCEPT !.next = IF b = Blocks THEN 0 ELSE b + 1]],
               first_dev |-> 0, first_free |-> 1]
MemInit ==
  /\ mem = MemAtStart /\ meas = {} /\ mem_flash = [mem |-> MemAtStart, meas |-> {}]
  /\ said_saved = FALSE /\ mem_queue = <<>> /\ asked = Nobody /\ mem_stale = FALSE
  /\ mem_commands = 0 /\ mem_reads = 0

MemNext ==
  \/ \E u \in UnitId, n \in DevName : AddDevice(u, n)
  \/ \E u \in UnitId, n \in RegName, a \in RegAddr : AddReg(u, n, a)
  \/ (\E n \in RegName : DelReg(n) \/ StartMemRead(n))
  \/ (\E n \in DevName : DelDevice(n))
  \/ SaveConfig \/ Resend \/ DropMemRead \/ MemReply \/ MemRestart
MemSpec == MemInit /\ [][MemNext]_memVars
--------------------------------------------------------------------------------
(* Each block is in one list, of free blocks, of devices or of the          *)
(* registers of one device, and is what that list is of, whatever is added, *)
(* deleted, read meanwhile, saved and loaded.  No two devices have one name, *)
(* nor two registers of a device, and no measurement is without a register. *)
MemIsWhole ==
  LET lists == {mem.first_free, mem.first_dev} \cup {mem.blocks[d].first : d \in Devices}
  IN  /\ Reached(mem.first_free) = {b \in Block : mem.blocks[b].is = "free"}
      /\ Devices = {b \in Block : mem.blocks[b].is = "dev"}
      /\ UNION {RegsOf(d) : d \in Devices} = {b \in Block : mem.blocks[b].is = "reg"}
      /\ \A d, e \in Devices : d # e => RegsOf(d) \cap RegsOf(e) = {}
      /\ \A b \in lists : Chain(b)[Blocks] = 0
      /\ \A l \in lists \ {mem.first_free} : \A b, c \in Reached(l) : mem.blocks[b].name = mem.blocks[c].name => b = c
      /\ \A n \in meas : GetReg(n) # 0

(* What a measurement is told was read from where its register is, also     *)
(* when its block was another's before; but not when a block was freed      *)
(* while it was in the queue.                                               *)
ToldItsRegister ==
  ~mem_stale => \A n \in meas : LET r == mem.blocks[GetReg(n)]
                                IN  r.state = "READY" => r.value = <<r.unit, r.addr>>

(* "Flash successfully written." (persist_config.c:100): what is configured *)
(* is in the flash.                                                         *)
SavedIsInFlash ==
  LET config(m) == [b \in Block |-> [m.blocks[b] EXCEPT !.state = "INVALID", !.value = Nobody]]
  IN  said_saved => config(mem_flash.mem) = config(mem) /\ mem_flash.meas = meas
================================================================================
