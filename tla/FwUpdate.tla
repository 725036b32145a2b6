------------------------------- MODULE FwUpdate -------------------------------
(***************************************************************************)
(* A firmware update of the STM32 boards: the download over LoRaWAN        *)
(* (comms/src/rak3172.c) into the spare area of the flash                  *)
(* (ports/stm/src/update.c), the flag in the configuration page            *)
(* (persist_config.c), and the bootloader that copies the spare area over  *)
(* the firmware (bootloader.c).  Power may be lost, or the watchdog bite,  *)
(* between any two steps and inside any write of the flash.                *)
(*                                                                         *)
(* An address holds a unit of an image, or is blank: a page that was being *)
(* written when power was lost is untouched, or erased and programmed up   *)
(* to somewhere.  The CRC stands for the data.                             *)
(***************************************************************************)
EXTENDS Integers, Sequences

CONSTANTS
  Image,        \* the images that can be sent
  Length,       \* Length[i]: in units
  Factory,      \* the image there at first
  PageLen,      \* FLASH_PAGE_SIZE, in units
  FwPages,      \* FW_PAGES
  ChunkLen,     \* the units a downlink carries
  WordBits,     \* 32: the width pending_fw is compared in
  PendingBits   \* its width in persist_storage_t

FwMax == FwPages * PageLen   \* FW_MAX_SIZE
AllOnes(bits) == 2 ^ bits - 1

ASSUME FwAssumption ==
  /\ {PageLen, FwPages, ChunkLen} \subseteq Nat \ {0}
  /\ WordBits \in Nat \ {0} /\ PendingBits \in 1..WordBits
  /\ AllOnes(WordBits) > FwMax /\ AllOnes(PendingBits) \in Nat \ {0}
  \* a flag that is erased is none, or of no more than there is room for
  /\ PendingBits = WordBits \/ AllOnes(PendingBits) <= FwMax
  /\ Factory \in Image
  /\ Length \in [Image -> Nat \ {0}] /\ Length[Factory] <= FwMax

VARIABLES
  mode,            \* what runs: the application, in which step, or the bootloader
  fw, new,         \* the flash at FW_ADDR and at NEW_FW_ADDR
  cfg,             \* the configuration page: pending_fw, and is its version known
  pending,         \* persist_data.pending_fw
  pos, page,       \* _fw_ota_pos, _fw_page
  next_chunk,      \* _rak3172_next_fw_chunk_id
  todo,            \* the units of the downlink still to be added
  tries,           \* writes of the current page that failed
  crc,             \* the image whose CRC fw_ota_complete was given
  copied,          \* the pages the bootloader has copied
  ready,           \* history: the image that was said to be ready
  to_run            \* history: the firmware that is to run, by the flag

flash == <<fw, new, cfg>>
ram == <<pending, pos, page, next_chunk, todo>>
fwVars == <<mode, flash, ram, tries, crc, copied, ready, to_run>>

Addr == 0..(FwMax - 1)
Blank == <<>>
FwUnit(i) == {<<i, k>> : k \in 0..(Length[i] - 1)}
AnyUnit == UNION {FwUnit(i) : i \in Image}
NoImage == <<>>

Holds(area, i) == Length[i] <= FwMax
                  /\ \A k \in 0..(Length[i] - 1) : area[k] = <<i, k>>

BlankPage == [k \in 0..(PageLen - 1) |-> Blank]
ErasedConfig == [pending |-> AllOnes(PendingBits), known |-> FALSE]

\* Page p of an area after an erase, with n units of content programmed.
Written(area, p, content, n) ==
  [a \in Addr |-> IF a \div PageLen # p THEN area[a]
                  ELSE IF a % PageLen < n THEN content[a % PageLen]
                  ELSE Blank]

PageOf(area, p) == [k \in 0..(PageLen - 1) |-> area[p * PageLen + k]]

\* What a write may leave behind when it fails or is cut off.
CutOff(area, p, content) ==
  {area} \cup {Written(area, p, content, n) : n \in 0..PageLen}

FwInit ==
  /\ mode = "boot"
  /\ fw = [a \in Addr |-> IF a < Length[Factory] THEN <<Factory, a>> ELSE Blank]
  /\ new = [a \in Addr |-> Blank]
  /\ cfg = ErasedConfig
  /\ pending = 0 /\ pos = -1 /\ page = BlankPage
  /\ next_chunk = 0 /\ todo = <<>>
  /\ tries = 0 /\ crc = NoImage /\ copied = 0 /\ ready = NoImage
  /\ to_run = fw

-----------------------------------------------------------------------------
(* The application: downlinks, commands and the steps of the download.     *)

\* LW_ID_FW_START.
FwStart ==
  /\ mode = "idle"
  /\ next_chunk' = 0 /\ pos' = -1
  /\ UNCHANGED <<mode, flash, pending, page, todo, tries, crc, copied, ready, to_run>>

\* LW_ID_FW_CHUNK: only the chunk that comes next is taken.
FwChunk(i, id) ==
  /\ mode = "idle"
  /\ id = next_chunk /\ id * ChunkLen < Length[i]
  /\ next_chunk' = id + 1
  /\ todo' = [n \in 1..(IF (id + 1) * ChunkLen > Length[i]
                        THEN Length[i] - id * ChunkLen ELSE ChunkLen)
                |-> <<i, id * ChunkLen + n - 1>>]
  /\ mode' = "add"
  /\ UNCHANGED <<flash, pending, pos, page, tries, crc, copied, ready, to_run>>

\* persist_commit writes when the configuration differs from what is in the
\* flash; other settings may.
Differs(flag) == cfg.pending # flag \/ ~cfg.known

\* Mutated form of AddFirst: the flag of an earlier update stays.
AddFirstKeepsFlag ==
  /\ mode = "add" /\ pos < 0
  /\ pos' = 0 /\ page' = BlankPage
  /\ ready' = NoImage
  /\ UNCHANGED <<mode, flash, pending, next_chunk, todo, tries, crc, copied, to_run>>

\* fw_ota_add_chunk, called for each byte: the first one of a download
\* withdraws an update that was ready.
AddFirst ==
  /\ mode = "add" /\ pos < 0
  /\ pos' = 0 /\ page' = BlankPage
  /\ pending' = 0
  /\ \/ mode' = "commit"
     \/ ~Differs(0) /\ UNCHANGED mode
  /\ ready' = NoImage
  /\ UNCHANGED <<flash, next_chunk, todo, tries, crc, copied, to_run>>

\* A byte more; a page that is full is written.
AddUnit ==
  /\ mode = "add" /\ pos >= 0 /\ pos + 1 <= FwMax
  /\ pos' = pos + 1
  /\ page' = [page EXCEPT ![pos % PageLen] = Head(todo)]
  /\ todo' = Tail(todo)
  /\ mode' = IF (pos + 1) % PageLen = 0 THEN "flush"
             ELSE IF todo' = <<>> THEN "idle" ELSE "add"
  /\ UNCHANGED <<flash, pending, next_chunk, tries, crc, copied, ready, to_run>>

TooBig ==
  /\ mode = "add" /\ pos >= 0 /\ pos + 1 > FwMax
  /\ pos' = -1
  /\ todo' = <<>> /\ mode' = "idle"
  /\ UNCHANGED <<flash, pending, page, next_chunk, tries, crc, copied, ready, to_run>>

\* LW_ID_FW_COMPLETE: what is left of the last page is written first.  With no
\* download (-1) that is page 0.
FwComplete(i) ==
  /\ mode = "idle" /\ next_chunk # 0
  /\ next_chunk' = 0
  /\ crc' = i
  /\ mode' = IF pos % PageLen # 0 THEN "last" ELSE "check"
  /\ UNCHANGED <<flash, pending, pos, page, todo, tries, copied, ready, to_run>>

\* The page _fw_ota_flush_page writes.
FlushPage == IF mode = "flush" THEN (pos - 1) \div PageLen
             ELSE IF pos < 0 THEN 0 ELSE pos \div PageLen

AfterFlush == IF mode = "last" THEN "check"
              ELSE IF todo' = <<>> THEN "idle" ELSE "add"

Flushed ==
  /\ mode \in {"flush", "last"}
  /\ new' = Written(new, FlushPage, page, PageLen)
  /\ page' = BlankPage
  /\ tries' = 0
  /\ UNCHANGED <<fw, cfg, pending, pos, next_chunk, todo, crc, copied, ready, to_run>>
  /\ mode' = AfterFlush

\* After the third failure the rest of the downlink is dropped; the end of a
\* download goes on all the same.
FlushFails ==
  /\ mode \in {"flush", "last"}
  /\ new' \in CutOff(new, FlushPage, page) \ {Written(new, FlushPage, page, PageLen)}
  /\ tries' = (tries + 1) % 3
  /\ UNCHANGED <<fw, cfg, pending, pos, page, next_chunk, crc, copied, ready, to_run>>
  /\ IF tries < 2 THEN UNCHANGED <<mode, todo>>
     ELSE /\ todo' = <<>>
          /\ mode' = AfterFlush

\* Mutated form of CheckCrc: the flag is not saved.
CheckCrcForgetsSave ==
  /\ mode = "check"
  /\ crc' = NoImage
  /\ \/ /\ pos < 0
        /\ mode' = "fault"
        /\ UNCHANGED <<pending, pos, ready>>
     \/ /\ pos >= 0 /\ pos' = -1 /\ mode' = "idle"
        /\ IF pos = Length[crc] /\ Holds(new, crc)
           THEN pending' = pos % 2 ^ PendingBits /\ ready' = crc
           ELSE UNCHANGED <<pending, ready>>
  /\ UNCHANGED <<flash, page, next_chunk, todo, tries, copied, to_run>>

\* Does the flash hold what was announced?  With no download the CRC is taken
\* over all of the address space, which is a fault.
CheckCrc ==
  /\ mode = "check"
  /\ crc' = NoImage
  /\ \/ /\ pos < 0
        /\ mode' = "fault"
        /\ UNCHANGED <<pending, pos, ready, to_run>>
     \/ /\ pos >= 0 /\ pos' = -1
        /\ ~(pos = Length[crc] /\ Holds(new, crc))
        /\ mode' = "idle"
        /\ UNCHANGED <<pending, ready, to_run>>
     \/ /\ pos >= 0 /\ pos' = -1
        /\ pos = Length[crc] /\ Holds(new, crc)
        /\ pending' = pos % 2 ^ PendingBits
        /\ ready' = crc
        /\ \/ mode' = "commit"
           \/ ~Differs(pending') /\ mode' = "idle"
  /\ UNCHANGED <<flash, page, next_chunk, todo, tries, copied, to_run>>

ToCommit == [pending |-> pending, known |-> TRUE]

\* The end of platform_persist_commit.
Committed ==
  /\ mode = "commit"
  /\ cfg' = ToCommit
  /\ mode' = IF todo = <<>> THEN "idle" ELSE "add"
  /\ UNCHANGED <<fw, new, ram, tries, crc, copied, ready, to_run>>

\* The command "save".
Save ==
  /\ mode = "idle"
  /\ mode' = "commit"
  /\ UNCHANGED <<flash, ram, tries, crc, copied, ready, to_run>>

\* The application starts, from the bootloader or by platform_reset_sys.
StartApp ==
  /\ mode' = "idle"
  /\ pending' = IF cfg'.known THEN cfg'.pending ELSE 0
  /\ pos' = -1 /\ page' = BlankPage
  /\ next_chunk' = 0 /\ todo' = <<>> /\ tries' = 0 /\ crc' = NoImage

\* The commands "reset" and "wipe": neither goes through the bootloader.
Reset ==
  /\ mode = "idle"
  /\ UNCHANGED <<flash, copied, ready, to_run>>
  /\ StartApp

Wipe ==
  /\ mode = "idle"
  /\ cfg' = ErasedConfig
  /\ ready' = NoImage
  /\ UNCHANGED <<fw, new, copied, to_run>>
  /\ StartApp

-----------------------------------------------------------------------------
(* The bootloader.                                                         *)

IsFlag(n) == n # 0 /\ n # AllOnes(WordBits)
Flagged == IsFlag(cfg.pending)

PageCount(size) == (size + PageLen - 1) \div PageLen

\* What is to run after a reset: the firmware, under the pages of the spare
\* area that the flag stands for.
Installed(area, spare, flag) ==
  IF ~IsFlag(flag) \/ spare[0] = Blank THEN area
  ELSE [a \in Addr |-> IF a \div PageLen < PageCount(flag) THEN spare[a] ELSE area[a]]

\* The flag and the first word of the spare area decide.
BootLooks ==
  /\ mode = "boot"
  /\ copied' = 0 /\ tries' = 0
  /\ mode' = IF ~Flagged THEN "run"
             ELSE IF new[0] # Blank THEN "copy" ELSE "clear"
  /\ UNCHANGED <<flash, ram, crc, ready, to_run>>

CopiesPage ==
  /\ mode = "copy" /\ copied < PageCount(cfg.pending)
  /\ fw' = Written(fw, copied, PageOf(new, copied), PageLen)
  /\ copied' = copied + 1
  /\ tries' = 0
  /\ UNCHANGED <<mode, new, cfg, ram, crc, ready, to_run>>

\* After the third failure the bootloader stops in error_state.
CopyFails ==
  /\ mode = "copy" /\ copied < PageCount(cfg.pending)
  /\ LET content == PageOf(new, copied)
     IN fw' \in CutOff(fw, copied, content)
                  \ {Written(fw, copied, content, PageLen)}
  /\ tries' = (tries + 1) % 3
  /\ mode' = IF tries < 2 THEN "copy" ELSE "stop"
  /\ UNCHANGED <<new, cfg, ram, crc, copied, ready, to_run>>

CopyEnds ==
  /\ mode = "copy" /\ copied >= PageCount(cfg.pending)
  /\ mode' = IF \A a \in 0..(cfg.pending - 1) : fw[a] = new[a] THEN "clear"
             ELSE "stop"
  /\ UNCHANGED <<flash, ram, tries, crc, copied, ready, to_run>>

Cleared == [cfg EXCEPT !.pending = 0]

ClearsFlag ==
  /\ mode = "clear"
  /\ cfg' = Cleared
  /\ mode' = "run"
  /\ UNCHANGED <<fw, new, ram, tries, crc, copied, ready, to_run>>

RunsFirmware ==
  /\ mode = "run"
  /\ UNCHANGED <<flash, copied, ready, to_run>>
  /\ IF fw[0] = Blank
     THEN mode' = "stop" /\ UNCHANGED <<ram, tries, crc>>
     ELSE StartApp

-----------------------------------------------------------------------------
\* Power is lost, or the watchdog resets: the write underway is cut off.  An
\* update that was ready may be lost with the configuration page.
Reboot ==
  /\ mode # "boot"
  /\ mode' = "boot"
  /\ new' \in IF mode \in {"flush", "last"} THEN CutOff(new, FlushPage, page)
                                            ELSE {new}
  /\ fw' \in IF mode = "copy" /\ copied < PageCount(cfg.pending)
             THEN CutOff(fw, copied, PageOf(new, copied)) ELSE {fw}
  /\ cfg' \in CASE mode = "commit" -> {cfg, ErasedConfig, ToCommit}
               [] mode = "clear" -> {cfg, ErasedConfig, Cleared}
               [] OTHER -> {cfg}
  /\ ready' = IF mode = "commit" THEN NoImage ELSE ready
  /\ pending' = 0 /\ pos' = -1 /\ page' = BlankPage
  /\ next_chunk' = 0 /\ todo' = <<>>
  /\ tries' = 0 /\ crc' = NoImage /\ copied' = 0
  /\ to_run' = Installed(to_run, new', cfg'.pending)

Download == \/ FwStart
            \/ \E i \in Image : FwComplete(i)
            \/ \E i \in Image, id \in 0..FwMax : FwChunk(i, id)
            \/ AddFirst \/ AddUnit \/ TooBig \/ Flushed \/ FlushFails
            \/ CheckCrc

Config == Committed \/ Save \/ Reset \/ Wipe

Boot == \/ BootLooks \/ CopiesPage \/ CopyFails \/ CopyEnds \/ ClearsFlag
        \/ RunsFirmware

FwNext == Download \/ Config \/ Boot \/ Reboot

FwSpec == FwInit /\ [][FwNext]_fwVars

-----------------------------------------------------------------------------
(* Properties.                                                             *)

Cell == AnyUnit \cup {Blank}

FwTypeOK ==
  /\ mode \in {"boot", "copy", "clear", "run", "stop", "fault",
               "idle", "add", "flush", "last", "check", "commit"}
  /\ fw \in [Addr -> Cell] /\ new \in [Addr -> Cell]
  /\ cfg \in [pending : 0..AllOnes(PendingBits), known : BOOLEAN]
  /\ pending \in 0..AllOnes(PendingBits)
  /\ pos \in -1..FwMax      \* what is in the spare area stays inside it
  /\ page \in [0..(PageLen - 1) -> Cell]
  /\ next_chunk \in Nat /\ todo \in Seq(AnyUnit)
  /\ tries \in 0..2 /\ crc \in Image \cup {NoImage}
  /\ copied \in 0..FwPages /\ ready \in Image \cup {NoImage}
  /\ to_run \in [Addr -> Cell]

\* What pending_fw keeps of a size.
FlagOf(i) == Length[i] % 2 ^ PendingBits

\* A flag that was saved is of an image that is whole in the spare area
\* (fw_ota_add_chunk withdraws it before the first page is written over,
\* fw_ota_complete checks before it is set), and what the bootloader starts is
\* the firmware that was there under the pages that flag stands for, all of
\* them, wherever power was lost: in the download, in the copy, or while the
\* flag was written.
BootsAsFlagged ==
  /\ cfg.known /\ Flagged => \E i \in Image : Holds(new, i) /\ cfg.pending = FlagOf(i)
  /\ mode = "run" => \A a \in Addr : fw[a] = to_run[a]

\* Of an update that was said to be ready, what starts has the pages that its
\* flag stands for, unless another download, a wipe or a power loss while the
\* configuration is written takes the flag back.  (All of its pages, if the flag
\* had the width of a size; with the one bit that it has, the first page or none.)
ReadyIsCopied ==
  mode = "run" /\ ready # NoImage =>
    \A k \in 0..(Length[ready] - 1) : k \div PageLen < PageCount(FlagOf(ready)) => fw[k] = <<ready, k>>

\* "New FW ready." (update.c:122): from then on the bootloader starts the new
\* image, whole, unless the flag is taken back so.
ReadyIsInstalled == mode = "run" /\ ready # NoImage => Holds(fw, ready)
===============================================================================
