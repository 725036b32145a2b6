------------------------------ MODULE FlashProofs ------------------------------
(***************************************************************************)
(* Of what is kept in the flash: the images of the firmware (FwUpdate) and *)
(* the configuration of the modbus (ModbusMem).                            *)
(*                                                                         *)
(* First, that an update of the firmware survives a loss of power at any   *)
(* step, for every set of images, size and number of pages, and size of a  *)
(* downlink, and a flag of any width: what starts is the firmware that was *)
(* there under the pages that the flag stands for.  (With the one bit that *)
(* the flag has in the code, those are not all the pages of an update.)    *)
(*                                                                         *)
(* The invariant says what each place that speaks of an update relies on:  *)
(* a flag that was saved is of an image that is whole in the spare area    *)
(* (FlagInv, PendingInv); while the spare area is written no such flag     *)
(* stands (DownloadInv); the firmware area may be torn only in the pages   *)
(* of the flag, while the bootloader runs (AskedInv); and the pages of an  *)
(* update that was said to be ready wait for the flag, or are to run       *)
(* (ReadyInv).                                                             *)
(*                                                                         *)
(* With it, and the types of the modbus master (ModbusProofs), what the    *)
(* variables of the run device hold: the download stays in the spare area  *)
(* and the copy in the firmware's.                                         *)
(*                                                                         *)
(* Then, that the lists of the modbus configuration stay lists, for any    *)
(* number of blocks and any names.  The code walks them, and what a walk   *)
(* reaches is a recursive function of the links; so the invariant does not *)
(* speak of walks: there is a number of a list for every block and a stamp *)
(* that falls along the links (Linked), which one step at a time can be    *)
(* shown to keep (Move), and that a walk reaches just the blocks of its    *)
(* list is a lemma on such links (ListIs), by induction and since there    *)
(* are no more stamps than blocks.                                         *)
(***************************************************************************)
EXTENDS MCDevice, ModbusProofs, SequenceTheorems, FiniteSetTheorems,
        WellFoundedInduction, TLAPS

App == {"idle", "add", "flush", "last", "check", "commit", "fault"}
Loader == {"boot", "copy", "clear", "run", "stop"}

\* The types the argument needs: of the flash only the configuration.
TypeInv ==
  /\ mode \in App \cup Loader
  /\ pos \in -1..FwMax /\ pending \in Nat
  /\ cfg \in [pending : Nat, known : BOOLEAN]
  /\ mode \in {"last", "check"} => crc \in Image /\ next_chunk = 0

\* The spare area holds a whole image that n is the flag of.
Spare(n) == \E i \in Image : FlagOf(i) = n /\ Holds(new, i)

FlagInv ==
  /\ cfg.known /\ Flagged => Spare(cfg.pending)
  /\ IF cfg.known THEN cfg.pending # AllOnes(WordBits) ELSE cfg.pending \in {0, AllOnes(PendingBits)}
  /\ mode = "copy" => Flagged /\ new[0] # Blank
  /\ mode = "clear" => Flagged
  /\ mode = "run" => ~Flagged

\* What the application would commit is what the flash says, or is a flag
\* that is about to be committed.
PendingInv ==
  mode \in App =>
    /\ pending # 0 => Spare(pending)
    /\ mode # "commit" => pending = IF cfg.known THEN cfg.pending ELSE 0

\* The spare area is being written, or the last page may still be.
Downloading == \/ mode \in App /\ pos >= 0
               \/ mode \in {"flush", "last"}
               \/ mode \in {"idle", "commit"} /\ next_chunk # 0

DownloadInv == Downloading => pending = 0 /\ ready = NoImage

\* The addresses that the flag stands for.
Covered(a) == Flagged /\ new[0] # Blank /\ a \div PageLen < PageCount(cfg.pending)

AskedInv ==
  /\ mode \in App \cup {"clear", "run"} => \A a \in Addr : fw[a] = to_run[a]
  /\ mode \in Loader => \A a \in Addr : IF Covered(a) THEN to_run[a] = new[a] ELSE fw[a] = to_run[a]
  /\ mode = "copy" => /\ copied \in Nat /\ copied <= PageCount(cfg.pending)
                      /\ \A a \in Addr : a \div PageLen < copied => fw[a] = new[a]

ReadyWaits == IF mode = "commit" THEN pending = FlagOf(ready)
              ELSE cfg.known /\ cfg.pending = FlagOf(ready)

ReadyPages(area) ==
  \A k \in 0..(Length[ready] - 1) : k \div PageLen < PageCount(FlagOf(ready)) => area[k] = <<ready, k>>

ReadyInv ==
  ready # NoImage =>
    /\ ready \in Image /\ Holds(new, ready)
    /\ (mode \in App /\ ReadyWaits) \/ ReadyPages(to_run)

FwInv == TypeInv /\ FlagInv /\ PendingInv /\ DownloadInv /\ AskedInv /\ ReadyInv

-----------------------------------------------------------------------------
(* The widths.                                                             *)

LEMMA Widths ==
  /\ FwMax \in Nat \ {0} /\ PageLen \in Nat \ {0} /\ FwPages \in Nat \ {0}
  /\ AllOnes(WordBits) \in Nat \ {0} /\ FwMax < AllOnes(WordBits)
  /\ AllOnes(PendingBits) \in Nat \ {0}
  /\ AllOnes(PendingBits) = AllOnes(WordBits) \/ AllOnes(PendingBits) <= FwMax
  /\ ErasedConfig = [pending |-> AllOnes(PendingBits), known |-> FALSE]
  /\ \A i \in Image : Length[i] \in Nat \ {0}
  /\ \A n \in Nat : n % 2 ^ PendingBits \in 0..AllOnes(PendingBits) /\ n % 2 ^ PendingBits <= n
<1>1. FwMax \in Nat \ {0} /\ PageLen \in Nat \ {0} /\ FwPages \in Nat \ {0}
  BY FwAssumption DEF FwMax
<1>2. WordBits \in Nat /\ 2 ^ WordBits \in Int /\ PendingBits \in Nat /\ 2 ^ PendingBits \in Int
  BY FwAssumption
<1>3. AllOnes(WordBits) > FwMax
  BY FwAssumption
<1>4. AllOnes(WordBits) \in Nat \ {0} /\ FwMax < AllOnes(WordBits)
  BY <1>1, <1>2, <1>3 DEF AllOnes
<1>5. AllOnes(PendingBits) \in Nat \ {0}
  BY FwAssumption
<1>6. 2 ^ PendingBits \in Nat \ {0} /\ AllOnes(PendingBits) = 2 ^ PendingBits - 1
  BY <1>2, <1>5 DEF AllOnes
<1>7. ASSUME NEW n \in Nat, NEW m \in Nat \ {0}
      PROVE  n % m \in 0..(m - 1) /\ n % m <= n
  OBVIOUS
<1>8. ASSUME NEW n \in Nat
      PROVE  n % 2 ^ PendingBits \in 0..AllOnes(PendingBits) /\ n % 2 ^ PendingBits <= n
  BY <1>6, <1>7
<1>9. \A i \in Image : Length[i] \in Nat \ {0}
  BY FwAssumption
<1>10. AllOnes(PendingBits) = AllOnes(WordBits) \/ AllOnes(PendingBits) <= FwMax
  BY FwAssumption
<1> QED BY <1>1, <1>4, <1>5, <1>8, <1>9, <1>10 DEF ErasedConfig

\* No flag, no page.
LEMMA NoPages == PageCount(0) = 0 /\ \A n \in Nat : PageCount(n) \in Nat
<1>1. PageLen \in Nat \ {0}
  BY Widths
<1>2. (0 + PageLen - 1) \div PageLen = 0
  BY <1>1
<1>3. \A n \in Nat : (n + PageLen - 1) \div PageLen \in Nat
  BY <1>1
<1> QED BY <1>2, <1>3 DEF PageCount

\* An address is in its page.
LEMMA InPage == \A a \in Addr : /\ a \in Nat /\ a \div PageLen \in Nat /\ a % PageLen \in 0..(PageLen - 1)
                                /\ (a \div PageLen) * PageLen + (a % PageLen) = a
<1>1. PageLen \in Nat \ {0} /\ FwMax \in Nat
  BY Widths
<1>2. \A a \in Addr : a \in Nat
  BY <1>1 DEF Addr
<1>3. ASSUME NEW a \in Nat, NEW m \in Nat \ {0}
      PROVE  a \div m \in Nat /\ a % m \in 0..(m - 1) /\ (a \div m) * m + (a % m) = a
  OBVIOUS
<1> QED BY <1>1, <1>2, <1>3

\* A flag that is of an image in the spare area.
LEMMA SpareFlag ==
  ASSUME NEW n, Spare(n), n # 0
  PROVE  IsFlag(n) /\ n \in Nat /\ n <= FwMax /\ n <= AllOnes(PendingBits) /\ new[0] # Blank
<1>1. PICK i \in Image : FlagOf(i) = n /\ Holds(new, i)
  BY DEF Spare
<1>2. Length[i] \in Nat \ {0} /\ Length[i] <= FwMax
  BY <1>1, Widths DEF Holds
<1>3. n \in Nat /\ n <= Length[i] /\ n <= AllOnes(PendingBits)
  BY <1>1, <1>2, Widths DEF FlagOf
<1>4. n <= FwMax /\ IsFlag(n)
  BY <1>2, <1>3, Widths DEF IsFlag
<1>5. new[0] = <<i, 0>>
  BY <1>1, <1>2 DEF Holds
<1> QED BY <1>3, <1>4, <1>5 DEF Blank

\* The board leaves the factory with a whole image and an erased page.
LEMMA FwInvInit == ASSUME FwInit PROVE FwInv
<1>1. /\ mode = "boot" /\ cfg = [pending |-> AllOnes(PendingBits), known |-> FALSE]
      /\ ready = NoImage /\ pos = -1 /\ pending = 0 /\ to_run = fw
  BY Widths DEF FwInit
<1>2. new[0] = Blank
  BY Widths DEF FwInit, Addr
<1> QED BY <1>1, <1>2, Widths
  DEF FwInv, TypeInv, FlagInv, PendingInv, DownloadInv, Downloading, AskedInv, Covered,
      ReadyInv, App, Loader
-----------------------------------------------------------------------------
(* The application.                                                        *)

\* While the application runs the firmware is left alone.
LEMMA AppKeepsAsked ==
  ASSUME FwInv, mode \in App, mode' \in App, UNCHANGED <<fw, to_run>>
  PROVE  AskedInv' /\ (ready' = ready => (ReadyPages(to_run)' <=> ReadyPages(to_run)))
BY DEF FwInv, AskedInv, ReadyPages, App, Loader

\* Downlinks and the steps of the download (rak3172.c, update.c): the first byte
\* withdraws the flag before a page is written, and the check of the CRC sets it
\* only for an image that is whole.
LEMMA DownloadKeeps ==
  ASSUME FwInv, Download
  PROVE  FwInv'
<1> USE Widths DEF FwInv, TypeInv, FlagInv, PendingInv, DownloadInv, Downloading,
                   ReadyInv, ReadyWaits, Spare, Flagged, IsFlag,
                   App, Loader, flash, ram
<1>1. CASE FwStart
  BY <1>1, AppKeepsAsked DEF FwStart
<1>2. ASSUME NEW i \in Image, FwComplete(i) PROVE FwInv'
  BY <1>2, AppKeepsAsked DEF FwComplete
<1>3. ASSUME NEW i \in Image, NEW id \in 0..FwMax, FwChunk(i, id) PROVE FwInv'
  BY <1>3, AppKeepsAsked DEF FwChunk
<1>4. CASE AddFirst
  BY <1>4, AppKeepsAsked DEF AddFirst, Differs
<1>5. CASE AddUnit
  <2>1. /\ mode = "add" /\ mode' \in {"flush", "idle", "add"} /\ pos >= 0 /\ pos' = pos + 1 /\ pos + 1 <= FwMax
        /\ UNCHANGED <<flash, pending, next_chunk, crc, ready, to_run>>
    BY <1>5 DEF AddUnit
  <2> QED BY <2>1, AppKeepsAsked
<1>6. CASE TooBig
  <2>1. /\ mode = "add" /\ mode' = "idle" /\ pos' = -1 /\ pos >= 0
        /\ UNCHANGED <<flash, pending, next_chunk, crc, ready, to_run>>
    BY <1>6 DEF TooBig
  <2> QED BY <2>1, AppKeepsAsked
<1>7. CASE Flushed
  BY <1>7, AppKeepsAsked DEF Flushed, AfterFlush
<1>8. CASE FlushFails
  BY <1>8, AppKeepsAsked DEF FlushFails, AfterFlush
<1>9. CASE CheckCrc
  <2>1. crc \in Image /\ mode = "check" /\ crc' = NoImage /\ mode' \in App \ {"last", "check", "flush"}
        /\ UNCHANGED <<fw, new, cfg, next_chunk, to_run, copied>> /\ next_chunk = 0
    BY <1>9 DEF CheckCrc
  <2>2. CASE UNCHANGED <<pending, ready>> /\ pos' \in {pos, -1} /\ pos' = -1 /\ mode' \in {"idle", "fault"}
    BY <2>1, <2>2, AppKeepsAsked
  <2>3. CASE /\ pos = Length[crc] /\ Holds(new, crc) /\ pos' = -1 /\ pending' = FlagOf(crc) /\ ready' = crc
             /\ mode' = "commit" \/ (~Differs(pending') /\ mode' = "idle")
    <3>1. FlagOf(crc) \in Nat /\ Spare(FlagOf(crc))
      BY <2>1, <2>3 DEF FlagOf
    <3>2. CASE mode' = "commit"
      BY <2>1, <2>3, <3>1, <3>2, AppKeepsAsked
    <3>3. CASE mode' = "idle" /\ cfg.known /\ cfg.pending = pending'
      BY <2>1, <2>3, <3>1, <3>3, AppKeepsAsked
    <3> QED BY <2>3, <3>2, <3>3 DEF Differs
  <2>4. pos < 0 => pos = -1
    OBVIOUS
  <2> QED BY <1>9, <2>1, <2>2, <2>3, <2>4 DEF CheckCrc, FlagOf
<1>10. QED
  BY <1>1, <1>2, <1>3, <1>4, <1>5, <1>6, <1>7, <1>8, <1>9 DEF Download

\* The command "wipe" leaves an erased page.
LEMMA WipeKeeps ==
  ASSUME FwInv, Wipe
  PROVE  FwInv'
<1>1. /\ cfg' = [pending |-> AllOnes(PendingBits), known |-> FALSE]
      /\ mode' = "idle" /\ pending' = 0 /\ pos' = -1 /\ next_chunk' = 0
      /\ ready' = NoImage /\ UNCHANGED <<fw, to_run>> /\ mode = "idle"
  BY Widths DEF Wipe, StartApp
<1> QED BY <1>1, Widths DEF FwInv, TypeInv, FlagInv, PendingInv, DownloadInv, Downloading, AskedInv,
                            ReadyInv, App, Loader

\* A commit of the configuration (persist_config.c) and a restart of the
\* application, which takes the flag up again.
LEMMA ConfigKeeps ==
  ASSUME FwInv, Committed \/ Save \/ Reset
  PROVE  FwInv'
<1> USE Widths DEF FwInv, TypeInv, FlagInv, PendingInv, DownloadInv, Downloading,
                   ReadyInv, ReadyWaits, Spare, Flagged, IsFlag,
                   App, Loader, flash, ram
<1>1. CASE Committed
  <2>1. /\ mode = "commit" /\ mode' \in {"idle", "add"} /\ cfg' = [pending |-> pending, known |-> TRUE]
        /\ UNCHANGED <<fw, new, pending, pos, next_chunk, crc, ready, to_run>>
    BY <1>1 DEF Committed, ToCommit
  <2>2. pending # 0 => IsFlag(pending)
    BY <2>1, SpareFlag
  <2> QED BY <2>1, <2>2, AppKeepsAsked
<1>2. CASE Save
  BY <1>2, AppKeepsAsked DEF Save
<1>3. CASE Reset
  <2>1. /\ mode = "idle" /\ mode' = "idle" /\ pending' = (IF cfg.known THEN cfg.pending ELSE 0)
        /\ pos' = -1 /\ next_chunk' = 0 /\ UNCHANGED <<fw, new, cfg, ready, to_run>>
    BY <1>3 DEF Reset, StartApp
  <2> QED BY <2>1, AppKeepsAsked
<1>4. QED
  BY <1>1, <1>2, <1>3

-----------------------------------------------------------------------------
(* The bootloader, and power lost at any step.                             *)

\* It decides to copy, to clear a flag for which there is nothing, or to go on.
LEMMA LookKeeps ==
  ASSUME FwInv, BootLooks
  PROVE  FwInv'
<1>1. /\ mode = "boot" /\ copied' = 0
      /\ mode' = IF ~Flagged THEN "run" ELSE IF new[0] # Blank THEN "copy" ELSE "clear"
      /\ UNCHANGED <<fw, new, cfg, pending, pos, next_chunk, ready, to_run>>
  BY DEF BootLooks, flash, ram
<1>2. PageCount(cfg.pending) \in Nat
  BY NoPages DEF FwInv, TypeInv
<1>3. \A a \in Addr : ~(a \div PageLen < 0)
  BY InPage
<1> QED BY <1>1, <1>2, <1>3, Widths DEF FwInv, TypeInv, FlagInv, PendingInv, DownloadInv, Downloading,
           AskedInv, Covered, Flagged, Spare, ReadyInv, ReadyPages, App, Loader

\* A page is copied, or not all of it: the others are as they were.
LEMMA CopyingKeeps ==
  ASSUME FwInv, mode = "copy", copied < PageCount(cfg.pending), mode' \in {"boot", "copy", "stop"},
         \A a \in Addr : a \div PageLen # copied => fw'[a] = fw[a],
         UNCHANGED <<new, cfg, ready, to_run>>, pos' \in -1..FwMax, pending' \in Nat,
         mode' = "copy" => \/ copied' = copied
                           \/ /\ copied' = copied + 1
                              /\ \A a \in Addr : a \div PageLen = copied => fw'[a] = new[a]
  PROVE  FwInv'
<1>1. PageCount(cfg.pending) \in Nat /\ copied \in Nat /\ Flagged /\ new[0] # Blank
  BY NoPages DEF FwInv, TypeInv, FlagInv, AskedInv
<1>2. \A a \in Addr : a \div PageLen \in Nat /\ (a \div PageLen = copied => Covered(a))
  BY <1>1, InPage DEF Covered
<1>3. \A a \in Addr : Covered(a)' <=> Covered(a)
  BY DEF Covered, Flagged
<1>4. AskedInv'
  <2>1. \A a \in Addr : IF Covered(a)' THEN to_run'[a] = new'[a] ELSE fw'[a] = to_run'[a]
    BY <1>2, <1>3 DEF FwInv, AskedInv, Loader
  <2>2. mode' = "copy" => /\ copied' \in Nat /\ copied' <= PageCount(cfg'.pending)
                          /\ \A a \in Addr : a \div PageLen < copied' => fw'[a] = new'[a]
    BY <1>1, <1>2 DEF FwInv, AskedInv
  <2> QED BY <2>1, <2>2 DEF AskedInv, App
<1>5. TypeInv' /\ FlagInv' /\ PendingInv' /\ DownloadInv'
  BY <1>1 DEF FwInv, TypeInv, FlagInv, PendingInv, DownloadInv, Downloading, Flagged, Spare, App, Loader
<1>6. ReadyInv'
  BY DEF FwInv, ReadyInv, ReadyPages, App
<1> QED BY <1>4, <1>5, <1>6 DEF FwInv

\* What a write of a page leaves of the others, and of that page.
LEMMA OtherPages ==
  ASSUME NEW area, NEW p, NEW content, NEW n \in 0..PageLen
  PROVE  /\ \A a \in Addr : a \div PageLen # p => Written(area, p, content, n)[a] = area[a]
         /\ n = PageLen => \A a \in Addr : a \div PageLen = p => Written(area, p, content, n)[a] = content[a % PageLen]
BY InPage, Widths DEF Written

LEMMA CutOffPages ==
  ASSUME NEW area, NEW p, NEW content, NEW c \in CutOff(area, p, content)
  PROVE  \A a \in Addr : a \div PageLen # p => c[a] = area[a]
<1>1. CASE c = area
  BY <1>1
<1>2. ASSUME NEW n \in 0..PageLen, c = Written(area, p, content, n)
      PROVE  \A a \in Addr : a \div PageLen # p => c[a] = area[a]
  BY <1>2, OtherPages
<1> QED BY <1>1, <1>2 DEF CutOff

LEMMA CopyKeeps ==
  ASSUME FwInv, CopiesPage \/ CopyFails
  PROVE  FwInv'
<1>1. /\ mode = "copy" /\ copied < PageCount(cfg.pending) /\ mode' \in {"copy", "stop"}
      /\ UNCHANGED <<new, cfg, ready, to_run, pos, pending>>
  BY DEF CopiesPage, CopyFails, ram
<1>2. pos' \in -1..FwMax /\ pending' \in Nat
  BY <1>1 DEF FwInv, TypeInv
<1>3. CASE CopiesPage
  <2>1. fw' = Written(fw, copied, PageOf(new, copied), PageLen) /\ copied' = copied + 1
    BY <1>3 DEF CopiesPage
  <2>2. PageLen \in 0..PageLen
    BY Widths
  <2>3. \A a \in Addr : a \div PageLen = copied => PageOf(new, copied)[a % PageLen] = new[a]
    BY InPage DEF PageOf
  <2>4. \A a \in Addr : /\ a \div PageLen # copied => fw'[a] = fw[a]
                        /\ a \div PageLen = copied => fw'[a] = new[a]
    BY <2>1, <2>2, <2>3, OtherPages
  <2> QED BY <1>1, <1>2, <2>1, <2>4, CopyingKeeps
<1>4. CASE CopyFails
  <2>1. fw' \in CutOff(fw, copied, PageOf(new, copied)) /\ UNCHANGED copied
    BY <1>4 DEF CopyFails
  <2>2. \A a \in Addr : a \div PageLen # copied => fw'[a] = fw[a]
    BY <2>1, CutOffPages
  <2> QED BY <1>1, <1>2, <2>1, <2>2, CopyingKeeps
<1> QED BY <1>3, <1>4

\* All pages are copied when the flag is cleared.
LEMMA LoaderKeeps ==
  ASSUME FwInv, CopyEnds \/ ClearsFlag \/ RunsFirmware
  PROVE  FwInv'
<1> USE Widths DEF FwInv, TypeInv, FlagInv, PendingInv, DownloadInv, Downloading,
                   AskedInv, ReadyInv, ReadyPages, Spare, App, Loader, flash, ram
<1>1. CASE CopyEnds
  <2>1. /\ mode = "copy" /\ copied >= PageCount(cfg.pending) /\ mode' \in {"clear", "stop"}
        /\ UNCHANGED <<fw, new, cfg, pending, pos, next_chunk, ready, to_run>>
    BY <1>1 DEF CopyEnds
  <2>2. PageCount(cfg.pending) \in Nat
    BY NoPages
  <2>3. copied = PageCount(cfg.pending)
    BY <2>1, <2>2
  <2>4. \A a \in Addr : fw[a] = to_run[a]
    BY <2>1, <2>3 DEF Covered
  <2> QED BY <2>1, <2>4 DEF Covered, Flagged
<1>2. CASE ClearsFlag
  <2>1. /\ cfg' = [cfg EXCEPT !.pending = 0] /\ mode = "clear" /\ mode' = "run"
        /\ UNCHANGED <<fw, new, pending, pos, next_chunk, ready, to_run>>
    BY <1>2 DEF ClearsFlag, Cleared
  <2>2. cfg'.pending = 0 /\ cfg'.known = cfg.known /\ cfg' \in [pending : Nat, known : BOOLEAN]
    BY <2>1
  <2>3. ~Flagged'
    BY <2>2 DEF Flagged, IsFlag
  <2> QED BY <2>1, <2>2, <2>3 DEF Covered
<1>3. CASE RunsFirmware
  <2>1. /\ mode = "run" /\ UNCHANGED <<fw, new, cfg, ready, to_run>> /\ pos' \in {pos, -1}
        /\ \/ mode' = "stop" /\ UNCHANGED <<pending, next_chunk, pos>>
           \/ mode' = "idle" /\ StartApp
    BY <1>3 DEF RunsFirmware, StartApp
  <2>2. CASE mode' = "stop"
    BY <2>1, <2>2 DEF Covered, Flagged
  <2>3. CASE mode' = "idle" /\ StartApp
    <3>1. ready # NoImage => ReadyPages(to_run)
      BY <2>1
    <3>2. pending' = (IF cfg.known THEN cfg.pending ELSE 0) /\ pos' = -1 /\ next_chunk' = 0
      BY <2>1, <2>3 DEF StartApp
    <3>3. pending' # 0 => (cfg.known /\ IsFlag(cfg.pending)) \/ cfg.pending = AllOnes(WordBits)
      BY <3>2 DEF IsFlag
    <3> QED BY <2>1, <2>3, <3>1, <3>2, <3>3 DEF Flagged
  <2> QED BY <2>1, <2>2, <2>3
<1>4. QED
  BY <1>1, <1>2, <1>3

\* Whatever was being written when power was lost: the flag that is left, if it
\* was saved, is still of an image that is whole ...
LEMMA RebootFlag ==
  ASSUME FwInv, Reboot
  PROVE  /\ cfg' \in [pending : Nat, known : BOOLEAN]
         /\ cfg'.known /\ Flagged' => Spare(cfg.pending)'
         /\ IF cfg'.known THEN cfg'.pending # AllOnes(WordBits) ELSE cfg'.pending \in {0, AllOnes(PendingBits)}
<1> USE DEF FwInv, TypeInv, FlagInv, PendingInv, DownloadInv, Downloading, Flagged, Spare, App, Loader
<1>1. CASE mode \in {"flush", "last"}
  <2>1. cfg' = cfg /\ pending = 0
    BY <1>1 DEF Reboot
  <2>2. cfg.known => cfg.pending = 0
    BY <1>1, <2>1
  <2> QED BY <2>1, <2>2 DEF IsFlag
<1>2. CASE mode \notin {"flush", "last"} /\ cfg' = cfg
  BY <1>2 DEF Reboot
<1>3. CASE cfg' = ErasedConfig
  <2>1. cfg' = [pending |-> AllOnes(PendingBits), known |-> FALSE] /\ AllOnes(PendingBits) \in Nat
    BY <1>3, Widths
  <2> QED BY <2>1
<1>4. CASE mode = "commit" /\ cfg' = ToCommit
  <2>1. cfg' = [pending |-> pending, known |-> TRUE] /\ pending \in Nat /\ new' = new
    BY <1>4 DEF ToCommit, Reboot
  <2>2. pending # 0 => IsFlag(pending)
    BY <1>4, SpareFlag
  <2>3. pending # AllOnes(WordBits)
    BY <2>2, Widths DEF IsFlag
  <2>4. pending # 0 => Spare(pending)
    BY <1>4
  <2> QED BY <2>1, <2>3, <2>4 DEF IsFlag
<1>5. CASE mode = "clear" /\ cfg' = Cleared
  <2>1. cfg' = [cfg EXCEPT !.pending = 0]
    BY <1>5 DEF Cleared
  <2>2. cfg'.pending = 0 /\ cfg'.known = cfg.known /\ cfg' \in [pending : Nat, known : BOOLEAN]
    BY <2>1
  <2> QED BY <2>2, Widths DEF IsFlag
<1> QED BY <1>1, <1>2, <1>3, <1>4, <1>5 DEF Reboot

\* ... and a copy that was cut off stays inside the pages of its flag.
LEMMA RebootFirmware ==
  ASSUME FwInv, Reboot, NEW a \in Addr, ~Covered(a)'
  PROVE  fw'[a] = to_run[a]
<1>1. CASE mode \in App \cup {"clear", "run"}
  <2>1. fw' = fw
    BY <1>1 DEF Reboot, App
  <2> QED BY <1>1, <2>1 DEF FwInv, AskedInv
<1>2. CASE mode \in {"copy", "stop"}
  <2>1. UNCHANGED <<new, cfg>>
    BY <1>2 DEF Reboot
  <2>2. ~Covered(a)
    BY <2>1 DEF Covered, Flagged
  <2>3. fw[a] = to_run[a]
    BY <1>2, <2>2 DEF FwInv, AskedInv, Loader
  <2>4. CASE mode = "copy" /\ copied < PageCount(cfg.pending)
    <3>1. fw' \in CutOff(fw, copied, PageOf(new, copied))
      BY <2>4 DEF Reboot
    <3>2. a \div PageLen # copied
      BY <2>2, <2>4 DEF Covered, FwInv, FlagInv
    <3> QED BY <2>3, <3>1, <3>2, CutOffPages
  <2>5. CASE ~(mode = "copy" /\ copied < PageCount(cfg.pending))
    <3>1. fw' = fw
      BY <2>5 DEF Reboot
    <3> QED BY <2>3, <3>1
  <2> QED BY <2>4, <2>5
<1> QED BY <1>1, <1>2 DEF FwInv, TypeInv, Loader, Reboot

\* What is to run then.
LEMMA RebootAsks ==
  ASSUME FwInv, Reboot, NEW a \in Addr
  PROVE  to_run'[a] = IF Covered(a)' THEN new'[a] ELSE to_run[a]
<1>1. to_run' = Installed(to_run, new', cfg'.pending)
  BY DEF Reboot
<1> QED BY <1>1 DEF Installed, Covered, Flagged

LEMMA RebootReady ==
  ASSUME FwInv, Reboot, ready' # NoImage
  PROVE  ready' \in Image /\ Holds(new', ready') /\ ReadyPages(to_run)'
<1>1. ready' = ready /\ mode # "commit" /\ mode # "boot"
  BY DEF Reboot
<1>2. mode \notin {"flush", "last"} /\ new' = new
  BY <1>1 DEF Reboot, FwInv, DownloadInv, Downloading
<1>3. ready \in Image /\ Holds(new, ready) /\ Length[ready] \in Nat \ {0} /\ Length[ready] <= FwMax
  BY <1>1, Widths DEF FwInv, ReadyInv, Holds
<1>4. ASSUME NEW k \in 0..(Length[ready] - 1), k \div PageLen < PageCount(FlagOf(ready))
      PROVE  to_run'[k] = <<ready, k>>
  <2>1. k \in Addr /\ new[k] = <<ready, k>> /\ k \div PageLen \in Nat
    BY <1>3, Widths, InPage DEF Addr, Holds
  <2>2. CASE ReadyPages(to_run)
    BY <1>2, <1>4, <2>1, <2>2, RebootAsks DEF ReadyPages
  <2>3. CASE mode \in App /\ ReadyWaits
    <3>1. cfg.pending = FlagOf(ready) /\ cfg' = cfg
      BY <1>1, <2>3 DEF ReadyWaits, Reboot, App
    <3>2. FlagOf(ready) # 0
      BY <1>4, <2>1, NoPages
    <3>3. Spare(FlagOf(ready))
      BY <1>3 DEF Spare
    <3>4. IsFlag(FlagOf(ready)) /\ new[0] # Blank
      BY <3>2, <3>3, SpareFlag
    <3>5. Covered(k)'
      BY <1>2, <1>4, <3>1, <3>4 DEF Covered, Flagged
    <3> QED BY <1>2, <2>1, <3>5, RebootAsks
  <2> QED BY <1>1, <2>2, <2>3 DEF FwInv, ReadyInv
<1> QED BY <1>1, <1>2, <1>3, <1>4 DEF ReadyPages

LEMMA RebootKeeps ==
  ASSUME FwInv, Reboot
  PROVE  FwInv'
<1>1. mode' = "boot" /\ pending' = 0 /\ pos' = -1 /\ next_chunk' = 0
  BY DEF Reboot
<1>2. AskedInv'
  <2>1. \A a \in Addr : IF Covered(a)' THEN to_run'[a] = new'[a] ELSE fw'[a] = to_run'[a]
    BY RebootAsks, RebootFirmware
  <2> QED BY <1>1, <2>1 DEF AskedInv, App
<1>3. ReadyInv'
  BY RebootReady DEF ReadyInv
<1>4. TypeInv' /\ FlagInv' /\ PendingInv' /\ DownloadInv'
  BY <1>1, RebootFlag, Widths DEF TypeInv, FlagInv, PendingInv, DownloadInv, Downloading, App, Loader
<1> QED BY <1>2, <1>3, <1>4 DEF FwInv

-----------------------------------------------------------------------------
(* Every step, and the theorems.                                           *)

LEMMA FwInvStep ==
  ASSUME FwInv, [FwNext]_fwVars
  PROVE  FwInv'
<1>1. CASE Download
  BY <1>1, DownloadKeeps
<1>2. CASE Config
  BY <1>2, ConfigKeeps, WipeKeeps DEF Config
<1>3. CASE Boot
  BY <1>3, LookKeeps, CopyKeeps, LoaderKeeps DEF Boot
<1>4. CASE Reboot
  BY <1>4, RebootKeeps
<1>5. CASE UNCHANGED fwVars
  BY <1>5
  DEF fwVars, FwInv, TypeInv, FlagInv, PendingInv, DownloadInv, Downloading, AskedInv, Covered,
      ReadyInv, ReadyWaits, ReadyPages, Spare, Flagged, flash, ram
<1>6. QED
  BY <1>1, <1>2, <1>3, <1>4, <1>5 DEF FwNext

\* The invariant holds in every state of an update.
LEMMA FwAlways == FwSpec => []FwInv
<1>1. FwInit => FwInv
  BY FwInvInit
<1>2. FwInv /\ [FwNext]_fwVars => FwInv'
  BY FwInvStep
<1>3. QED
  BY <1>1, <1>2, PTL DEF FwSpec

\* For a flag of any width, the one bit of the code among them: a flag that was
\* saved is of an image that is whole in the spare area, and every boot starts
\* the firmware under all the pages of its flag, wherever power was lost
\* (bootloader.c, main).
THEOREM FwBootsAsFlagged == FwSpec => []BootsAsFlagged
<1>1. FwInv => BootsAsFlagged
  BY DEF FwInv, FlagInv, Spare, AskedInv, BootsAsFlagged
<1>2. QED
  BY <1>1, FwAlways, PTL

\* ... and of an update of which update.c said "New FW ready." as many pages are
\* in what starts as the flag kept of its size, unless a download, a wipe or a
\* loss of power in a commit took it back.
THEOREM FwReadyIsCopied == FwSpec => []ReadyIsCopied
<1>1. FwInv => ReadyIsCopied
  <2> SUFFICES ASSUME FwInv, mode = "run", ready # NoImage,
                      NEW k \in 0..(Length[ready] - 1), k \div PageLen < PageCount(FlagOf(ready))
               PROVE  fw[k] = <<ready, k>>
    BY DEF ReadyIsCopied
  <2>1. ready \in Image /\ Holds(new, ready) /\ ReadyPages(to_run)
    BY DEF FwInv, ReadyInv, App
  <2>2. k \in Addr
    BY <2>1, Widths DEF Holds, Addr
  <2> QED BY <2>1, <2>2 DEF FwInv, AskedInv, ReadyPages
<1>2. QED
  BY <1>1, FwAlways, PTL

\* What the variables hold needs a little more: a downlink being added has units
\* left.
FwTypes == FwTypeOK /\ (mode = "add" => todo # <<>>)

\* A page written, whole or cut off.
LEMMA PageWritten ==
  ASSUME NEW area \in [Addr -> Cell], NEW p, NEW content \in [0..(PageLen - 1) -> Cell]
  PROVE  /\ \A n \in 0..PageLen : Written(area, p, content, n) \in [Addr -> Cell]
         /\ CutOff(area, p, content) \subseteq [Addr -> Cell]
<1>1. PageLen \in Nat \ {0} /\ FwMax \in Int /\ Blank \in Cell
  BY FwAssumption DEF FwMax, Cell
<1>2. \A a \in Addr : a % PageLen \in 0..(PageLen - 1)
  BY <1>1 DEF Addr
<1>3. ASSUME NEW n \in 0..PageLen PROVE Written(area, p, content, n) \in [Addr -> Cell]
  <2>1. \A a \in Addr : area[a] \in Cell /\ content[a % PageLen] \in Cell
    BY <1>2
  <2>2. QED
    BY <1>1, <2>1, Zenon DEF Written
<1>4. QED
  BY <1>3 DEF CutOff

\* The bootloader copies no page that is not in the area.
LEMMA CopyInside ==
  ASSUME FwInv, mode = "copy", copied \in Nat, copied < PageCount(cfg.pending)
  PROVE  copied < FwPages
<1>1. cfg.pending <= FwMax
  <2>1. Flagged /\ cfg.pending # 0
    BY DEF FwInv, FlagInv, Flagged, IsFlag
  <2>2. CASE cfg.known
    BY <2>1, <2>2, SpareFlag DEF FwInv, FlagInv
  <2>3. CASE ~cfg.known
    BY <2>1, <2>3, Widths DEF FwInv, FlagInv, Flagged, IsFlag
  <2> QED BY <2>2, <2>3 DEF FwInv, TypeInv
<1>2. cfg.pending \in Nat /\ PageLen \in Nat \ {0} /\ FwPages \in Nat
  BY Widths DEF FwInv, TypeInv
<1>3. copied * PageLen < cfg.pending
  <2> DEFINE q == (cfg.pending + PageLen - 1) \div PageLen
  <2>1. copied + 1 <= q /\ q \in Nat
    BY <1>2 DEF PageCount
  <2>2. q * PageLen <= cfg.pending + PageLen - 1
    BY <1>2
  <2> HIDE DEF q
  <2>3. (copied + 1) * PageLen <= q * PageLen
    BY <1>2, <2>1
  <2>4. (copied + 1) * PageLen = copied * PageLen + PageLen
        /\ copied * PageLen \in Int /\ q * PageLen \in Int
    BY <1>2, <2>1
  <2>5. QED
    BY <1>2, <2>2, <2>3, <2>4
<1>4. copied * PageLen < FwPages * PageLen
  BY <1>1, <1>2, <1>3, Widths DEF FwMax
<1>5. QED
  BY <1>2, <1>4

\* The page it copies.
LEMMA PageTypes ==
  ASSUME FwTypes, NEW p \in 0..(FwPages - 1)
  PROVE  PageOf(new, p) \in [0..(PageLen - 1) -> Cell]
<1>1. PageLen \in Nat \ {0} /\ FwPages \in Nat
  BY FwAssumption
<1>2. ASSUME NEW k \in 0..(PageLen - 1) PROVE p * PageLen + k \in Addr
  <2>1. (p + 1) * PageLen <= FwPages * PageLen /\ (p + 1) * PageLen = p * PageLen + PageLen
        /\ p * PageLen \in Nat
    BY <1>1
  <2>2. QED
    BY <1>1, <2>1 DEF Addr, FwMax
<1>3. QED
  BY <1>2 DEF PageOf, FwTypes, FwTypeOK

LEMMA FwTypesInit == ASSUME FwInit PROVE FwTypes
<1>1. /\ FwMax \in Nat \ {0} /\ AllOnes(PendingBits) \in Nat \ {0}
      /\ PageLen \in Nat \ {0} /\ FwPages \in Nat
  BY Widths
<1>2. cfg \in [pending : 0..AllOnes(PendingBits), known : BOOLEAN]
  BY <1>1 DEF FwInit, ErasedConfig
<1>3. ASSUME NEW a \in Addr PROVE a < Length[Factory] => <<Factory, a>> \in Cell
  BY FwAssumption, <1>1 DEF Addr, Cell, AnyUnit, FwUnit
<1>4. fw \in [Addr -> Cell] /\ new \in [Addr -> Cell]
  BY <1>3, Zenon DEF FwInit, Cell
<1>5. page \in [0..(PageLen - 1) -> Cell]
  BY DEF FwInit, BlankPage, Cell
<1>6. QED
  BY <1>1, <1>2, <1>4, <1>5 DEF FwInit, FwTypes, FwTypeOK

\* A downlink brings the units of its chunk, one at least.
LEMMA ChunkTypes ==
  ASSUME NEW i \in Image, NEW id \in 0..FwMax, FwChunk(i, id)
  PROVE  todo' \in Seq(AnyUnit) /\ todo' # <<>>
<1>1. Length[i] \in Nat /\ ChunkLen \in Nat \ {0} /\ id \in Nat /\ id * ChunkLen < Length[i]
      /\ id * ChunkLen \in Nat /\ (id + 1) * ChunkLen = id * ChunkLen + ChunkLen
  BY FwAssumption DEF FwChunk, FwMax
<1> DEFINE m == IF (id + 1) * ChunkLen > Length[i] THEN Length[i] - id * ChunkLen ELSE ChunkLen
<1>2. m \in Nat /\ m >= 1 /\ id * ChunkLen + m <= Length[i]
  BY <1>1
<1>3. todo' = [n \in 1..m |-> <<i, id * ChunkLen + n - 1>>]
  BY DEF FwChunk
<1> HIDE DEF m
<1>4. ASSUME NEW n \in 1..m PROVE <<i, id * ChunkLen + n - 1>> \in AnyUnit
  <2>1. id * ChunkLen + n - 1 \in 0..(Length[i] - 1)
    BY <1>1, <1>2
  <2>2. QED
    BY <2>1 DEF AnyUnit, FwUnit
<1>5. todo' \in Seq(AnyUnit) /\ Len(todo') = m
  BY <1>2, <1>3, <1>4
<1>6. QED
  BY <1>2, <1>5

\* Downlinks and the steps of the download.
LEMMA DownloadTypes ==
  ASSUME FwInv, FwTypes, Download
  PROVE  FwTypes'
<1>1. /\ FwMax \in Nat \ {0} /\ PageLen \in Nat \ {0} /\ FwPages \in Nat
      /\ AllOnes(PendingBits) \in Nat \ {0}
      /\ BlankPage \in [0..(PageLen - 1) -> Cell]
  BY Widths, FwAssumption DEF BlankPage, Cell
<1> USE <1>1 DEF FwTypes, FwTypeOK, flash, ram
<1>2. CASE FwStart
  BY <1>2 DEF FwStart
<1>3. ASSUME NEW i \in Image, FwComplete(i) PROVE FwTypes'
  BY <1>3 DEF FwComplete
<1>4. ASSUME NEW i \in Image, NEW id \in 0..FwMax, FwChunk(i, id) PROVE FwTypes'
  <2>1. todo' \in Seq(AnyUnit) /\ todo' # <<>>
    BY <1>4, ChunkTypes
  <2>2. next_chunk' \in Nat
    BY <1>4 DEF FwChunk
  <2>3. QED
    BY <1>4, <2>1, <2>2 DEF FwChunk
<1>5. CASE AddFirst
  BY <1>5 DEF AddFirst
<1>6. CASE AddUnit
  <2>1. Head(todo) \in AnyUnit /\ Tail(todo) \in Seq(AnyUnit)
    BY <1>6 DEF AddUnit
  <2>2. pos % PageLen \in 0..(PageLen - 1) /\ page' \in [0..(PageLen - 1) -> Cell]
    BY <1>6, <2>1 DEF AddUnit, Cell
  <2>3. QED
    BY <1>6, <2>1, <2>2 DEF AddUnit
<1>7. CASE TooBig
  BY <1>7 DEF TooBig
<1>8. CASE Flushed
  <2>1. new' \in [Addr -> Cell]
    <3>1. new' = Written(new, FlushPage, page, PageLen)
      BY <1>8, Zenon DEF Flushed
    <3>2. /\ new \in [Addr -> Cell] /\ page \in [0..(PageLen - 1) -> Cell]
          /\ PageLen \in 0..PageLen
      BY <1>1
    <3>3. Written(new, FlushPage, page, PageLen) \in [Addr -> Cell]
      BY <3>2, PageWritten
    <3>4. QED
      BY <3>1, <3>3, Zenon
  <2>2. QED
    BY <1>8, <2>1 DEF Flushed, AfterFlush
<1>9. CASE FlushFails
  <2>1. CutOff(new, FlushPage, page) \subseteq [Addr -> Cell]
    BY PageWritten
  <2>2. new' \in [Addr -> Cell]
    <3>1. new' \in CutOff(new, FlushPage, page)
      BY <1>9, Zenon DEF FlushFails
    <3>2. QED
      BY <2>1, <3>1, Zenon
  <2>3. (tries + 1) % 3 \in 0..2
    OBVIOUS
  <2>4. CASE tries < 2
    BY <1>9, <2>2, <2>3, <2>4 DEF FlushFails
  <2>5. CASE ~(tries < 2)
    BY <1>9, <2>2, <2>3, <2>5 DEF FlushFails, AfterFlush
  <2>6. QED
    BY <2>4, <2>5
<1>10. CASE CheckCrc
  <2>1. pos >= 0 => pos % 2 ^ PendingBits \in 0..AllOnes(PendingBits)
    <3>1. pos >= 0 => pos \in Nat
      OBVIOUS
    <3> QED BY <3>1, Widths
  <2>2. crc \in Image
    BY <1>10 DEF CheckCrc, FwInv, TypeInv
  <2>3. QED
    BY <1>10, <2>1, <2>2 DEF CheckCrc
<1>11. QED
  BY <1>2, <1>3, <1>4, <1>5, <1>6, <1>7, <1>8, <1>9, <1>10 DEF Download

\* The commands, the bootloader and a loss of power.
LEMMA OthersTypes ==
  ASSUME FwInv, FwTypes, Config \/ Boot \/ Reboot
  PROVE  FwTypes'
<1> DEFINE CfgType == [pending : 0..AllOnes(PendingBits), known : BOOLEAN]
<1>1. /\ FwMax \in Nat \ {0} /\ PageLen \in Nat \ {0} /\ FwPages \in Nat
      /\ AllOnes(PendingBits) \in Nat \ {0}
      /\ BlankPage \in [0..(PageLen - 1) -> Cell]
  BY Widths, FwAssumption DEF BlankPage, Cell
<1>16. cfg \in CfgType /\ ErasedConfig \in CfgType /\ ToCommit \in CfgType /\ Cleared \in CfgType
  <2>1. cfg \in CfgType /\ pending \in 0..AllOnes(PendingBits)
    BY DEF FwTypes, FwTypeOK
  <2>2. ErasedConfig \in CfgType /\ ToCommit \in CfgType
    BY <1>1, <2>1 DEF ErasedConfig, ToCommit
  <2>3. Cleared = [pending |-> 0, known |-> cfg.known]
    BY <2>1 DEF Cleared
  <2>4. QED
    BY <1>1, <2>1, <2>2, <2>3
<1>2. /\ mode = "copy" /\ copied < PageCount(cfg.pending)
      => /\ copied < FwPages
         /\ CutOff(fw, copied, PageOf(new, copied)) \subseteq [Addr -> Cell]
         /\ Written(fw, copied, PageOf(new, copied), PageLen) \in [Addr -> Cell]
  <2>1. SUFFICES ASSUME mode = "copy", copied < PageCount(cfg.pending)
                 PROVE  /\ copied < FwPages
                        /\ CutOff(fw, copied, PageOf(new, copied)) \subseteq [Addr -> Cell]
                        /\ Written(fw, copied, PageOf(new, copied), PageLen) \in [Addr -> Cell]
    OBVIOUS
  <2>2. copied \in Nat /\ fw \in [Addr -> Cell]
    BY <1>1 DEF FwTypes, FwTypeOK
  <2>3. copied < FwPages /\ copied \in 0..(FwPages - 1)
    BY <1>1, <2>1, <2>2, CopyInside
  <2>4. PageOf(new, copied) \in [0..(PageLen - 1) -> Cell] /\ PageLen \in 0..PageLen
    BY <1>1, <2>3, PageTypes
  <2>5. QED
    BY <2>2, <2>3, <2>4, PageWritten
<1>3. CutOff(new, FlushPage, page) \subseteq [Addr -> Cell]
  BY PageWritten DEF FwTypes, FwTypeOK
<1> HIDE DEF CfgType
<1> USE <1>1, <1>16 DEF flash, ram, fwVars
<1>4. ASSUME StartApp, UNCHANGED <<copied, ready, to_run>>, fw' \in [Addr -> Cell], new' \in [Addr -> Cell],
             cfg' \in CfgType
      PROVE  FwTypes'
  BY <1>4 DEF FwTypes, FwTypeOK, StartApp, CfgType
<1>5. CASE Committed
  BY <1>5 DEF FwTypes, FwTypeOK, Committed, CfgType
<1>6. CASE Save
  BY <1>6 DEF FwTypes, FwTypeOK, Save
<1>7. CASE Reset
  BY <1>4, <1>7 DEF FwTypes, FwTypeOK, Reset
<1>8. CASE Wipe
  BY <1>8 DEF FwTypes, FwTypeOK, Wipe, StartApp, CfgType
<1>9. CASE BootLooks
  BY <1>9 DEF FwTypes, FwTypeOK, BootLooks
<1>10. CASE CopiesPage
  BY <1>2, <1>10 DEF FwTypes, FwTypeOK, CopiesPage
<1>11. CASE CopyFails
  <2>1. (tries + 1) % 3 \in 0..2
    BY DEF FwTypes, FwTypeOK
  <2>2. fw' \in [Addr -> Cell]
    BY <1>2, <1>11 DEF CopyFails
  <2>3. QED
    BY <1>11, <2>1, <2>2 DEF FwTypes, FwTypeOK, CopyFails
<1>12. CASE CopyEnds
  BY <1>12 DEF FwTypes, FwTypeOK, CopyEnds
<1>13. CASE ClearsFlag
  BY <1>13 DEF FwTypes, FwTypeOK, ClearsFlag, CfgType
<1>14. CASE RunsFirmware
  <2>1. fw' \in [Addr -> Cell] /\ new' \in [Addr -> Cell] /\ cfg' \in CfgType
        /\ UNCHANGED <<copied, ready, to_run>>
    BY <1>14 DEF FwTypes, FwTypeOK, RunsFirmware
  <2>2. CASE fw[0] = Blank
    BY <1>14, <2>2 DEF FwTypes, FwTypeOK, RunsFirmware
  <2>3. CASE fw[0] # Blank
    BY <1>4, <1>14, <2>1, <2>3 DEF RunsFirmware
  <2>4. QED
    BY <2>2, <2>3
<1>15. CASE Reboot
  <2>1. new' \in [Addr -> Cell]
    BY <1>3, <1>15 DEF FwTypes, FwTypeOK, Reboot
  <2>2. fw' \in [Addr -> Cell]
    BY <1>2, <1>15 DEF FwTypes, FwTypeOK, Reboot
  <2>3. cfg' \in CfgType
    BY <1>15 DEF Reboot
  <2>5. to_run' \in [Addr -> Cell]
    BY <1>15, <2>1 DEF FwTypes, FwTypeOK, Reboot, Installed
  <2>4. QED
    BY <1>15, <2>1, <2>2, <2>3, <2>5 DEF FwTypes, FwTypeOK, Reboot, CfgType
<1>17. QED
  BY <1>5, <1>6, <1>7, <1>8, <1>9, <1>10, <1>11, <1>12, <1>13, <1>14, <1>15 DEF Config, Boot

LEMMA FwTypesAlways == FwSpec => [](FwInv /\ FwTypes)
<1>1. FwInit => FwInv /\ FwTypes
  BY FwInvInit, FwTypesInit
<1>2. FwInv /\ FwTypes /\ [FwNext]_fwVars => FwInv' /\ FwTypes'
  <2>1. FwInv /\ FwTypes /\ FwNext => FwTypes'
    BY DownloadTypes, OthersTypes DEF FwNext
  <2>2. FwTypes /\ UNCHANGED fwVars => FwTypes'
    BY DEF fwVars, flash, ram, FwTypes, FwTypeOK
  <2>3. QED
    BY <2>1, <2>2, FwInvStep
<1>3. QED
  BY <1>1, <1>2, PTL DEF FwSpec

--------------------------------------------------------------------------------
(* What the run device checks of the types.                                *)

\* The master runs while the others stay as they are, or the update does.
LEMMA DeviceStep ==
  ASSUME MCMaster \/ MCValue \/ MCConfig \/ MCFirmware \/ UNCHANGED <<part, vars, valueVars, memVars, fwVars>>
  PROVE  [Next]_vars /\ [FwNext]_fwVars
BY DEF MCMaster, MCValue, MCConfig, MCFirmware

\* For any registers and devices, images, sizes and numbers of faults: the queue
\* of the master and its times stay in their bounds (modbus.c), a download in the
\* spare area and the copy in the firmware's (update.c, bootloader.c).
THEOREM DeviceKeepsTypes == MCSpec => []DeviceTypeOK
<1>1. MCInit => Init /\ FwInit
  BY DEF MCInit
<1>2. [MCMaster \/ MCValue \/ MCConfig \/ MCFirmware]_<<part, vars, valueVars, memVars, fwVars>>
      => [Next]_vars /\ [FwNext]_fwVars
  BY DeviceStep
<1>3. Spec => []TypeOK
  BY ModbusTypes
<1>4. FwSpec => [](FwInv /\ FwTypes)
  BY FwTypesAlways
<1>5. FwTypes => FwTypeOK
  BY DEF FwTypes
<1>6. QED
  BY <1>1, <1>2, <1>3, <1>4, <1>5, PTL DEF MCSpec, Spec, FwSpec, DeviceTypeOK

--------------------------------------------------------------------------------
(* The modbus configuration.                                               *)

\* A set of naturals has a least element; and induction.
LEMMA LeastNat ==
  ASSUME NEW T, T \subseteq Nat, T # {}
  PROVE  \E m \in T : \A y \in T : m <= y
<1>1. PICK R : /\ IsWellFoundedOn(R, Nat)
               /\ \A i, j \in Nat : i < j => <<i, j>> \in R
  <2>1. IsWellFoundedOn(OpToRel(<, Nat), Nat)
    BY NatLessThanWellFounded, Zenon
  <2>2. \A i, j \in Nat : i < j => <<i, j>> \in OpToRel(<, Nat)
    BY Zenon DEF OpToRel
  <2>3. QED
    BY <2>1, <2>2, Zenon
<1>2. IsWellFoundedOn(R, Nat)
  BY <1>1
<1>3. PICK m \in T : \A y \in T : ~ (<<y, m>> \in R)
  BY <1>2, WFMin, Zenon
<1>4. \A y \in T : ~(y < m)
  BY <1>1, <1>3
<1>5. QED
  BY <1>3, <1>4

LEMMA NatInduct ==
  ASSUME NEW T, 0 \in T, \A n \in Nat : n \in T => n + 1 \in T
  PROVE  Nat \subseteq T
<1> DEFINE U == Nat \ T
<1>1. SUFFICES ASSUME U # {} PROVE FALSE
  OBVIOUS
<1>2. PICK m \in U : \A y \in U : m <= y
  <2>1. U \subseteq Nat
    OBVIOUS
  <2> HIDE DEF U
  <2>2. QED
    BY <1>1, <2>1, LeastNat
<1>3. m # 0 /\ m - 1 \in Nat /\ m - 1 \notin U
  BY <1>2
<1>4. QED
  BY <1>2, <1>3

-----------------------------------------------------------------------------
(* Chains of blocks.                                                       *)

NextOf(b) == mem.blocks[b].next

\* A chain goes from a block to its next.
LEMMA ChainIs ==
  ASSUME NEW h
  PROVE  /\ Chain(h)[0] = h
         /\ \A i \in 1..Blocks :
              Chain(h)[i] = IF Chain(h)[i - 1] = 0 THEN 0 ELSE NextOf(Chain(h)[i - 1])
<1> DEFINE Step(f, i) == IF i = 0 THEN h
                         ELSE IF f[i - 1] = 0 THEN 0 ELSE mem.blocks[f[i - 1]].next
           IsOn(f, n) == f = [i \in 0..n |-> Step(f, i)]
           T == {n \in Nat : \E f : IsOn(f, n)}
<1>1. 0 \in T
  <2> DEFINE g == [i \in 0..0 |-> h]
  <2>1. IsOn(g, 0)
    OBVIOUS
  <2>2. QED
    BY <2>1
<1>2. ASSUME NEW n \in Nat, n \in T PROVE n + 1 \in T
  <2>1. PICK f : IsOn(f, n)
    BY <1>2
  <2> DEFINE g == [i \in 0..(n + 1) |->
                     IF i = n + 1 THEN IF f[n] = 0 THEN 0 ELSE mem.blocks[f[n]].next
                     ELSE f[i]]
  <2>2. \A i \in 0..n : g[i] = f[i] /\ f[i] = Step(f, i)
    <3>1. \A i \in 0..n : i \in 0..(n + 1) /\ i # n + 1
      OBVIOUS
    <3>2. \A i \in 0..n : g[i] = f[i]
      BY <3>1, Zenon
    <3>3. \A i \in 0..n : f[i] = Step(f, i)
      <4> HIDE DEF Step
      <4>1. QED
        BY <2>1, Zenon
    <3>4. QED
      BY <3>2, <3>3, Zenon
  <2>3. ASSUME NEW i \in 0..(n + 1) PROVE g[i] = Step(g, i)
    <3>1. CASE i = n + 1
      <4>1. g[n] = f[n] /\ i - 1 = n /\ i # 0
        BY <2>2, <3>1
      <4>2. QED
        BY <3>1, <4>1
    <3>2. CASE i = 0
      <4>1. i \in 0..n /\ i # n + 1
        BY <3>2
      <4>2. g[i] = f[i] /\ f[i] = h
        BY <2>2, <3>2, <4>1
      <4>3. QED
        BY <3>2, <4>2
    <3>3. CASE i # n + 1 /\ i # 0
      <4>1. i - 1 \in 0..n /\ i \in 0..n
        BY <3>3
      <4>2. QED
        BY <2>2, <4>1, <3>3
    <3>4. QED
      BY <3>1, <3>2, <3>3
  <2>4. g = [i \in 0..(n + 1) |-> g[i]]
    OBVIOUS
  <2>5. IsOn(g, n + 1)
    <3> HIDE DEF g, Step
    <3>1. QED
      BY <2>3, <2>4
  <2>6. QED
    <3>1. n + 1 \in Nat /\ \E f1 : IsOn(f1, n + 1)
      <4> HIDE DEF IsOn
      <4>1. QED
        BY <2>5
    <3>2. QED
      BY <3>1
<1>3. Blocks \in Nat /\ Blocks \in T
  <2>1. Nat \subseteq T
    <3> HIDE DEF T
    <3>1. QED
      BY <1>1, <1>2, NatInduct
  <2>2. QED
    BY <2>1, ModbusMemAssumption
<1>4. IsOn(Chain(h), Blocks)
  <2>1. PICK f : IsOn(f, Blocks)
    BY <1>3
  <2>2. Chain(h) = CHOOSE f1 : IsOn(f1, Blocks)
    BY DEF Chain
  <2>3. QED
    <3> HIDE DEF IsOn
    <3>1. QED
      BY <2>1, <2>2, Zenon
<1>5. \A i \in 0..Blocks : Chain(h)[i] = Step(Chain(h), i)
  BY <1>4
<1>6. QED
  <2>1. (\A i \in 1..Blocks : i \in 0..Blocks /\ i # 0) /\ 0 \in 0..Blocks
    BY <1>3
  <2>2. QED
    BY <1>5, <2>1 DEF NextOf

\* A chain stays in a list that goes on within itself, with falling stamps, and
\* so is at its end after all blocks.
LEMMA ChainEnds ==
  ASSUME NEW L \in SUBSET Block, NEW h, h # 0 => h \in L, NEW stamp \in [Block -> Nat],
         \A b \in L : NextOf(b) # 0 => NextOf(b) \in L /\ stamp[NextOf(b)] < stamp[b]
  PROVE  /\ \A i \in 0..Blocks : Chain(h)[i] # 0 => Chain(h)[i] \in L
         /\ Chain(h)[Blocks] = 0
<1> DEFINE C(i) == Chain(h)[i]
<1>0. Blocks \in Nat
  BY ModbusMemAssumption
<1>1. /\ C(0) = h
      /\ \A i \in 1..Blocks : C(i) = IF C(i - 1) = 0 THEN 0 ELSE NextOf(C(i - 1))
  BY ChainIs
<1> HIDE DEF C
<1>2. \A i \in 0..Blocks : C(i) # 0 => C(i) \in L
  <2> DEFINE T == {n \in Nat : n <= Blocks => (C(n) # 0 => C(n) \in L)}
  <2>1. 0 \in T
    BY <1>1
  <2>2. ASSUME NEW n \in Nat, n \in T PROVE n + 1 \in T
    <3>1. SUFFICES ASSUME n + 1 <= Blocks, C(n + 1) # 0 PROVE C(n + 1) \in L
      OBVIOUS
    <3>2. n + 1 \in 1..Blocks /\ (n + 1) - 1 = n /\ n <= Blocks
      BY <1>0, <3>1
    <3>3. C(n + 1) = IF C(n) = 0 THEN 0 ELSE NextOf(C(n))
      BY <1>1, <3>2
    <3>4. C(n) # 0 /\ C(n) \in L
      BY <2>2, <3>1, <3>2, <3>3
    <3>5. QED
      BY <3>1, <3>3, <3>4
  <2>3. Nat \subseteq T
    <3> HIDE DEF T
    <3>1. QED
      BY <2>1, <2>2, NatInduct
  <2>4. QED
    BY <1>0, <2>3
<1>3. ASSUME NEW i \in 0..Blocks, NEW j \in 0..Blocks, i < j, C(j) # 0
      PROVE  C(i) # 0 /\ stamp[C(j)] < stamp[C(i)]
  <2> DEFINE T == {n \in Nat : i + (n + 1) <= Blocks /\ C(i + (n + 1)) # 0 =>
                                 C(i) # 0 /\ stamp[C(i + (n + 1))] < stamp[C(i)]}
  <2>1. ASSUME NEW k \in 1..Blocks, C(k) # 0
        PROVE  C(k - 1) # 0 /\ C(k - 1) \in Block /\ C(k) \in Block /\ stamp[C(k)] < stamp[C(k - 1)]
    <3>1. C(k) = NextOf(C(k - 1)) /\ C(k - 1) # 0 /\ k - 1 \in 0..Blocks
      BY <1>0, <1>1, <2>1
    <3>2. C(k - 1) \in L /\ C(k) \in L
      BY <1>2, <2>1, <3>1
    <3>3. QED
      BY <2>1, <3>1, <3>2
  <2>2. 0 \in T
    <3>1. SUFFICES ASSUME i + (0 + 1) <= Blocks, C(i + (0 + 1)) # 0
                   PROVE  C(i) # 0 /\ stamp[C(i + (0 + 1))] < stamp[C(i)]
      OBVIOUS
    <3>2. i + (0 + 1) \in 1..Blocks /\ (i + (0 + 1)) - 1 = i
      BY <1>0, <3>1
    <3>3. QED
      BY <2>1, <3>1, <3>2
  <2>3. ASSUME NEW n \in Nat, n \in T PROVE n + 1 \in T
    <3>1. SUFFICES ASSUME i + ((n + 1) + 1) <= Blocks, C(i + ((n + 1) + 1)) # 0
                   PROVE  C(i) # 0 /\ stamp[C(i + ((n + 1) + 1))] < stamp[C(i)]
      OBVIOUS
    <3>2. /\ i + ((n + 1) + 1) \in 1..Blocks /\ (i + ((n + 1) + 1)) - 1 = i + (n + 1)
          /\ i + (n + 1) <= Blocks /\ i + (n + 1) \in 1..Blocks
      BY <1>0, <3>1
    <3> DEFINE p == C(i + (n + 1))
               q == C(i + ((n + 1) + 1))
    <3>3. p # 0 /\ p \in Block /\ q \in Block /\ stamp[q] < stamp[p]
      BY <2>1, <3>1, <3>2
    <3>4. C(i) # 0 /\ stamp[p] < stamp[C(i)]
      BY <2>3, <3>2, <3>3
    <3>5. C(i) \in Block
      BY <1>2, <3>4
    <3>6. stamp[p] \in Nat /\ stamp[q] \in Nat /\ stamp[C(i)] \in Nat
      BY <3>3, <3>5
    <3> HIDE DEF p, q
    <3>7. stamp[q] < stamp[C(i)]
      BY <3>3, <3>4, <3>6
    <3>8. QED
      BY <3>4, <3>7 DEF q
  <2>4. Nat \subseteq T
    <3> HIDE DEF T
    <3>1. QED
      BY <2>2, <2>3, NatInduct
  <2>5. PICK n \in Nat : i + (n + 1) = j
    <3>1. j - i - 1 \in Nat /\ i + ((j - i - 1) + 1) = j
      BY <1>0, <1>3
    <3>2. QED
      BY <3>1
  <2>6. n \in T
    BY <2>4
  <2>7. QED
    BY <1>3, <2>5, <2>6
<1>4. C(Blocks) = 0
  <2> SUFFICES ASSUME C(Blocks) # 0 PROVE FALSE
    OBVIOUS
  <2> DEFINE f == [i \in 0..Blocks |-> C(i)]
  <2>1. \A i \in 0..Blocks : C(i) \in Block
    <3>1. \A i \in 0..Blocks : i < Blocks \/ i = Blocks
      BY <1>0
    <3>2. Blocks \in 0..Blocks
      BY <1>0
    <3>3. QED
      BY <1>2, <1>3, <3>1, <3>2
  <2>2. f \in [0..Blocks -> Block]
    BY <2>1
  <2>3. /\ IsFiniteSet(0..Blocks) /\ Cardinality(0..Blocks) = Blocks + 1
        /\ IsFiniteSet(Block) /\ Cardinality(Block) = Blocks
    <3>1. /\ IsFiniteSet(0..Blocks)
          /\ Cardinality(0..Blocks) = IF 0 > Blocks THEN 0 ELSE Blocks - 0 + 1
          /\ IsFiniteSet(1..Blocks)
          /\ Cardinality(1..Blocks) = IF 1 > Blocks THEN 0 ELSE Blocks - 1 + 1
      BY <1>0, FS_Interval
    <3>2. QED
      BY <1>0, <3>1 DEF Block
  <2>4. PICK i, j \in 0..Blocks : i # j /\ f[i] = f[j]
    <3> DEFINE A == 0..Blocks
    <3>1. IsFiniteSet(A) /\ IsFiniteSet(Block) /\ Cardinality(Block) < Cardinality(A)
      BY <1>0, <2>3
    <3>2. f \in [A -> Block]
      BY <2>2
    <3> HIDE DEF f, A
    <3>3. \E i, j \in A : i # j /\ f[i] = f[j]
      BY <3>1, <3>2, FS_PigeonHole
    <3>4. QED
      BY <3>3 DEF A
  <2>5. C(i) = C(j) /\ C(i) \in Block /\ C(i) # 0 /\ stamp[C(i)] \in Nat
    BY <1>0, <2>1, <2>4 DEF Block
  <2>6. i < j \/ j < i
    BY <2>4
  <2>7. QED
    BY <1>3, <2>5, <2>6
<1>5. QED
  BY <1>2, <1>4 DEF C

\* The list of a head: the blocks that are next of one of it, or the head.
LEMMA ListIs ==
  ASSUME NEW L \in SUBSET Block, NEW h, h # 0 => h \in L, NEW stamp \in [Block -> Nat],
         NEW top \in Nat, \A b \in Block : stamp[b] <= top,
         \A b \in L : NextOf(b) # 0 => NextOf(b) \in L /\ stamp[NextOf(b)] < stamp[b],
         \A b \in L : b = h \/ \E p \in L : NextOf(p) = b
  PROVE  Reached(h) = L /\ Chain(h)[Blocks] = 0
<1>0. Blocks \in Nat /\ 0 \notin L
  BY ModbusMemAssumption DEF Block
<1>1. /\ \A i \in 0..Blocks : Chain(h)[i] # 0 => Chain(h)[i] \in L
      /\ Chain(h)[Blocks] = 0
  BY ChainEnds
<1>2. Reached(h) \subseteq L
  BY <1>1 DEF Reached
<1> DEFINE U == L \ Reached(h)
<1>3. ASSUME U # {} PROVE FALSE
  <2> DEFINE D == {top - stamp[b] : b \in U}
  <2>1. D \subseteq Nat /\ D # {}
    BY <1>3
  <2>2. PICK m \in D : \A y \in D : m <= y
    <3> HIDE DEF D
    <3>1. QED
      BY <2>1, LeastNat
  <2>3. PICK b \in U : m = top - stamp[b]
    BY <2>2
  <2>4. \A c \in U : stamp[c] <= stamp[b]
    <3>1. \A c \in U : top - stamp[c] \in D /\ stamp[c] \in Nat
      OBVIOUS
    <3> HIDE DEF D, U
    <3>2. stamp[b] \in Nat
      BY <2>3, <3>1
    <3>3. QED
      BY <2>2, <2>3, <3>1, <3>2
  <2>5. b # h
    <3>1. Chain(h)[0] = h /\ 0 \in 0..Blocks
      BY <1>0, ChainIs
    <3>2. b # 0 /\ b \notin Reached(h)
      BY <1>0, <2>3
    <3>3. QED
      BY <3>1, <3>2 DEF Reached
  <2>6. PICK p \in L : NextOf(p) = b
    BY <2>3, <2>5
  <2>7. stamp[b] < stamp[p] /\ stamp[b] \in Nat /\ stamp[p] \in Nat
    BY <1>0, <2>3, <2>6
  <2>8. p \notin U
    BY <2>4, <2>7
  <2>9. PICK i \in 0..Blocks : Chain(h)[i] = p
    BY <2>6, <2>8 DEF Reached
  <2>10. i # Blocks
    BY <1>0, <1>1, <2>6, <2>9
  <2>11. i + 1 \in 1..Blocks /\ i + 1 \in 0..Blocks /\ (i + 1) - 1 = i
    BY <1>0, <2>10
  <2>12. Chain(h)[i + 1] = b
    BY <1>0, <2>6, <2>9, <2>11, ChainIs
  <2>13. b \in Reached(h)
    BY <1>0, <2>3, <2>11, <2>12 DEF Reached
  <2>14. QED
    BY <2>3, <2>13
<1>4. QED
  BY <1>1, <1>2, <1>3

-----------------------------------------------------------------------------
(* A block is moved from list to list.                                     *)

ListId == 0..(Blocks + 1)

\* The lists, given as the next of each block and the head of each list: lst[b]
\* is the list b is in.  A block is next of one block at most, or is a head, and
\* stamps, that fall along a list, say there is no cycle.
Linked(next, heads, lst, stamp, top) ==
  /\ next \in [Block -> 0..Blocks] /\ heads \in [ListId -> 0..Blocks]
  /\ lst \in [Block -> ListId] /\ stamp \in [Block -> Nat]
  /\ top \in Nat /\ \A b \in Block : stamp[b] <= top
  /\ \A l \in ListId : heads[l] # 0 => lst[heads[l]] = l
  /\ \A b \in Block : next[b] # 0 => /\ lst[next[b]] = lst[b] /\ stamp[next[b]] < stamp[b]
                                     /\ next[b] # heads[lst[b]]
  /\ \A b, c \in Block : next[b] = next[c] /\ next[b] # 0 => b = c
  /\ \A b \in Block : b = heads[lst[b]] \/ \E p \in Block : next[p] = b

\* A block is taken out of its list: from its head, or from after p.
Put(f, a, v) == [f EXCEPT ![a] = v]
Out(next, heads, lst, b, next1, head1) ==
  \/ heads[lst[b]] = b /\ next1 = next /\ head1 = Put(heads, lst[b], next[b])
  \/ \E p \in Block : next[p] = b /\ head1 = heads /\ next1 = Put(next, p, next[b])

\* A block b is out of its list and put at the head of list k, with the
\* highest stamp: the lists are again as they should be.
LEMMA Move ==
  ASSUME NEW next, NEW heads, NEW lst, NEW stamp, NEW top, Linked(next, heads, lst, stamp, top),
         NEW b \in Block, NEW k \in ListId, k # lst[b],
         NEW next1, NEW head1, Out(next, heads, lst, b, next1, head1)
  PROVE  Linked(Put(next1, b, heads[k]), Put(head1, k, b), Put(lst, b, k), Put(stamp, b, top + 1), top + 1)
<1> DEFINE n2 == [next1 EXCEPT ![b] = heads[k]]
           h2 == [head1 EXCEPT ![k] = b]
           l2 == [lst EXCEPT ![b] = k]
           s2 == [stamp EXCEPT ![b] = top + 1]
<1>0. /\ next \in [Block -> 0..Blocks] /\ heads \in [ListId -> 0..Blocks]
      /\ lst \in [Block -> ListId] /\ stamp \in [Block -> Nat] /\ top \in Nat
      /\ Blocks \in Nat /\ Block = 1..Blocks
  BY ModbusMemAssumption DEF Linked, Block
<1>a. \A i \in ListId : heads[i] = 0 \/ (heads[i] \in Block /\ lst[heads[i]] = i)
  BY <1>0 DEF Linked
<1>b. \A c \in Block : \/ next[c] = 0
                       \/ /\ next[c] \in Block /\ lst[next[c]] = lst[c]
                          /\ stamp[next[c]] < stamp[c] /\ next[c] # heads[lst[c]]
  BY <1>0 DEF Linked
<1>c. \A c, d \in Block : next[c] = next[d] /\ next[c] # 0 => c = d
  BY DEF Linked
<1>d. \A c \in Block : c = heads[lst[c]] \/ \E p \in Block : next[p] = c
  BY DEF Linked
<1>e. \A c \in Block : stamp[c] \in Nat /\ stamp[c] <= top /\ lst[c] \in ListId
  BY DEF Linked
<1>f. 0 \notin Block
  BY <1>0
<1>l. PICK l : l = lst[b]
  OBVIOUS
<1>g. PICK g : g = next[b]
  OBVIOUS
<1>h. PICK h : h = heads[k]
  OBVIOUS
<1>2. /\ l \in ListId /\ h # b /\ b # 0 /\ l # k
      /\ g \in 0..Blocks /\ h \in 0..Blocks
  BY <1>0, <1>a, <1>e, <1>f, <1>l, <1>g, <1>h
<1>3. g # 0 => g \in Block /\ g # b /\ lst[g] = l /\ stamp[g] < stamp[b] /\ g # heads[l]
  BY <1>b, <1>e, <1>l, <1>g
<1>4. h # 0 => h \in Block /\ lst[h] = k
  BY <1>a, <1>h
<1>5. /\ l2 \in [Block -> ListId] /\ s2 \in [Block -> Nat]
      /\ \A c \in Block : l2[c] = (IF c = b THEN k ELSE lst[c]) /\ s2[c] = (IF c = b THEN top + 1 ELSE stamp[c])
      /\ \A c \in Block : s2[c] <= top + 1
  <2>1. l2 \in [Block -> ListId] /\ \A c \in Block : l2[c] = IF c = b THEN k ELSE lst[c]
    BY <1>0
  <2>2. s2 \in [Block -> Nat] /\ \A c \in Block : s2[c] = IF c = b THEN top + 1 ELSE stamp[c]
    BY <1>0
  <2>3. \A c \in Block : s2[c] <= top + 1
    <3> HIDE DEF s2
    <3>1. SUFFICES ASSUME NEW c \in Block PROVE s2[c] <= top + 1
      OBVIOUS
    <3>2. s2[c] = (IF c = b THEN top + 1 ELSE stamp[c]) /\ stamp[c] \in Nat /\ stamp[c] <= top
      BY <1>e, <2>2
    <3>3. top \in Nat
      BY <1>0
    <3>4. QED
      BY <3>2, <3>3
  <2>4. QED
    BY <2>1, <2>2, <2>3
<1>6. \A c \in Block : next[c] = b => lst[c] = l /\ stamp[b] < stamp[c] /\ c # b /\ heads[l] # b
  BY <1>b, <1>e, <1>f, <1>l
<1>7. /\ n2 \in [Block -> 0..Blocks] /\ h2 \in [ListId -> 0..Blocks]
      /\ \A i \in ListId : h2[i] = IF i = k THEN b ELSE IF i = l /\ heads[l] = b THEN g ELSE heads[i]
      /\ \A c \in Block : n2[c] = IF c = b THEN h ELSE IF next[c] = b THEN g ELSE next[c]
  <2>0. b \in 0..Blocks
    BY <1>0
  <2>1. CASE heads[l] = b /\ next1 = next /\ head1 = [heads EXCEPT ![l] = g]
    <3>1. \A c \in Block : next[c] # b
      BY <1>6, <2>1
    <3>2. /\ n2 \in [Block -> 0..Blocks]
          /\ \A c \in Block : n2[c] = IF c = b THEN h ELSE next[c]
      BY <1>0, <1>2, <1>h, <2>1
    <3>3. /\ h2 \in [ListId -> 0..Blocks]
          /\ \A i \in ListId : h2[i] = IF i = k THEN b ELSE IF i = l THEN g ELSE heads[i]
      BY <1>0, <1>2, <2>0, <2>1
    <3> HIDE DEF n2, h2
    <3>4. QED
      BY <2>1, <3>1, <3>2, <3>3
  <2>2. ASSUME NEW p \in Block, next[p] = b, head1 = heads, next1 = [next EXCEPT ![p] = g]
        PROVE  <1>7!:
    <3>1. heads[l] # b /\ \A c \in Block : next[c] = b => c = p
      BY <1>6, <1>c, <1>2, <2>2
    <3>2. /\ n2 \in [Block -> 0..Blocks]
          /\ \A c \in Block : n2[c] = IF c = b THEN h ELSE IF c = p THEN g ELSE next[c]
      BY <1>0, <1>2, <1>h, <2>2
    <3>3. /\ h2 \in [ListId -> 0..Blocks]
          /\ \A i \in ListId : h2[i] = IF i = k THEN b ELSE heads[i]
      BY <1>0, <1>2, <2>0, <2>2
    <3> HIDE DEF n2, h2
    <3>4. QED
      BY <2>2, <3>1, <3>2, <3>3
  <2>3. QED
    BY <1>l, <1>g, <2>1, <2>2 DEF Out, Put
<1> HIDE DEF n2, h2, l2, s2
<1>8. \A i \in ListId : h2[i] # 0 => l2[h2[i]] = i
  <2> SUFFICES ASSUME NEW i \in ListId, h2[i] # 0 PROVE l2[h2[i]] = i
    OBVIOUS
  <2>1. CASE i = k
    BY <1>5, <1>7, <2>1
  <2>2. CASE i # k /\ i = l /\ heads[l] = b
    BY <1>3, <1>5, <1>7, <2>2
  <2>3. CASE i # k /\ ~(i = l /\ heads[l] = b)
    <3>1. h2[i] = heads[i] /\ heads[i] \in Block /\ lst[heads[i]] = i
      BY <1>7, <1>a, <2>3
    <3>2. heads[i] # b
      BY <1>l, <2>3, <3>1
    <3>3. QED
      BY <1>5, <3>1, <3>2
  <2>4. QED
    BY <2>1, <2>2, <2>3
<1>9. \A c \in Block : n2[c] # 0 => /\ l2[n2[c]] = l2[c] /\ s2[n2[c]] < s2[c] /\ n2[c] # h2[l2[c]]
  <2> SUFFICES ASSUME NEW c \in Block, n2[c] # 0
               PROVE  /\ l2[n2[c]] = l2[c] /\ s2[n2[c]] < s2[c] /\ n2[c] # h2[l2[c]]
    OBVIOUS
  <2>1. CASE c = b
    <3>1. n2[c] = h /\ h # 0 /\ h \in Block /\ lst[h] = k /\ h # b
      BY <1>2, <1>4, <1>7, <2>1
    <3>2. stamp[h] \in Nat /\ stamp[h] <= top /\ s2[h] = stamp[h] /\ s2[c] = top + 1
      BY <1>5, <1>e, <2>1, <3>1
    <3>3. l2[h] = k /\ l2[c] = k /\ h2[k] = b
      BY <1>5, <1>7, <2>1, <3>1
    <3>4. QED
      BY <1>0, <3>1, <3>2, <3>3
  <2>2. CASE c # b /\ next[c] = b
    <3>1. n2[c] = g /\ g # 0 /\ g \in Block /\ g # b /\ lst[g] = l /\ stamp[g] < stamp[b] /\ g # heads[l]
      BY <1>3, <1>7, <2>2
    <3>2. lst[c] = l /\ stamp[b] < stamp[c] /\ heads[l] # b
      BY <1>6, <2>2
    <3>3. stamp[g] \in Nat /\ stamp[b] \in Nat /\ stamp[c] \in Nat
      BY <1>e, <3>1
    <3>4. h2[l] = heads[l]
      BY <1>2, <1>7, <3>2
    <3>5. s2[g] = stamp[g] /\ s2[c] = stamp[c] /\ l2[g] = l /\ l2[c] = l
      BY <1>5, <2>2, <3>1, <3>2
    <3>6. QED
      BY <3>1, <3>2, <3>3, <3>4, <3>5
  <2>3. CASE c # b /\ next[c] # b
    <3>0. n2[c] = next[c] /\ next[c] # 0
      BY <1>7, <2>3
    <3>1. /\ next[c] \in Block /\ lst[next[c]] = lst[c]
          /\ stamp[next[c]] < stamp[c] /\ next[c] # heads[lst[c]] /\ lst[c] \in ListId
      BY <1>b, <1>e, <3>0
    <3>2. h2[lst[c]] # next[c]
      <4>1. next[c] # g
        BY <1>c, <1>g, <2>3, <3>0
      <4>2. QED
        BY <1>7, <2>3, <3>1, <4>1
    <3>3. s2[next[c]] = stamp[next[c]] /\ s2[c] = stamp[c] /\ l2[next[c]] = lst[next[c]] /\ l2[c] = lst[c]
      BY <1>5, <2>3, <3>1
    <3>4. QED
      BY <3>0, <3>1, <3>2, <3>3
  <2>4. QED
    BY <2>1, <2>2, <2>3
<1>10. \A c, d \in Block : n2[c] = n2[d] /\ n2[c] # 0 => c = d
  <2>1. ASSUME NEW c \in Block, next[c] = h, h # 0 PROVE FALSE
    BY <1>b, <1>4, <1>h, <2>1
  <2>2. ASSUME NEW c \in Block, c # b, next[c] = g, g # 0 PROVE FALSE
    BY <1>c, <1>g, <2>2
  <2>3. g # 0 => g # h
    BY <1>2, <1>3, <1>4
  <2>4. \A c \in Block : n2[c] = IF c = b THEN h ELSE IF next[c] = b THEN g ELSE next[c]
    BY <1>7
  <2>5. SUFFICES ASSUME NEW c \in Block, NEW d \in Block, n2[c] = n2[d], n2[c] # 0, c # d
                 PROVE  FALSE
    OBVIOUS
  <2>6. CASE c # b /\ d # b
    BY <1>2, <1>c, <2>2, <2>4, <2>5, <2>6
  <2>7. CASE c = b \/ d = b
    BY <2>1, <2>3, <2>4, <2>5, <2>7
  <2>8. QED
    BY <2>6, <2>7
<1>11. \A c \in Block : c = h2[l2[c]] \/ \E p \in Block : n2[p] = c
  <2> SUFFICES ASSUME NEW c \in Block, c # h2[l2[c]]
               PROVE  \E p \in Block : n2[p] = c
    OBVIOUS
  <2>1. c # b /\ l2[c] = lst[c] /\ lst[c] \in ListId /\ c # h2[lst[c]] /\ c # 0
    <3>1. c = b => l2[c] = k /\ h2[k] = b
      BY <1>5, <1>7
    <3>2. c # b
      BY <3>1
    <3>3. QED
      BY <1>5, <1>e, <1>f, <3>2
  <2>2. ASSUME NEW p \in Block, next[p] = c, p # b PROVE n2[p] = c
    BY <1>7, <2>1, <2>2
  <2>3. CASE lst[c] = k
    <3>1. CASE c = h
      <4>1. n2[b] = c
        BY <1>7, <3>1
      <4>2. QED
        BY <4>1
    <3>2. CASE c # h
      <4>1. PICK p \in Block : next[p] = c
        BY <1>d, <1>h, <2>3, <3>2
      <4>2. lst[p] = k
        BY <1>b, <2>1, <2>3, <4>1
      <4>3. p # b
        BY <1>2, <1>l, <4>2
      <4>4. QED
        BY <2>2, <4>1, <4>3
    <3>3. QED
      BY <3>1, <3>2
  <2>4. CASE lst[c] # k
    <3>1. c # heads[lst[c]]
      BY <1>7, <1>l, <2>1, <2>4
    <3>2. PICK p \in Block : next[p] = c
      BY <1>d, <3>1
    <3>3. CASE p # b
      BY <2>2, <3>2, <3>3
    <3>4. CASE p = b
      <4>1. g = c /\ lst[c] = l
        BY <1>3, <1>g, <2>1, <3>2, <3>4
      <4>2. heads[l] # b
        BY <1>7, <2>1, <2>4, <4>1
      <4>3. PICK q \in Block : next[q] = b
        BY <1>d, <1>l, <4>2
      <4>4. q # b
        BY <1>6, <4>3
      <4>5. n2[q] = c
        BY <1>7, <4>1, <4>3, <4>4
      <4>6. QED
        BY <4>5
    <3>5. QED
      BY <3>3, <3>4
  <2>5. QED
    BY <2>3, <2>4
<1>12. Linked(n2, h2, l2, s2, top + 1)
  <2>1. top + 1 \in Nat
    BY <1>0
  <2>2. /\ n2 \in [Block -> 0..Blocks] /\ h2 \in [ListId -> 0..Blocks]
    BY <1>7
  <2>3. /\ l2 \in [Block -> ListId] /\ s2 \in [Block -> Nat] /\ \A c \in Block : s2[c] <= top + 1
    BY <1>5
  <2>4. QED
    BY <2>1, <2>2, <2>3, <1>8, <1>9, <1>10, <1>11, Zenon DEF Linked
<1>13. QED
  BY <1>12, <1>h DEF n2, h2, l2, s2, Put

-----------------------------------------------------------------------------
(* Blocks and heads.                                                       *)

DevList == Blocks + 1
\* A block is a record, and a memory is one of blocks and two heads.
Record(r) == r = [is |-> r.is, name |-> r.name, unit |-> r.unit, addr |-> r.addr,
                  first |-> r.first, next |-> r.next, state |-> r.state, value |-> r.value]
Typed(m) ==
  /\ m = [blocks |-> m.blocks, first_dev |-> m.first_dev, first_free |-> m.first_free]
  /\ m.blocks = [b \in Block |-> m.blocks[b]]
  /\ \A b \in Block : Record(m.blocks[b])

\* A block that is empty.
LEMMA EmptyIs ==
  /\ Record(Empty) /\ Empty.is = "free" /\ Empty.name = "" /\ Empty.first = 0
  /\ Empty.state = "INVALID"
BY DEF Record, Empty

\* What is set, of a memory and of a block.
WithBlock(m, b, r) == [m EXCEPT !.blocks[b] = r]
WithFirst(m, d, x) == [m EXCEPT !.blocks[d].first = x]
WithNext(m, p, x) == [m EXCEPT !.blocks[p].next = x]
WithDev(m, x) == [m EXCEPT !.first_dev = x]
WithFree(m, x) == [m EXCEPT !.first_free = x]
Heading(r, x) == [r EXCEPT !.first = x]
Preceding(r, x) == [r EXCEPT !.next = x]
NewDev(n, u, x) == [Empty EXCEPT !.is = "dev", !.name = n, !.unit = u, !.next = x]
NewReg(n, u, a, x) == [Empty EXCEPT !.is = "reg", !.name = n, !.unit = u, !.addr = a, !.next = x]

\* A block, or the head of a list, is set.
LEMMA BlockSet ==
  ASSUME NEW m, Typed(m), NEW b \in Block, NEW r, Record(r),
         NEW f, f = WithBlock(m, b, r)
  PROVE  /\ Typed(f) /\ f.first_dev = m.first_dev /\ f.first_free = m.first_free
         /\ \A c \in Block : f.blocks[c] = IF c = b THEN r ELSE m.blocks[c]
<1>1. PICK B, D, F : /\ m = [blocks |-> B, first_dev |-> D, first_free |-> F]
                     /\ B = [c \in Block |-> B[c]]
                     /\ \A c \in Block : Record(B[c])
  BY DEF Typed
<1>2. f = [blocks |-> [B EXCEPT ![b] = r], first_dev |-> D, first_free |-> F]
  BY <1>1 DEF WithBlock
<1>3. PICK G : G = [B EXCEPT ![b] = r]
  OBVIOUS
<1>4. G = [c \in Block |-> G[c]] /\ \A c \in Block : G[c] = IF c = b THEN r ELSE B[c]
  BY <1>1, <1>3
<1>5. f = [blocks |-> G, first_dev |-> D, first_free |-> F]
  BY <1>2, <1>3
<1>6. f.blocks = G /\ f.first_dev = D /\ f.first_free = F /\ m.blocks = B
      /\ m.first_dev = D /\ m.first_free = F
  BY <1>1, <1>5
<1>7. Typed(f)
  <2>1. \A c \in Block : Record(G[c])
    BY <1>1, <1>4
  <2>2. QED
    BY <1>4, <1>5, <1>6, <2>1 DEF Typed
<1>8. QED
  BY <1>4, <1>6, <1>7

\* The head of the devices is set, or of the free.
LEMMA HeadSet ==
  ASSUME NEW m, Typed(m), NEW x, NEW f
  PROVE  /\ f = WithDev(m, x) =>
              /\ Typed(f) /\ f.first_dev = x /\ f.first_free = m.first_free /\ f.blocks = m.blocks
         /\ f = WithFree(m, x) =>
              /\ Typed(f) /\ f.first_free = x /\ f.first_dev = m.first_dev /\ f.blocks = m.blocks
<1>1. f = WithDev(m, x) =>
        Typed(f) /\ f.first_dev = x /\ f.first_free = m.first_free /\ f.blocks = m.blocks
  BY DEF Typed, WithDev
<1>2. f = WithFree(m, x) =>
        Typed(f) /\ f.first_free = x /\ f.first_dev = m.first_dev /\ f.blocks = m.blocks
  BY DEF Typed, WithFree
<1>3. QED
  BY <1>1, <1>2

\* A block is freed, or taken.
LEMMA FreedIs ==
  ASSUME NEW m, Typed(m), NEW b \in Block, NEW f, f = Freed(m, b)
  PROVE  /\ Typed(f) /\ f.first_dev = m.first_dev /\ f.first_free = b
         /\ f.blocks[b] = Preceding(Empty, m.first_free)
         /\ \A c \in Block : c # b => f.blocks[c] = m.blocks[c]
<1>1. PICK r : r = Preceding(Empty, m.first_free)
  OBVIOUS
<1>2. Record(r)
  BY <1>1, EmptyIs DEF Record, Preceding
<1>3. PICK g : g = WithBlock(m, b, r)
  OBVIOUS
<1>4. /\ Typed(g) /\ g.first_dev = m.first_dev
      /\ \A c \in Block : g.blocks[c] = IF c = b THEN r ELSE m.blocks[c]
  BY <1>2, <1>3, BlockSet
<1>5. f = WithFree(g, b)
  BY <1>1, <1>3 DEF Freed, WithBlock, WithFree, Preceding
<1>6. Typed(f) /\ f.first_free = b /\ f.first_dev = g.first_dev /\ f.blocks = g.blocks
  BY <1>4, <1>5, HeadSet
<1>7. QED
  BY <1>1, <1>4, <1>6

\* What a freed block holds.
LEMMA EmptyNext ==
  ASSUME NEW x, NEW r, r = Preceding(Empty, x)
  PROVE  r.is = "free" /\ r.first = 0 /\ r.next = x
BY DEF Empty, Preceding

\* The first of the free is taken.
LEMMA AllocatedIs ==
  ASSUME NEW m, Typed(m), m.first_free \in Block, NEW r, Record(r), NEW f, f = Allocated(m, r)
  PROVE  /\ Typed(f) /\ f.first_dev = m.first_dev
         /\ f.first_free = m.blocks[m.first_free].next
         /\ \A c \in Block : f.blocks[c] = IF c = m.first_free THEN r ELSE m.blocks[c]
<1>1. PICK b, x : b = m.first_free /\ x = m.blocks[b].next
  OBVIOUS
<1>2. PICK g : g = WithBlock(m, b, r)
  OBVIOUS
<1>3. /\ Typed(g) /\ g.first_dev = m.first_dev
      /\ \A c \in Block : g.blocks[c] = IF c = b THEN r ELSE m.blocks[c]
  <2>1. b \in Block
    BY <1>1
  <2>2. QED
    BY <1>2, <2>1, BlockSet
<1>4. f = WithFree(g, x)
  BY <1>1, <1>2 DEF Allocated, WithBlock, WithFree
<1>5. Typed(f) /\ f.first_free = x /\ f.first_dev = g.first_dev /\ f.blocks = g.blocks
  BY <1>3, <1>4, HeadSet
<1>6. QED
  BY <1>1, <1>3, <1>5

\* The first register of a device is set.
LEMMA FirstSet ==
  ASSUME NEW m, Typed(m), NEW d \in Block, NEW x, NEW f, f = WithFirst(m, d, x)
  PROVE  /\ Typed(f) /\ f.first_dev = m.first_dev /\ f.first_free = m.first_free
         /\ \A c \in Block : f.blocks[c] = IF c = d THEN Heading(m.blocks[d], x) ELSE m.blocks[c]
<1>1. PICK r : r = Heading(m.blocks[d], x)
  OBVIOUS
<1>2. Record(r)
  BY <1>1 DEF Typed, Record, Heading
<1>3. f = WithBlock(m, d, r)
  BY <1>1 DEF WithFirst, WithBlock, Heading
<1>4. /\ Typed(f) /\ f.first_dev = m.first_dev /\ f.first_free = m.first_free
      /\ \A c \in Block : f.blocks[c] = IF c = d THEN r ELSE m.blocks[c]
  BY <1>2, <1>3, BlockSet
<1>5. QED
  BY <1>1, <1>4

\* The next of a block is set.
LEMMA NextSet ==
  ASSUME NEW m, Typed(m), NEW p \in Block, NEW x, NEW f, f = WithNext(m, p, x)
  PROVE  /\ Typed(f) /\ f.first_dev = m.first_dev /\ f.first_free = m.first_free
         /\ \A c \in Block : f.blocks[c] = IF c = p THEN Preceding(m.blocks[p], x) ELSE m.blocks[c]
<1>1. PICK r : r = Preceding(m.blocks[p], x)
  OBVIOUS
<1>2. Record(r)
  BY <1>1 DEF Typed, Record, Preceding
<1>3. f = WithBlock(m, p, r)
  BY <1>1 DEF WithNext, WithBlock, Preceding
<1>4. /\ Typed(f) /\ f.first_dev = m.first_dev /\ f.first_free = m.first_free
      /\ \A c \in Block : f.blocks[c] = IF c = p THEN r ELSE m.blocks[c]
  BY <1>2, <1>3, BlockSet
<1>5. QED
  BY <1>1, <1>4

\* The record of a new device, and of a new register.
LEMMA NewDevIs ==
  ASSUME NEW n, NEW u, NEW x, NEW r, r = NewDev(n, u, x)
  PROVE  /\ Record(r) /\ r.is = "dev" /\ r.name = n /\ r.next = x /\ r.first = 0 /\ r.state = "INVALID"
<1>1. r = [[[[Empty EXCEPT !.is = "dev"] EXCEPT !.name = n] EXCEPT !.unit = u] EXCEPT !.next = x]
  BY DEF NewDev
<1>2. PICK r1, r2, r3 : /\ r1 = [Empty EXCEPT !.is = "dev"] /\ r2 = [r1 EXCEPT !.name = n]
                        /\ r3 = [r2 EXCEPT !.unit = u]
  OBVIOUS
<1>3. r = [r3 EXCEPT !.next = x]
  BY <1>1, <1>2
<1>4. /\ Record(r1) /\ r1.is = "dev" /\ r1.first = 0 /\ r1.state = "INVALID"
  BY <1>2, EmptyIs DEF Record
<1>5. Record(r2) /\ r2.is = "dev" /\ r2.first = 0 /\ r2.state = "INVALID" /\ r2.name = n
  BY <1>2, <1>4 DEF Record
<1>6. Record(r3) /\ r3.is = "dev" /\ r3.first = 0 /\ r3.state = "INVALID" /\ r3.name = n
  BY <1>2, <1>5 DEF Record
<1>7. QED
  BY <1>3, <1>6 DEF Record

LEMMA NewRegIs ==
  ASSUME NEW n, NEW u, NEW a, NEW x, NEW r, r = NewReg(n, u, a, x)
  PROVE  /\ Record(r) /\ r.is = "reg" /\ r.name = n /\ r.next = x /\ r.first = 0 /\ r.state = "INVALID"
<1>1. r = [[[[[Empty EXCEPT !.is = "reg"] EXCEPT !.name = n] EXCEPT !.unit = u] EXCEPT !.addr = a] EXCEPT !.next = x]
  BY DEF NewReg
<1>2. PICK r1, r2, r3, r4 : /\ r1 = [Empty EXCEPT !.is = "reg"] /\ r2 = [r1 EXCEPT !.name = n]
                            /\ r3 = [r2 EXCEPT !.unit = u] /\ r4 = [r3 EXCEPT !.addr = a]
  OBVIOUS
<1>3. r = [r4 EXCEPT !.next = x]
  BY <1>1, <1>2
<1>4. /\ Record(r1) /\ r1.is = "reg" /\ r1.first = 0 /\ r1.state = "INVALID"
  BY <1>2, EmptyIs DEF Record
<1>5. Record(r2) /\ r2.is = "reg" /\ r2.first = 0 /\ r2.state = "INVALID" /\ r2.name = n
  BY <1>2, <1>4 DEF Record
<1>6. Record(r3) /\ r3.is = "reg" /\ r3.first = 0 /\ r3.state = "INVALID" /\ r3.name = n
  BY <1>2, <1>5 DEF Record
<1>7. Record(r4) /\ r4.is = "reg" /\ r4.first = 0 /\ r4.state = "INVALID" /\ r4.name = n
  BY <1>2, <1>6 DEF Record
<1>8. QED
  BY <1>3, <1>7 DEF Record

\* All of a block but where it is in the lists.
Kept(r, s) == /\ r.is = s.is /\ r.name = s.name /\ r.unit = s.unit /\ r.addr = s.addr
              /\ r.state = s.state /\ r.value = s.value

\* What is set of a block when it is linked is not what it is.
LEMMA LinkSet ==
  ASSUME NEW r, Record(r), NEW x, NEW s
  PROVE  /\ s = Heading(r, x) => Kept(r, s) /\ s.first = x /\ s.next = r.next
         /\ s = Preceding(r, x) => Kept(r, s) /\ s.next = x /\ s.first = r.first
<1>1. s = Heading(r, x) => Kept(r, s) /\ s.first = x /\ s.next = r.next
  BY DEF Record, Kept, Heading
<1>2. s = Preceding(r, x) => Kept(r, s) /\ s.next = x /\ s.first = r.first
  BY DEF Record, Kept, Preceding
<1>3. QED
  BY <1>1, <1>2

-----------------------------------------------------------------------------
(* Lists 0, of the free, 1 to Blocks, of the registers of that block, and  *)
(* DevList, of the devices.                                                *)

NextF(m) == [b \in Block |-> m.blocks[b].next]
HeadF(m) == [l \in ListId |-> IF l = 0 THEN m.first_free
                              ELSE IF l = DevList THEN m.first_dev ELSE m.blocks[l].first]
IsOf(l) == IF l = 0 THEN "free" ELSE IF l = DevList THEN "dev" ELSE "reg"
\* The memory m has these lists, where heads are as given: one list may be left
\* without its head, as the registers of a device are while they are freed.  A
\* block is what its list is of, only a device has registers, and a name is
\* once in a list.
Same(r, s) == r.is = s.is /\ r.name = s.name
Shape(m, heads, lst, stamp, top) ==
  /\ Typed(m) /\ Linked(NextF(m), heads, lst, stamp, top)
  /\ \A b \in Block : m.blocks[b].is = IsOf(lst[b])
  /\ \A b \in Block : lst[b] \in Block => lst[lst[b]] = DevList
  /\ \A b, c \in Block : lst[b] = lst[c] /\ lst[b] # 0 /\ m.blocks[b].name = m.blocks[c].name => b = c

\* The numbers of lists and of blocks.
LEMMA ListIdIs ==
  /\ Blocks \in Nat \ {0} /\ Block = 1..Blocks /\ Block \subseteq ListId /\ 0 \in ListId /\ DevList \in ListId
  /\ DevList \notin Block /\ DevList # 0 /\ 0 \notin Block
  /\ \A l \in ListId : l = 0 \/ l = DevList \/ l \in Block
BY ModbusMemAssumption DEF Block, ListId, DevList

\* What a head and a next are.
LEMMA LinkedIs ==
  ASSUME NEW next, NEW heads, NEW lst, NEW stamp, NEW top, Linked(next, heads, lst, stamp, top)
  PROVE  /\ \A l \in ListId : heads[l] = 0 \/ (heads[l] \in Block /\ lst[heads[l]] = l)
         /\ \A b \in Block : \/ next[b] = 0
                            \/ (next[b] \in Block /\ lst[next[b]] = lst[b] /\ stamp[next[b]] < stamp[b])
<1>0. /\ next \in [Block -> 0..Blocks] /\ heads \in [ListId -> 0..Blocks]
      /\ Blocks \in Nat /\ Block = 1..Blocks
  BY ModbusMemAssumption DEF Linked, Block
<1>1. \A l \in ListId : heads[l] = 0 \/ (heads[l] \in Block /\ lst[heads[l]] = l)
  BY <1>0 DEF Linked
<1>2. \A b \in Block : \/ next[b] = 0
                      \/ (next[b] \in Block /\ lst[next[b]] = lst[b] /\ stamp[next[b]] < stamp[b])
  BY <1>0 DEF Linked
<1>3. QED
  BY <1>1, <1>2

\* A list without a head is empty.
LEMMA Empties ==
  ASSUME NEW next, NEW heads, NEW lst, NEW stamp, NEW top, Linked(next, heads, lst, stamp, top),
         NEW l \in ListId, heads[l] = 0
  PROVE  \A b \in Block : lst[b] # l
<1> SUFFICES ASSUME NEW a \in Block, lst[a] = l PROVE FALSE
  OBVIOUS
<1> DEFINE D == {top - stamp[b] : b \in {c \in Block : lst[c] = l}}
<1>0. \A b \in Block : stamp[b] \in Nat /\ stamp[b] <= top /\ top \in Nat
  BY DEF Linked
<1>1. D \subseteq Nat /\ D # {}
  <2>1. \A b \in Block : top - stamp[b] \in Nat
    BY <1>0
  <2>2. QED
    BY <2>1
<1>2. PICK m \in D : \A y \in D : m <= y
  <2> HIDE DEF D
  <2>1. QED
    BY <1>1, LeastNat
<1>3. PICK b \in Block : lst[b] = l /\ m = top - stamp[b]
  BY <1>2
<1>4. b # heads[lst[b]]
  BY <1>3, ListIdIs
<1>5. PICK p \in Block : next[p] = b
  BY <1>4 DEF Linked
<1>6. lst[p] = l /\ stamp[b] < stamp[p]
  <2>1. next[p] # 0
    BY <1>5, ListIdIs
  <2>2. QED
    BY <1>3, <1>5, <2>1 DEF Linked
<1>7. m <= top - stamp[p]
  <2>1. top - stamp[p] \in D
    BY <1>6
  <2>2. QED
    BY <1>2, <2>1
<1>8. QED
  BY <1>0, <1>3, <1>6, <1>7

\* Only a device has registers.
LEMMA NotDev ==
  ASSUME NEW m, NEW heads, NEW lst, NEW stamp, NEW top, Shape(m, heads, lst, stamp, top),
         NEW b \in Block, lst[b] # DevList
  PROVE  heads[b] = 0 /\ \A c \in Block : lst[c] # b
<1>1. b \in ListId /\ Linked(NextF(m), heads, lst, stamp, top)
  BY ListIdIs DEF Shape
<1>2. heads[b] = 0
  <2> SUFFICES ASSUME heads[b] # 0 PROVE FALSE
    OBVIOUS
  <2>1. heads[b] \in Block /\ lst[heads[b]] = b
    BY <1>1, LinkedIs
  <2>2. QED
    BY <2>1 DEF Shape
<1>3. QED
  BY <1>1, <1>2, Empties

\* A block is put into the list of the free.
LEMMA ShapeFree ==
  ASSUME NEW m, NEW heads, NEW lst, NEW stamp, NEW top, Shape(m, heads, lst, stamp, top),
         NEW b \in Block, lst[b] # 0, lst[b] = DevList => heads[b] = 0,
         NEW next1, NEW head1, Out(NextF(m), heads, lst, b, next1, head1),
         NEW f, Typed(f), NextF(f) = Put(next1, b, heads[0]), f.blocks[b].is = "free",
         \A c \in Block : c # b => Same(f.blocks[c], m.blocks[c])
  PROVE  /\ Shape(f, Put(head1, 0, b), Put(lst, b, 0), Put(stamp, b, top + 1), top + 1)
         /\ head1[b] = 0
<1>1. Linked(NextF(m), heads, lst, stamp, top) /\ 0 \in ListId /\ lst[b] \in ListId /\ b \in ListId
  BY ListIdIs DEF Shape, Linked
<1>2. Linked(NextF(f), Put(head1, 0, b), Put(lst, b, 0), Put(stamp, b, top + 1), top + 1)
  <2>1. Linked(Put(next1, b, heads[0]), Put(head1, 0, b), Put(lst, b, 0), Put(stamp, b, top + 1), top + 1)
    BY <1>1, Move
  <2>2. QED
    BY <2>1
<1>3. heads[b] = 0 /\ \A c \in Block : lst[c] # b
  <2>1. CASE lst[b] = DevList
    BY <1>1, <2>1, Empties
  <2>2. CASE lst[b] # DevList
    BY <2>2, NotDev
  <2>3. QED
    BY <2>1, <2>2
<1>4. head1[b] = 0
  <2>1. CASE head1 = heads
    BY <1>3, <2>1
  <2>2. CASE head1 = Put(heads, lst[b], NextF(m)[b])
    <3>1. lst[b] # b
      BY <1>3
    <3>2. heads \in [ListId -> 0..Blocks]
      BY <1>1 DEF Linked
    <3>3. QED
      BY <1>1, <1>3, <2>2, <3>1, <3>2 DEF Put
  <2>3. QED
    BY <2>1, <2>2 DEF Out
<1>5. PICK l2 : l2 = Put(lst, b, 0)
  OBVIOUS
<1>6. \A c \in Block : l2[c] = IF c = b THEN 0 ELSE lst[c]
  BY <1>1, <1>5 DEF Linked, Put
<1>7. \A c \in Block : f.blocks[c].is = IsOf(l2[c])
  BY <1>6 DEF Shape, Same, IsOf
<1>8. \A c \in Block : l2[c] \in Block => l2[l2[c]] = DevList
  <2>1. SUFFICES ASSUME NEW c \in Block, l2[c] \in Block PROVE l2[l2[c]] = DevList
    OBVIOUS
  <2>2. c # b /\ l2[c] = lst[c] /\ lst[c] # b
    BY <1>3, <1>6, <2>1, ListIdIs
  <2>3. QED
    BY <1>6, <2>1, <2>2 DEF Shape
<1>9. \A c, d \in Block : l2[c] = l2[d] /\ l2[c] # 0 /\ f.blocks[c].name = f.blocks[d].name => c = d
  <2>1. SUFFICES ASSUME NEW c \in Block, NEW d \in Block, l2[c] = l2[d], l2[c] # 0,
                        f.blocks[c].name = f.blocks[d].name
                 PROVE  c = d
    OBVIOUS
  <2>2. c # b /\ d # b /\ lst[c] = lst[d] /\ lst[c] # 0
    BY <1>6, <2>1
  <2>3. m.blocks[c].name = m.blocks[d].name
    BY <2>1, <2>2 DEF Same
  <2>4. QED
    BY <2>2, <2>3 DEF Shape
<1>10. QED
  BY <1>2, <1>4, <1>5, <1>7, <1>8, <1>9 DEF Shape

\* The first of the free is put into another list.
LEMMA ShapeTake ==
  ASSUME NEW m, NEW heads, NEW lst, NEW stamp, NEW top, Shape(m, heads, lst, stamp, top),
         NEW b \in Block, b = heads[0], NEW k \in ListId, k # 0, k \in Block => lst[k] = DevList,
         NEW f, Typed(f), NextF(f) = Put(NextF(m), b, heads[k]), f.blocks[b].is = IsOf(k),
         \A c \in Block : lst[c] = k => m.blocks[c].name # f.blocks[b].name,
         \A c \in Block : c # b => Same(f.blocks[c], m.blocks[c])
  PROVE  /\ Shape(f, Put(Put(heads, 0, NextF(m)[b]), k, b), Put(lst, b, k), Put(stamp, b, top + 1), top + 1)
         /\ heads[b] = 0 /\ k # b
<1>1. Linked(NextF(m), heads, lst, stamp, top) /\ 0 \in ListId /\ lst[b] = 0 /\ b \in ListId
  BY ListIdIs DEF Shape, Linked
<1> DEFINE h1 == Put(heads, 0, NextF(m)[b])
<1>2. Linked(NextF(f), Put(h1, k, b), Put(lst, b, k), Put(stamp, b, top + 1), top + 1)
  <2>1. Out(NextF(m), heads, lst, b, NextF(m), h1)
    BY <1>1 DEF Out
  <2> HIDE DEF h1
  <2>2. Linked(Put(NextF(m), b, heads[k]), Put(h1, k, b), Put(lst, b, k), Put(stamp, b, top + 1), top + 1)
    <3>1. k # lst[b]
      BY <1>1
    <3>2. QED
      BY <1>1, <2>1, <3>1, Move
  <2>3. QED
    BY <2>2
<1>3. heads[b] = 0 /\ \A c \in Block : lst[c] # b
  <2>1. lst[b] # DevList
    BY <1>1, ListIdIs
  <2>2. QED
    BY <2>1, NotDev
<1>4. k # b
  BY <1>1, ListIdIs
<1>5. PICK l2 : l2 = Put(lst, b, k)
  OBVIOUS
<1>6. \A c \in Block : l2[c] = IF c = b THEN k ELSE lst[c]
  BY <1>1, <1>5 DEF Linked, Put
<1>7. \A c \in Block : f.blocks[c].is = IsOf(l2[c])
  BY <1>6 DEF Shape, Same
<1>8. \A c \in Block : l2[c] \in Block => l2[l2[c]] = DevList
  <2>1. SUFFICES ASSUME NEW c \in Block, l2[c] \in Block PROVE l2[l2[c]] = DevList
    OBVIOUS
  <2>2. CASE c = b
    BY <1>4, <1>6, <2>1, <2>2
  <2>3. CASE c # b
    <3>1. l2[c] = lst[c] /\ lst[c] # b
      BY <1>3, <1>6, <2>3
    <3>2. QED
      BY <1>6, <2>1, <3>1 DEF Shape
  <2>4. QED
    BY <2>2, <2>3
<1>9. \A c, d \in Block : l2[c] = l2[d] /\ l2[c] # 0 /\ f.blocks[c].name = f.blocks[d].name => c = d
  <2>1. SUFFICES ASSUME NEW c \in Block, NEW d \in Block, l2[c] = l2[d], l2[c] # 0,
                        f.blocks[c].name = f.blocks[d].name
                 PROVE  c = d
    OBVIOUS
  <2>2. CASE c # b /\ d # b
    <3>1. lst[c] = lst[d] /\ lst[c] # 0
      BY <1>6, <2>1, <2>2
    <3>2. m.blocks[c].name = m.blocks[d].name
      BY <2>1, <2>2 DEF Same
    <3>3. QED
      BY <3>1, <3>2 DEF Shape
  <2>3. ASSUME NEW x \in Block, x # b, l2[x] = k, f.blocks[x].name = f.blocks[b].name PROVE FALSE
    <3>1. lst[x] = k /\ f.blocks[x].name = m.blocks[x].name
      BY <1>6, <2>3 DEF Same
    <3>2. QED
      BY <2>3, <3>1
  <2>4. l2[b] = k
    BY <1>6
  <2>5. QED
    BY <2>1, <2>2, <2>3, <2>4
<1>10. QED
  BY <1>2, <1>3, <1>4, <1>5, <1>7, <1>8, <1>9 DEF Shape

\* The first of a list that is as is sought.
LEMMA FirstIs ==
  ASSUME NEW h, NEW ok, 0 \notin ok
  PROVE  /\ FirstOf(h, ok) = 0 <=> Reached(h) \cap ok = {}
         /\ FirstOf(h, ok) # 0 => FirstOf(h, ok) \in Reached(h) \cap ok
<1> DEFINE hits == {i \in 0..Blocks : Chain(h)[i] \in ok}
<1>1. FirstOf(h, ok) = IF hits = {} THEN 0 ELSE Chain(h)[CHOOSE i \in hits : \A j \in hits : i <= j]
  BY DEF FirstOf
<1>2. hits = {} <=> Reached(h) \cap ok = {}
  BY DEF Reached
<1>3. CASE hits = {}
  BY <1>1, <1>2, <1>3
<1>4. CASE hits # {}
  <2>1. hits \subseteq Nat
    BY ListIdIs
  <2>2. PICK x : x = CHOOSE i \in hits : \A j \in hits : i <= j
    OBVIOUS
  <2>3. x \in hits
    <3> HIDE DEF hits
    <3>1. \E i \in hits : \A j \in hits : i <= j
      BY <1>4, <2>1, LeastNat
    <3>2. QED
      BY <2>2, <3>1
  <2>4. FirstOf(h, ok) = Chain(h)[x]
    BY <1>1, <1>4, <2>2
  <2>5. Chain(h)[x] \in ok /\ Chain(h)[x] \in Reached(h)
    BY <2>3 DEF Reached
  <2>6. QED
    BY <1>2, <1>4, <2>4, <2>5
<1>5. QED
  BY <1>3, <1>4

\* What the heads reach.
LEMMA ReachedIs ==
  ASSUME NEW lst, NEW stamp, NEW top, Shape(mem, HeadF(mem), lst, stamp, top), NEW l \in ListId
  PROVE  Reached(HeadF(mem)[l]) = {b \in Block : lst[b] = l} /\ Chain(HeadF(mem)[l])[Blocks] = 0
<1> DEFINE L == {b \in Block : lst[b] = l}
<1>h. PICK h : h = HeadF(mem)[l]
  OBVIOUS
<1>0. Linked(NextF(mem), HeadF(mem), lst, stamp, top)
  BY DEF Shape
<1>n. \A b \in Block : NextF(mem)[b] = NextOf(b)
  BY DEF NextF, NextOf
<1>1. h # 0 => h \in L
  BY <1>0, <1>h, ListIdIs DEF Linked
<1>2. stamp \in [Block -> Nat] /\ top \in Nat /\ \A b \in Block : stamp[b] <= top
  BY <1>0 DEF Linked
<1>3. \A b \in Block : NextF(mem)[b] # 0 => NextF(mem)[b] \in Block /\ lst[NextF(mem)[b]] = lst[b]
                                            /\ stamp[NextF(mem)[b]] < stamp[b]
  BY <1>0, LinkedIs
<1>4. \A b \in L : NextOf(b) # 0 => NextOf(b) \in L /\ stamp[NextOf(b)] < stamp[b]
  BY <1>3, <1>n
<1>5. \A b \in L : b = h \/ \E p \in L : NextOf(p) = b
  <2> SUFFICES ASSUME NEW b \in L, b # h PROVE \E p \in L : NextOf(p) = b
    OBVIOUS
  <2>1. PICK p \in Block : NextF(mem)[p] = b
    BY <1>0, <1>h DEF Linked
  <2>2. p \in L
    BY <1>3, <2>1, ListIdIs
  <2>3. QED
    BY <1>n, <2>1, <2>2
<1>6. L \in SUBSET Block
  OBVIOUS
<1>7. Reached(h) = L /\ Chain(h)[Blocks] = 0
  <2> HIDE DEF L
  <2>1. QED
    BY <1>1, <1>2, <1>4, <1>5, <1>6, ListIs
<1>8. QED
  BY <1>7, <1>h

\* The memory is whole: there are lists, with the heads the code keeps, that hold
\* every block; and every measurement has its register.
Good(m, lst, stamp, top) == Shape(m, HeadF(m), lst, stamp, top)
Whole(m) == \E lst, stamp, top : Good(m, lst, stamp, top)
Measured(m, ms) == \A n \in ms : \E b \in Block : m.blocks[b].is = "reg" /\ m.blocks[b].name = n

\* What is in the lists of a memory that is whole.
LEMMA ListsAre ==
  ASSUME NEW lst, NEW stamp, NEW top, Good(mem, lst, stamp, top)
  PROVE  /\ Reached(mem.first_free) = {b \in Block : lst[b] = 0} /\ Chain(mem.first_free)[Blocks] = 0
         /\ Devices = {b \in Block : lst[b] = DevList} /\ Chain(mem.first_dev)[Blocks] = 0
         /\ \A d \in Block : RegsOf(d) = {b \in Block : lst[b] = d} /\ Chain(mem.blocks[d].first)[Blocks] = 0
<1>1. Shape(mem, HeadF(mem), lst, stamp, top)
  BY DEF Good
<1>2. /\ HeadF(mem)[0] = mem.first_free /\ HeadF(mem)[DevList] = mem.first_dev
      /\ \A d \in Block : HeadF(mem)[d] = mem.blocks[d].first /\ d \in ListId
  BY ListIdIs DEF HeadF
<1>3. Reached(mem.first_free) = {b \in Block : lst[b] = 0} /\ Chain(mem.first_free)[Blocks] = 0
  <2>1. 0 \in ListId
    BY ListIdIs
  <2>2. QED
    BY <1>1, <1>2, <2>1, ReachedIs
<1>4. Devices = {b \in Block : lst[b] = DevList} /\ Chain(mem.first_dev)[Blocks] = 0
  <2>1. DevList \in ListId
    BY ListIdIs
  <2>2. Reached(HeadF(mem)[DevList]) = {b \in Block : lst[b] = DevList} /\ Chain(HeadF(mem)[DevList])[Blocks] = 0
    BY <1>1, <2>1, ReachedIs
  <2>3. QED
    BY <1>2, <2>2 DEF Devices
<1>5. ASSUME NEW d \in Block
      PROVE  RegsOf(d) = {b \in Block : lst[b] = d} /\ Chain(mem.blocks[d].first)[Blocks] = 0
  <2>1. d \in ListId /\ HeadF(mem)[d] = mem.blocks[d].first
    BY <1>2
  <2>2. Reached(HeadF(mem)[d]) = {b \in Block : lst[b] = d} /\ Chain(HeadF(mem)[d])[Blocks] = 0
    BY <1>1, <2>1, ReachedIs
  <2>3. QED
    BY <2>1, <2>2 DEF RegsOf
<1>6. QED
  BY <1>3, <1>4, <1>5

\* What a block is says which list it is in.
LEMMA IsTells ==
  ASSUME NEW m, NEW heads, NEW lst, NEW stamp, NEW top, Shape(m, heads, lst, stamp, top), NEW b \in Block
  PROVE  /\ lst[b] \in ListId
         /\ m.blocks[b].is = "free" <=> lst[b] = 0
         /\ m.blocks[b].is = "dev" <=> lst[b] = DevList
         /\ m.blocks[b].is = "reg" <=> lst[b] \in Block
         /\ lst[b] \in Block => lst[lst[b]] = DevList
<1>1. lst[b] \in ListId
  BY DEF Shape, Linked
<1>2. m.blocks[b].is = IsOf(lst[b])
  BY DEF Shape
<1>3. lst[b] \in Block => lst[lst[b]] = DevList
  BY DEF Shape
<1>4. QED
  BY <1>1, <1>2, <1>3, ListIdIs DEF IsOf

\* Who is sought in the lists.
LEMMA SoughtIs ==
  ASSUME NEW lst, NEW stamp, NEW top, Good(mem, lst, stamp, top), NEW n
  PROVE  /\ DeviceByName(n) = 0 <=> \A b \in Block : lst[b] = DevList => mem.blocks[b].name # n
         /\ DeviceByName(n) # 0 => DeviceByName(n) \in Block /\ lst[DeviceByName(n)] = DevList
                                   /\ mem.blocks[DeviceByName(n)].name = n
         /\ DeviceById(n) # 0 => DeviceById(n) \in Block /\ lst[DeviceById(n)] = DevList
         /\ \A d \in Block :
              /\ RegByName(d, n) = 0 <=> \A b \in Block : lst[b] = d => mem.blocks[b].name # n
              /\ RegByName(d, n) # 0 => RegByName(d, n) \in Block /\ lst[RegByName(d, n)] = d
                                        /\ mem.blocks[RegByName(d, n)].name = n
<1>1. /\ Devices = {b \in Block : lst[b] = DevList}
      /\ \A d \in Block : RegsOf(d) = {b \in Block : lst[b] = d}
  BY ListsAre
<1> DEFINE named == {b \in Block : mem.blocks[b].name = n}
           unit == {b \in Block : mem.blocks[b].unit = n}
<1>2. 0 \notin named /\ 0 \notin unit
  BY ListIdIs
<1>3. /\ DeviceByName(n) = 0 <=> Devices \cap named = {}
      /\ DeviceByName(n) # 0 => DeviceByName(n) \in Devices \cap named
  <2>1. DeviceByName(n) = FirstOf(mem.first_dev, named) /\ Devices = Reached(mem.first_dev)
    BY DEF DeviceByName, Devices
  <2> HIDE DEF named
  <2>2. QED
    BY <1>2, <2>1, FirstIs
<1>4. DeviceById(n) # 0 => DeviceById(n) \in Devices
  <2>1. DeviceById(n) = FirstOf(mem.first_dev, unit) /\ Devices = Reached(mem.first_dev)
    BY DEF DeviceById, Devices
  <2> HIDE DEF unit
  <2>2. QED
    BY <1>2, <2>1, FirstIs
<1>5. ASSUME NEW d \in Block
      PROVE  /\ RegByName(d, n) = 0 <=> RegsOf(d) \cap named = {}
             /\ RegByName(d, n) # 0 => RegByName(d, n) \in RegsOf(d) \cap named
  <2>1. RegByName(d, n) = FirstOf(mem.blocks[d].first, named) /\ RegsOf(d) = Reached(mem.blocks[d].first)
    BY DEF RegByName, RegsOf
  <2> HIDE DEF named
  <2>2. QED
    BY <1>2, <2>1, FirstIs
<1>6. /\ DeviceByName(n) = 0 <=> \A b \in Block : lst[b] = DevList => mem.blocks[b].name # n
      /\ DeviceByName(n) # 0 => DeviceByName(n) \in Block /\ lst[DeviceByName(n)] = DevList
                                /\ mem.blocks[DeviceByName(n)].name = n
  BY <1>1, <1>3
<1>7. DeviceById(n) # 0 => DeviceById(n) \in Block /\ lst[DeviceById(n)] = DevList
  BY <1>1, <1>4
<1>8. ASSUME NEW d \in Block
      PROVE  /\ RegByName(d, n) = 0 <=> \A b \in Block : lst[b] = d => mem.blocks[b].name # n
             /\ RegByName(d, n) # 0 => RegByName(d, n) \in Block /\ lst[RegByName(d, n)] = d
                                       /\ mem.blocks[RegByName(d, n)].name = n
  BY <1>1, <1>5
<1>9. QED
  BY <1>6, <1>7, <1>8

\* A register is found by its name if there is one of that name.
LEMMA GetRegIs ==
  ASSUME NEW lst, NEW stamp, NEW top, Good(mem, lst, stamp, top), NEW n
  PROVE  /\ GetReg(n) # 0 => GetReg(n) \in Block /\ lst[GetReg(n)] \in Block /\ mem.blocks[GetReg(n)].name = n
         /\ GetReg(n) = 0 <=> \A b \in Block : mem.blocks[b].is = "reg" => mem.blocks[b].name # n
<1> DEFINE ok == {b \in Devices : RegByName(b, n) # 0}
<1>1. PICK d : d = FirstOf(mem.first_dev, ok)
  OBVIOUS
<1>2. GetReg(n) = IF d = 0 THEN 0 ELSE RegByName(d, n)
  BY <1>1 DEF GetReg
<1>3. Devices = {b \in Block : lst[b] = DevList}
  BY ListsAre
<1>4. (d = 0 <=> Devices \cap ok = {}) /\ (d # 0 => d \in Devices \cap ok)
  <2>1. 0 \notin ok /\ Devices = Reached(mem.first_dev)
    BY <1>3, ListIdIs DEF Devices
  <2> HIDE DEF ok
  <2>2. QED
    BY <1>1, <2>1, FirstIs
<1>5. GetReg(n) # 0 => GetReg(n) \in Block /\ lst[GetReg(n)] \in Block /\ mem.blocks[GetReg(n)].name = n
  <2>1. SUFFICES ASSUME GetReg(n) # 0
                 PROVE  GetReg(n) \in Block /\ lst[GetReg(n)] \in Block /\ mem.blocks[GetReg(n)].name = n
    OBVIOUS
  <2>2. d \in Block /\ GetReg(n) = RegByName(d, n) /\ RegByName(d, n) # 0
    BY <1>2, <1>3, <1>4, <2>1
  <2>3. RegByName(d, n) \in Block /\ lst[RegByName(d, n)] = d /\ mem.blocks[RegByName(d, n)].name = n
    BY <2>2, SoughtIs
  <2>4. QED
    BY <2>2, <2>3
<1>6. ASSUME NEW b \in Block, mem.blocks[b].is = "reg", mem.blocks[b].name = n PROVE GetReg(n) # 0
  <2>1. lst[b] \in Block /\ lst[lst[b]] = DevList
    BY <1>6, IsTells DEF Good
  <2>2. RegByName(lst[b], n) # 0
    BY <1>6, <2>1, SoughtIs
  <2>3. lst[b] \in Devices \cap ok
    BY <1>3, <2>1, <2>2
  <2>4. d # 0 /\ d \in Devices \cap ok
    BY <1>4, <2>3
  <2>5. QED
    BY <1>2, <2>4
<1>7. ASSUME GetReg(n) # 0
      PROVE  \E b \in Block : mem.blocks[b].is = "reg" /\ mem.blocks[b].name = n
  <2>1. PICK b \in Block : b = GetReg(n) /\ lst[b] \in Block /\ mem.blocks[b].name = n
    BY <1>5, <1>7
  <2>2. mem.blocks[b].is = "reg"
    BY <2>1, IsTells DEF Good
  <2>3. QED
    BY <2>1, <2>2
<1>8. QED
  BY <1>5, <1>6, <1>7

\* A memory that is whole is what MemIsWhole says.
LEMMA WholeIs ==
  ASSUME Whole(mem), Measured(mem, meas)
  PROVE  MemIsWhole
<1>1. PICK lst, stamp, top : Good(mem, lst, stamp, top)
  BY DEF Whole
<1>2. /\ Reached(mem.first_free) = {b \in Block : lst[b] = 0} /\ Chain(mem.first_free)[Blocks] = 0
      /\ Devices = {b \in Block : lst[b] = DevList} /\ Chain(mem.first_dev)[Blocks] = 0
      /\ \A d \in Block : RegsOf(d) = {b \in Block : lst[b] = d} /\ Chain(mem.blocks[d].first)[Blocks] = 0
  BY <1>1, ListsAre
<1>3. \A b \in Block : /\ lst[b] \in ListId
                       /\ mem.blocks[b].is = "free" <=> lst[b] = 0
                       /\ mem.blocks[b].is = "dev" <=> lst[b] = DevList
                       /\ mem.blocks[b].is = "reg" <=> lst[b] \in Block
                       /\ lst[b] \in Block => lst[lst[b]] = DevList
  BY <1>1, IsTells DEF Good
<1>4. Reached(mem.first_free) = {b \in Block : mem.blocks[b].is = "free"}
  BY <1>2, <1>3
<1>5. Devices = {b \in Block : mem.blocks[b].is = "dev"}
  BY <1>2, <1>3
<1>6. UNION {RegsOf(d) : d \in Devices} = {b \in Block : mem.blocks[b].is = "reg"}
  <2>1. ASSUME NEW b \in UNION {RegsOf(d) : d \in Devices}
        PROVE  b \in Block /\ mem.blocks[b].is = "reg"
    <3>1. PICK d \in Devices : b \in RegsOf(d)
      OBVIOUS
    <3>2. QED
      BY <1>2, <1>3, <3>1
  <2>2. ASSUME NEW b \in Block, mem.blocks[b].is = "reg"
        PROVE  b \in UNION {RegsOf(d) : d \in Devices}
    <3>1. lst[b] \in Devices /\ b \in RegsOf(lst[b])
      BY <1>2, <1>3, <2>2
    <3>2. QED
      BY <3>1
  <2>3. QED
    BY <2>1, <2>2
<1>7. \A d, e \in Devices : d # e => RegsOf(d) \cap RegsOf(e) = {}
  BY <1>2
<1> DEFINE lists == {mem.first_free, mem.first_dev} \cup {mem.blocks[d].first : d \in Devices}
<1>8. \A b \in lists : Chain(b)[Blocks] = 0
  BY <1>2
<1>9. ASSUME NEW l \in lists \ {mem.first_free}, NEW b \in Reached(l), NEW c \in Reached(l),
             mem.blocks[b].name = mem.blocks[c].name
      PROVE  b = c
  <2>1. PICK i \in ListId \ {0} : Reached(l) = {x \in Block : lst[x] = i}
    <3>1. CASE l = mem.first_dev
      BY <1>2, <3>1, ListIdIs DEF Devices
    <3>2. CASE \E d \in Devices : l = mem.blocks[d].first
      <4>1. PICK d \in Devices : l = mem.blocks[d].first
        BY <3>2
      <4>2. d \in Block /\ d \in ListId \ {0} /\ Reached(l) = RegsOf(d)
        BY <1>2, <4>1, ListIdIs DEF RegsOf
      <4>3. QED
        BY <1>2, <4>2
    <3>3. QED
      BY <1>9, <3>1, <3>2
  <2>2. b \in Block /\ c \in Block /\ lst[b] = lst[c] /\ lst[b] # 0
    BY <2>1
  <2>3. QED
    BY <1>1, <1>9, <2>2 DEF Good, Shape
<1>10. \A n \in meas : GetReg(n) # 0
  BY <1>1, GetRegIs DEF Measured
<1>11. QED
  <2> HIDE DEF lists
  <2>1. \A l \in lists \ {mem.first_free} : \A b, c \in Reached(l) : mem.blocks[b].name = mem.blocks[c].name => b = c
    BY <1>9
  <2>2. QED
    BY <1>4, <1>5, <1>6, <1>7, <1>8, <1>10, <2>1 DEF MemIsWhole, lists

-----------------------------------------------------------------------------
(* What the commands do.                                                   *)

\* The first of the free is a block of theirs.
LEMMA FirstFree ==
  ASSUME NEW m, NEW lst, NEW stamp, NEW top, Good(m, lst, stamp, top), m.first_free # 0
  PROVE  m.first_free \in Block /\ lst[m.first_free] = 0
<1>1. Linked(NextF(m), HeadF(m), lst, stamp, top) /\ HeadF(m)[0] = m.first_free /\ 0 \in ListId
  BY ListIdIs DEF Good, Shape, HeadF
<1>2. HeadF(m)[0] = 0 \/ (HeadF(m)[0] \in Block /\ lst[HeadF(m)[0]] = 0)
  BY <1>1, LinkedIs
<1>3. QED
  BY <1>1, <1>2

\* modbus_add_device.
LEMMA DeviceAdded ==
  ASSUME Whole(mem), mem.first_free # 0, NEW n, NEW u, DeviceByName(n) = 0, NEW r, NEW f,
         r = NewDev(n, u, mem.first_dev), f = WithDev(Allocated(mem, r), mem.first_free)
  PROVE  /\ Whole(f)
         /\ \E b \in Block : /\ mem.blocks[b].is = "free" /\ f.blocks[b] = r
                             /\ \A c \in Block \ {b} : f.blocks[c] = mem.blocks[c]
<1>1. PICK lst, stamp, top : Good(mem, lst, stamp, top)
  BY DEF Whole
<1>2. PICK b \in Block : b = mem.first_free /\ lst[b] = 0
  BY <1>1, FirstFree
<1>3. Typed(mem) /\ Shape(mem, HeadF(mem), lst, stamp, top)
  BY <1>1 DEF Good, Shape
<1>4. Record(r) /\ r.is = "dev" /\ r.name = n /\ r.next = mem.first_dev /\ r.first = 0
  BY NewDevIs
<1>5. PICK a : a = Allocated(mem, r)
  OBVIOUS
<1>6. /\ Typed(a) /\ a.first_dev = mem.first_dev /\ a.first_free = mem.blocks[b].next
      /\ \A c \in Block : a.blocks[c] = IF c = b THEN r ELSE mem.blocks[c]
  BY <1>2, <1>3, <1>4, <1>5, AllocatedIs
<1>7. f = WithDev(a, b)
  BY <1>2, <1>5
<1>8. Typed(f) /\ f.first_dev = b /\ f.first_free = a.first_free /\ f.blocks = a.blocks
  BY <1>6, <1>7, HeadSet
<1>9. \A c \in Block : f.blocks[c] = IF c = b THEN r ELSE mem.blocks[c]
  BY <1>6, <1>8
<1>10. HeadF(mem)[DevList] = mem.first_dev /\ HeadF(mem)[0] = b /\ NextF(mem)[b] = mem.blocks[b].next
  BY <1>2, ListIdIs DEF HeadF, NextF
<1>11. NextF(f) = Put(NextF(mem), b, HeadF(mem)[DevList])
  BY <1>4, <1>9, <1>10 DEF NextF, Put
<1>12. \A c \in Block : lst[c] = DevList => mem.blocks[c].name # f.blocks[b].name
  <2>1. f.blocks[b].name = n
    BY <1>4, <1>9
  <2>2. \A c \in Block : lst[c] = DevList => mem.blocks[c].name # n
    BY <1>1, SoughtIs
  <2>3. QED
    BY <2>1, <2>2
<1>13. /\ Shape(f, Put(Put(HeadF(mem), 0, NextF(mem)[b]), DevList, b),
                Put(lst, b, DevList), Put(stamp, b, top + 1), top + 1)
       /\ HeadF(mem)[b] = 0
  <2>1. f.blocks[b].is = IsOf(DevList)
    BY <1>4, <1>9, ListIdIs DEF IsOf
  <2>2. \A c \in Block : c # b => Same(f.blocks[c], mem.blocks[c])
    BY <1>9 DEF Same
  <2>3. DevList \in ListId /\ DevList # 0 /\ DevList \notin Block
    BY ListIdIs
  <2>4. b = HeadF(mem)[0]
    BY <1>10
  <2>5. QED
    BY <1>3, <1>8, <1>11, <1>12, <2>1, <2>2, <2>3, <2>4, ShapeTake
<1>14. HeadF(f) = Put(Put(HeadF(mem), 0, NextF(mem)[b]), DevList, b)
  <2>1. mem.blocks[b].first = 0
    BY <1>13, ListIdIs DEF HeadF
  <2>2. \A c \in Block : f.blocks[c].first = mem.blocks[c].first
    BY <1>4, <1>9, <2>1
  <2>3. f.first_dev = b /\ f.first_free = NextF(mem)[b]
    BY <1>6, <1>8, <1>10
  <2>4. QED
    BY <2>2, <2>3, ListIdIs DEF HeadF, Put
<1>15. Whole(f)
  BY <1>13, <1>14 DEF Whole, Good
<1>16. mem.blocks[b].is = "free"
  BY <1>2, <1>3, IsTells
<1>17. QED
  BY <1>9, <1>15, <1>16

\* modbus_dev_add_reg.
LEMMA RegAdded ==
  ASSUME Whole(mem), mem.first_free # 0, NEW n, NEW u, NEW x, NEW d, d = DeviceById(u), d # 0,
         RegByName(d, n) = 0, NEW r, NEW f,
         r = NewReg(n, u, x, mem.blocks[d].first), f = WithFirst(Allocated(mem, r), d, mem.first_free)
  PROVE  /\ Whole(f)
         /\ \E b \in Block : /\ mem.blocks[b].is = "free" /\ f.blocks[b] = r
                             /\ \A c \in Block \ {b} : Kept(mem.blocks[c], f.blocks[c])
<1>1. PICK lst, stamp, top : Good(mem, lst, stamp, top)
  BY DEF Whole
<1>2. PICK b \in Block : b = mem.first_free /\ lst[b] = 0
  BY <1>1, FirstFree
<1>3. Typed(mem) /\ Shape(mem, HeadF(mem), lst, stamp, top)
  BY <1>1 DEF Good, Shape
<1>d. d \in Block /\ lst[d] = DevList /\ d # b
  <2>1. d \in Block /\ lst[d] = DevList
    BY <1>1, SoughtIs
  <2>2. QED
    BY <1>2, <2>1, ListIdIs
<1>4. Record(r) /\ r.is = "reg" /\ r.name = n /\ r.next = mem.blocks[d].first /\ r.first = 0
  BY NewRegIs
<1>5. PICK a : a = Allocated(mem, r)
  OBVIOUS
<1>6. /\ Typed(a) /\ a.first_dev = mem.first_dev /\ a.first_free = mem.blocks[b].next
      /\ \A c \in Block : a.blocks[c] = IF c = b THEN r ELSE mem.blocks[c]
  BY <1>2, <1>3, <1>4, <1>5, AllocatedIs
<1>7. f = WithFirst(a, d, b)
  BY <1>2, <1>5
<1>8. /\ Typed(f) /\ f.first_dev = a.first_dev /\ f.first_free = a.first_free
      /\ \A c \in Block : f.blocks[c] = IF c = d THEN Heading(a.blocks[d], b) ELSE a.blocks[c]
  BY <1>6, <1>7, <1>d, FirstSet
<1>9. f.blocks[b] = r /\ \A c \in Block \ {b, d} : f.blocks[c] = mem.blocks[c]
  BY <1>6, <1>8, <1>d
<1>e. Kept(mem.blocks[d], f.blocks[d]) /\ f.blocks[d].first = b /\ f.blocks[d].next = mem.blocks[d].next
  <2>1. Record(mem.blocks[d]) /\ f.blocks[d] = Heading(mem.blocks[d], b)
    BY <1>3, <1>6, <1>8, <1>d DEF Typed
  <2>2. QED
    BY <2>1, LinkSet
<1>f. \A c \in Block \ {b} : Kept(mem.blocks[c], f.blocks[c])
  <2>1. \A c \in Block \ {b, d} : Kept(mem.blocks[c], f.blocks[c])
    BY <1>9 DEF Kept
  <2>2. QED
    BY <1>e, <2>1
<1>10. HeadF(mem)[d] = mem.blocks[d].first /\ HeadF(mem)[0] = b /\ NextF(mem)[b] = mem.blocks[b].next
  BY <1>2, <1>d, ListIdIs DEF HeadF, NextF
<1>11. NextF(f) = Put(NextF(mem), b, HeadF(mem)[d])
  <2>1. \A c \in Block : f.blocks[c].next = IF c = b THEN HeadF(mem)[d] ELSE mem.blocks[c].next
    BY <1>4, <1>9, <1>10, <1>e
  <2>2. QED
    BY <1>10, <2>1 DEF NextF, Put
<1>12. \A c \in Block : lst[c] = d => mem.blocks[c].name # f.blocks[b].name
  <2>1. f.blocks[b].name = n
    BY <1>4, <1>9
  <2>2. \A c \in Block : lst[c] = d => mem.blocks[c].name # n
    BY <1>1, <1>d, SoughtIs
  <2>3. QED
    BY <2>1, <2>2
<1>13. /\ Shape(f, Put(Put(HeadF(mem), 0, NextF(mem)[b]), d, b),
                Put(lst, b, d), Put(stamp, b, top + 1), top + 1)
       /\ HeadF(mem)[b] = 0
  <2>1. f.blocks[b].is = IsOf(d)
    BY <1>4, <1>9, <1>d, ListIdIs DEF IsOf
  <2>2. \A c \in Block : c # b => Same(f.blocks[c], mem.blocks[c])
    BY <1>f DEF Same, Kept
  <2>3. d \in ListId /\ d # 0 /\ lst[d] = DevList
    BY <1>d, ListIdIs
  <2>4. b = HeadF(mem)[0]
    BY <1>10
  <2>5. QED
    BY <1>3, <1>8, <1>11, <1>12, <2>1, <2>2, <2>3, <2>4, ShapeTake
<1>14. HeadF(f) = Put(Put(HeadF(mem), 0, NextF(mem)[b]), d, b)
  <2>1. mem.blocks[b].first = 0
    BY <1>13, ListIdIs DEF HeadF
  <2>2. \A c \in Block : f.blocks[c].first = IF c = d THEN b ELSE mem.blocks[c].first
    BY <1>4, <1>9, <1>e, <2>1
  <2>3. f.first_dev = mem.first_dev /\ f.first_free = NextF(mem)[b]
    BY <1>6, <1>8, <1>10
  <2>4. QED
    BY <1>d, <2>2, <2>3, ListIdIs DEF HeadF, Put
<1>15. Whole(f)
  BY <1>13, <1>14 DEF Whole, Good
<1>16. mem.blocks[b].is = "free"
  BY <1>2, <1>3, IsTells
<1>17. QED
  BY <1>9, <1>f, <1>15, <1>16

\* A block that is out of its list is freed.
LEMMA FreedShape ==
  ASSUME NEW m, NEW heads, NEW lst, NEW stamp, NEW top, Shape(m, heads, lst, stamp, top),
         NEW b \in Block, lst[b] # 0, lst[b] = DevList => heads[b] = 0,
         NEW m1, Typed(m1), NEW head1, Out(NextF(m), heads, lst, b, NextF(m1), head1),
         m1.first_free = heads[0], \A c \in Block : Kept(m.blocks[c], m1.blocks[c]),
         NEW f, f = Freed(m1, b)
  PROVE  /\ Shape(f, Put(head1, 0, b), Put(lst, b, 0), Put(stamp, b, top + 1), top + 1)
         /\ head1[b] = 0 /\ f.first_dev = m1.first_dev /\ f.first_free = b
         /\ f.blocks[b].is = "free" /\ f.blocks[b].first = 0
         /\ \A c \in Block : c # b => f.blocks[c] = m1.blocks[c]
<1>1. /\ Typed(f) /\ f.first_dev = m1.first_dev /\ f.first_free = b
      /\ f.blocks[b].is = "free" /\ f.blocks[b].first = 0 /\ f.blocks[b].next = m1.first_free
      /\ \A c \in Block : c # b => f.blocks[c] = m1.blocks[c]
  <2>1. /\ Typed(f) /\ f.first_dev = m1.first_dev /\ f.first_free = b
        /\ f.blocks[b] = Preceding(Empty, m1.first_free)
        /\ \A c \in Block : c # b => f.blocks[c] = m1.blocks[c]
    BY FreedIs
  <2>2. f.blocks[b].is = "free" /\ f.blocks[b].first = 0 /\ f.blocks[b].next = m1.first_free
    BY <2>1, EmptyNext
  <2>3. QED
    BY <2>1, <2>2
<1>2. NextF(f) = Put(NextF(m1), b, heads[0])
  BY <1>1 DEF NextF, Put
<1>3. \A c \in Block : c # b => Same(f.blocks[c], m.blocks[c])
  BY <1>1 DEF Same, Kept
<1>4. Typed(f) /\ f.blocks[b].is = "free"
  BY <1>1
<1>5. /\ Shape(f, Put(head1, 0, b), Put(lst, b, 0), Put(stamp, b, top + 1), top + 1)
      /\ head1[b] = 0
  BY <1>2, <1>3, <1>4, ShapeFree
<1>6. QED
  BY <1>1, <1>5

\* A register is unlinked and freed.
LEMMA RegFreed ==
  ASSUME Whole(mem), NEW n, NEW b, b = GetReg(n), b # 0, NEW d, d = DeviceById(mem.blocks[b].unit),
         NEW f, f = Unlinked(d, b)
  PROVE  /\ Whole(f) /\ b \in Block
         /\ \A c \in Block \ {b} : Kept(mem.blocks[c], f.blocks[c])
         /\ Kept(mem.blocks[b], f.blocks[b]) \/ f.blocks[b].is = "free"
<1>1. PICK lst, stamp, top : Good(mem, lst, stamp, top)
  BY DEF Whole
<1>2. b \in Block /\ lst[b] \in Block /\ mem.blocks[b].name = n
  BY <1>1, GetRegIs
<1>3. Typed(mem) /\ Shape(mem, HeadF(mem), lst, stamp, top) /\ Linked(NextF(mem), HeadF(mem), lst, stamp, top)
  BY <1>1 DEF Good, Shape
<1>4. CASE d = 0 \/ b \notin RegsOf(d)
  <2>1. f = mem
    BY <1>4 DEF Unlinked
  <2>2. \A c \in Block : Kept(mem.blocks[c], f.blocks[c])
    BY <2>1 DEF Kept
  <2>3. QED
    BY <1>2, <2>1, <2>2
<1>5. CASE d # 0 /\ b \in RegsOf(d)
  <2>1. d \in Block /\ lst[d] = DevList /\ lst[b] = d /\ d # b
    <3>1. d \in Block /\ lst[d] = DevList
      BY <1>1, <1>5, SoughtIs
    <3>2. RegsOf(d) = {c \in Block : lst[c] = d}
      BY <1>1, <3>1, ListsAre
    <3>3. lst[b] # DevList
      BY <1>2, ListIdIs
    <3>4. QED
      BY <1>5, <3>1, <3>2, <3>3
  <2>2. lst[b] # 0 /\ lst[b] # DevList /\ lst[b] \in ListId
    BY <1>2, ListIdIs
  <2>3. /\ HeadF(mem)[d] = mem.blocks[d].first /\ NextF(mem)[b] = mem.blocks[b].next
        /\ HeadF(mem)[0] = mem.first_free /\ HeadF(mem)[b] = mem.blocks[b].first
    BY <1>2, <2>1, ListIdIs DEF HeadF, NextF
  <2> DEFINE x == mem.blocks[b].next
  <2>4. CASE mem.blocks[d].first = b
    <3>1. PICK m1 : m1 = WithFirst(mem, d, x)
      OBVIOUS
    <3>2. f = Freed(m1, b)
      BY <1>5, <2>4, <3>1 DEF Unlinked, WithFirst
    <3>3. /\ Typed(m1) /\ m1.first_dev = mem.first_dev /\ m1.first_free = mem.first_free
          /\ \A c \in Block : m1.blocks[c] = IF c = d THEN Heading(mem.blocks[d], x) ELSE mem.blocks[c]
      BY <1>3, <2>1, <3>1, FirstSet
    <3>4. Kept(mem.blocks[d], m1.blocks[d]) /\ m1.blocks[d].first = x /\ m1.blocks[d].next = mem.blocks[d].next
      <4>1. Record(mem.blocks[d]) /\ m1.blocks[d] = Heading(mem.blocks[d], x)
        BY <1>3, <2>1, <3>3 DEF Typed
      <4>2. QED
        BY <4>1, LinkSet
    <3>5. /\ \A c \in Block : Kept(mem.blocks[c], m1.blocks[c]) /\ m1.blocks[c].next = mem.blocks[c].next
          /\ \A c \in Block : m1.blocks[c].first = IF c = d THEN x ELSE mem.blocks[c].first
      BY <3>3, <3>4 DEF Kept
    <3>6. PICK head1 : head1 = Put(HeadF(mem), d, x)
      OBVIOUS
    <3>7. Out(NextF(mem), HeadF(mem), lst, b, NextF(m1), head1)
      <4>1. NextF(m1) = NextF(mem)
        BY <3>5 DEF NextF
      <4>2. QED
        BY <2>1, <2>3, <2>4, <3>6, <4>1 DEF Out
    <3>8. /\ Shape(f, Put(head1, 0, b), Put(lst, b, 0), Put(stamp, b, top + 1), top + 1)
          /\ head1[b] = 0 /\ f.first_dev = m1.first_dev /\ f.first_free = b
          /\ f.blocks[b].is = "free" /\ f.blocks[b].first = 0
          /\ \A c \in Block : c # b => f.blocks[c] = m1.blocks[c]
      <4>1. m1.first_free = HeadF(mem)[0] /\ Typed(m1) /\ \A c \in Block : Kept(mem.blocks[c], m1.blocks[c])
        BY <2>3, <3>3, <3>5
      <4>2. QED
        BY <1>2, <1>3, <2>2, <3>2, <3>7, <4>1, FreedShape
    <3>9. HeadF(f) = Put(head1, 0, b)
      <4>1. \A c \in Block : f.blocks[c].first = head1[c]
        <5>1. \A c \in Block : head1[c] = IF c = d THEN x ELSE mem.blocks[c].first
          BY <2>1, <3>6, ListIdIs DEF HeadF, Put
        <5>2. QED
          BY <3>5, <3>8, <5>1
      <4>2. head1 \in [ListId -> UNION {{head1[l]} : l \in ListId}] /\ head1[DevList] = mem.first_dev
        BY <2>1, <3>6, ListIdIs DEF HeadF, Put
      <4>3. f.first_dev = mem.first_dev /\ f.first_free = b
        BY <3>3, <3>8
      <4>4. QED
        BY <4>1, <4>2, <4>3, ListIdIs DEF HeadF, Put
    <3>10. Whole(f)
      BY <3>8, <3>9 DEF Whole, Good
    <3>11. QED
      BY <1>2, <3>5, <3>8, <3>10
  <2>5. CASE mem.blocks[d].first # b
    <3>1. PICK p : p = CHOOSE q \in RegsOf(d) : mem.blocks[q].next = b
      OBVIOUS
    <3>2. p \in Block /\ mem.blocks[p].next = b /\ p # b
      <4>1. PICK q \in Block : NextF(mem)[q] = b
        BY <1>2, <1>3, <2>1, <2>3, <2>5 DEF Linked
      <4>2. lst[q] = d
        BY <1>2, <1>3, <2>1, <4>1, ListIdIs, LinkedIs
      <4>3. RegsOf(d) = {c \in Block : lst[c] = d}
        BY <1>1, <2>1, ListsAre
      <4>4. q \in RegsOf(d) /\ mem.blocks[q].next = b
        BY <4>1, <4>2, <4>3 DEF NextF
      <4>5. p \in RegsOf(d) /\ mem.blocks[p].next = b
        BY <3>1, <4>4
      <4>6. p \in Block
        BY <4>3, <4>5
      <4>7. p # b
        <5>1. NextF(mem)[p] = b /\ b # 0
          BY <4>5, <4>6, ListIdIs DEF NextF
        <5>2. stamp[b] < stamp[p] /\ stamp[p] \in Nat
          BY <1>3, <4>6, <5>1, LinkedIs DEF Linked
        <5>3. QED
          BY <5>2
      <4>8. QED
        BY <4>5, <4>6, <4>7
    <3>3. PICK m1 : m1 = WithNext(mem, p, x)
      OBVIOUS
    <3>4. f = Freed(m1, b)
      BY <1>5, <2>5, <3>1, <3>3 DEF Unlinked, WithNext
    <3>5. /\ Typed(m1) /\ m1.first_dev = mem.first_dev /\ m1.first_free = mem.first_free
          /\ \A c \in Block : m1.blocks[c] = IF c = p THEN Preceding(mem.blocks[p], x) ELSE mem.blocks[c]
      BY <1>3, <3>2, <3>3, NextSet
    <3>6. Kept(mem.blocks[p], m1.blocks[p]) /\ m1.blocks[p].next = x /\ m1.blocks[p].first = mem.blocks[p].first
      <4>1. Record(mem.blocks[p]) /\ m1.blocks[p] = Preceding(mem.blocks[p], x)
        BY <1>3, <3>2, <3>5 DEF Typed
      <4>2. QED
        BY <4>1, LinkSet
    <3>7. /\ \A c \in Block : Kept(mem.blocks[c], m1.blocks[c]) /\ m1.blocks[c].first = mem.blocks[c].first
          /\ \A c \in Block : m1.blocks[c].next = IF c = p THEN x ELSE mem.blocks[c].next
      BY <3>5, <3>6 DEF Kept
    <3>8. Out(NextF(mem), HeadF(mem), lst, b, NextF(m1), HeadF(mem))
      <4>1. NextF(m1) = Put(NextF(mem), p, NextF(mem)[b])
        BY <2>3, <3>7 DEF NextF, Put
      <4>2. NextF(mem)[p] = b
        BY <3>2 DEF NextF
      <4>3. QED
        BY <3>2, <4>1, <4>2 DEF Out
    <3>9. /\ Shape(f, Put(HeadF(mem), 0, b), Put(lst, b, 0), Put(stamp, b, top + 1), top + 1)
          /\ HeadF(mem)[b] = 0 /\ f.first_dev = m1.first_dev /\ f.first_free = b
          /\ f.blocks[b].is = "free" /\ f.blocks[b].first = 0
          /\ \A c \in Block : c # b => f.blocks[c] = m1.blocks[c]
      <4>1. m1.first_free = HeadF(mem)[0] /\ Typed(m1) /\ \A c \in Block : Kept(mem.blocks[c], m1.blocks[c])
        BY <2>3, <3>5, <3>7
      <4>2. QED
        BY <1>2, <1>3, <2>2, <3>4, <3>8, <4>1, FreedShape
    <3>10. HeadF(f) = Put(HeadF(mem), 0, b)
      <4>1. \A c \in Block : f.blocks[c].first = mem.blocks[c].first
        BY <2>3, <3>7, <3>9
      <4>2. f.first_dev = mem.first_dev /\ f.first_free = b
        BY <3>5, <3>9
      <4>3. QED
        BY <4>1, <4>2, ListIdIs DEF HeadF, Put
    <3>11. Whole(f)
      BY <3>9, <3>10 DEF Whole, Good
    <3>12. QED
      BY <1>2, <3>7, <3>9, <3>11
  <2>6. QED
    BY <2>4, <2>5
<1>6. QED
  BY <1>4, <1>5

\* The registers of a device are freed one after the other.
LEMMA FreedInTurn ==
  ASSUME NEW d
  PROVE  \E g : /\ RegsFreed(d) = g[Blocks] /\ g[0] = mem
                /\ \A i \in 1..Blocks :
                     g[i] = IF Chain(mem.blocks[d].first)[i - 1] = 0 THEN g[i - 1]
                            ELSE Freed(g[i - 1], Chain(mem.blocks[d].first)[i - 1])
<1> DEFINE C(i) == Chain(mem.blocks[d].first)[i]
           Step(f, i) == IF i = 0 THEN mem
                         ELSE IF C(i - 1) = 0 THEN f[i - 1] ELSE Freed(f[i - 1], C(i - 1))
           IsOn(f, n) == f = [i \in 0..n |-> Step(f, i)]
           T == {n \in Nat : \E f : IsOn(f, n)}
<1>0. Blocks \in Nat
  BY ListIdIs
<1>1. 0 \in T
  <2> DEFINE g == [i \in 0..0 |-> mem]
  <2>1. IsOn(g, 0)
    OBVIOUS
  <2>2. QED
    BY <2>1
<1>2. ASSUME NEW n \in Nat, n \in T PROVE n + 1 \in T
  <2>1. PICK f : IsOn(f, n)
    BY <1>2
  <2> HIDE DEF C
  <2> DEFINE g == [i \in 0..(n + 1) |->
                     IF i = n + 1 THEN IF C(n) = 0 THEN f[n] ELSE Freed(f[n], C(n))
                     ELSE f[i]]
  <2>2. \A i \in 0..n : g[i] = f[i] /\ f[i] = Step(f, i)
    <3>1. \A i \in 0..n : i \in 0..(n + 1) /\ i # n + 1
      OBVIOUS
    <3>2. \A i \in 0..n : g[i] = f[i]
      BY <3>1, Zenon
    <3>3. \A i \in 0..n : f[i] = Step(f, i)
      <4> HIDE DEF Step
      <4>1. QED
        BY <2>1, Zenon
    <3>4. QED
      BY <3>2, <3>3, Zenon
  <2>3. ASSUME NEW i \in 0..(n + 1) PROVE g[i] = Step(g, i)
    <3>1. CASE i = n + 1
      <4>1. g[n] = f[n] /\ i - 1 = n /\ i # 0
        BY <2>2, <3>1
      <4>2. QED
        BY <3>1, <4>1
    <3>2. CASE i = 0
      <4>1. i \in 0..n /\ i # n + 1
        BY <3>2
      <4>2. g[i] = f[i] /\ f[i] = mem
        BY <2>2, <3>2, <4>1
      <4>3. QED
        BY <3>2, <4>2
    <3>3. CASE i # n + 1 /\ i # 0
      <4>1. i - 1 \in 0..n /\ i \in 0..n
        BY <3>3
      <4>2. QED
        BY <2>2, <4>1, <3>3
    <3>4. QED
      BY <3>1, <3>2, <3>3
  <2>4. g = [i \in 0..(n + 1) |-> g[i]]
    OBVIOUS
  <2>5. IsOn(g, n + 1)
    <3> HIDE DEF g, Step
    <3>1. QED
      BY <2>3, <2>4
  <2>6. QED
    <3>1. n + 1 \in Nat /\ \E f1 : IsOn(f1, n + 1)
      <4> HIDE DEF IsOn
      <4>1. QED
        BY <2>5
    <3>2. QED
      BY <3>1
<1>3. Blocks \in T
  <2>1. Nat \subseteq T
    <3> HIDE DEF T
    <3>1. QED
      BY <1>1, <1>2, NatInduct
  <2>2. QED
    BY <1>0, <2>1
<1>4. PICK g : RegsFreed(d) = g[Blocks] /\ IsOn(g, Blocks)
  <2>1. PICK f : IsOn(f, Blocks)
    BY <1>3
  <2>2. RegsFreed(d) = (CHOOSE f1 : IsOn(f1, Blocks))[Blocks]
    BY DEF RegsFreed
  <2>3. QED
    <3> HIDE DEF IsOn
    <3>1. IsOn(CHOOSE f1 : IsOn(f1, Blocks), Blocks)
      BY <2>1, Zenon
    <3>2. QED
      BY <2>2, <3>1, Zenon
<1>5. \A i \in 0..Blocks : g[i] = Step(g, i)
  BY <1>4
<1>6. QED
  <2>1. (\A i \in 1..Blocks : i \in 0..Blocks /\ i # 0) /\ 0 \in 0..Blocks
    BY <1>0
  <2>2. \A i \in 1..Blocks : g[i] = IF C(i - 1) = 0 THEN g[i - 1] ELSE Freed(g[i - 1], C(i - 1))
    <3> HIDE DEF C
    <3>1. QED
      BY <1>5, <2>1
  <2>3. g[0] = mem
    BY <1>5, <2>1
  <2>4. QED
    BY <1>4, <2>2, <2>3

\* When they all are, the list of the device is empty.
LEMMA RegsFreedIs ==
  ASSUME NEW lst, NEW stamp, NEW top, Good(mem, lst, stamp, top), NEW d \in Block, lst[d] = DevList
  PROVE  \E A, l, s, t :
           /\ A = RegsFreed(d) /\ Shape(A, Put(HeadF(A), d, 0), l, s, t) /\ A.first_dev = mem.first_dev
           /\ \A c \in Block : \/ l[c] = lst[c] /\ A.blocks[c] = mem.blocks[c]
                               \/ l[c] = 0 /\ lst[c] = d
<1> DEFINE C(i) == Chain(mem.blocks[d].first)[i]
<1>0. Blocks \in Nat
  BY ListIdIs
<1>1. /\ C(0) = mem.blocks[d].first
      /\ \A i \in 1..Blocks : C(i) = IF C(i - 1) = 0 THEN 0 ELSE NextOf(C(i - 1))
      /\ C(Blocks) = 0
  <2>1. Chain(mem.blocks[d].first)[Blocks] = 0
    BY ListsAre
  <2>2. QED
    BY <2>1, ChainIs
<1>2. PICK g : /\ RegsFreed(d) = g[Blocks] /\ g[0] = mem
               /\ \A i \in 1..Blocks : g[i] = IF C(i - 1) = 0 THEN g[i - 1] ELSE Freed(g[i - 1], C(i - 1))
  BY FreedInTurn
<1> HIDE DEF C
<1> DEFINE Gone(m, c, l, s, t) ==
             /\ Shape(m, Put(HeadF(m), d, c), l, s, t) /\ m.first_dev = mem.first_dev
             /\ \A b \in Block : (l[b] = lst[b] /\ m.blocks[b] = mem.blocks[b]) \/ (l[b] = 0 /\ lst[b] = d)
           T == {n \in Nat : n <= Blocks => \E l, s, t : Gone(g[n], C(n), l, s, t)}
<1>3. 0 \in T
  <2>1. Put(HeadF(mem), d, mem.blocks[d].first) = HeadF(mem)
    BY ListIdIs DEF HeadF, Put
  <2>2. Gone(g[0], C(0), lst, stamp, top)
    BY <1>1, <1>2, <2>1 DEF Good
  <2>3. QED
    <3> HIDE DEF Gone
    <3>1. \E l, s, t : Gone(g[0], C(0), l, s, t)
      BY <2>2
    <3>2. QED
      BY <3>1
<1>4. ASSUME NEW n \in Nat, n \in T PROVE n + 1 \in T
  <2>1. SUFFICES ASSUME n + 1 <= Blocks PROVE \E l, s, t : Gone(g[n + 1], C(n + 1), l, s, t)
    <3> HIDE DEF Gone
    <3>1. QED
      OBVIOUS
  <2>2. n + 1 \in 1..Blocks /\ (n + 1) - 1 = n /\ n <= Blocks
    BY <1>0, <2>1
  <2>3. PICK l, s, t : Gone(g[n], C(n), l, s, t)
    <3> HIDE DEF Gone
    <3>1. QED
      BY <1>4, <2>2
  <2>4. CASE C(n) = 0
    <3>1. C(n + 1) = C(n) /\ g[n + 1] = g[n]
      BY <1>1, <1>2, <2>2, <2>4
    <3>2. QED
      <4> HIDE DEF Gone
      <4>1. QED
        BY <2>3, <3>1
  <2>5. CASE C(n) # 0
    <3>1. PICK m, b : m = g[n] /\ b = C(n)
      OBVIOUS
    <3>2. PICK f : f = g[n + 1]
      OBVIOUS
    <3>3. f = Freed(m, b) /\ C(n + 1) = NextOf(b)
      BY <1>1, <1>2, <2>2, <2>5, <3>1, <3>2
    <3>4. PICK heads : heads = Put(HeadF(m), d, b)
      OBVIOUS
    <3>5. /\ Shape(m, heads, l, s, t) /\ m.first_dev = mem.first_dev
          /\ \A c \in Block : (l[c] = lst[c] /\ m.blocks[c] = mem.blocks[c]) \/ (l[c] = 0 /\ lst[c] = d)
      BY <2>3, <3>1, <3>4
    <3>6. Typed(m) /\ Linked(NextF(m), heads, l, s, t)
      BY <3>5 DEF Shape
    <3>7. /\ heads[d] = b /\ heads[0] = m.first_free /\ heads[DevList] = m.first_dev
          /\ \A c \in Block : c # d => heads[c] = m.blocks[c].first
      BY <3>4, ListIdIs DEF HeadF, Put
    <3>8. b \in Block /\ l[b] = d
      BY <2>5, <3>1, <3>6, <3>7, ListIdIs, LinkedIs
    <3>9. d # 0 /\ d # DevList /\ lst[d] # d /\ l[d] = DevList /\ b # d
      BY <3>5, <3>8, ListIdIs
    <3>10. PICK x : x = NextF(m)[b]
      OBVIOUS
    <3>11. x = m.blocks[b].next /\ m.blocks[b] = mem.blocks[b] /\ C(n + 1) = x
      BY <3>3, <3>5, <3>8, <3>9, <3>10 DEF NextF, NextOf
    <3>12. PICK head1 : head1 = Put(heads, d, x)
      OBVIOUS
    <3>13. Out(NextF(m), heads, l, b, NextF(m), head1)
      BY <3>7, <3>8, <3>10, <3>12 DEF Out
    <3>14. /\ Shape(f, Put(head1, 0, b), Put(l, b, 0), Put(s, b, t + 1), t + 1)
           /\ head1[b] = 0 /\ f.first_dev = m.first_dev /\ f.first_free = b
           /\ f.blocks[b].is = "free" /\ f.blocks[b].first = 0
           /\ \A c \in Block : c # b => f.blocks[c] = m.blocks[c]
      <4>1. \A c \in Block : Kept(m.blocks[c], m.blocks[c])
        BY DEF Kept
      <4>2. l[b] # 0 /\ l[b] # DevList
        BY <3>8, <3>9
      <4>3. m.first_free = heads[0]
        BY <3>7
      <4>4. QED
        BY <3>3, <3>5, <3>6, <3>8, <3>13, <4>1, <4>2, <4>3, FreedShape
    <3>15. Put(HeadF(f), d, x) = Put(head1, 0, b)
      <4>1. \A c \in Block : c # d => f.blocks[c].first = m.blocks[c].first
        <5>1. m.blocks[b].first = 0
          <6>1. head1[b] = m.blocks[b].first
            BY <3>8, <3>9, <3>12, <3>4, ListIdIs DEF HeadF, Put
          <6>2. QED
            BY <3>14, <6>1
        <5>2. QED
          BY <3>14, <5>1
      <4>2. PICK h1, h2 : h1 = HeadF(m) /\ h2 = HeadF(f)
        OBVIOUS
      <4>3. /\ h1 = [i \in ListId |-> h1[i]] /\ h2 = [i \in ListId |-> h2[i]]
            /\ h1[DevList] = m.first_dev /\ h2[DevList] = f.first_dev /\ h2[0] = b
            /\ \A c \in Block : h1[c] = m.blocks[c].first /\ h2[c] = f.blocks[c].first
        BY <3>14, <4>2, ListIdIs DEF HeadF
      <4>4. \A i \in ListId : i # d /\ i # 0 => h1[i] = h2[i]
        <5>1. h1[DevList] = h2[DevList]
          BY <3>14, <4>3
        <5>2. \A c \in Block : c # d => h1[c] = h2[c]
          BY <4>1, <4>3
        <5>3. QED
          BY <5>1, <5>2, ListIdIs
      <4>5. Put(h2, d, x) = Put(Put(Put(h1, d, b), d, x), 0, b)
        BY <3>9, <4>3, <4>4, ListIdIs DEF Put
      <4>6. QED
        BY <3>4, <3>12, <4>2, <4>5
    <3>16. \A c \in Block : \/ Put(l, b, 0)[c] = lst[c] /\ f.blocks[c] = mem.blocks[c]
                            \/ Put(l, b, 0)[c] = 0 /\ lst[c] = d
      <4>1. \A c \in Block : Put(l, b, 0)[c] = IF c = b THEN 0 ELSE l[c]
        BY <3>6 DEF Linked, Put
      <4>2. lst[b] = d
        BY <3>5, <3>8, <3>9
      <4>3. QED
        BY <3>5, <3>14, <4>1, <4>2
    <3>17. Gone(f, x, Put(l, b, 0), Put(s, b, t + 1), t + 1)
      BY <3>5, <3>14, <3>15, <3>16
    <3>18. QED
      <4> HIDE DEF Gone
      <4>1. QED
        BY <3>2, <3>11, <3>17
  <2>6. QED
    BY <2>4, <2>5
<1>5. Blocks \in T
  <2>1. Nat \subseteq T
    <3> HIDE DEF T
    <3>1. QED
      BY <1>3, <1>4, NatInduct
  <2>2. QED
    BY <1>0, <2>1
<1>6. PICK l, s, t : Gone(g[Blocks], C(Blocks), l, s, t)
  <2> HIDE DEF Gone
  <2>1. QED
    BY <1>0, <1>5
<1>7. PICK A : A = RegsFreed(d)
  OBVIOUS
<1>8. Gone(A, 0, l, s, t)
  <2> HIDE DEF Gone
  <2>1. QED
    BY <1>1, <1>2, <1>6, <1>7
<1>9. QED
  BY <1>7, <1>8

\* A device is deleted, with its registers.
DevGone(d) == IF mem.first_dev = d THEN Freed([RegsFreed(d) EXCEPT !.first_dev = mem.blocks[d].next], d)
              ELSE LET before == CHOOSE p \in Devices : mem.blocks[p].next = d
                   IN  Freed([RegsFreed(d) EXCEPT !.blocks[before].next = mem.blocks[d].next], d)

\* modbus_dev_del.
LEMMA DevFreed ==
  ASSUME Whole(mem), NEW n, NEW d, d = DeviceByName(n), d # 0, NEW f, f = DevGone(d)
  PROVE  /\ Whole(f) /\ d \in Block /\ mem.blocks[d].is = "dev"
         /\ \A c \in RegsOf(d) : c \in Block /\ mem.blocks[c].is = "reg"
         /\ \A c \in Block : IF c \in RegsOf(d) \/ c = d THEN f.blocks[c].is = "free"
                             ELSE Kept(mem.blocks[c], f.blocks[c])
<1>1. PICK lst, stamp, top : Good(mem, lst, stamp, top)
  BY DEF Whole
<1>2. d \in Block /\ lst[d] = DevList /\ d # 0
  BY <1>1, SoughtIs
<1>3. Typed(mem) /\ Shape(mem, HeadF(mem), lst, stamp, top) /\ Linked(NextF(mem), HeadF(mem), lst, stamp, top)
  BY <1>1 DEF Good, Shape
<1>4. RegsOf(d) = {c \in Block : lst[c] = d} /\ Devices = {c \in Block : lst[c] = DevList}
  BY <1>1, <1>2, ListsAre
<1>5. PICK A, l, s, t :
        /\ A = RegsFreed(d) /\ Shape(A, Put(HeadF(A), d, 0), l, s, t) /\ A.first_dev = mem.first_dev
        /\ \A c \in Block : \/ l[c] = lst[c] /\ A.blocks[c] = mem.blocks[c]
                            \/ l[c] = 0 /\ lst[c] = d
  BY <1>1, <1>2, RegsFreedIs
<1>6. PICK heads : heads = Put(HeadF(A), d, 0)
  OBVIOUS
<1>7. Typed(A) /\ Shape(A, heads, l, s, t) /\ Linked(NextF(A), heads, l, s, t)
  BY <1>5, <1>6 DEF Shape
<1>8. /\ heads[d] = 0 /\ heads[0] = A.first_free /\ heads[DevList] = A.first_dev
      /\ \A c \in Block : c # d => heads[c] = A.blocks[c].first
  BY <1>2, <1>6, ListIdIs DEF HeadF, Put
<1>9. lst[d] # d /\ l[d] = DevList /\ d # DevList /\ A.blocks[d] = mem.blocks[d] /\ l[d] # 0
  BY <1>2, <1>5, ListIdIs
<1>10. PICK x : x = mem.blocks[d].next
  OBVIOUS
<1>11. NextF(A)[d] = x
  BY <1>2, <1>9, <1>10 DEF NextF
<1>12. PICK m1, head1 : /\ Typed(m1) /\ m1.first_free = A.first_free
                        /\ \A c \in Block : Kept(A.blocks[c], m1.blocks[c]) /\ m1.blocks[c].first = A.blocks[c].first
                        /\ Out(NextF(A), heads, l, d, NextF(m1), head1)
                        /\ head1 = Put(heads, DevList, m1.first_dev)
                        /\ f = Freed(m1, d)
  <2>1. CASE mem.first_dev = d
    <3>1. PICK m1 : m1 = WithDev(A, x)
      OBVIOUS
    <3>2. Typed(m1) /\ m1.first_dev = x /\ m1.first_free = A.first_free /\ m1.blocks = A.blocks
      BY <1>7, <3>1, HeadSet
    <3>3. f = Freed(m1, d)
      BY <1>5, <1>10, <2>1, <3>1 DEF DevGone, WithDev
    <3>4. PICK head1 : head1 = Put(heads, DevList, x)
      OBVIOUS
    <3>5. Out(NextF(A), heads, l, d, NextF(m1), head1)
      <4>1. NextF(m1) = NextF(A)
        BY <3>2 DEF NextF
      <4>2. heads[l[d]] = d
        BY <1>5, <1>8, <1>9, <2>1
      <4>3. head1 = Put(heads, l[d], NextF(A)[d])
        BY <1>9, <1>11, <3>4
      <4>4. QED
        BY <4>1, <4>2, <4>3 DEF Out
    <3>6. \A c \in Block : Kept(A.blocks[c], m1.blocks[c]) /\ m1.blocks[c].first = A.blocks[c].first
      BY <3>2 DEF Kept
    <3>7. head1 = Put(heads, DevList, m1.first_dev)
      BY <3>2, <3>4
    <3>8. QED
      BY <3>2, <3>3, <3>5, <3>6, <3>7
  <2>2. CASE mem.first_dev # d
    <3>1. PICK p : p = CHOOSE q \in Devices : mem.blocks[q].next = d
      OBVIOUS
    <3>2. p \in Block /\ mem.blocks[p].next = d /\ lst[p] = DevList
      <4>1. HeadF(mem)[DevList] # d
        BY <2>2, ListIdIs DEF HeadF
      <4>2. PICK q \in Block : NextF(mem)[q] = d
        BY <1>2, <1>3, <4>1 DEF Linked
      <4>3. lst[q] = DevList
        BY <1>2, <1>3, <4>2, LinkedIs
      <4>4. q \in Devices /\ mem.blocks[q].next = d
        BY <1>4, <4>2, <4>3 DEF NextF
      <4>5. p \in Devices /\ mem.blocks[p].next = d
        BY <3>1, <4>4
      <4>6. QED
        BY <1>4, <4>5
    <3>3. A.blocks[p] = mem.blocks[p]
      BY <1>5, <1>9, <1>2, <3>2
    <3>4. PICK m1 : m1 = WithNext(A, p, x)
      OBVIOUS
    <3>5. f = Freed(m1, d)
      BY <1>5, <1>10, <2>2, <3>1, <3>4 DEF DevGone, WithNext
    <3>6. /\ Typed(m1) /\ m1.first_dev = A.first_dev /\ m1.first_free = A.first_free
          /\ \A c \in Block : m1.blocks[c] = IF c = p THEN Preceding(A.blocks[p], x) ELSE A.blocks[c]
      BY <1>7, <3>2, <3>4, NextSet
    <3>7. Kept(A.blocks[p], m1.blocks[p]) /\ m1.blocks[p].next = x /\ m1.blocks[p].first = A.blocks[p].first
      <4>1. Record(A.blocks[p]) /\ m1.blocks[p] = Preceding(A.blocks[p], x)
        BY <1>7, <3>2, <3>6 DEF Typed
      <4>2. QED
        BY <4>1, LinkSet
    <3>8. /\ \A c \in Block : Kept(A.blocks[c], m1.blocks[c]) /\ m1.blocks[c].first = A.blocks[c].first
          /\ \A c \in Block : m1.blocks[c].next = IF c = p THEN x ELSE A.blocks[c].next
      BY <3>6, <3>7 DEF Kept
    <3>9. Out(NextF(A), heads, l, d, NextF(m1), heads)
      <4>1. NextF(m1) = Put(NextF(A), p, NextF(A)[d])
        BY <1>11, <3>8 DEF NextF, Put
      <4>2. NextF(A)[p] = d
        BY <3>2, <3>3 DEF NextF
      <4>3. QED
        BY <3>2, <4>1, <4>2 DEF Out
    <3>10. heads = Put(heads, DevList, m1.first_dev)
      <4>1. heads \in [ListId -> 0..Blocks] /\ heads[DevList] = m1.first_dev
        BY <1>7, <1>8, <3>6 DEF Linked
      <4>2. QED
        BY <4>1 DEF Put
    <3>11. QED
      BY <3>5, <3>6, <3>8, <3>9, <3>10
  <2>3. QED
    BY <2>1, <2>2
<1>13. /\ Shape(f, Put(head1, 0, d), Put(l, d, 0), Put(s, d, t + 1), t + 1)
       /\ head1[d] = 0 /\ f.first_dev = m1.first_dev /\ f.first_free = d
       /\ f.blocks[d].is = "free" /\ f.blocks[d].first = 0
       /\ \A c \in Block : c # d => f.blocks[c] = m1.blocks[c]
  <2>1. m1.first_free = heads[0]
    BY <1>8, <1>12
  <2>2. \A c \in Block : Kept(A.blocks[c], m1.blocks[c])
    BY <1>12
  <2>3. QED
    BY <1>2, <1>7, <1>8, <1>9, <1>12, <2>1, <2>2, FreedShape
<1>14. HeadF(f) = Put(head1, 0, d)
  <2>1. f.first_dev = m1.first_dev /\ f.first_free = d /\ f.blocks[d].first = 0
    BY <1>13
  <2>2. \A c \in Block : c # d => f.blocks[c].first = heads[c]
    BY <1>8, <1>12, <1>13
  <2>3. heads \in [ListId -> 0..Blocks] /\ head1 = Put(heads, DevList, m1.first_dev)
    BY <1>7, <1>12 DEF Linked
  <2>4. \A c \in Block : f.blocks[c].first = heads[c]
    BY <1>8, <2>1, <2>2
  <2>5. QED
    BY <2>1, <2>3, <2>4, ListIdIs DEF HeadF, Put
<1>15. Whole(f)
  BY <1>13, <1>14 DEF Whole, Good
<1>16. ASSUME NEW c \in Block, c \in RegsOf(d) PROVE mem.blocks[c].is = "reg" /\ f.blocks[c].is = "free"
  <2>1. lst[c] = d /\ lst[c] \in Block /\ c # d
    BY <1>2, <1>4, <1>9, <1>16
  <2>2. mem.blocks[c].is = "reg"
    BY <1>3, <2>1, IsTells
  <2>3. l[c] # d
    BY <1>2, <1>7, <1>8, ListIdIs, Empties
  <2>4. l[c] = 0
    BY <1>5, <2>1, <2>3
  <2>5. A.blocks[c].is = "free"
    BY <1>7, <2>4, IsTells
  <2>6. f.blocks[c].is = A.blocks[c].is
    BY <1>12, <1>13, <2>1 DEF Kept
  <2>7. QED
    BY <2>2, <2>5, <2>6
<1>17. ASSUME NEW c \in Block, c \notin RegsOf(d), c # d PROVE Kept(mem.blocks[c], f.blocks[c])
  <2>1. A.blocks[c] = mem.blocks[c]
    BY <1>4, <1>5, <1>17
  <2>2. QED
    BY <1>12, <1>13, <1>17, <2>1
<1>18. mem.blocks[d].is = "dev"
  BY <1>2, <1>3, IsTells
<1>19. QED
  <2>1. \A c \in RegsOf(d) : c \in Block
    BY <1>4
  <2>2. \A c \in RegsOf(d) : c \in Block /\ mem.blocks[c].is = "reg"
    BY <1>16, <2>1
  <2>3. \A c \in Block : IF c \in RegsOf(d) \/ c = d THEN f.blocks[c].is = "free"
                         ELSE Kept(mem.blocks[c], f.blocks[c])
    BY <1>13, <1>16, <1>17
  <2>4. QED
    BY <1>2, <1>15, <1>18, <2>2, <2>3

-----------------------------------------------------------------------------
(* What a read does.                                                       *)

\* At the start all are free.
LEMMA StartIsWhole == Whole(MemAtStart) /\ \A b \in Block : MemAtStart.blocks[b].is = "free"
<1>1. PICK m : m = MemAtStart
  OBVIOUS
<1>2. PICK lst, stamp : lst = [b \in Block |-> 0] /\ stamp = [b \in Block |-> Blocks - b]
  OBVIOUS
<1>0. Blocks \in Nat \ {0} /\ Block = 1..Blocks /\ 0 \notin Block /\ DevList # 0
  BY ListIdIs
<1>3. /\ m.first_dev = 0 /\ m.first_free = 1 /\ m = [blocks |-> m.blocks, first_dev |-> m.first_dev, first_free |-> m.first_free]
      /\ m.blocks = [b \in Block |-> [Empty EXCEPT !.next = IF b = Blocks THEN 0 ELSE b + 1]]
  BY <1>1 DEF MemAtStart
<1>4. \A b \in Block : /\ Record(m.blocks[b]) /\ m.blocks[b].is = "free" /\ m.blocks[b].first = 0
                       /\ m.blocks[b].next = IF b = Blocks THEN 0 ELSE b + 1
  <2>1. SUFFICES ASSUME NEW b \in Block
                 PROVE  /\ Record(m.blocks[b]) /\ m.blocks[b].is = "free" /\ m.blocks[b].first = 0
                        /\ m.blocks[b].next = IF b = Blocks THEN 0 ELSE b + 1
    OBVIOUS
  <2>2. PICK x : x = IF b = Blocks THEN 0 ELSE b + 1
    OBVIOUS
  <2>3. PICK r : r = Preceding(Empty, x)
    OBVIOUS
  <2>4. Record(r)
    BY <2>3, EmptyIs DEF Record, Preceding
  <2>5. m.blocks[b] = r
    BY <1>3, <2>2, <2>3 DEF Preceding
  <2>6. r.is = "free" /\ r.first = 0 /\ r.next = x
    BY <2>3, EmptyNext
  <2>7. QED
    BY <2>2, <2>4, <2>5, <2>6
<1>5. Typed(m)
  <2>1. m.blocks = [b \in Block |-> m.blocks[b]]
    BY <1>3
  <2>2. QED
    BY <1>3, <1>4, <2>1 DEF Typed
<1>6. PICK next, heads : next = NextF(m) /\ heads = HeadF(m)
  OBVIOUS
<1>7. /\ next = [b \in Block |-> next[b]] /\ \A b \in Block : next[b] = IF b = Blocks THEN 0 ELSE b + 1
      /\ heads = [l \in ListId |-> heads[l]] /\ \A l \in ListId : heads[l] = IF l = 0 THEN 1 ELSE 0
  <2>1. next = [b \in Block |-> next[b]] /\ \A b \in Block : next[b] = IF b = Blocks THEN 0 ELSE b + 1
    BY <1>4, <1>6 DEF NextF
  <2>2. heads = [l \in ListId |-> heads[l]] /\ \A l \in ListId : heads[l] = IF l = 0 THEN 1 ELSE 0
    BY <1>3, <1>4, <1>6, ListIdIs DEF HeadF
  <2>3. QED
    BY <2>1, <2>2
<1>8. Linked(next, heads, lst, stamp, Blocks)
  <2>1. \A b \in Block : next[b] \in 0..Blocks
    BY <1>0, <1>7
  <2>2. \A l \in ListId : heads[l] \in 0..Blocks
    BY <1>0, <1>7
  <2>3. next \in [Block -> 0..Blocks] /\ heads \in [ListId -> 0..Blocks]
    BY <1>7, <2>1, <2>2
  <2>4. \A b \in Block : stamp[b] = Blocks - b /\ lst[b] = 0
    BY <1>2
  <2>5. \A b \in Block : stamp[b] \in Nat /\ stamp[b] <= Blocks
    BY <1>0, <2>4
  <2>6. stamp \in [Block -> Nat] /\ lst \in [Block -> ListId]
    BY <1>2, <1>0, <2>4, <2>5, ListIdIs
  <2>7. \A l \in ListId : heads[l] # 0 => lst[heads[l]] = l
    BY <1>0, <1>7, <2>4
  <2>8. \A b \in Block : next[b] # 0 => /\ lst[next[b]] = lst[b] /\ stamp[next[b]] < stamp[b]
                                        /\ next[b] # heads[lst[b]]
    <3>1. SUFFICES ASSUME NEW b \in Block, next[b] # 0
                   PROVE  /\ lst[next[b]] = lst[b] /\ stamp[next[b]] < stamp[b]
                          /\ next[b] # heads[lst[b]]
      OBVIOUS
    <3>2. b # Blocks /\ next[b] = b + 1 /\ b + 1 \in Block /\ b \in Nat \ {0}
      BY <1>0, <1>7, <3>1
    <3>3. stamp[b + 1] = Blocks - (b + 1) /\ stamp[b] = Blocks - b /\ lst[b + 1] = 0 /\ lst[b] = 0
      BY <2>4, <3>2
    <3>4. heads[0] = 1
      BY <1>7, ListIdIs
    <3>5. QED
      BY <1>0, <3>2, <3>3, <3>4
  <2>9. \A b, c \in Block : next[b] = next[c] /\ next[b] # 0 => b = c
    BY <1>0, <1>7
  <2>10. \A b \in Block : b = heads[lst[b]] \/ \E p \in Block : next[p] = b
    <3>1. SUFFICES ASSUME NEW b \in Block, b # heads[lst[b]] PROVE \E p \in Block : next[p] = b
      OBVIOUS
    <3>2. b # 1
      BY <1>7, <2>4, <3>1, ListIdIs
    <3>3. b - 1 \in Block /\ next[b - 1] = b
      BY <1>0, <1>7, <3>2
    <3>4. QED
      BY <3>3
  <2>11. QED
    BY <1>0, <2>3, <2>5, <2>6, <2>7, <2>8, <2>9, <2>10 DEF Linked
<1>9. Shape(m, HeadF(m), lst, stamp, Blocks)
  <2>1. \A b \in Block : lst[b] = 0
    BY <1>2
  <2>2. \A b \in Block : m.blocks[b].is = IsOf(lst[b])
    BY <1>4, <2>1 DEF IsOf
  <2>3. QED
    BY <1>0, <1>5, <1>6, <1>8, <2>1, <2>2 DEF Shape
<1>10. QED
  BY <1>1, <1>4, <1>9 DEF Whole, Good

\* A block that is written to where it is stays where it is.
LEMMA ReadSet ==
  ASSUME NEW m, Whole(m), NEW b \in Block, NEW r, Record(r), r.is = m.blocks[b].is, r.name = m.blocks[b].name,
         r.first = m.blocks[b].first, r.next = m.blocks[b].next, NEW f, f = WithBlock(m, b, r)
  PROVE  Whole(f) /\ \A c \in Block : f.blocks[c] = IF c = b THEN r ELSE m.blocks[c]
<1>1. PICK lst, stamp, top : Good(m, lst, stamp, top)
  BY DEF Whole
<1>2. Typed(m)
  BY <1>1 DEF Good, Shape
<1>3. /\ Typed(f) /\ f.first_dev = m.first_dev /\ f.first_free = m.first_free
      /\ \A c \in Block : f.blocks[c] = IF c = b THEN r ELSE m.blocks[c]
  BY <1>2, BlockSet
<1>4. \A c \in Block : /\ f.blocks[c].is = m.blocks[c].is /\ f.blocks[c].name = m.blocks[c].name
                       /\ f.blocks[c].first = m.blocks[c].first /\ f.blocks[c].next = m.blocks[c].next
  BY <1>3
<1>5. NextF(f) = NextF(m)
  BY <1>4 DEF NextF
<1>6. HeadF(f) = HeadF(m)
  BY <1>3, <1>4, ListIdIs DEF HeadF
<1>7. Good(f, lst, stamp, top)
  BY <1>1, <1>3, <1>4, <1>5, <1>6 DEF Good, Shape
<1>8. QED
  BY <1>3, <1>7 DEF Whole

\* What a read does to a block: of a register, its state and its value.
Touched(m, f) ==
  /\ \A c \in Block : f.blocks[c].is = m.blocks[c].is /\ f.blocks[c].name = m.blocks[c].name
  /\ \A c \in Block : m.blocks[c].is = "reg" => f.blocks[c].unit = m.blocks[c].unit /\ f.blocks[c].addr = m.blocks[c].addr

\* The blocks of a memory that is whole are records.
LEMMA WholeTyped ==
  ASSUME NEW m, Whole(m)
  PROVE  Typed(m) /\ \A b \in Block : Record(m.blocks[b])
BY DEF Whole, Good, Shape, Typed

\* A request marks the block it is for.
LEMMA WaitsIs ==
  ASSUME NEW m, Whole(m), NEW b \in Block, NEW f, f = Waits(m, b)
  PROVE  /\ Whole(f) /\ Touched(m, f)
         /\ \A c \in Block : f.blocks[c].is = "reg" /\ f.blocks[c].state = "READY" =>
              m.blocks[c].state = "READY" /\ f.blocks[c].value = m.blocks[c].value
<1>1. Record(m.blocks[b])
  BY WholeTyped
<1>2. CASE m.blocks[b].is = "reg"
  <2>1. PICK r : r = [m.blocks[b] EXCEPT !.state = "WAITING"]
    OBVIOUS
  <2>2. f = WithBlock(m, b, r)
    BY <1>2, <2>1 DEF Waits, WithBlock
  <2>3. /\ Record(r) /\ r.is = m.blocks[b].is /\ r.name = m.blocks[b].name
        /\ r.first = m.blocks[b].first /\ r.next = m.blocks[b].next /\ r.unit = m.blocks[b].unit
        /\ r.addr = m.blocks[b].addr
    BY <1>1, <2>1 DEF Record
  <2>4. Whole(f) /\ \A c \in Block : f.blocks[c] = IF c = b THEN r ELSE m.blocks[c]
    BY <2>2, <2>3, ReadSet
  <2>5. r.state # "READY"
    BY <1>1, <2>1 DEF Record
  <2>6. QED
    BY <2>3, <2>4, <2>5 DEF Touched
<1>3. CASE m.blocks[b].is = "dev"
  <2>1. PICK x : x = (m.blocks[b].unit % 2 ^ 12) + 2 ^ 12
    OBVIOUS
  <2>2. PICK r : r = [m.blocks[b] EXCEPT !.unit = x]
    OBVIOUS
  <2>3. f = WithBlock(m, b, r)
    BY <1>3, <2>1, <2>2 DEF Waits, WithBlock
  <2>4. /\ Record(r) /\ r.is = m.blocks[b].is /\ r.name = m.blocks[b].name
        /\ r.first = m.blocks[b].first /\ r.next = m.blocks[b].next
    BY <1>1, <2>2 DEF Record
  <2>5. Whole(f) /\ \A c \in Block : f.blocks[c] = IF c = b THEN r ELSE m.blocks[c]
    BY <2>3, <2>4, ReadSet
  <2>6. r.is # "reg"
    BY <1>3, <2>4
  <2>7. QED
    BY <1>3, <2>4, <2>5, <2>6 DEF Touched
<1>4. CASE m.blocks[b].is # "reg" /\ m.blocks[b].is # "dev"
  BY <1>4 DEF Waits, Touched
<1>5. QED
  BY <1>2, <1>3, <1>4

\* A reply fills in the block it is for.
LEMMA AnsweredIs ==
  ASSUME NEW m, Whole(m), NEW b \in Block, NEW f, f = Answered(m, b)
  PROVE  /\ Whole(f) /\ Touched(m, f)
         /\ \A c \in Block : f.blocks[c].is = "reg" /\ f.blocks[c].state = "READY" =>
              \/ m.blocks[c].state = "READY" /\ f.blocks[c].value = m.blocks[c].value
              \/ c = b /\ f.blocks[c].value = asked
<1>1. Record(m.blocks[b])
  BY WholeTyped
<1>2. CASE m.blocks[b].is = "reg"
  <2>1. CASE DeviceById(m.blocks[b].unit) # 0 /\ m.blocks[b].unit = asked[1]
    <3>1. PICK r1 : r1 = [m.blocks[b] EXCEPT !.state = "READY"]
      OBVIOUS
    <3>2. PICK r : r = [r1 EXCEPT !.value = asked]
      OBVIOUS
    <3>3. f = WithBlock(m, b, r)
      <4>1. f = [m EXCEPT !.blocks[b].state = "READY", !.blocks[b].value = asked]
        BY <1>2, <2>1 DEF Answered
      <4>2. PICK B, D, F : /\ m = [blocks |-> B, first_dev |-> D, first_free |-> F]
                           /\ B = [c \in Block |-> B[c]]
        BY WholeTyped DEF Typed
      <4>3. PICK m2 : m2 = [m EXCEPT !.blocks[b].state = "READY"]
        OBVIOUS
      <4>4. f = [m2 EXCEPT !.blocks[b].value = asked]
        BY <4>1, <4>3
      <4>5. PICK B2 : B2 = [B EXCEPT ![b] = r1]
        OBVIOUS
      <4>6. m2 = [blocks |-> B2, first_dev |-> D, first_free |-> F]
        BY <3>1, <4>2, <4>3, <4>5
      <4>7. B2 = [c \in Block |-> B2[c]] /\ B2[b] = r1
        BY <4>2, <4>5
      <4>8. f = [blocks |-> [B2 EXCEPT ![b] = r], first_dev |-> D, first_free |-> F]
        BY <3>2, <4>4, <4>6, <4>7
      <4>9. [B2 EXCEPT ![b] = r] = [B EXCEPT ![b] = r]
        BY <4>2, <4>5
      <4>10. WithBlock(m, b, r) = [blocks |-> [B EXCEPT ![b] = r], first_dev |-> D, first_free |-> F]
        BY <4>2 DEF WithBlock
      <4>11. QED
        BY <4>8, <4>9, <4>10
    <3>4. /\ Record(r1) /\ r1.is = m.blocks[b].is /\ r1.name = m.blocks[b].name
          /\ r1.first = m.blocks[b].first /\ r1.next = m.blocks[b].next /\ r1.unit = m.blocks[b].unit
          /\ r1.addr = m.blocks[b].addr
      BY <1>1, <3>1 DEF Record
    <3>5. /\ Record(r) /\ r.is = m.blocks[b].is /\ r.name = m.blocks[b].name
          /\ r.first = m.blocks[b].first /\ r.next = m.blocks[b].next /\ r.unit = m.blocks[b].unit
          /\ r.addr = m.blocks[b].addr /\ r.value = asked
      BY <3>2, <3>4 DEF Record
    <3>6. Whole(f) /\ \A c \in Block : f.blocks[c] = IF c = b THEN r ELSE m.blocks[c]
      BY <3>3, <3>5, ReadSet
    <3>7. QED
      BY <3>5, <3>6 DEF Touched
  <2>2. CASE ~(DeviceById(m.blocks[b].unit) # 0 /\ m.blocks[b].unit = asked[1])
    <3>1. PICK r : r = [m.blocks[b] EXCEPT !.state = "INVALID"]
      OBVIOUS
    <3>2. f = WithBlock(m, b, r)
      BY <1>2, <2>2, <3>1 DEF Answered, WithBlock
    <3>3. /\ Record(r) /\ r.is = m.blocks[b].is /\ r.name = m.blocks[b].name
          /\ r.first = m.blocks[b].first /\ r.next = m.blocks[b].next /\ r.unit = m.blocks[b].unit
          /\ r.addr = m.blocks[b].addr
      BY <1>1, <3>1 DEF Record
    <3>4. Whole(f) /\ \A c \in Block : f.blocks[c] = IF c = b THEN r ELSE m.blocks[c]
      BY <3>2, <3>3, ReadSet
    <3>5. r.state # "READY"
      BY <1>1, <3>1 DEF Record
    <3>6. QED
      BY <3>3, <3>4, <3>5 DEF Touched
  <2>3. QED
    BY <2>1, <2>2
<1>3. CASE m.blocks[b].is = "dev"
  <2>1. PICK x : x = m.blocks[b].unit % 2 ^ 12
    OBVIOUS
  <2>2. PICK r : r = [m.blocks[b] EXCEPT !.unit = x]
    OBVIOUS
  <2>3. f = WithBlock(m, b, r)
    BY <1>3, <2>1, <2>2 DEF Answered, WithBlock
  <2>4. /\ Record(r) /\ r.is = m.blocks[b].is /\ r.name = m.blocks[b].name
        /\ r.first = m.blocks[b].first /\ r.next = m.blocks[b].next
    BY <1>1, <2>2 DEF Record
  <2>5. Whole(f) /\ \A c \in Block : f.blocks[c] = IF c = b THEN r ELSE m.blocks[c]
    BY <2>3, <2>4, ReadSet
  <2>6. r.is # "reg"
    BY <1>3, <2>4
  <2>7. QED
    BY <1>3, <2>4, <2>5, <2>6 DEF Touched
<1>4. CASE m.blocks[b].is # "reg" /\ m.blocks[b].is # "dev"
  BY <1>4 DEF Answered, Touched
<1>5. QED
  BY <1>2, <1>3, <1>4

-----------------------------------------------------------------------------
(* The invariant.                                                          *)

\* A register that says READY holds what was read from where it is; and, unless a
\* block was freed in the queue, all that are queued are registers and the
\* request on the bus is of the first.
Told(m) == \A b \in Block : m.blocks[b].is = "reg" /\ m.blocks[b].state = "READY" =>
                              m.blocks[b].value = <<m.blocks[b].unit, m.blocks[b].addr>>
MemInv == /\ Whole(mem) /\ Measured(mem, meas)
          /\ Whole(mem_flash.mem) /\ Measured(mem_flash.mem, mem_flash.meas)
          /\ mem_queue \in Seq(Block)
ToldInv == ~mem_stale =>
             /\ Told(mem) /\ Told(mem_flash.mem)
             /\ \A b \in Queued : mem.blocks[b].is = "reg"
             /\ mem_queue # <<>> => asked = AsksFor(Head(mem_queue))

\* The head and the tail of a queue.
LEMMA QueueIs ==
  ASSUME NEW q, q \in Seq(Block), q # <<>>
  PROVE  /\ Head(q) \in Block /\ Tail(q) \in Seq(Block) /\ Head(q) = q[1] /\ 1 \in 1..Len(q)
         /\ \A i \in 1..Len(Tail(q)) : Tail(q)[i] = q[i + 1] /\ i + 1 \in 1..Len(q)
OBVIOUS

\* A command that adds or deletes the blocks of X.
LEMMA CommandKeeps ==
  ASSUME MemInv, ToldInv, Whole(mem'), Measured(mem', meas'),
         mem_flash' = mem_flash, mem_queue' = mem_queue, asked' = asked, mem_stale => mem_stale',
         NEW X, \A c \in Block \ X : Kept(mem.blocks[c], mem'.blocks[c]),
         \A c \in X : mem'.blocks[c].is = "reg" /\ mem'.blocks[c].state = "READY" =>
                        Kept(mem.blocks[c], mem'.blocks[c]),
         ~mem_stale' => X \cap Queued = {}
  PROVE  MemInv' /\ ToldInv'
<1>1. MemInv'
  BY DEF MemInv
<1>2. SUFFICES ASSUME ~mem_stale' PROVE ToldInv'
  BY <1>1 DEF ToldInv
<1>3. /\ Told(mem) /\ Told(mem_flash.mem) /\ \A b \in Queued : mem.blocks[b].is = "reg"
      /\ mem_queue # <<>> => asked = AsksFor(Head(mem_queue))
  BY <1>2 DEF ToldInv
<1>4. Queued' = Queued /\ Queued \subseteq Block
  BY DEF Queued, MemInv
<1>5. \A b \in Queued : Kept(mem.blocks[b], mem'.blocks[b])
  BY <1>2, <1>4
<1>6. Told(mem')
  <2>1. SUFFICES ASSUME NEW c \in Block, mem'.blocks[c].is = "reg", mem'.blocks[c].state = "READY"
                 PROVE  mem'.blocks[c].value = <<mem'.blocks[c].unit, mem'.blocks[c].addr>>
    BY DEF Told
  <2>2. Kept(mem.blocks[c], mem'.blocks[c])
    BY <2>1
  <2>3. QED
    BY <1>3, <2>1, <2>2 DEF Kept, Told
<1>7. mem_queue' # <<>> => asked' = AsksFor(Head(mem_queue))'
  <2>1. SUFFICES ASSUME mem_queue # <<>> PROVE asked = AsksFor(Head(mem_queue))'
    OBVIOUS
  <2>2. PICK h : h = Head(mem_queue)
    OBVIOUS
  <2>3. h \in Queued
    BY <2>1, <2>2, QueueIs DEF MemInv, Queued
  <2>4. Kept(mem.blocks[h], mem'.blocks[h])
    BY <1>5, <2>3
  <2>5. asked = IF mem.blocks[h].is = "reg" THEN <<mem.blocks[h].unit, mem.blocks[h].addr>> ELSE Nobody
    BY <1>3, <2>1, <2>2 DEF AsksFor
  <2>6. AsksFor(Head(mem_queue))' = IF mem'.blocks[h].is = "reg" THEN <<mem'.blocks[h].unit, mem'.blocks[h].addr>> ELSE Nobody
    BY <2>2 DEF AsksFor, Nobody
  <2>7. QED
    BY <2>4, <2>5, <2>6 DEF Kept
<1>8. \A b \in Queued' : mem'.blocks[b].is = "reg"
  BY <1>3, <1>4, <1>5 DEF Kept
<1>9. QED
  BY <1>3, <1>6, <1>7, <1>8 DEF ToldInv

\* A read, whatever comes of it.
LEMMA ReadKeeps ==
  ASSUME MemInv, ToldInv, Whole(mem'), Touched(mem, mem'), ~mem_stale => Told(mem'),
         meas' = meas, mem_flash' = mem_flash, mem_stale' = mem_stale, mem_queue' \in Seq(Block),
         ~mem_stale => \A i \in 1..Len(mem_queue') : mem.blocks[mem_queue'[i]].is = "reg",
         ~mem_stale /\ mem_queue' # <<>> =>
            asked' = <<mem.blocks[Head(mem_queue')].unit, mem.blocks[Head(mem_queue')].addr>>
  PROVE  MemInv' /\ ToldInv'
<1>1. Measured(mem', meas')
  BY DEF MemInv, Measured, Touched
<1>2. MemInv'
  BY <1>1 DEF MemInv
<1>3. SUFFICES ASSUME ~mem_stale PROVE ToldInv'
  BY <1>2 DEF ToldInv
<1>4. PICK q : q = mem_queue'
  OBVIOUS
<1>5. q \in Seq(Block) /\ \A i \in 1..Len(q) : q[i] \in Block /\ mem.blocks[q[i]].is = "reg"
  BY <1>3, <1>4
<1>6. \A i \in 1..Len(q) : mem'.blocks[q[i]].is = "reg"
  BY <1>5 DEF Touched
<1>7. \A b \in Queued' : mem'.blocks[b].is = "reg"
  BY <1>4, <1>6 DEF Queued
<1>8. mem_queue' # <<>> => asked' = AsksFor(Head(mem_queue))'
  <2>1. SUFFICES ASSUME q # <<>> PROVE asked' = AsksFor(Head(mem_queue))'
    BY <1>4
  <2>2. PICK h : h = Head(q)
    OBVIOUS
  <2>3. h \in Block /\ mem.blocks[h].is = "reg"
    BY <1>5, <2>1, <2>2, QueueIs
  <2>4. mem'.blocks[h].is = "reg" /\ mem'.blocks[h].unit = mem.blocks[h].unit /\ mem'.blocks[h].addr = mem.blocks[h].addr
    BY <2>3 DEF Touched
  <2>5. asked' = <<mem.blocks[h].unit, mem.blocks[h].addr>>
    BY <1>3, <1>4, <2>1, <2>2
  <2>6. AsksFor(Head(mem_queue))' = <<mem'.blocks[h].unit, mem'.blocks[h].addr>>
    BY <1>4, <2>2, <2>4 DEF AsksFor
  <2>7. QED
    BY <2>4, <2>5, <2>6
<1>9. Told(mem') /\ Told(mem_flash.mem)'
  BY <1>3 DEF ToldInv
<1>10. QED
  BY <1>7, <1>8, <1>9 DEF ToldInv

\* The invariant is kept by mb_dev_add ...
LEMMA AddDeviceKeeps ==
  ASSUME MemInv, ToldInv, NEW u, NEW n, AddDevice(u, n)
  PROVE  MemInv' /\ ToldInv'
<1>1. PICK r, f : r = NewDev(n, u, mem.first_dev) /\ f = WithDev(Allocated(mem, r), mem.first_free)
  OBVIOUS
<1>2. mem' = f
  BY <1>1 DEF AddDevice, NewDev, WithDev
<1>3. /\ mem.first_free # 0 /\ DeviceByName(n) = 0 /\ Whole(mem)
      /\ meas' = meas /\ mem_flash' = mem_flash /\ mem_queue' = mem_queue /\ asked' = asked /\ mem_stale' = mem_stale
  BY DEF AddDevice, MemInv
<1>4. PICK b \in Block : /\ Whole(f) /\ mem.blocks[b].is = "free" /\ f.blocks[b] = r
                         /\ \A c \in Block \ {b} : f.blocks[c] = mem.blocks[c]
  BY <1>1, <1>3, DeviceAdded
<1>5. r.is = "dev"
  BY <1>1, NewDevIs
<1>6. Measured(mem', meas')
  BY <1>2, <1>3, <1>4 DEF Measured, MemInv
<1>7. ~mem_stale' => {b} \cap Queued = {}
  BY <1>3, <1>4 DEF ToldInv
<1>8. \A c \in Block \ {b} : Kept(mem.blocks[c], mem'.blocks[c])
  BY <1>2, <1>4 DEF Kept
<1>9. \A c \in {b} : mem'.blocks[c].is # "reg"
  BY <1>2, <1>4, <1>5
<1>10. QED
  BY <1>2, <1>3, <1>4, <1>6, <1>7, <1>8, <1>9, CommandKeeps

\* ... by mb_reg_add ...
LEMMA AddRegKeeps ==
  ASSUME MemInv, ToldInv, NEW u, NEW n, NEW a, AddReg(u, n, a)
  PROVE  MemInv' /\ ToldInv'
<1>0. PICK d : d = DeviceById(u)
  OBVIOUS
<1>1. PICK r, f : r = NewReg(n, u, a, mem.blocks[d].first) /\ f = WithFirst(Allocated(mem, r), d, mem.first_free)
  OBVIOUS
<1>2. mem' = f
  BY <1>0, <1>1 DEF AddReg, NewReg, WithFirst
<1>3. /\ mem.first_free # 0 /\ d # 0 /\ RegByName(d, n) = 0 /\ Whole(mem)
      /\ meas' = meas \cup {n} /\ mem_flash' = mem_flash /\ mem_queue' = mem_queue /\ asked' = asked
      /\ mem_stale' = mem_stale
  BY <1>0 DEF AddReg, MemInv
<1>4. PICK b \in Block : /\ Whole(f) /\ mem.blocks[b].is = "free" /\ f.blocks[b] = r
                         /\ \A c \in Block \ {b} : Kept(mem.blocks[c], f.blocks[c])
  BY <1>0, <1>1, <1>3, RegAdded
<1>5. r.is = "reg" /\ r.name = n /\ r.state # "READY"
  <2>1. r.is = "reg" /\ r.name = n /\ r.state = "INVALID"
    BY <1>1, NewRegIs
  <2>2. QED
    BY <2>1
<1>6. Measured(mem', meas')
  <2>1. SUFFICES ASSUME NEW x \in meas' PROVE \E c \in Block : f.blocks[c].is = "reg" /\ f.blocks[c].name = x
    BY <1>2 DEF Measured
  <2>2. CASE x = n
    BY <1>4, <1>5, <2>2
  <2>3. CASE x # n
    <3>1. PICK c \in Block : mem.blocks[c].is = "reg" /\ mem.blocks[c].name = x
      BY <1>3, <2>1, <2>3 DEF MemInv, Measured
    <3>2. Kept(mem.blocks[c], f.blocks[c])
      BY <1>4, <3>1
    <3>3. QED
      BY <3>1, <3>2 DEF Kept
  <2>4. QED
    BY <2>2, <2>3
<1>7. ~mem_stale' => {b} \cap Queued = {}
  BY <1>3, <1>4 DEF ToldInv
<1>8. \A c \in Block \ {b} : Kept(mem.blocks[c], mem'.blocks[c])
  BY <1>2, <1>4
<1>9. \A c \in {b} : mem'.blocks[c].state # "READY"
  BY <1>2, <1>4, <1>5
<1>10. QED
  BY <1>2, <1>3, <1>4, <1>6, <1>7, <1>8, <1>9, CommandKeeps

\* ... by mb_reg_del, which says when it frees a block that is queued ...
LEMMA DelRegKeeps ==
  ASSUME MemInv, ToldInv, NEW n, DelReg(n)
  PROVE  MemInv' /\ ToldInv'
<1>0. PICK b, d : b = GetReg(n) /\ d = DeviceById(mem.blocks[b].unit)
  OBVIOUS
<1>1. /\ b # 0 /\ mem' = Unlinked(d, b) /\ meas' = meas \ {n} /\ mem_stale' = (mem_stale \/ b \in Queued)
      /\ mem_flash' = mem_flash /\ mem_queue' = mem_queue /\ asked' = asked /\ Whole(mem)
  BY <1>0 DEF DelReg, MemInv
<1>2. PICK f : f = mem'
  OBVIOUS
<1>3. /\ Whole(f) /\ b \in Block
      /\ \A c \in Block \ {b} : Kept(mem.blocks[c], f.blocks[c])
      /\ Kept(mem.blocks[b], f.blocks[b]) \/ f.blocks[b].is = "free"
  BY <1>0, <1>1, <1>2, RegFreed
<1>4. mem.blocks[b].name = n
  <2>1. PICK lst, stamp, top : Good(mem, lst, stamp, top)
    BY <1>1 DEF Whole
  <2>2. QED
    BY <1>0, <1>1, <2>1, GetRegIs
<1>5. Measured(mem', meas')
  <2>1. SUFFICES ASSUME NEW x \in meas' PROVE \E c \in Block : f.blocks[c].is = "reg" /\ f.blocks[c].name = x
    BY <1>2 DEF Measured
  <2>2. PICK c \in Block : mem.blocks[c].is = "reg" /\ mem.blocks[c].name = x
    BY <1>1, <2>1 DEF MemInv, Measured
  <2>3. c # b
    BY <1>1, <1>4, <2>1, <2>2
  <2>4. Kept(mem.blocks[c], f.blocks[c])
    BY <1>3, <2>3
  <2>5. QED
    BY <2>2, <2>4 DEF Kept
<1>6. ~mem_stale' => {b} \cap Queued = {}
  BY <1>1
<1>7. \A c \in {b} : f.blocks[c].is = "reg" => Kept(mem.blocks[c], f.blocks[c])
  BY <1>3
<1>8. QED
  BY <1>1, <1>2, <1>3, <1>5, <1>6, <1>7, CommandKeeps

\* ... and by mb_dev_del.
LEMMA DelDeviceKeeps ==
  ASSUME MemInv, ToldInv, NEW n, DelDevice(n)
  PROVE  MemInv' /\ ToldInv'
<1>0. PICK d : d = DeviceByName(n)
  OBVIOUS
<1>1. /\ d # 0 /\ mem' = DevGone(d) /\ meas' = meas \ {mem.blocks[b].name : b \in RegsOf(d)}
      /\ mem_stale' = (mem_stale \/ Queued \cap RegsOf(d) # {})
      /\ mem_flash' = mem_flash /\ mem_queue' = mem_queue /\ asked' = asked /\ Whole(mem)
  BY <1>0 DEF DelDevice, MemInv, DevGone
<1>2. PICK f : f = mem'
  OBVIOUS
<1>3. /\ Whole(f) /\ d \in Block /\ mem.blocks[d].is = "dev"
      /\ \A c \in RegsOf(d) : c \in Block /\ mem.blocks[c].is = "reg"
      /\ \A c \in Block : IF c \in RegsOf(d) \/ c = d THEN f.blocks[c].is = "free"
                          ELSE Kept(mem.blocks[c], f.blocks[c])
  BY <1>0, <1>1, <1>2, DevFreed
<1>4. PICK X : X = RegsOf(d) \cup {d}
  OBVIOUS
<1>5. Measured(mem', meas')
  <2>1. SUFFICES ASSUME NEW x \in meas' PROVE \E c \in Block : f.blocks[c].is = "reg" /\ f.blocks[c].name = x
    BY <1>2 DEF Measured
  <2>2. PICK c \in Block : mem.blocks[c].is = "reg" /\ mem.blocks[c].name = x
    BY <1>1, <2>1 DEF MemInv, Measured
  <2>3. c \notin RegsOf(d) /\ c # d
    BY <1>1, <1>3, <2>1, <2>2
  <2>4. Kept(mem.blocks[c], f.blocks[c])
    BY <1>3, <2>3
  <2>5. QED
    BY <2>2, <2>4 DEF Kept
<1>6. ~mem_stale' => X \cap Queued = {}
  <2>1. SUFFICES ASSUME ~mem_stale' PROVE X \cap Queued = {}
    OBVIOUS
  <2>2. ~mem_stale /\ Queued \cap RegsOf(d) = {}
    BY <1>1, <2>1
  <2>3. \A b \in Queued : mem.blocks[b].is = "reg"
    BY <2>2 DEF ToldInv
  <2>4. d \notin Queued
    BY <1>3, <2>3
  <2>5. QED
    BY <1>4, <2>2, <2>4
<1>7. \A c \in X : f.blocks[c].is # "reg"
  <2>1. \A c \in X : f.blocks[c].is = "free"
    BY <1>3, <1>4
  <2>2. QED
    BY <2>1
<1>8. \A c \in Block \ X : Kept(mem.blocks[c], f.blocks[c])
  BY <1>3, <1>4
<1>9. QED
  BY <1>1, <1>2, <1>3, <1>5, <1>6, <1>7, <1>8, CommandKeeps

\* Who is read is a register; and what is asked of it.
LEMMA RegRead ==
  ASSUME MemInv, NEW n, GetReg(n) # 0
  PROVE  GetReg(n) \in Block /\ mem.blocks[GetReg(n)].is = "reg"
<1>1. PICK lst, stamp, top : Good(mem, lst, stamp, top)
  BY DEF MemInv, Whole
<1>2. GetReg(n) \in Block /\ lst[GetReg(n)] \in Block
  BY <1>1, GetRegIs
<1>3. PICK b : b = GetReg(n)
  OBVIOUS
<1>4. mem.blocks[b].is = "reg"
  BY <1>1, <1>2, <1>3, IsTells DEF Good
<1>5. QED
  BY <1>2, <1>3, <1>4

\* A read is put on the queue.
LEMMA StartKeeps ==
  ASSUME MemInv, ToldInv, NEW n, StartMemRead(n)
  PROVE  MemInv' /\ ToldInv'
<1>0. PICK b : b = GetReg(n)
  OBVIOUS
<1>1. /\ b # 0 /\ mem_queue' = Append(mem_queue, b) /\ mem' = Waits(mem, b)
      /\ asked' = (IF mem_queue = <<>> THEN AsksFor(b) ELSE asked)
      /\ meas' = meas /\ mem_flash' = mem_flash /\ mem_stale' = mem_stale
      /\ Whole(mem) /\ mem_queue \in Seq(Block)
  BY <1>0 DEF StartMemRead, MemInv
<1>2. b \in Block /\ mem.blocks[b].is = "reg"
  BY <1>0, <1>1, RegRead
<1>3. PICK f : f = mem'
  OBVIOUS
<1>4. /\ Whole(f) /\ Touched(mem, f)
      /\ \A c \in Block : f.blocks[c].is = "reg" /\ f.blocks[c].state = "READY" =>
              mem.blocks[c].state = "READY" /\ f.blocks[c].value = mem.blocks[c].value
  BY <1>1, <1>2, <1>3, WaitsIs
<1>5. ~mem_stale => Told(f)
  BY <1>4 DEF ToldInv, Told, Touched
<1>6. PICK q : q = Append(mem_queue, b)
  OBVIOUS
<1>7. /\ q \in Seq(Block) /\ Len(q) = Len(mem_queue) + 1 /\ q[Len(mem_queue) + 1] = b
      /\ \A i \in 1..Len(mem_queue) : q[i] = mem_queue[i]
      /\ Len(mem_queue) \in Nat /\ Head(q) = q[1]
  BY <1>1, <1>2, <1>6
<1>8. ~mem_stale => \A i \in 1..Len(q) : mem.blocks[q[i]].is = "reg"
  <2>1. SUFFICES ASSUME ~mem_stale, NEW i \in 1..Len(q) PROVE mem.blocks[q[i]].is = "reg"
    OBVIOUS
  <2>2. CASE i = Len(mem_queue) + 1
    BY <1>2, <1>7, <2>2
  <2>3. CASE i # Len(mem_queue) + 1
    <3>1. i \in 1..Len(mem_queue)
      BY <1>7, <2>1, <2>3
    <3>2. mem_queue[i] \in Queued
      BY <3>1 DEF Queued
    <3>3. QED
      BY <1>7, <2>1, <3>1, <3>2 DEF ToldInv
  <2>4. QED
    BY <2>2, <2>3
<1>9. ~mem_stale /\ q # <<>> => asked' = <<mem.blocks[Head(q)].unit, mem.blocks[Head(q)].addr>>
  <2>1. SUFFICES ASSUME ~mem_stale PROVE asked' = <<mem.blocks[Head(q)].unit, mem.blocks[Head(q)].addr>>
    OBVIOUS
  <2>2. CASE mem_queue = <<>>
    <3>1. Head(q) = b
      BY <1>7, <2>2
    <3>2. QED
      BY <1>1, <1>2, <2>2, <3>1 DEF AsksFor
  <2>3. CASE mem_queue # <<>>
    <3>1. Head(q) = Head(mem_queue) /\ Head(mem_queue) \in Queued
      BY <1>1, <1>7, <2>3, QueueIs DEF Queued
    <3>2. asked = AsksFor(Head(mem_queue)) /\ mem.blocks[Head(mem_queue)].is = "reg"
      BY <2>1, <2>3, <3>1 DEF ToldInv
    <3>3. QED
      BY <1>1, <2>3, <3>1, <3>2 DEF AsksFor
  <2>4. QED
    BY <2>2, <2>3
<1>10. QED
  BY <1>1, <1>3, <1>4, <1>5, <1>6, <1>7, <1>8, <1>9, ReadKeeps

\* A request is sent again.
LEMMA ResendKeeps ==
  ASSUME MemInv, ToldInv, Resend
  PROVE  MemInv' /\ ToldInv'
<1>0. PICK b : b = Head(mem_queue)
  OBVIOUS
<1>1. /\ mem_queue # <<>> /\ mem_queue' = mem_queue /\ mem' = Waits(mem, b) /\ asked' = AsksFor(b)
      /\ meas' = meas /\ mem_flash' = mem_flash /\ mem_stale' = mem_stale
      /\ Whole(mem) /\ mem_queue \in Seq(Block)
  BY <1>0 DEF Resend, MemInv
<1>2. b \in Block /\ b \in Queued
  BY <1>0, <1>1, QueueIs DEF Queued
<1>3. PICK f : f = mem'
  OBVIOUS
<1>4. /\ Whole(f) /\ Touched(mem, f)
      /\ \A c \in Block : f.blocks[c].is = "reg" /\ f.blocks[c].state = "READY" =>
              mem.blocks[c].state = "READY" /\ f.blocks[c].value = mem.blocks[c].value
  BY <1>1, <1>2, <1>3, WaitsIs
<1>5. ~mem_stale => Told(f)
  BY <1>4 DEF ToldInv, Told, Touched
<1>6. ~mem_stale => \A i \in 1..Len(mem_queue) : mem.blocks[mem_queue[i]].is = "reg"
  BY DEF ToldInv, Queued
<1>7. ~mem_stale => asked' = <<mem.blocks[b].unit, mem.blocks[b].addr>>
  <2>1. SUFFICES ASSUME ~mem_stale PROVE asked' = <<mem.blocks[b].unit, mem.blocks[b].addr>>
    OBVIOUS
  <2>2. mem.blocks[b].is = "reg"
    BY <1>2, <2>1 DEF ToldInv
  <2>3. QED
    BY <1>1, <2>2 DEF AsksFor
<1>8. QED
  BY <1>0, <1>1, <1>3, <1>4, <1>5, <1>6, <1>7, ReadKeeps

\* The next of the queue, after one was dropped or answered.
LEMMA NextReadKeeps ==
  ASSUME MemInv, ToldInv, mem_queue # <<>>, mem_queue' = Tail(mem_queue),
         NEW m, Whole(m), Touched(mem, m), ~mem_stale => Told(m), NextMemRead(m, mem_queue'),
         meas' = meas, mem_flash' = mem_flash, mem_stale' = mem_stale
  PROVE  MemInv' /\ ToldInv'
<1>1. PICK q : q = Tail(mem_queue)
  OBVIOUS
<1>2. mem_queue \in Seq(Block)
  BY DEF MemInv
<1>3. q \in Seq(Block) /\ \A i \in 1..Len(q) : q[i] = mem_queue[i + 1] /\ i + 1 \in 1..Len(mem_queue)
  BY <1>1, <1>2, QueueIs
<1>4. ~mem_stale => \A i \in 1..Len(q) : mem.blocks[q[i]].is = "reg"
  BY <1>3 DEF ToldInv, Queued
<1>5. PICK f : f = mem'
  OBVIOUS
<1>6. CASE q = <<>>
  <2>1. mem' = m
    BY <1>1, <1>6 DEF NextMemRead
  <2>2. Whole(mem') /\ Touched(mem, mem') /\ (~mem_stale => Told(mem'))
    BY <2>1
  <2>3. mem_queue' = q /\ mem_queue' \in Seq(Block) /\ Len(q) = 0
    BY <1>1, <1>3, <1>6
  <2>4. (~mem_stale => \A i \in 1..Len(mem_queue') : mem.blocks[mem_queue'[i]].is = "reg")
        /\ mem_queue' = <<>>
    BY <1>4, <1>6, <2>3
  <2>5. QED
    BY <2>2, <2>3, <2>4, ReadKeeps
<1>7. CASE q # <<>>
  <2>1. PICK b : b = Head(q)
    OBVIOUS
  <2>2. b \in Block /\ b = q[1] /\ 1 \in 1..Len(q)
    BY <1>3, <1>7, <2>1, QueueIs
  <2>3. f = Waits(m, b) /\ asked' = AsksFor(b)
    BY <1>1, <1>5, <1>7, <2>1 DEF NextMemRead
  <2>4. /\ Whole(f) /\ Touched(m, f)
        /\ \A c \in Block : f.blocks[c].is = "reg" /\ f.blocks[c].state = "READY" =>
                m.blocks[c].state = "READY" /\ f.blocks[c].value = m.blocks[c].value
    BY <2>2, <2>3, WaitsIs
  <2>5. Touched(mem, f)
    BY <2>4 DEF Touched
  <2>6. ~mem_stale => Told(f)
    BY <2>4 DEF Told, Touched
  <2>7. ~mem_stale => asked' = <<mem.blocks[b].unit, mem.blocks[b].addr>>
    <3>1. SUFFICES ASSUME ~mem_stale PROVE asked' = <<mem.blocks[b].unit, mem.blocks[b].addr>>
      OBVIOUS
    <3>2. mem.blocks[b].is = "reg"
      BY <1>4, <2>2, <3>1
    <3>3. QED
      BY <2>3, <3>2 DEF AsksFor
  <2>8. mem_queue' = q
    BY <1>1
  <2>9. QED
    BY <1>3, <1>4, <1>5, <2>1, <2>4, <2>5, <2>6, <2>7, <2>8, ReadKeeps
<1>8. QED
  BY <1>6, <1>7

\* A reply is for the head of the queue.
LEMMA ReplyKeeps ==
  ASSUME MemInv, ToldInv, MemReply
  PROVE  MemInv' /\ ToldInv'
<1>0. PICK b : b = Head(mem_queue)
  OBVIOUS
<1>1. PICK m : m = Answered(mem, b)
  OBVIOUS
<1>2. /\ mem_queue # <<>> /\ mem_queue' = Tail(mem_queue) /\ NextMemRead(m, mem_queue')
      /\ meas' = meas /\ mem_flash' = mem_flash /\ mem_stale' = mem_stale
      /\ Whole(mem) /\ mem_queue \in Seq(Block)
  BY <1>0, <1>1 DEF MemReply, MemInv
<1>3. b \in Block /\ b \in Queued
  BY <1>0, <1>2, QueueIs DEF Queued
<1>4. /\ Whole(m) /\ Touched(mem, m)
      /\ \A c \in Block : m.blocks[c].is = "reg" /\ m.blocks[c].state = "READY" =>
              \/ mem.blocks[c].state = "READY" /\ m.blocks[c].value = mem.blocks[c].value
              \/ c = b /\ m.blocks[c].value = asked
  BY <1>1, <1>2, <1>3, AnsweredIs
<1>5. ~mem_stale => Told(m)
  <2>1. SUFFICES ASSUME ~mem_stale, NEW c \in Block, m.blocks[c].is = "reg", m.blocks[c].state = "READY"
                 PROVE  m.blocks[c].value = <<m.blocks[c].unit, m.blocks[c].addr>>
    BY DEF Told
  <2>2. Told(mem) /\ mem.blocks[b].is = "reg" /\ asked = <<mem.blocks[b].unit, mem.blocks[b].addr>>
    BY <1>0, <1>2, <1>3, <2>1 DEF ToldInv, AsksFor
  <2>3. mem.blocks[c].is = "reg" /\ m.blocks[c].unit = mem.blocks[c].unit /\ m.blocks[c].addr = mem.blocks[c].addr
    BY <1>4, <2>1 DEF Touched
  <2>4. CASE mem.blocks[c].state = "READY" /\ m.blocks[c].value = mem.blocks[c].value
    BY <2>2, <2>3, <2>4 DEF Told
  <2>5. CASE c = b /\ m.blocks[c].value = asked
    BY <2>2, <2>3, <2>5
  <2>6. QED
    BY <1>4, <2>1, <2>4, <2>5
<1>6. QED
  BY <1>2, <1>4, <1>5, NextReadKeeps

\* A request is given up.
LEMMA DropKeeps ==
  ASSUME MemInv, ToldInv, DropMemRead
  PROVE  MemInv' /\ ToldInv'
<1>1. /\ mem_queue # <<>> /\ mem_queue' = Tail(mem_queue) /\ NextMemRead(mem, mem_queue')
      /\ meas' = meas /\ mem_flash' = mem_flash /\ mem_stale' = mem_stale /\ Whole(mem)
  BY DEF DropMemRead, MemInv
<1>2. Touched(mem, mem)
  BY DEF Touched
<1>3. ~mem_stale => Told(mem)
  BY DEF ToldInv
<1>4. QED
  BY <1>1, <1>2, <1>3, NextReadKeeps

\* What is saved is what is used.
LEMMA SaveKeeps ==
  ASSUME MemInv, ToldInv, SaveConfig
  PROVE  MemInv' /\ ToldInv'
<1>1. /\ mem' = mem /\ meas' = meas /\ mem_queue' = mem_queue /\ asked' = asked /\ mem_stale' = mem_stale
      /\ \/ mem_flash'.mem = mem /\ mem_flash'.meas = meas
         \/ mem_flash' = mem_flash
  BY DEF SaveConfig
<1>2. MemInv'
  BY <1>1 DEF MemInv
<1>3. ToldInv'
  BY <1>1 DEF ToldInv, Queued, AsksFor
<1>4. QED
  BY <1>2, <1>3

\* What is loaded is what was saved.
LEMMA MemRestartKeeps ==
  ASSUME MemInv, ToldInv, MemRestart
  PROVE  MemInv' /\ ToldInv'
<1>1. /\ mem' = mem_flash.mem /\ meas' = mem_flash.meas /\ mem_queue' = <<>>
      /\ mem_flash' = mem_flash /\ mem_stale' = mem_stale
  BY DEF MemRestart
<1>2. MemInv'
  BY <1>1 DEF MemInv
<1>3. Queued' = {}
  BY <1>1 DEF Queued
<1>4. ToldInv'
  BY <1>1, <1>3 DEF ToldInv
<1>5. QED
  BY <1>2, <1>4

\* The invariant holds of the blob as modbus_init leaves it.
LEMMA MemStart ==
  ASSUME MemInit
  PROVE  MemInv /\ ToldInv
<1>1. /\ mem = MemAtStart /\ meas = {} /\ mem_flash.mem = MemAtStart /\ mem_flash.meas = {} /\ mem_queue = <<>>
  BY DEF MemInit
<1>2. Whole(mem) /\ \A b \in Block : mem.blocks[b].is = "free"
  BY <1>1, StartIsWhole
<1>3. MemInv
  BY <1>1, <1>2 DEF MemInv, Measured
<1>4. Queued = {}
  BY <1>1 DEF Queued
<1>5. Told(mem)
  <2>1. \A b \in Block : mem.blocks[b].is # "reg"
    BY <1>2
  <2>2. QED
    BY <2>1 DEF Told
<1>6. QED
  BY <1>1, <1>3, <1>4, <1>5 DEF ToldInv

LEMMA MemStep ==
  ASSUME MemInv, ToldInv, [MemNext]_memVars
  PROVE  MemInv' /\ ToldInv'
<1>1. ASSUME NEW u \in UnitId, NEW n \in DevName, AddDevice(u, n) PROVE MemInv' /\ ToldInv'
  BY <1>1, AddDeviceKeeps
<1>2. ASSUME NEW u \in UnitId, NEW n \in RegName, NEW a \in RegAddr, AddReg(u, n, a) PROVE MemInv' /\ ToldInv'
  BY <1>2, AddRegKeeps
<1>3. ASSUME NEW n \in RegName, DelReg(n) PROVE MemInv' /\ ToldInv'
  BY <1>3, DelRegKeeps
<1>4. ASSUME NEW n \in RegName, StartMemRead(n) PROVE MemInv' /\ ToldInv'
  BY <1>4, StartKeeps
<1>5. ASSUME NEW n \in DevName, DelDevice(n) PROVE MemInv' /\ ToldInv'
  BY <1>5, DelDeviceKeeps
<1>6. CASE SaveConfig
  BY <1>6, SaveKeeps
<1>7. CASE Resend
  BY <1>7, ResendKeeps
<1>8. CASE DropMemRead
  BY <1>8, DropKeeps
<1>9. CASE MemReply
  BY <1>9, ReplyKeeps
<1>10. CASE MemRestart
  BY <1>10, MemRestartKeeps
<1>11. CASE UNCHANGED memVars
  <2>1. mem' = mem /\ meas' = meas /\ mem_flash' = mem_flash /\ mem_queue' = mem_queue /\ asked' = asked
        /\ mem_stale' = mem_stale
    BY <1>11 DEF memVars
  <2>2. MemInv'
    BY <2>1 DEF MemInv
  <2>3. QED
    BY <2>1, <2>2 DEF ToldInv, Queued, AsksFor
<1>12. QED
  BY <1>1, <1>2, <1>3, <1>4, <1>5, <1>6, <1>7, <1>8, <1>9, <1>10, <1>11 DEF MemNext

\* Whatever is added, deleted, read, saved and loaded, for any number of blocks,
\* every block is in one list, each list ends and holds what it is of, no name
\* is twice in it, and no measurement is without its register (modbus_mem.c).
THEOREM ModbusMemIsWhole == MemSpec => []MemIsWhole
<1>1. MemInit => MemInv /\ ToldInv
  BY MemStart
<1>2. MemInv /\ ToldInv /\ [MemNext]_memVars => (MemInv /\ ToldInv)'
  BY MemStep
<1>3. MemInv => MemIsWhole
  BY WholeIs DEF MemInv
<1>4. QED
  BY <1>1, <1>2, <1>3, PTL DEF MemSpec

\* A measurement is told what was read from where its register is, unless a block
\* was freed while it was queued (modbus.c, modbus_measurements.c).
THEOREM ModbusToldItsRegister == MemSpec => []ToldItsRegister
<1>1. MemInit => MemInv /\ ToldInv
  BY MemStart
<1>2. MemInv /\ ToldInv /\ [MemNext]_memVars => (MemInv /\ ToldInv)'
  BY MemStep
<1>3. MemInv /\ ToldInv => ToldItsRegister
  <2>1. SUFFICES ASSUME MemInv, ToldInv, ~mem_stale, NEW n \in meas,
                        mem.blocks[GetReg(n)].state = "READY"
                 PROVE  mem.blocks[GetReg(n)].value = <<mem.blocks[GetReg(n)].unit, mem.blocks[GetReg(n)].addr>>
    BY DEF ToldItsRegister
  <2>2. PICK lst, stamp, top : Good(mem, lst, stamp, top)
    BY <2>1 DEF MemInv, Whole
  <2>3. GetReg(n) # 0
    BY <2>1, <2>2, GetRegIs DEF MemInv, Measured
  <2>4. GetReg(n) \in Block /\ mem.blocks[GetReg(n)].is = "reg"
    BY <2>1, <2>3, RegRead
  <2>5. QED
    BY <2>1, <2>4 DEF ToldInv, Told
<1>4. QED
  BY <1>1, <1>2, <1>3, PTL DEF MemSpec
================================================================================
