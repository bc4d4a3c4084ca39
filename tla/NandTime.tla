------------------------------ MODULE NandTime ------------------------------
(***************************************************************************)
(* When the commands of the conventional FTL are done: the LUNs, each busy *)
(* up to a time of its own, the channels and the PCIe link that the        *)
(* transfers share (ChannelRing), the NAND commands (ssd_advance_nand of   *)
(* ssd.c), and the host's commands as they issue them: a read page by page *)
(* (conv_read), a write by the wordlines it fills (conv_write), a flush    *)
(* (conv_flush), and a collection.                                         *)
(*                                                                         *)
(* All of this is computed ahead: time here is the clock the dispatcher    *)
(* reads at each request, and nothing waits.  The namespace is cut into    *)
(* partitions with LUNs and channels of their own and one PCIe link; a     *)
(* logical page is in partition lpn % NrParts.                             *)
(***************************************************************************)
EXTENDS ChannelRing, FiniteSets

CONSTANTS
  Channels, Luns, ChannelOf,    \* [Luns -> Channels]
  NrParts, PartOf,              \* [Luns -> 0 .. NrParts - 1]
  Lpns, FlashPages, LunOf,      \* [FlashPages -> Luns]
  Maps,                         \* mappings: [Lpns -> FlashPages \cup {Unmapped}]
  PageUnits, MaxXfer,           \* a page, and max_ch_xfer_size, in units
  ReadLat4k, ReadLat, ProgLat, EraseLat, FwRead4k, FwRead, WbufLat,
  ReadRanges, WritePages,       \* reads, first and last page; lengths of writes
  MaxTime, Ticks, MaxCommands   \* bounds: the clock, its steps, the commands

Unmapped == "UNMAPPED_PPA"
Pcie     == -1   \* beside the channels, which are numbers
Buses    == Channels \cup {Pcie}

ASSUME TimeAssumption ==
  /\ Channels \subseteq Nat /\ IsFiniteSet(Luns) /\ ChannelOf \in [Luns -> Channels]
  /\ NrParts \in Nat \ {0} /\ PartOf \in [Luns -> 0 .. NrParts - 1]
  /\ Unmapped \notin FlashPages /\ LunOf \in [FlashPages -> Luns]
  /\ Lpns \subseteq Nat /\ Maps \subseteq [Lpns -> FlashPages \cup {Unmapped}]
  /\ \A r \in ReadRanges : r[1] \in Nat /\ r[2] \in Nat /\ r[1] .. r[2] \subseteq Lpns
  /\ {PageUnits, MaxXfer} \cup WritePages \subseteq Nat \ {0}
  /\ {ReadLat4k, ReadLat, ProgLat, EraseLat, FwRead4k, FwRead, WbufLat} \cup Ticks
       \subseteq Nat

VARIABLES
  clock,
  avail,     \* lun->next_lun_avail_time
  ring,      \* the perf_model of each channel and of the link
  maptbl,    \* the flash page of each logical page
  nand,      \* the NAND command in ssd_advance_nand
  cmd,       \* the host command in the FTL
  flushed,   \* nsecs_target of the last flush, and what had to be done by then
  busyTill,  \* the latest end of a NAND command issued so far
  left       \* commands the host may still send

timeVars == <<clock, avail, ring, maptbl, nand, cmd, flushed, busyTill, left>>

None == [op |-> "none"]
Later(a, b) == IF a > b THEN a ELSE b

TimeInit ==
  /\ clock = 0
  /\ avail = [l \in Luns |-> 0]
  /\ ring = [b \in Buses |-> NewRing]
  /\ maptbl \in Maps
  /\ nand = None /\ cmd = None
  /\ flushed = [target |-> 0, work |-> 0] /\ busyTill = 0
  /\ left = MaxCommands

----------------------------------------------------------------------------
(* ssd_advance_nand                                                        *)

\* A command for LUN l from time start on (stime, or the clock if it is 0);
\* chnl is when its next transfer begins, dma what the link has to carry.
Issue(op, l, units, start, interleave) ==
  LET from == Later(avail[l], start)
      lat  == IF units = PageUnits THEN ReadLat4k ELSE ReadLat
  IN  nand' = [op |-> op, lun |-> l, units |-> units, interleave |-> interleave,
               chnl |-> IF op = "read" THEN from + lat ELSE from,
               dma |-> 0, done |-> 0]

\* The next part of a read's data, or a program's data, on the channel.
Transfer ==
  /\ nand # None /\ nand.units > 0 /\ nand.dma = 0
  /\ LET b    == ChannelOf[nand.lun]
         xfer == IF nand.op = "read" THEN Least2(nand.units, MaxXfer) ELSE nand.units
         end  == Request(ring[b], clock, nand.chnl, xfer).end
     IN  /\ ring' = [ring EXCEPT ![b] = Request(@, clock, nand.chnl, xfer)]
         /\ nand' = [nand EXCEPT !.units = @ - xfer, !.chnl = end, !.done = end,
                                 !.dma = IF nand.interleave THEN xfer ELSE 0]
  /\ UNCHANGED <<clock, avail, maptbl, cmd, flushed, busyTill, left>>

\* ... and on the link, if the host waits for it.
Dma ==
  /\ nand # None /\ nand.dma > 0
  /\ ring' = [ring EXCEPT ![Pcie] = Request(@, clock, nand.chnl, nand.dma)]
  /\ nand' = [nand EXCEPT !.dma = 0,
                          !.done = Request(ring[Pcie], clock, nand.chnl, nand.dma).end]
  /\ UNCHANGED <<clock, avail, maptbl, cmd, flushed, busyTill, left>>

\* The time from which the LUN is free again: a read's data have left it, a
\* page is programmed or a block erased.
AvailTime(n) == CASE n.op = "write" -> n.chnl + ProgLat
                  [] n.op = "erase" -> n.chnl + EraseLat
                  [] OTHER          -> n.chnl

Completed ==
  /\ nand # None /\ nand.units = 0 /\ nand.dma = 0
  /\ LET free == AvailTime(nand)
         done == IF nand.op = "read" THEN nand.done ELSE free
     IN  /\ avail' = [avail EXCEPT ![nand.lun] = free]
         /\ cmd' = [cmd EXCEPT !.latest = Later(@, done)]
         /\ busyTill' = Later(busyTill, nand.chnl +
              (CASE nand.op = "write" -> ProgLat [] nand.op = "erase" -> EraseLat
                 [] OTHER -> 0))
  /\ nand' = None
  /\ UNCHANGED <<clock, ring, maptbl, flushed, left>>

----------------------------------------------------------------------------
(* conv_read of the logical pages first .. last: partition by partition,   *)
(* and in each one NAND command for a run of pages in the same flash page  *)

InPart(p, l) == [part |-> p, start |-> l, page |-> l, xfer |-> 0,
                 prev |-> IF l \in Lpns THEN maptbl[l] ELSE Unmapped]

\* The firmware's latency, by the bytes of a read over so many pages: 4 kB for
\* each partition may also lie in one page more, if they begin inside a page.
FirmwareLats(pages) ==
  (IF pages <= NrParts + 1 THEN {FwRead4k} ELSE {})
    \cup (IF pages > NrParts THEN {FwRead} ELSE {})

BeginRead(first, last) ==
  /\ cmd = None /\ left > 0
  /\ \E lat \in FirmwareLats(last - first + 1) :
       cmd' = [op |-> "read", first |-> first, last |-> last, latest |-> clock,
               stime |-> clock + lat,
               issued |-> [f \in FlashPages |-> 0], at |-> InPart(1, first)]
  /\ left' = left - 1
  /\ UNCHANGED <<clock, avail, ring, maptbl, nand, flushed, busyTill>>

Reading == cmd.op = "read" /\ nand = None
InRead  == cmd.at.part <= NrParts /\ cmd.at.start <= cmd.last
AtPage  == Reading /\ InRead /\ cmd.at.page <= cmd.last
Cur     == maptbl[cmd.at.page]

\* cmd with the read of what was gathered, if anything, and at as its place.
IssueGathered(at) ==
  IF cmd.at.xfer > 0
    THEN /\ Issue("read", LunOf[cmd.at.prev], cmd.at.xfer * PageUnits, cmd.stime, TRUE)
         /\ cmd' = [cmd EXCEPT !.at = at, !.issued[cmd.at.prev] = @ + cmd.at.xfer]
    ELSE cmd' = [cmd EXCEPT !.at = at] /\ UNCHANGED nand

SkipPage ==
  /\ AtPage /\ Cur = Unmapped
  /\ cmd' = [cmd EXCEPT !.at.page = @ + NrParts]
  /\ UNCHANGED nand

\* Mutant of GatherPage: a page in the same flash page needs no transfer.
GatherPageFree ==
  /\ AtPage /\ Cur # Unmapped /\ Cur = cmd.at.prev
  /\ cmd' = [cmd EXCEPT !.at.page = @ + NrParts, !.at.xfer = Later(@, 1)]
  /\ UNCHANGED nand

GatherPage ==
  /\ AtPage /\ Cur # Unmapped /\ Cur = cmd.at.prev
  /\ cmd' = [cmd EXCEPT !.at.page = @ + NrParts, !.at.xfer = @ + 1]
  /\ UNCHANGED nand

OtherPage ==
  /\ AtPage /\ Cur # Unmapped /\ Cur # cmd.at.prev
  /\ IssueGathered([cmd.at EXCEPT !.page = @ + NrParts, !.xfer = 1, !.prev = Cur])

PartRead ==
  /\ Reading /\ InRead /\ cmd.at.page > cmd.last
  /\ IssueGathered(InPart(cmd.at.part + 1, cmd.at.start + 1))

ReadStep == /\ SkipPage \/ GatherPage \/ OtherPage \/ PartRead
            /\ UNCHANGED <<clock, avail, ring, maptbl, flushed, busyTill, left>>

----------------------------------------------------------------------------
(* conv_write: the data come over the link into the write buffer, and      *)
(* wordlines that are full are programmed.  In between a collection may    *)
(* run, with reads, programs, erases and NOPs for single pages that wait   *)
(* for their wordline; its commands begin at the clock (stime 0).          *)

BeginWrite(pages) ==
  /\ cmd = None /\ left > 0
  /\ ring' = [ring EXCEPT ![Pcie] = Request(@, clock, clock + WbufLat, pages * PageUnits)]
  /\ cmd' = [op |-> "write", latest |-> ring'[Pcie].end, stime |-> ring'[Pcie].end]
  /\ left' = left - 1
  /\ UNCHANGED <<clock, avail, maptbl, nand, flushed, busyTill>>

WriteStep ==
  /\ cmd.op = "write" /\ nand = None /\ left > 0
  /\ \E l \in Luns :
       \/ Issue("write", l, MaxXfer, cmd.stime, FALSE)
       \/ \E units \in {PageUnits, MaxXfer} : Issue("read", l, units, clock, FALSE)
       \/ Issue("write", l, MaxXfer, clock, FALSE)
       \/ \E op \in {"erase", "nop"} : Issue(op, l, 0, clock, FALSE)
  /\ left' = left - 1
  /\ UNCHANGED <<clock, avail, ring, maptbl, cmd, flushed, busyTill>>

EndCommand ==
  /\ cmd # None /\ nand = None /\ (cmd.op = "read" => ~InRead)
  /\ cmd' = None
  /\ UNCHANGED <<clock, avail, ring, maptbl, nand, flushed, busyTill, left>>

----------------------------------------------------------------------------
(* conv_flush                                                              *)

\* ssd_next_idle_time of partition p.
NextIdleTime(p) ==
  LET times == {clock} \cup {avail[l] : l \in {l \in Luns : PartOf[l] = p}}
  IN  CHOOSE t \in times : \A u \in times : t >= u

\* Mutant of FlushTime: the first partition's.
FlushTimeFirst == NextIdleTime(0)

FlushTime ==
  LET times == {NextIdleTime(p) : p \in 0 .. NrParts - 1}
  IN  CHOOSE t \in times : \A u \in times : t >= u

Flush ==
  /\ cmd = None /\ left > 0
  /\ flushed' = [target |-> FlushTime, work |-> busyTill]
  /\ left' = left - 1
  /\ UNCHANGED <<clock, avail, ring, maptbl, nand, cmd, busyTill>>

\* Time passes, also while a command is in the FTL; before each step that
\* looks at the clock is enough.
LooksAtClock == IF nand # None THEN nand.units + nand.dma > 0
                ELSE cmd.op = "read" => ~InRead

Tick ==
  /\ LooksAtClock
  /\ \E d \in Ticks : clock + d <= MaxTime /\ clock' = clock + d
  /\ UNCHANGED <<avail, ring, maptbl, nand, cmd, flushed, busyTill, left>>

TimeNext ==
  \/ \E r \in ReadRanges : BeginRead(r[1], r[2])
  \/ \E pages \in WritePages : BeginWrite(pages)
  \/ ReadStep \/ WriteStep \/ Transfer \/ Dma \/ Completed \/ EndCommand
  \/ Flush \/ Tick

TimeSpec == TimeInit /\ [][TimeNext]_timeVars

----------------------------------------------------------------------------
(* Properties *)

\* Each channel, and the link, keeps what ChannelWindow promises: however the
\* clock moves, whatever is asked for and however often the ring has gone
\* round, no slot gives more than its credits, none is lost, and the delay is
\* that of the slots that were full.
Window == INSTANCE ChannelWindow WITH
  NrSlots <- NrEntries, SlotTime <- Interval,
  now   <- [b \in Buses |-> ring[b].time],
  asked <- [b \in Buses |-> ring[b].asked],
  end   <- [b \in Buses |-> ring[b].end],
  free  <- [b \in Buses |->
             [k \in Entries |-> ring[b].avail[(ring[b].head + k) % NrEntries]]]
ImplementsWindow == Window!Spec

\* A read transfers each of its mapped pages once, from the LUN that has it,
\* whatever pages of other flash pages, unmapped ones and partitions lie
\* between them.
ReadsEachOnce ==
  cmd.op = "read" /\ ~InRead =>
    \A f \in FlashPages :
      cmd.issued[f] = Cardinality({l \in cmd.first .. cmd.last : maptbl[l] = f})

\* A flush is done no earlier than every program, erase and read that NAND
\* was given before it, in all partitions.
FlushIsLast == [][flushed'.target >= flushed'.work]_flushed
==============================================================================
