------------------------------ MODULE ZnsZones ------------------------------
(***************************************************************************)
(* The zones of a zoned namespace (zns_ftl.c, zns_mgmt_send.c,             *)
(* zns_read_write.c): their states and write pointers, the counts of       *)
(* active, open and random-write-area zones, and the write buffers, whose  *)
(* space is taken by the dispatcher and given back by the I/O workers when *)
(* a one-shot page is programmed.                                          *)
(*                                                                         *)
(* Everything is counted in logical blocks.  A command the code refuses    *)
(* without a change of state is a step that changes nothing, and has no    *)
(* action.  Commands name blocks inside the namespace, as the kernel's     *)
(* block layer sees to.  No zone is ever read-only or offline: nothing     *)
(* sets those states.                                                      *)
(***************************************************************************)
EXTENDS Integers, FiniteSets, FiniteSetsExt

CONSTANTS NrZones, ZoneLbas, SecsPerPg, OneshotLbas, WriteUnit,
          ZoneWb, WbLbas,
          LbasPerZrwa, LbasPerZrwafg, ZrwaBufLbas,
          MaxLen, MaxZrwaRoom

\* ssd_config.h and zns_init_params.  A build without a random write area
\* has the three ZRWA sizes 0.  MaxLen bounds a write (the device's MDTS),
\* MaxZrwaRoom what the model lets a random-write-area buffer grow to.
ASSUME ZnsAssumption ==
  /\ {NrZones, ZoneLbas, SecsPerPg, OneshotLbas, WriteUnit, WbLbas, MaxLen} \subseteq Nat \ {0}
  /\ {LbasPerZrwa, LbasPerZrwafg, ZrwaBufLbas, MaxZrwaRoom} \subseteq Nat
  /\ ZoneWb \in BOOLEAN
  /\ LbasPerZrwafg <= LbasPerZrwa
  /\ ZoneLbas % SecsPerPg = 0
  /\ OneshotLbas % SecsPerPg = 0
  /\ MaxLen <= WbLbas

VARIABLES state, wp, zrwav,   \* zone_descs[]
          acquired,           \* res_infos[].acquired_cnt
          wbuf, zbuf,         \* what remains of the write buffers
          inflight,           \* internal operations scheduled, by what they give back
          sweep,              \* a select-all command being worked through
          halted,             \* the dispatcher died: BUG_ON, or a division by 0
          lost                \* history: buffer space that will not come back
descs == <<state, wp, zrwav, acquired>>
bufs  == <<wbuf, zbuf, inflight, lost>>
vars  == <<descs, bufs, sweep, halted>>

Zones == 0 .. NrZones - 1
Open   == {"OPENED_IMPL", "OPENED_EXPL"}
Active == Open \cup {"CLOSED"}
Types  == {"active", "open", "zrwa"}

Zslba(z) == z * ZoneLbas
Elba(z)  == Zslba(z) + ZoneLbas - 1
ZoneOf(lba) == lba \div ZoneLbas
ZoneEnd(z) == Zslba(z) + ZoneLbas

\* An unsigned 64-bit x - 1: below 0 there is nothing but the largest number.
Top == NrZones * ZoneLbas + LbasPerZrwa
Pred(x) == IF x = 0 THEN Top ELSE x - 1

\* zone_write_buffer[zid] or, without zone buffers, the ssd's write buffer.
Bufs == IF ZoneWb THEN Zones ELSE {0}
BufOf(z) == IF ZoneWb THEN z ELSE 0

\* schedule_internal_operation(buffer, bytes): which buffer, and how much.
\* The last one-shot page of a zone may be a short one.
Unaligned == ZoneLbas % OneshotLbas
Amounts == {OneshotLbas, Unaligned} \ {0}
Operations == ({"write"} \X Bufs \X Amounts) \cup ({"zrwa"} \X Zones \X Amounts)

\* __init_resource: every zone may be active, open and random-write.
Total(type) == NrZones
Full(type) == acquired[type] = Total(type)

Commands == {"close", "finish", "open", "reset", "flush"}
Sweeps == [action : Commands, option : BOOLEAN, zone : Zones]
NoSweep == [action |-> "none"]

Init == /\ state = [z \in Zones |-> "EMPTY"]
        /\ wp = [z \in Zones |-> Zslba(z)]
        /\ zrwav = [z \in Zones |-> FALSE]
        /\ acquired = [t \in Types |-> 0]
        /\ wbuf = [b \in Bufs |-> WbLbas]
        /\ zbuf = [z \in Zones |-> ZrwaBufLbas]
        /\ inflight = [o \in Operations |-> 0]
        /\ sweep = NoSweep
        /\ halted = FALSE
        /\ lost = [b \in Bufs |-> 0]

------------------------------------------------------------------------------
(* Zone management.  The operators with a zone give the whole effect of    *)
(* one zone's command on zone_descs and the counts, refused or not.        *)

\* acquire_zone_resource and release_zone_resource of the types in T.
Take(counts, T) == [t \in Types |-> counts[t] + IF t \in T THEN 1 ELSE 0]
Give(counts, T) == [t \in Types |-> counts[t] - IF t \in T THEN 1 ELSE 0]

\* What an active zone holds in state s: open, active and, with a random
\* write area, that.
HeldBy(z) == {t \in Types : \/ t = "open" /\ state[z] \in Open
                            \/ t = "active" /\ state[z] \in Active
                            \/ t = "zrwa" /\ state[z] \in Active /\ zrwav[z]}

\* __zmgmt_send_close_zone
CloseZone(z) ==
  \/ /\ state[z] \in Open
     /\ state' = [state EXCEPT ![z] = "CLOSED"]
     /\ acquired' = Give(acquired, {"open"})
     /\ UNCHANGED <<wp, zrwav, bufs, halted>>
  \/ /\ state[z] \notin Open
     /\ UNCHANGED <<descs, bufs, halted>>

\* __zmgmt_send_finish_zone: neither the write pointer nor zrwav changes.
FinishZone(z) ==
  /\ acquired' = Give(acquired, HeldBy(z))
  /\ state' = [state EXCEPT ![z] = "FULL"]
  /\ UNCHANGED <<wp, zrwav, bufs, halted>>

\* Mutant of Wanted: a closed zone is made active once more.
WantedAgain(z, zrwa) == {t \in Types : \/ t \in {"open", "active"} /\ state[z] \in {"EMPTY", "CLOSED"}
                                       \/ t = "zrwa" /\ state[z] = "EMPTY" /\ zrwa}

\* What opening zone z takes, and whether the counts allow it.
Wanted(z, zrwa) == {t \in Types : \/ t = "open" /\ state[z] \in {"EMPTY", "CLOSED"}
                                  \/ t = "active" /\ state[z] = "EMPTY"
                                  \/ t = "zrwa" /\ state[z] = "EMPTY" /\ zrwa}

\* __zmgmt_send_open_zone.  A closed zone keeps its random write area, and
\* gets none.
OpenZone(z, zrwa) ==
  \/ /\ state[z] # "FULL"
     /\ \A t \in Wanted(z, zrwa) : ~Full(t)
     /\ acquired' = Take(acquired, Wanted(z, zrwa))
     /\ zrwav' = [zrwav EXCEPT ![z] = @ \/ "zrwa" \in Wanted(z, zrwa)]
     /\ state' = [state EXCEPT ![z] = "OPENED_EXPL"]
     /\ UNCHANGED <<wp, bufs, halted>>
  \/ /\ state[z] = "FULL" \/ \E t \in Wanted(z, zrwa) : Full(t)
     /\ UNCHANGED <<descs, bufs, halted>>

\* The written part of a one-shot page that is not complete: its buffer
\* space is given back when the rest is written.
Partial(z) == IF zrwav[z] \/ wp[z] = ZoneEnd(z) THEN 0
              ELSE (wp[z] - Zslba(z)) % OneshotLbas

\* __zmgmt_send_reset_zone.  The random-write-area buffer is refilled; the
\* write buffer is not, so the part of an incomplete page in it is lost.
ResetZone(z) ==
  /\ acquired' = Give(acquired, HeldBy(z))
  /\ state' = [state EXCEPT ![z] = "EMPTY"]
  /\ wp' = [wp EXCEPT ![z] = Zslba(z)]
  /\ zrwav' = [zrwav EXCEPT ![z] = FALSE]
  /\ zbuf' = [zbuf EXCEPT ![z] = ZrwaBufLbas]
  /\ lost' = [lost EXCEPT ![BufOf(z)] = @ + Partial(z)]
  /\ UNCHANGED <<wbuf, inflight, halted>>

\* The last block an explicit flush may name.
ZrwaEnd(z) == Min({Pred(wp[z] + LbasPerZrwa), Elba(z)})

\* __zmgmt_send_flush_explicit_zrwa: commit up to block lba.  Without flush
\* groups the remainder divides by 0.
InArea(z, lba) == zrwav[z] /\ lba >= wp[z] /\ lba <= ZrwaEnd(z)
Flushable(z, lba) == /\ InArea(z, lba)
                     /\ LbasPerZrwafg # 0
                     /\ (lba - wp[z] + 1) % LbasPerZrwafg = 0
                     /\ state[z] \in Active

FlushZrwa(z, lba) ==
  \/ /\ Flushable(z, lba)
     /\ wp' = [wp EXCEPT ![z] = lba + 1]
     /\ acquired' = IF lba = Elba(z) THEN Give(acquired, HeldBy(z)) ELSE acquired
     /\ state' = IF lba = Elba(z) THEN [state EXCEPT ![z] = "FULL"] ELSE state
     /\ UNCHANGED <<zrwav, bufs, halted>>
  \/ /\ ~Flushable(z, lba)
     /\ halted' = (InArea(z, lba) /\ LbasPerZrwafg = 0)
     /\ UNCHANGED <<descs, bufs>>

\* __zmgmt_send
Manage(action, option, z, lba) ==
  \/ action = "close"  /\ CloseZone(z)
  \/ action = "finish" /\ FinishZone(z)
  \/ action = "open"   /\ OpenZone(z, option)
  \/ action = "reset"  /\ ResetZone(z)
  \/ action = "flush"  /\ FlushZrwa(z, lba)

\* The dispatcher is ready for the next command.
Ready == sweep = NoSweep /\ ~halted

\* zns_zmgmt_send of one zone.
ManageOne(action, option, z, lba) ==
  /\ Ready
  /\ Manage(action, option, z, lba)
  /\ UNCHANGED sweep

\* zns_zmgmt_send with select_all: the zones one after the other, while the
\* workers go on giving buffer space back.
After(action, option, z) == IF z = NrZones - 1 THEN NoSweep
                            ELSE [action |-> action, option |-> option, zone |-> z + 1]

BeginSweep(action, option) ==
  /\ Ready
  /\ Manage(action, option, 0, Zslba(0))
  /\ sweep' = After(action, option, 0)

SweepZone ==
  /\ sweep # NoSweep
  /\ ~halted
  /\ Manage(sweep.action, sweep.option, sweep.zone, Zslba(sweep.zone))
  /\ sweep' = After(sweep.action, sweep.option, sweep.zone)

------------------------------------------------------------------------------
(* Writes *)

\* Mutant of Programs: the short page at the end gives back a whole one.
ProgramsWhole(first, end) ==
  [a \in Amounts |->
     IF a = OneshotLbas THEN ((end + OneshotLbas - 1) \div OneshotLbas) - (first \div OneshotLbas)
     ELSE 0]

\* How many one-shot pages of each size are programmed when the pages from
\* first to before end, offsets in a zone, are written (the loops over lpn).
Programs(first, end) ==
  [a \in Amounts |->
     IF a = OneshotLbas THEN (end \div OneshotLbas) - (first \div OneshotLbas)
     ELSE IF end = ZoneLbas THEN 1 ELSE 0]

Schedule(kind, b, counts) ==
  inflight' = [o \in Operations |->
                 IF o[1] = kind /\ o[2] = b THEN inflight[o] + counts[o[3]]
                 ELSE inflight[o]]

PageStart(lba) == (lba \div SecsPerPg) * SecsPerPg

\* Mutant of IncreaseWritePtr: a zone written to its end stays as it is.
IncreaseNeverFull(z, n, c, s) ==
  /\ wp' = [wp EXCEPT ![z] = @ + n]
  /\ acquired' = c
  /\ state' = [state EXCEPT ![z] = s]

\* __increase_write_ptr of zone z by n, the counts being c and the state s.
IncreaseWritePtr(z, n, c, s) ==
  LET full == wp[z] + n = ZoneEnd(z) IN
  /\ wp' = [wp EXCEPT ![z] = @ + n]
  /\ acquired' = IF full THEN Give(c, {"open", "active"}) ELSE c
  /\ state' = [state EXCEPT ![z] = IF full THEN "FULL" ELSE s]

\* What a write has to meet, once it has its buffer space.
Writable(z, slba, n) ==
  /\ n % WriteUnit = 0
  /\ ZoneOf(slba) = ZoneOf(slba + n - 1)
  /\ slba = wp[z]
  /\ state[z] # "FULL"
  /\ \A t \in Wanted(z, FALSE) : ~Full(t)

\* __zns_write and an append, which writes at the write pointer.  With too
\* little buffer space the command is left for later.
WriteZone(z, n) ==
  /\ Ready
  /\ ~zrwav[z]
  /\ wbuf[BufOf(z)] >= n
  /\ Writable(z, wp[z], n)
  /\ wbuf' = [wbuf EXCEPT ![BufOf(z)] = @ - n]
  /\ IncreaseWritePtr(z, n, Take(acquired, Wanted(z, FALSE)),
                      IF state[z] \in Open THEN state[z] ELSE "OPENED_IMPL")
  /\ Schedule("write", BufOf(z),
              Programs(PageStart(wp[z]) - Zslba(z),
                       PageStart(wp[z] + n - 1) + SecsPerPg - Zslba(z)))
  /\ UNCHANGED <<zrwav, zbuf, lost, sweep, halted>>

\* A write that fails its checks keeps the buffer space it took.
WriteFails(z, slba, n) ==
  /\ Ready
  /\ ~zrwav[z]
  /\ wbuf[BufOf(z)] >= n
  /\ ~Writable(z, slba, n)
  /\ wbuf' = [wbuf EXCEPT ![BufOf(z)] = @ - n]
  /\ lost' = [lost EXCEPT ![BufOf(z)] = @ + n]
  /\ UNCHANGED <<descs, zbuf, inflight, sweep, halted>>

\* __zns_write_zrwa: a write of n blocks into the random write area, which
\* lies between the write pointer and twice the size of the area after it.
ZrwaStart(z) == wp[z] + LbasPerZrwa
ZrwaWritable(z, slba, n) ==
  /\ n % WriteUnit = 0
  /\ ZoneOf(slba) = ZoneOf(slba + n - 1)
  /\ slba >= wp[z]
  /\ slba + n - 1 <= Pred(wp[z] + 2 * LbasPerZrwa)
  /\ state[z] # "FULL"
  /\ state[z] \notin Open => ~Full("open")

\* The blocks a write up to elba commits: whole flush groups once it is past
\* the area, or all of them when it reaches the end of the zone.
ToCommit(z, elba) ==
  IF elba >= ZrwaStart(z)
    THEN ((elba - ZrwaStart(z) + LbasPerZrwafg) \div LbasPerZrwafg) * LbasPerZrwafg
    ELSE IF elba = Elba(z) THEN elba - wp[z] + 1 ELSE 0

\* What the flash pages of a commit of n blocks from lba give back.
Commits(z, lba, n) ==
  LET first == PageStart(lba) - Zslba(z)
      end   == first + (n \div SecsPerPg) * SecsPerPg
  IN  [a \in Amounts |-> IF a = OneshotLbas
                         THEN (end \div OneshotLbas) - (first \div OneshotLbas) ELSE 0]

\* A zone that is not open is opened, for the size of the area in buffer.
AreaOpened(z) == state[z] \notin Open
RoomLeft(z) == IF AreaOpened(z) THEN zbuf[z] - LbasPerZrwa ELSE zbuf[z]
CountsOpened(z) == IF AreaOpened(z) THEN Take(acquired, {"open"}) ELSE acquired
StateOpened(z) == IF AreaOpened(z) THEN "OPENED_IMPL" ELSE state[z]

\* The assertions that the buffer, and what is free of it, have room for a
\* zone being opened, the division by the size of a flush group, and the
\* assertion that a commit is not larger than the buffer.  What the
\* dispatcher had changed before it dies is not looked at again.
NoGroups(z, elba) == elba >= ZrwaStart(z) /\ LbasPerZrwafg = 0
ZrwaDies(z, slba, n) ==
  LET elba == slba + n - 1 IN
  \/ AreaOpened(z) /\ (LbasPerZrwa = 0 \/ LbasPerZrwa > ZrwaBufLbas \/ RoomLeft(z) < 0)
  \/ NoGroups(z, elba)
  \/ ~NoGroups(z, elba) /\ ToCommit(z, elba) > ZrwaBufLbas

WriteZrwaDies(z, slba, n) ==
  /\ Ready
  /\ zrwav[z]
  /\ ZrwaWritable(z, slba, n)
  /\ ZrwaDies(z, slba, n)
  /\ halted' = TRUE
  /\ UNCHANGED <<descs, bufs, sweep>>

\* Opened, but no room to commit: the command is tried again.
WriteZrwaLater(z, slba, n) ==
  /\ Ready
  /\ zrwav[z]
  /\ ZrwaWritable(z, slba, n)
  /\ ~ZrwaDies(z, slba, n)
  /\ ToCommit(z, slba + n - 1) > RoomLeft(z)
  /\ acquired' = CountsOpened(z)
  /\ state' = [state EXCEPT ![z] = StateOpened(z)]
  /\ zbuf' = [zbuf EXCEPT ![z] = RoomLeft(z)]
  /\ UNCHANGED <<wp, zrwav, wbuf, inflight, lost, sweep, halted>>

\* The workers are taken to have given back enough of what a reset zone had
\* in flight (MaxZrwaRoom).
WriteZrwa(z, slba, n) ==
  /\ Ready
  /\ zrwav[z]
  /\ ZrwaWritable(z, slba, n)
  /\ ~ZrwaDies(z, slba, n)
  /\ LET commit == ToCommit(z, slba + n - 1) IN
     /\ commit <= RoomLeft(z)
     /\ zbuf' = [zbuf EXCEPT ![z] = RoomLeft(z) - commit]
     /\ IF commit > 0
        THEN IncreaseWritePtr(z, commit, CountsOpened(z), StateOpened(z))
        ELSE /\ acquired' = CountsOpened(z)
             /\ state' = [state EXCEPT ![z] = StateOpened(z)]
             /\ UNCHANGED wp
     /\ Schedule("zrwa", z, Commits(z, wp[z], commit))
  /\ \A a \in Amounts : inflight'[<<"zrwa", z, a>>] * a <= MaxZrwaRoom
  /\ UNCHANGED <<zrwav, wbuf, lost, sweep, halted>>

------------------------------------------------------------------------------
(* The workers: buffer_release, when an internal operation is done.        *)

Release(o) ==
  /\ inflight[o] > 0
  /\ inflight' = [inflight EXCEPT ![o] = @ - 1]
  /\ \/ /\ o[1] = "write"
        /\ wbuf' = [wbuf EXCEPT ![o[2]] = @ + o[3]]
        /\ UNCHANGED zbuf
     \/ /\ o[1] = "zrwa"
        /\ zbuf[o[2]] + o[3] <= MaxZrwaRoom
        /\ zbuf' = [zbuf EXCEPT ![o[2]] = @ + o[3]]
        /\ UNCHANGED wbuf
  /\ UNCHANGED <<descs, lost, sweep, halted>>

\* The blocks of zone z, of which lba_to_zone is z.
Lbas(z) == Zslba(z) .. Elba(z)

Writes == \E z \in Zones, n \in 1 .. MaxLen : \E lba \in Lbas(z) :
  \/ WriteFails(z, lba, n)
  \/ WriteZrwaDies(z, lba, n)
  \/ WriteZrwaLater(z, lba, n)
  \/ WriteZrwa(z, lba, n)
Appends == \E z \in Zones, n \in 1 .. MaxLen : WriteZone(z, n) \/ WriteFails(z, wp[z], n)
Management == \E action \in Commands, option \in BOOLEAN :
  /\ option => action = "open"
  /\ \/ \E z \in Zones : \E lba \in Lbas(z) : ManageOne(action, option, z, lba)
     \/ BeginSweep(action, option)

Next == \/ Writes \/ Appends \/ Management \/ SweepZone
        \/ \E o \in Operations : Release(o)

Spec == Init /\ [][Next]_vars

------------------------------------------------------------------------------
(* Properties *)

\* The counts say how many zones are active and open, and never too few for
\* the zones with a random write area: release_zone_resource takes from a
\* count whose assertion is compiled out, and would wrap it.
ResourcesTrue ==
  /\ acquired["active"] = Cardinality({z \in Zones : state[z] \in Active})
  /\ acquired["open"] = Cardinality({z \in Zones : state[z] \in Open})
  /\ acquired["zrwa"] >= Cardinality({z \in Zones : state[z] \in Active /\ zrwav[z]})

\* Where the space of a write buffer is: free, on its way back, held by the
\* incomplete pages of zones, or lost for good in writes that failed and in
\* zones reset in the middle of a page.  (Of writes of whole pages only.)
BufferAccounted ==
  \A b \in Bufs :
    wbuf[b] + MapThenSumSet(LAMBDA a : inflight[<<"write", b, a>>] * a, Amounts)
            + MapThenSumSet(Partial, {z \in Zones : BufOf(z) = b})
            + lost[b] = WbLbas

\* Only a full zone is written to its end, and no other.
Life == INSTANCE ZoneLife WITH
          Capacity <- ZoneLbas,
          written <- [z \in Zones |-> wp[z] - Zslba(z)]
ImplementsZoneLife == Life!Spec
==============================================================================
