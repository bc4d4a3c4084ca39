---------------------------- MODULE FlashGeometry ----------------------------
(***************************************************************************)
(* The pages of one line by channel, LUN and page number, the order in     *)
(* which advance_write_pointer fills them and the order in which do_gc     *)
(* cleans them and erases their blocks.  The nested counters of the code   *)
(* run here side by side: a write pointer that fills the line once, then a *)
(* collector that walks it.                                                *)
(*                                                                         *)
(* One plane per LUN (PLNS_PER_LUN is 1), so a LUN has one block of the    *)
(* line.                                                                   *)
(***************************************************************************)
EXTENDS Integers, Sequences, FiniteSets

CONSTANTS
  Nchs,           \* spp->nchs
  LunsPerCh,      \* spp->luns_per_ch
  WordLines,      \* spp->oneshotpgs_per_blk
  PgsPerOneshot,  \* spp->pgs_per_oneshotpg
  PgsPerFlash     \* spp->pgs_per_flashpg

ASSUME GeometryAssumption ==
  /\ {Nchs, LunsPerCh, WordLines, PgsPerOneshot, PgsPerFlash}
       \subseteq Nat \ {0}
  /\ PgsPerOneshot % PgsPerFlash = 0

PgsPerBlk  == WordLines * PgsPerOneshot
LinePages == PgsPerBlk * LunsPerCh * Nchs
FlashPgsPerBlk == PgsPerBlk \div PgsPerFlash

Ppas == [ch : 0 .. Nchs - 1, lun : 0 .. LunsPerCh - 1, pg : 0 .. PgsPerBlk - 1]

\* The pages of the block that holds page p.
BlockOf(p) == {q \in Ppas : q.ch = p.ch /\ q.lun = p.lun}

VARIABLES wp,       \* the write pointer's ch, lun and pg
          filled,   \* the pages programmed so far, in order
          gc,       \* do_gc's flashpg, ch and lun, and the page within
          walked,   \* the pages cleaned so far, in order
          erased,   \* the pages of the blocks erased so far
          phase     \* "fill", then "collect", then "done"

vars == <<wp, filled, gc, walked, erased, phase>>

Init ==
  /\ wp = [ch |-> 0, lun |-> 0, pg |-> 0]
  /\ filled = <<>>
  /\ gc = [flashpg |-> 0, ch |-> 0, lun |-> 0, i |-> 0]
  /\ walked = <<>>
  /\ erased = {}
  /\ phase = "fill"

\* Mutant of FirstOfOneshot: the pages of a wordline are not rewound.
NextPage(w)     == w.pg + 1

(***************************************************************************)
(* advance_write_pointer: the pages of a wordline on one LUN, then the     *)
(* channels, then the LUNs, then the next wordline.                        *)
(***************************************************************************)
EndOfOneshot(w) == (w.pg + 1) % PgsPerOneshot = 0
LastChannel(w)  == w.ch + 1 = Nchs
LastLun(w)      == w.lun + 1 = LunsPerCh
FirstOfOneshot(w) == w.pg + 1 - PgsPerOneshot

AdvanceWritePointer ==
  /\ phase = "fill"
  /\ filled' = Append(filled, wp)
  /\ \/ /\ ~EndOfOneshot(wp)
        /\ wp' = [wp EXCEPT !.pg = @ + 1]
        /\ UNCHANGED phase
     \/ /\ EndOfOneshot(wp) /\ ~LastChannel(wp)
        /\ wp' = [wp EXCEPT !.pg = FirstOfOneshot(wp), !.ch = @ + 1]
        /\ UNCHANGED phase
     \/ /\ EndOfOneshot(wp) /\ LastChannel(wp) /\ ~LastLun(wp)
        /\ wp' = [ch |-> 0, lun |-> wp.lun + 1, pg |-> FirstOfOneshot(wp)]
        /\ UNCHANGED phase
     \/ /\ EndOfOneshot(wp) /\ LastChannel(wp) /\ LastLun(wp)
        /\ IF wp.pg + 1 = PgsPerBlk
             THEN wp' = [ch |-> 0, lun |-> 0, pg |-> 0] /\ phase' = "collect"
             ELSE /\ wp' = [ch |-> 0, lun |-> 0, pg |-> wp.pg + 1]
                  /\ UNCHANGED phase
  /\ UNCHANGED <<gc, walked, erased>>

(***************************************************************************)
(* do_gc: flash page by flash page, and within it channel by channel and   *)
(* LUN by LUN; clean_one_flashpg goes over the pages of the flash page.    *)
(* In the last pass mark_block_free resets the block just cleaned.         *)
(***************************************************************************)
GcPpa(g) == [ch |-> g.ch, lun |-> g.lun, pg |-> g.flashpg * PgsPerFlash + g.i]

CleanPage ==
  /\ phase = "collect"
  /\ gc.i < PgsPerFlash
  /\ walked' = Append(walked, GcPpa(gc))
  /\ gc' = [gc EXCEPT !.i = @ + 1]
  /\ UNCHANGED <<wp, filled, erased, phase>>

\* Mutant of FlashPageDone: blocks are erased in the first pass.
FlashPageDoneEarlyErase ==
  /\ phase = "collect"
  /\ gc.i = PgsPerFlash
  /\ erased' = IF gc.flashpg = 0 THEN erased \cup BlockOf(GcPpa([gc EXCEPT !.i = 0]))
                                 ELSE erased
  /\ \/ /\ gc.lun + 1 < LunsPerCh
        /\ gc' = [gc EXCEPT !.i = 0, !.lun = @ + 1]
        /\ UNCHANGED phase
     \/ /\ gc.lun + 1 = LunsPerCh /\ gc.ch + 1 < Nchs
        /\ gc' = [gc EXCEPT !.i = 0, !.lun = 0, !.ch = @ + 1]
        /\ UNCHANGED phase
     \/ /\ gc.lun + 1 = LunsPerCh /\ gc.ch + 1 = Nchs
        /\ gc' = [flashpg |-> gc.flashpg + 1, ch |-> 0, lun |-> 0, i |-> 0]
        /\ phase' = IF gc.flashpg + 1 = FlashPgsPerBlk THEN "done" ELSE phase
  /\ UNCHANGED <<wp, filled, walked>>

FlashPageDone ==
  /\ phase = "collect"
  /\ gc.i = PgsPerFlash
  /\ erased' = IF gc.flashpg = FlashPgsPerBlk - 1
                 THEN erased \cup BlockOf(GcPpa([gc EXCEPT !.i = 0]))
                 ELSE erased
  /\ \/ /\ gc.lun + 1 < LunsPerCh
        /\ gc' = [gc EXCEPT !.i = 0, !.lun = @ + 1]
        /\ UNCHANGED phase
     \/ /\ gc.lun + 1 = LunsPerCh /\ gc.ch + 1 < Nchs
        /\ gc' = [gc EXCEPT !.i = 0, !.lun = 0, !.ch = @ + 1]
        /\ UNCHANGED phase
     \/ /\ gc.lun + 1 = LunsPerCh /\ gc.ch + 1 = Nchs
        /\ gc' = [flashpg |-> gc.flashpg + 1, ch |-> 0, lun |-> 0, i |-> 0]
        /\ phase' = IF gc.flashpg + 1 = FlashPgsPerBlk THEN "done" ELSE phase
  /\ UNCHANGED <<wp, filled, walked>>

Next == AdvanceWritePointer \/ CleanPage \/ FlashPageDone

Spec == Init /\ [][Next]_vars

------------------------------------------------------------------------------
(* Closed forms: where a page stands in the two orders.                    *)

\* The offset of page p in the order of writes.
WriteOffset(p) ==
  (((p.pg \div PgsPerOneshot) * LunsPerCh + p.lun) * Nchs + p.ch)
    * PgsPerOneshot + (p.pg % PgsPerOneshot)

\* The visit at which GC cleans page p.
GcVisit(p) ==
  (((p.pg \div PgsPerFlash) * Nchs + p.ch) * LunsPerCh + p.lun)
    * PgsPerFlash + (p.pg % PgsPerFlash)

\* The visit after which p's block is erased: that of its last page.
EraseVisit(p) == GcVisit([p EXCEPT !.pg = PgsPerBlk - 1])

PageAt(o) == CHOOSE p \in Ppas : WriteOffset(p) = o

\* The constants GcWalk and EraseAt of ConvFtl for this geometry.
LineWalk  == [i \in 0 .. LinePages - 1 |->
              WriteOffset(CHOOSE p \in Ppas : GcVisit(p) = i)]
LineErase == [o \in 0 .. LinePages - 1 |-> EraseVisit(PageAt(o))]

------------------------------------------------------------------------------
(* Properties *)

\* The write pointer visits the pages in the order of WriteOffset, and GC in
\* the order of GcVisit: no page is programmed twice or left out before the
\* line is closed, none is passed over or cleaned twice, and the pages of a
\* oneshot program are consecutive.
VisitsInOrder ==
  /\ \A k \in 1 .. Len(filled) : WriteOffset(filled[k]) = k - 1
  /\ phase # "fill" => Len(filled) = LinePages
  /\ \A k \in 1 .. Len(walked) : GcVisit(walked[k]) = k - 1
  /\ phase = "done" => Len(walked) = LinePages

\* A block is erased once all its pages are cleaned, right after the visit
\* EraseVisit names, and by the end every block of the line is.
EraseAfterClean ==
  /\ \A p \in erased : EraseVisit(p) < Len(walked) /\ GcVisit(p) <= EraseVisit(p)
  /\ gc.i = 0 => \A p \in Ppas : EraseVisit(p) < Len(walked) => p \in erased
  /\ phase = "done" => erased = Ppas
==============================================================================
