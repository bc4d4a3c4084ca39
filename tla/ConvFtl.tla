------------------------------- MODULE ConvFtl -------------------------------
(***************************************************************************)
(* One partition of the conventional FTL (conv_ftl.c): the logical to      *)
(* physical mapping, the lines (super-blocks) with their valid and invalid *)
(* page counts, the user and the GC write pointer, the write credits and   *)
(* the garbage collector that the write path runs in the foreground.       *)
(*                                                                         *)
(* A flash page is <<line, offset>>, the offset counting the pages of the  *)
(* line in the order advance_write_pointer fills them; FlashGeometry ties  *)
(* that order, and the order in which GC walks a victim, to the channel,   *)
(* LUN and page numbers of the code.  The victim priority queue is its     *)
(* set of members here (VictimQueue models the heap).  The order of the list of *)
(* free lines is left out: its head is some free line.                     *)
(*                                                                         *)
(* The dispatcher runs a write to its end before the next one, so the      *)
(* steps of one page write and of the GC it may start follow one another;  *)
(* pc says where the dispatcher is.                                        *)
(***************************************************************************)
EXTENDS Integers, FiniteSets

CONSTANTS
  Lines,          \* the lines of the partition
  PgsPerLine,     \* spp->pgs_per_line
  LPNs,           \* the partition's logical pages
  GcThresLines,   \* cp.gc_thres_lines_high
  Greedy,         \* TRUE: CONV_GC_POLICY_GREEDY, FALSE: a CAT policy
  GcWalk,         \* GcWalk[i]: the offset do_gc visits i-th in a victim
  EraseAt,        \* EraseAt[o]: the visit after which offset o is erased
  Unmapped,       \* UNMAPPED_PPA
  InvalidLpn,     \* INVALID_LPN
  NoLine          \* the NULL that get_next_free_line may return

Offsets == 0 .. PgsPerLine - 1
Pages   == Lines \X Offsets

ASSUME LinesAssumption ==
  /\ IsFiniteSet(Lines)
  /\ NoLine \notin Lines
  /\ PgsPerLine \in Nat \ {0}
  /\ (Cardinality(Lines) - GcThresLines - 1) * PgsPerLine >= 2

ASSUME LpnAssumption ==
  /\ IsFiniteSet(LPNs)
  /\ InvalidLpn \notin LPNs
  /\ Unmapped \notin Pages

\* cp.gc_thres_lines_high is 2: a line for host writes and one for GC.
ASSUME PolicyAssumption == /\ GcThresLines \in Nat
                           /\ GcThresLines >= 2
                           /\ Greedy \in BOOLEAN

\* do_gc visits every page of a victim once, and erases a page after that.
ASSUME WalkAssumption ==
  /\ GcWalk \in [Offsets -> Offsets]
  /\ \A i, j \in Offsets : GcWalk[i] = GcWalk[j] => i = j
  /\ \A o \in Offsets : \E i \in Offsets : GcWalk[i] = o
  /\ EraseAt \in [Offsets -> Offsets]
  /\ \A i \in Offsets : EraseAt[GcWalk[i]] >= i

(***************************************************************************)
(* Enough spare lines that GC always has something to reclaim.  ns->size   *)
(* leaves 7% of several thousand lines to over-provisioning.               *)
(***************************************************************************)
Overprovisioned ==
  Cardinality(LPNs) < (Cardinality(Lines) - GcThresLines - 2) * PgsPerLine

VARIABLES
  maptbl,          \* logical page -> flash page
  rmap,            \* flash page -> logical page
  status,          \* flash page -> PG_FREE, PG_VALID or PG_INVALID
  vpc, ipc,        \* line -> number of valid and of invalid pages
  free_line_list,  \* lm->free_line_list
  free_line_cnt,   \* lm->free_line_cnt
  full_line_list,  \* lm->full_line_list
  victims,         \* the members of lm->victim_line_pq (line->pos # 0)
  wp,              \* the two write pointers, by I/O type
  write_credits, credits_to_refill,   \* wfc
  pc,              \* where the dispatcher is in conv_write
  req,             \* the logical page being written
  victim, cursor   \* the line being collected, and the visits done

lineVars   == <<vpc, ipc, full_line_list, victims>>
freeVars   == <<free_line_list, free_line_cnt>>
mapVars    == <<maptbl, rmap, status>>
creditVars == <<write_credits, credits_to_refill>>
gcVars     == <<victim, cursor>>
vars == <<maptbl, rmap, status, vpc, ipc, free_line_list, free_line_cnt,
          full_line_list, victims, wp, write_credits, credits_to_refill,
          pc, req, victim, cursor>>

IoTypes == {"USER_IO", "GC_IO"}

Line(p) == p[1]

\* get_new_page: the page a write pointer stands on
NewPage(io) == <<wp[io].line, wp[io].off>>

TypeOK ==
  /\ maptbl \in [LPNs -> Pages \cup {Unmapped}]
  /\ rmap \in [Pages -> LPNs \cup {InvalidLpn}]
  /\ status \in [Pages -> {"free", "valid", "invalid"}]
  /\ vpc \in [Lines -> 0 .. PgsPerLine]
  /\ ipc \in [Lines -> 0 .. PgsPerLine]
  /\ free_line_list \in SUBSET Lines
  /\ free_line_cnt \in Nat
  /\ full_line_list \in SUBSET Lines
  /\ victims \in SUBSET Lines
  /\ wp \in [IoTypes -> [line : Lines \cup {NoLine}, off : Offsets]]
  /\ write_credits \in Nat
  /\ credits_to_refill \in 1 .. PgsPerLine
  /\ pc \in {"ready", "program", "refill", "clean", "erase"}
  /\ req \in LPNs \cup {InvalidLpn}
  /\ victim \in Lines \cup {NoLine}
  /\ cursor \in 0 .. PgsPerLine

\* init_maptbl and init_rmap; ssd_init_nand_page makes every page free.
MapInit ==
  /\ maptbl = [lpn \in LPNs |-> Unmapped]
  /\ rmap = [p \in Pages |-> InvalidLpn]
  /\ status = [p \in Pages |-> "free"]

\* init_lines, but for the two lines the write pointers take.
LinesInit ==
  /\ vpc = [l \in Lines |-> 0]
  /\ ipc = [l \in Lines |-> 0]
  /\ full_line_list = {}
  /\ victims = {}

\* prepare_write_pointer, for USER_IO and for GC_IO.
PointersInit ==
  /\ \E u, g \in Lines :
       /\ u # g
       /\ wp = [io \in IoTypes |->
                  [line |-> IF io = "USER_IO" THEN u ELSE g, off |-> 0]]
       /\ free_line_list = Lines \ {u, g}
  /\ free_line_cnt = Cardinality(Lines) - 2

\* init_write_flow_control
CreditsInit ==
  /\ write_credits = PgsPerLine
  /\ credits_to_refill = PgsPerLine

\* conv_init_ftl
Init ==
  /\ MapInit
  /\ LinesInit
  /\ PointersInit
  /\ CreditsInit
  /\ pc = "ready"
  /\ req = InvalidLpn
  /\ victim = NoLine
  /\ cursor = 0

------------------------------------------------------------------------------
(* Helpers shared by the host write and by GC. *)

\* get_next_free_line: detach the head of the list, or return NULL.
TakeFreeLine(l) ==
  IF free_line_list = {}
    THEN l = NoLine /\ UNCHANGED freeVars
    ELSE /\ l \in free_line_list
         /\ free_line_list' = free_line_list \ {l}
         /\ free_line_cnt' = free_line_cnt - 1

\* advance_write_pointer, line not used up: step to its next page.
StayInLine(io) ==
  /\ wp[io].off + 1 < PgsPerLine
  /\ wp' = [wp EXCEPT ![io] = [line |-> wp[io].line, off |-> wp[io].off + 1]]
  /\ UNCHANGED <<free_line_list, free_line_cnt, full_line_list, victims>>

\* Mutant of CloseLine: the valid count is read before the page is counted.
CloseLineStaleCount(io) ==
  /\ wp[io].off + 1 = PgsPerLine
  /\ LET l == wp[io].line IN
       IF vpc[l] = PgsPerLine
         THEN full_line_list' = full_line_list \cup {l} /\ UNCHANGED victims
         ELSE victims' = victims \cup {l} /\ UNCHANGED full_line_list
  /\ \E next \in Lines \cup {NoLine} :
       /\ TakeFreeLine(next)
       /\ wp' = [wp EXCEPT ![io] = [line |-> next, off |-> 0]]

\* advance_write_pointer, line used up: hand it to the full list or to the
\* victim queue, by the valid count it has now, and open a free line.
CloseLine(io) ==
  /\ wp[io].off + 1 = PgsPerLine
  /\ LET l == wp[io].line IN
       IF vpc'[l] = PgsPerLine
         THEN /\ full_line_list' = full_line_list \cup {l}
              /\ UNCHANGED victims
         ELSE /\ victims' = victims \cup {l}
              /\ UNCHANGED full_line_list
  /\ \E next \in Lines \cup {NoLine} :
       /\ TakeFreeLine(next)
       /\ wp' = [wp EXCEPT ![io] = [line |-> next, off |-> 0]]

\* mark_page_valid
MarkPageValid(p) ==
  /\ status' = [status EXCEPT ![p] = "valid"]
  /\ vpc' = [vpc EXCEPT ![Line(p)] = @ + 1]
  /\ UNCHANGED ipc

\* Mutant of Program: the reverse mapping of the new page is not set.
ProgramWithoutRmap(io, lpn) ==
  /\ maptbl' = [maptbl EXCEPT ![lpn] = NewPage(io)]
  /\ UNCHANGED rmap
  /\ MarkPageValid(NewPage(io))
  /\ StayInLine(io) \/ CloseLine(io)

\* get_new_page, set_maptbl_ent, set_rmap_ent, mark_page_valid and
\* advance_write_pointer: what a host write and a GC copy have in common.
Program(io, lpn) ==
  /\ maptbl' = [maptbl EXCEPT ![lpn] = NewPage(io)]
  /\ rmap' = [rmap EXCEPT ![NewPage(io)] = lpn]
  /\ MarkPageValid(NewPage(io))
  /\ StayInLine(io) \/ CloseLine(io)

\* Mutant of MarkPageInvalid: a full line stays on the full list.
MarkPageInvalidKeepsFull(p) ==
  /\ status' = [status EXCEPT ![p] = "invalid"]
  /\ ipc' = [ipc EXCEPT ![Line(p)] = @ + 1]
  /\ vpc' = [vpc EXCEPT ![Line(p)] = @ - 1]
  /\ UNCHANGED <<full_line_list, victims>>

\* Mutant of MarkPageInvalid: the page keeps its status.
MarkPageInvalidKeepsStatus(p) ==
  /\ UNCHANGED status
  /\ ipc' = [ipc EXCEPT ![Line(p)] = @ + 1]
  /\ vpc' = [vpc EXCEPT ![Line(p)] = @ - 1]
  /\ IF vpc[Line(p)] = PgsPerLine
       THEN /\ full_line_list' = full_line_list \ {Line(p)}
            /\ victims' = victims \cup {Line(p)}
       ELSE UNCHANGED <<full_line_list, victims>>

\* mark_page_invalid: a line that was full becomes a victim candidate.
MarkPageInvalid(p) ==
  /\ status' = [status EXCEPT ![p] = "invalid"]
  /\ ipc' = [ipc EXCEPT ![Line(p)] = @ + 1]
  /\ vpc' = [vpc EXCEPT ![Line(p)] = @ - 1]
  /\ IF vpc[Line(p)] = PgsPerLine
       THEN /\ full_line_list' = full_line_list \ {Line(p)}
            /\ victims' = victims \cup {Line(p)}
       ELSE UNCHANGED <<full_line_list, victims>>

\* advance_write_pointer dereferences the line it was given at once: with a
\* NULL the dispatcher thread dies there and takes no further step.
Alive == \A io \in IoTypes : wp[io].line # NoLine

\* The dispatcher is alive and at this point of conv_write.
At(loc) == pc = loc /\ Alive

------------------------------------------------------------------------------
(* The host write of one logical page: an iteration of conv_write's loop.  *)

HostWriteFresh(lpn) ==
  /\ At("ready")
  /\ maptbl[lpn] = Unmapped
  /\ pc' = "program"
  /\ req' = lpn
  /\ UNCHANGED <<mapVars, lineVars, freeVars, wp, creditVars, gcVars>>

HostOverwrite(lpn) ==
  /\ At("ready")
  /\ maptbl[lpn] # Unmapped
  /\ MarkPageInvalid(maptbl[lpn])
  /\ rmap' = [rmap EXCEPT ![maptbl[lpn]] = InvalidLpn]
  /\ pc' = "program"
  /\ req' = lpn
  /\ UNCHANGED <<maptbl, freeVars, wp, creditVars, gcVars>>

\* The new page, and consume_write_credit.
HostProgram ==
  /\ At("program")
  /\ Program("USER_IO", req)
  /\ write_credits' = write_credits - 1
  /\ pc' = IF write_credits' <= 0 THEN "refill" ELSE "ready"
  /\ req' = InvalidLpn
  /\ UNCHANGED <<credits_to_refill, gcVars>>

------------------------------------------------------------------------------
(* check_and_refill_write_credit, foreground_gc and do_gc.                 *)

\* The end of check_and_refill_write_credit.
Refill ==
  /\ write_credits' = write_credits + credits_to_refill
  /\ pc' = "ready"

\* Mutant of RefillWithoutGc: GC is put off by one line.
RefillOneLineLate ==
  /\ At("refill")
  /\ free_line_cnt >= GcThresLines
  /\ Refill
  /\ UNCHANGED <<mapVars, lineVars, freeVars, wp, credits_to_refill, req,
                 gcVars>>

\* Mutant of RefillWithoutGc: credits are granted without asking for GC.
RefillUnchecked ==
  /\ At("refill")
  /\ Refill
  /\ UNCHANGED <<mapVars, lineVars, freeVars, wp, credits_to_refill, req,
                 gcVars>>

\* foreground_gc finds more free lines than the threshold.
RefillWithoutGc ==
  /\ At("refill")
  /\ free_line_cnt > GcThresLines
  /\ Refill
  /\ UNCHANGED <<mapVars, lineVars, freeVars, wp, credits_to_refill, req,
                 gcVars>>

\* do_gc returns -1: there is no victim, and the credits are granted anyway.
RefillNoVictim ==
  /\ At("refill")
  /\ free_line_cnt <= GcThresLines
  /\ victims = {}
  /\ Refill
  /\ UNCHANGED <<mapVars, lineVars, freeVars, wp, credits_to_refill, req,
                 gcVars>>

\* select_victim_line with force: GREEDY takes a line of the fewest valid
\* pages; a CAT policy may prefer any candidate.
IsVictimChoice(l) ==
  /\ l \in victims
  /\ Greedy => \A m \in victims : vpc[l] <= vpc[m]

\* Mutant of GcSelect: the victim is peeked at and not popped.
GcSelectPeek(l) ==
  /\ At("refill")
  /\ free_line_cnt <= GcThresLines
  /\ IsVictimChoice(l)
  /\ victim' = l
  /\ cursor' = 0
  /\ credits_to_refill' = ipc[l]
  /\ pc' = "clean"
  /\ UNCHANGED <<mapVars, lineVars, freeVars, wp, write_credits, req>>

GcSelect(l) ==
  /\ At("refill")
  /\ free_line_cnt <= GcThresLines
  /\ IsVictimChoice(l)
  /\ victims' = victims \ {l}
  /\ victim' = l
  /\ cursor' = 0
  /\ credits_to_refill' = ipc[l]
  /\ pc' = "clean"
  /\ UNCHANGED <<mapVars, vpc, ipc, full_line_list, freeVars, wp,
                 write_credits, req>>

\* The victim's page that clean_one_flashpg looks at next.
GcPage == <<victim, GcWalk[cursor]>>

\* Mutant of ErasedNow: the erase takes the blocks still to be cleaned too.
ErasedEarly == {o \in Offsets : EraseAt[o] >= cursor}

\* The offsets whose block mark_block_free resets after this visit.
ErasedNow == {o \in Offsets : EraseAt[o] = cursor}

\* After a visit: erase the blocks that are done, or go to the next page.
VisitDone ==
  IF ErasedNow = {}
    THEN cursor' = cursor + 1 /\ UNCHANGED pc
    ELSE pc' = "erase" /\ UNCHANGED cursor

\* Mutant of GcSkip: the walk does not move past a page without data.
GcSkipInPlace ==
  /\ At("clean")
  /\ cursor < PgsPerLine
  /\ status[GcPage] # "valid"
  /\ UNCHANGED vars

\* Mutant of GcSkip: a valid page is passed over as well.
GcSkipValid ==
  /\ At("clean")
  /\ cursor < PgsPerLine
  /\ VisitDone
  /\ UNCHANGED <<mapVars, lineVars, freeVars, wp, creditVars, req, victim>>

\* clean_one_flashpg, a page that is not valid: nothing to copy.
GcSkip ==
  /\ At("clean")
  /\ cursor < PgsPerLine
  /\ status[GcPage] # "valid"
  /\ VisitDone
  /\ UNCHANGED <<mapVars, lineVars, freeVars, wp, creditVars, req, victim>>

\* gc_write_page: the old page keeps its status and its rmap entry.
GcCopy ==
  /\ At("clean")
  /\ cursor < PgsPerLine
  /\ status[GcPage] = "valid"
  /\ Program("GC_IO", rmap[GcPage])
  /\ VisitDone
  /\ UNCHANGED <<creditVars, req, victim>>

\* mark_block_free
GcErase ==
  /\ At("erase")
  /\ status' = [p \in Pages |->
                  IF p[1] = victim /\ p[2] \in ErasedNow THEN "free"
                                                         ELSE status[p]]
  /\ cursor' = cursor + 1
  /\ pc' = "clean"
  /\ UNCHANGED <<maptbl, rmap, lineVars, freeVars, wp, creditVars, req,
                 victim>>

\* Mutant of GcFinish: the invalid count of the line is not reset.
GcFinishKeepsIpc ==
  /\ At("clean")
  /\ cursor = PgsPerLine
  /\ vpc' = [vpc EXCEPT ![victim] = 0]
  /\ free_line_list' = free_line_list \cup {victim}
  /\ free_line_cnt' = free_line_cnt + 1
  /\ Refill
  /\ victim' = NoLine
  /\ cursor' = 0
  /\ UNCHANGED <<mapVars, ipc, full_line_list, victims, wp,
                 credits_to_refill, req>>

\* mark_line_free, the end of do_gc, and the refill that follows it.
GcFinish ==
  /\ At("clean")
  /\ cursor = PgsPerLine
  /\ vpc' = [vpc EXCEPT ![victim] = 0]
  /\ ipc' = [ipc EXCEPT ![victim] = 0]
  /\ free_line_list' = free_line_list \cup {victim}
  /\ free_line_cnt' = free_line_cnt + 1
  /\ Refill
  /\ victim' = NoLine
  /\ cursor' = 0
  /\ UNCHANGED <<mapVars, full_line_list, victims, wp, credits_to_refill,
                 req>>

\* What the dispatcher thread does to finish a write it has begun.
Dispatcher ==
  \/ HostProgram
  \/ RefillWithoutGc
  \/ RefillNoVictim
  \/ \E l \in Lines : GcSelect(l)
  \/ GcSkip
  \/ GcCopy
  \/ GcErase
  \/ GcFinish

Next ==
  \/ \E lpn \in LPNs : HostWriteFresh(lpn) \/ HostOverwrite(lpn)
  \/ Dispatcher

Spec == Init /\ [][Next]_vars

\* The dispatcher is a kernel thread that loops without sleeping: it is
\* scheduled again and again, and the host may stop writing at any time.
FairSpec == Spec /\ WF_vars(Dispatcher)

------------------------------------------------------------------------------
(* Properties *)

OpenLines == {wp[io].line : io \in IoTypes} \ {NoLine}
Collected == {victim} \ {NoLine}

ValidIn(l)   == {o \in Offsets : status[<<l, o>>] = "valid"}
InvalidIn(l) == {o \in Offsets : status[<<l, o>>] = "invalid"}

\* The visits GC has made to the victim's pages, and the offsets visited.
VisitsDone == IF pc = "erase" THEN cursor + 1 ELSE cursor
Visited    == {GcWalk[i] : i \in 0 .. VisitsDone - 1}

\* A page of the victim whose contents GC has already dealt with.
IsStale(p) == victim # NoLine /\ Line(p) = victim /\ p[2] \in Visited

\* Every logical page is mapped to a valid page that maps back to it, also
\* half way through a collection; only the page being overwritten is
\* excused, between its invalidation and its new page.
MappingSound ==
  \A lpn \in LPNs :
    (maptbl[lpn] # Unmapped /\ ~(pc = "program" /\ req = lpn))
      => /\ status[maptbl[lpn]] = "valid"
         /\ rmap[maptbl[lpn]] = lpn
         /\ ~IsStale(maptbl[lpn])

\* No valid page is an orphan: a valid page that GC would copy is the one
\* its logical page is mapped to, so a copy never brings old data back.
NoOrphanPage ==
  \A p \in Pages :
    (status[p] = "valid" /\ ~IsStale(p))
      => rmap[p] \in LPNs /\ maptbl[rmap[p]] = p

\* A line is in exactly one place: free list, a write pointer, full list,
\* victim queue, or GC's hands; the two write pointers never share a line.
OneHome ==
  /\ Lines = UNION {free_line_list, OpenLines, full_line_list, victims,
                    Collected}
  /\ free_line_list \cap (OpenLines \cup full_line_list \cup victims
                            \cup Collected) = {}
  /\ OpenLines \cap (full_line_list \cup victims \cup Collected) = {}
  /\ full_line_list \cap (victims \cup Collected) = {}
  /\ victims \cap Collected = {}
  /\ wp["USER_IO"].line # wp["GC_IO"].line
  /\ free_line_cnt = Cardinality(free_line_list)

\* The counts GC decides by are true: vpc and ipc are the numbers of valid
\* and invalid pages, a full line has no invalid page, a candidate has one.
CountsTrue ==
  /\ \A l \in Lines \ Collected : /\ vpc[l] = Cardinality(ValidIn(l))
                                  /\ ipc[l] = Cardinality(InvalidIn(l))
  /\ \A l \in full_line_list : vpc[l] = PgsPerLine
  /\ \A l \in victims \cup Collected : ipc[l] > 0 /\ vpc[l] + ipc[l] = PgsPerLine

\* The pages that can still be programmed without an erase.
FreePages == (PgsPerLine - wp["USER_IO"].off) + (PgsPerLine - wp["GC_IO"].off)
             + PgsPerLine * free_line_cnt

\* get_next_free_line never returns NULL to advance_write_pointer, which
\* dereferences what it returns.
NoLineExhaustion == Alive

\* The credits handed to the host never exceed the space behind them: apart
\* from the reserve (the threshold's lines and two pages) every credit is
\* backed by a page, so the host can never write GC into a corner;
\* and no write begins without a credit.
CreditsBacked ==
  /\ pc \in {"ready", "program", "refill"}
       => FreePages >= write_credits + GcThresLines * PgsPerLine + 2
  /\ pc \in {"ready", "program"} => write_credits > 0

\* When the credits are spent and free lines are short, GC finds a victim.
VictimAvailable == pc = "refill" /\ free_line_cnt <= GcThresLines => victims # {}

\* The BUG_ONs on this path: a page is programmed only when free, an
\* GC copy finds its logical page, and GC never meets a free page.
AssertionsHold ==
  /\ pc = "program" /\ Alive =>
                       /\ status[NewPage("USER_IO")] = "free"
                       /\ vpc[wp["USER_IO"].line] < PgsPerLine
  /\ pc = "clean" /\ cursor < PgsPerLine /\ Alive =>
       /\ status[GcPage] # "free"
       /\ status[GcPage] = "valid" => /\ rmap[GcPage] \in LPNs
                                      /\ status[NewPage("GC_IO")] = "free"

\* Every page write the dispatcher begins comes to its end.
WriteEnds == pc # "ready" ~> pc = "ready"

\* The mapping implements the abstract page store.
Store == INSTANCE PageStore WITH
           owner <- maptbl,
           programmable <- {p \in Pages : status[p] = "free"}
ImplementsPageStore == Store!Spec
==============================================================================
