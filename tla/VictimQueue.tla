---------------------------- MODULE VictimQueue ----------------------------
(***************************************************************************)
(* The binary heap of pqueue.c, as conv_ftl.c uses it for victim lines:    *)
(* the priority of a line is its valid page count (cmppri is next > curr,  *)
(* so the least count is at the root), and line->pos, which the heap       *)
(* maintains, doubles as the flag "is a victim candidate": 0 means no.     *)
(*                                                                         *)
(* A heap h is a record of the array q->d, of the number n of elements     *)
(* (q->size - 1) and of the position of every line.  Slots past n are      *)
(* never read, and are kept at NoLine here.                                *)
(***************************************************************************)
EXTENDS Integers, FiniteSets

CONSTANTS Lines, NoLine, MaxVpc

ASSUME QueueAssumption == /\ IsFiniteSet(Lines)
                          /\ NoLine \notin Lines
                          /\ MaxVpc \in Nat

\* greedy: the policy select_victim_line was built with.  It never changes.
VARIABLES heap, vpc, greedy
queueVars == <<heap, vpc, greedy>>

\* pqueue_init(tt_lines, ...): room for every line.
Slots == 1 .. Cardinality(Lines)
Heaps == [d : [Slots -> Lines \cup {NoLine}], n : 0 .. Cardinality(Lines),
          pos : [Lines -> 0 .. Cardinality(Lines)]]

QueueInit == /\ heap = [d |-> [i \in Slots |-> NoLine], n |-> 0,
                   pos |-> [l \in Lines |-> 0]]
        /\ vpc \in [Lines -> 0 .. MaxVpc]
        /\ greedy \in BOOLEAN

\* q->d[i] = l; q->setpos(l, i)
Put(h, i, l) == [h EXCEPT !.d[i] = l, !.pos[l] = i]

\* Clear the slots past the end, and take line l out of the queue: the
\* caller sets line->pos = 0.
Drop(h, l) ==
  [h EXCEPT !.d = [i \in Slots |-> IF i <= h.n THEN h.d[i] ELSE NoLine],
            !.pos[l] = 0]

------------------------------------------------------------------------------
(* The loops of pqueue.c, over the priorities pri.                         *)

\* bubble_up: move the node in slot i towards the root.
BubbleUp(h, i, pri) ==
  LET moving == h.d[i]
      up[j \in Slots] ==
        IF j > 1 /\ pri[h.d[j \div 2]] > pri[moving]
          THEN Put(up[j \div 2], j, h.d[j \div 2])
          ELSE Put(h, j, moving)
  IN  up[i]

\* Mutant of MaxChild: always the left child.
LeftChild(h, i, pri) == IF 2 * i > h.n THEN 0 ELSE 2 * i

\* maxchild: the child of the lower count, the left one if they are equal.
MaxChild(h, i, pri) ==
  IF 2 * i > h.n THEN 0
  ELSE IF 2 * i + 1 <= h.n /\ pri[h.d[2 * i]] > pri[h.d[2 * i + 1]]
       THEN 2 * i + 1
       ELSE 2 * i

\* percolate_down: move the node in slot i towards the leaves.
PercolateDown(h, i, pri) ==
  LET moving == h.d[i]
      down[j \in Slots] ==
        LET child == MaxChild(h, j, pri) IN
        IF child # 0 /\ pri[moving] > pri[h.d[child]]
          THEN Put(down[child], j, h.d[child])
          ELSE Put(h, j, moving)
  IN  down[i]

------------------------------------------------------------------------------
(* The operations *)

\* pqueue_insert of a line that is not queued.
Insert(l, v) ==
  /\ heap.pos[l] = 0
  /\ vpc' = [vpc EXCEPT ![l] = v]
  /\ heap' = BubbleUp([heap EXCEPT !.n = @ + 1, !.d[heap.n + 1] = l],
                      heap.n + 1, vpc')
  /\ UNCHANGED greedy

\* pqueue_change_priority(vpc - 1), which mark_page_invalid calls.
ChangePriority(l) ==
  /\ heap.pos[l] # 0
  /\ vpc[l] > 0
  /\ vpc' = [vpc EXCEPT ![l] = @ - 1]
  /\ heap' = IF vpc[l] > vpc'[l] THEN BubbleUp(heap, heap.pos[l], vpc')
                                 ELSE PercolateDown(heap, heap.pos[l], vpc')
  /\ UNCHANGED greedy

\* select_victim_line, GREEDY: pqueue_peek, pqueue_pop and pos = 0.
Pop ==
  /\ greedy
  /\ heap.n > 0
  /\ LET head == heap.d[1]
         cut  == [heap EXCEPT !.n = @ - 1, !.d[1] = heap.d[heap.n]]
     IN  heap' = Drop(PercolateDown(cut, 1, vpc), head)
  /\ UNCHANGED <<vpc, greedy>>

\* Mutant of Remove: the last element moved into the gap only sinks.
RemoveSinkOnly(l) ==
  /\ ~greedy
  /\ heap.pos[l] # 0
  /\ LET i   == heap.pos[l]
         cut == [heap EXCEPT !.n = @ - 1, !.d[i] = heap.d[heap.n]]
     IN  heap' = Drop(PercolateDown(cut, i, vpc), l)
  /\ UNCHANGED <<vpc, greedy>>

\* select_victim_line, CAT: pqueue_remove of the line it chose, and pos = 0.
Remove(l) ==
  /\ ~greedy
  /\ heap.pos[l] # 0
  /\ LET i   == heap.pos[l]
         cut == [heap EXCEPT !.n = @ - 1, !.d[i] = heap.d[heap.n]]
     IN  heap' = Drop(IF vpc[l] > vpc[cut.d[i]] THEN BubbleUp(cut, i, vpc)
                                                ELSE PercolateDown(cut, i, vpc), l)
  /\ UNCHANGED <<vpc, greedy>>

QueueNext == \/ \E l \in Lines : \/ \E v \in 0 .. MaxVpc : Insert(l, v)
                            \/ ChangePriority(l)
                            \/ Remove(l)
        \/ Pop

QueueSpec == QueueInit /\ [][QueueNext]_queueVars

------------------------------------------------------------------------------
(* Properties *)

\* After any mix of insertions, removals from the middle and lowered
\* priorities: no child has a lower count than its parent (pqueue_is_valid),
\* and line->pos is the line's slot, and 0 exactly for the lines not queued,
\* by which mark_page_invalid and the CAT scan tell candidates from others.
HeapSound ==
  /\ \A i \in 2 .. heap.n : vpc[heap.d[i \div 2]] <= vpc[heap.d[i]]
  /\ \A i \in 1 .. heap.n : heap.d[i] \in Lines /\ heap.pos[heap.d[i]] = i
  /\ \A l \in Lines : heap.pos[l] # 0 => heap.pos[l] <= heap.n /\ heap.d[heap.pos[l]] = l

\* The heap is the set of victim candidates the FTL takes it for, and what
\* GREEDY pops has the fewest valid pages.
Candidates == INSTANCE VictimSet WITH
                members <- {heap.d[i] : i \in 1 .. heap.n}
ImplementsVictimSet == Candidates!Spec
============================================================================
