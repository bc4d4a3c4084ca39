----------------------------- MODULE WorkQueue -----------------------------
(***************************************************************************)
(* The work queue of io.c between the dispatcher thread and one I/O worker *)
(* thread.  The queue is an array of NR_MAX_PARALLEL_IO entries, linked by *)
(* index into a list of queued requests (io_seq ... io_seq_end) and a list *)
(* of free entries (free_seq ... free_seq_end).  There is no lock: the     *)
(* dispatcher alone links and unlinks entries, the worker alone sets       *)
(* is_completed and latest_nsecs, and both read what the other writes.     *)
(*                                                                         *)
(* Steps are the single reads and writes that the other thread can tell    *)
(* apart.  The stores that fill a new entry have no order before the mb(), *)
(* so they are made in any order; the linking stores are seen in program   *)
(* order (they may alias, and x86 keeps the order of stores).              *)
(*                                                                         *)
(* A request carries a tag (sqid, command_id) and is of the host, or       *)
(* internal: the release of write buffer space.  A tag is reused when the  *)
(* request is finished.  Time is the worker's clock, and stops at MaxTime. *)
(***************************************************************************)
EXTENDS Integers, FiniteSets

CONSTANTS N,          \* NR_MAX_PARALLEL_IO
          Tags,       \* the requests that may be in flight together
          NoTag,      \* in an entry never used
          Kinds,      \* which requests arrive: internal ones (TRUE), commands
          Stores,     \* how the stores into a new entry are split into steps
          MaxTime,    \* bound on target times and on the clock
          MaxQueued   \* load bound: no request arrives while this many
                      \* entries are queued (N - 1: no bound)

\* The stores of __enqueue_io_req and schedule_internal_operation that a
\* worker standing on the entry could see one by one.
Fields == {"request", "completed", "copied", "internal", "next"}

ASSUME WorkQueueAssumption == /\ N \in Nat \ {0}
                              /\ IsFiniteSet(Tags)
                              /\ NoTag \notin Tags
                              /\ Kinds \subseteq BOOLEAN
                              /\ UNION Stores = Fields
                              /\ MaxTime \in Nat
                              /\ MaxQueued \in Nat

VARIABLES
  \* the entries: w->next, w->prev, w->command_id, w->nsecs_target,
  \* w->is_internal, w->is_copied, w->is_completed
  next, prev, tag, target, internal, copied, completed,
  \* worker->io_seq, io_seq_end, free_seq, free_seq_end, latest_nsecs
  ioSeq, ioSeqEnd, freeSeq, freeSeqEnd, latest,
  \* the dispatcher: where it is, and its local variables
  disp,
  \* the worker: where it is, and curr
  work,
  \* what the host sees of each tag, and the request it sent
  phase, sent

links == <<next, prev>>
data  == <<tag, target, internal, copied, completed>>
lists == <<ioSeq, ioSeqEnd, freeSeq, freeSeqEnd>>
host  == <<phase, sent>>
vars  == <<links, data, lists, latest, disp, work, host>>

Entries == 0 .. N - 1
None    == -1

Request == [tag : Tags, target : 0 .. MaxTime, internal : Kinds]

\* The entries from e to the end of its list.
From(e) == LET at[i \in Entries] == IF i = 0 THEN e
                                   ELSE IF at[i - 1] \in Entries THEN next[at[i - 1]]
                                                                 ELSE None
           IN  at
Queued  == {From(ioSeq)[i] : i \in Entries} \cap Entries
FreeOnes == {From(freeSeq)[i] : i \in Entries} \cap Entries

Idle == [pc |-> "idle"]
NoRequest == [target |-> 0, internal |-> FALSE]

\* NVMEV_IO_WORKER_INIT: every entry is free.  is_completed is false in the
\* zeroed array; no request is written in the entries yet.
Init ==
  /\ next = [e \in Entries |-> IF e = N - 1 THEN None ELSE e + 1]
  /\ prev = [e \in Entries |-> e - 1]
  /\ tag = [e \in Entries |-> NoTag]
  /\ target = [e \in Entries |-> 0]
  /\ internal = [e \in Entries |-> FALSE]
  /\ copied = [e \in Entries |-> FALSE]
  /\ completed = [e \in Entries |-> FALSE]
  /\ ioSeq = None /\ ioSeqEnd = None
  /\ freeSeq = 0 /\ freeSeqEnd = N - 1
  /\ latest = 0
  /\ disp = Idle
  /\ work = [pc |-> "begin", curr |-> None]
  /\ phase = [t \in Tags |-> "idle"]
  /\ sent = [t \in Tags |-> NoRequest]

------------------------------------------------------------------------------
(* The dispatcher: __nvmev_proc_io *)

\* A request arrives: __allocate_work_queue_entry takes the first free entry.
Allocate(r) ==
  /\ disp.pc = "idle"
  /\ phase[r.tag] = "idle"
  /\ Cardinality(Queued) < MaxQueued
  /\ next[freeSeq] \in Entries
  /\ freeSeq' = next[freeSeq]
  /\ disp' = [pc |-> "fill", entry |-> freeSeq, req |-> r, left |-> Stores]
  /\ phase' = [phase EXCEPT ![r.tag] = "sent"]
  /\ sent' = [sent EXCEPT ![r.tag] = [target |-> r.target, internal |-> r.internal]]
  /\ UNCHANGED <<links, data, ioSeq, ioSeqEnd, freeSeqEnd, latest, work>>

\* One entry always stays in the free list; with no other the request is
\* dropped: WARN_ON_ONCE("IO queue is almost full").
Drop(r) ==
  /\ disp.pc = "idle"
  /\ phase[r.tag] = "idle"
  /\ Cardinality(Queued) < MaxQueued
  /\ next[freeSeq] \notin Entries
  /\ phase' = [phase EXCEPT ![r.tag] = "lost"]
  /\ disp' = IF r.internal THEN Idle ELSE [pc |-> "reclaim"]
  /\ UNCHANGED <<links, data, lists, latest, work, sent>>

\* Stores into the entry; the mb() is after the last.
Fill(fields) ==
  /\ disp.pc = "fill"
  /\ fields \in disp.left
  /\ LET Set(f, w, v) == IF f \in fields THEN [w EXCEPT ![disp.entry] = v] ELSE w
         r == disp.req IN
     /\ tag'       = Set("request", tag, r.tag)
     /\ target'    = Set("request", target, r.target)
     /\ completed' = Set("completed", completed, FALSE)
     /\ copied'    = Set("copied", copied, r.internal)
     /\ internal'  = Set("internal", internal, r.internal)
     /\ next'      = Set("next", next, None)
     /\ prev'      = Set("next", prev, None)
  /\ disp' = [disp EXCEPT !.left = @ \ {fields}]
  /\ UNCHANGED <<lists, latest, work, host>>

\* What the dispatcher does after a request is queued: an internal one is
\* followed by the command it belongs to, a command by a reclaim.
AfterInsert == IF disp.req.internal THEN Idle ELSE [pc |-> "reclaim"]

\* __insert_req_sorted, empty queue.
InsertFirst ==
  /\ disp.pc = "fill" /\ disp.left = {}
  /\ ioSeq = None
  /\ ioSeq' = disp.entry
  /\ ioSeqEnd' = disp.entry
  /\ disp' = AfterInsert
  /\ UNCHANGED <<links, data, freeSeq, freeSeqEnd, latest, work, host>>

SeekStart ==
  /\ disp.pc = "fill" /\ disp.left = {}
  /\ ioSeq # None
  /\ disp' = [pc |-> "seek", entry |-> disp.entry, req |-> disp.req, at |-> ioSeqEnd]
  /\ UNCHANGED <<links, data, lists, latest, work, host>>

\* Mutant of StopsAt: a new request goes to the end of the list.
StopsAtEnd(e) == TRUE

\* The search from the end stops at an entry that is due already, or is
\* due no later than the new one.
StopsAt(e) == target[e] <= latest \/ target[e] <= disp.req.target

SeekBack ==
  /\ disp.pc = "seek"
  /\ disp.at # None
  /\ ~StopsAt(disp.at)
  /\ disp' = [disp EXCEPT !.at = prev[disp.at]]
  /\ UNCHANGED <<links, data, lists, latest, work, host>>

InsertHead ==
  /\ disp.pc = "seek"
  /\ disp.at = None
  /\ prev' = [prev EXCEPT ![ioSeq] = disp.entry]
  /\ next' = [next EXCEPT ![disp.entry] = ioSeq]
  /\ ioSeq' = disp.entry
  /\ disp' = AfterInsert
  /\ UNCHANGED <<data, ioSeqEnd, freeSeq, freeSeqEnd, latest, work, host>>

\* Tail and in between.
InsertAfter ==
  /\ disp.pc = "seek"
  /\ disp.at # None
  /\ StopsAt(disp.at)
  /\ LET e == disp.entry
         after == next[disp.at] IN
     /\ next' = [next EXCEPT ![e] = after, ![disp.at] = e]
     /\ prev' = IF after = None THEN [prev EXCEPT ![e] = disp.at]
                                ELSE [prev EXCEPT ![e] = disp.at, ![after] = e]
     /\ ioSeqEnd' = IF after = None THEN e ELSE ioSeqEnd
  /\ disp' = AfterInsert
  /\ UNCHANGED <<data, ioSeq, freeSeq, freeSeqEnd, latest, work, host>>

\* Mutant of Reclaimable: an entry may be freed when it is due.
ReclaimableDue(e) == copied[e] /\ target[e] <= latest

Reclaimable(e) == completed[e] /\ copied[e] /\ target[e] <= latest

\* __reclaim_completed_reqs: the entries at the head of the list that are
\* done are unlinked together.  The flags it reads stay set once they are.
Reclaim ==
  /\ disp.pc = "reclaim"
  /\ ioSeq # None /\ Reclaimable(ioSeq)
  /\ LET at    == From(ioSeq)
         k     == CHOOSE i \in Entries :
                    /\ \A j \in 0 .. i : at[j] \in Entries /\ Reclaimable(at[j])
                    /\ next[at[i]] = None \/ ~Reclaimable(next[at[i]])
         after == next[at[k]] IN
     /\ ioSeq' = after
     /\ prev' = IF after = None THEN prev ELSE [prev EXCEPT ![after] = None]
     /\ disp' = [pc |-> "cut", first |-> ioSeq, last |-> at[k]]
  /\ UNCHANGED <<next, data, ioSeqEnd, freeSeq, freeSeqEnd, latest, work, host>>

ReclaimNothing ==
  /\ disp.pc = "reclaim"
  /\ ioSeq = None \/ ~Reclaimable(ioSeq)
  /\ disp' = Idle
  /\ UNCHANGED <<links, data, lists, latest, work, host>>

\* w->next = -1 of the last entry unlinked ...
Cut ==
  /\ disp.pc = "cut"
  /\ next' = [next EXCEPT ![disp.last] = None]
  /\ disp' = [disp EXCEPT !.pc = "join"]
  /\ UNCHANGED <<prev, data, lists, latest, work, host>>

\* Mutant of Join: the tail of the free list is not moved.
JoinKeepsTail ==
  /\ disp.pc = "join"
  /\ prev' = [prev EXCEPT ![disp.first] = freeSeqEnd]
  /\ next' = [next EXCEPT ![freeSeqEnd] = disp.first]
  /\ disp' = Idle
  /\ UNCHANGED <<data, lists, latest, work, host>>

\* ... and the chain is appended to the free list.
Join ==
  /\ disp.pc = "join"
  /\ prev' = [prev EXCEPT ![disp.first] = freeSeqEnd]
  /\ next' = [next EXCEPT ![freeSeqEnd] = disp.first]
  /\ freeSeqEnd' = disp.last
  /\ disp' = Idle
  /\ UNCHANGED <<data, ioSeq, ioSeqEnd, freeSeq, latest, work, host>>

------------------------------------------------------------------------------
(* The worker: nvmev_io_worker *)

At(p) == work.pc = p
Goto(p) == work' = [work EXCEPT !.pc = p]

\* Mutant of Begin: a pass begins at the tail.
BeginAtTail ==
  /\ At("begin")
  /\ ioSeq # None
  /\ work' = [pc |-> "clock", curr |-> ioSeqEnd]
  /\ UNCHANGED <<links, data, lists, latest, disp, host>>

\* A pass begins at the head of the list.
Begin ==
  /\ At("begin")
  /\ ioSeq # None
  /\ work' = [pc |-> "clock", curr |-> ioSeq]
  /\ UNCHANGED <<links, data, lists, latest, disp, host>>

\* curr_nsecs = local_clock() + delta; worker->latest_nsecs = curr_nsecs
ReadClock ==
  /\ At("clock")
  /\ latest' \in latest .. MaxTime
  /\ Goto("check")
  /\ UNCHANGED <<links, data, lists, disp, host>>

Check ==
  /\ At("check")
  /\ Goto(IF completed[work.curr] THEN "advance" ELSE "copy")
  /\ UNCHANGED <<links, data, lists, latest, disp, host>>

\* if (w->is_copied == false): perform the I/O, then is_copied = true.
Copy ==
  /\ At("copy")
  /\ LET e == work.curr IN
     /\ phase' = IF ~copied[e] /\ ~internal[e]
                 THEN [phase EXCEPT ![tag[e]] = "moved"] ELSE phase
     /\ copied' = [copied EXCEPT ![e] = TRUE]
  /\ Goto("test")
  /\ UNCHANGED <<links, tag, target, internal, completed, lists, latest, disp, sent>>

NotDue ==
  /\ At("test")
  /\ target[work.curr] > latest
  /\ Goto("advance")
  /\ UNCHANGED <<links, data, lists, latest, disp, host>>

\* __fill_cq_result, or buffer_release of an internal request.
Post ==
  /\ At("test")
  /\ target[work.curr] <= latest
  /\ phase' = [phase EXCEPT ![tag[work.curr]] = "idle"]
  /\ sent' = [sent EXCEPT ![tag[work.curr]] = NoRequest]
  /\ Goto("mark")
  /\ UNCHANGED <<links, data, lists, latest, disp>>

\* Mutant of Mark: is_completed is never set.
MarkNothing ==
  /\ At("mark")
  /\ Goto("advance")
  /\ UNCHANGED <<links, data, lists, latest, disp, host>>

Mark ==
  /\ At("mark")
  /\ completed' = [completed EXCEPT ![work.curr] = TRUE]
  /\ Goto("advance")
  /\ UNCHANGED <<links, tag, target, internal, copied, lists, latest, disp, host>>

\* curr = w->next
Advance ==
  /\ At("advance")
  /\ LET n == next[work.curr] IN
     work' = IF n = None THEN [pc |-> "begin", curr |-> None]
                         ELSE [pc |-> "clock", curr |-> n]
  /\ UNCHANGED <<links, data, lists, latest, disp, host>>

------------------------------------------------------------------------------
Arrival == \E r \in Request : Allocate(r) \/ Drop(r)

Dispatcher ==
  \/ \E fields \in Stores : Fill(fields)
  \/ InsertFirst \/ SeekStart \/ SeekBack \/ InsertHead \/ InsertAfter
  \/ Reclaim \/ ReclaimNothing \/ Cut \/ Join

Worker ==
  Begin \/ ReadClock \/ Check \/ Copy \/ NotDue \/ Post \/ Mark \/ Advance

Next == Arrival \/ Dispatcher \/ Worker

Spec == Init /\ [][Next]_vars

\* Both threads run, and the clock the worker reads moves on.
FairSpec == /\ Spec
            /\ WF_vars(Dispatcher)
            /\ WF_vars(Worker)
            /\ SF_vars(ReadClock /\ latest' > latest)
------------------------------------------------------------------------------
(* Properties *)

\* The entry the dispatcher has taken and not yet linked.
InHand == IF disp.pc \in {"fill", "seek"} THEN {disp.entry} ELSE {}

\* The two lists are disjoint chains that end where their tails say, and no
\* entry is ever leaked, whatever the worker does in between.
ListsSound ==
  /\ Queued \cap FreeOnes = {}
  /\ (Queued \cup FreeOnes) \cap InHand = {}
  /\ disp.pc \in {"cut", "join"} \/ Queued \cup FreeOnes \cup InHand = Entries
  /\ freeSeqEnd \in FreeOnes /\ next[freeSeqEnd] = None
  /\ ioSeq # None => /\ ioSeqEnd \in Queued /\ next[ioSeqEnd] = None
                    /\ prev[ioSeq] = None
                    /\ \A e \in Queued \ {ioSeqEnd} : prev[next[e]] = e

\* An entry that is not due yet is followed by none of an earlier target: the
\* shortcut over due entries never lets a late request overtake one that is
\* still waiting.
WaitingInOrder ==
  \A e \in Queued : next[e] # None => target[e] <= latest \/ target[e] <= target[next[e]]

\* The worker copies and completes queued entries only: never a free one, and
\* never one the dispatcher is filling ("IO worker shall see the updated w at
\* once").
ActsOnQueued == work.pc \in {"copy", "test", "mark"} => work.curr \in Queued

\* Each request is finished once, not before its target time, and a command
\* not before its data were moved.
Life == INSTANCE CommandLife WITH
          due <- [t \in Tags |-> sent[t].target],
          internal <- [t \in Tags |-> sent[t].internal],
          clock <- latest
ImplementsCommandLife == Life!Spec

\* A request that was queued is finished.
Served == \A t \in Tags : phase[t] = "sent" ~> phase[t] = "idle"
============================================================================
