------------------------------ MODULE IoQueues ------------------------------
(***************************************************************************)
(* The way of a command through the I/O queues: the host writes it into a  *)
(* submission queue and rings the doorbell, the dispatcher takes it, an    *)
(* I/O worker moves its data and posts its completion, an interrupt tells  *)
(* the host, and the host reads the completion queue by its phase bit.     *)
(*                                                                         *)
(* The work queue between the dispatcher and a worker is WorkQueue's       *)
(* subject.  Here a worker may copy and complete the commands it was given *)
(* in any order.  Several submission queues, and so several workers, may   *)
(* share a completion queue; its entry_lock is what they meet at.          *)
(*                                                                         *)
(* The host is a driver that never has more commands in flight than its    *)
(* queues hold, reads completions in its interrupt handler and reuses an   *)
(* identifier when it has seen its completion.                             *)
(***************************************************************************)
EXTENDS Naturals, FiniteSets, Sequences

CONSTANTS Tags,        \* command identifiers, unique over all queues
          NrSq, NrCq,  \* nvmev_vdev->nr_sq, nr_cq
          NrWorkers,   \* config.nr_io_workers
          SqSize, CqSize,
          SqOf,        \* [Tags -> SQs]
          CqOf         \* [SQs -> CQs]    sq->cqid

SQs == 1 .. NrSq
CQs == 1 .. NrCq
Workers == 0 .. NrWorkers - 1
SqSlots == 0 .. SqSize - 1
CqSlots == 0 .. CqSize - 1

TagsOf(q) == {c \in Tags : SqOf[c] = q}
CqTags(k) == {c \in Tags : CqOf[SqOf[c]] = k}

ASSUME QueuesAssumption ==
  /\ NrSq \in Nat \ {0} /\ NrCq \in Nat \ {0} /\ NrWorkers \in Nat \ {0}
  /\ SqSize \in Nat \ {0, 1} /\ CqSize \in Nat \ {0, 1}
  /\ SqOf \in [Tags -> SQs] /\ CqOf \in [SQs -> CQs]
  /\ IsFiniteSet(Tags)

\* The host's part of the bargain (its tags are fewer than the entries).
ASSUME HostAssumption ==
  /\ \A q \in SQs : Cardinality(TagsOf(q)) < SqSize
  /\ \A k \in CQs : Cardinality(CqTags(k)) < CqSize

\* __get_io_worker with CONFIG_NVMEV_IO_WORKER_BY_SQ; the interrupt of
\* completion queue k is left to the worker of that number, too.
GetIoWorker(q) == (q - 1) % NrWorkers

NoTag    == "no command"
Unlocked == NrWorkers

VARIABLES
  \* the host: identifiers in use, next slot to fill per submission queue
  busy, tail,
  \* the host: next completion to read, the phase it expects, is it in the
  \* handler of the queue's interrupt
  hostHead, hostPhase, handling,
  \* memory: submission queues, completion queues, doorbells dbs[2 * qid]
  sq, cq, dbs,
  \* the dispatcher: old_dbs[2 * qid], and the batch it is in
  oldDbs, batch,
  \* commands in a worker's hands: w->is_copied, w->sq_entry
  stage, entry,
  \* completion queues: cq_head, phase, interrupt_ready, entry_lock
  cqHead, phase, ready, lock,
  \* workers: where they are, and the completion queue they are at
  pc, at,
  \* interrupts sent and not yet handled
  irq

host == <<busy, tail, hostHead, hostPhase, handling>>
disp == <<oldDbs, batch>>
work == <<stage, entry>>
cqs  == <<cqHead, phase, ready, lock>>
wrk  == <<pc, at>>
vars == <<host, sq, cq, dbs, disp, work, cqs, wrk, irq>>

NextSq(i) == IF i + 1 = SqSize THEN 0 ELSE i + 1
NextCq(i) == IF i + 1 = CqSize THEN 0 ELSE i + 1
NotYet    == [sq |-> 0, left |-> 0]

\* nvmev_admin_create_cq and nvmev_admin_create_sq: the queues are empty and
\* the first round of completions has phase 1.
Init ==
  /\ busy = {} /\ tail = [q \in SQs |-> 0]
  /\ hostHead = [k \in CQs |-> 0] /\ hostPhase = [k \in CQs |-> 1]
  /\ handling = [k \in CQs |-> FALSE]
  /\ sq = [q \in SQs |-> [i \in SqSlots |-> NoTag]]
  /\ cq = [k \in CQs |-> [i \in CqSlots |->
             [tag |-> NoTag, sqHead |-> 0, phase |-> 0, result |-> FALSE]]]
  /\ dbs = [q \in SQs |-> 0]
  /\ oldDbs = [q \in SQs |-> 0] /\ batch = NotYet
  /\ stage = [c \in Tags |-> "none"] /\ entry = [c \in Tags |-> 0]
  /\ cqHead = [k \in CQs |-> 0] /\ phase = [k \in CQs |-> 1]
  /\ ready = [k \in CQs |-> FALSE] /\ lock = [k \in CQs |-> Unlocked]
  /\ pc = [w \in Workers |-> "walk"] /\ at = [w \in Workers |-> 0]
  /\ irq = [k \in CQs |-> FALSE]

(***************************************************************************)
(* The host (external)                                                     *)
(***************************************************************************)
Submit(c) ==
  LET q == SqOf[c]
  IN  /\ c \notin busy
      /\ busy' = busy \cup {c}
      /\ sq' = [sq EXCEPT ![q][tail[q]] = c]
      /\ tail' = [tail EXCEPT ![q] = NextSq(@)]
      /\ UNCHANGED <<hostHead, hostPhase, handling, cq, dbs, disp, work, cqs, wrk, irq>>

\* Several commands may be announced together.
Ring(q) ==
  /\ dbs[q] # tail[q]
  /\ dbs' = [dbs EXCEPT ![q] = tail[q]]
  /\ UNCHANGED <<host, sq, cq, disp, work, cqs, wrk, irq>>

TakeInterrupt(k) ==
  /\ irq[k] /\ ~handling[k]
  /\ irq' = [irq EXCEPT ![k] = FALSE]
  /\ handling' = [handling EXCEPT ![k] = TRUE]
  /\ UNCHANGED <<busy, tail, hostHead, hostPhase, sq, cq, dbs, disp, work, cqs, wrk>>

\* An entry is new when its phase is the expected one.
Unread(k) == cq[k][hostHead[k]].phase = hostPhase[k]

Reap(k) ==
  /\ handling[k] /\ Unread(k)
  /\ busy' = busy \ {cq[k][hostHead[k]].tag}
  /\ hostHead' = [hostHead EXCEPT ![k] = NextCq(@)]
  /\ hostPhase' = [hostPhase EXCEPT ![k] = IF hostHead[k] + 1 = CqSize THEN 1 - @ ELSE @]
  /\ UNCHANGED <<tail, handling, sq, cq, dbs, disp, work, cqs, wrk, irq>>

EndInterrupt(k) ==
  /\ handling[k] /\ ~Unread(k)
  /\ handling' = [handling EXCEPT ![k] = FALSE]
  /\ UNCHANGED <<busy, tail, hostHead, hostPhase, sq, cq, dbs, disp, work, cqs, wrk, irq>>

(***************************************************************************)
(* The dispatcher                                                          *)
(***************************************************************************)
\* nvmev_proc_dbs finds a doorbell moved; nvmev_proc_io_sq counts the
\* commands up to the value it read, however far the doorbell goes later.
BeginBatch(q) ==
  /\ batch = NotYet
  /\ dbs[q] # oldDbs[q]
  /\ batch' = [sq |-> q, left |-> IF dbs[q] < oldDbs[q] THEN dbs[q] + SqSize - oldDbs[q]
                                                       ELSE dbs[q] - oldDbs[q]]
  /\ UNCHANGED <<host, sq, cq, dbs, oldDbs, work, cqs, wrk, irq>>

\* The FTL accepts the command, which goes to the worker of its queue.
Take(q) ==
  /\ batch.sq = q
  /\ batch' = IF batch.left = 1 THEN NotYet ELSE [batch EXCEPT !.left = @ - 1]
  /\ LET c == sq[q][oldDbs[q]]
     IN  /\ stage' = [stage EXCEPT ![c] = "taken"]
         /\ entry' = [entry EXCEPT ![c] = oldDbs[q]]
  /\ oldDbs' = [oldDbs EXCEPT ![q] = (@ + 1) % SqSize]
  /\ UNCHANGED <<host, sq, cq, dbs, cqs, wrk, irq>>

\* The FTL has no room in its write buffer: the batch ends, and the doorbell
\* is remembered as far as commands were taken.
Refuse ==
  /\ batch # NotYet
  /\ batch' = NotYet
  /\ UNCHANGED <<host, sq, cq, dbs, oldDbs, work, cqs, wrk, irq>>

(***************************************************************************)
(* The workers                                                             *)
(***************************************************************************)
WorkerOf(c) == GetIoWorker(SqOf[c])

\* Mutant of Copy: is_copied is not set.
CopyUnmarked(c) ==
  /\ pc[WorkerOf(c)] = "walk"
  /\ stage[c] = "taken"
  /\ UNCHANGED vars

\* __do_perform_io reads the command again, from the submission queue.
Copy(c) ==
  /\ pc[WorkerOf(c)] = "walk"
  /\ stage[c] = "taken"
  /\ stage' = [stage EXCEPT ![c] = "copied"]
  /\ UNCHANGED <<host, sq, cq, dbs, disp, entry, cqs, wrk, irq>>

\* The command's time has come; the worker waits for the entry_lock.
Due(c) ==
  LET w == WorkerOf(c)
  IN  /\ pc[w] = "walk"
      /\ stage[c] = "copied"
      /\ stage' = [stage EXCEPT ![c] = "due"]
      /\ pc' = [pc EXCEPT ![w] = "lock"]
      /\ UNCHANGED <<host, sq, cq, dbs, disp, entry, cqs, at, irq>>

\* Mutant of Publish: the entry is filled without the lock.
PublishUnlocked(c) ==
  LET k == CqOf[SqOf[c]]
      w == WorkerOf(c)
  IN  /\ pc[w] = "lock"
      /\ stage[c] = "due"
      /\ cq' = [cq EXCEPT ![k][cqHead[k]] =
                  [tag |-> c, sqHead |-> entry[c], phase |-> phase[k], result |-> FALSE]]
      /\ stage' = [stage EXCEPT ![c] = "none"]
      /\ entry' = [entry EXCEPT ![c] = 0]
      /\ pc' = [pc EXCEPT ![w] = "result"]
      /\ at' = [at EXCEPT ![w] = k]
      /\ UNCHANGED <<host, sq, dbs, disp, cqs, irq>>

\* __fill_cq_result under the lock, up to the store of the status word with
\* its phase bit: from then on the host may read the entry.
Publish(c) ==
  LET k == CqOf[SqOf[c]]
      w == WorkerOf(c)
  IN  /\ pc[w] = "lock"
      /\ stage[c] = "due"
      /\ lock[k] = Unlocked
      /\ lock' = [lock EXCEPT ![k] = w]
      /\ cq' = [cq EXCEPT ![k][cqHead[k]] =
                  [tag |-> c, sqHead |-> entry[c], phase |-> phase[k], result |-> FALSE]]
      /\ stage' = [stage EXCEPT ![c] = "none"]
      /\ entry' = [entry EXCEPT ![c] = 0]
      /\ pc' = [pc EXCEPT ![w] = "result"]
      /\ at' = [at EXCEPT ![w] = k]
      /\ UNCHANGED <<host, sq, dbs, disp, cqHead, phase, ready, irq>>

\* cqe->result0 and result1 are stored after the status word.
StoreResult(w) ==
  /\ pc[w] = "result"
  /\ LET k == at[w] IN cq' = [cq EXCEPT ![k][cqHead[k]].result = TRUE]
  /\ pc' = [pc EXCEPT ![w] = "release"]
  /\ UNCHANGED <<host, sq, dbs, disp, work, cqs, at, irq>>

\* The head moves on, interrupt_ready is raised, the lock released.
Release(w) ==
  /\ pc[w] = "release"
  /\ LET k == at[w]
     IN  /\ cqHead' = [cqHead EXCEPT ![k] = NextCq(@)]
         /\ phase' = [phase EXCEPT ![k] = IF cqHead[k] + 1 = CqSize THEN 1 - @ ELSE @]
         /\ ready' = [ready EXCEPT ![k] = TRUE]
         /\ lock' = [lock EXCEPT ![k] = Unlocked]
  /\ pc' = [pc EXCEPT ![w] = "walk"]
  /\ at' = [at EXCEPT ![w] = 0]
  /\ UNCHANGED <<host, sq, cq, dbs, disp, work, irq>>

\* After a pass over its commands a worker looks at its completion queues.
\* One worker looks at a queue, so the irq_lock is always free.
TestReady(w, k) ==
  /\ pc[w] = "walk"
  /\ GetIoWorker(k) = w
  /\ ready[k]
  /\ pc' = [pc EXCEPT ![w] = "clear"]
  /\ at' = [at EXCEPT ![w] = k]
  /\ UNCHANGED <<host, sq, cq, dbs, disp, work, cqs, irq>>

\* interrupt_ready is cleared first, without the entry_lock,
ClearReady(w) ==
  /\ pc[w] = "clear"
  /\ ready' = [ready EXCEPT ![at[w]] = FALSE]
  /\ pc' = [pc EXCEPT ![w] = "signal"]
  /\ UNCHANGED <<host, sq, cq, dbs, disp, work, cqHead, phase, lock, at, irq>>

\* and the interrupt sent then (one that is pending already is not counted).
Signal(w) ==
  /\ pc[w] = "signal"
  /\ irq' = [irq EXCEPT ![at[w]] = TRUE]
  /\ pc' = [pc EXCEPT ![w] = "walk"]
  /\ at' = [at EXCEPT ![w] = 0]
  /\ UNCHANGED <<host, sq, cq, dbs, disp, work, cqs>>

\* Mutant of HandOver: the interrupt is sent first.
SignalThenClear(w) ==
  \/ /\ pc[w] = "clear"
     /\ irq' = [irq EXCEPT ![at[w]] = TRUE]
     /\ pc' = [pc EXCEPT ![w] = "signal"]
     /\ UNCHANGED <<host, sq, cq, dbs, disp, work, cqs, at>>
  \/ /\ pc[w] = "signal"
     /\ ready' = [ready EXCEPT ![at[w]] = FALSE]
     /\ pc' = [pc EXCEPT ![w] = "walk"]
     /\ at' = [at EXCEPT ![w] = 0]
     /\ UNCHANGED <<host, sq, cq, dbs, disp, work, cqHead, phase, lock, irq>>

HandOver(w) == ClearReady(w) \/ Signal(w)

Host == \/ \E c \in Tags : Submit(c)
        \/ \E q \in SQs : Ring(q)
        \/ \E k \in CQs : TakeInterrupt(k) \/ Reap(k) \/ EndInterrupt(k)

Dispatcher == Refuse \/ \E q \in SQs : BeginBatch(q) \/ Take(q)

WorkerStep(w) == \/ StoreResult(w) \/ Release(w) \/ HandOver(w)
                 \/ \E k \in CQs : TestReady(w, k)

Next == \/ Host
        \/ Dispatcher
        \/ \E c \in Tags : Copy(c) \/ Due(c) \/ Publish(c)
        \/ \E w \in Workers : WorkerStep(w)

Spec == Init /\ [][Next]_vars

\* The threads and the host's driver run.  The dispatcher looks at every
\* doorbell in turn and the FTL takes a command it refused at last (its buffer
\* is given back); each pass of a worker comes to every command and to its
\* completion queues, and a command's time comes.  The entry_lock is fair (a
\* ticket lock).
FairSpec ==
  /\ Spec
  /\ \A q \in SQs : WF_vars(Ring(q)) /\ SF_vars(BeginBatch(q)) /\ SF_vars(Take(q))
  /\ \A k \in CQs : WF_vars(TakeInterrupt(k) \/ Reap(k) \/ EndInterrupt(k))
  /\ \A c \in Tags : SF_vars(Copy(c) \/ Due(c) \/ Publish(c))
  /\ \A w \in Workers : WF_vars(StoreResult(w) \/ Release(w) \/ HandOver(w))
  /\ \A k \in CQs : SF_vars(TestReady(GetIoWorker(k), k))

(***************************************************************************)
(* Properties                                                              *)
(***************************************************************************)
\* Types: indices stay within their queues, across the wraps, and a worker
\* that is at a completion queue is at one that exists.
Completion == [tag : Tags \cup {NoTag}, sqHead : SqSlots, phase : {0, 1}, result : BOOLEAN]
AtQueue == {"result", "release", "clear", "signal"}

TypeOK ==
  /\ busy \subseteq Tags
  /\ tail \in [SQs -> SqSlots] /\ dbs \in [SQs -> SqSlots] /\ oldDbs \in [SQs -> SqSlots]
  /\ hostHead \in [CQs -> CqSlots] /\ hostPhase \in [CQs -> {0, 1}]
  /\ handling \in [CQs -> BOOLEAN] /\ irq \in [CQs -> BOOLEAN]
  /\ sq \in [SQs -> [SqSlots -> Tags \cup {NoTag}]]
  /\ cq \in [CQs -> [CqSlots -> Completion]]
  /\ batch = NotYet \/ batch \in [sq : SQs, left : Nat \ {0}]
  /\ stage \in [Tags -> {"none", "taken", "copied", "due"}]
  /\ entry \in [Tags -> SqSlots]
  /\ cqHead \in [CQs -> CqSlots] /\ phase \in [CQs -> {0, 1}]
  /\ ready \in [CQs -> BOOLEAN] /\ lock \in [CQs -> Workers \cup {Unlocked}]
  /\ pc \in [Workers -> {"walk", "lock"} \cup AtQueue]
  /\ at \in [Workers -> CQs \cup {0}]
  /\ \A w \in Workers : pc[w] \in AtQueue => at[w] \in CQs

\* The lengths of the two queues: announced or written but not taken, and
\* posted but not read (an entry counts from the store of its phase on).
SqCount(q) == (tail[q] + SqSize - oldDbs[q]) % SqSize
Posting(k) == {w \in Workers : pc[w] \in {"result", "release"} /\ at[w] = k}
CqCount(k) == (cqHead[k] + Cardinality(Posting(k)) + CqSize - hostHead[k]) % CqSize

Sent(q) == [i \in 1 .. SqCount(q) |-> sq[q][(oldDbs[q] + i - 1) % SqSize]]
Done(k) == [i \in 1 .. CqCount(k) |-> cq[k][(hostHead[k] + i - 1) % CqSize].tag]

Path == INSTANCE CommandPath
          WITH sent   <- [q \in SQs |-> Sent(q)],
               inside <- {c \in Tags : stage[c] # "none"},
               done   <- [k \in CQs |-> Done(k)]

\* Commands are taken in the order of their submission queue, completed once
\* each, and the phase bit shows the host every completion once, in order,
\* also while another worker fills the next entry: the queues implement the
\* path of a command (io.c, nvmev_proc_io_sq and __fill_cq_result).
ImplementsCommandPath == Path!Spec

\* A completion the host has not read is followed by an interrupt: one is
\* pending or being handled, or a worker is still to raise it, although
\* interrupt_ready is tested and cleared without the lock it is set under.
NoLostInterrupt ==
  \A k \in CQs : Unread(k) =>
    \/ handling[k] \/ irq[k] \/ ready[k]
    \/ \E w \in Workers : at[w] = k /\ pc[w] \in AtQueue

\* Every command that is submitted is completed, and the host learns of it.
EveryCommandEnds == \A c \in Tags : c \in busy ~> c \notin busy
=============================================================================
