--------------------------- MODULE IoQueuesProofs ---------------------------
(***************************************************************************)
(* What holds of the I/O queues for any number of queues, workers, entries *)
(* and commands; and what holds of the times of the NAND commands for any  *)
(* channels, LUNs, partitions and lengths.                                 *)
(***************************************************************************)
EXTENDS IoQueues, NandTime, Arithmetic

\* The remainder of a division is less than the divisor.
LEMMA Remainder ==
  ASSUME NEW n \in Nat \ {0}, NEW a \in Nat
  PROVE  a % n \in 0 .. n - 1
OBVIOUS

LEMMA Sizes == /\ 0 \in SqSlots /\ 0 \in CqSlots
               /\ \A i \in SqSlots : NextSq(i) \in SqSlots /\ (i + 1) % SqSize \in SqSlots
               /\ \A i \in CqSlots : NextCq(i) \in CqSlots
               /\ \A q \in Nat \ {0} : GetIoWorker(q) \in Workers
<1>1. \A i \in SqSlots : (i + 1) % SqSize \in SqSlots
  BY QueuesAssumption, Remainder DEF SqSlots
<1>2. \A q \in Nat \ {0} : GetIoWorker(q) \in Workers
  BY QueuesAssumption, Remainder DEF GetIoWorker, Workers
<1>3. QED BY <1>1, <1>2, QueuesAssumption DEF SqSlots, CqSlots, NextSq, NextCq

LEMMA Homes == \A c \in Tags : SqOf[c] \in SQs /\ CqOf[SqOf[c]] \in CQs /\ WorkerOf(c) \in Workers
BY QueuesAssumption, Sizes DEF SQs, WorkerOf

LEMMA TypeStep == TypeOK /\ [Next]_vars => TypeOK'
<1> SUFFICES ASSUME TypeOK, [Next]_vars PROVE TypeOK'
  OBVIOUS
<1> USE Sizes, Homes
<1>1. CASE UNCHANGED vars
  BY <1>1 DEF TypeOK, vars, host, disp, work, cqs, wrk
<1>2. ASSUME NEW c \in Tags, Submit(c) PROVE TypeOK'
  BY <1>2 DEF Submit, TypeOK, disp, work, cqs, wrk
<1>3. ASSUME NEW q \in SQs, Ring(q) PROVE TypeOK'
  BY <1>3 DEF Ring, TypeOK, host, disp, work, cqs, wrk
<1>4. ASSUME NEW k \in CQs, TakeInterrupt(k) \/ EndInterrupt(k) PROVE TypeOK'
  BY <1>4 DEF TakeInterrupt, EndInterrupt, TypeOK, disp, work, cqs, wrk
<1>4a. ASSUME NEW k \in CQs, Reap(k) PROVE TypeOK'
  <2>1. hostPhase'[k] \in {0, 1} /\ hostHead'[k] \in CqSlots
    BY <1>4a DEF Reap, TypeOK
  <2>2. /\ hostPhase' \in [CQs -> {0, 1}]
        /\ hostHead' \in [CQs -> CqSlots]
        /\ busy' \subseteq Tags
    BY <1>4a, <2>1 DEF Reap, TypeOK
  <2>3. QED BY <1>4a, <2>2 DEF Reap, TypeOK, disp, work, cqs, wrk
<1>5. ASSUME NEW q \in SQs, BeginBatch(q) PROVE TypeOK'
  <2>1. dbs[q] \in Nat /\ oldDbs[q] \in Nat /\ oldDbs[q] < SqSize /\ SqSize \in Nat
    BY QueuesAssumption DEF TypeOK, SqSlots
  <2>2. batch' \in [sq : SQs, left : Nat \ {0}]
    BY <1>5, <2>1 DEF BeginBatch
  <2>3. QED BY <1>5, <2>2 DEF BeginBatch, TypeOK, host, work, cqs, wrk
<1>6. ASSUME NEW q \in SQs, Take(q) PROVE TypeOK'
  <2>1. batch \in [sq : SQs, left : Nat \ {0}]
    BY <1>6, QueuesAssumption DEF Take, TypeOK, NotYet, SQs
  <2>2. batch' = NotYet \/ batch' \in [sq : SQs, left : Nat \ {0}]
    BY <1>6, <2>1 DEF Take
  <2>3. /\ oldDbs' \in [SQs -> SqSlots]
        /\ stage' \in [Tags -> {"none", "taken", "copied", "due"}]
        /\ entry' \in [Tags -> SqSlots]
    BY <1>6 DEF Take, TypeOK
  <2>4. QED BY <1>6, <2>2, <2>3 DEF Take, TypeOK, host, cqs, wrk
<1>7. CASE Refuse
  BY <1>7 DEF Refuse, TypeOK, host, work, cqs, wrk
<1>8. ASSUME NEW c \in Tags, Copy(c) \/ Due(c) PROVE TypeOK'
  <2>1. CASE Copy(c)
    <3>1. stage' \in [Tags -> {"none", "taken", "copied", "due"}]
      BY <1>8, <2>1 DEF Copy, TypeOK
    <3>2. QED BY <2>1, <3>1 DEF Copy, TypeOK, host, disp, cqs, wrk
  <2>2. CASE Due(c)
    <3>1. stage' \in [Tags -> {"none", "taken", "copied", "due"}]
      BY <1>8, <2>2 DEF Due, TypeOK
    <3>2. pc' \in [Workers -> {"walk", "lock"} \cup AtQueue]
      BY <2>2 DEF Due, TypeOK
    <3>3. \A v \in Workers : pc'[v] \in AtQueue => pc[v] \in AtQueue
      BY <2>2 DEF Due, TypeOK, AtQueue
    <3>4. QED BY <2>2, <3>1, <3>2, <3>3 DEF Due, TypeOK, host, disp, cqs, wrk
  <2>3. QED BY <1>8, <2>1, <2>2
<1>9. ASSUME NEW c \in Tags, Publish(c) PROVE TypeOK'
  <2> DEFINE k == CqOf[SqOf[c]]
             new == [tag |-> c, sqHead |-> entry[c], phase |-> phase[k], result |-> FALSE]
  <2>1. new \in Completion
    BY DEF TypeOK, Completion
  <2>2. cq' \in [CQs -> [CqSlots -> Completion]]
    BY <1>9, <2>1 DEF Publish, TypeOK
  <2>3. QED BY <1>9, <2>2 DEF Publish, TypeOK, AtQueue, host, disp
<1>10. ASSUME NEW w \in Workers, StoreResult(w) PROVE TypeOK'
  <2>1. at[w] \in CQs /\ cqHead[at[w]] \in CqSlots
    BY <1>10 DEF StoreResult, TypeOK, AtQueue
  <2> DEFINE old == cq[at[w]][cqHead[at[w]]]
             new == [old EXCEPT !.result = TRUE]
  <2>1a. old \in Completion
    BY <2>1 DEF TypeOK
  <2>2. new \in Completion
    BY <2>1a DEF Completion
  <2>3. cq' = [cq EXCEPT ![at[w]] = [cq[at[w]] EXCEPT ![cqHead[at[w]]] = new]]
    BY <1>10 DEF StoreResult
  <2>4. cq' \in [CQs -> [CqSlots -> Completion]]
    BY <2>2, <2>3 DEF TypeOK
  <2>5. QED BY <1>10, <2>1, <2>4 DEF StoreResult, TypeOK, AtQueue, host, disp, work, cqs
<1>11. ASSUME NEW w \in Workers, Release(w) PROVE TypeOK'
  BY <1>11 DEF Release, TypeOK, AtQueue, host, disp, work
<1>12. ASSUME NEW w \in Workers, HandOver(w) PROVE TypeOK'
  <2>1. CASE ClearReady(w)
    BY <2>1 DEF ClearReady, TypeOK, AtQueue, host, disp, work
  <2>2. CASE Signal(w)
    BY <2>2 DEF Signal, TypeOK, AtQueue, host, disp, work, cqs
  <2>3. QED BY <1>12, <2>1, <2>2 DEF HandOver
<1>13. ASSUME NEW w \in Workers, NEW k \in CQs, TestReady(w, k) PROVE TypeOK'
  BY <1>13 DEF TestReady, TypeOK, AtQueue, host, disp, work, cqs
<1>14. QED
  BY <1>1, <1>2, <1>3, <1>4, <1>4a, <1>5, <1>6, <1>7, <1>8, <1>9, <1>10, <1>11, <1>12, <1>13
     DEF Next, Host, Dispatcher, WorkerStep

\* Every index stays inside its queue across the wraps (io.c: sq_entry,
\* cq_head and the remembered doorbells).
THEOREM QueueTypes == Spec => []TypeOK
<1>1. Init => TypeOK
  BY Sizes DEF Init, TypeOK, AtQueue, Completion, NotYet
<1>2. QED BY <1>1, TypeStep, PTL DEF Spec

(***************************************************************************)
(* Interrupts                                                              *)
(***************************************************************************)
\* The conjunct of NoLostInterrupt for one queue.
Announced(k) == \/ handling[k] \/ irq[k] \/ ready[k]
                \/ \E w \in Workers : at[w] = k /\ pc[w] \in AtQueue

\* A step that leaves a queue's entries and reader alone, and takes nobody
\* away from it, keeps it announced.
LEMMA Kept ==
  ASSUME NEW k \in CQs, Unread(k) => Announced(k),
         Unread(k)' = Unread(k), handling[k] => handling'[k], irq[k] => irq'[k],
         ready[k] => ready'[k],
         \A w \in Workers : at[w] = k /\ pc[w] \in AtQueue
                              => at'[w] = k /\ pc'[w] \in AtQueue
  PROVE  Unread(k)' => Announced(k)'
BY DEF Announced

LEMMA AnnouncedStep ==
  ASSUME TypeOK, [Next]_vars, NEW k \in CQs, Unread(k) => Announced(k)
  PROVE  Unread(k)' => Announced(k)'
<1> USE Sizes, Homes
<1>1. CASE UNCHANGED vars
  BY <1>1, Kept DEF vars, host, cqs, wrk, Unread
<1>2. ASSUME NEW c \in Tags, Submit(c) \/ Copy(c) PROVE Unread(k)' => Announced(k)'
  BY <1>2, Kept DEF Submit, Copy, host, cqs, wrk, Unread
<1>3. ASSUME NEW q \in SQs, Ring(q) \/ BeginBatch(q) \/ Take(q)
      PROVE  Unread(k)' => Announced(k)'
  BY <1>3, Kept DEF Ring, BeginBatch, Take, host, cqs, wrk, Unread
<1>4. CASE Refuse
  BY <1>4, Kept DEF Refuse, host, cqs, wrk, Unread
<1>5. ASSUME NEW j \in CQs, TakeInterrupt(j) PROVE Unread(k)' => Announced(k)'
  <2>1. CASE j = k
    BY <1>5, <2>1 DEF TakeInterrupt, Announced, TypeOK
  <2>2. CASE j # k
    BY <1>5, <2>2, Kept DEF TakeInterrupt, cqs, wrk, Unread, TypeOK
  <2>3. QED BY <2>1, <2>2
<1>6. ASSUME NEW j \in CQs, Reap(j) PROVE Unread(k)' => Announced(k)'
  <2>1. CASE j = k
    BY <1>6, <2>1 DEF Reap, Announced
  <2>2. CASE j # k
    BY <1>6, <2>2, Kept DEF Reap, cqs, wrk, Unread, TypeOK
  <2>3. QED BY <2>1, <2>2
<1>7. ASSUME NEW j \in CQs, EndInterrupt(j) PROVE Unread(k)' => Announced(k)'
  <2>1. CASE j = k
    BY <1>7, <2>1 DEF EndInterrupt, Unread
  <2>2. CASE j # k
    BY <1>7, <2>2, Kept DEF EndInterrupt, cqs, wrk, Unread, TypeOK
  <2>3. QED BY <2>1, <2>2
<1>8. ASSUME NEW c \in Tags, Due(c) PROVE Unread(k)' => Announced(k)'
  BY <1>8, Kept DEF Due, host, cqs, Unread, TypeOK, AtQueue
<1>9. ASSUME NEW c \in Tags, Publish(c) PROVE Unread(k)' => Announced(k)'
  <2> DEFINE j == CqOf[SqOf[c]]
             w == WorkerOf(c)
  <2>1. CASE j = k
    BY <1>9, <2>1 DEF Publish, Announced, AtQueue, TypeOK
  <2>2. CASE j # k
    <3>1. cq'[k] = cq[k] /\ UNCHANGED <<hostHead, hostPhase, handling, irq, ready>>
      BY <1>9, <2>2 DEF Publish, host, TypeOK
    <3>2. \A v \in Workers : at[v] = k /\ pc[v] \in AtQueue
                               => at'[v] = k /\ pc'[v] \in AtQueue
      BY <1>9 DEF Publish, AtQueue, TypeOK
    <3>3. QED BY <3>1, <3>2, Kept DEF Unread
  <2>3. QED BY <2>1, <2>2
<1>10. ASSUME NEW w \in Workers, StoreResult(w) PROVE Unread(k)' => Announced(k)'
  <2>1. cq'[k][hostHead[k]].phase = cq[k][hostHead[k]].phase
    BY <1>10 DEF StoreResult, TypeOK, AtQueue, Completion
  <2>2. \A v \in Workers : at[v] = k /\ pc[v] \in AtQueue
                             => at'[v] = k /\ pc'[v] \in AtQueue
    BY <1>10 DEF StoreResult, AtQueue, TypeOK
  <2>3. QED BY <1>10, <2>1, <2>2, Kept DEF StoreResult, host, cqs, Unread
<1>11. ASSUME NEW w \in Workers, Release(w) PROVE Unread(k)' => Announced(k)'
  <2>1. CASE at[w] = k
    BY <1>11, <2>1 DEF Release, Announced, TypeOK
  <2>2. CASE at[w] # k
    <3>1. ready'[k] = ready[k] /\ UNCHANGED <<host, cq, irq>>
      BY <1>11, <2>2 DEF Release, TypeOK
    <3>2. \A v \in Workers : at[v] = k /\ pc[v] \in AtQueue
                               => at'[v] = k /\ pc'[v] \in AtQueue
      BY <1>11, <2>2 DEF Release, AtQueue, TypeOK
    <3>3. QED BY <3>1, <3>2, Kept DEF Unread, host
  <2>3. QED BY <2>1, <2>2
<1>12. ASSUME NEW w \in Workers, NEW j \in CQs, TestReady(w, j)
       PROVE  Unread(k)' => Announced(k)'
  BY <1>12, Kept DEF TestReady, host, cqs, Unread, AtQueue, TypeOK
<1>13. ASSUME NEW w \in Workers, ClearReady(w) PROVE Unread(k)' => Announced(k)'
  <2>1. CASE at[w] = k
    BY <1>13, <2>1 DEF ClearReady, Announced, AtQueue, TypeOK
  <2>2. CASE at[w] # k
    <3>1. ready'[k] = ready[k] /\ UNCHANGED <<host, cq, irq, at>>
      BY <1>13, <2>2 DEF ClearReady, TypeOK
    <3>2. \A v \in Workers : pc[v] \in AtQueue => pc'[v] \in AtQueue
      BY <1>13 DEF ClearReady, AtQueue, TypeOK
    <3>3. QED BY <3>1, <3>2, Kept DEF Unread, host
  <2>3. QED BY <2>1, <2>2
<1>14. ASSUME NEW w \in Workers, Signal(w) PROVE Unread(k)' => Announced(k)'
  <2>1. CASE at[w] = k
    BY <1>14, <2>1 DEF Signal, Announced, TypeOK
  <2>2. CASE at[w] # k
    <3>1. irq'[k] = irq[k] /\ UNCHANGED <<host, cq, cqs>>
      BY <1>14, <2>2 DEF Signal, TypeOK
    <3>2. \A v \in Workers : at[v] = k /\ pc[v] \in AtQueue
                               => at'[v] = k /\ pc'[v] \in AtQueue
      BY <1>14, <2>2 DEF Signal, AtQueue, TypeOK
    <3>3. QED BY <3>1, <3>2, Kept DEF Unread, host, cqs
  <2>3. QED BY <2>1, <2>2
<1>15. QED
  BY <1>1, <1>2, <1>3, <1>4, <1>5, <1>6, <1>7, <1>8, <1>9, <1>10, <1>11, <1>12, <1>13, <1>14
     DEF Next, Host, Dispatcher, WorkerStep, HandOver

\* No interrupt is lost: interrupt_ready is cleared before the interrupt is
\* sent, so a completion posted between its test and its clearing is
\* announced by the interrupt that follows (io.c, nvmev_io_worker), whatever
\* the number of workers that post to the queue.
THEOREM InterruptsNotLost == Spec => []NoLostInterrupt
<1> DEFINE Inv == TypeOK /\ \A k \in CQs : Unread(k) => Announced(k)
<1>1. Init => Inv
  <2>1. Init => TypeOK
    BY Sizes DEF Init, TypeOK, AtQueue, Completion, NotYet
  <2>2. Init => \A k \in CQs : ~Unread(k)
    BY Sizes DEF Init, Unread
  <2>3. QED BY <2>1, <2>2
<1>2. Inv /\ [Next]_vars => Inv'
  BY TypeStep, AnnouncedStep
<1>3. Inv => NoLostInterrupt
  BY DEF NoLostInterrupt, Announced
<1>4. QED BY <1>1, <1>2, <1>3, PTL DEF Spec

(***************************************************************************)
(* The path of a command.  No command is in two places, so a queue never   *)
(* holds more than its commands, and the ring buffers do not overflow.     *)
(***************************************************************************)
Elems(x)    == {x[i] : i \in 1 .. Len(x)}
Distinct(x) == \A i, j \in 1 .. Len(x) : x[i] = x[j] => i = j

LEMMA ElemsAppend ==
  ASSUME NEW x \in Seq(Tags), NEW c \in Tags, c \notin Elems(x), Distinct(x)
  PROVE  Elems(Append(x, c)) = Elems(x) \cup {c} /\ Distinct(Append(x, c))
<1> DEFINE y == Append(x, c)
           n == Len(x)
<1>1. n \in Nat /\ Len(y) = n + 1 /\ y[n + 1] = c /\ \A i \in 1 .. n : y[i] = x[i]
  OBVIOUS
<1>2. \A i \in 1 .. n : x[i] # c BY DEF Elems
<1> HIDE DEF y, n
<1>3. \A i \in 1 .. n + 1 : i \in 1 .. n \/ i = n + 1 BY <1>1
<1>4. \A i \in 1 .. n : i \in 1 .. n + 1 BY <1>1
<1>5. n + 1 \in 1 .. n + 1 BY <1>1
<1>6. Elems(y) = Elems(x) \cup {c}
  <2>1. Elems(y) = {y[i] : i \in 1 .. n + 1} /\ Elems(x) = {x[i] : i \in 1 .. n}
    BY <1>1 DEF Elems, n
  <2>2. QED BY <1>1, <1>3, <1>4, <1>5, <2>1
<1>7. Distinct(y)
  <2>1. \A i, j \in 1 .. n : x[i] = x[j] => i = j BY DEF Distinct, n
  <2>2. \A i, j \in 1 .. n + 1 : y[i] = y[j] => i = j BY <1>1, <1>2, <1>3, <2>1
  <2>3. QED BY <1>1, <2>2 DEF Distinct
<1>8. QED BY <1>6, <1>7 DEF y

LEMMA ElemsTail ==
  ASSUME NEW x \in Seq(Tags), x # <<>>, Distinct(x)
  PROVE  /\ Head(x) \in Elems(x) /\ Head(x) \in Tags /\ Tail(x) \in Seq(Tags)
         /\ Elems(Tail(x)) = Elems(x) \ {Head(x)} /\ Distinct(Tail(x))
<1> DEFINE y == Tail(x)
           n == Len(x)
<1>1. /\ n \in Nat \ {0} /\ Len(y) = n - 1 /\ Head(x) = x[1] /\ y \in Seq(Tags)
      /\ x[1] \in Tags
      /\ \A i \in 1 .. n - 1 : y[i] = x[i + 1]
  OBVIOUS
<1>2. \A i, j \in 1 .. n : x[i] = x[j] => i = j BY DEF Distinct
<1>3. Elems(y) = {y[i] : i \in 1 .. n - 1} /\ Elems(x) = {x[i] : i \in 1 .. n}
  BY <1>1 DEF Elems
<1> HIDE DEF y, n
<1>4. \A i \in 1 .. n - 1 : i + 1 \in 1 .. n /\ i + 1 # 1 BY <1>1
<1>5. \A i \in 1 .. n : i = 1 \/ (i - 1 \in 1 .. n - 1 /\ (i - 1) + 1 = i) BY <1>1
<1>6. 1 \in 1 .. n BY <1>1
<1>7. Elems(y) \subseteq Elems(x) \ {x[1]}
  <2>1. \A i \in 1 .. n - 1 : y[i] = x[i + 1] /\ x[i + 1] # x[1] /\ x[i + 1] \in Elems(x)
    BY <1>1, <1>2, <1>3, <1>4, <1>6
  <2>2. QED BY <1>3, <2>1
<1>8. Elems(x) \ {x[1]} \subseteq Elems(y)
  <2>1. SUFFICES ASSUME NEW i \in 1 .. n, x[i] # x[1] PROVE x[i] \in Elems(y)
    BY <1>3
  <2>2. i - 1 \in 1 .. n - 1 /\ (i - 1) + 1 = i BY <1>5, <2>1
  <2>3. y[i - 1] = x[i] BY <1>1, <2>2
  <2>4. QED BY <1>3, <2>2, <2>3
<1>9. Distinct(y)
  <2>1. SUFFICES ASSUME NEW i \in 1 .. n - 1, NEW j \in 1 .. n - 1, y[i] = y[j]
                 PROVE  i = j
    BY <1>1 DEF Distinct
  <2>2. x[i + 1] = x[j + 1] BY <1>1, <2>1
  <2>3. i + 1 = j + 1 BY <1>2, <1>4, <2>2
  <2>4. QED BY <2>3
<1>10. x[1] \in Elems(x) BY <1>3, <1>6
<1>11. QED BY <1>1, <1>7, <1>8, <1>9, <1>10 DEF y

\* A sequence without repetition is not longer than what it is made of.
LEMMA DistinctShort ==
  ASSUME NEW x \in Seq(Tags), Distinct(x), NEW S, IsFiniteSet(S), NEW c \in S,
         Elems(x) \subseteq S \ {c}
  PROVE  Len(x) < Cardinality(S)
<1> DEFINE T == S \ {c}
           D == 1 .. Len(x)
<1>1. IsFiniteSet(T) /\ Cardinality(T) = Cardinality(S) - 1 /\ Cardinality(S) \in Nat
  BY FS_RemoveElement, FS_CardinalityType
<1>2. Len(x) \in Nat /\ x \in [D -> Tags] OBVIOUS
<1>3. IsFiniteSet(D) /\ Cardinality(D) = Len(x) BY <1>2, FS_Interval
<1>4. x \in [D -> T]
  <2>1. \A i \in D : x[i] \in T BY DEF Elems
  <2>2. QED BY <1>2, <2>1
<1>5. ~ \E i, j \in D : i # j /\ x[i] = x[j] BY DEF Distinct
<1> HIDE DEF T, D
<1>6. ~(Cardinality(T) < Cardinality(D)) BY <1>1, <1>3, <1>4, <1>5, FS_PigeonHole
<1>7. QED BY <1>1, <1>2, <1>3, <1>6

\* A command that is in use is in one place at most: once in its submission
\* queue, inside the device, or once in its completion queue.
Once(b, s, i, d) ==
  /\ b \subseteq Tags /\ i \subseteq b
  /\ s \in [SQs -> Seq(Tags)] /\ d \in [CQs -> Seq(Tags)]
  /\ \A q \in SQs : Distinct(s[q]) /\ Elems(s[q]) \subseteq (b \ i) \cap TagsOf(q)
  /\ \A k \in CQs : Distinct(d[k]) /\ Elems(d[k]) \subseteq (b \ i) \cap CqTags(k)
  /\ \A q \in SQs, k \in CQs : Elems(s[q]) \cap Elems(d[k]) = {}

LEMMA OnceSubmit ==
  ASSUME NEW b, NEW s, NEW i, NEW d, Once(b, s, i, d), NEW c \in Tags, c \notin b
  PROVE  /\ Once(b \cup {c}, [s EXCEPT ![SqOf[c]] = Append(@, c)], i, d)
         /\ Len(s[SqOf[c]]) < Cardinality(TagsOf(SqOf[c]))
<1> DEFINE p == SqOf[c]
           t == [s EXCEPT ![p] = Append(@, c)]
<1>1. p \in SQs /\ s[p] \in Seq(Tags) /\ Distinct(s[p]) /\ c \notin Elems(s[p])
      /\ c \in TagsOf(p)
  BY Homes DEF Once, TagsOf
<1>2. Elems(Append(s[p], c)) = Elems(s[p]) \cup {c} /\ Distinct(Append(s[p], c))
      /\ Append(s[p], c) \in Seq(Tags)
  BY <1>1, ElemsAppend
<1>3. t \in [SQs -> Seq(Tags)] /\ t[p] = Append(s[p], c)
      /\ \A q \in SQs : q # p => t[q] = s[q]
  BY <1>1, <1>2 DEF Once
<1>4. \A k \in CQs : c \notin Elems(d[k]) BY DEF Once
<1> HIDE DEF t, p
<1>5. ASSUME NEW q \in SQs
      PROVE  Distinct(t[q]) /\ Elems(t[q]) \subseteq ((b \cup {c}) \ i) \cap TagsOf(q)
  <2>1. Distinct(s[q]) /\ Elems(s[q]) \subseteq (b \ i) \cap TagsOf(q) /\ i \subseteq b
    BY DEF Once
  <2>2. CASE q = p
    <3>1. Distinct(t[q]) /\ Elems(t[q]) = Elems(s[q]) \cup {c} BY <1>2, <1>3, <2>2
    <3>2. c \in TagsOf(q) BY <1>1, <2>2
    <3>3. QED BY <2>1, <3>1, <3>2
  <2>3. CASE q # p BY <1>3, <2>1, <2>3
  <2>4. QED BY <2>2, <2>3
<1>6. Once(b \cup {c}, t, i, d)
  <2>1. /\ b \cup {c} \subseteq Tags /\ i \subseteq b \cup {c}
        /\ d \in [CQs -> Seq(Tags)]
    BY DEF Once
  <2>2. \A k \in CQs : Distinct(d[k]) /\ Elems(d[k]) \subseteq ((b \cup {c}) \ i) \cap CqTags(k)
    BY DEF Once
  <2>3. ASSUME NEW q \in SQs, NEW k \in CQs PROVE Elems(t[q]) \cap Elems(d[k]) = {}
    <3>1. Elems(s[q]) \cap Elems(d[k]) = {} /\ c \notin Elems(d[k]) BY <1>4 DEF Once
    <3>2. CASE q = p
      <4>1. Elems(t[q]) = Elems(s[q]) \cup {c} BY <1>2, <1>3, <3>2
      <4>2. QED BY <3>1, <4>1
    <3>3. CASE q # p BY <1>3, <3>1, <3>3
    <3>4. QED BY <3>2, <3>3
  <2>4. QED BY <1>3, <1>5, <2>1, <2>2, <2>3 DEF Once
<1>7. Len(s[p]) < Cardinality(TagsOf(p))
  <2>1. IsFiniteSet(TagsOf(p)) BY QueuesAssumption, FS_Subset DEF TagsOf
  <2>2. Elems(s[p]) \subseteq TagsOf(p) \ {c} BY <1>1 DEF Once
  <2>3. QED BY <1>1, <2>1, <2>2, DistinctShort
<1>8. QED BY <1>6, <1>7 DEF t, p

LEMMA OnceTake ==
  ASSUME NEW b, NEW s, NEW i, NEW d, Once(b, s, i, d), NEW p \in SQs, s[p] # <<>>
  PROVE  /\ Once(b, [s EXCEPT ![p] = Tail(@)], i \cup {Head(s[p])}, d)
         /\ Head(s[p]) \in b \ i
<1> DEFINE t == [s EXCEPT ![p] = Tail(@)]
           h == Head(s[p])
<1>1. s[p] \in Seq(Tags) /\ Distinct(s[p]) BY DEF Once
<1>2. /\ h \in Elems(s[p]) /\ h \in Tags /\ Tail(s[p]) \in Seq(Tags)
      /\ Elems(Tail(s[p])) = Elems(s[p]) \ {h} /\ Distinct(Tail(s[p]))
  BY <1>1, ElemsTail
<1>3. t \in [SQs -> Seq(Tags)] /\ t[p] = Tail(s[p]) /\ \A q \in SQs : q # p => t[q] = s[q]
  BY <1>2 DEF Once
<1>4. h \in b \ i /\ \A q \in SQs : q # p => h \notin Elems(s[q])
  BY <1>2 DEF Once, TagsOf
<1>5. \A k \in CQs : h \notin Elems(d[k]) BY <1>2 DEF Once
<1> HIDE DEF t, h
<1>6. \A q \in SQs : Distinct(t[q]) /\ Elems(t[q]) \subseteq Elems(s[q]) /\ h \notin Elems(t[q])
  BY <1>2, <1>3, <1>4 DEF Once
<1>7. Once(b, t, i \cup {h}, d) BY <1>3, <1>4, <1>5, <1>6 DEF Once
<1>8. QED BY <1>4, <1>7 DEF t, h

LEMMA OnceComplete ==
  ASSUME NEW b, NEW s, NEW i, NEW d, Once(b, s, i, d), NEW c \in i
  PROVE  /\ Once(b, s, i \ {c}, [d EXCEPT ![CqOf[SqOf[c]]] = Append(@, c)])
         /\ Len(d[CqOf[SqOf[c]]]) < Cardinality(CqTags(CqOf[SqOf[c]]))
<1> DEFINE p == CqOf[SqOf[c]]
           t == [d EXCEPT ![p] = Append(@, c)]
<1>1. c \in Tags /\ c \in b BY DEF Once
<1>2. p \in CQs /\ d[p] \in Seq(Tags) /\ Distinct(d[p]) /\ c \notin Elems(d[p])
      /\ c \in CqTags(p)
  BY <1>1, Homes DEF Once, CqTags
<1>3. Elems(Append(d[p], c)) = Elems(d[p]) \cup {c} /\ Distinct(Append(d[p], c))
      /\ Append(d[p], c) \in Seq(Tags)
  BY <1>1, <1>2, ElemsAppend
<1>4. t \in [CQs -> Seq(Tags)] /\ t[p] = Append(d[p], c)
      /\ \A k \in CQs : k # p => t[k] = d[k]
  BY <1>2, <1>3 DEF Once
<1>5. \A q \in SQs : c \notin Elems(s[q]) BY DEF Once
<1> HIDE DEF t, p
<1>6. ASSUME NEW k \in CQs
      PROVE  Distinct(t[k]) /\ Elems(t[k]) \subseteq (b \ (i \ {c})) \cap CqTags(k)
  <2>1. Distinct(d[k]) /\ Elems(d[k]) \subseteq (b \ i) \cap CqTags(k)
    BY DEF Once
  <2>2. CASE k = p
    <3>1. Distinct(t[k]) /\ Elems(t[k]) = Elems(d[k]) \cup {c} BY <1>3, <1>4, <2>2
    <3>2. c \in CqTags(k) BY <1>2, <2>2
    <3>3. QED BY <1>1, <2>1, <3>1, <3>2
  <2>3. CASE k # p BY <1>4, <2>1, <2>3
  <2>4. QED BY <2>2, <2>3
<1>7. Once(b, s, i \ {c}, t)
  <2>1. \A q \in SQs : Elems(s[q]) \subseteq (b \ (i \ {c})) \cap TagsOf(q)
    BY DEF Once
  <2>2. ASSUME NEW q \in SQs, NEW k \in CQs PROVE Elems(s[q]) \cap Elems(t[k]) = {}
    <3>1. Elems(s[q]) \cap Elems(d[k]) = {} /\ c \notin Elems(s[q]) BY <1>5 DEF Once
    <3>2. CASE k = p
      <4>1. Elems(t[k]) = Elems(d[k]) \cup {c} BY <1>3, <1>4, <3>2
      <4>2. QED BY <3>1, <4>1
    <3>3. CASE k # p BY <1>4, <3>1, <3>3
    <3>4. QED BY <3>2, <3>3
  <2>3. QED BY <1>4, <1>6, <2>1, <2>2 DEF Once
<1>8. Len(d[p]) < Cardinality(CqTags(p))
  <2>1. IsFiniteSet(CqTags(p)) BY QueuesAssumption, FS_Subset DEF CqTags
  <2>2. Elems(d[p]) \subseteq CqTags(p) \ {c} BY <1>2 DEF Once
  <2>3. QED BY <1>2, <2>1, <2>2, DistinctShort
<1>9. QED BY <1>7, <1>8 DEF t, p

LEMMA OnceLearn ==
  ASSUME NEW b, NEW s, NEW i, NEW d, Once(b, s, i, d), NEW p \in CQs, d[p] # <<>>
  PROVE  Once(b \ {Head(d[p])}, s, i, [d EXCEPT ![p] = Tail(@)])
<1> DEFINE t == [d EXCEPT ![p] = Tail(@)]
           h == Head(d[p])
<1>1. d[p] \in Seq(Tags) /\ Distinct(d[p]) BY DEF Once
<1>2. /\ h \in Elems(d[p]) /\ h \in Tags /\ Tail(d[p]) \in Seq(Tags)
      /\ Elems(Tail(d[p])) = Elems(d[p]) \ {h} /\ Distinct(Tail(d[p]))
  BY <1>1, ElemsTail
<1>3. t \in [CQs -> Seq(Tags)] /\ t[p] = Tail(d[p]) /\ \A k \in CQs : k # p => t[k] = d[k]
  BY <1>2 DEF Once
<1>4. h \notin i /\ \A k \in CQs : k # p => h \notin Elems(d[k])
  BY <1>2 DEF Once, CqTags
<1>5. \A q \in SQs : h \notin Elems(s[q]) BY <1>2 DEF Once
<1> HIDE DEF t, h
<1>6. \A k \in CQs : Distinct(t[k]) /\ Elems(t[k]) \subseteq Elems(d[k]) /\ h \notin Elems(t[k])
  BY <1>2, <1>3, <1>4 DEF Once
<1>7. Once(b \ {h}, s, i, t) BY <1>3, <1>4, <1>5, <1>6 DEF Once
<1>8. QED BY <1>7 DEF t, h

Sents  == [q \in SQs |-> Sent(q)]
Inside == {c \in Tags : stage[c] # "none"}
Dones  == [k \in CQs |-> Done(k)]

\* The dispatcher is not ahead of the doorbell, nor the doorbell of the host,
\* and the rest of a batch was announced.
AheadInv ==
  /\ \A q \in SQs : RingCount(oldDbs[q], dbs[q], SqSize) <= SqCount(q)
  /\ batch # NotYet => batch.left <= RingCount(oldDbs[batch.sq], dbs[batch.sq], SqSize)

\* One worker posts to a completion queue at a time, the holder of its lock.
Posts == {"result", "release"}

LockInv ==
  /\ \A w \in Workers : pc[w] \in Posts => lock[at[w]] = w
  /\ \A k \in CQs : lock[k] # Unlocked => pc[lock[k]] \in Posts /\ at[lock[k]] = k

\* Where the entries of a completion queue end, the one being posted included,
\* and the phase of the entries before that.
End(k)      == IF lock[k] = Unlocked THEN cqHead[k] ELSE RingNext(cqHead[k], CqSize)
EndPhase(k) == IF lock[k] # Unlocked /\ cqHead[k] + 1 = CqSize THEN 1 - phase[k] ELSE phase[k]

\* The phase bits tell the entries of this round from those of the last, and
\* the host is in this round or, beyond the end, still in the last.
PhaseInv(k) ==
  /\ \A i \in CqSlots : cq[k][i].phase = IF i < End(k) THEN EndPhase(k) ELSE 1 - EndPhase(k)
  /\ hostPhase[k] = IF hostHead[k] <= End(k) THEN EndPhase(k) ELSE 1 - EndPhase(k)

PathInv == /\ TypeOK /\ Once(busy, Sents, Inside, Dones)
           /\ AheadInv /\ LockInv /\ \A k \in CQs : PhaseInv(k)

LEMMA LockStep ==
  ASSUME TypeOK, LockInv, [Next]_vars
  PROVE  LockInv'
<1> USE Sizes, Homes DEF Posts
<1>1. CASE UNCHANGED vars
  BY <1>1 DEF LockInv, vars, cqs, wrk
<1>2. CASE Host \/ Dispatcher \/ \E c \in Tags : Copy(c)
  <2>1. UNCHANGED <<cqs, wrk>>
    BY <1>2 DEF Host, Dispatcher, Submit, Ring, TakeInterrupt, Reap, EndInterrupt, Refuse,
                BeginBatch, Take, Copy
  <2>2. QED BY <2>1 DEF LockInv, cqs, wrk
<1>3. ASSUME NEW c \in Tags, Due(c) PROVE LockInv'
  BY <1>3 DEF Due, LockInv, TypeOK, cqs
<1>4. ASSUME NEW c \in Tags, Publish(c) PROVE LockInv'
  <2>1. Unlocked \notin Workers BY QueuesAssumption DEF Unlocked, Workers
  <2>2. ASSUME NEW w \in Workers, pc'[w] \in {"result", "release"} PROVE lock'[at'[w]] = w
    <3>1. CASE w = WorkerOf(c) BY <1>4, <3>1 DEF Publish, TypeOK
    <3>2. CASE w # WorkerOf(c)
      <4>1. pc[w] \in {"result", "release"} /\ at'[w] = at[w] BY <1>4, <2>2, <3>2 DEF Publish, TypeOK
      <4>2. lock[at[w]] = w BY <4>1 DEF LockInv
      <4>3. at[w] # CqOf[SqOf[c]] BY <1>4, <2>1, <4>2 DEF Publish
      <4>4. QED BY <1>4, <4>1, <4>2, <4>3 DEF Publish, TypeOK, AtQueue
    <3>3. QED BY <3>1, <3>2
  <2>3. ASSUME NEW k \in CQs, lock'[k] # Unlocked
        PROVE  pc'[lock'[k]] \in {"result", "release"} /\ at'[lock'[k]] = k
    <3>1. CASE k = CqOf[SqOf[c]] BY <1>4, <3>1 DEF Publish, TypeOK
    <3>2. CASE k # CqOf[SqOf[c]]
      <4>1. lock'[k] = lock[k] BY <1>4, <3>2 DEF Publish, TypeOK
      <4>2. /\ pc[lock[k]] \in {"result", "release"} /\ at[lock[k]] = k
            /\ lock[k] \in Workers
        BY <2>3, <4>1 DEF LockInv, TypeOK
      <4>3. lock[k] # WorkerOf(c) BY <1>4, <4>2 DEF Publish
      <4>4. QED BY <1>4, <4>1, <4>2, <4>3 DEF Publish, TypeOK
    <3>3. QED BY <3>1, <3>2
  <2>4. QED BY <2>2, <2>3 DEF LockInv
<1>5. ASSUME NEW w \in Workers, StoreResult(w) PROVE LockInv'
  BY <1>5 DEF StoreResult, LockInv, TypeOK, cqs
<1>6. ASSUME NEW w \in Workers, Release(w) PROVE LockInv'
  <2>1. at[w] \in CQs /\ lock[at[w]] = w BY <1>6 DEF Release, LockInv, TypeOK, AtQueue
  <2>2. ASSUME NEW v \in Workers, pc'[v] \in {"result", "release"} PROVE lock'[at'[v]] = v
    <3>1. v # w /\ pc[v] \in {"result", "release"} /\ at'[v] = at[v]
      BY <1>6, <2>2 DEF Release, TypeOK
    <3>2. lock[at[v]] = v /\ at[v] \in CQs BY <3>1 DEF LockInv, TypeOK, AtQueue
    <3>3. at[v] # at[w] BY <2>1, <3>1, <3>2
    <3>4. QED BY <1>6, <3>1, <3>2, <3>3 DEF Release, TypeOK
  <2>3. ASSUME NEW k \in CQs, lock'[k] # Unlocked
        PROVE  pc'[lock'[k]] \in {"result", "release"} /\ at'[lock'[k]] = k
    <3>1. k # at[w] BY <1>6, <2>1, <2>3 DEF Release, TypeOK
    <3>2. lock'[k] = lock[k] BY <1>6, <3>1 DEF Release, TypeOK
    <3>3. /\ pc[lock[k]] \in {"result", "release"} /\ at[lock[k]] = k
          /\ lock[k] \in Workers
      BY <2>3, <3>2 DEF LockInv, TypeOK
    <3>4. lock[k] # w BY <3>1, <3>3
    <3>5. QED BY <1>6, <3>2, <3>3, <3>4 DEF Release, TypeOK
  <2>4. QED BY <2>2, <2>3 DEF LockInv
<1>7. ASSUME NEW w \in Workers, HandOver(w) \/ \E k \in CQs : TestReady(w, k) PROVE LockInv'
  <2>1. /\ pc[w] \notin {"result", "release"} /\ UNCHANGED lock
        /\ \E p : p \notin {"result", "release"} /\ pc' = [pc EXCEPT ![w] = p]
        /\ \A v \in Workers : v # w => at'[v] = at[v]
    BY <1>7 DEF HandOver, ClearReady, Signal, TestReady, TypeOK, cqs
  <2>2. QED BY <2>1 DEF LockInv, TypeOK
<1>8. QED
  BY <1>1, <1>2, <1>3, <1>4, <1>5, <1>6, <1>7 DEF Next, WorkerStep

LEMMA EndIn ==
  ASSUME TypeOK, NEW k \in CQs
  PROVE  /\ CqSize \in Nat \ {0} /\ CqSlots = 0 .. CqSize - 1
         /\ cqHead[k] \in CqSlots /\ hostHead[k] \in CqSlots /\ End(k) \in CqSlots
         /\ EndPhase(k) \in {0, 1}
<1>1. CqSize \in Nat \ {0} /\ CqSlots = 0 .. CqSize - 1
  BY QueuesAssumption DEF CqSlots
<1>2. cqHead[k] \in CqSlots /\ hostHead[k] \in CqSlots /\ phase[k] \in {0, 1}
  BY DEF TypeOK
<1>3. RingNext(cqHead[k], CqSize) \in CqSlots BY <1>1, <1>2, RingIn
<1>4. EndPhase(k) \in {0, 1} BY <1>2 DEF EndPhase
<1>5. QED BY <1>1, <1>2, <1>3, <1>4 DEF End

\* The number of completions, one that is being posted included.
LEMMA CountWithOneMore ==
  ASSUME NEW n \in Nat \ {0}, NEW g \in 0 .. n - 1, NEW h \in 0 .. n - 1
  PROVE  (h + 1 + n - g) % n = RingCount(g, RingNext(h, n), n)
<1> DEFINE u == RingNext(h, n)
           a == h + 1 + n - g
<1>1. u \in 0 .. n - 1 /\ u = IF h + 1 = n THEN 0 ELSE h + 1 BY DEF RingNext
<1>2. a \in Nat /\ a = h + 1 + n - g OBVIOUS
<1> HIDE DEF u, a
<1>3. RingCount(g, u, n) = IF g <= u THEN u - g ELSE u + n - g
  <2>1. \A x \in 0 .. n - 1 : RingCount(g, x, n) = IF g <= x THEN x - g ELSE x + n - g
    BY RingIn
  <2>2. QED BY <1>1, <2>1
<1>4. CASE a < n + n
  <2>1. a % n = IF a < n THEN a ELSE a - n BY <1>2, <1>4, SmallRemainder
  <2>2. QED BY <1>1, <1>2, <1>3, <2>1 DEF u, a
<1>5. CASE ~(a < n + n)
  <2>1. a = n + n /\ g = 0 /\ h + 1 = n BY <1>2, <1>5
  <2>2. (2 * n + 0) % n = 0 BY DivisionOnly
  <2>3. a = 2 * n + 0 BY <2>1
  <2>4. a % n = 0 BY <2>2, <2>3
  <2>5. RingCount(g, u, n) = 0 BY <1>1, <1>3, <2>1
  <2>6. QED BY <2>4, <2>5 DEF u, a
<1>6. QED BY <1>4, <1>5

TagsIn(k) == [i \in CqSlots |-> cq[k][i].tag]

\* What is submitted and what is done, as windows of their rings.
LEMMA SentIs ==
  ASSUME TypeOK, NEW q \in SQs
  PROVE  /\ SqSize \in Nat \ {0} /\ SqSlots = 0 .. SqSize - 1
         /\ oldDbs[q] \in SqSlots /\ tail[q] \in SqSlots /\ dbs[q] \in SqSlots
         /\ SqCount(q) = RingCount(oldDbs[q], tail[q], SqSize)
         /\ Sent(q) = RingWindow(sq[q], oldDbs[q], tail[q], SqSize)
         /\ Len(Sent(q)) = SqCount(q)
<1>1. /\ SqSize \in Nat \ {0} /\ SqSlots = 0 .. SqSize - 1
      /\ oldDbs[q] \in SqSlots /\ tail[q] \in SqSlots /\ dbs[q] \in SqSlots
      /\ sq[q] \in [SqSlots -> Tags \cup {NoTag}]
  BY QueuesAssumption DEF TypeOK, SqSlots
<1>2. SqCount(q) = RingCount(oldDbs[q], tail[q], SqSize) BY DEF SqCount, RingCount
<1>3. Sent(q) = RingWindow(sq[q], oldDbs[q], tail[q], SqSize)
  BY <1>2 DEF Sent, RingWindow, RingAt
<1>4. Len(RingWindow(sq[q], oldDbs[q], tail[q], SqSize)) = RingCount(oldDbs[q], tail[q], SqSize)
  BY <1>1, WindowIn
<1>5. QED BY <1>1, <1>2, <1>3, <1>4

LEMMA DoneIs ==
  ASSUME TypeOK, LockInv, NEW k \in CQs
  PROVE  /\ CqCount(k) = RingCount(hostHead[k], End(k), CqSize)
         /\ Done(k) = RingWindow(TagsIn(k), hostHead[k], End(k), CqSize)
         /\ TagsIn(k) \in [CqSlots -> Tags \cup {NoTag}]
         /\ Len(Done(k)) = CqCount(k)
<1>1. Unlocked \notin Workers BY QueuesAssumption DEF Unlocked, Workers
<1>2. CqCount(k) = RingCount(hostHead[k], End(k), CqSize)
  <2>1. CASE lock[k] = Unlocked
    <3>1. Posting(k) = {} BY <1>1, <2>1 DEF Posting, LockInv, Posts
    <3>2. Cardinality(Posting(k)) = 0 BY <3>1, FS_EmptySet
    <3>3. cqHead[k] + 0 + CqSize - hostHead[k] = cqHead[k] + CqSize - hostHead[k]
      BY EndIn
    <3>4. QED BY <2>1, <3>2, <3>3 DEF CqCount, RingCount, End
  <2>2. CASE lock[k] # Unlocked
    <3>1. Posting(k) = {lock[k]} BY <2>2 DEF Posting, LockInv, Posts, TypeOK
    <3>2. Cardinality(Posting(k)) = 1 BY <3>1, FS_Singleton
    <3>3. (cqHead[k] + 1 + CqSize - hostHead[k]) % CqSize
            = RingCount(hostHead[k], RingNext(cqHead[k], CqSize), CqSize)
      BY EndIn, CountWithOneMore
    <3>4. QED BY <2>2, <3>2, <3>3 DEF CqCount, End
  <2>3. QED BY <2>1, <2>2
<1>3. TagsIn(k) \in [CqSlots -> Tags \cup {NoTag}] BY DEF TagsIn, TypeOK, Completion
<1>4. Done(k) = RingWindow(TagsIn(k), hostHead[k], End(k), CqSize)
  <2>1. ASSUME NEW i \in 1 .. CqCount(k)
        PROVE  cq[k][(hostHead[k] + i - 1) % CqSize].tag = TagsIn(k)[RingAt(hostHead[k], i, CqSize)]
    <3>1. RingCount(hostHead[k], End(k), CqSize) \in 0 .. CqSize - 1 BY EndIn, RingIn
    <3>2. i \in 1 .. CqSize BY <1>2, <3>1, EndIn
    <3>3. RingAt(hostHead[k], i, CqSize) \in CqSlots BY <3>2, EndIn, RingAtIn
    <3>4. QED BY <3>3 DEF TagsIn, RingAt
  <2>2. QED BY <1>2, <2>1 DEF Done, RingWindow
<1>5. Len(RingWindow(TagsIn(k), hostHead[k], End(k), CqSize)) = RingCount(hostHead[k], End(k), CqSize)
  BY <1>3, EndIn, WindowIn
<1>6. QED BY <1>2, <1>3, <1>4, <1>5

\* The same of the state before and after a step.
WindowsInv ==
  /\ \A q \in SQs : /\ Sent(q) = RingWindow(sq[q], oldDbs[q], tail[q], SqSize)
                    /\ SqCount(q) = RingCount(oldDbs[q], tail[q], SqSize)
  /\ \A k \in CQs : Done(k) = RingWindow(TagsIn(k), hostHead[k], End(k), CqSize)

LEMMA Windows == TypeOK /\ LockInv => WindowsInv
BY SentIs, DoneIs DEF WindowsInv

LEMMA WindowsAfter ==
  ASSUME TypeOK, LockInv, [Next]_vars
  PROVE  TypeOK' /\ LockInv' /\ WindowsInv'
<1>1. TypeOK' /\ LockInv' BY TypeStep, LockStep
<1>2. TypeOK' /\ LockInv' => WindowsInv' BY Windows, PTL
<1>3. QED BY <1>1, <1>2

\* The queues of the host's commands have room for one more.
LEMMA SqRoom ==
  ASSUME TypeOK, Once(busy, Sents, Inside, Dones), NEW c \in Tags, c \notin busy
  PROVE  SqCount(SqOf[c]) # SqSize - 1
<1> DEFINE q == SqOf[c]
<1>1. q \in SQs BY Homes
<1>2. Len(Sents[q]) < Cardinality(TagsOf(q)) BY OnceSubmit
<1>3. Sents[q] = Sent(q) /\ Len(Sent(q)) = SqCount(q) BY <1>1, SentIs DEF Sents
<1>4. IsFiniteSet(TagsOf(q)) BY QueuesAssumption, FS_Subset DEF TagsOf
<1>5. Cardinality(TagsOf(q)) \in Nat /\ Cardinality(TagsOf(q)) < SqSize
  BY <1>1, <1>4, HostAssumption, FS_CardinalityType
<1>6. SqCount(q) \in Int /\ SqSize \in Nat
  <2>1. RingCount(oldDbs[q], tail[q], SqSize) \in 0 .. SqSize - 1 BY <1>1, SentIs, RingIn
  <2>2. QED BY <1>1, <2>1, SentIs
<1> HIDE DEF q
<1>7. SqCount(q) # SqSize - 1 BY <1>2, <1>3, <1>5, <1>6
<1>8. QED BY <1>7 DEF q

LEMMA CqRoom ==
  ASSUME TypeOK, LockInv, Once(busy, Sents, Inside, Dones), NEW c \in Tags, c \in Inside
  PROVE  RingCount(hostHead[CqOf[SqOf[c]]], End(CqOf[SqOf[c]]), CqSize) # CqSize - 1
<1> DEFINE k == CqOf[SqOf[c]]
<1>1. k \in CQs BY Homes
<1>2. Len(Dones[k]) < Cardinality(CqTags(k)) BY OnceComplete
<1>3. Dones[k] = Done(k) /\ Len(Done(k)) = RingCount(hostHead[k], End(k), CqSize)
  BY <1>1, DoneIs DEF Dones
<1>4. IsFiniteSet(CqTags(k)) BY QueuesAssumption, FS_Subset DEF CqTags
<1>5. Cardinality(CqTags(k)) \in Nat /\ Cardinality(CqTags(k)) < CqSize
  BY <1>1, <1>4, HostAssumption, FS_CardinalityType
<1>6. RingCount(hostHead[k], End(k), CqSize) \in 0 .. CqSize - 1 /\ CqSize \in Nat
  BY <1>1, EndIn, RingIn
<1> HIDE DEF k
<1>7. RingCount(hostHead[k], End(k), CqSize) # CqSize - 1 BY <1>2, <1>3, <1>5, <1>6
<1>8. QED BY <1>7 DEF k

\* The host finds an entry to read exactly when there is one.
LEMMA UnreadIs ==
  ASSUME TypeOK, NEW k \in CQs, PhaseInv(k)
  PROVE  Unread(k) <=> hostHead[k] # End(k)
<1>1. /\ hostHead[k] \in CqSlots /\ hostHead[k] \in Int /\ End(k) \in Int
      /\ EndPhase(k) \in {0, 1}
  BY EndIn
<1>2. cq[k][hostHead[k]].phase = IF hostHead[k] < End(k) THEN EndPhase(k) ELSE 1 - EndPhase(k)
  BY <1>1 DEF PhaseInv
<1>3. hostPhase[k] = IF hostHead[k] <= End(k) THEN EndPhase(k) ELSE 1 - EndPhase(k)
  BY DEF PhaseInv
<1>4. QED BY <1>1, <1>2, <1>3 DEF Unread

\* A step that leaves a queue's phase bits, its end and its reader alone.
LEMMA PhaseKept ==
  ASSUME NEW k \in CQs, PhaseInv(k),
         \A i \in CqSlots : cq'[k][i].phase = cq[k][i].phase,
         hostHead'[k] = hostHead[k], hostPhase'[k] = hostPhase[k],
         End(k)' = End(k), EndPhase(k)' = EndPhase(k)
  PROVE  PhaseInv(k)'
BY DEF PhaseInv

\* The end of a queue is moved by the one who posts to it: when the entry is
\* written, not when the head is.
LEMMA PublishMovesEnd ==
  ASSUME TypeOK, LockInv, NEW c \in Tags, Publish(c)
  PROVE  LET j == CqOf[SqOf[c]]
         IN  /\ End(j) = cqHead[j] /\ EndPhase(j) = phase[j]
             /\ End(j)' = RingNext(cqHead[j], CqSize)
             /\ EndPhase(j)' = IF cqHead[j] + 1 = CqSize THEN 1 - phase[j] ELSE phase[j]
             /\ \A k \in CQs : k # j => End(k)' = End(k) /\ EndPhase(k)' = EndPhase(k)
<1>1. Unlocked \notin Workers BY QueuesAssumption DEF Unlocked, Workers
<1>2. WorkerOf(c) \in Workers /\ CqOf[SqOf[c]] \in CQs BY Homes
<1>3. /\ lock[CqOf[SqOf[c]]] = Unlocked /\ lock'[CqOf[SqOf[c]]] = WorkerOf(c)
      /\ cqHead' = cqHead /\ phase' = phase
      /\ \A k \in CQs : k # CqOf[SqOf[c]] => lock'[k] = lock[k]
  BY <1>2 DEF Publish, TypeOK
<1>4. QED BY <1>1, <1>2, <1>3 DEF End, EndPhase

LEMMA ReleaseKeepsEnd ==
  ASSUME TypeOK, LockInv, NEW w \in Workers, Release(w), NEW k \in CQs
  PROVE  End(k)' = End(k) /\ EndPhase(k)' = EndPhase(k)
<1>1. Unlocked \notin Workers BY QueuesAssumption DEF Unlocked, Workers
<1>2. at[w] \in CQs /\ lock[at[w]] = w BY DEF Release, LockInv, Posts, TypeOK, AtQueue
<1>3. CASE k = at[w]
  <2>1. /\ lock[k] # Unlocked /\ lock'[k] = Unlocked
        /\ cqHead'[k] = NextCq(cqHead[k])
        /\ phase'[k] = IF cqHead[k] + 1 = CqSize THEN 1 - phase[k] ELSE phase[k]
    BY <1>1, <1>2, <1>3 DEF Release, TypeOK
  <2>2. QED BY <2>1 DEF End, EndPhase, NextCq, RingNext
<1>4. CASE k # at[w]
  <2>1. lock'[k] = lock[k] /\ cqHead'[k] = cqHead[k] /\ phase'[k] = phase[k]
    BY <1>4 DEF Release, TypeOK
  <2>2. QED BY <2>1 DEF End, EndPhase
<1>5. QED BY <1>3, <1>4

\* The result is stored into an entry that was posted already.
LEMMA StoreResultKeeps ==
  ASSUME TypeOK, NEW w \in Workers, StoreResult(w), NEW k \in CQs, NEW i \in CqSlots
  PROVE  cq'[k][i].phase = cq[k][i].phase /\ cq'[k][i].tag = cq[k][i].tag
BY DEF StoreResult, TypeOK, AtQueue, Completion

LEMMA PhaseStep ==
  ASSUME TypeOK, LockInv, Once(busy, Sents, Inside, Dones), [Next]_vars,
         NEW k \in CQs, PhaseInv(k)
  PROVE  PhaseInv(k)'
<1>1. CASE UNCHANGED <<hostHead, hostPhase, cq, cqHead, phase, lock>>
  BY <1>1, PhaseKept DEF End, EndPhase
<1>2. ASSUME NEW j \in CQs, Reap(j) PROVE PhaseInv(k)'
  <2>1. UNCHANGED <<cq, cqHead, phase, lock>> BY <1>2 DEF Reap, cqs
  <2>2. CASE j # k
    <3>1. hostHead'[k] = hostHead[k] /\ hostPhase'[k] = hostPhase[k]
      BY <1>2, <2>2 DEF Reap, TypeOK
    <3>2. QED BY <2>1, <3>1, PhaseKept DEF End, EndPhase
  <2>3. CASE j = k
    <3>1. /\ hostHead[k] # End(k)
          /\ hostHead'[k] = NextCq(hostHead[k])
          /\ hostPhase'[k] = IF hostHead[k] + 1 = CqSize THEN 1 - hostPhase[k] ELSE hostPhase[k]
      BY <1>2, <2>3, UnreadIs DEF Reap, TypeOK
    <3>2. End(k)' = End(k) /\ EndPhase(k)' = EndPhase(k) BY <2>1 DEF End, EndPhase
    <3>3. hostPhase[k] = IF hostHead[k] <= End(k) THEN EndPhase(k) ELSE 1 - EndPhase(k)
      BY DEF PhaseInv
    <3>4. hostPhase'[k] = IF hostHead'[k] <= End(k) THEN EndPhase(k) ELSE 1 - EndPhase(k)
      BY <3>1, <3>3, EndIn DEF NextCq
    <3>5. QED BY <2>1, <3>2, <3>4 DEF PhaseInv
  <2>4. QED BY <2>2, <2>3
<1>3. ASSUME NEW c \in Tags, Publish(c) PROVE PhaseInv(k)'
  <2>1. UNCHANGED <<hostHead, hostPhase>> BY <1>3 DEF Publish, host
  <2>2. CASE k # CqOf[SqOf[c]]
    <3>1. cq'[k] = cq[k] BY <1>3, <2>2 DEF Publish, TypeOK
    <3>2. End(k)' = End(k) /\ EndPhase(k)' = EndPhase(k)
      BY <1>3, <2>2, PublishMovesEnd
    <3>3. QED BY <2>1, <3>1, <3>2, PhaseKept
  <2>3. CASE k = CqOf[SqOf[c]]
    <3> DEFINE g == hostHead[k]
               h == cqHead[k]
               p == phase[k]
    <3>1. /\ End(k) = h /\ EndPhase(k) = p /\ End(k)' = RingNext(h, CqSize)
          /\ EndPhase(k)' = IF h + 1 = CqSize THEN 1 - p ELSE p
      BY <1>3, <2>3, PublishMovesEnd
    <3>2. \A i \in CqSlots : cq'[k][i].phase = IF i = h THEN p ELSE cq[k][i].phase
      BY <1>3, <2>3 DEF Publish, TypeOK
    <3>3. c \in Inside BY <1>3 DEF Publish, Inside
    <3>4. RingCount(g, h, CqSize) # CqSize - 1 BY <2>3, <3>1, <3>3, CqRoom
    <3>5. /\ CqSize \in Nat \ {0} /\ CqSlots = 0 .. CqSize - 1 /\ g \in CqSlots
          /\ h \in CqSlots /\ p \in {0, 1}
      BY <3>1, EndIn
    <3>6. RingCount(g, h, CqSize) = IF g <= h THEN h - g ELSE h + CqSize - g
      <4> HIDE DEF g, h
      <4>1. QED BY <3>5, RingIn
    <3>7. /\ \A i \in CqSlots : cq[k][i].phase = IF i < h THEN p ELSE 1 - p
          /\ hostPhase[k] = IF g <= h THEN p ELSE 1 - p
      BY <3>1 DEF PhaseInv
    <3> HIDE DEF g, h, p
    <3>8. CASE h + 1 = CqSize
      <4>1. End(k)' = 0 /\ EndPhase(k)' = 1 - p BY <3>1, <3>8 DEF RingNext
      <4>2. 1 - (1 - p) = p BY <3>5
      <4>3. \A i \in CqSlots : cq'[k][i].phase = p BY <3>2, <3>5, <3>7, <3>8
      <4>4. g # 0 /\ g > 0 /\ g <= h BY <3>4, <3>5, <3>6, <3>8
      <4>5. \A i \in CqSlots : ~(i < 0) BY <3>5
      <4>6. ~(g <= 0) BY <3>5, <4>4
      <4>7. QED BY <2>1, <3>7, <4>1, <4>2, <4>3, <4>4, <4>5, <4>6 DEF PhaseInv, g
    <3>9. CASE h + 1 # CqSize
      <4>1. End(k)' = h + 1 /\ EndPhase(k)' = p BY <3>1, <3>9 DEF RingNext
      <4>2. \A i \in CqSlots : cq'[k][i].phase = IF i < h + 1 THEN p ELSE 1 - p
        BY <3>2, <3>5, <3>7
      <4>3. g # h + 1 BY <3>4, <3>5, <3>6, <3>9
      <4>4. hostPhase[k] = IF g <= h + 1 THEN p ELSE 1 - p BY <3>5, <3>7, <4>3
      <4>5. QED BY <2>1, <4>1, <4>2, <4>4 DEF PhaseInv, g
    <3>10. QED BY <3>8, <3>9
  <2>4. QED BY <2>2, <2>3
<1>4. ASSUME NEW w \in Workers, StoreResult(w) PROVE PhaseInv(k)'
  <2>1. \A i \in CqSlots : cq'[k][i].phase = cq[k][i].phase BY <1>4, StoreResultKeeps
  <2>2. UNCHANGED <<hostHead, hostPhase, cqHead, phase, lock>>
    BY <1>4 DEF StoreResult, host, cqs
  <2>3. QED BY <2>1, <2>2, PhaseKept DEF End, EndPhase
<1>5. ASSUME NEW w \in Workers, Release(w) PROVE PhaseInv(k)'
  <2>1. UNCHANGED <<hostHead, hostPhase, cq>> BY <1>5 DEF Release, host
  <2>2. QED BY <1>5, <2>1, PhaseKept, ReleaseKeepsEnd
<1>6. QED
  BY <1>1, <1>2, <1>3, <1>4, <1>5
     DEF Next, Host, Dispatcher, WorkerStep, HandOver, Submit, Ring, TakeInterrupt, EndInterrupt,
         Refuse, BeginBatch, Take, Copy, Due, ClearReady, Signal, TestReady, vars, host, cqs

\* The dispatcher takes a command only where one was announced.
LEMMA TakeFinds ==
  ASSUME TypeOK, AheadInv, NEW q \in SQs, Take(q)
  PROVE  /\ oldDbs[q] # tail[q] /\ oldDbs[q] # dbs[q]
         /\ oldDbs' = [oldDbs EXCEPT ![q] = RingNext(oldDbs[q], SqSize)]
         /\ batch \in [sq : SQs, left : Nat \ {0}] /\ batch.sq = q
<1>1. batch \in [sq : SQs, left : Nat \ {0}] /\ batch.sq = q /\ batch # NotYet
  BY QueuesAssumption DEF Take, TypeOK, NotYet, SQs
<1>2. /\ SqSize \in Nat \ {0} /\ oldDbs[q] \in 0 .. SqSize - 1
      /\ tail[q] \in 0 .. SqSize - 1 /\ dbs[q] \in 0 .. SqSize - 1
      /\ SqCount(q) = RingCount(oldDbs[q], tail[q], SqSize)
  BY SentIs
<1>3. RingCount(oldDbs[q], dbs[q], SqSize) \in Nat /\ SqCount(q) \in Nat
  <2>1. \A t \in 0 .. SqSize - 1 : RingCount(oldDbs[q], t, SqSize) \in 0 .. SqSize - 1
    BY <1>2, RingIn
  <2>2. QED BY <1>2, <2>1
<1>4. RingCount(oldDbs[q], dbs[q], SqSize) # 0 /\ SqCount(q) # 0
  BY <1>1, <1>3 DEF AheadInv
<1>5. oldDbs[q] # tail[q] /\ oldDbs[q] # dbs[q]
  <2>1. \A t \in 0 .. SqSize - 1 : RingCount(oldDbs[q], t, SqSize) = 0 <=> oldDbs[q] = t
    BY <1>2, RingIn
  <2>2. QED BY <1>2, <1>4, <2>1
<1>6. (oldDbs[q] + 1) % SqSize = RingNext(oldDbs[q], SqSize) BY <1>2, RingIn
<1>7. oldDbs' = [oldDbs EXCEPT ![q] = RingNext(oldDbs[q], SqSize)]
  BY <1>6 DEF Take, TypeOK
<1>8. QED BY <1>1, <1>5, <1>7

LEMMA AheadStep ==
  ASSUME TypeOK, Once(busy, Sents, Inside, Dones), AheadInv, [Next]_vars
  PROVE  AheadInv'
<1> DEFINE D(q) == RingCount(oldDbs[q], dbs[q], SqSize)
           E(q) == RingCount(oldDbs'[q], dbs'[q], SqSize)
<1>1. /\ SqSize \in Nat \ {0}
      /\ \A q \in SQs : /\ oldDbs[q] \in 0 .. SqSize - 1 /\ tail[q] \in 0 .. SqSize - 1
                        /\ dbs[q] \in 0 .. SqSize - 1
                        /\ SqCount(q) = RingCount(oldDbs[q], tail[q], SqSize)
  <2>1. SqSize \in Nat \ {0} BY QueuesAssumption
  <2>2. QED BY <2>1, SentIs
<1>2. \A q \in SQs : D(q) \in Nat /\ SqCount(q) \in Nat
  <2>1. \A h, t \in 0 .. SqSize - 1 : RingCount(h, t, SqSize) \in 0 .. SqSize - 1
    BY <1>1, RingIn
  <2>2. ASSUME NEW q \in SQs PROVE D(q) \in Nat /\ SqCount(q) \in Nat
    <3>1. /\ RingCount(oldDbs[q], dbs[q], SqSize) \in 0 .. SqSize - 1
          /\ RingCount(oldDbs[q], tail[q], SqSize) \in 0 .. SqSize - 1
      BY <1>1, <2>1
    <3>2. SqSize - 1 \in Nat BY <1>1
    <3>3. QED BY <1>1, <3>1, <3>2
  <2>3. QED BY <2>2
<1>3. \A q \in SQs : SqCount(q)' = RingCount(oldDbs'[q], tail'[q], SqSize)
  BY DEF SqCount, RingCount
<1>4. CASE UNCHANGED <<tail, dbs, disp>>
  BY <1>4 DEF AheadInv, SqCount, disp
<1>5. CASE Refuse
  BY <1>5 DEF Refuse, AheadInv, SqCount, NotYet, host
<1>6. ASSUME NEW c \in Tags, Submit(c) PROVE AheadInv'
  <2> DEFINE p == SqOf[c]
  <2>1. /\ p \in SQs /\ UNCHANGED <<dbs, oldDbs, batch>>
        /\ tail' = [tail EXCEPT ![p] = RingNext(tail[p], SqSize)]
    BY <1>6, Homes DEF Submit, disp, NextSq, RingNext
  <2>2. RingCount(oldDbs[p], tail[p], SqSize) # SqSize - 1
    BY <1>1, <1>6, <2>1, SqRoom DEF Submit
  <2>3. RingCount(oldDbs[p], RingNext(tail[p], SqSize), SqSize)
          = RingCount(oldDbs[p], tail[p], SqSize) + 1
    BY <1>1, <2>1, <2>2, RingGrows
  <2>4. SqCount(p)' = SqCount(p) + 1 BY <1>1, <1>3, <2>1, <2>3 DEF TypeOK
  <2>5. \A q \in SQs : q # p => SqCount(q)' = SqCount(q)
    BY <1>1, <1>3, <2>1 DEF TypeOK
  <2> HIDE DEF p
  <2>6. \A q \in SQs : D(q) <= SqCount(q)' BY <1>2, <2>4, <2>5 DEF AheadInv
  <2>7. QED BY <2>1, <2>6 DEF AheadInv
<1>7. ASSUME NEW p \in SQs, Ring(p) PROVE AheadInv'
  <2>1. UNCHANGED <<tail, oldDbs, batch>> /\ dbs' = [dbs EXCEPT ![p] = tail[p]]
    BY <1>7 DEF Ring, host, disp
  <2>2. \A q \in SQs : SqCount(q)' = SqCount(q) BY <2>1 DEF SqCount
  <2>3. E(p) = SqCount(p) /\ \A q \in SQs : q # p => E(q) = D(q)
    BY <1>1, <2>1 DEF TypeOK
  <2> HIDE DEF D, E
  <2>4. \A q \in SQs : D(q) <= E(q) /\ E(q) <= SqCount(q)'
    BY <1>2, <2>2, <2>3 DEF AheadInv, D, E
  <2>5. batch # NotYet => batch.left <= E(batch.sq)
    <3>1. SUFFICES ASSUME batch # NotYet PROVE batch.left <= E(batch.sq)
      OBVIOUS
    <3>2. batch.sq \in SQs /\ batch.left \in Nat BY <3>1 DEF TypeOK
    <3>3. batch.left <= D(batch.sq) BY <3>1 DEF AheadInv, D, E
    <3>4. E(batch.sq) \in Nat BY <1>2, <2>3, <3>2
    <3>5. QED BY <1>2, <2>4, <3>2, <3>3, <3>4
  <2>6. QED BY <2>1, <2>4, <2>5 DEF AheadInv, D, E
<1>8. ASSUME NEW p \in SQs, BeginBatch(p) PROVE AheadInv'
  <2>1. UNCHANGED <<tail, dbs, oldDbs>> BY <1>8 DEF BeginBatch, host
  <2>2. batch'.sq = p /\ batch'.left = IF dbs[p] < oldDbs[p] THEN dbs[p] + SqSize - oldDbs[p]
                                                             ELSE dbs[p] - oldDbs[p]
    BY <1>8 DEF BeginBatch
  <2>3. D(p) = IF oldDbs[p] <= dbs[p] THEN dbs[p] - oldDbs[p] ELSE dbs[p] + SqSize - oldDbs[p]
    BY <1>1, RingIn
  <2>4. batch'.left = D(p) BY <1>1, <2>2, <2>3
  <2>5. D(p) <= D(p) BY <1>2
  <2>6. QED BY <2>1, <2>2, <2>4, <2>5 DEF AheadInv, SqCount
<1>9. ASSUME NEW p \in SQs, Take(p) PROVE AheadInv'
  <2>1. UNCHANGED <<tail, dbs>> BY <1>9 DEF Take, host
  <2>2. /\ oldDbs[p] # tail[p] /\ oldDbs[p] # dbs[p]
        /\ oldDbs' = [oldDbs EXCEPT ![p] = RingNext(oldDbs[p], SqSize)]
        /\ batch \in [sq : SQs, left : Nat \ {0}] /\ batch.sq = p
    BY <1>9, TakeFinds
  <2>3. \A t \in 0 .. SqSize - 1 : oldDbs[p] # t =>
          RingCount(RingNext(oldDbs[p], SqSize), t, SqSize) = RingCount(oldDbs[p], t, SqSize) - 1
    BY <1>1, RingShrinks
  <2>4. E(p) = D(p) - 1 /\ SqCount(p)' = SqCount(p) - 1
    BY <1>1, <1>3, <2>1, <2>2, <2>3 DEF TypeOK
  <2>5. \A q \in SQs : q # p => E(q) = D(q) /\ SqCount(q)' = SqCount(q)
    BY <1>1, <1>3, <2>1, <2>2 DEF TypeOK
  <2>6. batch' = NotYet \/ (batch'.sq = p /\ batch'.left = batch.left - 1)
    BY <1>9, <2>2 DEF Take
  <2>7. batch.left <= D(p) BY <2>2, QueuesAssumption DEF AheadInv, NotYet, SQs
  <2> HIDE DEF D, E
  <2>8. \A q \in SQs : E(q) <= SqCount(q)' BY <1>2, <2>4, <2>5 DEF AheadInv, D, E
  <2>9. batch' # NotYet => batch'.left <= E(batch'.sq) BY <1>2, <2>2, <2>4, <2>6, <2>7
  <2>10. QED BY <2>8, <2>9 DEF AheadInv, D, E
<1>10. QED
  BY <1>4, <1>5, <1>6, <1>7, <1>8, <1>9
     DEF Next, Host, Dispatcher, WorkerStep, HandOver, TakeInterrupt, Reap, EndInterrupt,
         Copy, Due, Publish, StoreResult, Release, ClearReady, Signal, TestReady,
         vars, host, disp

(***************************************************************************)
(* What a step does to the path.                                           *)
(***************************************************************************)
LEMMA SentsKept ==
  ASSUME UNCHANGED <<sq, tail, oldDbs>>
  PROVE  Sents' = Sents
BY DEF Sents, Sent, SqCount

LEMMA DonesKept ==
  ASSUME TypeOK, LockInv, [Next]_vars, hostHead' = hostHead,
         \A k \in CQs : End(k)' = End(k),
         \A k \in CQs : \A i \in CqSlots : cq'[k][i].tag = cq[k][i].tag
  PROVE  Dones' = Dones
<1>1. WindowsInv /\ WindowsInv' BY Windows, WindowsAfter
<1>2. \A k \in CQs : TagsIn(k)' = TagsIn(k) BY DEF TagsIn
<1>3. \A k \in CQs : Done(k)' = Done(k) BY <1>1, <1>2 DEF WindowsInv
<1>4. QED BY <1>3 DEF Dones

LEMMA SubmitMoves ==
  ASSUME PathInv, NEW c \in Tags, Submit(c)
  PROVE  /\ busy' = busy \cup {c} /\ c \notin busy
         /\ Sents' = [Sents EXCEPT ![SqOf[c]] = Append(@, c)]
         /\ Inside' = Inside /\ Dones' = Dones
<1>1. [Next]_vars BY Homes DEF Submit, Next, Host
<1>2. TypeOK /\ LockInv BY DEF PathInv
<1>3. WindowsInv /\ WindowsInv' BY <1>1, <1>2, Windows, WindowsAfter
<1> DEFINE q == SqOf[c]
<1>4. /\ q \in SQs /\ sq \in [SQs -> [SqSlots -> Tags \cup {NoTag}]]
      /\ c \notin busy /\ busy' = busy \cup {c}
      /\ sq' = [sq EXCEPT ![q] = [sq[q] EXCEPT ![tail[q]] = c]]
      /\ tail' = [tail EXCEPT ![q] = RingNext(tail[q], SqSize)]
      /\ UNCHANGED <<oldDbs, hostHead, cq, cqHead, lock, stage>>
  BY <1>2, Homes DEF Submit, TypeOK, NextSq, RingNext, disp, work, cqs
<1>5. /\ SqSize \in Nat \ {0} /\ oldDbs[q] \in 0 .. SqSize - 1 /\ tail[q] \in 0 .. SqSize - 1
      /\ sq[q] \in [0 .. SqSize - 1 -> Tags \cup {NoTag}] /\ c \in Tags \cup {NoTag}
      /\ RingCount(oldDbs[q], tail[q], SqSize) # SqSize - 1
  BY <1>2, <1>4, SentIs, SqRoom DEF PathInv
<1>6. RingWindow(sq'[q], oldDbs[q], RingNext(tail[q], SqSize), SqSize)
        = Append(RingWindow(sq[q], oldDbs[q], tail[q], SqSize), c)
  <2>1. sq'[q][tail[q]] = c /\ \A i \in 0 .. SqSize - 1 : i # tail[q] => sq'[q][i] = sq[q][i]
    BY <1>2, <1>4, <1>5 DEF TypeOK
  <2>2. HasRoom(oldDbs[q], tail[q], SqSize) BY <1>5 DEF HasRoom
  <2>3. WrittenAt(sq'[q], sq[q], tail[q], SqSize) BY <2>1 DEF WrittenAt
  <2>4. QED BY <2>1, <2>2, <2>3, WindowGrows
<1> HIDE DEF q
<1>7. sq'[q] = [sq[q] EXCEPT ![tail[q]] = c] /\ tail'[q] = RingNext(tail[q], SqSize)
      /\ \A p \in SQs : p # q => sq'[p] = sq[p] /\ tail'[p] = tail[p]
  BY <1>2, <1>4 DEF TypeOK
<1>8. Sent(q)' = Append(Sent(q), c) BY <1>3, <1>4, <1>6, <1>7 DEF WindowsInv
<1>9. \A p \in SQs : p # q => Sent(p)' = Sent(p) BY <1>3, <1>4, <1>7 DEF WindowsInv
<1>10. Sents' = [Sents EXCEPT ![q] = Append(@, c)] BY <1>4, <1>8, <1>9 DEF Sents
<1>11. Dones' = Dones BY <1>1, <1>2, <1>4, DonesKept DEF End
<1>12. QED BY <1>4, <1>10, <1>11 DEF Inside, q

LEMMA TakeMoves ==
  ASSUME PathInv, NEW q \in SQs, Take(q)
  PROVE  /\ Sents[q] # <<>>
         /\ Inside' = Inside \cup {Head(Sents[q])}
         /\ Sents' = [Sents EXCEPT ![q] = Tail(@)]
         /\ busy' = busy /\ Dones' = Dones
<1>1. [Next]_vars BY DEF Take, Next, Dispatcher
<1>2. TypeOK /\ LockInv /\ AheadInv BY DEF PathInv
<1>3. WindowsInv /\ WindowsInv' BY <1>1, <1>2, Windows, WindowsAfter
<1>4. /\ oldDbs[q] # tail[q]
      /\ oldDbs' = [oldDbs EXCEPT ![q] = RingNext(oldDbs[q], SqSize)]
      /\ stage' = [stage EXCEPT ![sq[q][oldDbs[q]]] = "taken"]
      /\ UNCHANGED <<sq, tail, busy, hostHead, cq, cqHead, lock>>
  BY <1>2, TakeFinds DEF Take, host, cqs
<1>5. /\ SqSize \in Nat \ {0} /\ oldDbs[q] \in 0 .. SqSize - 1 /\ tail[q] \in 0 .. SqSize - 1
      /\ sq[q] \in [0 .. SqSize - 1 -> Tags \cup {NoTag}]
  BY <1>2, SentIs DEF TypeOK
<1>6. /\ Sent(q) # <<>> /\ Head(Sent(q)) = sq[q][oldDbs[q]]
      /\ RingWindow(sq[q], RingNext(oldDbs[q], SqSize), tail[q], SqSize) = Tail(Sent(q))
  <2>1. /\ RingWindow(sq[q], oldDbs[q], tail[q], SqSize) # <<>>
        /\ Head(RingWindow(sq[q], oldDbs[q], tail[q], SqSize)) = sq[q][oldDbs[q]]
        /\ RingWindow(sq[q], RingNext(oldDbs[q], SqSize), tail[q], SqSize)
             = Tail(RingWindow(sq[q], oldDbs[q], tail[q], SqSize))
    BY <1>4, <1>5, WindowShrinks, Zenon
  <2>2. QED BY <1>3, <2>1 DEF WindowsInv
<1>7. oldDbs'[q] = RingNext(oldDbs[q], SqSize)
      /\ \A p \in SQs : p # q => oldDbs'[p] = oldDbs[p]
  BY <1>2, <1>4 DEF TypeOK
<1>8. Sent(q)' = Tail(Sent(q)) BY <1>3, <1>4, <1>6, <1>7 DEF WindowsInv
<1>9. \A p \in SQs : p # q => Sent(p)' = Sent(p) BY <1>3, <1>4, <1>7 DEF WindowsInv
<1>10. Sents' = [Sents EXCEPT ![q] = Tail(@)] BY <1>8, <1>9 DEF Sents
<1>11. Sents[q] = Sent(q) BY DEF Sents
<1>12. Head(Sents[q]) \in Tags
  <2>1. Head(Sents[q]) \in busy \ Inside BY <1>6, <1>11, OnceTake DEF PathInv
  <2>2. QED BY <1>2, <2>1 DEF TypeOK
<1>13. Inside' = Inside \cup {Head(Sents[q])}
  BY <1>2, <1>4, <1>6, <1>11, <1>12 DEF Inside, TypeOK
<1>14. Dones' = Dones BY <1>1, <1>2, <1>4, DonesKept DEF End
<1>15. QED BY <1>4, <1>6, <1>10, <1>11, <1>13, <1>14

LEMMA PublishMoves ==
  ASSUME PathInv, NEW c \in Tags, Publish(c)
  PROVE  /\ c \in Inside /\ Inside' = Inside \ {c}
         /\ Dones' = [Dones EXCEPT ![CqOf[SqOf[c]]] = Append(@, c)]
         /\ busy' = busy /\ Sents' = Sents
<1>1. [Next]_vars BY DEF Next
<1>2. TypeOK /\ LockInv BY DEF PathInv
<1>3. WindowsInv /\ WindowsInv' BY <1>1, <1>2, Windows, WindowsAfter
<1> DEFINE k == CqOf[SqOf[c]]
           new == [tag |-> c, sqHead |-> entry[c], phase |-> phase[k], result |-> FALSE]
<1>4. /\ k \in CQs /\ stage[c] = "due"
      /\ cq' = [cq EXCEPT ![k] = [cq[k] EXCEPT ![cqHead[k]] = new]]
      /\ stage' = [stage EXCEPT ![c] = "none"]
      /\ UNCHANGED <<busy, sq, tail, oldDbs, hostHead>>
  BY <1>2, Homes DEF Publish, host, disp
<1>5. /\ End(k) = cqHead[k] /\ End(k)' = RingNext(End(k), CqSize)
      /\ \A j \in CQs : j # k => End(j)' = End(j)
  BY <1>2, PublishMovesEnd
<1>6. c \in Inside /\ Inside' = Inside \ {c} BY <1>2, <1>4 DEF Inside, TypeOK
<1>7. RingCount(hostHead[k], End(k), CqSize) # CqSize - 1 BY <1>2, <1>6, CqRoom DEF PathInv
<1>8. /\ CqSize \in Nat \ {0} /\ CqSlots = 0 .. CqSize - 1 /\ hostHead[k] \in CqSlots
      /\ End(k) \in CqSlots /\ TagsIn(k) \in [CqSlots -> Tags \cup {NoTag}]
  BY <1>2, <1>4, EndIn, DoneIs
<1>9. cq'[k] = [cq[k] EXCEPT ![cqHead[k]] = new] /\ \A j \in CQs : j # k => cq'[j] = cq[j]
  BY <1>2, <1>4 DEF TypeOK
<1>10. TagsIn(k)' = [TagsIn(k) EXCEPT ![End(k)] = c]
  <2>1. \A i \in CqSlots : cq'[k][i].tag = IF i = End(k) THEN c ELSE cq[k][i].tag
    BY <1>2, <1>4, <1>5, <1>9 DEF TypeOK
  <2>2. QED BY <2>1 DEF TagsIn
<1>11. \A j \in CQs : j # k => TagsIn(j)' = TagsIn(j) BY <1>9 DEF TagsIn
<1> HIDE DEF k, new
<1>12. RingWindow(TagsIn(k)', hostHead[k], RingNext(End(k), CqSize), CqSize)
         = Append(RingWindow(TagsIn(k), hostHead[k], End(k), CqSize), c)
  <2>1. TagsIn(k)'[End(k)] = c
        /\ \A i \in 0 .. CqSize - 1 : i # End(k) => TagsIn(k)'[i] = TagsIn(k)[i]
    BY <1>8, <1>10
  <2>2. HasRoom(hostHead[k], End(k), CqSize) BY <1>7, <1>8 DEF HasRoom
  <2>3. WrittenAt(TagsIn(k)', TagsIn(k), End(k), CqSize) BY <2>1 DEF WrittenAt
  <2>4. QED BY <2>1, <2>2, <2>3, WindowGrows
<1>13. Done(k)' = Append(Done(k), c)
  BY <1>3, <1>4, <1>5, <1>10, <1>12 DEF WindowsInv
<1>14. \A j \in CQs : j # k => Done(j)' = Done(j)
  BY <1>3, <1>4, <1>5, <1>11 DEF WindowsInv
<1>15. Dones' = [Dones EXCEPT ![k] = Append(@, c)] BY <1>4, <1>13, <1>14 DEF Dones
<1>16. Sents' = Sents BY <1>4, SentsKept
<1>17. QED BY <1>4, <1>6, <1>15, <1>16 DEF k

LEMMA ReapMoves ==
  ASSUME PathInv, NEW k \in CQs, Reap(k)
  PROVE  /\ Dones[k] # <<>>
         /\ busy' = busy \ {Head(Dones[k])}
         /\ Dones' = [Dones EXCEPT ![k] = Tail(@)]
         /\ Sents' = Sents /\ Inside' = Inside
<1>1. [Next]_vars BY DEF Next, Host
<1>2. TypeOK /\ LockInv /\ PhaseInv(k) BY DEF PathInv
<1>3. WindowsInv /\ WindowsInv' BY <1>1, <1>2, Windows, WindowsAfter
<1>4. /\ Unread(k) /\ busy' = busy \ {cq[k][hostHead[k]].tag}
      /\ hostHead' = [hostHead EXCEPT ![k] = RingNext(hostHead[k], CqSize)]
      /\ UNCHANGED <<sq, tail, oldDbs, stage, cq, cqHead, lock>>
  BY <1>2 DEF Reap, NextCq, RingNext, TypeOK, disp, work, cqs
<1>5. /\ CqSize \in Nat \ {0} /\ CqSlots = 0 .. CqSize - 1 /\ hostHead[k] \in CqSlots
      /\ End(k) \in CqSlots /\ TagsIn(k) \in [CqSlots -> Tags \cup {NoTag}]
      /\ hostHead[k] # End(k)
  BY <1>2, <1>4, EndIn, DoneIs, UnreadIs
<1>6. /\ Done(k) # <<>> /\ Head(Done(k)) = TagsIn(k)[hostHead[k]]
      /\ RingWindow(TagsIn(k), RingNext(hostHead[k], CqSize), End(k), CqSize) = Tail(Done(k))
  <2>1. /\ RingWindow(TagsIn(k), hostHead[k], End(k), CqSize) # <<>>
        /\ Head(RingWindow(TagsIn(k), hostHead[k], End(k), CqSize)) = TagsIn(k)[hostHead[k]]
        /\ RingWindow(TagsIn(k), RingNext(hostHead[k], CqSize), End(k), CqSize)
             = Tail(RingWindow(TagsIn(k), hostHead[k], End(k), CqSize))
    BY <1>5, WindowShrinks, Zenon
  <2>2. QED BY <1>3, <2>1 DEF WindowsInv
<1>7. hostHead'[k] = RingNext(hostHead[k], CqSize)
      /\ \A j \in CQs : j # k => hostHead'[j] = hostHead[j]
  BY <1>2, <1>4 DEF TypeOK
<1>8. \A j \in CQs : TagsIn(j)' = TagsIn(j) /\ End(j)' = End(j)
  BY <1>4 DEF TagsIn, End
<1>9. Done(k)' = Tail(Done(k)) BY <1>3, <1>6, <1>7, <1>8 DEF WindowsInv
<1>10. \A j \in CQs : j # k => Done(j)' = Done(j) BY <1>3, <1>7, <1>8 DEF WindowsInv
<1>11. Dones' = [Dones EXCEPT ![k] = Tail(@)] /\ Dones[k] = Done(k)
  BY <1>9, <1>10 DEF Dones
<1>12. cq[k][hostHead[k]].tag = Head(Done(k)) BY <1>5, <1>6 DEF TagsIn
<1>13. QED BY <1>4, <1>6, <1>11, <1>12, SentsKept DEF Inside

\* All the rest is not seen from outside.
LEMMA OthersMoveNothing ==
  ASSUME PathInv, [Next]_vars, ~ \E c \in Tags : Submit(c) \/ Publish(c),
         ~ \E q \in SQs : Take(q), ~ \E k \in CQs : Reap(k)
  PROVE  busy' = busy /\ Sents' = Sents /\ Inside' = Inside /\ Dones' = Dones
<1>1. TypeOK /\ LockInv BY DEF PathInv
<1>2. CASE UNCHANGED <<busy, sq, tail, oldDbs, stage, hostHead, cq, cqHead, lock>>
  BY <1>1, <1>2, SentsKept, DonesKept DEF Inside, End
<1>3. ASSUME NEW c \in Tags, Copy(c) \/ Due(c)
      PROVE  busy' = busy /\ Sents' = Sents /\ Inside' = Inside /\ Dones' = Dones
  <2>1. UNCHANGED <<busy, sq, tail, oldDbs, hostHead, cq, cqHead, lock>>
    BY <1>3 DEF Copy, Due, host, disp, cqs
  <2>2. Inside' = Inside BY <1>1, <1>3 DEF Copy, Due, Inside, TypeOK
  <2>3. QED BY <1>1, <2>1, <2>2, SentsKept, DonesKept DEF End
<1>4. ASSUME NEW w \in Workers, StoreResult(w)
      PROVE  busy' = busy /\ Sents' = Sents /\ Inside' = Inside /\ Dones' = Dones
  <2>1. UNCHANGED <<busy, sq, tail, oldDbs, stage, hostHead, cqHead, lock>>
    BY <1>4 DEF StoreResult, host, disp, work, cqs
  <2>2. \A k \in CQs : \A i \in CqSlots : cq'[k][i].tag = cq[k][i].tag
    BY <1>1, <1>4, StoreResultKeeps
  <2>3. QED BY <1>1, <2>1, <2>2, SentsKept, DonesKept DEF Inside, End
<1>5. ASSUME NEW w \in Workers, Release(w)
      PROVE  busy' = busy /\ Sents' = Sents /\ Inside' = Inside /\ Dones' = Dones
  <2>1. UNCHANGED <<busy, sq, tail, oldDbs, stage, hostHead, cq>>
    BY <1>5 DEF Release, host, disp, work
  <2>2. \A k \in CQs : End(k)' = End(k) BY <1>1, <1>5, ReleaseKeepsEnd
  <2>3. QED BY <1>1, <2>1, <2>2, SentsKept, DonesKept DEF Inside
<1>6. QED
  BY <1>2, <1>3, <1>4, <1>5
     DEF Next, Host, Dispatcher, WorkerStep, HandOver, Ring, TakeInterrupt, EndInterrupt,
         Refuse, BeginBatch, ClearReady, Signal, TestReady, vars, host, disp, work, cqs

LEMMA PathStep ==
  ASSUME PathInv, [Next]_vars
  PROVE  PathInv' /\ [Path!Next]_(Path!vars)
<1> DEFINE After == Once(busy', Sents', Inside', Dones')
<1>1. /\ TypeOK /\ LockInv /\ AheadInv /\ Once(busy, Sents, Inside, Dones)
      /\ \A k \in CQs : PhaseInv(k)
  BY DEF PathInv
<1>2. TypeOK' /\ LockInv' /\ AheadInv' /\ \A k \in CQs : PhaseInv(k)'
  BY <1>1, TypeStep, LockStep, AheadStep, PhaseStep
<1>3. After /\ [Path!Next]_(Path!vars)
  <2>1. ASSUME NEW c \in Tags, Submit(c) PROVE After /\ Path!Submit(c)
    <3>1. /\ busy' = busy \cup {c} /\ c \notin busy
          /\ Sents' = [Sents EXCEPT ![SqOf[c]] = Append(@, c)]
          /\ Inside' = Inside /\ Dones' = Dones
      BY <2>1, SubmitMoves
    <3>2. After BY <1>1, <3>1, OnceSubmit
    <3>3. Path!Submit(c) BY <3>1 DEF Path!Submit, Sents, Inside, Dones
    <3>4. QED BY <3>2, <3>3
  <2>2. ASSUME NEW q \in SQs, Take(q) PROVE After /\ Path!Take(q)
    <3>1. /\ Sents[q] # <<>>
          /\ Inside' = Inside \cup {Head(Sents[q])}
          /\ Sents' = [Sents EXCEPT ![q] = Tail(@)]
          /\ busy' = busy /\ Dones' = Dones
      BY <2>2, TakeMoves
    <3>2. After BY <1>1, <3>1, OnceTake
    <3>3. Path!Take(q) BY <3>1 DEF Path!Take, Sents, Inside, Dones
    <3>4. QED BY <3>2, <3>3
  <2>3. ASSUME NEW c \in Tags, Publish(c) PROVE After /\ Path!Complete(c)
    <3>1. /\ c \in Inside /\ Inside' = Inside \ {c}
          /\ Dones' = [Dones EXCEPT ![CqOf[SqOf[c]]] = Append(@, c)]
          /\ busy' = busy /\ Sents' = Sents
      BY <2>3, PublishMoves
    <3>2. After BY <1>1, <3>1, OnceComplete
    <3>3. Path!Complete(c) BY <3>1 DEF Path!Complete, Sents, Inside, Dones
    <3>4. QED BY <3>2, <3>3
  <2>4. ASSUME NEW k \in CQs, Reap(k) PROVE After /\ Path!Learn(k)
    <3>1. /\ Dones[k] # <<>>
          /\ busy' = busy \ {Head(Dones[k])}
          /\ Dones' = [Dones EXCEPT ![k] = Tail(@)]
          /\ Sents' = Sents /\ Inside' = Inside
      BY <2>4, ReapMoves
    <3>2. After BY <1>1, <3>1, OnceLearn
    <3>3. Path!Learn(k) BY <3>1 DEF Path!Learn, Sents, Inside, Dones
    <3>4. QED BY <3>2, <3>3
  <2>5. CASE /\ ~ \E c \in Tags : Submit(c) \/ Publish(c)
             /\ ~ \E q \in SQs : Take(q)
             /\ ~ \E k \in CQs : Reap(k)
    <3>1. busy' = busy /\ Sents' = Sents /\ Inside' = Inside /\ Dones' = Dones
      BY <2>5, OthersMoveNothing
    <3>2. After BY <1>1, <3>1
    <3>3. UNCHANGED Path!vars BY <3>1 DEF Path!vars, Sents, Inside, Dones
    <3>4. QED BY <3>2, <3>3
  <2>6. QED BY <2>1, <2>2, <2>3, <2>4, <2>5 DEF Path!Next
<1>4. QED BY <1>2, <1>3 DEF PathInv

\* The queues implement the path of a command (io.c, nvmev_proc_io_sq and
\* __fill_cq_result): commands are taken in the order of their submission
\* queue, completed once each, and the host finds every completion once and in
\* order by its phase bit, also while another worker fills the next entry,
\* whatever the sizes of the queues and the number of their workers.
THEOREM QueuesImplementPath == Spec => ImplementsCommandPath
<1>1. Init => PathInv /\ Path!Init
  <2>1. SUFFICES ASSUME Init PROVE PathInv /\ Path!Init
    OBVIOUS
  <2>2. TypeOK BY <2>1, Sizes DEF Init, TypeOK, AtQueue, Completion, NotYet
  <2>3. LockInv BY <2>1, QueuesAssumption DEF Init, LockInv, Posts
  <2>4. /\ \A q \in SQs : RingCount(0, 0, SqSize) = 0
        /\ \A k \in CQs : RingCount(0, 0, CqSize) = 0
    BY RingIn, QueuesAssumption
  <2>5. \A q \in SQs : Sent(q) = <<>> /\ SqCount(q) = 0
    BY <2>1, <2>2, <2>4, SentIs DEF Init, RingWindow
  <2>6. \A k \in CQs : Done(k) = <<>>
    <3>1. TAKE k \in CQs
    <3>2. hostHead[k] = 0 /\ End(k) = 0 BY <2>1 DEF Init, End
    <3>3. RingWindow(TagsIn(k), 0, 0, CqSize) = <<>> BY <2>4 DEF RingWindow
    <3>4. QED BY <2>2, <2>3, <3>2, <3>3, DoneIs
  <2>7. Sents = [q \in SQs |-> <<>>] /\ Inside = {} /\ Dones = [k \in CQs |-> <<>>]
    BY <2>1, <2>5, <2>6 DEF Init, Sents, Inside, Dones
  <2>8. Once(busy, Sents, Inside, Dones)
    <3>1. busy = {} BY <2>1 DEF Init
    <3>2. Elems(<<>>) = {} /\ Distinct(<<>>) /\ <<>> \in Seq(Tags) BY DEF Elems, Distinct
    <3>3. QED BY <2>7, <3>1, <3>2 DEF Once
  <2>9. AheadInv BY <2>1, <2>4, <2>5 DEF Init, AheadInv
  <2>10. \A k \in CQs : PhaseInv(k)
    BY <2>1, Sizes, QueuesAssumption DEF Init, PhaseInv, End, EndPhase, CqSlots
  <2>11. Path!Init BY <2>1, <2>7 DEF Init, Path!Init, Sents, Inside, Dones
  <2>12. QED BY <2>2, <2>3, <2>8, <2>9, <2>10, <2>11 DEF PathInv
<1>2. PathInv /\ [Next]_vars => PathInv' /\ [Path!Next]_(Path!vars)
  BY PathStep
<1>3. QED BY <1>1, <1>2, PTL DEF Spec, ImplementsCommandPath, Path!Spec

----------------------------------------------------------------------------
(***************************************************************************)
(* The times of the NAND commands (NandTime).  A request to a channel is a *)
(* step of the window (ServeStep); what a read has issued and gathered is  *)
(* what lies behind the page it is at (ReadCount); a LUN is busy as long   *)
(* as its commands are (NandInv).                                          *)
(***************************************************************************)

(***************************************************************************)
(* A channel, and the credits of a request                                 *)
(***************************************************************************)
LEMMA RingConstants ==
  /\ NrEntries \in Nat /\ NrEntries > 0 /\ Interval \in Nat \ {0}
  /\ MaxCredits \in Nat \ {0} /\ XferLat \in Nat /\ 0 \in Entries
  /\ \A i \in Entries : i \in Nat /\ i < NrEntries
BY RingAssumption DEF Entries

Rings == [head : Entries, valid : 0 .. NrEntries, time : Nat,
          avail : [Entries -> 0 .. MaxCredits], asked : [at : Nat, units : Nat], end : Nat]

\* The entry k places on from entry h.
EntryAt(h, k) == (h + k) % NrEntries

LEMMA EntryIs ==
  ASSUME NEW h \in Entries, NEW k \in 0 .. NrEntries
  PROVE  /\ EntryAt(h, k) = IF h + k < NrEntries THEN h + k ELSE h + k - NrEntries
         /\ EntryAt(h, k) \in Entries
<1>1. NrEntries \in Nat \ {0} BY RingConstants
<1>2. PICK a : a = h + k OBVIOUS
<1>3. a \in Nat /\ a < NrEntries + NrEntries BY <1>1, <1>2, RingConstants
<1>4. a % NrEntries = IF a < NrEntries THEN a ELSE a - NrEntries BY <1>1, <1>3, SmallRemainder
<1>5. EntryAt(h, k) = a % NrEntries BY <1>2 DEF EntryAt
<1> HIDE DEF EntryAt
<1>6. QED BY <1>1, <1>2, <1>3, <1>4, <1>5 DEF Entries

LEMMA EntriesTurn ==
  ASSUME NEW h \in Entries
  PROVE  /\ \A j, k \in Entries : EntryAt(h, j) = EntryAt(h, k) => j = k
         /\ \A i \in Entries : \E k \in Entries : i = EntryAt(h, k)
         /\ \A j, k \in 0 .. NrEntries :
              EntryAt(EntryAt(h, j), k) = IF j + k < NrEntries THEN EntryAt(h, j + k)
                                          ELSE EntryAt(h, j + k - NrEntries)
<1>1. NrEntries \in Nat /\ NrEntries > 0 /\ h \in Nat /\ h < NrEntries BY RingConstants
<1>2. \A k \in 0 .. NrEntries :
        /\ EntryAt(h, k) = IF h + k < NrEntries THEN h + k ELSE h + k - NrEntries
        /\ EntryAt(h, k) \in Entries
  BY EntryIs
<1>3. \A j, k \in Entries : EntryAt(h, j) = EntryAt(h, k) => j = k
  BY <1>1, <1>2 DEF Entries
<1>4. ASSUME NEW i \in Entries PROVE \E k \in Entries : i = EntryAt(h, k)
  <2>1. i \in Nat /\ i < NrEntries BY RingConstants
  <2>2. CASE i >= h
    <3>1. PICK k : k = i - h OBVIOUS
    <3>2. k \in Entries /\ k \in 0 .. NrEntries BY <1>1, <2>1, <2>2, <3>1 DEF Entries
    <3>3. EntryAt(h, k) = i BY <1>1, <1>2, <2>1, <3>1, <3>2
    <3>4. QED BY <3>2, <3>3
  <2>3. CASE i < h
    <3>1. PICK k : k = i + NrEntries - h OBVIOUS
    <3>2. k \in Entries /\ k \in 0 .. NrEntries BY <1>1, <2>1, <2>3, <3>1 DEF Entries
    <3>3. EntryAt(h, k) = i BY <1>1, <1>2, <2>1, <3>1, <3>2
    <3>4. QED BY <3>2, <3>3
  <2>4. QED BY <1>1, <2>1, <2>2, <2>3
<1>5. ASSUME NEW j \in 0 .. NrEntries, NEW k \in 0 .. NrEntries
      PROVE  EntryAt(EntryAt(h, j), k) = IF j + k < NrEntries THEN EntryAt(h, j + k)
                                         ELSE EntryAt(h, j + k - NrEntries)
  <2>1. PICK e : e = EntryAt(h, j) OBVIOUS
  <2>2. e \in Entries /\ e \in Nat /\ e = IF h + j < NrEntries THEN h + j ELSE h + j - NrEntries
    BY <1>2, <2>1, RingConstants
  <2>3. EntryAt(e, k) = IF e + k < NrEntries THEN e + k ELSE e + k - NrEntries BY <2>2, EntryIs
  <2>4. CASE j + k < NrEntries
    <3>1. PICK m : m = j + k OBVIOUS
    <3>2. m \in 0 .. NrEntries /\ m < NrEntries BY <1>1, <2>4, <3>1
    <3>3. EntryAt(h, m) = IF h + m < NrEntries THEN h + m ELSE h + m - NrEntries BY <1>2, <3>2
    <3>4. QED BY <1>1, <2>1, <2>2, <2>3, <2>4, <3>1, <3>2, <3>3
  <2>5. CASE ~(j + k < NrEntries)
    <3>1. PICK m : m = j + k - NrEntries OBVIOUS
    <3>2. m \in 0 .. NrEntries BY <1>1, <2>5, <3>1
    <3>3. EntryAt(h, m) = IF h + m < NrEntries THEN h + m ELSE h + m - NrEntries BY <1>2, <3>2
    <3>4. CASE m < NrEntries
      BY <1>1, <2>1, <2>2, <2>3, <2>5, <3>1, <3>2, <3>3, <3>4
    <3>5. CASE m = NrEntries
      BY <1>1, <2>1, <2>2, <2>3, <2>5, <3>1, <3>2, <3>3, <3>5
    <3>6. QED BY <1>1, <3>2, <3>4, <3>5
  <2>6. QED BY <2>4, <2>5
<1>6. QED BY <1>3, <1>4, <1>5

\* Entry q is j places on from entry h; the one k places on from q.
Turns(h, j, q, k) == EntryAt(q, k) = IF j + k < NrEntries THEN EntryAt(h, j + k)
                                     ELSE EntryAt(h, j + k - NrEntries)

LEMMA TurnsOn ==
  ASSUME NEW h \in Entries, NEW j \in 0 .. NrEntries, NEW k \in 0 .. NrEntries, NEW q,
         q = EntryAt(h, j)
  PROVE  Turns(h, j, q, k)
BY EntriesTurn DEF Turns

\* w gives what is missing after each of the entries from pos on.
Drawn(w, a, pos, units) ==
  w = [k \in 0 .. NrEntries |->
         IF k = 0 THEN units
         ELSE w[k - 1] - Least2(w[k - 1], a[(pos + k - 1) % NrEntries])]

LEMMA DrawnExists ==
  ASSUME NEW a, NEW pos, NEW units
  PROVE  \E w : Drawn(w, a, pos, units)
<1> DEFINE After(w, k) == IF k = 0 THEN units
                          ELSE w[k - 1] - Least2(w[k - 1], a[(pos + k - 1) % NrEntries])
           Upto(w, n) == \A k \in 0 .. n : w[k] = After(w, k)
           Bad == {n \in 0 .. NrEntries : ~ \E w : Upto(w, n)}
<1>1. NrEntries \in Nat BY RingConstants
<1>2. Bad = {}
  <2>1. SUFFICES ASSUME Bad # {} PROVE FALSE OBVIOUS
  <2>2. PICK n \in Bad : \A k \in Bad : n <= k
    <3>1. Bad \subseteq Nat BY <1>1
    <3> HIDE DEF Bad
    <3>2. QED BY <2>1, <3>1, NatMin
  <2>3. n \in 0 .. NrEntries /\ n \in Nat BY <1>1
  <2>4. n # 0
    <3>1. SUFFICES ASSUME n = 0 PROVE FALSE OBVIOUS
    <3>2. PICK w : w = [k \in 0 .. 0 |-> units] OBVIOUS
    <3>3. Upto(w, 0) BY <3>2
    <3>4. QED BY <2>2, <3>1, <3>3
  <2>5. PICK m : m = n - 1 OBVIOUS
  <2>6. m \in 0 .. NrEntries /\ m < n /\ n = m + 1 /\ m \in Nat
    BY <1>1, <2>3, <2>4, <2>5
  <2>7. m \notin Bad BY <2>2, <2>6, <1>1
  <2>8. PICK w : Upto(w, m)
    <3> HIDE DEF Upto
    <3>1. QED BY <2>6, <2>7
  <2>9. PICK v : v = [k \in 0 .. n |-> After(w, k)] OBVIOUS
  <2>10. \A k \in 0 .. m : v[k] = w[k] BY <2>6, <2>8, <2>9
  <2>11. ASSUME NEW k \in 0 .. n PROVE v[k] = After(v, k)
    <3>1. v[k] = After(w, k) BY <2>9
    <3>2. CASE k = 0 BY <3>1, <3>2
    <3>3. CASE k # 0
      <4>1. k - 1 \in 0 .. m BY <2>6, <3>3
      <4>2. v[k - 1] = w[k - 1] BY <2>10, <4>1
      <4>3. QED BY <3>1, <3>3, <4>2
    <3>4. QED BY <3>2, <3>3
  <2>12. Upto(v, n) BY <2>11
  <2> HIDE DEF Upto
  <2>13. QED BY <2>2, <2>12
<1>3. PICK v : Upto(v, NrEntries)
  <2> HIDE DEF Upto
  <2>1. NrEntries \in 0 .. NrEntries BY <1>1
  <2>2. QED BY <1>2, <2>1
<1>4. PICK w : w = [k \in 0 .. NrEntries |-> After(v, k)] OBVIOUS
<1>5. \A k \in 0 .. NrEntries : w[k] = v[k] BY <1>3, <1>4
<1>6. \A k \in 0 .. NrEntries : After(w, k) = After(v, k)
  <2>1. TAKE k \in 0 .. NrEntries
  <2>2. k # 0 => k - 1 \in 0 .. NrEntries BY <1>1
  <2>3. k # 0 => w[k - 1] = v[k - 1] BY <1>5, <2>2
  <2>4. QED BY <2>3
<1>7. w = [k \in 0 .. NrEntries |-> After(w, k)] BY <1>4, <1>6
<1>8. Drawn(w, a, pos, units) BY <1>7 DEF Drawn
<1>9. QED BY <1>8

LEMMA WantedDrawn ==
  ASSUME NEW c, NEW pos, NEW units
  PROVE  Drawn(Wanted(c, pos, units), c.avail, pos, units)
<1> DEFINE D(w) == w = [k \in 0 .. NrEntries |->
                          IF k = 0 THEN units
                          ELSE w[k - 1] - Least2(w[k - 1], c.avail[(pos + k - 1) % NrEntries])]
<1>1. Wanted(c, pos, units) = CHOOSE w : D(w) BY DEF Wanted
<1>2. \E w : D(w)
  <2>1. PICK a : a = c.avail OBVIOUS
  <2>2. PICK w : Drawn(w, a, pos, units) BY DrawnExists
  <2>3. D(w) BY <2>1, <2>2 DEF Drawn
  <2> HIDE DEF D
  <2>4. QED BY <2>3
<1>3. D(CHOOSE w : D(w)) BY <1>2
<1>4. QED BY <1>1, <1>3 DEF Drawn

LEMMA WantedIs ==
  ASSUME NEW c \in Rings, NEW first \in Entries, NEW units \in Nat, NEW w,
         w = Wanted(c, EntryAt(c.head, first), units)
  PROVE  /\ w[0] = units
         /\ \A k \in 0 .. NrEntries : w[k] \in 0 .. units
         /\ \A k \in Entries : first + k < NrEntries =>
              w[k + 1] = w[k] - Least2(w[k], c.avail[EntryAt(c.head, first + k)])
<1>1. /\ NrEntries \in Nat /\ NrEntries > 0 /\ first \in Nat
      /\ \A i \in Entries : i \in Nat /\ i < NrEntries
  BY RingConstants
<1>2. PICK h : h = c.head OBVIOUS
<1>3. h \in Entries /\ \A i \in Entries : c.avail[i] \in Nat
  BY <1>2, RingConstants DEF Rings
<1>4. PICK p : p = EntryAt(h, first) OBVIOUS
<1>5. PICK a : a = c.avail OBVIOUS
<1>6. Drawn(w, a, p, units) BY <1>2, <1>4, <1>5, WantedDrawn
<1>7. first \in 0 .. NrEntries BY <1>1
<1>8. p \in Entries BY <1>3, <1>4, <1>7, EntryIs
<1>9. w[0] = units BY <1>1, <1>6 DEF Drawn
<1>10. ASSUME NEW k \in Entries
       PROVE  w[k + 1] = w[k] - Least2(w[k], a[EntryAt(p, k)])
  <2>1. k + 1 \in 0 .. NrEntries /\ k + 1 # 0 /\ k \in Nat BY <1>1 DEF Entries
  <2>2. w[k + 1] = w[(k + 1) - 1] - Least2(w[(k + 1) - 1], a[(p + (k + 1) - 1) % NrEntries])
    BY <1>6, <2>1 DEF Drawn
  <2>3. (k + 1) - 1 = k /\ p + (k + 1) - 1 = p + k BY <1>1, <1>8, <2>1
  <2>4. QED BY <2>2, <2>3 DEF EntryAt
<1>11. ASSUME NEW k \in Entries, first + k < NrEntries
       PROVE  EntryAt(p, k) = EntryAt(h, first + k)
  <2>1. k \in 0 .. NrEntries BY <1>1
  <2>2. QED BY <1>3, <1>4, <1>7, <1>11, <2>1, EntriesTurn
<1>12. \A k \in 0 .. NrEntries : w[k] \in 0 .. units
  <2> DEFINE Bad == {k \in 0 .. NrEntries : w[k] \notin 0 .. units}
  <2>1. SUFFICES ASSUME Bad # {} PROVE FALSE OBVIOUS
  <2>2. PICK k \in Bad : \A m \in Bad : k <= m
    <3>1. Bad \subseteq Nat BY <1>1
    <3> HIDE DEF Bad
    <3>2. QED BY <2>1, <3>1, NatMin
  <2>3. k \in Nat /\ k \in 0 .. NrEntries /\ w[k] \notin 0 .. units BY <1>1
  <2>4. k # 0 BY <1>9, <2>3
  <2>5. PICK m : m = k - 1 OBVIOUS
  <2>6. m \in Entries /\ m \in 0 .. NrEntries /\ k = m + 1 /\ m < k
    BY <1>1, <2>3, <2>4, <2>5 DEF Entries
  <2>7. w[m] \in 0 .. units BY <2>2, <2>6, <1>1
  <2>8. PICK x : x = w[m] OBVIOUS
  <2>9. PICK y : y = a[EntryAt(p, m)] OBVIOUS
  <2>10. x \in 0 .. units /\ y \in Nat /\ w[k] = x - Least2(x, y)
    <3>1. m \in 0 .. NrEntries BY <2>6
    <3>2. EntryAt(p, m) \in Entries BY <1>8, <3>1, EntryIs
    <3>3. QED BY <1>3, <1>5, <1>10, <2>6, <2>7, <2>8, <2>9, <3>2
  <2>11. w[k] \in 0 .. units BY <2>10 DEF Least2
  <2>12. QED BY <2>3, <2>11
<1>13. QED
  <2>1. \A k \in Entries : first + k < NrEntries =>
          w[k + 1] = w[k] - Least2(w[k], c.avail[EntryAt(c.head, first + k)])
    BY <1>2, <1>5, <1>10, <1>11
  <2>2. QED BY <1>9, <1>12, <2>1

\* The request tries slots first .. first + d of the window.
LEMMA StepsAre ==
  ASSUME NEW c \in Rings, NEW first \in Entries, NEW units \in Nat, NEW w,
         w = Wanted(c, EntryAt(c.head, first), units),
         NEW d, d = Steps(c, EntryAt(c.head, first), units)
  PROVE  /\ d \in Entries /\ first + d < NrEntries
         /\ w[d + 1] = 0 \/ first + d + 1 = NrEntries
         /\ \A k \in 0 .. d - 1 : w[k + 1] # 0
<1>1. /\ NrEntries \in Nat /\ NrEntries > 0 /\ first \in Nat /\ first < NrEntries /\ 0 \in Entries
      /\ \A i \in Entries : i \in Nat /\ i < NrEntries
  BY RingConstants
<1>2. PICK h : h = c.head OBVIOUS
<1>3. h \in Entries BY <1>2 DEF Rings
<1>4. PICK p : p = EntryAt(h, first) OBVIOUS
<1>5. first \in 0 .. NrEntries BY <1>1
<1>6. p \in Entries BY <1>3, <1>4, <1>5, EntryIs
<1> DEFINE over(k) == w[k + 1] = 0 \/ (p + k + 1) % NrEntries = h
           good(k) == w[k + 1] = 0 \/ first + k + 1 = NrEntries
<1>7. ASSUME NEW k \in Entries PROVE over(k) <=> good(k)
  <2>1. k \in Nat /\ k < NrEntries BY <1>1
  <2>2. PICK n : n = k + 1 OBVIOUS
  <2>3. n \in 0 .. NrEntries /\ n > 0 BY <1>1, <2>1, <2>2
  <2>4. (p + k + 1) % NrEntries = EntryAt(p, n)
    <3>1. p + k + 1 = p + n BY <1>1, <1>6, <2>1, <2>2
    <3>2. QED BY <3>1 DEF EntryAt
  <2>5. EntryAt(p, n) = IF first + n < NrEntries THEN EntryAt(h, first + n)
                                                 ELSE EntryAt(h, first + n - NrEntries)
    <3>1. Turns(h, first, p, n) BY <1>3, <1>4, <1>5, <2>3, TurnsOn
    <3>2. QED BY <3>1 DEF Turns
  <2>6. 0 \in 0 .. NrEntries BY <1>1
  <2>7. EntryAt(h, 0) = h /\ \A i, j \in Entries : EntryAt(h, i) = EntryAt(h, j) => i = j
    BY <1>1, <1>3, <2>6, EntryIs, EntriesTurn
  <2>8. CASE first + n < NrEntries
    <3>1. first + n \in Entries /\ first + n # 0 BY <1>1, <2>3, <2>8 DEF Entries
    <3>2. EntryAt(h, first + n) # h BY <1>1, <2>7, <3>1
    <3>3. first + k + 1 # NrEntries BY <1>1, <2>1, <2>2, <2>8
    <3>4. QED BY <2>4, <2>5, <2>8, <3>2, <3>3
  <2>9. CASE ~(first + n < NrEntries)
    <3>1. PICK m : m = first + n - NrEntries OBVIOUS
    <3>2. m \in Entries BY <1>1, <2>1, <2>2, <2>3, <2>9, <3>1 DEF Entries
    <3>3. EntryAt(h, m) = h <=> m = 0 BY <1>1, <2>7, <3>2
    <3>4. m = 0 <=> first + k + 1 = NrEntries BY <1>1, <2>1, <2>2, <3>1
    <3>5. QED BY <2>4, <2>5, <2>9, <3>1, <3>3, <3>4
  <2>10. QED BY <2>8, <2>9
<1>8. d = CHOOSE n \in Entries : over(n) /\ \A k \in 0 .. n - 1 : ~over(k)
  BY <1>2, <1>4 DEF Steps
<1>9. \E n \in Entries : over(n) /\ \A k \in 0 .. n - 1 : ~over(k)
  <2> DEFINE S == {k \in Entries : over(k)}
  <2>1. PICK e : e = NrEntries - 1 - first OBVIOUS
  <2>2. e \in Entries /\ first + e + 1 = NrEntries BY <1>1, <2>1 DEF Entries
  <2>3. e \in S BY <1>7, <2>2
  <2>4. S \subseteq Nat BY <1>1
  <2>5. PICK n \in S : \A k \in S : n <= k
    <3> HIDE DEF S
    <3>1. QED BY <2>3, <2>4, NatMin
  <2>6. n \in Entries /\ over(n) OBVIOUS
  <2>7. ASSUME NEW k \in 0 .. n - 1 PROVE ~over(k)
    <3>1. n \in Nat /\ n < NrEntries BY <1>1, <2>6
    <3>2. k \in Entries /\ k < n BY <1>1, <3>1 DEF Entries
    <3>3. k \notin S
      <4>1. k \in Nat BY <1>1, <3>2
      <4> HIDE DEF S
      <4>2. QED BY <2>5, <3>1, <3>2, <4>1
    <3>4. QED BY <3>2, <3>3
  <2> HIDE DEF over, S
  <2>8. QED BY <2>6, <2>7
<1>10. d \in Entries /\ over(d) /\ \A k \in 0 .. d - 1 : ~over(k)
  <2> HIDE DEF over
  <2>1. QED BY <1>8, <1>9
<1>11. d \in Nat /\ d < NrEntries BY <1>1, <1>10
<1>12. good(d) BY <1>7, <1>10
<1>13. ASSUME NEW k \in 0 .. d - 1 PROVE ~good(k)
  <2>1. k \in Entries BY <1>1, <1>11 DEF Entries
  <2>2. QED BY <1>7, <1>10, <2>1
<1>14. first + d < NrEntries
  <2>1. SUFFICES ASSUME ~(first + d < NrEntries) PROVE FALSE OBVIOUS
  <2>2. PICK e : e = NrEntries - 1 - first OBVIOUS
  <2>3. e \in 0 .. d - 1 /\ first + e + 1 = NrEntries BY <1>1, <1>11, <2>1, <2>2
  <2>4. QED BY <1>13, <2>3
<1>15. QED BY <1>10, <1>12, <1>13, <1>14

\* The credits in slot k of the window, which begins at the head; nothing
\* has been taken past the slots in use.
Left(c, k) == c.avail[EntryAt(c.head, k)]
Fresh(c)   == \A k \in Entries : k >= c.valid => Left(c, k) = MaxCredits

LEMMA LeftIn ==
  ASSUME NEW c \in Rings, NEW k \in Entries
  PROVE  Left(c, k) \in 0 .. MaxCredits /\ Left(c, k) \in Nat
<1>1. k \in 0 .. NrEntries BY RingConstants
<1>2. c.head \in Entries /\ c.avail \in [Entries -> 0 .. MaxCredits] BY DEF Rings
<1>3. EntryAt(c.head, k) \in Entries BY <1>1, <1>2, EntryIs
<1>4. QED BY <1>2, <1>3, RingConstants DEF Left

\* e is c with the credits taken from slots first .. first + d, where w was
\* missing.
Takes(c, e, first, w, d) ==
  /\ e \in Rings /\ e.head = c.head /\ e.time = c.time /\ e.asked = c.asked
  /\ \A j \in Entries :
       Left(e, j) = IF first <= j /\ j <= first + d
                      THEN Left(c, j) - Least2(w[j - first], Left(c, j))
                      ELSE Left(c, j)
  /\ e.valid = IF first + d + 1 > c.valid THEN first + d + 1 ELSE c.valid

LEMMA TakenIs ==
  ASSUME NEW c \in Rings, NEW first \in Entries, NEW units \in Nat, NEW w,
         w = Wanted(c, EntryAt(c.head, first), units),
         NEW d, d = Steps(c, EntryAt(c.head, first), units),
         NEW e, e = Taken(c, EntryAt(c.head, first), units)
  PROVE  Takes(c, e, first, w, d)
<1>1. /\ NrEntries \in Nat /\ NrEntries > 0 /\ first \in Nat /\ first < NrEntries
      /\ \A i \in Entries : i \in Nat /\ i < NrEntries
  BY RingConstants
<1>2. PICK h : h = c.head OBVIOUS
<1>3. h \in Entries /\ h \in Nat BY <1>1, <1>2 DEF Rings
<1>4. PICK p : p = EntryAt(h, first) OBVIOUS
<1>5. first \in 0 .. NrEntries BY <1>1
<1>6. p \in Entries /\ p \in Nat BY <1>1, <1>3, <1>4, <1>5, EntryIs
<1>7. d \in Entries /\ d \in Nat /\ first + d < NrEntries BY <1>1, StepsAre
<1>8. PICK a : a = c.avail OBVIOUS
<1>9. a \in [Entries -> 0 .. MaxCredits] BY <1>8 DEF Rings
<1>10. PICK step : step = [i \in Entries |-> (i - p + NrEntries) % NrEntries] OBVIOUS
<1>11. PICK len : len = ValidLength(c, (p + d) % NrEntries) OBVIOUS
<1>12. PICK b : b = [i \in Entries |-> IF step[i] <= d THEN a[i] - Least2(w[step[i]], a[i])
                                        ELSE a[i]]
  OBVIOUS
<1>13. e = [c EXCEPT !.avail = b, !.valid = IF len > @ THEN len ELSE @]
  <2>1. \A i \in Entries : step[i] = (i - p + NrEntries) % NrEntries BY <1>10
  <2>2. b = [i \in Entries |->
               IF (i - p + NrEntries) % NrEntries <= d
                 THEN a[i] - Least2(w[(i - p + NrEntries) % NrEntries], a[i]) ELSE a[i]]
    BY <1>12, <2>1
  <2>3. Steps(c, p, units) = d /\ Wanted(c, p, units) = w /\ e = Taken(c, p, units)
    BY <1>2, <1>4
  <2>4. QED BY <1>8, <1>11, <2>2, <2>3 DEF Taken, Rings
<1>14. ASSUME NEW j \in Entries
       PROVE  /\ EntryAt(h, j) \in Entries
              /\ step[EntryAt(h, j)] = IF first <= j THEN j - first ELSE j - first + NrEntries
  <2>1. j \in Nat /\ j < NrEntries /\ j \in 0 .. NrEntries BY <1>1
  <2>2. PICK i : i = EntryAt(h, j) OBVIOUS
  <2>3. i \in Entries /\ i \in Nat /\ i < NrEntries BY <1>1, <1>3, <2>1, <2>2, EntryIs
  <2>4. i = IF h + j < NrEntries THEN h + j ELSE h + j - NrEntries BY <1>3, <2>1, <2>2, EntryIs
  <2>5. p = IF h + first < NrEntries THEN h + first ELSE h + first - NrEntries
    BY <1>3, <1>4, <1>5, EntryIs
  <2>6. PICK x : x = i - p + NrEntries OBVIOUS
  <2>7. p < NrEntries BY <1>1, <1>6
  <2>8. x \in Nat /\ x < NrEntries + NrEntries BY <1>1, <1>6, <2>3, <2>6, <2>7
  <2>9. x % NrEntries = IF x < NrEntries THEN x ELSE x - NrEntries
    <3>1. NrEntries \in Nat \ {0} BY <1>1
    <3>2. QED BY <2>8, <3>1, SmallRemainder
  <2>10. (IF x < NrEntries THEN x ELSE x - NrEntries)
           = IF first <= j THEN j - first ELSE j - first + NrEntries
    BY <1>1, <1>3, <2>1, <2>4, <2>5, <2>6
  <2>11. step[i] = x % NrEntries BY <1>10, <2>3, <2>6
  <2>12. QED BY <2>2, <2>3, <2>9, <2>10, <2>11
<1>15. ASSUME NEW j \in Entries
       PROVE  b[EntryAt(h, j)] = IF first <= j /\ j <= first + d
                                   THEN a[EntryAt(h, j)] - Least2(w[j - first], a[EntryAt(h, j)])
                                   ELSE a[EntryAt(h, j)]
  <2>1. j \in Nat /\ j < NrEntries BY <1>1
  <2>2. PICK i : i = EntryAt(h, j) OBVIOUS
  <2>3. i \in Entries /\ step[i] = IF first <= j THEN j - first ELSE j - first + NrEntries
    BY <1>14, <2>2
  <2>4. b[i] = IF step[i] <= d THEN a[i] - Least2(w[step[i]], a[i]) ELSE a[i]
    BY <1>12, <2>3
  <2>5. step[i] <= d <=> first <= j /\ j <= first + d BY <1>1, <1>7, <2>1, <2>3
  <2>6. CASE first <= j /\ j <= first + d BY <2>2, <2>3, <2>4, <2>5, <2>6
  <2>7. CASE ~(first <= j /\ j <= first + d) BY <2>2, <2>4, <2>5, <2>7
  <2>8. QED BY <2>6, <2>7
<1>16. len = first + d + 1
  <2>1. PICK j : j = first + d OBVIOUS
  <2>2. j \in Entries /\ j \in Nat /\ j \in 0 .. NrEntries BY <1>1, <1>7, <2>1 DEF Entries
  <2>3. (p + d) % NrEntries = EntryAt(h, j)
    <3>1. d \in 0 .. NrEntries BY <1>1, <1>7
    <3>2. EntryAt(p, d) = EntryAt(h, j) BY <1>3, <1>4, <1>5, <1>7, <2>1, <3>1, EntriesTurn
    <3>3. QED BY <3>2 DEF EntryAt
  <2>4. PICK q : q = EntryAt(h, j) OBVIOUS
  <2>5. q = IF h + j < NrEntries THEN h + j ELSE h + j - NrEntries BY <1>3, <2>2, <2>4, EntryIs
  <2>6. h < NrEntries /\ j < NrEntries BY <1>1, <1>3, <2>2
  <2>7. len = IF q >= h THEN q - h + 1 ELSE NrEntries - (h - q - 1)
    BY <1>2, <1>11, <2>3, <2>4 DEF ValidLength
  <2>8. QED BY <1>1, <1>3, <1>7, <2>1, <2>2, <2>5, <2>6, <2>7
<1>17. /\ e.head = c.head /\ e.time = c.time /\ e.asked = c.asked /\ e.end = c.end /\ e.avail = b
       /\ e.valid = IF len > c.valid THEN len ELSE c.valid
  BY <1>13 DEF Rings
<1>18. e.valid \in 0 .. NrEntries BY <1>1, <1>7, <1>16, <1>17 DEF Rings
<1>19. b \in [Entries -> 0 .. MaxCredits]
  <2>1. ASSUME NEW i \in Entries PROVE b[i] \in 0 .. MaxCredits
    <3>1. PICK j \in Entries : i = EntryAt(h, j) BY <1>3, EntriesTurn
    <3>2. b[i] = IF first <= j /\ j <= first + d THEN a[i] - Least2(w[j - first], a[i]) ELSE a[i]
      BY <1>15, <3>1
    <3>3. a[i] \in 0 .. MaxCredits BY <1>9
    <3>4. CASE first <= j /\ j <= first + d
      <4>1. j - first \in 0 .. NrEntries BY <1>1, <1>7, <3>4
      <4>2. PICK x : x = w[j - first] OBVIOUS
      <4>3. PICK y : y = a[i] OBVIOUS
      <4>4. x \in Nat BY <4>1, <4>2, WantedIs
      <4>5. b[i] = y - Least2(x, y) BY <3>2, <3>4, <4>2, <4>3
      <4>6. QED BY <3>3, <4>3, <4>4, <4>5, RingConstants DEF Least2
    <3>5. CASE ~(first <= j /\ j <= first + d) BY <3>2, <3>3, <3>5
    <3>6. QED BY <3>4, <3>5
  <2>2. b = [i \in Entries |-> b[i]] BY <1>12
  <2>3. QED BY <2>1, <2>2
<1>20. e \in Rings
  BY <1>13, <1>17, <1>18, <1>19 DEF Rings
<1>21. ASSUME NEW j \in Entries
       PROVE  Left(e, j) = IF first <= j /\ j <= first + d
                             THEN Left(c, j) - Least2(w[j - first], Left(c, j))
                             ELSE Left(c, j)
  <2>1. Left(e, j) = b[EntryAt(h, j)] /\ Left(c, j) = a[EntryAt(h, j)]
    BY <1>2, <1>8, <1>17 DEF Left
  <2>2. QED BY <1>15, <2>1
<1>22. QED BY <1>16, <1>17, <1>20, <1>21 DEF Takes

\* The slots that time has left behind since the last request.
Gone(c, now) == (now \div Interval) - (c.time \div Interval)

LEMMA MovedIs ==
  ASSUME NEW c \in Rings, Fresh(c), NEW now \in Nat, c.time <= now,
         NEW e, e = Forward(c, now)
  PROVE  /\ e \in Rings /\ e.time = now /\ e.asked = c.asked /\ e.end = c.end /\ Fresh(e)
         /\ Gone(c, now) \in Nat
         /\ \A k \in Entries :
              Left(e, k) = IF k + Gone(c, now) < NrEntries THEN Left(c, k + Gone(c, now))
                                                           ELSE MaxCredits
<1>1. /\ NrEntries \in Nat /\ NrEntries > 0 /\ Interval \in Nat \ {0} /\ MaxCredits \in Nat
      /\ \A i \in Entries : i \in Nat /\ i < NrEntries
  BY RingConstants
<1>2. PICK h : h = c.head OBVIOUS
<1>3. PICK v : v = c.valid OBVIOUS
<1>4. /\ h \in Entries /\ h \in Nat /\ h < NrEntries
      /\ v \in 0 .. NrEntries /\ v \in Nat /\ v <= NrEntries /\ c.time \in Nat
  BY <1>1, <1>2, <1>3 DEF Rings
<1>5. PICK gone : gone = Gone(c, now) OBVIOUS
<1>6. gone \in Nat
  <2>1. PICK a : a = c.time \div Interval OBVIOUS
  <2>2. PICK b : b = now \div Interval OBVIOUS
  <2>3. a \in Nat /\ b \in Nat BY <1>1, <1>4, <2>1, <2>2, Division
  <2>4. a <= b BY <1>1, <1>4, <2>1, <2>2, DivisionGrows
  <2>5. gone = b - a BY <1>5, <2>1, <2>2 DEF Gone
  <2>6. QED BY <2>3, <2>4, <2>5
<1>7. PICK offs : offs = Least2(gone, v) OBVIOUS
<1>8. offs \in Nat /\ offs <= v /\ offs <= gone /\ (offs = gone \/ offs = v) /\ offs \in 0 .. NrEntries
  BY <1>1, <1>4, <1>6, <1>7 DEF Least2
<1>9. PICK a : a = c.avail OBVIOUS
<1>10. a \in [Entries -> 0 .. MaxCredits] BY <1>9 DEF Rings
<1>11. PICK P : P = Passed(c, offs) OBVIOUS
<1>12. P = IF h + offs >= NrEntries
             THEN (h .. NrEntries - 1) \cup (0 .. offs - (NrEntries - h) - 1)
             ELSE h .. h + offs - 1
  BY <1>2, <1>11 DEF Passed
<1>13. ASSUME NEW j \in Entries
       PROVE  EntryAt(h, j) \in Entries /\ (EntryAt(h, j) \in P <=> j < offs)
  <2>1. j \in Nat /\ j < NrEntries /\ j \in 0 .. NrEntries BY <1>1
  <2>2. PICK i : i = EntryAt(h, j) OBVIOUS
  <2>3. /\ i \in Entries /\ i \in Nat /\ i < NrEntries
        /\ i = IF h + j < NrEntries THEN h + j ELSE h + j - NrEntries
    BY <1>1, <1>4, <2>1, <2>2, EntryIs
  <2>4. CASE h + offs >= NrEntries
    <3>1. i \in P <=> i >= h \/ i <= offs - (NrEntries - h) - 1
      BY <1>1, <1>4, <1>8, <1>12, <2>3, <2>4
    <3>2. i >= h \/ i <= offs - (NrEntries - h) - 1 <=> j < offs
      BY <1>1, <1>4, <1>8, <2>1, <2>3, <2>4
    <3>3. QED BY <2>2, <2>3, <3>1, <3>2
  <2>5. CASE ~(h + offs >= NrEntries)
    <3>1. i \in P <=> i >= h /\ i <= h + offs - 1
      BY <1>1, <1>4, <1>8, <1>12, <2>3, <2>5
    <3>2. i >= h /\ i <= h + offs - 1 <=> j < offs
      BY <1>1, <1>4, <1>8, <2>1, <2>3, <2>5
    <3>3. QED BY <2>2, <2>3, <3>1, <3>2
  <2>6. QED BY <2>4, <2>5
<1>14. PICK b : b = [i \in Entries |-> IF i \in P THEN MaxCredits ELSE a[i]] OBVIOUS
<1>15. e = [c EXCEPT !.avail = b, !.head = EntryAt(h, offs), !.time = now, !.valid = v - offs]
  <2>1. offs = Least2((now \div Interval) - (c.time \div Interval), c.valid)
    BY <1>3, <1>5, <1>7 DEF Gone
  <2>2. QED BY <1>2, <1>3, <1>9, <1>11, <1>14, <2>1 DEF Forward, EntryAt, Rings
<1>16. PICK g : g = EntryAt(h, offs) OBVIOUS
<1>17. /\ e.head = g /\ e.time = now /\ e.asked = c.asked /\ e.end = c.end /\ e.avail = b
       /\ e.valid = v - offs
  BY <1>15, <1>16 DEF Rings
<1>18. g \in Entries BY <1>4, <1>8, <1>16, EntryIs
<1>19. e \in Rings
  <2>1. b \in [Entries -> 0 .. MaxCredits] BY <1>1, <1>10, <1>14
  <2>2. v - offs \in 0 .. NrEntries BY <1>1, <1>4, <1>8
  <2>3. QED BY <1>15, <1>16, <1>18, <2>1, <2>2 DEF Rings
<1>20. ASSUME NEW k \in Entries
       PROVE  Left(e, k) = IF k + offs < NrEntries THEN Left(c, k + offs) ELSE MaxCredits
  <2>1. k \in Nat /\ k < NrEntries /\ k \in 0 .. NrEntries BY <1>1
  <2>2. EntryAt(g, k) = IF k + offs < NrEntries THEN EntryAt(h, k + offs)
                                                ELSE EntryAt(h, k + offs - NrEntries)
    <3>1. EntryAt(g, k) = IF offs + k < NrEntries THEN EntryAt(h, offs + k)
                                                  ELSE EntryAt(h, offs + k - NrEntries)
      <4>1. h \in Entries /\ offs \in 0 .. NrEntries BY <1>4, <1>8
      <4>2. Turns(h, offs, g, k) BY <1>16, <2>1, <4>1, TurnsOn
      <4>3. QED BY <4>2 DEF Turns
    <3>2. offs + k = k + offs /\ offs + k - NrEntries = k + offs - NrEntries BY <1>1, <1>8, <2>1
    <3>3. QED BY <3>1, <3>2, Zenon
  <2>3. Left(e, k) = b[EntryAt(g, k)] BY <1>17 DEF Left
  <2>4. CASE k + offs < NrEntries
    <3>1. PICK j : j = k + offs OBVIOUS
    <3>2. j \in Entries /\ ~(j < offs) BY <1>1, <1>8, <2>1, <2>4, <3>1 DEF Entries
    <3>3. b[EntryAt(h, j)] = a[EntryAt(h, j)] BY <1>13, <1>14, <3>2
    <3>4. Left(c, j) = a[EntryAt(h, j)] BY <1>2, <1>9 DEF Left
    <3>5. QED BY <2>2, <2>3, <2>4, <3>1, <3>3, <3>4
  <2>5. CASE ~(k + offs < NrEntries)
    <3>1. PICK j : j = k + offs - NrEntries OBVIOUS
    <3>2. j \in Entries /\ j < offs BY <1>1, <1>8, <2>1, <2>5, <3>1 DEF Entries
    <3>3. b[EntryAt(h, j)] = MaxCredits BY <1>13, <1>14, <3>2
    <3>4. QED BY <2>2, <2>3, <2>5, <3>1, <3>3
  <2>6. QED BY <2>4, <2>5
<1>21. Fresh(e)
  <2>1. SUFFICES ASSUME NEW k \in Entries, k >= e.valid PROVE Left(e, k) = MaxCredits
    BY DEF Fresh
  <2>2. k \in Nat /\ k >= v - offs BY <1>1, <1>17, <2>1
  <2>3. CASE k + offs < NrEntries
    <3>1. PICK j : j = k + offs OBVIOUS
    <3>2. j \in Entries /\ j >= v BY <1>1, <1>4, <1>8, <2>2, <2>3, <3>1 DEF Entries
    <3>3. Left(c, j) = MaxCredits BY <1>3, <3>2 DEF Fresh
    <3>4. QED BY <1>20, <2>3, <3>1, <3>3
  <2>4. CASE ~(k + offs < NrEntries) BY <1>20, <2>4
  <2>5. QED BY <2>3, <2>4
<1>22. ASSUME NEW k \in Entries
       PROVE  Left(e, k) = IF k + gone < NrEntries THEN Left(c, k + gone) ELSE MaxCredits
  <2>1. CASE offs = gone BY <1>20, <2>1
  <2>2. CASE offs = v /\ offs # gone
    <3>1. k \in Nat BY <1>1
    <3>2. Left(e, k) = MaxCredits
      <4>1. e.valid = 0 BY <1>4, <1>17, <2>2
      <4>2. QED BY <1>21, <3>1, <4>1 DEF Fresh
    <3>3. ASSUME k + gone < NrEntries PROVE Left(c, k + gone) = MaxCredits
      <4>1. PICK j : j = k + gone OBVIOUS
      <4>2. j \in Entries /\ j >= v BY <1>1, <1>4, <1>6, <1>8, <2>2, <3>1, <3>3, <4>1 DEF Entries
      <4>3. Left(c, j) = MaxCredits BY <1>3, <4>2 DEF Fresh
      <4>4. QED BY <4>1, <4>3
    <3>4. QED BY <3>2, <3>3
  <2>3. QED BY <1>8, <2>1, <2>2
<1>23. QED BY <1>5, <1>6, <1>17, <1>19, <1>21, <1>22

\* The ring when a request comes, and whether it can be served.
Reached(r, now, when, units) == Forward([r EXCEPT !.asked = [at |-> when, units |-> units]], now)
SlotsOff(now, when) == (when \div Interval) - (now \div Interval)
OutOfReach(now, when) == when < now \/ SlotsOff(now, when) >= NrEntries

\* c is r once its window has moved on to the slot of now.
Moves(r, c, now) ==
  /\ c \in Rings /\ Fresh(c) /\ c.time = now /\ Gone(r, now) \in Nat
  /\ \A k \in Entries :
       Left(c, k) = IF k + Gone(r, now) < NrEntries THEN Left(r, k + Gone(r, now))
                                                    ELSE MaxCredits

LEMMA ReachedIs ==
  ASSUME NEW r \in Rings, Fresh(r), NEW now \in Nat, r.time <= now, NEW when \in Nat,
         NEW units \in Nat, NEW c, c = Reached(r, now, when, units)
  PROVE  Moves(r, c, now) /\ c.asked = [at |-> when, units |-> units]
<1>1. PICK a : a = [at |-> when, units |-> units] OBVIOUS
<1>2. a \in [at : Nat, units : Nat] BY <1>1
<1>3. PICK b : b = [r EXCEPT !.asked = a] OBVIOUS
<1>4. /\ b \in Rings /\ b.head = r.head /\ b.valid = r.valid /\ b.time = r.time
      /\ b.avail = r.avail /\ b.asked = a
  BY <1>2, <1>3 DEF Rings
<1>5. \A k : Left(b, k) = Left(r, k) BY <1>4 DEF Left
<1>6. Fresh(b) BY <1>4, <1>5 DEF Fresh
<1>7. c = Forward(b, now) BY <1>1, <1>3 DEF Reached
<1>8. Gone(b, now) = Gone(r, now) BY <1>4 DEF Gone
<1>9. b.time <= now BY <1>4
<1>10. /\ c \in Rings /\ c.time = now /\ c.asked = b.asked /\ Fresh(c)
       /\ Gone(b, now) \in Nat
       /\ \A k \in Entries :
            Left(c, k) = IF k + Gone(b, now) < NrEntries THEN Left(b, k + Gone(b, now))
                                                         ELSE MaxCredits
  BY <1>4, <1>6, <1>7, <1>9, MovedIs
<1>11. QED BY <1>1, <1>4, <1>5, <1>8, <1>10 DEF Moves

LEMMA SlotsOffIn ==
  ASSUME NEW now \in Nat, NEW when \in Nat, ~ OutOfReach(now, when)
  PROVE  SlotsOff(now, when) \in Entries
<1>1. PICK a : a = now \div Interval OBVIOUS
<1>2. PICK b : b = when \div Interval OBVIOUS
<1>3. now <= when BY DEF OutOfReach
<1>4. a \in Nat /\ b \in Nat BY <1>1, <1>2, RingConstants, Division
<1>5. a <= b BY <1>1, <1>2, <1>3, RingConstants, DivisionGrows
<1>6. SlotsOff(now, when) = b - a BY <1>1, <1>2 DEF SlotsOff
<1>7. ~(b - a >= NrEntries) BY <1>6 DEF OutOfReach
<1>8. QED BY <1>4, <1>5, <1>6, <1>7, RingConstants DEF Entries

\* What a request waits for, and when it is done.
Waits(d, units)   == IF d - (units \div MaxCredits) > 0 THEN d - (units \div MaxCredits) ELSE 0
EndOf(when, d, units) == when + XferLat * units + Interval * Waits(d, units)

LEMMA EndOfIn ==
  ASSUME NEW when \in Nat, NEW d \in Nat, NEW units \in Nat
  PROVE  EndOf(when, d, units) \in Nat /\ EndOf(when, d, units) >= when
<1>1. units \div MaxCredits \in Nat BY RingConstants, Division
<1>2. Waits(d, units) \in Nat BY <1>1 DEF Waits
<1>3. PICK x : x = XferLat * units OBVIOUS
<1>4. PICK y : y = Interval * Waits(d, units) OBVIOUS
<1>5. x \in Nat BY <1>3, RingConstants, ProductIn
<1>6. y \in Nat
  <2>1. PICK u : u = Waits(d, units) OBVIOUS
  <2>2. u \in Nat /\ Interval \in Nat BY <1>2, <2>1, RingConstants
  <2>3. Interval * u \in Nat BY <2>2, ProductIn
  <2>4. QED BY <1>4, <2>1, <2>3
<1>7. EndOf(when, d, units) = when + x + y BY <1>3, <1>4 DEF EndOf
<1>8. QED BY <1>5, <1>6, <1>7

LEMMA RequestIs ==
  ASSUME NEW r \in Rings, Fresh(r), NEW now \in Nat, r.time <= now, NEW when \in Nat,
         NEW units \in Nat, NEW c, c = Reached(r, now, when, units),
         NEW q, q = Request(r, now, when, units)
  PROVE  /\ q \in Rings /\ Fresh(q) /\ q.time = now /\ q.asked = [at |-> when, units |-> units]
         /\ q.end >= when
         /\ OutOfReach(now, when) =>
              q.end = when /\ \A k \in Entries : Left(q, k) = Left(c, k)
         /\ ~OutOfReach(now, when) =>
              \E d \in Entries : \E w :
                /\ w = Wanted(c, EntryAt(c.head, SlotsOff(now, when)), units)
                /\ d = Steps(c, EntryAt(c.head, SlotsOff(now, when)), units)
                /\ q.end = EndOf(when, d, units)
                /\ \A j \in Entries :
                     Left(q, j) = IF SlotsOff(now, when) <= j /\ j <= SlotsOff(now, when) + d
                                    THEN Left(c, j) - Least2(w[j - SlotsOff(now, when)], Left(c, j))
                                    ELSE Left(c, j)
<1>1. c \in Rings /\ Fresh(c) /\ c.time = now /\ c.asked = [at |-> when, units |-> units]
  BY ReachedIs DEF Moves
<1>2. PICK first : first = SlotsOff(now, when) OBVIOUS
<1>3. PICK p : p = EntryAt(c.head, first) OBVIOUS
<1>4. p = (c.head + ((when \div Interval) - (now \div Interval))) % NrEntries
  BY <1>2, <1>3 DEF EntryAt, SlotsOff
<1>5. q = IF OutOfReach(now, when) THEN [c EXCEPT !.end = when]
          ELSE [Taken(c, p, units) EXCEPT !.end = EndOf(when, Steps(c, p, units), units)]
  BY <1>4 DEF Request, Reached, OutOfReach, SlotsOff, EndOf, Waits
<1>6. CASE OutOfReach(now, when)
  <2>1. q = [c EXCEPT !.end = when] BY <1>5, <1>6
  <2>2. /\ q \in Rings /\ q.head = c.head /\ q.valid = c.valid /\ q.time = c.time
        /\ q.avail = c.avail /\ q.asked = c.asked /\ q.end = when
    BY <1>1, <2>1 DEF Rings
  <2>3. \A k : Left(q, k) = Left(c, k) BY <2>2 DEF Left
  <2>4. Fresh(q) BY <1>1, <2>2, <2>3 DEF Fresh
  <2>5. QED BY <1>1, <1>6, <2>2, <2>3, <2>4
<1>7. CASE ~OutOfReach(now, when)
  <2>1. first \in Entries BY <1>2, <1>7, SlotsOffIn
  <2>2. PICK w : w = Wanted(c, p, units) OBVIOUS
  <2>3. PICK d : d = Steps(c, p, units) OBVIOUS
  <2>4. PICK e : e = Taken(c, p, units) OBVIOUS
  <2>5. /\ e \in Rings /\ e.head = c.head /\ e.time = c.time /\ e.asked = c.asked
        /\ \A j \in Entries :
             Left(e, j) = IF first <= j /\ j <= first + d
                            THEN Left(c, j) - Least2(w[j - first], Left(c, j))
                            ELSE Left(c, j)
        /\ e.valid = IF first + d + 1 > c.valid THEN first + d + 1 ELSE c.valid
    <3>1. /\ w = Wanted(c, EntryAt(c.head, first), units)
          /\ d = Steps(c, EntryAt(c.head, first), units)
          /\ e = Taken(c, EntryAt(c.head, first), units)
      BY <1>3, <2>2, <2>3, <2>4
    <3>2. Takes(c, e, first, w, d) BY <1>1, <2>1, <3>1, TakenIs
    <3>3. QED BY <3>2 DEF Takes
  <2>6. d \in Entries /\ d \in Nat /\ first \in Nat
    BY <1>1, <1>3, <2>1, <2>2, <2>3, StepsAre, RingConstants
  <2>7. PICK t : t = EndOf(when, d, units) OBVIOUS
  <2>8. t \in Nat /\ t >= when BY <2>6, <2>7, EndOfIn
  <2>9. q = [e EXCEPT !.end = t] BY <1>5, <1>7, <2>3, <2>4, <2>7
  <2>10. /\ q \in Rings /\ q.head = e.head /\ q.valid = e.valid /\ q.time = e.time
         /\ q.avail = e.avail /\ q.asked = e.asked /\ q.end = t
    BY <2>5, <2>8, <2>9 DEF Rings
  <2>11. \A k : Left(q, k) = Left(e, k) BY <2>10 DEF Left
  <2>12. Fresh(q)
    <3>1. SUFFICES ASSUME NEW k \in Entries, k >= q.valid PROVE Left(q, k) = MaxCredits
      BY DEF Fresh
    <3>2. c.valid \in Nat /\ k \in Nat BY <1>1, RingConstants DEF Rings
    <3>3. k >= c.valid /\ ~(k <= first + d) BY <2>5, <2>6, <2>10, <3>1, <3>2
    <3>4. Left(e, k) = Left(c, k) BY <2>5, <3>3
    <3>5. QED BY <1>1, <2>11, <3>3, <3>4 DEF Fresh
  <2>13. \A j \in Entries :
            Left(q, j) = IF first <= j /\ j <= first + d
                           THEN Left(c, j) - Least2(w[j - first], Left(c, j))
                           ELSE Left(c, j)
    BY <2>5, <2>11
  <2>14. /\ q \in Rings /\ Fresh(q) /\ q.time = now /\ q.end >= when
         /\ q.asked = [at |-> when, units |-> units]
    BY <1>1, <2>5, <2>8, <2>10, <2>12
  <2>15. /\ w = Wanted(c, EntryAt(c.head, first), units)
         /\ d = Steps(c, EntryAt(c.head, first), units) /\ q.end = EndOf(when, d, units)
    BY <1>3, <2>2, <2>3, <2>7, <2>10
  <2>16. QED BY <1>2, <1>7, <2>6, <2>13, <2>14, <2>15
<1>8. QED BY <1>6, <1>7

(***************************************************************************)
(* What a request takes, in the order of the slots                         *)
(***************************************************************************)
\* Of the credits m in the window, n are left; w[k] was missing after k slots
\* from the first on, of which d + 1 were tried.
Serves(m, n, w, first, d, units) ==
  /\ first \in Entries /\ d \in Entries /\ first + d < NrEntries /\ units \in Nat \ {0}
  /\ m \in [Entries -> 0 .. MaxCredits]
  /\ w[0] = units /\ \A k \in 0 .. NrEntries : w[k] \in 0 .. units
  /\ \A k \in Entries : first + k < NrEntries => w[k + 1] = w[k] - Least2(w[k], m[first + k])
  /\ w[d + 1] = 0 \/ first + d + 1 = NrEntries
  /\ \A k \in 0 .. d - 1 : w[k + 1] # 0
  /\ n \in [Entries -> Int]
  /\ \A j \in Entries : n[j] = IF first <= j /\ j <= first + d
                                THEN m[j] - Least2(w[j - first], m[j]) ELSE m[j]

Took(m, n) == [k \in Entries |-> m[k] - n[k]]

LEMMA TookIs ==
  ASSUME NEW m, NEW n, NEW w, NEW first, NEW d, NEW units, Serves(m, n, w, first, d, units),
         NEW t, t = Took(m, n)
  PROVE  \A j \in Entries :
           /\ t[j] \in Nat
           /\ IF first <= j /\ j <= first + d
                THEN /\ t[j] = w[j - first] - w[(j - first) + 1]
                     /\ n[j] > 0 => w[(j - first) + 1] = 0
                ELSE t[j] = 0
<1>1. TAKE j \in Entries
<1>2. /\ first \in Nat /\ d \in Nat /\ j \in Nat /\ NrEntries \in Nat /\ first + d < NrEntries
  BY RingConstants DEF Serves
<1>3. m[j] \in Nat /\ t[j] = m[j] - n[j] BY RingConstants DEF Serves, Took
<1>4. CASE first <= j /\ j <= first + d
  <2>1. PICK k : k = j - first OBVIOUS
  <2>2. k \in Nat /\ k \in Entries /\ first + k = j /\ j < NrEntries /\ k \in 0 .. NrEntries
    BY <1>2, <1>4, <2>1 DEF Entries
  <2>3. w[k + 1] = w[k] - Least2(w[k], m[j]) BY <2>2 DEF Serves
  <2>4. n[j] = m[j] - Least2(w[k], m[j]) BY <1>4, <2>1 DEF Serves
  <2>5. PICK x : x = w[k] OBVIOUS
  <2>6. x \in Nat
    <3>1. x \in 0 .. units /\ units \in Nat BY <2>2, <2>5 DEF Serves
    <3>2. QED BY <3>1
  <2>7. PICK y : y = m[j] OBVIOUS
  <2>8. y \in Nat /\ t[j] = y - n[j] BY <1>3, <2>7
  <2>9. PICK z : z = Least2(x, y) OBVIOUS
  <2>10. z \in Nat /\ z <= x /\ (z < y => z = x) BY <2>6, <2>8, <2>9 DEF Least2
  <2>11. w[k + 1] = x - z /\ n[j] = y - z BY <2>3, <2>4, <2>5, <2>7, <2>9
  <2>12. t[j] = z /\ t[j] = w[k] - w[k + 1] BY <2>5, <2>6, <2>8, <2>10, <2>11
  <2>13. n[j] > 0 => w[k + 1] = 0 BY <2>6, <2>8, <2>10, <2>11
  <2>14. QED BY <1>4, <2>1, <2>10, <2>12, <2>13
<1>5. CASE ~(first <= j /\ j <= first + d)
  <2>1. n[j] = m[j] BY <1>5 DEF Serves
  <2>2. QED BY <1>3, <1>5, <2>1
<1>6. QED BY <1>4, <1>5

\* What is granted, as a sum over the slots.
LEMMA GrantedIs ==
  ASSUME NEW m, NEW n, NEW w, NEW first, NEW d, NEW units, Serves(m, n, w, first, d, units),
         NEW t, t = Took(m, n), NEW g, Sums(Entries, t, g)
  PROVE  g[Entries] = units - w[d + 1]
<1>1. /\ first \in Nat /\ d \in Nat /\ NrEntries \in Nat /\ first + d < NrEntries
      /\ first \in 0 .. NrEntries /\ d + 1 \in 0 .. NrEntries /\ units \in Nat
      /\ \A j \in Entries : j \in Nat /\ j < NrEntries
  BY RingConstants DEF Serves
<1>2. \A k \in 0 .. NrEntries : w[k] \in Nat BY <1>1 DEF Serves
<1>3. PICK p : p = [k \in 0 .. NrEntries |->
                     IF k <= first THEN 0
                     ELSE IF k <= first + d + 1 THEN units - w[k - first] ELSE units - w[d + 1]]
  OBVIOUS
<1>4. \A k \in 0 .. NrEntries : p[k] = IF k <= first THEN 0
                     ELSE IF k <= first + d + 1 THEN units - w[k - first] ELSE units - w[d + 1]
  BY <1>3
<1>5. ASSUME NEW k \in 0 .. NrEntries PROVE p[k] \in Int
  <2>1. CASE k <= first BY <1>4, <2>1
  <2>2. CASE ~(k <= first) /\ k <= first + d + 1
    <3>1. k - first \in 0 .. NrEntries BY <1>1, <2>2
    <3>2. QED BY <1>1, <1>2, <1>4, <2>2, <3>1
  <2>3. CASE ~(k <= first) /\ ~(k <= first + d + 1)
    BY <1>1, <1>2, <1>4, <2>3
  <2>4. QED BY <2>1, <2>2, <2>3
<1>6. ASSUME NEW k \in Entries PROVE t[k] = p[k + 1] - p[k]
  <2>1. k \in Nat /\ k < NrEntries BY <1>1
  <2>2. PICK l : l = k + 1 OBVIOUS
  <2>3. k \in 0 .. NrEntries /\ l \in 0 .. NrEntries BY <1>1, <2>1, <2>2
  <2>4. PICK pk : pk = p[k] OBVIOUS
  <2>5. PICK pl : pl = p[l] OBVIOUS
  <2>6. /\ pk = IF k <= first THEN 0
                ELSE IF k <= first + d + 1 THEN units - w[k - first] ELSE units - w[d + 1]
        /\ pl = IF l <= first THEN 0
                ELSE IF l <= first + d + 1 THEN units - w[l - first] ELSE units - w[d + 1]
    BY <1>4, <2>3, <2>4, <2>5
  <2>7. IF first <= k /\ k <= first + d THEN t[k] = w[k - first] - w[(k - first) + 1]
                                       ELSE t[k] = 0
    BY TookIs
  <2>8. CASE k < first BY <1>1, <2>1, <2>2, <2>4, <2>5, <2>6, <2>7, <2>8
  <2>9. CASE first <= k /\ k <= first + d
    <3>1. PICK a : a = k - first OBVIOUS
    <3>2. a \in 0 .. NrEntries /\ a + 1 \in 0 .. NrEntries /\ l - first = a + 1
      BY <1>1, <2>1, <2>2, <2>9, <3>1
    <3>3. t[k] = w[a] - w[a + 1] BY <2>7, <2>9, <3>1
    <3>4. pl = units - w[a + 1] BY <1>1, <2>1, <2>2, <2>6, <2>9, <3>2
    <3>5. w[a] \in Nat /\ w[a + 1] \in Nat BY <1>2, <3>2
    <3>6. pk = units - w[a]
      <4>1. CASE k = first
        <5>1. a = 0 /\ w[0] = units BY <1>1, <3>1, <4>1 DEF Serves
        <5>2. pk = 0 BY <1>1, <2>6, <4>1
        <5>3. QED BY <1>1, <5>1, <5>2
      <4>2. CASE k # first BY <1>1, <2>1, <2>6, <2>9, <3>1, <4>2
      <4>3. QED BY <4>1, <4>2
    <3>7. QED BY <1>1, <2>2, <2>4, <2>5, <3>3, <3>4, <3>5, <3>6
  <2>10. CASE k > first + d
    <3>1. t[k] = 0 BY <1>1, <2>1, <2>7, <2>10
    <3>2. pl = units - w[d + 1] BY <1>1, <2>1, <2>2, <2>6, <2>10
    <3>3. pk = units - w[d + 1]
      <4>1. CASE k = first + d + 1
        <5>1. k - first = d + 1 BY <1>1, <4>1
        <5>2. QED BY <1>1, <2>1, <2>6, <2>10, <4>1, <5>1
      <4>2. CASE k # first + d + 1 BY <1>1, <2>1, <2>6, <2>10, <4>2
      <4>3. QED BY <4>1, <4>2
    <3>4. w[d + 1] \in Nat BY <1>1, <1>2
    <3>5. QED BY <1>1, <2>2, <2>4, <2>5, <3>1, <3>2, <3>3, <3>4
  <2>11. QED BY <1>1, <2>1, <2>8, <2>9, <2>10
<1>7. Differences(t, p, NrEntries)
  <2>1. 0 .. NrEntries - 1 = Entries BY DEF Entries
  <2>2. QED BY <1>5, <1>6, <2>1 DEF Differences
<1>8. g[Entries] = p[NrEntries] - p[0]
  <2>1. Sums(0 .. NrEntries - 1, t, g) BY DEF Entries
  <2>2. g[0 .. NrEntries - 1] = p[NrEntries] - p[0] BY <1>1, <1>7, <2>1, SumTelescopes
  <2>3. QED BY <2>2 DEF Entries
<1>9. p[0] = 0
  <2>1. 0 \in 0 .. NrEntries BY <1>1
  <2>2. QED BY <1>1, <1>4, <2>1
<1>10. p[NrEntries] = units - w[d + 1]
  <2>1. NrEntries \in 0 .. NrEntries BY <1>1
  <2>2. PICK x : x = p[NrEntries] OBVIOUS
  <2>3. x = IF NrEntries <= first THEN 0
            ELSE IF NrEntries <= first + d + 1 THEN units - w[NrEntries - first]
                 ELSE units - w[d + 1]
    BY <1>4, <2>1, <2>2
  <2>4. CASE NrEntries = first + d + 1
    <3>1. NrEntries - first = d + 1 BY <1>1, <2>4
    <3>2. QED BY <1>1, <2>2, <2>3, <2>4, <3>1
  <2>5. CASE NrEntries # first + d + 1 BY <1>1, <2>2, <2>3, <2>5
  <2>6. QED BY <2>4, <2>5
<1>11. w[d + 1] \in Nat BY <1>1, <1>2
<1>12. QED BY <1>1, <1>8, <1>9, <1>10, <1>11

LEMMA WindowSlots == Window!Slots = Entries
BY DEF Window!Slots, Entries

LEMMA EntriesFinite == IsFiniteSet(Entries)
<1>1. PICK n : n = NrEntries - 1 OBVIOUS
<1>2. 0 \in Int /\ n \in Int BY <1>1, RingConstants
<1>3. IsFiniteSet(0 .. n) BY <1>2, FS_Interval
<1>4. QED BY <1>1, <1>3 DEF Entries

Granted(t) == Window!MapThenSumSet(LAMBDA k : t[k], Entries)

LEMMA SummedOver ==
  ASSUME NEW t, t = [k \in Entries |-> t[k]]
  PROVE  \E g : Sums(Entries, t, g) /\ Granted(t) = g[Entries]
<1> DEFINE S == Entries
           P(h) == h = [s \in SUBSET S |->
                          IF s = {} THEN 0
                          ELSE t[CHOOSE x \in s : TRUE] + h[s \ {CHOOSE x \in s : TRUE}]]
           c == CHOOSE h : P(h)
<1>1. Granted(t) = c[S]
  BY DEF Granted, Window!MapThenSumSet, Window!MapThenFoldSet
<1>2. IsFiniteSet(S) BY EntriesFinite
<1> HIDE DEF S
<1>3. PICK g : Sums(S, t, g) BY <1>2, SumsExist
<1>4. P(g) BY <1>3 DEF Sums
<1>5. P(c)
  <2> HIDE DEF P
  <2>1. QED BY <1>4
<1>6. Sums(S, t, c) BY <1>5 DEF Sums
<1> HIDE DEF c
<1>7. QED BY <1>1, <1>6 DEF S

LEMMA ServedInOrder ==
  ASSUME NEW m, NEW n, NEW w, NEW first, NEW d, NEW units, Serves(m, n, w, first, d, units),
         NEW t, t = Took(m, n)
  PROVE  /\ Window!FirstCome(first, units, n, t)
         /\ Window!LastSlot(first, units, t) = first + d
<1>1. /\ first \in Nat /\ d \in Nat /\ NrEntries \in Nat /\ first + d < NrEntries
      /\ d + 1 \in 0 .. NrEntries /\ units \in Nat /\ units > 0
      /\ \A j \in Entries : j \in Nat /\ j < NrEntries
  BY RingConstants DEF Serves
<1>2. \A k \in 0 .. NrEntries : w[k] \in 0 .. units BY DEF Serves
<1>3. PICK last : last = w[d + 1] OBVIOUS
<1>4. last \in Nat /\ last <= units BY <1>1, <1>2, <1>3
<1>5. t = [k \in Entries |-> t[k]] BY DEF Took
<1>6. PICK g : Sums(Entries, t, g) /\ Granted(t) = g[Entries]
  BY <1>5, SummedOver
<1>7. g[Entries] = units - last BY <1>3, <1>6, GrantedIs
<1>8. PICK granted : granted = Granted(t) OBVIOUS
<1>9. granted = units - last BY <1>6, <1>7, <1>8
<1>10. \A j \in Entries :
         /\ t[j] \in Nat
         /\ IF first <= j /\ j <= first + d
              THEN /\ t[j] = w[j - first] - w[(j - first) + 1]
                   /\ n[j] > 0 => w[(j - first) + 1] = 0
              ELSE t[j] = 0
  BY TookIs
<1>11. last = 0 \/ first + d + 1 = NrEntries BY <1>3 DEF Serves
<1>12. \A k \in 0 .. d - 1 : w[k + 1] # 0 BY DEF Serves
<1>13. \A j \in Entries : t[j] > 0 => first <= j /\ j <= first + d BY <1>10
<1>14. ASSUME NEW k \in first .. NrEntries - 1, n[k] > 0
       PROVE  last = 0 /\ first + d <= k
  <2>1. k \in Entries /\ k \in Nat BY <1>1 DEF Entries
  <2>2. CASE k < first + d
    <3>1. PICK a : a = k - first OBVIOUS
    <3>2. a \in 0 .. d - 1 BY <1>1, <2>1, <2>2, <3>1, <1>14
    <3>3. w[a + 1] = 0 BY <1>1, <1>10, <1>14, <2>1, <2>2, <3>1
    <3>4. QED BY <1>12, <3>2, <3>3
  <2>3. CASE k = first + d
    <3>1. k - first = d BY <1>1, <2>3
    <3>2. w[d + 1] = 0 BY <1>1, <1>10, <1>14, <2>1, <2>3, <3>1
    <3>3. QED BY <1>1, <1>3, <2>3, <3>2
  <2>4. CASE k > first + d BY <1>1, <1>11, <2>1, <2>4
  <2>5. QED BY <1>1, <2>1, <2>2, <2>3, <2>4
<1>15. Window!FirstCome(first, units, n, t)
  <2>1. \A k \in Entries : t[k] >= 0 /\ (t[k] > 0 => k >= first)
    BY <1>1, <1>10, <1>13
  <2>2. ASSUME NEW k \in first .. NrEntries - 1, n[k] > 0
        PROVE  granted = units /\ \A j \in first .. NrEntries - 1 : t[j] > 0 => j <= k
    <3>1. last = 0 /\ first + d <= k BY <1>14, <2>2
    <3>2. granted = units BY <1>1, <1>9, <3>1
    <3>3. ASSUME NEW j \in first .. NrEntries - 1, t[j] > 0 PROVE j <= k
      <4>1. j \in Entries /\ j \in Nat /\ k \in Nat BY <1>1 DEF Entries
      <4>2. j <= first + d BY <1>13, <3>3, <4>1
      <4>3. QED BY <1>1, <3>1, <4>1, <4>2
    <3>4. QED BY <3>2, <3>3
  <2>3. granted <= units BY <1>1, <1>4, <1>9
  <2>4. QED BY <1>8, <2>1, <2>2, <2>3, WindowSlots DEF Granted, Window!FirstCome
<1>16. Window!LastSlot(first, units, t) =
         IF granted < units THEN NrEntries - 1
         ELSE CHOOSE k \in first .. NrEntries - 1 :
                t[k] > 0 /\ \A j \in Entries : t[j] > 0 => j <= k
  BY <1>8, WindowSlots DEF Granted, Window!LastSlot
<1>17. CASE last # 0
  <2>1. granted < units /\ first + d = NrEntries - 1 BY <1>1, <1>4, <1>9, <1>11, <1>17
  <2>2. QED BY <1>15, <1>16, <2>1
<1>18. CASE last = 0
  <2>1. ~(granted < units) BY <1>1, <1>9, <1>18
  <2>2. PICK e : e = first + d OBVIOUS
  <2>3. e \in first .. NrEntries - 1 /\ e \in Entries /\ e - first = d /\ e \in Nat
    BY <1>1, <2>2 DEF Entries
  <2>4. w[d] \in Nat /\ w[d] # 0
    <3>1. d \in 0 .. NrEntries BY <1>1
    <3>2. CASE d = 0 BY <1>1, <3>2 DEF Serves
    <3>3. CASE d # 0
      <4>1. PICK a : a = d - 1 OBVIOUS
      <4>2. a \in 0 .. d - 1 /\ a + 1 = d BY <1>1, <3>3, <4>1
      <4>3. w[a + 1] # 0 BY <1>12, <4>2
      <4>4. QED BY <1>1, <1>2, <3>1, <4>2, <4>3
    <3>4. QED BY <3>2, <3>3
  <2>5. t[e] = w[d] - w[d + 1]
    <3>1. first <= e /\ e <= first + d BY <1>1, <2>2
    <3>2. QED BY <1>10, <2>3, <3>1
  <2>6. t[e] > 0
    <3>1. w[d + 1] = 0 BY <1>3, <1>18
    <3>2. QED BY <2>4, <2>5, <3>1
  <2>7. \A j \in Entries : t[j] > 0 => j <= e BY <1>13, <2>2
  <2> DEFINE Is(k) == t[k] > 0 /\ \A j \in Entries : t[j] > 0 => j <= k
  <2>8. Is(e) BY <2>6, <2>7
  <2>9. ASSUME NEW k \in first .. NrEntries - 1, Is(k) PROVE k = e
    <3>1. k \in Entries /\ k \in Nat BY <1>1 DEF Entries
    <3>2. k <= e BY <2>7, <2>9, <3>1
    <3>3. e <= k BY <2>3, <2>6, <2>9
    <3>4. QED BY <2>3, <3>1, <3>2, <3>3
  <2>10. (CHOOSE k \in first .. NrEntries - 1 : Is(k)) = e
    <3> HIDE DEF Is
    <3>1. QED BY <2>3, <2>8, <2>9
  <2>11. QED BY <1>15, <1>16, <2>1, <2>2, <2>10
<1>19. QED BY <1>17, <1>18

(***************************************************************************)
(* A request as a step of the window                                       *)
(***************************************************************************)
RingInv == /\ clock \in Nat /\ ring \in [Buses -> Rings]
           /\ \A b \in Buses : Fresh(ring[b]) /\ ring[b].time <= clock

\* The ring of bus b serves a request.
Served(b, when, units) == ring' = [ring EXCEPT ![b] = Request(ring[b], clock, when, units)]

\* The credits in the window of a ring, slot by slot.
Credits(r) == [k \in Entries |-> Left(r, k)]

LEMMA MovedWindow ==
  ASSUME NEW b \in Buses, NEW now, NEW r, r = ring[b], NEW c, Moves(r, c, now)
  PROVE  Window!Moved(b, now) = Credits(c)
<1>1. PICK gone : gone = Gone(r, now) OBVIOUS
<1>2. gone \in Nat BY <1>1 DEF Moves
<1>3. gone = (now \div Interval) - (ring[b].time \div Interval) BY <1>1 DEF Gone
<1>4. Window!Moved(b, now)
        = [k \in Entries |-> IF k + gone < NrEntries
                               THEN [i \in Entries |-> ring[b].avail[(ring[b].head + i) % NrEntries]][k + gone]
                               ELSE MaxCredits]
  BY <1>3, WindowSlots DEF Window!Moved, Window!Slot
<1>5. \A k \in Entries : k + gone < NrEntries => k + gone \in Entries
  BY <1>2, RingConstants DEF Entries
<1>6. \A i : Left(r, i) = ring[b].avail[(ring[b].head + i) % NrEntries] BY DEF Left, EntryAt
<1>7. \A k \in Entries : Left(c, k) = IF k + gone < NrEntries THEN Left(r, k + gone) ELSE MaxCredits
  BY <1>1 DEF Moves
<1>8. \A k \in Entries :
        Window!Moved(b, now)[k] = IF k + gone < NrEntries THEN Left(r, k + gone) ELSE MaxCredits
  BY <1>4, <1>5, <1>6
<1>9. QED BY <1>4, <1>7, <1>8 DEF Credits

LEMMA ServeStep ==
  ASSUME RingInv, NEW b \in Buses, NEW when \in Nat, NEW units \in Nat \ {0}, Served(b, when, units)
  PROVE  /\ ring' \in [Buses -> Rings]
         /\ \A x \in Buses : Fresh(ring'[x]) /\ ring'[x].time <= clock
         /\ ring'[b].end \in Nat /\ ring'[b].end >= when
         /\ Window!Next
<1>1. PICK r : r = ring[b] OBVIOUS
<1>2. PICK now : now = clock OBVIOUS
<1>3. PICK R : R = ring' OBVIOUS
<1>4. PICK q : q = Request(r, now, when, units) OBVIOUS
<1>5. PICK c : c = Reached(r, now, when, units) OBVIOUS
<1>6. r \in Rings /\ Fresh(r) /\ now \in Nat /\ r.time <= now /\ units \in Nat /\ ring \in [Buses -> Rings]
  BY <1>1, <1>2 DEF RingInv
<1>7. /\ q \in Rings /\ Fresh(q) /\ q.time = now /\ q.asked = [at |-> when, units |-> units]
      /\ q.end >= when
      /\ OutOfReach(now, when) => q.end = when /\ \A k \in Entries : Left(q, k) = Left(c, k)
      /\ ~OutOfReach(now, when) =>
           \E d \in Entries : \E w :
             /\ w = Wanted(c, EntryAt(c.head, SlotsOff(now, when)), units)
             /\ d = Steps(c, EntryAt(c.head, SlotsOff(now, when)), units)
             /\ q.end = EndOf(when, d, units)
             /\ \A j \in Entries :
                  Left(q, j) = IF SlotsOff(now, when) <= j /\ j <= SlotsOff(now, when) + d
                                 THEN Left(c, j) - Least2(w[j - SlotsOff(now, when)], Left(c, j))
                                 ELSE Left(c, j)
  BY <1>4, <1>5, <1>6, RequestIs
<1>8. Moves(r, c, now) BY <1>5, <1>6, ReachedIs
<1>9. R = [ring EXCEPT ![b] = q] BY <1>1, <1>2, <1>3, <1>4 DEF Served
<1>10. R[b] = q /\ \A x \in Buses \ {b} : R[x] = ring[x] BY <1>6, <1>9
<1>11. R \in [Buses -> Rings] BY <1>6, <1>7, <1>9
<1>12. \A x \in Buses : Fresh(R[x]) /\ R[x].time <= clock
  <2>1. TAKE x \in Buses
  <2>2. CASE x = b BY <1>2, <1>6, <1>7, <1>10, <2>2
  <2>3. CASE x # b BY <1>10, <2>3 DEF RingInv
  <2>4. QED BY <2>2, <2>3
<1>13. q.end \in Nat BY <1>7 DEF Rings
<1> DEFINE nowF   == [x \in Buses |-> ring[x].time]
           askedF == [x \in Buses |-> ring[x].asked]
           endF   == [x \in Buses |-> ring[x].end]
           freeF  == [x \in Buses |-> [k \in Entries |-> ring[x].avail[(ring[x].head + k) % NrEntries]]]
<1>14. \A x \in Buses : freeF[x] = Credits(ring[x])
  BY DEF Credits, Left, EntryAt
<1>15. \A x \in Buses : freeF'[x] = Credits(R[x])
  BY <1>3 DEF Credits, Left, EntryAt
<1>16. \A x \in Buses : /\ nowF[x] = ring[x].time /\ askedF[x] = ring[x].asked /\ endF[x] = ring[x].end
                        /\ nowF'[x] = R[x].time /\ askedF'[x] = R[x].asked /\ endF'[x] = R[x].end
  BY <1>3
<1> HIDE DEF nowF, askedF, endF, freeF
<1>17. Window!Moved(b, now) = Credits(c) BY <1>1, <1>8, MovedWindow
<1>18. /\ nowF'[b] >= nowF[b] /\ askedF'[b].units > 0 /\ nowF'[b] = now
       /\ askedF'[b].at = when /\ askedF'[b].units = units /\ endF'[b] = q.end
       /\ freeF'[b] = Credits(q)
  <2>1. r.time \in Nat BY <1>6 DEF Rings
  <2>2. QED BY <1>1, <1>6, <1>7, <1>10, <1>15, <1>16, <2>1
<1>19. \A x \in Buses \ {b} : /\ nowF'[x] = nowF[x] /\ freeF'[x] = freeF[x]
                              /\ askedF'[x] = askedF[x] /\ endF'[x] = endF[x]
  BY <1>10, <1>14, <1>15, <1>16
<1>20. PICK first : first = SlotsOff(now, when) OBVIOUS
<1>21. first = Window!Slot(when) - Window!Slot(now) BY <1>20 DEF SlotsOff, Window!Slot
<1>22. PICK m : m = Credits(c) OBVIOUS
<1>23. PICK n : n = Credits(q) OBVIOUS
<1>24. PICK t : t = Took(m, n) OBVIOUS
<1>25. OutOfReach(now, when) <=> when < now \/ first >= NrEntries BY <1>20 DEF OutOfReach
<1>26. OutOfReach(now, when) => n = m /\ q.end = when BY <1>7, <1>22, <1>23 DEF Credits
<1>27. ~OutOfReach(now, when) =>
         /\ n \in [Entries -> 0 .. MaxCredits]
         /\ Window!FirstCome(first, units, n, t)
         /\ q.end = when + XferLat * units
                     + Interval * (IF Window!LastSlot(first, units, t) - first - (units \div MaxCredits) > 0
                                     THEN Window!LastSlot(first, units, t) - first - (units \div MaxCredits)
                                     ELSE 0)
  <2>1. SUFFICES ASSUME ~OutOfReach(now, when)
                 PROVE  /\ n \in [Entries -> 0 .. MaxCredits]
                        /\ Window!FirstCome(first, units, n, t)
                        /\ q.end = when + XferLat * units + Interval *
                              (IF Window!LastSlot(first, units, t) - first - (units \div MaxCredits) > 0
                                 THEN Window!LastSlot(first, units, t) - first - (units \div MaxCredits)
                                 ELSE 0)
    OBVIOUS
  <2>2. first \in Entries BY <1>6, <1>20, <2>1, SlotsOffIn
  <2>3. PICK d \in Entries : \E w :
          /\ w = Wanted(c, EntryAt(c.head, first), units)
          /\ d = Steps(c, EntryAt(c.head, first), units)
          /\ q.end = EndOf(when, d, units)
          /\ \A j \in Entries : Left(q, j) = IF first <= j /\ j <= first + d
                                              THEN Left(c, j) - Least2(w[j - first], Left(c, j))
                                              ELSE Left(c, j)
    BY <1>7, <1>20, <2>1
  <2>4. PICK w :
          /\ w = Wanted(c, EntryAt(c.head, first), units)
          /\ d = Steps(c, EntryAt(c.head, first), units)
          /\ q.end = EndOf(when, d, units)
          /\ \A j \in Entries : Left(q, j) = IF first <= j /\ j <= first + d
                                              THEN Left(c, j) - Least2(w[j - first], Left(c, j))
                                              ELSE Left(c, j)
    BY <2>3
  <2>5. \A k \in Entries : m[k] = Left(c, k) /\ n[k] = Left(q, k) BY <1>22, <1>23 DEF Credits
  <2>6. m \in [Entries -> 0 .. MaxCredits] /\ n \in [Entries -> 0 .. MaxCredits]
    BY <1>7, <1>8, <1>22, <1>23, LeftIn DEF Credits, Moves
  <2>7. Serves(m, n, w, first, d, units)
    <3>1. /\ d \in Entries /\ first + d < NrEntries
          /\ w[d + 1] = 0 \/ first + d + 1 = NrEntries
          /\ \A k \in 0 .. d - 1 : w[k + 1] # 0
      <4>1. /\ c \in Rings /\ first \in Entries /\ units \in Nat
            /\ w = Wanted(c, EntryAt(c.head, first), units)
            /\ d = Steps(c, EntryAt(c.head, first), units)
        BY <1>6, <1>8, <2>2, <2>4 DEF Moves
      <4>2. QED BY <4>1, StepsAre
    <3>2. /\ w[0] = units
          /\ \A k \in 0 .. NrEntries : w[k] \in 0 .. units
          /\ \A k \in Entries : first + k < NrEntries =>
               w[k + 1] = w[k] - Least2(w[k], c.avail[EntryAt(c.head, first + k)])
      <4>1. c \in Rings BY <1>8 DEF Moves
      <4>2. QED BY <1>6, <2>2, <2>4, <4>1, WantedIs
    <3>3. ASSUME NEW k \in Entries, first + k < NrEntries
          PROVE  w[k + 1] = w[k] - Least2(w[k], m[first + k])
      <4>1. first + k \in Entries BY <2>2, <3>3, RingConstants DEF Entries
      <4>2. m[first + k] = c.avail[EntryAt(c.head, first + k)] BY <2>5, <4>1 DEF Left
      <4>3. QED BY <3>2, <3>3, <4>2
    <3>4. n \in [Entries -> Int] BY <2>6, RingConstants
    <3>5. \A j \in Entries : n[j] = IF first <= j /\ j <= first + d
                                    THEN m[j] - Least2(w[j - first], m[j]) ELSE m[j]
      BY <2>4, <2>5
    <3>6. QED BY <2>2, <2>6, <3>1, <3>2, <3>3, <3>4, <3>5 DEF Serves
  <2>8. /\ Window!FirstCome(first, units, n, t)
        /\ Window!LastSlot(first, units, t) = first + d
    BY <1>24, <2>7, ServedInOrder
  <2>9. Window!LastSlot(first, units, t) - first = d BY <2>2, <2>8, RingConstants
  <2>10. q.end = when + XferLat * units + Interval * Waits(d, units) BY <2>4 DEF EndOf
  <2>11. QED BY <2>6, <2>8, <2>9, <2>10 DEF Waits
<1>28. Window!Serve(b)
  <2>1. Window!Moved(b, nowF'[b]) = m BY <1>17, <1>18, <1>22
  <2>2. freeF'[b] = n BY <1>18, <1>23
  <2>3. [k \in Entries |-> m[k] - n[k]] = t BY <1>24 DEF Took
  <2>4. Window!Slot(askedF'[b].at) - Window!Slot(nowF'[b]) = first BY <1>18, <1>21
  <2> HIDE DEF nowF, askedF, endF, freeF
  <2>5. IF when < now \/ first >= NrEntries
          THEN freeF'[b] = m /\ endF'[b] = when
          ELSE /\ freeF'[b] \in [Entries -> 0 .. MaxCredits]
               /\ Window!FirstCome(first, units, freeF'[b], t)
               /\ endF'[b] = when + XferLat * units
                     + Interval * (IF Window!LastSlot(first, units, t) - first - (units \div MaxCredits) > 0
                                     THEN Window!LastSlot(first, units, t) - first - (units \div MaxCredits)
                                     ELSE 0)
    BY <1>18, <1>25, <1>26, <1>27, <2>2
  <2>6. QED
    BY <1>18, <1>19, <2>1, <2>2, <2>3, <2>4, <2>5, WindowSlots
    DEF Window!Serve, nowF, askedF, endF, freeF
<1>29. Window!Next BY <1>28 DEF Window!Next
<1>30. QED BY <1>3, <1>7, <1>10, <1>11, <1>12, <1>13, <1>29

(***************************************************************************)
(* The pages a read has been past                                          *)
(***************************************************************************)
LEMMA PartConstants == NrParts \in Nat \ {0} /\ NrParts \in Nat /\ NrParts > 0
BY TimeAssumption

\* The part of page l in a read that begins with page a, from 0 on.
PartIn(l, a) == (l - a) % NrParts

LEMMA PartIs ==
  ASSUME NEW a \in Nat, NEW l \in Nat, a <= l
  PROVE  /\ PartIn(l, a) \in Nat /\ PartIn(l, a) < NrParts /\ PartIn(l, a) <= l - a
         /\ l - a < NrParts => PartIn(l, a) = l - a
<1>1. PICK x : x = l - a OBVIOUS
<1>2. x \in Nat BY <1>1
<1>3. PICK q : q = x \div NrParts OBVIOUS
<1>4. PICK r : r = x % NrParts OBVIOUS
<1>5. q \in Nat /\ r \in Nat /\ r < NrParts /\ x = q * NrParts + r
  BY <1>2, <1>3, <1>4, PartConstants, Division
<1>6. q * NrParts \in Nat BY <1>5, PartConstants, ProductIn
<1>7. r <= x BY <1>2, <1>5, <1>6
<1>8. x < NrParts => r = x
  <2>1. HAVE x < NrParts
  <2>2. x % NrParts = x
    <3>1. x < NrParts + NrParts BY <1>2, <2>1, PartConstants
    <3>2. QED BY <1>2, <2>1, <3>1, PartConstants, SmallRemainder
  <2>3. QED BY <1>4, <2>2
<1>9. PartIn(l, a) = r BY <1>1, <1>4 DEF PartIn
<1>10. QED BY <1>1, <1>5, <1>7, <1>8, <1>9

LEMMA PartAgain ==
  ASSUME NEW a \in Nat, NEW g \in Nat, a <= g
  PROVE  /\ PartIn(g + NrParts, a) = PartIn(g, a)
         /\ \A l \in Nat : g <= l /\ l < g + NrParts /\ PartIn(l, a) = PartIn(g, a) => l = g
<1>1. PICK n : n = NrParts OBVIOUS
<1>2. n \in Nat /\ n \in Nat \ {0} /\ n > 0 BY <1>1, PartConstants
<1>3. PICK x : x = g - a OBVIOUS
<1>4. x \in Nat BY <1>3
<1>5. PICK q : q = x \div n OBVIOUS
<1>6. PICK r : r = x % n OBVIOUS
<1>7. q \in Nat /\ r \in Nat /\ r < n /\ x = q * n + r BY <1>2, <1>4, <1>5, <1>6, Division
<1>8. PICK y : y = q * n OBVIOUS
<1>9. y \in Nat BY <1>2, <1>7, <1>8, ProductIn
<1>10. (q + 1) * n = y + n BY <1>2, <1>7, <1>8, Distribute
<1>11. PartIn(g, a) = r BY <1>1, <1>3, <1>6 DEF PartIn
<1>12. PartIn(g + NrParts, a) = r
  <2>1. PICK z : z = (g + NrParts) - a OBVIOUS
  <2>2. PICK s : s = q + 1 OBVIOUS
  <2>3. z \in Nat /\ s \in Nat /\ z = s * n + r
    BY <1>1, <1>2, <1>3, <1>4, <1>7, <1>8, <1>9, <1>10, <2>1, <2>2
  <2>4. z % n = r BY <1>2, <1>7, <2>3, DivisionIs
  <2>5. QED BY <1>1, <2>1, <2>4 DEF PartIn
<1>13. ASSUME NEW l \in Nat, g <= l, l < g + NrParts, PartIn(l, a) = PartIn(g, a)
       PROVE  l = g
  <2>1. PICK z : z = l - a OBVIOUS
  <2>2. PICK p : p = z \div n OBVIOUS
  <2>3. z \in Nat BY <1>13, <2>1
  <2>4. p \in Nat /\ z % n = r /\ z = p * n + (z % n)
    BY <1>1, <1>2, <1>11, <1>13, <2>1, <2>2, <2>3, Division DEF PartIn
  <2>5. PICK w : w = p * n OBVIOUS
  <2>6. w \in Nat /\ z = w + r BY <1>2, <2>4, <2>5, ProductIn
  <2>7. y <= w /\ w < y + n BY <1>1, <1>2, <1>3, <1>4, <1>7, <1>8, <1>9, <1>13, <2>1, <2>6
  <2>8. p < q + 1
    <3>1. PICK s : s = q + 1 OBVIOUS
    <3>2. s \in Nat /\ p * n < s * n BY <1>7, <1>10, <2>5, <2>7, <3>1
    <3>3. QED BY <1>2, <2>4, <3>1, <3>2, ProductCancels
  <2>9. q <= p
    <3>1. q * n <= p * n BY <1>8, <2>5, <2>7
    <3>2. QED BY <1>2, <1>7, <2>4, <3>1, ProductCancels
  <2>10. w = y
    <3>1. p = q BY <1>7, <2>4, <2>8, <2>9
    <3>2. QED BY <1>8, <2>5, <3>1
  <2>11. QED BY <1>3, <1>7, <1>8, <2>1, <2>6, <2>10, <1>13
<1>14. QED BY <1>11, <1>12, <1>13

\* The pages of a read of a .. b that are in flash page f by the mapping m
\* and lie behind page g of part p, the parts counted from 1 on.
Behind(a, p, g, l)     == PartIn(l, a) < p - 1 \/ (PartIn(l, a) = p - 1 /\ l < g)
Seen(m, a, b, p, g, f) == {l \in a .. b : m[l] = f /\ Behind(a, p, g, l)}

LEMMA SeenFinite ==
  ASSUME NEW m, NEW a \in Nat, NEW b \in Nat, NEW p, NEW g, NEW f
  PROVE  IsFiniteSet(Seen(m, a, b, p, g, f))
<1>1. PICK S : S = a .. b OBVIOUS
<1>2. IsFiniteSet(S) BY <1>1, FS_Interval
<1>3. Seen(m, a, b, p, g, f) \subseteq S BY <1>1 DEF Seen
<1>4. QED BY <1>2, <1>3, FS_Subset

LEMMA SeenStarts ==
  ASSUME NEW m, NEW a \in Nat, NEW b \in Nat, NEW f
  PROVE  Seen(m, a, b, 1, a, f) = {}
<1>1. ASSUME NEW l \in a .. b PROVE ~Behind(a, 1, a, l)
  <2>1. l \in Nat /\ a <= l OBVIOUS
  <2>2. PartIn(l, a) \in Nat BY <2>1, PartIs
  <2>3. QED BY <2>1, <2>2 DEF Behind
<1>2. QED BY <1>1 DEF Seen

\* Page g is one of part p, and h the next.
OnPage(a, b, p, g, h) == a <= g /\ g <= b /\ PartIn(g, a) = p - 1 /\ h = g + NrParts

\* T has the pages of S, and g if it is in f.
Adds(S, T, m, g, f) == /\ g \notin S
                       /\ m[g] = f => T = S \cup {g}
                       /\ m[g] # f => T = S

LEMMA SeenPage ==
  ASSUME NEW m, NEW a \in Nat, NEW b \in Nat, NEW p \in Nat, NEW g \in Nat, NEW f,
         NEW h, OnPage(a, b, p, g, h)
  PROVE  Adds(Seen(m, a, b, p, g, f), Seen(m, a, b, p, h, f), m, g, f)
<1>1. a <= g /\ g <= b /\ PartIn(g, a) = p - 1 /\ h = g + NrParts BY DEF OnPage
<1>2. ~Behind(a, p, g, g) BY <1>1 DEF Behind
<1>3. h \in Nat /\ g < h BY <1>1, PartConstants
<1>4. ASSUME NEW l \in a .. b PROVE Behind(a, p, h, l) <=> Behind(a, p, g, l) \/ l = g
  <2>1. l \in Nat /\ a <= l OBVIOUS
  <2>2. PartIn(l, a) = p - 1 /\ g <= l /\ l < h => l = g BY <1>1, <2>1, PartAgain
  <2>3. QED BY <1>1, <1>3, <2>1, <2>2 DEF Behind
<1>5. g \in a .. b BY <1>1
<1>6. QED BY <1>2, <1>4, <1>5 DEF Seen, Adds

LEMMA SeenPart ==
  ASSUME NEW m, NEW a \in Nat, NEW b \in Nat, NEW p \in Nat, NEW g \in Nat, NEW f, b < g
  PROVE  Seen(m, a, b, p + 1, a + p, f) = Seen(m, a, b, p, g, f)
<1>1. ASSUME NEW l \in a .. b PROVE Behind(a, p + 1, a + p, l) <=> Behind(a, p, g, l)
  <2>1. l \in Nat /\ a <= l /\ l < g OBVIOUS
  <2>2. PICK x : x = PartIn(l, a) OBVIOUS
  <2>3. x \in Nat /\ x <= l - a BY <2>1, <2>2, PartIs
  <2>4. Behind(a, p + 1, a + p, l) <=> x < p BY <2>1, <2>2, <2>3 DEF Behind
  <2>5. Behind(a, p, g, l) <=> x < p BY <2>1, <2>2, <2>3 DEF Behind
  <2>6. QED BY <2>4, <2>5
<1>2. QED BY <1>1 DEF Seen

LEMMA SeenAll ==
  ASSUME NEW m, NEW a \in Nat, NEW b \in Nat, NEW p \in Nat, NEW g \in Nat, NEW f,
         p > NrParts \/ a + p - 1 > b
  PROVE  Seen(m, a, b, p, g, f) = {l \in a .. b : m[l] = f}
<1>1. ASSUME NEW l \in a .. b PROVE Behind(a, p, g, l)
  <2>1. l \in Nat /\ a <= l /\ l <= b OBVIOUS
  <2>2. PICK x : x = PartIn(l, a) OBVIOUS
  <2>3. x \in Nat /\ x <= l - a /\ x < NrParts BY <2>1, <2>2, PartIs
  <2>4. x < p - 1 BY <2>1, <2>3, PartConstants
  <2>5. QED BY <2>2, <2>4 DEF Behind
<1>2. QED BY <1>1 DEF Seen

(***************************************************************************)
(* The invariant of the commands                                           *)
(***************************************************************************)
Places == [part : Nat, start : Nat, page : Nat, xfer : Nat,
           prev : FlashPages \cup {Unmapped}]
Nands  == [op : {"read", "write", "erase", "nop"}, lun : Luns, units : Nat,
           interleave : BOOLEAN, chnl : Nat, dma : Nat, done : Nat]
Writes == [op : {"write"}, latest : Nat, stime : Nat]
Reads  == [op : {"read"}, first : Nat, last : Nat, latest : Nat, stime : Nat,
           issued : [FlashPages -> Nat], at : Places]

CommandTypes ==
  /\ avail \in [Luns -> Nat] /\ busyTill \in Nat /\ maptbl \in Maps
  /\ nand \in {None} \cup Nands /\ cmd \in {None} \cup Writes \cup Reads

\* A NAND command belongs to a command of the host and begins when its LUN is
\* free; no command has ended after all LUNs are free.
NandInv ==
  /\ nand # None => cmd # None /\ nand.chnl >= avail[nand.lun]
  /\ busyTill = 0 \/ \E l \in Luns : busyTill <= avail[l]

\* Where a read c is, and that what it has issued and gathered is what lies
\* behind.
Gathered(c, f) == IF c.at.prev = f THEN c.at.xfer ELSE 0
ReadPlace(c) ==
  /\ c.first .. c.last \subseteq Lpns
  /\ c.at.part \in Nat \ {0} /\ c.at.start = c.first + c.at.part - 1 /\ c.first <= c.at.page
  /\ c.at.part <= NrParts => PartIn(c.at.page, c.first) = c.at.part - 1
  /\ c.at.xfer > 0 => c.at.prev \in FlashPages /\ c.at.part <= NrParts /\ c.at.start <= c.last
ReadCount(c, m) ==
  \A f \in FlashPages :
    c.issued[f] + Gathered(c, f)
      = Cardinality(Seen(m, c.first, c.last, c.at.part, c.at.page, f))
ReadInv == cmd.op = "read" => ReadPlace(cmd) /\ ReadCount(cmd, maptbl)

TimeInv == RingInv /\ CommandTypes /\ NandInv /\ ReadInv

LEMMA TimeConstants ==
  /\ ChannelOf \in [Luns -> Channels] /\ PartOf \in [Luns -> 0 .. NrParts - 1]
  /\ Unmapped \notin FlashPages /\ LunOf \in [FlashPages -> Luns]
  /\ \A m \in Maps : \A l \in Lpns : m[l] \in FlashPages \cup {Unmapped}
  /\ \A r \in ReadRanges : r[1] \in Nat /\ r[2] \in Nat /\ r[1] .. r[2] \subseteq Lpns
  /\ PageUnits \in Nat \ {0} /\ MaxXfer \in Nat \ {0}
  /\ \A p \in WritePages : p \in Nat \ {0}
  /\ ReadLat4k \in Nat /\ ReadLat \in Nat /\ ProgLat \in Nat /\ EraseLat \in Nat
  /\ FwRead4k \in Nat /\ FwRead \in Nat /\ WbufLat \in Nat /\ \A d \in Ticks : d \in Nat
  /\ Pcie \in Buses /\ Channels \subseteq Buses
BY TimeAssumption DEF Buses

LEMMA OpsOf ==
  /\ None.op = "none" /\ \A n \in Nands : n # None
  /\ \A c \in Writes : c.op = "write" /\ c # None
  /\ \A c \in Reads : c.op = "read" /\ c # None
BY DEF None, Nands, Writes, Reads

LEMMA TimeStarts == TimeInit => TimeInv
<1> SUFFICES ASSUME TimeInit PROVE TimeInv OBVIOUS
<1>1. RingInv
  <2>1. PICK c : c = NewRing OBVIOUS
  <2>2. c \in Rings /\ c.time = 0 /\ Fresh(c)
    <3>1. c \in Rings /\ c.time = 0 /\ c.head = 0
      BY <2>1, RingConstants DEF NewRing, Rings
    <3>2. \A i \in Entries : c.avail[i] = MaxCredits BY <2>1 DEF NewRing
    <3>3. \A k \in Entries : EntryAt(c.head, k) \in Entries
      <4>1. TAKE k \in Entries
      <4>2. k \in 0 .. NrEntries /\ c.head \in Entries BY <3>1, RingConstants
      <4>3. QED BY <4>2, EntryIs
    <3>4. QED BY <3>1, <3>2, <3>3 DEF Fresh, Left
  <2>3. ring = [b \in Buses |-> c] /\ clock = 0 BY <2>1 DEF TimeInit
  <2>4. QED BY <2>2, <2>3 DEF RingInv
<1>2. CommandTypes BY DEF TimeInit, CommandTypes
<1>3. NandInv BY DEF TimeInit, NandInv
<1>4. ReadInv BY OpsOf DEF TimeInit, ReadInv
<1>5. QED BY <1>1, <1>2, <1>3, <1>4 DEF TimeInv

\* A NAND command as it is issued.
LEMMA IssueIs ==
  ASSUME CommandTypes, NEW op \in {"read", "write", "erase", "nop"}, NEW l \in Luns,
         NEW units \in Nat, NEW start \in Nat, NEW interleave \in BOOLEAN,
         Issue(op, l, units, start, interleave), UNCHANGED avail
  PROVE  nand' \in Nands /\ nand'.chnl >= avail'[nand'.lun]
<1>1. PICK from : from = Later(avail[l], start) OBVIOUS
<1>2. PICK lat : lat = IF units = PageUnits THEN ReadLat4k ELSE ReadLat OBVIOUS
<1>3. avail[l] \in Nat /\ lat \in Nat BY <1>2, TimeConstants DEF CommandTypes
<1>4. from \in Nat /\ from >= avail[l] BY <1>1, <1>3 DEF Later
<1>5. PICK chnl : chnl = IF op = "read" THEN from + lat ELSE from OBVIOUS
<1>6. chnl \in Nat /\ chnl >= avail[l] BY <1>3, <1>4, <1>5
<1>7. nand' = [op |-> op, lun |-> l, units |-> units, interleave |-> interleave,
               chnl |-> chnl, dma |-> 0, done |-> 0]
  BY <1>1, <1>2, <1>5 DEF Issue
<1>8. nand' \in Nands /\ nand'.chnl = chnl /\ nand'.lun = l BY <1>6, <1>7 DEF Nands
<1>9. QED BY <1>6, <1>8

RingStep == Window!Next \/ UNCHANGED ring

LEMMA ServedKeeps ==
  ASSUME RingInv, NEW b \in Buses, NEW when \in Nat, NEW units \in Nat \ {0}, Served(b, when, units),
         UNCHANGED clock
  PROVE  RingInv' /\ RingStep /\ ring'[b].end \in Nat /\ ring'[b].end >= when
<1>1. /\ ring' \in [Buses -> Rings]
      /\ \A x \in Buses : Fresh(ring'[x]) /\ ring'[x].time <= clock
      /\ ring'[b].end \in Nat /\ ring'[b].end >= when
      /\ Window!Next
  BY ServeStep
<1>2. RingInv' BY <1>1 DEF RingInv
<1>3. QED BY <1>1, <1>2 DEF RingStep

LEMMA TransferKeeps == TimeInv /\ Transfer => TimeInv' /\ RingStep
<1> SUFFICES ASSUME TimeInv, Transfer PROVE TimeInv' /\ RingStep OBVIOUS
<1>1. RingInv /\ CommandTypes /\ NandInv /\ ReadInv BY DEF TimeInv
<1>2. UNCHANGED <<clock, avail, maptbl, cmd, flushed, busyTill, left>> BY DEF Transfer
<1>3. PICK n : n = nand OBVIOUS
<1>4. n \in Nands /\ n # None /\ n.units > 0 /\ n.chnl >= avail[n.lun] /\ cmd # None
  BY <1>1, <1>3 DEF CommandTypes, NandInv, Transfer
<1>5. PICK xfer : xfer = IF n.op = "read" THEN Least2(n.units, MaxXfer) ELSE n.units OBVIOUS
<1>6. n.units \in Nat /\ n.chnl \in Nat /\ n.lun \in Luns BY <1>4 DEF Nands
<1>7. xfer \in Nat \ {0} /\ xfer <= n.units BY <1>4, <1>5, <1>6, TimeConstants DEF Least2
<1>8. PICK b : b = ChannelOf[n.lun] OBVIOUS
<1>9. b \in Buses BY <1>6, <1>8, TimeConstants
<1>10. PICK e : e = ring'[b].end OBVIOUS
<1>11. Served(b, n.chnl, xfer)
  BY <1>3, <1>5, <1>8 DEF Transfer, Served
<1>12. RingInv' /\ RingStep /\ e \in Nat /\ e >= n.chnl
  BY <1>1, <1>2, <1>6, <1>7, <1>9, <1>10, <1>11, ServedKeeps
<1>13. e = Request(ring[b], clock, n.chnl, xfer).end
  BY <1>1, <1>9, <1>10, <1>11 DEF Served, RingInv
<1>14. nand' = [n EXCEPT !.units = @ - xfer, !.chnl = e, !.done = e,
                         !.dma = IF n.interleave THEN xfer ELSE 0]
  BY <1>3, <1>5, <1>8, <1>13 DEF Transfer
<1>15. nand' \in Nands /\ nand'.chnl = e /\ nand'.lun = n.lun
  <2>1. n.units - xfer \in Nat BY <1>6, <1>7
  <2>2. (IF n.interleave THEN xfer ELSE 0) \in Nat BY <1>7
  <2>3. QED BY <1>4, <1>12, <1>14, <2>1, <2>2 DEF Nands
<1>16. CommandTypes' BY <1>1, <1>2, <1>15 DEF CommandTypes
<1>17. nand'.chnl >= avail'[nand'.lun]
  <2>1. avail[n.lun] \in Nat BY <1>1, <1>6 DEF CommandTypes
  <2>2. QED BY <1>2, <1>4, <1>6, <1>12, <1>15, <2>1
<1>18. NandInv' BY <1>1, <1>2, <1>4, <1>17 DEF NandInv
<1>19. ReadInv' BY <1>1, <1>2 DEF ReadInv
<1>20. QED BY <1>12, <1>16, <1>18, <1>19 DEF TimeInv

LEMMA DmaKeeps == TimeInv /\ Dma => TimeInv' /\ RingStep
<1> SUFFICES ASSUME TimeInv, Dma PROVE TimeInv' /\ RingStep OBVIOUS
<1>1. RingInv /\ CommandTypes /\ NandInv /\ ReadInv BY DEF TimeInv
<1>2. UNCHANGED <<clock, avail, maptbl, cmd, flushed, busyTill, left>> BY DEF Dma
<1>3. PICK n : n = nand OBVIOUS
<1>4. n \in Nands /\ n # None /\ n.dma > 0 /\ n.chnl >= avail[n.lun] /\ cmd # None
  BY <1>1, <1>3 DEF CommandTypes, NandInv, Dma
<1>5. n.dma \in Nat \ {0} /\ n.chnl \in Nat /\ n.lun \in Luns BY <1>4 DEF Nands
<1>6. Pcie \in Buses BY TimeConstants
<1>7. PICK e : e = ring'[Pcie].end OBVIOUS
<1>8. Served(Pcie, n.chnl, n.dma) BY <1>3 DEF Dma, Served
<1>9. RingInv' /\ RingStep /\ e \in Nat
  BY <1>1, <1>2, <1>5, <1>6, <1>7, <1>8, ServedKeeps
<1>10. e = Request(ring[Pcie], clock, n.chnl, n.dma).end
  BY <1>1, <1>6, <1>7, <1>8 DEF Served, RingInv
<1>11. nand' = [n EXCEPT !.dma = 0, !.done = e] BY <1>3, <1>10 DEF Dma
<1>12. nand' \in Nands /\ nand'.chnl = n.chnl /\ nand'.lun = n.lun
  BY <1>4, <1>9, <1>11 DEF Nands
<1>13. CommandTypes' BY <1>1, <1>2, <1>12 DEF CommandTypes
<1>14. NandInv' BY <1>1, <1>2, <1>4, <1>12 DEF NandInv
<1>15. ReadInv' BY <1>1, <1>2 DEF ReadInv
<1>16. QED BY <1>9, <1>13, <1>14, <1>15 DEF TimeInv

\* A read counts the same whatever its latest end is.
LEMMA CompletedKeeps == TimeInv /\ Completed => TimeInv' /\ RingStep
<1> SUFFICES ASSUME TimeInv, Completed PROVE TimeInv' /\ RingStep OBVIOUS
<1>1. RingInv /\ CommandTypes /\ NandInv /\ ReadInv BY DEF TimeInv
<1>2. UNCHANGED <<clock, ring, maptbl, flushed, left>> /\ nand' = None BY DEF Completed
<1>3. PICK n : n = nand OBVIOUS
<1>4. n \in Nands /\ n # None /\ n.chnl >= avail[n.lun] /\ cmd # None
  BY <1>1, <1>3 DEF CommandTypes, NandInv, Completed
<1>5. n.chnl \in Nat /\ n.done \in Nat /\ n.lun \in Luns /\ avail[n.lun] \in Nat
  BY <1>1, <1>4 DEF Nands, CommandTypes
<1>6. PICK free : free = AvailTime(n) OBVIOUS
<1>7. free \in Nat /\ free >= n.chnl BY <1>5, <1>6, TimeConstants DEF AvailTime
<1>8. n.chnl + (CASE n.op = "write" -> ProgLat [] n.op = "erase" -> EraseLat [] OTHER -> 0) = free
  BY <1>5, <1>6 DEF AvailTime
<1>9. /\ avail' = [avail EXCEPT ![n.lun] = free]
      /\ busyTill' = Later(busyTill, free)
      /\ cmd' = [cmd EXCEPT !.latest = Later(@, IF n.op = "read" THEN n.done ELSE free)]
  BY <1>3, <1>6, <1>8 DEF Completed
<1>10. avail' \in [Luns -> Nat] BY <1>1, <1>7, <1>9 DEF CommandTypes
<1>11. busyTill \in Nat BY <1>1 DEF CommandTypes
<1>12. busyTill' \in Nat /\ (busyTill' = busyTill \/ busyTill' = free)
  BY <1>7, <1>9, <1>11 DEF Later
<1>13. PICK done : done = IF n.op = "read" THEN n.done ELSE free OBVIOUS
<1>14. done \in Nat /\ cmd' = [cmd EXCEPT !.latest = Later(@, done)]
  BY <1>5, <1>7, <1>9, <1>13
<1>15. cmd \in Writes => cmd' \in Writes BY <1>14 DEF Writes, Later
<1>16. cmd \in Reads => /\ cmd' \in Reads /\ cmd'.first = cmd.first /\ cmd'.last = cmd.last
                        /\ cmd'.issued = cmd.issued /\ cmd'.at = cmd.at
  BY <1>14 DEF Reads, Later
<1>17. cmd \in Writes \/ cmd \in Reads BY <1>1, <1>4 DEF CommandTypes
<1>18. CommandTypes' BY <1>1, <1>2, <1>10, <1>12, <1>15, <1>16, <1>17 DEF CommandTypes
<1>19. busyTill' = 0 \/ \E l \in Luns : busyTill' <= avail'[l]
  <2>1. avail'[n.lun] = free /\ \A l \in Luns \ {n.lun} : avail'[l] = avail[l]
    BY <1>1, <1>5, <1>9 DEF CommandTypes
  <2>2. CASE busyTill' = free BY <1>5, <1>7, <2>1, <2>2
  <2>3. CASE busyTill' = busyTill /\ busyTill # 0
    <3>1. PICK l \in Luns : busyTill <= avail[l] BY <1>1, <2>3 DEF NandInv
    <3>2. CASE l = n.lun
      <4>1. busyTill <= free BY <1>4, <1>5, <1>7, <1>11, <3>1, <3>2
      <4>2. QED BY <1>5, <2>1, <2>3, <4>1
    <3>3. CASE l # n.lun BY <2>1, <2>3, <3>1, <3>3
    <3>4. QED BY <3>2, <3>3
  <2>4. QED BY <1>12, <2>2, <2>3
<1>20. NandInv' BY <1>2, <1>19 DEF NandInv
<1>21. ReadInv'
  <2>1. cmd'.op = "read" => cmd \in Reads /\ cmd.op = "read" BY <1>15, <1>17, OpsOf
  <2>2. SUFFICES ASSUME cmd'.op = "read" PROVE ReadPlace(cmd') /\ ReadCount(cmd', maptbl')
    BY DEF ReadInv
  <2>3. PICK c : c = cmd OBVIOUS
  <2>4. PICK e : e = cmd' OBVIOUS
  <2>5. /\ ReadPlace(c) /\ ReadCount(c, maptbl) /\ e.first = c.first /\ e.last = c.last
        /\ e.issued = c.issued /\ e.at = c.at
    BY <1>1, <1>16, <2>1, <2>2, <2>3, <2>4 DEF ReadInv
  <2>6. ReadPlace(e) BY <2>5 DEF ReadPlace
  <2>7. \A f : Gathered(e, f) = Gathered(c, f) BY <2>5 DEF Gathered
  <2>8. ReadCount(e, maptbl) BY <2>5, <2>7 DEF ReadCount
  <2>9. QED BY <1>2, <2>4, <2>6, <2>8
<1>22. RingInv' /\ RingStep BY <1>1, <1>2 DEF RingInv, RingStep
<1>23. QED BY <1>18, <1>20, <1>21, <1>22 DEF TimeInv

(***************************************************************************)
(* The steps of a read                                                     *)
(***************************************************************************)
LEMMA SeenGrows ==
  ASSUME NEW c \in Reads, NEW m, ReadPlace(c), c.at.part <= NrParts, c.at.page <= c.last,
         NEW f, NEW p, p = c.at.part, NEW g, g = c.at.page
  PROVE  /\ Cardinality(Seen(m, c.first, c.last, p, g + NrParts, f))
              = Cardinality(Seen(m, c.first, c.last, p, g, f)) + (IF m[g] = f THEN 1 ELSE 0)
         /\ Cardinality(Seen(m, c.first, c.last, p, g, f)) \in Nat
<1>1. PICK a : a = c.first OBVIOUS
<1>2. PICK b : b = c.last OBVIOUS
<1>3. a \in Nat /\ b \in Nat /\ p \in Nat /\ g \in Nat BY <1>1, <1>2 DEF Reads, Places
<1>5. PICK S : S = Seen(m, a, b, p, g, f) OBVIOUS
<1>4. PICK h : h = g + NrParts OBVIOUS
<1>6. OnPage(a, b, p, g, h) BY <1>1, <1>2, <1>4 DEF ReadPlace, OnPage
<1>7. /\ g \notin S
      /\ m[g] = f => Seen(m, a, b, p, h, f) = S \cup {g}
      /\ m[g] # f => Seen(m, a, b, p, h, f) = S
  <2>1. Adds(Seen(m, a, b, p, g, f), Seen(m, a, b, p, h, f), m, g, f)
    BY <1>3, <1>6, SeenPage
  <2>2. QED BY <1>5, <2>1 DEF Adds
<1>8. IsFiniteSet(S) BY <1>3, <1>5, SeenFinite
<1>9. Cardinality(S \cup {g}) = Cardinality(S) + 1 BY <1>7, <1>8, FS_AddElement
<1>10. Cardinality(S) \in Nat BY <1>8, FS_CardinalityType
<1>11. Cardinality(Seen(m, a, b, p, h, f)) = Cardinality(S) + (IF m[g] = f THEN 1 ELSE 0)
  BY <1>7, <1>9, <1>10
<1>12. QED BY <1>1, <1>2, <1>4, <1>5, <1>10, <1>11

\* c goes to e: the place at is another one, and what was gathered is issued.
Issued(c, e, place) ==
  /\ e \in Reads /\ e.first = c.first /\ e.last = c.last /\ e.at = place
  /\ \A f \in FlashPages : e.issued[f] = c.issued[f] + Gathered(c, f)

LEMMA IssueGatheredIs ==
  ASSUME CommandTypes, nand = None, NEW c, c = cmd, c \in Reads, ReadPlace(c), NEW place \in Places,
         IssueGathered(place), UNCHANGED avail
  PROVE  /\ Issued(c, cmd', place)
         /\ nand' \in {None} \cup Nands /\ (nand' # None => nand'.chnl >= avail'[nand'.lun])
<1>1. c.issued \in [FlashPages -> Nat] /\ c.at.xfer \in Nat /\ c.stime \in Nat BY DEF Reads, Places
<1>2. CASE c.at.xfer > 0
  <2>1. PICK f0 : f0 = c.at.prev OBVIOUS
  <2>2. f0 \in FlashPages BY <1>2, <2>1 DEF ReadPlace
  <2>3. PICK x : x = c.at.xfer OBVIOUS
  <2>4. cmd' = [c EXCEPT !.at = place, !.issued[f0] = @ + x]
        /\ Issue("read", LunOf[f0], x * PageUnits, c.stime, TRUE)
    BY <1>2, <2>1, <2>3 DEF IssueGathered
  <2>5. PICK i : i = [c.issued EXCEPT ![f0] = @ + x] OBVIOUS
  <2>6. i \in [FlashPages -> Nat] BY <1>1, <2>2, <2>3, <2>5
  <2>7. cmd' = [c EXCEPT !.at = place, !.issued = i] BY <2>4, <2>5
  <2>8. PICK e : e = cmd' OBVIOUS
  <2>9. e \in Reads /\ e.first = c.first /\ e.last = c.last /\ e.at = place /\ e.issued = i
    BY <2>6, <2>7, <2>8 DEF Reads
  <2>10. \A f \in FlashPages : i[f] = c.issued[f] + Gathered(c, f)
    BY <1>1, <2>1, <2>2, <2>3, <2>5 DEF Gathered
  <2>11. LunOf[f0] \in Luns BY <2>2, TimeConstants
  <2>12. x * PageUnits \in Nat BY <1>1, <2>3, TimeConstants, ProductIn
  <2>13. nand' \in Nands /\ nand'.chnl >= avail'[nand'.lun]
    BY <1>1, <2>4, <2>11, <2>12, IssueIs
  <2>14. QED BY <2>8, <2>9, <2>10, <2>13 DEF Issued
<1>3. CASE ~(c.at.xfer > 0)
  <2>1. cmd' = [c EXCEPT !.at = place] /\ nand' = nand BY <1>3 DEF IssueGathered
  <2>2. PICK e : e = cmd' OBVIOUS
  <2>3. e \in Reads /\ e.first = c.first /\ e.last = c.last /\ e.at = place /\ e.issued = c.issued
    BY <2>1, <2>2 DEF Reads
  <2>4. \A f \in FlashPages : c.issued[f] = c.issued[f] + Gathered(c, f)
    BY <1>1, <1>3 DEF Gathered
  <2>5. QED BY <2>1, <2>2, <2>3, <2>4 DEF Issued
<1>4. QED BY <1>2, <1>3

\* The invariant after a step of a read, from what the step does to it.
LEMMA ReadStepKeeps ==
  ASSUME TimeInv, nand = None, UNCHANGED <<clock, avail, ring, maptbl, flushed, busyTill>>,
         cmd' \in Reads, ReadPlace(cmd'), ReadCount(cmd', maptbl),
         nand' \in {None} \cup Nands, nand' # None => nand'.chnl >= avail'[nand'.lun]
  PROVE  TimeInv' /\ RingStep
<1>1. RingInv' /\ RingStep BY DEF TimeInv, RingInv, RingStep
<1>2. CommandTypes' BY DEF TimeInv, CommandTypes
<1>3. NandInv' BY OpsOf DEF TimeInv, NandInv
<1>4. ReadInv' BY DEF ReadInv
<1>5. QED BY <1>1, <1>2, <1>3, <1>4 DEF TimeInv

LEMMA AtRead ==
  ASSUME TimeInv, NEW c, c = cmd, c.op = "read"
  PROVE  /\ c \in Reads /\ ReadPlace(c) /\ ReadCount(c, maptbl) /\ CommandTypes
         /\ c.at \in Places /\ c.first \in Nat /\ c.last \in Nat
         /\ c.at.page \in Nat /\ c.at.part \in Nat /\ c.at.xfer \in Nat /\ c.at.start \in Nat
         /\ c.at.page <= c.last =>
              c.at.page \in Lpns /\ maptbl[c.at.page] \in FlashPages \cup {Unmapped}
<1>1. CommandTypes /\ ReadInv BY DEF TimeInv
<1>2. c \in Reads BY <1>1, OpsOf DEF CommandTypes
<1>3. ReadPlace(c) /\ ReadCount(c, maptbl) BY <1>1 DEF ReadInv
<1>4. /\ c.at \in Places /\ c.first \in Nat /\ c.last \in Nat /\ c.at.page \in Nat
      /\ c.at.part \in Nat /\ c.at.xfer \in Nat /\ c.at.start \in Nat
  BY <1>2 DEF Reads, Places
<1>5. c.at.page <= c.last => c.at.page \in Lpns
  <2>1. HAVE c.at.page <= c.last
  <2>2. c.at.page \in c.first .. c.last BY <1>3, <1>4, <2>1 DEF ReadPlace
  <2>3. QED BY <1>3, <2>2 DEF ReadPlace
<1>6. maptbl \in Maps BY <1>1 DEF CommandTypes
<1>7. QED BY <1>1, <1>2, <1>3, <1>4, <1>5, <1>6, TimeConstants

\* From read c to e: to the next page of the part, which is counted.
PageOn(c, e)   == /\ c.at.part <= NrParts /\ c.at.start <= c.last /\ c.at.page <= c.last
                  /\ e.first = c.first /\ e.last = c.last /\ e.at.part = c.at.part
                  /\ e.at.start = c.at.start /\ e.at.page = c.at.page + NrParts
                  /\ e.at.xfer > 0 => e.at.prev \in FlashPages
Counts(c, e, m) == \A f \in FlashPages :
  e.issued[f] + Gathered(e, f)
    = c.issued[f] + Gathered(c, f) + (IF m[c.at.page] = f THEN 1 ELSE 0)

\* What was issued and gathered, and the pages behind, grow together.
LEMMA CountGrows ==
  ASSUME NEW c \in Reads, NEW e \in Reads, NEW m, ReadPlace(c), ReadCount(c, m),
         PageOn(c, e), Counts(c, e, m)
  PROVE  ReadCount(e, m)
<1>1. SUFFICES ASSUME NEW f \in FlashPages
               PROVE  e.issued[f] + Gathered(e, f)
                        = Cardinality(Seen(m, e.first, e.last, e.at.part, e.at.page, f))
  BY DEF ReadCount
<1>2. PICK p : p = c.at.part OBVIOUS
<1>3. PICK g : g = c.at.page OBVIOUS
<1>4. /\ Cardinality(Seen(m, c.first, c.last, p, g + NrParts, f))
            = Cardinality(Seen(m, c.first, c.last, p, g, f)) + (IF m[g] = f THEN 1 ELSE 0)
      /\ Cardinality(Seen(m, c.first, c.last, p, g, f)) \in Nat
  BY <1>2, <1>3, SeenGrows DEF PageOn
<1>5. c.issued[f] + Gathered(c, f) = Cardinality(Seen(m, c.first, c.last, p, g, f))
  BY <1>2, <1>3 DEF ReadCount
<1>6. e.first = c.first /\ e.last = c.last /\ e.at.part = p /\ e.at.page = g + NrParts
  BY <1>2, <1>3 DEF PageOn
<1>7. e.issued[f] + Gathered(e, f)
        = c.issued[f] + Gathered(c, f) + (IF m[g] = f THEN 1 ELSE 0)
  BY <1>3 DEF Counts
<1>8. QED BY <1>4, <1>5, <1>6, <1>7

\* The place of a read on the next page of its part.
LEMMA PlaceGrows ==
  ASSUME NEW c \in Reads, NEW e \in Reads, ReadPlace(c), PageOn(c, e)
  PROVE  ReadPlace(e)
<1>1. /\ c.first \in Nat /\ c.at.page \in Nat /\ c.first <= c.at.page
      /\ PartIn(c.at.page, c.first) = c.at.part - 1
  BY DEF Reads, Places, ReadPlace, PageOn
<1>2. PICK g : g = c.at.page OBVIOUS
<1>3. PICK a : a = c.first OBVIOUS
<1>4. g \in Nat /\ a \in Nat /\ a <= g BY <1>1, <1>2, <1>3
<1>5. PartIn(g + NrParts, a) = PartIn(g, a) BY <1>4, PartAgain
<1>6. PartIn(e.at.page, e.first) = e.at.part - 1 BY <1>1, <1>2, <1>3, <1>5 DEF PageOn
<1>7. e.first <= e.at.page
  <2>1. a <= g + NrParts BY <1>4, PartConstants
  <2>2. QED BY <1>2, <1>3, <2>1 DEF PageOn
<1>8. QED BY <1>6, <1>7 DEF ReadPlace, PageOn

LEMMA SkipKeeps ==
  TimeInv /\ SkipPage /\ UNCHANGED <<clock, avail, ring, maptbl, flushed, busyTill, left>>
    => TimeInv' /\ RingStep
<1> SUFFICES ASSUME TimeInv, SkipPage,
                    UNCHANGED <<clock, avail, ring, maptbl, flushed, busyTill, left>>
             PROVE  TimeInv' /\ RingStep
  OBVIOUS
<1>1. PICK c : c = cmd OBVIOUS
<1>2. PICK e : e = cmd' OBVIOUS
<1>3. /\ c.op = "read" /\ nand = None /\ nand' = nand /\ c.at.part <= NrParts
      /\ c.at.start <= c.last /\ c.at.page <= c.last /\ maptbl[c.at.page] = Unmapped
      /\ e = [c EXCEPT !.at.page = @ + NrParts]
  BY <1>1, <1>2 DEF SkipPage, AtPage, Reading, InRead, Cur
<1>4. /\ c \in Reads /\ ReadPlace(c) /\ ReadCount(c, maptbl) /\ c.at \in Places
      /\ c.at.page \in Nat /\ c.at.xfer \in Nat
  BY <1>1, <1>3, AtRead
<1>5. PICK place : place = [c.at EXCEPT !.page = @ + NrParts] OBVIOUS
<1>6. /\ place \in Places /\ place.part = c.at.part /\ place.start = c.at.start /\ place.xfer = c.at.xfer
      /\ place.prev = c.at.prev /\ place.page = c.at.page + NrParts
  BY <1>4, <1>5, PartConstants DEF Places
<1>7. e = [c EXCEPT !.at = place] BY <1>3, <1>5
<1>8. e \in Reads /\ e.at = place /\ e.first = c.first /\ e.last = c.last /\ e.issued = c.issued
  BY <1>4, <1>6, <1>7 DEF Reads
<1>9. PageOn(c, e) BY <1>3, <1>4, <1>6, <1>8 DEF PageOn, ReadPlace
<1>10. Counts(c, e, maptbl)
  <2>1. SUFFICES ASSUME NEW f \in FlashPages
                 PROVE  e.issued[f] + Gathered(e, f)
                          = c.issued[f] + Gathered(c, f) + (IF maptbl[c.at.page] = f THEN 1 ELSE 0)
    BY DEF Counts
  <2>2. maptbl[c.at.page] # f BY <1>3, TimeConstants
  <2>3. Gathered(e, f) = Gathered(c, f) BY <1>6, <1>8 DEF Gathered
  <2>4. c.issued[f] \in Nat /\ Gathered(c, f) \in Nat BY <1>4 DEF Reads, Gathered
  <2>5. QED BY <1>8, <2>2, <2>3, <2>4
<1>11. ReadPlace(e) /\ ReadCount(e, maptbl)
  BY <1>4, <1>8, <1>9, <1>10, CountGrows, PlaceGrows
<1>12. QED BY <1>2, <1>3, <1>8, <1>11, ReadStepKeeps

\* Place b, but on page g with x pages gathered.
PlaceIs(b, place, g, x) ==
  /\ place \in Places /\ place.part = b.part /\ place.start = b.start /\ place.xfer = x
  /\ place.prev = b.prev /\ place.page = g

LEMMA PlaceMoves ==
  ASSUME NEW b \in Places, NEW g \in Nat, NEW x \in Nat, NEW place,
         place = [b EXCEPT !.page = g, !.xfer = x]
  PROVE  PlaceIs(b, place, g, x)
BY DEF Places, PlaceIs

LEMMA GatherKeeps ==
  TimeInv /\ GatherPage /\ UNCHANGED <<clock, avail, ring, maptbl, flushed, busyTill, left>>
    => TimeInv' /\ RingStep
<1> SUFFICES ASSUME TimeInv, GatherPage,
                    UNCHANGED <<clock, avail, ring, maptbl, flushed, busyTill, left>>
             PROVE  TimeInv' /\ RingStep
  OBVIOUS
<1>1. PICK c : c = cmd OBVIOUS
<1>2. PICK e : e = cmd' OBVIOUS
<1>3. /\ c.op = "read" /\ nand = None /\ nand' = nand /\ c.at.part <= NrParts
      /\ c.at.start <= c.last /\ c.at.page <= c.last
      /\ maptbl[c.at.page] # Unmapped /\ maptbl[c.at.page] = c.at.prev
      /\ e = [c EXCEPT !.at.page = @ + NrParts, !.at.xfer = @ + 1]
  BY <1>1, <1>2 DEF GatherPage, AtPage, Reading, InRead, Cur
<1>4. /\ c \in Reads /\ ReadPlace(c) /\ ReadCount(c, maptbl) /\ c.at \in Places
      /\ c.at.page \in Nat /\ c.at.xfer \in Nat
      /\ maptbl[c.at.page] \in FlashPages \cup {Unmapped}
  BY <1>1, <1>3, AtRead
<1>5. PICK place : place = [c.at EXCEPT !.page = @ + NrParts, !.xfer = @ + 1] OBVIOUS
<1>6. /\ place \in Places /\ place.part = c.at.part /\ place.start = c.at.start
      /\ place.xfer = c.at.xfer + 1 /\ place.prev = c.at.prev /\ place.page = c.at.page + NrParts
  <2>1. PICK b : b = c.at OBVIOUS
  <2>2. PICK g : g = b.page + NrParts OBVIOUS
  <2>3. PICK x : x = b.xfer + 1 OBVIOUS
  <2>4. b \in Places /\ g \in Nat /\ x \in Nat BY <1>4, <2>1, <2>2, <2>3, PartConstants
  <2>5. place = [b EXCEPT !.page = g, !.xfer = x] BY <1>5, <2>1, <2>2, <2>3
  <2>6. PlaceIs(b, place, g, x) BY <2>4, <2>5, PlaceMoves
  <2>7. QED BY <2>1, <2>2, <2>3, <2>6 DEF PlaceIs
<1>7. e = [c EXCEPT !.at = place] BY <1>3, <1>5
<1>8. e \in Reads /\ e.at = place /\ e.first = c.first /\ e.last = c.last /\ e.issued = c.issued
  BY <1>4, <1>6, <1>7 DEF Reads
<1>9. PageOn(c, e)
  <2>1. e.at.prev \in FlashPages BY <1>3, <1>4, <1>6, <1>8
  <2>2. QED BY <1>3, <1>6, <1>8, <2>1 DEF PageOn
<1>10. Counts(c, e, maptbl)
  <2>1. SUFFICES ASSUME NEW f \in FlashPages
                 PROVE  e.issued[f] + Gathered(e, f)
                          = c.issued[f] + Gathered(c, f) + (IF maptbl[c.at.page] = f THEN 1 ELSE 0)
    BY DEF Counts
  <2>2. c.issued[f] \in Nat BY <1>4 DEF Reads
  <2>3. Gathered(e, f) = IF c.at.prev = f THEN c.at.xfer + 1 ELSE 0 BY <1>6, <1>8 DEF Gathered
  <2>4. QED BY <1>3, <1>4, <1>8, <2>2, <2>3 DEF Gathered
<1>11. ReadPlace(e) /\ ReadCount(e, maptbl)
  BY <1>4, <1>8, <1>9, <1>10, CountGrows, PlaceGrows
<1>12. QED BY <1>2, <1>3, <1>8, <1>11, ReadStepKeeps

LEMMA OtherKeeps ==
  TimeInv /\ OtherPage /\ UNCHANGED <<clock, avail, ring, maptbl, flushed, busyTill, left>>
    => TimeInv' /\ RingStep
<1> SUFFICES ASSUME TimeInv, OtherPage,
                    UNCHANGED <<clock, avail, ring, maptbl, flushed, busyTill, left>>
             PROVE  TimeInv' /\ RingStep
  OBVIOUS
<1>1. PICK c : c = cmd OBVIOUS
<1>2. PICK e : e = cmd' OBVIOUS
<1>3. PICK cur : cur = maptbl[c.at.page] OBVIOUS
<1>4. PICK place : place = [c.at EXCEPT !.page = @ + NrParts, !.xfer = 1, !.prev = cur] OBVIOUS
<1>5. /\ c.op = "read" /\ nand = None /\ c.at.part <= NrParts
      /\ c.at.start <= c.last /\ c.at.page <= c.last
      /\ cur # Unmapped /\ cur # c.at.prev /\ IssueGathered(place)
  BY <1>1, <1>3, <1>4 DEF OtherPage, AtPage, Reading, InRead, Cur
<1>6. /\ c \in Reads /\ ReadPlace(c) /\ ReadCount(c, maptbl) /\ c.at \in Places
      /\ c.at.page \in Nat /\ c.at.xfer \in Nat /\ cur \in FlashPages /\ CommandTypes
  BY <1>1, <1>3, <1>5, AtRead
<1>7. /\ place \in Places /\ place.part = c.at.part /\ place.start = c.at.start
      /\ place.xfer = 1 /\ place.prev = cur /\ place.page = c.at.page + NrParts
  <2>1. PICK b : b = c.at OBVIOUS
  <2>2. PICK g : g = b.page + NrParts OBVIOUS
  <2>3. b \in Places /\ g \in Nat BY <1>6, <2>1, <2>2, PartConstants
  <2>4. PICK r : r = [b EXCEPT !.page = g, !.xfer = 1] OBVIOUS
  <2>5. PlaceIs(b, r, g, 1)
    <3>1. 1 \in Nat OBVIOUS
    <3>2. QED BY <2>3, <2>4, <3>1, PlaceMoves
  <2>6. /\ r \in Places /\ r.part = b.part /\ r.start = b.start /\ r.xfer = 1 /\ r.page = g
    BY <2>5 DEF PlaceIs
  <2>7. place = [r EXCEPT !.prev = cur] BY <1>4, <2>1, <2>2, <2>4
  <2>8. /\ place \in Places /\ place.part = r.part /\ place.start = r.start /\ place.xfer = r.xfer
        /\ place.prev = cur /\ place.page = r.page
    BY <1>6, <2>6, <2>7 DEF Places
  <2>9. QED BY <2>1, <2>2, <2>6, <2>8
<1>8. /\ Issued(c, e, place)
      /\ nand' \in {None} \cup Nands /\ (nand' # None => nand'.chnl >= avail'[nand'.lun])
  BY <1>1, <1>2, <1>5, <1>6, <1>7, IssueGatheredIs
<1>9. /\ e \in Reads /\ e.at = place /\ e.first = c.first /\ e.last = c.last
      /\ \A f \in FlashPages : e.issued[f] = c.issued[f] + Gathered(c, f)
  BY <1>8 DEF Issued
<1>10. PageOn(c, e) BY <1>5, <1>6, <1>7, <1>9 DEF PageOn
<1>11. Counts(c, e, maptbl)
  <2>1. SUFFICES ASSUME NEW f \in FlashPages
                 PROVE  e.issued[f] + Gathered(e, f)
                          = c.issued[f] + Gathered(c, f) + (IF maptbl[c.at.page] = f THEN 1 ELSE 0)
    BY DEF Counts
  <2>2. Gathered(e, f) = IF cur = f THEN 1 ELSE 0 BY <1>7, <1>9 DEF Gathered
  <2>3. QED BY <1>3, <1>9, <2>2
<1>12. ReadPlace(e) /\ ReadCount(e, maptbl)
  BY <1>6, <1>9, <1>10, <1>11, CountGrows, PlaceGrows
<1>13. QED BY <1>2, <1>5, <1>8, <1>9, <1>12, ReadStepKeeps

LEMMA PartKeeps ==
  TimeInv /\ PartRead /\ UNCHANGED <<clock, avail, ring, maptbl, flushed, busyTill, left>>
    => TimeInv' /\ RingStep
<1> SUFFICES ASSUME TimeInv, PartRead,
                    UNCHANGED <<clock, avail, ring, maptbl, flushed, busyTill, left>>
             PROVE  TimeInv' /\ RingStep
  OBVIOUS
<1>1. PICK c : c = cmd OBVIOUS
<1>2. PICK e : e = cmd' OBVIOUS
<1>3. PICK place : place = InPart(c.at.part + 1, c.at.start + 1) OBVIOUS
<1>4. /\ c.op = "read" /\ nand = None /\ c.at.part <= NrParts
      /\ c.at.start <= c.last /\ c.at.page > c.last /\ IssueGathered(place)
  BY <1>1, <1>3 DEF PartRead, Reading, InRead
<1>5. /\ c \in Reads /\ ReadPlace(c) /\ ReadCount(c, maptbl) /\ c.at \in Places
      /\ c.at.page \in Nat /\ c.at.part \in Nat /\ c.at.start \in Nat /\ c.first \in Nat
      /\ c.last \in Nat /\ CommandTypes
  BY <1>1, <1>4, AtRead
<1>6. PICK p : p = c.at.part OBVIOUS
<1>7. PICK a : a = c.first OBVIOUS
<1>8. p \in Nat /\ p > 0 /\ p <= NrParts /\ a \in Nat /\ c.at.start = a + p - 1
  BY <1>4, <1>5, <1>6, <1>7 DEF ReadPlace
<1>9. /\ place \in Places /\ place.part = p + 1 /\ place.start = a + p /\ place.page = a + p /\ place.xfer = 0
  <2>1. PICK prev : prev = IF c.at.start + 1 \in Lpns THEN maptbl[c.at.start + 1] ELSE Unmapped
    OBVIOUS
  <2>2. prev \in FlashPages \cup {Unmapped}
    <3>1. maptbl \in Maps BY <1>5 DEF CommandTypes
    <3>2. QED BY <2>1, <3>1, TimeConstants
  <2>3. place = [part |-> p + 1, start |-> c.at.start + 1, page |-> c.at.start + 1, xfer |-> 0,
              prev |-> prev]
    BY <1>3, <1>6, <2>1 DEF InPart
  <2>4. c.at.start + 1 = a + p /\ a + p \in Nat /\ p + 1 \in Nat BY <1>8
  <2>5. QED BY <2>2, <2>3, <2>4 DEF Places
<1>10. /\ Issued(c, e, place)
       /\ nand' \in {None} \cup Nands /\ (nand' # None => nand'.chnl >= avail'[nand'.lun])
  BY <1>1, <1>2, <1>4, <1>5, <1>9, IssueGatheredIs
<1>11. /\ e \in Reads /\ e.at = place /\ e.first = a /\ e.last = c.last
       /\ \A f \in FlashPages : e.issued[f] = c.issued[f] + Gathered(c, f)
  BY <1>7, <1>10 DEF Issued
<1>12. ReadPlace(e)
  <2>1. place.part \in Nat \ {0} /\ place.start = a + place.part - 1 /\ a <= place.page BY <1>8, <1>9
  <2>2. place.part <= NrParts => PartIn(place.page, a) = place.part - 1
    <3>1. HAVE place.part <= NrParts
    <3>2. PICK g : g = a + p OBVIOUS
    <3>3. g \in Nat /\ a <= g /\ g - a = p /\ p < NrParts BY <1>8, <1>9, <3>1, <3>2, PartConstants
    <3>4. PartIn(g, a) = p BY <1>8, <3>3, PartIs
    <3>5. QED BY <1>8, <1>9, <3>2, <3>4
  <2>3. a .. c.last \subseteq Lpns BY <1>5, <1>7 DEF ReadPlace
  <2>4. ~(place.xfer > 0) BY <1>9
  <2>5. QED BY <1>11, <2>1, <2>2, <2>3, <2>4 DEF ReadPlace
<1>13. ReadCount(e, maptbl)
  <2>1. SUFFICES ASSUME NEW f \in FlashPages
                 PROVE  e.issued[f] + Gathered(e, f)
                          = Cardinality(Seen(maptbl, e.first, e.last, e.at.part, e.at.page, f))
    BY DEF ReadCount
  <2>2. PICK g : g = c.at.page OBVIOUS
  <2>3. PICK b : b = c.last OBVIOUS
  <2>4. Seen(maptbl, a, b, p + 1, a + p, f) = Seen(maptbl, a, b, p, g, f)
    BY <1>4, <1>5, <1>8, <2>2, <2>3, SeenPart
  <2>5. c.issued[f] + Gathered(c, f) = Cardinality(Seen(maptbl, a, b, p, g, f))
    BY <1>5, <1>6, <1>7, <2>2, <2>3 DEF ReadCount
  <2>6. Gathered(e, f) = 0 BY <1>9, <1>11 DEF Gathered
  <2>7. c.issued[f] \in Nat /\ Gathered(c, f) \in Nat BY <1>5 DEF Reads, Places, Gathered
  <2>8. QED BY <1>9, <1>11, <2>3, <2>4, <2>5, <2>6, <2>7
<1>14. QED BY <1>2, <1>4, <1>10, <1>11, <1>12, <1>13, ReadStepKeeps

(***************************************************************************)
(* The other steps                                                         *)
(***************************************************************************)
LEMMA BeginReadKeeps ==
  ASSUME TimeInv, NEW r \in ReadRanges, BeginRead(r[1], r[2])
  PROVE  TimeInv' /\ RingStep
<1>1. PICK a : a = r[1] OBVIOUS
<1>2. PICK b : b = r[2] OBVIOUS
<1>3. a \in Nat /\ b \in Nat /\ a .. b \subseteq Lpns BY <1>1, <1>2, TimeConstants
<1>4. PICK place : place = InPart(1, a) OBVIOUS
<1>5. PICK issued : issued = [f \in FlashPages |-> 0] OBVIOUS
<1>6. PICK lat \in {FwRead4k, FwRead} :
        cmd' = [op |-> "read", first |-> a, last |-> b, latest |-> clock,
                stime |-> clock + lat, issued |-> issued, at |-> place]
  BY <1>1, <1>2, <1>4, <1>5 DEF BeginRead, FirmwareLats
<1> PICK stime : stime = clock + lat OBVIOUS
<1>7. RingInv /\ CommandTypes /\ NandInv BY DEF TimeInv
<1>8. clock \in Nat /\ stime \in Nat
  <2>1. clock \in Nat BY <1>7 DEF RingInv
  <2>2. QED BY <2>1, TimeConstants
<1>9. UNCHANGED <<clock, avail, ring, maptbl, nand, flushed, busyTill>> /\ nand = None
  BY <1>7 DEF BeginRead, NandInv
<1>10. cmd' = [op |-> "read", first |-> a, last |-> b, latest |-> clock, stime |-> stime,
               issued |-> issued, at |-> place]
  BY <1>6
<1>11. PICK prev : prev = IF a \in Lpns THEN maptbl[a] ELSE Unmapped OBVIOUS
<1>12. prev \in FlashPages \cup {Unmapped}
  <2>1. maptbl \in Maps BY <1>7 DEF CommandTypes
  <2>2. QED BY <1>11, <2>1, TimeConstants
<1>13. place = [part |-> 1, start |-> a, page |-> a, xfer |-> 0, prev |-> prev]
  BY <1>4, <1>11 DEF InPart
<1>14. place \in Places BY <1>3, <1>12, <1>13 DEF Places
<1>15. PICK e : e = cmd' OBVIOUS
<1>16. issued \in [FlashPages -> Nat] BY <1>5
<1>17. /\ e \in Reads /\ e.first = a /\ e.last = b /\ e.issued = issued /\ e.at = place
  BY <1>3, <1>8, <1>10, <1>14, <1>15, <1>16 DEF Reads
<1>18. ReadPlace(e)
  <2>1. PartIn(a, a) = 0
    <3>1. a <= a /\ a - a = 0 BY <1>3
    <3>2. PartIn(a, a) \in Nat /\ PartIn(a, a) <= 0 BY <1>3, <3>1, PartIs
    <3>3. QED BY <3>2
  <2>2. place.part = 1 /\ place.start = a /\ place.page = a /\ place.xfer = 0 BY <1>13
  <2>3. QED BY <1>3, <1>17, <2>1, <2>2 DEF ReadPlace
<1>19. ReadCount(e, maptbl)
  <2>1. SUFFICES ASSUME NEW f \in FlashPages
                 PROVE  e.issued[f] + Gathered(e, f)
                          = Cardinality(Seen(maptbl, e.first, e.last, e.at.part, e.at.page, f))
    BY DEF ReadCount
  <2>2. Seen(maptbl, a, b, 1, a, f) = {} BY <1>3, SeenStarts
  <2>3. Cardinality({}) = 0 BY FS_EmptySet
  <2>4. e.issued[f] = 0 /\ Gathered(e, f) = 0 BY <1>5, <1>13, <1>17 DEF Gathered
  <2>5. QED BY <1>13, <1>17, <2>2, <2>3, <2>4
<1>20. /\ nand = None /\ UNCHANGED <<clock, avail, ring, maptbl, flushed, busyTill>>
       /\ cmd' \in Reads /\ ReadPlace(cmd') /\ ReadCount(cmd', maptbl)
  BY <1>9, <1>15, <1>17, <1>18, <1>19
<1>21. nand' \in {None} \cup Nands /\ (nand' # None => nand'.chnl >= avail'[nand'.lun])
  BY <1>9
<1>22. QED BY <1>20, <1>21, ReadStepKeeps

LEMMA BeginWriteKeeps ==
  ASSUME TimeInv, NEW pages \in WritePages, BeginWrite(pages)
  PROVE  TimeInv' /\ RingStep
<1>1. RingInv /\ CommandTypes /\ NandInv BY DEF TimeInv
<1>2. UNCHANGED <<clock, avail, maptbl, nand, flushed, busyTill>> /\ cmd = None /\ nand = None
  BY <1>1 DEF BeginWrite, NandInv
<1>3. PICK when : when = clock + WbufLat OBVIOUS
<1>4. PICK units : units = pages * PageUnits OBVIOUS
<1>5. when \in Nat
  <2>1. clock \in Nat BY <1>1 DEF RingInv
  <2>2. QED BY <1>3, <2>1, TimeConstants
<1>6. units \in Nat \ {0} BY <1>4, TimeConstants, ProductIn, ProductPositive
<1>7. Served(Pcie, when, units) BY <1>3, <1>4 DEF BeginWrite, Served
<1>8. RingInv' /\ RingStep /\ ring'[Pcie].end \in Nat
  BY <1>1, <1>2, <1>5, <1>6, <1>7, TimeConstants, ServedKeeps
<1>9. cmd' \in Writes
  <2>1. PICK e : e = ring'[Pcie].end OBVIOUS
  <2>2. cmd' = [op |-> "write", latest |-> e, stime |-> e] BY <2>1 DEF BeginWrite
  <2>3. QED BY <1>8, <2>1, <2>2 DEF Writes
<1>10. CommandTypes' BY <1>1, <1>2, <1>9 DEF CommandTypes
<1>11. NandInv' BY <1>1, <1>2 DEF NandInv
<1>12. ReadInv' BY <1>9, OpsOf DEF ReadInv
<1>13. QED BY <1>8, <1>10, <1>11, <1>12 DEF TimeInv

LEMMA WriteStepKeeps == TimeInv /\ WriteStep => TimeInv' /\ RingStep
<1> SUFFICES ASSUME TimeInv, WriteStep PROVE TimeInv' /\ RingStep OBVIOUS
<1>1. RingInv /\ CommandTypes /\ NandInv /\ ReadInv BY DEF TimeInv
<1>2. /\ UNCHANGED <<clock, avail, ring, maptbl, cmd, flushed, busyTill>>
      /\ cmd.op = "write"
  BY DEF WriteStep
<1>3. cmd \in Writes /\ cmd # None BY <1>1, <1>2, OpsOf DEF CommandTypes
<1>4. PICK stime : stime = cmd.stime OBVIOUS
<1>5. stime \in Nat /\ clock \in Nat BY <1>1, <1>3, <1>4 DEF Writes, RingInv
<1>6. \E l \in Luns, op \in {"read", "write", "erase", "nop"}, units \in Nat, start \in Nat :
        Issue(op, l, units, start, FALSE)
  <2>1. MaxXfer \in Nat /\ PageUnits \in Nat /\ 0 \in Nat BY TimeConstants
  <2>2. PICK l \in Luns :
          \/ Issue("write", l, MaxXfer, stime, FALSE)
          \/ \E units \in {PageUnits, MaxXfer} : Issue("read", l, units, clock, FALSE)
          \/ Issue("write", l, MaxXfer, clock, FALSE)
          \/ \E op \in {"erase", "nop"} : Issue(op, l, 0, clock, FALSE)
    BY <1>4 DEF WriteStep
  <2>3. CASE Issue("write", l, MaxXfer, stime, FALSE) BY <1>5, <2>1, <2>3
  <2>4. CASE Issue("write", l, MaxXfer, clock, FALSE) BY <1>5, <2>1, <2>4
  <2>5. CASE \E units \in {PageUnits, MaxXfer} : Issue("read", l, units, clock, FALSE)
    <3>1. PICK units \in {PageUnits, MaxXfer} : Issue("read", l, units, clock, FALSE) BY <2>5
    <3>2. units \in Nat BY <2>1
    <3>3. QED BY <1>5, <3>1, <3>2
  <2>6. CASE \E op \in {"erase", "nop"} : Issue(op, l, 0, clock, FALSE)
    <3>1. PICK op \in {"erase", "nop"} : Issue(op, l, 0, clock, FALSE) BY <2>6
    <3>2. op \in {"read", "write", "erase", "nop"} OBVIOUS
    <3>3. QED BY <1>5, <2>1, <3>1, <3>2
  <2>7. QED BY <2>2, <2>3, <2>4, <2>5, <2>6
<1>7. PICK l \in Luns, op \in {"read", "write", "erase", "nop"}, units \in Nat, start \in Nat :
        Issue(op, l, units, start, FALSE)
  BY <1>6
<1>8. nand' \in Nands /\ nand'.chnl >= avail'[nand'.lun]
  <2>1. FALSE \in BOOLEAN OBVIOUS
  <2>2. QED BY <1>1, <1>2, <1>7, <2>1, IssueIs
<1>9. CommandTypes' BY <1>1, <1>2, <1>8 DEF CommandTypes
<1>10. NandInv' BY <1>1, <1>2, <1>3, <1>8 DEF NandInv
<1>11. ReadInv' BY <1>1, <1>2 DEF ReadInv
<1>12. RingInv' /\ RingStep BY <1>1, <1>2 DEF RingInv, RingStep
<1>13. QED BY <1>9, <1>10, <1>11, <1>12 DEF TimeInv

LEMMA EndCommandKeeps == TimeInv /\ EndCommand => TimeInv' /\ RingStep
<1> SUFFICES ASSUME TimeInv, EndCommand PROVE TimeInv' /\ RingStep OBVIOUS
<1>1. RingInv /\ CommandTypes /\ NandInv BY DEF TimeInv
<1>2. /\ UNCHANGED <<clock, avail, ring, maptbl, nand, flushed, busyTill>>
      /\ nand = None /\ cmd' = None
  BY DEF EndCommand
<1>3. CommandTypes' BY <1>1, <1>2 DEF CommandTypes
<1>4. NandInv' BY <1>1, <1>2 DEF NandInv
<1>5. ReadInv' BY <1>2, OpsOf DEF ReadInv
<1>6. RingInv' /\ RingStep BY <1>1, <1>2 DEF RingInv, RingStep
<1>7. QED BY <1>3, <1>4, <1>5, <1>6 DEF TimeInv

LEMMA TickKeeps == TimeInv /\ Tick => TimeInv' /\ RingStep
<1> SUFFICES ASSUME TimeInv, Tick PROVE TimeInv' /\ RingStep OBVIOUS
<1>1. RingInv /\ CommandTypes /\ NandInv /\ ReadInv BY DEF TimeInv
<1>2. UNCHANGED <<avail, ring, maptbl, nand, cmd, flushed, busyTill>> BY DEF Tick
<1>3. PICK d \in Ticks : clock' = clock + d BY DEF Tick
<1>4. d \in Nat BY TimeConstants
<1>5. clock \in Nat /\ clock' \in Nat /\ clock <= clock' BY <1>1, <1>3, <1>4 DEF RingInv
<1>6. ASSUME NEW b \in Buses PROVE ring'[b].time <= clock'
  <2>1. ring[b].time \in Nat /\ ring[b].time <= clock BY <1>1 DEF RingInv, Rings
  <2>2. QED BY <1>2, <1>5, <2>1
<1>7. RingInv' BY <1>1, <1>2, <1>5, <1>6 DEF RingInv
<1>8. CommandTypes' BY <1>1, <1>2 DEF CommandTypes
<1>9. NandInv' BY <1>1, <1>2 DEF NandInv
<1>10. ReadInv' BY <1>1, <1>2 DEF ReadInv
<1>11. QED BY <1>2, <1>7, <1>8, <1>9, <1>10 DEF TimeInv, RingStep

LEMMA SameKeeps ==
  ASSUME TimeInv, UNCHANGED <<clock, avail, ring, maptbl, nand, cmd, busyTill>>
  PROVE  TimeInv' /\ RingStep
<1>1. RingInv /\ CommandTypes /\ NandInv /\ ReadInv BY DEF TimeInv
<1>2. RingInv' /\ RingStep BY <1>1 DEF RingInv, RingStep
<1>3. CommandTypes' BY <1>1 DEF CommandTypes
<1>4. NandInv' BY <1>1 DEF NandInv
<1>5. ReadInv' BY <1>1 DEF ReadInv
<1>6. QED BY <1>2, <1>3, <1>4, <1>5 DEF TimeInv

\* The invariant is inductive, and every step of the rings is one of the
\* windows.
LEMMA TimeStep == TimeInv /\ [TimeNext]_timeVars => TimeInv' /\ RingStep
<1> SUFFICES ASSUME TimeInv, [TimeNext]_timeVars PROVE TimeInv' /\ RingStep OBVIOUS
<1>1. CASE \E r \in ReadRanges : BeginRead(r[1], r[2]) BY <1>1, BeginReadKeeps
<1>2. CASE \E pages \in WritePages : BeginWrite(pages) BY <1>2, BeginWriteKeeps
<1>3. CASE ReadStep
  BY <1>3, SkipKeeps, GatherKeeps, OtherKeeps, PartKeeps DEF ReadStep
<1>4. CASE WriteStep BY <1>4, WriteStepKeeps
<1>5. CASE Transfer BY <1>5, TransferKeeps
<1>6. CASE Dma BY <1>6, DmaKeeps
<1>7. CASE Completed BY <1>7, CompletedKeeps
<1>8. CASE EndCommand BY <1>8, EndCommandKeeps
<1>9. CASE Flush BY <1>9, SameKeeps DEF Flush
<1>10. CASE Tick BY <1>10, TickKeeps
<1>11. CASE UNCHANGED timeVars BY <1>11, SameKeeps DEF timeVars
<1>12. QED
  BY <1>1, <1>2, <1>3, <1>4, <1>5, <1>6, <1>7, <1>8, <1>9, <1>10, <1>11 DEF TimeNext

(***************************************************************************)
(* A flush waits for every LUN                                             *)
(***************************************************************************)
LEMMA ImageFinite ==
  ASSUME NEW S, IsFiniteSet(S), NEW f \in [S -> Nat]
  PROVE  IsFiniteSet({f[x] : x \in S})
<1>1. PICK T : T = {f[x] : x \in S} OBVIOUS
<1>2. f \in Surjection(S, T) BY <1>1 DEF Surjection
<1>3. IsFiniteSet(T) BY <1>2, FS_Surjection
<1>4. QED BY <1>1, <1>3

LEMMA Greatest ==
  ASSUME NEW S, S \subseteq Nat, S # {}, IsFiniteSet(S)
  PROVE  \E t \in S : \A u \in S : t >= u
<1>1. PICK n \in Nat : ExistsBijection(1 .. n, S) BY FS_NatBijection
<1>2. PICK f : /\ f \in [1 .. n -> S]
               /\ \A s \in S : \E i \in 1 .. n : f[i] = s
  BY <1>1 DEF ExistsBijection, Bijection, Surjection
<1> DEFINE Bounds(k, B) == \A i \in 1 .. k : f[i] <= B
           Bad          == {k \in 0 .. n : \A B \in Nat : ~Bounds(k, B)}
           Upper        == {B \in Nat : Bounds(n, B)}
<1>3. Bad = {}
  <2>1. SUFFICES ASSUME Bad # {} PROVE FALSE OBVIOUS
  <2>2. Bad \subseteq Nat OBVIOUS
  <2>3. \A k : k \in Bad <=> k \in 0 .. n /\ \A B \in Nat : ~Bounds(k, B) OBVIOUS
  <2> HIDE DEF Bad
  <2>4. PICK k \in Bad : \A j \in Bad : k <= j BY <2>1, <2>2, NatMin
  <2>5. k \in Nat /\ k <= n /\ \A B \in Nat : ~Bounds(k, B) BY <2>3, <2>4
  <2>6. k # 0
    <3>1. k = 0 => Bounds(k, 0) OBVIOUS
    <3>2. QED BY <2>5, <3>1
  <2>7. k - 1 \in 0 .. n /\ k - 1 \notin Bad BY <2>4, <2>5, <2>6
  <2>8. PICK B \in Nat : Bounds(k - 1, B) BY <2>3, <2>7
  <2>9. f[k] \in Nat
    <3>1. k \in 1 .. n BY <2>5, <2>6
    <3>2. QED BY <1>2, <3>1
  <2>10. PICK C : C = (IF f[k] > B THEN f[k] ELSE B) OBVIOUS
  <2>11. C \in Nat /\ C >= B /\ C >= f[k] BY <2>9, <2>10
  <2>12. Bounds(k, C)
    <3>1. TAKE i \in 1 .. k
    <3>2. CASE i = k BY <2>9, <2>11, <3>2
    <3>3. CASE i # k
      <4>1. i \in 1 .. k - 1 /\ i \in 1 .. n BY <2>5, <3>3
      <4>2. f[i] \in Nat /\ f[i] <= B BY <1>2, <2>8, <4>1
      <4>3. QED BY <2>11, <4>2
    <3>4. QED BY <3>2, <3>3
  <2>13. QED BY <2>5, <2>11, <2>12
<1>4. Upper # {}
  <2>1. n \in 0 .. n OBVIOUS
  <2>2. QED BY <1>3, <2>1
<1>5. \A B \in Nat : B \in Upper <=> \A s \in S : s <= B BY <1>2
<1>6. Upper \subseteq Nat OBVIOUS
<1> HIDE DEF Upper
<1>7. PICK t \in Upper : \A B \in Upper : t <= B BY <1>4, <1>6, NatMin
<1>8. t \in Nat /\ \A s \in S : s <= t BY <1>5, <1>6, <1>7
<1>9. t \in S
  <2>1. SUFFICES ASSUME t \notin S PROVE FALSE OBVIOUS
  <2>2. \A s \in S : s \in Nat /\ s <= t /\ s # t BY <1>8, <2>1
  <2>3. PICK s0 \in S : TRUE OBVIOUS
  <2>4. s0 \in Nat /\ s0 <= t /\ s0 # t BY <2>2, <2>3
  <2>5. t - 1 \in Nat BY <1>8, <2>4
  <2>6. \A s \in S : s <= t - 1 BY <1>8, <2>2
  <2>7. t - 1 \in Upper BY <1>5, <2>5, <2>6
  <2>8. t <= t - 1 BY <1>7, <2>7
  <2>9. QED BY <1>8, <2>8
<1>10. QED BY <1>8, <1>9

\* The idle time of a partition is no earlier than any of its LUNs'.
LEMMA IdleTimeIs ==
  ASSUME avail \in [Luns -> Nat], clock \in Nat, NEW p \in 0 .. NrParts - 1
  PROVE  /\ NextIdleTime(p) \in Nat
         /\ \A l \in Luns : PartOf[l] = p => NextIdleTime(p) >= avail[l]
<1>1. PICK L : L = {l \in Luns : PartOf[l] = p} OBVIOUS
<1>2. IsFiniteSet(L)
  <2>1. IsFiniteSet(Luns) BY TimeAssumption
  <2>2. QED BY <1>1, <2>1, FS_Subset
<1>3. PICK f : f = [l \in L |-> avail[l]] OBVIOUS
<1>4. f \in [L -> Nat] /\ \A l \in L : f[l] = avail[l] BY <1>1, <1>3
<1>5. PICK T : T = {f[l] : l \in L} OBVIOUS
<1>6. IsFiniteSet(T) /\ T \subseteq Nat BY <1>2, <1>4, <1>5, ImageFinite
<1>7. PICK times : times = T \cup {clock} OBVIOUS
<1>8. times \subseteq Nat /\ times # {} /\ IsFiniteSet(times)
  <2>1. IsFiniteSet(times) BY <1>6, <1>7, FS_AddElement
  <2>2. QED BY <1>6, <1>7, <2>1
<1>9. {clock} \cup {avail[l] : l \in {l \in Luns : PartOf[l] = p}} = times
  BY <1>1, <1>4, <1>5, <1>7
<1>10. \E t \in times : \A u \in times : t >= u BY <1>8, Greatest
<1>11. NextIdleTime(p) = CHOOSE t \in times : \A u \in times : t >= u
  BY <1>9 DEF NextIdleTime
<1>12. NextIdleTime(p) \in times /\ \A u \in times : NextIdleTime(p) >= u
  BY <1>10, <1>11
<1>13. \A l \in Luns : PartOf[l] = p => avail[l] \in times BY <1>1, <1>4, <1>5, <1>7
<1>14. QED BY <1>8, <1>12, <1>13

LEMMA FlushTimeIs ==
  ASSUME avail \in [Luns -> Nat], clock \in Nat
  PROVE  FlushTime \in Nat /\ \A l \in Luns : FlushTime >= avail[l]
<1>1. PICK P : P = 0 .. NrParts - 1 OBVIOUS
<1>2. IsFiniteSet(P) /\ P # {}
  <2>1. NrParts - 1 \in Int /\ 0 \in Int /\ 0 <= NrParts - 1 BY PartConstants
  <2>2. 0 \in P BY <1>1, <2>1
  <2>3. IsFiniteSet(P) BY <1>1, <2>1, FS_Interval
  <2>4. QED BY <2>2, <2>3
<1>3. PICK f : f = [p \in P |-> NextIdleTime(p)] OBVIOUS
<1>4. f \in [P -> Nat] /\ \A p \in P : f[p] = NextIdleTime(p) BY <1>1, <1>3, IdleTimeIs
<1>5. PICK times : times = {f[p] : p \in P} OBVIOUS
<1>6. times \subseteq Nat /\ times # {} /\ IsFiniteSet(times)
  BY <1>2, <1>4, <1>5, ImageFinite
<1>7. {NextIdleTime(p) : p \in 0 .. NrParts - 1} = times BY <1>1, <1>4, <1>5
<1>8. \E t \in times : \A u \in times : t >= u BY <1>6, Greatest
<1>9. FlushTime = CHOOSE t \in times : \A u \in times : t >= u BY <1>7 DEF FlushTime
<1>10. FlushTime \in times /\ \A u \in times : FlushTime >= u BY <1>8, <1>9
<1>11. FlushTime \in Nat BY <1>6, <1>10
<1>12. ASSUME NEW l \in Luns PROVE FlushTime >= avail[l]
  <2>1. PICK p : p = PartOf[l] OBVIOUS
  <2>2. p \in P BY <1>1, <2>1, TimeConstants
  <2>3. NextIdleTime(p) \in Nat /\ NextIdleTime(p) >= avail[l] BY <1>1, <2>1, <2>2, IdleTimeIs
  <2>4. NextIdleTime(p) \in times BY <1>4, <1>5, <2>2
  <2>5. avail[l] \in Nat OBVIOUS
  <2>6. QED BY <1>10, <1>11, <2>3, <2>4, <2>5
<1>13. QED BY <1>11, <1>12

(***************************************************************************)
(* Theorems                                                                *)
(***************************************************************************)

\* A read of the conventional FTL (conv_read) transfers each of its mapped
\* pages once, whatever the partitions, the flash pages and the gaps between
\* its pages are.
THEOREM ReadsAlwaysOnce == TimeSpec => []ReadsEachOnce
<1>1. TimeInit => TimeInv BY TimeStarts
<1>2. TimeInv /\ [TimeNext]_timeVars => TimeInv' BY TimeStep
<1>3. TimeInv => ReadsEachOnce
  <2>1. SUFFICES ASSUME TimeInv, cmd.op = "read", ~InRead, NEW f \in FlashPages
                 PROVE  cmd.issued[f]
                          = Cardinality({l \in cmd.first .. cmd.last : maptbl[l] = f})
    BY DEF ReadsEachOnce
  <2>2. PICK c : c = cmd OBVIOUS
  <2>3. /\ c \in Reads /\ ReadPlace(c) /\ ReadCount(c, maptbl)
        /\ c.first \in Nat /\ c.last \in Nat /\ c.at.page \in Nat /\ c.at.part \in Nat
        /\ c.at.xfer \in Nat
    BY <2>1, <2>2, AtRead
  <2>4. c.at.part > NrParts \/ c.at.start > c.last
    <3>1. ~(c.at.part <= NrParts /\ c.at.start <= c.last) BY <2>1, <2>2 DEF InRead
    <3>2. c.at.start \in Nat BY <2>3 DEF Reads, Places
    <3>3. QED BY <2>3, <3>1, <3>2, PartConstants
  <2>5. Gathered(c, f) = 0
    <3>1. ~(c.at.xfer > 0)
      <4>1. ~(c.at.part <= NrParts /\ c.at.start <= c.last) BY <2>1, <2>2 DEF InRead
      <4>2. QED BY <2>3, <4>1 DEF ReadPlace
    <3>2. QED BY <2>3, <3>1 DEF Gathered
  <2>6. PICK a : a = c.first OBVIOUS
  <2>7. PICK b : b = c.last OBVIOUS
  <2>8. PICK p : p = c.at.part OBVIOUS
  <2>9. PICK g : g = c.at.page OBVIOUS
  <2>10. a \in Nat /\ b \in Nat /\ p \in Nat /\ g \in Nat /\ (p > NrParts \/ a + p - 1 > b)
    BY <2>3, <2>4, <2>6, <2>7, <2>8, <2>9 DEF ReadPlace
  <2>11. Seen(maptbl, a, b, p, g, f) = {l \in a .. b : maptbl[l] = f} BY <2>10, SeenAll
  <2>12. c.issued[f] + Gathered(c, f) = Cardinality(Seen(maptbl, a, b, p, g, f))
    BY <2>3, <2>6, <2>7, <2>8, <2>9 DEF ReadCount
  <2>13. c.issued[f] \in Nat BY <2>3 DEF Reads
  <2>14. QED BY <2>2, <2>5, <2>6, <2>7, <2>11, <2>12, <2>13
<1>4. QED BY <1>1, <1>2, <1>3, PTL DEF TimeSpec

\* A flush (conv_flush) ends no earlier than any NAND command that was
\* issued before it, in whatever partition.
THEOREM FlushAlwaysLast == TimeSpec => FlushIsLast
<1>1. TimeInit => TimeInv BY TimeStarts
<1>2. TimeInv /\ [TimeNext]_timeVars => TimeInv' BY TimeStep
<1>3. TimeInv /\ [TimeNext]_timeVars => [flushed'.target >= flushed'.work]_flushed
  <2>1. SUFFICES ASSUME TimeInv, [TimeNext]_timeVars, flushed' # flushed
                 PROVE  flushed'.target >= flushed'.work
    OBVIOUS
  <2>2. Flush
    BY <2>1
    DEF TimeNext, timeVars, BeginRead, BeginWrite, ReadStep, WriteStep, Transfer, Dma,
        Completed, EndCommand, Tick
  <2>3. flushed' = [target |-> FlushTime, work |-> busyTill] BY <2>2 DEF Flush
  <2>4. /\ clock \in Nat /\ avail \in [Luns -> Nat] /\ busyTill \in Nat
        /\ busyTill = 0 \/ \E l \in Luns : busyTill <= avail[l]
    BY <2>1 DEF TimeInv, RingInv, CommandTypes, NandInv
  <2>5. PICK t : t = FlushTime OBVIOUS
  <2>6. t \in Nat /\ \A l \in Luns : t >= avail[l] BY <2>4, <2>5, FlushTimeIs
  <2>7. t >= busyTill
    <3>1. CASE busyTill = 0 BY <2>6, <3>1
    <3>2. CASE \E l \in Luns : busyTill <= avail[l]
      <4>1. PICK l \in Luns : busyTill <= avail[l] BY <3>2
      <4>2. avail[l] \in Nat /\ t >= avail[l] BY <2>4, <2>6
      <4>3. QED BY <2>4, <2>6, <4>1, <4>2
    <3>3. QED BY <2>4, <3>1, <3>2
  <2>8. QED BY <2>3, <2>5, <2>7
<1>4. QED BY <1>1, <1>2, <1>3, PTL DEF TimeSpec, FlushIsLast

\* Each channel and the link keep what ChannelWindow promises: the rings of
\* channel_model.c implement it.
THEOREM TimeImplementsWindow == TimeSpec => ImplementsWindow
<1>1. TimeInit => TimeInv BY TimeStarts
<1>2. TimeInv /\ [TimeNext]_timeVars => TimeInv' /\ RingStep BY TimeStep
<1>3. TimeInit => Window!Init
  <2>1. SUFFICES ASSUME TimeInit PROVE Window!Init OBVIOUS
  <2>2. PICK c : c = NewRing OBVIOUS
  <2>3. /\ ring = [b \in Buses |-> c] /\ c.time = 0 /\ c.head = 0 /\ c.end = 0
        /\ c.asked = [at |-> 0, units |-> 0]
        /\ \A i \in Entries : c.avail[i] = MaxCredits
    BY <2>1, <2>2 DEF TimeInit, NewRing
  <2>4. ASSUME NEW k \in Entries PROVE c.avail[(c.head + k) % NrEntries] = MaxCredits
    <3>1. c.head \in Entries /\ k \in 0 .. NrEntries BY <2>3, RingConstants
    <3>2. EntryAt(c.head, k) \in Entries BY <3>1, EntryIs
    <3>3. QED BY <2>3, <3>2 DEF EntryAt
  <2>5. ASSUME NEW b \in Buses
        PROVE  [k \in Entries |-> ring[b].avail[(ring[b].head + k) % NrEntries]]
                 = [k \in Entries |-> MaxCredits]
    <3>1. ring[b] = c BY <2>3
    <3>2. QED BY <2>4, <3>1
  <2>6. QED BY <2>3, <2>5, WindowSlots DEF Window!Init
<1>4. RingStep => [Window!Next]_(Window!vars)
  BY DEF RingStep, Window!vars
<1>5. QED BY <1>1, <1>2, <1>3, <1>4, PTL DEF TimeSpec, ImplementsWindow, Window!Spec
=============================================================================
