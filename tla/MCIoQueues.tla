----------------------------- MODULE MCIoQueues -----------------------------
(* Instances of IoQueues for TLC. *)
EXTENDS IoQueues, TLC

\* Commands of one submission queue are alike.
Symmetry == UNION {Permutations(TagsOf(q)) : q \in SQs}

\* One submission queue with its completion queue.
OneQueue == [c \in Tags |-> 1]
Own == [q \in SQs |-> q]

\* Two submission queues, the first with one command and the second with the
\* others, and one completion queue for both.
TwoQueues == [c \in Tags |-> IF c = CHOOSE d \in Tags : TRUE THEN 1 ELSE 2]
Shared == [q \in SQs |-> 1]

\* Without what nobody reads any more: the entries that were taken or read,
\* but for their phase bits.
LiveView == <<host, dbs, disp, work, cqs, wrk, irq,
              [q \in SQs |-> Sent(q)], [k \in CQs |-> Done(k)],
              [k \in CQs |-> [i \in CqSlots |-> cq[k][i].phase]]>>
=============================================================================
