---------------------------- MODULE CommandPath ----------------------------
(***************************************************************************)
(* What a host expects of the device's queues: the commands of a           *)
(* submission queue are taken in the order they were submitted, a command  *)
(* inside the device is completed once, and the host learns of completions *)
(* in the order they were posted.                                          *)
(***************************************************************************)
EXTENDS Sequences

CONSTANTS Tags,      \* command identifiers, unique over all queues
          SQs, CQs,  \* submission and completion queues
          SqOf,      \* [Tags -> SQs]
          CqOf       \* [SQs -> CQs]

VARIABLES busy,    \* commands the host has sent and not seen the end of
          sent,    \* [SQs -> Seq(Tags)]  submitted, not taken
          inside,  \* taken, not completed
          done     \* [CQs -> Seq(Tags)]  completed, not seen by the host

vars == <<busy, sent, inside, done>>

Init == /\ busy = {}
        /\ sent = [q \in SQs |-> <<>>]
        /\ inside = {}
        /\ done = [k \in CQs |-> <<>>]

Submit(c) == /\ c \notin busy
             /\ busy' = busy \cup {c}
             /\ sent' = [sent EXCEPT ![SqOf[c]] = Append(@, c)]
             /\ UNCHANGED <<inside, done>>

Take(q) == /\ sent[q] # <<>>
           /\ inside' = inside \cup {Head(sent[q])}
           /\ sent' = [sent EXCEPT ![q] = Tail(@)]
           /\ UNCHANGED <<busy, done>>

Complete(c) == /\ c \in inside
               /\ inside' = inside \ {c}
               /\ done' = [done EXCEPT ![CqOf[SqOf[c]]] = Append(@, c)]
               /\ UNCHANGED <<busy, sent>>

Learn(k) == /\ done[k] # <<>>
            /\ busy' = busy \ {Head(done[k])}
            /\ done' = [done EXCEPT ![k] = Tail(@)]
            /\ UNCHANGED <<sent, inside>>

Next == \/ \E c \in Tags : Submit(c) \/ Complete(c)
        \/ \E q \in SQs : Take(q)
        \/ \E k \in CQs : Learn(k)

Spec == Init /\ [][Next]_vars
============================================================================
