---------------------------- MODULE MCWorkQueue ----------------------------
(* Instances of WorkQueue for TLC. *)
EXTENDS WorkQueue, TLC

Symmetry == Permutations(Tags)

InThree  == {{"completed"}, {"request", "next"}, {"copied", "internal"}}
AtOnce   == {Fields}

\* What is left in an entry that is neither queued nor being filled: nobody
\* reads it as long as ActsOnQueued holds, which a run with this VIEW checks.
LiveView == <<links, lists, latest, disp, work, host, completed,
              [e \in Queued \cup InHand |-> <<tag[e], target[e], internal[e], copied[e]>>]>>
============================================================================
