----------------------------- MODULE VictimSet -----------------------------
(***************************************************************************)
(* What the FTL expects of its queue of victim candidates: a set of lines  *)
(* with their valid counts, from which GREEDY takes a line of the least    *)
(* count and a CAT policy any line it likes.                               *)
(***************************************************************************)
EXTENDS Naturals

CONSTANTS Lines, MaxVpc

\* greedy: whether victims are taken by their valid count.
VARIABLES members, vpc, greedy

vars == <<members, vpc, greedy>>

Init == /\ members = {}
        /\ vpc \in [Lines -> 0 .. MaxVpc]
        /\ greedy \in BOOLEAN

\* A line outside the queue gets a new valid count, and joins it.
Join(l, v) ==
  /\ l \notin members
  /\ members' = members \cup {l}
  /\ vpc' = [vpc EXCEPT ![l] = v]
  /\ UNCHANGED greedy

\* A page of a candidate is invalidated.
Lower(l) ==
  /\ l \in members
  /\ vpc[l] > 0
  /\ vpc' = [vpc EXCEPT ![l] = @ - 1]
  /\ UNCHANGED <<members, greedy>>

\* The victim is selected.
Take(l) ==
  /\ l \in members
  /\ greedy => \A m \in members : vpc[l] <= vpc[m]
  /\ members' = members \ {l}
  /\ UNCHANGED <<vpc, greedy>>

Next == \E l \in Lines : \/ \E v \in 0 .. MaxVpc : Join(l, v)
                         \/ Lower(l)
                         \/ Take(l)

Spec == Init /\ [][Next]_vars
============================================================================
