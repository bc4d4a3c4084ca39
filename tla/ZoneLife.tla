------------------------------ MODULE ZoneLife ------------------------------
(***************************************************************************)
(* What a zoned namespace promises of each zone: it is written from its    *)
(* start towards its capacity, only while it is active, it is full once    *)
(* the capacity is reached or the host says so, and nothing but a reset    *)
(* brings it back.  Zones do not wait for each other, so a step says what  *)
(* may happen to every zone.                                               *)
(***************************************************************************)
EXTENDS Naturals

CONSTANTS Zones, Capacity

\* written: how far from the start of the zone its write pointer is.
VARIABLES state, written

vars == <<state, written>>

Open   == {"OPENED_IMPL", "OPENED_EXPL"}
Active == Open \cup {"CLOSED"}
States == Active \cup {"EMPTY", "FULL"}

Init == /\ state = [z \in Zones |-> "EMPTY"]
        /\ written = [z \in Zones |-> 0]

\* The host opens, closes, finishes and resets zones.
Opened(z)   == /\ state[z] # "FULL"
               /\ state'[z] \in Open
               /\ written'[z] = written[z]
Closed(z)   == /\ state[z] \in Open
               /\ state'[z] = "CLOSED"
               /\ written'[z] = written[z]
Finished(z) == /\ state'[z] = "FULL"
               /\ written'[z] = written[z]
Reset(z)    == /\ state'[z] = "EMPTY"
               /\ written'[z] = 0

\* A write opens the zone it advances in; committing the data of a random
\* write area leaves it open or closed as it was.
Advanced(z) == /\ state[z] # "FULL"
               /\ written'[z] \in (written[z] + 1) .. (Capacity - 1)
               /\ \/ state'[z] \in Open
                  \/ state'[z] = state[z] /\ state[z] = "CLOSED"

\* The last write.
Filled(z)   == /\ state[z] # "FULL"
               /\ written[z] < Capacity
               /\ written'[z] = Capacity
               /\ state'[z] = "FULL"

Kept(z)     == state'[z] = state[z] /\ written'[z] = written[z]

ZoneStep(z) == \/ Opened(z) \/ Closed(z) \/ Finished(z) \/ Reset(z)
               \/ Advanced(z) \/ Filled(z) \/ Kept(z)

Next == /\ state' \in [Zones -> States]
        /\ written' \in [Zones -> 0 .. Capacity]
        /\ \A z \in Zones : ZoneStep(z)

Spec == Init /\ [][Next]_vars
=============================================================================
