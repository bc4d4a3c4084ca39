---------------------------- MODULE ChannelWindow ----------------------------
(***************************************************************************)
(* What a set of channel models promises: time is cut into slots, each of  *)
(* which has credits for a bounded number of transfers, and a request      *)
(* takes the first credits that are left from its own slot on.  Only a     *)
(* window of slots that begins with the present one can be asked for.      *)
(***************************************************************************)
EXTENDS Integers, FiniteSetsExt

CONSTANTS Buses, NrSlots, SlotTime, MaxCredits, XferLat

VARIABLES now,     \* of each channel, the time of its last request
          free,    \* the credits left in each slot of its window from now on
          asked,   \* its last request: the time, and the units
          end      \* and when they will be transferred

vars == <<now, free, asked, end>>

Slots == 0 .. NrSlots - 1

Init == /\ now = [b \in Buses |-> 0]
        /\ free = [b \in Buses |-> [k \in Slots |-> MaxCredits]]
        /\ asked = [b \in Buses |-> [at |-> 0, units |-> 0]]
        /\ end = [b \in Buses |-> 0]

Slot(t) == t \div SlotTime

\* The window of channel b has moved on to the slot of time t.
Moved(b, t) == LET gone == Slot(t) - Slot(now[b])
               IN  [k \in Slots |-> IF k + gone < NrSlots THEN free[b][k + gone]
                                                          ELSE MaxCredits]

\* Slots first and later give took[k] each, to a request of units:
\* none gives while an earlier one has credits left, and all that is asked
\* for is given unless none are left.
FirstCome(first, units, left, took) ==
  LET from    == first .. NrSlots - 1
      granted == MapThenSumSet(LAMBDA k : took[k], Slots)
  IN  /\ \A k \in Slots : took[k] >= 0 /\ (took[k] > 0 => k >= first)
      /\ \A k \in from : left[k] > 0 =>
           granted = units /\ \A j \in from : took[j] > 0 => j <= k
      /\ granted <= units

\* The last slot tried.
LastSlot(first, units, took) ==
  IF MapThenSumSet(LAMBDA k : took[k], Slots) < units THEN NrSlots - 1
  ELSE CHOOSE k \in first .. NrSlots - 1 :
         took[k] > 0 /\ \A j \in Slots : took[j] > 0 => j <= k

Serve(b) ==
  /\ now'[b] >= now[b] /\ asked'[b].units > 0
  /\ LET at    == asked'[b].at
         units == asked'[b].units
         first == Slot(at) - Slot(now'[b])
         moved == Moved(b, now'[b])
         took  == [k \in Slots |-> moved[k] - free'[b][k]]
         waits == LastSlot(first, units, took) - first - (units \div MaxCredits)
     IN  IF at < now'[b] \/ first >= NrSlots
           THEN free'[b] = moved /\ end'[b] = at
           ELSE /\ free'[b] \in [Slots -> 0 .. MaxCredits]
                /\ FirstCome(first, units, free'[b], took)
                /\ end'[b] = at + XferLat * units
                             + SlotTime * (IF waits > 0 THEN waits ELSE 0)
  /\ \A c \in Buses \ {b} : UNCHANGED <<now[c], free[c], asked[c], end[c]>>

Next == \E b \in Buses : Serve(b)

Spec == Init /\ [][Next]_vars
==============================================================================
