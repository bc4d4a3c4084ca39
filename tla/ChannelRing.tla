----------------------------- MODULE ChannelRing -----------------------------
(***************************************************************************)
(* The channel model as the code keeps it (chmodel_request of              *)
(* channel_model.c): a ring of credits whose head is the slot of the last  *)
(* request's time.  A record c of Ring is a struct channel_model;          *)
(* lengths are in units of UNIT_XFER_SIZE.                                 *)
(***************************************************************************)
EXTENDS Integers

CONSTANTS NrEntries,    \* NR_CREDIT_ENTRIES
          Interval,     \* UNIT_TIME_INTERVAL
          MaxCredits,   \* ch->max_credits
          XferLat       \* ch->xfer_lat

Entries == 0 .. NrEntries - 1

ASSUME RingAssumption ==
  /\ {NrEntries, Interval, MaxCredits} \subseteq Nat \ {0}
  /\ XferLat \in Nat

\* chmodel_init.  asked and end are the last request and its answer.
NewRing == [head |-> 0, valid |-> 0, time |-> 0,
            avail |-> [i \in Entries |-> MaxCredits],
            asked |-> [at |-> 0, units |-> 0], end |-> 0]

Least2(a, b) == IF a < b THEN a ELSE b

\* Mutant of Passed: the part of the ring before the wrap only.
PassedStraight(c, offs) == {i \in Entries : c.head <= i /\ i < c.head + offs}

\* The entries the head moves over, up to the end of the ring and from its
\* beginning.
Passed(c, offs) ==
  IF c.head + offs >= NrEntries
    THEN (c.head .. NrEntries - 1) \cup (0 .. offs - (NrEntries - c.head) - 1)
    ELSE c.head .. c.head + offs - 1

\* The head follows the clock, but not past the entries in use.
Forward(c, now) ==
  LET offs == Least2((now \div Interval) - (c.time \div Interval), c.valid)
  IN  [c EXCEPT !.avail = [i \in Entries |-> IF i \in Passed(c, offs) THEN MaxCredits
                                             ELSE @[i]],
                !.head = (@ + offs) % NrEntries,
                !.time = now,
                !.valid = @ - offs]

\* Credits are taken entry by entry; wanted[k] are missing after k of them.
Wanted(c, pos, units) ==
  LET wanted[k \in 0 .. NrEntries] ==
        IF k = 0 THEN units
        ELSE wanted[k - 1]
               - Least2(wanted[k - 1], c.avail[(pos + k - 1) % NrEntries])
  IN  wanted

\* The number of steps from entry pos to the last one tried.
Steps(c, pos, units) ==
  CHOOSE d \in Entries :
    LET over(k) == \/ Wanted(c, pos, units)[k + 1] = 0
                   \/ (pos + k + 1) % NrEntries = c.head
    IN  over(d) /\ \A k \in 0 .. d - 1 : ~over(k)

ValidLength(c, pos) == IF pos >= c.head THEN pos - c.head + 1
                                        ELSE NrEntries - (c.head - pos - 1)

Taken(c, pos, units) ==
  LET d    == Steps(c, pos, units)
      len  == ValidLength(c, (pos + d) % NrEntries)
      step(i) == (i - pos + NrEntries) % NrEntries
  IN  [c EXCEPT
        !.avail = [i \in Entries |->
                     IF step(i) <= d
                       THEN @[i] - Least2(Wanted(c, pos, units)[step(i)], @[i]) ELSE @[i]],
        !.valid = IF len > @ THEN len ELSE @]

\* chmodel_request at time now for units from time at on.
Request(ring, now, at, units) ==
  LET c     == Forward([ring EXCEPT !.asked = [at |-> at, units |-> units]], now)
      offs  == (at \div Interval) - (now \div Interval)
      pos   == (c.head + offs) % NrEntries
      waits == Steps(c, pos, units) - (units \div MaxCredits)
  IN  IF at < now \/ offs >= NrEntries THEN [c EXCEPT !.end = at]
      ELSE [Taken(c, pos, units) EXCEPT
              !.end = at + XferLat * units + Interval * (IF waits > 0 THEN waits ELSE 0)]
==============================================================================
