---------------------------- MODULE KvIterators ----------------------------
(***************************************************************************)
(* The iterators of the key-value namespace (kv_iter_open, kv_iter_read    *)
(* and kv_iter_close of kv_ftl.c): a handle walks the slots of the table,  *)
(* a buffer at a time, while the table changes between its reads.  A       *)
(* prefix under a bit mask selects the keys; here, a set of keys.          *)
(***************************************************************************)
EXTENDS KvTable

CONSTANTS NrIters,    \* the handles are 1 .. NrIters (16 in the code)
          Prefixes,   \* the sets of keys a host can select
          BufKeys     \* keys that fit in the buffer of a read

ASSUME IterAssumption == Prefixes \subseteq SUBSET Keys

VARIABLES
  iter,   \* iter_handle: [Handles -> NoIter, or the keys wanted and current_pos]
  owed    \* [Handles -> the keys that were there when the handle was opened,
          \* were not deleted since, and have still to be returned]

Handles == 1 .. NrIters
NoIter  == [pos |-> None]

InitIters == /\ Init
             /\ iter = [h \in Handles |-> NoIter]
             /\ owed = [h \in Handles |-> {}]

\* kv_iter_open: the first handle that is not in use.  With none, the code
\* returns 1, which is also a handle; the host keeps within NrIters.
Open(want) ==
  /\ \E w \in Workers : Idle(w)
  /\ \E h \in Handles :
       /\ iter[h] = NoIter
       /\ \A g \in Handles : g < h => iter[g] # NoIter
       /\ iter' = [iter EXCEPT ![h] = [pos |-> 0, want |-> want]]
       /\ owed' = [owed EXCEPT ![h] = {k \in want : data[k] # NoValue}]
  /\ UNCHANGED vars

\* kv_iter_close
Close(h) ==
  /\ \E w \in Workers : Idle(w)
  /\ iter[h] # NoIter
  /\ iter' = [iter EXCEPT ![h] = NoIter]
  /\ owed' = [owed EXCEPT ![h] = {}]
  /\ UNCHANGED vars

\* kv_iter_read: the matching keys from current_pos on, up to the slot whose
\* key does not fit in the buffer any more, or to the end of the table.
Matches(h) == {s \in iter[h].pos .. N - 1 : ~Free(s) /\ entry[s].key \in iter[h].want}
Stop(h) ==
  LET full == {s \in Matches(h) : Cardinality({r \in Matches(h) : r < s}) = BufKeys}
  IN  IF full = {} THEN N ELSE CHOOSE s \in full : TRUE
Returned(h) == {entry[s].key : s \in {r \in Matches(h) : r < Stop(h)}}

\* Mutant of ReadIter: the slot that did not fit is passed over.
ReadIterPast(h) ==
  /\ \E w \in Workers : Idle(w)
  /\ iter[h] # NoIter
  /\ iter' = [iter EXCEPT ![h].pos = IF Stop(h) = N THEN N ELSE Stop(h) + 1]
  /\ owed' = [owed EXCEPT ![h] = @ \ Returned(h)]
  /\ UNCHANGED vars

ReadIter(h) ==
  /\ \E w \in Workers : Idle(w)
  /\ iter[h] # NoIter
  /\ iter' = [iter EXCEPT ![h].pos = Stop(h)]
  /\ owed' = [owed EXCEPT ![h] = @ \ Returned(h)]
  /\ UNCHANGED vars

\* A key the host deletes is not owed any more.
Forget == owed' = [h \in Handles |-> {k \in owed[h] : data'[k] # NoValue}]

NextWithIters ==
  \/ /\ Next /\ Forget
     /\ UNCHANGED iter
  \/ \E want \in Prefixes : Open(want)
  \/ \E h \in Handles : Close(h) \/ ReadIter(h)

SpecWithIters == InitIters /\ [][NextWithIters]_<<vars, iter, owed>>
FairWithIters == SpecWithIters /\ \A w \in Workers :
                   WF_<<vars, iter, owed>>(Step(w) /\ Forget /\ UNCHANGED iter)

\* When an iterator has reached the end of the table, it has returned every
\* key that was stored all the while, whatever was inserted, deleted or moved
\* between its reads (kv_ftl.c, kv_iter_read).
IterComplete == \A h \in Handles : iter[h].pos = N => owed[h] = {}
============================================================================
