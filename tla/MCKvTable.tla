----------------------------- MODULE MCKvTable -----------------------------
(* Instances of KvTable for TLC. *)
EXTENDS KvIterators, TLC

CONSTANTS k1, k2, k3, x, y

\* Values of one unit, so that an old one is told from a new one, a longer
\* small one and a large one.
Small == {<<x>>, <<y>>, <<x, x>>}
All   == Small \cup {<<x, x, x>>}

\* What an iterator selects: the keys the overflow mixes.
Some == {{k2, k3}}

\* Two keys that collide, and one whose slot is the first overflow: the last
\* of the array, so the search for a free one wraps.
Collide == k1 :> N - 2 @@ k2 :> N - 2 @@ k3 :> N - 1

\* Without what nobody reads any more: storage that no entry and no command
\* in execution points to, and the answer to the last command.
Extent(e) == IF e.off = None THEN {} ELSE e.off .. e.off + e.len - 1
LiveView ==
  <<entry, next, alloc, op, data, iter, owed,
    [u \in UNION {Extent(entry[s]) : s \in Slots}
             \cup UNION {Extent(op[v]) : v \in {z \in Busy : op[z].len # None}} |-> memory[u]],
    [v \in {z \in Busy : op[z].pc \in {"update", "tail", "probe", "fill", "link"}} |->
       [u \in Written(v) |-> memory[u]]]>>
============================================================================
