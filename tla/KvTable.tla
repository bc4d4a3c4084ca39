------------------------------ MODULE KvTable ------------------------------
(***************************************************************************)
(* The key-value namespace of kv_ftl.c: a hash table whose collisions are  *)
(* chained through next_slot inside one array, the values it points to in  *)
(* the device's storage, and the allocators that hand the storage out      *)
(* (bitmap.c, append_only.c).  Commands are executed by the I/O workers,   *)
(* with no lock around the table.  A worker visits one slot in a step.     *)
(*                                                                         *)
(* Keys have one length, so memcmp over the length of the key in the       *)
(* command tells keys apart.  Lengths and offsets are in units of storage; *)
(* a unit holds a token of the value it belongs to.                        *)
(***************************************************************************)
EXTENDS Integers, Sequences, FiniteSets

CONSTANTS N,                    \* hash_slots
          Keys,
          Hash,                 \* [Keys -> Slots]: get_hash_slot
          Workers,
          Payloads,             \* the values the host stores
          Buffers,              \* the lengths of the buffers it reads into
          SmallLen, LargeLen,   \* SMALL_LENGTH, LARGE_LENGTH
          Half,                 \* half of the storage: dev_size / 2
          Bitmap,               \* ALLOCATOR_TYPE is the bitmap
          Deletes,              \* the host deletes keys
          KeepsRoom,            \* it stores no more than there is room for
          KeepsSize,            \* it overwrites only as the code supports
          NoValue, Absent

Slots == 0 .. N - 1
None  == -1
Empty == [off |-> None]      \* a slot whose mem_offset is -1
Units == 0 .. 2 * Half - 1

ASSUME KvAssumption ==
  /\ N \in Nat \ {0}
  /\ Hash \in [Keys -> Slots]
  /\ \A v \in Payloads : Len(v) \in Nat \ {0}
  /\ Buffers \subseteq Nat
  /\ NoValue \notin Payloads
  /\ SmallLen \in Nat \ {0} /\ LargeLen \in Nat \ {0} /\ Half \in Nat
  /\ {Bitmap, Deletes, KeepsRoom, KeepsSize} \subseteq BOOLEAN

VARIABLES
  entry,   \* [Slots -> Empty or key, mem_offset and length]
  next,    \* [Slots -> Slots or None]: next_slot
  memory,  \* [Units -> value token]: storage_mapped
  alloc,   \* the allocators' static variables
  op,      \* [Workers -> the command in execution and where it is]
  answer,  \* [Workers -> the answer to the last command]
  data     \* [Keys -> value or NoValue]: what the host has stored

store == <<memory, alloc>>
vars  == <<entry, next, store, op, answer, data>>

Commands ==
  [kind : {"store", "batch"}, key : Keys, value : Payloads]
    \cup [kind : {"retrieve"}, key : Keys, room : Buffers]
    \cup [kind : {"exist"} \cup (IF Deletes THEN {"delete"} ELSE {}), key : Keys]

\* kv_init_namespace, with the allocators' init functions.
Area == [taken |-> {}, last |-> 0]
Init ==
  /\ entry = [s \in Slots |-> Empty]
  /\ next = [s \in Slots |-> None]
  /\ memory = [u \in Units |-> NoValue]
  /\ alloc = [small |-> Area, large |-> Area, latest |-> 0]
  /\ op = [w \in Workers |-> [pc |-> "idle"]]
  /\ answer = [w \in Workers |-> Absent]
  /\ data = [k \in Keys |-> NoValue]

Free(s) == entry[s].off = None
Idle(w) == op[w].pc = "idle"
At(w)   == op[w].slot
Holds(s, k) == ~Free(s) /\ entry[s].key = k

Kind(w) == op[w].cmd.kind
Key(w)  == op[w].cmd.key
Size(w) == Len(op[w].cmd.value)

\* A step of worker w that only moves on, one that has the place of a value,
\* and one that ends the command.
Go(w, pc, slot) == op' = [op EXCEPT ![w].pc = pc, ![w].slot = slot]
Value(w, pc, e) == op' = [op EXCEPT ![w].pc = pc, ![w].off = e.off, ![w].len = e.len]
End(w, a) == /\ op' = [op EXCEPT ![w] = [pc |-> "idle"]]
             /\ answer' = [answer EXCEPT ![w] = a]
Stored(w)  == data' = [data EXCEPT ![op[w].cmd.key] = op[w].cmd.value]

----------------------------------------------------------------------------
(* The allocators: nothing is ever given back *)

SmallBits == Half \div SmallLen
LargeBits == Half \div LargeLen

\* bitmap_find_next_zero_area for one bit from last on, in a map of bits
\* bits: it does not wrap, and returns bits + 1 if it finds none.
NextFit(area, bits) ==
  LET run == {c \in area.last .. bits - 1 : area.last .. c \subseteq area.taken}
      b   == area.last + Cardinality(run)
  IN  IF b >= bits THEN bits + 1 ELSE b

Take(area, bits) ==
  LET b == NextFit(area, bits)
  IN  [taken |-> area.taken \cup {b}, last |-> IF b + 1 > bits THEN 0 ELSE b + 1]

\* bitmap_allocate and append_only_allocate: the offset for n units, and the
\* state after.
Offset(n) ==
  CASE Bitmap /\ n > SmallLen  -> Half + NextFit(alloc.large, LargeBits) * LargeLen
    [] Bitmap /\ n <= SmallLen -> NextFit(alloc.small, SmallBits) * SmallLen
    [] OTHER                   -> alloc.latest

Taken(n) ==
  CASE Bitmap /\ n > SmallLen  -> [alloc EXCEPT !.large = Take(@, LargeBits)]
    [] Bitmap /\ n <= SmallLen -> [alloc EXCEPT !.small = Take(@, SmallBits)]
    [] OTHER                   -> [alloc EXCEPT !.latest = @ + n]

\* What a host that keeps to KeepsRoom looks at: it stores no more than the
\* table and the storage hold, also if all the commands in execution insert.
\* The code checks neither: it searches a full table for ever, and writes over
\* other values or behind the storage.
Busy == {w \in Workers : ~Idle(w)}
Room(n) ==
  LET b == Cardinality(Busy)
  IN  /\ Cardinality({s \in Slots : ~Free(s)}) + b < N
      /\ IF ~Bitmap THEN alloc.latest + (b + 1) * LargeLen <= 2 * Half
         ELSE IF n > SmallLen THEN Cardinality(alloc.large.taken) + b < LargeBits
         ELSE Cardinality(alloc.small.taken) + b < SmallBits

\* The stores over a value that a host of KeepsSize keeps to.  The code takes
\* others: but a batch does not update the length, nor is it updated if a
\* value is large; and a value that grows under the append-only allocator is
\* written over its neighbour.
SameRoom(c) ==
  data[c.key] # NoValue =>
    \/ Len(c.value) = Len(data[c.key])
    \/ /\ c.kind = "store"
       /\ Len(c.value) <= SmallLen /\ Len(data[c.key]) <= SmallLen
       /\ Bitmap \/ Len(c.value) <= Len(data[c.key])

----------------------------------------------------------------------------
(* The commands *)

\* The host sends a command, and a worker calls kv_perform_nvme_io_cmd.  The
\* stores of a batch are executed by one worker one after another.
Begin(w, c) ==
  /\ Idle(w)
  /\ c.kind \in {"store", "batch"} => /\ KeepsRoom => Room(Len(c.value))
                                      /\ KeepsSize => SameRoom(c)
  /\ op' = [op EXCEPT ![w] = [pc |-> "get", cmd |-> c, slot |-> Hash[c.key],
                              prev |-> None, off |-> None, len |-> None]]
  /\ UNCHANGED <<entry, next, store, answer, data>>

\* The loop of get_mapping_entry, update_mapping_entry and
\* delete_mapping_entry: past a slot with another key.
Walk(w) ==
  /\ op[w].pc \in {"get", "update", "delete"}
  /\ ~Free(At(w)) /\ ~Holds(At(w), Key(w))
  /\ next[At(w)] # None
  /\ Go(w, op[w].pc, next[At(w)])
  /\ UNCHANGED <<entry, next, store, answer, data>>

\* The key is found: its value is written or read, or it is looked up once
\* more to be deleted.
Hit(w) ==
  /\ op[w].pc = "get" /\ Holds(At(w), Key(w))
  /\ Kind(w) # "exist"
  /\ CASE Kind(w) = "retrieve" -> Value(w, "read", entry[At(w)])
       [] Kind(w) = "delete"   -> Go(w, "delete", Hash[Key(w)])
       [] OTHER                -> Value(w, "copy", entry[At(w)])
  /\ UNCHANGED <<entry, next, store, answer, data>>

Exists(w) ==
  /\ op[w].pc = "get" /\ Holds(At(w), Key(w))
  /\ Kind(w) = "exist"
  /\ End(w, <<>>)
  /\ UNCHANGED <<entry, next, store, data>>

\* The chain ends at a free slot or without a next one: KV_ERR_KEY_NOT_EXIST,
\* or an insertion.
Missing(w) == Free(At(w)) \/ (~Holds(At(w), Key(w)) /\ next[At(w)] = None)

NotExist(w) ==
  /\ op[w].pc \in {"get", "delete"} /\ Missing(w)
  /\ Kind(w) \in {"retrieve", "exist", "delete"}
  /\ End(w, Absent)
  /\ data' = IF Kind(w) = "delete" THEN [data EXCEPT ![Key(w)] = NoValue] ELSE data
  /\ UNCHANGED <<entry, next, store>>

\* allocate_mem_offset, allocate_mem_offset_by_length: neither allocator ever
\* reports that it failed.
Allocate(w) ==
  /\ op[w].pc = "get" /\ Missing(w)
  /\ Kind(w) \in {"store", "batch"}
  /\ Value(w, "copy", [off |-> Offset(Size(w)), len |-> None])
  /\ alloc' = Taken(Size(w))
  /\ UNCHANGED <<entry, next, memory, answer, data>>

\* The data transfer: all of the new value, whatever length the entry has.
\* Then an insertion looks for its slot; only a store that changes a small
\* length updates the entry.
Resized(w) == /\ Kind(w) = "store"
              /\ Size(w) # op[w].len
              /\ Size(w) <= SmallLen /\ op[w].len <= SmallLen
Written(w) == op[w].off .. op[w].off + Size(w) - 1

Copy(w) ==
  /\ op[w].pc = "copy"
  /\ memory' = [u \in Units |-> IF u \in Written(w)
                                THEN op[w].cmd.value[u - op[w].off + 1] ELSE memory[u]]
  /\ \/ /\ op[w].len = None
        /\ Go(w, IF Free(Hash[Key(w)]) THEN "fill" ELSE "tail", Hash[Key(w)])
        /\ UNCHANGED <<answer, data>>
     \/ /\ op[w].len # None /\ Resized(w)
        /\ Go(w, "update", Hash[Key(w)])
        /\ UNCHANGED <<answer, data>>
     \/ /\ op[w].len # None /\ ~Resized(w)
        /\ End(w, <<>>) /\ Stored(w)
  /\ UNCHANGED <<entry, next, alloc>>

\* As much of the value as the host's buffer holds; its length is known from
\* the lookup.
Read(w) ==
  /\ op[w].pc = "read"
  /\ LET room == op[w].cmd.room
         n    == IF op[w].len < room THEN op[w].len ELSE room
     IN  End(w, [i \in 1 .. n |-> memory[op[w].off + i - 1]])
  /\ UNCHANGED <<entry, next, store, data>>

\* update_mapping_entry
Update(w) ==
  /\ op[w].pc = "update" /\ Holds(At(w), Key(w))
  /\ entry' = [entry EXCEPT ![At(w)].len = Size(w)]
  /\ End(w, <<>>) /\ Stored(w)
  /\ UNCHANGED <<next, store>>

\* Mutant of Erase: only mem_offset is reset, next_slot is left.
EraseKeepsNext(w) ==
  /\ op[w].pc = "delete" /\ Holds(At(w), Key(w))
  /\ entry' = [entry EXCEPT ![At(w)] = Empty]
  /\ End(w, <<>>)
  /\ data' = [data EXCEPT ![Key(w)] = NoValue]
  /\ UNCHANGED <<next, store>>

\* delete_mapping_entry: the slot is free again, and at the end of whatever
\* chain led through it; the slot before keeps its next_slot.
Erase(w) ==
  /\ op[w].pc = "delete" /\ Holds(At(w), Key(w))
  /\ entry' = [entry EXCEPT ![At(w)] = Empty]
  /\ next' = [next EXCEPT ![At(w)] = None]
  /\ End(w, <<>>)
  /\ data' = [data EXCEPT ![Key(w)] = NoValue]
  /\ UNCHANGED store

----------------------------------------------------------------------------
(* Insertion: new_mapping_entry and find_next_slot *)

\* The tail of the chain: the last slot in use.
FindTail(w) ==
  /\ op[w].pc = "tail"
  /\ IF Free(At(w)) THEN op' = [op EXCEPT ![w].pc = "probe", ![w].slot = op[w].prev]
     ELSE IF next[At(w)] = None
     THEN op' = [op EXCEPT ![w].pc = "probe", ![w].prev = At(w)]
     ELSE op' = [op EXCEPT ![w].slot = next[At(w)], ![w].prev = At(w)]
  /\ UNCHANGED <<entry, next, store, answer, data>>

\* Mutant of Probe: at the end of the array it turns back to the tail.
ProbeTurns(w) ==
  /\ op[w].pc = "probe"
  /\ IF Free(At(w)) THEN Go(w, "fill", At(w))
     ELSE Go(w, "probe", IF At(w) + 1 = N THEN op[w].prev ELSE At(w) + 1)
  /\ UNCHANGED <<entry, next, store, answer, data>>

\* Mutant of Probe: the slot before the free one is taken.
ProbeBefore(w) ==
  /\ op[w].pc = "probe"
  /\ IF Free((At(w) + 1) % N) THEN Go(w, "fill", At(w)) ELSE Go(w, "probe", (At(w) + 1) % N)
  /\ UNCHANGED <<entry, next, store, answer, data>>

\* The next free slot from the tail on, round the array.
Probe(w) ==
  /\ op[w].pc = "probe"
  /\ IF Free(At(w)) THEN Go(w, "fill", At(w)) ELSE Go(w, "probe", (At(w) + 1) % N)
  /\ UNCHANGED <<entry, next, store, answer, data>>

\* The slot is filled: next_slot is not touched.
NewEntry(w) == [off |-> op[w].off, key |-> Key(w), len |-> Size(w)]

Fill(w) ==
  /\ op[w].pc = "fill"
  /\ entry' = [entry EXCEPT ![At(w)] = NewEntry(w)]
  /\ IF op[w].prev = None THEN End(w, <<>>) /\ Stored(w)
     ELSE Go(w, "link", At(w)) /\ UNCHANGED <<answer, data>>
  /\ UNCHANGED <<next, store>>

\* chain_mapping
Link(w) ==
  /\ op[w].pc = "link"
  /\ next' = [next EXCEPT ![op[w].prev] = At(w)]
  /\ End(w, <<>>) /\ Stored(w)
  /\ UNCHANGED <<entry, store>>

Step(w) ==
  \/ Walk(w) \/ Hit(w) \/ Exists(w) \/ NotExist(w)
  \/ Allocate(w) \/ Copy(w) \/ Read(w) \/ Update(w) \/ Erase(w)
  \/ FindTail(w) \/ Probe(w) \/ Fill(w) \/ Link(w)

Next == \E w \in Workers : Step(w) \/ \E c \in Commands : Begin(w, c)

Spec     == Init /\ [][Next]_vars
FairSpec == Spec /\ \A w \in Workers : WF_vars(Step(w))

----------------------------------------------------------------------------
(***************************************************************************)
(* Properties                                                              *)
(***************************************************************************)
\* A lookup of k fails if it stays among slots that do not hold k: from a slot
\* in use it goes on to the next.
Closed(C) == \A s \in C : Free(s) \/ next[s] \in C \cup {None}
Finds(k)  == \A C \in SUBSET Slots :
               Hash[k] \in C /\ Closed(C) => \E s \in C : Holds(s, k)

\* The slot of a lost key that is stored again may be where a chain ended, and
\* be found before it is linked; the store is not done yet.
Linking(k) == \E w \in Workers : op[w].pc = "link" /\ Key(w) = k

Lost  == {k \in Keys : data[k] # NoValue /\ (~Finds(k) \/ Linking(k))}
Asked == [w \in Workers |-> IF Idle(w) THEN <<>> ELSE op[w].cmd]
Map   == INSTANCE KvMap WITH lost <- Lost, asked <- Asked

\* A value that is read is the one last stored, for every order of stores,
\* deletes and reuse of slots; and a key stops being found only when another
\* key is deleted (kv_ftl.c, __do_perform_kv_io and delete_mapping_entry).  Of
\* a host of KeepsRoom and KeepsSize, and a single worker: with any other,
\* values are written over one another, or read with a wrong length.
ImplementsKvMap == Map!Spec

\* Chains end: no set of slots is linked to itself in a ring, a slot a worker
\* is about to link included.  A ring would keep a worker in
\* get_mapping_entry for ever.
After(s) == ({next[s]} \cup {At(w) : w \in {v \in Workers :
                op[v].pc \in {"fill", "link"} /\ op[v].prev = s}}) \ {None}
ChainsEnd == \A C \in SUBSET Slots : C # {} => \E s \in C : After(s) \cap C = {}

\* Every command ends, as long as the host leaves a slot free (KeepsRoom).
CommandsEnd == \A w \in Workers : ~Idle(w) ~> Idle(w)
============================================================================
