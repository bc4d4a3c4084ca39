--------------------------- MODULE KvTableProofs ---------------------------
(***************************************************************************)
(* Chains end, for tables of any size, any keys and any hash, any          *)
(* allocator and any number of workers, provided that keys are not deleted *)
(* while another worker inserts: no deletes, or a single worker.  With a   *)
(* single worker iterators are complete, and the table, its storage and    *)
(* its allocators implement a map.                                         *)
(***************************************************************************)
EXTENDS KvIterators, Arithmetic, FiniteSetTheorems, TLAPS

Running == [pc   : {"get", "update", "delete", "copy", "read", "tail", "probe", "fill", "link"},
            cmd  : Commands,
            slot : Slots,
            prev : Slots \cup {None},
            off  : Nat \cup {None},
            len  : Nat \cup {None}]

AllocType == alloc \in [small  : [taken : SUBSET Nat, last : Nat],
                        large  : [taken : SUBSET Nat, last : Nat],
                        latest : Nat]

Types ==
  /\ next \in [Slots -> Slots \cup {None}]
  /\ entry \in [Slots -> {Empty} \cup [off : Nat, key : Keys, len : Nat]]
  /\ DOMAIN op = Workers
  /\ op = [w \in Workers |-> op[w]]
  /\ \A w \in Workers : op[w] = [pc |-> "idle"] \/ op[w] \in Running
  /\ AllocType

\* Where a command is: only a delete deletes, a store has the place of its
\* value, and an insertion goes on from slots in use.
PlacedAt(w) ==
  /\ op[w].pc = "delete" => op[w].cmd.kind = "delete"
  /\ op[w].pc \in {"copy", "update", "tail", "probe", "fill", "link"} =>
       op[w].off \in Nat /\ op[w].cmd.kind \in {"store", "batch"}
  /\ op[w].pc \in {"get", "copy"} => op[w].prev = None
  /\ op[w].pc = "tail" => \/ op[w].prev # None /\ ~Free(op[w].prev)
                          \/ op[w].prev = None /\ ~Free(At(w))
  /\ op[w].pc \in {"probe", "link"} => op[w].prev # None
  /\ op[w].pc \in {"probe", "fill", "link"} => op[w].prev = None \/ ~Free(op[w].prev)

Placed == \A w \in Workers : PlacedAt(w)

\* Nothing leads on from a slot that is free.
FreeIsEnd == \A s \in Slots : Free(s) => After(s) = {}

IInv == Types /\ Placed /\ FreeIsEnd /\ ChainsEnd

PCs == {"get", "update", "delete", "copy", "read", "tail", "probe", "fill", "link"}

\* What a worker's step leaves of the other workers.
Others(w) == /\ DOMAIN op' = Workers
             /\ op' = [v \in Workers |-> op'[v]]
             /\ \A v \in Workers \ {w} : op'[v] = op[v]

\* A worker that moves on stays in the command it executes.
LEMMA GoOn ==
  ASSUME Types, NEW w \in Workers, op[w] \in Running,
         NEW p \in PCs, NEW s \in Slots, Go(w, p, s)
  PROVE  /\ Others(w) /\ op'[w] \in Running
         /\ op'[w].pc = p /\ op'[w].slot = s
         /\ op'[w].cmd = op[w].cmd /\ op'[w].prev = op[w].prev
         /\ op'[w].off = op[w].off /\ op'[w].len = op[w].len
  BY DEF Types, Go, Others, Running, PCs

LEMMA ValueOn ==
  ASSUME Types, NEW w \in Workers, op[w] \in Running,
         NEW p \in PCs, NEW e, e.off \in Nat, e.len \in Nat \cup {None}, Value(w, p, e)
  PROVE  /\ Others(w) /\ op'[w] \in Running
         /\ op'[w].pc = p /\ op'[w].off = e.off /\ op'[w].len = e.len
         /\ op'[w].slot = op[w].slot
         /\ op'[w].cmd = op[w].cmd /\ op'[w].prev = op[w].prev
  BY DEF Types, Value, Others, Running, PCs

LEMMA EndOn ==
  ASSUME Types, NEW w \in Workers, NEW a, End(w, a)
  PROVE  Others(w) /\ op'[w] = [pc |-> "idle"]
  BY DEF Types, End, Others

\* Chains end after a step that adds no link.
LEMMA FewerLinks ==
  ASSUME ChainsEnd, \A s \in Slots : After(s)' \subseteq After(s)
  PROVE  ChainsEnd'
  BY DEF ChainsEnd

\* The allocators hand out natural offsets, and stay well typed.
LEMMA AllocTyped ==
  ASSUME AllocType, NEW n \in Nat
  PROVE  Offset(n) \in Nat /\ Taken(n) \in [small  : [taken : SUBSET Nat, last : Nat],
                                            large  : [taken : SUBSET Nat, last : Nat],
                                            latest : Nat]
<1>1. ASSUME NEW area \in [taken : SUBSET Nat, last : Nat], NEW bits \in Nat
      PROVE  NextFit(area, bits) \in Nat
  <2> DEFINE run == {c \in area.last .. bits - 1 : area.last .. c \subseteq area.taken}
  <2>1. IsFiniteSet(area.last .. bits - 1) BY FS_Interval
  <2>2. IsFiniteSet(run) BY <2>1, FS_Subset
  <2>3. Cardinality(run) \in Nat BY <2>2, FS_CardinalityType
  <2>4. QED BY <2>3 DEF NextFit
<1>2. ASSUME NEW area \in [taken : SUBSET Nat, last : Nat], NEW bits \in Nat
      PROVE  Take(area, bits) \in [taken : SUBSET Nat, last : Nat]
  <2>1. NextFit(area, bits) \in Nat BY <1>1
  <2>2. QED BY <2>1 DEF Take
<1>3. SmallBits \in Nat /\ LargeBits \in Nat
  BY KvAssumption DEF SmallBits, LargeBits
<1>4. /\ NextFit(alloc.large, LargeBits) \in Nat
      /\ NextFit(alloc.small, SmallBits) \in Nat
      /\ alloc.latest \in Nat
  BY <1>1, <1>3 DEF AllocType
<1>5. ASSUME NEW b \in Nat, NEW m \in Nat PROVE b * m \in Nat OBVIOUS
<1>6. Offset(n) \in Nat
  <2>1. NextFit(alloc.large, LargeBits) * LargeLen \in Nat BY <1>4, <1>5, KvAssumption
  <2>2. NextFit(alloc.small, SmallBits) * SmallLen \in Nat BY <1>4, <1>5, KvAssumption
  <2>3. QED BY <2>1, <2>2, <1>4, KvAssumption DEF Offset
<1>7. Taken(n) \in [small  : [taken : SUBSET Nat, last : Nat],
                    large  : [taken : SUBSET Nat, last : Nat],
                    latest : Nat]
  <2>1. /\ Take(alloc.large, LargeBits) \in [taken : SUBSET Nat, last : Nat]
        /\ Take(alloc.small, SmallBits) \in [taken : SUBSET Nat, last : Nat]
    BY <1>2, <1>3 DEF AllocType
  <2>2. alloc.latest + n \in Nat BY <1>4
  <2>3. QED BY <2>1, <2>2, KvAssumption DEF Taken, AllocType
<1>8. QED BY <1>6, <1>7

\* Keys are deleted by a worker that is alone, or never.
Calm == ~Deletes \/ \A v, w \in Workers : v = w

\* A step that only moves worker w on, to no new link, keeps the links.
LEMMA NoNewLink ==
  ASSUME NEW w \in Workers, Others(w), next' = next,
         op'[w].pc \in {"fill", "link"} =>
           \/ op'[w].prev = None
           \/ /\ op[w].pc \in {"fill", "link"}
              /\ op'[w].prev = op[w].prev /\ op'[w].slot = op[w].slot
  PROVE  \A s \in Slots : After(s)' \subseteq After(s)
<1> SUFFICES ASSUME NEW s \in Slots, NEW t \in After(s)' PROVE t \in After(s)
  OBVIOUS
<1>1. t # None BY DEF After
<1>2. CASE t = next'[s] BY <1>1, <1>2 DEF After
<1>3. CASE t # next'[s]
  <2>1. PICK v \in Workers : /\ op'[v].pc \in {"fill", "link"}
                             /\ op'[v].prev = s /\ t = op'[v].slot
    BY <1>3 DEF After, At
  <2>2. s # None BY DEF Slots, None
  <2>3. /\ op[v].pc \in {"fill", "link"}
        /\ op[v].prev = s /\ t = op[v].slot
    <3>1. CASE v = w BY <3>1, <2>1, <2>2
    <3>2. CASE v # w BY <3>2, <2>1 DEF Others
    <3>3. QED BY <3>1, <3>2
  <2>4. QED BY <2>3, <1>1 DEF After, At
<1>4. QED BY <1>2, <1>3

\* The other workers stay placed, as long as no slot becomes free.
LEMMA OthersPlaced ==
  ASSUME Placed, NEW w \in Workers, Others(w),
         \A s \in Slots : Free(s)' => Free(s),
         \A v \in Workers : op[v] = [pc |-> "idle"] \/ op[v] \in Running
  PROVE  \A v \in Workers \ {w} : PlacedAt(v)'
<1> SUFFICES ASSUME NEW v \in Workers \ {w} PROVE PlacedAt(v)'
  OBVIOUS
<1>1. op'[v] = op[v] /\ PlacedAt(v) BY DEF Others, Placed
<1>2. CASE op[v] = [pc |-> "idle"]
  BY <1>1, <1>2 DEF PlacedAt
<1>3. CASE op[v] \in Running
  <2>1. op[v].prev \in Slots \cup {None} /\ op[v].slot \in Slots
    BY <1>3 DEF Running
  <2>2. QED BY <1>1, <2>1 DEF PlacedAt, At
<1>4. QED BY <1>2, <1>3

\* What is left to show of a step that leaves the table alone: where the
\* worker is now.
LEMMA TableKept ==
  ASSUME IInv, NEW w \in Workers, Others(w),
         UNCHANGED <<entry, next>>, AllocType',
         op'[w] = [pc |-> "idle"] \/ op'[w] \in Running,
         PlacedAt(w)',
         op'[w].pc \in {"fill", "link"} =>
           \/ op'[w].prev = None
           \/ /\ op[w].pc \in {"fill", "link"}
              /\ op'[w].prev = op[w].prev /\ op'[w].slot = op[w].slot
  PROVE  IInv'
<1>1. Types'
  <2>1. \A v \in Workers : op'[v] = [pc |-> "idle"] \/ op'[v] \in Running
    BY DEF IInv, Types, Others
  <2>2. QED BY <2>1 DEF IInv, Types, Others, AllocType
<1>2. \A s \in Slots : After(s)' \subseteq After(s)
  BY NoNewLink
<1>3. \A s \in Slots : Free(s)' => Free(s) BY DEF Free
<1>4. Placed' BY <1>3, OthersPlaced DEF IInv, Placed, Types
<1>5. ChainsEnd' BY <1>2, FewerLinks DEF IInv
<1>6. FreeIsEnd' BY <1>2 DEF IInv, FreeIsEnd, Free
<1>7. QED BY <1>1, <1>4, <1>5, <1>6 DEF IInv

\* A command that stores has a value of some length.
LEMMA StoresValue ==
  ASSUME NEW c \in Commands, c.kind \in {"store", "batch"}
  PROVE  c.value \in Payloads /\ Len(c.value) \in Nat
  BY KvAssumption DEF Commands

\* A worker in a command, and what is known of it.
LEMMA InCommand ==
  ASSUME IInv, NEW w \in Workers, op[w].pc # "idle"
  PROVE  /\ op[w] \in Running /\ PlacedAt(w)
         /\ op[w].cmd \in Commands /\ op[w].cmd.key \in Keys
         /\ At(w) \in Slots /\ Hash[Key(w)] \in Slots
         /\ next[At(w)] \in Slots \cup {None}
         /\ ~Free(At(w)) => entry[At(w)] \in [off : Nat, key : Keys, len : Nat]
<1>1. op[w] \in Running BY DEF IInv, Types
<1>2. op[w].cmd \in Commands /\ op[w].slot \in Slots BY <1>1 DEF Running
<1>3. op[w].cmd.key \in Keys BY <1>2 DEF Commands
<1>4. QED BY <1>1, <1>2, <1>3, KvAssumption DEF IInv, Types, Placed, At, Key, Free, Empty, None

----------------------------------------------------------------------------
(* One lemma for each kind of step *)

LEMMA InitInv == Init => IInv
<1> SUFFICES ASSUME Init PROVE IInv OBVIOUS
<1>1. Types BY DEF Init, Types, AllocType, Area
<1>2. Placed BY DEF Init, Placed, PlacedAt
<1>3. \A s \in Slots : After(s) = {} BY DEF Init, After
<1>4. QED BY <1>1, <1>2, <1>3 DEF IInv, FreeIsEnd, ChainsEnd

LEMMA BeginInv ==
  ASSUME IInv, NEW w \in Workers, NEW c \in Commands, Begin(w, c)
  PROVE  IInv'
<1>1. Others(w) BY DEF Begin, Others, IInv, Types
<1>2. op'[w] = [pc |-> "get", cmd |-> c, slot |-> Hash[c.key],
                prev |-> None, off |-> None, len |-> None]
  BY DEF Begin, IInv, Types
<1>3. c.key \in Keys BY DEF Commands
<1>4. op'[w] \in Running BY <1>2, <1>3, KvAssumption DEF Running
<1>5. PlacedAt(w)' BY <1>2 DEF PlacedAt
<1>6. UNCHANGED <<entry, next>> /\ AllocType'
  BY DEF Begin, IInv, Types, AllocType, store
<1>7. QED BY <1>1, <1>2, <1>4, <1>5, <1>6, TableKept

LEMMA MovesInv ==
  ASSUME IInv, NEW w \in Workers, Walk(w) \/ FindTail(w) \/ (Probe(w) /\ ~Free(At(w)))
  PROVE  IInv'
<1>1. op[w].pc # "idle" BY DEF Walk, FindTail, Probe
<1>2. /\ op[w] \in Running /\ PlacedAt(w) /\ Types
      /\ At(w) \in Slots /\ next[At(w)] \in Slots \cup {None}
  BY <1>1, InCommand DEF IInv
<1>3. UNCHANGED <<entry, next>> /\ AllocType'
  BY DEF Walk, FindTail, Probe, IInv, Types, AllocType, store
<1>4. CASE Walk(w)
  <2>1. op[w].pc \in PCs /\ next[At(w)] \in Slots BY <1>2, <1>4 DEF Walk, PCs
  <2>2. Go(w, op[w].pc, next[At(w)]) BY <1>4 DEF Walk
  <2>3. /\ Others(w) /\ op'[w] \in Running
        /\ op'[w].pc = op[w].pc
        /\ op'[w].cmd = op[w].cmd /\ op'[w].prev = op[w].prev
        /\ op'[w].off = op[w].off
    BY <1>2, <2>1, <2>2, GoOn
  <2>4. op[w].pc \in {"get", "update", "delete"} BY <1>4 DEF Walk
  <2>5. PlacedAt(w)' BY <1>2, <2>3, <2>4 DEF PlacedAt
  <2>6. QED BY <1>3, <2>3, <2>4, <2>5, TableKept
<1>5. CASE (Probe(w) /\ ~Free(At(w)))
  <2>1. (At(w) + 1) % N \in Slots
    <3>1. At(w) + 1 \in Nat /\ N \in Nat \ {0} BY <1>2, KvAssumption DEF Slots
    <3>2. QED BY <3>1 DEF Slots
  <2>2. "probe" \in PCs BY DEF PCs
  <2>3. Go(w, "probe", (At(w) + 1) % N) BY <1>5 DEF Probe
  <2>4. /\ Others(w) /\ op'[w] \in Running
        /\ op'[w].pc = "probe"
        /\ op'[w].cmd = op[w].cmd /\ op'[w].prev = op[w].prev
        /\ op'[w].off = op[w].off
    BY <1>2, <2>1, <2>2, <2>3, GoOn
  <2>5. op[w].pc = "probe" BY <1>5 DEF Probe
  <2>6. op[w].prev \in Slots \cup {None} BY <1>2 DEF Running
  <2>7. PlacedAt(w)' BY <1>2, <1>3, <2>4, <2>5, <2>6 DEF PlacedAt, Free
  <2>8. QED BY <1>3, <2>4, <2>7, TableKept
<1>6. CASE FindTail(w)
  <2>1. op[w].pc = "tail" BY <1>6 DEF FindTail
  <2>2. /\ op[w].prev \in Slots \cup {None} /\ At(w) = op[w].slot
        /\ None \notin Slots
    BY <1>2 DEF Running, At, Slots, None
  <2>3. CASE Free(At(w))
    <3>1. op' = [op EXCEPT ![w].pc = "probe", ![w].slot = op[w].prev]
      BY <1>6, <2>3 DEF FindTail
    <3>2. op[w].prev \in Slots /\ ~Free(op[w].prev)
      BY <1>2, <2>1, <2>2, <2>3 DEF PlacedAt
    <3>3. "probe" \in PCs /\ Go(w, "probe", op[w].prev) BY <3>1 DEF PCs, Go
    <3>4. /\ Others(w) /\ op'[w] \in Running
          /\ op'[w].pc = "probe"
          /\ op'[w].cmd = op[w].cmd /\ op'[w].prev = op[w].prev
          /\ op'[w].off = op[w].off
      BY <1>2, <3>2, <3>3, GoOn
    <3>5. PlacedAt(w)' BY <1>2, <1>3, <2>1, <2>2, <3>2, <3>4 DEF PlacedAt, Free
    <3>6. QED BY <1>3, <3>4, <3>5, TableKept
  <2>4. CASE ~Free(At(w)) /\ next[At(w)] = None
    <3>1. op' = [op EXCEPT ![w].pc = "probe", ![w].prev = At(w)]
      BY <1>6, <2>4 DEF FindTail
    <3>2. /\ Others(w) /\ op'[w] \in Running
          /\ op'[w].pc = "probe"
          /\ op'[w].cmd = op[w].cmd /\ op'[w].prev = At(w)
          /\ op'[w].off = op[w].off
      BY <1>2, <3>1 DEF Others, Running, Types
    <3>3. PlacedAt(w)' BY <1>2, <1>3, <2>1, <2>2, <2>4, <3>2 DEF PlacedAt, Free
    <3>4. QED BY <1>3, <3>2, <3>3, TableKept
  <2>5. CASE ~Free(At(w)) /\ next[At(w)] # None
    <3>1. op' = [op EXCEPT ![w].slot = next[At(w)], ![w].prev = At(w)]
      BY <1>6, <2>5 DEF FindTail
    <3>2. /\ Others(w) /\ op'[w] \in Running
          /\ op'[w].pc = "tail"
          /\ op'[w].cmd = op[w].cmd /\ op'[w].prev = At(w)
          /\ op'[w].off = op[w].off
      BY <1>2, <2>1, <2>5, <3>1 DEF Others, Running, Types
    <3>3. PlacedAt(w)' BY <1>2, <1>3, <2>1, <2>2, <2>5, <3>2 DEF PlacedAt, Free
    <3>4. QED BY <1>3, <3>2, <3>3, TableKept
  <2>6. QED BY <2>3, <2>4, <2>5
<1>7. QED BY <1>4, <1>5, <1>6

LEMMA EndsInv ==
  ASSUME IInv, NEW w \in Workers, Exists(w) \/ NotExist(w) \/ Read(w)
  PROVE  IInv'
<1>1. \E a : End(w, a)
  BY DEF Exists, NotExist, Read
<1>2. Others(w) /\ op'[w] = [pc |-> "idle"] BY <1>1, EndOn DEF IInv
<1>3. UNCHANGED <<entry, next>> /\ AllocType'
  BY DEF Exists, NotExist, Read, IInv, Types, AllocType, store
<1>4. PlacedAt(w)' BY <1>2 DEF PlacedAt
<1>5. QED BY <1>2, <1>3, <1>4, TableKept

LEMMA HitInv ==
  ASSUME IInv, NEW w \in Workers, Hit(w)
  PROVE  IInv'
<1>1. op[w].pc = "get" /\ ~Free(At(w)) BY DEF Hit, Holds
<1>2. /\ op[w] \in Running /\ PlacedAt(w) /\ Types
      /\ op[w].cmd \in Commands /\ Hash[Key(w)] \in Slots
      /\ entry[At(w)] \in [off : Nat, key : Keys, len : Nat]
  BY <1>1, InCommand DEF IInv
<1>3. UNCHANGED <<entry, next>> /\ AllocType'
  BY DEF Hit, IInv, Types, AllocType, store
<1>4. CASE Kind(w) = "delete"
  <2>1. "delete" \in PCs /\ Go(w, "delete", Hash[Key(w)]) BY <1>4 DEF Hit, PCs
  <2>2. /\ Others(w) /\ op'[w] \in Running
        /\ op'[w].pc = "delete" /\ op'[w].cmd = op[w].cmd
    BY <1>2, <2>1, GoOn
  <2>3. PlacedAt(w)' BY <1>4, <2>2 DEF PlacedAt, Kind
  <2>4. QED BY <1>3, <2>2, <2>3, TableKept
<1>5. CASE Kind(w) # "delete"
  <2> DEFINE p == IF Kind(w) = "retrieve" THEN "read" ELSE "copy"
  <2>1. p \in PCs /\ Value(w, p, entry[At(w)]) BY <1>5 DEF Hit, PCs
  <2>2. entry[At(w)].off \in Nat /\ entry[At(w)].len \in Nat \cup {None} BY <1>2
  <2>3. /\ Others(w) /\ op'[w] \in Running
        /\ op'[w].pc = p /\ op'[w].off = entry[At(w)].off
        /\ op'[w].cmd = op[w].cmd /\ op'[w].prev = op[w].prev
    BY <1>2, <2>1, <2>2, ValueOn
  <2>4. p = "copy" => Kind(w) \in {"store", "batch"}
    BY <1>2, <1>5 DEF Hit, Commands, Kind
  <2>5. op[w].prev = None BY <1>1, <1>2 DEF PlacedAt
  <2>6. PlacedAt(w)' BY <2>2, <2>3, <2>4, <2>5 DEF PlacedAt, Kind
  <2>7. QED BY <1>3, <2>3, <2>6, TableKept
<1>6. QED BY <1>4, <1>5

LEMMA AllocateInv ==
  ASSUME IInv, NEW w \in Workers, Allocate(w)
  PROVE  IInv'
<1>1. op[w].pc = "get" /\ Kind(w) \in {"store", "batch"} BY DEF Allocate
<1>2. /\ op[w] \in Running /\ PlacedAt(w) /\ Types
      /\ op[w].cmd \in Commands
  BY <1>1, InCommand DEF IInv
<1>3. Size(w) \in Nat BY <1>1, <1>2, StoresValue DEF Kind, Size
<1>4. /\ Offset(Size(w)) \in Nat
      /\ Taken(Size(w)) \in [small  : [taken : SUBSET Nat, last : Nat],
                             large  : [taken : SUBSET Nat, last : Nat],
                             latest : Nat]
  BY <1>2, <1>3, AllocTyped DEF Types
<1>5. UNCHANGED <<entry, next>> /\ AllocType'
  BY <1>4 DEF Allocate, AllocType
<1>6. "copy" \in PCs /\ Value(w, "copy", [off |-> Offset(Size(w)), len |-> None])
  BY DEF Allocate, PCs
<1>7. /\ Others(w) /\ op'[w] \in Running
      /\ op'[w].pc = "copy" /\ op'[w].off = Offset(Size(w))
      /\ op'[w].cmd = op[w].cmd /\ op'[w].prev = op[w].prev
  <2> DEFINE e == [off |-> Offset(Size(w)), len |-> None]
  <2>1. e.off \in Nat /\ e.len \in Nat \cup {None} BY <1>4
  <2>2. QED BY <1>2, <1>6, <2>1, ValueOn
<1>8. PlacedAt(w)' BY <1>1, <1>2, <1>4, <1>7 DEF PlacedAt, Kind
<1>9. QED BY <1>5, <1>7, <1>8, TableKept

LEMMA CopyInv ==
  ASSUME IInv, NEW w \in Workers, Copy(w)
  PROVE  IInv'
<1>1. op[w].pc = "copy" BY DEF Copy
<1>2. /\ op[w] \in Running /\ PlacedAt(w) /\ Types
      /\ Hash[Key(w)] \in Slots
  BY <1>1, InCommand DEF IInv
<1>3. UNCHANGED <<entry, next>> /\ AllocType'
  BY DEF Copy, IInv, Types, AllocType
<1>4. CASE \E a : End(w, a)
  <2>1. Others(w) /\ op'[w] = [pc |-> "idle"] BY <1>2, <1>4, EndOn
  <2>2. PlacedAt(w)' BY <2>1 DEF PlacedAt
  <2>3. QED BY <1>3, <2>1, <2>2, TableKept
<1>5. ASSUME NEW p \in {"fill", "tail", "update"}, Go(w, p, Hash[Key(w)]),
             p = "tail" => ~Free(Hash[Key(w)])
      PROVE  IInv'
  <2>1. p \in PCs BY DEF PCs
  <2>2. /\ Others(w) /\ op'[w] \in Running
        /\ op'[w].pc = p /\ op'[w].slot = Hash[Key(w)]
        /\ op'[w].cmd = op[w].cmd /\ op'[w].prev = op[w].prev
        /\ op'[w].off = op[w].off
    BY <1>2, <1>5, <2>1, GoOn
  <2>3. op[w].prev = None BY <1>1, <1>2 DEF PlacedAt
  <2>4. PlacedAt(w)' BY <1>1, <1>2, <1>3, <1>5, <2>2, <2>3 DEF PlacedAt, Free, At
  <2>5. QED BY <1>3, <2>2, <2>3, <2>4, TableKept
<1>6. QED
  <2>1. CASE op[w].len = None /\ Go(w, IF Free(Hash[Key(w)]) THEN "fill" ELSE "tail", Hash[Key(w)])
    BY <2>1, <1>5
  <2>2. CASE Go(w, "update", Hash[Key(w)]) BY <2>2, <1>5
  <2>3. QED BY <1>4, <2>1, <2>2 DEF Copy

LEMMA UpdateInv ==
  ASSUME IInv, NEW w \in Workers, Update(w)
  PROVE  IInv'
<1>1. op[w].pc = "update" /\ ~Free(At(w)) BY DEF Update, Holds
<1>2. /\ op[w] \in Running /\ PlacedAt(w) /\ Types
      /\ op[w].cmd \in Commands /\ At(w) \in Slots
      /\ entry[At(w)] \in [off : Nat, key : Keys, len : Nat]
  BY <1>1, InCommand DEF IInv
<1>3. Size(w) \in Nat
  BY <1>1, <1>2, StoresValue DEF PlacedAt, Size
<1>4. Others(w) /\ op'[w] = [pc |-> "idle"]
  BY <1>2, EndOn DEF Update
<1>5. /\ entry' = [entry EXCEPT ![At(w)] = [@ EXCEPT !.len = Size(w)]]
      /\ next' = next /\ alloc' = alloc
  BY DEF Update, store
<1>6. entry' \in [Slots -> {Empty} \cup [off : Nat, key : Keys, len : Nat]]
  BY <1>2, <1>3, <1>5 DEF Types
<1>7. Types'
  BY <1>2, <1>4, <1>5, <1>6 DEF Types, Others, AllocType
<1>8. \A s \in Slots : Free(s)' <=> Free(s)
  BY <1>2, <1>3, <1>5 DEF Free, Types
<1>9. \A s \in Slots : After(s)' \subseteq After(s)
  BY <1>4, <1>5, NoNewLink
<1>10. Placed'
  <2>1. PlacedAt(w)' BY <1>4 DEF PlacedAt
  <2>2. \A v \in Workers \ {w} : PlacedAt(v)'
    BY <1>4, <1>8, OthersPlaced DEF IInv, Types
  <2>3. QED BY <2>1, <2>2 DEF Placed
<1>11. QED BY <1>7, <1>8, <1>9, <1>10, FewerLinks DEF IInv, FreeIsEnd

\* A worker that is alone erases: no link leads on from the slot any more,
\* and no worker is about to make one.
LEMMA EraseInv ==
  ASSUME IInv, Calm, NEW w \in Workers, Erase(w)
  PROVE  IInv'
<1>1. op[w].pc = "delete" /\ ~Free(At(w)) BY DEF Erase, Holds
<1>2. /\ op[w] \in Running /\ PlacedAt(w) /\ Types
      /\ op[w].cmd \in Commands /\ At(w) \in Slots
  BY <1>1, InCommand DEF IInv
<1>3. Workers = {w}
  <2>1. op[w].cmd.kind = "delete" BY <1>1, <1>2 DEF PlacedAt
  <2>2. Deletes BY <1>2, <2>1 DEF Commands
  <2>3. QED BY <2>2 DEF Calm
<1>4. Others(w) /\ op'[w] = [pc |-> "idle"]
  BY <1>2, EndOn DEF Erase
<1>5. /\ entry' = [entry EXCEPT ![At(w)] = Empty]
      /\ next' = [next EXCEPT ![At(w)] = None] /\ alloc' = alloc
  BY DEF Erase, store
<1>6. Types'
  <2>1. entry' \in [Slots -> {Empty} \cup [off : Nat, key : Keys, len : Nat]]
    BY <1>2, <1>5 DEF Types
  <2>2. next' \in [Slots -> Slots \cup {None}]
    BY <1>2, <1>5 DEF Types
  <2>3. QED BY <1>2, <1>4, <1>5, <2>1, <2>2 DEF Types, Others, AllocType
<1>7. Placed' BY <1>3, <1>4 DEF Placed, PlacedAt
<1>8. \A s \in Slots : After(s)' = {next'[s]} \ {None}
  BY <1>3, <1>4 DEF After
<1>9. \A s \in Slots : After(s)' \subseteq After(s)
  <2>1. \A s \in Slots : next'[s] = next[s] \/ next'[s] = None
    BY <1>2, <1>5 DEF Types
  <2>2. \A s \in Slots : {next[s]} \ {None} \subseteq After(s)
    BY DEF After
  <2>3. QED BY <1>8, <2>1, <2>2
<1>10. FreeIsEnd'
  <2> SUFFICES ASSUME NEW s \in Slots, Free(s)' PROVE After(s)' = {}
    BY DEF FreeIsEnd
  <2>1. CASE s = At(w) BY <1>2, <1>5, <1>8, <2>1 DEF Types
  <2>2. CASE s # At(w)
    <3>1. Free(s) BY <1>2, <1>5, <2>2 DEF Free, Types
    <3>2. QED BY <1>9, <3>1 DEF IInv, FreeIsEnd
  <2>3. QED BY <2>1, <2>2
<1>11. ChainsEnd' BY <1>9, FewerLinks DEF IInv
<1>12. QED BY <1>6, <1>7, <1>10, <1>11 DEF IInv

\* The slot the search ends at is free, so nothing leads on from it: the link
\* a worker is going to make to it closes no ring.
LEMMA FoundInv ==
  ASSUME IInv, NEW w \in Workers, Probe(w), Free(At(w))
  PROVE  IInv'
<1>1. op[w].pc = "probe" BY DEF Probe
<1>2. /\ op[w] \in Running /\ PlacedAt(w) /\ Types /\ At(w) \in Slots
  BY <1>1, InCommand DEF IInv
<1>3. UNCHANGED <<entry, next>> /\ AllocType'
  BY DEF Probe, IInv, Types, AllocType, store
<1>4. "fill" \in PCs /\ Go(w, "fill", At(w)) BY DEF Probe, PCs
<1>5. /\ Others(w) /\ op'[w] \in Running
      /\ op'[w].pc = "fill" /\ op'[w].slot = At(w)
      /\ op'[w].cmd = op[w].cmd /\ op'[w].prev = op[w].prev
      /\ op'[w].off = op[w].off
  BY <1>2, <1>4, GoOn
<1>6. Types'
  <2>1. \A v \in Workers : op'[v] = [pc |-> "idle"] \/ op'[v] \in Running
    BY <1>2, <1>5 DEF Types, Others
  <2>2. QED BY <1>2, <1>3, <1>5, <2>1 DEF Types, Others
<1>7. op[w].prev \in Slots /\ ~Free(op[w].prev)
  BY <1>1, <1>2 DEF PlacedAt, Running
<1>8. Placed'
  <2>1. PlacedAt(w)'
    BY <1>1, <1>2, <1>3, <1>5, <1>7 DEF PlacedAt, Free
  <2>2. \A s \in Slots : Free(s)' => Free(s) BY <1>3 DEF Free
  <2>3. \A v \in Workers \ {w} : PlacedAt(v)'
    BY <1>5, <2>2, OthersPlaced DEF IInv, Types
  <2>4. QED BY <2>1, <2>3 DEF Placed
<1>9. \A s \in Slots : After(s)' \subseteq After(s) \cup {At(w)}
  <2> SUFFICES ASSUME NEW s \in Slots, NEW t \in After(s)', t # At(w)
               PROVE  t \in After(s)
    OBVIOUS
  <2>1. t # None BY DEF After
  <2>2. CASE t = next'[s] BY <1>3, <2>1, <2>2 DEF After
  <2>3. CASE t # next'[s]
    <3>1. PICK v \in Workers : /\ op'[v].pc \in {"fill", "link"}
                               /\ op'[v].prev = s /\ t = op'[v].slot
      BY <2>3 DEF After, At
    <3>2. op[v] = op'[v] BY <1>5, <3>1 DEF Others
    <3>3. QED BY <2>1, <3>1, <3>2 DEF After, At
  <2>4. QED BY <2>2, <2>3
<1>10. \A s \in Slots \ {op[w].prev} : After(s)' \subseteq After(s)
  <2> SUFFICES ASSUME NEW s \in Slots \ {op[w].prev}, NEW t \in After(s)'
               PROVE  t \in After(s)
    OBVIOUS
  <2>1. t # None BY DEF After
  <2>2. CASE t = next'[s] BY <1>3, <2>1, <2>2 DEF After
  <2>3. CASE t # next'[s]
    <3>1. PICK v \in Workers : /\ op'[v].pc \in {"fill", "link"}
                               /\ op'[v].prev = s /\ t = op'[v].slot
      BY <2>3 DEF After, At
    <3>2. op[v] = op'[v] BY <1>5, <3>1 DEF Others
    <3>3. QED BY <2>1, <3>1, <3>2 DEF After, At
  <2>4. QED BY <2>2, <2>3
<1>11. At(w) # op[w].prev BY <1>7
<1>12. After(At(w)) = {} /\ After(At(w))' = {}
  <2>1. After(At(w)) = {} BY <1>2 DEF IInv, FreeIsEnd
  <2>2. \A s \in Slots : s # op[w].prev /\ After(s) = {} => After(s)' = {} BY <1>10
  <2>3. At(w)' = At(w) BY <1>5 DEF At
  <2>4. After(At(w))' = {} BY <1>2, <1>11, <2>1, <2>2, <2>3
  <2>5. QED BY <2>1, <2>4
<1>13. FreeIsEnd'
  BY <1>3, <1>7, <1>10 DEF IInv, FreeIsEnd, Free
<1>14. ChainsEnd'
  <2> DEFINE t == At(w)
  <2> HIDE DEF t
  <2>1. \A s \in Slots : After(s)' \subseteq After(s) \cup {t} BY <1>9 DEF t
  <2>2. t \in Slots /\ \A s \in Slots : s = t => After(s)' = {}
    BY <1>2, <1>10, <1>11, <1>12 DEF t
  <2> SUFFICES ASSUME NEW C \in SUBSET Slots, C # {}
               PROVE  \E s \in C : After(s)' \cap C = {}
    BY DEF ChainsEnd
  <2>3. CASE t \in C BY <2>2, <2>3
  <2>4. CASE t \notin C
    <3>1. PICK s \in C : After(s) \cap C = {} BY DEF IInv, ChainsEnd
    <3>2. QED BY <2>1, <2>4, <3>1
  <2>5. QED BY <2>3, <2>4
<1>15. QED BY <1>6, <1>8, <1>13, <1>14 DEF IInv

LEMMA FillInv ==
  ASSUME IInv, NEW w \in Workers, Fill(w)
  PROVE  IInv'
<1>1. op[w].pc = "fill" BY DEF Fill
<1>2. /\ op[w] \in Running /\ PlacedAt(w) /\ Types /\ At(w) \in Slots
      /\ op[w].cmd \in Commands /\ op[w].cmd.key \in Keys
  BY <1>1, InCommand DEF IInv
<1>3. op[w].off \in Nat /\ Size(w) \in Nat
  BY <1>1, <1>2, StoresValue DEF PlacedAt, Size
<1>4. /\ entry' = [entry EXCEPT ![At(w)] =
                     [off |-> op[w].off, key |-> Key(w), len |-> Size(w)]]
      /\ next' = next /\ alloc' = alloc
  BY DEF Fill, store, NewEntry
<1>5. entry' \in [Slots -> {Empty} \cup [off : Nat, key : Keys, len : Nat]]
  BY <1>2, <1>3, <1>4 DEF Types, Key
<1>6. \A s \in Slots : Free(s)' => Free(s)
  BY <1>2, <1>3, <1>4 DEF Free, Types, None
<1>7. /\ Others(w)
      /\ \/ op'[w] = [pc |-> "idle"]
         \/ /\ op[w].prev # None /\ op'[w] \in Running
            /\ op'[w].pc = "link" /\ op'[w].slot = op[w].slot
            /\ op'[w].cmd = op[w].cmd /\ op'[w].prev = op[w].prev
            /\ op'[w].off = op[w].off
  <2>1. CASE op[w].prev = None
    <3>1. End(w, <<>>) BY <2>1 DEF Fill
    <3>2. QED BY <1>2, <3>1, EndOn
  <2>2. CASE op[w].prev # None
    <3>1. "link" \in PCs /\ Go(w, "link", At(w)) BY <2>2 DEF Fill, PCs
    <3>2. QED BY <1>2, <2>2, <3>1, GoOn DEF At
  <2>3. QED BY <2>1, <2>2
<1>8. Types'
  <2>1. \A v \in Workers : op'[v] = [pc |-> "idle"] \/ op'[v] \in Running
    BY <1>2, <1>7 DEF Types, Others
  <2>2. QED BY <1>2, <1>4, <1>5, <1>7, <2>1 DEF Types, Others, AllocType
<1>9. \A s \in Slots : After(s)' \subseteq After(s)
  BY <1>1, <1>4, <1>7, NoNewLink
<1>10. Placed'
  <2>1. PlacedAt(w)'
    <3>1. CASE op'[w] = [pc |-> "idle"] BY <3>1 DEF PlacedAt
    <3>2. CASE op'[w] # [pc |-> "idle"]
      <4>1. op[w].prev \in Slots BY <1>2, <1>7, <3>2 DEF Running
      <4>2. ~Free(op[w].prev)' BY <1>1, <1>2, <1>6, <1>7, <3>2, <4>1 DEF PlacedAt, Free
      <4>3. QED BY <1>1, <1>2, <1>3, <1>7, <3>2, <4>1, <4>2 DEF PlacedAt, Free
    <3>3. QED BY <3>1, <3>2
  <2>2. \A v \in Workers \ {w} : PlacedAt(v)'
    BY <1>6, <1>7, OthersPlaced DEF IInv, Types
  <2>3. QED BY <2>1, <2>2 DEF Placed
<1>11. QED BY <1>6, <1>8, <1>9, <1>10, FewerLinks DEF IInv, FreeIsEnd

\* The link was counted while the worker was about to make it.
LEMMA LinkInv ==
  ASSUME IInv, NEW w \in Workers, Link(w)
  PROVE  IInv'
<1>1. op[w].pc = "link" BY DEF Link
<1>2. /\ op[w] \in Running /\ PlacedAt(w) /\ Types /\ At(w) \in Slots
  BY <1>1, InCommand DEF IInv
<1>3. op[w].prev \in Slots BY <1>1, <1>2 DEF PlacedAt, Running
<1>4. Others(w) /\ op'[w] = [pc |-> "idle"] BY <1>2, EndOn DEF Link
<1>5. /\ next' = [next EXCEPT ![op[w].prev] = At(w)]
      /\ entry' = entry /\ alloc' = alloc
  BY DEF Link, store
<1>6. Types'
  <2>1. next' \in [Slots -> Slots \cup {None}]
    BY <1>2, <1>3, <1>5 DEF Types
  <2>2. QED BY <1>2, <1>4, <1>5, <2>1 DEF Types, Others, AllocType
<1>7. \A s \in Slots : After(s)' \subseteq After(s)
  <2> SUFFICES ASSUME NEW s \in Slots, NEW t \in After(s)' PROVE t \in After(s)
    OBVIOUS
  <2>1. t # None BY DEF After
  <2>2. CASE \E v \in Workers : /\ op'[v].pc \in {"fill", "link"}
                                /\ op'[v].prev = s /\ t = op'[v].slot
    <3>1. PICK v \in Workers : /\ op'[v].pc \in {"fill", "link"}
                               /\ op'[v].prev = s /\ t = op'[v].slot
      BY <2>2
    <3>2. v # w BY <1>4, <3>1
    <3>3. op[v] = op'[v] BY <1>4, <3>2 DEF Others
    <3>4. QED BY <2>1, <3>1, <3>3 DEF After, At
  <2>3. CASE t = next'[s]
    <3>1. CASE s = op[w].prev
      <4>1. t = At(w) BY <1>2, <1>3, <1>5, <2>3, <3>1 DEF Types
      <4>2. QED BY <1>1, <2>1, <3>1, <4>1 DEF After
    <3>2. CASE s # op[w].prev
      <4>1. t = next[s] BY <1>2, <1>5, <2>3, <3>2 DEF Types
      <4>2. QED BY <2>1, <4>1 DEF After
    <3>3. QED BY <3>1, <3>2
  <2>4. QED BY <2>2, <2>3 DEF After, At
<1>8. Placed'
  <2>1. PlacedAt(w)' BY <1>4 DEF PlacedAt
  <2>2. \A s \in Slots : Free(s)' => Free(s) BY <1>5 DEF Free
  <2>3. \A v \in Workers \ {w} : PlacedAt(v)'
    BY <1>4, <2>2, OthersPlaced DEF IInv, Types
  <2>4. QED BY <2>1, <2>3 DEF Placed
<1>9. FreeIsEnd' BY <1>5, <1>7 DEF IInv, FreeIsEnd, Free
<1>10. QED BY <1>6, <1>7, <1>8, <1>9, FewerLinks DEF IInv

----------------------------------------------------------------------------
LEMMA StutterInv ==
  ASSUME IInv, UNCHANGED vars
  PROVE  IInv'
<1>1. entry' = entry /\ next' = next /\ op' = op /\ alloc' = alloc
  BY DEF vars, store
<1>2. Types' BY <1>1 DEF IInv, Types, AllocType
<1>3. Placed' BY <1>1 DEF IInv, Placed, PlacedAt, At, Free
<1>4. \A s \in Slots : After(s)' = After(s) BY <1>1 DEF After, At
<1>5. QED BY <1>1, <1>2, <1>3, <1>4, FewerLinks DEF IInv, FreeIsEnd, Free

LEMMA StepKeeps ==
  ASSUME Calm, IInv, [Next]_vars
  PROVE  IInv'
<1>1. CASE UNCHANGED vars BY <1>1, StutterInv
<1>2. ASSUME NEW w \in Workers, NEW c \in Commands, Begin(w, c) PROVE IInv'
  BY <1>2, BeginInv
<1>3. ASSUME NEW w \in Workers, Step(w) PROVE IInv'
  <2>1. CASE Walk(w) \/ FindTail(w)
    <3>1. Walk(w) \/ FindTail(w) \/ (Probe(w) /\ ~Free(At(w))) BY <2>1
    <3>2. QED BY <3>1, MovesInv
  <2>2. CASE Hit(w) BY <2>2, HitInv
  <2>3. CASE Exists(w) \/ NotExist(w) \/ Read(w) BY <2>3, EndsInv
  <2>4. CASE Allocate(w) BY <2>4, AllocateInv
  <2>5. CASE Copy(w) BY <2>5, CopyInv
  <2>6. CASE Update(w) BY <2>6, UpdateInv
  <2>7. CASE Erase(w) BY <2>7, EraseInv
  <2>8. CASE Probe(w)
    <3>1. CASE Free(At(w)) BY <2>8, <3>1, FoundInv
    <3>2. CASE ~Free(At(w)) BY <2>8, <3>2, MovesInv
    <3>3. QED BY <3>1, <3>2
  <2>9. CASE Fill(w) BY <2>9, FillInv
  <2>10. CASE Link(w) BY <2>10, LinkInv
  <2>11. QED
    BY <1>3, <2>1, <2>2, <2>3, <2>4, <2>5, <2>6, <2>7, <2>8, <2>9, <2>10 DEF Step
<1>4. QED BY <1>1, <1>2, <1>3 DEF Next

\* Chains end, however the steps of the workers fall together: an insertion
\* links only to a slot that nothing leads on from (kv_ftl.c, find_next_slot
\* and chain_mapping).  It needs that keys are deleted by a worker that is
\* alone, or never: a delete between the search and the link of another
\* worker could free the slot it goes on from.
THEOREM ChainsAlwaysEnd ==
  ASSUME Calm
  PROVE  Spec => []ChainsEnd
<1>1. Init => IInv BY InitInv
<1>2. IInv /\ [Next]_vars => IInv' BY StepKeeps
<1>3. IInv => ChainsEnd BY DEF IInv
<1>4. QED BY <1>1, <1>2, <1>3, PTL DEF Spec

(***************************************************************************)
(* Iterators                                                               *)
(***************************************************************************)
\* A single worker executes the commands: two may choose the same free slot,
\* and one of their keys is lost.
Alone == \A v, w \in Workers : v = w

Kept(k) == \E s \in Slots : Holds(s, k)

\* What is stored has a slot; an insertion fills a free one; and the slot a
\* command has found holds its key.
KeptAt(w) ==
  /\ op[w].pc = "fill" => Free(At(w))
  /\ op[w].pc = "link" => Holds(At(w), Key(w))
  /\ op[w].pc = "copy" /\ op[w].len # None => Kept(Key(w))

KeptInv == /\ data = [k \in Keys |-> data[k]]
           /\ \A k \in Keys : data[k] # NoValue => Kept(k)
           /\ \A w \in Workers : KeptAt(w)

\* The keys an iterator owes are ahead of it.
Ahead(h, k) == \E s \in Slots : s >= iter[h].pos /\ Holds(s, k)

OwedInv == /\ iter \in [Handles -> {NoIter} \cup [pos : 0 .. N, want : SUBSET Keys]]
           /\ owed \in [Handles -> SUBSET Keys]
           /\ \A h \in Handles : iter[h] = NoIter => owed[h] = {}
           /\ \A h \in Handles : \A k \in owed[h] : k \in iter[h].want /\ Ahead(h, k)

\* A slot keeps its key until the key is deleted.
LEMMA SlotKeeps ==
  ASSUME IInv, KeptInv, NEW w \in Workers, Step(w),
         NEW s \in Slots, NEW k \in Keys, Holds(s, k), data'[k] # NoValue
  PROVE  Holds(s, k)'
<1>1. entry \in [Slots -> {Empty} \cup [off : Nat, key : Keys, len : Nat]]
      /\ data = [c \in Keys |-> data[c]]
  BY DEF IInv, Types, KeptInv
<1>2. CASE Fill(w)
  <2>1. op[w].pc = "fill" /\ entry' = [entry EXCEPT ![At(w)] = NewEntry(w)]
    BY <1>2 DEF Fill
  <2>2. Free(At(w)) BY <2>1 DEF KeptInv, KeptAt
  <2>3. s # At(w) BY <2>2 DEF Holds
  <2>4. entry'[s] = entry[s] BY <1>1, <2>1, <2>3
  <2>5. QED BY <2>4 DEF Holds, Free
<1>3. CASE Erase(w)
  <2>1. /\ op[w].pc = "delete" /\ Holds(At(w), Key(w))
        /\ entry' = [entry EXCEPT ![At(w)] = Empty]
        /\ data' = [data EXCEPT ![Key(w)] = NoValue]
    BY <1>3 DEF Erase
  <2>2. k # Key(w) BY <1>1, <2>1
  <2>3. s # At(w) BY <2>1, <2>2 DEF Holds
  <2>4. entry'[s] = entry[s] BY <1>1, <2>1, <2>3
  <2>5. QED BY <2>4 DEF Holds, Free
<1>4. CASE Update(w)
  <2>1. entry' = [entry EXCEPT ![At(w)].len = Size(w)] BY <1>4 DEF Update
  <2>2. ~Free(s) BY DEF Holds
  <2>3. entry[s] \in [off : Nat, key : Keys, len : Nat] BY <1>1, <2>2 DEF Free, Empty, None
  <2>4. entry'[s].off = entry[s].off /\ entry'[s].key = entry[s].key
    <3>1. CASE s = At(w) BY <1>1, <2>1, <2>3, <3>1
    <3>2. CASE s # At(w) BY <1>1, <2>1, <3>2
    <3>3. QED BY <3>1, <3>2
  <2>5. QED BY <2>4 DEF Holds, Free
<1>5. CASE entry' = entry BY <1>5 DEF Holds, Free
<1>6. QED BY <1>2, <1>3, <1>4, <1>5
          DEF Step, Walk, Hit, Exists, NotExist, Allocate, Copy, Read, FindTail, Probe, Link

\* What a step stores has a slot after it.
LEMMA NewlyKept ==
  ASSUME IInv, KeptInv, NEW w \in Workers, Step(w),
         NEW k \in Keys, data'[k] # NoValue
  PROVE  Kept(k)'
<1>1. data = [c \in Keys |-> data[c]] BY DEF KeptInv
<1>2. CASE Kept(k)
  <2>1. PICK s \in Slots : Holds(s, k) BY <1>2 DEF Kept
  <2>2. Holds(s, k)' BY <2>1, SlotKeeps
  <2>3. QED BY <2>2 DEF Kept
<1>3. CASE ~Kept(k)
  <2>1. data[k] = NoValue BY <1>3 DEF KeptInv
  <2>2. Stored(w) /\ k = Key(w)
    <3>1. data' = data \/ Stored(w) \/ data' = [data EXCEPT ![Key(w)] = NoValue]
      BY DEF Step, Walk, Hit, Exists, NotExist, Allocate, Copy, Read, Update, Erase,
             FindTail, Probe, Fill, Link
    <3>2. Stored(w) => data' = [data EXCEPT ![Key(w)] = op[w].cmd.value] BY DEF Stored, Key
    <3>3. QED BY <1>1, <2>1, <3>1, <3>2
  <2>3. Copy(w) \/ Update(w) \/ Fill(w) \/ Link(w)
    <3>1. data' # data BY <2>1
    <3>2. \/ Copy(w) \/ Update(w) \/ Fill(w) \/ Link(w)
          \/ data' = [data EXCEPT ![Key(w)] = NoValue]
      BY <3>1 DEF Step, Walk, Hit, Exists, NotExist, Allocate, Read, Erase, FindTail, Probe
    <3>3. QED BY <1>1, <2>1, <3>2
  <2>4. KeptAt(w) BY DEF KeptInv
  <2>5. CASE Copy(w)
    <3>1. op[w].pc = "copy" /\ op[w].len # None BY <2>1, <2>5 DEF Copy
    <3>2. QED BY <1>3, <2>2, <2>4, <3>1 DEF KeptAt
  <2>6. CASE Update(w)
    <3>1. op[w].pc = "update" /\ Holds(At(w), Key(w)) BY <2>6 DEF Update
    <3>2. At(w) \in Slots BY <3>1, InCommand
    <3>3. QED BY <1>3, <2>2, <3>1, <3>2 DEF Kept
  <2>7. CASE Link(w)
    <3>1. op[w].pc = "link" BY <2>7 DEF Link
    <3>2. At(w) \in Slots BY <3>1, InCommand
    <3>3. QED BY <1>3, <2>2, <2>4, <3>1, <3>2 DEF KeptAt, Kept
  <2>8. CASE Fill(w)
    <3>1. op[w].pc = "fill" /\ entry' = [entry EXCEPT ![At(w)] = NewEntry(w)]
      BY <2>8 DEF Fill
    <3>2. At(w) \in Slots /\ op[w].off \in Nat BY <3>1, InCommand DEF PlacedAt
    <3>3. entry'[At(w)] = NewEntry(w) BY <3>1, <3>2 DEF IInv, Types
    <3>4. entry'[At(w)].off # None /\ entry'[At(w)].key = k
      BY <2>2, <3>2, <3>3 DEF NewEntry, None
    <3>5. QED BY <3>2, <3>4 DEF Kept, Holds, Free
  <2>9. QED BY <2>3, <2>5, <2>6, <2>7, <2>8
<1>4. QED BY <1>2, <1>3

LEMMA WorkerKept ==
  ASSUME IInv, KeptInv, NEW w \in Workers, Step(w)
  PROVE  KeptAt(w)'
<1>1. op[w].pc # "idle"
  BY DEF Step, Walk, Hit, Exists, NotExist, Allocate, Copy, Read, Update, Erase,
         FindTail, Probe, Fill, Link
<1>2. /\ op[w] \in Running /\ PlacedAt(w) /\ Types
      /\ op[w].cmd \in Commands /\ Key(w) \in Keys /\ At(w) \in Slots /\ Hash[Key(w)] \in Slots
  BY <1>1, InCommand DEF IInv, Key
<1>3. entry \in [Slots -> {Empty} \cup [off : Nat, key : Keys, len : Nat]]
      /\ next \in [Slots -> Slots \cup {None}]
  BY <1>2 DEF Types
<1>4. ASSUME NEW a, End(w, a) PROVE KeptAt(w)'
  <2>1. op'[w] = [pc |-> "idle"] BY <1>2, <1>4, EndOn
  <2>2. op'[w].pc = "idle" BY <2>1
  <2>3. QED BY <2>2 DEF KeptAt
<1>5. ASSUME op'[w].pc \in PCs \ {"copy", "fill", "link"} PROVE KeptAt(w)'
  BY <1>5 DEF KeptAt, PCs
<1>6. CASE Walk(w)
  <2>1. op[w].pc \in PCs \ {"copy", "fill", "link"} /\ Go(w, op[w].pc, next[At(w)])
        /\ next[At(w)] \in Slots
    BY <1>2, <1>3, <1>6 DEF Walk, PCs
  <2>2. op'[w].pc = op[w].pc BY <1>2, <2>1, GoOn
  <2>3. QED BY <1>5, <2>1, <2>2
<1>7. CASE Hit(w)
  <2>1. op[w].pc = "get" /\ Holds(At(w), Key(w)) /\ entry' = entry BY <1>7 DEF Hit
  <2>2. entry[At(w)] \in [off : Nat, key : Keys, len : Nat]
    BY <1>2, <1>3, <2>1 DEF Holds, Free, Empty, None
  <2>3. entry[At(w)].off \in Nat /\ entry[At(w)].len \in Nat \cup {None} BY <2>2
  <2>4. CASE Kind(w) = "delete"
    <3>1. Go(w, "delete", Hash[Key(w)]) BY <1>7, <2>4 DEF Hit
    <3>2. op'[w].pc = "delete" BY <1>2, <3>1, GoOn DEF PCs
    <3>3. QED BY <1>5, <3>2 DEF PCs
  <2>5. CASE Kind(w) = "retrieve"
    <3>1. Value(w, "read", entry[At(w)]) BY <1>7, <2>5 DEF Hit
    <3>2. op'[w].pc = "read" BY <1>2, <2>3, <3>1, ValueOn DEF PCs
    <3>3. QED BY <1>5, <3>2 DEF PCs
  <2>6. CASE Kind(w) \notin {"delete", "retrieve"}
    <3>1. Value(w, "copy", entry[At(w)]) BY <1>7, <2>6 DEF Hit
    <3>2. op'[w].pc = "copy" /\ op'[w].cmd = op[w].cmd
      BY <1>2, <2>3, <3>1, ValueOn DEF PCs
    <3>3. Kept(Key(w))' BY <1>2, <2>1, <3>2 DEF Kept, Holds, Free, Key
    <3>4. QED BY <3>2, <3>3 DEF KeptAt
  <2>7. QED BY <2>4, <2>5, <2>6
<1>8. CASE Exists(w) \/ NotExist(w) \/ Read(w) \/ Update(w) \/ Erase(w) \/ Link(w)
  <2>1. \E a : End(w, a) BY <1>8 DEF Exists, NotExist, Read, Update, Erase, Link
  <2>2. QED BY <1>4, <2>1
<1>9. CASE Allocate(w)
  <2>1. Value(w, "copy", [off |-> Offset(Size(w)), len |-> None])
        /\ Kind(w) \in {"store", "batch"}
    BY <1>9 DEF Allocate
  <2>2. Size(w) \in Nat BY <1>2, <2>1, StoresValue DEF Kind, Size
  <2>3. Offset(Size(w)) \in Nat BY <1>2, <2>2, AllocTyped DEF Types
  <2> DEFINE e == [off |-> Offset(Size(w)), len |-> None]
  <2>4. e.off \in Nat /\ e.len \in Nat \cup {None} /\ e.len = None BY <2>3
  <2>5. Value(w, "copy", e) BY <2>1
  <2> HIDE DEF e
  <2>6. op'[w].pc = "copy" /\ op'[w].len = None BY <1>2, <2>4, <2>5, ValueOn DEF PCs
  <2>7. QED BY <2>6 DEF KeptAt
<1>10. CASE Copy(w)
  <2>1. entry' = entry BY <1>10 DEF Copy
  <2>2. CASE Go(w, IF Free(Hash[Key(w)]) THEN "fill" ELSE "tail", Hash[Key(w)])
    <3>1. CASE Free(Hash[Key(w)])
      <4>1. op'[w].pc = "fill" /\ op'[w].slot = Hash[Key(w)]
        BY <1>2, <2>2, <3>1, GoOn DEF PCs
      <4>2. Free(At(w))' BY <2>1, <3>1, <4>1 DEF Free, At
      <4>3. QED BY <4>1, <4>2 DEF KeptAt
    <3>2. CASE ~Free(Hash[Key(w)])
      <4>1. op'[w].pc = "tail" BY <1>2, <2>2, <3>2, GoOn DEF PCs
      <4>2. QED BY <1>5, <4>1 DEF PCs
    <3>3. QED BY <3>1, <3>2
  <2>3. CASE Go(w, "update", Hash[Key(w)])
    <3>1. op'[w].pc = "update" BY <1>2, <2>3, GoOn DEF PCs
    <3>2. QED BY <1>5, <3>1 DEF PCs
  <2>4. QED BY <1>4, <1>10, <2>2, <2>3 DEF Copy
<1>11. CASE FindTail(w)
  <2>1. op'[w].pc \in {"tail", "probe"}
    <3>1. op[w].pc = "tail" BY <1>11 DEF FindTail
    <3>2. DOMAIN op = Workers /\ "pc" \in DOMAIN op[w] BY <1>2 DEF Types, Running
    <3>3. CASE Free(At(w))
      <4>1. op' = [op EXCEPT ![w].pc = "probe", ![w].slot = op[w].prev]
        BY <1>11, <3>3 DEF FindTail
      <4>2. QED BY <1>2, <3>2, <4>1 DEF Types, Running
    <3>4. CASE ~Free(At(w)) /\ next[At(w)] = None
      <4>1. op' = [op EXCEPT ![w].pc = "probe", ![w].prev = At(w)]
        BY <1>11, <3>4 DEF FindTail
      <4>2. QED BY <1>2, <3>2, <4>1 DEF Types, Running
    <3>5. CASE ~Free(At(w)) /\ next[At(w)] # None
      <4>1. op' = [op EXCEPT ![w].slot = next[At(w)], ![w].prev = At(w)]
        BY <1>11, <3>5 DEF FindTail
      <4>2. QED BY <1>2, <3>1, <3>2, <4>1 DEF Types, Running
    <3>6. QED BY <3>3, <3>4, <3>5
  <2>2. QED BY <1>5, <2>1 DEF PCs
<1>12. CASE Probe(w)
  <2>1. entry' = entry BY <1>12 DEF Probe
  <2>2. CASE Free(At(w))
    <3>1. Go(w, "fill", At(w)) BY <1>12, <2>2 DEF Probe
    <3>2. op'[w].pc = "fill" /\ op'[w].slot = At(w) BY <1>2, <3>1, GoOn DEF PCs
    <3>3. Free(At(w))' BY <2>1, <2>2, <3>2 DEF Free, At
    <3>4. QED BY <3>2, <3>3 DEF KeptAt
  <2>3. CASE ~Free(At(w))
    <3>1. Go(w, "probe", (At(w) + 1) % N) BY <1>12, <2>3 DEF Probe
    <3>2. (At(w) + 1) % N \in Slots BY <1>2, KvAssumption DEF Slots
    <3>3. op'[w].pc = "probe" BY <1>2, <3>1, <3>2, GoOn DEF PCs
    <3>4. QED BY <1>5, <3>3 DEF PCs
  <2>4. QED BY <2>2, <2>3
<1>13. CASE Fill(w)
  <2>1. op[w].pc = "fill" /\ entry' = [entry EXCEPT ![At(w)] = NewEntry(w)]
    BY <1>13 DEF Fill
  <2>2. CASE op[w].prev = None
    BY <1>4, <1>13, <2>2 DEF Fill
  <2>3. CASE op[w].prev # None
    <3>1. Go(w, "link", At(w)) BY <1>13, <2>3 DEF Fill
    <3>2. op'[w].pc = "link" /\ op'[w].slot = At(w) /\ op'[w].cmd = op[w].cmd
      BY <1>2, <3>1, GoOn DEF PCs
    <3>3. entry'[At(w)] = NewEntry(w) /\ op[w].off \in Nat
      BY <1>2, <1>3, <2>1 DEF PlacedAt
    <3>4. entry'[At(w)].off # None /\ entry'[At(w)].key = Key(w)
      BY <3>3 DEF NewEntry, None
    <3>5. Holds(At(w), Key(w))'
      BY <3>2, <3>4 DEF Holds, Free, At, Key
    <3>6. QED BY <3>2, <3>5 DEF KeptAt
  <2>4. QED BY <2>2, <2>3
<1>14. QED BY <1>6, <1>7, <1>8, <1>9, <1>10, <1>11, <1>12, <1>13 DEF Step

LEMMA KeptKeeps ==
  ASSUME Alone, IInv, KeptInv, [Next]_vars
  PROVE  KeptInv'
<1>1. CASE UNCHANGED vars
  <2>1. entry' = entry /\ op' = op /\ data' = data BY <1>1 DEF vars
  <2>2. QED BY <2>1 DEF KeptInv, KeptAt, Kept, Holds, Free, At, Key
<1>2. ASSUME NEW w \in Workers, NEW c \in Commands, Begin(w, c) PROVE KeptInv'
  <2>1. entry' = entry /\ data' = data BY <1>2 DEF Begin
  <2>2. op' = [op EXCEPT ![w] = [pc |-> "get", cmd |-> c, slot |-> Hash[c.key],
                                prev |-> None, off |-> None, len |-> None]]
    BY <1>2 DEF Begin
  <2>3. op'[w].pc = "get" BY <2>2 DEF IInv, Types
  <2>4. \A v \in Workers : KeptAt(v)' BY <2>3 DEF Alone, KeptAt
  <2>5. \A k : Kept(k)' <=> Kept(k) BY <2>1 DEF Kept, Holds, Free
  <2>6. QED BY <2>1, <2>4, <2>5 DEF KeptInv
<1>3. ASSUME NEW w \in Workers, Step(w) PROVE KeptInv'
  <2>1. \A v \in Workers : KeptAt(v)' BY <1>3, WorkerKept DEF Alone
  <2>2. \A k \in Keys : data'[k] # NoValue => Kept(k)' BY <1>3, NewlyKept
  <2>3. data' = data \/ \E a : data' = [data EXCEPT ![Key(w)] = a]
    BY <1>3 DEF Step, Walk, Hit, Exists, NotExist, Allocate, Copy, Read, Update, Erase,
         FindTail, Probe, Fill, Link, Stored, Key
  <2>4. data' = [k \in Keys |-> data'[k]] BY <2>3 DEF KeptInv
  <2>5. QED BY <2>1, <2>2, <2>4 DEF KeptInv
<1>4. QED BY <1>1, <1>2, <1>3 DEF Next

\* A read of an iterator stops at the slot of a key it has not returned, or
\* at the end.
LEMMA StopIn ==
  ASSUME OwedInv, NEW h \in Handles, iter[h] # NoIter
  PROVE  /\ iter[h].pos \in 0 .. N /\ iter[h].want \in SUBSET Keys
         /\ Stop(h) \in 0 .. N
         /\ \A s \in Matches(h) : s < Stop(h) \/ (s >= Stop(h) /\ s \in Slots)
<1>1. iter[h] \in [pos : 0 .. N, want : SUBSET Keys] BY DEF OwedInv
<1>2. iter[h].pos \in 0 .. N /\ iter[h].want \in SUBSET Keys /\ N \in Nat \ {0}
  BY <1>1, KvAssumption
<1>3. Matches(h) \subseteq Slots BY <1>2 DEF Matches, Slots
<1>4. Stop(h) = N \/ Stop(h) \in Matches(h)
  <2> DEFINE full == {s \in Matches(h) : Cardinality({r \in Matches(h) : r < s}) = BufKeys}
  <2>1. Stop(h) = IF full = {} THEN N ELSE CHOOSE s \in full : TRUE BY DEF Stop
  <2>2. full # {} => (CHOOSE s \in full : TRUE) \in full OBVIOUS
  <2>3. full \subseteq Matches(h) OBVIOUS
  <2> HIDE DEF full
  <2>4. QED BY <2>1, <2>2, <2>3
<1>5. Stop(h) \in 0 .. N BY <1>2, <1>3, <1>4 DEF Slots
<1>6. QED BY <1>2, <1>3, <1>5 DEF Slots

LEMMA OwedKeeps ==
  ASSUME IInv, KeptInv, KeptInv', OwedInv, [NextWithIters]_<<vars, iter, owed>>
  PROVE  OwedInv'
<1>0. /\ iter \in [Handles -> {NoIter} \cup [pos : 0 .. N, want : SUBSET Keys]]
      /\ owed \in [Handles -> SUBSET Keys]
      /\ \A h \in Handles : iter[h] = NoIter => owed[h] = {}
      /\ \A h \in Handles : \A k \in owed[h] : k \in iter[h].want /\ Ahead(h, k)
  BY DEF OwedInv
<1>1. CASE UNCHANGED <<vars, iter, owed>>
  <2>1. entry' = entry /\ iter' = iter /\ owed' = owed BY <1>1 DEF vars
  <2>2. QED BY <2>1 DEF OwedInv, Ahead, Holds, Free
<1>2. CASE Next /\ Forget /\ UNCHANGED iter
  <2>1. owed' = [h \in Handles |-> {k \in owed[h] : data'[k] # NoValue}] /\ iter' = iter
    BY <1>2 DEF Forget
  <2>2. \A s \in Slots, k \in Keys : Holds(s, k) /\ data'[k] # NoValue => Holds(s, k)'
    <3>1. ASSUME NEW w \in Workers, NEW c \in Commands, Begin(w, c)
          PROVE  \A s \in Slots, k \in Keys : Holds(s, k) => Holds(s, k)'
      BY <3>1 DEF Begin, Holds, Free
    <3>2. ASSUME NEW w \in Workers, Step(w)
          PROVE  \A s \in Slots, k \in Keys : Holds(s, k) /\ data'[k] # NoValue => Holds(s, k)'
      BY <3>2, SlotKeeps
    <3>3. QED BY <1>2, <3>1, <3>2 DEF Next
  <2>3. ASSUME NEW h \in Handles, NEW k \in owed'[h]
        PROVE  k \in iter'[h].want /\ Ahead(h, k)'
    <3>1. k \in owed[h] /\ data'[k] # NoValue /\ k \in Keys BY <1>0, <2>1
    <3>2. PICK s \in Slots : s >= iter[h].pos /\ Holds(s, k) BY <1>0, <3>1 DEF Ahead
    <3>3. Holds(s, k)' BY <2>2, <3>1, <3>2
    <3>4. QED BY <1>0, <2>1, <3>1, <3>2, <3>3 DEF Ahead
  <2>4. owed' \in [Handles -> SUBSET Keys] BY <1>0, <2>1
  <2>5. \A h \in Handles : iter'[h] = NoIter => owed'[h] = {} BY <1>0, <2>1
  <2>6. QED BY <1>0, <2>1, <2>3, <2>4, <2>5 DEF OwedInv
<1>3. ASSUME NEW h \in Handles, UNCHANGED vars,
             iter' \in [Handles -> {NoIter} \cup [pos : 0 .. N, want : SUBSET Keys]],
             owed' \in [Handles -> SUBSET Keys],
             \A g \in Handles \ {h} : iter'[g] = iter[g] /\ owed'[g] = owed[g],
             iter'[h] = NoIter => owed'[h] = {},
             \A k \in owed'[h] : k \in iter'[h].want /\ \E s \in Slots : s >= iter'[h].pos /\ Holds(s, k)
      PROVE  OwedInv'
  <2>1. entry' = entry BY <1>3 DEF vars
  <2>2. \A s, k : Holds(s, k)' <=> Holds(s, k) BY <2>1 DEF Holds, Free
  <2>3. \A g \in Handles : \A k \in owed'[g] : k \in iter'[g].want /\ Ahead(g, k)'
    <3>1. TAKE g \in Handles
    <3>2. CASE g = h BY <1>3, <2>2, <3>2 DEF Ahead
    <3>3. CASE g # h BY <1>0, <1>3, <2>2, <3>3 DEF Ahead
    <3>4. QED BY <3>2, <3>3
  <2>4. \A g \in Handles : iter'[g] = NoIter => owed'[g] = {} BY <1>0, <1>3
  <2>5. QED BY <1>3, <2>3, <2>4 DEF OwedInv
<1>4. ASSUME NEW want \in Prefixes, Open(want) PROVE OwedInv'
  <2>1. PICK h \in Handles :
          /\ iter' = [iter EXCEPT ![h] = [pos |-> 0, want |-> want]]
          /\ owed' = [owed EXCEPT ![h] = {k \in want : data[k] # NoValue}]
    BY <1>4 DEF Open
  <2>2. UNCHANGED vars BY <1>4 DEF Open
  <2>3. want \in SUBSET Keys /\ N \in Nat /\ 0 \in 0 .. N BY IterAssumption, KvAssumption
  <2> DEFINE i == [pos |-> 0, want |-> want]
  <2>4. i \in [pos : 0 .. N, want : SUBSET Keys] /\ i.pos = 0 /\ i.want = want BY <2>3
  <2>5. i # NoIter
    <3>1. NoIter.pos = -1 BY DEF NoIter, None
    <3>2. QED BY <2>4, <3>1
  <2>6. iter'[h] = i /\ owed'[h] = {k \in want : data[k] # NoValue} BY <1>0, <2>1
  <2>7. ASSUME NEW k \in owed'[h]
        PROVE  k \in iter'[h].want /\ \E s \in Slots : s >= iter'[h].pos /\ Holds(s, k)
    <3>1. k \in want /\ data[k] # NoValue /\ k \in Keys BY <2>3, <2>6
    <3>2. PICK s \in Slots : Holds(s, k) BY <3>1 DEF KeptInv, Kept
    <3>3. s >= 0 BY <3>2 DEF Slots
    <3>4. QED BY <2>4, <2>6, <3>1, <3>2, <3>3
  <2>8. /\ iter' \in [Handles -> {NoIter} \cup [pos : 0 .. N, want : SUBSET Keys]]
        /\ \A g \in Handles \ {h} : iter'[g] = iter[g] /\ owed'[g] = owed[g]
    BY <1>0, <2>1, <2>4
  <2>9. owed' \in [Handles -> SUBSET Keys] BY <1>0, <2>1, <2>3
  <2> HIDE DEF i
  <2>10. QED BY <1>3, <2>2, <2>5, <2>6, <2>7, <2>8, <2>9
<1>5. ASSUME NEW h \in Handles, Close(h) PROVE OwedInv'
  <2>1. /\ iter' = [iter EXCEPT ![h] = NoIter] /\ owed' = [owed EXCEPT ![h] = {}]
        /\ UNCHANGED vars
    BY <1>5 DEF Close
  <2>2. /\ iter' \in [Handles -> {NoIter} \cup [pos : 0 .. N, want : SUBSET Keys]]
        /\ owed' \in [Handles -> SUBSET Keys] /\ owed'[h] = {}
        /\ \A g \in Handles \ {h} : iter'[g] = iter[g] /\ owed'[g] = owed[g]
    BY <1>0, <2>1
  <2>3. QED BY <1>3, <2>1, <2>2
<1>6. ASSUME NEW h \in Handles, ReadIter(h) PROVE OwedInv'
  <2>1. /\ iter' = [iter EXCEPT ![h].pos = Stop(h)]
        /\ owed' = [owed EXCEPT ![h] = owed[h] \ Returned(h)]
        /\ UNCHANGED vars /\ iter[h] # NoIter
    BY <1>6 DEF ReadIter
  <2>2. /\ iter[h].pos \in 0 .. N /\ iter[h].want \in SUBSET Keys
        /\ Stop(h) \in 0 .. N
        /\ \A s \in Matches(h) : s < Stop(h) \/ (s >= Stop(h) /\ s \in Slots)
    BY <2>1, StopIn
  <2>3. iter[h] \in [pos : 0 .. N, want : SUBSET Keys] BY <1>0, <2>1
  <2>4. /\ iter'[h] \in [pos : 0 .. N, want : SUBSET Keys]
        /\ iter'[h].pos = Stop(h) /\ iter'[h].want = iter[h].want
        /\ iter' \in [Handles -> {NoIter} \cup [pos : 0 .. N, want : SUBSET Keys]]
        /\ \A g \in Handles \ {h} : iter'[g] = iter[g]
    <3>1. iter' = [iter EXCEPT ![h] = [iter[h] EXCEPT !.pos = Stop(h)]] BY <2>1
    <3>2. [iter[h] EXCEPT !.pos = Stop(h)] = [pos |-> Stop(h), want |-> iter[h].want]
      BY <2>3
    <3>3. [pos |-> Stop(h), want |-> iter[h].want] \in [pos : 0 .. N, want : SUBSET Keys]
      BY <2>2
    <3>4. iter'[h] = [pos |-> Stop(h), want |-> iter[h].want] BY <1>0, <3>1, <3>2
    <3>5. QED BY <1>0, <3>1, <3>2, <3>3, <3>4
  <2>5. /\ owed' \in [Handles -> SUBSET Keys] /\ owed'[h] = owed[h] \ Returned(h)
        /\ \A g \in Handles \ {h} : owed'[g] = owed[g]
    BY <1>0, <2>1
  <2>6. iter'[h] # NoIter
    <3>1. NoIter.pos = -1 BY DEF NoIter, None
    <3>2. QED BY <2>2, <2>4, <3>1
  <2>7. ASSUME NEW k \in owed'[h]
        PROVE  k \in iter'[h].want /\ \E s \in Slots : s >= iter'[h].pos /\ Holds(s, k)
    <3>1. k \in owed[h] /\ k \notin Returned(h) BY <2>5
    <3>2. PICK s \in Slots : s >= iter[h].pos /\ Holds(s, k) BY <1>0, <3>1 DEF Ahead
    <3>3. k \in iter[h].want BY <1>0, <3>1
    <3>4. s \in Matches(h) /\ entry[s].key = k
      BY <2>2, <3>2, <3>3, KvAssumption DEF Matches, Holds, Slots
    <3>5. ~(s < Stop(h)) BY <3>1, <3>4 DEF Returned
    <3>6. s >= Stop(h) BY <2>2, <3>4, <3>5
    <3>7. QED BY <2>4, <3>2, <3>3, <3>6
  <2>8. QED BY <1>3, <2>1, <2>4, <2>5, <2>6, <2>7
<1>7. QED BY <1>1, <1>2, <1>4, <1>5, <1>6 DEF NextWithIters

\* With a single worker, an iterator that has been read to its end has
\* returned every key that was stored all the while, for any table, keys,
\* prefixes, buffer and number of iterators (kv_iter_open, kv_iter_read).
THEOREM IterCompleteAlways ==
  ASSUME Alone
  PROVE  SpecWithIters => []IterComplete
<1> DEFINE I == IInv /\ KeptInv /\ OwedInv
<1>1. Calm BY DEF Alone, Calm
<1>2. InitIters => I
  <2> SUFFICES ASSUME InitIters PROVE I OBVIOUS
  <2>1. IInv BY InitInv DEF InitIters
  <2>2. KeptInv BY DEF InitIters, Init, KeptInv, KeptAt
  <2>3. OwedInv BY DEF InitIters, OwedInv
  <2>4. QED BY <2>1, <2>2, <2>3
<1>3. I /\ [NextWithIters]_<<vars, iter, owed>> => I'
  <2> SUFFICES ASSUME I, [NextWithIters]_<<vars, iter, owed>> PROVE I' OBVIOUS
  <2>1. [Next]_vars BY DEF NextWithIters, Open, Close, ReadIter
  <2>2. IInv' BY <1>1, <2>1, StepKeeps
  <2>3. KeptInv' BY <2>1, KeptKeeps
  <2>4. OwedInv' BY <2>3, OwedKeeps
  <2>5. QED BY <2>2, <2>3, <2>4
<1>4. I => IterComplete
  <2> SUFFICES ASSUME I, NEW h \in Handles, iter[h].pos = N, NEW k \in owed[h]
               PROVE  FALSE
    BY DEF IterComplete
  <2>1. PICK s \in Slots : s >= N BY DEF OwedInv, Ahead
  <2>2. QED BY <2>1, KvAssumption DEF Slots
<1> HIDE DEF I
<1>5. QED BY <1>2, <1>3, <1>4, PTL DEF SpecWithIters

(***************************************************************************)
(* The table implements a map                                              *)
(***************************************************************************)
\* A look-up of k comes to s, if it does not stop before; one that is at s
\* finds k.
Reach(s, k) == \A C \in SUBSET Slots : Hash[k] \in C /\ Closed(C) => s \in C
Leads(s, k) == \A C \in SUBSET Slots : s \in C /\ Closed(C) => \E t \in C : Holds(t, k)

LEMMA FindsLeads == ASSUME NEW k PROVE Finds(k) <=> Leads(Hash[k], k)
BY DEF Finds, Leads

LEMMA ReachFirst == ASSUME NEW k PROVE Reach(Hash[k], k)
BY DEF Reach

LEMMA ReachNext ==
  ASSUME NEW k, NEW s \in Slots, Reach(s, k), ~Free(s), next[s] # None
  PROVE  Reach(next[s], k)
BY DEF Reach, Closed

LEMMA LeadsNext ==
  ASSUME NEW k, NEW s \in Slots, Leads(s, k), ~Holds(s, k), next[s] # None
  PROVE  Leads(next[s], k)
<1> SUFFICES ASSUME NEW C \in SUBSET Slots, next[s] \in C, Closed(C)
             PROVE  \E t \in C : Holds(t, k)
  BY DEF Leads
<1>1. C \cup {s} \in SUBSET Slots /\ Closed(C \cup {s}) BY DEF Closed
<1>2. PICK t \in C \cup {s} : Holds(t, k) BY <1>1 DEF Leads
<1>3. QED BY <1>2

\* At the end of a chain no key is found.
LEMMA LeadsNowhere ==
  ASSUME NEW k, NEW s \in Slots, Leads(s, k), ~Holds(s, k), Free(s) \/ next[s] = None
  PROVE  FALSE
<1>1. {s} \in SUBSET Slots /\ Closed({s}) BY DEF Closed
<1>2. QED BY <1>1 DEF Leads

\* A key is found if and only if a slot that is come to holds it.
LEMMA FoundAt ==
  ASSUME Types, NEW k \in Keys
  PROVE  Finds(k) <=> \E s \in Slots : Reach(s, k) /\ Holds(s, k)
<1>1. ASSUME Finds(k) PROVE \E s \in Slots : Reach(s, k) /\ Holds(s, k)
  <2> DEFINE R == {s \in Slots : Reach(s, k)}
  <2>1. R \in SUBSET Slots /\ Hash[k] \in R BY ReachFirst, KvAssumption
  <2>2. Closed(R)
    <3>1. SUFFICES ASSUME NEW s \in R, ~Free(s), next[s] # None PROVE next[s] \in R
      BY DEF Closed
    <3>2. Reach(next[s], k) BY <3>1, ReachNext
    <3>3. next[s] \in Slots BY <3>1 DEF Types
    <3>4. QED BY <3>2, <3>3
  <2>3. QED BY <1>1, <2>1, <2>2 DEF Finds
<1>2. ASSUME NEW s \in Slots, Reach(s, k), Holds(s, k) PROVE Finds(k)
  BY <1>2 DEF Finds, Reach
<1>3. QED BY <1>1, <1>2

\* The table in which nothing changes, but lengths and offsets at most.
LEMMA SameTable ==
  ASSUME next' = next, \A s \in Slots : Free(s)' <=> Free(s),
         \A s \in Slots, k \in Keys : Holds(s, k)' <=> Holds(s, k)
  PROVE  /\ \A s \in Slots, k \in Keys : Reach(s, k)' <=> Reach(s, k)
         /\ \A s \in Slots, k \in Keys : Leads(s, k)' <=> Leads(s, k)
         /\ \A k \in Keys : Finds(k)' <=> Finds(k)
<1>1. \A C \in SUBSET Slots : Closed(C)' <=> Closed(C) BY DEF Closed
<1>2. \A C \in SUBSET Slots, k \in Keys : (\E t \in C : Holds(t, k)') <=> (\E t \in C : Holds(t, k))
  OBVIOUS
<1>3. \A s \in Slots, k \in Keys : Reach(s, k)' <=> Reach(s, k) BY <1>1 DEF Reach
<1>4. \A s \in Slots, k \in Keys : Leads(s, k)' <=> Leads(s, k) BY <1>1, <1>2 DEF Leads
<1>5. \A k \in Keys : Finds(k)' <=> Finds(k) BY <1>1, <1>2 DEF Finds
<1>6. QED BY <1>3, <1>4, <1>5

\* A free slot, at the end of whatever chains lead to it, is filled.
LEMMA FilledTable ==
  ASSUME Types, NEW a \in Slots, Free(a), next[a] = None, next' = next,
         NEW e, e.off # None, entry' = [entry EXCEPT ![a] = e]
  PROVE  /\ ~Free(a)'
         /\ \A k \in Keys : Holds(a, k)' <=> e.key = k
         /\ \A s \in Slots \ {a} : Free(s)' <=> Free(s)
         /\ \A s \in Slots \ {a}, k \in Keys : Holds(s, k)' <=> Holds(s, k)
         /\ \A s \in Slots, k \in Keys : Reach(s, k)' <=> Reach(s, k)
         /\ \A k \in Keys : Finds(k) => Finds(k)'
         /\ \A k \in Keys : e.key # k /\ Finds(k)' => Finds(k)
<1>1. entry'[a] = e /\ \A s \in Slots \ {a} : entry'[s] = entry[s] BY DEF Types
<1>2. /\ ~Free(a)' /\ \A k \in Keys : Holds(a, k)' <=> e.key = k
      /\ \A k \in Keys : ~Holds(a, k)
  BY <1>1 DEF Free, Holds
<1>3. /\ \A s \in Slots \ {a} : Free(s)' <=> Free(s)
      /\ \A s \in Slots \ {a}, k \in Keys : Holds(s, k)' <=> Holds(s, k)
  BY <1>1 DEF Free, Holds
<1>4. \A C \in SUBSET Slots : Closed(C)' <=> Closed(C) BY <1>2, <1>3 DEF Closed
<1>5. \A s \in Slots, k \in Keys : Reach(s, k)' <=> Reach(s, k) BY <1>4 DEF Reach
<1>6. ASSUME NEW k \in Keys, Finds(k) PROVE Finds(k)'
  <2>1. \A s \in Slots : Holds(s, k) => Holds(s, k)' BY <1>2, <1>3
  <2>2. QED BY <1>4, <1>6, <2>1 DEF Finds
<1>7. ASSUME NEW k \in Keys, e.key # k, Finds(k)' PROVE Finds(k)
  <2>1. \A s \in Slots : Holds(s, k)' => Holds(s, k) BY <1>2, <1>3, <1>7
  <2>2. QED BY <1>4, <1>7, <2>1 DEF Finds
<1>8. QED BY <1>2, <1>3, <1>5, <1>6, <1>7

\* A slot is erased: what was come to no more is not come to again.
LEMMA ErasedTable ==
  ASSUME Types, NEW a \in Slots, entry' = [entry EXCEPT ![a] = Empty],
         next' = [next EXCEPT ![a] = None]
  PROVE  /\ Free(a)'
         /\ \A s \in Slots \ {a} : entry'[s] = entry[s]
         /\ \A s \in Slots, k \in Keys : Holds(s, k)' => s # a /\ Holds(s, k)
         /\ \A s \in Slots, k \in Keys : Reach(s, k)' => Reach(s, k)
         /\ \A k \in Keys : Finds(k)' => Finds(k)
<1>1. /\ entry'[a] = Empty /\ next'[a] = None
      /\ \A s \in Slots \ {a} : entry'[s] = entry[s] /\ next'[s] = next[s]
  BY DEF Types
<1>2. Free(a)' /\ \A s \in Slots, k \in Keys : Holds(s, k)' => s # a /\ Holds(s, k)
  BY <1>1 DEF Free, Holds, Empty
<1>3. \A s \in Slots \ {a} : Free(s)' <=> Free(s) BY <1>1 DEF Free
<1>4. \A C \in SUBSET Slots : Closed(C) => Closed(C)' BY <1>1, <1>2, <1>3 DEF Closed
<1>5. \A s \in Slots, k \in Keys : Reach(s, k)' => Reach(s, k) BY <1>4 DEF Reach
<1>6. ASSUME NEW k \in Keys, Finds(k)' PROVE Finds(k)
  BY <1>2, <1>4, <1>6 DEF Finds
<1>7. QED BY <1>1, <1>2, <1>5, <1>6

\* A slot in use, at the end of its chain, is linked behind the last in use
\* of another.
LEMMA LinkedTable ==
  ASSUME Types, NEW a \in Slots, NEW p \in Slots, p # a, ~Free(p), ~Free(a), next[a] = None,
         next[p] \in {None, a} \/ Free(next[p]),
         entry' = entry, next' = [next EXCEPT ![p] = a]
  PROVE  /\ \A s \in Slots, k \in Keys : Holds(s, k)' <=> Holds(s, k)
         /\ \A s \in Slots, k \in Keys : Reach(s, k)' => s = a \/ Reach(s, k)
         /\ \A k \in Keys : Finds(k) => Finds(k)'
         /\ \A k \in Keys : ~Holds(a, k) /\ Finds(k)' => Finds(k)
         /\ \A k \in Keys : Reach(p, k) /\ Holds(a, k) => Finds(k)'
<1>1. next'[p] = a /\ \A s \in Slots \ {p} : next'[s] = next[s] BY DEF Types
<1>2. /\ \A s \in Slots : Free(s)' <=> Free(s)
      /\ \A s \in Slots, k \in Keys : Holds(s, k)' <=> Holds(s, k)
  BY DEF Free, Holds
<1>3. \A C \in SUBSET Slots : Closed(C) => Closed(C \cup {a})'
  BY <1>1, <1>2 DEF Closed
<1>4. ASSUME NEW C \in SUBSET Slots, Closed(C)'
      PROVE  \E D \in SUBSET Slots : /\ C \subseteq D /\ Closed(D)
                                     /\ \A s \in D \ C : Free(s)
  <2>1. CASE next[p] \in {None, a} BY <2>1, <1>1, <1>2, <1>4 DEF Closed
  <2>2. CASE next[p] \notin {None, a}
    <3>1. next[p] \in Slots /\ Free(next[p]) BY <2>2 DEF Types
    <3>2. Closed(C \cup {next[p]}) BY <3>1, <1>1, <1>2, <1>4 DEF Closed
    <3>3. QED BY <3>1, <3>2
  <2>3. QED BY <2>1, <2>2
<1>5. ASSUME NEW s \in Slots, NEW k \in Keys, Reach(s, k)', s # a PROVE Reach(s, k)
  <2>1. SUFFICES ASSUME NEW C \in SUBSET Slots, Hash[k] \in C, Closed(C) PROVE s \in C
    BY DEF Reach
  <2>2. C \cup {a} \in SUBSET Slots /\ Closed(C \cup {a})' BY <1>3, <2>1
  <2>3. s \in C \cup {a} BY <1>5, <2>1, <2>2 DEF Reach
  <2>4. QED BY <1>5, <2>3
<1>6. ASSUME NEW k \in Keys, Finds(k) PROVE Finds(k)'
  <2>1. SUFFICES ASSUME NEW C \in SUBSET Slots, Hash[k] \in C, Closed(C)'
                 PROVE  \E s \in C : Holds(s, k)'
    BY DEF Finds
  <2>2. PICK D \in SUBSET Slots : C \subseteq D /\ Closed(D) /\ \A s \in D \ C : Free(s)
    BY <1>4, <2>1
  <2>3. PICK s \in D : Holds(s, k) BY <1>6, <2>1, <2>2 DEF Finds
  <2>4. s \in C BY <2>2, <2>3 DEF Holds
  <2>5. QED BY <1>2, <2>3, <2>4
<1>7. ASSUME NEW k \in Keys, ~Holds(a, k), Finds(k)' PROVE Finds(k)
  <2>1. SUFFICES ASSUME NEW C \in SUBSET Slots, Hash[k] \in C, Closed(C)
                 PROVE  \E s \in C : Holds(s, k)
    BY DEF Finds
  <2>2. C \cup {a} \in SUBSET Slots /\ Closed(C \cup {a})' BY <1>3, <2>1
  <2>3. PICK s \in C \cup {a} : Holds(s, k)' BY <1>7, <2>1, <2>2 DEF Finds
  <2>4. QED BY <1>2, <1>7, <2>3
<1>8. ASSUME NEW k \in Keys, Reach(p, k), Holds(a, k) PROVE Finds(k)'
  <2>1. SUFFICES ASSUME NEW C \in SUBSET Slots, Hash[k] \in C, Closed(C)'
                 PROVE  a \in C
    BY <1>2, <1>8 DEF Finds
  <2>2. PICK D \in SUBSET Slots : C \subseteq D /\ Closed(D) /\ \A s \in D \ C : Free(s)
    BY <1>4, <2>1
  <2>3. p \in D BY <1>8, <2>1, <2>2 DEF Reach
  <2>4. p \in C BY <2>2, <2>3
  <2>5. a # None /\ ~Free(p)' BY <1>2 DEF Slots, None
  <2>6. QED BY <1>1, <2>1, <2>4, <2>5 DEF Closed
<1>9. QED BY <1>2, <1>5, <1>6, <1>7, <1>8

\* Of the slots a look-up of k comes to, at most one holds it.
Sole(k) == \A s, t \in Slots :
             Reach(s, k) /\ Holds(s, k) /\ Reach(t, k) /\ Holds(t, k) => s = t

\* What a worker knows of the chain of key k: while it looks k up, that k is
\* not behind it; when it has found k, its slot; when it has not found it, the
\* last slot in use, and that the slot it fills is not in another chain.
Sought(s, k)     == Reach(s, k) /\ (Finds(k) => Leads(s, k))
Spot(k, o, n)    == \E s \in Slots : /\ Reach(s, k) /\ Holds(s, k)
                                     /\ entry[s].off = o /\ entry[s].len = n
Tailing(s, p, k) == Reach(s, k) /\ (p # None => Reach(p, k) /\ ~Free(p) /\ next[p] = s)
Last(p, k)       == Reach(p, k) /\ ~Free(p) /\ (next[p] = None \/ Free(next[p]))
Filled(s, p, k)  == /\ Reach(p, k) /\ ~Free(p) /\ p # s
                    /\ next[p] \in {None, s} \/ Free(next[p])
                    /\ next[s] = None /\ Holds(s, k)
                    /\ \A t \in Slots : Reach(t, k) /\ Holds(t, k) => t = s

Found(w)   == op[w].pc \in {"read", "update"} \/ (op[w].pc = "copy" /\ op[w].len # None)
Missed(w) == op[w].pc \in {"tail", "probe", "fill"} \/ (op[w].pc = "copy" /\ op[w].len = None)

ChainAt(w) ==
  /\ op[w].pc \in {"get", "update", "delete"} => Sought(At(w), Key(w))
  /\ Found(w) => Spot(Key(w), op[w].off, op[w].len)
  /\ Missed(w) => ~Finds(Key(w))
  /\ op[w].pc = "tail" => Tailing(At(w), op[w].prev, Key(w))
  /\ op[w].pc = "probe" => Last(op[w].prev, Key(w))
  /\ op[w].pc = "fill" => IF op[w].prev = None THEN At(w) = Hash[Key(w)]
                          ELSE Last(op[w].prev, Key(w))
  /\ op[w].pc = "link" => Filled(At(w), op[w].prev, Key(w))

ChainInv == /\ \A k \in Keys : Sole(k)
            /\ \A w \in Workers : ChainAt(w)

\* The area of storage a value of n units is given, where the part of storage
\* for such values begins and what is handed out of it ends, and that an area
\* is handed out.
Cap(n)  == IF ~Bitmap THEN n ELSE IF n > SmallLen THEN LargeLen ELSE SmallLen
Base(n) == IF Bitmap /\ n > SmallLen THEN Half ELSE 0
Top(n)  == IF ~Bitmap THEN alloc.latest
           ELSE IF n > SmallLen THEN Half + alloc.large.last * LargeLen
           ELSE alloc.small.last * SmallLen
Reserved(o, n) == o \in Nat /\ n \in Nat /\ n <= Cap(n) /\ Base(n) <= o /\ o + Cap(n) <= Top(n)
Apart(o, n, p, m) == o + Cap(n) <= p \/ p + Cap(m) <= o
Clear(o, n) == \A s \in Slots : ~Free(s) => Apart(o, n, entry[s].off, entry[s].len)

\* What is handed out is a beginning of each half, or of the storage.
Handed(area, bits) == area.taken = 0 .. area.last - 1 /\ area.last <= bits
AllocInv == /\ Handed(alloc.small, SmallBits) /\ Handed(alloc.large, LargeBits)
            /\ ~Bitmap => alloc.latest <= 2 * Half
Spare(n) == IF ~Bitmap THEN alloc.latest + LargeLen <= 2 * Half
              ELSE IF n > SmallLen THEN alloc.large.last < LargeBits
              ELSE alloc.small.last < SmallBits

Storing(w) == Kind(w) \in {"store", "batch"}
SpaceAt(w) ==
  /\ op[w].pc = "get" /\ Storing(w) => Spare(Size(w))
  /\ Missed(w) => Reserved(op[w].off, Size(w)) /\ Clear(op[w].off, Size(w))
  /\ op[w].pc = "update" => /\ Size(w) <= SmallLen /\ op[w].len <= SmallLen
                            /\ Bitmap \/ Size(w) <= op[w].len

SpaceInv ==
  /\ AllocInv
  /\ \A s \in Slots : ~Free(s) => Reserved(entry[s].off, entry[s].len)
  /\ \A s, t \in Slots : s # t /\ ~Free(s) /\ ~Free(t) =>
       Apart(entry[s].off, entry[s].len, entry[t].off, entry[t].len)
  /\ \A w \in Workers : SpaceAt(w)

\* The value of k is at the place that slot s has for it.
Stands(o, v) == \A i \in 1 .. Len(v) : memory[o + i - 1] = v[i]
Right(s, k) == /\ data[k] # NoValue
               /\ entry[s].len = Len(data[k])
               /\ Stands(entry[s].off, data[k])
Changing(k) == \E w \in Workers : op[w].pc \in {"update", "link"} /\ Key(w) = k

ValueAt(w) ==
  /\ op[w].pc \in {"get", "copy"} /\ Storing(w) => SameRoom(op[w].cmd)
  /\ op[w].pc \in {"update", "tail", "probe", "fill", "link"} => Stands(op[w].off, op[w].cmd.value)
  /\ op[w].pc = "link" => entry[At(w)] = NewEntry(w)
  /\ op[w].pc = "read" => Kind(w) = "retrieve"

ValueInv ==
  /\ data \in [Keys -> Payloads \cup {NoValue}]
  /\ memory = [u \in Units |-> memory[u]]
  /\ \A k \in Keys, s \in Slots : Reach(s, k) /\ Holds(s, k) /\ ~Changing(k) => Right(s, k)
  /\ \A w \in Workers : ValueAt(w)

MapInv == ChainInv /\ SpaceInv /\ ValueInv

----------------------------------------------------------------------------
(* What the steps of a worker do *)

On(w, c, s, p, o, n) ==
  /\ op'[w].pc = c /\ op'[w].slot = s /\ op'[w].prev = p
  /\ op'[w].off = o /\ op'[w].len = n /\ op'[w].cmd = op[w].cmd

\* A worker that is not idle.
LEMMA Working ==
  ASSUME IInv, NEW w \in Workers, op[w].pc # "idle"
  PROVE  /\ op[w] \in Running /\ PlacedAt(w) /\ Types
         /\ op[w].cmd \in Commands /\ Key(w) \in Keys /\ At(w) \in Slots
         /\ Hash[Key(w)] \in Slots /\ op[w].slot = At(w)
         /\ op[w].prev \in Slots \cup {None}
         /\ op[w].off \in Nat \cup {None} /\ op[w].len \in Nat \cup {None}
         /\ Storing(w) => op[w].cmd.value \in Payloads /\ Size(w) \in Nat \ {0}
<1>1. op[w] \in Running /\ PlacedAt(w) /\ op[w].cmd \in Commands /\ Key(w) \in Keys
      /\ At(w) \in Slots /\ Hash[Key(w)] \in Slots
  BY InCommand DEF Key
<1>2. Types BY DEF IInv
<1>3. Storing(w) => op[w].cmd.value \in Payloads BY <1>1, StoresValue DEF Storing, Kind
<1>4. \A v \in Payloads : Len(v) \in Nat \ {0} BY KvAssumption
<1>5. QED BY <1>1, <1>2, <1>3, <1>4 DEF Running, At, Size

\* What a slot in use has.
LEMMA EntryIs ==
  ASSUME Types, NEW s \in Slots, ~Free(s)
  PROVE  entry[s].off \in Nat /\ entry[s].len \in Nat /\ entry[s].key \in Keys
<1>1. entry[s] \in {Empty} \cup [off : Nat, key : Keys, len : Nat] BY DEF Types
<1>2. entry[s] # Empty BY DEF Free, Empty
<1>3. QED BY <1>1, <1>2

LEMMA GoIs ==
  ASSUME IInv, NEW w \in Workers, op[w].pc # "idle", NEW c \in PCs, NEW s \in Slots, Go(w, c, s)
  PROVE  On(w, c, s, op[w].prev, op[w].off, op[w].len)
BY Working, GoOn DEF On

LEMMA ValueIs ==
  ASSUME IInv, NEW w \in Workers, op[w].pc # "idle", NEW c \in PCs,
         NEW e, e.off \in Nat, e.len \in Nat \cup {None}, Value(w, c, e)
  PROVE  On(w, c, At(w), op[w].prev, e.off, e.len)
BY Working, ValueOn DEF On

\* The table, the storage and the data stay.
Still == UNCHANGED <<entry, next, memory, alloc, data, answer>>

LEMMA WalkDoes ==
  ASSUME IInv, NEW w \in Workers, Walk(w)
  PROVE  /\ op[w].pc \in {"get", "update", "delete"} /\ Still
         /\ ~Free(At(w)) /\ ~Holds(At(w), Key(w)) /\ next[At(w)] # None
         /\ On(w, op[w].pc, next[At(w)], op[w].prev, op[w].off, op[w].len)
<1>1. /\ op[w].pc \in {"get", "update", "delete"} /\ op[w].pc # "idle" /\ Still
      /\ ~Free(At(w)) /\ ~Holds(At(w), Key(w)) /\ next[At(w)] # None
      /\ Go(w, op[w].pc, next[At(w)])
  BY DEF Walk, Still, store
<1>2. next[At(w)] \in Slots BY <1>1, Working DEF Types
<1>3. op[w].pc \in PCs BY <1>1 DEF PCs
<1>4. QED BY <1>1, <1>2, <1>3, GoIs

LEMMA HitDoes ==
  ASSUME IInv, NEW w \in Workers, Hit(w)
  PROVE  /\ op[w].pc = "get" /\ Still /\ Holds(At(w), Key(w))
         /\ \/ /\ Kind(w) = "delete"
               /\ On(w, "delete", Hash[Key(w)], op[w].prev, op[w].off, op[w].len)
            \/ /\ Kind(w) = "retrieve"
               /\ On(w, "read", At(w), op[w].prev, entry[At(w)].off, entry[At(w)].len)
            \/ /\ Storing(w)
               /\ On(w, "copy", At(w), op[w].prev, entry[At(w)].off, entry[At(w)].len)
<1>1. op[w].pc = "get" /\ op[w].pc # "idle" /\ Still /\ Holds(At(w), Key(w)) /\ Kind(w) # "exist"
  BY DEF Hit, Still, store
<1>2. entry[At(w)].off \in Nat /\ entry[At(w)].len \in Nat BY <1>1, Working, EntryIs DEF Holds
<1>3. Kind(w) \in {"store", "batch", "retrieve", "exist", "delete"}
  BY <1>1, Working DEF Kind, Commands
<1>4. CASE Kind(w) = "delete"
  <2>1. Go(w, "delete", Hash[Key(w)]) BY <1>4 DEF Hit
  <2>2. On(w, "delete", Hash[Key(w)], op[w].prev, op[w].off, op[w].len)
    BY <1>1, <2>1, Working, GoIs DEF PCs
  <2>3. QED BY <1>1, <1>4, <2>2
<1>5. CASE Kind(w) = "retrieve"
  <2>1. Value(w, "read", entry[At(w)]) BY <1>5 DEF Hit
  <2>2. On(w, "read", At(w), op[w].prev, entry[At(w)].off, entry[At(w)].len)
    BY <1>1, <1>2, <2>1, ValueIs DEF PCs
  <2>3. QED BY <1>1, <1>5, <2>2
<1>6. CASE Kind(w) \in {"store", "batch"}
  <2>1. Value(w, "copy", entry[At(w)]) BY <1>6 DEF Hit
  <2>2. On(w, "copy", At(w), op[w].prev, entry[At(w)].off, entry[At(w)].len)
    BY <1>1, <1>2, <2>1, ValueIs DEF PCs
  <2>3. QED BY <1>1, <1>6, <2>2 DEF Storing
<1>7. QED BY <1>1, <1>3, <1>4, <1>5, <1>6

LEMMA AllocateDoes ==
  ASSUME IInv, NEW w \in Workers, Allocate(w)
  PROVE  /\ op[w].pc = "get" /\ Missing(w) /\ Storing(w)
         /\ UNCHANGED <<entry, next, memory, data, answer>> /\ alloc' = Taken(Size(w))
         /\ On(w, "copy", At(w), op[w].prev, Offset(Size(w)), None)
<1>1. /\ op[w].pc = "get" /\ op[w].pc # "idle" /\ Missing(w) /\ Storing(w)
      /\ UNCHANGED <<entry, next, memory, data, answer>> /\ alloc' = Taken(Size(w))
      /\ Value(w, "copy", [off |-> Offset(Size(w)), len |-> None])
  BY DEF Allocate, Storing
<1>2. Offset(Size(w)) \in Nat BY <1>1, Working, AllocTyped DEF Types
<1> DEFINE e == [off |-> Offset(Size(w)), len |-> None]
<1>3. e.off = Offset(Size(w)) /\ e.len = None /\ e.off \in Nat /\ e.len \in Nat \cup {None}
  BY <1>2
<1>4. Value(w, "copy", e) BY <1>1
<1> HIDE DEF e
<1>5. On(w, "copy", At(w), op[w].prev, e.off, e.len)
  BY <1>1, <1>3, <1>4, ValueIs DEF PCs
<1>6. QED BY <1>1, <1>3, <1>5

\* What a write leaves in storage.
Wrote(w) == memory' = [u \in Units |-> IF u \in Written(w)
                                       THEN op[w].cmd.value[u - op[w].off + 1] ELSE memory[u]]

LEMMA CopyDoes ==
  ASSUME IInv, NEW w \in Workers, Copy(w)
  PROVE  /\ op[w].pc = "copy" /\ Wrote(w) /\ UNCHANGED <<entry, next, alloc>>
         /\ Storing(w) /\ op[w].off \in Nat /\ op[w].prev = None
         /\ \/ /\ op[w].len = None /\ UNCHANGED <<data, answer>>
               /\ On(w, IF Free(Hash[Key(w)]) THEN "fill" ELSE "tail", Hash[Key(w)],
                     op[w].prev, op[w].off, op[w].len)
            \/ /\ op[w].len # None /\ Resized(w) /\ UNCHANGED <<data, answer>>
               /\ On(w, "update", Hash[Key(w)], op[w].prev, op[w].off, op[w].len)
            \/ op[w].len # None /\ ~Resized(w) /\ End(w, <<>>) /\ Stored(w)
<1>1. op[w].pc = "copy" /\ op[w].pc # "idle" /\ Wrote(w) /\ UNCHANGED <<entry, next, alloc>>
  BY DEF Copy, Wrote
<1>2. Storing(w) /\ op[w].off \in Nat /\ op[w].prev = None
  BY <1>1, Working DEF PlacedAt, Storing, Kind
<1>3. CASE /\ op[w].len = None /\ UNCHANGED <<data, answer>>
           /\ Go(w, IF Free(Hash[Key(w)]) THEN "fill" ELSE "tail", Hash[Key(w)])
  <2>1. On(w, IF Free(Hash[Key(w)]) THEN "fill" ELSE "tail", Hash[Key(w)],
           op[w].prev, op[w].off, op[w].len)
    BY <1>1, <1>3, Working, GoIs DEF PCs
  <2>2. QED BY <1>1, <1>2, <1>3, <2>1
<1>4. CASE /\ op[w].len # None /\ Resized(w) /\ UNCHANGED <<data, answer>>
           /\ Go(w, "update", Hash[Key(w)])
  <2>1. On(w, "update", Hash[Key(w)], op[w].prev, op[w].off, op[w].len)
    BY <1>1, <1>4, Working, GoIs DEF PCs
  <2>2. QED BY <1>1, <1>2, <1>4, <2>1
<1>5. QED BY <1>1, <1>2, <1>3, <1>4 DEF Copy

LEMMA FindTailDoes ==
  ASSUME IInv, NEW w \in Workers, FindTail(w)
  PROVE  /\ op[w].pc = "tail" /\ Still
         /\ \/ Free(At(w)) /\ On(w, "probe", op[w].prev, op[w].prev, op[w].off, op[w].len)
            \/ /\ ~Free(At(w)) /\ next[At(w)] = None
               /\ On(w, "probe", At(w), At(w), op[w].off, op[w].len)
            \/ /\ ~Free(At(w)) /\ next[At(w)] # None
               /\ On(w, "tail", next[At(w)], At(w), op[w].off, op[w].len)
<1>1. op[w].pc = "tail" /\ op[w].pc # "idle" /\ Still BY DEF FindTail, Still, store
<1>2. op[w] \in Running /\ Types /\ op[w].slot = At(w) BY <1>1, Working
<1>3. CASE Free(At(w))
  <2>1. op' = [op EXCEPT ![w].pc = "probe", ![w].slot = op[w].prev] BY <1>3 DEF FindTail
  <2>2. On(w, "probe", op[w].prev, op[w].prev, op[w].off, op[w].len)
    BY <1>2, <2>1 DEF On, Types, Running
  <2>3. QED BY <1>1, <1>3, <2>2
<1>4. CASE ~Free(At(w)) /\ next[At(w)] = None
  <2>1. op' = [op EXCEPT ![w].pc = "probe", ![w].prev = At(w)] BY <1>4 DEF FindTail
  <2>2. On(w, "probe", At(w), At(w), op[w].off, op[w].len)
    BY <1>2, <2>1 DEF On, Types, Running
  <2>3. QED BY <1>1, <1>4, <2>2
<1>5. CASE ~Free(At(w)) /\ next[At(w)] # None
  <2>1. op' = [op EXCEPT ![w].slot = next[At(w)], ![w].prev = At(w)] BY <1>5 DEF FindTail
  <2>2. On(w, "tail", next[At(w)], At(w), op[w].off, op[w].len)
    BY <1>1, <1>2, <2>1 DEF On, Types, Running
  <2>3. QED BY <1>1, <1>5, <2>2
<1>6. QED BY <1>3, <1>4, <1>5

LEMMA ProbeDoes ==
  ASSUME IInv, NEW w \in Workers, Probe(w)
  PROVE  /\ op[w].pc = "probe" /\ Still
         /\ \/ Free(At(w)) /\ On(w, "fill", At(w), op[w].prev, op[w].off, op[w].len)
            \/ On(w, "probe", (At(w) + 1) % N, op[w].prev, op[w].off, op[w].len)
<1>1. op[w].pc = "probe" /\ op[w].pc # "idle" /\ Still BY DEF Probe, Still, store
<1>2. CASE Free(At(w))
  <2>1. Go(w, "fill", At(w)) BY <1>2 DEF Probe
  <2>2. QED BY <1>1, <1>2, <2>1, Working, GoIs DEF PCs
<1>3. CASE ~Free(At(w))
  <2>1. Go(w, "probe", (At(w) + 1) % N) BY <1>3 DEF Probe
  <2>2. (At(w) + 1) % N \in Slots BY <1>1, Working, KvAssumption DEF Slots
  <2>3. QED BY <1>1, <2>1, <2>2, GoIs DEF PCs
<1>4. QED BY <1>2, <1>3

LEMMA FillDoes ==
  ASSUME IInv, NEW w \in Workers, Fill(w)
  PROVE  /\ op[w].pc = "fill" /\ entry' = [entry EXCEPT ![At(w)] = NewEntry(w)]
         /\ UNCHANGED <<next, memory, alloc>> /\ Storing(w) /\ op[w].off \in Nat
         /\ \/ op[w].prev = None /\ End(w, <<>>) /\ Stored(w)
            \/ /\ op[w].prev # None /\ UNCHANGED <<data, answer>>
               /\ On(w, "link", At(w), op[w].prev, op[w].off, op[w].len)
<1>1. /\ op[w].pc = "fill" /\ op[w].pc # "idle" /\ UNCHANGED <<next, memory, alloc>>
      /\ entry' = [entry EXCEPT ![At(w)] = NewEntry(w)]
  BY DEF Fill, store
<1>2. Storing(w) /\ op[w].off \in Nat BY <1>1, Working DEF PlacedAt, Storing, Kind
<1>3. CASE op[w].prev = None BY <1>1, <1>2, <1>3 DEF Fill
<1>4. CASE op[w].prev # None
  <2>1. Go(w, "link", At(w)) /\ UNCHANGED <<data, answer>> BY <1>4 DEF Fill
  <2>2. On(w, "link", At(w), op[w].prev, op[w].off, op[w].len)
    BY <1>1, <2>1, Working, GoIs DEF PCs
  <2>3. QED BY <1>1, <1>2, <1>4, <2>1, <2>2
<1>5. QED BY <1>3, <1>4

\* The step that ends a command.
LEMMA EndIs ==
  ASSUME IInv, NEW w \in Workers, NEW a, End(w, a)
  PROVE  op'[w].pc = "idle" /\ op'[w] = [pc |-> "idle"]
BY EndOn DEF IInv

----------------------------------------------------------------------------
(* What workers know of the chains *)

LEMMA TableStays ==
  ASSUME entry' = entry, next' = next
  PROVE  /\ \A s \in Slots : Free(s)' <=> Free(s)
         /\ \A s \in Slots, k \in Keys : Holds(s, k)' <=> Holds(s, k)
         /\ \A s \in Slots, k \in Keys : Reach(s, k)' <=> Reach(s, k)
         /\ \A s \in Slots, k \in Keys : Leads(s, k)' <=> Leads(s, k)
         /\ \A k \in Keys : Finds(k)' <=> Finds(k)
         /\ \A k \in Keys : Sole(k) => Sole(k)'
<1>1. /\ \A s \in Slots : Free(s)' <=> Free(s)
      /\ \A s \in Slots, k \in Keys : Holds(s, k)' <=> Holds(s, k)
  BY DEF Free, Holds
<1>2. /\ \A s \in Slots, k \in Keys : Reach(s, k)' <=> Reach(s, k)
      /\ \A s \in Slots, k \in Keys : Leads(s, k)' <=> Leads(s, k)
      /\ \A k \in Keys : Finds(k)' <=> Finds(k)
  BY <1>1, SameTable
<1>3. \A k \in Keys : Sole(k) => Sole(k)' BY <1>1, <1>2 DEF Sole
<1>4. QED BY <1>1, <1>2, <1>3

LEMMA ChainAtMade ==
  ASSUME NEW w, NEW c, NEW s, NEW p, NEW o, NEW n, NEW k,
         On(w, c, s, p, o, n), Key(w) = k,
         c \in {"get", "update", "delete"} => Sought(s, k)',
         c \in {"read", "update"} \/ (c = "copy" /\ n # None) => Spot(k, o, n)',
         c \in {"tail", "probe", "fill"} \/ (c = "copy" /\ n = None) => ~Finds(k)',
         c = "tail" => Tailing(s, p, k)',
         c = "probe" => Last(p, k)',
         c = "fill" => IF p = None THEN s = Hash[k] ELSE Last(p, k)',
         c = "link" => Filled(s, p, k)'
  PROVE  ChainAt(w)'
<1>1. /\ op'[w].pc = c /\ At(w)' = s /\ op'[w].prev = p
      /\ op'[w].off = o /\ op'[w].len = n /\ Key(w)' = k
  BY DEF On, At, Key
<1>2. Found(w)' => Spot(k, o, n)' BY <1>1 DEF Found
<1>3. Missed(w)' => ~Finds(k)' BY <1>1 DEF Missed
<1>4. QED BY <1>1, <1>2, <1>3 DEF ChainAt

LEMMA ChainAtIdle ==
  ASSUME NEW w, op'[w].pc = "idle"
  PROVE  ChainAt(w)'
BY DEF ChainAt, Found, Missed

\* A worker that is alone.
LEMMA ChainMade ==
  ASSUME Alone, NEW w \in Workers, ChainAt(w)', \A k \in Keys : Sole(k)'
  PROVE  ChainInv'
BY DEF Alone, ChainInv

\* Steps that do not change the table.
LEMMA ChainMoves ==
  ASSUME Alone, IInv, ChainInv, NEW w \in Workers,
         \/ Walk(w) \/ Hit(w) \/ Allocate(w) \/ Copy(w) \/ FindTail(w) \/ Probe(w)
         \/ Exists(w) \/ NotExist(w) \/ Read(w)
  PROVE  ChainInv'
<1>1. op[w].pc # "idle" /\ entry' = entry /\ next' = next
  BY DEF Walk, Hit, Allocate, Copy, FindTail, Probe, Exists, NotExist, Read
<1>2. /\ \A s \in Slots : Free(s)' <=> Free(s)
      /\ \A s \in Slots, k \in Keys : Holds(s, k)' <=> Holds(s, k)
      /\ \A s \in Slots, k \in Keys : Reach(s, k)' <=> Reach(s, k)
      /\ \A s \in Slots, k \in Keys : Leads(s, k)' <=> Leads(s, k)
      /\ \A k \in Keys : Finds(k)' <=> Finds(k)
      /\ \A k \in Keys : Sole(k)'
  BY <1>1, TableStays DEF ChainInv
<1>3. SUFFICES ChainAt(w)' BY <1>2, ChainMade
<1>4. /\ Key(w) \in Keys /\ At(w) \in Slots /\ Hash[Key(w)] \in Slots /\ Types
      /\ op[w].prev \in Slots \cup {None} /\ None \notin Slots
  BY <1>1, Working DEF Slots, None
<1> PICK k \in Keys, a \in Slots, p \in Slots \cup {None} :
        k = Key(w) /\ a = At(w) /\ p = op[w].prev
  BY <1>4
<1> PICK o, n : o = op[w].off /\ n = op[w].len OBVIOUS
<1>5. k = Key(w) /\ a = At(w) /\ p = op[w].prev /\ o = op[w].off /\ n = op[w].len OBVIOUS
<1>6. ChainAt(w) BY DEF ChainInv
<1>7. /\ \A s \in Slots : Sought(s, k)' <=> Sought(s, k)
      /\ \A q, m : Spot(k, q, m)' <=> Spot(k, q, m)
      /\ \A s \in Slots, q \in Slots \cup {None} : Tailing(s, q, k)' <=> Tailing(s, q, k)
      /\ \A q \in Slots : Last(q, k)' <=> Last(q, k)
  <2>1. \A s \in Slots : Sought(s, k)' <=> Sought(s, k) BY <1>2 DEF Sought
  <2>2. \A q, m : Spot(k, q, m)' <=> Spot(k, q, m) BY <1>1, <1>2 DEF Spot
  <2>3. \A s \in Slots, q \in Slots \cup {None} : Tailing(s, q, k)' <=> Tailing(s, q, k)
    BY <1>1, <1>2 DEF Tailing
  <2>4. ASSUME NEW q \in Slots PROVE Last(q, k)' <=> Last(q, k)
    <3>1. next[q] \in Slots \cup {None} BY <1>4 DEF Types
    <3>2. QED BY <1>1, <1>2, <3>1 DEF Last
  <2>5. QED BY <2>1, <2>2, <2>3, <2>4
<1>8. CASE Walk(w)
  <2>1. /\ op[w].pc \in {"get", "update", "delete"}
        /\ ~Free(a) /\ ~Holds(a, k) /\ next[a] # None
        /\ On(w, op[w].pc, next[a], p, o, n)
    BY <1>5, <1>8, WalkDoes
  <2>2. next[a] \in Slots BY <1>4, <2>1 DEF Types
  <2>3. Sought(a, k) BY <1>5, <1>6, <2>1 DEF ChainAt
  <2>4. Sought(next[a], k) BY <2>1, <2>3, ReachNext, LeadsNext DEF Sought
  <2>5. op[w].pc = "update" => Spot(k, o, n) BY <1>5, <1>6 DEF ChainAt, Found
  <2>6. PICK b \in Slots : b = next[a] BY <2>2
  <2>7. Sought(b, k)' /\ (op[w].pc = "update" => Spot(k, o, n)') BY <1>7, <2>4, <2>5, <2>6
  <2>8. PICK c : c = op[w].pc OBVIOUS
  <2>9. On(w, c, b, p, o, n) BY <2>1, <2>6, <2>8
  <2>10. QED BY <1>5, <2>1, <2>7, <2>8, <2>9, ChainAtMade
<1>9. CASE Hit(w)
  <2>1. op[w].pc = "get" /\ Holds(a, k) BY <1>5, <1>9, HitDoes
  <2>2. Reach(a, k) BY <1>5, <1>6, <2>1 DEF ChainAt, Sought
  <2>3. PICK e : e = entry[a] OBVIOUS
  <2>4. Spot(k, e.off, e.len)' BY <1>7, <2>1, <2>2, <2>3 DEF Spot
  <2>5. PICK f, l : f = e.off /\ l = e.len OBVIOUS
  <2>6. Spot(k, f, l)' BY <2>4, <2>5
  <2>7. l # None
    <3>1. entry[a].len \in Nat BY <1>4, <2>1, EntryIs DEF Holds
    <3>2. QED BY <3>1, <2>3, <2>5 DEF None
  <2>8. CASE On(w, "delete", Hash[Key(w)], op[w].prev, op[w].off, op[w].len)
    <3>1. PICK h \in Slots : h = Hash[k] BY <1>4, <1>5
    <3>2. Sought(h, k) BY <3>1, FindsLeads, ReachFirst DEF Sought
    <3>3. On(w, "delete", h, p, o, n) BY <2>8, <1>5, <3>1
    <3>4. QED BY <1>5, <1>7, <3>2, <3>3, ChainAtMade
  <2>9. CASE On(w, "read", At(w), op[w].prev, entry[At(w)].off, entry[At(w)].len)
    <3>1. On(w, "read", a, p, f, l) BY <2>9, <1>5, <2>3, <2>5
    <3>2. QED BY <1>5, <2>6, <3>1, ChainAtMade
  <2>10. CASE On(w, "copy", At(w), op[w].prev, entry[At(w)].off, entry[At(w)].len)
    <3>1. On(w, "copy", a, p, f, l) BY <2>10, <1>5, <2>3, <2>5
    <3>2. QED BY <1>5, <2>6, <2>7, <3>1, ChainAtMade
  <2>11. QED BY <1>9, <2>8, <2>9, <2>10, HitDoes
<1>10. CASE Allocate(w)
  <2>1. op[w].pc = "get" /\ Missing(w) /\ On(w, "copy", a, p, Offset(Size(w)), None)
    BY <1>5, <1>10, AllocateDoes
  <2>2. Sought(a, k) BY <1>5, <1>6, <2>1 DEF ChainAt
  <2>3. ~Holds(a, k) /\ (Free(a) \/ next[a] = None)
    BY <1>5, <2>1 DEF Missing, Holds
  <2>4. ~Finds(k)' BY <1>2, <2>2, <2>3, LeadsNowhere DEF Sought
  <2>5. PICK f, l : f = Offset(Size(w)) /\ l = None OBVIOUS
  <2>6. On(w, "copy", a, p, f, l) BY <2>1, <2>5
  <2>7. QED BY <1>5, <2>4, <2>5, <2>6, ChainAtMade
<1>11. CASE Copy(w)
  <2>1. op[w].pc = "copy" /\ p = None BY <1>5, <1>11, CopyDoes
  <2>2. PICK h \in Slots : h = Hash[k] BY <1>4, <1>5
  <2>3. Sought(h, k) /\ Reach(h, k) BY <2>2, FindsLeads, ReachFirst DEF Sought
  <2>4. CASE n = None /\ On(w, IF Free(Hash[Key(w)]) THEN "fill" ELSE "tail", Hash[Key(w)],
                            op[w].prev, op[w].off, op[w].len)
    <3>1. ~Finds(k)' BY <1>2, <1>5, <1>6, <2>1, <2>4 DEF ChainAt, Missed
    <3>2. CASE Free(h)
      <4>1. On(w, "fill", h, p, o, n) BY <1>5, <2>2, <2>4, <3>2
      <4>2. QED BY <1>5, <2>1, <2>2, <3>1, <4>1, ChainAtMade
    <3>3. CASE ~Free(h)
      <4>1. On(w, "tail", h, p, o, n) BY <1>5, <2>2, <2>4, <3>3
      <4>2. Tailing(h, p, k)' BY <1>7, <2>1, <2>3 DEF Tailing
      <4>3. QED BY <1>5, <3>1, <4>1, <4>2, ChainAtMade
    <3>4. QED BY <3>2, <3>3
  <2>5. CASE n # None /\ On(w, "update", Hash[Key(w)], op[w].prev, op[w].off, op[w].len)
    <3>1. Spot(k, o, n)' BY <1>5, <1>6, <1>7, <2>1, <2>5 DEF ChainAt, Found
    <3>2. Sought(h, k)' BY <1>7, <2>3
    <3>3. On(w, "update", h, p, o, n) BY <1>5, <2>2, <2>5
    <3>4. QED BY <1>5, <3>1, <3>2, <3>3, ChainAtMade
  <2>6. CASE End(w, <<>>) BY <2>6, EndIs, ChainAtIdle
  <2>7. QED BY <1>5, <1>11, <2>4, <2>5, <2>6, CopyDoes
<1>12. CASE FindTail(w)
  <2>1. op[w].pc = "tail" BY <1>12, FindTailDoes
  <2>2. Tailing(a, p, k) /\ ~Finds(k)' BY <1>2, <1>5, <1>6, <2>1 DEF ChainAt, Missed
  <2>3. p # None \/ ~Free(a) BY <1>1, <1>5, <2>1, Working DEF PlacedAt
  <2>4. CASE Free(At(w)) /\ On(w, "probe", op[w].prev, op[w].prev, op[w].off, op[w].len)
    <3>1. p \in Slots /\ Last(p, k) BY <1>5, <2>2, <2>3, <2>4 DEF Tailing, Last
    <3>2. On(w, "probe", p, p, o, n) BY <1>5, <2>4
    <3>3. QED BY <1>5, <1>7, <2>2, <3>1, <3>2, ChainAtMade
  <2>5. CASE /\ ~Free(At(w)) /\ next[At(w)] = None
             /\ On(w, "probe", At(w), At(w), op[w].off, op[w].len)
    <3>1. Last(a, k) BY <1>5, <2>2, <2>5 DEF Tailing, Last
    <3>2. On(w, "probe", a, a, o, n) BY <1>5, <2>5
    <3>3. QED BY <1>5, <1>7, <2>2, <3>1, <3>2, ChainAtMade
  <2>6. CASE /\ ~Free(At(w)) /\ next[At(w)] # None
             /\ On(w, "tail", next[At(w)], At(w), op[w].off, op[w].len)
    <3>1. PICK b \in Slots : b = next[a] BY <1>4, <1>5, <2>6 DEF Types
    <3>2. Tailing(b, a, k)
      BY <1>5, <2>2, <2>6, <3>1, ReachNext DEF Tailing
    <3>3. Tailing(b, a, k)' BY <1>7, <3>2
    <3>4. On(w, "tail", b, a, o, n) BY <1>5, <2>6, <3>1
    <3>5. QED BY <1>5, <2>2, <3>3, <3>4, ChainAtMade
  <2>7. QED BY <1>12, <2>4, <2>5, <2>6, FindTailDoes
<1>13. CASE Probe(w)
  <2>1. op[w].pc = "probe" BY <1>13, ProbeDoes
  <2>2. p \in Slots BY <1>1, <1>5, <2>1, Working DEF PlacedAt
  <2>3. Last(p, k)' /\ ~Finds(k)' BY <1>2, <1>5, <1>6, <1>7, <2>1, <2>2 DEF ChainAt, Missed
  <2>4. CASE On(w, "fill", At(w), op[w].prev, op[w].off, op[w].len)
    <3>1. On(w, "fill", a, p, o, n) BY <1>5, <2>4
    <3>2. QED BY <1>4, <1>5, <2>2, <2>3, <3>1, ChainAtMade
  <2>5. CASE On(w, "probe", (At(w) + 1) % N, op[w].prev, op[w].off, op[w].len)
    <3>1. PICK b : b = (At(w) + 1) % N OBVIOUS
    <3>2. On(w, "probe", b, p, o, n) BY <1>5, <2>5, <3>1
    <3>3. QED BY <1>5, <2>3, <3>2, ChainAtMade
  <2>6. QED BY <1>13, <2>4, <2>5, ProbeDoes
<1>14. CASE Exists(w) \/ NotExist(w) \/ Read(w)
  <2>1. \E v : End(w, v) BY <1>14 DEF Exists, NotExist, Read
  <2>2. QED BY <2>1, EndIs, ChainAtIdle
<1>15. QED BY <1>8, <1>9, <1>10, <1>11, <1>12, <1>13, <1>14

\* What a step that fills a slot, or links it, starts from.
LEMMA FillFrom ==
  ASSUME IInv, KeptInv, ChainInv, NEW w \in Workers, op[w].pc = "fill"
  PROVE  /\ Free(At(w)) /\ next[At(w)] = None /\ ~Finds(Key(w))
         /\ IF op[w].prev = None THEN At(w) = Hash[Key(w)] ELSE Last(op[w].prev, Key(w))
<1>1. Free(At(w)) BY DEF KeptInv, KeptAt
<1>2. At(w) \in Slots /\ Types BY Working
<1>3. next[At(w)] = None
  <2>1. After(At(w)) = {} BY <1>1, <1>2 DEF IInv, FreeIsEnd
  <2>2. QED BY <2>1 DEF After
<1>4. ChainAt(w) BY DEF ChainInv
<1>5. QED BY <1>1, <1>3, <1>4 DEF ChainAt, Missed

LEMMA ChainFill ==
  ASSUME Alone, IInv, KeptInv, ChainInv, NEW w \in Workers, Fill(w)
  PROVE  ChainInv'
<1>1. /\ op[w].pc = "fill" /\ op[w].pc # "idle" /\ next' = next /\ op[w].off \in Nat
      /\ entry' = [entry EXCEPT ![At(w)] = NewEntry(w)]
  BY FillDoes
<1>2. /\ Key(w) \in Keys /\ At(w) \in Slots /\ Types
      /\ op[w].prev \in Slots \cup {None} /\ None \notin Slots
  BY <1>1, Working DEF Slots, None
<1> PICK k \in Keys, a \in Slots, p \in Slots \cup {None} :
        k = Key(w) /\ a = At(w) /\ p = op[w].prev
  BY <1>2
<1> PICK o, n, e : o = op[w].off /\ n = op[w].len /\ e = NewEntry(w) OBVIOUS
<1>3. /\ k = Key(w) /\ a = At(w) /\ p = op[w].prev /\ o = op[w].off /\ n = op[w].len
      /\ e = NewEntry(w)
  OBVIOUS
<1>4. Free(a) /\ next[a] = None /\ ~Finds(k) /\ (p # None => Last(p, k))
  BY <1>1, <1>3, FillFrom
<1>5. e.off # None /\ e.key = k /\ entry' = [entry EXCEPT ![a] = e]
  BY <1>1, <1>3 DEF NewEntry, None
<1>6. /\ ~Free(a)' /\ Holds(a, k)' /\ \A j \in Keys \ {k} : ~Holds(a, j)'
      /\ \A s \in Slots \ {a} : Free(s)' <=> Free(s)
      /\ \A s \in Slots \ {a}, j \in Keys : Holds(s, j)' <=> Holds(s, j)
      /\ \A s \in Slots, j \in Keys : Reach(s, j)' <=> Reach(s, j)
  BY <1>1, <1>2, <1>4, <1>5, FilledTable
<1>7. \A s \in Slots : Reach(s, k) => ~Holds(s, k) BY <1>2, <1>4, FoundAt
<1>8. \A s \in Slots : Reach(s, k)' /\ Holds(s, k)' => s = a BY <1>6, <1>7
<1>9. \A j \in Keys : Sole(j)'
  <2>1. Sole(k)' BY <1>8 DEF Sole
  <2>2. ASSUME NEW j \in Keys \ {k} PROVE Sole(j)'
    <3>1. Sole(j) BY DEF ChainInv
    <3>2. \A s \in Slots : Holds(s, j)' => Holds(s, j) BY <1>6
    <3>3. QED BY <1>6, <3>1, <3>2 DEF Sole
  <2>3. QED BY <2>1, <2>2
<1>10. CASE End(w, <<>>) BY <1>9, <1>10, EndIs, ChainAtIdle, ChainMade
<1>11. CASE p # None /\ On(w, "link", a, p, o, n)
  <2>1. p \in Slots /\ Reach(p, k) /\ ~Free(p) /\ (next[p] = None \/ Free(next[p]))
    BY <1>4, <1>11 DEF Last
  <2>2. p # a /\ ~Free(p)' BY <1>4, <1>6, <2>1
  <2>3. next[p] \in {None, a} \/ Free(next[p])'
    <3>1. PICK t \in Slots \cup {None} : t = next[p] BY <1>2, <2>1 DEF Types
    <3>2. t \in {None, a} \/ Free(t)' BY <1>6, <2>1, <3>1
    <3>3. QED BY <1>1, <3>1, <3>2
  <2>4. Filled(a, p, k)'
    BY <1>1, <1>4, <1>6, <1>8, <2>1, <2>2, <2>3 DEF Filled
  <2>5. ChainAt(w)' BY <1>3, <1>11, <2>4, ChainAtMade
  <2>6. QED BY <1>9, <2>5, ChainMade
<1>12. QED BY <1>3, <1>10, <1>11, FillDoes

LEMMA ChainErase ==
  ASSUME Alone, IInv, ChainInv, NEW w \in Workers, Erase(w)
  PROVE  ChainInv'
<1>1. /\ op[w].pc = "delete" /\ op[w].pc # "idle"
      /\ entry' = [entry EXCEPT ![At(w)] = Empty] /\ next' = [next EXCEPT ![At(w)] = None]
      /\ End(w, <<>>)
  BY DEF Erase
<1>2. At(w) \in Slots /\ Types BY <1>1, Working
<1>3. /\ \A s \in Slots, k \in Keys : Holds(s, k)' => Holds(s, k)
      /\ \A s \in Slots, k \in Keys : Reach(s, k)' => Reach(s, k)
  BY <1>1, <1>2, ErasedTable
<1>4. \A k \in Keys : Sole(k)' BY <1>3 DEF ChainInv, Sole
<1>5. QED BY <1>1, <1>4, EndIs, ChainAtIdle, ChainMade

\* An update changes a length only.
LEMMA UpdatedTable ==
  ASSUME IInv, NEW w \in Workers, Update(w)
  PROVE  /\ \A s \in Slots : Free(s)' <=> Free(s)
         /\ \A s \in Slots, k \in Keys : Holds(s, k)' <=> Holds(s, k)
         /\ \A s \in Slots, k \in Keys : Reach(s, k)' <=> Reach(s, k)
         /\ \A k \in Keys : Finds(k)' <=> Finds(k)
         /\ \A s \in Slots \ {At(w)} : entry'[s] = entry[s]
         /\ entry'[At(w)].len = Size(w) /\ entry'[At(w)].off = entry[At(w)].off
<1>1. /\ op[w].pc = "update" /\ op[w].pc # "idle" /\ next' = next
      /\ entry' = [entry EXCEPT ![At(w)].len = Size(w)] /\ Holds(At(w), Key(w))
  BY DEF Update, store
<1>2. At(w) \in Slots /\ Types BY <1>1, Working
<1>3. entry[At(w)] \in [off : Nat, key : Keys, len : Nat]
  <2>1. entry[At(w)] \in {Empty} \cup [off : Nat, key : Keys, len : Nat] BY <1>2 DEF Types
  <2>2. entry[At(w)] # Empty BY <1>1 DEF Holds, Free, Empty
  <2>3. QED BY <2>1, <2>2
<1>4. /\ \A s \in Slots \ {At(w)} : entry'[s] = entry[s]
      /\ entry'[At(w)].len = Size(w) /\ entry'[At(w)].off = entry[At(w)].off
      /\ entry'[At(w)].key = entry[At(w)].key
  BY <1>1, <1>2, <1>3 DEF Types
<1>5. \A s \in Slots : entry'[s].off = entry[s].off /\ (~Free(s) => entry'[s].key = entry[s].key)
  BY <1>4
<1>6. /\ \A s \in Slots : Free(s)' <=> Free(s)
      /\ \A s \in Slots, k \in Keys : Holds(s, k)' <=> Holds(s, k)
  BY <1>5 DEF Free, Holds
<1>7. QED BY <1>1, <1>4, <1>6, SameTable

LEMMA ChainUpdate ==
  ASSUME Alone, IInv, ChainInv, NEW w \in Workers, Update(w)
  PROVE  ChainInv'
<1>1. /\ \A s \in Slots, k \in Keys : Holds(s, k)' <=> Holds(s, k)
      /\ \A s \in Slots, k \in Keys : Reach(s, k)' <=> Reach(s, k)
  BY UpdatedTable
<1>2. \A k \in Keys : Sole(k)' BY <1>1 DEF ChainInv, Sole
<1>3. End(w, <<>>) BY DEF Update
<1>4. QED BY <1>2, <1>3, EndIs, ChainAtIdle, ChainMade

\* What a link changes.
LEMMA LinkDoes ==
  ASSUME IInv, ChainInv, NEW w \in Workers, Link(w)
  PROVE  /\ op[w].pc = "link" /\ Key(w) \in Keys /\ At(w) \in Slots
         /\ UNCHANGED <<entry, memory, alloc>> /\ End(w, <<>>) /\ Stored(w)
         /\ Filled(At(w), op[w].prev, Key(w))
         /\ \A s \in Slots, k \in Keys : Holds(s, k)' <=> Holds(s, k)
         /\ \A s \in Slots, k \in Keys : Reach(s, k)' => s = At(w) \/ Reach(s, k)
         /\ \A k \in Keys : Finds(k) => Finds(k)'
         /\ \A k \in Keys : k # Key(w) /\ Finds(k)' => Finds(k)
         /\ \A k \in Keys : k = Key(w) => Finds(k)'
<1>1. /\ op[w].pc = "link" /\ op[w].pc # "idle"
      /\ next' = [next EXCEPT ![op[w].prev] = At(w)]
      /\ UNCHANGED <<entry, memory, alloc>> /\ End(w, <<>>) /\ Stored(w)
  BY DEF Link, store
<1>2. /\ Key(w) \in Keys /\ At(w) \in Slots /\ Types /\ op[w].prev \in Slots
  BY <1>1, Working DEF PlacedAt
<1>3. Filled(At(w), op[w].prev, Key(w)) BY <1>1 DEF ChainInv, ChainAt
<1> PICK k \in Keys, a \in Slots, p \in Slots :
        k = Key(w) /\ a = At(w) /\ p = op[w].prev
  BY <1>2
<1>4. k = Key(w) /\ a = At(w) /\ p = op[w].prev OBVIOUS
<1>5. /\ p # a /\ ~Free(p) /\ next[a] = None /\ (next[p] \in {None, a} \/ Free(next[p]))
      /\ Holds(a, k) /\ Reach(p, k) /\ ~Free(a)
  BY <1>3, <1>4 DEF Filled, Holds
<1>6. entry' = entry /\ next' = [next EXCEPT ![p] = a] BY <1>1, <1>4
<1>7. /\ \A s \in Slots, j \in Keys : Holds(s, j)' <=> Holds(s, j)
      /\ \A s \in Slots, j \in Keys : Reach(s, j)' => s = a \/ Reach(s, j)
      /\ \A j \in Keys : Finds(j) => Finds(j)'
      /\ \A j \in Keys : ~Holds(a, j) /\ Finds(j)' => Finds(j)
      /\ Finds(k)'
  BY <1>2, <1>5, <1>6, LinkedTable
<1>8. \A j \in Keys : j # k => ~Holds(a, j) BY <1>5 DEF Holds
<1>9. QED BY <1>1, <1>2, <1>3, <1>4, <1>7, <1>8

LEMMA ChainLink ==
  ASSUME Alone, IInv, ChainInv, NEW w \in Workers, Link(w)
  PROVE  ChainInv'
<1>1. /\ Key(w) \in Keys /\ At(w) \in Slots /\ End(w, <<>>)
      /\ Filled(At(w), op[w].prev, Key(w))
      /\ \A s \in Slots, k \in Keys : Holds(s, k)' <=> Holds(s, k)
      /\ \A s \in Slots, k \in Keys : Reach(s, k)' => s = At(w) \/ Reach(s, k)
  BY LinkDoes
<1>2. \A s \in Slots : Reach(s, Key(w)) /\ Holds(s, Key(w)) => s = At(w)
  BY <1>1 DEF Filled
<1>3. \A k \in Keys : k # Key(w) => ~Holds(At(w), k) BY <1>1 DEF Filled, Holds
<1>4. ASSUME NEW k \in Keys PROVE Sole(k)'
  <2>1. Sole(k) BY DEF ChainInv
  <2>2. CASE k = Key(w)
    <3>1. \A s \in Slots : Reach(s, k)' /\ Holds(s, k)' => s = At(w) BY <1>1, <1>2, <2>2
    <3>2. QED BY <3>1 DEF Sole
  <2>3. CASE k # Key(w)
    <3>1. \A s \in Slots : Reach(s, k)' /\ Holds(s, k)' => Reach(s, k) /\ Holds(s, k)
      BY <1>1, <1>3, <2>3
    <3>2. QED BY <2>1, <3>1 DEF Sole
  <2>4. QED BY <2>2, <2>3
<1>5. QED BY <1>1, <1>4, EndIs, ChainAtIdle, ChainMade

LEMMA ChainBegin ==
  ASSUME Alone, IInv, ChainInv, NEW w \in Workers, NEW c \in Commands, Begin(w, c)
  PROVE  ChainInv'
<1>1. /\ op' = [op EXCEPT ![w] = [pc |-> "get", cmd |-> c, slot |-> Hash[c.key],
                                  prev |-> None, off |-> None, len |-> None]]
      /\ UNCHANGED <<entry, next>>
  BY DEF Begin
<1>2. op'[w] = [pc |-> "get", cmd |-> c, slot |-> Hash[c.key],
                prev |-> None, off |-> None, len |-> None]
  BY <1>1 DEF IInv, Types
<1>3. PICK k \in Keys : k = c.key BY DEF Commands
<1>4. PICK h \in Slots : h = Hash[k] BY KvAssumption
<1>5. Sought(h, k)
  BY <1>4, FindsLeads, ReachFirst DEF Sought
<1>6. /\ \A s \in Slots, j \in Keys : Reach(s, j)' <=> Reach(s, j)
      /\ \A s \in Slots, j \in Keys : Leads(s, j)' <=> Leads(s, j)
      /\ \A j \in Keys : Finds(j)' <=> Finds(j)
      /\ \A j \in Keys : Sole(j)'
  BY <1>1, TableStays DEF ChainInv
<1>7. Sought(h, k)' BY <1>5, <1>6 DEF Sought
<1>8. /\ op'[w].pc = "get" /\ Key(w)' = k /\ At(w)' = h
  BY <1>2, <1>3, <1>4 DEF Key, At
<1>9. ChainAt(w)' BY <1>7, <1>8 DEF ChainAt, Found, Missed
<1>10. QED BY <1>6, <1>9, ChainMade

LEMMA ChainKeeps ==
  ASSUME Alone, IInv, KeptInv, ChainInv, [Next]_vars
  PROVE  ChainInv'
<1>1. CASE UNCHANGED vars
  <2>1. entry' = entry /\ next' = next /\ op' = op BY <1>1 DEF vars
  <2>2. QED BY <2>1 DEF ChainInv, ChainAt, Found, Missed, Sole, Sought, Spot, Tailing, Last,
                 Filled, Reach, Leads, Finds, Closed, Holds, Free, At, Key
<1>2. ASSUME NEW w \in Workers, NEW c \in Commands, Begin(w, c) PROVE ChainInv'
  BY <1>2, ChainBegin
<1>3. ASSUME NEW w \in Workers, Step(w) PROVE ChainInv'
  BY <1>3, ChainMoves, ChainFill, ChainErase, ChainUpdate, ChainLink DEF Step
<1>4. QED BY <1>1, <1>2, <1>3 DEF Next

----------------------------------------------------------------------------
(* The storage *)

\* No value is longer than what a large one is given.  The code does not check
\* it: a longer one would be written over the next.
Fits == \A v \in Payloads : Len(v) <= LargeLen

LEMMA CapIs ==
  ASSUME NEW n \in Nat
  PROVE  Cap(n) \in Nat /\ Base(n) \in Nat
BY KvAssumption DEF Cap, Base

LEMMA StoredFits ==
  ASSUME Fits, NEW v \in Payloads
  PROVE  Len(v) \in Nat \ {0} /\ Len(v) <= LargeLen /\ Len(v) <= Cap(Len(v))
<1>1. Len(v) \in Nat \ {0} /\ Len(v) <= LargeLen BY KvAssumption DEF Fits
<1>2. QED BY <1>1, KvAssumption DEF Cap

\* As many areas of one size as fit in a half end in it.
LEMMA AreasIn ==
  ASSUME NEW len \in Nat \ {0}, NEW last \in Nat, last <= Half \div len
  PROVE  last * len \in Nat /\ last * len <= Half
<1>1. Half \in Nat BY KvAssumption
<1>2. /\ Half \div len \in Nat /\ Half % len \in Nat
      /\ Half = (Half \div len) * len + (Half % len)
  BY <1>1, Division
<1>3. last * len <= (Half \div len) * len BY <1>2, ProductLess
<1>4. last * len \in Nat /\ (Half \div len) * len \in Nat BY <1>2, ProductIn
<1>5. QED BY <1>1, <1>2, <1>3, <1>4

\* What is handed out of the storage lies in it, and in its half.
LEMMA TopIn ==
  ASSUME AllocType, AllocInv, NEW n \in Nat
  PROVE  /\ Top(n) \in Nat /\ Top(n) <= 2 * Half
         /\ Bitmap /\ n <= SmallLen => Top(n) <= Half
         /\ Bitmap /\ n > SmallLen => Half <= Top(n)
<1>1. /\ SmallLen \in Nat \ {0} /\ LargeLen \in Nat \ {0} /\ Half \in Nat
  BY KvAssumption
<1>3. alloc.small.last \in Nat /\ alloc.large.last \in Nat /\ alloc.latest \in Nat
  BY DEF AllocType
<1>4. alloc.small.last <= Half \div SmallLen /\ alloc.large.last <= Half \div LargeLen
  BY DEF AllocInv, Handed, SmallBits, LargeBits
<1>5. /\ alloc.small.last * SmallLen \in Nat /\ alloc.small.last * SmallLen <= Half
      /\ alloc.large.last * LargeLen \in Nat /\ alloc.large.last * LargeLen <= Half
  BY <1>1, <1>3, <1>4, AreasIn
<1>6. ~Bitmap => alloc.latest <= 2 * Half BY DEF AllocInv
<1>7. CASE ~Bitmap BY <1>3, <1>6, <1>7 DEF Top
<1>8. CASE Bitmap /\ n > SmallLen
  <2>1. Top(n) = Half + alloc.large.last * LargeLen BY <1>8 DEF Top
  <2>2. PICK x : x = alloc.large.last * LargeLen OBVIOUS
  <2>3. QED BY <1>1, <1>5, <1>8, <2>1, <2>2
<1>9. CASE Bitmap /\ ~(n > SmallLen)
  <2>1. Top(n) = alloc.small.last * SmallLen BY <1>9 DEF Top
  <2>2. PICK x : x = alloc.small.last * SmallLen OBVIOUS
  <2>3. QED BY <1>1, <1>5, <1>9, <2>1, <2>2
<1>10. QED BY <1>7, <1>8, <1>9

\* An area of the bitmap that has been filled from its beginning goes on so.
LEMMA FitIsLast ==
  ASSUME NEW area \in [taken : SUBSET Nat, last : Nat], NEW bits \in Nat,
         Handed(area, bits), area.last < bits
  PROVE  /\ NextFit(area, bits) = area.last
         /\ Take(area, bits).last = area.last + 1
         /\ Handed(Take(area, bits), bits)
<1> DEFINE run == {c \in area.last .. bits - 1 : area.last .. c \subseteq area.taken}
<1>1. area.last \in Nat /\ area.taken = 0 .. area.last - 1 BY DEF Handed
<1>2. run = {}
  <2>1. SUFFICES ASSUME NEW c \in run PROVE FALSE OBVIOUS
  <2>2. c \in Int /\ area.last <= c /\ area.last .. c \subseteq area.taken BY <1>1, <2>1
  <2>3. area.last \in area.last .. c BY <1>1, <2>2
  <2>4. area.last \in 0 .. area.last - 1 BY <1>1, <2>2, <2>3
  <2>5. QED BY <1>1, <2>4
<1>3. Cardinality(run) = 0 BY <1>2, FS_EmptySet
<1>4. NextFit(area, bits) = area.last
  <2>1. NextFit(area, bits) = IF area.last + Cardinality(run) >= bits THEN bits + 1
                              ELSE area.last + Cardinality(run)
    BY DEF NextFit
  <2> HIDE DEF run
  <2>2. QED BY <1>1, <1>3, <2>1
<1>5. Take(area, bits) = [taken |-> area.taken \cup {area.last}, last |-> area.last + 1]
  <2>1. Take(area, bits) =
          [taken |-> area.taken \cup {NextFit(area, bits)},
           last |-> IF NextFit(area, bits) + 1 > bits THEN 0 ELSE NextFit(area, bits) + 1]
    BY DEF Take
  <2>2. ~(area.last + 1 > bits) BY <1>1
  <2>3. QED BY <1>4, <2>1, <2>2
<1>6. area.taken \cup {area.last} = 0 .. (area.last + 1) - 1 BY <1>1
<1>7. QED BY <1>1, <1>4, <1>5, <1>6 DEF Handed

\* What an allocation gives, and leaves.
LEMMA Allocated ==
  ASSUME AllocType, AllocInv, NEW n \in Nat \ {0}, n <= LargeLen, Spare(n), alloc' = Taken(n)
  PROVE  /\ AllocInv' /\ AllocType'
         /\ Offset(n) = Top(n) /\ Top(n)' = Top(n) + Cap(n)
         /\ \A m \in Nat : Top(m)' \in Nat /\ Top(m) <= Top(m)'
         /\ Bitmap /\ n <= SmallLen => Top(n)' <= Half
<1>1. /\ SmallLen \in Nat \ {0} /\ LargeLen \in Nat \ {0} /\ Half \in Nat
      /\ SmallBits \in Nat /\ LargeBits \in Nat
  BY KvAssumption DEF SmallBits, LargeBits
<1>2. /\ alloc.small \in [taken : SUBSET Nat, last : Nat]
      /\ alloc.large \in [taken : SUBSET Nat, last : Nat] /\ alloc.latest \in Nat
      /\ alloc = [small |-> alloc.small, large |-> alloc.large, latest |-> alloc.latest]
  BY DEF AllocType
<1>3. Handed(alloc.small, SmallBits) /\ Handed(alloc.large, LargeBits) BY DEF AllocInv
<1>4. AllocType' BY AllocTyped DEF AllocType
<1>5. CASE ~Bitmap
  <2>1. Offset(n) = alloc.latest /\ alloc' = [alloc EXCEPT !.latest = @ + n]
    BY <1>5 DEF Offset, Taken
  <2>2. /\ alloc'.small = alloc.small /\ alloc'.large = alloc.large
        /\ alloc'.latest = alloc.latest + n
    BY <1>2, <2>1
  <2>3. alloc.latest + LargeLen <= 2 * Half BY <1>5 DEF Spare
  <2>4. alloc'.latest <= 2 * Half BY <1>1, <1>2, <2>2, <2>3
  <2>5. AllocInv' BY <1>3, <2>2, <2>4 DEF AllocInv
  <2>6. \A m : Top(m) = alloc.latest /\ Top(m)' = alloc.latest + n /\ Cap(n) = n
    BY <1>5, <2>2 DEF Top, Cap
  <2>7. alloc.latest + n \in Nat /\ alloc.latest <= alloc.latest + n BY <1>2
  <2>8. \A m \in Nat : Top(m)' \in Nat /\ Top(m) <= Top(m)' BY <2>6, <2>7
  <2>9. Top(n)' = Top(n) + Cap(n) /\ Offset(n) = Top(n) BY <2>1, <2>6
  <2>10. QED BY <1>4, <1>5, <2>5, <2>8, <2>9
<1>6. CASE Bitmap /\ n > SmallLen
  <2>1. alloc.large.last < LargeBits BY <1>6 DEF Spare
  <2>2. /\ NextFit(alloc.large, LargeBits) = alloc.large.last
        /\ Take(alloc.large, LargeBits).last = alloc.large.last + 1
        /\ Handed(Take(alloc.large, LargeBits), LargeBits)
    BY <1>1, <1>2, <1>3, <2>1, FitIsLast
  <2>3. /\ Offset(n) = Half + NextFit(alloc.large, LargeBits) * LargeLen
        /\ alloc' = [alloc EXCEPT !.large = Take(@, LargeBits)]
    <3>1. ~(n <= SmallLen) BY <1>1, <1>6
    <3>2. QED BY <1>6, <3>1 DEF Offset, Taken
  <2>4. alloc'.small = alloc.small /\ alloc'.large = Take(alloc.large, LargeBits)
    BY <1>2, <2>3
  <2>5. AllocInv' BY <1>3, <1>6, <2>2, <2>4 DEF AllocInv
  <2>6. PICK x : x = alloc.large.last * LargeLen OBVIOUS
  <2>7. x \in Nat /\ alloc'.large.last * LargeLen = x + LargeLen
    <3>1. alloc'.large.last = alloc.large.last + 1 /\ alloc.large.last \in Nat
      BY <1>2, <2>2, <2>4
    <3>2. (alloc.large.last + 1) * LargeLen = alloc.large.last * LargeLen + LargeLen
      BY <1>1, <3>1, Distribute
    <3>3. QED BY <1>1, <2>6, <3>1, <3>2, ProductIn
  <2>8. Offset(n) = Half + x BY <2>2, <2>3, <2>6
  <2>9. ASSUME NEW m \in Nat
        PROVE  /\ m > SmallLen => Top(m) = Half + x /\ Top(m)' = Half + (x + LargeLen)
               /\ ~(m > SmallLen) => Top(m)' = Top(m)
    BY <1>6, <2>4, <2>6, <2>7 DEF Top
  <2>10. Cap(n) = LargeLen BY <1>6 DEF Cap
  <2>11. Top(n)' = Top(n) + Cap(n) /\ Offset(n) = Top(n)
    BY <1>1, <1>6, <2>7, <2>8, <2>9, <2>10
  <2>12. \A m \in Nat : Top(m)' \in Nat /\ Top(m) <= Top(m)'
    <3>1. TAKE m \in Nat
    <3>2. Top(m) \in Nat BY <1>3, TopIn
    <3>3. QED BY <1>1, <2>7, <2>9, <3>2
  <2>13. ~(n <= SmallLen) BY <1>1, <1>6
  <2>14. QED BY <1>4, <2>5, <2>11, <2>12, <2>13
<1>7. CASE Bitmap /\ ~(n > SmallLen)
  <2>1. alloc.small.last < SmallBits BY <1>7 DEF Spare
  <2>2. /\ NextFit(alloc.small, SmallBits) = alloc.small.last
        /\ Take(alloc.small, SmallBits).last = alloc.small.last + 1
        /\ Handed(Take(alloc.small, SmallBits), SmallBits)
    BY <1>1, <1>2, <1>3, <2>1, FitIsLast
  <2>3. /\ Offset(n) = NextFit(alloc.small, SmallBits) * SmallLen
        /\ alloc' = [alloc EXCEPT !.small = Take(@, SmallBits)]
    <3>1. n <= SmallLen BY <1>1, <1>7
    <3>2. QED BY <1>7, <3>1 DEF Offset, Taken
  <2>4. alloc'.large = alloc.large /\ alloc'.small = Take(alloc.small, SmallBits)
    BY <1>2, <2>3
  <2>5. AllocInv' BY <1>3, <1>7, <2>2, <2>4 DEF AllocInv
  <2>6. PICK x : x = alloc.small.last * SmallLen OBVIOUS
  <2>7. x \in Nat /\ alloc'.small.last * SmallLen = x + SmallLen
    <3>1. alloc'.small.last = alloc.small.last + 1 /\ alloc.small.last \in Nat
      BY <1>2, <2>2, <2>4
    <3>2. (alloc.small.last + 1) * SmallLen = alloc.small.last * SmallLen + SmallLen
      BY <1>1, <3>1, Distribute
    <3>3. QED BY <1>1, <2>6, <3>1, <3>2, ProductIn
  <2>8. Offset(n) = x BY <2>2, <2>3, <2>6
  <2>9. ASSUME NEW m \in Nat
        PROVE  /\ ~(m > SmallLen) => Top(m) = x /\ Top(m)' = x + SmallLen
               /\ m > SmallLen => Top(m)' = Top(m)
    BY <1>7, <2>4, <2>6, <2>7 DEF Top
  <2>10. Cap(n) = SmallLen BY <1>7 DEF Cap
  <2>11. Top(n)' = Top(n) + Cap(n) /\ Offset(n) = Top(n) BY <1>7, <2>8, <2>9, <2>10
  <2>12. \A m \in Nat : Top(m)' \in Nat /\ Top(m) <= Top(m)'
    <3>1. TAKE m \in Nat
    <3>2. Top(m) \in Nat BY <1>3, TopIn
    <3>3. QED BY <1>1, <2>7, <2>9, <3>2
  <2>13. Top(n)' <= Half
    <3>1. alloc'.small.last \in Nat /\ alloc'.small.last <= SmallBits
      BY <1>1, <1>2, <2>1, <2>2, <2>4
    <3>2. alloc'.small.last * SmallLen <= Half BY <1>1, <3>1, AreasIn DEF SmallBits
    <3>3. QED BY <1>7, <2>7, <2>9, <3>2
  <2>14. QED BY <1>4, <2>5, <2>11, <2>12, <2>13
<1>8. QED BY <1>5, <1>6, <1>7

\* A new area is apart from those handed out before, which stay so.
LEMMA NewApart ==
  ASSUME AllocType, AllocInv, NEW n \in Nat \ {0}, n <= LargeLen, Spare(n), alloc' = Taken(n),
         NEW o, NEW m, Reserved(o, m)
  PROVE  Apart(Offset(n), n, o, m) /\ Reserved(o, m)'
<1>1. /\ AllocInv' /\ AllocType' /\ Offset(n) = Top(n) /\ Top(n)' = Top(n) + Cap(n)
      /\ \A x \in Nat : Top(x)' \in Nat /\ Top(x) <= Top(x)'
      /\ Bitmap /\ n <= SmallLen => Top(n)' <= Half
  BY Allocated
<1>2. /\ o \in Nat /\ m \in Nat /\ m <= Cap(m) /\ Base(m) <= o /\ o + Cap(m) <= Top(m)
  BY DEF Reserved
<1>3. /\ Top(n) \in Nat /\ Top(m) \in Nat
      /\ Bitmap /\ m <= SmallLen => Top(m) <= Half
      /\ Bitmap /\ n > SmallLen => Half <= Top(n)
  BY <1>2, TopIn
<1>4. Top(n)' \in Nat /\ Top(m)' \in Nat /\ (Bitmap /\ n <= SmallLen => Top(n)' <= Half)
  BY <1>1, <1>2
<1>5. Cap(n) \in Nat /\ Cap(m) \in Nat /\ Half \in Nat /\ SmallLen \in Nat
  BY <1>2, CapIs, KvAssumption
<1>6. Top(m) <= Top(m)' BY <1>1, <1>2
<1>7. Reserved(o, m)' BY <1>2, <1>3, <1>4, <1>5, <1>6 DEF Reserved
<1>8. (~Bitmap \/ (m > SmallLen <=> n > SmallLen)) => Top(m) = Top(n) BY DEF Top
<1>9. Bitmap /\ m > SmallLen => Base(m) = Half BY DEF Base
<1>10. Apart(Top(n), n, o, m)
  <2>1. CASE ~Bitmap \/ (m > SmallLen <=> n > SmallLen)
    BY <1>2, <1>3, <1>5, <1>8, <2>1 DEF Apart
  <2>2. CASE Bitmap /\ m > SmallLen /\ ~(n > SmallLen)
    <3>1. Top(n) + Cap(n) <= Half BY <1>1, <1>4, <1>5, <2>2
    <3>2. Half <= o BY <1>2, <1>9, <2>2
    <3>3. QED BY <1>2, <1>3, <1>5, <3>1, <3>2 DEF Apart
  <2>3. CASE Bitmap /\ n > SmallLen /\ ~(m > SmallLen)
    <3>1. Top(m) <= Half /\ Half <= Top(n) BY <1>2, <1>3, <1>5, <2>3
    <3>2. QED BY <1>2, <1>3, <1>5, <3>1 DEF Apart
  <2>4. QED BY <2>1, <2>2, <2>3
<1>11. QED BY <1>1, <1>7, <1>10

LEMMA SpaceAtMade ==
  ASSUME NEW w, NEW c, NEW s, NEW p, NEW o, NEW n, NEW z,
         On(w, c, s, p, o, n), Size(w) = z,
         c = "get" /\ Storing(w) => Spare(z)',
         c \in {"tail", "probe", "fill"} \/ (c = "copy" /\ n = None) =>
           Reserved(o, z)' /\ Clear(o, z)',
         c = "update" => z <= SmallLen /\ n <= SmallLen /\ (Bitmap \/ z <= n)
  PROVE  SpaceAt(w)'
<1>1. /\ op'[w].pc = c /\ op'[w].off = o /\ op'[w].len = n /\ Size(w)' = z
      /\ Storing(w)' <=> Storing(w)
  BY DEF On, Size, Storing, Kind
<1>2. Missed(w)' => Reserved(o, z)' /\ Clear(o, z)' BY <1>1 DEF Missed
<1>3. QED BY <1>1, <1>2 DEF SpaceAt

LEMMA SpaceAtIdle ==
  ASSUME NEW w, op'[w].pc = "idle"
  PROVE  SpaceAt(w)'
BY DEF SpaceAt, Missed

\* A worker that is alone, and leaves the storage and what is in use of it.
LEMMA SpaceStays ==
  ASSUME Alone, Types, SpaceInv, NEW w \in Workers, SpaceAt(w)', alloc' = alloc,
         \A s \in Slots : ~Free(s)' => /\ ~Free(s) /\ entry'[s].off = entry[s].off
                                       /\ \/ entry'[s].len = entry[s].len
                                          \/ Reserved(entry'[s].off, entry'[s].len)
                                             /\ Cap(entry'[s].len) <= Cap(entry[s].len)
  PROVE  SpaceInv'
<1>1. AllocInv' BY DEF SpaceInv, AllocInv
<1>2. \A m : Top(m)' = Top(m) BY DEF Top
<1>3. \A o, m : Reserved(o, m)' <=> Reserved(o, m) BY <1>2 DEF Reserved
<1>4. ASSUME NEW s \in Slots, ~Free(s)' PROVE Reserved(entry[s].off, entry[s].len)'
  <2>1. Reserved(entry'[s].off, entry'[s].len) BY <1>4 DEF SpaceInv
  <2>2. QED BY <1>3, <2>1
<1>5. ASSUME NEW s \in Slots, NEW t \in Slots, s # t, ~Free(s)', ~Free(t)'
      PROVE  Apart(entry'[s].off, entry'[s].len, entry'[t].off, entry'[t].len)
  <2>1. Apart(entry[s].off, entry[s].len, entry[t].off, entry[t].len) BY <1>5 DEF SpaceInv
  <2>2. ASSUME NEW r \in Slots, ~Free(r)'
        PROVE  /\ entry'[r].off = entry[r].off /\ entry[r].off \in Nat
               /\ Cap(entry'[r].len) \in Nat /\ Cap(entry[r].len) \in Nat
               /\ Cap(entry'[r].len) <= Cap(entry[r].len)
    <3>1. /\ ~Free(r) /\ entry'[r].off = entry[r].off
          /\ \/ entry'[r].len = entry[r].len
             \/ Reserved(entry'[r].off, entry'[r].len)
                /\ Cap(entry'[r].len) <= Cap(entry[r].len)
      BY <2>2
    <3>2. entry[r].off \in Nat /\ entry[r].len \in Nat BY <3>1 DEF SpaceInv, Reserved
    <3>3. entry'[r].len \in Nat BY <3>1, <3>2 DEF Reserved
    <3>4. Cap(entry'[r].len) \in Nat /\ Cap(entry[r].len) \in Nat BY <3>2, <3>3, CapIs
    <3>5. QED BY <3>1, <3>2, <3>4
  <2>3. QED BY <1>5, <2>1, <2>2 DEF Apart
<1>6. \A s, t \in Slots : s # t /\ ~Free(s)' /\ ~Free(t)' =>
        Apart(entry[s].off, entry[s].len, entry[t].off, entry[t].len)'
  BY <1>5
<1>7. QED BY <1>1, <1>4, <1>6 DEF SpaceInv, Alone

\* A store over a value of another length changes a small length.
LEMMA ResizedSmall ==
  ASSUME Alone, IInv, ChainInv, ValueInv, NEW w \in Workers, op[w].pc = "copy",
         op[w].len # None, Size(w) # op[w].len
  PROVE  Resized(w) /\ (Bitmap \/ Size(w) <= op[w].len)
<1>1. Storing(w) /\ Key(w) \in Keys /\ op[w].cmd.key = Key(w) /\ Size(w) = Len(op[w].cmd.value)
  BY Working DEF PlacedAt, Storing, Kind, Key, Size
<1>2. PICK s \in Slots : /\ Reach(s, Key(w)) /\ Holds(s, Key(w))
                         /\ entry[s].len = op[w].len
  BY <1>1 DEF ChainInv, ChainAt, Found, Spot
<1>3. ~Changing(Key(w)) BY DEF Alone, Changing
<1>4. Right(s, Key(w)) BY <1>1, <1>2, <1>3 DEF ValueInv
<1>5. data[Key(w)] # NoValue /\ Len(data[Key(w)]) = op[w].len BY <1>2, <1>4 DEF Right
<1>6. SameRoom(op[w].cmd) BY <1>1 DEF ValueInv, ValueAt
<1>7. /\ op[w].cmd.kind = "store" /\ (Bitmap \/ Size(w) <= op[w].len)
      /\ Size(w) <= SmallLen /\ op[w].len <= SmallLen
  BY <1>1, <1>5, <1>6 DEF SameRoom
<1>8. QED BY <1>7 DEF Resized, Kind

\* A step that changes neither the table nor the allocators.
LEMMA SpaceSame ==
  ASSUME entry' = entry, alloc' = alloc
  PROVE  /\ \A o, m : Reserved(o, m)' <=> Reserved(o, m)
         /\ \A o, m : Clear(o, m)' <=> Clear(o, m)
         /\ \A m : Spare(m)' <=> Spare(m)
<1>1. \A m : Top(m)' = Top(m) BY DEF Top
<1>2. \A o, m : Reserved(o, m)' <=> Reserved(o, m) BY <1>1 DEF Reserved
<1>3. \A o, m : Clear(o, m)' <=> Clear(o, m) BY DEF Clear, Free
<1>4. \A m : Spare(m)' <=> Spare(m) BY DEF Spare
<1>5. QED BY <1>2, <1>3, <1>4

LEMMA SpaceMoves ==
  ASSUME Alone, IInv, ChainInv, SpaceInv, ValueInv, NEW w \in Workers,
         \/ Walk(w) \/ Hit(w) \/ Copy(w) \/ FindTail(w) \/ Probe(w)
         \/ Exists(w) \/ NotExist(w) \/ Read(w) \/ Link(w)
  PROVE  SpaceInv'
<1>1. op[w].pc # "idle" /\ entry' = entry /\ alloc' = alloc
  BY DEF Walk, Hit, Copy, FindTail, Probe, Exists, NotExist, Read, Link, store
<1>2. /\ \A q, m : Reserved(q, m)' <=> Reserved(q, m)
      /\ \A q, m : Clear(q, m)' <=> Clear(q, m)
      /\ \A m : Spare(m)' <=> Spare(m)
  BY <1>1, SpaceSame
<1>3. SUFFICES SpaceAt(w)'
  <2>1. \A s \in Slots : ~Free(s)' => ~Free(s) /\ entry'[s] = entry[s] BY <1>1 DEF Free
  <2>2. Types BY DEF IInv
  <2>3. QED BY <1>1, <2>1, <2>2, SpaceStays
<1> PICK z, p, o, n : z = Size(w) /\ p = op[w].prev /\ o = op[w].off /\ n = op[w].len OBVIOUS
<1>4. z = Size(w) /\ p = op[w].prev /\ o = op[w].off /\ n = op[w].len OBVIOUS
<1>5. /\ op[w].pc = "get" /\ Storing(w) => Spare(z)'
      /\ Missed(w) => Reserved(o, z)' /\ Clear(o, z)'
      /\ op[w].pc = "update" => z <= SmallLen /\ n <= SmallLen /\ (Bitmap \/ z <= n)
  BY <1>2, <1>4 DEF SpaceInv, SpaceAt
<1>6. CASE Walk(w)
  <2>1. /\ op[w].pc \in {"get", "update", "delete"}
        /\ On(w, op[w].pc, next[At(w)], p, o, n)
    BY <1>4, <1>6, WalkDoes
  <2>2. PICK c, s : c = op[w].pc /\ s = next[At(w)] OBVIOUS
  <2>3. On(w, c, s, p, o, n) BY <2>1, <2>2
  <2>4. QED BY <1>4, <1>5, <2>1, <2>2, <2>3, SpaceAtMade
<1>7. CASE Hit(w)
  <2>1. op[w].pc = "get" /\ Holds(At(w), Key(w)) BY <1>7, HitDoes
  <2>2. PICK s, h : s = At(w) /\ h = Hash[Key(w)] OBVIOUS
  <2>3. PICK f, l : f = entry[At(w)].off /\ l = entry[At(w)].len OBVIOUS
  <2>4. l # None
    <3>1. entry[At(w)].len \in Nat BY <1>1, <2>1, Working, EntryIs DEF Holds
    <3>2. QED BY <2>3, <3>1 DEF None
  <2>5. CASE On(w, "delete", Hash[Key(w)], op[w].prev, op[w].off, op[w].len)
    <3>1. On(w, "delete", h, p, o, n) BY <1>4, <2>2, <2>5
    <3>2. QED BY <1>4, <3>1, SpaceAtMade
  <2>6. CASE On(w, "read", At(w), op[w].prev, entry[At(w)].off, entry[At(w)].len)
    <3>1. On(w, "read", s, p, f, l) BY <1>4, <2>2, <2>3, <2>6
    <3>2. QED BY <1>4, <3>1, SpaceAtMade
  <2>7. CASE On(w, "copy", At(w), op[w].prev, entry[At(w)].off, entry[At(w)].len)
    <3>1. On(w, "copy", s, p, f, l) BY <1>4, <2>2, <2>3, <2>7
    <3>2. QED BY <1>4, <2>4, <3>1, SpaceAtMade
  <2>8. QED BY <1>7, <2>5, <2>6, <2>7, HitDoes
<1>8. CASE Copy(w)
  <2>1. op[w].pc = "copy" BY <1>8, CopyDoes
  <2>2. PICK h : h = Hash[Key(w)] OBVIOUS
  <2>3. CASE n = None /\ On(w, IF Free(Hash[Key(w)]) THEN "fill" ELSE "tail", Hash[Key(w)],
                            op[w].prev, op[w].off, op[w].len)
    <3>1. Reserved(o, z)' /\ Clear(o, z)' BY <1>4, <1>5, <2>1, <2>3 DEF Missed
    <3>2. PICK c : c = IF Free(Hash[Key(w)]) THEN "fill" ELSE "tail" OBVIOUS
    <3>3. c \in {"fill", "tail"} /\ On(w, c, h, p, o, n) BY <1>4, <2>2, <2>3, <3>2
    <3>4. QED BY <1>4, <3>1, <3>3, SpaceAtMade
  <2>4. CASE n # None /\ Resized(w)
             /\ On(w, "update", Hash[Key(w)], op[w].prev, op[w].off, op[w].len)
    <3>1. z # n /\ z <= SmallLen /\ n <= SmallLen BY <1>4, <2>4 DEF Resized
    <3>2. Bitmap \/ z <= n BY <1>4, <2>1, <2>4, <3>1, ResizedSmall
    <3>3. On(w, "update", h, p, o, n) BY <1>4, <2>2, <2>4
    <3>4. QED BY <1>4, <3>1, <3>2, <3>3, SpaceAtMade
  <2>5. CASE End(w, <<>>) BY <2>5, EndIs, SpaceAtIdle
  <2>6. QED BY <1>4, <1>8, <2>3, <2>4, <2>5, CopyDoes
<1>9. CASE FindTail(w) \/ Probe(w)
  <2>1. op[w].pc \in {"tail", "probe"} BY <1>9, FindTailDoes, ProbeDoes
  <2>2. Reserved(o, z)' /\ Clear(o, z)' BY <1>5, <2>1 DEF Missed
  <2>3. PICK c \in {"tail", "probe", "fill"} : \E s, q : On(w, c, s, q, o, n)
    BY <1>4, <1>9, FindTailDoes, ProbeDoes
  <2>4. PICK s, q : On(w, c, s, q, o, n) BY <2>3
  <2>5. QED BY <1>4, <2>2, <2>4, SpaceAtMade
<1>10. CASE Exists(w) \/ NotExist(w) \/ Read(w) \/ Link(w)
  <2>1. \E v : End(w, v) BY <1>10 DEF Exists, NotExist, Read, Link
  <2>2. QED BY <2>1, EndIs, SpaceAtIdle
<1>11. QED BY <1>6, <1>7, <1>8, <1>9, <1>10

LEMMA SpaceAllocate ==
  ASSUME Alone, Fits, IInv, SpaceInv, NEW w \in Workers, Allocate(w)
  PROVE  SpaceInv'
<1>1. /\ op[w].pc = "get" /\ op[w].pc # "idle" /\ Storing(w)
      /\ entry' = entry /\ alloc' = Taken(Size(w))
      /\ On(w, "copy", At(w), op[w].prev, Offset(Size(w)), None)
  BY AllocateDoes
<1>2. op[w].cmd.value \in Payloads /\ AllocType /\ AllocInv
  BY <1>1, Working DEF Types, SpaceInv
<1>3. Size(w) \in Nat \ {0} /\ Size(w) <= LargeLen /\ Size(w) <= Cap(Size(w))
  BY <1>2, StoredFits DEF Size
<1>4. Spare(Size(w)) BY <1>1 DEF SpaceInv, SpaceAt
<1> PICK z \in Nat \ {0} : z = Size(w) BY <1>3
<1>5. z = Size(w) /\ z <= LargeLen /\ z <= Cap(z) /\ Spare(z) /\ alloc' = Taken(z)
  BY <1>1, <1>3, <1>4
<1>6. /\ AllocInv' /\ AllocType' /\ Offset(z) = Top(z) /\ Top(z)' = Top(z) + Cap(z)
  BY <1>2, <1>5, Allocated
<1>7. ASSUME NEW q, NEW m, Reserved(q, m) PROVE Apart(Offset(z), z, q, m) /\ Reserved(q, m)'
  BY <1>2, <1>5, <1>7, NewApart
<1>8. PICK o : o = Offset(z) OBVIOUS
<1>9. \A s \in Slots : Free(s)' <=> Free(s) BY <1>1 DEF Free
<1>10. ASSUME NEW s \in Slots, ~Free(s)' PROVE Reserved(entry[s].off, entry[s].len)'
  <2>1. \A q, m : Reserved(q, m) => Reserved(q, m)' BY <1>7
  <2>2. Reserved(entry'[s].off, entry'[s].len) BY <1>1, <1>9, <1>10 DEF SpaceInv
  <2>3. QED BY <2>1, <2>2
<1>11. Clear(o, z)'
  <2>1. ASSUME NEW s \in Slots, ~Free(s) PROVE Apart(o, z, entry[s].off, entry[s].len)
    <3>1. Reserved(entry[s].off, entry[s].len) BY <2>1 DEF SpaceInv
    <3>2. QED BY <1>7, <1>8, <3>1
  <2>2. QED BY <1>1, <1>9, <2>1 DEF Clear
<1>12. Reserved(o, z)'
  <2>1. Top(z) \in Nat /\ (Bitmap /\ z > SmallLen => Half <= Top(z)) BY <1>2, TopIn
  <2>2. Base(z) <= Top(z) BY <2>1 DEF Base
  <2>3. Cap(z) \in Nat /\ Base(z) \in Nat BY CapIs
  <2>4. QED BY <1>5, <1>6, <1>8, <2>1, <2>2, <2>3 DEF Reserved
<1>13. PICK a, p, n : a = At(w) /\ p = op[w].prev /\ n = None OBVIOUS
<1>14. On(w, "copy", a, p, o, n) BY <1>1, <1>5, <1>8, <1>13
<1>15. SpaceAt(w)' BY <1>5, <1>11, <1>12, <1>14, SpaceAtMade
<1>16. \A s, t \in Slots : s # t /\ ~Free(s)' /\ ~Free(t)' =>
         Apart(entry[s].off, entry[s].len, entry[t].off, entry[t].len)'
  BY <1>1, <1>9 DEF SpaceInv, Apart
<1>17. QED BY <1>6, <1>10, <1>15, <1>16 DEF SpaceInv, Alone

LEMMA SpaceFill ==
  ASSUME Alone, IInv, SpaceInv, NEW w \in Workers, Fill(w)
  PROVE  SpaceInv'
<1>1. /\ op[w].pc = "fill" /\ op[w].pc # "idle" /\ alloc' = alloc
      /\ entry' = [entry EXCEPT ![At(w)] = NewEntry(w)]
  BY FillDoes
<1>2. At(w) \in Slots /\ Types BY <1>1, Working
<1> PICK a \in Slots : a = At(w) BY <1>2
<1> PICK z, o : z = Size(w) /\ o = op[w].off OBVIOUS
<1>3. a = At(w) /\ z = Size(w) /\ o = op[w].off OBVIOUS
<1>4. Reserved(o, z) /\ Clear(o, z) BY <1>1, <1>3 DEF SpaceInv, SpaceAt, Missed
<1>5. /\ entry'[a].off = o /\ entry'[a].len = z
      /\ \A s \in Slots \ {a} : entry'[s] = entry[s]
  BY <1>1, <1>2, <1>3 DEF Types, NewEntry
<1>6. \A s \in Slots \ {a} : Free(s)' <=> Free(s) BY <1>5 DEF Free
<1>7. \A q, m : Reserved(q, m)' <=> Reserved(q, m)
  <2>1. \A m : Top(m)' = Top(m) BY <1>1 DEF Top
  <2>2. QED BY <2>1 DEF Reserved
<1>8. ASSUME NEW s \in Slots, ~Free(s)' PROVE Reserved(entry[s].off, entry[s].len)'
  <2>1. Reserved(entry'[s].off, entry'[s].len)
    BY <1>4, <1>5, <1>6, <1>8 DEF SpaceInv
  <2>2. QED BY <1>7, <2>1
<1>9. ASSUME NEW s \in Slots, NEW t \in Slots, s # t, ~Free(s)', ~Free(t)'
      PROVE  Apart(entry'[s].off, entry'[s].len, entry'[t].off, entry'[t].len)
  <2>1. CASE s = a
    <3>1. Apart(o, z, entry[t].off, entry[t].len) BY <1>4, <1>6, <1>9, <2>1 DEF Clear
    <3>2. QED BY <1>5, <1>9, <2>1, <3>1
  <2>2. CASE t = a
    <3>1. Apart(o, z, entry[s].off, entry[s].len) BY <1>4, <1>6, <1>9, <2>2 DEF Clear
    <3>2. Apart(entry[s].off, entry[s].len, o, z) BY <3>1 DEF Apart
    <3>3. QED BY <1>5, <1>9, <2>2, <3>2
  <2>3. CASE s # a /\ t # a
    <3>1. Apart(entry[s].off, entry[s].len, entry[t].off, entry[t].len)
      BY <1>6, <1>9, <2>3 DEF SpaceInv
    <3>2. QED BY <1>5, <2>3, <3>1
  <2>4. QED BY <2>1, <2>2, <2>3
<1>10. \A s, t \in Slots : s # t /\ ~Free(s)' /\ ~Free(t)' =>
         Apart(entry[s].off, entry[s].len, entry[t].off, entry[t].len)'
  BY <1>9 DEF Apart
<1>11. AllocInv' BY <1>1 DEF SpaceInv, AllocInv
<1>12. SpaceAt(w)'
  <2>1. CASE End(w, <<>>) BY <2>1, EndIs, SpaceAtIdle
  <2>2. CASE On(w, "link", At(w), op[w].prev, op[w].off, op[w].len)
    <3>1. op'[w].pc = "link" BY <2>2 DEF On
    <3>2. QED BY <3>1 DEF SpaceAt, Missed
  <2>3. QED BY <2>1, <2>2, FillDoes
<1>13. QED BY <1>8, <1>10, <1>11, <1>12 DEF SpaceInv, Alone

LEMMA SpaceErase ==
  ASSUME Alone, IInv, SpaceInv, NEW w \in Workers, Erase(w)
  PROVE  SpaceInv'
<1>1. /\ op[w].pc # "idle" /\ alloc' = alloc /\ End(w, <<>>)
      /\ entry' = [entry EXCEPT ![At(w)] = Empty]
      /\ next' = [next EXCEPT ![At(w)] = None]
  BY DEF Erase, store
<1>2. At(w) \in Slots /\ Types BY <1>1, Working
<1>3. PICK a \in Slots : a = At(w) BY <1>2
<1>4. Free(a)' /\ \A s \in Slots \ {a} : entry'[s] = entry[s]
  BY <1>1, <1>2, <1>3, ErasedTable
<1>5. \A s \in Slots : ~Free(s)' => ~Free(s) /\ entry'[s] = entry[s] BY <1>4 DEF Free
<1>6. SpaceAt(w)' BY <1>1, EndIs, SpaceAtIdle
<1>7. QED BY <1>1, <1>2, <1>5, <1>6, SpaceStays

\* The slot that an update changes is the one its value was found in.
LEMMA UpdateAt ==
  ASSUME IInv, ChainInv, NEW w \in Workers, Update(w)
  PROVE  /\ op[w].pc = "update" /\ At(w) \in Slots /\ Key(w) \in Keys /\ Storing(w)
         /\ Reach(At(w), Key(w)) /\ Holds(At(w), Key(w))
         /\ entry[At(w)].off = op[w].off /\ entry[At(w)].len = op[w].len
<1>1. op[w].pc = "update" /\ op[w].pc # "idle" /\ Holds(At(w), Key(w)) BY DEF Update
<1>2. At(w) \in Slots /\ Key(w) \in Keys /\ Storing(w)
  BY <1>1, Working DEF PlacedAt, Storing, Kind
<1>3. Sought(At(w), Key(w)) /\ Spot(Key(w), op[w].off, op[w].len)
  BY <1>1 DEF ChainInv, ChainAt, Found
<1>4. Reach(At(w), Key(w)) /\ Sole(Key(w)) BY <1>2, <1>3 DEF Sought, ChainInv
<1>5. PICK s \in Slots : /\ Reach(s, Key(w)) /\ Holds(s, Key(w))
                         /\ entry[s].off = op[w].off /\ entry[s].len = op[w].len
  BY <1>3 DEF Spot
<1>6. s = At(w) BY <1>1, <1>2, <1>4, <1>5 DEF Sole
<1>7. QED BY <1>1, <1>2, <1>4, <1>5, <1>6

LEMMA SpaceUpdate ==
  ASSUME Alone, IInv, ChainInv, SpaceInv, NEW w \in Workers, Update(w)
  PROVE  SpaceInv'
<1>1. /\ op[w].pc = "update" /\ op[w].pc # "idle" /\ At(w) \in Slots /\ Storing(w)
      /\ ~Free(At(w)) /\ entry[At(w)].len = op[w].len
  BY UpdateAt DEF Holds
<1>2. alloc' = alloc /\ End(w, <<>>) BY DEF Update, store
<1>3. Types /\ op[w].cmd.value \in Payloads BY <1>1, Working
<1> PICK a \in Slots : a = At(w) BY <1>1
<1> PICK z, n : z = Size(w) /\ n = op[w].len OBVIOUS
<1>4. a = At(w) /\ z = Size(w) /\ n = op[w].len OBVIOUS
<1>5. /\ \A s \in Slots : Free(s)' <=> Free(s)
      /\ \A s \in Slots \ {a} : entry'[s] = entry[s]
      /\ entry'[a].len = z /\ entry'[a].off = entry[a].off
  BY <1>4, UpdatedTable
<1>6. z <= SmallLen /\ n <= SmallLen /\ (Bitmap \/ z <= n)
  BY <1>1, <1>4 DEF SpaceInv, SpaceAt
<1>7. z \in Nat /\ n \in Nat /\ SmallLen \in Nat
  <2>1. z \in Nat BY <1>3, <1>4, KvAssumption DEF Size
  <2>2. n \in Nat BY <1>1, <1>3, <1>4, EntryIs
  <2>3. QED BY <2>1, <2>2, KvAssumption
<1>8. ~(z > SmallLen) /\ ~(n > SmallLen) BY <1>6, <1>7
<1>9. z <= Cap(z) /\ Cap(z) <= Cap(n) /\ Base(z) = Base(n) /\ Top(z) = Top(n)
  <2>1. Base(z) = Base(n) /\ Top(z) = Top(n) BY <1>8 DEF Base, Top
  <2>2. CASE Bitmap BY <1>6, <1>7, <1>8, <2>1, <2>2 DEF Cap
  <2>3. CASE ~Bitmap BY <1>6, <1>7, <2>1, <2>3 DEF Cap
  <2>4. QED BY <2>1, <2>2, <2>3
<1>10. Reserved(entry[a].off, n) BY <1>1, <1>4 DEF SpaceInv
<1>11. Reserved(entry[a].off, z)
  <2>1. Top(n) \in Nat BY <1>3, <1>7, TopIn DEF Types, SpaceInv
  <2>2. Cap(z) \in Nat /\ Cap(n) \in Nat BY <1>7, CapIs
  <2>3. QED BY <1>7, <1>9, <1>10, <2>1, <2>2 DEF Reserved
<1>12. SpaceAt(w)' BY <1>2, EndIs, SpaceAtIdle
<1>13. \A s \in Slots : ~Free(s)' => /\ ~Free(s) /\ entry'[s].off = entry[s].off
                                     /\ \/ entry'[s].len = entry[s].len
                                        \/ Reserved(entry'[s].off, entry'[s].len)
                                           /\ Cap(entry'[s].len) <= Cap(entry[s].len)
  <2>1. Cap(entry'[a].len) <= Cap(entry[a].len) BY <1>1, <1>4, <1>5, <1>9
  <2>2. Reserved(entry'[a].off, entry'[a].len) BY <1>5, <1>11
  <2>3. QED BY <1>5, <2>1, <2>2
<1>14. QED BY <1>2, <1>3, <1>12, <1>13, SpaceStays

LEMMA SpaceBegin ==
  ASSUME Alone, Fits, KeepsRoom, IInv, SpaceInv, NEW w \in Workers, NEW c \in Commands, Begin(w, c)
  PROVE  SpaceInv'
<1>1. /\ entry' = entry /\ alloc' = alloc /\ Idle(w)
      /\ c.kind \in {"store", "batch"} => Room(Len(c.value))
      /\ op' = [op EXCEPT ![w] = [pc |-> "get", cmd |-> c, slot |-> Hash[c.key],
                                  prev |-> None, off |-> None, len |-> None]]
  BY DEF Begin, store
<1>2. Types BY DEF IInv
<1>3. /\ op'[w].pc = "get" /\ op'[w].cmd = c BY <1>1, <1>2 DEF Types
<1>4. Busy = {} BY <1>1 DEF Alone, Busy
<1>5. Cardinality(Busy) = 0 BY <1>4, FS_EmptySet
<1>6. ASSUME NEW area, NEW bits \in Nat, area.last \in Nat, Handed(area, bits)
      PROVE  Cardinality(area.taken) = area.last
  <2>1. area.taken = 0 .. area.last - 1 BY <1>6 DEF Handed
  <2>2. PICK b \in Int : b = area.last - 1 BY <1>6
  <2>3. Cardinality(0 .. b) = IF 0 > b THEN 0 ELSE b - 0 + 1 BY FS_Interval
  <2>4. QED BY <1>6, <2>1, <2>2, <2>3
<1>7. ASSUME NEW n \in Nat, Room(n) PROVE Spare(n)
  <2>1. /\ SmallBits \in Nat /\ LargeBits \in Nat /\ LargeLen \in Nat
        /\ alloc.latest \in Nat
        /\ alloc.large.last \in Nat /\ alloc.small.last \in Nat
    <3>1. SmallBits \in Nat /\ LargeBits \in Nat /\ LargeLen \in Nat
      BY KvAssumption DEF SmallBits, LargeBits
    <3>2. QED BY <1>2, <3>1 DEF Types, AllocType
  <2>2. /\ Cardinality(alloc.large.taken) = alloc.large.last
        /\ Cardinality(alloc.small.taken) = alloc.small.last
    BY <1>6, <2>1 DEF SpaceInv, AllocInv
  <2>3. (0 + 1) * LargeLen = LargeLen BY <2>1
  <2>4. /\ ~Bitmap => alloc.latest + (0 + 1) * LargeLen <= 2 * Half
        /\ Bitmap /\ n > SmallLen => Cardinality(alloc.large.taken) + 0 < LargeBits
        /\ Bitmap /\ ~(n > SmallLen) => Cardinality(alloc.small.taken) + 0 < SmallBits
    BY <1>5, <1>7 DEF Room
  <2>5. QED BY <2>1, <2>2, <2>3, <2>4 DEF Spare
<1>8. c.kind \in {"store", "batch"} => Spare(Len(c.value)) BY <1>1, <1>7, StoresValue
<1>9. SpaceAt(w)'
  <2>1. PICK z : z = Len(c.value) OBVIOUS
  <2>2. Size(w)' = z /\ (Storing(w)' <=> c.kind \in {"store", "batch"})
    BY <1>3, <2>1 DEF Size, Storing, Kind
  <2>3. c.kind \in {"store", "batch"} => Spare(z)' BY <1>1, <1>8, <2>1, SpaceSame
  <2>4. ~Missed(w)' BY <1>3 DEF Missed
  <2>5. QED BY <1>3, <2>2, <2>3, <2>4 DEF SpaceAt
<1>10. \A s \in Slots : ~Free(s)' => ~Free(s) /\ entry'[s] = entry[s] BY <1>1 DEF Free
<1>11. QED BY <1>1, <1>2, <1>9, <1>10, SpaceStays

LEMMA SpaceKeeps ==
  ASSUME Alone, Fits, KeepsRoom, IInv, KeptInv, ChainInv, SpaceInv, ValueInv, [Next]_vars
  PROVE  SpaceInv'
<1>1. CASE UNCHANGED vars
  <2>1. entry' = entry /\ alloc' = alloc /\ op' = op BY <1>1 DEF vars, store
  <2>2. QED BY <2>1 DEF SpaceInv, AllocInv, SpaceAt, Missed, Reserved, Clear, Apart, Top,
                 Spare, Size, Storing, Kind, Free
<1>2. ASSUME NEW w \in Workers, NEW c \in Commands, Begin(w, c) PROVE SpaceInv'
  BY <1>2, SpaceBegin
<1>3. ASSUME NEW w \in Workers, Step(w) PROVE SpaceInv'
  BY <1>3, SpaceMoves, SpaceAllocate, SpaceFill, SpaceErase, SpaceUpdate DEF Step
<1>4. QED BY <1>1, <1>2, <1>3 DEF Next

----------------------------------------------------------------------------
(* The values *)

\* Of a worker that is alone.
LEMMA ChangingIs ==
  ASSUME Alone, NEW w \in Workers, NEW k
  PROVE  /\ Changing(k) <=> op[w].pc \in {"update", "link"} /\ Key(w) = k
         /\ Changing(k)' <=> op'[w].pc \in {"update", "link"} /\ op'[w].cmd.key = k
BY DEF Alone, Changing, Key

LEMMA ValueMade ==
  ASSUME Alone, NEW w \in Workers, ValueAt(w)',
         data' \in [Keys -> Payloads \cup {NoValue}],
         memory' = [u \in Units |-> memory'[u]],
         \A k \in Keys, s \in Slots : Reach(s, k)' /\ Holds(s, k)' /\ ~Changing(k)' => Right(s, k)'
  PROVE  ValueInv'
BY DEF Alone, ValueInv

LEMMA ValueAtMade ==
  ASSUME NEW w, NEW c, NEW s, NEW p, NEW o, NEW n, NEW d,
         On(w, c, s, p, o, n), op[w].cmd = d,
         c \in {"get", "copy"} /\ d.kind \in {"store", "batch"} => SameRoom(d)',
         c \in {"update", "tail", "probe", "fill", "link"} => Stands(o, d.value)',
         c = "link" => entry'[s] = [off |-> o, key |-> d.key, len |-> Len(d.value)],
         c = "read" => d.kind = "retrieve"
  PROVE  ValueAt(w)'
<1>1. /\ op'[w].pc = c /\ op'[w].slot = s /\ op'[w].off = o /\ op'[w].cmd = d
      /\ Storing(w)' <=> d.kind \in {"store", "batch"}
  BY DEF On, Storing, Kind
<1>2. At(w)' = s /\ NewEntry(w)' = [off |-> o, key |-> d.key, len |-> Len(d.value)]
  BY <1>1 DEF At, NewEntry, Key, Size
<1>3. op'[w].pc \in {"get", "copy"} /\ Storing(w)' => SameRoom(op[w].cmd)'
  BY <1>1
<1>4. op'[w].pc \in {"update", "tail", "probe", "fill", "link"} =>
        Stands(op[w].off, op[w].cmd.value)'
  BY <1>1
<1>5. op'[w].pc = "link" => entry'[At(w)'] = NewEntry(w)' BY <1>1, <1>2
<1>6. op'[w].pc = "read" => Kind(w)' = "retrieve" BY <1>1 DEF Kind
<1>7. QED BY <1>3, <1>4, <1>5, <1>6 DEF ValueAt

LEMMA ValueAtIdle ==
  ASSUME NEW w, op'[w].pc = "idle"
  PROVE  ValueAt(w)'
BY DEF ValueAt

\* A value that stays where it is.
LEMMA RightStays ==
  ASSUME NEW s, NEW k, Right(s, k), memory' = memory, entry'[s] = entry[s], data'[k] = data[k]
  PROVE  Right(s, k)'
<1>1. data'[k] # NoValue /\ entry'[s].len = Len(data'[k]) BY DEF Right
<1>2. \A i \in 1 .. Len(data'[k]) : memory'[entry'[s].off + i - 1] = data'[k][i]
  BY DEF Right, Stands
<1>3. Stands(entry[s].off, data[k])' BY <1>2 DEF Stands
<1>4. QED BY <1>1, <1>3 DEF Right

\* What a command knows stays known, while the storage and the data stay.
LEMMA KnownStays ==
  ASSUME memory' = memory, data' = data
  PROVE  /\ \A o, v : Stands(o, v)' <=> Stands(o, v)
         /\ \A c : SameRoom(c)' <=> SameRoom(c)
BY DEF Stands, SameRoom

\* Steps that change neither the table, the storage nor the data.
LEMMA ValueMoves ==
  ASSUME Alone, IInv, ValueInv, NEW w \in Workers,
         \/ Walk(w) \/ Hit(w) \/ Allocate(w) \/ FindTail(w) \/ Probe(w) \/ Exists(w) \/ Read(w)
  PROVE  ValueInv'
<1>1. /\ op[w].pc # "idle" /\ entry' = entry /\ next' = next
      /\ memory' = memory /\ data' = data
  BY DEF Walk, Hit, Allocate, FindTail, Probe, Exists, Read, store
<1>2. /\ \A o, v : Stands(o, v)' <=> Stands(o, v)
      /\ \A c : SameRoom(c)' <=> SameRoom(c)
  BY <1>1, KnownStays
<1>3. /\ \A s \in Slots, k \in Keys : Holds(s, k)' <=> Holds(s, k)
      /\ \A s \in Slots, k \in Keys : Reach(s, k)' <=> Reach(s, k)
  BY <1>1, TableStays
<1>4. SUFFICES /\ ValueAt(w)'
               /\ op[w].pc \in {"update", "link"} => op'[w].pc = op[w].pc /\ op'[w].cmd = op[w].cmd
  <2>1. \A k : ~Changing(k)' => ~Changing(k) BY <1>4, ChangingIs DEF Key
  <2>2. ASSUME NEW k \in Keys, NEW s \in Slots, Reach(s, k)', Holds(s, k)', ~Changing(k)'
        PROVE  Right(s, k)'
    <3>1. Right(s, k) BY <1>3, <2>1, <2>2 DEF ValueInv
    <3>2. QED BY <1>1, <3>1, RightStays
  <2>3. /\ data' \in [Keys -> Payloads \cup {NoValue}]
        /\ memory' = [u \in Units |-> memory'[u]]
    BY <1>1 DEF ValueInv
  <2>4. QED BY <1>4, <2>2, <2>3, ValueMade
<1> PICK d, p, o, n : d = op[w].cmd /\ p = op[w].prev /\ o = op[w].off /\ n = op[w].len OBVIOUS
<1>5. d = op[w].cmd /\ p = op[w].prev /\ o = op[w].off /\ n = op[w].len OBVIOUS
<1>6. /\ op[w].pc \in {"get", "copy"} /\ d.kind \in {"store", "batch"} => SameRoom(d)'
      /\ op[w].pc \in {"update", "tail", "probe", "fill", "link"} => Stands(o, d.value)'
  BY <1>2, <1>5 DEF ValueInv, ValueAt, Storing, Kind
<1>7. CASE Walk(w)
  <2>1. /\ op[w].pc \in {"get", "update", "delete"}
        /\ On(w, op[w].pc, next[At(w)], p, o, n)
    BY <1>5, <1>7, WalkDoes
  <2>2. PICK c, s : c = op[w].pc /\ s = next[At(w)] OBVIOUS
  <2>3. On(w, c, s, p, o, n) BY <2>1, <2>2
  <2>4. ValueAt(w)' BY <1>5, <1>6, <2>1, <2>2, <2>3, ValueAtMade
  <2>5. QED BY <2>1, <2>4 DEF On
<1>8. CASE Hit(w)
  <2>1. op[w].pc = "get" BY <1>8, HitDoes
  <2>2. PICK c \in {"delete", "read", "copy"} :
             (c = "read" => Kind(w) = "retrieve") /\ \E s, f, l : On(w, c, s, p, f, l)
    BY <1>5, <1>8, HitDoes
  <2>3. PICK s, f, l : On(w, c, s, p, f, l) BY <2>2
  <2>4. c = "read" => d.kind = "retrieve" BY <1>5, <2>2 DEF Kind
  <2>5. ValueAt(w)' BY <1>5, <1>6, <2>1, <2>3, <2>4, ValueAtMade
  <2>6. QED BY <2>1, <2>5
<1>9. CASE Allocate(w)
  <2>1. op[w].pc = "get" /\ \E s, f, l : On(w, "copy", s, p, f, l) BY <1>5, <1>9, AllocateDoes
  <2>2. PICK s, f, l : On(w, "copy", s, p, f, l) BY <2>1
  <2>3. ValueAt(w)' BY <1>5, <1>6, <2>1, <2>2, ValueAtMade
  <2>4. QED BY <2>1, <2>3
<1>10. CASE FindTail(w) \/ Probe(w)
  <2>1. op[w].pc \in {"tail", "probe"} BY <1>10, FindTailDoes, ProbeDoes
  <2>2. PICK c \in {"tail", "probe", "fill"} : \E s, q : On(w, c, s, q, o, n)
    BY <1>5, <1>10, FindTailDoes, ProbeDoes
  <2>3. PICK s, q : On(w, c, s, q, o, n) BY <2>2
  <2>4. ValueAt(w)' BY <1>5, <1>6, <2>1, <2>3, ValueAtMade
  <2>5. QED BY <2>1, <2>4
<1>11. CASE Exists(w) \/ Read(w)
  <2>1. op[w].pc \in {"get", "read"} /\ \E v : End(w, v) BY <1>11 DEF Exists, Read
  <2>2. QED BY <2>1, EndIs, ValueAtIdle
<1>12. QED BY <1>7, <1>8, <1>9, <1>10, <1>11

\* A look-up that ends without the key: the key is not found.
LEMMA MissedKey ==
  ASSUME IInv, ChainInv, NEW w \in Workers, op[w].pc \in {"get", "delete"}, Missing(w)
  PROVE  ~Finds(Key(w))
<1>1. At(w) \in Slots /\ Sought(At(w), Key(w)) BY Working DEF ChainInv, ChainAt
<1>2. ~Holds(At(w), Key(w)) /\ (Free(At(w)) \/ next[At(w)] = None) BY DEF Missing, Holds
<1>3. QED BY <1>1, <1>2, LeadsNowhere DEF Sought

LEMMA ValueNotExist ==
  ASSUME Alone, IInv, ChainInv, ValueInv, NEW w \in Workers, NotExist(w)
  PROVE  ValueInv'
<1>1. /\ op[w].pc \in {"get", "delete"} /\ Missing(w) /\ End(w, Absent)
      /\ entry' = entry /\ next' = next /\ memory' = memory
      /\ data' = IF Kind(w) = "delete" THEN [data EXCEPT ![Key(w)] = NoValue] ELSE data
  BY DEF NotExist, store
<1>2. Key(w) \in Keys /\ Types BY <1>1, Working
<1> PICK k \in Keys : k = Key(w) BY <1>2
<1>3. k = Key(w) OBVIOUS
<1>4. ~Finds(k) BY <1>1, <1>3, MissedKey
<1>5. /\ \A s \in Slots, j \in Keys : Holds(s, j)' <=> Holds(s, j)
      /\ \A s \in Slots, j \in Keys : Reach(s, j)' <=> Reach(s, j)
  BY <1>1, TableStays
<1>6. /\ data' \in [Keys -> Payloads \cup {NoValue}]
      /\ \A j \in Keys \ {k} : data'[j] = data[j]
      /\ memory' = [u \in Units |-> memory'[u]]
  BY <1>1, <1>3 DEF ValueInv
<1>7. ASSUME NEW j \in Keys, NEW s \in Slots, Reach(s, j)', Holds(s, j)' PROVE Right(s, j)'
  <2>1. Reach(s, j) /\ Holds(s, j) BY <1>5, <1>7
  <2>2. j # k BY <1>2, <1>4, <2>1, FoundAt
  <2>3. ~Changing(j) BY <1>1, ChangingIs
  <2>4. Right(s, j) BY <2>1, <2>3 DEF ValueInv
  <2>5. QED BY <1>1, <1>6, <2>2, <2>4, RightStays
<1>8. ValueAt(w)' BY <1>1, EndIs, ValueAtIdle
<1>9. QED BY <1>6, <1>7, <1>8, ValueMade

\* Where a value is copied to: in the storage, and apart from what is in use
\* for other keys.
LEMMA CopyArea ==
  ASSUME Alone, Fits, IInv, ChainInv, SpaceInv, ValueInv, NEW w \in Workers, op[w].pc = "copy"
  PROVE  /\ op[w].off \in Nat /\ Size(w) \in Nat \ {0}
         /\ op[w].off + Size(w) <= 2 * Half
         /\ \A s \in Slots : ~Free(s) /\ ~Holds(s, Key(w)) =>
              Apart(op[w].off, Size(w), entry[s].off, entry[s].len)
<1>1. /\ Storing(w) /\ Key(w) \in Keys /\ op[w].off \in Nat /\ Types
      /\ op[w].cmd.value \in Payloads
  BY Working DEF PlacedAt, Storing, Kind
<1> PICK k \in Keys : k = Key(w) BY <1>1
<1> PICK o \in Nat : o = op[w].off BY <1>1
<1> PICK z, n : z = Size(w) /\ n = op[w].len OBVIOUS
<1>2. k = Key(w) /\ o = op[w].off /\ z = Size(w) /\ n = op[w].len OBVIOUS
<1>3. z \in Nat \ {0} /\ z <= Cap(z) BY <1>1, <1>2, StoredFits DEF Size
<1>4. Half \in Nat /\ SmallLen \in Nat BY KvAssumption
<1>5. ASSUME NEW m, Reserved(o, m), z <= Cap(m) PROVE o + z <= 2 * Half
  <2>1. m \in Nat /\ o + Cap(m) <= Top(m) BY <1>5 DEF Reserved
  <2>2. Top(m) \in Nat /\ Top(m) <= 2 * Half BY <1>1, <2>1, TopIn DEF Types, SpaceInv
  <2>3. Cap(m) \in Nat BY <2>1, CapIs
  <2>4. QED BY <1>3, <1>4, <1>5, <2>1, <2>2, <2>3
<1>6. CASE n = None
  <2>1. Missed(w) BY <1>2, <1>6 DEF Missed
  <2>2. Reserved(o, z) /\ Clear(o, z) BY <1>2, <2>1 DEF SpaceInv, SpaceAt
  <2>3. o + z <= 2 * Half BY <1>3, <1>5, <2>2
  <2>4. QED BY <1>2, <1>3, <2>2, <2>3 DEF Clear
<1>7. CASE n # None
  <2>1. PICK t \in Slots : Reach(t, k) /\ Holds(t, k) /\ entry[t].off = o /\ entry[t].len = n
    BY <1>2, <1>7 DEF ChainInv, ChainAt, Found, Spot
  <2>2. n \in Nat /\ ~Free(t) BY <1>1, <2>1, EntryIs DEF Holds
  <2>3. /\ z <= Cap(n) /\ Cap(z) <= Cap(n)
        /\ Cap(z) \in Nat /\ Cap(n) \in Nat
    <3>1. Cap(z) \in Nat /\ Cap(n) \in Nat BY <1>3, <2>2, CapIs
    <3>2. CASE z = n BY <1>3, <3>1, <3>2
    <3>3. CASE z # n
      <4>1. z <= SmallLen /\ n <= SmallLen /\ (Bitmap \/ z <= n)
        BY <1>2, <1>7, <3>3, ResizedSmall DEF Resized
      <4>2. ~(z > SmallLen) /\ ~(n > SmallLen) BY <1>3, <1>4, <2>2, <4>1
      <4>3. CASE Bitmap BY <3>1, <4>1, <4>2, <4>3 DEF Cap
      <4>4. CASE ~Bitmap BY <3>1, <4>1, <4>4 DEF Cap
      <4>5. QED BY <4>3, <4>4
    <3>4. QED BY <3>1, <3>2, <3>3
  <2>4. Reserved(o, n) BY <2>1, <2>2 DEF SpaceInv
  <2>5. o + z <= 2 * Half BY <1>5, <2>3, <2>4
  <2>6. ASSUME NEW s \in Slots, ~Free(s), ~Holds(s, k)
        PROVE  Apart(o, z, entry[s].off, entry[s].len)
    <3>1. s # t BY <2>1, <2>6
    <3>2. Apart(o, n, entry[s].off, entry[s].len) BY <2>1, <2>2, <2>6, <3>1 DEF SpaceInv
    <3>3. entry[s].off \in Nat BY <2>6 DEF SpaceInv, Reserved
    <3>4. Cap(entry[s].len) \in Nat BY <2>6, CapIs DEF SpaceInv, Reserved
    <3>5. QED BY <2>3, <3>2, <3>3, <3>4 DEF Apart
  <2>7. QED BY <1>2, <1>3, <2>5, <2>6
<1>8. QED BY <1>6, <1>7

LEMMA UnitIn ==
  ASSUME NEW o \in Nat, NEW n \in Nat, NEW y \in Nat, o + n <= y, NEW i \in 1 .. n
  PROVE  /\ o + i - 1 \in 0 .. y - 1 /\ o + i - 1 \in o .. o + n - 1
         /\ (o + i - 1) - o + 1 = i
<1>1. i \in Int /\ 1 <= i /\ i <= n OBVIOUS
<1>2. QED BY <1>1

LEMMA UnitNotIn ==
  ASSUME NEW o \in Nat, NEW n \in Nat, NEW q \in Nat, NEW m \in Nat,
         o + n <= q \/ q + m <= o, NEW i \in 1 .. m
  PROVE  q + i - 1 \notin o .. o + n - 1
<1>1. i \in Int /\ 1 <= i /\ i <= m OBVIOUS
<1>2. QED BY <1>1

\* What a copy leaves in storage: the new value, and all the others.
LEMMA Copied ==
  ASSUME Alone, Fits, IInv, ChainInv, SpaceInv, ValueInv, NEW w \in Workers, Copy(w),
         NEW o, NEW v, o = op[w].off, v = op[w].cmd.value
  PROVE  /\ Stands(o, v)'
         /\ memory' = [u \in Units |-> memory'[u]]
         /\ \A s \in Slots, k \in Keys, x \in Payloads :
              Holds(s, k) /\ k # Key(w) /\ Right(s, k) /\ data[k] = x =>
                \A i \in 1 .. Len(x) : memory'[entry[s].off + i - 1] = x[i]
<1>1. op[w].pc = "copy" /\ Wrote(w) /\ entry' = entry BY CopyDoes
<1>2. /\ o \in Nat /\ Size(w) \in Nat \ {0} /\ o + Size(w) <= 2 * Half
      /\ \A s \in Slots : ~Free(s) /\ ~Holds(s, Key(w)) =>
           Apart(o, Size(w), entry[s].off, entry[s].len)
  BY <1>1, CopyArea
<1> PICK z \in Nat \ {0} : z = Size(w) BY <1>2
<1>3. /\ z = Size(w) /\ z = Len(v) /\ 2 * Half \in Nat /\ o \in Nat
      /\ o + z <= 2 * Half
  BY <1>2, KvAssumption DEF Size
<1>4. memory' = [u \in 0 .. 2 * Half - 1 |->
                   IF u \in o .. o + z - 1 THEN v[u - o + 1] ELSE memory[u]]
  BY <1>1, <1>3 DEF Wrote, Written, Units
<1>5. Stands(o, v)'
  <2>1. ASSUME NEW i \in 1 .. z PROVE memory'[o + i - 1] = v[i]
    <3>1. /\ o + i - 1 \in 0 .. 2 * Half - 1 /\ o + i - 1 \in o .. o + z - 1
          /\ (o + i - 1) - o + 1 = i
      BY <1>3, UnitIn
    <3>2. QED BY <1>4, <3>1
  <2>2. QED BY <1>3, <2>1 DEF Stands
<1>6. memory' = [u \in Units |-> memory'[u]] BY <1>4 DEF Units
<1>7. ASSUME NEW s \in Slots, NEW k \in Keys, NEW x \in Payloads,
             Holds(s, k), k # Key(w), Right(s, k), data[k] = x
      PROVE  \A i \in 1 .. Len(x) : memory'[entry[s].off + i - 1] = x[i]
  <2> PICK q : q = entry[s].off OBVIOUS
  <2>1. q = entry[s].off OBVIOUS
  <2>2. /\ \A i \in 1 .. Len(x) : memory[q + i - 1] = x[i]
        /\ entry[s].len = Len(x) /\ Len(x) \in Nat
    BY <1>7, <2>1, KvAssumption DEF Right, Stands
  <2>3. /\ ~Free(s) /\ ~Holds(s, Key(w)) BY <1>7 DEF Holds
  <2>4. Apart(o, z, q, Len(x)) BY <1>2, <1>3, <2>1, <2>2, <2>3
  <2>5. q \in Nat /\ q + Len(x) <= 2 * Half
    <3>1. Reserved(q, Len(x)) BY <2>1, <2>2, <2>3 DEF SpaceInv
    <3>2. Types /\ AllocInv BY DEF IInv, SpaceInv
    <3>3. Top(Len(x)) \in Nat /\ Top(Len(x)) <= 2 * Half BY <2>2, <3>2, TopIn DEF Types
    <3>4. Cap(Len(x)) \in Nat BY <2>2, CapIs
    <3>5. QED BY <1>3, <2>2, <3>1, <3>3, <3>4 DEF Reserved
  <2>6. Cap(z) \in Nat /\ Cap(Len(x)) \in Nat /\ z <= Cap(z) /\ Len(x) <= Cap(Len(x))
    <3>1. Storing(w) BY CopyDoes
    <3>2. v \in Payloads BY <1>1, <3>1, Working
    <3>3. QED BY <1>3, <2>2, <3>2, CapIs, StoredFits
  <2>7. o + z <= q \/ q + Len(x) <= o BY <1>2, <2>2, <2>4, <2>5, <2>6 DEF Apart
  <2>8. ASSUME NEW i \in 1 .. Len(x) PROVE memory'[q + i - 1] = x[i]
    <3>1. q + i - 1 \in 0 .. 2 * Half - 1 BY <1>3, <2>2, <2>5, UnitIn
    <3>2. q + i - 1 \notin o .. o + z - 1 BY <1>3, <2>2, <2>5, <2>7, UnitNotIn
    <3>3. memory'[q + i - 1] = memory[q + i - 1] BY <1>4, <3>1, <3>2
    <3>4. QED BY <2>2, <3>3
  <2>9. QED BY <2>1, <2>8
<1>8. QED BY <1>5, <1>6, <1>7

\* What is right of a value in the next state, said of the next state.
LEMMA RightMade ==
  ASSUME NEW s, NEW k, NEW x, data'[k] = x, x # NoValue, entry'[s].len = Len(x),
         \A i \in 1 .. Len(x) : memory'[entry'[s].off + i - 1] = x[i]
  PROVE  Right(s, k)'
<1>1. \A i \in 1 .. Len(data'[k]) : memory'[entry'[s].off + i - 1] = data'[k][i] OBVIOUS
<1>2. Stands(entry[s].off, data[k])' BY <1>1 DEF Stands
<1>3. QED BY <1>2 DEF Right

LEMMA NotNoValue == ASSUME NEW x \in Payloads PROVE x # NoValue
BY KvAssumption

\* Of the data a command stores.
LEMMA StoredIs ==
  ASSUME IInv, ValueInv, NEW w \in Workers, op[w].pc # "idle", Storing(w), Stored(w)
  PROVE  /\ data' \in [Keys -> Payloads \cup {NoValue}]
         /\ \A k \in Keys : k # Key(w) => data'[k] = data[k]
         /\ \A k \in Keys : k = Key(w) => data'[k] = op[w].cmd.value
<1>1. Key(w) \in Keys /\ op[w].cmd.value \in Payloads BY Working
<1>2. data' = [data EXCEPT ![Key(w)] = op[w].cmd.value] BY DEF Stored, Key
<1>3. QED BY <1>1, <1>2 DEF ValueInv

LEMMA ValueCopy ==
  ASSUME Alone, Fits, IInv, ChainInv, SpaceInv, ValueInv, NEW w \in Workers, Copy(w)
  PROVE  ValueInv'
<1>1. /\ op[w].pc = "copy" /\ op[w].pc # "idle" /\ entry' = entry /\ next' = next
      /\ Storing(w)
  BY CopyDoes
<1>2. Key(w) \in Keys /\ Types /\ op[w].cmd.value \in Payloads BY <1>1, Working
<1> PICK k \in Keys : k = Key(w) BY <1>2
<1> PICK d, o, n : d = op[w].cmd /\ o = op[w].off /\ n = op[w].len OBVIOUS
<1> PICK v \in Payloads : v = d.value BY <1>2
<1>3. k = Key(w) /\ d = op[w].cmd /\ o = op[w].off /\ n = op[w].len /\ v = op[w].cmd.value
  BY <1>2
<1>4. /\ Stands(o, v)' /\ memory' = [u \in Units |-> memory'[u]]
      /\ \A s \in Slots, j \in Keys, x \in Payloads :
           Holds(s, j) /\ j # k /\ Right(s, j) /\ data[j] = x =>
             \A i \in 1 .. Len(x) : memory'[entry[s].off + i - 1] = x[i]
  BY <1>3, Copied
<1>5. /\ \A s \in Slots, j \in Keys : Holds(s, j)' <=> Holds(s, j)
      /\ \A s \in Slots, j \in Keys : Reach(s, j)' <=> Reach(s, j)
  BY <1>1, TableStays
<1>6. ASSUME NEW j \in Keys, NEW s \in Slots, Reach(s, j), Holds(s, j) PROVE Right(s, j)
  BY <1>1, <1>6, ChangingIs DEF ValueInv
<1>7. SUFFICES /\ data' \in [Keys -> Payloads \cup {NoValue}]
               /\ \A j \in Keys : j # k => data'[j] = data[j]
               /\ \A s \in Slots : Reach(s, k) /\ Holds(s, k) /\ ~Changing(k)' => Right(s, k)'
               /\ ValueAt(w)'
  <2>1. ASSUME NEW j \in Keys, NEW s \in Slots, Reach(s, j)', Holds(s, j)', ~Changing(j)'
        PROVE  Right(s, j)'
    <3>1. Reach(s, j) /\ Holds(s, j) BY <1>5, <2>1
    <3>2. CASE j = k BY <1>7, <2>1, <3>1, <3>2
    <3>3. CASE j # k
      <4>1. Right(s, j) BY <1>6, <3>1
      <4>2. PICK x \in Payloads : x = data[j] BY <4>1 DEF Right, ValueInv
      <4>3. \A i \in 1 .. Len(x) : memory'[entry[s].off + i - 1] = x[i]
        BY <1>4, <3>1, <3>3, <4>1, <4>2
      <4>4. data'[j] = x /\ x # NoValue /\ entry'[s].len = Len(x) /\ entry'[s].off = entry[s].off
        BY <1>1, <1>7, <3>3, <4>1, <4>2 DEF Right
      <4>5. QED BY <4>3, <4>4, RightMade
    <3>4. QED BY <3>2, <3>3
  <2>2. QED BY <1>4, <1>7, <2>1, ValueMade
<1>8. CASE /\ n = None /\ UNCHANGED data
           /\ On(w, IF Free(Hash[Key(w)]) THEN "fill" ELSE "tail", Hash[Key(w)],
                 op[w].prev, op[w].off, op[w].len)
  <2>1. ~Finds(k) BY <1>1, <1>3, <1>8 DEF ChainInv, ChainAt, Missed
  <2>2. \A s \in Slots : ~(Reach(s, k) /\ Holds(s, k)) BY <1>2, <2>1, FoundAt
  <2>3. PICK c \in {"fill", "tail"} : \E s, p : On(w, c, s, p, o, n)
    <3>1. PICK c : c = IF Free(Hash[Key(w)]) THEN "fill" ELSE "tail" OBVIOUS
    <3>2. QED BY <1>3, <1>8, <3>1
  <2>4. PICK s, p : On(w, c, s, p, o, n) BY <2>3
  <2>5. Stands(o, d.value)'
    <3>1. v = d.value BY <1>3
    <3>2. QED BY <1>4, <3>1
  <2>6. ValueAt(w)' BY <1>3, <2>4, <2>5, ValueAtMade
  <2>7. QED BY <1>8, <2>2, <2>6 DEF ValueInv
<1>9. CASE /\ n # None /\ UNCHANGED data
           /\ On(w, "update", Hash[Key(w)], op[w].prev, op[w].off, op[w].len)
  <2>1. PICK s, p : On(w, "update", s, p, o, n) BY <1>3, <1>9
  <2>2. Stands(o, d.value)'
    <3>1. v = d.value BY <1>3
    <3>2. QED BY <1>4, <3>1
  <2>3. ValueAt(w)' BY <1>3, <2>1, <2>2, ValueAtMade
  <2>4. op'[w].pc = "update" /\ op'[w].cmd.key = k BY <1>3, <2>1 DEF On, Key
  <2>5. Changing(k)' BY <2>4, ChangingIs
  <2>6. QED BY <1>9, <2>3, <2>5 DEF ValueInv
<1>10. CASE n # None /\ ~Resized(w) /\ End(w, <<>>) /\ Stored(w)
  <2>1. /\ data' \in [Keys -> Payloads \cup {NoValue}]
        /\ \A j \in Keys : j # k => data'[j] = data[j]
        /\ data'[k] = v
    BY <1>1, <1>3, <1>10, StoredIs
  <2>2. Size(w) = n
    <3>1. SUFFICES ASSUME Size(w) # n PROVE FALSE OBVIOUS
    <3>2. Resized(w) BY <1>1, <1>3, <1>10, <3>1, ResizedSmall
    <3>3. QED BY <1>10, <3>2
  <2>3. Len(v) = n BY <1>3, <2>2 DEF Size
  <2>4. PICK t \in Slots : Reach(t, k) /\ Holds(t, k) /\ entry[t].off = o /\ entry[t].len = n
    BY <1>1, <1>3, <1>10 DEF ChainInv, ChainAt, Found, Spot
  <2>5. ASSUME NEW s \in Slots, Reach(s, k), Holds(s, k) PROVE Right(s, k)'
    <3>1. s = t BY <2>4, <2>5 DEF ChainInv, Sole
    <3>2. entry'[s].off = o /\ entry'[s].len = Len(v) BY <1>1, <2>3, <2>4, <3>1
    <3>3. \A i \in 1 .. Len(v) : memory'[o + i - 1] = v[i] BY <1>4 DEF Stands
    <3>4. QED BY <2>1, <3>2, <3>3, RightMade, NotNoValue
  <2>6. ValueAt(w)' BY <1>10, EndIs, ValueAtIdle
  <2>7. QED BY <2>1, <2>5, <2>6
<1>11. QED BY <1>3, <1>8, <1>9, <1>10, CopyDoes

LEMMA ValueUpdate ==
  ASSUME Alone, IInv, ChainInv, ValueInv, NEW w \in Workers, Update(w)
  PROVE  ValueInv'
<1>1. /\ op[w].pc = "update" /\ op[w].pc # "idle" /\ At(w) \in Slots /\ Key(w) \in Keys /\ Storing(w)
      /\ Reach(At(w), Key(w)) /\ Holds(At(w), Key(w)) /\ entry[At(w)].off = op[w].off
  BY UpdateAt
<1>2. memory' = memory /\ End(w, <<>>) /\ Stored(w) BY DEF Update, store
<1>3. op[w].cmd.value \in Payloads BY <1>1, Working
<1> PICK k \in Keys, a \in Slots : k = Key(w) /\ a = At(w) BY <1>1
<1> PICK v \in Payloads : v = op[w].cmd.value BY <1>3
<1>4. k = Key(w) /\ a = At(w) /\ v = op[w].cmd.value OBVIOUS
<1>5. /\ \A s \in Slots, j \in Keys : Holds(s, j)' <=> Holds(s, j)
      /\ \A s \in Slots, j \in Keys : Reach(s, j)' <=> Reach(s, j)
      /\ \A s \in Slots \ {a} : entry'[s] = entry[s]
      /\ entry'[a].len = Len(v) /\ entry'[a].off = entry[a].off
  BY <1>4, UpdatedTable DEF Size
<1>6. /\ data' \in [Keys -> Payloads \cup {NoValue}]
      /\ \A j \in Keys : j # k => data'[j] = data[j]
      /\ data'[k] = v
  BY <1>1, <1>2, <1>4, StoredIs
<1>7. Stands(op[w].off, v) BY <1>1, <1>4 DEF ValueInv, ValueAt
<1>8. ASSUME NEW j \in Keys, NEW s \in Slots, Reach(s, j)', Holds(s, j)' PROVE Right(s, j)'
  <2>1. Reach(s, j) /\ Holds(s, j) BY <1>5, <1>8
  <2>2. CASE j = k
    <3>1. s = a BY <1>1, <1>4, <2>1, <2>2 DEF ChainInv, Sole
    <3>2. \A i \in 1 .. Len(v) : memory'[entry'[a].off + i - 1] = v[i]
      BY <1>1, <1>2, <1>4, <1>5, <1>7 DEF Stands
    <3>3. QED BY <1>5, <1>6, <2>2, <3>1, <3>2, RightMade, NotNoValue
  <2>3. CASE j # k
    <3>1. s # a BY <1>1, <1>4, <2>1, <2>3 DEF Holds
    <3>2. ~Changing(j) BY <1>4, <2>3, ChangingIs
    <3>3. Right(s, j) BY <2>1, <3>2 DEF ValueInv
    <3>4. QED BY <1>2, <1>5, <1>6, <2>3, <3>1, <3>3, RightStays
  <2>4. QED BY <2>2, <2>3
<1>9. ValueAt(w)' BY <1>2, EndIs, ValueAtIdle
<1>10. memory' = [u \in Units |-> memory'[u]] BY <1>2 DEF ValueInv
<1>11. QED BY <1>6, <1>8, <1>9, <1>10, ValueMade

\* The slot that is erased is the only one that is found with its key.
LEMMA ErasedKey ==
  ASSUME IInv, ChainInv, NEW w \in Workers, Erase(w), NEW s \in Slots, NEW k \in Keys,
         Reach(s, k)', Holds(s, k)'
  PROVE  Reach(s, k) /\ Holds(s, k) /\ s # At(w) /\ k # Key(w)
<1>1. /\ op[w].pc = "delete" /\ op[w].pc # "idle" /\ Holds(At(w), Key(w))
      /\ entry' = [entry EXCEPT ![At(w)] = Empty] /\ next' = [next EXCEPT ![At(w)] = None]
  BY DEF Erase
<1>2. At(w) \in Slots /\ Key(w) \in Keys /\ Types BY <1>1, Working
<1> PICK a \in Slots : a = At(w) BY <1>2
<1>3. a = At(w) OBVIOUS
<1>4. Reach(s, k) /\ Holds(s, k) /\ s # a BY <1>1, <1>2, <1>3, ErasedTable
<1>5. Reach(a, Key(w)) BY <1>1, <1>3 DEF ChainInv, ChainAt, Sought
<1>6. k # Key(w) BY <1>1, <1>2, <1>3, <1>4, <1>5 DEF ChainInv, Sole
<1>7. QED BY <1>3, <1>4, <1>6

LEMMA ValueErase ==
  ASSUME Alone, IInv, ChainInv, ValueInv, NEW w \in Workers, Erase(w)
  PROVE  ValueInv'
<1>1. /\ op[w].pc = "delete" /\ op[w].pc # "idle" /\ memory' = memory /\ End(w, <<>>)
      /\ entry' = [entry EXCEPT ![At(w)] = Empty]
      /\ data' = [data EXCEPT ![Key(w)] = NoValue]
  BY DEF Erase, store
<1>2. At(w) \in Slots /\ Key(w) \in Keys /\ Types BY <1>1, Working
<1>3. /\ data' \in [Keys -> Payloads \cup {NoValue}]
      /\ \A j \in Keys : j # Key(w) => data'[j] = data[j]
      /\ memory' = [u \in Units |-> memory'[u]]
  BY <1>1 DEF ValueInv
<1>4. \A s \in Slots : s # At(w) => entry'[s] = entry[s] BY <1>1, <1>2 DEF Types
<1>5. ASSUME NEW j \in Keys, NEW s \in Slots, Reach(s, j)', Holds(s, j)' PROVE Right(s, j)'
  <2>1. Reach(s, j) /\ Holds(s, j) /\ s # At(w) /\ j # Key(w) BY <1>5, ErasedKey
  <2>2. ~Changing(j) BY <1>1, ChangingIs
  <2>3. Right(s, j) BY <2>1, <2>2 DEF ValueInv
  <2>4. QED BY <1>1, <1>3, <1>4, <2>1, <2>3, RightStays
<1>6. ValueAt(w)' BY <1>1, EndIs, ValueAtIdle
<1>7. QED BY <1>3, <1>5, <1>6, ValueMade

\* What a step that fills a slot leaves of the table.
LEMMA FillLeaves ==
  ASSUME IInv, KeptInv, ChainInv, NEW w \in Workers, Fill(w)
  PROVE  /\ At(w) \in Slots /\ Key(w) \in Keys /\ Storing(w) /\ op[w].off \in Nat
         /\ \A s \in Slots : s = At(w) => entry'[s] = NewEntry(w)
         /\ \A s \in Slots : s # At(w) => entry'[s] = entry[s]
         /\ ~Finds(Key(w))
         /\ \A s \in Slots, k \in Keys : Reach(s, k)' /\ Holds(s, k)' =>
              IF s = At(w) THEN k = Key(w)
              ELSE k # Key(w) /\ Reach(s, k) /\ Holds(s, k)
         /\ \A k \in Keys : Finds(k) => Finds(k)'
         /\ \A k \in Keys : k # Key(w) /\ Finds(k)' => Finds(k)
<1>1. /\ op[w].pc = "fill" /\ op[w].pc # "idle" /\ next' = next
      /\ entry' = [entry EXCEPT ![At(w)] = NewEntry(w)]
  BY FillDoes
<1>2. /\ At(w) \in Slots /\ Key(w) \in Keys /\ Types /\ Storing(w) /\ op[w].off \in Nat
  BY <1>1, Working DEF PlacedAt, Storing, Kind
<1> PICK k \in Keys, a \in Slots : k = Key(w) /\ a = At(w) BY <1>2
<1> PICK e : e = NewEntry(w) OBVIOUS
<1>3. k = Key(w) /\ a = At(w) /\ e = NewEntry(w) OBVIOUS
<1>4. Free(a) /\ next[a] = None /\ ~Finds(k) BY <1>1, <1>3, FillFrom
<1>5. e.off # None /\ e.key = k /\ entry' = [entry EXCEPT ![a] = e]
  BY <1>1, <1>2, <1>3 DEF NewEntry, None
<1>6. /\ \A j \in Keys : Holds(a, j)' <=> j = k
      /\ \A s \in Slots \ {a}, j \in Keys : Holds(s, j)' <=> Holds(s, j)
      /\ \A s \in Slots, j \in Keys : Reach(s, j)' <=> Reach(s, j)
      /\ \A j \in Keys : Finds(j) => Finds(j)'
      /\ \A j \in Keys : k # j /\ Finds(j)' => Finds(j)
  <2>1. Types /\ Free(a) /\ next[a] = None /\ next' = next BY <1>1, <1>2, <1>4
  <2>2. /\ \A j \in Keys : Holds(a, j)' <=> e.key = j
        /\ \A s \in Slots \ {a}, j \in Keys : Holds(s, j)' <=> Holds(s, j)
        /\ \A s \in Slots, j \in Keys : Reach(s, j)' <=> Reach(s, j)
        /\ \A j \in Keys : Finds(j) => Finds(j)'
        /\ \A j \in Keys : e.key # j /\ Finds(j)' => Finds(j)
    BY <2>1, <1>5, FilledTable
  <2>3. QED BY <2>2, <1>5
<1>7. ASSUME NEW s \in Slots, NEW j \in Keys, Reach(s, j)', Holds(s, j)'
      PROVE  IF s = a THEN j = k ELSE j # k /\ Reach(s, j) /\ Holds(s, j)
  <2>1. CASE s = a BY <1>6, <1>7, <2>1
  <2>2. CASE s # a
    <3>1. Reach(s, j) /\ Holds(s, j) BY <1>6, <1>7, <2>2
    <3>2. j # k BY <1>2, <1>4, <3>1, FoundAt
    <3>3. QED BY <2>2, <3>1, <3>2
  <2>3. QED BY <2>1, <2>2
<1>8. \A s \in Slots : (s = a => entry'[s] = e) /\ (s # a => entry'[s] = entry[s])
  BY <1>2, <1>5 DEF Types
<1>9. QED BY <1>2, <1>3, <1>4, <1>6, <1>7, <1>8

LEMMA ValueFill ==
  ASSUME Alone, IInv, KeptInv, ChainInv, ValueInv, NEW w \in Workers, Fill(w)
  PROVE  ValueInv'
<1>1. /\ op[w].pc = "fill" /\ op[w].pc # "idle" /\ memory' = memory BY FillDoes
<1>2. /\ At(w) \in Slots /\ Key(w) \in Keys /\ Storing(w)
      /\ \A s \in Slots : s = At(w) => entry'[s] = NewEntry(w)
      /\ \A s \in Slots : s # At(w) => entry'[s] = entry[s]
      /\ \A s \in Slots, k \in Keys : Reach(s, k)' /\ Holds(s, k)' =>
           IF s = At(w) THEN k = Key(w)
           ELSE k # Key(w) /\ Reach(s, k) /\ Holds(s, k)
  BY FillLeaves
<1>3. op[w].cmd.value \in Payloads BY <1>1, <1>2, Working
<1> PICK k \in Keys, a \in Slots : k = Key(w) /\ a = At(w) BY <1>2
<1> PICK d, o, n : d = op[w].cmd /\ o = op[w].off /\ n = op[w].len OBVIOUS
<1> PICK v \in Payloads : v = d.value BY <1>3
<1>4. /\ k = Key(w) /\ a = At(w) /\ v = op[w].cmd.value /\ v = d.value
      /\ d = op[w].cmd /\ o = op[w].off /\ n = op[w].len
  OBVIOUS
<1>5. entry'[a].off = o /\ entry'[a].len = Len(v)
      /\ entry'[a] = [off |-> o, key |-> d.key, len |-> Len(d.value)]
  BY <1>2, <1>4 DEF NewEntry, Size, Key
<1>6. Stands(o, v) BY <1>1, <1>4 DEF ValueInv, ValueAt
<1>7. ASSUME NEW j \in Keys, NEW s \in Slots, Reach(s, j)', Holds(s, j)', j # k, data'[j] = data[j]
      PROVE  Right(s, j)'
  <2>1. s # a /\ Reach(s, j) /\ Holds(s, j) BY <1>2, <1>4, <1>7
  <2>2. ~Changing(j) BY <1>1, ChangingIs
  <2>3. Right(s, j) BY <2>1, <2>2 DEF ValueInv
  <2>4. QED BY <1>1, <1>2, <1>4, <1>7, <2>1, <2>3, RightStays
<1>8. CASE End(w, <<>>) /\ Stored(w)
  <2>1. /\ data' \in [Keys -> Payloads \cup {NoValue}]
        /\ \A j \in Keys : j # k => data'[j] = data[j]
        /\ data'[k] = v
    BY <1>1, <1>2, <1>4, <1>8, StoredIs
  <2>2. ASSUME NEW s \in Slots, Reach(s, k)', Holds(s, k)' PROVE Right(s, k)'
    <3>1. s = a BY <1>2, <1>4, <2>2
    <3>2. \A i \in 1 .. Len(v) : memory'[entry'[a].off + i - 1] = v[i]
      BY <1>1, <1>5, <1>6 DEF Stands
    <3>3. QED BY <1>5, <2>1, <3>1, <3>2, RightMade, NotNoValue
  <2>3. ValueAt(w)' BY <1>8, EndIs, ValueAtIdle
  <2>4. memory' = [u \in Units |-> memory'[u]] BY <1>1 DEF ValueInv
  <2>5. QED BY <1>7, <2>1, <2>2, <2>3, <2>4, ValueMade
<1>9. CASE UNCHANGED data /\ On(w, "link", At(w), op[w].prev, op[w].off, op[w].len)
  <2>1. PICK p : p = op[w].prev OBVIOUS
  <2>2. On(w, "link", a, p, o, n) BY <1>4, <1>9, <2>1
  <2>3. Stands(o, d.value)' BY <1>1, <1>4, <1>6 DEF Stands
  <2>4. ValueAt(w)' BY <1>4, <1>5, <2>2, <2>3, ValueAtMade
  <2>5. op'[w].pc = "link" /\ op'[w].cmd.key = k BY <1>4, <2>2 DEF On, Key
  <2>6. Changing(k)' BY <2>5, ChangingIs
  <2>7. memory' = [u \in Units |-> memory'[u]] /\ data' \in [Keys -> Payloads \cup {NoValue}]
    BY <1>1, <1>9 DEF ValueInv
  <2>8. QED BY <1>7, <1>9, <2>4, <2>6, <2>7, ValueMade
<1>10. QED BY <1>8, <1>9, FillDoes

LEMMA ValueLink ==
  ASSUME Alone, IInv, ChainInv, ValueInv, NEW w \in Workers, Link(w)
  PROVE  ValueInv'
<1>1. /\ op[w].pc = "link" /\ op[w].pc # "idle" /\ Key(w) \in Keys /\ At(w) \in Slots
      /\ memory' = memory /\ entry' = entry /\ End(w, <<>>) /\ Stored(w)
      /\ Filled(At(w), op[w].prev, Key(w))
      /\ \A s \in Slots, k \in Keys : Holds(s, k)' <=> Holds(s, k)
      /\ \A s \in Slots, k \in Keys : Reach(s, k)' => s = At(w) \/ Reach(s, k)
  BY LinkDoes
<1>2. Storing(w) /\ op[w].cmd.value \in Payloads BY <1>1, Working DEF PlacedAt, Storing, Kind
<1> PICK k \in Keys, a \in Slots : k = Key(w) /\ a = At(w) BY <1>1
<1> PICK v \in Payloads : v = op[w].cmd.value BY <1>2
<1>3. k = Key(w) /\ a = At(w) /\ v = op[w].cmd.value OBVIOUS
<1>4. Holds(a, k) /\ \A s \in Slots : Reach(s, k) /\ Holds(s, k) => s = a
  BY <1>1, <1>3 DEF Filled
<1>5. entry[a].off = op[w].off /\ entry[a].len = Len(v) /\ Stands(op[w].off, v)
  <2>1. entry[a] = NewEntry(w) /\ Stands(op[w].off, v)
    BY <1>1, <1>3 DEF ValueInv, ValueAt
  <2>2. NewEntry(w).off = op[w].off /\ NewEntry(w).len = Len(v) BY <1>3 DEF NewEntry, Size
  <2>3. QED BY <2>1, <2>2
<1>6. /\ data' \in [Keys -> Payloads \cup {NoValue}]
      /\ \A j \in Keys : j # k => data'[j] = data[j]
      /\ data'[k] = v
  BY <1>1, <1>2, <1>3, StoredIs
<1>7. ASSUME NEW j \in Keys, NEW s \in Slots, Reach(s, j)', Holds(s, j)' PROVE Right(s, j)'
  <2>1. Holds(s, j) /\ (s = a \/ Reach(s, j)) BY <1>1, <1>3, <1>7
  <2>2. CASE j = k
    <3>1. s = a BY <1>4, <2>1, <2>2
    <3>2. \A i \in 1 .. Len(v) : memory'[entry'[a].off + i - 1] = v[i] BY <1>1, <1>5 DEF Stands
    <3>3. entry'[s].len = Len(v) BY <1>1, <1>5, <3>1
    <3>4. QED BY <1>6, <2>2, <3>1, <3>2, <3>3, RightMade, NotNoValue
  <2>3. CASE j # k
    <3>1. s # a BY <1>4, <2>1, <2>3 DEF Holds
    <3>2. ~Changing(j) BY <1>3, <2>3, ChangingIs
    <3>3. Right(s, j) BY <2>1, <3>1, <3>2 DEF ValueInv
    <3>4. QED BY <1>1, <1>6, <2>3, <3>3, RightStays
  <2>4. QED BY <2>2, <2>3
<1>8. ValueAt(w)' BY <1>1, EndIs, ValueAtIdle
<1>9. memory' = [u \in Units |-> memory'[u]] BY <1>1 DEF ValueInv
<1>10. QED BY <1>6, <1>7, <1>8, <1>9, ValueMade

LEMMA ValueBegin ==
  ASSUME Alone, KeepsSize, IInv, ValueInv, NEW w \in Workers, NEW c \in Commands, Begin(w, c)
  PROVE  ValueInv'
<1>1. /\ entry' = entry /\ next' = next /\ memory' = memory /\ data' = data /\ Idle(w)
      /\ c.kind \in {"store", "batch"} => SameRoom(c)
      /\ op' = [op EXCEPT ![w] = [pc |-> "get", cmd |-> c, slot |-> Hash[c.key],
                                  prev |-> None, off |-> None, len |-> None]]
  BY DEF Begin, store
<1>2. op'[w].pc = "get" /\ op'[w].cmd = c BY <1>1 DEF IInv, Types
<1>3. /\ \A s \in Slots, j \in Keys : Holds(s, j)' <=> Holds(s, j)
      /\ \A s \in Slots, j \in Keys : Reach(s, j)' <=> Reach(s, j)
  BY <1>1, TableStays
<1>4. ASSUME NEW j \in Keys, NEW s \in Slots, Reach(s, j)', Holds(s, j)' PROVE Right(s, j)'
  <2>1. ~Changing(j) BY <1>1, ChangingIs DEF Idle
  <2>2. Right(s, j) BY <1>3, <1>4, <2>1 DEF ValueInv
  <2>3. QED BY <1>1, <2>2, RightStays
<1>5. c.kind \in {"store", "batch"} => SameRoom(c)' BY <1>1, KnownStays
<1>6. ValueAt(w)'
  <2>1. Storing(w)' <=> c.kind \in {"store", "batch"} BY <1>2 DEF Storing, Kind
  <2>2. Storing(w)' => SameRoom(op[w].cmd)' BY <1>2, <1>5, <2>1
  <2>3. QED BY <1>2, <2>2 DEF ValueAt
<1>7. /\ data' \in [Keys -> Payloads \cup {NoValue}] /\ memory' = [u \in Units |-> memory'[u]]
  BY <1>1 DEF ValueInv
<1>8. QED BY <1>4, <1>6, <1>7, ValueMade

LEMMA ValueKeeps ==
  ASSUME Alone, Fits, KeepsSize, IInv, KeptInv, ChainInv, SpaceInv, ValueInv, [Next]_vars
  PROVE  ValueInv'
<1>1. CASE UNCHANGED vars
  <2>1. /\ entry' = entry /\ next' = next /\ memory' = memory /\ data' = data /\ op' = op
    BY <1>1 DEF vars, store
  <2>2. /\ \A s \in Slots, j \in Keys : Holds(s, j)' <=> Holds(s, j)
        /\ \A s \in Slots, j \in Keys : Reach(s, j)' <=> Reach(s, j)
    BY <2>1, TableStays
  <2>3. \A j : Changing(j)' <=> Changing(j) BY <2>1 DEF Changing, Key
  <2>4. ASSUME NEW j \in Keys, NEW s \in Slots, Reach(s, j)', Holds(s, j)', ~Changing(j)'
        PROVE  Right(s, j)'
    <3>1. Right(s, j) BY <2>2, <2>3, <2>4 DEF ValueInv
    <3>2. QED BY <2>1, <3>1, RightStays
  <2>5. \A v \in Workers : ValueAt(v)'
    BY <2>1 DEF ValueInv, ValueAt, Storing, Kind, SameRoom, Stands, NewEntry, At, Key, Size
  <2>6. QED BY <2>1, <2>4, <2>5 DEF ValueInv
<1>2. ASSUME NEW w \in Workers, NEW c \in Commands, Begin(w, c) PROVE ValueInv'
  BY <1>2, ValueBegin
<1>3. ASSUME NEW w \in Workers, Step(w) PROVE ValueInv'
  BY <1>3, ValueMoves, ValueNotExist, ValueCopy, ValueUpdate, ValueErase, ValueFill, ValueLink
  DEF Step
<1>4. QED BY <1>1, <1>2, <1>3 DEF Next

----------------------------------------------------------------------------
(* The steps of the map *)

LEMMA LinkingIs ==
  ASSUME Alone, NEW w \in Workers, NEW k
  PROVE  /\ Linking(k) <=> op[w].pc = "link" /\ Key(w) = k
         /\ Linking(k)' <=> op'[w].pc = "link" /\ op'[w].cmd.key = k
BY DEF Alone, Linking, Key

LEMMA CommandIs == ASSUME NEW c \in Commands PROVE c # <<>>
<1>1. /\ \A d \in [kind : {"store", "batch"}, key : Keys, value : Payloads] :
           "kind" \in DOMAIN d
      /\ \A d \in [kind : {"retrieve"}, key : Keys, room : Buffers] : "kind" \in DOMAIN d
      /\ \A d \in [kind : {"exist"} \cup (IF Deletes THEN {"delete"} ELSE {}), key : Keys] :
           "kind" \in DOMAIN d
  OBVIOUS
<1>2. "kind" \in DOMAIN c BY <1>1 DEF Commands
<1>3. DOMAIN <<>> = {} OBVIOUS
<1>4. QED BY <1>2, <1>3

\* What is asked, while a worker that is alone is in a command, and when it
\* goes on in it, and ends it.
LEMMA AskedIs ==
  ASSUME Alone, IInv, NEW w \in Workers, op[w].pc # "idle"
  PROVE  /\ Asked[w] = op[w].cmd /\ Asked[w] # <<>>
         /\ op'[w].pc # "idle" /\ op'[w].cmd = op[w].cmd => Asked' = Asked
         /\ op'[w].pc = "idle" => Asked' = [Asked EXCEPT ![w] = <<>>] /\ Asked'[w] = <<>>
<1>1. Asked[w] = op[w].cmd BY DEF Asked, Idle
<1>2. op[w].cmd # <<>> BY Working, CommandIs
<1>3. \A v \in Workers : v = w BY DEF Alone
<1>4. ASSUME op'[w].pc # "idle", op'[w].cmd = op[w].cmd PROVE Asked' = Asked
  BY <1>3, <1>4 DEF Asked, Idle
<1>5. ASSUME op'[w].pc = "idle"
      PROVE  Asked' = [Asked EXCEPT ![w] = <<>>] /\ Asked'[w] = <<>>
  <2>1. Asked' = [v \in Workers |-> <<>>] BY <1>3, <1>5 DEF Asked, Idle
  <2>2. [Asked EXCEPT ![w] = <<>>] = [v \in Workers |-> <<>>] BY <1>3 DEF Asked
  <2>3. QED BY <2>1, <2>2
<1>6. QED BY <1>1, <1>2, <1>4, <1>5

\* A step within a command.
Stutters == UNCHANGED <<data, Lost, Asked, answer>>


LEMMA MoveStutters ==
  ASSUME Alone, IInv, KeptInv, ChainInv, NEW w \in Workers,
         \/ Walk(w) \/ Hit(w) \/ Allocate(w) \/ FindTail(w) \/ Probe(w)
         \/ (Copy(w) /\ op'[w].pc # "idle") \/ (Fill(w) /\ op'[w].pc # "idle")
  PROVE  Stutters
<1>1. op[w].pc # "idle" /\ op[w].pc # "link"
  BY DEF Walk, Hit, Allocate, FindTail, Probe, Copy, Fill
<1>2. CASE Walk(w) \/ Hit(w) \/ Allocate(w) \/ FindTail(w) \/ Probe(w)
           \/ (Copy(w) /\ op'[w].pc # "idle")
  <2>1. entry' = entry /\ next' = next
    BY <1>2 DEF Walk, Hit, Allocate, FindTail, Probe, Copy
  <2>2. /\ data' = data /\ answer' = answer /\ op'[w].cmd = op[w].cmd
        /\ op'[w].pc # "idle" /\ op'[w].pc # "link"
    <3>1. CASE Walk(w) BY <3>1, WalkDoes DEF On, Still
    <3>2. CASE Hit(w) BY <3>2, HitDoes DEF On, Still
    <3>3. CASE Allocate(w) BY <3>3, AllocateDoes DEF On
    <3>4. CASE FindTail(w) BY <3>4, FindTailDoes DEF On, Still
    <3>5. CASE Probe(w) BY <3>5, ProbeDoes DEF On, Still
    <3>6. CASE Copy(w) /\ op'[w].pc # "idle"
      <4>1. ~End(w, <<>>) BY <3>6, EndIs
      <4>2. PICK c : c = IF Free(Hash[Key(w)]) THEN "fill" ELSE "tail" OBVIOUS
      <4>3. c \in {"fill", "tail"} BY <4>2
      <4>4. QED BY <3>6, <4>1, <4>2, <4>3, CopyDoes DEF On
    <3>7. QED BY <1>2, <3>1, <3>2, <3>3, <3>4, <3>5, <3>6
  <2>3. \A k \in Keys : Finds(k)' <=> Finds(k) BY <2>1, TableStays
  <2>4. \A k \in Keys : ~Linking(k) /\ ~Linking(k)' BY <1>1, <2>2, LinkingIs
  <2>5. Lost' = Lost BY <2>2, <2>3, <2>4 DEF Lost
  <2>6. QED BY <1>1, <2>2, <2>5, AskedIs DEF Stutters
<1>3. CASE Fill(w) /\ op'[w].pc # "idle"
  <2>1. ~End(w, <<>>) BY <1>3, EndIs
  <2>2. /\ data' = data /\ answer' = answer
        /\ op'[w].pc = "link" /\ op'[w].cmd = op[w].cmd
    BY <1>3, <2>1, FillDoes DEF On
  <2>3. /\ ~Finds(Key(w))
        /\ \A k \in Keys : Finds(k) => Finds(k)'
        /\ \A k \in Keys : k # Key(w) /\ Finds(k)' => Finds(k)
    BY <1>3, FillLeaves
  <2>4. \A k \in Keys : ~Linking(k) /\ (Linking(k)' <=> Key(w) = k)
    BY <1>1, <2>2, LinkingIs DEF Key
  <2>5. \A k \in Keys : (~Finds(k)' \/ Linking(k)') <=> (~Finds(k) \/ Linking(k))
    BY <2>3, <2>4
  <2>6. Lost' = Lost BY <2>2, <2>5 DEF Lost
  <2>7. QED BY <1>1, <2>2, <2>6, AskedIs DEF Stutters
<1>4. QED BY <1>2, <1>3

LEMMA BeginAsks ==
  ASSUME Alone, IInv, NEW w \in Workers, NEW c \in Commands, Begin(w, c)
  PROVE  Map!Ask(w)
<1>1. /\ Idle(w) /\ entry' = entry /\ next' = next /\ data' = data /\ answer' = answer
      /\ op' = [op EXCEPT ![w] = [pc |-> "get", cmd |-> c, slot |-> Hash[c.key],
                                  prev |-> None, off |-> None, len |-> None]]
  BY DEF Begin
<1>2. op'[w].pc = "get" /\ op'[w].cmd = c BY <1>1 DEF IInv, Types
<1>3. \A v \in Workers : v = w BY DEF Alone
<1>4. Asked[w] = <<>> /\ Asked'[w] = c BY <1>1, <1>2 DEF Asked, Idle
<1>5. Asked' = [Asked EXCEPT ![w] = Asked'[w]]
  <2>1. Asked' = [v \in Workers |-> c] BY <1>2, <1>3 DEF Asked, Idle
  <2>2. [Asked EXCEPT ![w] = c] = [v \in Workers |-> c] BY <1>3 DEF Asked
  <2>3. QED BY <1>4, <2>1, <2>2
<1>6. \A k \in Keys : Finds(k)' <=> Finds(k) BY <1>1, TableStays
<1>7. \A k \in Keys : ~Linking(k) /\ ~Linking(k)' BY <1>1, <1>2, LinkingIs DEF Idle
<1>8. Lost' = Lost BY <1>1, <1>6, <1>7 DEF Lost
<1>9. c # <<>> BY CommandIs
<1>10. QED BY <1>1, <1>4, <1>5, <1>8, <1>9 DEF Map!Ask

\* The step that ends a command is an answer.
LEMMA Answers ==
  ASSUME Alone, IInv, NEW w \in Workers, op[w].pc # "idle", op'[w].pc = "idle",
         Map!Store(w) \/ Map!Retrieve(w) \/ Map!Exist(w) \/ Map!Delete(w)
  PROVE  Map!Answer(w)
BY AskedIs DEF Map!Answer

\* A key that is found, by a worker that is not about to change its place.
LEMMA FoundKey ==
  ASSUME Alone, IInv, ChainInv, ValueInv, NEW w \in Workers, op[w].pc \in {"get", "delete", "read"},
         NEW s \in Slots, NEW k \in Keys, Reach(s, k), Holds(s, k)
  PROVE  Map!Found(k) /\ Right(s, k)
<1>1. Types BY DEF IInv
<1>2. Finds(k) BY <1>1, FoundAt
<1>3. ~Changing(k) /\ ~Linking(k) BY ChangingIs, LinkingIs
<1>4. Right(s, k) BY <1>3 DEF ValueInv
<1>5. QED BY <1>2, <1>3, <1>4 DEF Map!Found, Lost, Right

\* What is lost after a step that ends a command.
LEMMA LostIs ==
  ASSUME Alone, NEW w \in Workers, op'[w].pc = "idle"
  PROVE  Lost' = {k \in Keys : data'[k] # NoValue /\ ~Finds(k)'}
<1>1. \A k \in Keys : ~Linking(k)' BY LinkingIs
<1>2. QED BY <1>1 DEF Lost

LEMMA ReadAnswers ==
  ASSUME Alone, IInv, ChainInv, ValueInv, NEW w \in Workers, Exists(w) \/ Read(w)
  PROVE  Map!Answer(w)
<1>1. /\ op[w].pc \in {"get", "read"} /\ op[w].pc # "idle"
      /\ entry' = entry /\ next' = next /\ data' = data
  BY DEF Exists, Read
<1>2. Key(w) \in Keys /\ At(w) \in Slots /\ Types BY <1>1, Working
<1>3. \E v : End(w, v) BY DEF Exists, Read
<1>4. op'[w].pc = "idle" BY <1>3, EndIs
<1>5. Asked[w] = op[w].cmd BY <1>1, AskedIs
<1>6. Lost' = Lost
  <2>1. \A k \in Keys : Finds(k)' <=> Finds(k) BY <1>1, TableStays
  <2>2. \A k \in Keys : ~Linking(k) /\ ~Linking(k)' BY <1>1, <1>4, LinkingIs
  <2>3. QED BY <1>1, <2>1, <2>2 DEF Lost
<1>7. CASE Exists(w)
  <2>1. /\ op[w].pc = "get" /\ Holds(At(w), Key(w)) /\ Kind(w) = "exist"
        /\ answer' = [answer EXCEPT ![w] = <<>>]
    BY <1>7 DEF Exists, End
  <2>2. Reach(At(w), Key(w)) BY <2>1 DEF ChainInv, ChainAt, Sought
  <2>3. Map!Found(Key(w)) BY <1>2, <2>1, <2>2, FoundKey
  <2>4. Map!Exist(w) BY <1>1, <1>5, <1>6, <2>1, <2>3 DEF Map!Exist, Key, Kind
  <2>5. QED BY <1>1, <1>4, <2>4, Answers
<1>8. CASE Read(w)
  <2> DEFINE Least(n) == IF n < op[w].cmd.room THEN n ELSE op[w].cmd.room
  <2>1. /\ op[w].pc = "read"
        /\ answer' = [answer EXCEPT ![w] =
                        [i \in 1 .. Least(op[w].len) |-> memory[op[w].off + i - 1]]]
    BY <1>8 DEF Read, End
  <2>2. PICK s \in Slots : /\ Reach(s, Key(w)) /\ Holds(s, Key(w))
                           /\ entry[s].off = op[w].off /\ entry[s].len = op[w].len
    BY <2>1 DEF ChainInv, ChainAt, Found, Spot
  <2>3. Map!Found(Key(w)) /\ Right(s, Key(w)) BY <1>2, <2>1, <2>2, FoundKey
  <2>4. PICK x \in Payloads : x = data[Key(w)] BY <1>2, <2>3 DEF Right, ValueInv
  <2>5. /\ op[w].len = Len(x)
        /\ \A i \in 1 .. Len(x) : memory[op[w].off + i - 1] = x[i]
    BY <2>2, <2>3, <2>4 DEF Right, Stands
  <2>6. Kind(w) = "retrieve" BY <2>1 DEF ValueInv, ValueAt
  <2>7. 1 .. Least(Len(x)) \subseteq 1 .. Len(x)
    <3>1. op[w].cmd.room \in Nat BY <1>1, <2>6, Working, KvAssumption DEF Commands, Kind
    <3>2. Len(x) \in Nat BY KvAssumption
    <3>3. Least(Len(x)) \in Nat /\ Least(Len(x)) <= Len(x) BY <3>1, <3>2
    <3>4. QED BY <3>2, <3>3
  <2>8. answer' = [answer EXCEPT ![w] = Map!Beginning(data[Key(w)], op[w].cmd.room)]
    <3>1. [i \in 1 .. Least(op[w].len) |-> memory[op[w].off + i - 1]]
            = [i \in 1 .. Least(Len(x)) |-> x[i]]
      BY <2>5, <2>7
    <3>2. Map!Beginning(x, op[w].cmd.room) = [i \in 1 .. Least(Len(x)) |-> x[i]]
      BY DEF Map!Beginning
    <3>3. QED BY <2>1, <2>4, <3>1, <3>2
  <2>9. Map!Retrieve(w) BY <1>1, <1>5, <1>6, <2>3, <2>6, <2>8 DEF Map!Retrieve, Key, Kind
  <2>10. QED BY <1>1, <1>4, <2>9, Answers
<1>9. QED BY <1>7, <1>8

LEMMA NotExistAnswers ==
  ASSUME Alone, IInv, ChainInv, ValueInv, NEW w \in Workers, NotExist(w)
  PROVE  Map!Answer(w)
<1>1. /\ op[w].pc \in {"get", "delete"} /\ op[w].pc # "idle" /\ Missing(w) /\ End(w, Absent)
      /\ entry' = entry /\ next' = next
      /\ Kind(w) \in {"retrieve", "exist", "delete"}
      /\ data' = IF Kind(w) = "delete" THEN [data EXCEPT ![Key(w)] = NoValue] ELSE data
      /\ answer' = [answer EXCEPT ![w] = Absent]
  BY DEF NotExist, End
<1>2. Key(w) \in Keys BY <1>1, Working
<1>3. op'[w].pc = "idle" BY <1>1, EndIs
<1>4. Asked[w] = op[w].cmd BY <1>1, AskedIs
<1>5. ~Finds(Key(w)) BY <1>1, MissedKey
<1>6. ~Map!Found(Key(w)) BY <1>2, <1>5 DEF Map!Found, Lost
<1>7. \A k \in Keys : Finds(k)' <=> Finds(k) BY <1>1, TableStays
<1>8. Lost = {k \in Keys : data[k] # NoValue /\ ~Finds(k)}
  <2>1. \A k \in Keys : ~Linking(k) BY <1>1, LinkingIs
  <2>2. QED BY <2>1 DEF Lost
<1>9. Lost' = {k \in Keys : data'[k] # NoValue /\ ~Finds(k)'} BY <1>3, LostIs
<1>10. CASE Kind(w) \in {"retrieve", "exist"}
  <2>1. data' = data BY <1>1, <1>10
  <2>2. Lost' = Lost BY <1>7, <1>8, <1>9, <2>1
  <2>3. Map!Retrieve(w) \/ Map!Exist(w)
    BY <1>1, <1>4, <1>6, <1>10, <2>1, <2>2 DEF Map!Retrieve, Map!Exist, Key, Kind
  <2>4. QED BY <1>1, <1>3, <2>3, Answers
<1>11. CASE Kind(w) = "delete"
  <2>1. data' = [data EXCEPT ![Key(w)] = NoValue] BY <1>1, <1>11
  <2>2. \A k \in Keys : data'[k] # NoValue <=> k # Key(w) /\ data[k] # NoValue
    BY <2>1 DEF ValueInv
  <2>3. Lost' = (Lost \cup {}) \ {Key(w)} BY <1>7, <1>8, <1>9, <2>2
  <2>4. Map!Delete(w) BY <1>1, <1>4, <1>6, <1>11, <2>1, <2>3 DEF Map!Delete, Key, Kind
  <2>5. QED BY <1>1, <1>3, <2>4, Answers
<1>12. QED BY <1>1, <1>10, <1>11

\* A store that ends makes its key found, and leaves what is found of others.
LEMMA StoreAnswers ==
  ASSUME Alone, IInv, NEW w \in Workers, op[w].pc # "idle", Storing(w),
         End(w, <<>>), Stored(w), data' \in [Keys -> Payloads \cup {NoValue}],
         \A k \in Keys : k # Key(w) => data'[k] = data[k],
         \A k \in Keys : k # Key(w) => (Finds(k)' <=> Finds(k)),
         \A k \in Keys : k = Key(w) => Finds(k)'
  PROVE  Map!Answer(w)
<1>1. op'[w].pc = "idle" BY EndIs
<1>2. Asked[w] = op[w].cmd BY AskedIs
<1>3. Lost' = Lost \ {Key(w)}
  <2>1. \A k \in Keys : k # Key(w) => ~Linking(k) BY LinkingIs
  <2>2. Lost' = {k \in Keys : data'[k] # NoValue /\ ~Finds(k)'} BY <1>1, LostIs
  <2>3. ASSUME NEW k \in Keys PROVE k \in Lost' <=> k \in Lost \ {Key(w)}
    BY <2>1, <2>2 DEF Lost
  <2>4. Lost' \subseteq Keys /\ Lost \subseteq Keys BY DEF Lost
  <2>5. QED BY <2>3, <2>4
<1>4. Map!Store(w) BY <1>2, <1>3 DEF Map!Store, End, Stored, Key, Kind, Storing
<1>5. QED BY <1>1, <1>4, Answers

LEMMA StoresAnswer ==
  ASSUME Alone, IInv, KeptInv, ChainInv, ValueInv, NEW w \in Workers,
         \/ (Copy(w) /\ op'[w].pc = "idle") \/ Update(w)
         \/ (Fill(w) /\ op'[w].pc = "idle") \/ Link(w)
  PROVE  Map!Answer(w)
<1>1. op[w].pc # "idle" BY DEF Copy, Update, Fill, Link
<1>2. /\ op[w].pc \in {"copy", "update", "fill", "link"} /\ Storing(w)
  BY <1>1, Working DEF Copy, Update, Fill, Link, PlacedAt, Storing, Kind
<1>3. Key(w) \in Keys /\ Types BY <1>1, Working
<1>4. SUFFICES /\ End(w, <<>>) /\ Stored(w)
               /\ \A k \in Keys : k # Key(w) => (Finds(k)' <=> Finds(k))
               /\ \A k \in Keys : k = Key(w) => Finds(k)'
  BY <1>1, <1>2, StoredIs, StoreAnswers
<1>5. CASE Copy(w) /\ op'[w].pc = "idle"
  <2>1. /\ op[w].pc = "copy" /\ op[w].len # None /\ End(w, <<>>) /\ Stored(w)
        /\ entry' = entry /\ next' = next
    <3>1. PICK c : c = IF Free(Hash[Key(w)]) THEN "fill" ELSE "tail" OBVIOUS
    <3>2. c # "idle" BY <3>1
    <3>3. QED BY <1>5, <3>1, <3>2, CopyDoes DEF On
  <2>2. \A k \in Keys : Finds(k)' <=> Finds(k) BY <2>1, TableStays
  <2>3. \E s \in Slots : Reach(s, Key(w)) /\ Holds(s, Key(w))
    BY <2>1 DEF ChainInv, ChainAt, Found, Spot
  <2>4. Finds(Key(w)) BY <1>3, <2>3, FoundAt
  <2>5. QED BY <2>1, <2>2, <2>4
<1>6. CASE Update(w)
  <2>1. End(w, <<>>) /\ Stored(w) BY <1>6 DEF Update
  <2>2. \A k \in Keys : Finds(k)' <=> Finds(k) BY <1>6, UpdatedTable
  <2>3. Reach(At(w), Key(w)) /\ Holds(At(w), Key(w)) /\ At(w) \in Slots BY <1>6, UpdateAt
  <2>4. Finds(Key(w)) BY <1>3, <2>3, FoundAt
  <2>5. QED BY <2>1, <2>2, <2>4
<1>7. CASE Fill(w) /\ op'[w].pc = "idle"
  <2>1. op[w].pc = "fill" /\ op[w].prev = None /\ End(w, <<>>) /\ Stored(w)
    BY <1>7, FillDoes DEF On
  <2>2. /\ At(w) \in Slots /\ \A k \in Keys : Finds(k) => Finds(k)'
        /\ \A k \in Keys : k # Key(w) /\ Finds(k)' => Finds(k)
        /\ \A s \in Slots : s = At(w) => entry'[s] = NewEntry(w)
        /\ op[w].off \in Nat
    BY <1>7, FillLeaves
  <2>3. At(w) = Hash[Key(w)] BY <2>1, FillFrom
  <2>4. PICK a \in Slots : a = At(w) BY <2>2
  <2>5. PICK k \in Keys : k = Key(w) BY <1>3
  <2>6. entry'[a].off # None /\ entry'[a].key = k BY <2>2, <2>4, <2>5 DEF NewEntry, None
  <2>7. Holds(a, k)' BY <2>6 DEF Holds, Free
  <2>8. a = Hash[k] BY <2>3, <2>4, <2>5
  <2>9. Finds(k)' BY <2>7, <2>8 DEF Finds
  <2>10. QED BY <2>1, <2>2, <2>5, <2>9
<1>8. CASE Link(w) BY <1>8, LinkDoes
<1>9. QED BY <1>4, <1>5, <1>6, <1>7, <1>8

LEMMA EraseAnswers ==
  ASSUME Alone, IInv, ChainInv, ValueInv, NEW w \in Workers, Erase(w)
  PROVE  Map!Answer(w)
<1>1. /\ op[w].pc = "delete" /\ op[w].pc # "idle" /\ Holds(At(w), Key(w)) /\ End(w, <<>>)
      /\ entry' = [entry EXCEPT ![At(w)] = Empty] /\ next' = [next EXCEPT ![At(w)] = None]
      /\ data' = [data EXCEPT ![Key(w)] = NoValue]
      /\ answer' = [answer EXCEPT ![w] = <<>>]
  BY DEF Erase, End
<1>2. /\ Key(w) \in Keys /\ At(w) \in Slots /\ Types /\ op[w].cmd.kind = "delete"
  BY <1>1, Working DEF PlacedAt
<1>3. op'[w].pc = "idle" BY <1>1, EndIs
<1>4. Asked[w] = op[w].cmd BY <1>1, AskedIs
<1>5. Reach(At(w), Key(w)) BY <1>1 DEF ChainInv, ChainAt, Sought
<1>6. Map!Found(Key(w)) BY <1>1, <1>2, <1>5, FoundKey
<1>7. \A k \in Keys : Finds(k)' => Finds(k)
  <2>1. PICK a \in Slots : a = At(w) BY <1>2
  <2>2. QED BY <1>1, <1>2, <2>1, ErasedTable
<1>8. Lost = {k \in Keys : data[k] # NoValue /\ ~Finds(k)}
  <2>1. \A k \in Keys : ~Linking(k) BY <1>1, LinkingIs
  <2>2. QED BY <2>1 DEF Lost
<1>9. Lost' = {k \in Keys : data'[k] # NoValue /\ ~Finds(k)'} BY <1>3, LostIs
<1>10. \A k \in Keys : data'[k] # NoValue <=> k # Key(w) /\ data[k] # NoValue
  BY <1>1 DEF ValueInv
<1> DEFINE more == {k \in Keys : data[k] # NoValue /\ Finds(k) /\ ~Finds(k)'}
<1>11. more \in SUBSET {k \in Keys : data[k] # NoValue} OBVIOUS
<1>12. Lost' = (Lost \cup more) \ {Key(w)}
  <2>1. ASSUME NEW k \in Keys PROVE k \in Lost' <=> k \in (Lost \cup more) \ {Key(w)}
    BY <1>7, <1>8, <1>9, <1>10
  <2>2. Lost' \subseteq Keys /\ Lost \subseteq Keys BY <1>8, <1>9
  <2>3. QED BY <2>1, <2>2
<1> HIDE DEF more
<1>13. Map!Delete(w) BY <1>1, <1>2, <1>4, <1>6, <1>11, <1>12 DEF Map!Delete, Key
<1>14. QED BY <1>1, <1>3, <1>13, Answers

LEMMA MapMoves ==
  ASSUME Alone, IInv, KeptInv, MapInv, [Next]_vars
  PROVE  [Map!Next]_(Map!vars)
<1>1. CASE UNCHANGED vars
  <2>1. /\ entry' = entry /\ next' = next /\ data' = data /\ answer' = answer /\ op' = op
    BY <1>1 DEF vars
  <2>2. \A k \in Keys : Finds(k)' <=> Finds(k) BY <2>1, TableStays
  <2>3. \A k \in Keys : Linking(k)' <=> Linking(k) BY <2>1 DEF Linking, Key
  <2>4. Lost' = Lost BY <2>1, <2>2, <2>3 DEF Lost
  <2>5. Asked' = Asked BY <2>1 DEF Asked, Idle
  <2>6. QED BY <2>1, <2>4, <2>5 DEF Map!vars
<1>2. ASSUME NEW w \in Workers, NEW c \in Commands, Begin(w, c) PROVE Map!Next
  BY <1>2, BeginAsks DEF Map!Next
<1>3. ASSUME NEW w \in Workers, Step(w) PROVE Map!Answer(w) \/ Stutters
  BY <1>3, MoveStutters, ReadAnswers, NotExistAnswers, StoresAnswer, EraseAnswers
  DEF Step, MapInv
<1>4. ASSUME NEW w \in Workers, Map!Answer(w) PROVE Map!Next BY <1>4 DEF Map!Next
<1>5. Stutters => UNCHANGED Map!vars BY DEF Stutters, Map!vars
<1>6. QED BY <1>1, <1>2, <1>3, <1>4, <1>5 DEF Next

LEMMA MapInits ==
  ASSUME Init
  PROVE  MapInv /\ Map!Init
<1>1. /\ \A s \in Slots : Free(s) /\ \A k : ~Holds(s, k)
      /\ \A w \in Workers : op[w].pc = "idle"
  BY DEF Init, Free, Holds, Empty
<1>2. ChainInv BY <1>1 DEF ChainInv, ChainAt, Found, Missed, Sole
<1>3. SpaceInv
  <2>1. SmallBits \in Nat /\ LargeBits \in Nat /\ 2 * Half \in Nat
    BY KvAssumption DEF SmallBits, LargeBits
  <2>2. /\ alloc.small.taken = {} /\ alloc.small.last = 0 /\ alloc.large.taken = {}
        /\ alloc.large.last = 0 /\ alloc.latest = 0
    BY DEF Init, Area
  <2>3. 0 .. 0 - 1 = {} OBVIOUS
  <2>4. Handed(alloc.small, SmallBits) /\ Handed(alloc.large, LargeBits)
    BY <2>1, <2>2, <2>3 DEF Handed
  <2>5. AllocInv BY <2>1, <2>2, <2>4 DEF AllocInv
  <2>6. \A w \in Workers : SpaceAt(w) BY <1>1 DEF SpaceAt, Missed
  <2>7. QED BY <1>1, <2>5, <2>6 DEF SpaceInv
<1>4. ValueInv
  <2>1. data \in [Keys -> Payloads \cup {NoValue}] /\ memory = [u \in Units |-> memory[u]]
    BY DEF Init
  <2>2. \A w \in Workers : ValueAt(w) BY <1>1 DEF ValueAt
  <2>3. QED BY <1>1, <2>1, <2>2 DEF ValueInv
<1>5. Map!Init
  <2>1. Lost = {} BY DEF Init, Lost
  <2>2. Asked = [w \in Workers |-> <<>>] BY <1>1 DEF Asked, Idle
  <2>3. QED BY <2>1, <2>2 DEF Init, Map!Init
<1>6. QED BY <1>2, <1>3, <1>4, <1>5 DEF MapInv

\* The table of kv_ftl.c keeps what KvMap promises, for a table of any size,
\* any keys, hash, values and buffers: a value that is read is the one last
\* stored, a key that was stored and is lost is reported as missing, and only
\* a delete of another key loses one.  The code checks none of what it takes
\* for that: a single worker (Alone); values no longer than a large area
\* (Fits); no more stores than the table and the storage have room for
\* (KeepsRoom); and a store over a value of another length only where the
\* length is kept and the value does not outgrow its area (KeepsSize).
THEOREM TableImplementsMap ==
  ASSUME Alone, Fits, KeepsRoom, KeepsSize
  PROVE  SpecWithIters => ImplementsKvMap
<1> DEFINE I == IInv /\ KeptInv /\ MapInv
<1>1. Calm BY DEF Alone, Calm
<1>2. InitIters => I /\ Map!Init
  <2> SUFFICES ASSUME InitIters PROVE I /\ Map!Init OBVIOUS
  <2>1. Init BY DEF InitIters
  <2>2. IInv BY <2>1, InitInv
  <2>3. KeptInv BY <2>1 DEF Init, KeptInv, KeptAt
  <2>4. QED BY <2>1, <2>2, <2>3, MapInits
<1>3. I /\ [NextWithIters]_<<vars, iter, owed>> => I' /\ [Map!Next]_(Map!vars)
  <2> SUFFICES ASSUME I, [NextWithIters]_<<vars, iter, owed>>
               PROVE  I' /\ [Map!Next]_(Map!vars)
    OBVIOUS
  <2>1. [Next]_vars BY DEF NextWithIters, Open, Close, ReadIter
  <2>2. IInv' BY <1>1, <2>1, StepKeeps
  <2>3. KeptInv' BY <2>1, KeptKeeps
  <2>4. MapInv' BY <2>1, ChainKeeps, SpaceKeeps, ValueKeeps DEF MapInv
  <2>5. [Map!Next]_(Map!vars) BY <2>1, MapMoves
  <2>6. QED BY <2>2, <2>3, <2>4, <2>5
<1> HIDE DEF I
<1>4. QED BY <1>2, <1>3, PTL DEF SpecWithIters, ImplementsKvMap, Map!Spec
============================================================================
