-------------------------- MODULE WorkQueueProofs --------------------------
(***************************************************************************)
(* Proofs about WorkQueue for a pool of any size, any requests and any way *)
(* of splitting the stores into a new entry.  That the lists are sound and *)
(* in order needs no bound on the load; what the worker does with entries  *)
(* that are taken away under it does (LightLoad).                          *)
(***************************************************************************)
EXTENDS WorkQueue, Arithmetic, FiniteSetTheorems, TLAPS

------------------------------------------------------------------------------
(* The invariants *)

\* Where the dispatcher may be.
Places == [pc : {"idle", "reclaim"}]
            \cup [pc : {"fill"}, entry : Entries, req : Request, left : SUBSET Stores]
            \cup [pc : {"seek"}, entry : Entries, req : Request, at : Entries \cup {None}]
            \cup [pc : {"cut", "join"}, first : Entries, last : Entries]

TypeOK ==
  /\ next \in [Entries -> Entries \cup {None}]
  /\ prev \in [Entries -> Entries \cup {None}]
  /\ tag \in [Entries -> Tags \cup {NoTag}]
  /\ target \in [Entries -> 0 .. MaxTime]
  /\ internal \in [Entries -> BOOLEAN]
  /\ copied \in [Entries -> BOOLEAN]
  /\ completed \in [Entries -> BOOLEAN]
  /\ ioSeq \in Entries \cup {None}
  /\ ioSeqEnd \in Entries \cup {None}
  /\ freeSeq \in Entries
  /\ freeSeqEnd \in Entries
  /\ latest \in 0 .. MaxTime
  /\ disp \in Places
  /\ work \in [pc : {"begin"}, curr : {None}]
                \cup [pc : {"clock", "check", "copy", "test", "mark", "advance"},
                      curr : Entries]
  /\ phase \in [Tags -> {"idle", "sent", "moved", "lost"}]
  /\ sent \in [Tags -> [target : 0 .. MaxTime, internal : BOOLEAN]]

\* All entries in one order, and the place of each in it: first the chain
\* taken off the queue that is not yet appended to the free list, then the
\* queue, the entry in the dispatcher's hand, and the free list.
Order(s, p) == /\ s \in [1 .. N -> Entries]
               /\ p \in [Entries -> 1 .. N]
               /\ \A e \in Entries : s[p[e]] = e
               /\ \A i \in 1 .. N : p[s[i]] = i

\* How many entries are in hand.
Hand == IF disp.pc \in {"fill", "seek"} THEN 1 ELSE 0

\* Of the order, the first k are the chain and from there to n the queue, and
\* the links say so.
Layout(s, k, n) ==
  /\ k \in Nat /\ n \in Nat /\ k <= n /\ n + Hand < N
  /\ \A i \in 1 .. N - 1 : i \notin {k, n, n + Hand} => next[s[i]] = s[i + 1]
  /\ next[s[N]] = None
  /\ n = k => ioSeq = None
  /\ n > k => /\ ioSeq = s[k + 1] /\ ioSeqEnd = s[n]
              /\ next[s[n]] = None /\ prev[s[k + 1]] = None
              /\ \A i \in k + 1 .. n - 1 : prev[s[i + 1]] = s[i]
  /\ freeSeq = s[n + Hand + 1]
  /\ freeSeqEnd = s[N]
  /\ Hand = 1 => disp.entry = s[n + 1]
  /\ k > 0 <=> disp.pc \in {"cut", "join"}
  /\ k > 0 => /\ disp.first = s[1] /\ disp.last = s[k]
              /\ next[s[k]] = IF disp.pc = "cut" THEN ioSeq ELSE None

\* The stores made into the entry in hand; once it is sought a place for,
\* all of them.
IsStored(f) ==
  \/ disp.pc = "seek"
  \/ disp.pc = "fill" /\ \E fields \in Stores \ disp.left : f \in fields
Stored ==
  /\ IsStored("request") => /\ tag[disp.entry] = disp.req.tag
                            /\ target[disp.entry] = disp.req.target
  /\ IsStored("internal") => internal[disp.entry] = disp.req.internal
  /\ IsStored("next") => next[disp.entry] = None /\ prev[disp.entry] = None

\* The search for a place is somewhere in the queue, and has passed later
\* targets only.
Sought(s, p, n) ==
  disp.pc = "seek" =>
    /\ n > 0
    /\ disp.at # None => p[disp.at] \in 1 .. n
    /\ \A i \in 1 .. n : disp.at = None \/ i > p[disp.at] => target[s[i]] > disp.req.target

\* Of two neighbours in the queue the first is due or has the earlier target.
InOrder(s, k, n) ==
  \A i \in k + 1 .. n - 1 : target[s[i]] <= latest \/ target[s[i]] <= target[s[i + 1]]

ListInv(s, p, k, n) == /\ Order(s, p) /\ Layout(s, k, n)
                       /\ Sought(s, p, n) /\ InOrder(s, k, n)

Inv == /\ TypeOK /\ Stored
       /\ \E s \in [1 .. N -> Entries], p \in [Entries -> 1 .. N], k, n \in 0 .. N :
            ListInv(s, p, k, n)

------------------------------------------------------------------------------
(* The lists *)

LEMMA EntryFacts == N \in Nat \ {0} /\ Entries = 0 .. N - 1 /\ None \notin Entries
BY WorkQueueAssumption DEF Entries, None

LEMMA SizeIs == N \in Nat \ {0} BY WorkQueueAssumption

LEMMA HandIs == Hand \in {0, 1} /\ Hand' \in {0, 1}
BY DEF Hand

\* So many entries are there that k and n are places.
LEMMA PlacesFit ==
  ASSUME NEW k \in Nat, NEW n \in Nat, NEW h \in {0, 1}, k <= n, n + h < N
  PROVE  k \in 0 .. N /\ n \in 0 .. N
BY SizeIs

\* What reads like From is From.
LEMMA FromOnly ==
  ASSUME NEW e, NEW w,
         w = [i \in Entries |-> IF i = 0 THEN e
                                ELSE IF w[i - 1] \in Entries THEN next[w[i - 1]] ELSE None]
  PROVE  From(e) = w
<1> DEFINE G(v) == [i \in Entries |-> IF i = 0 THEN e
                                      ELSE IF v[i - 1] \in Entries THEN next[v[i - 1]]
                                                                   ELSE None]
<1>1. From(e) = CHOOSE v : v = G(v)
  BY DEF From
<1>2. w = G(w) OBVIOUS
<1>3. ASSUME NEW v, v = G(v)
      PROVE  v = w
  <2> DEFINE D == {i \in Entries : v[i] # w[i]}
  <2>1. CASE D = {}
    <3>1. v = [i \in Entries |-> v[i]] /\ w = [i \in Entries |-> w[i]] BY <1>2, <1>3
    <3>2. QED BY <2>1, <3>1
  <2>2. CASE D # {}
    <3>1. PICK d \in D : \A i \in D : d <= i
      <4>1. D \subseteq Nat BY EntryFacts
      <4>2. QED BY <4>1, <2>2, NatMin
    <3>2. v[0] = e /\ w[0] = e BY EntryFacts, <1>2, <1>3
    <3>3. d # 0 /\ d - 1 \in Entries /\ d \in Entries BY <3>1, <3>2, EntryFacts
    <3>4. v[d - 1] = w[d - 1] BY <3>1, <3>3, EntryFacts
    <3>5. v[d] = G(v)[d] /\ w[d] = G(w)[d] BY <1>2, <1>3
    <3>6. G(v)[d] = G(w)[d] BY <3>3, <3>4, Zenon
    <3>7. QED BY <3>1, <3>5, <3>6
  <2>3. QED BY <2>1, <2>2
<1>4. QED
  <2> HIDE DEF G
  <2>1. \E v : v = G(v) BY <1>2
  <2>2. (CHOOSE v : v = G(v)) = w BY <2>1, <1>3
  <2>3. QED BY <1>1, <2>2

\* Following the links from a place in the order reads the order from there,
\* up to the end of the list.
LEMMA FromReads ==
  ASSUME NEW s \in [1 .. N -> Entries], NEW a \in 1 .. N, NEW b \in a .. N,
         \A i \in a .. b - 1 : next[s[i]] = s[i + 1],
         next[s[b]] = None
  PROVE  From(s[a]) = [i \in Entries |-> IF a + i <= b THEN s[a + i] ELSE None]
<1> DEFINE w == [i \in Entries |-> IF a + i <= b THEN s[a + i] ELSE None]
           Step(i) == IF i = 0 THEN s[a]
                      ELSE IF w[i - 1] \in Entries THEN next[w[i - 1]] ELSE None
<1>1. ASSUME NEW i \in Entries PROVE w[i] = Step(i)
  <2>2. CASE i = 0 BY <2>2, EntryFacts
  <2>3. CASE i # 0
    <3>1. i - 1 \in Entries /\ w[i - 1] = IF a + i - 1 <= b THEN s[a + i - 1] ELSE None
      BY <2>3, EntryFacts
    <3>2. CASE a + i <= b
      <4>1. a + i - 1 \in a .. b - 1 /\ s[a + i - 1] \in Entries BY <3>2, <2>3, EntryFacts
      <4>2. next[s[a + i - 1]] = s[a + i]
        <5> DEFINE j == a + i - 1
        <5>1. j \in a .. b - 1 /\ j + 1 = a + i BY <4>1, EntryFacts
        <5> HIDE DEF j
        <5>2. next[s[j]] = s[a + i] BY <5>1
        <5>3. QED BY <5>2 DEF j
      <4>3. QED BY <3>1, <3>2, <4>1, <4>2, <2>3, EntryFacts
    <3>3. CASE a + i - 1 = b
      <4>1. s[b] \in Entries BY EntryFacts
      <4>2. QED BY <3>1, <3>3, <4>1, <2>3, EntryFacts
    <3>4. CASE a + i - 1 > b BY <3>1, <3>4, <2>3, EntryFacts
    <3>5. QED BY <3>2, <3>3, <3>4, EntryFacts
  <2>4. QED BY <2>2, <2>3
<1>2. w = [i \in Entries |-> Step(i)] BY <1>1
<1>3. QED
  <2> HIDE DEF w
  <2>1. From(s[a]) = w BY <1>2, FromOnly
  <2>2. QED BY <2>1 DEF w

\* The lists are the parts of the order.
LEMMA ListsAre ==
  ASSUME NEW s, NEW p, NEW k, NEW n, Order(s, p), Layout(s, k, n)
  PROVE  /\ From(ioSeq) = [i \in Entries |-> IF k + 1 + i <= n THEN s[k + 1 + i] ELSE None]
         /\ Queued = {s[i] : i \in k + 1 .. n}
         /\ FreeOnes = {s[i] : i \in n + Hand + 1 .. N}
<1> DEFINE h == Hand
           a == n + h + 1
<1>1. h \in 0 .. 1 /\ k \in Nat /\ n \in Nat /\ k <= n /\ n + h < N BY DEF Layout, Hand
<1>2. s \in [1 .. N -> Entries] BY DEF Order
<1>3. From(ioSeq) = [i \in Entries |-> IF k + 1 + i <= n THEN s[k + 1 + i] ELSE None]
  <2>1. CASE n = k
    <3>1. ioSeq = None BY <2>1 DEF Layout
    <3> DEFINE w == [i \in Entries |-> None]
    <3>2. w = [i \in Entries |-> IF i = 0 THEN None
                                 ELSE IF w[i - 1] \in Entries THEN next[w[i - 1]] ELSE None]
      BY EntryFacts
    <3>3. From(None) = w
      <4> HIDE DEF w
      <4> QED BY <3>2, FromOnly
    <3>4. \A i \in Entries : ~(k + 1 + i <= n) BY <2>1, <1>1, EntryFacts
    <3>5. QED BY <3>1, <3>3, <3>4
  <2>2. CASE n > k
    <3>1. /\ ioSeq = s[k + 1] /\ next[s[n]] = None
          /\ \A i \in k + 1 .. n - 1 : next[s[i]] = s[i + 1]
      BY <2>2, <1>1, EntryFacts DEF Layout
    <3>2. From(s[k + 1]) = [i \in Entries |-> IF k + 1 + i <= n THEN s[k + 1 + i] ELSE None]
      <4> DEFINE b == k + 1
                 c == n
      <4>1. b \in 1 .. N /\ c \in b .. N BY <1>1, <2>2, EntryFacts
      <4> HIDE DEF b, c
      <4>2. /\ \A i \in b .. c - 1 : next[s[i]] = s[i + 1]
            /\ next[s[c]] = None
        BY <3>1, <1>1 DEF b, c
      <4>3. From(s[b]) = [i \in Entries |-> IF b + i <= c THEN s[b + i] ELSE None]
        BY <1>2, <4>1, <4>2, FromReads
      <4>4. QED BY <4>3 DEF b, c
    <3>3. QED BY <3>1, <3>2
  <2>3. QED BY <2>1, <2>2, <1>1
<1>4. From(freeSeq) = [i \in Entries |-> IF a + i <= N THEN s[a + i] ELSE None]
  <2>1. a \in 1 .. N /\ N \in a .. N BY <1>1, EntryFacts
  <2>2. \A i \in a .. N - 1 : next[s[i]] = s[i + 1] BY <1>1, EntryFacts DEF Layout
  <2>3. freeSeq = s[a] /\ next[s[N]] = None BY DEF Layout
  <2> HIDE DEF a
  <2>4. QED BY <1>2, <2>1, <2>2, <2>3, FromReads
<1>5. Queued = {s[i] : i \in k + 1 .. n}
  <2> DEFINE w == [i \in Entries |-> IF k + 1 + i <= n THEN s[k + 1 + i] ELSE None]
  <2>1. Queued = {w[i] : i \in Entries} \cap Entries BY <1>3 DEF Queued
  <2>2. ASSUME NEW i \in k + 1 .. n PROVE s[i] \in {w[j] : j \in Entries} \cap Entries
    <3>1. i - k - 1 \in Entries /\ k + 1 + (i - k - 1) = i /\ i <= n
      BY <1>1, EntryFacts
    <3>2. w[i - k - 1] = s[i] BY <3>1
    <3>3. s[i] \in Entries BY <1>1, <1>2, EntryFacts
    <3>4. QED BY <3>1, <3>2, <3>3
  <2>3. ASSUME NEW j \in Entries, w[j] \in Entries
        PROVE  w[j] \in {s[i] : i \in k + 1 .. n}
    <3>1. k + 1 + j <= n /\ w[j] = s[k + 1 + j] BY <2>3, EntryFacts
    <3>2. k + 1 + j \in k + 1 .. n BY <3>1, <1>1, EntryFacts
    <3>3. QED BY <3>1, <3>2
  <2>4. QED
    <3> HIDE DEF w
    <3> QED BY <2>1, <2>2, <2>3
<1>6. FreeOnes = {s[i] : i \in a .. N}
  <2> DEFINE w == [i \in Entries |-> IF a + i <= N THEN s[a + i] ELSE None]
  <2>1. FreeOnes = {w[i] : i \in Entries} \cap Entries BY <1>4 DEF FreeOnes
  <2>2. ASSUME NEW i \in a .. N PROVE s[i] \in {w[j] : j \in Entries} \cap Entries
    <3>1. i - a \in Entries /\ a + (i - a) = i /\ i <= N
      BY <1>1, EntryFacts
    <3>2. w[i - a] = s[i] BY <3>1
    <3>3. s[i] \in Entries BY <1>1, <1>2, EntryFacts
    <3>4. QED BY <3>1, <3>2, <3>3
  <2>3. ASSUME NEW j \in Entries, w[j] \in Entries
        PROVE  w[j] \in {s[i] : i \in a .. N}
    <3>1. a + j <= N /\ w[j] = s[a + j] BY <2>3, EntryFacts
    <3>2. a + j \in a .. N BY <3>1, <1>1, EntryFacts
    <3>3. QED BY <3>1, <3>2
  <2>4. QED
    <3> HIDE DEF w
    <3> QED BY <2>1, <2>2, <2>3
<1>7. QED BY <1>3, <1>5, <1>6

LEMMA InHandIs ==
  ASSUME NEW s, NEW p, NEW k, NEW n, Order(s, p), Layout(s, k, n)
  PROVE  InHand = {s[i] : i \in n + 1 .. n + Hand}
<1>1. k \in Nat /\ n \in Nat BY DEF Layout
<1>2. CASE Hand = 1
  <2>1. InHand = {s[n + 1]} BY <1>2 DEF Layout, Hand, InHand
  <2>2. n + 1 .. n + Hand = {n + 1} BY <1>1, <1>2
  <2>3. QED BY <2>1, <2>2
<1>3. CASE Hand # 1
  <2>1. InHand = {} /\ Hand = 0 BY <1>3 DEF Hand, InHand
  <2>2. n + 1 .. n + Hand = {} BY <1>1, <2>1
  <2>3. QED BY <2>1, <2>2
<1>4. QED BY <1>2, <1>3

\* An order in which the lists are such parts is all that ListsSound says.
LEMMA SoundLists ==
  ASSUME NEW s, NEW p, NEW k, NEW n, Order(s, p), Layout(s, k, n)
  PROVE  ListsSound
<1> DEFINE h == Hand
<1>1. h \in 0 .. 1 /\ k \in Nat /\ n \in Nat /\ k <= n /\ n + h < N BY DEF Layout, Hand
<1>2. /\ s \in [1 .. N -> Entries] /\ p \in [Entries -> 1 .. N]
      /\ \A e \in Entries : s[p[e]] = e
      /\ \A i \in 1 .. N : p[s[i]] = i
  BY DEF Order
<1>3. \A e \in Entries : /\ e \in Queued   <=> p[e] \in k + 1 .. n
                         /\ e \in FreeOnes <=> p[e] \in n + h + 1 .. N
                         /\ e \in InHand   <=> p[e] \in n + 1 .. n + h
  <2>1. \A a, b \in Nat : a > 0 /\ b <= N =>
          \A e \in Entries : e \in {s[i] : i \in a .. b} <=> p[e] \in a .. b
    BY <1>2, EntryFacts
  <2>2. /\ Queued = {s[i] : i \in k + 1 .. n}
        /\ FreeOnes = {s[i] : i \in n + h + 1 .. N}
        /\ InHand = {s[i] : i \in n + 1 .. n + h}
    BY ListsAre, InHandIs
  <2>3. /\ k + 1 \in Nat /\ k + 1 > 0 /\ n \in Nat /\ n <= N
        /\ n + h + 1 \in Nat /\ n + h + 1 > 0 /\ N \in Nat
        /\ n + 1 \in Nat /\ n + 1 > 0 /\ n + h \in Nat /\ n + h <= N
    BY <1>1, EntryFacts
  <2>4. QED
    <3> HIDE DEF h
    <3>1. \A e \in Entries : e \in Queued <=> p[e] \in k + 1 .. n
      BY <2>1, <2>2, <2>3
    <3>2. \A e \in Entries : e \in FreeOnes <=> p[e] \in n + h + 1 .. N
      BY <2>1, <2>2, <2>3
    <3>3. \A e \in Entries : e \in InHand <=> p[e] \in n + 1 .. n + h
      BY <2>1, <2>2, <2>3
    <3>4. QED BY <3>1, <3>2, <3>3
<1>4. Queued \subseteq Entries /\ FreeOnes \subseteq Entries /\ InHand \subseteq Entries
  <2>1. Queued \subseteq Entries /\ FreeOnes \subseteq Entries BY DEF Queued, FreeOnes
  <2>2. InHand = {s[i] : i \in n + 1 .. n + h} BY InHandIs
  <2>3. \A i \in n + 1 .. n + h : s[i] \in Entries BY <1>1, <1>2, EntryFacts
  <2>4. QED BY <2>1, <2>2, <2>3
<1>5. Queued \cap FreeOnes = {} /\ (Queued \cup FreeOnes) \cap InHand = {}
  <2> HIDE DEF h
  <2>1. \A e \in Entries : /\ ~(e \in Queued /\ e \in FreeOnes)
                           /\ ~(e \in Queued /\ e \in InHand)
                           /\ ~(e \in FreeOnes /\ e \in InHand)
    <3>1. TAKE e \in Entries
    <3>2. /\ e \in Queued <=> p[e] \in k + 1 .. n
          /\ e \in FreeOnes <=> p[e] \in n + h + 1 .. N
          /\ e \in InHand <=> p[e] \in n + 1 .. n + h
      BY <1>3
    <3>3. k \in Nat /\ n \in Nat /\ h \in Nat /\ k <= n /\ N \in Nat BY <1>1, EntryFacts
    <3>4. QED BY <3>2, <3>3
  <2>2. QED BY <2>1, <1>4
<1>6. disp.pc \in {"cut", "join"} \/ Queued \cup FreeOnes \cup InHand = Entries
  <2>1. ASSUME disp.pc \notin {"cut", "join"} PROVE Queued \cup FreeOnes \cup InHand = Entries
    <3>1. k = 0 BY <2>1, <1>1 DEF Layout
    <3> HIDE DEF h
    <3>2. \A e \in Entries : p[e] \in 1 .. N BY <1>2
    <3>3. \A e \in Entries : e \in Queued \/ e \in FreeOnes \/ e \in InHand
      BY <3>1, <3>2, <1>1, <1>3, EntryFacts
    <3>4. QED BY <3>3, <1>4
  <2>2. QED BY <2>1
<1>7. freeSeqEnd \in FreeOnes /\ next[freeSeqEnd] = None
  <2>1. freeSeqEnd = s[N] /\ next[s[N]] = None BY DEF Layout
  <2>2. s[N] \in Entries /\ p[s[N]] = N BY <1>2, EntryFacts
  <2>3. QED BY <2>1, <2>2, <1>1, <1>3, EntryFacts
<1>8. ASSUME ioSeq # None
      PROVE  /\ ioSeqEnd \in Queued /\ next[ioSeqEnd] = None
             /\ prev[ioSeq] = None
             /\ \A e \in Queued \ {ioSeqEnd} : prev[next[e]] = e
  <2>1. n > k BY <1>8, <1>1 DEF Layout
  <2>2. /\ ioSeq = s[k + 1] /\ ioSeqEnd = s[n]
        /\ next[s[n]] = None /\ prev[s[k + 1]] = None
        /\ \A i \in k + 1 .. n - 1 : prev[s[i + 1]] = s[i]
        /\ \A i \in k + 1 .. n - 1 : next[s[i]] = s[i + 1]
    BY <2>1, <1>1, EntryFacts DEF Layout
  <2>3. ioSeqEnd \in Queued
    <3>1. n \in 1 .. N /\ n \in k + 1 .. n BY <1>1, <2>1, EntryFacts
    <3>2. s[n] \in Entries /\ p[s[n]] \in k + 1 .. n BY <3>1, <1>2
    <3>3. QED BY <3>2, <2>2, <1>3
  <2>4. ASSUME NEW e \in Queued \ {ioSeqEnd} PROVE prev[next[e]] = e
    <3>1. e \in Entries /\ p[e] \in k + 1 .. n /\ s[p[e]] = e BY <1>2, <1>3, <1>4
    <3>2. p[e] # n BY <2>2, <3>1
    <3>3. p[e] \in k + 1 .. n - 1 BY <3>1, <3>2, <1>1
    <3>4. prev[s[p[e] + 1]] = s[p[e]] /\ next[s[p[e]]] = s[p[e] + 1] BY <3>3, <2>2
    <3>5. QED BY <3>1, <3>4
  <2>5. QED BY <2>2, <2>3, <2>4
<1>9. QED BY <1>5, <1>6, <1>7, <1>8 DEF ListsSound

------------------------------------------------------------------------------
(* How a step changes the order *)

\* The first k go to the end.
Rotated(s, k) == [i \in 1 .. N |-> IF i <= N - k THEN s[i + k] ELSE s[i + k - N]]
RotatedPlace(p, k) == [e \in Entries |-> IF p[e] > k THEN p[e] - k ELSE p[e] + N - k]

\* The one at b goes before the one at a.
Moved(s, a, b) ==
  [i \in 1 .. N |-> IF i = a THEN s[b] ELSE IF i \in a + 1 .. b THEN s[i - 1] ELSE s[i]]
MovedPlace(p, a, b) ==
  [e \in Entries |-> IF p[e] = b THEN a ELSE IF p[e] \in a .. b - 1 THEN p[e] + 1 ELSE p[e]]

LEMMA RotatedOrder ==
  ASSUME NEW s, NEW p, Order(s, p), NEW k \in 0 .. N
  PROVE  Order(Rotated(s, k), RotatedPlace(p, k))
<1>1. /\ s \in [1 .. N -> Entries] /\ p \in [Entries -> 1 .. N]
      /\ \A e \in Entries : s[p[e]] = e
      /\ \A i \in 1 .. N : p[s[i]] = i
  BY DEF Order
<1>2. Rotated(s, k) \in [1 .. N -> Entries]
  BY <1>1, EntryFacts DEF Rotated
<1>3. RotatedPlace(p, k) \in [Entries -> 1 .. N]
  <2>1. N \in Nat /\ k \in 0 .. N BY EntryFacts
  <2>2. ASSUME NEW e \in Entries
        PROVE  (IF p[e] > k THEN p[e] - k ELSE p[e] + N - k) \in 1 .. N
    <3>1. p[e] \in 1 .. N BY <1>1
    <3>2. QED BY <3>1, <2>1
  <2>3. QED BY <2>2 DEF RotatedPlace
<1>4. ASSUME NEW e \in Entries PROVE Rotated(s, k)[RotatedPlace(p, k)[e]] = e
  <2>1. CASE p[e] > k
    <3>1. RotatedPlace(p, k)[e] = p[e] - k BY <2>1 DEF RotatedPlace
    <3>2. p[e] - k \in 1 .. N /\ p[e] - k <= N - k /\ (p[e] - k) + k = p[e]
      BY <1>1, <2>1, EntryFacts
    <3>3. QED BY <3>1, <3>2, <1>1 DEF Rotated
  <2>2. CASE ~(p[e] > k)
    <3>1. RotatedPlace(p, k)[e] = p[e] + N - k BY <2>2 DEF RotatedPlace
    <3>2. /\ p[e] + N - k \in 1 .. N /\ ~(p[e] + N - k <= N - k)
          /\ (p[e] + N - k) + k - N = p[e]
      <4>1. p[e] \in 1 .. N BY <1>1
      <4>2. QED BY <4>1, <2>2, EntryFacts
    <3>3. QED BY <3>1, <3>2, <1>1 DEF Rotated
  <2>3. QED BY <2>1, <2>2
<1>5. ASSUME NEW i \in 1 .. N PROVE RotatedPlace(p, k)[Rotated(s, k)[i]] = i
  <2>1. CASE i <= N - k
    <3>1. Rotated(s, k)[i] = s[i + k] /\ i + k \in 1 .. N BY <2>1, EntryFacts DEF Rotated
    <3>2. s[i + k] \in Entries /\ p[s[i + k]] = i + k BY <3>1, <1>1
    <3>3. QED BY <3>1, <3>2, EntryFacts DEF RotatedPlace
  <2>2. CASE ~(i <= N - k)
    <3>1. Rotated(s, k)[i] = s[i + k - N] /\ i + k - N \in 1 .. k
      BY <2>2, EntryFacts DEF Rotated
    <3>2. s[i + k - N] \in Entries /\ p[s[i + k - N]] = i + k - N BY <3>1, <1>1, EntryFacts
    <3>3. QED BY <3>1, <3>2, EntryFacts DEF RotatedPlace
  <2>3. QED BY <2>1, <2>2
<1>6. QED BY <1>2, <1>3, <1>4, <1>5 DEF Order

LEMMA MovedOrder ==
  ASSUME NEW s, NEW p, Order(s, p), NEW b \in 1 .. N, NEW a \in 1 .. b
  PROVE  Order(Moved(s, a, b), MovedPlace(p, a, b))
<1>1. /\ s \in [1 .. N -> Entries] /\ p \in [Entries -> 1 .. N]
      /\ \A e \in Entries : s[p[e]] = e
      /\ \A i \in 1 .. N : p[s[i]] = i
  BY DEF Order
<1>2. Moved(s, a, b) \in [1 .. N -> Entries]
  BY <1>1, EntryFacts DEF Moved
<1>3. MovedPlace(p, a, b) \in [Entries -> 1 .. N]
  <2>1. ASSUME NEW e \in Entries
        PROVE  (IF p[e] = b THEN a ELSE IF p[e] \in a .. b - 1 THEN p[e] + 1 ELSE p[e]) \in 1 .. N
    <3>1. p[e] \in 1 .. N BY <1>1
    <3>2. QED BY <3>1, EntryFacts
  <2>2. QED BY <2>1 DEF MovedPlace
<1>4. ASSUME NEW e \in Entries PROVE Moved(s, a, b)[MovedPlace(p, a, b)[e]] = e
  <2>1. CASE p[e] = b
    <3>1. MovedPlace(p, a, b)[e] = a BY <2>1 DEF MovedPlace
    <3>2. QED BY <3>1, <2>1, <1>1, EntryFacts DEF Moved
  <2>2. CASE p[e] \in a .. b - 1
    <3>1. MovedPlace(p, a, b)[e] = p[e] + 1 BY <2>2, EntryFacts DEF MovedPlace
    <3>2. p[e] + 1 \in 1 .. N /\ p[e] + 1 # a /\ p[e] + 1 \in a + 1 .. b
          /\ (p[e] + 1) - 1 = p[e]
      <4>1. p[e] \in 1 .. N BY <1>1
      <4>2. QED BY <4>1, <2>2, EntryFacts
    <3>3. QED BY <3>1, <3>2, <1>1 DEF Moved
  <2>3. CASE p[e] # b /\ p[e] \notin a .. b - 1
    <3>1. MovedPlace(p, a, b)[e] = p[e] BY <2>3 DEF MovedPlace
    <3>2. p[e] \in 1 .. N /\ p[e] # a /\ p[e] \notin a + 1 .. b
      <4>1. p[e] \in 1 .. N BY <1>1
      <4>2. QED BY <4>1, <2>3, EntryFacts
    <3>3. QED BY <3>1, <3>2, <1>1 DEF Moved
  <2>4. QED BY <2>1, <2>2, <2>3
<1>5. ASSUME NEW i \in 1 .. N PROVE MovedPlace(p, a, b)[Moved(s, a, b)[i]] = i
  <2>1. CASE i = a
    <3>1. Moved(s, a, b)[i] = s[b] /\ s[b] \in Entries /\ p[s[b]] = b
      BY <2>1, <1>1, EntryFacts DEF Moved
    <3>2. QED BY <3>1, <2>1 DEF MovedPlace
  <2>2. CASE i \in a + 1 .. b
    <3>1. Moved(s, a, b)[i] = s[i - 1] /\ i - 1 \in a .. b - 1 /\ i - 1 \in 1 .. N
      BY <2>2, EntryFacts DEF Moved
    <3>2. s[i - 1] \in Entries /\ p[s[i - 1]] = i - 1 BY <3>1, <1>1
    <3>3. QED BY <3>1, <3>2, EntryFacts DEF MovedPlace
  <2>3. CASE i # a /\ i \notin a + 1 .. b
    <3>1. Moved(s, a, b)[i] = s[i] /\ s[i] \in Entries /\ p[s[i]] = i
      BY <2>3, <1>1 DEF Moved
    <3>2. i # b /\ i \notin a .. b - 1 BY <2>3, EntryFacts
    <3>3. QED BY <3>1, <3>2 DEF MovedPlace
  <2>4. QED BY <2>1, <2>2, <2>3
<1>6. QED BY <1>2, <1>3, <1>4, <1>5 DEF Order

LEMMA NoChain ==
  ASSUME NEW s, NEW k, NEW n, Layout(s, k, n), disp.pc \notin {"cut", "join"}
  PROVE  k = 0 /\ Layout(s, 0, n)
<1>1. k = 0 BY DEF Layout
<1>2. QED BY <1>1, Zenon

LEMMA KeptLayout ==
  ASSUME NEW s, NEW k, NEW n, Layout(s, k, n), UNCHANGED <<links, lists, disp>>
  PROVE  Layout(s, k, n)'
BY DEF Layout, Hand, links, lists

LEMMA AllocateLayout ==
  ASSUME TypeOK, NEW s, NEW p, NEW k, NEW n, Order(s, p), Layout(s, k, n),
         NEW r, Allocate(r)
  PROVE  k = 0 /\ Hand = 0 /\ Hand' = 1 /\ Layout(s, 0, n)' /\ disp'.entry = s[n + 1]
<1>1. /\ disp.pc = "idle" /\ next[freeSeq] \in Entries /\ freeSeq' = next[freeSeq]
      /\ disp' = [pc |-> "fill", entry |-> freeSeq, req |-> r, left |-> Stores]
      /\ UNCHANGED <<next, prev, ioSeq, ioSeqEnd, freeSeqEnd>>
  BY DEF Allocate, links
<1>2. Hand = 0 /\ Hand' = 1 /\ disp'.pc = "fill" /\ disp'.entry = freeSeq BY <1>1 DEF Hand
<1>10. k = 0 /\ Layout(s, 0, n) BY <1>1, NoChain
<1>3. k = 0 /\ n \in Nat /\ n < N BY <1>10, <1>2, EntryFacts DEF Layout
<1>4. freeSeq = s[n + 1] /\ next[s[N]] = None BY <1>2, <1>3 DEF Layout
<1>5. n + 1 < N BY <1>1, <1>3, <1>4, EntryFacts
<1>6. next[s[n + 1]] = s[n + 2]
  <2>1. n + 1 \in 1 .. N - 1 /\ n + 1 \notin {k, n, n + Hand} /\ n + 1 + 1 = n + 2
    BY <1>2, <1>3, <1>5, EntryFacts
  <2>2. QED BY <2>1, Zenon DEF Layout
<1>7. Layout(s, 0, n)'
  <2>1. \A i \in 1 .. N - 1 : i \notin {0, n, n + 1} => next'[s[i]] = s[i + 1]
    BY <1>1, <1>2, <1>10 DEF Layout
  <2>2. freeSeq' = s[n + Hand' + 1] BY <1>1, <1>2, <1>3, <1>4, <1>6
  <2>3. QED BY <2>1, <2>2, <1>1, <1>2, <1>3, <1>4, <1>5, <1>10, EntryFacts DEF Layout
<1>8. QED BY <1>1, <1>2, <1>3, <1>4, <1>7

LEMMA FillLayout ==
  ASSUME TypeOK, NEW s, NEW p, NEW k, NEW n, Order(s, p), Layout(s, k, n),
         NEW fields, Fill(fields)
  PROVE  k = 0 /\ Hand = 1 /\ Hand' = 1 /\ Layout(s, 0, n)'
<1>1. /\ disp.pc = "fill"
      /\ next' = IF "next" \in fields THEN [next EXCEPT ![disp.entry] = None] ELSE next
      /\ prev' = IF "next" \in fields THEN [prev EXCEPT ![disp.entry] = None] ELSE prev
      /\ disp' = [disp EXCEPT !.left = @ \ {fields}]
      /\ UNCHANGED lists
  BY Zenon DEF Fill
<1>2. disp'.pc = disp.pc /\ disp'.entry = disp.entry
  BY <1>1 DEF TypeOK, Places
<1>3. Hand = 1 /\ Hand' = 1 BY <1>1, <1>2 DEF Hand
<1>10. k = 0 /\ Layout(s, 0, n) BY <1>1, NoChain
<1>4. k = 0 /\ n \in Nat /\ n + 1 < N /\ disp.entry = s[n + 1]
  BY <1>1, <1>3, <1>10 DEF Layout
<1>5. \A i \in 1 .. N : i # n + 1 => s[i] # disp.entry
  BY <1>4, EntryFacts DEF Order
<1>6. \A i \in 1 .. N : s[i] \in Entries BY DEF Order
<1>7. \A i \in 1 .. N : i # n + 1 => next'[s[i]] = next[s[i]] /\ prev'[s[i]] = prev[s[i]]
  BY <1>1, <1>5, <1>6 DEF TypeOK
<1>8. Layout(s, 0, n)'
  <2>1. \A i \in 1 .. N - 1 : i \notin {0, n, n + 1} => next'[s[i]] = s[i + 1]
    BY <1>3, <1>4, <1>7, <1>10, EntryFacts DEF Layout
  <2>2. next'[s[N]] = None BY <1>4, <1>7, <1>10, EntryFacts DEF Layout
  <2>3. /\ n = 0 => ioSeq' = None
        /\ n > 0 => /\ ioSeq' = s[1] /\ ioSeqEnd' = s[n]
                    /\ next'[s[n]] = None /\ prev'[s[1]] = None
                    /\ \A i \in 1 .. n - 1 : prev'[s[i + 1]] = s[i]
    <3>1. CASE n = 0 BY <3>1, <1>1, <1>10 DEF Layout, lists
    <3>2. CASE n > 0
      <4>1. /\ ioSeq = s[1] /\ ioSeqEnd = s[n] /\ next[s[n]] = None /\ prev[s[1]] = None
            /\ \A i \in 1 .. n - 1 : prev[s[i + 1]] = s[i]
        BY <3>2, <1>10 DEF Layout
      <4>2. next'[s[n]] = None /\ prev'[s[1]] = None
        BY <4>1, <3>2, <1>4, <1>7, EntryFacts
      <4>3. ASSUME NEW i \in 1 .. n - 1 PROVE prev'[s[i + 1]] = s[i]
        <5>1. i + 1 \in 1 .. N /\ i + 1 # n + 1 BY <1>4, EntryFacts
        <5>2. QED BY <5>1, <4>1, <1>7
      <4>4. QED BY <4>1, <4>2, <4>3, <1>1, <3>2 DEF lists
    <3>3. QED BY <3>1, <3>2, <1>4
  <2>4. freeSeq' = s[n + 1 + 1] /\ freeSeqEnd' = s[N]
    BY <1>1, <1>3, <1>10 DEF Layout, lists
  <2>5. QED BY <2>1, <2>2, <2>3, <2>4, <1>1, <1>2, <1>3, <1>4 DEF Layout
<1>9. QED BY <1>3, <1>4, <1>8

LEMMA SeekLayout ==
  ASSUME TypeOK, NEW s, NEW k, NEW n, Layout(s, k, n), SeekStart \/ SeekBack
  PROVE  k = 0 /\ Hand = 1 /\ Hand' = 1 /\ Layout(s, 0, n)' /\ disp'.pc = "seek"
         /\ disp'.entry = disp.entry
<1>1. /\ disp.pc \in {"fill", "seek"} /\ disp'.pc = "seek" /\ disp'.entry = disp.entry
      /\ UNCHANGED <<links, lists>>
  <2>1. CASE SeekStart BY <2>1 DEF SeekStart
  <2>2. CASE SeekBack BY <2>2 DEF SeekBack, TypeOK, Places
  <2>3. QED BY <2>1, <2>2
<1>2. Hand = 1 /\ Hand' = 1 BY <1>1 DEF Hand
<1>3. k = 0 /\ n \in Nat BY <1>1 DEF Layout
<1>4. Layout(s, 0, n)' BY <1>1, <1>2, <1>3 DEF Layout, links, lists
<1>5. QED BY <1>1, <1>2, <1>3, <1>4

\* When an entry is linked all its fields are stored.
LEMMA AllStored ==
  ASSUME TypeOK, Stored, (disp.pc = "fill" /\ disp.left = {}) \/ disp.pc = "seek"
  PROVE  /\ tag[disp.entry] = disp.req.tag
         /\ target[disp.entry] = disp.req.target
         /\ internal[disp.entry] = disp.req.internal
         /\ next[disp.entry] = None /\ prev[disp.entry] = None
<1>1. \A f \in Fields : IsStored(f)
  <2>1. CASE disp.pc = "seek" BY <2>1 DEF IsStored
  <2>2. CASE disp.pc = "fill" /\ disp.left = {}
    <3>1. \A f \in Fields : \E fields \in Stores \ disp.left : f \in fields
      BY <2>2, WorkQueueAssumption
    <3>2. QED BY <2>2, <3>1 DEF IsStored
  <2>3. QED BY <2>1, <2>2
<1>2. IsStored("request") /\ IsStored("internal") /\ IsStored("next")
  BY <1>1 DEF Fields
<1>3. QED BY <1>2 DEF Stored

\* A queue from the first place on, with nothing in hand and nothing cut off.
LEMMA LayoutMade ==
  ASSUME NEW z, NEW m \in Nat, 0 < m, m < N,
         (Hand = 0)', disp'.pc \in {"idle", "reclaim"},
         \A i \in 1 .. N - 1 : i # m => next'[z[i]] = z[i + 1],
         next'[z[N]] = None,
         ioSeq' = z[1], ioSeqEnd' = z[m], next'[z[m]] = None, prev'[z[1]] = None,
         \A i \in 1 .. m - 1 : prev'[z[i + 1]] = z[i],
         freeSeq' = z[m + 1], freeSeqEnd' = z[N]
  PROVE  Layout(z, 0, m)'
<1>1. m + Hand' = m /\ m + Hand' + 1 = m + 1 OBVIOUS
<1>2. \A i \in 1 .. N - 1 : i \notin {0, m, m + Hand'} => next'[z[i]] = z[i + 1]
  OBVIOUS
<1>3. freeSeq' = z[m + Hand' + 1] BY <1>1
<1>4. 0 <= m /\ m + Hand' < N BY <1>1
<1>5. \A i \in 0 + 1 .. m - 1 : prev'[z[i + 1]] = z[i] OBVIOUS
<1>6. ioSeq' = z[0 + 1] /\ prev'[z[0 + 1]] = None OBVIOUS
<1>7. QED BY <1>2, <1>3, <1>4, <1>5, <1>6 DEF Layout

LEMMA InsertFirstLayout ==
  ASSUME TypeOK, Stored, NEW s, NEW p, NEW k, NEW n, Order(s, p), Layout(s, k, n), InsertFirst
  PROVE  k = 0 /\ n = k /\ Hand = 1 /\ Hand' = 0 /\ Layout(s, 0, 1)' /\ disp.entry = s[1]
<1>1. /\ disp.pc = "fill" /\ disp.left = {} /\ ioSeq = None
      /\ ioSeq' = disp.entry /\ ioSeqEnd' = disp.entry
      /\ disp'.pc \in {"idle", "reclaim"}
      /\ UNCHANGED <<next, prev, freeSeq, freeSeqEnd>>
  BY DEF InsertFirst, AfterInsert, Idle, links
<1>2. Hand = 1 /\ Hand' = 0 BY <1>1 DEF Hand
<1>3. s \in [1 .. N -> Entries] BY DEF Order
<1>4. k = 0 /\ n \in Nat /\ n + 1 < N BY <1>1, <1>2 DEF Layout
<1>5. n = k
  <2>1. ASSUME n > k PROVE FALSE
    <3>1. ioSeq = s[1] BY <2>1, <1>4 DEF Layout
    <3>2. s[1] \in Entries BY <1>3, EntryFacts
    <3>3. QED BY <3>1, <3>2, <1>1, EntryFacts
  <2>2. QED BY <2>1, <1>4
<1>6. disp.entry = s[1] BY <1>2, <1>4, <1>5 DEF Layout
<1>7. next[s[1]] = None /\ prev[s[1]] = None BY <1>1, <1>6, AllStored
<1>8. Layout(s, 0, 1)'
  <2>1. \A i \in 1 .. N - 1 : i \notin {0, 1} => next'[s[i]] = s[i + 1]
    BY <1>1, <1>2, <1>4, <1>5 DEF Layout
  <2>2. next'[s[N]] = None /\ freeSeq' = s[2] /\ freeSeqEnd' = s[N]
    BY <1>1, <1>2, <1>4, <1>5 DEF Layout
  <2>3. \A i \in 0 + 1 .. 0 + 1 - 1 : prev'[s[i + 1]] = s[i] OBVIOUS
  <2>4. QED BY <2>1, <2>2, <2>3, <1>1, <1>2, <1>4, <1>5, <1>6, <1>7 DEF Layout
<1>9. QED BY <1>2, <1>4, <1>5, <1>6, <1>8

LEMMA InsertHeadLayout ==
  ASSUME TypeOK, Stored, NEW s, NEW p, NEW k, NEW n, Order(s, p), Layout(s, k, n),
         n > k, InsertHead
  PROVE  /\ k = 0 /\ Hand = 1 /\ Hand' = 0 /\ disp.entry = s[n + 1]
         /\ Layout(Moved(s, 1, n + 1), 0, n + 1)'
<1> DEFINE z == Moved(s, 1, n + 1)
<1>1. /\ disp.pc = "seek"
      /\ prev' = [prev EXCEPT ![ioSeq] = disp.entry]
      /\ next' = [next EXCEPT ![disp.entry] = ioSeq]
      /\ ioSeq' = disp.entry
      /\ disp'.pc \in {"idle", "reclaim"}
      /\ UNCHANGED <<ioSeqEnd, freeSeq, freeSeqEnd>>
  BY DEF InsertHead, AfterInsert, Idle
<1>2. Hand = 1 /\ Hand' = 0 BY <1>1 DEF Hand
<1>3. /\ s \in [1 .. N -> Entries] /\ \A i, j \in 1 .. N : s[i] = s[j] => i = j
      /\ \A i \in 1 .. N : s[i] \in Entries
  BY DEF Order
<1>4. /\ k = 0 /\ n \in Nat /\ n + 1 < N /\ disp.entry = s[n + 1]
      /\ ioSeq = s[1] /\ ioSeqEnd = s[n] /\ next[s[n]] = None
      /\ \A i \in 1 .. n - 1 : prev[s[i + 1]] = s[i]
      /\ next[s[N]] = None /\ freeSeq = s[n + 2] /\ freeSeqEnd = s[N]
      /\ \A i \in 1 .. N - 1 : i \notin {n, n + 1} => next[s[i]] = s[i + 1]
  BY <1>1, <1>2 DEF Layout
<1>5. prev[s[n + 1]] = None BY <1>1, <1>4, AllStored
<1>6. /\ \A i \in 1 .. N : next'[s[i]] = IF i = n + 1 THEN s[1] ELSE next[s[i]]
      /\ \A i \in 1 .. N : prev'[s[i]] = IF i = 1 THEN s[n + 1] ELSE prev[s[i]]
  <2>1. n + 1 \in 1 .. N /\ 1 \in 1 .. N BY <1>4, EntryFacts
  <2>2. QED BY <2>1, <1>1, <1>3, <1>4 DEF TypeOK
<1>7. /\ z[1] = s[n + 1]
      /\ \A i \in 2 .. n + 1 : z[i] = s[i - 1]
      /\ \A i \in n + 2 .. N : z[i] = s[i]
  BY <1>4, EntryFacts DEF Moved
<1>8. Layout(z, 0, n + 1)'
  <2> HIDE DEF z
  <2>1. ASSUME NEW i \in 1 .. N - 1, i # n + 1 PROVE next'[z[i]] = z[i + 1]
    <3>1. CASE i = 1
      <4>1. z[2] = s[1] BY <1>7, <1>4
      <4>2. n + 1 \in 1 .. N BY <1>4, EntryFacts
      <4>3. QED BY <3>1, <4>1, <4>2, <1>6, <1>7
    <3>2. CASE i \in 2 .. n
      <4>1. z[i] = s[i - 1] /\ z[i + 1] = s[i] BY <3>2, <1>4, <1>7
      <4>2. /\ i - 1 \in 1 .. N - 1 /\ i - 1 \notin {n, n + 1} /\ (i - 1) + 1 = i
            /\ i - 1 \in 1 .. N /\ i - 1 # n + 1
        BY <3>2, <1>4, EntryFacts
      <4>3. next[s[i - 1]] = s[i] BY <4>2, <1>4
      <4>4. QED BY <4>1, <4>2, <4>3, <1>6
    <3>3. CASE i \in n + 2 .. N - 1
      <4>1. z[i] = s[i] /\ z[i + 1] = s[i + 1] /\ i \in 1 .. N /\ i # n + 1
        BY <3>3, <1>4, <1>7, EntryFacts
      <4>2. next[s[i]] = s[i + 1] BY <3>3, <1>4
      <4>3. QED BY <4>1, <4>2, <1>6
    <3>4. QED BY <3>1, <3>2, <3>3, <2>1, <1>4, EntryFacts
  <2>2. next'[z[N]] = None
    <3>1. N \in n + 2 .. N /\ N \in 1 .. N /\ N # n + 1 BY <1>4, EntryFacts
    <3>2. QED BY <3>1, <1>4, <1>6, <1>7
  <2>3. ioSeq' = z[1] /\ ioSeqEnd' = z[n + 1]
    <3>1. n + 1 \in 2 .. n + 1 /\ (n + 1) - 1 = n BY <1>4
    <3>2. z[n + 1] = s[n] BY <3>1, <1>7
    <3>3. QED BY <3>2, <1>1, <1>4, <1>7
  <2>4. next'[z[n + 1]] = None
    <3>1. n + 1 \in 2 .. n + 1 /\ (n + 1) - 1 = n /\ n \in 1 .. N /\ n # n + 1
      BY <1>4, EntryFacts
    <3>2. z[n + 1] = s[n] BY <3>1, <1>7
    <3>3. QED BY <3>1, <3>2, <1>4, <1>6
  <2>5. prev'[z[1]] = None
    <3>1. n + 1 \in 1 .. N /\ n + 1 # 1 BY <1>4, EntryFacts
    <3>2. QED BY <3>1, <1>5, <1>6, <1>7
  <2>6. ASSUME NEW i \in 1 .. n PROVE prev'[z[i + 1]] = z[i]
    <3>1. z[i + 1] = s[i] /\ i \in 1 .. N
      <4>1. i + 1 \in 2 .. n + 1 /\ (i + 1) - 1 = i /\ i \in 1 .. N BY <1>4, EntryFacts
      <4>2. QED BY <4>1, <1>7
    <3>2. CASE i = 1 BY <3>1, <3>2, <1>6, <1>7
    <3>3. CASE i # 1
      <4>1. i \in 2 .. n + 1 /\ i - 1 \in 1 .. n - 1 /\ (i - 1) + 1 = i BY <3>3, <1>4
      <4>2. prev[s[i]] = s[i - 1] BY <4>1, <1>4
      <4>3. z[i] = s[i - 1] BY <4>1, <1>7
      <4>4. QED BY <3>1, <3>3, <4>2, <4>3, <1>6
    <3>4. QED BY <3>2, <3>3
  <2>7. freeSeq' = z[n + 2] /\ freeSeqEnd' = z[N]
    <3>1. n + 2 \in n + 2 .. N /\ N \in n + 2 .. N BY <1>4, EntryFacts
    <3>2. QED BY <3>1, <1>1, <1>4, <1>7
  <2>8. QED
    <3> DEFINE m == n + 1
    <3>1. /\ m \in Nat /\ 0 < m /\ m < N
          /\ \A i \in 1 .. N - 1 : i # m => next'[z[i]] = z[i + 1]
          /\ \A i \in 1 .. m - 1 : prev'[z[i + 1]] = z[i]
          /\ ioSeqEnd' = z[m] /\ next'[z[m]] = None /\ freeSeq' = z[m + 1]
      BY <1>4, <2>1, <2>3, <2>4, <2>6, <2>7
    <3> HIDE DEF m
    <3>2. Layout(z, 0, m)'
      BY <3>1, <2>2, <2>3, <2>5, <2>7, <1>1, <1>2, LayoutMade
    <3>3. QED BY <3>2 DEF m
<1>9. QED BY <1>2, <1>4, <1>8

LEMMA InsertAfterLayout ==
  ASSUME TypeOK, Stored, NEW s, NEW p, NEW k, NEW n, Order(s, p), Layout(s, k, n),
         disp.at # None => p[disp.at] \in 1 .. n,
         InsertAfter, NEW j, j = p[disp.at]
  PROVE  /\ k = 0 /\ Hand = 1 /\ Hand' = 0 /\ disp.entry = s[n + 1]
         /\ j \in 1 .. n /\ s[j] = disp.at
         /\ Layout(Moved(s, j + 1, n + 1), 0, n + 1)'
<1> DEFINE e == disp.entry
           at == disp.at
           after == next[at]
           z == Moved(s, j + 1, n + 1)
<1>1. /\ disp.pc = "seek" /\ at # None
      /\ next' = [next EXCEPT ![e] = after, ![at] = e]
      /\ prev' = IF after = None THEN [prev EXCEPT ![e] = at]
                                 ELSE [prev EXCEPT ![e] = at, ![after] = e]
      /\ ioSeqEnd' = IF after = None THEN e ELSE ioSeqEnd
      /\ disp'.pc \in {"idle", "reclaim"}
      /\ UNCHANGED <<ioSeq, freeSeq, freeSeqEnd>>
  BY DEF InsertAfter, AfterInsert, Idle
<1>2. Hand = 1 /\ Hand' = 0 BY <1>1 DEF Hand
<1>3. /\ s \in [1 .. N -> Entries] /\ \A i, l \in 1 .. N : s[i] = s[l] => i = l
      /\ \A i \in 1 .. N : s[i] \in Entries
      /\ \A x \in Entries : s[p[x]] = x
  BY DEF Order
<1>10. k = 0 /\ Layout(s, 0, n) BY <1>1, NoChain
<1>4. /\ n \in Nat /\ n + 1 < N /\ e = s[n + 1]
      /\ next[s[N]] = None /\ freeSeq = s[n + 2] /\ freeSeqEnd = s[N]
      /\ \A i \in 1 .. N - 1 : i \notin {n, n + 1} => next[s[i]] = s[i + 1]
  BY <1>1, <1>2, <1>10 DEF Layout
<1>5. j \in 1 .. n /\ s[j] = at
  <2>1. at \in Entries BY <1>1 DEF TypeOK, Places
  <2>2. QED BY <2>1, <1>1, <1>3
<1>6. /\ n > 0 /\ ioSeq = s[1] /\ ioSeqEnd = s[n] /\ next[s[n]] = None /\ prev[s[1]] = None
      /\ \A i \in 1 .. n - 1 : prev[s[i + 1]] = s[i]
  BY <1>4, <1>5, <1>10 DEF Layout
<1>7. after = IF j < n THEN s[j + 1] ELSE None
  <2>1. CASE j < n
    <3>1. j \in 1 .. N - 1 /\ j \notin {n, n + 1} BY <2>1, <1>4, <1>5, EntryFacts
    <3>2. next[s[j]] = s[j + 1] BY <3>1, <1>4
    <3>3. QED BY <3>2, <2>1, <1>5
  <2>2. CASE j = n BY <2>2, <1>5, <1>6
  <2>3. QED BY <2>1, <2>2, <1>4, <1>5
<1> HIDE DEF after, z
<1>8. /\ j \in 1 .. N /\ n + 1 \in 1 .. N /\ j # n + 1 /\ j + 1 \in 1 .. N
      /\ n \in 1 .. N /\ N \in 1 .. N
  <2>1. n \in Nat /\ n + 1 < N /\ N \in Nat /\ j \in 1 .. n BY <1>4, <1>5, EntryFacts
  <2>2. QED BY <2>1
<1>9. s[j + 1] \in Entries /\ s[j] \in Entries /\ s[n + 1] \in Entries /\ s[j + 1] # None
  <2>1. None \notin Entries BY EntryFacts
  <2>2. QED BY <1>3, <1>8, <2>1
<1>11. \A i \in 1 .. N :
         next'[s[i]] = IF i = n + 1 THEN after ELSE IF i = j THEN s[n + 1] ELSE next[s[i]]
  <2>1. \A i \in 1 .. N : /\ s[i] \in Entries
                          /\ s[i] = e <=> i = n + 1
                          /\ s[i] = at <=> i = j
    BY <1>3, <1>4, <1>5, <1>8
  <2>2. next \in [Entries -> Entries \cup {None}] BY DEF TypeOK
  <2>3. s[j] # s[n + 1] BY <1>3, <1>8
  <2>4. QED
    <3> HIDE DEF e, at
    <3>1. ASSUME NEW i \in 1 .. N
          PROVE  next'[s[i]] = IF i = n + 1 THEN after ELSE IF i = j THEN s[n + 1] ELSE next[s[i]]
      <4>1. CASE i = n + 1 BY <4>1, <2>1, <2>2, <1>1, <1>8
      <4>2. CASE i = j BY <4>2, <2>1, <2>2, <1>1, <1>4
      <4>3. CASE i # n + 1 /\ i # j BY <4>3, <2>1, <2>2, <1>1
      <4>4. QED BY <4>1, <4>2, <4>3
    <3>2. QED BY <3>1
<1>12. \A i \in 1 .. N :
         prev'[s[i]] = IF i = n + 1 THEN s[j]
                       ELSE IF i = j + 1 THEN s[n + 1] ELSE prev[s[i]]
  <2>1. prev \in [Entries -> Entries \cup {None}] BY DEF TypeOK
  <2>2. CASE j < n
    <3>1. after = s[j + 1] /\ after # None BY <2>2, <1>7, <1>9
    <3>2. prev' = [prev EXCEPT ![s[n + 1]] = s[j], ![s[j + 1]] = s[n + 1]]
      BY <3>1, <1>1, <1>4, <1>5
    <3>3. \A i \in 1 .. N : /\ s[i] \in Entries
                            /\ s[i] = s[n + 1] <=> i = n + 1
                            /\ s[i] = s[j + 1] <=> i = j + 1
      BY <1>3, <1>8
    <3>4. j + 1 # n + 1 BY <2>2, <1>5, <1>4
    <3>5. QED BY <3>2, <3>3, <3>4, <2>1
  <2>3. CASE j = n
    <3>1. after = None BY <2>3, <1>7, <1>4
    <3>2. prev' = [prev EXCEPT ![s[n + 1]] = s[j]] BY <3>1, <1>1, <1>4, <1>5
    <3>3. \A i \in 1 .. N : s[i] \in Entries /\ (s[i] = s[n + 1] <=> i = n + 1)
      BY <1>3, <1>8
    <3>4. QED BY <3>2, <3>3, <2>1, <2>3
  <2>4. QED BY <2>2, <2>3, <1>4, <1>5
<1>13. /\ \A i \in 1 .. j : z[i] = s[i]
       /\ z[j + 1] = s[n + 1]
       /\ \A i \in j + 2 .. n + 1 : z[i] = s[i - 1]
       /\ \A i \in n + 2 .. N : z[i] = s[i]
  BY <1>4, <1>5, <1>8, EntryFacts DEF Moved, z
<1>14. ASSUME NEW i \in 1 .. N - 1, i # n + 1 PROVE next'[z[i]] = z[i + 1]
  <2>1. CASE i < j
    <3>1. i \in 1 .. j /\ i + 1 \in 1 .. j /\ i \in 1 .. N /\ i \notin {n, n + 1} /\ i # j
      BY <2>1, <1>4, <1>5, EntryFacts
    <3>2. next[s[i]] = s[i + 1] BY <3>1, <1>4
    <3>3. QED BY <3>1, <3>2, <1>11, <1>13
  <2>2. CASE i = j
    <3>1. z[i] = s[j] /\ z[i + 1] = s[n + 1] BY <2>2, <1>5, <1>13
    <3>2. QED BY <3>1, <1>8, <1>11
  <2>3. CASE i = j + 1
    <3>1. j < n /\ z[i] = s[n + 1] BY <2>3, <1>14, <1>4, <1>5, <1>13
    <3>2. i + 1 \in j + 2 .. n + 1 /\ (i + 1) - 1 = j + 1 BY <2>3, <3>1, <1>4, <1>5
    <3>3. z[i + 1] = s[j + 1] BY <3>2, <1>13
    <3>4. QED BY <3>1, <3>3, <1>7, <1>8, <1>11
  <2>4. CASE i \in j + 2 .. n
    <3>1. i \in j + 2 .. n + 1 /\ i + 1 \in j + 2 .. n + 1 /\ (i + 1) - 1 = i
      BY <2>4, <1>4, <1>5
    <3>2. z[i] = s[i - 1] /\ z[i + 1] = s[i] BY <3>1, <1>13
    <3>3. /\ i - 1 \in 1 .. N - 1 /\ i - 1 \notin {n, n + 1} /\ (i - 1) + 1 = i
          /\ i - 1 \in 1 .. N /\ i - 1 # n + 1 /\ i - 1 # j
      BY <2>4, <1>4, <1>5, EntryFacts
    <3>4. next[s[i - 1]] = s[i] BY <3>3, <1>4
    <3>5. QED BY <3>2, <3>3, <3>4, <1>11
  <2>5. CASE i > n + 1
    <3>1. /\ i \in n + 2 .. N /\ i + 1 \in n + 2 .. N /\ i \in 1 .. N
          /\ i \notin {n, n + 1} /\ i # j
      BY <2>5, <1>4, <1>5, EntryFacts
    <3>2. next[s[i]] = s[i + 1] BY <3>1, <1>4
    <3>3. QED BY <3>1, <3>2, <1>11, <1>13
  <2>6. i < j \/ i = j \/ i = j + 1 \/ i \in j + 2 .. n \/ i > n + 1
    <3>1. n \in Nat /\ i \in Nat BY <1>4, EntryFacts
    <3>2. QED BY <3>1, <1>5, <1>14
  <2>7. QED BY <2>1, <2>2, <2>3, <2>4, <2>5, <2>6
<1>15. next'[z[N]] = None
  <2>1. N \in n + 2 .. N /\ N # n + 1 /\ N # j BY <1>4, <1>5, EntryFacts
  <2>2. QED BY <2>1, <1>4, <1>8, <1>11, <1>13
<1>16. ioSeqEnd' = z[n + 1] /\ next'[z[n + 1]] = None
  <2>1. CASE j = n
    <3>1. after = None /\ z[n + 1] = s[n + 1] BY <2>1, <1>4, <1>7, <1>13
    <3>2. QED BY <3>1, <1>1, <1>4, <1>8, <1>11
  <2>2. CASE j < n
    <3>1. n + 1 \in j + 2 .. n + 1 /\ (n + 1) - 1 = n BY <2>2, <1>4, <1>5
    <3>2. z[n + 1] = s[n] BY <3>1, <1>13
    <3>3. after # None BY <2>2, <1>7, <1>9
    <3>4. n # n + 1 /\ n # j BY <2>2, <1>4, <1>5
    <3>5. QED BY <3>2, <3>3, <3>4, <1>1, <1>6, <1>8, <1>11
  <2>3. QED BY <2>1, <2>2, <1>4, <1>5
<1>17. ioSeq' = z[1] /\ prev'[z[1]] = None
  <2>1. 1 \in 1 .. j /\ 1 \in 1 .. N /\ 1 # n + 1 /\ 1 # j + 1 BY <1>4, <1>5, <1>8
  <2>2. QED BY <2>1, <1>1, <1>6, <1>12, <1>13
<1>18. ASSUME NEW i \in 1 .. n PROVE prev'[z[i + 1]] = z[i]
  <2>1. CASE i < j
    <3>1. /\ i \in 1 .. j /\ i + 1 \in 1 .. j /\ i + 1 \in 1 .. N
          /\ i + 1 # n + 1 /\ i + 1 # j + 1 /\ i \in 1 .. n - 1
      BY <2>1, <1>4, <1>5, <1>8
    <3>2. QED BY <3>1, <1>6, <1>12, <1>13
  <2>2. CASE i = j
    <3>1. z[i] = s[j] /\ z[i + 1] = s[n + 1] BY <2>2, <1>5, <1>13
    <3>2. QED BY <3>1, <1>8, <1>12
  <2>3. CASE i = j + 1
    <3>1. /\ i + 1 \in j + 2 .. n + 1 /\ (i + 1) - 1 = j + 1 /\ j + 1 # n + 1
      BY <2>3, <1>4, <1>5
    <3>2. z[i] = s[n + 1] /\ z[i + 1] = s[j + 1] BY <2>3, <3>1, <1>13
    <3>3. QED BY <3>1, <3>2, <1>8, <1>12
  <2>4. CASE i > j + 1
    <3>1. /\ i + 1 \in j + 2 .. n + 1 /\ (i + 1) - 1 = i /\ i \in j + 2 .. n + 1
          /\ i - 1 \in 1 .. n - 1 /\ (i - 1) + 1 = i
          /\ i \in 1 .. N /\ i # n + 1 /\ i # j + 1
      BY <2>4, <1>4, <1>5, EntryFacts
    <3>2. z[i] = s[i - 1] /\ z[i + 1] = s[i] BY <3>1, <1>13
    <3>3. prev[s[i]] = s[i - 1] BY <3>1, <1>6
    <3>4. QED BY <3>1, <3>2, <3>3, <1>12
  <2>5. QED BY <2>1, <2>2, <2>3, <2>4, <1>4, <1>5
<1>19. freeSeq' = z[n + 2] /\ freeSeqEnd' = z[N]
  <2>1. n + 2 \in n + 2 .. N /\ N \in n + 2 .. N BY <1>4, EntryFacts
  <2>2. QED BY <2>1, <1>1, <1>4, <1>13
<1>20. Layout(z, 0, n + 1)'
  <2> DEFINE m == n + 1
  <2>1. /\ m \in Nat /\ 0 < m /\ m < N
        /\ \A i \in 1 .. N - 1 : i # m => next'[z[i]] = z[i + 1]
        /\ \A i \in 1 .. m - 1 : prev'[z[i + 1]] = z[i]
        /\ ioSeqEnd' = z[m] /\ next'[z[m]] = None /\ freeSeq' = z[m + 1]
    BY <1>4, <1>14, <1>16, <1>18, <1>19
  <2> HIDE DEF m
  <2>2. Hand' = 0 /\ disp'.pc \in {"idle", "reclaim"} BY <1>1, <1>2
  <2>3. Layout(z, 0, m)'
    BY <2>1, <2>2, <1>15, <1>17, <1>19, LayoutMade
  <2>4. QED BY <2>3 DEF m
<1>21. QED BY <1>2, <1>4, <1>5, <1>10, <1>20 DEF z

\* The entries reclaimed are the first j of the queue, all of them done.
LEMMA ReclaimLayout ==
  ASSUME TypeOK, NEW s, NEW p, NEW k, NEW n, Order(s, p), Layout(s, k, n), Reclaim
  PROVE  /\ k = 0 /\ Hand = 0 /\ Hand' = 0
         /\ \E j \in 1 .. n : /\ \A i \in 1 .. j : Reclaimable(s[i])
                              /\ disp' = [pc |-> "cut", first |-> s[1], last |-> s[j]]
                              /\ ioSeq' \in Entries \cup {None}
                              /\ prev' \in [Entries -> Entries \cup {None}]
                              /\ Layout(s, j, n)'
<1> DEFINE at == From(ioSeq)
           P(i) == /\ \A l \in 0 .. i : at[l] \in Entries /\ Reclaimable(at[l])
                   /\ next[at[i]] = None \/ ~Reclaimable(next[at[i]])
           c == CHOOSE i \in Entries : P(i)
           after == next[at[c]]
<1>1. /\ disp.pc = "reclaim" /\ ioSeq # None /\ Reclaimable(ioSeq)
      /\ ioSeq' = after
      /\ prev' = IF after = None THEN prev ELSE [prev EXCEPT ![after] = None]
      /\ disp' = [pc |-> "cut", first |-> ioSeq, last |-> at[c]]
      /\ UNCHANGED <<next, ioSeqEnd, freeSeq, freeSeqEnd>>
  BY DEF Reclaim
<1>2. Hand = 0 /\ Hand' = 0 BY <1>1 DEF Hand
<1>3. k = 0 /\ Layout(s, 0, n) BY <1>1, NoChain
<1>4. /\ n \in Nat /\ n < N /\ n > 0
      /\ ioSeq = s[1] /\ ioSeqEnd = s[n] /\ next[s[n]] = None /\ prev[s[1]] = None
      /\ \A i \in 1 .. n - 1 : prev[s[i + 1]] = s[i]
      /\ next[s[N]] = None /\ freeSeq = s[n + 1] /\ freeSeqEnd = s[N]
      /\ \A i \in 1 .. N - 1 : i # n => next[s[i]] = s[i + 1]
  <2>1. n \in Nat /\ n < N BY <1>2, <1>3, EntryFacts DEF Layout
  <2>2. n > 0 BY <1>1, <1>3, <2>1 DEF Layout
  <2>3. QED BY <2>1, <2>2, <1>2, <1>3 DEF Layout
<1>5. /\ \A i \in 1 .. N : s[i] \in Entries
      /\ \A i, l \in 1 .. N : s[i] = s[l] => i = l
  BY DEF Order
<1>6. /\ \A i \in 0 .. n - 1 : i \in Entries /\ at[i] = s[i + 1]
      /\ \A i \in Entries : at[i] \in Entries => i \in 0 .. n - 1
  <2>1. From(ioSeq) = [i \in Entries |-> IF 0 + 1 + i <= n THEN s[0 + 1 + i] ELSE None]
    BY <1>3, ListsAre
  <2>2. QED BY <2>1, <1>4, EntryFacts
<1>7. \A i \in 1 .. n : next[s[i]] = IF i < n THEN s[i + 1] ELSE None
  <2>1. ASSUME NEW i \in 1 .. n PROVE next[s[i]] = IF i < n THEN s[i + 1] ELSE None
    <3>1. CASE i < n
      <4>1. i \in 1 .. N - 1 /\ i # n BY <3>1, <1>4, EntryFacts
      <4>2. QED BY <3>1, <4>1, <1>4
    <3>2. CASE i = n BY <3>2, <1>4
    <3>3. QED BY <3>1, <3>2, <1>4
  <2>2. QED BY <2>1
<1>8. \E i \in Entries : P(i)
  <2> DEFINE D == {i \in 1 .. n : i = n \/ ~Reclaimable(s[i + 1])}
  <2>1. PICK d \in D : \A i \in D : d <= i
    <3>1. 1 .. n \subseteq Nat /\ n \in 1 .. n BY <1>4
    <3>2. D \subseteq Nat /\ n \in D BY <3>1
    <3>3. QED BY <3>2, NatMin
  <2>2. d \in 1 .. n /\ d - 1 \in 0 .. n - 1 /\ (d - 1) + 1 = d BY <2>1, <1>4
  <2>3. ASSUME NEW l \in 0 .. d - 1 PROVE at[l] \in Entries /\ Reclaimable(at[l])
    <3>1. l \in 0 .. n - 1 /\ l + 1 \in 1 .. N BY <2>2, <1>4, EntryFacts
    <3>2. at[l] = s[l + 1] /\ s[l + 1] \in Entries BY <3>1, <1>5, <1>6
    <3>3. CASE l = 0
      <4>1. s[1] = ioSeq BY <1>4
      <4>2. Reclaimable(ioSeq) BY <1>1
      <4>3. l + 1 = 1 BY <3>3
      <4>4. QED BY <3>2, <4>1, <4>2, <4>3
    <3>4. CASE l # 0
      <4>1. l \in 1 .. n /\ l # n /\ ~(d <= l) BY <3>4, <2>2, <1>4
      <4>2. l \notin D BY <4>1, <2>1
      <4>3. Reclaimable(s[l + 1]) BY <4>1, <4>2
      <4>4. QED BY <3>2, <4>3
    <3>5. QED BY <3>3, <3>4
  <2>4. next[at[d - 1]] = None \/ ~Reclaimable(next[at[d - 1]])
    <3>1. at[d - 1] = s[d] BY <2>2, <1>6
    <3>2. d = n \/ ~Reclaimable(s[d + 1]) BY <2>1
    <3>3. QED BY <3>1, <3>2, <2>2, <1>4, <1>7
  <2>5. d - 1 \in Entries BY <2>2, <1>6
  <2>6. QED BY <2>3, <2>4, <2>5
<1>9. c \in Entries /\ P(c)
  <2> HIDE DEF P
  <2>1. QED BY <1>8
<1> HIDE DEF c
<1>10. PICK j \in 1 .. n : c \in 0 .. n - 1 /\ j = c + 1
  <2>1. c \in Nat BY <1>9, EntryFacts
  <2>2. c \in 0 .. c BY <2>1
  <2>3. at[c] \in Entries BY <1>9, <2>2
  <2>4. c \in 0 .. n - 1 BY <2>3, <1>6, <1>9
  <2>5. QED BY <2>4, <1>4
<1>11. at[c] = s[j] BY <1>6, <1>10
<1>12. \A i \in 1 .. j : Reclaimable(s[i])
  <2>1. ASSUME NEW i \in 1 .. j PROVE Reclaimable(s[i])
    <3>1. i - 1 \in 0 .. c /\ i - 1 \in 0 .. n - 1 /\ (i - 1) + 1 = i BY <1>10, <1>4
    <3>2. at[i - 1] = s[i] BY <3>1, <1>6
    <3>3. Reclaimable(at[i - 1]) BY <3>1, <1>9
    <3>4. QED BY <3>2, <3>3
  <2>2. QED BY <2>1
<1> HIDE DEF at
<1>13. after = IF j < n THEN s[j + 1] ELSE None BY <1>7, <1>10, <1>11
<1> HIDE DEF after
<1>14. /\ j \in Nat /\ j > 0 /\ j <= n /\ 1 \in 1 .. N /\ j + 1 \in 1 .. N
       /\ s[1] \in Entries /\ s[j + 1] \in Entries /\ s[j + 1] # None
  <2>1. j \in Nat /\ j > 0 /\ j <= n BY <1>10, <1>4
  <2>2. 1 \in 1 .. N /\ j + 1 \in 1 .. N BY <2>1, <1>4, EntryFacts
  <2>3. QED BY <2>1, <2>2, <1>5, EntryFacts
<1>15. prev' \in [Entries -> Entries \cup {None}] /\ ioSeq' \in Entries \cup {None}
  BY <1>1, <1>13, <1>14 DEF TypeOK
<1>16. \A i \in 1 .. N : prev'[s[i]] = IF i = j + 1 /\ j < n THEN None ELSE prev[s[i]]
  <2>1. prev \in [Entries -> Entries \cup {None}] BY DEF TypeOK
  <2>2. CASE j < n
    <3>1. prev' = [prev EXCEPT ![s[j + 1]] = None] BY <2>2, <1>1, <1>13, <1>14
    <3>2. \A i \in 1 .. N : s[i] = s[j + 1] <=> i = j + 1 BY <1>5, <1>14
    <3>3. QED BY <3>1, <3>2, <2>1, <2>2, <1>5
  <2>3. CASE ~(j < n) BY <2>3, <1>1, <1>13
  <2>4. QED BY <2>2, <2>3
<1>17. Layout(s, j, n)'
  <2>1. n + Hand' = n /\ n + Hand' + 1 = n + 1 BY <1>2, <1>4
  <2>2. \A i \in 1 .. N - 1 : i \notin {j, n, n + Hand'} => next'[s[i]] = s[i + 1]
    BY <1>1, <1>4
  <2>3. n = j => ioSeq' = None BY <1>1, <1>13, <1>14
  <2>4. ASSUME n > j
        PROVE  /\ ioSeq' = s[j + 1] /\ ioSeqEnd' = s[n]
               /\ next'[s[n]] = None /\ prev'[s[j + 1]] = None
               /\ \A i \in j + 1 .. n - 1 : prev'[s[i + 1]] = s[i]
    <3>1. ioSeq' = s[j + 1] /\ prev'[s[j + 1]] = None BY <2>4, <1>1, <1>13, <1>14, <1>16
    <3>2. ASSUME NEW i \in j + 1 .. n - 1 PROVE prev'[s[i + 1]] = s[i]
      <4>1. i \in 1 .. n - 1 /\ i + 1 \in 1 .. N /\ i + 1 # j + 1
        BY <1>14, <1>4, EntryFacts
      <4>2. QED BY <4>1, <1>4, <1>16
    <3>3. QED BY <3>1, <3>2, <1>1, <1>4
  <2>5. freeSeq' = s[n + Hand' + 1] /\ freeSeqEnd' = s[N] /\ next'[s[N]] = None
    BY <2>1, <1>1, <1>4
  <2>6. disp'.pc = "cut" /\ disp'.first = s[1] /\ disp'.last = s[j]
    BY <1>1, <1>4, <1>11
  <2>7. next'[s[j]] = ioSeq' BY <1>1, <1>7, <1>10, <1>13
  <2>8. n \in Nat /\ j <= n /\ n + Hand' < N BY <2>1, <1>4, <1>14
  <2>9. QED
    BY <2>2, <2>3, <2>4, <2>5, <2>6, <2>7, <2>8, <1>2, <1>14 DEF Layout
<1>18. QED BY <1>1, <1>2, <1>3, <1>4, <1>10, <1>11, <1>12, <1>15, <1>17

LEMMA CutLayout ==
  ASSUME TypeOK, NEW s, NEW p, NEW k, NEW n, Order(s, p), Layout(s, k, n), Cut
  PROVE  Layout(s, k, n)' /\ k > 0 /\ Hand = 0 /\ Hand' = 0
<1>1. /\ disp.pc = "cut" /\ disp'.pc = "join"
      /\ disp'.first = disp.first /\ disp'.last = disp.last
      /\ next' = [next EXCEPT ![disp.last] = None]
      /\ UNCHANGED <<prev, lists>>
  BY DEF Cut, TypeOK, Places
<1>2. Hand = 0 /\ Hand' = 0 BY <1>1 DEF Hand
<1>3. /\ k \in Nat /\ k > 0 /\ n \in Nat /\ k <= n /\ n < N /\ n + Hand = n /\ n + Hand' = n
      /\ disp.first = s[1] /\ disp.last = s[k]
  BY <1>1, <1>2, EntryFacts DEF Layout
<1>4. \A i \in 1 .. N : s[i] \in Entries /\ (s[i] = s[k] <=> i = k)
  <2>1. k \in 1 .. N BY <1>3, SizeIs
  <2>2. \A i \in 1 .. N : s[i] \in Entries /\ p[s[i]] = i BY DEF Order
  <2>3. QED BY <2>1, <2>2
<1>5. \A i \in 1 .. N : next'[s[i]] = IF i = k THEN None ELSE next[s[i]]
  <2>1. next \in [Entries -> Entries \cup {None}] BY DEF TypeOK
  <2>2. TAKE i \in 1 .. N
  <2>3. s[i] \in Entries /\ (s[i] = disp.last <=> i = k) BY <1>3, <1>4
  <2>4. QED BY <1>1, <2>1, <2>3
<1>6. \A i \in 1 .. N - 1 : i \notin {k, n, n + Hand'} => next'[s[i]] = s[i + 1]
  BY <1>2, <1>3, <1>5, EntryFacts DEF Layout
<1>7. next'[s[N]] = None /\ next'[s[k]] = None
  <2>1. N \in 1 .. N /\ N # k /\ k \in 1 .. N BY <1>3, EntryFacts
  <2>2. next[s[N]] = None BY DEF Layout
  <2>3. QED BY <2>1, <2>2, <1>5
<1>8. ASSUME n > k PROVE next'[s[n]] = None
  <2>1. n \in 1 .. N /\ n # k BY <1>8, <1>3, EntryFacts
  <2>2. next[s[n]] = None BY <1>8 DEF Layout
  <2>3. QED BY <2>1, <2>2, <1>5
<1>9. /\ freeSeq' = s[n + Hand' + 1] /\ freeSeqEnd' = s[N]
      /\ n = k => ioSeq' = None
      /\ n > k => /\ ioSeq' = s[k + 1] /\ ioSeqEnd' = s[n] /\ prev'[s[k + 1]] = None
                  /\ \A i \in k + 1 .. n - 1 : prev'[s[i + 1]] = s[i]
  BY <1>1, <1>2 DEF Layout, lists
<1>10. Layout(s, k, n)'
  BY <1>1, <1>2, <1>3, <1>6, <1>7, <1>8, <1>9 DEF Layout
<1>11. QED BY <1>2, <1>3, <1>10

LEMMA JoinLayout ==
  ASSUME TypeOK, NEW s, NEW p, NEW k, NEW n, Order(s, p), Layout(s, k, n), Join
  PROVE  /\ k > 0 /\ Hand = 0 /\ Hand' = 0
         /\ Layout(Rotated(s, k), 0, n - k)'
<1> DEFINE z == Rotated(s, k)
           m == n - k
<1>1. /\ disp.pc = "join" /\ disp'.pc = "idle"
      /\ prev' = [prev EXCEPT ![disp.first] = freeSeqEnd]
      /\ next' = [next EXCEPT ![freeSeqEnd] = disp.first]
      /\ freeSeqEnd' = disp.last
      /\ UNCHANGED <<ioSeq, ioSeqEnd, freeSeq>>
  BY DEF Join, Idle
<1>2. Hand = 0 /\ Hand' = 0 BY <1>1 DEF Hand
<1>3. /\ k \in Nat /\ k > 0 /\ n \in Nat /\ k <= n /\ n < N /\ n + Hand = n
      /\ disp.first = s[1] /\ disp.last = s[k] /\ next[s[k]] = None
      /\ freeSeq = s[n + 1] /\ freeSeqEnd = s[N] /\ next[s[N]] = None
  BY <1>1, <1>2, EntryFacts DEF Layout
<1>4. \A i \in 1 .. N - 1 : i \notin {k, n} => next[s[i]] = s[i + 1]
  BY <1>2, <1>3 DEF Layout
<1>5. \A i \in 1 .. N : /\ s[i] \in Entries /\ (s[i] = s[N] <=> i = N)
                        /\ s[i] = s[1] <=> i = 1
  <2>1. 1 \in 1 .. N /\ N \in 1 .. N BY EntryFacts
  <2>2. \A i \in 1 .. N : s[i] \in Entries /\ p[s[i]] = i BY DEF Order
  <2>3. QED BY <2>1, <2>2
<1>6. /\ \A i \in 1 .. N : next'[s[i]] = IF i = N THEN s[1] ELSE next[s[i]]
      /\ \A i \in 1 .. N : prev'[s[i]] = IF i = 1 THEN s[N] ELSE prev[s[i]]
  BY <1>1, <1>3, <1>5 DEF TypeOK
<1>7. /\ \A i \in 1 .. N - k : z[i] = s[i + k]
      /\ \A i \in N - k + 1 .. N : z[i] = s[i + k - N]
  BY <1>3, EntryFacts DEF Rotated
<1>8. /\ m \in Nat /\ m + k = n /\ m < N - k
  BY <1>3, EntryFacts
<1> HIDE DEF z, m
<1>9. ASSUME NEW i \in 1 .. N - 1, i # m PROVE next'[z[i]] = z[i + 1]
  <2>1. CASE i < N - k
    <3>1. /\ i \in 1 .. N - k /\ i + 1 \in 1 .. N - k /\ i + k \in 1 .. N - 1
          /\ i + k \notin {k, n} /\ (i + 1) + k = (i + k) + 1 /\ i + k \in 1 .. N
          /\ i + k # N
      BY <2>1, <1>3, <1>8, <1>9, EntryFacts
    <3>2. next[s[i + k]] = s[(i + k) + 1] BY <3>1, <1>4
    <3>3. z[i] = s[i + k] /\ z[i + 1] = s[(i + k) + 1]
      <4>1. z[i + 1] = s[(i + 1) + k] BY <3>1, <1>7
      <4>2. QED BY <3>1, <4>1, <1>7
    <3>4. QED BY <3>1, <3>2, <3>3, <1>6
  <2>2. CASE i = N - k
    <3>1. /\ i \in 1 .. N - k /\ i + k = N /\ i + 1 \in N - k + 1 .. N
          /\ (i + 1) + k - N = 1 /\ N \in 1 .. N
      BY <2>2, <1>3, EntryFacts
    <3>2. z[i] = s[N] BY <3>1, <1>7
    <3>3. z[i + 1] = s[1]
      <4>1. z[i + 1] = s[(i + 1) + k - N] BY <3>1, <1>7
      <4>2. QED BY <3>1, <4>1
    <3>4. QED BY <3>1, <3>2, <3>3, <1>6
  <2>3. CASE i > N - k
    <3> DEFINE l == i + k - N
    <3>1. /\ i \in N - k + 1 .. N /\ i + 1 \in N - k + 1 .. N
          /\ l \in 1 .. N - 1 /\ l \notin {k, n} /\ (i + 1) + k - N = l + 1
          /\ l \in 1 .. N /\ l # N
      BY <2>3, <1>3, EntryFacts
    <3>2. z[i + 1] = s[(i + 1) + k - N] /\ z[i] = s[l] BY <3>1, <1>7
    <3>3. next[s[l]] = s[l + 1] BY <3>1, <1>4
    <3> HIDE DEF l
    <3>4. next'[s[l]] = next[s[l]] BY <3>1, <1>6
    <3>5. QED BY <3>1, <3>2, <3>3, <3>4
  <2>4. QED BY <2>1, <2>2, <2>3, <1>3, EntryFacts
<1>10. next'[z[N]] = None /\ z[N] = s[k]
  <2>1. N \in N - k + 1 .. N /\ N + k - N = k /\ k \in 1 .. N /\ k # N BY <1>3, EntryFacts
  <2>2. z[N] = s[k]
    <3>1. z[N] = s[N + k - N] BY <2>1, <1>7
    <3>2. QED BY <2>1, <3>1
  <2>3. QED BY <2>1, <2>2, <1>3, <1>6
<1>11. freeSeq' = z[m + 1]
  <2>1. m + 1 \in 1 .. N - k /\ (m + 1) + k = n + 1 BY <1>3, <1>8, EntryFacts
  <2>2. z[m + 1] = s[(m + 1) + k] BY <2>1, <1>7
  <2>3. QED BY <2>1, <2>2, <1>1, <1>3
<1>12. m = 0 => ioSeq' = None BY <1>1, <1>3, <1>8 DEF Layout
<1>13. ASSUME m > 0
       PROVE  /\ ioSeq' = z[1] /\ ioSeqEnd' = z[m]
              /\ next'[z[m]] = None /\ prev'[z[1]] = None
              /\ \A i \in 1 .. m - 1 : prev'[z[i + 1]] = z[i]
  <2>1. n > k BY <1>13, <1>3, <1>8
  <2>2. /\ ioSeq = s[k + 1] /\ ioSeqEnd = s[n] /\ next[s[n]] = None /\ prev[s[k + 1]] = None
        /\ \A i \in k + 1 .. n - 1 : prev[s[i + 1]] = s[i]
    BY <2>1 DEF Layout
  <2>3. z[1] = s[k + 1] /\ z[m] = s[n]
    <3>1. 1 \in 1 .. N - k /\ 1 + k = k + 1 /\ m \in 1 .. N - k BY <1>3, <1>8, <1>13, EntryFacts
    <3>2. z[1] = s[1 + k] /\ z[m] = s[m + k] BY <3>1, <1>7
    <3>3. QED BY <3>1, <3>2, <1>8
  <2>4. /\ k + 1 \in 1 .. N /\ k + 1 # 1 /\ n \in 1 .. N /\ n # N
    BY <2>1, <1>3, EntryFacts
  <2>5. next'[z[m]] = None /\ prev'[z[1]] = None BY <2>2, <2>3, <2>4, <1>6
  <2>6. ASSUME NEW i \in 1 .. m - 1 PROVE prev'[z[i + 1]] = z[i]
    <3> DEFINE l == i + k
    <3>1. /\ i \in 1 .. N - k /\ i + 1 \in 1 .. N - k /\ (i + 1) + k = l + 1
          /\ l \in k + 1 .. n - 1 /\ l + 1 \in 1 .. N /\ l + 1 # 1
      BY <1>3, <1>8, EntryFacts
    <3>2. z[i] = s[l] /\ z[i + 1] = s[(i + 1) + k] BY <3>1, <1>7
    <3> HIDE DEF l
    <3>3. prev[s[l + 1]] = s[l] BY <3>1, <2>2
    <3>4. prev'[s[l + 1]] = prev[s[l + 1]] BY <3>1, <1>6
    <3>5. QED BY <3>1, <3>2, <3>3, <3>4
  <2>7. QED BY <2>2, <2>3, <2>5, <2>6, <1>1
<1>14. Layout(z, 0, m)'
  <2>1. m + Hand' = m /\ m + Hand' + 1 = m + 1 BY <1>2, <1>8
  <2>2. \A i \in 1 .. N - 1 : i \notin {0, m, m + Hand'} => next'[z[i]] = z[i + 1]
    BY <1>9
  <2>3. freeSeq' = z[m + Hand' + 1] /\ freeSeqEnd' = z[N] BY <2>1, <1>1, <1>3, <1>10, <1>11
  <2>4. 0 <= m /\ m + Hand' < N BY <2>1, <1>3, <1>8, EntryFacts
  <2>5. m > 0 => /\ ioSeq' = z[0 + 1] /\ ioSeqEnd' = z[m]
                 /\ next'[z[m]] = None /\ prev'[z[0 + 1]] = None
                 /\ \A i \in 0 + 1 .. m - 1 : prev'[z[i + 1]] = z[i]
    BY <1>13
  <2>6. QED BY <2>2, <2>3, <2>4, <2>5, <1>1, <1>2, <1>8, <1>10, <1>12 DEF Layout
<1>15. QED BY <1>2, <1>3, <1>14 DEF z, m

------------------------------------------------------------------------------
(* Types, and the stores into the entry in hand *)

LEMMA TypeInit == Init => TypeOK
BY WorkQueueAssumption, EntryFacts DEF Init, TypeOK, Places, Idle, NoRequest, None

\* What an action of the worker may change.
LEMMA WorkerFrame ==
  ASSUME TypeOK, Worker
  PROVE  /\ UNCHANGED <<links, lists, disp, tag, target, internal>>
         /\ latest' >= latest
         /\ TypeOK'
<1>0. /\ work.curr \in Entries \/ work.pc = "begin"
      /\ work.pc = "begin" => work = [pc |-> "begin", curr |-> None]
      /\ work.pc # "begin" => work = [pc |-> work.pc, curr |-> work.curr] /\ work.curr \in Entries
  BY DEF TypeOK
<1>1. CASE Begin
  <2>1. work' = [pc |-> "clock", curr |-> ioSeq] /\ ioSeq \in Entries BY <1>1 DEF Begin, TypeOK
  <2>2. QED BY <2>1, <1>1 DEF Begin, TypeOK, links, lists, data, host
<1>2. CASE ReadClock
  <2>1. latest' \in 0 .. MaxTime /\ latest' >= latest
    BY <1>2, WorkQueueAssumption DEF ReadClock, TypeOK
  <2>2. work' = [pc |-> "check", curr |-> work.curr] BY <1>0, <1>2 DEF ReadClock, At, Goto
  <2>3. work.curr \in Entries BY <1>0, <1>2 DEF ReadClock, At
  <2>4. QED BY <2>1, <2>2, <2>3, <1>2 DEF ReadClock, TypeOK, links, lists, data, host
<1>3. CASE Check
  <2>1. work.curr \in Entries BY <1>0, <1>3 DEF Check, At
  <2>2. \/ work' = [pc |-> "advance", curr |-> work.curr]
        \/ work' = [pc |-> "copy", curr |-> work.curr]
    BY <1>0, <1>3 DEF Check, At, Goto
  <2>3. QED BY <2>1, <2>2, <1>3 DEF Check, TypeOK, links, lists, data, host
<1>4. CASE Copy
  <2>1. work.curr \in Entries BY <1>0, <1>4 DEF Copy, At
  <2>2. work' = [pc |-> "test", curr |-> work.curr] BY <1>0, <1>4 DEF Copy, At, Goto
  <2>3. phase' \in [Tags -> {"idle", "sent", "moved", "lost"}] BY <1>4 DEF Copy, TypeOK
  <2>4. copied' \in [Entries -> BOOLEAN] BY <1>4, <2>1 DEF Copy, TypeOK
  <2>5. QED BY <2>1, <2>2, <2>3, <2>4, <1>4 DEF Copy, TypeOK, links, lists
<1>5. CASE NotDue
  <2>1. work.curr \in Entries BY <1>0, <1>5 DEF NotDue, At
  <2>2. work' = [pc |-> "advance", curr |-> work.curr] BY <1>0, <1>5 DEF NotDue, At, Goto
  <2>3. QED BY <2>1, <2>2, <1>5 DEF NotDue, TypeOK, links, lists, data, host
<1>6. CASE Post
  <2>1. work.curr \in Entries BY <1>0, <1>6 DEF Post, At
  <2>2. work' = [pc |-> "mark", curr |-> work.curr] BY <1>0, <1>6 DEF Post, At, Goto
  <2>3. NoRequest \in [target : 0 .. MaxTime, internal : BOOLEAN]
    BY WorkQueueAssumption DEF NoRequest
  <2>4. /\ phase' \in [Tags -> {"idle", "sent", "moved", "lost"}]
        /\ sent' \in [Tags -> [target : 0 .. MaxTime, internal : BOOLEAN]]
    BY <2>3, <1>6 DEF Post, TypeOK
  <2>5. QED BY <2>1, <2>2, <2>4, <1>6 DEF Post, TypeOK, links, lists, data
<1>7. CASE Mark
  <2>1. work.curr \in Entries BY <1>0, <1>7 DEF Mark, At
  <2>2. work' = [pc |-> "advance", curr |-> work.curr] BY <1>0, <1>7 DEF Mark, At, Goto
  <2>3. completed' \in [Entries -> BOOLEAN] BY <1>7, <2>1 DEF Mark, TypeOK
  <2>4. QED BY <2>1, <2>2, <2>3, <1>7 DEF Mark, TypeOK, links, lists, host
<1>8. CASE Advance
  <2>1. work.curr \in Entries BY <1>0, <1>8 DEF Advance, At
  <2>2. next[work.curr] \in Entries \cup {None} BY <2>1 DEF TypeOK
  <2>3. \/ work' = [pc |-> "begin", curr |-> None]
        \/ work' = [pc |-> "clock", curr |-> next[work.curr]] /\ next[work.curr] \in Entries
    BY <2>2, <1>8 DEF Advance
  <2>4. QED BY <2>3, <1>8 DEF Advance, TypeOK, links, lists, data, host
<1>9. QED BY <1>1, <1>2, <1>3, <1>4, <1>5, <1>6, <1>7, <1>8 DEF Worker

LEMMA RequestType ==
  ASSUME NEW r \in Request
  PROVE  /\ r.tag \in Tags /\ r.target \in 0 .. MaxTime /\ r.internal \in BOOLEAN
         /\ r.internal \in Kinds
BY WorkQueueAssumption DEF Request

LEMMA ArrivalType ==
  ASSUME TypeOK, NEW r \in Request, Allocate(r) \/ Drop(r)
  PROVE  TypeOK'
<1>1. r.tag \in Tags /\ r.target \in 0 .. MaxTime /\ r.internal \in BOOLEAN BY RequestType
<1>2. CASE Allocate(r)
  <2>1. disp' \in Places BY <1>2 DEF Allocate, Places, TypeOK
  <2>2. phase' \in [Tags -> {"idle", "sent", "moved", "lost"}] BY <1>2 DEF Allocate, TypeOK
  <2>3. sent' \in [Tags -> [target : 0 .. MaxTime, internal : BOOLEAN]]
    BY <1>1, <1>2 DEF Allocate, TypeOK
  <2>4. QED BY <2>1, <2>2, <2>3, <1>2 DEF Allocate, TypeOK, links, data
<1>3. CASE Drop(r)
  <2>1. disp' \in Places BY <1>3 DEF Drop, Places, Idle
  <2>2. phase' \in [Tags -> {"idle", "sent", "moved", "lost"}] BY <1>3 DEF Drop, TypeOK
  <2>3. QED BY <2>1, <2>2, <1>3 DEF Drop, TypeOK, links, lists, data
<1>4. QED BY <1>2, <1>3

\* Where the dispatcher is in its hand's work.
LEMMA PlaceFacts ==
  ASSUME TypeOK
  PROVE  /\ disp.pc \in {"idle", "reclaim", "fill", "seek", "cut", "join"}
         /\ disp.pc \in {"fill", "seek"} => disp.entry \in Entries /\ disp.req \in Request
         /\ disp.pc = "fill" =>
              /\ disp.left \subseteq Stores
              /\ disp = [pc |-> "fill", entry |-> disp.entry, req |-> disp.req,
                         left |-> disp.left]
         /\ disp.pc = "seek" =>
              /\ disp.at \in Entries \cup {None}
              /\ disp = [pc |-> "seek", entry |-> disp.entry, req |-> disp.req,
                         at |-> disp.at]
         /\ disp.pc \in {"cut", "join"} =>
              /\ disp.first \in Entries /\ disp.last \in Entries
              /\ disp = [pc |-> disp.pc, first |-> disp.first, last |-> disp.last]
BY DEF TypeOK, Places

LEMMA DispatcherType ==
  ASSUME TypeOK,
         (\E fields \in Stores : Fill(fields)) \/ InsertFirst \/ SeekStart \/ SeekBack
           \/ InsertHead \/ InsertAfter \/ ReclaimNothing \/ Cut \/ Join
  PROVE  TypeOK'
<1>1. CASE \E fields \in Stores : Fill(fields)
  <2>1. PICK fields \in Stores : Fill(fields) BY <1>1
  <2>2. /\ disp.pc = "fill" /\ disp.entry \in Entries /\ disp.left \subseteq Stores
        /\ disp.req \in Request
        /\ disp' = [pc |-> "fill", entry |-> disp.entry, req |-> disp.req,
                    left |-> disp.left \ {fields}]
    BY <2>1, PlaceFacts DEF Fill
  <2>3. disp' \in Places BY <2>2 DEF Places
  <2>4. /\ disp.req.tag \in Tags /\ disp.req.target \in 0 .. MaxTime
        /\ disp.req.internal \in BOOLEAN
    BY <2>2, RequestType
  <2>5. /\ tag' \in [Entries -> Tags \cup {NoTag}]
        /\ target' \in [Entries -> 0 .. MaxTime]
        /\ internal' \in [Entries -> BOOLEAN]
    BY <2>1, <2>2, <2>4 DEF Fill, TypeOK
  <2>6. /\ copied' \in [Entries -> BOOLEAN]
        /\ completed' \in [Entries -> BOOLEAN]
    BY <2>1, <2>2, <2>4 DEF Fill, TypeOK
  <2>7. /\ next' \in [Entries -> Entries \cup {None}]
        /\ prev' \in [Entries -> Entries \cup {None}]
    BY <2>1, <2>2 DEF Fill, TypeOK
  <2>8. QED BY <2>1, <2>3, <2>5, <2>6, <2>7 DEF Fill, TypeOK, lists, host
<1>2. CASE InsertFirst
  <2>1. disp.entry \in Entries BY <1>2, PlaceFacts DEF InsertFirst
  <2>2. disp' \in Places BY <1>2 DEF InsertFirst, AfterInsert, Idle, Places
  <2>3. QED BY <2>1, <2>2, <1>2 DEF InsertFirst, TypeOK, links, data, host
<1>3. CASE SeekStart
  <2>1. disp.entry \in Entries /\ disp.req \in Request BY <1>3, PlaceFacts DEF SeekStart
  <2>2. disp' \in Places BY <2>1, <1>3 DEF SeekStart, Places, TypeOK
  <2>3. QED BY <2>2, <1>3 DEF SeekStart, TypeOK, links, data, lists, host
<1>4. CASE SeekBack
  <2>1. /\ disp.entry \in Entries /\ disp.req \in Request /\ disp.at \in Entries
        /\ disp' = [pc |-> "seek", entry |-> disp.entry, req |-> disp.req,
                    at |-> prev[disp.at]]
    BY <1>4, PlaceFacts DEF SeekBack
  <2>2. prev[disp.at] \in Entries \cup {None} BY <2>1 DEF TypeOK
  <2>3. disp' \in Places BY <2>1, <2>2 DEF Places
  <2>4. QED BY <2>3, <1>4 DEF SeekBack, TypeOK, links, data, lists, host
<1>5. CASE InsertHead
  <2>1. disp.entry \in Entries BY <1>5, PlaceFacts DEF InsertHead
  <2>2. disp' \in Places BY <1>5 DEF InsertHead, AfterInsert, Idle, Places
  <2>3. QED BY <2>1, <2>2, <1>5 DEF InsertHead, TypeOK, data, host
<1>6. CASE InsertAfter
  <2>1. disp.entry \in Entries /\ disp.at \in Entries BY <1>6, PlaceFacts DEF InsertAfter
  <2>2. disp' \in Places BY <1>6 DEF InsertAfter, AfterInsert, Idle, Places
  <2>3. next[disp.at] \in Entries \cup {None} BY <2>1 DEF TypeOK
  <2>4. next' \in [Entries -> Entries \cup {None}] BY <2>1, <2>3, <1>6 DEF InsertAfter, TypeOK
  <2>5. prev' \in [Entries -> Entries \cup {None}] BY <2>1, <2>3, <1>6 DEF InsertAfter, TypeOK
  <2>6. QED BY <2>1, <2>2, <2>4, <2>5, <1>6 DEF InsertAfter, TypeOK, data, host
<1>7. CASE ReclaimNothing
  <2>1. disp' \in Places BY <1>7 DEF ReclaimNothing, Idle, Places
  <2>2. QED BY <2>1, <1>7 DEF ReclaimNothing, TypeOK, links, lists, data, host
<1>8. CASE Cut
  <2>1. /\ disp.first \in Entries /\ disp.last \in Entries
        /\ disp' = [pc |-> "join", first |-> disp.first, last |-> disp.last]
    BY <1>8, PlaceFacts DEF Cut
  <2>2. disp' \in Places BY <2>1 DEF Places
  <2>3. QED BY <2>1, <2>2, <1>8 DEF Cut, TypeOK, lists, data, host
<1>9. CASE Join
  <2>1. disp.first \in Entries /\ disp.last \in Entries BY <1>9, PlaceFacts DEF Join
  <2>2. disp' \in Places BY <1>9 DEF Join, Idle, Places
  <2>3. QED BY <2>1, <2>2, <1>9 DEF Join, TypeOK, data, host
<1>10. QED BY <1>1, <1>2, <1>3, <1>4, <1>5, <1>6, <1>7, <1>8, <1>9

LEMMA ReclaimType ==
  ASSUME TypeOK, NEW s, NEW p, NEW k, NEW n, Order(s, p), Layout(s, k, n), Reclaim
  PROVE  TypeOK'
<1>1. PICK j \in 1 .. n : /\ disp' = [pc |-> "cut", first |-> s[1], last |-> s[j]]
                          /\ ioSeq' \in Entries \cup {None}
                          /\ prev' \in [Entries -> Entries \cup {None}]
  BY ReclaimLayout
<1>2. s[1] \in Entries /\ s[j] \in Entries
  <2>1. n \in Nat /\ n < N BY EntryFacts DEF Layout, Hand
  <2>2. 1 \in 1 .. N /\ j \in 1 .. N BY <2>1, <1>1, EntryFacts
  <2>3. QED BY <2>2 DEF Order
<1>3. disp' \in Places BY <1>1, <1>2 DEF Places
<1>4. QED BY <1>1, <1>3 DEF Reclaim, TypeOK, data, host

\* The actions of the dispatcher that leave nothing in hand.
Puts == InsertFirst \/ InsertHead \/ InsertAfter \/ Reclaim \/ ReclaimNothing \/ Cut \/ Join

LEMMA StoredStep ==
  ASSUME TypeOK, Stored, Next
  PROVE  Stored'
<1>1. CASE Arrival
  <2>1. PICK r \in Request : Allocate(r) \/ Drop(r) BY <1>1 DEF Arrival
  <2>2. CASE Allocate(r)
    <3>1. disp'.pc = "fill" /\ disp'.left = Stores BY <2>2 DEF Allocate
    <3>2. \A f : ~IsStored(f)' BY <3>1 DEF IsStored
    <3>3. QED BY <3>2 DEF Stored
  <2>3. CASE Drop(r)
    <3>1. disp'.pc \in {"idle", "reclaim"} BY <2>3 DEF Drop, Idle
    <3>2. \A f : ~IsStored(f)' BY <3>1 DEF IsStored
    <3>3. QED BY <3>2 DEF Stored
  <2>4. QED BY <2>1, <2>2, <2>3
<1>2. ASSUME NEW fields \in Stores, Fill(fields) PROVE Stored'
  <2>1. /\ disp.pc = "fill" /\ disp.entry \in Entries /\ disp.left \subseteq Stores
        /\ disp.req \in Request
        /\ disp' = [pc |-> "fill", entry |-> disp.entry, req |-> disp.req,
                    left |-> disp.left \ {fields}]
    BY <1>2, PlaceFacts DEF Fill
  <2>2. \A f : IsStored(f)' => f \in fields \/ IsStored(f) BY <2>1 DEF IsStored
  <2>3. /\ tag' = IF "request" \in fields THEN [tag EXCEPT ![disp.entry] = disp.req.tag] ELSE tag
        /\ target' = IF "request" \in fields
                     THEN [target EXCEPT ![disp.entry] = disp.req.target] ELSE target
        /\ internal' = IF "internal" \in fields
                       THEN [internal EXCEPT ![disp.entry] = disp.req.internal] ELSE internal
        /\ next' = IF "next" \in fields THEN [next EXCEPT ![disp.entry] = None] ELSE next
        /\ prev' = IF "next" \in fields THEN [prev EXCEPT ![disp.entry] = None] ELSE prev
    BY <1>2, Zenon DEF Fill
  <2>4. disp'.entry = disp.entry /\ disp'.req = disp.req BY <2>1
  <2>5. IsStored("request")' => tag'[disp.entry] = disp.req.tag
                                /\ target'[disp.entry] = disp.req.target
    BY <2>1, <2>2, <2>3 DEF Stored, TypeOK
  <2>6. IsStored("internal")' => internal'[disp.entry] = disp.req.internal
    BY <2>1, <2>2, <2>3 DEF Stored, TypeOK
  <2>7. IsStored("next")' => next'[disp.entry] = None /\ prev'[disp.entry] = None
    BY <2>1, <2>2, <2>3 DEF Stored, TypeOK
  <2>8. QED BY <2>4, <2>5, <2>6, <2>7 DEF Stored
<1>3. CASE SeekStart \/ SeekBack
  <2>1. /\ (disp.pc = "fill" /\ disp.left = {}) \/ disp.pc = "seek"
        /\ UNCHANGED <<links, data>>
        /\ disp'.entry = disp.entry /\ disp'.req = disp.req
    BY <1>3, PlaceFacts DEF SeekStart, SeekBack
  <2>2. QED BY <2>1, AllStored DEF Stored, links, data
<1>4. CASE Puts
  <2>1. disp'.pc \in {"idle", "reclaim", "cut", "join"}
    BY <1>4, PlaceFacts DEF Puts, InsertFirst, InsertHead, InsertAfter, Reclaim,
       ReclaimNothing, Cut, Join, AfterInsert, Idle
  <2>2. \A f : ~IsStored(f)' BY <2>1 DEF IsStored
  <2>3. QED BY <2>2 DEF Stored
<1>5. CASE Worker
  <2>1. UNCHANGED <<links, lists, disp, tag, target, internal>> BY <1>5, WorkerFrame
  <2>2. QED BY <2>1 DEF Stored, IsStored, links
<1>6. QED BY <1>1, <1>2, <1>3, <1>4, <1>5 DEF Next, Dispatcher, Puts

------------------------------------------------------------------------------
(* The lists stay sound and in order *)

\* What a list is does not depend on who is looking.
LEMMA KeptList ==
  ASSUME TypeOK, TypeOK', NEW s, NEW p, NEW k, NEW n, ListInv(s, p, k, n),
         UNCHANGED <<links, lists, disp, target>>, latest' >= latest
  PROVE  ListInv(s, p, k, n)'
<1>1. Order(s, p) /\ Layout(s, k, n) /\ Sought(s, p, n) /\ InOrder(s, k, n)
  BY DEF ListInv
<1>2. Order(s, p)' BY <1>1 DEF Order
<1>3. Layout(s, k, n)' BY <1>1, KeptLayout
<1>4. Sought(s, p, n)' BY <1>1 DEF Sought
<1>5. ASSUME NEW i \in k + 1 .. n - 1
      PROVE  target[s[i]] <= latest' \/ target[s[i]] <= target[s[i + 1]]
  <2>1. target[s[i]] <= latest \/ target[s[i]] <= target[s[i + 1]] BY <1>1 DEF InOrder
  <2>2. i \in 1 .. N
    <3>1. k \in Nat /\ n \in Nat /\ n < N BY <1>1, EntryFacts DEF Layout, Hand
    <3>2. QED BY <3>1, EntryFacts
  <2>3. s[i] \in Entries BY <1>1, <2>2 DEF Order
  <2>4. target[s[i]] \in Int /\ latest \in Int /\ latest' \in Int
    BY <2>3, WorkQueueAssumption DEF TypeOK
  <2>5. QED BY <2>1, <2>4
<1>6. InOrder(s, k, n)' BY <1>5 DEF InOrder
<1>7. QED BY <1>2, <1>3, <1>4, <1>6 DEF ListInv

LEMMA NotSeeking ==
  ASSUME NEW s, NEW p, NEW n, disp.pc # "seek"
  PROVE  Sought(s, p, n)
BY DEF Sought

LEMMA AllocateList ==
  ASSUME TypeOK, NEW s, NEW p, NEW k, NEW n, ListInv(s, p, k, n), NEW r, Allocate(r)
  PROVE  k = 0 /\ ListInv(s, p, 0, n)'
<1>1. Order(s, p) /\ Layout(s, k, n) /\ InOrder(s, k, n) BY DEF ListInv
<1>2. k = 0 /\ Layout(s, 0, n)' BY <1>1, AllocateLayout
<1>3. disp'.pc = "fill" /\ UNCHANGED <<target, latest>> BY DEF Allocate, data
<1>4. Sought(s, p, n)' BY <1>3 DEF Sought
<1>5. InOrder(s, 0, n)' BY <1>1, <1>2, <1>3 DEF InOrder
<1>6. QED BY <1>1, <1>2, <1>4, <1>5 DEF ListInv, Order

LEMMA FillList ==
  ASSUME TypeOK, NEW s, NEW p, NEW k, NEW n, ListInv(s, p, k, n), NEW fields, Fill(fields)
  PROVE  k = 0 /\ ListInv(s, p, 0, n)'
<1>1. Order(s, p) /\ Layout(s, k, n) /\ InOrder(s, k, n) BY DEF ListInv
<1>2. k = 0 /\ Hand = 1 /\ Layout(s, 0, n)' BY <1>1, FillLayout
<1>3. /\ disp.pc = "fill" /\ disp' = [disp EXCEPT !.left = @ \ {fields}] /\ latest' = latest
      /\ target' = IF "request" \in fields
                   THEN [target EXCEPT ![disp.entry] = disp.req.target] ELSE target
  BY Zenon DEF Fill
<1>4. disp'.pc = "fill" BY <1>3 DEF TypeOK, Places
<1>5. Sought(s, p, n)' BY <1>4 DEF Sought
<1>6. /\ disp.entry = s[n + 1] /\ n \in Nat /\ n + 1 < N
      /\ \A i \in 1 .. N : s[i] \in Entries /\ (s[i] = s[n + 1] <=> i = n + 1)
  <2>1. disp.entry = s[n + 1] /\ n \in Nat /\ n + 1 < N BY <1>1, <1>2, EntryFacts DEF Layout
  <2>2. n + 1 \in 1 .. N BY <2>1, EntryFacts
  <2>3. \A i \in 1 .. N : s[i] \in Entries /\ p[s[i]] = i BY <1>1 DEF Order
  <2>4. QED BY <2>1, <2>2, <2>3
<1>7. \A i \in 1 .. n : target'[s[i]] = target[s[i]]
  <2>1. \A i \in 1 .. n : i \in 1 .. N /\ i # n + 1 BY <1>6, EntryFacts
  <2>2. QED BY <2>1, <1>3, <1>6 DEF TypeOK
<1>8. InOrder(s, 0, n)'
  <2>1. ASSUME NEW i \in 0 + 1 .. n - 1
        PROVE  target'[s[i]] <= latest \/ target'[s[i]] <= target'[s[i + 1]]
    <3>1. i \in 1 .. n /\ i + 1 \in 1 .. n /\ i \in k + 1 .. n - 1 BY <1>2, <1>6
    <3>2. target[s[i]] <= latest \/ target[s[i]] <= target[s[i + 1]] BY <3>1, <1>1 DEF InOrder
    <3>3. QED BY <3>1, <3>2, <1>7
  <2>2. QED BY <2>1, <1>3 DEF InOrder
<1>9. QED BY <1>1, <1>2, <1>5, <1>8 DEF ListInv, Order

LEMMA SeekStartList ==
  ASSUME TypeOK, NEW s, NEW p, NEW k, NEW n, ListInv(s, p, k, n), SeekStart
  PROVE  k = 0 /\ ListInv(s, p, 0, n)'
<1>1. Order(s, p) /\ Layout(s, k, n) /\ InOrder(s, k, n) BY DEF ListInv
<1>2. k = 0 /\ Layout(s, 0, n)' /\ Hand = 1 BY <1>1, SeekLayout
<1>3. /\ ioSeq # None /\ disp'.pc = "seek" /\ disp'.at = ioSeqEnd
      /\ UNCHANGED <<target, latest>>
  BY DEF SeekStart, data
<1>4. Layout(s, 0, n) BY <1>1, <1>2, Zenon
<1>5. n \in Nat /\ n < N BY <1>2, <1>4, EntryFacts DEF Layout
<1>6. n > 0 /\ ioSeqEnd = s[n] BY <1>3, <1>4, <1>5 DEF Layout
<1>7. p[s[n]] = n
  <2>1. n \in 1 .. N BY <1>5, <1>6, EntryFacts
  <2>2. QED BY <2>1, <1>1 DEF Order
<1>8. s[n] # None
  <2>1. n \in 1 .. N BY <1>5, <1>6, EntryFacts
  <2>2. QED BY <2>1, <1>1, EntryFacts DEF Order
<1>9. Sought(s, p, n)'
  <2>1. n > 0 /\ p[disp'.at] = n /\ disp'.at # None BY <1>3, <1>6, <1>7, <1>8
  <2>2. p[disp'.at] \in 1 .. n /\ \A i \in 1 .. n : ~(i > n) BY <2>1, <1>5
  <2>3. QED BY <2>1, <2>2 DEF Sought
<1>10. InOrder(s, 0, n)' BY <1>1, <1>2, <1>3 DEF InOrder
<1>11. QED BY <1>1, <1>2, <1>9, <1>10 DEF ListInv, Order

LEMMA SeekBackList ==
  ASSUME TypeOK, NEW s, NEW p, NEW k, NEW n, ListInv(s, p, k, n), SeekBack
  PROVE  k = 0 /\ ListInv(s, p, 0, n)'
<1>1. Order(s, p) /\ Layout(s, k, n) /\ InOrder(s, k, n) /\ Sought(s, p, n) BY DEF ListInv
<1>2. k = 0 /\ Layout(s, 0, n)' /\ Hand = 1 BY <1>1, SeekLayout
<1>3. /\ disp.pc = "seek" /\ disp.at # None /\ ~StopsAt(disp.at)
      /\ disp.at \in Entries /\ disp.req \in Request
      /\ disp' = [pc |-> "seek", entry |-> disp.entry, req |-> disp.req, at |-> prev[disp.at]]
      /\ UNCHANGED <<target, latest, prev>>
  BY PlaceFacts DEF SeekBack, data, links
<1>4. Layout(s, 0, n) BY <1>1, <1>2, Zenon
<1>5. n \in Nat /\ n < N BY <1>2, <1>4, EntryFacts DEF Layout
<1>6. /\ n > 0 /\ p[disp.at] \in 1 .. n
      /\ \A i \in 1 .. n : i > p[disp.at] => target[s[i]] > disp.req.target
  BY <1>1, <1>3 DEF Sought
<1>7. PICK j \in 1 .. n : j = p[disp.at] /\ s[j] = disp.at
  BY <1>1, <1>3, <1>6 DEF Order
<1>8. target[s[j]] > disp.req.target
  <2>1. target[disp.at] \in Int /\ disp.req.target \in Int
    BY <1>3, RequestType, WorkQueueAssumption DEF TypeOK
  <2>2. QED BY <2>1, <1>3, <1>7 DEF StopsAt
<1>9. CASE j = 1
  <2>1. prev[disp.at] = None BY <1>9, <1>4, <1>6, <1>7 DEF Layout
  <2>2. ASSUME NEW i \in 1 .. n PROVE target[s[i]] > disp.req.target
    <3>1. CASE i = 1 BY <3>1, <1>8, <1>9
    <3>2. CASE i # 1 BY <3>2, <1>5, <1>6, <1>7, <1>9
    <3>3. QED BY <3>1, <3>2
  <2>3. Sought(s, p, n)' BY <2>1, <2>2, <1>3, <1>6 DEF Sought
  <2>4. InOrder(s, 0, n)' BY <1>1, <1>2, <1>3 DEF InOrder
  <2>5. QED BY <2>3, <2>4, <1>1, <1>2 DEF ListInv, Order
<1>10. CASE j # 1
  <2>1. j - 1 \in 1 .. n /\ j - 1 \in 1 .. n - 1 /\ (j - 1) + 1 = j /\ j - 1 \in 1 .. N
    BY <1>10, <1>5, <1>7, EntryFacts
  <2>2. \A i \in 1 .. n - 1 : prev[s[i + 1]] = s[i] BY <1>4, <1>6 DEF Layout
  <2>3. prev[disp.at] = s[j - 1] BY <2>1, <2>2, <1>7
  <2>4. p[s[j - 1]] = j - 1 BY <2>1, <1>1 DEF Order
  <2>5. s[j - 1] # None
    <3>1. s[j - 1] \in Entries BY <2>1, <1>1 DEF Order
    <3>2. QED BY <3>1, EntryFacts
  <2>6. ASSUME NEW i \in 1 .. n, i > j - 1 PROVE target[s[i]] > disp.req.target
    <3>1. CASE i = j BY <3>1, <1>8
    <3>2. CASE i # j
      <4>1. i > j BY <3>2, <2>6, <1>5, <1>7
      <4>2. QED BY <4>1, <1>6, <1>7
    <3>3. QED BY <3>1, <3>2
  <2>7. disp'.at = s[j - 1] /\ disp'.req = disp.req /\ disp'.pc = "seek" /\ target' = target
    BY <2>3, <1>3
  <2>8. Sought(s, p, n)'
    <3>1. p[disp'.at] = j - 1 /\ disp'.at # None BY <2>4, <2>5, <2>7
    <3>2. \A i \in 1 .. n : i > p[disp'.at] => target'[s[i]] > disp'.req.target
      BY <3>1, <2>6, <2>7
    <3>3. QED BY <3>1, <3>2, <2>1, <2>7, <1>6 DEF Sought
  <2>9. InOrder(s, 0, n)' BY <1>1, <1>2, <1>3 DEF InOrder
  <2>10. QED BY <2>8, <2>9, <1>1, <1>2 DEF ListInv, Order
<1>11. QED BY <1>9, <1>10

\* Nothing in hand and nothing cut off, before and after.
LEMMA RestList ==
  ASSUME NEW s, NEW p, NEW k, NEW n, ListInv(s, p, k, n),
         disp.pc \in {"idle", "reclaim"}, disp'.pc \in {"idle", "reclaim"},
         UNCHANGED <<links, lists, target, latest>>
  PROVE  k = 0 /\ ListInv(s, p, 0, n)'
<1>1. Order(s, p) /\ Layout(s, k, n) /\ InOrder(s, k, n) BY DEF ListInv
<1>2. k = 0 /\ Layout(s, 0, n) /\ InOrder(s, 0, n)
  <2>1. k = 0 BY <1>1, NoChain
  <2>2. QED BY <1>1, <2>1
<1>3. Hand = 0 /\ Hand' = 0 BY DEF Hand
<1>4. Layout(s, 0, n)' BY <1>2, <1>3 DEF Layout, links, lists
<1>5. Sought(s, p, n)' BY DEF Sought
<1>6. InOrder(s, 0, n)' BY <1>2 DEF InOrder
<1>7. QED BY <1>1, <1>2, <1>4, <1>5, <1>6 DEF ListInv, Order

LEMMA InsertFirstList ==
  ASSUME TypeOK, Stored, NEW s, NEW p, NEW k, NEW n, ListInv(s, p, k, n), InsertFirst
  PROVE  k = 0 /\ n = 0 /\ ListInv(s, p, 0, 1)'
<1>1. Order(s, p) /\ Layout(s, k, n) BY DEF ListInv
<1>2. k = 0 /\ n = k /\ Hand' = 0 /\ Layout(s, 0, 1)' BY <1>1, InsertFirstLayout
<1>3. disp'.pc # "seek" BY <1>2 DEF Hand
<1>4. Sought(s, p, 1)' BY <1>3 DEF Sought
<1>5. InOrder(s, 0, 1)' BY DEF InOrder
<1>6. QED BY <1>1, <1>2, <1>4, <1>5 DEF ListInv, Order

LEMMA InsertHeadList ==
  ASSUME TypeOK, Stored, NEW s, NEW p, NEW k, NEW n, ListInv(s, p, k, n), InsertHead
  PROVE  /\ k = 0 /\ n > 0 /\ n + 1 \in 1 .. N
         /\ ListInv(Moved(s, 1, n + 1), MovedPlace(p, 1, n + 1), 0, n + 1)'
<1> DEFINE z == Moved(s, 1, n + 1)
           q == MovedPlace(p, 1, n + 1)
<1>1. Order(s, p) /\ Layout(s, k, n) /\ InOrder(s, k, n) /\ Sought(s, p, n) BY DEF ListInv
<1>2. disp.pc = "seek" /\ disp.at = None /\ UNCHANGED <<target, latest>>
  BY DEF InsertHead, data
<1>3. k = 0 /\ Layout(s, 0, n) BY <1>1, <1>2, NoChain
<1>4. n \in Nat /\ n + 1 < N
  <2>1. Hand = 1 BY <1>2 DEF Hand
  <2>2. QED BY <2>1, <1>3 DEF Layout
<1>5. n > 0 /\ \A i \in 1 .. n : target[s[i]] > disp.req.target BY <1>1, <1>2 DEF Sought
<1>6. Hand' = 0 /\ disp.entry = s[n + 1] /\ Layout(z, 0, n + 1)'
  BY <1>1, <1>3, <1>5, InsertHeadLayout
<1>7. n + 1 \in 1 .. N BY <1>4, EntryFacts
<1>8. Order(z, q)
  <2>1. 1 \in 1 .. n + 1 BY <1>4
  <2>2. QED BY <2>1, <1>1, <1>7, MovedOrder
<1>9. Sought(z, q, n + 1)'
  <2>1. disp'.pc # "seek" BY <1>6 DEF Hand
  <2>2. QED BY <2>1 DEF Sought
<1>10. target[s[n + 1]] = disp.req.target BY <1>2, <1>6, AllStored
<1>11. /\ z[1] = s[n + 1]
       /\ \A i \in 2 .. n + 1 : z[i] = s[i - 1]
  BY <1>4, EntryFacts DEF Moved
<1> HIDE DEF z, q
<1>12. ASSUME NEW i \in 1 .. n
       PROVE  target[z[i]] <= latest \/ target[z[i]] <= target[z[i + 1]]
  <2>1. i + 1 \in 2 .. n + 1 /\ (i + 1) - 1 = i BY <1>4
  <2>2. z[i + 1] = s[i] BY <2>1, <1>11
  <2>3. CASE i = 1
    <3>1. disp.req.target \in Int /\ target[s[1]] \in Int
      <4>1. s[1] \in Entries BY <1>1, <1>4, EntryFacts DEF Order
      <4>2. target[s[1]] \in Int BY <4>1, WorkQueueAssumption DEF TypeOK
      <4>3. disp.req \in Request BY <1>2, PlaceFacts
      <4>4. disp.req.target \in Int BY <4>3, RequestType, WorkQueueAssumption
      <4>5. QED BY <4>2, <4>4
    <3>2. target[s[1]] > disp.req.target BY <2>3, <1>5
    <3>3. QED BY <3>1, <3>2, <2>2, <2>3, <1>10, <1>11
  <2>4. CASE i # 1
    <3>1. i \in 2 .. n + 1 /\ i - 1 \in 1 .. n - 1 /\ (i - 1) + 1 = i BY <2>4, <1>4
    <3>2. z[i] = s[i - 1] BY <3>1, <1>11
    <3>3. target[s[i - 1]] <= latest \/ target[s[i - 1]] <= target[s[i]]
      BY <3>1, <1>1, <1>3 DEF InOrder
    <3>4. QED BY <3>2, <3>3, <2>2
  <2>5. QED BY <2>3, <2>4
<1>13. InOrder(z, 0, n + 1)'
  <2>1. \A i \in 0 + 1 .. (n + 1) - 1 : i \in 1 .. n BY <1>4
  <2>2. QED BY <2>1, <1>2, <1>12 DEF InOrder
<1>14. QED BY <1>3, <1>5, <1>6, <1>7, <1>8, <1>9, <1>13 DEF ListInv, Order, z, q

LEMMA InsertAfterList ==
  ASSUME TypeOK, Stored, NEW s, NEW p, NEW k, NEW n, ListInv(s, p, k, n), InsertAfter,
         NEW j, j = p[disp.at]
  PROVE  /\ k = 0 /\ j \in 1 .. n /\ n + 1 \in 1 .. N /\ j + 1 \in 1 .. n + 1
         /\ ListInv(Moved(s, j + 1, n + 1), MovedPlace(p, j + 1, n + 1), 0, n + 1)'
<1> DEFINE z == Moved(s, j + 1, n + 1)
           q == MovedPlace(p, j + 1, n + 1)
<1>1. Order(s, p) /\ Layout(s, k, n) /\ InOrder(s, k, n) /\ Sought(s, p, n) BY DEF ListInv
<1>2. /\ disp.pc = "seek" /\ disp.at # None /\ StopsAt(disp.at)
      /\ UNCHANGED <<target, latest>>
  BY DEF InsertAfter, data
<1>3. k = 0 /\ Layout(s, 0, n) BY <1>1, <1>2, NoChain
<1>4. n \in Nat /\ n + 1 < N
  <2>1. Hand = 1 BY <1>2 DEF Hand
  <2>2. QED BY <2>1, <1>3 DEF Layout
<1>5. /\ disp.at # None => p[disp.at] \in 1 .. n
      /\ \A i \in 1 .. n : i > j => target[s[i]] > disp.req.target
  BY <1>1, <1>2 DEF Sought
<1>6. /\ Hand' = 0 /\ disp.entry = s[n + 1] /\ j \in 1 .. n /\ s[j] = disp.at
      /\ Layout(z, 0, n + 1)'
  BY <1>1, <1>5, InsertAfterLayout
<1>7. n + 1 \in 1 .. N /\ j + 1 \in 1 .. n + 1 BY <1>4, <1>6, EntryFacts
<1>8. Order(z, q) BY <1>1, <1>7, MovedOrder
<1>9. Sought(z, q, n + 1)'
  <2>1. disp'.pc # "seek" BY <1>6 DEF Hand
  <2>2. QED BY <2>1 DEF Sought
<1>10. target[s[n + 1]] = disp.req.target BY <1>2, <1>6, AllStored
<1>11. /\ \A i \in 1 .. j : z[i] = s[i]
       /\ z[j + 1] = s[n + 1]
       /\ \A i \in j + 2 .. n + 1 : z[i] = s[i - 1]
  <2>1. n \in Nat /\ j \in Nat /\ N \in Nat /\ 1 <= j /\ j <= n /\ n + 1 < N
    BY <1>4, <1>6, EntryFacts
  <2>2. \A i \in 1 .. N : z[i] = IF i = j + 1 THEN s[n + 1]
                                  ELSE IF i \in (j + 1) + 1 .. n + 1 THEN s[i - 1] ELSE s[i]
    BY DEF Moved
  <2> HIDE DEF z
  <2>3. QED BY <2>1, <2>2
<1> HIDE DEF z, q
<1>12. disp.req.target \in Int /\ \A i \in 1 .. n : target[s[i]] \in Int
  <2>1. disp.req \in Request BY <1>2, PlaceFacts
  <2>2. disp.req.target \in Int BY <2>1, RequestType, WorkQueueAssumption
  <2>3. \A i \in 1 .. n : s[i] \in Entries BY <1>1, <1>4, EntryFacts DEF Order
  <2>4. QED BY <2>2, <2>3, WorkQueueAssumption DEF TypeOK
<1>13. ASSUME NEW i \in 1 .. n
       PROVE  target[z[i]] <= latest \/ target[z[i]] <= target[z[i + 1]]
  <2>1. CASE i < j
    <3>1. i \in 1 .. j /\ i + 1 \in 1 .. j /\ i \in 1 .. n - 1 BY <2>1, <1>4, <1>6
    <3>2. target[s[i]] <= latest \/ target[s[i]] <= target[s[i + 1]]
      BY <3>1, <1>1, <1>3 DEF InOrder
    <3>3. QED BY <3>1, <3>2, <1>11
  <2>2. CASE i = j
    <3>1. z[i] = disp.at /\ z[i + 1] = s[n + 1]
      <4>1. i \in 1 .. j BY <2>2, <1>6
      <4>2. QED BY <4>1, <2>2, <1>6, <1>11
    <3>2. QED BY <3>1, <1>2, <1>10 DEF StopsAt
  <2>3. CASE i = j + 1
    <3>1. /\ j + 1 \in 1 .. n /\ j + 1 > j
          /\ i + 1 \in j + 2 .. n + 1 /\ (i + 1) - 1 = j + 1
      BY <2>3, <1>4, <1>6
    <3>2. z[i] = s[n + 1] /\ z[i + 1] = s[j + 1] BY <3>1, <2>3, <1>11
    <3>3. target[s[j + 1]] > disp.req.target /\ target[s[j + 1]] \in Int
      BY <3>1, <1>5, <1>12
    <3>4. QED BY <3>2, <3>3, <1>10, <1>12
  <2>4. CASE i > j + 1
    <3>1. /\ i \in j + 2 .. n + 1 /\ i - 1 \in 1 .. n - 1 /\ (i - 1) + 1 = i
          /\ i + 1 \in j + 2 .. n + 1 /\ (i + 1) - 1 = i
      BY <2>4, <1>4, <1>6
    <3>2. z[i] = s[i - 1] /\ z[i + 1] = s[i] BY <3>1, <1>11
    <3>3. target[s[i - 1]] <= latest \/ target[s[i - 1]] <= target[s[i]]
      BY <3>1, <1>1, <1>3 DEF InOrder
    <3>4. QED BY <3>2, <3>3
  <2>5. QED BY <2>1, <2>2, <2>3, <2>4, <1>4, <1>6
<1>14. InOrder(z, 0, n + 1)'
  <2>1. \A i \in 0 + 1 .. (n + 1) - 1 : i \in 1 .. n BY <1>4
  <2>2. QED BY <2>1, <1>2, <1>13 DEF InOrder
<1>15. QED BY <1>3, <1>6, <1>7, <1>8, <1>9, <1>14 DEF ListInv, Order, z, q

LEMMA ReclaimList ==
  ASSUME TypeOK, NEW s, NEW p, NEW k, NEW n, ListInv(s, p, k, n), Reclaim
  PROVE  /\ k = 0
         /\ \E j \in 1 .. n : /\ \A i \in 1 .. j : Reclaimable(s[i])
                              /\ disp' = [pc |-> "cut", first |-> s[1], last |-> s[j]]
                              /\ ListInv(s, p, j, n)'
<1>1. Order(s, p) /\ Layout(s, k, n) /\ InOrder(s, k, n) BY DEF ListInv
<1>2. PICK j \in 1 .. n : /\ \A i \in 1 .. j : Reclaimable(s[i])
                          /\ disp' = [pc |-> "cut", first |-> s[1], last |-> s[j]]
                          /\ Layout(s, j, n)'
  BY <1>1, ReclaimLayout
<1>3. k = 0 BY <1>1, ReclaimLayout
<1>4. Sought(s, p, n)' BY <1>2 DEF Sought
<1>5. InOrder(s, j, n)'
  <2>1. n \in Nat BY <1>1 DEF Layout
  <2>2. \A i \in j + 1 .. n - 1 : i \in k + 1 .. n - 1 BY <2>1, <1>3
  <2>3. UNCHANGED <<target, latest>> BY DEF Reclaim, data
  <2>4. QED BY <2>2, <2>3, <1>1 DEF InOrder
<1>6. ListInv(s, p, j, n)' BY <1>1, <1>2, <1>4, <1>5 DEF ListInv, Order
<1>7. QED BY <1>2, <1>3, <1>6

LEMMA CutList ==
  ASSUME TypeOK, NEW s, NEW p, NEW k, NEW n, ListInv(s, p, k, n), Cut
  PROVE  k > 0 /\ ListInv(s, p, k, n)'
<1>1. Order(s, p) /\ Layout(s, k, n) /\ InOrder(s, k, n) BY DEF ListInv
<1>2. k > 0 /\ Hand' = 0 /\ Layout(s, k, n)' BY <1>1, CutLayout
<1>3. disp'.pc # "seek" BY <1>2 DEF Hand
<1>4. Sought(s, p, n)' BY <1>3 DEF Sought
<1>5. InOrder(s, k, n)' BY <1>1 DEF InOrder, Cut, data
<1>6. QED BY <1>1, <1>2, <1>4, <1>5 DEF ListInv, Order

LEMMA JoinList ==
  ASSUME TypeOK, NEW s, NEW p, NEW k, NEW n, ListInv(s, p, k, n), Join
  PROVE  /\ k > 0 /\ k \in 0 .. N
         /\ ListInv(Rotated(s, k), RotatedPlace(p, k), 0, n - k)'
<1> DEFINE z == Rotated(s, k)
           q == RotatedPlace(p, k)
<1>1. Order(s, p) /\ Layout(s, k, n) /\ InOrder(s, k, n) BY DEF ListInv
<1>2. k > 0 /\ Hand = 0 /\ Hand' = 0 /\ Layout(z, 0, n - k)' BY <1>1, JoinLayout
<1>3. k \in Nat /\ n \in Nat /\ k <= n /\ n < N /\ k \in 0 .. N
  BY <1>1, <1>2, EntryFacts DEF Layout
<1>4. Order(z, q) BY <1>1, <1>3, RotatedOrder
<1>5. disp'.pc # "seek" BY <1>2 DEF Hand
<1>6. Sought(z, q, n - k)' BY <1>5 DEF Sought
<1>7. UNCHANGED <<target, latest>> BY DEF Join, data
<1>8. \A i \in 1 .. N - k : z[i] = s[i + k] BY <1>3, EntryFacts DEF Rotated
<1> HIDE DEF z, q
<1>9. ASSUME NEW i \in 1 .. (n - k) - 1
      PROVE  target[z[i]] <= latest \/ target[z[i]] <= target[z[i + 1]]
  <2>1. /\ i \in 1 .. N - k /\ i + 1 \in 1 .. N - k /\ (i + 1) + k = (i + k) + 1
        /\ i + k \in k + 1 .. n - 1
    BY <1>3, EntryFacts
  <2>2. z[i] = s[i + k] /\ z[i + 1] = s[(i + k) + 1] BY <2>1, <1>8
  <2>3. target[s[i + k]] <= latest \/ target[s[i + k]] <= target[s[(i + k) + 1]]
    BY <2>1, <1>1 DEF InOrder
  <2>4. QED BY <2>2, <2>3
<1>10. InOrder(z, 0, n - k)'
  <2>1. \A i \in 0 + 1 .. (n - k) - 1 : i \in 1 .. (n - k) - 1 OBVIOUS
  <2>2. QED BY <2>1, <1>7, <1>9 DEF InOrder
<1>11. QED BY <1>2, <1>3, <1>4, <1>6, <1>10 DEF ListInv, Order, z, q

LEMMA InitList ==
  ASSUME Init
  PROVE  ListInv([i \in 1 .. N |-> i - 1], [e \in Entries |-> e + 1], 0, 0)
<1> DEFINE s == [i \in 1 .. N |-> i - 1]
           p == [e \in Entries |-> e + 1]
<1>1. /\ next = [e \in Entries |-> IF e = N - 1 THEN None ELSE e + 1]
      /\ ioSeq = None /\ freeSeq = 0 /\ freeSeqEnd = N - 1 /\ disp.pc = "idle"
  BY DEF Init, Idle
<1>2. Order(s, p) BY EntryFacts DEF Order
<1>3. Hand = 0 BY <1>1 DEF Hand
<1>4. \A i \in 1 .. N : s[i] = i - 1 /\ next[s[i]] = IF i = N THEN None ELSE i
  BY <1>1, EntryFacts
<1>5. \A i \in 1 .. N - 1 : next[s[i]] = s[i + 1]
  <2>1. ASSUME NEW i \in 1 .. N - 1 PROVE next[s[i]] = s[i + 1]
    <3>1. i \in 1 .. N /\ i # N /\ i + 1 \in 1 .. N /\ (i + 1) - 1 = i BY EntryFacts
    <3>2. QED BY <3>1, <1>4
  <2>2. QED BY <2>1
<1>6. next[s[N]] = None /\ s[N] = N - 1 /\ s[1] = 0
  <2>1. N \in 1 .. N /\ 1 \in 1 .. N BY EntryFacts
  <2>2. QED BY <2>1, <1>4
<1> HIDE DEF s, p
<1>7. Layout(s, 0, 0) BY <1>1, <1>3, <1>5, <1>6, EntryFacts DEF Layout
<1>8. Sought(s, p, 0) BY <1>1 DEF Sought
<1>9. InOrder(s, 0, 0) BY DEF InOrder
<1>10. QED BY <1>2, <1>7, <1>8, <1>9 DEF ListInv, s, p

\* The places of the last of the chain and of the queue are in the order.
LEMMA ListBounds ==
  ASSUME NEW s, NEW p, NEW k, NEW n, ListInv(s, p, k, n)
  PROVE  /\ s \in [1 .. N -> Entries] /\ p \in [Entries -> 1 .. N]
         /\ k \in 0 .. N /\ n \in 0 .. N
<1>1. s \in [1 .. N -> Entries] /\ p \in [Entries -> 1 .. N] BY DEF ListInv, Order
<1>2. k \in Nat /\ n \in Nat /\ k <= n /\ n + Hand < N BY DEF ListInv, Layout
<1>3. k \in 0 .. N /\ n \in 0 .. N BY <1>2, HandIs, PlacesFit
<1>4. QED BY <1>1, <1>3

LEMMA InvIntro ==
  ASSUME TypeOK, Stored, NEW s, NEW p, NEW k, NEW n, ListInv(s, p, k, n)
  PROVE  Inv
BY ListBounds DEF Inv

LEMMA InvMade ==
  ASSUME TypeOK', Stored', NEW s, NEW p, NEW k, NEW n, ListInv(s, p, k, n)'
  PROVE  Inv'
<1>1. s \in [1 .. N -> Entries] /\ p \in [Entries -> 1 .. N] BY DEF ListInv, Order
<1>2. k \in Nat /\ n \in Nat /\ k <= n /\ n + Hand' < N BY DEF ListInv, Layout
<1>3. k \in 0 .. N /\ n \in 0 .. N BY <1>2, HandIs, PlacesFit
<1>4. QED BY <1>1, <1>3 DEF Inv

LEMMA TypeStep ==
  ASSUME TypeOK, NEW s, NEW p, NEW k, NEW n, ListInv(s, p, k, n), Next
  PROVE  TypeOK'
<1>1. CASE Arrival BY <1>1, ArrivalType DEF Arrival
<1>2. CASE Reclaim BY <1>2, ReclaimType DEF ListInv
<1>3. CASE Dispatcher /\ ~Reclaim BY <1>3, DispatcherType DEF Dispatcher
<1>4. CASE Worker BY <1>4, WorkerFrame
<1>5. QED BY <1>1, <1>2, <1>3, <1>4 DEF Next

LEMMA ListStep ==
  ASSUME TypeOK, TypeOK', Stored, NEW s, NEW p, NEW k, NEW n, ListInv(s, p, k, n), Next
  PROVE  \E z, q, m, l : ListInv(z, q, m, l)'
<1>1. CASE Arrival
  <2>1. PICK r \in Request : Allocate(r) \/ Drop(r) BY <1>1 DEF Arrival
  <2>2. CASE Allocate(r) BY <2>2, AllocateList
  <2>3. CASE Drop(r)
    <3>1. /\ disp.pc = "idle" /\ disp'.pc \in {"idle", "reclaim"}
          /\ UNCHANGED <<links, lists, target, latest>>
      BY <2>3 DEF Drop, Idle, data
    <3>2. QED BY <3>1, RestList
  <2>4. QED BY <2>1, <2>2, <2>3
<1>2. CASE \E fields \in Stores : Fill(fields) BY <1>2, FillList
<1>3. CASE InsertFirst BY <1>3, InsertFirstList
<1>4. CASE SeekStart BY <1>4, SeekStartList
<1>5. CASE SeekBack BY <1>5, SeekBackList
<1>6. CASE InsertHead BY <1>6, InsertHeadList
<1>7. CASE InsertAfter
  <2>1. PICK j : j = p[disp.at] OBVIOUS
  <2>2. QED BY <1>7, <2>1, InsertAfterList
<1>8. CASE Reclaim BY <1>8, ReclaimList
<1>9. CASE ReclaimNothing
  <2>1. /\ disp.pc = "reclaim" /\ disp'.pc = "idle"
        /\ UNCHANGED <<links, lists, target, latest>>
    BY <1>9 DEF ReclaimNothing, Idle, data
  <2>2. QED BY <2>1, RestList
<1>10. CASE Cut BY <1>10, CutList
<1>11. CASE Join BY <1>11, JoinList
<1>12. CASE Worker BY <1>12, WorkerFrame, KeptList
<1>13. QED
  BY <1>1, <1>2, <1>3, <1>4, <1>5, <1>6, <1>7, <1>8, <1>9, <1>10, <1>11, <1>12
  DEF Next, Dispatcher

LEMMA StutterInv ==
  ASSUME Inv, UNCHANGED vars
  PROVE  Inv'
<1>1. /\ UNCHANGED <<next, prev, tag, target, internal, copied, completed>>
      /\ UNCHANGED <<ioSeq, ioSeqEnd, freeSeq, freeSeqEnd, latest, disp, work, phase, sent>>
  BY DEF vars, links, data, lists, host
<1>2. TypeOK' BY <1>1 DEF Inv, TypeOK
<1>3. Stored' BY <1>1 DEF Inv, Stored, IsStored
<1>4. PICK s \in [1 .. N -> Entries], p \in [Entries -> 1 .. N], k \in 0 .. N, n \in 0 .. N :
        ListInv(s, p, k, n)
  BY DEF Inv
<1>5. latest' >= latest BY <1>1, WorkQueueAssumption DEF Inv, TypeOK
<1>6. ListInv(s, p, k, n)'
  BY <1>1, <1>2, <1>4, <1>5, KeptList DEF Inv, links, lists
<1>7. QED BY <1>2, <1>3, <1>6, InvMade

LEMMA InvAlways == Spec => []Inv
<1>1. Init => Inv
  <2>1. SUFFICES ASSUME Init PROVE Inv OBVIOUS
  <2>2. TypeOK BY <2>1, TypeInit
  <2>3. Stored BY <2>1 DEF Init, Idle, Stored, IsStored
  <2>4. ListInv([i \in 1 .. N |-> i - 1], [e \in Entries |-> e + 1], 0, 0) BY <2>1, InitList
  <2>5. QED BY <2>2, <2>3, <2>4, InvIntro
<1>2. Inv /\ [Next]_vars => Inv'
  <2>1. SUFFICES ASSUME Inv, [Next]_vars PROVE Inv' OBVIOUS
  <2>2. CASE Next
    <3>1. PICK s \in [1 .. N -> Entries], p \in [Entries -> 1 .. N],
               k \in 0 .. N, n \in 0 .. N : ListInv(s, p, k, n)
      BY <2>1 DEF Inv
    <3>2. TypeOK' BY <2>1, <2>2, <3>1, TypeStep DEF Inv
    <3>3. Stored' BY <2>1, <2>2, StoredStep DEF Inv
    <3>4. PICK z, q, m, l : ListInv(z, q, m, l)' BY <2>1, <2>2, <3>1, <3>2, ListStep DEF Inv
    <3>5. QED BY <3>2, <3>3, <3>4, InvMade
  <2>3. CASE UNCHANGED vars BY <2>1, <2>3, StutterInv
  <2>4. QED BY <2>1, <2>2, <2>3
<1>3. QED BY <1>1, <1>2, PTL DEF Spec

\* The queue and the free list stay disjoint chains that lose no entry,
\* through every interleaving of the dispatcher's stores with the worker:
\* __enqueue_io_req, __insert_req_sorted and __reclaim_completed_reqs, which
\* link, unlink and append by index with no lock.
THEOREM ListsAlwaysSound == Spec => []ListsSound
<1>1. Inv => ListsSound
  <2>1. SUFFICES ASSUME Inv PROVE ListsSound OBVIOUS
  <2>2. PICK s \in [1 .. N -> Entries], p \in [Entries -> 1 .. N],
             k \in 0 .. N, n \in 0 .. N : ListInv(s, p, k, n)
    BY <2>1 DEF Inv
  <2>3. QED BY <2>2, SoundLists DEF ListInv
<1>2. QED BY <1>1, InvAlways, PTL

\* A request whose time has not come is behind no later one: the search of
\* __insert_req_sorted from the end, which stops early at an entry that is
\* due, keeps the order of those still waiting.
THEOREM WaitingAlwaysInOrder == Spec => []WaitingInOrder
<1>1. Inv => WaitingInOrder
  <2>1. SUFFICES ASSUME Inv, NEW e \in Queued, next[e] # None
                 PROVE  target[e] <= latest \/ target[e] <= target[next[e]]
    BY DEF WaitingInOrder
  <2>2. PICK s \in [1 .. N -> Entries], p \in [Entries -> 1 .. N],
             k \in 0 .. N, n \in 0 .. N : ListInv(s, p, k, n)
    BY <2>1 DEF Inv
  <2>3. Order(s, p) /\ Layout(s, k, n) /\ InOrder(s, k, n) BY <2>2 DEF ListInv
  <2>4. PICK i \in k + 1 .. n : e = s[i]
    <3>1. Queued = {s[i] : i \in k + 1 .. n} BY <2>3, ListsAre
    <3>2. QED BY <2>1, <3>1
  <2>5. /\ i \in Nat /\ n \in Nat /\ k \in Nat /\ k < i /\ i <= n /\ n + Hand < N
        /\ Hand \in Nat
    BY <2>3, <2>4 DEF Layout, Hand
  <2>6. i # n
    <3>1. ASSUME i = n PROVE FALSE
      <4>1. n > k BY <3>1, <2>5
      <4>2. next[s[n]] = None BY <4>1, <2>3 DEF Layout
      <4>3. QED BY <4>2, <3>1, <2>1, <2>4
    <3>2. QED BY <3>1
  <2>7. /\ i \in k + 1 .. n - 1 /\ i \in 1 .. N - 1 /\ i \notin {k, n, n + Hand}
    <3> DEFINE h == Hand
    <3>0. i \in Nat /\ n \in Nat /\ k \in Nat /\ h \in Nat /\ N \in Nat /\ k < i /\ i <= n
          /\ n + h < N /\ i # n
      BY <2>5, <2>6, EntryFacts
    <3> HIDE DEF h
    <3>1. i < n /\ i # k /\ i # n /\ i # n + h /\ n < N BY <3>0
    <3>2. i \in 1 .. N - 1 BY <3>1, <2>5, EntryFacts
    <3>3. QED BY <3>1, <3>2, <2>5
  <2>8. next[e] = s[i + 1] BY <2>3, <2>4, <2>7 DEF Layout
  <2>9. QED BY <2>3, <2>4, <2>7, <2>8 DEF InOrder
<1>2. QED BY <1>1, InvAlways, PTL

------------------------------------------------------------------------------
(* The worker, when the load is light *)

\* At most half of the entries are in use at once.
LightLoad == 2 * MaxQueued <= N

\* The entries in hand, or linked and not completed yet.
Live(p, n) == {e \in Entries : p[e] <= n + Hand /\ (p[e] > n \/ ~completed[e])}

\* The steps a worker makes for a request.
Acting == work.pc \in {"copy", "test", "mark"}

\* Entries that were completed are at the end of the free list.
FlagInv(s, k, n) ==
  /\ n + Hand <= MaxQueued
  /\ \A i \in 1 .. k : completed[s[i]]
  /\ \A i \in n + Hand + 1 .. N - 1 : completed[s[i]] => completed[s[i + 1]]
  /\ IsStored("completed") => ~completed[disp.entry]

\* A worker may stand on an entry that was freed, but is done with it; and the
\* dispatcher will take it only after so many others that some of those are
\* completed first, by this worker.
CurrInv(p, k, n) ==
  work.pc # "begin" =>
    /\ p[work.curr] \notin n + 1 .. n + Hand
    /\ Acting => p[work.curr] \in k + 1 .. n /\ ~completed[work.curr]
    /\ p[work.curr] \notin k + 1 .. n => completed[work.curr]
    /\ p[work.curr] > n + Hand =>
         p[work.curr] - (n + Hand) - 1 + Cardinality(Live(p, n)) >= MaxQueued

WorkInv(s, p, k, n) == FlagInv(s, k, n) /\ CurrInv(p, k, n)

\* A request in the queue that is not finished.
Pending(p, n, e) == /\ p[e] <= n /\ ~completed[e]
                    /\ ~(work.pc = "mark" /\ work.curr = e)

\* The host sees a request that is queued, or in hand, as it was sent, its
\* data moved as far as the entry says.
Asked(e) ==
  /\ tag[e] \in Tags
  /\ sent[tag[e]] = [target |-> target[e], internal |-> internal[e]]
  /\ phase[tag[e]] = IF copied[e] /\ ~internal[e] THEN "moved" ELSE "sent"

AskedInHand ==
  /\ phase[disp.req.tag] = "sent"
  /\ sent[disp.req.tag] = [target |-> disp.req.target, internal |-> disp.req.internal]

LifeInv(p, n) ==
  /\ \A e \in Entries : Pending(p, n, e) => Asked(e)
  /\ \A e, f \in Entries :
       Pending(p, n, e) /\ Pending(p, n, f) /\ tag[e] = tag[f] => e = f
  /\ Hand = 1 => /\ AskedInHand
                 /\ \A e \in Entries : Pending(p, n, e) => tag[e] # disp.req.tag
  /\ IsStored("copied") => copied[disp.entry] = disp.req.internal
  /\ work.pc = "test" => copied[work.curr]

LEMMA LiveFinite ==
  ASSUME NEW p, NEW n
  PROVE  IsFiniteSet(Live(p, n)) /\ Cardinality(Live(p, n)) \in Nat
<1>1. Live(p, n) \in SUBSET (0 .. N - 1) BY EntryFacts DEF Live
<1>2. IsFiniteSet(0 .. N - 1) BY EntryFacts, FS_Interval
<1>3. IsFiniteSet(Live(p, n)) BY <1>1, <1>2, FS_Subset
<1>4. QED BY <1>3, FS_CardinalityType

\* With nothing in hand the queue is no shorter than its live part, and no
\* shorter than it is laid out.
LEMMA QueueCounts ==
  ASSUME NEW s, NEW p, NEW n, Order(s, p), Layout(s, 0, n), Hand = 0
  PROVE  /\ Cardinality(Queued) \in Nat
         /\ n <= Cardinality(Queued)
         /\ Cardinality(Live(p, n)) <= Cardinality(Queued)
<1>1. n \in Nat /\ n < N BY EntryFacts DEF Layout
<1>2. /\ \A i \in 1 .. N : s[i] \in Entries /\ p[s[i]] = i
      /\ \A e \in Entries : s[p[e]] = e /\ p[e] \in 1 .. N
  BY DEF Order
<1>3. Queued = {s[i] : i \in 1 .. n}
  <2>1. 0 + 1 .. n = 1 .. n BY <1>1
  <2>2. QED BY <2>1, ListsAre
<1>4. Queued \in SUBSET (0 .. N - 1) BY EntryFacts DEF Queued
<1>5. IsFiniteSet(Queued)
  <2>1. IsFiniteSet(0 .. N - 1) BY EntryFacts, FS_Interval
  <2>2. QED BY <1>4, <2>1, FS_Subset
<1>6. Cardinality(Queued) \in Nat BY <1>5, FS_CardinalityType
<1>7. n <= Cardinality(Queued)
  <2> DEFINE f == [i \in 1 .. n |-> s[i]]
  <2>1. \A i \in 1 .. n : i \in 1 .. N BY <1>1, EntryFacts
  <2>2. f \in Injection(1 .. n, Queued) BY <1>2, <1>3, <2>1 DEF Injection, IsInjective
  <2>3. Cardinality(1 .. n) <= Cardinality(Queued)
    <3> HIDE DEF f
    <3> QED BY <2>2, <1>5, FS_Injection
  <2>4. Cardinality(1 .. n) = n BY <1>1, FS_Interval
  <2>5. QED BY <2>3, <2>4
<1>8. Live(p, n) \in SUBSET Queued
  <2>1. ASSUME NEW e \in Live(p, n) PROVE e \in Queued
    <3>1. e \in Entries /\ p[e] <= n BY <1>1 DEF Live
    <3>2. p[e] \in 1 .. n /\ s[p[e]] = e BY <3>1, <1>1, <1>2
    <3>3. QED BY <3>2, <1>3
  <2>2. QED BY <2>1
<1>9. QED BY <1>5, <1>6, <1>7, <1>8, FS_Subset

LEMMA OrderFacts ==
  ASSUME NEW s, NEW p, Order(s, p)
  PROVE  /\ \A i \in 1 .. N : s[i] \in Entries /\ p[s[i]] = i
         /\ \A e \in Entries : p[e] \in 1 .. N /\ s[p[e]] = e
BY DEF Order

LEMMA LayoutFacts ==
  ASSUME NEW s, NEW k, NEW n, Layout(s, k, n)
  PROVE  k \in Nat /\ n \in Nat /\ k <= n /\ Hand \in 0 .. 1 /\ n + Hand < N /\ n < N
BY EntryFacts DEF Layout, Hand

LEMMA WorkerPlace ==
  ASSUME TypeOK
  PROVE  /\ work.pc \in {"begin", "clock", "check", "copy", "test", "mark", "advance"}
         /\ work.pc # "begin" => work.curr \in Entries
         /\ work = [pc |-> work.pc, curr |-> work.curr]
BY DEF TypeOK

\* The dispatcher does not move the order nor the flags.
LEMMA KeptWork ==
  ASSUME TypeOK, NEW s, NEW p, NEW k, NEW n, WorkInv(s, p, k, n),
         UNCHANGED <<work, completed>>, Hand' = Hand,
         IsStored("completed")' => IsStored("completed") /\ disp'.entry = disp.entry
  PROVE  WorkInv(s, p, k, n)'
<1>1. Live(p, n)' = Live(p, n) BY DEF Live
<1>2. FlagInv(s, k, n)' BY DEF WorkInv, FlagInv
<1>3. CurrInv(p, k, n)' BY <1>1 DEF WorkInv, CurrInv, Acting
<1>4. QED BY <1>2, <1>3 DEF WorkInv

LEMMA AllocateWork ==
  ASSUME TypeOK, NEW s, NEW p, NEW k, NEW n, ListInv(s, p, k, n), WorkInv(s, p, k, n),
         LightLoad, NEW r, Allocate(r)
  PROVE  WorkInv(s, p, 0, n)'
<1>1. Order(s, p) /\ Layout(s, k, n) BY DEF ListInv
<1>2. k = 0 /\ Hand = 0 /\ Hand' = 1 /\ disp'.entry = s[n + 1] BY <1>1, AllocateLayout
<1>3. Layout(s, 0, n) BY <1>1, <1>2, Zenon
<1>4. n \in Nat /\ n + 1 <= N /\ n + 1 \in 1 .. N
  <2>1. n \in Nat /\ n < N BY <1>3, LayoutFacts
  <2>2. QED BY <2>1, EntryFacts
<1>5. /\ UNCHANGED <<work, completed>> /\ Cardinality(Queued) < MaxQueued
      /\ disp'.pc = "fill" /\ disp'.left = Stores
  BY DEF Allocate, data
<1>6. /\ Cardinality(Queued) \in Nat /\ n <= Cardinality(Queued)
      /\ Cardinality(Live(p, n)) <= Cardinality(Queued)
  BY <1>1, <1>2, <1>3, QueueCounts
<1>7. MaxQueued \in Nat BY WorkQueueAssumption
<1>8. IsFiniteSet(Live(p, n)) /\ Cardinality(Live(p, n)) \in Nat BY LiveFinite
<1>9. Cardinality(Live(p, n)') = Cardinality(Live(p, n)) + 1
  <2>1. Live(p, n)' = {e \in Entries : p[e] <= n + 1 /\ (p[e] > n \/ ~completed[e])}
    BY <1>2, <1>5 DEF Live
  <2>2. Live(p, n) = {e \in Entries : p[e] <= n + 0 /\ (p[e] > n \/ ~completed[e])}
    BY <1>2 DEF Live
  <2>3. s[n + 1] \in Entries /\ p[s[n + 1]] = n + 1 BY <1>1, <1>4, OrderFacts
  <2>4. \A e \in Entries : p[e] \in Nat /\ (p[e] = n + 1 => e = s[n + 1])
    BY <1>1, OrderFacts
  <2>5. ASSUME NEW e \in Entries
        PROVE  e \in Live(p, n)' <=> e \in Live(p, n) \/ e = s[n + 1]
    BY <2>1, <2>2, <2>3, <2>4, <1>4
  <2>6. Live(p, n)' = Live(p, n) \cup {s[n + 1]}
    BY <2>5, <2>3 DEF Live
  <2>7. s[n + 1] \notin Live(p, n) BY <2>2, <2>3, <1>4
  <2>8. QED BY <2>6, <2>7, <1>8, FS_AddElement
<1>10. FlagInv(s, 0, n)'
  <2>1. ~IsStored("completed")' BY <1>5 DEF IsStored
  <2>2. n + Hand' <= MaxQueued BY <1>2, <1>4, <1>5, <1>6, <1>7
  <2>3. \A i \in n + 0 + 1 .. N - 1 : completed[s[i]] => completed[s[i + 1]]
    BY <1>2 DEF WorkInv, FlagInv
  <2>4. \A i \in n + 1 + 1 .. N - 1 : i \in n + 0 + 1 .. N - 1 BY <1>4, EntryFacts
  <2>5. \A i \in n + Hand' + 1 .. N - 1 : completed'[s[i]] => completed'[s[i + 1]]
    BY <2>3, <2>4, <1>2, <1>5
  <2>6. QED BY <2>1, <2>2, <2>5 DEF FlagInv
<1>11. CurrInv(p, 0, n)'
  <2> DEFINE c == work.curr
             L == Cardinality(Live(p, n))
  <2>1. SUFFICES ASSUME work.pc # "begin"
        PROVE  /\ p[c] \notin n + 1 .. n + 1
               /\ Acting' => p[c] \in 0 + 1 .. n /\ ~completed[c]
               /\ p[c] \notin 0 + 1 .. n => completed[c]
               /\ p[c] > n + 1 => p[c] - (n + 1) - 1 + (L + 1) >= MaxQueued
    BY <1>2, <1>5, <1>9 DEF CurrInv
  <2>2. c \in Entries BY <2>1, WorkerPlace
  <2>3. p[c] \in Nat BY <2>2, <1>1, OrderFacts
  <2>4. /\ Acting => p[c] \in 0 + 1 .. n /\ ~completed[c]
        /\ p[c] \notin 0 + 1 .. n => completed[c]
        /\ p[c] > n + 0 => p[c] - (n + 0) - 1 + L >= MaxQueued
    BY <2>1, <1>2 DEF WorkInv, CurrInv
  <2>5. Acting' = Acting BY <1>5 DEF Acting
  <2>6. L \in Nat /\ L < MaxQueued BY <1>5, <1>6, <1>7, <1>8
  <2> HIDE DEF c, L
  <2>7. p[c] # n + 1 BY <2>3, <2>4, <2>6, <1>4, <1>7
  <2>8. p[c] > n + 1 => p[c] - (n + 1) - 1 + (L + 1) >= MaxQueued
    BY <2>3, <2>4, <2>6, <1>4, <1>7
  <2>9. QED BY <2>3, <2>4, <2>5, <2>7, <2>8, <1>4
<1>12. QED BY <1>10, <1>11 DEF WorkInv

LEMMA FillWork ==
  ASSUME TypeOK, NEW s, NEW p, NEW k, NEW n, ListInv(s, p, k, n), WorkInv(s, p, k, n),
         NEW fields \in Stores, Fill(fields)
  PROVE  WorkInv(s, p, 0, n)'
<1>1. Order(s, p) /\ Layout(s, k, n) BY DEF ListInv
<1>2. k = 0 /\ Hand = 1 /\ Hand' = 1 BY <1>1, FillLayout
<1>3. disp.entry = s[n + 1] BY <1>1, <1>2 DEF Layout
<1>4. n \in Nat /\ n + 1 < N /\ n + 1 \in 1 .. N
  <2>1. n \in Nat /\ n + 1 < N BY <1>1, <1>2, LayoutFacts
  <2>2. QED BY <2>1, EntryFacts
<1>5. s[n + 1] \in Entries /\ p[s[n + 1]] = n + 1 BY <1>1, <1>4, OrderFacts
<1>6. /\ disp.pc = "fill" /\ disp.left \subseteq Stores
      /\ disp' = [pc |-> "fill", entry |-> disp.entry, req |-> disp.req,
                  left |-> disp.left \ {fields}]
      /\ completed' = IF "completed" \in fields
                      THEN [completed EXCEPT ![disp.entry] = FALSE] ELSE completed
      /\ work' = work
  BY PlaceFacts DEF Fill
<1>7. /\ \A e \in Entries : p[e] # n + 1 => completed'[e] = completed[e]
      /\ "completed" \in fields => ~completed'[s[n + 1]]
      /\ "completed" \notin fields => completed' = completed
  BY <1>3, <1>5, <1>6 DEF TypeOK
<1>8. Live(p, n)' = Live(p, n)
  <2>1. Live(p, n)' = {e \in Entries : p[e] <= n + 1 /\ (p[e] > n \/ ~completed'[e])}
    BY <1>2 DEF Live
  <2>2. Live(p, n) = {e \in Entries : p[e] <= n + 1 /\ (p[e] > n \/ ~completed[e])}
    BY <1>2 DEF Live
  <2>3. \A e \in Entries : p[e] \in Nat BY <1>1, OrderFacts
  <2>4. ASSUME NEW e \in Entries
        PROVE  (p[e] > n \/ ~completed'[e]) <=> (p[e] > n \/ ~completed[e])
    BY <2>3, <1>4, <1>7
  <2>5. QED BY <2>1, <2>2, <2>4
<1>9. FlagInv(s, 0, n)'
  <2>1. n + Hand' <= MaxQueued BY <1>2 DEF WorkInv, FlagInv
  <2>2. ASSUME NEW i \in n + Hand' + 1 .. N - 1, completed'[s[i]] PROVE completed'[s[i + 1]]
    <3>1. /\ i \in n + Hand + 1 .. N - 1 /\ i \in 1 .. N /\ i + 1 \in 1 .. N
          /\ i # n + 1 /\ i + 1 # n + 1
      BY <1>2, <1>4, EntryFacts
    <3>2. /\ s[i] \in Entries /\ s[i + 1] \in Entries
          /\ p[s[i]] # n + 1 /\ p[s[i + 1]] # n + 1
      BY <3>1, <1>1, OrderFacts
    <3>3. completed[s[i]] BY <3>2, <2>2, <1>7
    <3>4. completed[s[i + 1]] BY <3>1, <3>3 DEF WorkInv, FlagInv
    <3>5. QED BY <3>2, <3>4, <1>7
  <2>3. IsStored("completed")' => ~completed'[disp'.entry]
    <3>1. CASE "completed" \in fields BY <3>1, <1>3, <1>6, <1>7
    <3>2. CASE "completed" \notin fields
      <4>1. IsStored("completed")' => IsStored("completed") BY <3>2, <1>6 DEF IsStored
      <4>2. QED BY <4>1, <3>2, <1>6, <1>7 DEF WorkInv, FlagInv
    <3>3. QED BY <3>1, <3>2
  <2>4. QED BY <2>1, <2>2, <2>3 DEF FlagInv
<1>10. CurrInv(p, 0, n)'
  <2>1. ASSUME work.pc # "begin" PROVE completed'[work.curr] = completed[work.curr]
    <3>1. work.curr \in Entries BY <2>1, WorkerPlace
    <3>2. p[work.curr] \notin n + 1 .. n + 1 BY <2>1, <1>2 DEF WorkInv, CurrInv
    <3>3. p[work.curr] # n + 1 BY <3>2, <1>4
    <3>4. QED BY <3>1, <3>3, <1>7
  <2>2. CurrInv(p, 0, n) BY <1>2 DEF WorkInv
  <2>3. QED BY <2>1, <2>2, <1>2, <1>6, <1>8 DEF CurrInv, Acting
<1>11. QED BY <1>9, <1>10 DEF WorkInv

\* Linking the entry in hand somewhere into the queue.
LEMMA InsertWork ==
  ASSUME TypeOK, NEW s, NEW p, NEW n \in Nat, Order(s, p), n + 1 \in 1 .. N,
         WorkInv(s, p, 0, n), Hand = 1, Hand' = 0, disp.entry = s[n + 1],
         IsStored("completed"), UNCHANGED <<work, completed>>,
         NEW z, NEW q, Order(z, q),
         \A e \in Entries : /\ q[e] <= n + 1 <=> p[e] <= n + 1
                            /\ p[e] > n + 1 => q[e] = p[e],
         \A i \in n + 2 .. N : z[i] = s[i]
  PROVE  WorkInv(z, q, 0, n + 1)'
<1>1. ~completed[s[n + 1]] BY DEF WorkInv, FlagInv
<1>2. /\ s[n + 1] \in Entries /\ p[s[n + 1]] = n + 1
      /\ \A e \in Entries : p[e] \in 1 .. N /\ q[e] \in 1 .. N /\ s[p[e]] = e
  BY OrderFacts
<1>3. Live(q, n + 1)' = Live(p, n)
  <2>1. Live(q, n + 1)' = {e \in Entries : q[e] <= n + 1 + 0 /\ (q[e] > n + 1 \/ ~completed[e])}
    BY DEF Live
  <2>2. Live(p, n) = {e \in Entries : p[e] <= n + 1 /\ (p[e] > n \/ ~completed[e])}
    BY DEF Live
  <2>3. ASSUME NEW e \in Entries
        PROVE  (q[e] <= n + 1 + 0 /\ (q[e] > n + 1 \/ ~completed[e]))
                 <=> (p[e] <= n + 1 /\ (p[e] > n \/ ~completed[e]))
    <3>1. p[e] \in Nat /\ q[e] \in Nat /\ (p[e] = n + 1 => e = s[n + 1]) BY <1>2
    <3>2. q[e] <= n + 1 <=> p[e] <= n + 1 OBVIOUS
    <3>3. p[e] = n + 1 => ~completed[e] BY <3>1, <1>1
    <3>4. QED BY <3>1, <3>2, <3>3
  <2>4. QED BY <2>1, <2>2, <2>3
<1>4. FlagInv(z, 0, n + 1)'
  <2>1. n + 1 + Hand' <= MaxQueued BY DEF WorkInv, FlagInv
  <2>2. ASSUME NEW i \in n + 1 + Hand' + 1 .. N - 1, completed[z[i]]
        PROVE  completed[z[i + 1]]
    <3>1. i \in n + 2 .. N /\ i + 1 \in n + 2 .. N /\ i \in n + Hand + 1 .. N - 1
      BY EntryFacts
    <3>2. z[i] = s[i] /\ z[i + 1] = s[i + 1] BY <3>1
    <3>3. QED BY <2>2, <3>1, <3>2 DEF WorkInv, FlagInv
  <2>3. ~IsStored("completed")' BY DEF Hand, IsStored
  <2>4. QED BY <2>1, <2>2, <2>3 DEF FlagInv
<1>5. CurrInv(q, 0, n + 1)'
  <2> DEFINE c == work.curr
             L == Cardinality(Live(p, n))
  <2>1. SUFFICES ASSUME work.pc # "begin"
        PROVE  /\ q[c] \notin n + 1 + 1 .. n + 1 + 0
               /\ Acting' => q[c] \in 0 + 1 .. n + 1 /\ ~completed[c]
               /\ q[c] \notin 0 + 1 .. n + 1 => completed[c]
               /\ q[c] > n + 1 + 0 => q[c] - (n + 1 + 0) - 1 + L >= MaxQueued
    BY <1>3 DEF CurrInv
  <2>2. c \in Entries BY <2>1, WorkerPlace
  <2>3. p[c] \in 1 .. N /\ q[c] \in 1 .. N BY <2>2, <1>2
  <2>4. (q[c] <= n + 1 <=> p[c] <= n + 1) /\ (p[c] > n + 1 => q[c] = p[c]) BY <2>2
  <2>5. /\ p[c] \notin n + 1 .. n + 1
        /\ Acting => p[c] \in 0 + 1 .. n /\ ~completed[c]
        /\ p[c] \notin 0 + 1 .. n => completed[c]
        /\ p[c] > n + 1 => p[c] - (n + 1) - 1 + L >= MaxQueued
    BY <2>1 DEF WorkInv, CurrInv
  <2>6. Acting' = Acting BY DEF Acting
  <2> HIDE DEF c, L
  <2>7. p[c] \in Nat /\ q[c] \in Nat /\ p[c] >= 1 /\ q[c] >= 1 BY <2>3
  <2>8. q[c] \notin n + 1 + 1 .. n + 1 + 0 BY <2>7
  <2>9. Acting' => q[c] \in 0 + 1 .. n + 1 /\ ~completed[c] BY <2>4, <2>5, <2>6, <2>7
  <2>10. q[c] \notin 0 + 1 .. n + 1 => completed[c] BY <2>4, <2>5, <2>7
  <2>11. q[c] > n + 1 + 0 => q[c] - (n + 1 + 0) - 1 + L >= MaxQueued
    BY <2>4, <2>5, <2>7
  <2>12. QED BY <2>8, <2>9, <2>10, <2>11
<1>6. QED BY <1>4, <1>5 DEF WorkInv

LEMMA MovedWithin ==
  ASSUME NEW s, NEW p, Order(s, p), NEW b \in 1 .. N, NEW a \in 1 .. b
  PROVE  /\ \A e \in Entries : /\ MovedPlace(p, a, b)[e] <= b <=> p[e] <= b
                               /\ p[e] > b => MovedPlace(p, a, b)[e] = p[e]
         /\ \A i \in b + 1 .. N : Moved(s, a, b)[i] = s[i]
<1>1. \A i \in b + 1 .. N : Moved(s, a, b)[i] = s[i] BY EntryFacts DEF Moved
<1>2. ASSUME NEW e \in Entries
      PROVE  /\ MovedPlace(p, a, b)[e] <= b <=> p[e] <= b
             /\ p[e] > b => MovedPlace(p, a, b)[e] = p[e]
  <2>1. p[e] \in 1 .. N BY OrderFacts
  <2>2. MovedPlace(p, a, b)[e]
          = IF p[e] = b THEN a ELSE IF p[e] \in a .. b - 1 THEN p[e] + 1 ELSE p[e]
    BY DEF MovedPlace
  <2>3. QED BY <2>1, <2>2, EntryFacts
<1>3. QED BY <1>1, <1>2

LEMMA ReclaimWork ==
  ASSUME TypeOK, NEW s, NEW p, NEW n \in Nat, Order(s, p), n < N,
         WorkInv(s, p, 0, n), Hand = 0, Hand' = 0, UNCHANGED <<work, completed>>,
         NEW j \in 1 .. n, \A i \in 1 .. j : completed[s[i]]
  PROVE  WorkInv(s, p, j, n)'
<1>1. Live(p, n)' = Live(p, n) BY DEF Live
<1>2. ~IsStored("completed")' BY DEF Hand, IsStored
<1>3. FlagInv(s, j, n)' BY <1>2 DEF WorkInv, FlagInv
<1>4. CurrInv(p, j, n)'
  <2> DEFINE c == work.curr
  <2>1. SUFFICES ASSUME work.pc # "begin"
        PROVE  /\ Acting' => p[c] \in j + 1 .. n /\ ~completed[c]
               /\ p[c] \notin j + 1 .. n => completed[c]
    BY <1>1 DEF CurrInv, WorkInv
  <2>2. c \in Entries BY <2>1, WorkerPlace
  <2>3. p[c] \in Nat /\ p[c] >= 1 /\ s[p[c]] = c BY <2>2, OrderFacts
  <2>4. /\ Acting => p[c] \in 0 + 1 .. n /\ ~completed[c]
        /\ p[c] \notin 0 + 1 .. n => completed[c]
    BY <2>1 DEF WorkInv, CurrInv
  <2>5. p[c] <= j => completed[c]
    <3>1. ASSUME p[c] <= j PROVE completed[c]
      <4>1. p[c] \in 1 .. j BY <3>1, <2>3
      <4>2. completed[s[p[c]]] BY <4>1
      <4>3. QED BY <4>2, <2>3
    <3>2. QED BY <3>1
  <2>6. Acting' = Acting BY DEF Acting
  <2> HIDE DEF c
  <2>7. QED BY <2>3, <2>4, <2>5, <2>6
<1>5. QED BY <1>3, <1>4 DEF WorkInv

LEMMA JoinWork ==
  ASSUME TypeOK, NEW s, NEW p, NEW k \in Nat, NEW n \in Nat, k <= n, n < N, Order(s, p),
         WorkInv(s, p, k, n), Hand = 0, Hand' = 0, UNCHANGED <<work, completed>>,
         LightLoad
  PROVE  WorkInv(Rotated(s, k), RotatedPlace(p, k), 0, n - k)'
<1> DEFINE z == Rotated(s, k)
           q == RotatedPlace(p, k)
<1>1. /\ \A i \in 1 .. N - k : z[i] = s[i + k]
      /\ \A i \in N - k + 1 .. N : z[i] = s[i + k - N]
  BY EntryFacts DEF Rotated
<1>2. \A e \in Entries : /\ p[e] \in Nat /\ p[e] >= 1 /\ p[e] <= N /\ s[p[e]] = e
                         /\ p[e] > k => q[e] = p[e] - k
                         /\ p[e] <= k => q[e] = p[e] + N - k
  <2>1. \A e \in Entries : p[e] \in 1 .. N /\ s[p[e]] = e BY OrderFacts
  <2>2. QED BY <2>1, EntryFacts DEF RotatedPlace
<1> HIDE DEF z, q
<1>3. \A i \in 1 .. k : completed[s[i]] BY DEF WorkInv, FlagInv
<1>4. \A e \in Entries : p[e] <= k => completed[e]
  <2>1. ASSUME NEW e \in Entries, p[e] <= k PROVE completed[e]
    <3>1. p[e] \in 1 .. k /\ s[p[e]] = e BY <2>1, <1>2
    <3>2. completed[s[p[e]]] BY <3>1, <1>3
    <3>3. QED BY <3>1, <3>2
  <2>2. QED BY <2>1
<1>5. N \in Nat /\ MaxQueued \in Nat /\ 2 * MaxQueued <= N /\ n <= MaxQueued
  BY EntryFacts, WorkQueueAssumption DEF LightLoad, WorkInv, FlagInv
<1>6. Live(q, n - k)' = Live(p, n)
  <2>1. Live(q, n - k)'
          = {e \in Entries : q[e] <= n - k + 0 /\ (q[e] > n - k \/ ~completed[e])}
    BY DEF Live
  <2>2. Live(p, n) = {e \in Entries : p[e] <= n + 0 /\ (p[e] > n \/ ~completed[e])}
    BY DEF Live
  <2>3. ASSUME NEW e \in Entries
        PROVE  (q[e] <= n - k + 0 /\ (q[e] > n - k \/ ~completed[e]))
                 <=> (p[e] <= n + 0 /\ (p[e] > n \/ ~completed[e]))
    <3>1. CASE p[e] > k
      <4>1. q[e] = p[e] - k /\ p[e] \in Nat BY <3>1, <1>2
      <4>2. QED BY <4>1
    <3>2. CASE p[e] <= k
      <4>1. q[e] = p[e] + N - k /\ p[e] \in Nat /\ p[e] >= 1 /\ completed[e]
        BY <3>2, <1>2, <1>4
      <4>2. QED BY <4>1, <3>2, <1>5
    <3>3. p[e] \in Nat BY <1>2
    <3>4. QED BY <3>1, <3>2, <3>3
  <2>4. QED BY <2>1, <2>2, <2>3
<1>7. FlagInv(z, 0, n - k)'
  <2>1. n - k + Hand' <= MaxQueued BY <1>5
  <2>2. ASSUME NEW i \in n - k + Hand' + 1 .. N - 1, completed[z[i]]
        PROVE  completed[z[i + 1]]
    <3>1. CASE i + 1 <= N - k
      <4>1. /\ i \in 1 .. N - k /\ i + 1 \in 1 .. N - k /\ (i + 1) + k = (i + k) + 1
            /\ i + k \in n + Hand + 1 .. N - 1
        BY <3>1, <1>5
      <4>2. z[i] = s[i + k] /\ z[i + 1] = s[(i + k) + 1] BY <4>1, <1>1
      <4>3. completed[s[i + k]] => completed[s[(i + k) + 1]] BY <4>1 DEF WorkInv, FlagInv
      <4>4. QED BY <4>2, <4>3, <2>2
    <3>2. CASE i + 1 > N - k
      <4>1. i + 1 \in N - k + 1 .. N /\ (i + 1) + k - N \in 1 .. k BY <3>2, <1>5
      <4>2. z[i + 1] = s[(i + 1) + k - N] BY <4>1, <1>1
      <4>3. QED BY <4>1, <4>2, <1>3
    <3>3. QED BY <3>1, <3>2, <1>5
  <2>3. ~IsStored("completed")' BY DEF Hand, IsStored
  <2>4. QED BY <2>1, <2>2, <2>3 DEF FlagInv
<1>8. CurrInv(q, 0, n - k)'
  <2> DEFINE c == work.curr
             L == Cardinality(Live(p, n))
  <2>1. SUFFICES ASSUME work.pc # "begin"
        PROVE  /\ q[c] \notin n - k + 1 .. n - k + 0
               /\ Acting' => q[c] \in 0 + 1 .. n - k /\ ~completed[c]
               /\ q[c] \notin 0 + 1 .. n - k => completed[c]
               /\ q[c] > n - k + 0 => q[c] - (n - k + 0) - 1 + L >= MaxQueued
    BY <1>6 DEF CurrInv
  <2>2. c \in Entries BY <2>1, WorkerPlace
  <2>3. /\ Acting => p[c] \in k + 1 .. n /\ ~completed[c]
        /\ p[c] \notin k + 1 .. n => completed[c]
        /\ p[c] > n + 0 => p[c] - (n + 0) - 1 + L >= MaxQueued
    BY <2>1 DEF WorkInv, CurrInv
  <2>4. L \in Nat BY LiveFinite
  <2>5. Acting' = Acting BY DEF Acting
  <2>6. /\ p[c] \in Nat /\ p[c] >= 1 /\ p[c] <= N
        /\ p[c] > k => q[c] = p[c] - k
        /\ p[c] <= k => q[c] = p[c] + N - k /\ completed[c]
    BY <2>2, <1>2, <1>4
  <2> HIDE DEF c, L
  <2>7. CASE p[c] > k
    <3>1. q[c] = p[c] - k BY <2>6, <2>7
    <3>2. QED BY <3>1, <2>3, <2>4, <2>5, <2>6, <2>7
  <2>8. CASE p[c] <= k
    <3>1. q[c] = p[c] + N - k /\ completed[c] BY <2>6, <2>8
    <3>2. ~Acting' BY <3>1, <2>3, <2>5
    <3>3. q[c] - (n - k + 0) - 1 + L >= MaxQueued BY <3>1, <2>4, <2>6, <1>5
    <3>4. q[c] \notin n - k + 1 .. n - k + 0 BY <3>1, <2>6, <1>5
    <3>5. QED BY <3>1, <3>2, <3>3, <3>4
  <2>9. QED BY <2>6, <2>7, <2>8
<1>9. QED BY <1>7, <1>8 DEF WorkInv, z, q

\* The link of an entry that is not in hand leads to the next in the order,
\* from the chain on into the queue as long as it is not cut off.
LEMMA NextIs ==
  ASSUME TypeOK, NEW s, NEW p, NEW k, NEW n, Order(s, p), Layout(s, k, n),
         NEW c \in Entries, p[c] \notin n + 1 .. n + Hand, next[c] # None
  PROVE  /\ next[c] \in Entries /\ p[next[c]] = p[c] + 1
         /\ p[c] # n /\ p[c] # n + Hand
<1>1. /\ k \in Nat /\ n \in Nat /\ k <= n /\ Hand \in 0 .. 1 /\ n + Hand < N /\ n < N
      /\ N \in Nat
  BY LayoutFacts, EntryFacts
<1>2. p[c] \in 1 .. N /\ s[p[c]] = c BY OrderFacts
<1>3. p[c] # N
  <2>1. next[s[N]] = None BY DEF Layout
  <2>2. QED BY <2>1, <1>2
<1>4. p[c] # n
  <2>1. ASSUME p[c] = n PROVE FALSE
    <3>1. CASE n > k
      <4>1. next[s[n]] = None BY <3>1 DEF Layout
      <4>2. QED BY <4>1, <2>1, <1>2
    <3>2. CASE n = k
      <4>1. k > 0 BY <3>2, <2>1, <1>1, <1>2
      <4>2. ioSeq = None /\ next[s[k]] = IF disp.pc = "cut" THEN ioSeq ELSE None
        BY <3>2, <4>1 DEF Layout
      <4>3. QED BY <4>2, <3>2, <2>1, <1>2
    <3>3. QED BY <3>1, <3>2, <1>1
  <2>2. QED BY <2>1
<1>5. p[c] # n + Hand BY <1>1, <1>2, <1>4
<1>6. next[c] = s[p[c] + 1]
  <2>1. CASE p[c] # k
    <3>1. p[c] \in 1 .. N - 1 /\ p[c] \notin {k, n, n + Hand}
      BY <2>1, <1>1, <1>2, <1>3, <1>4, <1>5
    <3>2. next[s[p[c]]] = s[p[c] + 1] BY <3>1 DEF Layout
    <3>3. QED BY <3>2, <1>2
  <2>2. CASE p[c] = k
    <3>1. k > 0 /\ n > k BY <2>2, <1>1, <1>2, <1>4
    <3>2. next[s[k]] = IF disp.pc = "cut" THEN ioSeq ELSE None BY <3>1 DEF Layout
    <3>3. ioSeq = s[k + 1] BY <3>1 DEF Layout
    <3>4. QED BY <3>2, <3>3, <2>2, <1>2
  <2>3. QED BY <2>1, <2>2
<1>7. p[c] + 1 \in 1 .. N BY <1>1, <1>2, <1>3
<1>8. s[p[c] + 1] \in Entries /\ p[s[p[c] + 1]] = p[c] + 1 BY <1>7, OrderFacts
<1>9. QED BY <1>4, <1>5, <1>6, <1>8

\* An entry completed is followed by one completed in the free list.
LEMMA FreeNext ==
  ASSUME NEW s, NEW p, NEW k, NEW n, Order(s, p), FlagInv(s, k, n), n \in Nat, Hand \in 0 .. 1,
         NEW c \in Entries, NEW d \in Entries, p[d] = p[c] + 1, p[c] > n + Hand, completed[c]
  PROVE  completed[d]
<1>1. /\ p[c] \in 1 .. N /\ s[p[c]] = c /\ p[d] \in 1 .. N /\ s[p[d]] = d
  BY OrderFacts
<1>2. p[c] \in n + Hand + 1 .. N - 1 BY <1>1, EntryFacts
<1>3. completed[s[p[c]]] => completed[s[p[c] + 1]] BY <1>2 DEF FlagInv
<1>4. QED BY <1>1, <1>3

LEMMA WorkerWork ==
  ASSUME TypeOK, NEW s, NEW p, NEW k, NEW n, ListInv(s, p, k, n), WorkInv(s, p, k, n), Worker
  PROVE  WorkInv(s, p, k, n)'
<1>1. Order(s, p) /\ Layout(s, k, n) /\ FlagInv(s, k, n) BY DEF ListInv, WorkInv
<1>2. k \in Nat /\ n \in Nat /\ k <= n /\ Hand \in 0 .. 1 /\ n + Hand < N /\ n < N
  BY <1>1, LayoutFacts
<1>3. UNCHANGED <<disp, ioSeq, next>> /\ Hand' = Hand
  BY WorkerFrame DEF links, lists, Hand
<1>4. work.pc # "begin" => work.curr \in Entries BY WorkerPlace
<1>5. work.pc # "begin" =>
        /\ p[work.curr] \notin n + 1 .. n + Hand
        /\ Acting => p[work.curr] \in k + 1 .. n /\ ~completed[work.curr]
        /\ p[work.curr] \notin k + 1 .. n => completed[work.curr]
        /\ p[work.curr] > n + Hand =>
             p[work.curr] - (n + Hand) - 1 + Cardinality(Live(p, n)) >= MaxQueued
  BY DEF WorkInv, CurrInv
<1>6. ASSUME completed' = completed,
             work'.pc # "begin" =>
               /\ p[work'.curr] \notin n + 1 .. n + Hand
               /\ Acting' => p[work'.curr] \in k + 1 .. n /\ ~completed[work'.curr]
               /\ p[work'.curr] \notin k + 1 .. n => completed[work'.curr]
               /\ p[work'.curr] > n + Hand =>
                    p[work'.curr] - (n + Hand) - 1 + Cardinality(Live(p, n)) >= MaxQueued
      PROVE  WorkInv(s, p, k, n)'
  <2>1. Live(p, n)' = Live(p, n) BY <1>3, <1>6 DEF Live
  <2>2. IsStored("completed")' <=> IsStored("completed") BY <1>3 DEF IsStored
  <2>3. FlagInv(s, k, n)' BY <2>2, <1>1, <1>3, <1>6 DEF FlagInv
  <2>4. CurrInv(p, k, n)' BY <2>1, <1>3, <1>6 DEF CurrInv
  <2>5. QED BY <2>3, <2>4 DEF WorkInv
<1>7. CASE Begin
  <2>1. ioSeq # None /\ work' = [pc |-> "clock", curr |-> ioSeq] /\ completed' = completed
    BY <1>7 DEF Begin, data
  <2>2. n > k BY <2>1, <1>1, <1>2 DEF Layout
  <2>3. ioSeq = s[k + 1] BY <2>2, <1>1 DEF Layout
  <2>4. k + 1 \in 1 .. N BY <2>2, <1>2, EntryFacts
  <2>5. p[ioSeq] = k + 1 BY <2>3, <2>4, <1>1, OrderFacts
  <2>6. ~Acting' /\ work'.curr = ioSeq BY <2>1 DEF Acting
  <2>7. QED BY <2>1, <2>2, <2>5, <2>6, <1>2, <1>6
<1>8. CASE ReadClock \/ NotDue
  <2>1. work.pc # "begin" /\ completed' = completed /\ work'.pc \in {"check", "advance"}
        /\ work'.curr = work.curr
    BY <1>8, WorkerPlace DEF ReadClock, NotDue, At, Goto, data
  <2>2. ~Acting' BY <2>1 DEF Acting
  <2>3. QED BY <2>1, <2>2, <1>5, <1>6
<1>9. CASE Check
  <2>1. /\ work.pc # "begin" /\ completed' = completed /\ work'.curr = work.curr
        /\ work'.pc = IF completed[work.curr] THEN "advance" ELSE "copy"
    BY <1>9, WorkerPlace DEF Check, At, Goto, data
  <2>2. Acting' => ~completed[work.curr] BY <2>1 DEF Acting
  <2>3. QED BY <2>1, <2>2, <1>5, <1>6
<1>10. CASE Copy \/ Post
  <2>1. /\ work.pc \in {"copy", "test"} /\ completed' = completed /\ work'.curr = work.curr
    BY <1>10, WorkerPlace DEF Copy, Post, At, Goto, data
  <2>2. Acting BY <2>1 DEF Acting
  <2>3. QED BY <2>1, <2>2, <1>5, <1>6
<1>11. CASE Mark
  <2>1. /\ work.pc = "mark" /\ work'.pc = "advance" /\ work'.curr = work.curr
        /\ completed' = [completed EXCEPT ![work.curr] = TRUE]
    BY <1>11, WorkerPlace DEF Mark, At, Goto
  <2>2. /\ work.curr \in Entries /\ p[work.curr] \in k + 1 .. n
    BY <2>1, <1>4, <1>5 DEF Acting
  <2>3. \A e \in Entries : completed'[e] <=> completed[e] \/ e = work.curr
    BY <2>1, <2>2 DEF TypeOK
  <2>4. FlagInv(s, k, n)'
    <3>1. n + Hand' <= MaxQueued BY <1>1, <1>3 DEF FlagInv
    <3>2. \A i \in 1 .. k : completed'[s[i]]
      <4>1. \A i \in 1 .. k : i \in 1 .. N BY <1>2, EntryFacts
      <4>2. QED BY <4>1, <2>3, <1>1, OrderFacts DEF FlagInv
    <3>3. ASSUME NEW i \in n + Hand' + 1 .. N - 1, completed'[s[i]] PROVE completed'[s[i + 1]]
      <4>1. i \in 1 .. N /\ i + 1 \in 1 .. N /\ i \in n + Hand + 1 .. N - 1 /\ i \notin k + 1 .. n
        BY <1>2, <1>3, EntryFacts
      <4>2. s[i] \in Entries /\ p[s[i]] = i /\ s[i + 1] \in Entries
        BY <4>1, <1>1, OrderFacts
      <4>3. s[i] # work.curr BY <4>1, <4>2, <2>2
      <4>4. completed[s[i]] BY <4>2, <4>3, <3>3, <2>3
      <4>5. completed[s[i + 1]] BY <4>1, <4>4, <1>1 DEF FlagInv
      <4>6. QED BY <4>2, <4>5, <2>3
    <3>4. IsStored("completed")' => ~completed'[disp'.entry]
      <4>1. SUFFICES ASSUME IsStored("completed") PROVE ~completed'[disp.entry]
        BY <1>3 DEF IsStored
      <4>2. Hand = 1 BY <4>1 DEF IsStored, Hand
      <4>3. disp.entry = s[n + 1] /\ n + 1 \in 1 .. N BY <4>2, <1>1, <1>2, EntryFacts DEF Layout
      <4>4. disp.entry \in Entries /\ p[disp.entry] = n + 1 BY <4>3, <1>1, OrderFacts
      <4>5. disp.entry # work.curr BY <4>4, <2>2, <1>2
      <4>6. QED BY <4>1, <4>4, <4>5, <2>3, <1>1 DEF FlagInv
    <3>5. QED BY <3>1, <3>2, <3>3, <3>4 DEF FlagInv
  <2>5. CurrInv(p, k, n)'
    <3>1. ~Acting' BY <2>1 DEF Acting
    <3>2. p[work.curr] \notin n + 1 .. n + Hand' /\ ~(p[work.curr] > n + Hand')
      BY <2>2, <1>2, <1>3
    <3>3. QED BY <3>1, <3>2, <2>1, <2>2 DEF CurrInv
  <2>6. QED BY <2>4, <2>5 DEF WorkInv
<1>12. CASE Advance
  <2>1. /\ work.pc = "advance" /\ completed' = completed
        /\ work' = IF next[work.curr] = None THEN [pc |-> "begin", curr |-> None]
                   ELSE [pc |-> "clock", curr |-> next[work.curr]]
    BY <1>12 DEF Advance, At, data
  <2>2. ~Acting' BY <2>1 DEF Acting
  <2>3. CASE next[work.curr] = None BY <2>1, <2>3, <1>6
  <2>4. CASE next[work.curr] # None
    <3> DEFINE c == work.curr
               d == next[work.curr]
               L == Cardinality(Live(p, n))
    <3>1. work'.curr = d BY <2>1, <2>4
    <3>2. /\ c \in Entries
          /\ p[c] \notin n + 1 .. n + Hand
          /\ p[c] \notin k + 1 .. n => completed[c]
          /\ p[c] > n + Hand => p[c] - (n + Hand) - 1 + L >= MaxQueued
      BY <2>1, <1>4, <1>5
    <3>3. d \in Entries /\ p[d] = p[c] + 1 /\ p[c] # n /\ p[c] # n + Hand
      BY <3>2, <2>4, <1>1, NextIs
    <3>4. p[c] \in Nat /\ p[d] \in Nat /\ p[d] >= 1 /\ s[p[d]] = d
      BY <3>2, <3>3, <1>1, OrderFacts
    <3>5. L \in Nat /\ MaxQueued \in Nat BY LiveFinite, WorkQueueAssumption
    <3> HIDE DEF c, d, L
    <3>6. p[d] \notin k + 1 .. n => completed[d]
      <4>1. CASE p[c] > n + Hand
        <5>1. completed[c] BY <4>1, <3>2, <3>4, <1>2
        <5>2. QED BY <5>1, <4>1, <3>2, <3>3, <1>1, <1>2, FreeNext
      <4>2. CASE p[c] < k
        <5>1. p[d] \in 1 .. k BY <4>2, <3>3, <3>4, <1>2
        <5>2. completed[s[p[d]]] BY <5>1, <1>1 DEF FlagInv
        <5>3. QED BY <5>2, <3>4
      <4>3. CASE p[c] >= k /\ p[c] <= n + Hand
        <5>1. p[d] \in k + 1 .. n BY <4>3, <3>2, <3>3, <3>4, <1>2
        <5>2. QED BY <5>1
      <4>4. QED BY <4>1, <4>2, <4>3, <3>4, <1>2
    <3>7. p[d] \notin n + 1 .. n + Hand BY <3>2, <3>3, <3>4, <1>2
    <3>8. p[d] > n + Hand => p[d] - (n + Hand) - 1 + L >= MaxQueued
      <4>1. p[d] > n + Hand => p[c] > n + Hand BY <3>2, <3>3, <3>4, <1>2
      <4>2. QED BY <4>1, <3>2, <3>3, <3>4, <3>5, <1>2
    <3>9. QED BY <3>1, <3>6, <3>7, <3>8, <2>1, <2>2, <1>6 DEF L
  <2>5. QED BY <2>3, <2>4
<1>13. QED BY <1>7, <1>8, <1>9, <1>10, <1>11, <1>12 DEF Worker

\* Nothing of a request changes hands.
LEMMA KeptLife ==
  ASSUME TypeOK, NEW p, NEW n, LifeInv(p, n), NEW q, NEW m,
         UNCHANGED <<tag, target, internal, copied, phase, sent>>,
         \A e \in Entries : Pending(q, m, e)' <=> Pending(p, n, e),
         Hand' = 1 => Hand = 1 /\ disp'.req = disp.req,
         IsStored("copied")' =>
           IsStored("copied") /\ disp'.entry = disp.entry /\ disp'.req = disp.req,
         work'.pc = "test" => work' = work
  PROVE  LifeInv(q, m)'
<1>1. \A e \in Entries : Pending(q, m, e)' => Asked(e)'
  <2>1. \A e \in Entries : Asked(e)' <=> Asked(e) BY DEF Asked
  <2>2. QED BY <2>1 DEF LifeInv
<1>2. \A e, f \in Entries :
        Pending(q, m, e)' /\ Pending(q, m, f)' /\ tag'[e] = tag'[f] => e = f
  BY DEF LifeInv
<1>3. Hand' = 1 => AskedInHand' /\ \A e \in Entries : Pending(q, m, e)' => tag'[e] # disp'.req.tag
  BY DEF LifeInv, AskedInHand
<1>4. IsStored("copied")' => copied'[disp'.entry] = disp'.req.internal
  BY DEF LifeInv
<1>5. work'.pc = "test" => copied'[work'.curr]
  BY DEF LifeInv
<1>6. QED BY <1>1, <1>2, <1>3, <1>4, <1>5 DEF LifeInv

\* The tag of a request arriving is of no other that is pending.
LEMMA FreshTag ==
  ASSUME NEW p, NEW n, LifeInv(p, n), NEW t, phase[t] = "idle"
  PROVE  /\ \A e \in Entries : Pending(p, n, e) => tag[e] # t
         /\ Hand = 1 => disp.req.tag # t
BY DEF LifeInv, Asked, AskedInHand

LEMMA AllocateLife ==
  ASSUME TypeOK, NEW p, NEW n, LifeInv(p, n), NEW r \in Request, Allocate(r), Hand = 0
  PROVE  LifeInv(p, n)'
<1>1. /\ phase[r.tag] = "idle" /\ disp'.pc = "fill" /\ disp'.req = r /\ disp'.left = Stores
      /\ phase' = [phase EXCEPT ![r.tag] = "sent"]
      /\ sent' = [sent EXCEPT ![r.tag] = [target |-> r.target, internal |-> r.internal]]
      /\ UNCHANGED <<tag, target, internal, copied, completed, work>>
  BY DEF Allocate, data
<1>2. r.tag \in Tags BY RequestType
<1>3. \A e \in Entries : Pending(p, n, e)' <=> Pending(p, n, e) BY <1>1 DEF Pending
<1>4. \A e \in Entries : Pending(p, n, e) => tag[e] # r.tag BY <1>1, FreshTag
<1>5. ASSUME NEW e \in Entries, Pending(p, n, e) PROVE Asked(e)'
  <2>1. Asked(e) /\ tag[e] # r.tag BY <1>4, <1>5 DEF LifeInv
  <2>2. phase'[tag[e]] = phase[tag[e]] /\ sent'[tag[e]] = sent[tag[e]]
    BY <2>1, <1>1 DEF Asked, TypeOK
  <2>3. QED BY <2>1, <2>2, <1>1 DEF Asked
<1>6. AskedInHand' BY <1>1, <1>2 DEF AskedInHand, TypeOK
<1>7. ~IsStored("copied")' BY <1>1 DEF IsStored
<1>8. QED BY <1>1, <1>3, <1>4, <1>5, <1>6, <1>7 DEF LifeInv

LEMMA DropLife ==
  ASSUME TypeOK, NEW p, NEW n, LifeInv(p, n), NEW r \in Request, Drop(r)
  PROVE  LifeInv(p, n)'
<1>1. /\ phase[r.tag] = "idle" /\ disp'.pc \in {"idle", "reclaim"}
      /\ phase' = [phase EXCEPT ![r.tag] = "lost"]
      /\ UNCHANGED <<tag, target, internal, copied, completed, work, sent>>
  BY DEF Drop, data, Idle
<1>3. \A e \in Entries : Pending(p, n, e)' <=> Pending(p, n, e) BY <1>1 DEF Pending
<1>4. \A e \in Entries : Pending(p, n, e) => tag[e] # r.tag BY <1>1, FreshTag
<1>5. ASSUME NEW e \in Entries, Pending(p, n, e) PROVE Asked(e)'
  <2>1. Asked(e) /\ tag[e] # r.tag BY <1>4, <1>5 DEF LifeInv
  <2>2. phase'[tag[e]] = phase[tag[e]] BY <2>1, <1>1 DEF Asked, TypeOK
  <2>3. QED BY <2>1, <2>2, <1>1 DEF Asked
<1>6. Hand' # 1 /\ ~IsStored("copied")' BY <1>1 DEF IsStored, Hand
<1>7. QED BY <1>1, <1>3, <1>5, <1>6 DEF LifeInv

LEMMA FillLife ==
  ASSUME TypeOK, NEW s, NEW p, NEW n \in Nat, Order(s, p), n + 1 \in 1 .. N,
         LifeInv(p, n), disp.entry = s[n + 1], Hand = 1, Hand' = 1,
         work.pc = "test" => p[work.curr] <= n,
         NEW fields \in Stores, Fill(fields)
  PROVE  LifeInv(p, n)'
<1>1. /\ disp.pc = "fill" /\ disp.left \subseteq Stores /\ disp.entry \in Entries
      /\ disp.req \in Request
      /\ disp' = [pc |-> "fill", entry |-> disp.entry, req |-> disp.req,
                  left |-> disp.left \ {fields}]
      /\ UNCHANGED <<work, phase, sent>>
  BY PlaceFacts DEF Fill, host
<1>2. s[n + 1] \in Entries /\ p[s[n + 1]] = n + 1 BY OrderFacts
<1>3. \A e \in Entries : e # disp.entry =>
        /\ tag'[e] = tag[e] /\ target'[e] = target[e] /\ internal'[e] = internal[e]
        /\ copied'[e] = copied[e] /\ completed'[e] = completed[e]
  BY <1>1 DEF Fill, TypeOK
<1>4. \A e \in Entries : p[e] <= n => e # disp.entry
  <2>1. \A e \in Entries : p[e] \in Nat BY OrderFacts
  <2>2. QED BY <2>1, <1>2
<1>5. \A e \in Entries : Pending(p, n, e)' <=> Pending(p, n, e)
  BY <1>1, <1>3, <1>4 DEF Pending
<1>6. \A e \in Entries : Pending(p, n, e) => e # disp.entry BY <1>4 DEF Pending
<1>7. \A e \in Entries : Pending(p, n, e) => Asked(e)'
  <2>1. SUFFICES ASSUME NEW e \in Entries, Pending(p, n, e) PROVE Asked(e)' OBVIOUS
  <2>2. Asked(e) BY <2>1 DEF LifeInv
  <2>3. /\ tag'[e] = tag[e] /\ target'[e] = target[e] /\ internal'[e] = internal[e]
        /\ copied'[e] = copied[e]
    BY <2>1, <1>3, <1>6
  <2>4. QED BY <2>2, <2>3, <1>1 DEF Asked
<1>8. \A e, f \in Entries :
        Pending(p, n, e) /\ Pending(p, n, f) /\ tag'[e] = tag'[f] => e = f
  BY <1>3, <1>6 DEF LifeInv
<1>9. AskedInHand' /\ \A e \in Entries : Pending(p, n, e) => tag'[e] # disp'.req.tag
  BY <1>1, <1>3, <1>6 DEF LifeInv, AskedInHand
<1>10. IsStored("copied")' => copied'[disp'.entry] = disp'.req.internal
  <2>1. copied' = IF "copied" \in fields
                  THEN [copied EXCEPT ![disp.entry] = disp.req.internal] ELSE copied
    BY Zenon DEF Fill
  <2>2. CASE "copied" \in fields
    BY <2>1, <2>2, <1>1 DEF TypeOK
  <2>3. CASE "copied" \notin fields
    <3>1. IsStored("copied")' => IsStored("copied") BY <2>3, <1>1 DEF IsStored
    <3>2. QED BY <3>1, <2>1, <2>3, <1>1 DEF LifeInv
  <2>4. QED BY <2>2, <2>3
<1>11. work'.pc = "test" => copied'[work'.curr]
  <2>1. SUFFICES ASSUME work.pc = "test" PROVE copied'[work.curr] BY <1>1
  <2>2. work.curr \in Entries /\ p[work.curr] <= n BY <2>1, WorkerPlace
  <2>3. copied[work.curr] BY <2>1 DEF LifeInv
  <2>4. QED BY <2>2, <2>3, <1>3, <1>4
<1>12. QED BY <1>5, <1>7, <1>8, <1>9, <1>10, <1>11 DEF LifeInv

LEMMA InsertLife ==
  ASSUME TypeOK, Stored, NEW s, NEW p, NEW n \in Nat, Order(s, p), n + 1 \in 1 .. N,
         LifeInv(p, n), disp.entry = s[n + 1], Hand = 1, Hand' = 0,
         (disp.pc = "fill" /\ disp.left = {}) \/ disp.pc = "seek", IsStored("copied"),
         ~completed[disp.entry], work.pc # "begin" => p[work.curr] # n + 1,
         UNCHANGED <<tag, target, internal, copied, completed, work, phase, sent>>,
         NEW q, \A e \in Entries : q[e] <= n + 1 <=> p[e] <= n + 1
  PROVE  LifeInv(q, n + 1)'
<1>1. /\ disp.entry \in Entries /\ p[disp.entry] = n + 1
      /\ \A e \in Entries : p[e] \in Nat /\ (p[e] = n + 1 => e = disp.entry)
  BY OrderFacts
<1>2. /\ tag[disp.entry] = disp.req.tag /\ target[disp.entry] = disp.req.target
      /\ internal[disp.entry] = disp.req.internal /\ disp.req \in Request
  BY AllStored, PlaceFacts
<1>3. disp.req.tag \in Tags BY <1>2, RequestType
<1>4. copied[disp.entry] = disp.req.internal BY DEF LifeInv
<1>5. AskedInHand /\ \A e \in Entries : Pending(p, n, e) => tag[e] # disp.req.tag
  BY DEF LifeInv
<1>6. \A e \in Entries : Pending(q, n + 1, e)' <=> Pending(p, n, e) \/ e = disp.entry
  <2>1. SUFFICES ASSUME NEW e \in Entries
        PROVE  Pending(q, n + 1, e)' <=> Pending(p, n, e) \/ e = disp.entry
    OBVIOUS
  <2>2. CASE e = disp.entry
    <3>1. q[e] <= n + 1 BY <2>2, <1>1
    <3>2. ~(work.pc = "mark" /\ work.curr = e) BY <2>2, <1>1
    <3>3. QED BY <3>1, <3>2, <2>2 DEF Pending
  <2>3. CASE e # disp.entry
    <3>1. q[e] <= n + 1 <=> p[e] <= n BY <2>3, <1>1
    <3>2. QED BY <3>1, <2>3 DEF Pending
  <2>4. QED BY <2>2, <2>3
<1>7. Asked(disp.entry) BY <1>2, <1>3, <1>4, <1>5 DEF Asked, AskedInHand
<1>8. \A e \in Entries : Pending(q, n + 1, e)' => Asked(e)'
  <2>1. \A e \in Entries : Asked(e)' <=> Asked(e) BY DEF Asked
  <2>2. QED BY <2>1, <1>6, <1>7 DEF LifeInv
<1>9. \A e, f \in Entries :
        Pending(q, n + 1, e)' /\ Pending(q, n + 1, f)' /\ tag[e] = tag[f] => e = f
  BY <1>2, <1>5, <1>6 DEF LifeInv
<1>10. Hand' # 1 /\ ~IsStored("copied")' BY DEF Hand, IsStored
<1>11. work'.pc = "test" => copied'[work'.curr] BY DEF LifeInv
<1>12. QED BY <1>8, <1>9, <1>10, <1>11 DEF LifeInv

LEMMA WorkerLife ==
  ASSUME TypeOK, NEW s, NEW p, NEW k, NEW n, ListInv(s, p, k, n), WorkInv(s, p, k, n),
         LifeInv(p, n), Worker
  PROVE  LifeInv(p, n)'
<1>1. Order(s, p) /\ Layout(s, k, n) BY DEF ListInv
<1>2. k \in Nat /\ n \in Nat /\ k <= n /\ Hand \in 0 .. 1 /\ n + Hand < N /\ n < N
  BY <1>1, LayoutFacts
<1>3. UNCHANGED <<disp, tag, target, internal>> /\ Hand' = Hand
  BY WorkerFrame DEF Hand
<1>4. \A f : IsStored(f)' <=> IsStored(f) BY <1>3 DEF IsStored
<1>5. Acting => /\ work.curr \in Entries /\ p[work.curr] <= n /\ ~completed[work.curr]
  BY <1>2, WorkerPlace DEF Acting, WorkInv, CurrInv
<1>6. IsStored("copied") => Hand = 1 /\ disp.entry \in Entries /\ p[disp.entry] = n + 1
  <2>1. SUFFICES ASSUME IsStored("copied")
        PROVE  Hand = 1 /\ disp.entry \in Entries /\ p[disp.entry] = n + 1
    OBVIOUS
  <2>2. Hand = 1 BY <2>1 DEF IsStored, Hand
  <2>3. disp.entry = s[n + 1] /\ n + 1 \in 1 .. N
    BY <2>2, <1>1, <1>2, EntryFacts DEF Layout
  <2>4. QED BY <2>2, <2>3, <1>1, OrderFacts
<1>7. CASE Begin \/ ReadClock \/ Check \/ NotDue \/ Advance
  <2>1. /\ work.pc \notin {"mark"} /\ work'.pc \notin {"mark", "test"}
        /\ UNCHANGED <<copied, completed, phase, sent>>
    BY <1>7, WorkerPlace
    DEF Begin, ReadClock, Check, NotDue, Advance, At, Goto, data, host
  <2>2. \A e \in Entries : Pending(p, n, e)' <=> Pending(p, n, e) BY <2>1 DEF Pending
  <2>3. QED BY <2>1, <2>2, <1>3, <1>4, KeptLife
<1>8. CASE Copy
  <2> DEFINE c == work.curr
  <2>1. /\ work.pc = "copy" /\ work'.pc = "test" /\ work'.curr = c
        /\ phase' = IF ~copied[c] /\ ~internal[c]
                    THEN [phase EXCEPT ![tag[c]] = "moved"] ELSE phase
        /\ copied' = [copied EXCEPT ![c] = TRUE]
        /\ UNCHANGED <<completed, sent>>
    BY <1>8, WorkerPlace DEF Copy, At, Goto
  <2>2. c \in Entries /\ Pending(p, n, c) BY <2>1, <1>5 DEF Acting, Pending
  <2>3. Asked(c) BY <2>2 DEF LifeInv
  <2> HIDE DEF c
  <2>4. /\ copied'[c] = TRUE
        /\ \A e \in Entries : e # c => copied'[e] = copied[e]
    BY <2>1, <2>2 DEF TypeOK
  <2>5. \A t \in Tags : t # tag[c] => phase'[t] = phase[t] BY <2>1 DEF TypeOK
  <2>6. phase'[tag[c]] = IF ~internal[c] THEN "moved" ELSE "sent"
    BY <2>1, <2>3 DEF Asked, TypeOK
  <2>7. \A e \in Entries : Pending(p, n, e)' <=> Pending(p, n, e) BY <2>1 DEF Pending
  <2>8. \A e \in Entries : Pending(p, n, e) => Asked(e)'
    <3>1. SUFFICES ASSUME NEW e \in Entries, Pending(p, n, e) PROVE Asked(e)' OBVIOUS
    <3>2. CASE e = c BY <3>2, <2>1, <2>3, <2>4, <2>6, <1>3 DEF Asked
    <3>3. CASE e # c
      <4>1. Asked(e) /\ tag[e] # tag[c] BY <3>1, <3>3, <2>2 DEF LifeInv
      <4>2. phase'[tag[e]] = phase[tag[e]] BY <4>1, <2>5 DEF Asked
      <4>3. QED BY <4>1, <4>2, <3>3, <2>1, <2>4, <1>3 DEF Asked
    <3>4. QED BY <3>2, <3>3
  <2>9. Hand = 1 => /\ AskedInHand'
                    /\ \A e \in Entries : Pending(p, n, e) => tag[e] # disp.req.tag
    <3>1. SUFFICES ASSUME Hand = 1 PROVE AskedInHand' BY DEF LifeInv
    <3>2. AskedInHand /\ tag[c] # disp.req.tag BY <3>1, <2>2 DEF LifeInv
    <3>3. disp.req.tag \in Tags
      <4>1. disp.req \in Request BY <3>1, PlaceFacts DEF Hand
      <4>2. QED BY <4>1, RequestType
    <3>4. QED BY <3>2, <3>3, <2>1, <2>5, <1>3 DEF AskedInHand
  <2>10. IsStored("copied") => copied'[disp.entry] = disp.req.internal
    <3>1. SUFFICES ASSUME IsStored("copied") PROVE copied'[disp.entry] = disp.req.internal
      OBVIOUS
    <3>2. disp.entry \in Entries /\ disp.entry # c
      BY <3>1, <2>2, <1>2, <1>6 DEF Pending
    <3>3. copied[disp.entry] = disp.req.internal BY <3>1 DEF LifeInv
    <3>4. QED BY <3>2, <3>3, <2>4
  <2>11. copied'[work'.curr] BY <2>1, <2>4
  <2>12. \A e, f \in Entries :
           Pending(p, n, e)' /\ Pending(p, n, f)' /\ tag'[e] = tag'[f] => e = f
    BY <2>7, <1>3 DEF LifeInv
  <2>13. QED BY <2>7, <2>8, <2>9, <2>10, <2>11, <2>12, <1>3, <1>4 DEF LifeInv
<1>9. CASE Post
  <2> DEFINE c == work.curr
  <2>1. /\ work.pc = "test" /\ work'.pc = "mark" /\ work'.curr = c
        /\ phase' = [phase EXCEPT ![tag[c]] = "idle"]
        /\ sent' = [sent EXCEPT ![tag[c]] = NoRequest]
        /\ UNCHANGED <<completed, copied>>
    BY <1>9, WorkerPlace DEF Post, At, Goto, data
  <2>2. c \in Entries /\ Pending(p, n, c) BY <2>1, <1>5 DEF Acting, Pending
  <2>3. Asked(c) BY <2>2 DEF LifeInv
  <2>4. \A e \in Entries : Pending(p, n, e)' <=> Pending(p, n, e) /\ e # c
    BY <2>1 DEF Pending
  <2> HIDE DEF c
  <2>5. \A t \in Tags : t # tag[c] => phase'[t] = phase[t] /\ sent'[t] = sent[t]
    BY <2>1 DEF TypeOK
  <2>6. \A e \in Entries : Pending(p, n, e)' => Asked(e)'
    <3>1. SUFFICES ASSUME NEW e \in Entries, Pending(p, n, e), e # c PROVE Asked(e)'
      BY <2>4
    <3>2. Asked(e) /\ tag[e] # tag[c] BY <3>1, <2>2 DEF LifeInv
    <3>3. phase'[tag[e]] = phase[tag[e]] /\ sent'[tag[e]] = sent[tag[e]]
      BY <3>2, <2>5 DEF Asked
    <3>4. QED BY <3>2, <3>3, <2>1, <1>3 DEF Asked
  <2>7. Hand = 1 => /\ AskedInHand'
                    /\ \A e \in Entries : Pending(p, n, e) => tag[e] # disp.req.tag
    <3>1. SUFFICES ASSUME Hand = 1 PROVE AskedInHand' BY DEF LifeInv
    <3>2. AskedInHand /\ tag[c] # disp.req.tag BY <3>1, <2>2 DEF LifeInv
    <3>3. disp.req.tag \in Tags
      <4>1. disp.req \in Request BY <3>1, PlaceFacts DEF Hand
      <4>2. QED BY <4>1, RequestType
    <3>4. QED BY <3>2, <3>3, <2>5, <1>3 DEF AskedInHand
  <2>8. IsStored("copied")' => copied'[disp'.entry] = disp'.req.internal
    BY <2>1, <1>3, <1>4 DEF LifeInv
  <2>9. \A e, f \in Entries :
          Pending(p, n, e)' /\ Pending(p, n, f)' /\ tag'[e] = tag'[f] => e = f
    BY <2>4, <1>3 DEF LifeInv
  <2>10. work'.pc # "test" BY <2>1
  <2>11. QED BY <2>4, <2>6, <2>7, <2>8, <2>9, <2>10, <1>3 DEF LifeInv
<1>10. CASE Mark
  <2> DEFINE c == work.curr
  <2>1. /\ work.pc = "mark" /\ work'.pc = "advance" /\ work'.curr = c
        /\ completed' = [completed EXCEPT ![c] = TRUE]
        /\ UNCHANGED <<copied, phase, sent>>
    BY <1>10, WorkerPlace DEF Mark, At, Goto, host
  <2>2. c \in Entries BY <2>1, <1>5 DEF Acting
  <2>3. \A e \in Entries : completed'[e] <=> completed[e] \/ e = c
    BY <2>1, <2>2 DEF TypeOK
  <2>4. \A e \in Entries : Pending(p, n, e)' <=> Pending(p, n, e)
    BY <2>1, <2>3 DEF Pending
  <2>5. work'.pc # "test" BY <2>1
  <2>6. QED BY <2>1, <2>4, <2>5, <1>3, <1>4, KeptLife
<1>11. QED BY <1>7, <1>8, <1>9, <1>10 DEF Worker

AllInv(s, p, k, n) == ListInv(s, p, k, n) /\ WorkInv(s, p, k, n) /\ LifeInv(p, n)

LightInv == /\ TypeOK /\ Stored
            /\ \E s \in [1 .. N -> Entries], p \in [Entries -> 1 .. N], k, n \in 0 .. N :
                 AllInv(s, p, k, n)

LEMMA LightInit ==
  ASSUME Init
  PROVE  AllInv([i \in 1 .. N |-> i - 1], [e \in Entries |-> e + 1], 0, 0)
<1> DEFINE s == [i \in 1 .. N |-> i - 1]
           p == [e \in Entries |-> e + 1]
<1>1. ListInv(s, p, 0, 0) BY InitList
<1>2. /\ Hand = 0 /\ work.pc = "begin" /\ completed = [e \in Entries |-> FALSE]
      /\ \A f : ~IsStored(f)
  BY DEF Init, Idle, Hand, IsStored
<1>3. Order(s, p) BY <1>1 DEF ListInv
<1> HIDE DEF s, p
<1>4. FlagInv(s, 0, 0)
  <2>1. \A i \in 0 + Hand + 1 .. N - 1 : ~completed[s[i]]
    <3>1. \A i \in 0 + Hand + 1 .. N - 1 : i \in 1 .. N BY <1>2, EntryFacts
    <3>2. QED BY <3>1, <1>2, <1>3, OrderFacts
  <2>2. 0 + Hand <= MaxQueued BY <1>2, WorkQueueAssumption
  <2>3. \A i \in 1 .. 0 : completed[s[i]] OBVIOUS
  <2>4. ~IsStored("completed") BY <1>2
  <2>5. QED BY <2>1, <2>2, <2>3, <2>4 DEF FlagInv
<1>5. CurrInv(p, 0, 0) BY <1>2 DEF CurrInv
<1>6. LifeInv(p, 0)
  <2>1. \A e \in Entries : ~Pending(p, 0, e)
    <3>1. \A e \in Entries : p[e] \in 1 .. N BY <1>3, OrderFacts
    <3>2. QED BY <3>1 DEF Pending
  <2>2. QED BY <2>1, <1>2 DEF LifeInv
<1>7. QED BY <1>1, <1>4, <1>5, <1>6 DEF AllInv, WorkInv, s, p

\* The entry in hand is linked: what all three actions that do it share.
LEMMA InsertAll ==
  ASSUME TypeOK, Stored, NEW s, NEW p, NEW n, ListInv(s, p, 0, n), WorkInv(s, p, 0, n),
         LifeInv(p, n), Hand = 1, Hand' = 0, disp.entry = s[n + 1],
         (disp.pc = "fill" /\ disp.left = {}) \/ disp.pc = "seek",
         UNCHANGED <<data, work, host>>,
         NEW z, NEW q, ListInv(z, q, 0, n + 1)',
         \A e \in Entries : /\ q[e] <= n + 1 <=> p[e] <= n + 1
                            /\ p[e] > n + 1 => q[e] = p[e],
         \A i \in n + 2 .. N : z[i] = s[i]
  PROVE  AllInv(z, q, 0, n + 1)'
<1>1. Order(s, p) /\ Layout(s, 0, n) BY DEF ListInv
<1>2. Order(z, q) BY DEF ListInv, Order
<1>3. n \in Nat /\ n + 1 \in 1 .. N
  <2>1. n \in Nat /\ n + 1 < N BY <1>1, LayoutFacts
  <2>2. QED BY <2>1, EntryFacts
<1>4. IsStored("completed") /\ IsStored("copied")
  <2>1. CASE disp.pc = "seek" BY <2>1 DEF IsStored
  <2>2. CASE disp.pc = "fill" /\ disp.left = {}
    <3>1. \A f \in Fields : \E fields \in Stores \ disp.left : f \in fields
      BY <2>2, WorkQueueAssumption
    <3>2. QED BY <2>2, <3>1 DEF IsStored, Fields
  <2>3. QED BY <2>1, <2>2
<1>5. ~completed[disp.entry] BY <1>4 DEF WorkInv, FlagInv
<1>6. work.pc # "begin" => p[work.curr] # n + 1
  <2>1. work.pc # "begin" => p[work.curr] \notin n + 1 .. n + 1 BY DEF WorkInv, CurrInv
  <2>2. n + 1 \in n + 1 .. n + 1 BY <1>3
  <2>3. QED BY <2>1, <2>2
<1>7. WorkInv(z, q, 0, n + 1)'
  BY <1>1, <1>2, <1>3, <1>4, InsertWork DEF data
<1>8. LifeInv(q, n + 1)'
  BY <1>1, <1>3, <1>4, <1>5, <1>6, InsertLife DEF data, host
<1>9. QED BY <1>7, <1>8 DEF AllInv

LEMMA LightStep ==
  ASSUME TypeOK, TypeOK', Stored, NEW s, NEW p, NEW k, NEW n, AllInv(s, p, k, n),
         LightLoad, Next
  PROVE  \E z, q, m, l : AllInv(z, q, m, l)'
<1>1. ListInv(s, p, k, n) /\ WorkInv(s, p, k, n) /\ LifeInv(p, n) BY DEF AllInv
<1>2. Order(s, p) /\ Layout(s, k, n) /\ FlagInv(s, k, n) BY <1>1 DEF ListInv, WorkInv
<1>3. k \in Nat /\ n \in Nat /\ k <= n /\ Hand \in 0 .. 1 /\ n + Hand < N /\ n < N
  BY <1>2, LayoutFacts
<1>4. CASE Arrival
  <2>1. PICK r \in Request : Allocate(r) \/ Drop(r) BY <1>4 DEF Arrival
  <2>2. CASE Allocate(r)
    <3>1. ListInv(s, p, 0, n)' BY <2>2, <1>1, AllocateList
    <3>2. WorkInv(s, p, 0, n)' BY <2>2, <1>1, AllocateWork
    <3>3. Hand = 0 BY <2>2, <1>2, AllocateLayout
    <3>4. LifeInv(p, n)' BY <2>2, <3>3, <1>1, AllocateLife
    <3>5. QED BY <3>1, <3>2, <3>4 DEF AllInv
  <2>3. CASE Drop(r)
    <3>1. /\ disp.pc = "idle" /\ disp'.pc \in {"idle", "reclaim"}
          /\ UNCHANGED <<links, lists, target, latest, work, completed>>
      BY <2>3 DEF Drop, Idle, data
    <3>2. k = 0 /\ ListInv(s, p, 0, n)' BY <3>1, <1>1, RestList
    <3>3. Hand' = Hand /\ ~IsStored("completed")' BY <3>1 DEF Hand, IsStored
    <3>4. WorkInv(s, p, k, n)' BY <3>1, <3>3, <1>1, KeptWork
    <3>5. LifeInv(p, n)' BY <2>3, <1>1, DropLife
    <3>6. QED BY <3>2, <3>4, <3>5 DEF AllInv
  <2>4. QED BY <2>1, <2>2, <2>3
<1>5. ASSUME NEW fields \in Stores, Fill(fields) PROVE \E z, q, m, l : AllInv(z, q, m, l)'
  <2>1. ListInv(s, p, 0, n)' BY <1>1, <1>5, FillList
  <2>2. WorkInv(s, p, 0, n)' BY <1>1, <1>5, FillWork
  <2>3. Hand = 1 /\ Hand' = 1 BY <1>2, <1>5, FillLayout
  <2>4. disp.entry = s[n + 1] /\ n + 1 \in 1 .. N
    BY <2>3, <1>2, <1>3, EntryFacts DEF Layout
  <2>5. work.pc = "test" => p[work.curr] <= n BY <1>1, <1>3 DEF WorkInv, CurrInv, Acting
  <2>6. LifeInv(p, n)' BY <2>3, <2>4, <2>5, <1>1, <1>2, <1>3, <1>5, FillLife
  <2>7. QED BY <2>1, <2>2, <2>6 DEF AllInv
<1>6. CASE SeekStart \/ SeekBack
  <2>1. k = 0 /\ ListInv(s, p, 0, n)' BY <1>1, <1>6, SeekStartList, SeekBackList
  <2>2. Hand = 1 /\ Hand' = 1 BY <1>2, <1>6, SeekLayout
  <2>3. /\ (disp.pc = "fill" /\ disp.left = {}) \/ disp.pc = "seek"
        /\ disp'.entry = disp.entry /\ disp'.req = disp.req
        /\ UNCHANGED <<data, work, host>>
    BY <1>6, PlaceFacts DEF SeekStart, SeekBack
  <2>4. IsStored("completed") /\ IsStored("copied")
    <3>1. CASE disp.pc = "seek" BY <3>1 DEF IsStored
    <3>2. CASE disp.pc = "fill" /\ disp.left = {}
      <4>1. \A f \in Fields : \E fields \in Stores \ disp.left : f \in fields
        BY <3>2, WorkQueueAssumption
      <4>2. QED BY <3>2, <4>1 DEF IsStored, Fields
    <3>3. QED BY <3>1, <3>2, <2>3
  <2>5. WorkInv(s, p, k, n)' BY <2>2, <2>3, <2>4, <1>1, KeptWork DEF data
  <2>6. \A e \in Entries : Pending(p, n, e)' <=> Pending(p, n, e)
    BY <2>3 DEF Pending, data
  <2>7. LifeInv(p, n)' BY <2>2, <2>3, <2>4, <2>6, <1>1, KeptLife DEF data, host
  <2>8. QED BY <2>1, <2>5, <2>7 DEF AllInv
<1>7. CASE InsertFirst
  <2>1. k = 0 /\ n = 0 /\ ListInv(s, p, 0, 0 + 1)' BY <1>1, <1>7, InsertFirstList
  <2>2. Hand = 1 /\ Hand' = 0 /\ disp.entry = s[0 + 1]
    BY <1>2, <1>7, InsertFirstLayout
  <2>3. disp.pc = "fill" /\ disp.left = {} /\ UNCHANGED <<data, work, host>>
    BY <1>7 DEF InsertFirst
  <2>4. ListInv(s, p, 0, 0) /\ WorkInv(s, p, 0, 0) /\ LifeInv(p, 0) BY <2>1, <1>1
  <2>5. AllInv(s, p, 0, 0 + 1)' BY <2>1, <2>2, <2>3, <2>4, InsertAll
  <2>6. QED BY <2>5
<1>8. CASE InsertHead
  <2>1. /\ k = 0 /\ n > 0 /\ n + 1 \in 1 .. N
        /\ ListInv(Moved(s, 1, n + 1), MovedPlace(p, 1, n + 1), 0, n + 1)'
    BY <1>1, <1>8, InsertHeadList
  <2>2. Hand = 1 /\ Hand' = 0 /\ disp.entry = s[n + 1]
    BY <2>1, <1>2, <1>8, InsertHeadLayout
  <2>3. disp.pc = "seek" /\ UNCHANGED <<data, work, host>> BY <1>8 DEF InsertHead
  <2>4. ListInv(s, p, 0, n) /\ WorkInv(s, p, 0, n) BY <2>1, <1>1
  <2>5. /\ \A e \in Entries : /\ MovedPlace(p, 1, n + 1)[e] <= n + 1 <=> p[e] <= n + 1
                              /\ p[e] > n + 1 => MovedPlace(p, 1, n + 1)[e] = p[e]
        /\ \A i \in n + 1 + 1 .. N : Moved(s, 1, n + 1)[i] = s[i]
    <3>1. 1 \in 1 .. n + 1 BY <1>3
    <3>2. QED BY <3>1, <2>1, <1>2, MovedWithin
  <2>6. \A i \in n + 2 .. N : Moved(s, 1, n + 1)[i] = s[i] BY <2>5, <1>3
  <2>7. AllInv(Moved(s, 1, n + 1), MovedPlace(p, 1, n + 1), 0, n + 1)'
    BY <2>1, <2>2, <2>3, <2>4, <2>5, <2>6, <1>1, InsertAll
  <2>8. QED BY <2>7
<1>9. CASE InsertAfter
  <2>0. PICK j : j = p[disp.at] OBVIOUS
  <2>1. /\ k = 0 /\ n + 1 \in 1 .. N /\ j + 1 \in 1 .. n + 1 /\ j \in 1 .. n
        /\ ListInv(Moved(s, j + 1, n + 1), MovedPlace(p, j + 1, n + 1), 0, n + 1)'
    BY <2>0, <1>1, <1>9, InsertAfterList
  <2>2. Hand = 1 /\ Hand' = 0 /\ disp.entry = s[n + 1]
    BY <2>0, <2>1, <1>2, <1>9, InsertAfterLayout
  <2>3. disp.pc = "seek" /\ UNCHANGED <<data, work, host>> BY <1>9 DEF InsertAfter
  <2>4. ListInv(s, p, 0, n) /\ WorkInv(s, p, 0, n) BY <2>1, <1>1
  <2>5. /\ \A e \in Entries : /\ MovedPlace(p, j + 1, n + 1)[e] <= n + 1 <=> p[e] <= n + 1
                              /\ p[e] > n + 1 => MovedPlace(p, j + 1, n + 1)[e] = p[e]
        /\ \A i \in n + 1 + 1 .. N : Moved(s, j + 1, n + 1)[i] = s[i]
    BY <2>1, <1>2, MovedWithin
  <2>6. \A i \in n + 2 .. N : Moved(s, j + 1, n + 1)[i] = s[i] BY <2>5, <1>3
  <2>7. AllInv(Moved(s, j + 1, n + 1), MovedPlace(p, j + 1, n + 1), 0, n + 1)'
    BY <2>1, <2>2, <2>3, <2>4, <2>5, <2>6, <1>1, InsertAll
  <2>8. QED BY <2>7
<1>10. CASE Reclaim
  <2>1. PICK j \in 1 .. n : /\ \A i \in 1 .. j : Reclaimable(s[i])
                            /\ ListInv(s, p, j, n)'
    BY <1>1, <1>10, ReclaimList
  <2>2. k = 0 /\ Hand = 0 /\ Hand' = 0 BY <1>2, <1>10, ReclaimLayout
  <2>3. WorkInv(s, p, 0, n) BY <2>2, <1>1
  <2>4. UNCHANGED <<data, work, host>> BY <1>10 DEF Reclaim
  <2>5. \A i \in 1 .. j : completed[s[i]] BY <2>1 DEF Reclaimable
  <2>6. WorkInv(s, p, j, n)'
    BY <2>2, <2>3, <2>4, <2>5, <1>2, <1>3, ReclaimWork DEF data
  <2>7. \A e \in Entries : Pending(p, n, e)' <=> Pending(p, n, e)
    BY <2>4 DEF Pending, data
  <2>8. ~IsStored("copied")' BY <2>2 DEF IsStored, Hand
  <2>9. LifeInv(p, n)' BY <2>2, <2>4, <2>7, <2>8, <1>1, KeptLife DEF data, host
  <2>10. QED BY <2>1, <2>6, <2>9 DEF AllInv
<1>11. CASE ReclaimNothing
  <2>1. /\ disp.pc = "reclaim" /\ disp'.pc = "idle"
        /\ UNCHANGED <<links, lists, data, latest, work, host>>
    BY <1>11 DEF ReclaimNothing, Idle
  <2>2. k = 0 /\ ListInv(s, p, 0, n)' BY <2>1, <1>1, RestList DEF data
  <2>3. Hand' = Hand /\ Hand' # 1 /\ \A f : ~IsStored(f)' BY <2>1 DEF Hand, IsStored
  <2>4. WorkInv(s, p, k, n)' BY <2>1, <2>3, <1>1, KeptWork DEF data
  <2>5. \A e \in Entries : Pending(p, n, e)' <=> Pending(p, n, e)
    BY <2>1 DEF Pending, data
  <2>6. LifeInv(p, n)' BY <2>1, <2>3, <2>5, <1>1, KeptLife DEF data, host
  <2>7. QED BY <2>2, <2>4, <2>6 DEF AllInv
<1>12. CASE Cut
  <2>1. ListInv(s, p, k, n)' BY <1>1, <1>12, CutList
  <2>2. Hand = 0 /\ Hand' = 0 BY <1>2, <1>12, CutLayout
  <2>3. UNCHANGED <<data, work, host>> BY <1>12 DEF Cut
  <2>4. \A f : ~IsStored(f)' BY <2>2 DEF Hand, IsStored
  <2>5. WorkInv(s, p, k, n)' BY <2>2, <2>3, <2>4, <1>1, KeptWork DEF data
  <2>6. \A e \in Entries : Pending(p, n, e)' <=> Pending(p, n, e)
    BY <2>3 DEF Pending, data
  <2>7. LifeInv(p, n)' BY <2>2, <2>3, <2>4, <2>6, <1>1, KeptLife DEF data, host
  <2>8. QED BY <2>1, <2>5, <2>7 DEF AllInv
<1>13. CASE Join
  <2> DEFINE q == RotatedPlace(p, k)
  <2>1. ListInv(Rotated(s, k), q, 0, n - k)' BY <1>1, <1>13, JoinList
  <2>2. Hand = 0 /\ Hand' = 0 BY <1>2, <1>13, JoinLayout
  <2>3. UNCHANGED <<data, work, host>> BY <1>13 DEF Join
  <2>4. \A f : ~IsStored(f)' BY <2>2 DEF Hand, IsStored
  <2>5. WorkInv(Rotated(s, k), q, 0, n - k)'
    BY <2>2, <2>3, <1>1, <1>2, <1>3, JoinWork DEF data
  <2>6. \A e \in Entries : Pending(q, n - k, e)' <=> Pending(p, n, e)
    <3>1. SUFFICES ASSUME NEW e \in Entries
          PROVE  (q[e] <= n - k /\ ~completed[e]) <=> (p[e] <= n /\ ~completed[e])
      BY <2>3 DEF Pending, data
    <3>2. /\ p[e] \in Nat /\ p[e] >= 1 /\ s[p[e]] = e
          /\ q[e] = IF p[e] > k THEN p[e] - k ELSE p[e] + N - k
      BY <1>2, OrderFacts DEF RotatedPlace
    <3>3. p[e] <= k => completed[e]
      <4>1. p[e] <= k => completed[s[p[e]]] BY <3>2, <1>2, <1>3 DEF FlagInv
      <4>2. QED BY <4>1, <3>2
    <3> HIDE DEF q
    <3>4. CASE p[e] > k BY <3>2, <3>4, <1>3
    <3>5. CASE p[e] <= k BY <3>3, <3>5
    <3>6. QED BY <3>2, <3>4, <3>5, <1>3
  <2>7. LifeInv(q, n - k)'
    <3> HIDE DEF q
    <3>1. QED BY <2>2, <2>3, <2>4, <2>6, <1>1, KeptLife DEF data, host
  <2>8. QED BY <2>1, <2>5, <2>7 DEF AllInv
<1>14. CASE Worker
  <2>1. ListInv(s, p, k, n)' BY <1>1, <1>14, WorkerFrame, KeptList
  <2>2. WorkInv(s, p, k, n)' BY <1>1, <1>14, WorkerWork
  <2>3. LifeInv(p, n)' BY <1>1, <1>14, WorkerLife
  <2>4. QED BY <2>1, <2>2, <2>3 DEF AllInv
<1>15. QED
  BY <1>4, <1>5, <1>6, <1>7, <1>8, <1>9, <1>10, <1>11, <1>12, <1>13, <1>14
  DEF Next, Dispatcher

LEMMA LightMade ==
  ASSUME TypeOK', Stored', NEW s, NEW p, NEW k, NEW n, AllInv(s, p, k, n)'
  PROVE  LightInv'
<1>1. s \in [1 .. N -> Entries] /\ p \in [Entries -> 1 .. N] BY DEF AllInv, ListInv, Order
<1>2. k \in Nat /\ n \in Nat /\ k <= n /\ n + Hand' < N BY DEF AllInv, ListInv, Layout
<1>3. k \in 0 .. N /\ n \in 0 .. N BY <1>2, HandIs, PlacesFit
<1>4. QED BY <1>1, <1>3 DEF LightInv

LEMMA LightStutter ==
  ASSUME LightInv, UNCHANGED vars
  PROVE  LightInv'
<1>1. /\ UNCHANGED <<next, prev, tag, target, internal, copied, completed>>
      /\ UNCHANGED <<ioSeq, ioSeqEnd, freeSeq, freeSeqEnd, latest, disp, work, phase, sent>>
  BY DEF vars, links, data, lists, host
<1>2. PICK s \in [1 .. N -> Entries], p \in [Entries -> 1 .. N], k \in 0 .. N, n \in 0 .. N :
        AllInv(s, p, k, n)
  BY DEF LightInv
<1>3. TypeOK' BY <1>1 DEF LightInv, TypeOK
<1>4. Stored' BY <1>1 DEF LightInv, Stored, IsStored
<1>5. latest' >= latest BY <1>1, WorkQueueAssumption DEF LightInv, TypeOK
<1>6. ListInv(s, p, k, n)'
  BY <1>1, <1>2, <1>3, <1>5, KeptList DEF LightInv, AllInv, links, lists
<1>7. Hand' = Hand /\ (\A f : IsStored(f)' <=> IsStored(f)) BY <1>1 DEF Hand, IsStored
<1>8. WorkInv(s, p, k, n)' BY <1>1, <1>2, <1>7, KeptWork DEF LightInv, AllInv
<1>9. \A e \in Entries : Pending(p, n, e)' <=> Pending(p, n, e) BY <1>1 DEF Pending
<1>10. LifeInv(p, n)' BY <1>1, <1>2, <1>7, <1>9, KeptLife DEF LightInv, AllInv
<1>11. QED BY <1>3, <1>4, <1>6, <1>8, <1>10, LightMade DEF AllInv

LEMMA LightAlways == ASSUME LightLoad PROVE Spec => []LightInv
<1>1. Init => LightInv
  <2>1. SUFFICES ASSUME Init PROVE LightInv OBVIOUS
  <2> DEFINE s == [i \in 1 .. N |-> i - 1]
             p == [e \in Entries |-> e + 1]
  <2>2. TypeOK BY <2>1, TypeInit
  <2>3. Stored BY <2>1 DEF Init, Idle, Stored, IsStored
  <2>4. AllInv(s, p, 0, 0) BY <2>1, LightInit
  <2> HIDE DEF s, p
  <2>5. /\ s \in [1 .. N -> Entries] /\ p \in [Entries -> 1 .. N] /\ 0 \in 0 .. N
    BY <2>4, ListBounds DEF AllInv
  <2>6. QED BY <2>2, <2>3, <2>4, <2>5 DEF LightInv
<1>2. LightInv /\ [Next]_vars => LightInv'
  <2>1. SUFFICES ASSUME LightInv, [Next]_vars PROVE LightInv' OBVIOUS
  <2>2. CASE Next
    <3>1. PICK s \in [1 .. N -> Entries], p \in [Entries -> 1 .. N],
               k \in 0 .. N, n \in 0 .. N : AllInv(s, p, k, n)
      BY <2>1 DEF LightInv
    <3>2. TypeOK' BY <2>1, <2>2, <3>1, TypeStep DEF LightInv, AllInv
    <3>3. Stored' BY <2>1, <2>2, StoredStep DEF LightInv
    <3>4. PICK z, q, m, l : AllInv(z, q, m, l)' BY <2>1, <2>2, <3>1, <3>2, LightStep DEF LightInv
    <3>5. QED BY <3>2, <3>3, <3>4, LightMade
  <2>3. CASE UNCHANGED vars BY <2>1, <2>3, LightStutter
  <2>4. QED BY <2>1, <2>2, <2>3
<1>3. QED BY <1>1, <1>2, PTL DEF Spec

\* With no more than half of the entries in use, a worker copies, posts and
\* completes queued entries only: none that was freed under it in a delayed
\* pass, and none the dispatcher has taken again and is filling ("IO worker
\* shall see the updated w at once", __enqueue_io_req).
THEOREM ActsOnQueuedAlways == ASSUME LightLoad PROVE Spec => []ActsOnQueued
<1>1. LightInv => ActsOnQueued
  <2>1. SUFFICES ASSUME LightInv, Acting PROVE work.curr \in Queued
    BY DEF ActsOnQueued, Acting
  <2>2. PICK s \in [1 .. N -> Entries], p \in [Entries -> 1 .. N],
             k \in 0 .. N, n \in 0 .. N : AllInv(s, p, k, n)
    BY <2>1 DEF LightInv
  <2>3. Order(s, p) /\ Layout(s, k, n) /\ CurrInv(p, k, n)
    BY <2>2 DEF AllInv, ListInv, WorkInv
  <2>4. work.curr \in Entries /\ p[work.curr] \in k + 1 .. n
    BY <2>1, <2>3, WorkerPlace DEF LightInv, CurrInv, Acting
  <2>5. s[p[work.curr]] = work.curr BY <2>3, <2>4 DEF Order
  <2>6. Queued = {s[i] : i \in k + 1 .. n} BY <2>3, ListsAre
  <2>7. QED BY <2>4, <2>5, <2>6
<1>2. QED BY <1>1, LightAlways, PTL

------------------------------------------------------------------------------
(* Each request is served as CommandLife says *)

LEMMA ArrivalLife ==
  ASSUME TypeOK, NEW r \in Request, Allocate(r) \/ Drop(r)
  PROVE  Life!Next
<1>1. r.tag \in Tags /\ r.target \in 0 .. MaxTime /\ r.internal \in BOOLEAN
  BY RequestType
<1>2. CASE Allocate(r)
  <2>1. /\ phase[r.tag] = "idle" /\ phase' = [phase EXCEPT ![r.tag] = "sent"]
        /\ sent' = [sent EXCEPT ![r.tag] = [target |-> r.target, internal |-> r.internal]]
        /\ latest' = latest
    BY <1>2 DEF Allocate
  <2>2. /\ [t \in Tags |-> sent'[t].target]
             = [[t \in Tags |-> sent[t].target] EXCEPT ![r.tag] = r.target]
        /\ [t \in Tags |-> sent'[t].internal]
             = [[t \in Tags |-> sent[t].internal] EXCEPT ![r.tag] = r.internal]
    BY <2>1, <1>1 DEF TypeOK
  <2>3. Life!Send(r.tag) BY <2>1, <2>2, <1>1 DEF Life!Send
  <2>4. QED BY <2>3, <1>1 DEF Life!Next
<1>3. CASE Drop(r)
  <2>1. /\ phase[r.tag] = "idle" /\ phase' = [phase EXCEPT ![r.tag] = "lost"]
        /\ sent' = sent /\ latest' = latest
    BY <1>3 DEF Drop
  <2>2. Life!Lose(r.tag) BY <2>1 DEF Life!Lose
  <2>3. QED BY <2>2, <1>1 DEF Life!Next
<1>4. QED BY <1>2, <1>3

LEMMA WorkerLifeStep ==
  ASSUME TypeOK, NEW s, NEW p, NEW k, NEW n, AllInv(s, p, k, n), Worker
  PROVE  Life!Next \/ UNCHANGED Life!vars
<1> DEFINE c == work.curr
<1>1. /\ Order(s, p) /\ Layout(s, k, n) /\ CurrInv(p, k, n) /\ LifeInv(p, n)
  BY DEF AllInv, ListInv, WorkInv
<1>2. n \in Nat /\ k \in Nat BY <1>1, LayoutFacts
<1>3. work.pc \in {"copy", "test"} => c \in Entries /\ Pending(p, n, c) /\ Asked(c)
  <2>1. SUFFICES ASSUME work.pc \in {"copy", "test"}
        PROVE  c \in Entries /\ Pending(p, n, c) /\ Asked(c)
    OBVIOUS
  <2>2. c \in Entries /\ p[c] \in k + 1 .. n /\ ~completed[c]
    BY <2>1, <1>1, WorkerPlace DEF CurrInv, Acting
  <2>3. p[c] <= n BY <2>2, <1>2
  <2>4. Pending(p, n, c) BY <2>1, <2>2, <2>3 DEF Pending
  <2>5. QED BY <2>2, <2>4, <1>1 DEF LifeInv
<1>4. CASE Begin \/ Check \/ NotDue \/ Mark \/ Advance
  <2>1. UNCHANGED <<phase, sent, latest>>
    BY <1>4 DEF Begin, Check, NotDue, Mark, Advance, host
  <2>2. QED BY <2>1 DEF Life!vars
<1>5. CASE ReadClock
  <2>1. latest' \in latest .. MaxTime /\ UNCHANGED <<phase, sent>>
    BY <1>5 DEF ReadClock, host
  <2>2. Life!Tick BY <2>1 DEF Life!Tick
  <2>3. QED BY <2>2 DEF Life!Next
<1>6. CASE Copy
  <2>1. /\ work.pc = "copy" /\ UNCHANGED <<sent, latest>>
        /\ phase' = IF ~copied[c] /\ ~internal[c]
                    THEN [phase EXCEPT ![tag[c]] = "moved"] ELSE phase
    BY <1>6 DEF Copy, At
  <2>2. CASE ~copied[c] /\ ~internal[c]
    <3>1. /\ tag[c] \in Tags /\ phase[tag[c]] = "sent" /\ ~sent[tag[c]].internal
          /\ phase' = [phase EXCEPT ![tag[c]] = "moved"]
      BY <2>1, <2>2, <1>3 DEF Asked
    <3> DEFINE t == tag[c]
    <3>2. t \in Tags /\ Life!Move(t) BY <2>1, <3>1 DEF Life!Move
    <3>3. QED BY <3>2 DEF Life!Next
  <2>3. CASE ~(~copied[c] /\ ~internal[c]) BY <2>1, <2>3 DEF Life!vars
  <2>4. QED BY <2>2, <2>3
<1>7. CASE Post
  <2>1. /\ work.pc = "test" /\ target[c] <= latest /\ latest' = latest
        /\ phase' = [phase EXCEPT ![tag[c]] = "idle"]
        /\ sent' = [sent EXCEPT ![tag[c]] = NoRequest]
    BY <1>7 DEF Post, At
  <2>2. /\ Asked(c) /\ copied[c] BY <2>1, <1>1, <1>3 DEF LifeInv
  <2>3. PICK t \in Tags : t = tag[c] BY <2>2 DEF Asked
  <2>4. /\ phase[t] = IF sent[t].internal THEN "sent" ELSE "moved"
        /\ sent[t].target <= latest
        /\ phase' = [phase EXCEPT ![t] = "idle"]
        /\ sent' = [sent EXCEPT ![t] = [target |-> 0, internal |-> FALSE]]
    BY <2>1, <2>2, <2>3 DEF Asked, NoRequest
  <2>5. /\ [u \in Tags |-> sent'[u].target]
             = [[u \in Tags |-> sent[u].target] EXCEPT ![t] = 0]
        /\ [u \in Tags |-> sent'[u].internal]
             = [[u \in Tags |-> sent[u].internal] EXCEPT ![t] = FALSE]
    BY <2>4 DEF TypeOK
  <2>6. Life!Finish(t) BY <2>1, <2>4, <2>5 DEF Life!Finish
  <2>7. QED BY <2>6 DEF Life!Next
<1>8. QED BY <1>4, <1>5, <1>6, <1>7 DEF Worker

\* With no more than half of the entries in use, the queue serves requests
\* as CommandLife promises: each is finished once (__fill_cq_result, or the
\* release of buffer space), not before its target time, and a command not
\* before its data were moved, whatever the order in which the stores of
\* __enqueue_io_req reach the worker.
THEOREM QueueImplementsLife == ASSUME LightLoad PROVE Spec => ImplementsCommandLife
<1>1. Init => Life!Init
  <2>1. SUFFICES ASSUME Init PROVE Life!Init OBVIOUS
  <2>2. QED BY <2>1 DEF Init, Life!Init, NoRequest
<1>2. LightInv /\ [Next]_vars => [Life!Next]_(Life!vars)
  <2>1. SUFFICES ASSUME LightInv, [Next]_vars
        PROVE  Life!Next \/ UNCHANGED Life!vars
    OBVIOUS
  <2>2. PICK s \in [1 .. N -> Entries], p \in [Entries -> 1 .. N],
             k \in 0 .. N, n \in 0 .. N : AllInv(s, p, k, n)
    BY <2>1 DEF LightInv
  <2>3. CASE Arrival BY <2>1, <2>3, ArrivalLife DEF Arrival, LightInv
  <2>4. CASE Dispatcher
    <3>1. UNCHANGED <<phase, sent, latest>>
      BY <2>4 DEF Dispatcher, Fill, InsertFirst, SeekStart, SeekBack, InsertHead,
         InsertAfter, Reclaim, ReclaimNothing, Cut, Join, host
    <3>2. QED BY <3>1 DEF Life!vars
  <2>5. CASE Worker BY <2>1, <2>2, <2>5, WorkerLifeStep DEF LightInv
  <2>6. CASE UNCHANGED vars BY <2>6 DEF vars, host, Life!vars
  <2>7. QED BY <2>1, <2>3, <2>4, <2>5, <2>6 DEF Next
<1>3. QED BY <1>1, <1>2, LightAlways, PTL DEF Spec, ImplementsCommandLife, Life!Spec
==============================================================================
