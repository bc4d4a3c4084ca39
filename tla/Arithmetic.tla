----------------------------- MODULE Arithmetic -----------------------------
(***************************************************************************)
(* Facts about natural numbers that the proofs share: least elements,      *)
(* products, division, for which the provers have no theory, and sums.     *)
(***************************************************************************)
EXTENDS Integers, Sequences, FiniteSetTheorems, SequenceTheorems,
        WellFoundedInduction, TLAPS

LEMMA MinimalOf ==
  ASSUME NEW R, IsWellFoundedOn(R, Nat), NEW S, S \subseteq Nat, S # {}
  PROVE  \E x \in S : \A y \in S : ~ (<<y, x>> \in R)
BY WFMin, Zenon

\* A set of natural numbers that is not empty has a least one.
LEMMA NatMin ==
  ASSUME NEW S, S \subseteq Nat, S # {}
  PROVE  \E n \in S : \A k \in S : n <= k
<1> DEFINE R == OpToRel(<, Nat)
<1>1. IsWellFoundedOn(R, Nat) BY NatLessThanWellFounded
<1>2. \A x, y \in Nat : x < y => <<x, y>> \in R
  BY DEF OpToRel
<1> HIDE DEF R
<1>3. PICK x \in S : \A y \in S : ~ (<<y, x>> \in R) BY <1>1, MinimalOf
<1>4. \A k \in S : ~(k < x) BY <1>2, <1>3
<1>5. QED BY <1>3, <1>4

(***************************************************************************)
(* Products and quotients                                                  *)
(***************************************************************************)
LEMMA ProductIn ==
  ASSUME NEW a \in Nat, NEW b \in Nat
  PROVE  a * b \in Nat /\ a * b = b * a
OBVIOUS

LEMMA ProductPositive ==
  ASSUME NEW a \in Nat \ {0}, NEW b \in Nat \ {0}
  PROVE  a * b \in Nat \ {0}
OBVIOUS

LEMMA ProductLess ==
  ASSUME NEW a \in Nat, NEW b \in Nat, NEW n \in Nat
  PROVE  /\ a <= b => a * n <= b * n
         /\ a < b /\ n > 0 => a * n < b * n
OBVIOUS

LEMMA ProductCancels ==
  ASSUME NEW a \in Nat, NEW b \in Nat, NEW n \in Nat \ {0}
  PROVE  /\ a * n < b * n => a < b
         /\ a * n <= b * n => a <= b
         /\ a * n = b * n => a = b
<1>1. a <= b => a * n <= b * n BY ProductLess
<1>2. b <= a => b * n <= a * n BY ProductLess
<1>3. a < b => a * n < b * n BY ProductLess
<1>4. b < a => b * n < a * n BY ProductLess
<1>5. a * n \in Nat /\ b * n \in Nat BY ProductIn
<1>6. QED BY <1>1, <1>2, <1>3, <1>4, <1>5

LEMMA Division ==
  ASSUME NEW a \in Nat, NEW b \in Nat \ {0}
  PROVE  /\ a \div b \in Nat /\ a % b \in Nat /\ a % b < b
         /\ a = (a \div b) * b + (a % b)
OBVIOUS

LEMMA Distribute ==
  ASSUME NEW a \in Int, NEW b \in Int, NEW n \in Int
  PROVE  (a + b) * n = a * n + b * n /\ (a - b) * n = a * n - b * n
OBVIOUS

\* The quotient and the remainder are the only such numbers.
LEMMA DivisionOnly ==
  ASSUME NEW q \in Nat, NEW r \in Nat, NEW b \in Nat \ {0}, r < b
  PROVE  (q * b + r) \div b = q /\ (q * b + r) % b = r
<1> DEFINE a == q * b + r
           d == a \div b
           m == a % b
<1>1. a \in Nat BY ProductIn
<1>2. d \in Nat /\ m \in Nat /\ m < b /\ a = d * b + m
  <2> HIDE DEF a
  <2> QED BY <1>1, Division
<1>3. a = q * b + r OBVIOUS
<1> HIDE DEF a, d, m
<1>4. ~(d < q)
  <2>1. SUFFICES ASSUME d + 1 <= q PROVE FALSE BY <1>2
  <2>2. (d + 1) * b <= q * b BY <1>2, <2>1, ProductLess
  <2>3. (d + 1) * b = d * b + b BY <1>2, Distribute
  <2>4. d * b \in Nat /\ q * b \in Nat BY <1>2, ProductIn
  <2>5. QED BY <1>2, <1>3, <2>2, <2>3, <2>4
<1>5. ~(q < d)
  <2>1. SUFFICES ASSUME q + 1 <= d PROVE FALSE BY <1>2
  <2>2. (q + 1) * b <= d * b BY <1>2, <2>1, ProductLess
  <2>3. (q + 1) * b = q * b + b BY Distribute
  <2>4. d * b \in Nat /\ q * b \in Nat BY <1>2, ProductIn
  <2>5. QED BY <1>2, <1>3, <2>2, <2>3, <2>4
<1>6. d = q BY <1>2, <1>4, <1>5
<1>7. m = r
  <2>1. q * b \in Nat BY ProductIn
  <2>2. QED BY <1>2, <1>3, <1>6, <2>1
<1>8. QED BY <1>6, <1>7 DEF a, d, m

LEMMA DivisionIs ==
  ASSUME NEW x \in Nat, NEW q \in Nat, NEW r \in Nat, NEW b \in Nat \ {0}, r < b, x = q * b + r
  PROVE  x \div b = q /\ x % b = r
BY DivisionOnly

LEMMA DivisionWhole ==
  ASSUME NEW x \in Nat, NEW q \in Nat, NEW b \in Nat \ {0}, x = q * b
  PROVE  x \div b = q /\ x % b = 0
<1>1. PICK r : r = 0 OBVIOUS
<1>2. r \in Nat /\ r < b /\ x = q * b + r BY <1>1
<1>3. x \div b = q /\ x % b = r BY <1>2, DivisionIs
<1>4. QED BY <1>1, <1>3

LEMMA DivisionGrows ==
  ASSUME NEW a \in Nat, NEW c \in Nat, NEW b \in Nat \ {0}, a <= c
  PROVE  a \div b <= c \div b
<1>1. /\ a \div b \in Nat /\ a % b \in Nat /\ a = (a \div b) * b + (a % b)
      /\ c \div b \in Nat /\ c % b \in Nat /\ c % b < b /\ c = (c \div b) * b + (c % b)
  BY Division
<1>2. SUFFICES ASSUME (c \div b) + 1 <= a \div b PROVE FALSE BY <1>1
<1>3. ((c \div b) + 1) * b <= (a \div b) * b BY <1>1, <1>2, ProductLess
<1>4. ((c \div b) + 1) * b = (c \div b) * b + b BY <1>1, Distribute
<1>5. (c \div b) * b \in Nat /\ (a \div b) * b \in Nat BY <1>1, ProductIn
<1>6. QED BY <1>1, <1>3, <1>4, <1>5

(***************************************************************************)
(* Rings: an array of n places, read from its head and written at its tail *)
(***************************************************************************)
\* The remainder of a number less than twice the divisor.
LEMMA SmallRemainder ==
  ASSUME NEW n \in Nat \ {0}, NEW a \in Nat, a < n + n
  PROVE  a % n = IF a < n THEN a ELSE a - n
<1>1. CASE a < n
  <2>1. (0 * n + a) % n = a BY <1>1, DivisionOnly
  <2>2. 0 * n + a = a OBVIOUS
  <2>3. QED BY <1>1, <2>1, <2>2
<1>2. CASE ~(a < n)
  <2> DEFINE r == a - n
  <2>1. r \in Nat /\ r < n /\ r = a - n BY <1>2
  <2> HIDE DEF r
  <2>2. (1 * n + r) % n = r BY <2>1, DivisionOnly
  <2>3. 1 * n + r = a BY <2>1
  <2>4. QED BY <1>2, <2>1, <2>2, <2>3
<1>3. QED BY <1>1, <1>2

RingNext(i, n)     == IF i + 1 = n THEN 0 ELSE i + 1
RingCount(h, t, n) == (t + n - h) % n
RingAt(h, i, n)    == (h + i - 1) % n

LEMMA RingIn ==
  ASSUME NEW n \in Nat \ {0}, NEW h \in 0 .. n - 1, NEW t \in 0 .. n - 1
  PROVE  /\ RingCount(h, t, n) = IF h <= t THEN t - h ELSE t + n - h
         /\ RingCount(h, t, n) \in 0 .. n - 1
         /\ RingCount(h, t, n) = 0 <=> h = t
         /\ RingNext(h, n) \in 0 .. n - 1
         /\ (h + 1) % n = RingNext(h, n)
<1> DEFINE a == t + n - h
           b == h + 1
<1>1. a = t + n - h /\ a \in Nat /\ a < n + n /\ b = h + 1 /\ b \in Nat /\ b < n + n
  OBVIOUS
<1>2. RingCount(h, t, n) = a % n /\ (h + 1) % n = b % n BY DEF RingCount
<1> HIDE DEF a, b
<1>3. a % n = (IF a < n THEN a ELSE a - n) /\ b % n = (IF b < n THEN b ELSE b - n)
  BY <1>1, SmallRemainder
<1>4. RingCount(h, t, n) = IF h <= t THEN t - h ELSE t + n - h BY <1>1, <1>2, <1>3
<1>5. (h + 1) % n = RingNext(h, n) BY <1>1, <1>2, <1>3 DEF RingNext
<1>6. QED BY <1>4, <1>5 DEF RingNext

LEMMA RingAtIn ==
  ASSUME NEW n \in Nat \ {0}, NEW h \in 0 .. n - 1, NEW i \in 1 .. n
  PROVE  /\ RingAt(h, i, n) = IF h + i - 1 < n THEN h + i - 1 ELSE h + i - 1 - n
         /\ RingAt(h, i, n) \in 0 .. n - 1
<1> DEFINE a == h + i - 1
<1>1. a = h + i - 1 /\ a \in Nat /\ a < n + n OBVIOUS
<1>2. RingAt(h, i, n) = a % n BY DEF RingAt
<1> HIDE DEF a
<1>3. a % n = IF a < n THEN a ELSE a - n BY <1>1, SmallRemainder
<1>4. QED BY <1>1, <1>2, <1>3

\* The tail moves on, if there is room.
LEMMA RingGrows ==
  ASSUME NEW n \in Nat \ {0}, NEW h \in 0 .. n - 1, NEW t \in 0 .. n - 1,
         RingCount(h, t, n) # n - 1
  PROVE  /\ RingCount(h, RingNext(t, n), n) = RingCount(h, t, n) + 1
         /\ RingAt(h, RingCount(h, t, n) + 1, n) = t
         /\ \A i \in 1 .. RingCount(h, t, n) : RingAt(h, i, n) # t
<1> DEFINE u == RingNext(t, n)
<1>1. u \in 0 .. n - 1 /\ u = IF t + 1 = n THEN 0 ELSE t + 1 BY DEF RingNext
<1> HIDE DEF u
<1>2. /\ RingCount(h, t, n) = IF h <= t THEN t - h ELSE t + n - h
      /\ RingCount(h, t, n) \in 0 .. n - 1
  BY RingIn
<1>3. RingCount(h, u, n) = IF h <= u THEN u - h ELSE u + n - h
  <2> DEFINE a == u + n - h
  <2>1. a = u + n - h /\ a \in Nat /\ a < n + n BY <1>1
  <2>2. RingCount(h, u, n) = a % n BY DEF RingCount
  <2> HIDE DEF a
  <2>3. a % n = IF a < n THEN a ELSE a - n BY <2>1, SmallRemainder
  <2>4. QED BY <1>1, <2>1, <2>2, <2>3
<1>4. RingCount(h, RingNext(t, n), n) = RingCount(h, t, n) + 1
  BY <1>1, <1>2, <1>3 DEF u
<1>5. \A i \in 1 .. RingCount(h, t, n) + 1 :
        RingAt(h, i, n) = IF h + i - 1 < n THEN h + i - 1 ELSE h + i - 1 - n
  BY <1>2, RingAtIn
<1>6. QED BY <1>2, <1>4, <1>5

\* The head moves on, if there is something.
LEMMA RingShrinks ==
  ASSUME NEW n \in Nat \ {0}, NEW h \in 0 .. n - 1, NEW t \in 0 .. n - 1, h # t
  PROVE  /\ RingCount(RingNext(h, n), t, n) = RingCount(h, t, n) - 1
         /\ RingCount(h, t, n) \in 1 .. n - 1
         /\ RingAt(h, 1, n) = h
         /\ \A i \in 1 .. RingCount(h, t, n) - 1 :
              RingAt(RingNext(h, n), i, n) = RingAt(h, i + 1, n)
<1> DEFINE g == RingNext(h, n)
<1>1. g \in 0 .. n - 1 /\ g = IF h + 1 = n THEN 0 ELSE h + 1 BY DEF RingNext
<1> HIDE DEF g
<1>2. /\ RingCount(h, t, n) = IF h <= t THEN t - h ELSE t + n - h
      /\ RingCount(h, t, n) \in 0 .. n - 1
  BY RingIn
<1>3. RingCount(g, t, n) = IF g <= t THEN t - g ELSE t + n - g
  <2>1. \A x \in 0 .. n - 1 : RingCount(x, t, n) = IF x <= t THEN t - x ELSE t + n - x
    BY RingIn
  <2>2. QED BY <1>1, <2>1
<1>4. RingCount(RingNext(h, n), t, n) = RingCount(h, t, n) - 1 /\ RingCount(h, t, n) \in 1 .. n - 1
  BY <1>1, <1>2, <1>3 DEF g
<1>5. \A i \in 1 .. n : RingAt(h, i, n) = IF h + i - 1 < n THEN h + i - 1 ELSE h + i - 1 - n
  BY RingAtIn
<1>6. \A i \in 1 .. n : RingAt(g, i, n) = IF g + i - 1 < n THEN g + i - 1 ELSE g + i - 1 - n
  BY <1>1, RingAtIn
<1>7. ASSUME NEW i \in 1 .. RingCount(h, t, n) - 1
      PROVE  RingAt(RingNext(h, n), i, n) = RingAt(h, i + 1, n)
  <2>1. i \in 1 .. n /\ i + 1 \in 1 .. n /\ i < n BY <1>4
  <2>2. RingAt(g, i, n) = RingAt(h, i + 1, n) BY <1>1, <1>5, <1>6, <2>1
  <2>3. QED BY <2>2 DEF g
<1>8. RingAt(h, 1, n) = h BY <1>5
<1>9. QED BY <1>4, <1>7, <1>8

\* What is between the head and the tail.
RingSlots(b, n)        == {b[i] : i \in 0 .. n - 1}
RingWindow(b, h, t, n) == [i \in 1 .. RingCount(h, t, n) |-> b[RingAt(h, i, n)]]

LEMMA WindowIn ==
  ASSUME NEW n \in Nat \ {0}, NEW h \in 0 .. n - 1, NEW t \in 0 .. n - 1, NEW b
  PROVE  /\ RingWindow(b, h, t, n) \in Seq(RingSlots(b, n))
         /\ Len(RingWindow(b, h, t, n)) = RingCount(h, t, n)
         /\ \A i \in 1 .. RingCount(h, t, n) : RingWindow(b, h, t, n)[i] = b[RingAt(h, i, n)]
<1> DEFINE V == RingSlots(b, n)
           c == RingCount(h, t, n)
<1>1. c \in 0 .. n - 1 BY RingIn
<1>2. \A i \in 1 .. c : b[RingAt(h, i, n)] \in V
  <2>1. TAKE i \in 1 .. c
  <2>2. i \in 1 .. n BY <1>1
  <2>3. RingAt(h, i, n) \in 0 .. n - 1 BY <2>2, RingAtIn
  <2>4. QED BY <2>3 DEF RingSlots
<1>3. [i \in 1 .. c |-> b[RingAt(h, i, n)]] \in [1 .. c -> V] BY <1>2
<1> HIDE DEF c, V
<1>4. \A s \in [1 .. c -> V] : s \in Seq(V) /\ Len(s) = c BY <1>1
<1>5. QED BY <1>3, <1>4 DEF RingWindow, c, V

\* The tail moves on, over a slot that was written.
HasRoom(h, t, n) == /\ n \in Nat \ {0} /\ h \in 0 .. n - 1 /\ t \in 0 .. n - 1
                    /\ RingCount(h, t, n) # n - 1
WrittenAt(d, b, t, n) == \A i \in 0 .. n - 1 : i # t => d[i] = b[i]

LEMMA WindowGrows ==
  ASSUME NEW n, NEW h, NEW t, NEW b, NEW d, HasRoom(h, t, n), WrittenAt(d, b, t, n)
  PROVE  RingWindow(d, h, RingNext(t, n), n) = Append(RingWindow(b, h, t, n), d[t])
<1>1. /\ n \in Nat \ {0} /\ h \in 0 .. n - 1 /\ t \in 0 .. n - 1
      /\ RingCount(h, t, n) # n - 1
      /\ \A i \in 0 .. n - 1 : i # t => d[i] = b[i]
  BY DEF HasRoom, WrittenAt
<1> DEFINE u == RingNext(t, n)
           c == RingCount(h, t, n)
           s == RingWindow(b, h, t, n)
           r == RingWindow(d, h, u, n)
           V == RingSlots(b, n) \cup RingSlots(d, n)
<1>2. u \in 0 .. n - 1 /\ RingCount(h, u, n) = c + 1 /\ RingAt(h, c + 1, n) = t
      /\ \A i \in 1 .. c : RingAt(h, i, n) # t
  BY <1>1, RingIn, RingGrows
<1>3. c \in 0 .. n - 1 BY <1>1, RingIn
<1>4. s \in Seq(RingSlots(b, n)) /\ Len(s) = c /\ \A i \in 1 .. c : s[i] = b[RingAt(h, i, n)]
  BY <1>1, WindowIn
<1>5. d[t] \in V BY <1>1 DEF RingSlots
<1> HIDE DEF u
<1>6. /\ r \in Seq(RingSlots(d, n)) /\ Len(r) = RingCount(h, u, n)
      /\ \A i \in 1 .. RingCount(h, u, n) : r[i] = d[RingAt(h, i, n)]
  BY <1>1, <1>2, WindowIn, ZenonT(40)
<1> HIDE DEF c, s, r, V
<1>7. s \in Seq(V) /\ r \in Seq(V) BY <1>4, <1>6 DEF V
<1>8. r[c + 1] = d[t] /\ \A i \in 1 .. c : r[i] = s[i]
  <2>1. \A i \in 1 .. c : RingAt(h, i, n) \in 0 .. n - 1 BY <1>1, <1>3, RingAtIn
  <2>2. \A i \in 1 .. c : d[RingAt(h, i, n)] = b[RingAt(h, i, n)] BY <1>1, <1>2, <2>1
  <2>3. \A i \in 1 .. c : i \in 1 .. c + 1 BY <1>3
  <2>4. c + 1 \in 1 .. c + 1 BY <1>3
  <2>5. QED BY <1>2, <1>4, <1>6, <2>2, <2>3, <2>4
<1>9. Append(s, d[t]) \in Seq(V) /\ Len(Append(s, d[t])) = c + 1
      /\ \A i \in 1 .. c : Append(s, d[t])[i] = s[i]
      /\ Append(s, d[t])[c + 1] = d[t]
  BY <1>3, <1>4, <1>5, <1>7
<1>10. r = Append(s, d[t])
  <2>1. \A i \in 1 .. c + 1 : r[i] = Append(s, d[t])[i] BY <1>3, <1>8, <1>9
  <2>2. Len(r) = c + 1 BY <1>2, <1>6
  <2>3. QED BY <1>7, <1>9, <2>1, <2>2, SeqEqual
<1>11. QED BY <1>10 DEF u, s, r

\* The head moves on.
LEMMA WindowShrinks ==
  ASSUME NEW n \in Nat \ {0}, NEW h \in 0 .. n - 1, NEW t \in 0 .. n - 1, NEW b, h # t
  PROVE  /\ RingWindow(b, h, t, n) # <<>> /\ Head(RingWindow(b, h, t, n)) = b[h]
         /\ RingWindow(b, RingNext(h, n), t, n) = Tail(RingWindow(b, h, t, n))
<1> DEFINE g == RingNext(h, n)
           c == RingCount(h, t, n)
           s == RingWindow(b, h, t, n)
           r == RingWindow(b, g, t, n)
           V == RingSlots(b, n)
<1>1. g \in 0 .. n - 1 /\ RingCount(g, t, n) = c - 1 /\ c \in 1 .. n - 1
      /\ RingAt(h, 1, n) = h /\ \A i \in 1 .. c - 1 : RingAt(g, i, n) = RingAt(h, i + 1, n)
  <2>1. g \in 0 .. n - 1 BY RingIn
  <2>2. /\ RingCount(g, t, n) = c - 1 /\ c \in 1 .. n - 1
        /\ RingAt(h, 1, n) = h /\ \A i \in 1 .. c - 1 : RingAt(g, i, n) = RingAt(h, i + 1, n)
    BY RingShrinks, Zenon
  <2>3. QED BY <2>1, <2>2
<1>2. s \in Seq(V) /\ Len(s) = c /\ \A i \in 1 .. c : s[i] = b[RingAt(h, i, n)]
  BY WindowIn
<1> HIDE DEF g
<1>3. r \in Seq(V) /\ Len(r) = c - 1 /\ \A i \in 1 .. c - 1 : r[i] = b[RingAt(g, i, n)]
  <2>1. /\ r \in Seq(V) /\ Len(r) = RingCount(g, t, n)
        /\ \A i \in 1 .. RingCount(g, t, n) : r[i] = b[RingAt(g, i, n)]
    BY <1>1, WindowIn, Zenon
  <2> HIDE DEF r, c, V
  <2>2. QED BY <1>1, <2>1
<1>4. \A i \in 1 .. c - 1 : r[i] = s[i + 1]
  <2>1. \A i \in 1 .. c - 1 : i + 1 \in 1 .. c BY <1>1
  <2>2. QED BY <1>1, <1>2, <1>3, <2>1
<1>5. s[1] = b[h] BY <1>1, <1>2
<1> HIDE DEF c, s, r, V
<1>6. s # <<>> /\ Head(s) = s[1] BY <1>1, <1>2
<1>7. Tail(s) \in Seq(V) /\ Len(Tail(s)) = c - 1 /\ \A i \in 1 .. c - 1 : Tail(s)[i] = s[i + 1]
  BY <1>1, <1>2, <1>6
<1>8. r = Tail(s) BY <1>3, <1>4, <1>7, SeqEqual
<1>9. QED BY <1>5, <1>6, <1>8 DEF g, s, r

(***************************************************************************)
(* Sums over finite sets, in the way the community modules define them     *)
(***************************************************************************)
\* g gives the sum of f over each subset of S.
Sums(S, f, g) ==
  g = [s \in SUBSET S |-> IF s = {} THEN 0
                          ELSE f[CHOOSE x \in s : TRUE] + g[s \ {CHOOSE x \in s : TRUE}]]

LEMMA SumStep ==
  ASSUME NEW S, IsFiniteSet(S), NEW f, NEW g, Sums(S, f, g), NEW T \in SUBSET S
  PROVE  /\ T = {} => g[T] = 0
         /\ T # {} => \E x \in T : g[T] = f[x] + g[T \ {x}]
         /\ IsFiniteSet(T) /\ Cardinality(T) \in Nat
         /\ \A x \in T : IsFiniteSet(T \ {x}) /\ Cardinality(T \ {x}) = Cardinality(T) - 1
<1>1. g[T] = IF T = {} THEN 0 ELSE f[CHOOSE x \in T : TRUE] + g[T \ {CHOOSE x \in T : TRUE}]
  BY DEF Sums
<1>2. T # {} => (CHOOSE x \in T : TRUE) \in T OBVIOUS
<1>3. IsFiniteSet(T) BY FS_Subset
<1>4. QED BY <1>1, <1>2, <1>3, FS_CardinalityType, FS_RemoveElement

\* Two functions that agree on a set have the same sum over it.
LEMMA SumSame ==
  ASSUME NEW S, IsFiniteSet(S), NEW f, NEW g, Sums(S, f, g), NEW h, NEW k, Sums(S, h, k),
         NEW T \in SUBSET S, \A x \in T : f[x] = h[x]
  PROVE  g[T] = k[T]
<1> DEFINE Good(s) == s \in SUBSET S /\ g[s] # k[s] /\ \A x \in s : f[x] = h[x]
           Sizes == {n \in Nat : \E s \in SUBSET S : Good(s) /\ Cardinality(s) = n}
<1>1. SUFFICES ASSUME g[T] # k[T] PROVE FALSE OBVIOUS
<1>2. Cardinality(T) \in Sizes BY <1>1, SumStep
<1>3. PICK n \in Sizes : \A m \in Sizes : n <= m BY <1>2, NatMin
<1>4. PICK s \in SUBSET S : Good(s) /\ Cardinality(s) = n BY <1>3
<1>5. s # {} BY <1>4, SumStep
<1> DEFINE x == CHOOSE x \in s : TRUE
<1>6. x \in s BY <1>5
<1>7. g[s] = f[x] + g[s \ {x}] /\ k[s] = h[x] + k[s \ {x}]
  BY <1>5 DEF Sums
<1>8. f[x] = h[x] BY <1>4, <1>6
<1> HIDE DEF x
<1>9. g[s \ {x}] = k[s \ {x}]
  <2>1. Cardinality(s \ {x}) = n - 1 /\ Cardinality(s) \in Nat /\ Cardinality(s \ {x}) \in Nat
    <3>1. IsFiniteSet(s) /\ IsFiniteSet(s \ {x}) BY <1>6, SumStep
    <3>2. QED BY <1>4, <1>6, <3>1, FS_CardinalityType, SumStep
  <2>2. n - 1 \notin Sizes BY <1>3
  <2>3. ~Good(s \ {x}) BY <2>1, <2>2, <1>4
  <2>4. QED BY <2>3, <1>4
<1>10. QED BY <1>4, <1>7, <1>8, <1>9

\* The sum is a number, and any element can be taken first.
LEMMA SumSplit ==
  ASSUME NEW S, IsFiniteSet(S), NEW f, \A x \in S : f[x] \in Int, NEW g, Sums(S, f, g),
         NEW T \in SUBSET S, NEW e
  PROVE  /\ g[T] \in Int
         /\ e \in T => g[T] = f[e] + g[T \ {e}]
<1> DEFINE Bad(s) == ~(g[s] \in Int /\ \A z \in s : g[s] = f[z] + g[s \ {z}])
           Sizes == {n \in Nat : \E s \in SUBSET S : Bad(s) /\ Cardinality(s) = n}
<1>1. SUFFICES ASSUME Bad(T) PROVE FALSE OBVIOUS
<1>2. Cardinality(T) \in Sizes BY <1>1, SumStep
<1>3. PICK n \in Sizes : \A m \in Sizes : n <= m BY <1>2, NatMin
<1>4. PICK s \in SUBSET S : Bad(s) /\ Cardinality(s) = n BY <1>3
<1>5. s # {} BY <1>4, SumStep
<1>6. PICK x \in s : g[s] = f[x] + g[s \ {x}]
  <2> DEFINE c == CHOOSE x \in s : TRUE
  <2>1. c \in s /\ g[s] = f[c] + g[s \ {c}] BY <1>5 DEF Sums
  <2> HIDE DEF c
  <2>2. QED BY <2>1
<1>7. ASSUME NEW y \in s PROVE ~Bad(s \ {y})
  <2>1. Cardinality(s \ {y}) = n - 1 /\ Cardinality(s \ {y}) \in Nat
    <3>1. IsFiniteSet(s \ {y}) BY SumStep
    <3>2. QED BY <1>4, <3>1, FS_CardinalityType, SumStep
  <2>2. n - 1 \notin Sizes BY <1>3
  <2>3. QED BY <2>1, <2>2
<1>8. g[s] \in Int
  <2>1. g[s \ {x}] \in Int BY <1>7
  <2>2. f[x] \in Int OBVIOUS
  <2>3. QED BY <1>6, <2>1, <2>2
<1>9. ASSUME NEW z \in s PROVE g[s] = f[z] + g[s \ {z}]
  <2>1. CASE z = x BY <1>6, <2>1
  <2>2. CASE z # x
    <3>1. g[s \ {x}] = f[z] + g[(s \ {x}) \ {z}] BY <1>7, <2>2
    <3>2. g[s \ {z}] = f[x] + g[(s \ {z}) \ {x}] BY <1>7, <2>2
    <3>3. (s \ {x}) \ {z} = (s \ {z}) \ {x} OBVIOUS
    <3>4. g[(s \ {z}) \ {x}] \in Int
      <4>1. Cardinality((s \ {z}) \ {x}) = n - 2 /\ Cardinality((s \ {z}) \ {x}) \in Nat
        <5>1. Cardinality(s \ {z}) = n - 1 BY <1>4, SumStep
        <5>2. IsFiniteSet((s \ {z}) \ {x}) BY SumStep, <2>2
        <5>3. Cardinality((s \ {z}) \ {x}) = Cardinality(s \ {z}) - 1 BY SumStep, <2>2
        <5>4. QED BY <5>1, <5>2, <5>3, FS_CardinalityType
      <4>2. n - 2 \notin Sizes BY <1>3
      <4>3. ~Bad((s \ {z}) \ {x}) BY <4>1, <4>2
      <4>4. QED BY <4>3
    <3>5. f[x] \in Int /\ f[z] \in Int OBVIOUS
    <3> DEFINE A == g[(s \ {z}) \ {x}]
    <3>6. g[s \ {x}] = f[z] + A BY <3>1, <3>3
    <3>7. g[s \ {z}] = f[x] + A BY <3>2
    <3>8. A \in Int BY <3>4
    <3> HIDE DEF A
    <3>9. QED BY <1>6, <3>5, <3>6, <3>7, <3>8
  <2>3. QED BY <2>1, <2>2
<1>10. QED BY <1>4, <1>8, <1>9

\* A change of one summand.
LEMMA SumChanges ==
  ASSUME NEW S, IsFiniteSet(S), NEW f, \A x \in S : f[x] \in Int, NEW g, Sums(S, f, g),
         NEW h, \A x \in S : h[x] \in Int, NEW k, Sums(S, h, k),
         NEW z \in S, \A x \in S \ {z} : f[x] = h[x]
  PROVE  /\ k[S] - g[S] = h[z] - f[z]
         /\ k[S] \in Int /\ g[S] \in Int
<1>1. S \in SUBSET S /\ S \ {z} \in SUBSET S OBVIOUS
<1>2. g[S] = f[z] + g[S \ {z}] /\ k[S] = h[z] + k[S \ {z}]
  BY <1>1, SumSplit
<1>3. g[S \ {z}] = k[S \ {z}] BY <1>1, SumSame
<1>4. g[S \ {z}] \in Int /\ f[z] \in Int /\ h[z] \in Int BY <1>1, SumSplit
<1>5. QED BY <1>2, <1>3, <1>4

\* There is a sum.
LEMMA SumsExist ==
  ASSUME NEW S, IsFiniteSet(S), NEW f
  PROVE  \E g : Sums(S, f, g)
<1> DEFINE Upto(n) == {s \in SUBSET S : Cardinality(s) <= n}
           First(s) == CHOOSE x \in s : TRUE
           P(n, g) == g = [s \in Upto(n) |-> IF s = {} THEN 0 ELSE f[First(s)] + g[s \ {First(s)}]]
           Bad == {n \in Nat : ~\E g : P(n, g)}
<1>1. ASSUME NEW s \in SUBSET S
      PROVE  /\ Cardinality(s) \in Nat /\ (Cardinality(s) = 0 <=> s = {})
             /\ s # {} => /\ First(s) \in s /\ s \ {First(s)} \in SUBSET S
                          /\ Cardinality(s \ {First(s)}) = Cardinality(s) - 1
  <2>1. IsFiniteSet(s) BY FS_Subset
  <2>2. s # {} => First(s) \in s OBVIOUS
  <2> HIDE DEF First
  <2>3. QED BY <2>1, <2>2, FS_CardinalityType, FS_EmptySet, FS_RemoveElement
<1> HIDE DEF First
<1>2. Bad = {}
  <2>1. SUFFICES ASSUME Bad # {} PROVE FALSE OBVIOUS
  <2>2. PICK n \in Bad : \A m \in Bad : n <= m BY <2>1, NatMin
  <2>3. n # 0
    <3>1. SUFFICES ASSUME n = 0 PROVE FALSE OBVIOUS
    <3> DEFINE g == [s \in Upto(0) |-> 0]
    <3>2. \A s \in Upto(0) : s = {}
      <4>1. TAKE s \in Upto(0)
      <4>2. s \in SUBSET S /\ Cardinality(s) <= 0 OBVIOUS
      <4>3. Cardinality(s) \in Nat BY <4>2, <1>1
      <4>4. Cardinality(s) = 0 BY <4>2, <4>3
      <4>5. QED BY <4>2, <4>4, <1>1
    <3>3. g = [s \in Upto(0) |-> IF s = {} THEN 0 ELSE f[First(s)] + g[s \ {First(s)}]]
      BY <3>2
    <3>4. P(0, g) BY <3>3
    <3>5. QED BY <2>2, <3>1, <3>4
  <2>4. n \in Nat /\ n - 1 \in Nat /\ n - 1 \notin Bad
    <3>1. n \in Nat OBVIOUS
    <3> HIDE DEF Bad
    <3>2. QED BY <2>2, <2>3, <3>1
  <2>5. PICK g : P(n - 1, g) BY <2>4
  <2> DEFINE h == [s \in Upto(n) |-> IF s = {} THEN 0 ELSE f[First(s)] + g[s \ {First(s)}]]
  <2>6. \A s \in Upto(n) : s # {} => s \ {First(s)} \in Upto(n - 1)
    BY <1>1, <2>4
  <2>7. \A s \in Upto(n - 1) : h[s] = g[s]
    <3>1. \A s \in Upto(n - 1) : s \in Upto(n)
      <4>1. TAKE s \in Upto(n - 1)
      <4>2. s \in SUBSET S /\ Cardinality(s) <= n - 1 OBVIOUS
      <4>3. Cardinality(s) \in Nat BY <4>2, <1>1
      <4>4. Cardinality(s) <= n BY <4>2, <4>3, <2>4
      <4>5. QED BY <4>2, <4>4
    <3>2. \A s \in Upto(n - 1) : g[s] = IF s = {} THEN 0 ELSE f[First(s)] + g[s \ {First(s)}]
      BY <2>5
    <3>3. QED BY <3>1, <3>2
  <2>8. h = [s \in Upto(n) |-> IF s = {} THEN 0 ELSE f[First(s)] + h[s \ {First(s)}]]
    <3>1. \A s \in Upto(n) : s # {} => h[s \ {First(s)}] = g[s \ {First(s)}] BY <2>6, <2>7
    <3> DEFINE r == [s \in Upto(n) |-> IF s = {} THEN 0 ELSE f[First(s)] + h[s \ {First(s)}]]
    <3>2. \A s \in Upto(n) : h[s] = r[s] BY <3>1
    <3>3. QED BY <3>2
  <2>9. \E k : P(n, k)
    <3> HIDE DEF h
    <3> QED BY <2>8
  <2>10. QED BY <2>2, <2>9
<1>3. Cardinality(S) \in Nat BY <1>1
<1>4. PICK g : P(Cardinality(S), g) BY <1>2, <1>3
<1>5. Upto(Cardinality(S)) = SUBSET S BY FS_Subset
<1>6. g = [s \in SUBSET S |-> IF s = {} THEN 0 ELSE f[First(s)] + g[s \ {First(s)}]]
  BY <1>4, <1>5
<1>7. QED BY <1>6 DEF Sums, First

\* The sum of the steps of p is the way from its first value to its last.
Differences(f, p, n) ==
  /\ \A k \in 0 .. n : p[k] \in Int
  /\ \A k \in 0 .. n - 1 : f[k] = p[k + 1] - p[k]

LEMMA SumTelescopes ==
  ASSUME NEW n \in Nat, NEW p, NEW f, Differences(f, p, n),
         NEW g, Sums(0 .. n - 1, f, g)
  PROVE  g[0 .. n - 1] = p[n] - p[0]
<1> DEFINE S == 0 .. n - 1
           Bad == {m \in 0 .. n : g[0 .. m - 1] # p[m] - p[0]}
<1>1. IsFiniteSet(S) BY FS_Interval
<1>2. SUFFICES ASSUME Bad # {} PROVE FALSE
  <2>1. n \in 0 .. n OBVIOUS
  <2>2. QED BY <2>1
<1>3. PICK m \in Bad : \A k \in Bad : m <= k
  <2>1. Bad \subseteq Nat OBVIOUS
  <2> HIDE DEF Bad
  <2>2. QED BY <1>2, <2>1, NatMin
<1>4. m \in 0 .. n /\ m \in Nat /\ g[0 .. m - 1] # p[m] - p[0] OBVIOUS
<1>5. m # 0
  <2>1. SUFFICES ASSUME m = 0 PROVE FALSE OBVIOUS
  <2>2. 0 .. m - 1 = {} BY <2>1
  <2>3. {} \in SUBSET S OBVIOUS
  <2>4. g[{}] = 0 BY <1>1, <2>3, SumStep
  <2>5. p[0] \in Int BY <1>4 DEF Differences
  <2>6. QED BY <1>4, <2>1, <2>2, <2>4, <2>5
<1>6. PICK j : j = m - 1 OBVIOUS
<1>7. j \in 0 .. n - 1 /\ j \in 0 .. n /\ j < m /\ m = j + 1 BY <1>4, <1>5, <1>6
<1>8. j \notin Bad BY <1>3, <1>7, <1>4
<1>9. g[0 .. j - 1] = p[j] - p[0] BY <1>7, <1>8
<1>10. PICK T : T = 0 .. m - 1 OBVIOUS
<1>11. T \in SUBSET S /\ j \in T /\ T \ {j} = 0 .. j - 1 BY <1>4, <1>7, <1>10
<1>12. \A x \in S : f[x] \in Int
  <2>1. TAKE x \in S
  <2>2. x \in 0 .. n /\ x + 1 \in 0 .. n OBVIOUS
  <2>3. p[x] \in Int /\ p[x + 1] \in Int BY <2>2 DEF Differences
  <2>4. f[x] = p[x + 1] - p[x] BY DEF Differences
  <2>5. QED BY <2>3, <2>4
<1>13. g[T] = f[j] + g[T \ {j}]
  <2>1. Sums(S, f, g) OBVIOUS
  <2> HIDE DEF S, Bad
  <2>2. T \in SUBSET S /\ j \in T BY <1>11
  <2>3. QED BY <2>1, <2>2, <1>1, <1>12, SumSplit
<1>14. f[j] = p[m] - p[j] BY <1>7 DEF Differences
<1>15. p[j] \in Int /\ p[m] \in Int /\ p[0] \in Int
  <2>1. 0 \in 0 .. n BY <1>4
  <2>2. QED BY <1>4, <1>7, <2>1 DEF Differences
<1>16. g[T] = p[m] - p[0]
  <2>1. g[T] = f[j] + g[0 .. j - 1] BY <1>11, <1>13
  <2>2. QED BY <1>9, <1>14, <1>15, <2>1
<1>17. QED BY <1>4, <1>10, <1>16
=============================================================================
