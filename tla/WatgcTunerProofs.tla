-------------------------- MODULE WatgcTunerProofs --------------------------
(***************************************************************************)
(* What holds of the tuner for any number of arms, any thresholds, any     *)
(* write amplifications and any work of the host.                          *)
(***************************************************************************)
EXTENDS WatgcTuner, Arithmetic

Arm   == [visits : Nat, last : Nat, mean : Nat]
Tuner == [arm : [Arms -> Arm], windows : Nat, current : Arms, best : Arms,
          stable : Nat, confirmed : Nat, exploit : Nat, drift : Nat,
          reference : Nat, settled : BOOLEAN]

TypeOK == /\ phase \in {"warmup", "burnin", "measure"}
          /\ gcs \in Nat /\ host \in Nat /\ ran \in Nat
          /\ t \in Tuner
          /\ seen \in [all : Nat, best : Nat]

LEMMA Sizes ==
  /\ NrArms \in Nat \ {0, 1} /\ Arms \subseteq Nat /\ Arms # {} /\ InitialArm \in Arms
  /\ Wafs \subseteq Nat /\ HostPages \subseteq Nat
  /\ One \in Nat /\ Tolerance \in Nat /\ DriftShare \in Nat
  /\ WarmupGc \in Nat \ {0} /\ BurninGc \in Nat \ {0} /\ WindowGc \in Nat \ {0}
  /\ BurninHost \in Nat /\ WindowHost \in Nat /\ MaxWindowGc \in Nat \ {0}
  /\ MinVisits \in Nat \ {0} /\ StableWindows \in Nat \ {0, 1}
  /\ BestConfirmations \in Nat \ {0} /\ ProbeEvery \in Nat \ {0}
  /\ StaleWindows \in Nat \ {0} /\ DriftWindows \in Nat \ {0}
BY TunerAssumption DEF Arms

(***************************************************************************)
(* The arms chosen                                                         *)
(***************************************************************************)
\* There is a least arm: of the arms of the least value, the first.
LEMMA LeastIn ==
  ASSUME NEW S, S \subseteq Arms, S # {}, NEW value, \A i \in S : value[i] \in Nat
  PROVE  /\ Least(S, value) \in S
         /\ \A j \in S : \/ value[Least(S, value)] < value[j]
                         \/ value[Least(S, value)] = value[j] /\ Least(S, value) <= j
<1> DEFINE V == {value[i] : i \in S}
           P(i) == \A j \in S : value[i] < value[j] \/ (value[i] = value[j] /\ i <= j)
<1>1. V \subseteq Nat /\ V # {} OBVIOUS
<1>2. PICK v \in V : \A k \in V : v <= k
  <2> HIDE DEF V
  <2> QED BY <1>1, NatMin
<1> DEFINE T == {i \in S : value[i] = v}
<1>3. T \subseteq Nat /\ T # {} BY <1>2, Sizes
<1>4. PICK i \in T : \A j \in T : i <= j
  <2> HIDE DEF T
  <2> QED BY <1>3, NatMin
<1>5. \A j \in S : value[j] \in Nat /\ value[j] \in V /\ v <= value[j] BY <1>2
<1>6. i \in S /\ P(i)
  BY <1>4, <1>5
<1>7. Least(S, value) \in S /\ P(Least(S, value))
  <2> HIDE DEF P
  <2>1. \E k \in S : P(k) BY <1>6
  <2>2. Least(S, value) = CHOOSE k \in S : P(k)
    BY DEF Least, P
  <2>3. QED BY <2>1, <2>2
<1>8. QED BY <1>7

LEMMA OldestIn ==
  ASSUME NEW u \in Tuner, NEW S, S \subseteq Arms, S # {}
  PROVE  /\ Oldest(u, S) \in S
         /\ \A j \in S : u.arm[Oldest(u, S)].last <= u.arm[j].last
<1> DEFINE value == [i \in Arms |-> u.arm[i].last]
<1>1. \A i \in S : value[i] \in Nat /\ value[i] = u.arm[i].last
  BY DEF Tuner, Arm
<1>2. Oldest(u, S) = Least(S, value) BY DEF Oldest
<1>3. /\ Least(S, value) \in S
      /\ \A j \in S : \/ value[Least(S, value)] < value[j]
                      \/ value[Least(S, value)] = value[j]
  <2> HIDE DEF value
  <2>1. \A i \in S : value[i] \in Nat BY <1>1
  <2>2. \A j \in S : \/ value[Least(S, value)] < value[j]
                     \/ value[Least(S, value)] = value[j] /\ Least(S, value) <= j
    BY <2>1, LeastIn
  <2>3. Least(S, value) \in S BY <2>1, LeastIn
  <2>4. QED BY <2>2, <2>3
<1>4. QED
  <2> HIDE DEF value
  <2> QED BY <1>1, <1>2, <1>3

\* The search returns an arm of the fewest visits until all are covered, and
\* after that the oldest one if it is stale.
LEMMA SearchIn ==
  ASSUME NEW u \in Tuner, NEW i \in Search(u)
  PROVE  /\ i \in Arms
         /\ ~Covered(u) => /\ u.arm[i].visits < MinVisits
                           /\ \A j \in Arms : u.arm[i].visits <= u.arm[j].visits
         /\ Covered(u) => \/ /\ i = Oldest(u, Arms)
                             /\ u.windows - u.arm[i].last >= StaleWindows
                          \/ u.windows - u.arm[Oldest(u, Arms)].last < StaleWindows
<1> DEFINE value == [k \in Arms |-> u.arm[k].visits]
           f == Least(Arms, value)
<1>1. \A k \in Arms : value[k] \in Nat /\ value[k] = u.arm[k].visits
  BY DEF Tuner, Arm
<1>2. f \in Arms /\ \A j \in Arms : value[f] < value[j] \/ value[f] = value[j]
  <2> HIDE DEF value
  <2>1. Arms \subseteq Arms /\ Arms # {} /\ \A k \in Arms : value[k] \in Nat
    BY <1>1, Sizes
  <2>2. \A j \in Arms : \/ value[f] < value[j]
                        \/ value[f] = value[j] /\ f <= j
    BY <2>1, LeastIn
  <2>3. f \in Arms BY <2>1, LeastIn
  <2>4. QED BY <2>2, <2>3
<1>3. \A j \in Arms : u.arm[f].visits <= u.arm[j].visits
  <2> HIDE DEF value, f
  <2> QED BY <1>1, <1>2
<1>4. Oldest(u, Arms) \in Arms BY OldestIn, Sizes
<1>5. i \in (IF u.arm[f].visits < MinVisits THEN {f}
             ELSE IF u.windows - u.arm[Oldest(u, Arms)].last >= StaleWindows
                  THEN {Oldest(u, Arms)} ELSE Arms)
  BY DEF Search
<1>6. Covered(u) <=> ~(u.arm[f].visits < MinVisits)
  <2> HIDE DEF f, value
  <2>1. \A j \in Arms : u.arm[j].visits \in Nat BY DEF Tuner, Arm
  <2>2. QED BY <1>2, <1>3, <2>1, Sizes DEF Covered
<1>7. /\ u.windows \in Nat /\ u.arm[Oldest(u, Arms)].last \in Nat
  BY <1>4 DEF Tuner, Arm
<1>8. QED
  <2> HIDE DEF f, value
  <2> QED BY <1>2, <1>3, <1>4, <1>5, <1>6, <1>7, Sizes

(***************************************************************************)
(* What the steps of an observation leave alone                            *)
(***************************************************************************)
\* Two tuners that differ in their counts only.
SameArms(u, v) == v.arm = u.arm /\ v.windows = u.windows /\ v.current = u.current
SameState(u, v) == /\ v.best = u.best /\ v.settled = u.settled /\ v.stable = u.stable
                   /\ v.confirmed = u.confirmed /\ v.exploit = u.exploit

LEMMA EpochIn ==
  ASSUME NEW c \in Arms, NEW n \in Nat
  PROVE  /\ Epoch(c, n) \in Tuner
         /\ \A i \in Arms : Epoch(c, n).arm[i] = [visits |-> 0, last |-> 0, mean |-> 0]
         /\ Epoch(c, n).windows = n /\ Epoch(c, n).current = c
         /\ Epoch(c, n).best = c /\ ~Epoch(c, n).settled
         /\ Epoch(c, n).stable = 0 /\ Epoch(c, n).confirmed = 0
         /\ ~Covered(Epoch(c, n))
<1>1. NoVisits \in [Arms -> Arm] BY DEF NoVisits, Arm, Never
<1>2. \A i \in Arms : NoVisits[i] = [visits |-> 0, last |-> 0, mean |-> 0]
  BY DEF NoVisits, Never
<1>3. QED BY <1>1, <1>2, Sizes DEF Epoch, Tuner, Covered

LEMMA DriftedIn ==
  ASSUME NEW u \in Tuner, NEW sample \in Nat
  PROVE  LET d == Drifted(u, sample) IN
         /\ d \in Tuner /\ d.windows = u.windows /\ d.current = u.current
         /\ \/ d.arm = u.arm /\ SameState(u, d)
            \/ u.settled /\ d = Epoch(u.current, u.windows)
<1> DEFINE far   == Distance(sample, u.reference) * One > u.reference * DriftShare
           drift == IF far THEN u.drift + 1 ELSE 0
           more  == [u EXCEPT !.drift = drift]
<1>1. more \in Tuner /\ SameArms(u, more) /\ SameState(u, more)
  BY DEF Tuner, SameArms, SameState
<1>2. u.current \in Arms /\ u.windows \in Nat BY DEF Tuner
<1>3. Drifted(u, sample) \in {u, Epoch(u.current, u.windows), more}
  BY DEF Drifted
<1>4. CASE Drifted(u, sample) = u
  BY <1>4 DEF SameState
<1>5. CASE Drifted(u, sample) = more
  BY <1>5, <1>1 DEF SameArms
<1>6. CASE u.settled /\ Drifted(u, sample) = Epoch(u.current, u.windows)
  BY <1>6, <1>2, EpochIn
<1>7. ~u.settled => Drifted(u, sample) = u BY DEF Drifted
<1>8. QED BY <1>3, <1>4, <1>5, <1>6, <1>7

LEMMA CountedIn ==
  ASSUME NEW u \in Tuner, NEW m \in Nat
  PROVE  LET c == Counted(u, m) IN
         /\ c \in Tuner /\ c.windows = u.windows /\ c.current = u.current
         /\ SameState(u, c)
         /\ c.arm[u.current] = [visits |-> u.arm[u.current].visits + 1,
                                last |-> u.windows, mean |-> m]
         /\ \A i \in Arms \ {u.current} : c.arm[i] = u.arm[i]
         /\ u.current \in Visited(c)
<1> DEFINE a == [visits |-> u.arm[u.current].visits + 1, last |-> u.windows, mean |-> m]
<1>1. a \in Arm /\ u.current \in Arms /\ a.visits > 0
  BY DEF Tuner, Arm
<1>2. Counted(u, m) = [u EXCEPT !.arm = [u.arm EXCEPT ![u.current] = a]]
  BY DEF Counted
<1>3. u.arm \in [Arms -> Arm] BY DEF Tuner
<1>4. [u.arm EXCEPT ![u.current] = a] \in [Arms -> Arm] BY <1>1, <1>3
<1>5. Counted(u, m) \in Tuner /\ SameState(u, Counted(u, m))
      /\ Counted(u, m).arm = [u.arm EXCEPT ![u.current] = a]
      /\ Counted(u, m).windows = u.windows /\ Counted(u, m).current = u.current
  BY <1>2, <1>4 DEF Tuner, SameState
<1>6. QED BY <1>1, <1>3, <1>5 DEF Visited

(***************************************************************************)
(* The best arm                                                            *)
(***************************************************************************)
LEMMA Products ==
  ASSUME NEW a \in Nat, NEW b \in Nat, NEW n \in Nat, a <= b
  PROVE  a * n <= b * n
OBVIOUS

\* Nobody beats the best arm.
Unbeaten(u) == \A i \in Visited(u) : u.best \in Visited(u) /\ ~Beats(u, i)

LEMMA BestIn ==
  ASSUME NEW u \in Tuner, Visited(u) # {}
  PROVE  /\ Best(u) \in Visited(u)
         /\ \A v \in Tuner : v.arm = u.arm /\ v.best = Best(u) => Unbeaten(v)
<1> DEFINE value == [i \in Arms |-> u.arm[i].mean]
           least == Least(Visited(u), value)
<1>1. /\ Visited(u) \subseteq Arms
      /\ \A i \in Visited(u) : value[i] \in Nat /\ value[i] = u.arm[i].mean
  BY DEF Tuner, Arm, Visited
<1>2. least \in Visited(u) /\ \A j \in Visited(u) : u.arm[least].mean <= u.arm[j].mean
  <2> HIDE DEF value
  <2>1. \A i \in Visited(u) : value[i] \in Nat BY <1>1
  <2>2. \A j \in Visited(u) : \/ value[least] < value[j]
                              \/ value[least] = value[j] /\ least <= j
    BY <1>1, <2>1, LeastIn
  <2>3. least \in Visited(u) BY <1>1, <2>1, LeastIn
  <2>4. QED BY <1>1, <2>2, <2>3
<1>3. Best(u) = IF u.best \in Visited(u) /\ ~Beats(u, least) THEN u.best ELSE least
  BY DEF Best
<1>4. Best(u) \in Visited(u) BY <1>2, <1>3
<1>5. ASSUME NEW v \in Tuner, v.arm = u.arm, v.best = Best(u), NEW i \in Visited(v)
      PROVE  ~Beats(v, i)
  <2> HIDE DEF value, least
  <2>1. Visited(v) = Visited(u) BY <1>5 DEF Visited
  <2>2. /\ u.arm[least].mean \in Nat /\ u.arm[i].mean \in Nat
        /\ u.arm[Best(u)].mean \in Nat /\ u.arm[least].mean <= u.arm[i].mean
        /\ One \in Nat
    BY <1>1, <1>2, <1>4, <2>1, Sizes
  <2>3. CASE Best(u) = least
    BY <1>5, <2>2, <2>3 DEF Beats
  <2>4. CASE Best(u) = u.best /\ ~Beats(u, least)
    <3> DEFINE mb == u.arm[Best(u)].mean
               ml == u.arm[least].mean
               mi == u.arm[i].mean
    <3>1. SUFFICES ASSUME Beats(v, i) PROVE FALSE
      OBVIOUS
    <3>2. mb > mi /\ (mb - mi) * One > mb * Tolerance
      BY <1>5, <3>1 DEF Beats
    <3>3. mb > ml BY <2>2, <3>2
    <3>4. (mb - mi) * One <= (mb - ml) * One
      <4>1. mb - mi \in Nat /\ mb - ml \in Nat /\ mb - mi <= mb - ml
        BY <2>2, <3>2, <3>3
      <4>2. QED BY <4>1, <2>2, Products
    <3>5. (mb - ml) * One > mb * Tolerance
      <4>1. (mb - mi) * One \in Int /\ (mb - ml) * One \in Int /\ mb * Tolerance \in Int
        BY <2>2, Sizes
      <4> HIDE DEF mb, ml, mi
      <4>2. QED BY <4>1, <3>2, <3>4
    <3>6. QED BY <2>4, <3>3, <3>5 DEF Beats
  <2>5. QED BY <1>3, <2>3, <2>4
<1>6. ASSUME NEW v \in Tuner, v.arm = u.arm, v.best = Best(u)
      PROVE  Unbeaten(v)
  <2>1. Visited(v) = Visited(u) BY <1>6 DEF Visited
  <2>2. QED BY <1>4, <1>5, <1>6, <2>1 DEF Unbeaten
<1>7. QED BY <1>4, <1>6

\* What watgc_v2_update_best does to stability and settling.
Updated(u, v) ==
  /\ v \in Tuner /\ SameArms(u, v) /\ v.best = Best(u)
  /\ v.best = u.best => /\ v.stable = u.stable + 1
                        /\ v.confirmed = u.confirmed + (IF u.current = v.best THEN 1 ELSE 0)
                        /\ u.settled => v.settled /\ v.exploit = u.exploit
                        /\ ~u.settled /\ v.settled => v.exploit = 0
  /\ v.best # u.best => /\ v.stable = 0 /\ ~v.settled
                        /\ v.confirmed = (IF u.current = v.best THEN 1 ELSE 0)
  /\ ~u.settled /\ v.settled => /\ Covered(u) /\ v.stable >= StableWindows
                                /\ v.confirmed >= BestConfirmations

LEMMA UpdateBestIn ==
  ASSUME NEW u \in Tuner, Visited(u) # {}
  PROVE  Updated(u, UpdateBest(u))
<1> DEFINE c == Crowned(u)
           k == Confirmed(c)
           v == Settled(k)
<1>1. Best(u) \in Arms BY BestIn DEF Visited
<1>2. /\ c \in Tuner /\ SameArms(u, c) /\ c.best = Best(u)
      /\ c.best = u.best => /\ c.stable = u.stable + 1 /\ c.confirmed = u.confirmed
                            /\ c.settled = u.settled /\ c.exploit = u.exploit
      /\ c.best # u.best => c.stable = 0 /\ c.confirmed = 0 /\ c.settled = FALSE
  <2>1. CASE Best(u) = u.best
    BY <1>1, <2>1 DEF Crowned, Tuner, SameArms
  <2>2. CASE Best(u) # u.best
    BY <1>1, <2>2 DEF Crowned, Tuner, SameArms
  <2>3. QED BY <2>1, <2>2
<1>3. /\ k \in Tuner /\ SameArms(c, k) /\ k.best = c.best /\ k.stable = c.stable
      /\ k.settled = c.settled /\ k.exploit = c.exploit
      /\ k.confirmed = c.confirmed + (IF c.current = c.best THEN 1 ELSE 0)
  <2> HIDE DEF c
  <2> QED BY <1>2 DEF Confirmed, Tuner, SameArms
<1>4. /\ v \in Tuner /\ SameArms(k, v) /\ v.best = k.best /\ v.stable = k.stable
      /\ v.confirmed = k.confirmed
      /\ v = k \/ (/\ ~k.settled /\ v.settled /\ Covered(k) /\ v.stable >= StableWindows
                   /\ v.confirmed >= BestConfirmations /\ v.exploit = 0)
  <2> HIDE DEF k
  <2>1. k.arm[k.best].mean \in Nat BY <1>3 DEF Tuner, Arm
  <2>2. QED BY <1>3, <2>1 DEF Settled, Tuner, SameArms
<1>5. UpdateBest(u) = v BY DEF UpdateBest
<1>6. Covered(k) <=> Covered(u)
  <2> HIDE DEF k, c
  <2> QED BY <1>2, <1>3 DEF Covered, SameArms
<1>7. QED
  <2> HIDE DEF c, k, v
  <2> QED BY <1>2, <1>3, <1>4, <1>5, <1>6, Sizes DEF Updated, SameArms, Tuner

(***************************************************************************)
(* An observation                                                          *)
(***************************************************************************)
\* The window of u has been counted: v is the tuner after, and d what it was
\* once the drift had been looked at.
Observes(u, d, v) ==
  /\ d \in Tuner /\ d.windows = u.windows + 1 /\ d.current = u.current
  /\ \/ d.arm = u.arm /\ SameState(u, d)
     \/ u.settled /\ d = Epoch(u.current, u.windows + 1)
  /\ v \in Tuner /\ v.windows = u.windows + 1 /\ v.current = u.current
  /\ v.arm[u.current].visits = d.arm[u.current].visits + 1
  /\ v.arm[u.current].last = v.windows
  /\ \A i \in Arms \ {u.current} : v.arm[i] = d.arm[i]
  /\ Unbeaten(v)
  /\ Covered(d) =>
       /\ d.arm = u.arm /\ Covered(u) /\ Covered(v)
       /\ v.best = u.best => /\ v.stable = u.stable + 1
                             /\ v.confirmed = u.confirmed + (IF u.current = v.best THEN 1 ELSE 0)
                             /\ u.settled => v.settled /\ v.exploit = u.exploit
                             /\ ~u.settled /\ v.settled => v.exploit = 0
       /\ v.best # u.best => /\ v.stable = 0 /\ ~v.settled
                             /\ v.confirmed = (IF u.current = v.best THEN 1 ELSE 0)
       /\ ~u.settled /\ v.settled => /\ v.stable >= StableWindows
                                     /\ v.confirmed >= BestConfirmations
  /\ ~Covered(d) => /\ ~v.settled
                    /\ Covered(v) => v.stable = 0 /\ v.confirmed = 0

LEMMA RestartedIn ==
  ASSUME NEW u \in Tuner
  PROVE  /\ Restarted(u) \in Tuner /\ SameArms(u, Restarted(u))
         /\ Restarted(u).best = u.best /\ Restarted(u).settled = u.settled
         /\ Restarted(u).stable = 0 /\ Restarted(u).confirmed = 0
BY DEF Restarted, Tuner, SameArms

LEMMA ObservedIn ==
  ASSUME NEW u \in Tuner, NEW sample \in Nat, NEW m \in Nat, u.settled => Covered(u)
  PROVE  \E d \in Tuner : Observes(u, d, Observed(u, sample, m))
<1> DEFINE w == [u EXCEPT !.windows = @ + 1]
           d == Drifted(w, sample)
           c == Counted(d, m)
           r == Restarted(c)
           first == ~Covered(d) /\ Covered(c)
           v == Observed(u, sample, m)
<1>1. /\ w \in Tuner /\ w.arm = u.arm /\ w.current = u.current /\ w.windows = u.windows + 1
      /\ SameState(u, w) /\ w.settled = u.settled
  BY DEF Tuner, SameState
<1>2. /\ d \in Tuner /\ d.windows = u.windows + 1 /\ d.current = u.current
      /\ \/ d.arm = u.arm /\ SameState(u, d)
         \/ u.settled /\ d = Epoch(u.current, u.windows + 1)
  <2> HIDE DEF w
  <2> QED BY <1>1, DriftedIn DEF SameState
<1>3. /\ c \in Tuner /\ c.windows = u.windows + 1 /\ c.current = u.current
      /\ SameState(d, c)
      /\ c.arm[u.current].visits = d.arm[u.current].visits + 1
      /\ c.arm[u.current].last = u.windows + 1
      /\ \A i \in Arms \ {u.current} : c.arm[i] = d.arm[i]
      /\ Visited(c) # {}
  <2> HIDE DEF d
  <2>1. c.arm[d.current] = [visits |-> d.arm[d.current].visits + 1,
                            last |-> d.windows, mean |-> m]
    BY <1>2, CountedIn
  <2>2. QED BY <1>2, <2>1, CountedIn
<1>4. v = IF first THEN Restarted(UpdateBest(r)) ELSE UpdateBest(c)
  BY DEF Observed
<1>5. Covered(d) => d.arm = u.arm /\ SameState(u, d) /\ Covered(u)
  <2>1. u.current \in Arms /\ u.windows + 1 \in Nat BY DEF Tuner
  <2>2. ~Covered(Epoch(u.current, u.windows + 1)) BY <2>1, EpochIn
  <2>3. QED
    <3> HIDE DEF d
    <3> QED BY <1>2, <2>2 DEF Covered
<1>6. ~Covered(d) => ~d.settled
  <2>1. u.current \in Arms /\ u.windows + 1 \in Nat BY DEF Tuner
  <2>2. ~Epoch(u.current, u.windows + 1).settled BY <2>1, EpochIn
  <2>3. QED
    <3> HIDE DEF d
    <3> QED BY <1>2, <2>2 DEF Covered, SameState
<1>7. Covered(d) => Covered(c)
  <2> HIDE DEF d, c
  <2>1. u.current \in Arms /\ \A i \in Arms : d.arm[i].visits \in Nat
    BY <1>2 DEF Tuner, Arm
  <2>2. \A i \in Arms : c.arm[i].visits >= d.arm[i].visits
    <3>1. c.arm[u.current].visits >= d.arm[u.current].visits BY <1>3, <2>1
    <3>2. \A i \in Arms \ {u.current} : c.arm[i].visits >= d.arm[i].visits
      BY <1>3, <2>1
    <3>3. QED BY <3>1, <3>2
  <2>3. \A i \in Arms : c.arm[i].visits \in Nat
    BY <1>3 DEF Tuner, Arm
  <2>4. QED BY <2>1, <2>2, <2>3, Sizes DEF Covered
<1>8. CASE first
  <2> DEFINE b == UpdateBest(r)
  <2>1. /\ r \in Tuner /\ SameArms(c, r) /\ ~r.settled
        /\ r.stable = 0 /\ r.confirmed = 0
    <3> HIDE DEF c
    <3> QED BY <1>3, <1>6, <1>8, RestartedIn DEF SameState
  <2>2. Visited(r) # {}
    <3> HIDE DEF c, r
    <3> QED BY <1>3, <2>1 DEF Visited, SameArms
  <2>3. Updated(r, b)
    <3> HIDE DEF r
    <3> QED BY <2>1, <2>2, UpdateBestIn
  <2>4. ~b.settled
    <3> HIDE DEF r, b
    <3> QED BY <2>1, <2>3, Sizes DEF Updated
  <2>5. /\ v \in Tuner /\ SameArms(b, v) /\ v.best = Best(r) /\ ~v.settled
        /\ v.stable = 0 /\ v.confirmed = 0
    <3>1. b \in Tuner /\ b.best = Best(r)
      <4> HIDE DEF r, b
      <4> QED BY <2>3 DEF Updated
    <3>2. v = Restarted(b) BY <1>4, <1>8
    <3> HIDE DEF r, b, v
    <3>3. QED BY <2>4, <3>1, <3>2, RestartedIn
  <2>6. v.arm = r.arm /\ v.arm = c.arm /\ v.windows = c.windows /\ v.current = c.current
    <3> HIDE DEF r, b, c, v
    <3> QED BY <2>1, <2>3, <2>5 DEF Updated, SameArms
  <2>7. Unbeaten(v)
    <3> HIDE DEF r, v
    <3> QED BY <2>1, <2>2, <2>5, <2>6, BestIn
  <2>8. Observes(u, d, v)
    <3> HIDE DEF w, d, c, r, b, v
    <3> QED BY <1>2, <1>3, <1>8, <2>5, <2>6, <2>7 DEF Observes
  <2>9. QED BY <1>2, <2>8
<1>9. CASE ~first
  <2>1. Updated(c, v)
    <3> HIDE DEF c
    <3> QED BY <1>3, <1>4, <1>9, UpdateBestIn
  <2>2. Unbeaten(v)
    <3> HIDE DEF c, v
    <3> QED BY <1>3, <2>1, BestIn DEF Updated, SameArms
  <2>3. Covered(v) <=> Covered(c)
    <3> HIDE DEF c, v
    <3> QED BY <2>1 DEF Updated, SameArms, Covered
  <2>4. ~Covered(d) => ~v.settled /\ ~Covered(v)
    <3> HIDE DEF c, d, v
    <3> QED BY <1>3, <1>6, <1>9, <2>1, <2>3 DEF Updated, SameState
  <2>5. Covered(d) =>
       /\ d.arm = u.arm /\ Covered(u) /\ Covered(v)
       /\ v.best = u.best => /\ v.stable = u.stable + 1
                             /\ v.confirmed = u.confirmed + (IF u.current = v.best THEN 1 ELSE 0)
                             /\ u.settled => v.settled /\ v.exploit = u.exploit
                             /\ ~u.settled /\ v.settled => v.exploit = 0
       /\ v.best # u.best => /\ v.stable = 0 /\ ~v.settled
                             /\ v.confirmed = (IF u.current = v.best THEN 1 ELSE 0)
       /\ ~u.settled /\ v.settled => /\ v.stable >= StableWindows
                                     /\ v.confirmed >= BestConfirmations
    <3> HIDE DEF w, d, c, r, v
    <3>1. SUFFICES ASSUME Covered(d) PROVE
            /\ d.arm = u.arm /\ Covered(u) /\ Covered(v)
            /\ SameState(u, d) /\ SameState(d, c)
      BY <1>3, <2>1 DEF Updated, SameState
    <3>2. QED BY <1>3, <1>5, <1>7, <2>3, <3>1
  <2>6. v \in Tuner /\ v.arm = c.arm /\ v.windows = u.windows + 1 /\ v.current = u.current
    <3> HIDE DEF w, d, c, r, v
    <3> QED BY <1>3, <2>1 DEF Updated, SameArms
  <2>7. Observes(u, d, v)
    <3> HIDE DEF w, d, c, r, v
    <3> QED BY <1>2, <1>3, <2>2, <2>4, <2>5, <2>6 DEF Observes
  <2>8. QED BY <1>2, <2>7
<1>10. QED
  <2> HIDE DEF first, v
  <2> QED BY <1>8, <1>9

(***************************************************************************)
(* The choice of the next arm                                              *)
(***************************************************************************)
Chooses(v, w) ==
  /\ w \in Tuner /\ w.arm = v.arm /\ w.windows = v.windows /\ w.best = v.best
  /\ w.stable = v.stable /\ w.confirmed = v.confirmed /\ w.settled = v.settled
  /\ ~v.settled => w.current \in Search(v)
  /\ v.settled /\ v.current # v.best => w.current = v.best /\ w.exploit = 0
  /\ v.settled /\ v.current = v.best =>
       \/ v.exploit + 1 < ProbeEvery /\ w.current = v.best /\ w.exploit = v.exploit + 1
       \/ w.exploit = 0 /\ w.current = Oldest(v, Arms \ {v.best})

LEMMA OthersExist ==
  ASSUME NEW b \in Arms
  PROVE  Arms \ {b} # {} /\ Arms \ {b} \subseteq Arms
<1>1. 0 \in Arms /\ 1 \in Arms BY Sizes DEF Arms
<1>2. QED BY <1>1

LEMMA ChoicesIn ==
  ASSUME NEW v \in Tuner, NEW w \in Choices(v)
  PROVE  Chooses(v, w)
<1>1. v.best \in Arms BY DEF Tuner
<1>2. Oldest(v, Arms \ {v.best}) \in Arms
  BY <1>1, OthersExist, OldestIn
<1>3. CASE ~v.settled
  <2>1. PICK i \in Search(v) : w = [v EXCEPT !.current = i]
    BY <1>3 DEF Choices
  <2>2. i \in Arms BY SearchIn
  <2>3. QED BY <1>3, <2>1, <2>2 DEF Chooses, Tuner
<1>4. CASE v.settled /\ v.current # v.best
  <2>1. w = [v EXCEPT !.exploit = 0, !.current = v.best]
    BY <1>4 DEF Choices
  <2>2. QED BY <1>1, <1>4, <2>1 DEF Chooses, Tuner
<1>5. CASE v.settled /\ v.current = v.best
  <2>1. v.exploit \in Nat /\ ProbeEvery \in Nat BY Sizes DEF Tuner
  <2>2. CASE v.exploit + 1 >= ProbeEvery
    <3> DEFINE o == Oldest(v, Arms \ {v.best})
    <3>1. w = [v EXCEPT !.exploit = 0, !.current = o]
      BY <1>5, <2>2 DEF Choices
    <3>2. o \in Arms BY <1>2
    <3>3. QED
      <4> HIDE DEF o
      <4>1. /\ w \in Tuner /\ w.arm = v.arm /\ w.windows = v.windows /\ w.best = v.best
            /\ w.stable = v.stable /\ w.confirmed = v.confirmed /\ w.settled = v.settled
            /\ w.exploit = 0 /\ w.current = o
        BY <3>1, <3>2 DEF Tuner
      <4>2. QED BY <1>5, <4>1 DEF Chooses, o
  <2>3. CASE v.exploit + 1 < ProbeEvery
    <3>1. w = [v EXCEPT !.exploit = @ + 1]
      BY <1>5, <2>1, <2>3 DEF Choices
    <3>2. /\ w \in Tuner /\ w.arm = v.arm /\ w.windows = v.windows /\ w.best = v.best
          /\ w.stable = v.stable /\ w.confirmed = v.confirmed /\ w.settled = v.settled
          /\ w.exploit = v.exploit + 1 /\ w.current = v.current
      <4>1. v.exploit + 1 \in Nat BY <2>1
      <4>2. QED BY <3>1, <4>1 DEF Tuner
    <3>3. QED BY <1>5, <2>3, <3>2 DEF Chooses
  <2>4. QED BY <2>1, <2>2, <2>3
<1>6. QED BY <1>3, <1>4, <1>5

(***************************************************************************)
(* The inductive invariants                                                *)
(***************************************************************************)
\* The collections of a phase were done with the installed arm.
RanEnough == /\ phase = "burnin" => ran >= gcs
             /\ phase = "measure" => ran >= BurninGc + gcs

\* Before it is settled the tuner counts no more windows than were seen
\* since the arms were covered and the best one chosen.
SeenEnough ==
  /\ t.settled => /\ Covered(t)
                  /\ seen.all >= StableWindows /\ seen.best >= BestConfirmations
  /\ Covered(t) => seen.all >= t.stable /\ seen.best >= t.confirmed

\* How long ago the arm was visited, and how many of S are to be visited
\* before it.
Age(u, a)      == u.windows - u.arm[a].last
Ahead(u, a, S) == {b \in S : u.arm[b].last < u.arm[a].last}
Wait(u, a, S)  == Age(u, a) + Cardinality(Ahead(u, a, S)) * (ProbeEvery + 1)

\* The arms are filled evenly, in some order: k is the round.
Behind(u, a, k) == {b \in Arms : u.arm[b].visits = k + 1 /\ u.arm[b].last > u.arm[a].last}
Round(u, k) ==
  /\ u.arm[u.current].visits = k
  /\ \A a \in Arms : u.arm[a].visits \in {k, k + 1}
  /\ \A a \in Arms : u.arm[a].visits = k + 1 => Age(u, a) <= Cardinality(Behind(u, a, k))

Dated(u) ==
  /\ \A i \in Arms : u.arm[i].last <= u.windows
  /\ \A i, j \in Visited(u) : i # j => u.arm[i].last # u.arm[j].last

Others(u)    == Arms \ {u.best}
Filling(u)   == ~Covered(u) => ~u.settled /\ \E k \in 0 .. MinVisits - 1 : Round(u, k)
Searching(u) == Covered(u) /\ ~u.settled =>
                  u.current \in Search(u) /\ \A a \in Arms : Wait(u, a, Arms) <= Patience
\* While the best arm runs, the time to the next probe is to be added.
Exploiting(u) == u.settled /\ u.current = u.best =>
                   /\ u.exploit < ProbeEvery /\ Age(u, u.best) <= Patience
                   /\ \A a \in Others(u) :
                        Wait(u, a, Others(u)) + (ProbeEvery - u.exploit) <= Patience
Probing(u)    == u.settled /\ u.current # u.best =>
                   /\ u.current = Oldest(u, Others(u)) /\ Age(u, u.best) = 0
                   /\ \A a \in Others(u) : Wait(u, a, Others(u)) <= Patience

NoneForgotten(u) == Dated(u) /\ Filling(u) /\ Searching(u) /\ Exploiting(u) /\ Probing(u)

IInv == TypeOK /\ RanEnough /\ SeenEnough /\ Unbeaten(t) /\ NoneForgotten(t)

(***************************************************************************)
(* A step of the program                                                   *)
(***************************************************************************)
\* Observe counts the window of t: d is the tuner once the drift was looked
\* at, v once the best arm was chosen.
LEMMA ObserveIn ==
  ASSUME TypeOK, t.settled => Covered(t), NEW pages, Observe(pages)
  PROVE  \E d, v \in Tuner :
           /\ Observes(t, d, v) /\ Chooses(v, t')
           /\ seen' = SeenAfter(t') /\ Install(t')
<1>1. t \in Tuner BY DEF TypeOK
<1>2. PICK sample \in Wafs : \E m \in Means(Drifted(t, sample), sample) :
        \E u \in Choices(Observed(t, sample, m)) :
          t' = u /\ seen' = SeenAfter(u) /\ Install(u)
  BY DEF Observe
<1>2a. PICK m \in Means(Drifted(t, sample), sample) :
        \E u \in Choices(Observed(t, sample, m)) :
          t' = u /\ seen' = SeenAfter(u) /\ Install(u)
  BY <1>2
<1>3. sample \in Nat /\ m \in Nat BY Sizes DEF Means
<1> DEFINE v == Observed(t, sample, m)
<1>4. PICK d \in Tuner : Observes(t, d, v) BY <1>1, <1>3, ObservedIn
<1>5. v \in Tuner
  <2> HIDE DEF v
  <2> QED BY <1>4 DEF Observes
<1>6. t' \in Choices(v) /\ seen' = SeenAfter(t') /\ Install(t') BY <1>2a
<1>7. Chooses(v, t')
  <2> HIDE DEF v
  <2> QED BY <1>5, <1>6, ChoicesIn
<1>8. QED
  <2> HIDE DEF v
  <2> QED BY <1>4, <1>5, <1>6, <1>7

\* What a step does to the tuner and to what was seen of it.
LEMMA StepIn ==
  ASSUME TypeOK, t.settled => Covered(t), [OnGc]_vars
  PROVE  \/ UNCHANGED <<t, seen>>
         \/ \E d, v \in Tuner :
              /\ Observes(t, d, v) /\ Chooses(v, t') /\ seen' = SeenAfter(t')
<1>1. CASE OnGc
  BY <1>1, ObserveIn DEF OnGc, Warmup, NotReady, BurntIn, Discard
<1>2. CASE UNCHANGED vars
  BY <1>2 DEF vars
<1>3. QED BY <1>1, <1>2

LEMMA SeenAfterIn ==
  ASSUME TypeOK, NEW u \in Tuner
  PROVE  SeenAfter(u) \in [all : Nat, best : Nat]
BY DEF TypeOK, SeenAfter, Nothing

LEMMA TypeInductive ==
  ASSUME TypeOK, t.settled => Covered(t), [OnGc]_vars
  PROVE  TypeOK'
<1>1. t' \in Tuner /\ seen' \in [all : Nat, best : Nat]
  <2>1. CASE UNCHANGED <<t, seen>>
    BY <2>1 DEF TypeOK
  <2>2. ASSUME NEW d \in Tuner, NEW v \in Tuner,
               Observes(t, d, v), Chooses(v, t'), seen' = SeenAfter(t')
        PROVE  t' \in Tuner /\ seen' \in [all : Nat, best : Nat]
    <3>1. t' \in Tuner BY <2>2 DEF Chooses
    <3>2. QED BY <2>2, <3>1, SeenAfterIn
  <2>3. QED BY <2>1, <2>2, StepIn
<1> DEFINE Counts == /\ phase \in {"warmup", "burnin", "measure"}
                     /\ gcs \in Nat /\ host \in Nat /\ ran \in Nat
<1>2. Counts'
  <2>1. CASE Warmup
    BY <2>1 DEF Warmup, BeginPhase, TypeOK
  <2>2. ASSUME NEW pages \in HostPages, NEW late \in BOOLEAN, NotReady(pages, late)
        PROVE  Counts'
    <3>1. pages \in Nat BY <2>2, Sizes
    <3>2. QED BY <2>2, <3>1 DEF NotReady, BeginPhase, TypeOK
  <2>3. ASSUME NEW pages \in HostPages, BurntIn(pages) \/ Discard(pages)
        PROVE  Counts'
    BY <2>3 DEF BurntIn, Discard, BeginPhase, TypeOK
  <2>4. ASSUME NEW pages \in HostPages, Observe(pages)
        PROVE  Counts'
    BY <2>4 DEF Observe, Install, BeginPhase, TypeOK
  <2>5. CASE UNCHANGED vars
    BY <2>5 DEF vars, TypeOK
  <2>6. QED BY <2>1, <2>2, <2>3, <2>4, <2>5 DEF OnGc
<1>3. QED BY <1>1, <1>2 DEF TypeOK

LEMMA RanInductive ==
  ASSUME TypeOK, RanEnough, [OnGc]_vars
  PROVE  RanEnough'
<1>1. /\ gcs \in Nat /\ ran \in Nat /\ BurninGc \in Nat
      /\ phase \in {"warmup", "burnin", "measure"}
  BY Sizes DEF TypeOK
<1>2. CASE Warmup
  BY <1>1, <1>2 DEF Warmup, BeginPhase, RanEnough
<1>3. ASSUME NEW pages \in HostPages, NEW late \in BOOLEAN, NotReady(pages, late)
      PROVE  RanEnough'
  BY <1>1, <1>3 DEF NotReady, BeginPhase, RanEnough
<1>4. ASSUME NEW pages \in HostPages, BurntIn(pages)
      PROVE  RanEnough'
  BY <1>1, <1>4 DEF BurntIn, Ready, BeginPhase, RanEnough
<1>5. ASSUME NEW pages \in HostPages, Discard(pages)
      PROVE  RanEnough'
  BY <1>1, <1>5 DEF Discard, BeginPhase, RanEnough
<1>6. ASSUME NEW pages \in HostPages, Observe(pages)
      PROVE  RanEnough'
  <2>1. phase = "measure" /\ \E u \in {t'} : Install(u)
    BY <1>6 DEF Observe
  <2>2. QED BY <1>1, <2>1 DEF Install, BeginPhase, RanEnough
<1>7. CASE UNCHANGED vars
  BY <1>7 DEF vars, RanEnough
<1>8. QED BY <1>2, <1>3, <1>4, <1>5, <1>6, <1>7 DEF OnGc

LEMMA SeenInductive ==
  ASSUME TypeOK, SeenEnough, [OnGc]_vars
  PROVE  SeenEnough' /\ (Unbeaten(t) => Unbeaten(t)')
<1>1. CASE UNCHANGED <<t, seen>>
  BY <1>1 DEF SeenEnough, Covered, Unbeaten, Visited, Beats
<1>2. ASSUME NEW d \in Tuner, NEW v \in Tuner,
             Observes(t, d, v), Chooses(v, t'), seen' = SeenAfter(t')
      PROVE  SeenEnough' /\ Unbeaten(t)'
  <2>1. /\ t'.arm = v.arm /\ t'.best = v.best /\ t'.stable = v.stable
        /\ t'.confirmed = v.confirmed /\ t'.settled = v.settled /\ t' \in Tuner
    BY <1>2 DEF Chooses
  <2>2. Covered(t') <=> Covered(v) BY <2>1 DEF Covered
  <2>3. Unbeaten(t')
    <3>1. Unbeaten(v) BY <1>2 DEF Observes
    <3>2. QED BY <2>1, <3>1 DEF Unbeaten, Visited, Beats
  <2>4. /\ v.stable \in Nat /\ v.confirmed \in Nat /\ t.stable \in Nat
        /\ t.confirmed \in Nat /\ seen.all \in Nat /\ seen.best \in Nat
        /\ StableWindows \in Nat /\ BestConfirmations \in Nat
    BY Sizes DEF TypeOK, Tuner
  <2>5. CASE ~Covered(d)
    <3>1. ~v.settled /\ (Covered(v) => v.stable = 0 /\ v.confirmed = 0)
      BY <1>2, <2>5 DEF Observes
    <3>2. seen'.all \in Nat /\ seen'.best \in Nat
      BY <1>2, <2>1, SeenAfterIn
    <3>3. QED BY <2>1, <2>2, <2>3, <3>1, <3>2 DEF SeenEnough
  <2>6. CASE Covered(d)
    <3> DEFINE mine == IF t.current = v.best THEN 1 ELSE 0
    <3>1. /\ Covered(t) /\ Covered(v)
          /\ v.best = t.best => /\ v.stable = t.stable + 1
                                /\ v.confirmed = t.confirmed + mine
          /\ v.best # t.best => v.stable = 0 /\ ~v.settled /\ v.confirmed = mine
          /\ ~t.settled /\ v.settled => /\ v.stable >= StableWindows
                                        /\ v.confirmed >= BestConfirmations
      BY <1>2, <2>6 DEF Observes
    <3>2. seen' = IF v.best # t.best THEN [all |-> 0, best |-> mine]
                  ELSE [all |-> seen.all + 1, best |-> seen.best + mine]
      BY <1>2, <2>1, <2>2, <3>1 DEF SeenAfter
    <3>3. mine \in {0, 1} OBVIOUS
    <3> HIDE DEF mine
    <3>4. CASE v.best # t.best
      <4>1. seen'.all = 0 /\ seen'.best = mine BY <3>2, <3>4
      <4>2. QED BY <2>1, <2>2, <2>3, <3>1, <3>3, <3>4, <4>1 DEF SeenEnough
    <3>5. CASE v.best = t.best
      <4>1. seen'.all = seen.all + 1 /\ seen'.best = seen.best + mine
        BY <3>2, <3>5
      <4>2. seen'.all >= v.stable /\ seen'.best >= v.confirmed
        BY <2>4, <3>1, <3>3, <3>5, <4>1 DEF SeenEnough
      <4>3. v.settled => seen'.all >= StableWindows /\ seen'.best >= BestConfirmations
        BY <2>4, <3>1, <3>3, <4>1, <4>2 DEF SeenEnough
      <4>4. QED BY <2>1, <2>2, <2>3, <3>1, <4>2, <4>3 DEF SeenEnough
    <3>6. QED BY <3>4, <3>5
  <2>7. QED BY <2>5, <2>6
<1>3. t.settled => Covered(t) BY DEF SeenEnough
<1>4. QED BY <1>1, <1>2, <1>3, StepIn

(***************************************************************************)
(* Waiting for a visit                                                     *)
(***************************************************************************)
LEMMA Counts ==
  /\ IsFiniteSet(Arms) /\ Cardinality(Arms) = NrArms
  /\ \A S : S \subseteq Arms => IsFiniteSet(S) /\ Cardinality(S) \in Nat
  /\ \A a \in Arms : Cardinality(Arms \ {a}) = NrArms - 1
  /\ \A a, b \in Arms : a # b => Cardinality((Arms \ {a}) \ {b}) = NrArms - 2
<1>1. NrArms \in Nat BY Sizes
<1>2. IsFiniteSet(Arms) /\ Cardinality(Arms) = NrArms
  BY <1>1, FS_Interval DEF Arms
<1>3. ASSUME NEW S, S \subseteq Arms PROVE IsFiniteSet(S) /\ Cardinality(S) \in Nat
  BY <1>2, <1>3, FS_Subset, FS_CardinalityType
<1>4. ASSUME NEW a \in Arms PROVE Cardinality(Arms \ {a}) = NrArms - 1
  BY <1>2, FS_RemoveElement
<1>5. ASSUME NEW a \in Arms, NEW b \in Arms, a # b
      PROVE  Cardinality((Arms \ {a}) \ {b}) = NrArms - 2
  <2>1. b \in Arms \ {a} /\ IsFiniteSet(Arms \ {a}) BY <1>3, <1>5
  <2>2. Cardinality((Arms \ {a}) \ {b}) = Cardinality(Arms \ {a}) - 1
    BY <2>1, FS_RemoveElement
  <2>3. QED BY <1>1, <1>4, <2>2
<1>6. QED BY <1>2, <1>3, <1>4, <1>5

LEMMA Probe == ProbeEvery + 1 \in Nat /\ (NrArms - 1) * (ProbeEvery + 1) \in Nat /\ Patience \in Nat
<1>1. NrArms - 1 \in Nat /\ ProbeEvery + 1 \in Nat /\ StaleWindows \in Nat BY Sizes
<1>2. (NrArms - 1) * (ProbeEvery + 1) \in Nat BY <1>1
<1>3. QED BY <1>1, <1>2 DEF Patience

LEMMA AgeIn ==
  ASSUME NEW u \in Tuner, Dated(u), NEW a \in Arms
  PROVE  Age(u, a) \in Nat /\ u.arm[a].last \in Nat /\ u.windows \in Nat
<1>1. u.arm[a].last \in Nat /\ u.windows \in Nat /\ u.arm[a].last <= u.windows
  BY DEF Dated, Tuner, Arm
<1>2. QED BY <1>1 DEF Age

LEMMA WaitIn ==
  ASSUME NEW u \in Tuner, Dated(u), NEW a \in Arms, NEW S, S \subseteq Arms
  PROVE  /\ IsFiniteSet(Ahead(u, a, S)) /\ Cardinality(Ahead(u, a, S)) \in Nat
         /\ Cardinality(Ahead(u, a, S)) <= Cardinality(S \ {a})
         /\ Wait(u, a, S) \in Nat
<1>1. \A b \in Arms : u.arm[b].last \in Nat BY AgeIn
<1>2. Ahead(u, a, S) \subseteq S \ {a} BY <1>1 DEF Ahead
<1>3. S \ {a} \subseteq Arms /\ Ahead(u, a, S) \subseteq Arms BY <1>2
<1>4. /\ IsFiniteSet(S \ {a}) /\ IsFiniteSet(Ahead(u, a, S))
      /\ Cardinality(Ahead(u, a, S)) \in Nat
  BY <1>3, Counts
<1>5. Cardinality(Ahead(u, a, S)) <= Cardinality(S \ {a})
  BY <1>2, <1>4, FS_Subset
<1>6. Cardinality(Ahead(u, a, S)) * (ProbeEvery + 1) \in Nat
  BY <1>4, Probe
<1>7. Age(u, a) \in Nat BY AgeIn
<1>8. QED BY <1>4, <1>5, <1>6, <1>7 DEF Wait

\* Fewer to wait for.
LEMMA WaitLess ==
  ASSUME NEW u \in Tuner, Dated(u), NEW a \in Arms, NEW S, S \subseteq Arms,
         NEW T, T \subseteq S
  PROVE  Wait(u, a, T) <= Wait(u, a, S)
<1>1. Ahead(u, a, T) \subseteq Ahead(u, a, S) BY DEF Ahead
<1>2. T \subseteq Arms OBVIOUS
<1>3. /\ IsFiniteSet(Ahead(u, a, S)) /\ Cardinality(Ahead(u, a, S)) \in Nat
      /\ Cardinality(Ahead(u, a, T)) \in Nat
  BY <1>2, WaitIn
<1>4. Cardinality(Ahead(u, a, T)) <= Cardinality(Ahead(u, a, S))
  BY <1>1, <1>3, FS_Subset
<1>5. Cardinality(Ahead(u, a, T)) * (ProbeEvery + 1) <= Cardinality(Ahead(u, a, S)) * (ProbeEvery + 1)
  BY <1>3, <1>4, Products, Probe
<1>6. QED BY <1>3, <1>5, AgeIn, Probe DEF Wait

LEMMA OneLess ==
  ASSUME NEW n \in Nat, NEW q \in Nat
  PROVE  (n - 1) * q = n * q - q
OBVIOUS

\* Without one that is ahead.
LEMMA WaitWithout ==
  ASSUME NEW u \in Tuner, Dated(u), NEW a \in Arms, NEW S, S \subseteq Arms,
         NEW c \in S, u.arm[c].last < u.arm[a].last
  PROVE  Wait(u, a, S \ {c}) = Wait(u, a, S) - (ProbeEvery + 1)
<1>1. Ahead(u, a, S \ {c}) = Ahead(u, a, S) \ {c} /\ c \in Ahead(u, a, S) BY DEF Ahead
<1>2. IsFiniteSet(Ahead(u, a, S)) /\ Cardinality(Ahead(u, a, S)) \in Nat BY WaitIn
<1>3. Cardinality(Ahead(u, a, S \ {c})) = Cardinality(Ahead(u, a, S)) - 1
  BY <1>1, <1>2, FS_RemoveElement
<1> DEFINE n == Cardinality(Ahead(u, a, S))
           q == ProbeEvery + 1
<1>4. (n - 1) * q = n * q - q
  <2>1. n \in Nat /\ q \in Nat BY <1>2, Probe
  <2> HIDE DEF n, q
  <2> QED BY <2>1, OneLess
<1>5. n * q \in Nat /\ q \in Nat
  <2>1. n \in Nat /\ q \in Nat BY <1>2, Probe
  <2> HIDE DEF n, q
  <2> QED BY <2>1
<1>6. Wait(u, a, S) = Age(u, a) + n * q /\ Wait(u, a, S \ {c}) = Age(u, a) + (n - 1) * q
  BY <1>3 DEF Wait
<1>7. Age(u, a) \in Nat BY AgeIn
<1>8. QED
  <2>1. Wait(u, a, S \ {c}) = Wait(u, a, S) - q
    <3> HIDE DEF n, q
    <3> QED BY <1>4, <1>5, <1>6, <1>7
  <2>2. QED BY <2>1

\* The current arm of u is visited: v is the tuner after.
Serves(u, v) ==
  /\ v.windows = u.windows + 1 /\ v.arm[u.current].last = v.windows
  /\ \A i \in Arms \ {u.current} : v.arm[i] = u.arm[i]

LEMMA WaitServed ==
  ASSUME NEW u \in Tuner, NEW v \in Tuner, Dated(u), Serves(u, v),
         NEW a \in Arms \ {u.current}, NEW S, S \subseteq Arms
  PROVE  Wait(v, a, S) = Wait(u, a, S \ {u.current}) + 1
<1>1. \A b \in Arms : Age(u, b) \in Nat /\ u.arm[b].last \in Nat /\ u.arm[b].last <= u.windows
  BY AgeIn DEF Dated
<1>2. u.current \in Arms /\ u.windows \in Nat BY DEF Tuner
<1>3. v.arm[a].last = u.arm[a].last /\ v.arm[u.current].last = u.windows + 1
  BY DEF Serves
<1>4. Ahead(v, a, S) \subseteq Ahead(u, a, S \ {u.current})
  <2>1. SUFFICES ASSUME NEW b \in S, v.arm[b].last < v.arm[a].last
                 PROVE  b # u.current /\ u.arm[b].last < u.arm[a].last
    BY DEF Ahead
  <2>2. b # u.current BY <1>1, <1>2, <1>3, <2>1
  <2>3. QED BY <1>3, <2>1, <2>2 DEF Serves
<1>5. Ahead(u, a, S \ {u.current}) \subseteq Ahead(v, a, S)
  BY <1>3 DEF Ahead, Serves
<1>6. Age(v, a) = Age(u, a) + 1
  BY <1>1, <1>2, <1>3 DEF Age, Serves
<1>7. Ahead(v, a, S) = Ahead(u, a, S \ {u.current})
  BY <1>4, <1>5, Zenon
<1>8. S \ {u.current} \subseteq Arms OBVIOUS
<1>9. Cardinality(Ahead(u, a, S \ {u.current})) \in Nat
  BY <1>8, WaitIn
<1>10. Cardinality(Ahead(u, a, S \ {u.current})) * (ProbeEvery + 1) \in Nat
  BY <1>9, Probe
<1>11. QED BY <1>1, <1>6, <1>7, <1>10 DEF Wait

LEMMA DatedServed ==
  ASSUME NEW u \in Tuner, NEW v \in Tuner, Dated(u), Serves(u, v)
  PROVE  Dated(v) /\ Age(v, u.current) = 0
<1>1. \A b \in Arms : u.arm[b].last \in Nat /\ u.arm[b].last <= u.windows
  BY AgeIn DEF Dated
<1>2. u.current \in Arms /\ u.windows \in Nat BY DEF Tuner
<1>3. \A b \in Arms \ {u.current} : v.arm[b].last = u.arm[b].last /\ v.arm[b].last < v.windows
  BY <1>1, <1>2 DEF Serves
<1>4. v.windows \in Nat /\ v.arm[u.current].last = v.windows
  BY <1>2 DEF Serves
<1>5. ASSUME NEW i \in Visited(v), NEW j \in Visited(v), i # j
      PROVE  v.arm[i].last # v.arm[j].last
  <2>1. CASE i = u.current
    BY <1>3, <1>4, <1>5, <2>1 DEF Visited
  <2>2. CASE j = u.current
    BY <1>3, <1>4, <1>5, <2>2 DEF Visited
  <2>3. CASE i # u.current /\ j # u.current
    <3>1. i \in Visited(u) /\ j \in Visited(u)
      BY <1>5, <2>3 DEF Visited, Serves
    <3>2. u.arm[i].last # u.arm[j].last BY <1>5, <3>1 DEF Dated
    <3>3. QED BY <1>3, <1>5, <2>3, <3>2 DEF Visited
  <2>4. QED BY <2>1, <2>2, <2>3
<1>6. \A i \in Arms : v.arm[i].last <= v.windows
  BY <1>3, <1>4, <1>1
<1>7. QED BY <1>4, <1>5, <1>6 DEF Dated, Age

\* Of the arm just visited.
LEMMA WaitLast ==
  ASSUME NEW u \in Tuner, Dated(u), NEW a \in Arms, Age(u, a) <= 1
  PROVE  /\ Wait(u, a, Arms) <= Patience
         /\ \A b \in Arms \ {a} : Wait(u, a, Arms \ {b}) + ProbeEvery <= Patience
<1> DEFINE q == ProbeEvery + 1
<1>1. q \in Nat /\ NrArms - 1 \in Nat /\ NrArms - 2 \in Nat /\ q >= 1
  BY Sizes
<1>2. Age(u, a) \in Nat BY AgeIn
<1>3. Wait(u, a, Arms) <= 1 + (NrArms - 1) * q
  <2>1. Cardinality(Arms \ {a}) = NrArms - 1 BY Counts
  <2>2. Cardinality(Ahead(u, a, Arms)) \in Nat /\ Cardinality(Ahead(u, a, Arms)) <= NrArms - 1
    BY <2>1, WaitIn
  <2>3. Cardinality(Ahead(u, a, Arms)) * q <= (NrArms - 1) * q
    <3> HIDE DEF q
    <3> QED BY <1>1, <2>2, Products
  <2>4. Wait(u, a, Arms) = Age(u, a) + Cardinality(Ahead(u, a, Arms)) * q BY DEF Wait
  <2>5. Cardinality(Ahead(u, a, Arms)) * q \in Nat /\ (NrArms - 1) * q \in Nat
    <3> HIDE DEF q
    <3> QED BY <1>1, <2>2
  <2>6. QED
    <3> HIDE DEF q
    <3> QED BY <1>2, <2>3, <2>4, <2>5
<1>4. ASSUME NEW b \in Arms \ {a}
      PROVE  Wait(u, a, Arms \ {b}) <= 1 + (NrArms - 2) * q
  <2>1. Cardinality((Arms \ {b}) \ {a}) = NrArms - 2 BY Counts
  <2>2. /\ Cardinality(Ahead(u, a, Arms \ {b})) \in Nat
        /\ Cardinality(Ahead(u, a, Arms \ {b})) <= NrArms - 2
    <3>1. Arms \ {b} \subseteq Arms OBVIOUS
    <3>2. QED BY <2>1, <3>1, WaitIn
  <2>3. Cardinality(Ahead(u, a, Arms \ {b})) * q <= (NrArms - 2) * q
    <3> HIDE DEF q
    <3> QED BY <1>1, <2>2, Products
  <2>4. Wait(u, a, Arms \ {b}) = Age(u, a) + Cardinality(Ahead(u, a, Arms \ {b})) * q BY DEF Wait
  <2>5. Cardinality(Ahead(u, a, Arms \ {b})) * q \in Nat /\ (NrArms - 2) * q \in Nat
    <3> HIDE DEF q
    <3> QED BY <1>1, <2>2
  <2>6. QED
    <3> HIDE DEF q
    <3> QED BY <1>2, <2>3, <2>4, <2>5
<1>5. (NrArms - 2) * q = (NrArms - 1) * q - q
  <2>1. \A n \in Nat, k \in Nat : (n - 1) * k = n * k - k BY OneLess
  <2>2. (NrArms - 1) - 1 = NrArms - 2 BY Sizes
  <2> HIDE DEF q
  <2>3. ((NrArms - 1) - 1) * q = (NrArms - 1) * q - q BY <1>1, <2>1
  <2>4. QED BY <2>2, <2>3
<1>6. Patience = StaleWindows + (NrArms - 1) * q BY DEF Patience
<1>7. (NrArms - 1) * q \in Nat /\ StaleWindows \in Nat /\ StaleWindows >= 1
  BY Sizes, Probe
<1>8. Wait(u, a, Arms) \in Nat /\ \A b \in Arms \ {a} : Wait(u, a, Arms \ {b}) \in Nat
  <2>1. Arms \subseteq Arms /\ \A b \in Arms \ {a} : Arms \ {b} \subseteq Arms OBVIOUS
  <2>2. QED BY <2>1, WaitIn
<1>9. Wait(u, a, Arms) <= Patience
  <2> HIDE DEF q
  <2> QED BY <1>3, <1>6, <1>7, <1>8
<1>10. ASSUME NEW b \in Arms \ {a}
       PROVE  Wait(u, a, Arms \ {b}) + ProbeEvery <= Patience
  <2>1. Wait(u, a, Arms \ {b}) <= 1 + ((NrArms - 1) * q - q) BY <1>4, <1>5
  <2>2. Wait(u, a, Arms \ {b}) \in Nat BY <1>8
  <2>3. q = ProbeEvery + 1 /\ ProbeEvery \in Nat BY Sizes
  <2> HIDE DEF q
  <2>4. QED BY <1>1, <1>6, <1>7, <2>1, <2>2, <2>3
<1>11. QED BY <1>9, <1>10

\* What the choice of the next arm leaves as it was.
LEMMA SameWait ==
  ASSUME NEW v \in Tuner, NEW w, Chooses(v, w)
  PROVE  /\ \A a, S : Wait(w, a, S) = Wait(v, a, S)
         /\ \A a : Age(w, a) = Age(v, a)
         /\ Search(w) = Search(v) /\ \A S : Oldest(w, S) = Oldest(v, S)
         /\ (Covered(w) <=> Covered(v)) /\ Others(w) = Others(v)
         /\ Dated(v) => Dated(w)
<1>1. w.arm = v.arm /\ w.windows = v.windows /\ w.best = v.best
  BY DEF Chooses
<1>2. /\ \A a : Age(w, a) = Age(v, a) /\ \A S : Ahead(w, a, S) = Ahead(v, a, S)
      /\ \A S : Oldest(w, S) = Oldest(v, S)
  BY <1>1 DEF Age, Ahead, Oldest
<1>3. Search(w) = Search(v)
  <2> DEFINE f(x) == Least(Arms, [i \in Arms |-> x.arm[i].visits])
             g(x) == IF x.arm[f(x)].visits < MinVisits THEN {f(x)}
                     ELSE IF x.windows - x.arm[Oldest(x, Arms)].last >= StaleWindows
                          THEN {Oldest(x, Arms)} ELSE Arms
  <2>1. f(w) = f(v) BY <1>1
  <2>2. Search(w) = g(w) /\ Search(v) = g(v) BY DEF Search
  <2>3. g(w) = g(v)
    <3> HIDE DEF f
    <3> QED BY <1>1, <1>2, <2>1
  <2>4. QED BY <2>2, <2>3
<1>4. QED BY <1>1, <1>2, <1>3 DEF Wait, Covered, Others, Dated, Visited

(***************************************************************************)
(* Before all arms are covered                                             *)
(***************************************************************************)
LEMMA EpochFresh ==
  ASSUME NEW c \in Arms, NEW n \in Nat
  PROVE  NoneForgotten(Epoch(c, n))
<1> DEFINE u == Epoch(c, n)
<1>1. /\ \A i \in Arms : u.arm[i].visits = 0 /\ u.arm[i].last = 0
      /\ u.windows = n /\ u.current = c /\ ~u.settled /\ ~Covered(u)
  BY EpochIn
<1>2. Dated(u) /\ Round(u, 0)
  <2> HIDE DEF u
  <2> QED BY <1>1 DEF Dated, Round, Visited
<1>3. 0 \in 0 .. MinVisits - 1 BY Sizes
<1>4. NoneForgotten(u)
  <2> HIDE DEF u
  <2> QED BY <1>1, <1>2, <1>3 DEF NoneForgotten, Filling, Searching, Exploiting, Probing
<1>5. QED BY <1>4

\* v is the tuner after the current arm, one of the k-th round, was visited.
LEMMA RoundServed ==
  ASSUME NEW u \in Tuner, NEW v \in Tuner, Dated(u), Serves(u, v),
         v.arm[u.current].visits = u.arm[u.current].visits + 1,
         NEW k \in Nat, Round(u, k)
  PROVE  /\ v.arm[u.current].visits = k + 1
         /\ \A a \in Arms : v.arm[a].visits \in {k, k + 1}
         /\ \A a \in Arms : v.arm[a].visits = k + 1 => Age(v, a) <= Cardinality(Behind(v, a, k))
<1> DEFINE c == u.current
<1>1. c \in Arms /\ u.arm[c].visits = k /\ v.arm[c].visits = k + 1
  BY DEF Tuner, Round
<1>2. \A a \in Arms \ {c} : v.arm[a] = u.arm[a] BY DEF Serves
<1>3. \A a \in Arms : v.arm[a].visits \in {k, k + 1}
  BY <1>1, <1>2 DEF Round
<1>4. \A a \in Arms : Behind(v, a, k) \subseteq Arms /\ Cardinality(Behind(v, a, k)) \in Nat
  BY Counts DEF Behind
<1>5. Age(v, c) = 0 BY DatedServed
<1>6. ASSUME NEW a \in Arms \ {c}, v.arm[a].visits = k + 1
      PROVE  Age(v, a) <= Cardinality(Behind(v, a, k))
  <2>1. u.arm[a].visits = k + 1 /\ Age(u, a) <= Cardinality(Behind(u, a, k))
    BY <1>2, <1>6 DEF Round
  <2>2. /\ u.arm[a].last \in Nat /\ u.arm[a].last <= u.windows /\ u.windows \in Nat
        /\ Age(u, a) \in Nat
    BY AgeIn DEF Dated
  <2>3. v.windows = u.windows + 1 /\ v.arm[c].last = u.windows + 1 BY DEF Serves
  <2>4. Age(v, a) = Age(u, a) + 1 BY <1>2, <2>2, <2>3 DEF Age
  <2>5. c \in Behind(v, a, k) BY <1>1, <1>2, <2>2, <2>3 DEF Behind
  <2>6. c \notin Behind(u, a, k) BY <1>1 DEF Behind
  <2>7. Behind(u, a, k) \subseteq Behind(v, a, k)
    <3>1. SUFFICES ASSUME NEW b \in Behind(u, a, k) PROVE b \in Behind(v, a, k)
      OBVIOUS
    <3>2. b \in Arms \ {c} BY <2>6 DEF Behind
    <3>3. QED BY <1>2, <3>1, <3>2 DEF Behind
  <2>8. Behind(u, a, k) \cup {c} \subseteq Behind(v, a, k) BY <2>5, <2>7
  <2>9. IsFiniteSet(Behind(u, a, k)) /\ IsFiniteSet(Behind(v, a, k))
        /\ Cardinality(Behind(u, a, k)) \in Nat
    <3>1. Behind(u, a, k) \subseteq Arms /\ Behind(v, a, k) \subseteq Arms BY DEF Behind
    <3>2. QED BY <3>1, Counts
  <2>10. Cardinality(Behind(u, a, k) \cup {c}) = Cardinality(Behind(u, a, k)) + 1
    BY <2>6, <2>9, FS_AddElement
  <2>11. Cardinality(Behind(u, a, k) \cup {c}) <= Cardinality(Behind(v, a, k))
    BY <2>8, <2>9, FS_Subset
  <2>12. QED BY <1>4, <2>1, <2>2, <2>4, <2>9, <2>10, <2>11
<1>7. QED BY <1>1, <1>3, <1>4, <1>5, <1>6

LEMMA Mixed ==
  ASSUME NEW n \in Nat, NEW r \in Nat, NEW q \in Nat, r <= n, q >= 1
  PROVE  (n - r) + r * q <= n * q
<1>1. n - r \in Nat BY SMT
<1>2. 1 * (n - r) <= q * (n - r) BY <1>1, Products
<1>3. 1 * (n - r) = n - r /\ q * (n - r) = n * q - r * q BY <1>1
<1>4. n * q \in Nat /\ r * q \in Nat OBVIOUS
<1>5. QED BY <1>1, <1>2, <1>3, <1>4

\* The round that covers all arms leaves none waiting for too long.
LEMMA RoundOver ==
  ASSUME NEW v \in Tuner, Dated(v), NEW k \in Nat, NEW a \in Arms,
         Age(v, a) <= Cardinality(Behind(v, a, k))
  PROVE  Wait(v, a, Arms) <= Patience
<1> DEFINE B == Behind(v, a, k)
           A == Ahead(v, a, Arms)
<1>1. A \cap B = {} /\ a \notin A /\ a \notin B /\ A \subseteq Arms /\ B \subseteq Arms
  <2>1. \A b \in Arms : v.arm[b].last \in Nat BY AgeIn
  <2>2. QED BY <2>1 DEF Ahead, Behind
<1>2. /\ IsFiniteSet(A) /\ IsFiniteSet(B) /\ IsFiniteSet(Arms \ {a})
      /\ Cardinality(A) \in Nat /\ Cardinality(B) \in Nat
      /\ Cardinality(Arms \ {a}) = NrArms - 1
  <2> HIDE DEF A, B
  <2>1. Arms \ {a} \subseteq Arms OBVIOUS
  <2>2. QED BY <1>1, <2>1, Counts
<1>3. Cardinality(A \cup B) = Cardinality(A) + Cardinality(B)
  <2> HIDE DEF A, B
  <2>1. Cardinality(A \cap B) = 0 BY <1>1, FS_EmptySet
  <2>2. Cardinality(A \cup B) = Cardinality(A) + Cardinality(B) - Cardinality(A \cap B)
    BY <1>2, FS_Union
  <2>3. QED BY <1>2, <2>1, <2>2
<1>4. Cardinality(A \cup B) <= NrArms - 1
  <2> HIDE DEF A, B
  <2>1. A \cup B \subseteq Arms \ {a} BY <1>1
  <2>2. QED BY <1>2, <2>1, FS_Subset
<1>5. NrArms - 1 \in Nat /\ ProbeEvery + 1 \in Nat /\ ProbeEvery + 1 >= 1
      /\ StaleWindows \in Nat
  BY Sizes
<1>6. Cardinality(A) <= NrArms - 1 /\ Age(v, a) <= (NrArms - 1) - Cardinality(A)
      /\ Age(v, a) \in Nat
  <2>1. Age(v, a) \in Nat /\ Age(v, a) <= Cardinality(B) BY AgeIn
  <2> HIDE DEF A, B
  <2>2. QED BY <1>2, <1>3, <1>4, <1>5, <2>1
<1>7. ((NrArms - 1) - Cardinality(A)) + Cardinality(A) * (ProbeEvery + 1)
        <= (NrArms - 1) * (ProbeEvery + 1)
  <2> HIDE DEF A
  <2> QED BY <1>2, <1>5, <1>6, Mixed
<1>8. Wait(v, a, Arms) = Age(v, a) + Cardinality(A) * (ProbeEvery + 1) BY DEF Wait
<1>9. Cardinality(A) * (ProbeEvery + 1) \in Nat /\ (NrArms - 1) * (ProbeEvery + 1) \in Nat
  <2> HIDE DEF A
  <2> QED BY <1>2, Probe
<1>10. QED
  <2> HIDE DEF A
  <2> QED BY <1>2, <1>5, <1>6, <1>7, <1>8, <1>9 DEF Patience

LEMMA FillingNext ==
  ASSUME NEW u \in Tuner, Dated(u), NEW k \in 0 .. MinVisits - 1, Round(u, k),
         NEW v \in Tuner, Serves(u, v), ~v.settled,
         v.arm[u.current].visits = u.arm[u.current].visits + 1,
         NEW w, Chooses(v, w)
  PROVE  NoneForgotten(w)
<1>1. k \in Nat /\ k < MinVisits BY Sizes
<1>2. /\ \A a \in Arms : v.arm[a].visits \in {k, k + 1}
      /\ \A a \in Arms : v.arm[a].visits = k + 1 => Age(v, a) <= Cardinality(Behind(v, a, k))
  BY <1>1, RoundServed
<1>3. Dated(v) BY DatedServed
<1>4. w.arm = v.arm /\ w.windows = v.windows /\ ~w.settled /\ w.current \in Search(v)
  BY DEF Chooses
<1>5. w.current \in Arms BY <1>4, SearchIn
<1>6. Searching(w)
  <2>1. SUFFICES ASSUME Covered(v)
                 PROVE  w.current \in Search(w) /\ \A a \in Arms : Wait(w, a, Arms) <= Patience
    BY SameWait DEF Searching
  <2>2. \A a \in Arms : v.arm[a].visits = k + 1
    BY <1>1, <1>2, <2>1, Sizes DEF Covered
  <2>3. \A a \in Arms : Wait(v, a, Arms) <= Patience
    BY <1>1, <1>2, <1>3, <2>2, RoundOver
  <2>4. QED BY <1>4, <2>3, SameWait
<1>7. Filling(w)
  <2>1. SUFFICES ASSUME ~Covered(v)
                 PROVE  \E n \in 0 .. MinVisits - 1 : Round(w, n)
    BY <1>4, SameWait DEF Filling
  <2>2. \A j \in Arms : v.arm[w.current].visits <= v.arm[j].visits
    BY <1>4, <2>1, SearchIn
  <2>3. v.arm[w.current].visits < MinVisits BY <1>4, <2>1, SearchIn
  <2>4. CASE v.arm[w.current].visits = k
    <3>1. \A a \in Arms : Behind(w, a, k) = Behind(v, a, k) /\ Age(w, a) = Age(v, a)
      BY <1>4 DEF Behind, Age
    <3>2. Round(w, k) BY <1>2, <1>4, <2>4, <3>1 DEF Round
    <3>3. QED BY <3>2
  <2>5. CASE v.arm[w.current].visits = k + 1
    <3>1. \A a \in Arms : v.arm[a].visits = k + 1 BY <1>1, <1>2, <2>2, <2>5
    <3>2. Round(w, k + 1) BY <1>1, <1>4, <2>5, <3>1 DEF Round
    <3>3. k + 1 \in 0 .. MinVisits - 1 BY <1>1, <2>3, <2>5, Sizes
    <3>4. QED BY <3>2, <3>3
  <2>6. QED BY <1>2, <1>5, <2>4, <2>5
<1>8. QED BY <1>3, <1>4, <1>6, <1>7, SameWait DEF NoneForgotten, Exploiting, Probing

(***************************************************************************)
(* Once all arms are covered: the choice of the next arm                   *)
(***************************************************************************)
LEMMA NextSearch ==
  ASSUME NEW v \in Tuner, NEW w, Chooses(v, w), Dated(v), Covered(v), ~v.settled,
         \A a \in Arms : Wait(v, a, Arms) <= Patience
  PROVE  NoneForgotten(w)
<1>1. ~w.settled /\ w.current \in Search(v) BY DEF Chooses
<1>2. QED BY <1>1, SameWait DEF NoneForgotten, Filling, Searching, Exploiting, Probing

LEMMA NextReturn ==
  ASSUME NEW v \in Tuner, NEW w, Chooses(v, w), Dated(v), Covered(v),
         v.settled, v.current # v.best, Age(v, v.best) <= Patience,
         \A a \in Others(v) : Wait(v, a, Others(v)) + ProbeEvery <= Patience
  PROVE  NoneForgotten(w)
<1>1. w.settled /\ w.current = v.best /\ w.best = v.best /\ w.exploit = 0
  BY DEF Chooses
<1>2. ProbeEvery - 0 = ProbeEvery /\ 0 < ProbeEvery BY Sizes
<1>3. Exploiting(w)
  BY <1>1, <1>2, SameWait DEF Exploiting
<1>4. QED BY <1>1, <1>3, SameWait DEF NoneForgotten, Filling, Searching, Probing

LEMMA NextExploit ==
  ASSUME NEW v \in Tuner, NEW w, Chooses(v, w), Dated(v), Covered(v),
         v.settled, v.current = v.best, v.exploit < ProbeEvery, Age(v, v.best) = 0,
         \A a \in Others(v) : Wait(v, a, Others(v)) + (ProbeEvery - v.exploit) <= Patience + 1
  PROVE  NoneForgotten(w)
<1>1. w.settled /\ w.best = v.best
      /\ \/ v.exploit + 1 < ProbeEvery /\ w.current = v.best /\ w.exploit = v.exploit + 1
         \/ w.exploit = 0 /\ w.current = Oldest(v, Others(v))
  BY DEF Chooses, Others
<1>2. v.exploit \in Nat /\ ProbeEvery \in Nat /\ Patience \in Nat /\ v.best \in Arms
  BY Sizes, Probe DEF Tuner
<1>3. \A a \in Others(v) : Wait(v, a, Others(v)) \in Nat
  <2>1. Others(v) \subseteq Arms BY DEF Others
  <2>2. QED BY <2>1, WaitIn
<1>4. CASE v.exploit + 1 < ProbeEvery /\ w.current = v.best /\ w.exploit = v.exploit + 1
  <2>1. \A a \in Others(v) : Wait(v, a, Others(v)) + (ProbeEvery - w.exploit) <= Patience
    BY <1>2, <1>3, <1>4
  <2>2. Exploiting(w)
    BY <1>1, <1>2, <1>4, <2>1, SameWait DEF Exploiting
  <2>3. QED BY <1>1, <1>4, <2>2, SameWait DEF NoneForgotten, Filling, Searching, Probing
<1>5. CASE w.exploit = 0 /\ w.current = Oldest(v, Others(v))
  <2>1. w.current # w.best
    BY <1>1, <1>2, <1>5, OldestIn, OthersExist DEF Others
  <2>2. \A a \in Others(v) : Wait(v, a, Others(v)) <= Patience
    BY <1>2, <1>3
  <2>3. Probing(w)
    BY <1>1, <1>5, <2>1, <2>2, SameWait DEF Probing
  <2>4. QED BY <1>1, <2>1, <2>3, SameWait DEF NoneForgotten, Filling, Searching, Exploiting
<1>6. QED BY <1>1, <1>4, <1>5

(***************************************************************************)
(* Once all arms are covered: the visit                                    *)
(***************************************************************************)
\* Arms are visited one in a window.
LEMMA AheadOfIt ==
  ASSUME NEW u \in Tuner, Dated(u), Covered(u), NEW a \in Arms
  PROVE  Age(u, a) + Cardinality(Ahead(u, a, Arms)) <= Age(u, Oldest(u, Arms))
<1> DEFINE o == Oldest(u, Arms)
           A == Ahead(u, a, Arms)
           f == [b \in A |-> u.arm[b].last]
           I == u.arm[o].last .. u.arm[a].last - 1
<1>1. o \in Arms /\ \A b \in Arms : u.arm[o].last <= u.arm[b].last
  BY OldestIn, Sizes
<1>2. \A b \in Arms : u.arm[b].last \in Nat /\ Age(u, b) \in Nat /\ u.arm[b].last <= u.windows
  BY AgeIn DEF Dated
<1>3. \A b \in Arms : b \in Visited(u)
  <2>1. \A b \in Arms : u.arm[b].visits \in Nat BY DEF Tuner, Arm
  <2>2. QED BY <2>1, Sizes DEF Covered, Visited
<1>4. A \subseteq Arms /\ \A b \in A : u.arm[b].last < u.arm[a].last
  BY DEF Ahead
<1>5. f \in Injection(A, I)
  <2>1. f \in [A -> I]
    <3> HIDE DEF A, o
    <3> QED BY <1>1, <1>2, <1>4
  <2>2. \A b, e \in A : f[b] = f[e] => b = e
    <3> HIDE DEF A
    <3> QED BY <1>3, <1>4 DEF Dated
  <2>3. QED
    <3> HIDE DEF f, A, I
    <3> QED BY <2>1, <2>2 DEF Injection, IsInjective
<1>6. IsFiniteSet(I) /\ Cardinality(I) = u.arm[a].last - u.arm[o].last
  <2> HIDE DEF o
  <2>1. u.arm[o].last \in Int /\ u.arm[a].last - 1 \in Int /\ u.arm[o].last <= u.arm[a].last
    BY <1>1, <1>2
  <2>2. /\ IsFiniteSet(I)
        /\ Cardinality(I) = IF u.arm[o].last > u.arm[a].last - 1 THEN 0
                            ELSE (u.arm[a].last - 1) - u.arm[o].last + 1
    BY <2>1, FS_Interval
  <2>3. QED BY <1>2, <2>1, <2>2
<1>7. Cardinality(A) <= Cardinality(I) /\ Cardinality(A) \in Nat
  <2>1. Cardinality(A) \in Nat
    <3> HIDE DEF A
    <3> QED BY <1>4, Counts
  <2> HIDE DEF f, A, I
  <2>2. QED BY <1>5, <1>6, <2>1, FS_Injection
<1>8. u.windows \in Nat /\ Age(u, a) = u.windows - u.arm[a].last
      /\ Age(u, o) = u.windows - u.arm[o].last
  BY DEF Age, Tuner
<1>9. Age(u, a) + Cardinality(A) <= Age(u, o)
  <2> HIDE DEF A, o, I
  <2> QED BY <1>1, <1>2, <1>6, <1>7, <1>8
<1>10. QED BY <1>9

LEMMA Bounded ==
  ASSUME NEW n \in Nat, NEW p \in Nat, NEW r \in Nat, NEW g \in Nat, NEW s \in Nat,
         r <= n - 1, n >= 1, g + r < s
  PROVE  (g + r * (p + 1) + 1) + p <= s + n * (p + 1)
<1>1. r * p <= (n - 1) * p BY Products
<1>2. r * (p + 1) = r * p + r /\ (n - 1) * p = n * p - p /\ n * (p + 1) = n * p + n
  OBVIOUS
<1>3. r * p \in Nat /\ n * p \in Nat OBVIOUS
<1>4. QED BY <1>1, <1>2, <1>3

LEMMA SearchServed ==
  ASSUME NEW u \in Tuner, NEW v \in Tuner, NoneForgotten(u), Covered(u), ~u.settled,
         Serves(u, v), NEW a \in Arms \ {u.current}
  PROVE  Wait(v, a, Arms) + ProbeEvery <= Patience
<1> DEFINE c == u.current
           o == Oldest(u, Arms)
<1>1. Dated(u) /\ c \in Search(u) /\ Wait(u, a, Arms) <= Patience
  BY DEF NoneForgotten, Searching
<1>2. c \in Arms /\ Arms \subseteq Arms /\ Arms \ {c} \subseteq Arms BY DEF Tuner
<1>3. Wait(v, a, Arms) = Wait(u, a, Arms \ {c}) + 1 BY <1>1, <1>2, WaitServed
<1>4. Wait(u, a, Arms \ {c}) \in Nat /\ Wait(u, a, Arms) \in Nat
  BY <1>1, <1>2, WaitIn
<1>5. \/ c = o
      \/ u.windows - u.arm[o].last < StaleWindows
  BY <1>1, SearchIn
<1>6. CASE c = o
  <2>1. u.arm[c].last < u.arm[a].last
    <3>1. o \in Arms /\ \A b \in Arms : u.arm[o].last <= u.arm[b].last
      BY OldestIn, Sizes
    <3>2. \A b \in Arms : b \in Visited(u) /\ u.arm[b].last \in Nat
      <4>1. \A b \in Arms : u.arm[b].visits \in Nat BY DEF Tuner, Arm
      <4>2. QED BY <1>1, <4>1, AgeIn, Sizes DEF Covered, Visited
    <3>3. u.arm[c].last # u.arm[a].last BY <1>1, <1>2, <3>2 DEF Dated
    <3>4. QED
      <4> HIDE DEF o, c
      <4> QED BY <1>6, <3>1, <3>2, <3>3
  <2>2. Wait(u, a, Arms \ {c}) = Wait(u, a, Arms) - (ProbeEvery + 1)
    BY <1>1, <1>2, <2>1, WaitWithout
  <2>3. QED BY <1>1, <1>3, <1>4, <2>2, Sizes, Probe
<1>7. CASE u.windows - u.arm[o].last < StaleWindows
  <2> DEFINE r == Cardinality(Ahead(u, a, Arms \ {c}))
  <2>1. Age(u, a) + Cardinality(Ahead(u, a, Arms)) < StaleWindows
    <3>1. Age(u, a) + Cardinality(Ahead(u, a, Arms)) <= Age(u, o)
      BY <1>1, AheadOfIt
    <3>2. Age(u, o) < StaleWindows BY <1>7 DEF Age
    <3>3. o \in Arms BY OldestIn, Sizes
    <3>4. Age(u, o) \in Nat /\ Age(u, a) \in Nat /\ StaleWindows \in Nat
          /\ Cardinality(Ahead(u, a, Arms)) \in Nat
      <4> HIDE DEF o
      <4> QED BY <1>1, <1>2, <3>3, AgeIn, WaitIn, Sizes
    <3> HIDE DEF o
    <3>5. QED BY <3>1, <3>2, <3>4
  <2>2. r \in Nat /\ r <= Cardinality(Ahead(u, a, Arms))
    <3>1. Ahead(u, a, Arms \ {c}) \subseteq Ahead(u, a, Arms) BY DEF Ahead
    <3>2. IsFiniteSet(Ahead(u, a, Arms)) BY <1>1, <1>2, WaitIn
    <3>3. r \in Nat BY <1>1, <1>2, WaitIn
    <3>4. QED BY <3>1, <3>2, <3>3, FS_Subset
  <2>3. r <= NrArms - 2
    <3>1. Cardinality((Arms \ {c}) \ {a}) = NrArms - 2 BY <1>2, Counts
    <3>2. QED BY <1>1, <1>2, <3>1, WaitIn
  <2>4. Age(u, a) \in Nat BY <1>1, AgeIn
  <2>5. Cardinality(Ahead(u, a, Arms)) \in Nat BY <1>1, <1>2, WaitIn
  <2>6. Wait(u, a, Arms \ {c}) = Age(u, a) + r * (ProbeEvery + 1) BY DEF Wait
  <2>7. (Age(u, a) + r * (ProbeEvery + 1) + 1) + ProbeEvery
          <= StaleWindows + (NrArms - 1) * (ProbeEvery + 1)
    <3> HIDE DEF r
    <3>1. NrArms - 1 \in Nat /\ ProbeEvery \in Nat /\ StaleWindows \in Nat
          /\ NrArms - 1 >= 1 /\ r <= (NrArms - 1) - 1
      BY <2>2, <2>3, Sizes
    <3>2. Age(u, a) + r < StaleWindows BY <2>1, <2>2, <2>4, <2>5, <3>1
    <3>3. QED BY <2>2, <2>4, <3>1, <3>2, Bounded
  <2>8. QED BY <1>3, <2>6, <2>7 DEF Patience
<1>8. QED BY <1>5, <1>6, <1>7

\* The arm on probation was the oldest of the others, and before it the best
\* one was visited.
LEMMA ProbeServed ==
  ASSUME NEW u \in Tuner, NEW v \in Tuner, NoneForgotten(u), Covered(u),
         u.settled, u.current # u.best, Serves(u, v),
         NEW a \in Others(u) \ {u.current}
  PROVE  /\ Wait(v, a, Arms) + ProbeEvery <= Patience
         /\ Wait(v, a, Others(u)) + ProbeEvery <= Patience
<1> DEFINE c == u.current
           O == Others(u)
<1>1. /\ Dated(u) /\ c = Oldest(u, O) /\ Age(u, u.best) = 0
      /\ Wait(u, a, O) <= Patience
  BY DEF NoneForgotten, Probing
<1>2. /\ c \in O /\ a \in O /\ O \subseteq Arms /\ a \in Arms \ {c} /\ Arms \subseteq Arms
      /\ u.best \in Arms /\ O \ {c} \subseteq Arms /\ Arms \ {c} \subseteq Arms
      /\ \A b \in O : u.arm[c].last <= u.arm[b].last
  <2>1. u.best \in Arms /\ c \in Arms BY DEF Tuner
  <2>2. O \subseteq Arms /\ O # {} /\ c \in O BY <2>1, OthersExist DEF Others
  <2>3. \A b \in O : u.arm[c].last <= u.arm[b].last
    <3> HIDE DEF O
    <3> QED BY <1>1, <2>2, OldestIn
  <2>4. QED BY <2>1, <2>2, <2>3
<1>3. \A b \in Arms : b \in Visited(u) /\ u.arm[b].last \in Nat /\ u.arm[b].last <= u.windows
  <2>1. \A b \in Arms : u.arm[b].visits \in Nat BY DEF Tuner, Arm
  <2>2. QED BY <1>1, <2>1, AgeIn, Sizes DEF Covered, Visited, Dated
<1>4. u.arm[c].last < u.arm[a].last
  <2>1. u.arm[c].last # u.arm[a].last BY <1>1, <1>2, <1>3 DEF Dated
  <2>2. QED BY <1>2, <1>3, <2>1
<1>5. Wait(u, a, O \ {c}) = Wait(u, a, O) - (ProbeEvery + 1)
  <2> HIDE DEF O, c
  <2> QED BY <1>1, <1>2, <1>4, WaitWithout
<1>6. Wait(v, a, O) = Wait(u, a, O \ {c}) + 1 /\ Wait(v, a, Arms) = Wait(u, a, Arms \ {c}) + 1
  BY <1>1, <1>2, WaitServed
<1>7. Ahead(u, a, Arms \ {c}) = Ahead(u, a, O \ {c})
  <2>1. u.windows \in Nat /\ u.arm[u.best].last = u.windows
    <3>1. u.windows \in Nat BY DEF Tuner
    <3>2. QED BY <1>1, <1>2, <1>3, <3>1 DEF Age
  <2>2. ~(u.arm[u.best].last < u.arm[a].last) BY <1>2, <1>3, <2>1
  <2>3. QED BY <2>2 DEF Ahead, Others
<1>8. Wait(u, a, Arms \ {c}) = Wait(u, a, O \ {c}) BY <1>7 DEF Wait
<1>9. Wait(u, a, O) \in Nat /\ Wait(u, a, O \ {c}) \in Nat
  <2> HIDE DEF O, c
  <2> QED BY <1>1, <1>2, WaitIn
<1>10. Wait(u, a, O \ {c}) + 1 + ProbeEvery <= Patience
  <2> HIDE DEF O, c
  <2> QED BY <1>1, <1>5, <1>9, Sizes, Probe
<1>11. QED
  <2> HIDE DEF O, c
  <2> QED BY <1>6, <1>8, <1>9, <1>10, Sizes, Probe DEF O

\* The tuner, covered before the window of its current arm and after.
LEMMA CoveredNext ==
  ASSUME NEW u \in Tuner, NEW v \in Tuner, NEW w, NoneForgotten(u), Covered(u),
         Serves(u, v), Covered(v), v.current = u.current, Chooses(v, w),
         v.best = u.best => /\ u.settled => v.settled /\ v.exploit = u.exploit
                            /\ ~u.settled /\ v.settled => v.exploit = 0,
         v.best # u.best => ~v.settled
  PROVE  NoneForgotten(w)
<1> DEFINE c == u.current
<1>1. Dated(u) /\ Dated(v) /\ Age(v, c) = 0
  BY DatedServed DEF NoneForgotten
<1>2. /\ c \in Arms /\ v.best \in Arms /\ u.best \in Arms /\ Others(v) \subseteq Arms
      /\ Arms \subseteq Arms /\ v.exploit \in Nat /\ Others(v) = Arms \ {v.best}
  BY DEF Tuner, Others
<1>3. /\ Wait(v, c, Arms) <= Patience
      /\ \A b \in Arms \ {c} : Wait(v, c, Arms \ {b}) + ProbeEvery <= Patience
  BY <1>1, <1>2, WaitLast
<1>4. /\ \A a \in Arms : Wait(v, a, Arms) \in Nat /\ Age(v, a) \in Nat
                         /\ Wait(v, a, Others(v)) \in Nat
                         /\ Wait(v, a, Others(v)) <= Wait(v, a, Arms)
      /\ Patience \in Nat /\ ProbeEvery \in Nat \ {0}
  <2>1. \A a \in Arms : Wait(v, a, Arms) \in Nat /\ Age(v, a) \in Nat
                        /\ Wait(v, a, Others(v)) \in Nat
    BY <1>1, <1>2, WaitIn, AgeIn
  <2>2. \A a \in Arms : Wait(v, a, Others(v)) <= Wait(v, a, Arms)
    BY <1>1, <1>2, WaitLess
  <2>3. QED BY <2>1, <2>2, Sizes, Probe
<1>5. \A a \in Arms : Age(v, a) <= Wait(v, a, Arms)
  <2>1. SUFFICES ASSUME NEW a \in Arms PROVE Age(v, a) <= Wait(v, a, Arms)
    OBVIOUS
  <2>2. Cardinality(Ahead(v, a, Arms)) \in Nat BY <1>1, <1>2, WaitIn
  <2>3. Cardinality(Ahead(v, a, Arms)) * (ProbeEvery + 1) \in Nat BY <2>2, Probe
  <2>4. QED BY <1>4, <2>3 DEF Wait
<1>6. CASE ~u.settled
  <2>1. \A a \in Arms \ {c} : Wait(v, a, Arms) + ProbeEvery <= Patience
    BY <1>6, SearchServed
  <2>2. \A a \in Arms : Wait(v, a, Arms) <= Patience
    BY <1>3, <1>4, <2>1
  <2>3. CASE ~v.settled
    BY <1>1, <2>2, <2>3, NextSearch
  <2>4. CASE v.settled /\ c = v.best
    <3>1. v.exploit = 0 BY <1>6, <2>4
    <3>2. \A a \in Others(v) : Wait(v, a, Others(v)) + (ProbeEvery - v.exploit) <= Patience + 1
      <4>1. SUFFICES ASSUME NEW a \in Arms \ {c}
                     PROVE  Wait(v, a, Others(v)) + (ProbeEvery - v.exploit) <= Patience + 1
        BY <1>2, <2>4
      <4>2. Wait(v, a, Arms) + ProbeEvery <= Patience BY <2>1
      <4>3. ProbeEvery - v.exploit = ProbeEvery BY <1>4, <3>1
      <4>4. QED BY <1>4, <4>2, <4>3
    <3>3. v.exploit < ProbeEvery /\ Age(v, v.best) = 0 BY <1>1, <1>4, <2>4, <3>1
    <3>4. QED BY <1>1, <2>4, <3>2, <3>3, NextExploit
  <2>5. CASE v.settled /\ c # v.best
    <3>1. \A a \in Others(v) : Wait(v, a, Others(v)) + ProbeEvery <= Patience
      BY <1>2, <1>3, <1>4, <2>1, <2>5
    <3>2. Age(v, v.best) <= Patience BY <1>2, <1>4, <1>5, <2>2
    <3>3. QED BY <1>1, <2>5, <3>1, <3>2, NextReturn
  <2>6. QED BY <2>3, <2>4, <2>5
<1>7. CASE u.settled /\ c = u.best
  <2>1. u.exploit \in Nat /\ u.exploit < ProbeEvery
        /\ \A a \in Others(u) : Wait(u, a, Others(u)) + (ProbeEvery - u.exploit) <= Patience
    BY <1>7 DEF NoneForgotten, Exploiting, Tuner
  <2>2. Others(u) = Arms \ {c} BY <1>7 DEF Others
  <2>3. ASSUME NEW a \in Arms \ {c}
        PROVE  /\ Wait(v, a, Arms) + (ProbeEvery - u.exploit) <= Patience + 1
               /\ Wait(v, a, Arms \ {c}) + (ProbeEvery - u.exploit) <= Patience + 1
    <3>1. Arms \ {c} \subseteq Arms /\ (Arms \ {c}) \ {c} = Arms \ {c} OBVIOUS
    <3>2. Wait(v, a, Arms) = Wait(u, a, Arms \ {c}) + 1
          /\ Wait(v, a, Arms \ {c}) = Wait(u, a, (Arms \ {c}) \ {c}) + 1
      BY <1>1, <1>2, <3>1, WaitServed
    <3>3. Wait(u, a, Arms \ {c}) \in Nat BY <1>1, <3>1, WaitIn
    <3>4. Wait(u, a, Arms \ {c}) + (ProbeEvery - u.exploit) <= Patience BY <2>1, <2>2
    <3>5. Wait(v, a, Arms \ {c}) = Wait(u, a, Arms \ {c}) + 1 BY <3>1, <3>2
    <3>6. QED BY <1>4, <2>1, <3>2, <3>3, <3>4, <3>5
  <2>4. CASE v.best = u.best
    <3>1. v.settled /\ v.exploit = u.exploit /\ v.best = c /\ Others(v) = Arms \ {c}
      BY <1>2, <1>7, <2>4
    <3>2. \A a \in Others(v) : Wait(v, a, Others(v)) + (ProbeEvery - v.exploit) <= Patience + 1
      BY <2>3, <3>1
    <3>3. QED BY <1>1, <2>1, <3>1, <3>2, NextExploit
  <2>5. CASE v.best # u.best
    <3>1. \A a \in Arms : Wait(v, a, Arms) <= Patience
      <4>1. \A a \in Arms \ {c} : Wait(v, a, Arms) <= Patience
        BY <1>4, <2>1, <2>3
      <4>2. QED BY <1>3, <4>1
    <3>2. QED BY <1>1, <2>5, <3>1, NextSearch
  <2>6. QED BY <2>4, <2>5
<1>8. CASE u.settled /\ c # u.best
  <2>1. \A a \in Arms : a # c /\ a # u.best =>
          /\ Wait(v, a, Arms) + ProbeEvery <= Patience
          /\ Wait(v, a, Others(u)) + ProbeEvery <= Patience
    BY <1>8, ProbeServed DEF Others
  <2>2. Age(v, u.best) = 1
    <3>1. Age(u, u.best) = 0 BY <1>8 DEF NoneForgotten, Probing
    <3>2. u.arm[u.best].last \in Nat /\ u.windows \in Nat BY <1>1, <1>2, AgeIn
    <3>3. QED BY <1>2, <1>8, <3>1, <3>2 DEF Serves, Age
  <2>3. CASE v.best = u.best
    <3>1. v.settled /\ Others(v) = Others(u) BY <1>8, <2>3 DEF Others
    <3>2. Wait(v, c, Others(v)) + ProbeEvery <= Patience BY <1>2, <1>3, <1>8, <2>3
    <3>3. \A a \in Others(v) : Wait(v, a, Others(v)) + ProbeEvery <= Patience
      BY <1>2, <2>1, <2>3, <3>1, <3>2
    <3>4. Age(v, v.best) <= Patience
      <4>1. Wait(v, v.best, Arms) <= Patience BY <1>1, <1>2, <2>2, <2>3, WaitLast
      <4>2. QED BY <1>2, <1>4, <1>5, <4>1
    <3>5. QED BY <1>1, <1>8, <2>3, <3>1, <3>3, <3>4, NextReturn
  <2>4. CASE v.best # u.best
    <3>1. Wait(v, u.best, Arms) <= Patience BY <1>1, <1>2, <2>2, WaitLast
    <3>2. \A a \in Arms : Wait(v, a, Arms) <= Patience
      BY <1>3, <1>4, <2>1, <3>1
    <3>3. QED BY <1>1, <2>4, <3>2, NextSearch
  <2>5. QED BY <2>3, <2>4
<1>9. QED BY <1>6, <1>7, <1>8

LEMMA ObservedNext ==
  ASSUME NEW u \in Tuner, NoneForgotten(u), NEW d \in Tuner, NEW v \in Tuner,
         Observes(u, d, v), NEW w, Chooses(v, w)
  PROVE  NoneForgotten(w)
<1>1. v.windows = u.windows + 1 /\ v.current = u.current BY DEF Observes
<1>2. u.current \in Arms /\ u.windows \in Nat BY DEF Tuner
<1>3. CASE Covered(d)
  <2>1. /\ d.arm = u.arm /\ Covered(u) /\ Covered(v) /\ Serves(u, v)
        /\ v.best = u.best => /\ u.settled => v.settled /\ v.exploit = u.exploit
                              /\ ~u.settled /\ v.settled => v.exploit = 0
        /\ v.best # u.best => ~v.settled
    BY <1>3 DEF Observes, Serves
  <2>2. QED BY <1>1, <2>1, CoveredNext
<1>4. CASE ~Covered(d)
  <2>1. ~v.settled BY <1>4 DEF Observes
  <2>2. CASE d.arm = u.arm
    <3>1. ~Covered(u) BY <1>4, <2>2 DEF Covered
    <3>2. Dated(u) /\ \E k \in 0 .. MinVisits - 1 : Round(u, k)
      BY <3>1 DEF NoneForgotten, Filling
    <3>3. Serves(u, v) /\ v.arm[u.current].visits = u.arm[u.current].visits + 1
      BY <2>2 DEF Observes, Serves
    <3>4. QED BY <2>1, <3>2, <3>3, FillingNext
  <2>3. CASE d = Epoch(u.current, u.windows + 1)
    <3> DEFINE e == Epoch(u.current, u.windows)
    <3>1. /\ e \in Tuner /\ NoneForgotten(e) /\ ~Covered(e) /\ e.current = u.current
          /\ e.windows = u.windows
      BY <1>2, EpochIn, EpochFresh
    <3>2. d.arm = e.arm BY <2>3 DEF Epoch
    <3>3. Dated(e) /\ \E k \in 0 .. MinVisits - 1 : Round(e, k)
      <4> HIDE DEF e
      <4> QED BY <3>1 DEF NoneForgotten, Filling
    <3>4. Serves(e, v) /\ v.arm[e.current].visits = e.arm[e.current].visits + 1
      <4> HIDE DEF e
      <4> QED BY <1>1, <3>1, <3>2 DEF Observes, Serves
    <3>5. QED
      <4> HIDE DEF e
      <4> QED BY <2>1, <3>1, <3>3, <3>4, FillingNext
  <2>4. QED BY <2>2, <2>3 DEF Observes
<1>5. QED BY <1>3, <1>4

(***************************************************************************)
(* The theorems                                                            *)
(***************************************************************************)
LEMMA InitHolds ==
  ASSUME Init
  PROVE  IInv
<1>1. InitialArm \in Arms /\ 0 \in Nat BY Sizes
<1> DEFINE u == Epoch(InitialArm, 0)
<1>2. /\ u \in Tuner /\ ~u.settled /\ u.stable = 0 /\ u.confirmed = 0 /\ ~Covered(u)
      /\ \A i \in Arms : u.arm[i].visits = 0
      /\ NoneForgotten(u)
  BY <1>1, EpochIn, EpochFresh
<1>3. t = u BY DEF Init
<1>4. t \in Tuner /\ ~t.settled /\ ~Covered(t) /\ NoneForgotten(t)
      /\ \A i \in Arms : t.arm[i].visits = 0
  <2> HIDE DEF u
  <2> QED BY <1>2, <1>3
<1>5. TypeOK BY <1>4 DEF Init, TypeOK, Nothing
<1>6. Visited(t) = {} BY <1>4 DEF Visited
<1>7. QED BY <1>4, <1>5, <1>6 DEF Init, IInv, RanEnough, SeenEnough, Unbeaten

LEMMA StepKeeps ==
  ASSUME IInv, [OnGc]_vars
  PROVE  IInv'
<1>1. t.settled => Covered(t) BY DEF IInv, SeenEnough
<1>2. TypeOK' BY <1>1, TypeInductive DEF IInv
<1>3. RanEnough' BY RanInductive DEF IInv
<1>4. SeenEnough' /\ Unbeaten(t)' BY SeenInductive DEF IInv
<1>5. NoneForgotten(t)'
  <2>1. t \in Tuner /\ NoneForgotten(t) BY DEF IInv, TypeOK
  <2>2. CASE UNCHANGED t
    <3>1. t' = t BY <2>2
    <3>2. NoneForgotten(t') BY <2>1, <3>1
    <3>3. QED BY <3>2
  <2>3. ASSUME NEW d \in Tuner, NEW v \in Tuner, Observes(t, d, v), Chooses(v, t')
        PROVE  NoneForgotten(t)'
    <3>1. NoneForgotten(t') BY <2>1, <2>3, ObservedNext
    <3>2. QED BY <3>1
  <2>4. QED BY <1>1, <2>2, <2>3, StepIn DEF IInv
<1>6. QED BY <1>2, <1>3, <1>4, <1>5 DEF IInv

LEMMA Invariant == Spec => []IInv
<1>1. Init => IInv BY InitHolds
<1>2. IInv /\ [OnGc]_vars => IInv' BY StepKeeps
<1>3. QED BY <1>1, <1>2, PTL DEF Spec

\* Every collection of a measured window was done with the arm the window is
\* credited to, and so were the BurninGc before it (watgc_v2_on_gc).
THEOREM MeasuresOneArmAlways == Spec => []MeasuresOneArm
<1>1. IInv => MeasuresOneArm BY DEF IInv, RanEnough, MeasuresOneArm
<1>2. QED BY <1>1, Invariant, PTL

\* A settled tuner has covered all arms, and the windows that settled it came
\* after that and after the last change of the best arm (watgc_v2_observe,
\* watgc_v2_update_best).
THEOREM SettledIsConfirmedAlways == Spec => []SettledIsConfirmed
<1>1. IInv => SettledIsConfirmed BY DEF IInv, SeenEnough, SettledIsConfirmed
<1>2. QED BY <1>1, Invariant, PTL

\* No arm is better than the best one by more than the tolerance
\* (watgc_v2_update_best).
THEOREM BestNearLeastAlways == Spec => []BestNearLeast
<1>1. IInv => BestNearLeast BY DEF IInv, Unbeaten, BestNearLeast
<1>2. QED BY <1>1, Invariant, PTL

\* Whatever the search prefers and however often the tuner settles, changes
\* its best arm and searches again, no covered arm waits longer for its next
\* window than Patience (watgc_v2_choose_search, watgc_v2_choose_exploit).
THEOREM NoArmStarvesAlways == Spec => []NoArmStarves
<1>1. ASSUME IInv, Covered(t), NEW a \in Arms PROVE Age(t, a) <= Patience
  <2>1. t \in Tuner /\ NoneForgotten(t) /\ Dated(t) BY <1>1 DEF IInv, TypeOK, NoneForgotten
  <2>2. ASSUME NEW S, S \subseteq Arms, Wait(t, a, S) <= Patience
        PROVE  Age(t, a) <= Patience
    <3>1. Cardinality(Ahead(t, a, S)) \in Nat BY <2>1, <2>2, WaitIn
    <3>2. Cardinality(Ahead(t, a, S)) * (ProbeEvery + 1) \in Nat BY <3>1, Probe
    <3>3. QED BY <2>1, <2>2, <3>2, AgeIn, Probe DEF Wait
  <2>3. Arms \subseteq Arms /\ Others(t) \subseteq Arms BY DEF Others
  <2>4. CASE ~t.settled
    BY <1>1, <2>1, <2>2, <2>3, <2>4 DEF NoneForgotten, Searching
  <2>5. CASE t.settled /\ t.current = t.best
    <3>1. Age(t, t.best) <= Patience /\ t.exploit < ProbeEvery
          /\ \A b \in Others(t) : Wait(t, b, Others(t)) + (ProbeEvery - t.exploit) <= Patience
      BY <2>1, <2>5 DEF NoneForgotten, Exploiting
    <3>2. a \in Others(t) => Wait(t, a, Others(t)) <= Patience
      <4>1. Wait(t, a, Others(t)) \in Nat BY <2>1, <2>3, WaitIn
      <4>2. t.exploit \in Nat BY <2>1 DEF Tuner
      <4>3. QED BY <3>1, <4>1, <4>2, Sizes, Probe
    <3>3. QED BY <2>2, <2>3, <3>1, <3>2 DEF Others
  <2>6. CASE t.settled /\ t.current # t.best
    <3>1. Age(t, t.best) = 0 /\ \A b \in Others(t) : Wait(t, b, Others(t)) <= Patience
      BY <2>1, <2>6 DEF NoneForgotten, Probing
    <3>2. QED BY <2>2, <2>3, <3>1, Probe DEF Others
  <2>7. QED BY <2>4, <2>5, <2>6
<1>2. IInv => NoArmStarves BY <1>1 DEF NoArmStarves, Age
<1>3. QED BY <1>2, Invariant, PTL
=============================================================================
