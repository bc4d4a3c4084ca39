-------------------------- MODULE CollectionProofs --------------------------
(***************************************************************************)
(* What holds of the selection of a victim for any lines, times and width  *)
(* of the machine, of the walk over its pages for any geometry, and of the *)
(* queue of candidates for any number of them.                             *)
(***************************************************************************)
EXTENDS Collection, VictimQueue, Arithmetic

(***************************************************************************)
(* The order of the quotients an / ad and bn / bd                          *)
(***************************************************************************)
Order(an, ad, bn, bd) == Sign(an * bd, bn * ad)

LEMMA SignIn ==
  ASSUME NEW a \in Int, NEW b \in Int
  PROVE  /\ Sign(a, b) \in {-1, 0, 1} /\ Sign(b, a) = -Sign(a, b)
         /\ (Sign(a, b) < 0 <=> a < b) /\ (Sign(a, b) = 0 <=> a = b)
BY DEF Sign

\* One that is less than another that is no more than a third.
LEMMA OrderTransitive ==
  ASSUME NEW an \in Nat, NEW ad \in Nat \ {0}, NEW bn \in Nat, NEW bd \in Nat \ {0},
         NEW cn \in Nat, NEW cd \in Nat \ {0}
  PROVE  /\ an * bd < bn * ad /\ bn * cd <= cn * bd => an * cd < cn * ad
         /\ an * bd <= bn * ad /\ bn * cd <= cn * bd => an * cd <= cn * ad
<1>1. /\ an * cd \in Nat /\ cn * ad \in Nat /\ an * bd \in Nat /\ bn * ad \in Nat
      /\ bn * cd \in Nat /\ cn * bd \in Nat
  BY ProductIn
<1>2. (an * cd) * bd = (an * bd) * cd /\ (bn * ad) * cd = (bn * cd) * ad
      /\ (cn * bd) * ad = (cn * ad) * bd
  OBVIOUS
<1>3. /\ (an * cd) * bd \in Nat /\ (bn * ad) * cd \in Nat /\ (cn * bd) * ad \in Nat
  BY <1>1, ProductIn
<1>4. bn * cd <= cn * bd => (bn * cd) * ad <= (cn * bd) * ad BY <1>1, ProductLess
<1>5. an * bd < bn * ad => (an * bd) * cd < (bn * ad) * cd BY <1>1, ProductLess
<1>6. an * bd <= bn * ad => (an * bd) * cd <= (bn * ad) * cd BY <1>1, ProductLess
<1>7. /\ (an * cd) * bd < (cn * ad) * bd => an * cd < cn * ad
      /\ (an * cd) * bd <= (cn * ad) * bd => an * cd <= cn * ad
  BY <1>1, ProductCancels
<1>8. QED BY <1>2, <1>3, <1>4, <1>5, <1>6, <1>7

\* The quotients decide if they differ, and else the order of the remainders.
LEMMA OrderDivided ==
  ASSUME NEW an \in Nat, NEW ad \in Nat \ {0}, NEW bn \in Nat, NEW bd \in Nat \ {0}
  PROVE  /\ an \div ad < bn \div bd => Order(an, ad, bn, bd) = -1
         /\ an \div ad > bn \div bd => Order(an, ad, bn, bd) = 1
         /\ an \div ad = bn \div bd =>
              Order(an, ad, bn, bd) = Sign((an % ad) * bd, (bn % bd) * ad)
<1> DEFINE aq == an \div ad
           ar == an % ad
           bq == bn \div bd
           br == bn % bd
<1>1. /\ aq \in Nat /\ ar \in Nat /\ ar < ad /\ an = aq * ad + ar
      /\ bq \in Nat /\ br \in Nat /\ br < bd /\ bn = bq * bd + br
  BY Division
<1> HIDE DEF aq, ar, bq, br
<1>2. /\ an * bd = (aq * ad) * bd + ar * bd /\ bn * ad = (bq * ad) * bd + br * ad
  <2>1. aq * ad \in Nat /\ bq * bd \in Nat BY <1>1, ProductIn
  <2>2. an * bd = (aq * ad) * bd + ar * bd BY <1>1, <2>1, Distribute
  <2>3. bn * ad = (bq * bd) * ad + br * ad BY <1>1, <2>1, Distribute
  <2>4. (bq * bd) * ad = (bq * ad) * bd BY <1>1
  <2>5. QED BY <2>2, <2>3, <2>4
<1>3. /\ aq * ad \in Nat /\ bq * ad \in Nat /\ (aq * ad) * bd \in Nat /\ (bq * ad) * bd \in Nat
      /\ ar * bd \in Nat /\ br * ad \in Nat /\ ad * bd \in Nat
      /\ an * bd \in Nat /\ bn * ad \in Nat
  <2>1. aq * ad \in Nat /\ bq * ad \in Nat BY <1>1, ProductIn
  <2>2. QED BY <1>1, <2>1, ProductIn
<1>4. ar * bd < ad * bd /\ br * ad < ad * bd
  <2>1. ar * bd < ad * bd BY <1>1, ProductLess
  <2>2. br * ad < bd * ad BY <1>1, ProductLess
  <2>3. bd * ad = ad * bd OBVIOUS
  <2>4. QED BY <2>1, <2>2, <2>3
<1>5. CASE aq < bq
  <2>1. (aq + 1) * ad <= bq * ad BY <1>1, <1>5, ProductLess
  <2>2. (aq + 1) * ad = aq * ad + ad /\ aq * ad + ad \in Nat BY <1>1, <1>3, Distribute
  <2>3. (aq * ad + ad) * bd <= (bq * ad) * bd BY <1>3, <2>1, <2>2, ProductLess
  <2>4. (aq * ad + ad) * bd = (aq * ad) * bd + ad * bd BY <1>3, Distribute
  <2>5. an * bd < bn * ad BY <1>2, <1>3, <1>4, <2>3, <2>4
  <2>6. QED BY <1>3, <1>5, <2>5 DEF Order, Sign, aq, bq
<1>6. CASE aq > bq
  <2>1. (bq + 1) * ad <= aq * ad BY <1>1, <1>6, ProductLess
  <2>2. (bq + 1) * ad = bq * ad + ad /\ bq * ad + ad \in Nat BY <1>1, <1>3, Distribute
  <2>3. (bq * ad + ad) * bd <= (aq * ad) * bd BY <1>3, <2>1, <2>2, ProductLess
  <2>4. (bq * ad + ad) * bd = (bq * ad) * bd + ad * bd BY <1>3, Distribute
  <2>5. bn * ad < an * bd BY <1>2, <1>3, <1>4, <2>3, <2>4
  <2>6. QED BY <1>3, <1>6, <2>5 DEF Order, Sign, aq, bq
<1>7. CASE aq = bq
  <2>1. /\ an * bd < bn * ad <=> ar * bd < br * ad
        /\ an * bd > bn * ad <=> ar * bd > br * ad
    BY <1>2, <1>3, <1>7
  <2>2. Order(an, ad, bn, bd) = Sign(ar * bd, br * ad) BY <2>1 DEF Order, Sign
  <2>3. QED BY <1>7, <2>2 DEF aq, ar, bq, br
<1>8. QED BY <1>1, <1>5, <1>6, <1>7 DEF aq, bq

(***************************************************************************)
(* The age of a line                                                       *)
(***************************************************************************)
LEMMA ScanConstants ==
  /\ NrLines \in Nat /\ LineSize \in Nat /\ Top \in Nat /\ NsecPerSec \in Nat /\ Now \in Nat
  /\ ScanArms \subseteq 0 .. 59 /\ Counts \subseteq 0 .. LineSize - 1
  /\ Counts \subseteq Nat /\ Times \subseteq Nat
BY ScanAssumption

LEMMA Decoded ==
  ASSUME NEW arm \in 0 .. 59
  PROVE  /\ Steps(arm) \in {2, 4, 7, 10} /\ Ratio(arm) \in {4, 7, 16}
<1>1. Len(Ratios) = 3 /\ Len(Scales) = 5 BY DEF Ratios, Scales
<1>2. arm % 3 \in {0, 1, 2} /\ arm \div 3 \in 0 .. 19
  OBVIOUS
<1>3. (arm \div 3) \div 5 \in {0, 1, 2, 3} BY <1>2
<1>4. LevelIndex(arm) \in {1, 2, 3, 4} BY <1>1, <1>3 DEF LevelIndex
<1>5. Steps(arm) \in {2, 4, 7, 10} BY <1>4 DEF Steps, Levels
<1>6. Ratio(arm) \in {4, 7, 16} BY <1>1, <1>2 DEF Ratio, Ratios
<1>7. QED BY <1>5, <1>6

LEMMA ThresholdIn ==
  ASSUME NEW arm \in 0 .. 59, NEW i \in 1 .. Steps(arm), i # Steps(arm)
  PROVE  Threshold(arm, i) \in Int
<1> DEFINE n == LevelIndex(arm)
<1>1. n \in {1, 2, 3, 4} /\ Steps(arm) = Levels[n] /\ Scale(arm) \in Nat
  <2>1. Len(Ratios) = 3 /\ Len(Scales) = 5 BY DEF Ratios, Scales
  <2>2. arm \div 3 \in 0 .. 19 OBVIOUS
  <2>3. (arm \div 3) \div 5 \in {0, 1, 2, 3} /\ (arm \div 3) % 5 \in {0, 1, 2, 3, 4}
    BY <2>2
  <2>4. n \in {1, 2, 3, 4} BY <2>1, <2>3 DEF LevelIndex
  <2>5. Scale(arm) \in Nat BY <2>1, <2>3 DEF Scale, Scales
  <2>6. QED BY <2>4, <2>5 DEF Steps
<1>2. ThresholdThirds[n][i] \in Nat
  <2> HIDE DEF n
  <2>1. CASE n = 1
    BY <1>1, <2>1 DEF Levels, ThresholdThirds
  <2>2. CASE n = 2
    BY <1>1, <2>2 DEF Levels, ThresholdThirds
  <2>3. CASE n = 3
    BY <1>1, <2>3 DEF Levels, ThresholdThirds
  <2>4. CASE n = 4
    BY <1>1, <2>4 DEF Levels, ThresholdThirds
  <2>5. QED BY <1>1, <2>1, <2>2, <2>3, <2>4
<1>3. Threshold(arm, i) = (ThresholdThirds[n][i] * NsecPerSec * Scale(arm)) \div 300
  BY DEF Threshold
<1> DEFINE p == ThresholdThirds[n][i] * NsecPerSec * Scale(arm)
<1>4. p \in Nat
  <2>1. NsecPerSec \in Nat BY ScanConstants
  <2> HIDE DEF n
  <2>2. ThresholdThirds[n][i] * NsecPerSec \in Nat BY <1>2, <2>1, ProductIn
  <2>3. QED BY <1>1, <2>2, ProductIn
<1>5. p \div 300 \in Nat
  <2> HIDE DEF p
  <2> QED BY <1>4, Division
<1>6. QED BY <1>3, <1>5

\* The steps of the staircase rise.
LEMMA AgeValueRises ==
  ASSUME NEW arm \in 0 .. 59, NEW i \in Nat \ {0}, NEW j \in Nat \ {0}, i <= j
  PROVE  /\ AgeValue(arm, i) \in Nat \ {0} /\ AgeValue(arm, j) \in Nat \ {0}
         /\ AgeValue(arm, i) <= AgeValue(arm, j)
<1> DEFINE r == (Ratio(arm) - 1) * 18
           n == Steps(arm) - 1
<1>1. r \in Nat /\ n \in Nat \ {0} BY Decoded
<1>2. i - 1 \in Nat /\ j - 1 \in Nat /\ i - 1 <= j - 1 OBVIOUS
<1>3. AgeValue(arm, i) = 18 + ((r * (i - 1)) \div n) /\ AgeValue(arm, j) = 18 + ((r * (j - 1)) \div n)
  BY DEF AgeValue
<1> HIDE DEF r, n
<1>4. r * (i - 1) \in Nat /\ r * (j - 1) \in Nat /\ r * (i - 1) <= r * (j - 1)
  <2>1. r * (i - 1) = (i - 1) * r /\ r * (j - 1) = (j - 1) * r BY <1>1, <1>2, ProductIn
  <2>2. (i - 1) * r <= (j - 1) * r BY <1>1, <1>2, ProductLess
  <2>3. QED BY <1>1, <1>2, <2>1, <2>2, ProductIn
<1>5. (r * (i - 1)) \div n \in Nat /\ (r * (j - 1)) \div n \in Nat
      /\ (r * (i - 1)) \div n <= (r * (j - 1)) \div n
  BY <1>1, <1>4, Division, DivisionGrows
<1>6. QED BY <1>3, <1>5

\* The step of the staircase a line stands on.
Below(arm, at) == {i \in 1 .. Steps(arm) - 1 : Now - at < Threshold(arm, i)}
Step(arm, at) == IF at = 0 \/ Now < at THEN 1
                 ELSE IF Below(arm, at) = {} THEN Steps(arm)
                 ELSE CHOOSE i \in Below(arm, at) : \A j \in Below(arm, at) : i <= j

LEMMA StepIn ==
  ASSUME NEW arm \in 0 .. 59, NEW at \in Nat
  PROVE  /\ TransformAge(arm, at) = AgeValue(arm, Step(arm, at))
         /\ Step(arm, at) \in 1 .. Steps(arm)
         /\ at # 0 /\ at <= Now => \A i \in Below(arm, at) : Step(arm, at) <= i
         /\ at # 0 /\ at <= Now /\ Step(arm, at) # Steps(arm) => Step(arm, at) \in Below(arm, at)
<1> DEFINE B == Below(arm, at)
           least == CHOOSE i \in B : \A j \in B : i <= j
<1>1. Steps(arm) \in Nat \ {0} BY Decoded
<1>2. B \subseteq 1 .. Steps(arm) - 1 BY DEF Below
<1>3. B # {} => least \in B /\ \A j \in B : least <= j
  <2> HIDE DEF B
  <2>1. ASSUME B # {} PROVE \E i \in B : \A j \in B : i <= j
    <3>1. B \subseteq Nat BY <1>1, <1>2
    <3>2. QED BY <2>1, <3>1, NatMin
  <2>2. QED BY <2>1
<1>4. Step(arm, at) = IF at = 0 \/ Now < at THEN 1 ELSE IF B = {} THEN Steps(arm) ELSE least
  BY DEF Step
<1>5. TransformAge(arm, at) = AgeValue(arm, Step(arm, at))
  BY DEF TransformAge, Step, Below
<1>6. Now \in Nat BY ScanConstants
<1>7. QED
  <2> HIDE DEF B, least
  <2>1. Step(arm, at) \in 1 .. Steps(arm)
    <3>1. B # {} => least \in 1 .. Steps(arm) - 1 BY <1>2, <1>3
    <3>2. Step(arm, at) \in {1, Steps(arm)} \/ (B # {} /\ Step(arm, at) = least)
      BY <1>4
    <3>3. QED BY <1>1, <3>1, <3>2
  <2>2. at # 0 /\ at <= Now => \A i \in B : Step(arm, at) <= i
    BY <1>1, <1>2, <1>3, <1>4, <1>6
  <2>3. at # 0 /\ at <= Now /\ Step(arm, at) # Steps(arm) => Step(arm, at) \in B
    BY <1>1, <1>2, <1>3, <1>4, <1>6
  <2>4. QED BY <1>5, <2>1, <2>2, <2>3 DEF B

LEMMA AgeIn ==
  ASSUME NEW arm \in 0 .. 59, NEW at \in Nat
  PROVE  TransformAge(arm, at) \in Nat \ {0}
<1>1. Step(arm, at) \in Nat \ {0}
  <2>1. Step(arm, at) \in 1 .. Steps(arm) BY StepIn
  <2>2. QED BY <2>1, Decoded
<1>2. AgeValue(arm, Step(arm, at)) \in Nat \ {0}
  <2> DEFINE i == Step(arm, at)
  <2>1. i \in Nat \ {0} /\ i <= i BY <1>1
  <2>2. AgeValue(arm, i) \in Nat \ {0}
    <3> HIDE DEF i
    <3> QED BY <2>1, AgeValueRises
  <2>3. QED BY <2>2
<1>3. QED BY <1>2, StepIn

\* A line that rested longer is not younger.
LEMMA AgeRises ==
  ASSUME NEW arm \in 0 .. 59, NEW at \in Nat \ {0}, NEW later \in Nat, at <= later
  PROVE  TransformAge(arm, later) <= TransformAge(arm, at)
<1>1. /\ Step(arm, at) \in 1 .. Steps(arm) /\ Step(arm, later) \in 1 .. Steps(arm)
      /\ Steps(arm) \in Nat /\ Now \in Nat /\ at \in Nat /\ at # 0
  <2>1. at \in Nat OBVIOUS
  <2>2. Step(arm, at) \in 1 .. Steps(arm) BY <2>1, StepIn
  <2>3. Step(arm, later) \in 1 .. Steps(arm) BY StepIn
  <2>4. QED BY <2>2, <2>3, Decoded, ScanConstants
<1>2. Step(arm, later) <= Step(arm, at)
  <2>1. CASE later > Now
    BY <1>1, <2>1 DEF Step
  <2>2. CASE later <= Now /\ Step(arm, at) = Steps(arm)
    BY <1>1, <2>2
  <2>3. CASE later <= Now /\ Step(arm, at) # Steps(arm)
    <3>1. Step(arm, at) \in Below(arm, at)
      <4>1. at <= Now BY <1>1, <2>3
      <4>2. QED BY <1>1, <2>3, <4>1, StepIn
    <3>2. Step(arm, at) \in Below(arm, later)
      <4>1. Now - later <= Now - at BY <1>1
      <4>2. SUFFICES Now - later < Threshold(arm, Step(arm, at))
        BY <3>1 DEF Below
      <4>3. Threshold(arm, Step(arm, at)) \in Int BY <1>1, <2>3, ThresholdIn
      <4>4. QED BY <1>1, <3>1, <4>1, <4>3 DEF Below
    <3>3. later # 0 BY <1>1
    <3>4. QED BY <2>3, <3>2, <3>3, StepIn
  <2>4. QED BY <1>1, <2>1, <2>2, <2>3
<1>3. Step(arm, later) \in Nat \ {0} /\ Step(arm, at) \in Nat \ {0} BY <1>1
<1>4. AgeValue(arm, Step(arm, later)) <= AgeValue(arm, Step(arm, at))
  BY <1>2, <1>3, AgeValueRises
<1>5. QED BY <1>4, StepIn

(***************************************************************************)
(* The scan                                                                *)
(***************************************************************************)
Line     == [vpc : Counts, at : Times]
Fraction == [an : Nat, ad : Nat \ {0}, bn : Nat, bd : Nat \ {0}, reverse : BOOLEAN]

ScanType ==
  scan \in {Idle, Chosen} \cup
    [pc : {"scan"}, line : [ScanLines -> {None} \cup Line], arm : ScanArms,
     force : BOOLEAN, i : 0 .. NrLines, victim : 0 .. NrLines,
     frac : {None} \cup Fraction]

\* v is to be collected rather than l.
Precedes(v, l) == \/ Vpc(v) * Den(l) < Vpc(l) * Den(v)
                  \/ Vpc(v) * Den(l) = Vpc(l) * Den(v) /\ v <= l

\* The victim is the best of the lines looked at, and the comparison under
\* way is that of the next line and the victim, reversed or not.
Comparing ==
  /\ scan.i < NrLines /\ Candidate(scan.i) /\ scan.victim # NoVictim
  /\ Order(Vpc(scan.i), Den(scan.i), Vpc(scan.victim), Den(scan.victim))
       = LET o == Order(scan.frac.an, scan.frac.ad, scan.frac.bn, scan.frac.bd)
         IN  IF scan.frac.reverse THEN -o ELSE o
Scanned ==
  scan.pc = "scan" =>
    /\ \A l \in ScanLines : l < scan.i /\ Candidate(l) =>
         scan.victim # NoVictim /\ Precedes(scan.victim, l)
    /\ scan.victim # NoVictim => scan.victim < scan.i /\ Candidate(scan.victim)
    /\ scan.frac # None => Comparing

ScanInv == ScanType /\ Scanned

LEMMA RunningIn ==
  ASSUME ScanType, scan.pc = "scan"
  PROVE  /\ scan = [pc |-> "scan", line |-> scan.line, arm |-> scan.arm, force |-> scan.force,
                    i |-> scan.i, victim |-> scan.victim, frac |-> scan.frac]
         /\ scan.line \in [ScanLines -> {None} \cup Line] /\ scan.arm \in ScanArms
         /\ scan.force \in BOOLEAN /\ scan.i \in 0 .. NrLines /\ scan.victim \in 0 .. NrLines
         /\ scan.frac \in {None} \cup Fraction
         /\ scan.i \in Nat /\ scan.victim \in Nat /\ NrLines \in Nat
<1>1. Idle.pc # "scan" /\ Chosen.pc # "scan" BY DEF Idle, Chosen
<1>2. scan \in [pc : {"scan"}, line : [ScanLines -> {None} \cup Line], arm : ScanArms,
                force : BOOLEAN, i : 0 .. NrLines, victim : 0 .. NrLines,
                frac : {None} \cup Fraction]
  BY <1>1 DEF ScanType
<1>3. NrLines \in Nat BY ScanConstants
<1>4. QED BY <1>2, <1>3

\* A candidate has invalid pages and an age: its quotient is defined.
LEMMA CandidateIn ==
  ASSUME ScanType, scan.pc = "scan", NEW l \in ScanLines, Candidate(l)
  PROVE  /\ Vpc(l) \in Nat /\ Ipc(l) \in Nat \ {0} /\ Den(l) \in Nat \ {0}
         /\ scan.line[l].at \in Nat /\ scan.arm \in 0 .. 59
         /\ TransformAge(scan.arm, scan.line[l].at) \in Nat \ {0}
<1>1. scan.line[l] \in Line
  <2>1. scan.line \in [ScanLines -> {None} \cup Line] BY RunningIn
  <2>2. QED BY <2>1 DEF Candidate, Queued
<1>2. Vpc(l) \in Counts /\ scan.line[l].at \in Times BY <1>1 DEF Line, Vpc
<1>3. LineSize \in Nat /\ Vpc(l) \in Nat /\ Vpc(l) < LineSize
  <2>1. LineSize \in Nat BY ScanConstants
  <2>2. Vpc(l) \in 0 .. LineSize - 1 BY <1>2, ScanConstants
  <2>3. QED BY <2>1, <2>2
<1>4. Ipc(l) \in Nat \ {0} BY <1>3 DEF Ipc
<1>5. scan.arm \in 0 .. 59 /\ scan.line[l].at \in Nat
  BY <1>2, RunningIn, ScanConstants
<1>6. TransformAge(scan.arm, scan.line[l].at) \in Nat \ {0} BY <1>5, AgeIn
<1>7. Den(l) \in Nat \ {0} BY <1>4, <1>6, ProductPositive DEF Den
<1>8. QED BY <1>3, <1>4, <1>5, <1>6, <1>7

LEMMA PrecedesTransitive ==
  ASSUME ScanType, scan.pc = "scan",
         NEW u \in ScanLines, NEW v \in ScanLines, NEW l \in ScanLines,
         Candidate(u), Candidate(v), Candidate(l),
         Vpc(u) * Den(v) < Vpc(v) * Den(u), Precedes(v, l)
  PROVE  Precedes(u, l)
<1>1. /\ Vpc(u) \in Nat /\ Den(u) \in Nat \ {0} /\ Vpc(v) \in Nat /\ Den(v) \in Nat \ {0}
      /\ Vpc(l) \in Nat /\ Den(l) \in Nat \ {0}
  BY CandidateIn
<1>2. Vpc(v) * Den(l) <= Vpc(l) * Den(v)
  <2>1. Vpc(v) * Den(l) \in Nat /\ Vpc(l) * Den(v) \in Nat BY <1>1, ProductIn
  <2>2. QED BY <2>1 DEF Precedes
<1>3. Vpc(u) * Den(l) < Vpc(l) * Den(u) BY <1>1, <1>2, OrderTransitive
<1>4. QED BY <1>3 DEF Precedes

\* What is known of the lines does not change during the scan.
LEMMA LinesStay ==
  ASSUME scan'.line = scan.line, scan'.arm = scan.arm, scan'.force = scan.force
  PROVE  /\ \A l : (Candidate(l)' <=> Candidate(l)) /\ Vpc(l)' = Vpc(l) /\ Den(l)' = Den(l)
         /\ \A v, l : Precedes(v, l)' <=> Precedes(v, l)
BY DEF Candidate, Queued, Vpc, Den, Ipc, Precedes

\* cat_fig7_line_is_better decides between the next line and the victim.
LEMMA Judged ==
  ASSUME ScanInv, scan.pc = "scan", scan.i < NrLines, Candidate(scan.i),
         scan.victim # NoVictim,
         NEW cmp, cmp = Order(Vpc(scan.i), Den(scan.i), Vpc(scan.victim), Den(scan.victim)),
         Judge(cmp)
  PROVE  ScanInv'
<1> DEFINE n == scan.i
           v == scan.victim
<1>1. ScanType /\ Scanned BY DEF ScanInv
<1>2. n \in ScanLines /\ v \in ScanLines /\ n \in Nat /\ v \in Nat /\ v < n /\ Candidate(v)
      /\ n + 1 \in 0 .. NrLines /\ NrLines \in Nat /\ NrLines - 1 \in Int
  BY <1>1, RunningIn DEF Scanned, ScanLines, NoVictim
<1>3. /\ Vpc(n) \in Nat /\ Den(n) \in Nat \ {0} /\ Vpc(v) \in Nat /\ Den(v) \in Nat \ {0}
  BY <1>1, <1>2, CandidateIn
<1>4. Vpc(n) * Den(v) \in Nat /\ Vpc(v) * Den(n) \in Nat BY <1>3, ProductIn
<1> DEFINE better == cmp < 0 \/ (cmp = 0 /\ n < v)
           w == IF better THEN n ELSE v
<1>5. better <=> Vpc(n) * Den(v) < Vpc(v) * Den(n)
  <2>1. cmp = Sign(Vpc(n) * Den(v), Vpc(v) * Den(n)) BY DEF Order
  <2>2. cmp \in {-1, 0, 1} /\ (cmp < 0 <=> Vpc(n) * Den(v) < Vpc(v) * Den(n))
    BY <1>4, <2>1, SignIn
  <2>3. ~(n < v) BY <1>2
  <2>4. QED BY <2>2, <2>3
<1>6. scan' = [scan EXCEPT !.i = n + 1, !.frac = None, !.victim = w]
  BY DEF Judge
<1>7. /\ scan'.line = scan.line /\ scan'.arm = scan.arm /\ scan'.force = scan.force
      /\ scan'.i = n + 1 /\ scan'.frac = None /\ scan'.victim = w /\ scan'.pc = "scan"
      /\ ScanType'
  <2>1. w \in 0 .. NrLines BY <1>2
  <2> HIDE DEF w, n, v
  <2>2. scan' = [pc |-> "scan", line |-> scan.line, arm |-> scan.arm, force |-> scan.force,
                 i |-> n + 1, victim |-> w, frac |-> None]
    BY <1>1, <1>6, RunningIn
  <2>3. QED BY <1>1, <1>2, <2>1, <2>2, RunningIn DEF ScanType
<1>8. /\ w \in ScanLines /\ w < n + 1 /\ w # NoVictim /\ Candidate(w)
  BY <1>2 DEF NoVictim
<1>9. ASSUME NEW l \in ScanLines, l < n + 1, Candidate(l)
      PROVE  Precedes(w, l)
  <2>1. l \in Nat BY <1>2 DEF ScanLines
  <2>2. CASE l = n /\ better
    BY <1>2, <2>2 DEF Precedes
  <2>3. CASE l = n /\ ~better
    <3>1. Vpc(v) * Den(n) <= Vpc(n) * Den(v) BY <1>4, <1>5, <2>3
    <3>2. QED BY <1>2, <1>4, <2>3, <3>1 DEF Precedes
  <2>4. CASE l < n
    <3>1. Precedes(v, l) BY <1>1, <1>9, <2>4 DEF Scanned
    <3>2. CASE better
      <4>1. Precedes(n, l) BY <1>1, <1>2, <1>5, <1>9, <3>1, <3>2, PrecedesTransitive
      <4>2. QED BY <3>2, <4>1
    <3>3. QED BY <3>1, <3>2
  <2>5. QED BY <1>2, <1>9, <2>1, <2>2, <2>3, <2>4
<1>10. Scanned'
  <2> HIDE DEF w, n, v
  <2> QED BY <1>7, <1>8, <1>9, LinesStay DEF Scanned, NoVictim
<1>11. QED BY <1>7, <1>10 DEF ScanInv

LEMMA BeginKeeps ==
  ASSUME BeginScan
  PROVE  ScanInv'
<1>1. PICK line \in [ScanLines -> {None} \cup Line], arm \in ScanArms, force \in BOOLEAN :
        scan' = [pc |-> "scan", line |-> line, arm |-> arm, force |-> force,
                 i |-> 0, victim |-> NoVictim, frac |-> None]
  BY DEF BeginScan, Line
<1>2. NrLines \in Nat BY ScanConstants
<1>3. ScanType' BY <1>1, <1>2 DEF ScanType, NoVictim
<1>4. scan'.i = 0 /\ scan'.victim = NoVictim /\ scan'.frac = None BY <1>1
<1>5. \A l \in ScanLines : ~(l < 0) BY <1>2 DEF ScanLines
<1>6. Scanned' BY <1>4, <1>5 DEF Scanned
<1>7. QED BY <1>3, <1>6 DEF ScanInv

LEMMA SkipKeeps ==
  ASSUME ScanInv, Skip
  PROVE  ScanInv'
<1>1. /\ ScanType /\ Scanned /\ scan.pc = "scan" /\ scan.i < NrLines /\ scan.frac = None
      /\ ~Candidate(scan.i) /\ scan' = [scan EXCEPT !.i = scan.i + 1]
  BY DEF Skip, Looking, ScanInv
<1>2. /\ scan'.line = scan.line /\ scan'.arm = scan.arm /\ scan'.force = scan.force
      /\ scan'.i = scan.i + 1 /\ scan'.frac = None /\ scan'.victim = scan.victim
      /\ scan'.pc = "scan" /\ ScanType'
  <2>1. scan.i + 1 \in 0 .. NrLines BY <1>1, RunningIn
  <2>2. scan' = [pc |-> "scan", line |-> scan.line, arm |-> scan.arm, force |-> scan.force,
                 i |-> scan.i + 1, victim |-> scan.victim, frac |-> None]
    BY <1>1, RunningIn
  <2>3. QED BY <1>1, <2>1, <2>2, RunningIn DEF ScanType
<1>3. scan.i \in Nat /\ scan.victim \in Nat /\ ScanLines \subseteq Nat
  BY <1>1, RunningIn DEF ScanLines
<1>4. \A l \in ScanLines : l < scan.i + 1 /\ Candidate(l) => l < scan.i
  BY <1>1, <1>3
<1>5. Scanned' BY <1>1, <1>2, <1>3, <1>4, LinesStay DEF Scanned, NoVictim
<1>6. QED BY <1>2, <1>5 DEF ScanInv

LEMMA FirstKeeps ==
  ASSUME ScanInv, First
  PROVE  ScanInv'
<1>1. /\ ScanType /\ Scanned /\ scan.pc = "scan" /\ scan.i < NrLines /\ scan.frac = None
      /\ Candidate(scan.i) /\ scan.victim = NoVictim
      /\ scan' = [scan EXCEPT !.i = scan.i + 1, !.victim = scan.i]
  BY DEF First, Looking, ScanInv
<1>2. /\ scan'.line = scan.line /\ scan'.arm = scan.arm /\ scan'.force = scan.force
      /\ scan'.i = scan.i + 1 /\ scan'.frac = None /\ scan'.victim = scan.i
      /\ scan'.pc = "scan" /\ ScanType'
  <2>1. scan.i + 1 \in 0 .. NrLines BY <1>1, RunningIn
  <2>2. scan' = [pc |-> "scan", line |-> scan.line, arm |-> scan.arm, force |-> scan.force,
                 i |-> scan.i + 1, victim |-> scan.i, frac |-> None]
    BY <1>1, RunningIn
  <2>3. QED BY <1>1, <2>1, <2>2, RunningIn DEF ScanType
<1>3. scan.i \in Nat /\ ScanLines \subseteq Nat
  BY <1>1, RunningIn DEF ScanLines
<1>4. \A l \in ScanLines : l < scan.i + 1 /\ Candidate(l) => l = scan.i
  BY <1>1, <1>3 DEF Scanned
<1>5. scan.i # NoVictim /\ Precedes(scan.i, scan.i)
  BY <1>1, <1>3 DEF NoVictim, Precedes
<1>6. Scanned' BY <1>1, <1>2, <1>3, <1>4, <1>5, LinesStay DEF Scanned, NoVictim
<1>7. QED BY <1>2, <1>6 DEF ScanInv

LEMMA CompareKeeps ==
  ASSUME ScanInv, Compare
  PROVE  ScanInv'
<1> DEFINE an == Vpc(scan.i)
           ad == Den(scan.i)
           bn == Vpc(scan.victim)
           bd == Den(scan.victim)
           f == [an |-> an, ad |-> ad, bn |-> bn, bd |-> bd, reverse |-> FALSE]
<1>1. /\ ScanType /\ Scanned /\ scan.pc = "scan" /\ scan.i < NrLines /\ scan.frac = None
      /\ Candidate(scan.i) /\ scan.victim # NoVictim
  BY DEF Compare, Looking, ScanInv
<1>2. Judge(Sign(an * bd, bn * ad)) \/ scan' = [scan EXCEPT !.frac = f]
  BY DEF Compare
<1>3. CASE Judge(Sign(an * bd, bn * ad))
  <2>1. Sign(an * bd, bn * ad) = Order(an, ad, bn, bd) BY DEF Order
  <2>2. QED BY <1>1, <1>3, <2>1, Judged
<1>4. CASE scan' = [scan EXCEPT !.frac = f]
  <2>1. scan.i \in ScanLines /\ scan.victim \in ScanLines /\ Candidate(scan.victim)
    BY <1>1, RunningIn DEF Scanned, ScanLines, NoVictim
  <2>2. f \in Fraction
    <3>1. an \in Nat /\ ad \in Nat \ {0} /\ bn \in Nat /\ bd \in Nat \ {0}
      BY <1>1, <2>1, CandidateIn
    <3> HIDE DEF an, ad, bn, bd
    <3>2. QED BY <3>1 DEF Fraction
  <2>3. f.an = an /\ f.ad = ad /\ f.bn = bn /\ f.bd = bd /\ ~f.reverse OBVIOUS
  <2> HIDE DEF f
  <2>4. /\ scan'.line = scan.line /\ scan'.arm = scan.arm /\ scan'.force = scan.force
        /\ scan'.i = scan.i /\ scan'.frac = f /\ scan'.victim = scan.victim
        /\ scan'.pc = "scan" /\ ScanType'
    <3>1. scan' = [pc |-> "scan", line |-> scan.line, arm |-> scan.arm, force |-> scan.force,
                   i |-> scan.i, victim |-> scan.victim, frac |-> f]
      BY <1>1, <1>4, RunningIn
    <3>2. QED BY <1>1, <2>2, <3>1, RunningIn DEF ScanType
  <2>5. Comparing' BY <1>1, <2>3, <2>4, LinesStay DEF Comparing, NoVictim
  <2>6. Scanned' BY <1>1, <2>4, <2>5, LinesStay DEF Scanned, NoVictim
  <2>7. QED BY <2>4, <2>6 DEF ScanInv
<1>5. QED BY <1>2, <1>3, <1>4

\* The comparison under way.
LEMMA FractionIn ==
  ASSUME ScanInv, scan.pc = "scan", scan.frac # None
  PROVE  LET f == scan.frac
             o == Order(f.an, f.ad, f.bn, f.bd)
         IN  /\ f \in Fraction /\ Aq \in Nat /\ Ar \in Nat /\ Bq \in Nat /\ Br \in Nat
             /\ Aq < Bq => o = -1
             /\ Aq > Bq => o = 1
             /\ Aq = Bq => o = Sign(Ar * f.bd, Br * f.ad)
<1>1. scan.frac \in Fraction BY RunningIn DEF ScanInv
<1>2. /\ scan.frac.an \in Nat /\ scan.frac.ad \in Nat \ {0}
      /\ scan.frac.bn \in Nat /\ scan.frac.bd \in Nat \ {0}
  BY <1>1 DEF Fraction
<1> DEFINE an == scan.frac.an
           ad == scan.frac.ad
           bn == scan.frac.bn
           bd == scan.frac.bd
<1>3. Aq = an \div ad /\ Ar = an % ad /\ Bq = bn \div bd /\ Br = bn % bd
  BY DEF Aq, Ar, Bq, Br
<1>4. /\ an \div ad \in Nat /\ an % ad \in Nat /\ bn \div bd \in Nat /\ bn % bd \in Nat
      /\ an \div ad < bn \div bd => Order(an, ad, bn, bd) = -1
      /\ an \div ad > bn \div bd => Order(an, ad, bn, bd) = 1
      /\ an \div ad = bn \div bd =>
           Order(an, ad, bn, bd) = Sign((an % ad) * bd, (bn % bd) * ad)
  <2> HIDE DEF an, ad, bn, bd
  <2>1. an \in Nat /\ ad \in Nat \ {0} /\ bn \in Nat /\ bd \in Nat \ {0}
    BY <1>2 DEF an, ad, bn, bd
  <2>2. /\ an \div ad \in Nat /\ an % ad \in Nat /\ bn \div bd \in Nat /\ bn % bd \in Nat
    BY <2>1, Division
  <2>3. /\ an \div ad < bn \div bd => Order(an, ad, bn, bd) = -1
        /\ an \div ad > bn \div bd => Order(an, ad, bn, bd) = 1
        /\ an \div ad = bn \div bd =>
             Order(an, ad, bn, bd) = Sign((an % ad) * bd, (bn % bd) * ad)
    BY <2>1, OrderDivided, Zenon
  <2>4. QED BY <2>2, <2>3
<1>5. QED
  <2>1. /\ Aq < Bq => Order(an, ad, bn, bd) = -1
        /\ Aq > Bq => Order(an, ad, bn, bd) = 1
        /\ Aq = Bq => Order(an, ad, bn, bd) = Sign(Ar * bd, Br * ad)
        /\ Aq \in Nat /\ Ar \in Nat /\ Bq \in Nat /\ Br \in Nat
    <3> HIDE DEF an, ad, bn, bd
    <3> QED BY <1>3, <1>4
  <2>2. QED BY <1>1, <2>1

LEMMA DecideKeeps ==
  ASSUME ScanInv, Decide
  PROVE  ScanInv'
<1> DEFINE f == scan.frac
           o == Order(f.an, f.ad, f.bn, f.bd)
<1>1. scan.pc = "scan" /\ f # None /\ Ends /\ ScanType /\ Scanned /\ Comparing
  BY DEF Decide, ScanInv, Scanned
<1>2. /\ f \in Fraction /\ Aq \in Nat /\ Ar \in Nat /\ Bq \in Nat /\ Br \in Nat
      /\ Aq < Bq => o = -1
      /\ Aq > Bq => o = 1
      /\ Aq = Bq => o = Sign(Ar * f.bd, Br * f.ad)
  BY <1>1, FractionIn
<1>3. f.ad \in Nat \ {0} /\ f.bd \in Nat \ {0} /\ f.reverse \in BOOLEAN
  BY <1>2 DEF Fraction
<1>4. Verdict = o
  <2>1. CASE Aq # Bq
    BY <1>2, <2>1 DEF Verdict, Sign
  <2>2. CASE Aq = Bq
    <3>1. Ar = 0 => Ar * f.bd = 0 BY <1>3
    <3>2. Br = 0 => Br * f.ad = 0 BY <1>3
    <3>3. Ar # 0 => Ar * f.bd \in Nat \ {0} BY <1>2, <1>3, ProductPositive
    <3>4. Br # 0 => Br * f.ad \in Nat \ {0} BY <1>2, <1>3, ProductPositive
    <3>5. QED
      <4> DEFINE x == Ar * f.bd
                 y == Br * f.ad
      <4>1. o = Sign(x, y) BY <1>2, <2>2
      <4>2. (Ar = 0 => x = 0) /\ (Br = 0 => y = 0) /\ (Ar # 0 => x \in Nat \ {0})
            /\ (Br # 0 => y \in Nat \ {0})
        BY <3>1, <3>2, <3>3, <3>4
      <4> HIDE DEF x, y, o
      <4>3. QED BY <1>1, <1>2, <2>2, <4>1, <4>2 DEF Verdict, Sign, Ends
  <2>3. QED BY <2>1, <2>2
<1> DEFINE cmp == IF f.reverse THEN -Verdict ELSE Verdict
<1>5. Judge(cmp) BY DEF Decide
<1>6. cmp = Order(Vpc(scan.i), Den(scan.i), Vpc(scan.victim), Den(scan.victim))
  BY <1>1, <1>4 DEF Comparing
<1>7. scan.i < NrLines /\ Candidate(scan.i) /\ scan.victim # NoVictim
  BY <1>1 DEF Comparing
<1>8. QED
  <2> HIDE DEF cmp
  <2> QED BY <1>1, <1>5, <1>6, <1>7, Judged

LEMMA DivideKeeps ==
  ASSUME ScanInv, Divide
  PROVE  ScanInv'
<1> DEFINE f == scan.frac
           o == Order(f.an, f.ad, f.bn, f.bd)
           g == [an |-> f.ad, ad |-> Ar, bn |-> f.bd, bd |-> Br, reverse |-> ~f.reverse]
           p == Order(f.ad, Ar, f.bd, Br)
<1>1. scan.pc = "scan" /\ f # None /\ ~Ends /\ ScanType /\ Scanned /\ Comparing
      /\ scan' = [scan EXCEPT !.frac = g]
  BY DEF Divide, ScanInv, Scanned
<1>2. /\ f \in Fraction /\ Ar \in Nat \ {0} /\ Br \in Nat \ {0}
      /\ o = Sign(Ar * f.bd, Br * f.ad)
  <2>1. Aq = Bq /\ Ar # 0 /\ Br # 0 BY <1>1 DEF Ends
  <2>2. QED BY <1>1, <2>1, FractionIn
<1>3. f.ad \in Nat \ {0} /\ f.bd \in Nat \ {0} /\ f.reverse \in BOOLEAN
  BY <1>2 DEF Fraction
<1>4. o \in {-1, 0, 1} /\ p = -o
  <2>1. Ar * f.bd \in Nat /\ Br * f.ad \in Nat /\ f.ad * Br = Br * f.ad /\ f.bd * Ar = Ar * f.bd
    BY <1>2, <1>3, ProductIn
  <2>2. p = Sign(Br * f.ad, Ar * f.bd) BY <2>1 DEF Order
  <2>3. QED BY <1>2, <2>1, <2>2, SignIn
<1>5. g \in Fraction BY <1>2, <1>3 DEF Fraction
<1>6. g.an = f.ad /\ g.ad = Ar /\ g.bn = f.bd /\ g.bd = Br /\ g.reverse = ~f.reverse
  OBVIOUS
<1>7. Order(g.an, g.ad, g.bn, g.bd) = p BY <1>6
<1> HIDE DEF g, p
<1>8. /\ scan'.line = scan.line /\ scan'.arm = scan.arm /\ scan'.force = scan.force
      /\ scan'.i = scan.i /\ scan'.frac = g /\ scan'.victim = scan.victim
      /\ scan'.pc = "scan" /\ ScanType'
  <2>1. scan' = [pc |-> "scan", line |-> scan.line, arm |-> scan.arm, force |-> scan.force,
                 i |-> scan.i, victim |-> scan.victim, frac |-> g]
    BY <1>1, RunningIn
  <2>2. QED BY <1>1, <1>5, <2>1, RunningIn DEF ScanType
<1> HIDE DEF o
<1>9. (IF g.reverse THEN -p ELSE p) = (IF f.reverse THEN -o ELSE o)
  <2>1. CASE f.reverse
    <3>1. ~g.reverse BY <1>6, <2>1
    <3>2. QED BY <1>4, <2>1, <3>1
  <2>2. CASE ~f.reverse
    <3>1. g.reverse BY <1>6, <2>2
    <3>2. -p = o BY <1>4
    <3>3. QED BY <2>2, <3>1, <3>2
  <2>3. QED BY <2>1, <2>2
<1>10. Comparing'
  <2>1. Order(Vpc(scan.i), Den(scan.i), Vpc(scan.victim), Den(scan.victim))
          = IF f.reverse THEN -o ELSE o
    BY <1>1 DEF Comparing, o
  <2>2. scan'.i < NrLines /\ Candidate(scan.i)' /\ scan'.victim # NoVictim
    BY <1>1, <1>8, LinesStay DEF Comparing
  <2>3. Order(Vpc(scan.i), Den(scan.i), Vpc(scan.victim), Den(scan.victim))'
          = Order(Vpc(scan.i), Den(scan.i), Vpc(scan.victim), Den(scan.victim))
    BY <1>8, LinesStay
  <2>4. QED BY <1>7, <1>8, <1>9, <2>1, <2>2, <2>3 DEF Comparing, NoVictim
<1>11. Scanned' BY <1>1, <1>8, <1>10, LinesStay DEF Scanned, NoVictim
<1>12. QED BY <1>8, <1>11 DEF ScanInv

LEMMA ScanKeeps ==
  ASSUME ScanInv, [CNext]_<<vars, scan>>
  PROVE  ScanInv'
<1>1. CASE scan' = scan
  <2>1. ScanType' BY <1>1 DEF ScanInv, ScanType
  <2>2. /\ \A l : (Candidate(l)' <=> Candidate(l)) /\ Vpc(l)' = Vpc(l) /\ Den(l)' = Den(l)
        /\ \A v, l : Precedes(v, l)' <=> Precedes(v, l)
    BY <1>1, LinesStay
  <2>3. Comparing => Comparing' BY <1>1, <2>2 DEF Comparing
  <2>4. Scanned' BY <1>1, <2>2, <2>3 DEF ScanInv, Scanned
  <2>5. QED BY <2>1, <2>4 DEF ScanInv
<1>2. CASE Select
  <2>1. scan' = Chosen BY <1>2 DEF Select
  <2>2. scan'.pc # "scan" BY <2>1 DEF Chosen
  <2>3. QED BY <2>1, <2>2 DEF ScanInv, ScanType, Scanned
<1>3. scan' = scan \/ BeginScan \/ ScanStep
  BY DEF CNext, Filling, Selecting, Walking
<1>4. QED BY <1>1, <1>2, <1>3, BeginKeeps, SkipKeeps, FirstKeeps, CompareKeeps,
             DecideKeeps, DivideKeeps DEF ScanStep

LEMMA ScanInvariant == CSpec => []ScanInv
<1>1. CInit => ScanInv BY DEF CInit, ScanInit, Idle, ScanInv, ScanType, Scanned
<1>2. ScanInv /\ [CNext]_<<vars, scan>> => ScanInv' BY ScanKeeps
<1>3. QED BY <1>1, <1>2, PTL DEF CSpec

\* However the quotients were compared, by their cross products or by
\* continued division, the scan ends with the candidate of the least one
\* (select_victim_line, watgc_v2_fraction_cmp).
THEOREM PicksBestAlways == CSpec => []PicksBest
<1>1. ASSUME ScanInv, Over PROVE PicksBest
  <2>1. scan.pc = "scan" /\ scan.i = NrLines /\ Scanned /\ ScanType BY <1>1 DEF Over, ScanInv
  <2>2. \A l \in ScanLines : l < scan.i
    BY <2>1, ScanConstants DEF ScanLines
  <2>3. QED BY <2>1, <2>2 DEF PicksBest, Scanned, Precedes
<1>2. ScanInv => PicksBest BY <1>1 DEF PicksBest
<1>3. QED BY <1>2, ScanInvariant, PTL

\* No arm makes do_gc prefer a line to one that has fewer valid pages and
\* rested longer (cat_fig7_transform_age, cat_fig7_line_is_better).
THEOREM NotDominatedAlways == CSpec => []NotDominated
<1>1. ASSUME ScanInv, Over, scan.victim # NoVictim, NEW l \in ScanLines, Candidate(l),
             Vpc(l) < Vpc(scan.victim), scan.line[l].at # 0,
             scan.line[l].at <= scan.line[scan.victim].at
      PROVE  FALSE
  <2> DEFINE v == scan.victim
             a == TransformAge(scan.arm, scan.line[l].at)
             b == TransformAge(scan.arm, scan.line[v].at)
  <2>1. /\ scan.pc = "scan" /\ scan.i = NrLines /\ ScanType /\ Scanned
        /\ v \in ScanLines /\ Candidate(v) /\ l < scan.i
    <3>1. scan.pc = "scan" /\ scan.i = NrLines /\ ScanType /\ Scanned
      BY <1>1 DEF Over, ScanInv
    <3>2. QED BY <1>1, <3>1, RunningIn DEF Scanned, ScanLines, NoVictim
  <2>2. /\ Vpc(l) \in Nat /\ Ipc(l) \in Nat \ {0} /\ a \in Nat \ {0}
        /\ scan.line[l].at \in Nat /\ scan.arm \in 0 .. 59
        /\ Vpc(v) \in Nat /\ Ipc(v) \in Nat \ {0} /\ b \in Nat \ {0}
        /\ scan.line[v].at \in Nat /\ Den(l) \in Nat \ {0} /\ Den(v) \in Nat \ {0}
        /\ Den(l) = Ipc(l) * a /\ Den(v) = Ipc(v) * b
    BY <1>1, <2>1, CandidateIn DEF Den
  <2>3. b <= a BY <1>1, <2>2, AgeRises
  <2>4. Ipc(v) <= Ipc(l) BY <1>1, <2>2, ScanConstants DEF Ipc
  <2>5. Den(v) <= Den(l)
    <3> HIDE DEF a, b, v
    <3>1. Ipc(v) * b <= Ipc(l) * b BY <2>2, <2>4, ProductLess
    <3>2. b * Ipc(l) <= a * Ipc(l) BY <2>2, <2>3, ProductLess
    <3>3. b * Ipc(l) = Ipc(l) * b /\ a * Ipc(l) = Ipc(l) * a
      BY <2>2, ProductIn
    <3>4. Ipc(v) * b \in Nat /\ Ipc(l) * b \in Nat /\ Ipc(l) * a \in Nat
      BY <2>2, ProductIn
    <3>5. QED BY <2>2, <3>1, <3>2, <3>3, <3>4
  <2>6. Vpc(l) * Den(v) < Vpc(v) * Den(l)
    <3> HIDE DEF a, b, v
    <3>1. Vpc(l) * Den(v) < Vpc(v) * Den(v) BY <1>1, <2>2, ProductLess DEF v
    <3>2. Den(v) * Vpc(v) <= Den(l) * Vpc(v) BY <2>2, <2>5, ProductLess
    <3>3. Den(v) * Vpc(v) = Vpc(v) * Den(v) /\ Den(l) * Vpc(v) = Vpc(v) * Den(l)
      BY <2>2, ProductIn
    <3>4. Vpc(l) * Den(v) \in Nat /\ Vpc(v) * Den(v) \in Nat /\ Vpc(v) * Den(l) \in Nat
      BY <2>2, ProductIn
    <3>5. QED BY <3>1, <3>2, <3>3, <3>4
  <2>7. Vpc(l) * Den(v) \in Nat /\ Vpc(v) * Den(l) \in Nat
    <3> HIDE DEF v
    <3> QED BY <2>2, ProductIn
  <2>8. Precedes(v, l) BY <1>1, <2>1 DEF Scanned
  <2>9. QED BY <2>6, <2>7, <2>8 DEF Precedes
<1>2. ScanInv => NotDominated BY <1>1 DEF NotDominated
<1>3. QED BY <1>2, ScanInvariant, PTL

(***************************************************************************)
(* The geometry                                                            *)
(***************************************************************************)
LEMMA Geometry ==
  /\ Nchs \in Nat \ {0} /\ LunsPerCh \in Nat \ {0} /\ WordLines \in Nat \ {0}
  /\ PgsPerOneshot \in Nat \ {0} /\ PgsPerFlash \in Nat \ {0}
  /\ PgsPerBlk = WordLines * PgsPerOneshot /\ PgsPerBlk \in Nat \ {0}
  /\ FlashPgsPerBlk \in Nat \ {0} /\ PgsPerBlk = FlashPgsPerBlk * PgsPerFlash
<1>1. /\ Nchs \in Nat \ {0} /\ LunsPerCh \in Nat \ {0} /\ WordLines \in Nat \ {0}
      /\ PgsPerOneshot \in Nat \ {0} /\ PgsPerFlash \in Nat \ {0}
      /\ PgsPerOneshot % PgsPerFlash = 0
  BY GeometryAssumption
<1> DEFINE m == PgsPerOneshot \div PgsPerFlash
<1>2. m \in Nat /\ PgsPerOneshot = m * PgsPerFlash + 0 BY <1>1, Division
<1> HIDE DEF m
<1>3. m * PgsPerFlash \in Nat /\ PgsPerOneshot = m * PgsPerFlash BY <1>1, <1>2, ProductIn
<1>4. m # 0
  <2>1. 0 * PgsPerFlash = 0 BY <1>1
  <2>2. QED BY <1>1, <1>3, <2>1
<1>5. WordLines * m \in Nat \ {0} BY <1>1, <1>2, <1>4, ProductPositive
<1>6. WordLines * (m * PgsPerFlash) = (WordLines * m) * PgsPerFlash
  BY <1>1, <1>2
<1>7. PgsPerBlk = (WordLines * m) * PgsPerFlash + 0
  <2>1. (WordLines * m) * PgsPerFlash \in Nat BY <1>1, <1>5, ProductIn
  <2>2. QED BY <1>3, <1>6, <2>1 DEF PgsPerBlk
<1>8. FlashPgsPerBlk = WordLines * m
  <2> DEFINE q == WordLines * m
  <2>1. (q * PgsPerFlash + 0) \div PgsPerFlash = q
    <3>1. q \in Nat /\ 0 \in Nat /\ 0 < PgsPerFlash BY <1>1, <1>5
    <3> HIDE DEF q
    <3>2. QED BY <1>1, <3>1, DivisionOnly
  <2>2. QED BY <1>7, <2>1 DEF FlashPgsPerBlk
<1>9. PgsPerBlk = FlashPgsPerBlk * PgsPerFlash
  <2>1. (WordLines * m) * PgsPerFlash \in Nat BY <1>1, <1>5, ProductIn
  <2>2. QED BY <1>7, <1>8, <2>1
<1>10. PgsPerBlk \in Nat \ {0} BY <1>1, ProductPositive DEF PgsPerBlk
<1>11. QED BY <1>1, <1>5, <1>8, <1>9, <1>10 DEF PgsPerBlk

LEMMA PpaIn ==
  ASSUME NEW p \in Ppas
  PROVE  /\ p.ch \in Nat /\ p.ch < Nchs /\ p.lun \in Nat /\ p.lun < LunsPerCh
         /\ p.pg \in Nat /\ p.pg < PgsPerBlk
<1>1. p.ch \in 0 .. Nchs - 1 /\ p.lun \in 0 .. LunsPerCh - 1 /\ p.pg \in 0 .. PgsPerBlk - 1
  BY DEF Ppas
<1>2. Nchs \in Nat /\ LunsPerCh \in Nat /\ PgsPerBlk \in Nat BY Geometry
<1>3. QED BY <1>1, <1>2

\* The places of three wheels, the first of which turns slowest: a of any
\* number, b below n, c below m.
Place(a, b, c, n, m) == (a * n + b) * m + c

LEMMA PlaceIn ==
  ASSUME NEW a \in Nat, NEW b \in Nat, NEW c \in Nat,
         NEW n \in Nat \ {0}, NEW m \in Nat \ {0}
  PROVE  /\ a * n + b \in Nat /\ Place(a, b, c, n, m) \in Nat
         \* the last wheel turns
         /\ Place(a, b, c + 1, n, m) = Place(a, b, c, n, m) + 1
         \* it has turned, and the next one does
         /\ c = m - 1 => Place(a, b + 1, 0, n, m) = Place(a, b, c, n, m) + 1
         \* both have
         /\ c = m - 1 /\ b = n - 1 => Place(a + 1, 0, 0, n, m) = Place(a, b, c, n, m) + 1
<1>1. a * n \in Nat /\ a * n + b \in Nat BY ProductIn
<1>2. (a * n + b) * m \in Nat BY <1>1, ProductIn
<1>3. Place(a, b, c, n, m) \in Nat /\ Place(a, b, c + 1, n, m) = Place(a, b, c, n, m) + 1
  BY <1>2 DEF Place
<1>4. ASSUME c = m - 1
      PROVE  Place(a, b + 1, 0, n, m) = Place(a, b, c, n, m) + 1
  <2>1. ((a * n + b) + 1) * m = (a * n + b) * m + 1 * m BY <1>1, Distribute
  <2>2. a * n + (b + 1) = (a * n + b) + 1 BY <1>1
  <2>3. QED BY <1>2, <1>4, <2>1, <2>2 DEF Place
<1>5. ASSUME c = m - 1, b = n - 1
      PROVE  Place(a + 1, 0, 0, n, m) = Place(a, b, c, n, m) + 1
  <2>1. (a + 1) * n = a * n + 1 * n BY Distribute
  <2>2. (a + 1) * n + 0 = a * n + (b + 1) BY <1>1, <1>5, <2>1
  <2>3. Place(a + 1, 0, 0, n, m) = Place(a, b + 1, 0, n, m) BY <2>2 DEF Place
  <2>4. QED BY <1>4, <1>5, <2>3
<1>6. QED BY <1>1, <1>3, <1>4, <1>5

\* The same for the last two wheels and for all three.
LEMMA PlaceTurn ==
  ASSUME NEW a \in Nat, NEW b \in Nat, NEW c \in Nat,
         NEW n \in Nat \ {0}, NEW m \in Nat \ {0}, c = m - 1
  PROVE  Place(a, b + 1, 0, n, m) = Place(a, b, c, n, m) + 1
BY PlaceIn

LEMMA PlaceTurnBoth ==
  ASSUME NEW a \in Nat, NEW b \in Nat, NEW c \in Nat,
         NEW n \in Nat \ {0}, NEW m \in Nat \ {0}, c = m - 1, b = n - 1
  PROVE  Place(a + 1, 0, 0, n, m) = Place(a, b, c, n, m) + 1
BY PlaceIn

LEMMA RankOnly ==
  ASSUME NEW p \in Ppas, NEW c \in Nat, NEW l \in Nat, l < LunsPerCh
  PROVE  p.ch * LunsPerCh + p.lun = c * LunsPerCh + l <=> p.ch = c /\ p.lun = l
<1>1. /\ p.ch \in Nat /\ p.lun \in Nat /\ p.lun < LunsPerCh /\ LunsPerCh \in Nat \ {0}
  BY PpaIn, Geometry
<1>2. (p.ch * LunsPerCh + p.lun) \div LunsPerCh = p.ch /\ (p.ch * LunsPerCh + p.lun) % LunsPerCh = p.lun
  BY <1>1, DivisionOnly
<1>3. (c * LunsPerCh + l) \div LunsPerCh = c /\ (c * LunsPerCh + l) % LunsPerCh = l
  BY <1>1, DivisionOnly
<1>4. QED BY <1>2, <1>3

(***************************************************************************)
(* The write pointer                                                       *)
(***************************************************************************)
FillInv ==
  /\ phase \in {"fill", "collect", "done"}
  /\ filled \in Seq(Ppas) /\ \A k \in 1 .. Len(filled) : WriteOffset(filled[k]) = k - 1
  /\ phase = "fill" => wp \in Ppas /\ Len(filled) = WriteOffset(wp)
  /\ phase # "fill" => Len(filled) = LinePages

\* The pages of a block by wordline, and where they are written.
LEMMA PageWrittenAt ==
  ASSUME NEW q \in Nat, NEW r \in Nat, r < PgsPerOneshot, NEW c \in Nat, NEW l \in Nat
  PROVE  WriteOffset([ch |-> c, lun |-> l, pg |-> q * PgsPerOneshot + r])
           = Place(q * LunsPerCh + l, c, r, Nchs, PgsPerOneshot)
<1>1. (q * PgsPerOneshot + r) \div PgsPerOneshot = q /\ (q * PgsPerOneshot + r) % PgsPerOneshot = r
  BY DivisionOnly, Geometry
<1>2. QED BY <1>1 DEF WriteOffset, Place

LEMMA FillKeeps ==
  ASSUME FillInv, AdvanceWritePointer
  PROVE  FillInv'
<1> DEFINE q == wp.pg \div PgsPerOneshot
           r == wp.pg % PgsPerOneshot
           x == q * LunsPerCh + wp.lun
           P == PgsPerOneshot
<1>1. phase = "fill" /\ wp \in Ppas /\ Len(filled) = WriteOffset(wp) /\ filled' = Append(filled, wp)
      /\ filled \in Seq(Ppas) /\ \A k \in 1 .. Len(filled) : WriteOffset(filled[k]) = k - 1
  BY DEF FillInv, AdvanceWritePointer
<1>2. /\ wp.ch \in Nat /\ wp.ch < Nchs /\ wp.lun \in Nat /\ wp.lun < LunsPerCh
      /\ wp.pg \in Nat /\ wp.pg < PgsPerBlk /\ PgsPerBlk = WordLines * P
      /\ P \in Nat \ {0} /\ Nchs \in Nat \ {0} /\ LunsPerCh \in Nat \ {0} /\ WordLines \in Nat \ {0}
  BY <1>1, PpaIn, Geometry
<1>3. q \in Nat /\ r \in Nat /\ r < P /\ wp.pg = q * P + r BY <1>2, Division
<1> HIDE DEF q, r
<1>4. q * P \in Nat /\ q * LunsPerCh \in Nat /\ x \in Nat
  <2>1. q * P \in Nat /\ q * LunsPerCh \in Nat BY <1>2, <1>3, ProductIn
  <2>2. QED BY <1>2, <2>1
<1>5. wp = [ch |-> wp.ch, lun |-> wp.lun, pg |-> q * P + r] BY <1>1, <1>3 DEF Ppas
<1>6. Len(filled) = Place(x, wp.ch, r, Nchs, P)
  <2>1. WriteOffset([ch |-> wp.ch, lun |-> wp.lun, pg |-> q * PgsPerOneshot + r])
          = Place(q * LunsPerCh + wp.lun, wp.ch, r, Nchs, PgsPerOneshot)
    BY <1>2, <1>3, PageWrittenAt
  <2>2. QED BY <1>1, <1>5, <2>1
<1>7. /\ filled' \in Seq(Ppas) /\ Len(filled') = Len(filled) + 1 /\ Len(filled) \in Nat
      /\ \A k \in 1 .. Len(filled') : WriteOffset(filled'[k]) = k - 1
  BY <1>1
<1>8. /\ r + 1 < P => (wp.pg + 1) % P = r + 1
      /\ r + 1 = P => (wp.pg + 1) % P = 0 /\ wp.pg + 1 = (q + 1) * P
  <2>1. ASSUME r + 1 < P PROVE (wp.pg + 1) % P = r + 1
    <3>1. (q * P + (r + 1)) % P = r + 1
      <4>1. q \in Nat /\ r + 1 \in Nat /\ P \in Nat \ {0} /\ r + 1 < P
        BY <1>2, <1>3, <2>1
      <4> HIDE DEF x, P
      <4>2. QED BY <4>1, DivisionOnly
    <3>2. wp.pg + 1 = q * P + (r + 1) BY <1>3, <1>4
    <3>3. QED BY <3>1, <3>2
  <2>2. ASSUME r + 1 = P PROVE (wp.pg + 1) % P = 0 /\ wp.pg + 1 = (q + 1) * P
    <3>1. (q + 1) * P = q * P + 1 * P BY <1>2, <1>3, Distribute
    <3>2. wp.pg + 1 = (q + 1) * P + 0 BY <1>2, <1>3, <1>4, <2>2, <3>1
    <3>3. ((q + 1) * P + 0) % P = 0
      <4>1. q + 1 \in Nat /\ 0 \in Nat /\ 0 < P BY <1>2, <1>3
      <4> HIDE DEF P
      <4>2. QED BY <1>2, <4>1, DivisionOnly
    <3>4. QED BY <1>2, <1>4, <3>1, <3>2, <3>3
  <2>3. QED BY <2>1, <2>2
<1>9. EndOfOneshot(wp) <=> r = P - 1 BY <1>2, <1>3, <1>8 DEF EndOfOneshot
<1>10. PgsPerBlk % P = 0
  <2>1. (WordLines * P + 0) % P = 0
    <3>1. WordLines \in Nat /\ 0 \in Nat /\ 0 < P BY <1>2
    <3> HIDE DEF P
    <3>2. QED BY <1>2, <3>1, DivisionOnly
  <2>2. WordLines * P + 0 = PgsPerBlk BY <1>2, Geometry
  <2>3. QED BY <2>1, <2>2
<1>11. ASSUME NEW w \in Ppas, wp' = w, phase' = "fill", WriteOffset(w) = Len(filled) + 1
       PROVE  FillInv'
  BY <1>7, <1>11 DEF FillInv
<1> HIDE DEF x, P
<1>12. x \in Nat /\ wp.ch \in Nat /\ r \in Nat /\ Nchs \in Nat \ {0} /\ P \in Nat \ {0}
  BY <1>2, <1>3, <1>4
<1>13. CASE ~EndOfOneshot(wp)
  <2> DEFINE w == [ch |-> wp.ch, lun |-> wp.lun, pg |-> q * P + (r + 1)]
  <2>1. wp' = w /\ phase' = "fill"
    <3>1. wp' = [wp EXCEPT !.pg = wp.pg + 1] /\ phase' = "fill"
      BY <1>1, <1>13 DEF AdvanceWritePointer
    <3>2. wp.pg + 1 = q * P + (r + 1) BY <1>3, <1>4
    <3>3. QED BY <1>1, <3>1, <3>2 DEF Ppas
  <2>2. r + 1 < P /\ r + 1 \in Nat BY <1>2, <1>3, <1>9, <1>13
  <2>3. wp.pg + 1 < PgsPerBlk /\ q * P + (r + 1) = wp.pg + 1
    <3>1. wp.pg + 1 # PgsPerBlk BY <1>3, <1>8, <1>10, <2>2
    <3>2. QED BY <1>2, <1>3, <1>4, <3>1, Geometry
  <2>4. w \in Ppas BY <1>2, <1>3, <1>4, <2>2, <2>3, Geometry DEF Ppas
  <2>5. WriteOffset(w) = Len(filled) + 1
    <3>1. WriteOffset(w) = Place(x, wp.ch, r + 1, Nchs, P)
      BY <1>2, <1>3, <2>2, PageWrittenAt DEF x, P
    <3>2. Place(x, wp.ch, r + 1, Nchs, P) = Place(x, wp.ch, r, Nchs, P) + 1
      <4>1. x * Nchs + wp.ch \in Nat BY <1>12, PlaceIn
      <4> HIDE DEF w
      <4>2. (x * Nchs + wp.ch) * P \in Nat BY <1>12, <4>1, ProductIn
      <4>3. QED BY <1>12, <4>2 DEF Place
    <3>3. QED BY <1>6, <3>1, <3>2
  <2> HIDE DEF w
  <2>6. QED BY <1>11, <2>1, <2>4, <2>5
<1>14. CASE EndOfOneshot(wp) /\ ~LastChannel(wp)
  <2> DEFINE w == [ch |-> wp.ch + 1, lun |-> wp.lun, pg |-> q * P + 0]
  <2>1. r = P - 1 /\ FirstOfOneshot(wp) = q * P + 0
    BY <1>2, <1>3, <1>4, <1>9, <1>14 DEF FirstOfOneshot, P
  <2>2. wp' = w /\ phase' = "fill"
    BY <1>1, <1>14, <2>1 DEF AdvanceWritePointer, Ppas
  <2>3. wp.ch + 1 < Nchs BY <1>2, <1>14 DEF LastChannel
  <2>4. w \in Ppas BY <1>2, <1>3, <1>4, <2>3, Geometry DEF Ppas
  <2>5. WriteOffset(w) = Len(filled) + 1
    <3>1. WriteOffset(w) = Place(x, wp.ch + 1, 0, Nchs, P)
      BY <1>2, <1>3, PageWrittenAt DEF x, P
    <3>2. Place(x, wp.ch + 1, 0, Nchs, P) = Place(x, wp.ch, r, Nchs, P) + 1
      BY <1>12, <2>1, PlaceTurn
    <3>3. QED BY <1>6, <3>1, <3>2
  <2> HIDE DEF w
  <2>6. QED BY <1>11, <2>2, <2>4, <2>5
<1>15. CASE EndOfOneshot(wp) /\ LastChannel(wp) /\ ~LastLun(wp)
  <2> DEFINE w == [ch |-> 0, lun |-> wp.lun + 1, pg |-> q * P + 0]
  <2>1. r = P - 1 /\ FirstOfOneshot(wp) = q * P + 0
    BY <1>2, <1>3, <1>4, <1>9, <1>15 DEF FirstOfOneshot, P
  <2>2. wp' = w /\ phase' = "fill"
    BY <1>1, <1>15, <2>1 DEF AdvanceWritePointer
  <2>3. wp.lun + 1 < LunsPerCh /\ wp.ch = Nchs - 1 BY <1>2, <1>15 DEF LastChannel, LastLun
  <2>4. w \in Ppas BY <1>2, <1>3, <1>4, <2>3, Geometry DEF Ppas
  <2>5. WriteOffset(w) = Len(filled) + 1
    <3>1. WriteOffset(w) = Place(q * LunsPerCh + (wp.lun + 1), 0, 0, Nchs, P)
      BY <1>2, <1>3, PageWrittenAt DEF P
    <3>2. q * LunsPerCh + (wp.lun + 1) = x + 1
      <4>1. q * LunsPerCh \in Nat BY <1>2, <1>3, ProductIn
      <4>2. QED BY <1>2, <4>1 DEF x
    <3>3. Place(x + 1, 0, 0, Nchs, P) = Place(x, wp.ch, r, Nchs, P) + 1
      BY <1>12, <2>1, <2>3, PlaceTurnBoth
    <3>4. QED BY <1>6, <3>1, <3>2, <3>3
  <2> HIDE DEF w
  <2>6. QED BY <1>11, <2>2, <2>4, <2>5
<1>16. CASE EndOfOneshot(wp) /\ LastChannel(wp) /\ LastLun(wp)
  <2>1. /\ r = P - 1 /\ wp.ch = Nchs - 1 /\ wp.lun = LunsPerCh - 1
        /\ wp.pg + 1 = (q + 1) * P /\ q + 1 \in Nat /\ (q + 1) * P \in Nat
    <3>1. r = P - 1 /\ wp.ch = Nchs - 1 /\ wp.lun = LunsPerCh - 1 /\ q + 1 \in Nat
      BY <1>2, <1>3, <1>9, <1>16 DEF LastChannel, LastLun
    <3>2. QED BY <1>2, <1>3, <1>8, <3>1
  <2>2. x + 1 = (q + 1) * LunsPerCh /\ (q + 1) * LunsPerCh \in Nat
    <3>1. (q + 1) * LunsPerCh = q * LunsPerCh + 1 * LunsPerCh BY <1>2, <1>3, Distribute
    <3>2. q * LunsPerCh \in Nat BY <1>2, <1>3, ProductIn
    <3>3. QED BY <1>2, <2>1, <3>1, <3>2 DEF x
  <2>3. Len(filled) + 1 = Place((q + 1) * LunsPerCh, 0, 0, Nchs, P)
    <3>1. Place(x + 1, 0, 0, Nchs, P) = Place(x, wp.ch, r, Nchs, P) + 1
      BY <1>12, <2>1, PlaceTurnBoth
    <3>2. QED BY <1>6, <2>2, <3>1
  <2>4. CASE wp.pg + 1 # PgsPerBlk
    <3> DEFINE w == [ch |-> 0, lun |-> 0, pg |-> (q + 1) * P + 0]
    <3>1. (q + 1) * P + 0 = wp.pg + 1 BY <2>1
    <3>2. wp' = w /\ phase' = "fill"
      BY <1>1, <1>16, <2>4, <3>1 DEF AdvanceWritePointer
    <3>3. w \in Ppas BY <1>2, <2>1, <2>4, <3>1, Geometry DEF Ppas
    <3>4. WriteOffset(w) = Len(filled) + 1
      <4>1. WriteOffset(w) = Place((q + 1) * LunsPerCh + 0, 0, 0, Nchs, P)
        BY <1>2, <2>1, PageWrittenAt DEF P
      <4>2. (q + 1) * LunsPerCh + 0 = (q + 1) * LunsPerCh BY <2>2
      <4>3. QED BY <2>3, <4>1, <4>2
    <3> HIDE DEF w
    <3>5. QED BY <1>11, <3>2, <3>3, <3>4
  <2>5. CASE wp.pg + 1 = PgsPerBlk
    <3>1. phase' = "collect"
      BY <1>1, <1>16, <2>5 DEF AdvanceWritePointer
    <3>2. q + 1 = WordLines
      <4>1. (q + 1) * P = WordLines * P BY <1>2, <2>1, <2>5
      <4>2. QED BY <1>2, <2>1, <4>1, ProductCancels
    <3>3. Len(filled) + 1 = LinePages
      <4>1. Place(WordLines * LunsPerCh, 0, 0, Nchs, P) = ((WordLines * LunsPerCh) * Nchs + 0) * P + 0
        BY DEF Place
      <4>2. (WordLines * LunsPerCh) * Nchs \in Nat /\ ((WordLines * LunsPerCh) * Nchs) * P \in Nat
        <5>1. WordLines * LunsPerCh \in Nat BY <1>2, ProductIn
        <5>2. (WordLines * LunsPerCh) * Nchs \in Nat BY <1>2, <5>1, ProductIn
        <5>3. QED BY <1>2, <5>2, ProductIn
      <4>3. ((WordLines * LunsPerCh) * Nchs) * P = ((WordLines * P) * LunsPerCh) * Nchs
        BY <1>2
      <4>4. QED BY <1>2, <2>3, <3>2, <4>1, <4>2, <4>3 DEF LinePages
    <3>4. QED BY <1>7, <3>1, <3>3 DEF FillInv
  <2>6. QED BY <2>4, <2>5
<1>17. QED BY <1>13, <1>14, <1>15, <1>16

(***************************************************************************)
(* The walk of do_gc                                                       *)
(***************************************************************************)
Blocks     == Nchs * LunsPerCh         \* the blocks of the line
Rank(c, l) == c * LunsPerCh + l        \* their order in a pass

\* A wheel of m places has turned s times: it is short of t turns.
LEMMA Wheel ==
  ASSUME NEW s \in Nat, NEW t \in Nat, NEW m \in Nat \ {0}, NEW i \in Nat, i < m
  PROVE  s * m + i < t * m <=> s < t
<1>1. s * m \in Nat /\ t * m \in Nat BY ProductIn
<1>2. ASSUME s < t PROVE s * m + i < t * m
  <2>1. (s + 1) * m <= t * m BY <1>2, ProductLess
  <2>2. (s + 1) * m = s * m + m BY Distribute
  <2>3. QED BY <1>1, <2>1, <2>2
<1>3. ASSUME t <= s PROVE t * m <= s * m BY <1>3, ProductLess
<1>4. QED BY <1>1, <1>2, <1>3

LEMMA RankIn ==
  ASSUME NEW c \in Nat, NEW l \in Nat, c < Nchs, l < LunsPerCh
  PROVE  /\ Rank(c, l) \in Nat /\ Rank(c, l) < Blocks
         /\ Blocks \in Nat \ {0}
         /\ Rank(c, l + 1) = Rank(c, l) + 1
         /\ l + 1 = LunsPerCh => Rank(c + 1, 0) = Rank(c, l) + 1
         /\ l + 1 = LunsPerCh /\ c + 1 = Nchs => Rank(c, l) + 1 = Blocks
<1>1. Nchs \in Nat \ {0} /\ LunsPerCh \in Nat \ {0} BY Geometry
<1>2. c * LunsPerCh \in Nat /\ Blocks \in Nat \ {0} BY <1>1, ProductIn, ProductPositive DEF Blocks
<1>3. c * LunsPerCh + l < Nchs * LunsPerCh BY <1>1, Wheel
<1>4. (c + 1) * LunsPerCh = c * LunsPerCh + LunsPerCh BY <1>1, Distribute
<1>5. c + 1 = Nchs => Blocks = (c + 1) * LunsPerCh BY DEF Blocks
<1>6. QED BY <1>1, <1>2, <1>3, <1>4, <1>5 DEF Rank, Blocks

\* The visit of a page: the passes over the blocks, the blocks of this pass,
\* the pages of this block.
Visit(a, k, i) == (a * Blocks + k) * PgsPerFlash + i

LEMMA VisitAt ==
  ASSUME NEW p \in Ppas
  PROVE  GcVisit(p) = Visit(p.pg \div PgsPerFlash, Rank(p.ch, p.lun), p.pg % PgsPerFlash)
<1> DEFINE q == p.pg \div PgsPerFlash
<1>1. /\ p.ch \in Nat /\ p.lun \in Nat /\ p.pg \in Nat
      /\ Nchs \in Nat /\ LunsPerCh \in Nat /\ PgsPerFlash \in Nat \ {0}
  BY PpaIn, Geometry
<1>2. q \in Nat BY <1>1, Division
<1> HIDE DEF q
<1>3. q * Nchs \in Nat /\ p.ch * LunsPerCh \in Nat BY <1>1, <1>2, ProductIn
<1>4. (q * Nchs + p.ch) * LunsPerCh = (q * Nchs) * LunsPerCh + p.ch * LunsPerCh
  BY <1>1, <1>3, Distribute
<1>5. (q * Nchs) * LunsPerCh = q * Blocks /\ q * Blocks \in Nat
  <2>1. (q * Nchs) * LunsPerCh = q * (Nchs * LunsPerCh) BY <1>1, <1>2
  <2>2. (q * Nchs) * LunsPerCh \in Nat BY <1>1, <1>3, ProductIn
  <2>3. QED BY <2>1, <2>2 DEF Blocks
<1>6. (q * Nchs + p.ch) * LunsPerCh + p.lun = q * Blocks + Rank(p.ch, p.lun)
  BY <1>1, <1>3, <1>4, <1>5 DEF Rank
<1>7. QED BY <1>6 DEF GcVisit, Visit, q

LEMMA EraseAt ==
  ASSUME NEW p \in Ppas
  PROVE  EraseVisit(p) = Visit(FlashPgsPerBlk - 1, Rank(p.ch, p.lun), PgsPerFlash - 1)
<1> DEFINE e == [p EXCEPT !.pg = PgsPerBlk - 1]
           b == FlashPgsPerBlk - 1
           i == PgsPerFlash - 1
<1>1. PgsPerFlash \in Nat \ {0} /\ b \in Nat /\ i \in Nat /\ i < PgsPerFlash
      /\ FlashPgsPerBlk = b + 1 /\ i = PgsPerFlash - 1
  BY Geometry
<1>2. PgsPerBlk - 1 \in 0 .. PgsPerBlk - 1 /\ PgsPerBlk = FlashPgsPerBlk * PgsPerFlash
  BY Geometry
<1>3. e \in Ppas /\ e.ch = p.ch /\ e.lun = p.lun /\ e.pg = PgsPerBlk - 1
  BY <1>2 DEF Ppas
<1> HIDE DEF e, b, i
<1>4. (b + 1) * PgsPerFlash = b * PgsPerFlash + 1 * PgsPerFlash /\ b * PgsPerFlash \in Nat
  BY <1>1, Distribute, ProductIn
<1>5. PgsPerBlk = b * PgsPerFlash + PgsPerFlash BY <1>1, <1>2, <1>4
<1>6. e.pg = b * PgsPerFlash + i BY <1>1, <1>3, <1>4, <1>5
<1>7. (b * PgsPerFlash + i) \div PgsPerFlash = b /\ (b * PgsPerFlash + i) % PgsPerFlash = i
  BY <1>1, DivisionOnly
<1>8. GcVisit(e) = Visit(b, Rank(p.ch, p.lun), i) BY <1>3, <1>6, <1>7, VisitAt
<1>9. QED BY <1>8 DEF EraseVisit, e, b, i

\* The pages visited so far are those before where the collector stands, and
\* in the last pass the blocks behind it are erased.
ErasedBefore(g) ==
  {p \in Ppas : g.flashpg = FlashPgsPerBlk - 1 /\ Rank(p.ch, p.lun) < Rank(g.ch, g.lun)}

GcInv ==
  /\ gc \in [flashpg : Nat, ch : Nat, lun : Nat, i : Nat]
  /\ walked \in Seq(Ppas) /\ \A k \in 1 .. Len(walked) : GcVisit(walked[k]) = k - 1
  /\ Len(walked) = Visit(gc.flashpg, Rank(gc.ch, gc.lun), gc.i)
  /\ phase # "done" => /\ gc.flashpg < FlashPgsPerBlk /\ gc.ch < Nchs
                       /\ gc.lun < LunsPerCh /\ gc.i <= PgsPerFlash
                       /\ erased = ErasedBefore(gc)
  /\ phase = "done" => /\ gc = [flashpg |-> FlashPgsPerBlk, ch |-> 0, lun |-> 0, i |-> 0]
                       /\ erased = Ppas

LEMMA VisitsAt0 == Rank(0, 0) = 0 /\ Visit(0, 0, 0) = 0
<1>1. LunsPerCh \in Nat /\ PgsPerFlash \in Nat /\ Nchs \in Nat BY Geometry
<1>2. Rank(0, 0) = 0 BY <1>1 DEF Rank
<1>3. Blocks \in Nat BY <1>1, ProductIn DEF Blocks
<1>4. 0 * Blocks + 0 = 0 BY <1>3
<1>5. 0 * PgsPerFlash + 0 = 0 BY <1>1
<1>6. QED BY <1>2, <1>4, <1>5 DEF Visit

LEMMA WalkStarts ==
  ASSUME Init
  PROVE  FillInv /\ GcInv
<1>1. /\ wp = [ch |-> 0, lun |-> 0, pg |-> 0] /\ filled = <<>> /\ walked = <<>>
      /\ gc = [flashpg |-> 0, ch |-> 0, lun |-> 0, i |-> 0] /\ erased = {} /\ phase = "fill"
  BY DEF Init
<1>2. wp \in Ppas BY <1>1, Geometry DEF Ppas
<1>3. WriteOffset(wp) = 0
  <2>1. 0 \in Nat /\ 0 < PgsPerOneshot /\ PgsPerOneshot \in Nat \ {0} /\ LunsPerCh \in Nat
        /\ Nchs \in Nat
    BY Geometry
  <2>2. 0 * PgsPerOneshot + 0 = 0 /\ 0 * LunsPerCh + 0 = 0 /\ 0 * Nchs + 0 = 0 BY <2>1
  <2>3. 0 \div PgsPerOneshot = 0 /\ 0 % PgsPerOneshot = 0
    <3>1. (0 * PgsPerOneshot + 0) \div PgsPerOneshot = 0 /\ (0 * PgsPerOneshot + 0) % PgsPerOneshot = 0
      BY <2>1, DivisionOnly
    <3>2. QED BY <2>2, <3>1
  <2>4. QED BY <1>1, <2>2, <2>3 DEF WriteOffset
<1>4. FillInv BY <1>1, <1>2, <1>3 DEF FillInv
<1>5. \A p \in Ppas : ~(Rank(p.ch, p.lun) < 0) BY PpaIn, RankIn
<1>6. erased = ErasedBefore(gc) BY <1>1, <1>5, VisitsAt0 DEF ErasedBefore
<1>7. Len(walked) = Visit(gc.flashpg, Rank(gc.ch, gc.lun), gc.i) BY <1>1, VisitsAt0
<1>8. GcInv BY <1>1, <1>6, <1>7, Geometry DEF GcInv
<1>9. QED BY <1>4, <1>8

LEMMA CleanKeeps ==
  ASSUME GcInv, CleanPage
  PROVE  GcInv'
<1> DEFINE p == GcPpa(gc)
           k == Rank(gc.ch, gc.lun)
<1>1. /\ phase = "collect" /\ gc.i < PgsPerFlash /\ walked' = Append(walked, p)
      /\ gc' = [gc EXCEPT !.i = gc.i + 1] /\ erased' = erased /\ phase' = phase
      /\ gc \in [flashpg : Nat, ch : Nat, lun : Nat, i : Nat]
      /\ walked \in Seq(Ppas) /\ \A n \in 1 .. Len(walked) : GcVisit(walked[n]) = n - 1
      /\ Len(walked) = Visit(gc.flashpg, k, gc.i)
      /\ gc.flashpg < FlashPgsPerBlk /\ gc.ch < Nchs /\ gc.lun < LunsPerCh
      /\ erased = ErasedBefore(gc)
  BY DEF GcInv, CleanPage
<1>2. /\ gc.flashpg \in Nat /\ gc.ch \in Nat /\ gc.lun \in Nat /\ gc.i \in Nat
      /\ gc.i < PgsPerFlash /\ PgsPerFlash \in Nat \ {0} /\ FlashPgsPerBlk \in Nat
      /\ PgsPerBlk = FlashPgsPerBlk * PgsPerFlash
  BY <1>1, Geometry
<1>3. p \in Ppas /\ p.ch = gc.ch /\ p.lun = gc.lun /\ p.pg = gc.flashpg * PgsPerFlash + gc.i
  <2>1. gc.flashpg * PgsPerFlash + gc.i < FlashPgsPerBlk * PgsPerFlash BY <1>1, <1>2, Wheel
  <2>2. gc.flashpg * PgsPerFlash \in Nat BY <1>2, ProductIn
  <2>3. gc.flashpg * PgsPerFlash + gc.i \in 0 .. PgsPerBlk - 1 BY <1>2, <2>1, <2>2, Geometry
  <2>4. gc.ch \in 0 .. Nchs - 1 /\ gc.lun \in 0 .. LunsPerCh - 1 BY <1>1, <1>2, Geometry
  <2>5. QED BY <2>3, <2>4 DEF GcPpa, Ppas
<1>4. /\ p.pg \div PgsPerFlash = gc.flashpg /\ p.pg % PgsPerFlash = gc.i
  <2>1. /\ (gc.flashpg * PgsPerFlash + gc.i) \div PgsPerFlash = gc.flashpg
        /\ (gc.flashpg * PgsPerFlash + gc.i) % PgsPerFlash = gc.i
    BY <1>2, DivisionOnly
  <2>2. QED BY <1>3, <2>1
<1>5. GcVisit(p) = Len(walked) BY <1>1, <1>3, <1>4, VisitAt
<1> HIDE DEF p
<1>6. /\ walked' \in Seq(Ppas) /\ Len(walked') = Len(walked) + 1
      /\ \A n \in 1 .. Len(walked') : GcVisit(walked'[n]) = n - 1
  BY <1>1, <1>3, <1>5
<1>7. /\ gc'.flashpg = gc.flashpg /\ gc'.ch = gc.ch /\ gc'.lun = gc.lun /\ gc'.i = gc.i + 1
      /\ gc' \in [flashpg : Nat, ch : Nat, lun : Nat, i : Nat]
  <2>1. gc = [flashpg |-> gc.flashpg, ch |-> gc.ch, lun |-> gc.lun, i |-> gc.i]
    BY <1>1
  <2>2. gc' = [flashpg |-> gc.flashpg, ch |-> gc.ch, lun |-> gc.lun, i |-> gc.i + 1]
    BY <1>1, <2>1
  <2>3. QED BY <1>2, <2>2
<1>8. Visit(gc.flashpg, k, gc.i + 1) = Visit(gc.flashpg, k, gc.i) + 1
  <2>1. k \in Nat /\ Blocks \in Nat BY <1>1, <1>2, RankIn
  <2>2. gc.flashpg * Blocks \in Nat BY <1>2, <2>1, ProductIn
  <2> HIDE DEF k
  <2>3. gc.flashpg * Blocks + k \in Nat BY <2>1, <2>2
  <2>4. (gc.flashpg * Blocks + k) * PgsPerFlash \in Nat BY <1>2, <2>3, ProductIn
  <2>5. QED BY <1>2, <2>4 DEF Visit
<1>9. erased' = ErasedBefore(gc') BY <1>1, <1>7 DEF ErasedBefore
<1>10. Len(walked') = Visit(gc'.flashpg, Rank(gc'.ch, gc'.lun), gc'.i)
  BY <1>1, <1>6, <1>7, <1>8
<1>11. QED BY <1>1, <1>2, <1>6, <1>7, <1>9, <1>10 DEF GcInv

LEMMA DoneKeeps ==
  ASSUME GcInv, FlashPageDone
  PROVE  GcInv'
<1> DEFINE k == Rank(gc.ch, gc.lun)
           b == FlashPgsPerBlk - 1
           f == gc.flashpg
<1>1. /\ phase = "collect" /\ gc.i = PgsPerFlash /\ walked' = walked
      /\ erased' = IF gc.flashpg = FlashPgsPerBlk - 1
                     THEN erased \cup BlockOf(GcPpa([gc EXCEPT !.i = 0])) ELSE erased
      /\ gc \in [flashpg : Nat, ch : Nat, lun : Nat, i : Nat]
      /\ walked \in Seq(Ppas) /\ \A n \in 1 .. Len(walked) : GcVisit(walked[n]) = n - 1
      /\ Len(walked) = Visit(gc.flashpg, k, gc.i)
      /\ gc.flashpg < FlashPgsPerBlk /\ gc.ch < Nchs /\ gc.lun < LunsPerCh
      /\ erased = ErasedBefore(gc)
  BY DEF GcInv, FlashPageDone
<1>2. /\ f \in Nat /\ gc.ch \in Nat /\ gc.lun \in Nat /\ PgsPerFlash \in Nat \ {0}
      /\ FlashPgsPerBlk \in Nat \ {0} /\ b \in Nat /\ f < FlashPgsPerBlk
      /\ Nchs \in Nat /\ LunsPerCh \in Nat
      /\ gc = [flashpg |-> f, ch |-> gc.ch, lun |-> gc.lun, i |-> gc.i]
  BY <1>1, Geometry
<1>3. /\ k \in Nat /\ Blocks \in Nat \ {0} /\ k < Blocks
      /\ Rank(gc.ch, gc.lun + 1) = k + 1
      /\ gc.lun + 1 = LunsPerCh => Rank(gc.ch + 1, 0) = k + 1
      /\ gc.lun + 1 = LunsPerCh /\ gc.ch + 1 = Nchs => k + 1 = Blocks
  BY <1>1, <1>2, RankIn
<1> HIDE DEF k
\* The collector has finished a flash page: it stands before the next.
<1>4. Visit(f, k + 1, 0) = Len(walked) /\ (k + 1 = Blocks => Visit(f + 1, 0, 0) = Len(walked))
  <2>1. f * Blocks \in Nat BY <1>2, <1>3, ProductIn
  <2>2. (f * Blocks + k) \in Nat /\ (f * Blocks + k) * PgsPerFlash \in Nat
    <3>1. f * Blocks + k \in Nat BY <1>3, <2>1
    <3>2. QED BY <1>2, <3>1, ProductIn
  <2>3. ((f * Blocks + k) + 1) * PgsPerFlash
          = (f * Blocks + k) * PgsPerFlash + 1 * PgsPerFlash
    BY <1>2, <2>2, Distribute
  <2>4. f * Blocks + (k + 1) = (f * Blocks + k) + 1 BY <1>3, <2>1
  <2>5. Visit(f, k + 1, 0) = Visit(f, k, PgsPerFlash)
    BY <1>2, <2>2, <2>3, <2>4 DEF Visit
  <2>6. (f + 1) * Blocks = f * Blocks + 1 * Blocks BY <1>2, <1>3, Distribute
  <2>7. k + 1 = Blocks => (f + 1) * Blocks + 0 = f * Blocks + (k + 1) BY <1>3, <2>1, <2>6
  <2>8. QED BY <1>1, <2>5, <2>7 DEF Visit
<1>5. \A p \in Ppas : /\ Rank(p.ch, p.lun) \in Nat /\ Rank(p.ch, p.lun) < Blocks
                      /\ p \in BlockOf(GcPpa([gc EXCEPT !.i = 0])) <=> Rank(p.ch, p.lun) = k
  <2>1. TAKE p \in Ppas
  <2>2. Rank(p.ch, p.lun) \in Nat /\ Rank(p.ch, p.lun) < Blocks BY PpaIn, RankIn
  <2>3. GcPpa([gc EXCEPT !.i = 0]).ch = gc.ch /\ GcPpa([gc EXCEPT !.i = 0]).lun = gc.lun
    BY <1>1 DEF GcPpa
  <2>4. Rank(p.ch, p.lun) = k <=> p.ch = gc.ch /\ p.lun = gc.lun
    BY <1>1, <1>2, RankOnly DEF Rank, k
  <2>5. QED BY <2>2, <2>3, <2>4 DEF BlockOf
\* In the last pass the block it stood on is erased.
<1>6. \A p \in Ppas : p \in erased' <=> f = b /\ Rank(p.ch, p.lun) < k + 1
  <2>1. TAKE p \in Ppas
  <2>2. p \in erased <=> f = b /\ Rank(p.ch, p.lun) < k BY <1>1 DEF ErasedBefore, k
  <2>3. CASE f = b
    <3>1. p \in erased' <=> Rank(p.ch, p.lun) < k \/ Rank(p.ch, p.lun) = k
      BY <1>1, <1>5, <2>2, <2>3
    <3>2. QED BY <1>3, <1>5, <2>3, <3>1
  <2>4. CASE f # b
    BY <1>1, <2>2, <2>4
  <2>5. QED BY <2>3, <2>4
<1>7. erased' \subseteq Ppas BY <1>1 DEF ErasedBefore, BlockOf
<1>8. /\ walked' \in Seq(Ppas) /\ \A n \in 1 .. Len(walked') : GcVisit(walked'[n]) = n - 1
      /\ Len(walked') = Len(walked)
  BY <1>1
<1>9. ASSUME NEW c \in Nat, NEW l \in Nat, c < Nchs, l < LunsPerCh, Rank(c, l) = k + 1,
             gc' = [flashpg |-> f, ch |-> c, lun |-> l, i |-> 0], phase' = "collect"
      PROVE  GcInv'
  <2>1. gc' \in [flashpg : Nat, ch : Nat, lun : Nat, i : Nat] BY <1>2, <1>9
  <2>2. Len(walked') = Visit(gc'.flashpg, Rank(gc'.ch, gc'.lun), gc'.i)
    BY <1>4, <1>8, <1>9
  <2>3. \A p \in Ppas : p \in ErasedBefore(gc') <=> f = b /\ Rank(p.ch, p.lun) < k + 1
    BY <1>9 DEF ErasedBefore
  <2>4. ErasedBefore(gc') \subseteq Ppas BY DEF ErasedBefore
  <2>5. erased' = ErasedBefore(gc') BY <1>6, <1>7, <2>3, <2>4
  <2>6. QED BY <1>2, <1>8, <1>9, <2>1, <2>2, <2>5 DEF GcInv
<1>10. CASE gc.lun + 1 < LunsPerCh
  <2>1. gc' = [gc EXCEPT !.i = 0, !.lun = gc.lun + 1] /\ phase' = "collect"
    BY <1>1, <1>2, <1>10 DEF FlashPageDone
  <2>2. gc' = [flashpg |-> f, ch |-> gc.ch, lun |-> gc.lun + 1, i |-> 0]
    BY <1>2, <2>1
  <2>3. gc.lun + 1 \in Nat /\ gc.ch \in Nat /\ gc.ch < Nchs /\ gc.lun + 1 < LunsPerCh
        /\ Rank(gc.ch, gc.lun + 1) = k + 1
    BY <1>1, <1>2, <1>3, <1>10
  <2> HIDE DEF b, f
  <2>4. QED BY <1>9, <2>1, <2>2, <2>3
<1>11. CASE gc.lun + 1 = LunsPerCh /\ gc.ch + 1 < Nchs
  <2>1. gc' = [gc EXCEPT !.i = 0, !.lun = 0, !.ch = gc.ch + 1] /\ phase' = "collect"
    BY <1>1, <1>2, <1>11 DEF FlashPageDone
  <2>2. gc' = [flashpg |-> f, ch |-> gc.ch + 1, lun |-> 0, i |-> 0]
    BY <1>2, <2>1
  <2>3. gc.ch + 1 \in Nat /\ 0 \in Nat /\ gc.ch + 1 < Nchs /\ 0 < LunsPerCh
        /\ Rank(gc.ch + 1, 0) = k + 1
    BY <1>2, <1>3, <1>11
  <2> HIDE DEF b, f
  <2>4. QED BY <1>9, <2>1, <2>2, <2>3
<1>12. CASE gc.lun + 1 = LunsPerCh /\ gc.ch + 1 = Nchs
  <2>1. /\ gc' = [flashpg |-> f + 1, ch |-> 0, lun |-> 0, i |-> 0]
        /\ phase' = IF f + 1 = FlashPgsPerBlk THEN "done" ELSE phase
    BY <1>1, <1>2, <1>12 DEF FlashPageDone
  <2>2. gc' \in [flashpg : Nat, ch : Nat, lun : Nat, i : Nat] BY <1>2, <2>1
  <2>3. k + 1 = Blocks BY <1>3, <1>12
  <2>4. Len(walked') = Visit(gc'.flashpg, Rank(gc'.ch, gc'.lun), gc'.i)
    BY <1>4, <1>8, <2>1, <2>3, VisitsAt0
  <2>5. CASE f = b
    <3>1. phase' = "done" /\ f + 1 = FlashPgsPerBlk BY <1>2, <2>1, <2>5
    <3>2. erased' = Ppas BY <1>5, <1>6, <1>7, <2>3, <2>5
    <3>3. QED BY <1>8, <2>1, <2>2, <2>4, <3>1, <3>2 DEF GcInv
  <2>6. CASE f # b
    <3>1. phase' = "collect" /\ f + 1 < FlashPgsPerBlk BY <1>1, <1>2, <2>1, <2>6
    <3>2. erased' = {} BY <1>6, <1>7, <2>6
    <3>3. ErasedBefore(gc') = {}
      BY <1>5, <2>1, VisitsAt0 DEF ErasedBefore
    <3>4. gc'.flashpg < FlashPgsPerBlk /\ gc'.ch < Nchs /\ gc'.lun < LunsPerCh
          /\ gc'.i <= PgsPerFlash
      BY <2>1, <3>1, Geometry
    <3>5. QED BY <1>8, <2>2, <2>4, <3>1, <3>2, <3>3, <3>4 DEF GcInv
  <2>7. QED BY <2>5, <2>6
<1>13. QED BY <1>1, <1>2, <1>10, <1>11, <1>12

LEMMA WalkKeeps ==
  ASSUME FillInv, GcInv, [CNext]_<<vars, scan>>
  PROVE  FillInv' /\ GcInv'
<1>1. CASE UNCHANGED vars
  BY <1>1 DEF vars, FillInv, GcInv, ErasedBefore
<1>2. CASE AdvanceWritePointer
  <2>1. FillInv' BY <1>2, FillKeeps
  <2>2. /\ gc' = gc /\ walked' = walked /\ erased' = erased /\ phase = "fill"
        /\ phase' \in {"fill", "collect"}
    BY <1>2 DEF AdvanceWritePointer
  <2>3. GcInv' BY <2>2 DEF GcInv, ErasedBefore
  <2>4. QED BY <2>1, <2>3
<1>3. CASE CleanPage
  <2>1. GcInv' BY <1>3, CleanKeeps
  <2>2. wp' = wp /\ filled' = filled /\ phase' = phase BY <1>3 DEF CleanPage
  <2>3. QED BY <2>1, <2>2 DEF FillInv
<1>4. CASE FlashPageDone
  <2>1. GcInv' BY <1>4, DoneKeeps
  <2>2. /\ wp' = wp /\ filled' = filled /\ phase = "collect" /\ phase' \in {"collect", "done"}
    BY <1>4 DEF FlashPageDone
  <2>3. QED BY <2>1, <2>2 DEF FillInv
<1>5. UNCHANGED vars \/ AdvanceWritePointer \/ CleanPage \/ FlashPageDone
  BY DEF CNext, Filling, Selecting, Walking
<1>6. QED BY <1>1, <1>2, <1>3, <1>4, <1>5

LEMMA WalkInvariant == CSpec => [](FillInv /\ GcInv)
<1>1. CInit => FillInv /\ GcInv BY WalkStarts DEF CInit
<1>2. FillInv /\ GcInv /\ [CNext]_<<vars, scan>> => FillInv' /\ GcInv' BY WalkKeeps
<1>3. QED BY <1>1, <1>2, PTL DEF CSpec

\* Whatever the geometry, advance_write_pointer programs every page of the
\* line once and in the order of WriteOffset, and do_gc cleans every page
\* once and in the order of GcVisit.
THEOREM VisitsInOrderAlways == CSpec => []VisitsInOrder
<1>1. ASSUME GcInv, phase = "done" PROVE Len(walked) = LinePages
  <2> DEFINE b == FlashPgsPerBlk
  <2>1. Len(walked) = Visit(b, 0, 0) BY <1>1, VisitsAt0 DEF GcInv
  <2>2. /\ b \in Nat /\ PgsPerFlash \in Nat /\ Nchs \in Nat /\ LunsPerCh \in Nat
        /\ PgsPerBlk = b * PgsPerFlash
    BY Geometry
  <2> HIDE DEF b
  <2>3. Blocks \in Nat /\ b * Blocks \in Nat /\ (b * Blocks) * PgsPerFlash \in Nat
    <3>1. Blocks \in Nat BY <2>2, ProductIn DEF Blocks
    <3>2. b * Blocks \in Nat BY <2>2, <3>1, ProductIn
    <3>3. QED BY <2>2, <3>1, <3>2, ProductIn
  <2>4. Visit(b, 0, 0) = (b * Blocks) * PgsPerFlash BY <2>3 DEF Visit
  <2>5. (b * (Nchs * LunsPerCh)) * PgsPerFlash = ((b * PgsPerFlash) * LunsPerCh) * Nchs
    BY <2>2
  <2>6. QED BY <2>1, <2>2, <2>4, <2>5 DEF LinePages, Blocks
<1>2. FillInv /\ GcInv => VisitsInOrder BY <1>1 DEF FillInv, GcInv, VisitsInOrder
<1>3. QED BY <1>2, WalkInvariant, PTL

\* Whatever the geometry, the blocks that mark_block_free has reset are those
\* all of whose pages do_gc has cleaned, and at the end that is every block.
THEOREM EraseAfterCleanAlways == CSpec => []EraseAfterClean
<1> DEFINE b == FlashPgsPerBlk - 1
           m == PgsPerFlash - 1
<1>1. /\ b \in Nat /\ m \in Nat /\ m < PgsPerFlash /\ PgsPerFlash \in Nat \ {0}
      /\ FlashPgsPerBlk \in Nat /\ b < FlashPgsPerBlk /\ m = PgsPerFlash - 1
      /\ b = FlashPgsPerBlk - 1
  BY Geometry
<1>2. Blocks \in Nat \ {0} /\ b * Blocks \in Nat
  BY <1>1, Geometry, ProductIn, ProductPositive DEF Blocks
<1>3. ASSUME NEW p \in Ppas
      PROVE  /\ Rank(p.ch, p.lun) \in Nat /\ Rank(p.ch, p.lun) < Blocks
             /\ EraseVisit(p) = (b * Blocks + Rank(p.ch, p.lun)) * PgsPerFlash + m
             /\ EraseVisit(p) \in Nat
             /\ GcVisit(p) <= EraseVisit(p)
  <2> DEFINE k == Rank(p.ch, p.lun)
             f == p.pg \div PgsPerFlash
             i == p.pg % PgsPerFlash
  <2>1. k \in Nat /\ k < Blocks BY PpaIn, RankIn
  <2>2. EraseVisit(p) = (b * Blocks + k) * PgsPerFlash + m BY EraseAt DEF Visit
  <2>3. GcVisit(p) = (f * Blocks + k) * PgsPerFlash + i BY VisitAt DEF Visit
  <2>4. f \in Nat /\ i \in Nat /\ i <= m /\ p.pg = f * PgsPerFlash + i
    <3>1. p.pg \in Nat BY PpaIn
    <3>2. f \in Nat /\ i \in Nat /\ i < PgsPerFlash /\ p.pg = f * PgsPerFlash + i
      BY <1>1, <3>1, Division
    <3> HIDE DEF f, i
    <3>3. QED BY <1>1, <3>2
  <2> HIDE DEF k, f, i, b, m
  <2>5. f <= b
    <3>1. f * PgsPerFlash + i < FlashPgsPerBlk * PgsPerFlash
      BY <2>4, PpaIn, Geometry
    <3>2. i < PgsPerFlash BY <1>1, <2>4
    <3>3. f < FlashPgsPerBlk BY <1>1, <2>4, <3>1, <3>2, Wheel
    <3>4. QED BY <1>1, <2>4, <3>3
  <2>6. f * Blocks <= b * Blocks /\ f * Blocks \in Nat BY <1>1, <1>2, <2>4, <2>5, ProductLess, ProductIn
  <2>7. f * Blocks + k \in Nat /\ b * Blocks + k \in Nat /\ f * Blocks + k <= b * Blocks + k
    BY <1>2, <2>1, <2>6
  <2>8. (f * Blocks + k) * PgsPerFlash <= (b * Blocks + k) * PgsPerFlash
    BY <1>1, <2>7, ProductLess
  <2>9. (f * Blocks + k) * PgsPerFlash \in Nat /\ (b * Blocks + k) * PgsPerFlash \in Nat
    BY <1>1, <2>7, ProductIn
  <2>10. QED BY <1>1, <2>1, <2>2, <2>3, <2>4, <2>8, <2>9 DEF k
<1>4. ASSUME NEW f \in Nat, NEW k \in Nat, NEW i \in Nat, NEW p \in Ppas
      PROVE  /\ b * Blocks + Rank(p.ch, p.lun) < f * Blocks + k
               => EraseVisit(p) < Visit(f, k, i)
             /\ EraseVisit(p) < Visit(f, k, 0)
               => b * Blocks + Rank(p.ch, p.lun) < f * Blocks + k
  <2> DEFINE s == b * Blocks + Rank(p.ch, p.lun)
             t == f * Blocks + k
  <2>1. EraseVisit(p) = s * PgsPerFlash + m /\ Rank(p.ch, p.lun) \in Nat BY <1>3
  <2>2. f * Blocks \in Nat BY <1>2, ProductIn
  <2>3. s \in Nat /\ t \in Nat BY <1>2, <2>1, <2>2
  <2>4. Visit(f, k, i) = t * PgsPerFlash + i /\ Visit(f, k, 0) = t * PgsPerFlash + 0
    BY DEF Visit
  <2> HIDE DEF s, t, b, m
  <2>5. s * PgsPerFlash + m < t * PgsPerFlash <=> s < t BY <1>1, <2>3, Wheel
  <2>6. s * PgsPerFlash \in Nat /\ t * PgsPerFlash \in Nat BY <1>1, <2>3, ProductIn
  <2>7. QED BY <1>1, <2>1, <2>4, <2>5, <2>6 DEF s, t
<1> HIDE DEF b, m
<1>5. ASSUME GcInv PROVE EraseAfterClean
  <2> DEFINE k == Rank(gc.ch, gc.lun)
  <2>1. /\ gc.flashpg \in Nat /\ gc.ch \in Nat /\ gc.lun \in Nat /\ gc.i \in Nat
        /\ Len(walked) = Visit(gc.flashpg, k, gc.i)
    BY <1>5 DEF GcInv
  <2>2. CASE phase = "done"
    <3>1. gc.flashpg = FlashPgsPerBlk /\ k = 0 /\ gc.i = 0 /\ erased = Ppas
      BY <1>5, <2>2, VisitsAt0 DEF GcInv
    <3>2. ASSUME NEW p \in Ppas PROVE EraseVisit(p) < Len(walked) /\ GcVisit(p) <= EraseVisit(p)
      <4>1. b * Blocks + Rank(p.ch, p.lun) < FlashPgsPerBlk * Blocks
        BY <1>1, <1>2, <1>3, Wheel
      <4>2. FlashPgsPerBlk * Blocks \in Nat BY <1>1, <1>2, ProductIn
      <4>3. b * Blocks + Rank(p.ch, p.lun) < FlashPgsPerBlk * Blocks + 0 BY <4>1, <4>2
      <4>4. EraseVisit(p) < Visit(FlashPgsPerBlk, 0, 0) BY <1>1, <1>4, <4>3
      <4>5. QED BY <1>3, <2>1, <3>1, <4>4
    <3>3. QED BY <3>1, <3>2 DEF EraseAfterClean
  <2>3. CASE phase # "done"
    <3>1. /\ gc.flashpg < FlashPgsPerBlk /\ gc.ch < Nchs /\ gc.lun < LunsPerCh
          /\ \A p \in Ppas : p \in erased <=> gc.flashpg = b /\ Rank(p.ch, p.lun) < k
          /\ erased \subseteq Ppas
      BY <1>5, <2>3 DEF GcInv, ErasedBefore, b
    <3>2. k \in Nat /\ k < Blocks BY <2>1, <3>1, RankIn
    <3> HIDE DEF k
    <3>3. ASSUME NEW p \in erased
          PROVE  EraseVisit(p) < Len(walked) /\ GcVisit(p) <= EraseVisit(p)
      <4>1. p \in Ppas /\ gc.flashpg = b /\ Rank(p.ch, p.lun) < k BY <3>1
      <4>2. b * Blocks + Rank(p.ch, p.lun) < b * Blocks + k BY <1>2, <1>3, <3>2, <4>1
      <4>3. EraseVisit(p) < Visit(b, k, gc.i) BY <1>1, <1>4, <2>1, <3>2, <4>1, <4>2
      <4>4. QED BY <1>3, <2>1, <4>1, <4>3
    <3>4. ASSUME gc.i = 0, NEW p \in Ppas, EraseVisit(p) < Len(walked)
          PROVE  p \in erased
      <4>1. b * Blocks + Rank(p.ch, p.lun) < gc.flashpg * Blocks + k
        BY <1>4, <2>1, <3>2, <3>4
      <4>2. ~(gc.flashpg < b)
        <5>1. SUFFICES ASSUME gc.flashpg < b PROVE FALSE OBVIOUS
        <5>2. gc.flashpg * Blocks + k < b * Blocks BY <1>1, <1>2, <2>1, <3>2, <5>1, Wheel
        <5>3. gc.flashpg * Blocks \in Nat BY <1>2, <2>1, ProductIn
        <5>4. QED BY <1>2, <1>3, <3>2, <4>1, <5>2, <5>3
      <4>3. gc.flashpg = b BY <1>1, <2>1, <3>1, <4>2
      <4>4. Rank(p.ch, p.lun) < k BY <1>2, <1>3, <3>2, <4>1, <4>3
      <4>5. QED BY <3>1, <4>3, <4>4
    <3>5. QED BY <2>3, <3>3, <3>4 DEF EraseAfterClean
  <2>4. QED BY <2>2, <2>3
<1>6. FillInv /\ GcInv => EraseAfterClean BY <1>5
<1>7. QED BY <1>6, WalkInvariant, PTL

(***************************************************************************)
(* The heap of candidates, for any number of lines                         *)
(***************************************************************************)
LEMMA SlotsIn ==
  /\ Cardinality(Lines) \in Nat
  /\ \A i \in Slots : i \in Nat /\ i >= 1 /\ i <= Cardinality(Lines)
  /\ \A i \in Nat : i >= 1 /\ i <= Cardinality(Lines) => i \in Slots
BY QueueAssumption, FS_CardinalityType DEF Slots

(***************************************************************************)
(* Both loops walk from slot j over p[j] while j is in C, store what they  *)
(* find one slot back, and put the moving line m where they stop.  r gives *)
(* the direction: it falls along the walk.                                 *)
(***************************************************************************)
Walk(f, C, p, h, m) ==
  f = [j \in Slots |-> IF j \in C THEN Put(f[p[j]], j, h.d[p[j]]) ELSE Put(h, j, m)]

Falls(C, p, r) ==
  /\ C \subseteq Slots
  /\ \A j \in Slots : r[j] \in 0 .. Cardinality(Lines)
  /\ \A j \in C : p[j] \in Slots /\ r[p[j]] < r[j]
  /\ \A j, k \in Slots : r[j] = r[k] => j = k

\* It does not leave the heap.
Stays(C, p, h) == \A j \in C : j \in 1 .. h.n => p[j] \in 1 .. h.n

LEMMA WalkExists ==
  ASSUME NEW C, NEW p, NEW h, NEW m, NEW r, Falls(C, p, r)
  PROVE  \E f : Walk(f, C, p, h, m)
<1> DEFINE At(f, j) == IF j \in C THEN Put(f[p[j]], j, h.d[p[j]]) ELSE Put(h, j, m)
           Upto(f, n) == \A j \in Slots : r[j] < n => f[j] = At(f, j)
           Bad == {n \in Nat : ~ \E f : f = [j \in Slots |-> f[j]] /\ Upto(f, n)}
<1>1. Bad = {}
  <2>1. SUFFICES ASSUME Bad # {} PROVE FALSE OBVIOUS
  <2>2. PICK n \in Bad : \A k \in Bad : n <= k BY <2>1, NatMin
  <2>3. 0 \notin Bad
    <3> DEFINE f0 == [j \in Slots |-> h]
    <3>1. f0 = [j \in Slots |-> f0[j]] /\ Upto(f0, 0) BY DEF Falls
    <3> HIDE DEF f0, Upto
    <3>2. QED BY <3>1
  <2>4. n - 1 \in Nat /\ n - 1 \notin Bad BY <2>2, <2>3
  <2>5. PICK f : f = [j \in Slots |-> f[j]] /\ Upto(f, n - 1)
    <3> HIDE DEF Upto
    <3>1. QED BY <2>4
  <2> DEFINE g == [j \in Slots |-> At(f, j)]
  <2>6. Upto(g, n)
    <3>1. SUFFICES ASSUME NEW j \in Slots, r[j] < n PROVE g[j] = At(g, j) BY Zenon
    <3>2. j \in C => p[j] \in Slots /\ r[p[j]] < n - 1 BY <3>1, <2>2 DEF Falls
    <3>3. j \in C => g[p[j]] = f[p[j]] BY <3>2, <2>5
    <3>4. QED BY <3>3
  <2>7. g = [j \in Slots |-> g[j]] OBVIOUS
  <2> HIDE DEF g, Upto
  <2>8. QED BY <2>2, <2>6, <2>7
<1>2. Cardinality(Lines) + 1 \notin Bad /\ Cardinality(Lines) + 1 \in Nat BY <1>1, SlotsIn
<1>3. PICK f : f = [j \in Slots |-> f[j]] /\ Upto(f, Cardinality(Lines) + 1)
  <2> HIDE DEF Upto
  <2>1. QED BY <1>2
<1>4. \A j \in Slots : r[j] < Cardinality(Lines) + 1 BY SlotsIn DEF Falls
<1>5. \A j \in Slots : f[j] = At(f, j) BY <1>3, <1>4
<1>6. f = [j \in Slots |-> At(f, j)] BY <1>3, <1>5
<1>7. QED BY <1>6 DEF Walk

\* Slot i of h is a gap that line m will fill: the others are in order.
Gap(h, i, m) ==
  /\ h \in Heaps /\ i \in 1 .. h.n /\ m \in Lines
  /\ \A q \in 1 .. h.n : q # i => h.d[q] \in Lines /\ h.d[q] # m /\ h.pos[h.d[q]] = q

\* The slots from j on in the direction of the walk, and the lines that end
\* up in them.
Ahead(h, j, r) == {q \in 1 .. h.n : r[q] <= r[j]}
From(h, m, j, r) == {m} \cup {h.d[q] : q \in Ahead(h, j, r) \ {j}}

\* g is h with these lines, each once and with its position, in those slots.
Placed(g, h, m, j, r) ==
  /\ g \in Heaps /\ g.n = h.n
  /\ \A k \in Slots : k \notin Ahead(h, j, r) => g.d[k] = h.d[k]
  /\ \A k \in Ahead(h, j, r) : /\ g.d[k] \in From(h, m, j, r) /\ g.d[k] \in Lines
                               /\ g.pos[g.d[k]] = k
  /\ \A l \in Lines : IF l \in From(h, m, j, r)
                        THEN g.pos[l] \in Ahead(h, j, r) /\ g.d[g.pos[l]] = l
                        ELSE g.pos[l] = h.pos[l]

LEMMA PutIn ==
  ASSUME NEW h \in Heaps, NEW i \in Slots, NEW l \in Lines
  PROVE  /\ Put(h, i, l) \in Heaps /\ Put(h, i, l).n = h.n
         /\ Put(h, i, l).d[i] = l /\ Put(h, i, l).pos[l] = i
         /\ \A k \in Slots : k # i => Put(h, i, l).d[k] = h.d[k]
         /\ \A k \in Lines : k # l => Put(h, i, l).pos[k] = h.pos[k]
<1>1. i \in 0 .. Cardinality(Lines) BY SlotsIn
<1>2. QED BY <1>1 DEF Put, Heaps

\* The walk from any slot on.
LEMMA WalkPlaces ==
  ASSUME NEW C, NEW p, NEW h, NEW i, NEW r, NEW f, Falls(C, p, r),
         NEW m, Gap(h, i, m), Walk(f, C, p, h, m), Stays(C, p, h)
  PROVE  \A j \in Ahead(h, i, r) : Placed(f[j], h, m, j, r)
<1> DEFINE Bad == {n \in Nat : \E j \in Ahead(h, i, r) : r[j] = n /\ ~ Placed(f[j], h, m, j, r)}
<1>1. 1 .. h.n \subseteq Slots /\ i \in Slots /\ h \in Heaps /\ m \in Lines
  BY SlotsIn DEF Gap, Heaps
<1>2. /\ \A j \in Slots : r[j] \in Nat
      /\ \A j, k \in Slots : r[j] = r[k] => j = k
  BY SlotsIn DEF Falls
<1>3. SUFFICES Bad = {} BY <1>1, <1>2 DEF Ahead
<1>4. SUFFICES ASSUME Bad # {} PROVE FALSE OBVIOUS
<1>5. PICK n \in Bad : \A k \in Bad : n <= k BY <1>4, NatMin
<1>6. PICK j \in Ahead(h, i, r) : r[j] = n /\ ~ Placed(f[j], h, m, j, r) BY <1>5
<1>7. j \in 1 .. h.n /\ j \in Slots /\ r[j] <= r[i] BY <1>1, <1>6 DEF Ahead
<1>8. \A q \in Ahead(h, j, r) \ {j} : q \in 1 .. h.n /\ q # i /\ r[q] < r[j]
  BY <1>1, <1>2, <1>7 DEF Ahead
<1>9. \A q \in Ahead(h, j, r) \ {j} : h.d[q] \in Lines /\ h.d[q] # m /\ h.pos[h.d[q]] = q
  BY <1>8 DEF Gap
<1>10. CASE j \notin C
  <2>1. f[j] = Put(h, j, m) BY <1>7, <1>10 DEF Walk
  <2>2. Placed(Put(h, j, m), h, m, j, r)
    <3> DEFINE g == Put(h, j, m)
    <3>1. /\ g \in Heaps /\ g.n = h.n /\ g.d[j] = m /\ g.pos[m] = j
          /\ \A k \in Slots : k # j => g.d[k] = h.d[k]
          /\ \A k \in Lines : k # m => g.pos[k] = h.pos[k]
      <4>1. h \in Heaps /\ j \in Slots /\ m \in Lines BY <1>1, <1>7
      <4>2. QED BY <4>1, PutIn
    <3> HIDE DEF g
    <3>2. j \in Ahead(h, j, r) BY <1>7, <1>2 DEF Ahead
    <3>3. Ahead(h, j, r) \subseteq Slots BY <1>1 DEF Ahead
    <3>4. \A k \in Ahead(h, j, r) : /\ g.d[k] \in From(h, m, j, r) /\ g.d[k] \in Lines
                                    /\ g.pos[g.d[k]] = k
      <4>1. SUFFICES ASSUME NEW k \in Ahead(h, j, r)
                     PROVE  /\ g.d[k] \in From(h, m, j, r) /\ g.d[k] \in Lines
                            /\ g.pos[g.d[k]] = k
        OBVIOUS
      <4>2. CASE k = j BY <3>1, <4>2, <1>1 DEF From
      <4>3. CASE k # j
        <5>1. g.d[k] = h.d[k] /\ h.d[k] \in Lines /\ h.d[k] # m /\ h.pos[h.d[k]] = k
          BY <4>3, <3>1, <1>9, <3>3
        <5>2. h.d[k] \in From(h, m, j, r) BY <4>3 DEF From
        <5>3. QED BY <5>1, <5>2, <3>1
      <4>4. QED BY <4>2, <4>3
    <3>5. ASSUME NEW l \in Lines
          PROVE  IF l \in From(h, m, j, r)
                   THEN g.pos[l] \in Ahead(h, j, r) /\ g.d[g.pos[l]] = l
                   ELSE g.pos[l] = h.pos[l]
      <4>1. CASE l = m BY <3>1, <3>2, <4>1 DEF From
      <4>2. CASE l # m /\ l \in From(h, m, j, r)
        <5>1. PICK q \in Ahead(h, j, r) \ {j} : l = h.d[q] BY <4>2 DEF From
        <5>2. g.pos[l] = q BY <5>1, <1>9, <3>1, <4>2
        <5>3. g.d[q] = h.d[q] BY <3>1, <3>3
        <5>4. QED BY <5>1, <5>2, <5>3, <4>2
      <4>3. CASE l # m /\ l \notin From(h, m, j, r) BY <3>1, <4>3
      <4>4. QED BY <4>1, <4>2, <4>3
    <3>6. \A k \in Slots : k \notin Ahead(h, j, r) => g.d[k] = h.d[k] BY <3>1, <3>2
    <3>7. QED BY <3>1, <3>4, <3>5, <3>6 DEF Placed, g
  <2>3. QED BY <2>1, <2>2, <1>6
<1>11. CASE j \in C
  <2> DEFINE a == p[j]
             b == f[a]
             e == h.d[a]
  <2>1. f[j] = Put(b, j, e) BY <1>7, <1>11 DEF Walk
  <2>2. a \in 1 .. h.n /\ a \in Slots /\ r[a] < r[j] /\ a # j
    BY <1>1, <1>2, <1>7, <1>11 DEF Falls, Stays
  <2>3. a \in Ahead(h, j, r) \ {j} /\ a \in Ahead(h, i, r)
    BY <2>2, <1>2, <1>7, <1>1 DEF Ahead
  <2>4. e \in Lines /\ e # m /\ h.pos[e] = a BY <2>3, <1>9
  <2>5. Placed(b, h, m, a, r)
    <3>1. r[a] \notin Bad /\ r[a] \in Nat BY <1>5, <1>6, <2>2, <1>2
    <3>2. QED BY <3>1, <2>3
  <2> HIDE DEF a, b, e
  <2>6. Ahead(h, a, r) \subseteq Ahead(h, j, r) \ {j} BY <2>2, <1>1, <1>2, <1>7 DEF Ahead
  <2>7. e = h.d[a] BY DEF e
  <2>8. e \notin From(h, m, a, r)
    <3>1. \A q \in Ahead(h, a, r) \ {a} : h.pos[h.d[q]] = q BY <2>6, <1>9
    <3>2. \A q \in Ahead(h, a, r) \ {a} : e # h.d[q] BY <3>1, <2>4
    <3>3. QED BY <3>2, <2>4 DEF From
  <2>9. From(h, m, j, r) = From(h, m, a, r) \cup {h.d[q] : q \in Ahead(h, j, r) \ ({j} \cup (Ahead(h, a, r) \ {a}))}
    BY <2>6 DEF From
  <2>10. /\ b \in Heaps /\ b.n = h.n
         /\ \A k \in Slots : k \notin Ahead(h, a, r) => b.d[k] = h.d[k]
         /\ \A k \in Ahead(h, a, r) : /\ b.d[k] \in From(h, m, a, r) /\ b.d[k] \in Lines
                                      /\ b.pos[b.d[k]] = k
         /\ \A l \in Lines : IF l \in From(h, m, a, r)
                               THEN b.pos[l] \in Ahead(h, a, r) /\ b.d[b.pos[l]] = l
                               ELSE b.pos[l] = h.pos[l]
    BY <2>5 DEF Placed
  <2> DEFINE g == Put(b, j, e)
  <2>11. /\ g \in Heaps /\ g.n = h.n /\ g.d[j] = e /\ g.pos[e] = j
         /\ \A k \in Slots : k # j => g.d[k] = b.d[k]
         /\ \A k \in Lines : k # e => g.pos[k] = b.pos[k]
    <3>1. b \in Heaps /\ j \in Slots /\ e \in Lines BY <2>4, <2>10, <1>7
    <3>2. b.n = h.n BY <2>10
    <3>3. QED BY <3>1, <3>2, PutIn
  <2> HIDE DEF g
  <2>12. j \in Ahead(h, j, r) /\ Ahead(h, j, r) \subseteq Slots /\ a \in Ahead(h, a, r)
    BY <1>1, <1>2, <1>7, <2>2 DEF Ahead
  <2>13. e \in From(h, m, j, r) /\ From(h, m, a, r) \subseteq From(h, m, j, r)
    BY <2>3, <2>7, <2>9 DEF From
  <2>14. \A q \in Ahead(h, j, r) \ Ahead(h, a, r) : q # j =>
           /\ h.d[q] \notin From(h, m, a, r) /\ h.d[q] # e /\ h.d[q] \in Lines
           /\ h.pos[h.d[q]] = q /\ b.d[q] = h.d[q] /\ h.d[q] \in From(h, m, j, r)
    <3>1. SUFFICES ASSUME NEW q \in Ahead(h, j, r) \ Ahead(h, a, r), q # j
                   PROVE  /\ h.d[q] \notin From(h, m, a, r) /\ h.d[q] # e /\ h.d[q] \in Lines
                          /\ h.pos[h.d[q]] = q /\ b.d[q] = h.d[q] /\ h.d[q] \in From(h, m, j, r)
      OBVIOUS
    <3>2. h.d[q] \in Lines /\ h.d[q] # m /\ h.pos[h.d[q]] = q BY <3>1, <1>9
    <3>3. \A s \in Ahead(h, a, r) \ {a} : h.pos[h.d[s]] = s BY <2>6, <1>9
    <3>4. \A s \in Ahead(h, a, r) \ {a} : h.d[q] # h.d[s] BY <3>2, <3>3
    <3>5. h.d[q] \notin From(h, m, a, r) BY <3>2, <3>4 DEF From
    <3>6. h.d[q] # e BY <3>2, <2>4, <2>12
    <3>7. h.d[q] \in From(h, m, j, r) BY <3>1 DEF From
    <3>8. b.d[q] = h.d[q] BY <2>10, <2>12
    <3>9. QED BY <3>2, <3>5, <3>6, <3>7, <3>8
  <2>15. \A k \in Ahead(h, j, r) : /\ g.d[k] \in From(h, m, j, r) /\ g.d[k] \in Lines
                                   /\ g.pos[g.d[k]] = k
    <3>1. SUFFICES ASSUME NEW k \in Ahead(h, j, r)
                   PROVE  /\ g.d[k] \in From(h, m, j, r) /\ g.d[k] \in Lines
                          /\ g.pos[g.d[k]] = k
      OBVIOUS
    <3>2. CASE k = j BY <3>2, <2>11, <2>13, <2>4
    <3>3. CASE k \in Ahead(h, a, r)
      <4>1. k # j BY <3>3, <2>6
      <4>2. g.d[k] = b.d[k] BY <4>1, <2>11, <2>12
      <4>3. b.d[k] \in From(h, m, a, r) /\ b.d[k] \in Lines /\ b.pos[b.d[k]] = k
        BY <3>3, <2>10
      <4>4. b.d[k] # e BY <4>3, <2>8
      <4>5. QED BY <4>2, <4>3, <4>4, <2>11, <2>13
    <3>4. CASE k # j /\ k \notin Ahead(h, a, r)
      <4>1. g.d[k] = h.d[k] BY <3>4, <2>11, <2>12, <2>14
      <4>2. g.pos[h.d[k]] = b.pos[h.d[k]] /\ b.pos[h.d[k]] = h.pos[h.d[k]]
        BY <3>4, <2>11, <2>14, <2>10
      <4>3. QED BY <4>1, <4>2, <3>4, <2>14
    <3>5. QED BY <3>2, <3>3, <3>4
  <2>16. ASSUME NEW l \in Lines
         PROVE  IF l \in From(h, m, j, r)
                  THEN g.pos[l] \in Ahead(h, j, r) /\ g.d[g.pos[l]] = l
                  ELSE g.pos[l] = h.pos[l]
    <3>1. CASE l = e BY <3>1, <2>11, <2>12, <2>13
    <3>2. CASE l \in From(h, m, a, r)
      <4>1. l # e BY <3>2, <2>8
      <4>2. g.pos[l] = b.pos[l] /\ b.pos[l] \in Ahead(h, a, r) /\ b.d[b.pos[l]] = l
        BY <4>1, <3>2, <2>10, <2>11
      <4>3. g.d[b.pos[l]] = l BY <4>2, <2>6, <2>11, <2>12
      <4>4. QED BY <4>2, <4>3, <2>6, <2>13, <3>2
    <3>3. CASE l # e /\ l \notin From(h, m, a, r) /\ l \in From(h, m, j, r)
      <4>1. PICK q \in Ahead(h, j, r) \ ({j} \cup (Ahead(h, a, r) \ {a})) : l = h.d[q]
        BY <3>3, <2>9
      <4>2. q # a BY <4>1, <3>3, <2>7
      <4>3. q \in Ahead(h, j, r) \ Ahead(h, a, r) /\ q # j BY <4>1, <4>2
      <4>4. g.pos[l] = q /\ g.d[q] = l
        BY <4>1, <4>3, <2>14, <2>10, <2>11, <2>12, <3>3
      <4>5. QED BY <4>3, <4>4, <3>3
    <3>4. CASE l \notin From(h, m, j, r)
      <4>1. l # e /\ l \notin From(h, m, a, r) BY <3>4, <2>13
      <4>2. QED BY <4>1, <3>4, <2>10, <2>11
    <3>5. QED BY <3>1, <3>2, <3>3, <3>4
  <2>17. \A k \in Slots : k \notin Ahead(h, j, r) => g.d[k] = h.d[k]
    BY <2>6, <2>10, <2>11, <2>12
  <2>18. Placed(g, h, m, j, r) BY <2>11, <2>15, <2>16, <2>17 DEF Placed
  <2>19. QED BY <2>18, <2>1, <1>6 DEF g
<1>12. QED BY <1>10, <1>11

\* g is h with the same lines in its slots, each with its position.
Settled(g, h) ==
  /\ g \in Heaps /\ g.n = h.n
  /\ \A k \in 1 .. h.n : /\ g.d[k] \in Lines /\ g.pos[g.d[k]] = k
                         /\ \E q \in 1 .. h.n : h.d[q] = g.d[k]
  /\ \A l \in Lines : IF \E k \in 1 .. h.n : h.d[k] = l
                        THEN g.pos[l] \in 1 .. h.n /\ g.d[g.pos[l]] = l
                        ELSE g.pos[l] = h.pos[l]

LEMMA PlacedSettles ==
  ASSUME NEW h, NEW i, NEW r, NEW g, Gap(h, i, h.d[i]), Placed(g, h, h.d[i], i, r),
         \A j \in Slots : r[j] \in Nat
  PROVE  Settled(g, h)
<1> DEFINE m == h.d[i]
<1>1. 1 .. h.n \subseteq Slots /\ i \in 1 .. h.n /\ h \in Heaps /\ m \in Lines
  BY SlotsIn DEF Gap, Heaps
<1>2. \A q \in 1 .. h.n : q # i => h.d[q] \in Lines /\ h.d[q] # m /\ h.pos[h.d[q]] = q
  BY DEF Gap
<1>3. /\ g \in Heaps /\ g.n = h.n
      /\ \A k \in Slots : k \notin Ahead(h, i, r) => g.d[k] = h.d[k]
      /\ \A k \in Ahead(h, i, r) : /\ g.d[k] \in Lines /\ g.pos[g.d[k]] = k
                                   /\ g.d[k] \in From(h, m, i, r)
      /\ \A l \in Lines : IF l \in From(h, m, i, r)
                            THEN g.pos[l] \in Ahead(h, i, r) /\ g.d[g.pos[l]] = l
                            ELSE g.pos[l] = h.pos[l]
  BY DEF Placed
<1>4. Ahead(h, i, r) \subseteq 1 .. h.n /\ i \in Ahead(h, i, r) BY <1>1 DEF Ahead
<1>5. \A q \in Ahead(h, i, r) : h.d[q] \in From(h, m, i, r) BY DEF From
<1>6. \A q \in 1 .. h.n \ Ahead(h, i, r) :
        h.d[q] \notin From(h, m, i, r) /\ h.pos[h.d[q]] = q /\ h.d[q] \in Lines
  <2>1. SUFFICES ASSUME NEW q \in 1 .. h.n \ Ahead(h, i, r)
                 PROVE  h.d[q] \notin From(h, m, i, r) /\ h.pos[h.d[q]] = q /\ h.d[q] \in Lines
    OBVIOUS
  <2>2. h.d[q] \in Lines /\ h.d[q] # m /\ h.pos[h.d[q]] = q BY <1>2, <1>4
  <2>3. \A s \in Ahead(h, i, r) \ {i} : h.pos[h.d[s]] = s BY <1>2, <1>4
  <2>4. \A s \in Ahead(h, i, r) \ {i} : h.d[q] # h.d[s] BY <2>2, <2>3
  <2>5. QED BY <2>2, <2>4 DEF From
<1>7. \A k \in 1 .. h.n : /\ g.d[k] \in Lines /\ g.pos[g.d[k]] = k
                          /\ \E q \in 1 .. h.n : h.d[q] = g.d[k]
  <2>1. SUFFICES ASSUME NEW k \in 1 .. h.n
                 PROVE  /\ g.d[k] \in Lines /\ g.pos[g.d[k]] = k
                        /\ \E q \in 1 .. h.n : h.d[q] = g.d[k]
    OBVIOUS
  <2>2. CASE k \in Ahead(h, i, r)
    <3>1. g.d[k] \in Lines /\ g.pos[g.d[k]] = k /\ g.d[k] \in From(h, m, i, r)
      BY <2>2, <1>3
    <3>2. \E q \in 1 .. h.n : h.d[q] = g.d[k] BY <3>1, <1>1, <1>4 DEF From
    <3>3. QED BY <3>1, <3>2
  <2>3. CASE k \notin Ahead(h, i, r)
    <3>1. g.d[k] = h.d[k] BY <2>3, <1>1, <1>3
    <3>2. QED BY <3>1, <2>3, <1>3, <1>6
  <2>4. QED BY <2>2, <2>3
<1>8. ASSUME NEW l \in Lines
      PROVE  IF \E k \in 1 .. h.n : h.d[k] = l
               THEN g.pos[l] \in 1 .. h.n /\ g.d[g.pos[l]] = l
               ELSE g.pos[l] = h.pos[l]
  <2>1. CASE l \in From(h, m, i, r)
    <3>1. \E k \in 1 .. h.n : h.d[k] = l BY <2>1, <1>1, <1>4 DEF From
    <3>2. QED BY <3>1, <2>1, <1>3, <1>4
  <2>2. CASE l \notin From(h, m, i, r)
    <3>1. g.pos[l] = h.pos[l] BY <2>2, <1>3
    <3>2. ASSUME NEW k \in 1 .. h.n, h.d[k] = l
          PROVE  g.pos[l] \in 1 .. h.n /\ g.d[g.pos[l]] = l
      <4>1. k \notin Ahead(h, i, r) BY <3>2, <2>2, <1>5
      <4>2. h.pos[l] = k /\ g.d[k] = l BY <3>2, <4>1, <1>1, <1>3, <1>6
      <4>3. QED BY <4>2, <3>1
    <3>3. QED BY <3>1, <3>2
  <2>3. QED BY <2>1, <2>2
<1>9. QED BY <1>3, <1>7, <1>8 DEF Settled

LEMMA Half ==
  \A k \in Nat : /\ k \div 2 \in Nat
                 /\ k = 2 * (k \div 2) \/ k = 2 * (k \div 2) + 1
OBVIOUS

------------------------------------------------------------------------------
(* The order *)

CountedBy(pri) == \A l \in Lines : pri[l] \in Nat
Ordered(h, pri) == \A k \in 2 .. h.n : pri[h.d[k \div 2]] <= pri[h.d[k]]

\* Whatever stands in slot i, its children stand behind its parent.
Between(h, i, pri) ==
  i > 1 => \A k \in 2 .. h.n : k \div 2 = i => pri[h.d[i \div 2]] <= pri[h.d[k]]

\* The order holds but for the line in slot i, which may have to rise.
MayRise(h, i, pri) ==
  /\ \A k \in 2 .. h.n : k # i => pri[h.d[k \div 2]] <= pri[h.d[k]]
  /\ Between(h, i, pri)

\* ... or to sink.
MaySink(h, i, pri) ==
  /\ \A k \in 2 .. h.n : k \div 2 # i => pri[h.d[k \div 2]] <= pri[h.d[k]]
  /\ Between(h, i, pri)

Higher(h, m, pri) == {j \in Slots : j > 1 /\ pri[h.d[j \div 2]] > pri[m]}
Parents == [j \in Slots |-> j \div 2]
Upwards == [j \in Slots |-> j]

LEMMA BubbleUpWalks ==
  ASSUME NEW h, NEW i \in Slots, NEW pri
  PROVE  /\ Falls(Higher(h, h.d[i], pri), Parents, Upwards)
         /\ \E f : /\ Walk(f, Higher(h, h.d[i], pri), Parents, h, h.d[i])
                   /\ BubbleUp(h, i, pri) = f[i]
<1> DEFINE m == h.d[i]
           C == Higher(h, m, pri)
           Is(f) == f = [j \in Slots |->
                          IF j > 1 /\ pri[h.d[j \div 2]] > pri[m]
                            THEN Put(f[j \div 2], j, h.d[j \div 2])
                            ELSE Put(h, j, m)]
<1>1. Falls(C, Parents, Upwards)
  <2>1. \A j \in Slots : j > 1 => j \div 2 \in Slots /\ j \div 2 < j /\ j \in Nat
    <3>1. SUFFICES ASSUME NEW j \in Slots, j > 1 PROVE j \div 2 \in Slots /\ j \div 2 < j /\ j \in Nat
      OBVIOUS
    <3>2. j \in Nat /\ j <= Cardinality(Lines) /\ Cardinality(Lines) \in Nat BY SlotsIn
    <3>3. j \div 2 \in Nat /\ j \div 2 >= 1 /\ j \div 2 < j BY <3>1, <3>2, Half
    <3>4. j \div 2 <= Cardinality(Lines) BY <3>2, <3>3
    <3>5. QED BY <3>2, <3>3, <3>4, SlotsIn
  <2>2. \A j \in Slots : j \in 0 .. Cardinality(Lines) BY SlotsIn
  <2>3. QED BY <2>1, <2>2 DEF Falls, Higher, Parents, Upwards
<1>2. \A f : Walk(f, C, Parents, h, m) <=> Is(f)
  <2>1. SUFFICES ASSUME NEW f PROVE Walk(f, C, Parents, h, m) <=> Is(f) OBVIOUS
  <2>2. \A j \in Slots : (IF j \in C THEN Put(f[Parents[j]], j, h.d[Parents[j]]) ELSE Put(h, j, m))
           = IF j > 1 /\ pri[h.d[j \div 2]] > pri[m]
               THEN Put(f[j \div 2], j, h.d[j \div 2]) ELSE Put(h, j, m)
    BY DEF Higher, Parents
  <2>3. QED BY <2>2 DEF Walk
<1>3. \E f : Is(f) BY <1>1, <1>2, WalkExists
<1>4. Is(CHOOSE f : Is(f)) BY <1>3
<1>5. BubbleUp(h, i, pri) = (CHOOSE f : Is(f))[i] BY DEF BubbleUp
<1> HIDE DEF Is
<1>6. QED BY <1>1, <1>2, <1>4, <1>5

\* Where the walk upwards has been, no line counts more than its children,
\* and none more than the line that was there.
Risen(g, h, m, j, pri) ==
  /\ \A k \in 2 .. j : pri[g.d[k \div 2]] <= pri[g.d[k]]
  /\ \A k \in 1 .. j - 1 : pri[g.d[k]] <= pri[h.d[k]]
  /\ g.d[j] = m \/ (j > 1 /\ g.d[j] = h.d[j \div 2])

LEMMA WalkRises ==
  ASSUME NEW h, NEW pri, NEW i, Gap(h, i, h.d[i]), MayRise(h, i, pri), CountedBy(pri),
         NEW f, Walk(f, Higher(h, h.d[i], pri), Parents, h, h.d[i]),
         \A j \in 1 .. i : Placed(f[j], h, h.d[i], j, Upwards)
  PROVE  \A j \in 1 .. i : Risen(f[j], h, h.d[i], j, pri)
<1> DEFINE m == h.d[i]
           C == Higher(h, m, pri)
           Bad == {n \in 1 .. i : ~ Risen(f[n], h, m, n, pri)}
<1>1. /\ 1 .. h.n \subseteq Slots /\ i \in 1 .. h.n /\ i \in Nat /\ h.n \in Nat /\ h \in Heaps
      /\ m \in Lines
  BY SlotsIn DEF Gap, Heaps
<1>2. SUFFICES ASSUME Bad # {} PROVE FALSE BY Zenon
<1>3. PICK j \in Bad : \A n \in Bad : j <= n
  <2>1. Bad \subseteq Nat BY <1>1
  <2> HIDE DEF Bad
  <2>2. QED BY <1>2, <2>1, NatMin
<1>4. j \in 1 .. i /\ j \in 1 .. h.n /\ j \in Slots /\ j \in Nat BY <1>1
<1>5. \A q \in 1 .. h.n : pri[h.d[q]] \in Nat BY <1>1 DEF Gap, CountedBy
<1>6. \A k \in 2 .. h.n : /\ k \div 2 \in 1 .. h.n /\ k \div 2 < k /\ k \in 1 .. h.n
                          /\ k # i => pri[h.d[k \div 2]] <= pri[h.d[k]]
  <2>1. SUFFICES ASSUME NEW k \in 2 .. h.n
                 PROVE  /\ k \div 2 \in 1 .. h.n /\ k \div 2 < k /\ k \in 1 .. h.n
                        /\ k # i => pri[h.d[k \div 2]] <= pri[h.d[k]]
    OBVIOUS
  <2>2. k \in Nat /\ k >= 2 /\ k <= h.n BY <1>1
  <2>3. k \div 2 \in Nat /\ k \div 2 >= 1 /\ k \div 2 < k BY <2>2, Half
  <2>4. QED BY <1>1, <2>2, <2>3 DEF MayRise
<1>7. CASE j \notin C
  <2> DEFINE g == f[j]
  <2>1. g = Put(h, j, m) BY <1>4, <1>7 DEF Walk
  <2>2. h \in Heaps /\ m \in Lines /\ j \in Slots BY <1>1, <1>4
  <2>3. g.d[j] = m /\ \A k \in Slots : k # j => g.d[k] = h.d[k] BY <2>1, <2>2, PutIn
  <2> HIDE DEF g
  <2>4. ASSUME NEW k \in 2 .. j PROVE pri[g.d[k \div 2]] <= pri[g.d[k]]
    <3>1. k \in 2 .. h.n BY <1>4, <1>1
    <3>2. k \div 2 \in 1 .. h.n /\ k \div 2 < k /\ k \in 1 .. h.n BY <3>1, <1>6
    <3>3. g.d[k \div 2] = h.d[k \div 2] BY <3>2, <2>3, <1>1, <1>4
    <3>4. CASE k = j
      <4>1. ~(pri[h.d[k \div 2]] > pri[m]) BY <3>1, <3>4, <1>4, <1>7 DEF Higher
      <4>2. pri[h.d[k \div 2]] \in Nat /\ pri[m] \in Nat BY <3>2, <1>5, <1>1
      <4>3. pri[h.d[k \div 2]] <= pri[m] BY <4>1, <4>2
      <4>4. QED BY <4>3, <3>3, <3>4, <2>3
    <3>5. CASE k # j
      <4>1. g.d[k] = h.d[k] BY <3>2, <3>5, <2>3, <1>1
      <4>2. k # i BY <3>5, <1>4
      <4>3. QED BY <4>1, <4>2, <3>3, <3>1, <1>6
    <3>6. QED BY <3>4, <3>5
  <2>5. \A k \in 1 .. j - 1 : pri[g.d[k]] <= pri[h.d[k]]
    <3>1. SUFFICES ASSUME NEW k \in 1 .. j - 1 PROVE pri[g.d[k]] <= pri[h.d[k]] OBVIOUS
    <3>2. k \in 1 .. h.n /\ k # j /\ k \in Slots BY <1>1, <1>4
    <3>3. g.d[k] = h.d[k] /\ pri[h.d[k]] \in Nat BY <3>2, <2>3, <1>5
    <3>4. QED BY <3>3
  <2>6. Risen(g, h, m, j, pri) BY <2>3, <2>4, <2>5 DEF Risen
  <2>7. QED BY <2>6, <1>3 DEF g
<1>8. CASE j \in C
  <2> DEFINE a == j \div 2
             b == f[a]
             g == f[j]
  <2>1. j \in 2 .. h.n /\ pri[h.d[a]] > pri[m] BY <1>4, <1>8 DEF Higher
  <2>2. a \in 1 .. h.n /\ a \in Slots /\ a < j /\ a \in 1 .. i
    BY <2>1, <1>6, <1>1, <1>4
  <2>3. g = Put(b, j, h.d[a]) BY <1>4, <1>8 DEF Walk, Parents
  <2>4. Placed(b, h, m, a, Upwards) BY <2>2
  <2>5. Risen(b, h, m, a, pri) BY <2>2, <1>3, <1>4
  <2> HIDE DEF a, b, g
  <2>6. b \in Heaps /\ h.d[a] \in Lines BY <2>2, <2>4, <1>1, <1>4 DEF Placed, Gap
  <2>7. g.d[j] = h.d[a] /\ \A k \in Slots : k # j => g.d[k] = b.d[k]
    <3> DEFINE e == h.d[a]
    <3>1. b \in Heaps /\ e \in Lines /\ j \in Slots BY <2>6, <1>4
    <3>2. g = Put(b, j, e) BY <2>3
    <3> SUFFICES g.d[j] = e /\ \A k \in Slots : k # j => g.d[k] = b.d[k] OBVIOUS
    <3> HIDE DEF e
    <3>3. QED BY <3>1, <3>2, PutIn
  <2>8. \A k \in Slots : k > a => b.d[k] = h.d[k]
    BY <2>4, <2>2 DEF Placed, Ahead, Upwards
  <2>9. \A k \in 1 .. h.n : b.d[k] \in Lines
    <3>1. SUFFICES ASSUME NEW k \in 1 .. h.n PROVE b.d[k] \in Lines OBVIOUS
    <3>2. k \in Slots /\ a \in Nat BY <1>1, <2>2
    <3>3. CASE k <= a
      <4>1. k \in Ahead(h, a, Upwards) BY <3>2, <3>3, <2>2 DEF Ahead, Upwards
      <4>2. QED BY <4>1, <2>4 DEF Placed
    <3>4. CASE k > a BY <3>2, <3>4, <2>8, <1>1 DEF Gap
    <3>5. QED BY <3>2, <3>3, <3>4
  <2>10. \A k \in 1 .. h.n : pri[b.d[k]] \in Nat BY <2>9 DEF CountedBy
  <2>11. /\ \A k \in 2 .. a : pri[b.d[k \div 2]] <= pri[b.d[k]]
         /\ \A k \in 1 .. a - 1 : pri[b.d[k]] <= pri[h.d[k]]
         /\ b.d[a] = m \/ (a > 1 /\ b.d[a] = h.d[a \div 2])
    BY <2>5 DEF Risen
  <2>12. pri[b.d[a]] <= pri[h.d[a]]
    <3>1. CASE b.d[a] = m BY <3>1, <2>1, <2>2, <1>5, <1>1 DEF a, CountedBy
    <3>2. CASE a > 1 /\ b.d[a] = h.d[a \div 2]
      <4>1. a \in 2 .. h.n /\ a # i BY <3>2, <2>2, <1>4, <1>1
      <4>2. QED BY <4>1, <3>2, <1>6
    <3>3. QED BY <3>1, <3>2, <2>11
  <2>13. \A k \in 1 .. a : pri[b.d[k]] <= pri[h.d[k]]
    BY <2>11, <2>12, <2>2
  <2>14. \A k \in 1 .. j - 1 : pri[g.d[k]] <= pri[h.d[k]]
    <3>1. SUFFICES ASSUME NEW k \in 1 .. j - 1 PROVE pri[g.d[k]] <= pri[h.d[k]] OBVIOUS
    <3>2. k \in 1 .. h.n /\ k # j /\ k \in Slots /\ a \in Nat BY <1>1, <1>4, <2>2
    <3>3. g.d[k] = b.d[k] /\ pri[h.d[k]] \in Nat BY <3>2, <2>7, <1>5
    <3>4. CASE k <= a
      <4>1. k \in 1 .. a BY <3>2, <3>4
      <4>2. QED BY <4>1, <3>3, <2>13
    <3>5. CASE k > a
      <4>1. b.d[k] = h.d[k] BY <3>2, <3>5, <2>8
      <4>2. QED BY <4>1, <3>3
    <3>6. QED BY <3>2, <3>4, <3>5
  <2>15. ASSUME NEW k \in 2 .. j PROVE pri[g.d[k \div 2]] <= pri[g.d[k]]
    <3> DEFINE q == k \div 2
    <3>1. k \in 2 .. h.n BY <1>4, <1>1
    <3>2. q \in 1 .. h.n /\ q < k /\ k \in 1 .. h.n BY <3>1, <1>6
    <3>3. k # i => pri[h.d[q]] <= pri[h.d[k]] BY <3>1, <1>6
    <3>4. k = j => q = a BY DEF a
    <3>5. k <= a => pri[b.d[q]] <= pri[b.d[k]] BY <2>11, <2>2
    <3> SUFFICES pri[g.d[q]] <= pri[g.d[k]] OBVIOUS
    <3> HIDE DEF q
    <3>6. q \in Slots /\ q # j /\ g.d[q] = b.d[q] BY <3>2, <2>7, <1>1, <1>4
    <3>7. pri[g.d[q]] <= pri[h.d[q]] BY <3>2, <2>14, <1>4
    <3>8. /\ pri[h.d[q]] \in Nat /\ pri[h.d[k]] \in Nat
          /\ pri[b.d[q]] \in Nat /\ pri[b.d[k]] \in Nat
      BY <3>2, <1>5, <2>10
    <3>9. CASE k = j
      <4>1. pri[g.d[q]] <= pri[h.d[a]] BY <3>9, <3>4, <3>7
      <4>2. QED BY <4>1, <3>9, <2>7, <3>4
    <3>10. CASE k # j /\ k <= a
      <4>1. g.d[k] = b.d[k] BY <3>10, <3>2, <2>7, <1>1
      <4>2. QED BY <4>1, <3>5, <3>6, <3>10
    <3>11. CASE k # j /\ k > a
      <4>1. g.d[k] = h.d[k] BY <3>11, <3>2, <2>7, <2>8, <1>1
      <4>2. k # i BY <3>11, <1>4
      <4>3. QED BY <4>1, <4>2, <3>3, <3>7, <3>6, <3>8
    <3>12. QED
      <4>1. k <= a \/ k > a BY <3>2, <2>2
      <4>2. QED BY <4>1, <3>9, <3>10, <3>11
  <2>16. g.d[j] = m \/ (j > 1 /\ g.d[j] = h.d[j \div 2]) BY <2>7, <2>1 DEF a
  <2>17. Risen(g, h, m, j, pri) BY <2>14, <2>15, <2>16 DEF Risen
  <2>18. QED BY <2>17, <1>3 DEF g
<1>9. QED BY <1>7, <1>8

\* bubble_up restores the order and keeps the lines and their positions.
LEMMA BubbleUpRestores ==
  ASSUME NEW h, NEW pri, NEW i, Gap(h, i, h.d[i]), MayRise(h, i, pri), CountedBy(pri)
  PROVE  /\ Settled(BubbleUp(h, i, pri), h)
         /\ Ordered(BubbleUp(h, i, pri), pri)
<1> DEFINE m == h.d[i]
           C == Higher(h, m, pri)
           r == Upwards
<1>1. /\ 1 .. h.n \subseteq Slots /\ i \in 1 .. h.n /\ i \in Nat /\ h.n \in Nat /\ h \in Heaps
      /\ m \in Lines /\ i \in Slots
  BY SlotsIn DEF Gap, Heaps
<1>2. Falls(C, Parents, r) BY <1>1, BubbleUpWalks
<1>3. PICK f : Walk(f, C, Parents, h, m) /\ BubbleUp(h, i, pri) = f[i]
  BY <1>1, BubbleUpWalks
<1>4. \A k \in 2 .. h.n : /\ k \div 2 \in 1 .. h.n /\ k \div 2 < k /\ k \in 1 .. h.n
                          /\ k # i => pri[h.d[k \div 2]] <= pri[h.d[k]]
  <2>1. SUFFICES ASSUME NEW k \in 2 .. h.n
                 PROVE  /\ k \div 2 \in 1 .. h.n /\ k \div 2 < k /\ k \in 1 .. h.n
                        /\ k # i => pri[h.d[k \div 2]] <= pri[h.d[k]]
    OBVIOUS
  <2>2. k \in Nat /\ k >= 2 /\ k <= h.n BY <1>1
  <2>3. k \div 2 \in Nat /\ k \div 2 >= 1 /\ k \div 2 < k BY <2>2, Half
  <2>4. QED BY <1>1, <2>2, <2>3 DEF MayRise
<1>5. Stays(C, Parents, h)
  <2>1. \A j \in C : j \in 1 .. h.n => j \in 2 .. h.n /\ Parents[j] = j \div 2
    BY DEF Higher, Parents
  <2>2. QED BY <2>1, <1>4 DEF Stays
<1>6. \A j \in Ahead(h, i, r) : Placed(f[j], h, m, j, r)
  BY <1>2, <1>3, <1>5, WalkPlaces
<1>7. 1 .. i \subseteq Ahead(h, i, r) /\ i \in 1 .. i BY <1>1 DEF Ahead, Upwards
<1>8. \A j \in 1 .. i : Placed(f[j], h, m, j, r) BY <1>6, <1>7
<1>9. \A j \in 1 .. i : Risen(f[j], h, m, j, pri) BY <1>3, <1>8, WalkRises
<1> DEFINE g == f[i]
<1>10. Placed(g, h, m, i, r) /\ Risen(g, h, m, i, pri) BY <1>7, <1>8, <1>9
<1> HIDE DEF g
<1>11. Settled(g, h)
  <2>1. \A j \in Slots : r[j] \in Nat BY SlotsIn DEF Upwards
  <2>2. QED BY <1>10, <2>1, PlacedSettles
<1>12. \A k \in Slots : k > i => g.d[k] = h.d[k]
  BY <1>10, <1>1 DEF Placed, Ahead, Upwards
<1>13. /\ \A k \in 2 .. i : pri[g.d[k \div 2]] <= pri[g.d[k]]
       /\ \A k \in 1 .. i - 1 : pri[g.d[k]] <= pri[h.d[k]]
       /\ g.d[i] = m \/ (i > 1 /\ g.d[i] = h.d[i \div 2])
  BY <1>10 DEF Risen
<1>14. \A k \in 1 .. h.n : pri[h.d[k]] \in Nat /\ pri[g.d[k]] \in Nat
  BY <1>1, <1>11 DEF Gap, CountedBy, Settled
<1>15. ASSUME NEW k \in 2 .. h.n PROVE pri[g.d[k \div 2]] <= pri[g.d[k]]
  <2> DEFINE q == k \div 2
  <2>1. q \in 1 .. h.n /\ q < k /\ k \in 1 .. h.n BY <1>4
  <2>2. k # i => pri[h.d[q]] <= pri[h.d[k]] BY <1>4
  <2>3. k <= i => pri[g.d[q]] <= pri[g.d[k]] BY <1>13, <1>1
  <2>4. q = i /\ i > 1 => pri[h.d[i \div 2]] <= pri[h.d[k]] BY DEF MayRise, Between
  <2> SUFFICES pri[g.d[q]] <= pri[g.d[k]] OBVIOUS
  <2> HIDE DEF q
  <2>5. CASE k <= i BY <2>3, <2>5
  <2>6. CASE k > i
    <3>1. g.d[k] = h.d[k] /\ k # i BY <2>1, <2>6, <1>1, <1>12
    <3>2. CASE q > i
      <4>1. g.d[q] = h.d[q] BY <3>2, <2>1, <1>1, <1>12
      <4>2. QED BY <4>1, <3>1, <2>2
    <3>3. CASE q = i BY <3>1, <3>3, <2>2, <2>4, <1>13
    <3>4. CASE q < i
      <4>1. pri[g.d[q]] <= pri[h.d[q]] BY <3>4, <2>1, <1>13, <1>1
      <4>2. QED BY <4>1, <3>1, <2>1, <2>2, <1>14
    <3>5. QED BY <2>1, <1>1, <3>2, <3>3, <3>4
  <2>7. QED BY <2>5, <2>6, <2>1, <1>1
<1>16. Ordered(g, pri) BY <1>15, <1>11 DEF Ordered, Settled
<1>17. QED BY <1>3, <1>11, <1>16 DEF g

\* The child that percolate_down compares with: one of the least count.
LEMMA MaxChildIs ==
  ASSUME NEW h, h.n \in Nat, NEW j \in Nat, j >= 1, NEW pri,
         \A k \in 1 .. h.n : pri[h.d[k]] \in Nat
  PROVE  LET c == MaxChild(h, j, pri) IN
         /\ c = 0 \/ (c \in 2 .. h.n /\ c \div 2 = j /\ c > j)
         /\ \A k \in 2 .. h.n : k \div 2 = j => c # 0 /\ pri[h.d[c]] <= pri[h.d[k]]
<1> DEFINE c == MaxChild(h, j, pri)
<1>1. \A k \in 2 .. h.n : k \div 2 = j => k = 2 * j \/ k = 2 * j + 1 BY Half
<1>2. (2 * j) \div 2 = j /\ (2 * j + 1) \div 2 = j BY Half
<1>3. CASE 2 * j > h.n
  <2>1. c = 0 BY <1>3 DEF MaxChild
  <2>2. QED BY <2>1, <1>1, <1>3
<1>4. CASE 2 * j <= h.n
  <2>1. 2 * j \in 2 .. h.n /\ 2 * j \in 1 .. h.n /\ 2 * j > j BY <1>4
  <2>2. CASE 2 * j + 1 <= h.n /\ pri[h.d[2 * j]] > pri[h.d[2 * j + 1]]
    <3>1. c = 2 * j + 1 BY <1>4, <2>2 DEF MaxChild
    <3>2. 2 * j + 1 \in 2 .. h.n /\ 2 * j + 1 \in 1 .. h.n /\ 2 * j + 1 > j BY <2>2
    <3>3. pri[h.d[2 * j]] \in Nat /\ pri[h.d[2 * j + 1]] \in Nat BY <2>1, <3>2
    <3> HIDE DEF c
    <3>4. pri[h.d[c]] <= pri[h.d[2 * j]] /\ pri[h.d[c]] <= pri[h.d[2 * j + 1]] /\ c # 0
      BY <2>2, <3>1, <3>3
    <3>5. \A k \in 2 .. h.n : k \div 2 = j => c # 0 /\ pri[h.d[c]] <= pri[h.d[k]]
      BY <1>1, <3>4
    <3>6. c \in 2 .. h.n /\ c \div 2 = j /\ c > j BY <3>1, <3>2, <1>2
    <3>7. QED BY <3>5, <3>6 DEF c
  <2>3. CASE ~(2 * j + 1 <= h.n /\ pri[h.d[2 * j]] > pri[h.d[2 * j + 1]])
    <3>1. c = 2 * j BY <1>4, <2>3 DEF MaxChild
    <3>2. 2 * j + 1 <= h.n => 2 * j + 1 \in 1 .. h.n OBVIOUS
    <3>3. pri[h.d[2 * j]] \in Nat /\ (2 * j + 1 <= h.n => pri[h.d[2 * j + 1]] \in Nat)
      BY <2>1, <3>2
    <3> HIDE DEF c
    <3>4. c # 0 /\ pri[h.d[c]] <= pri[h.d[2 * j]]
          /\ (2 * j + 1 <= h.n => pri[h.d[c]] <= pri[h.d[2 * j + 1]])
      BY <2>3, <3>1, <3>3
    <3>5. ASSUME NEW k \in 2 .. h.n, k \div 2 = j PROVE c # 0 /\ pri[h.d[c]] <= pri[h.d[k]]
      <4>1. k = 2 * j \/ (k = 2 * j + 1 /\ 2 * j + 1 <= h.n) BY <1>1, <3>5
      <4>2. QED BY <4>1, <3>4
    <3>6. c \in 2 .. h.n /\ c \div 2 = j /\ c > j BY <3>1, <2>1, <1>2
    <3>7. QED BY <3>5, <3>6 DEF c
  <2>4. QED BY <2>2, <2>3
<1>5. QED BY <1>3, <1>4

Deeper(h, m, pri) ==
  {j \in Slots : MaxChild(h, j, pri) # 0 /\ pri[m] > pri[h.d[MaxChild(h, j, pri)]]}
Children(h, pri) == [j \in Slots |-> MaxChild(h, j, pri)]
Downwards == [j \in Slots |-> Cardinality(Lines) - j]

LEMMA PercolateDownWalks ==
  ASSUME NEW h \in Heaps, NEW i \in Slots, NEW pri,
         \A k \in 1 .. h.n : pri[h.d[k]] \in Nat
  PROVE  /\ Falls(Deeper(h, h.d[i], pri), Children(h, pri), Downwards)
         /\ \E f : /\ Walk(f, Deeper(h, h.d[i], pri), Children(h, pri), h, h.d[i])
                   /\ PercolateDown(h, i, pri) = f[i]
<1> DEFINE m == h.d[i]
           C == Deeper(h, m, pri)
           Is(f) == f = [j \in Slots |->
                          IF MaxChild(h, j, pri) # 0 /\ pri[m] > pri[h.d[MaxChild(h, j, pri)]]
                            THEN Put(f[MaxChild(h, j, pri)], j, h.d[MaxChild(h, j, pri)])
                            ELSE Put(h, j, m)]
<1>1. Falls(C, Children(h, pri), Downwards)
  <2>1. h.n \in Nat /\ h.n <= Cardinality(Lines) /\ Cardinality(Lines) \in Nat
    BY SlotsIn DEF Heaps
  <2>2. \A j \in C : MaxChild(h, j, pri) \in Slots /\ MaxChild(h, j, pri) > j
    <3>1. SUFFICES ASSUME NEW j \in C
                   PROVE  MaxChild(h, j, pri) \in Slots /\ MaxChild(h, j, pri) > j
      OBVIOUS
    <3>2. j \in Slots /\ MaxChild(h, j, pri) # 0 BY DEF Deeper
    <3>3. j \in Nat /\ j >= 1 BY <3>2, SlotsIn
    <3>4. MaxChild(h, j, pri) \in 2 .. h.n /\ MaxChild(h, j, pri) > j
      BY <2>1, <3>2, <3>3, MaxChildIs
    <3>5. QED BY <3>4, <2>1, SlotsIn
  <2>3. \A j \in Slots : Downwards[j] = Cardinality(Lines) - j /\ j \in Nat
                         /\ Cardinality(Lines) - j \in 0 .. Cardinality(Lines)
    BY SlotsIn DEF Downwards
  <2>4. \A j \in C : j \in Slots /\ Children(h, pri)[j] = MaxChild(h, j, pri)
    BY DEF Deeper, Children
  <2>5. \A j \in C : Children(h, pri)[j] \in Slots /\ Downwards[Children(h, pri)[j]] < Downwards[j]
    BY <2>1, <2>2, <2>3, <2>4
  <2>6. \A j, k \in Slots : Downwards[j] = Downwards[k] => j = k BY <2>1, <2>3
  <2>7. QED BY <2>3, <2>4, <2>5, <2>6 DEF Falls
<1>2. \A f : Walk(f, C, Children(h, pri), h, m) <=> Is(f)
  <2>1. SUFFICES ASSUME NEW f PROVE Walk(f, C, Children(h, pri), h, m) <=> Is(f) OBVIOUS
  <2>2. \A j \in Slots :
          (IF j \in C THEN Put(f[Children(h, pri)[j]], j, h.d[Children(h, pri)[j]]) ELSE Put(h, j, m))
           = IF MaxChild(h, j, pri) # 0 /\ pri[m] > pri[h.d[MaxChild(h, j, pri)]]
               THEN Put(f[MaxChild(h, j, pri)], j, h.d[MaxChild(h, j, pri)])
               ELSE Put(h, j, m)
    BY DEF Deeper, Children
  <2>3. QED BY <2>2 DEF Walk
<1>3. \E f : Is(f) BY <1>1, <1>2, WalkExists
<1>4. Is(CHOOSE f : Is(f)) BY <1>3
<1>5. PercolateDown(h, i, pri) = (CHOOSE f : Is(f))[i] BY DEF PercolateDown
<1> HIDE DEF Is
<1>6. QED BY <1>1, <1>2, <1>4, <1>5

\* Where the walk downwards has been, no line counts more than its children,
\* and none less than the line that was there.
Sunk(g, h, m, j, pri) ==
  /\ \A k \in 2 .. h.n : k \div 2 >= j => pri[g.d[k \div 2]] <= pri[g.d[k]]
  /\ \A k \in j + 1 .. h.n : pri[h.d[k]] <= pri[g.d[k]]
  /\ g.d[j] = m \/ \E c \in 2 .. h.n : c \div 2 = j /\ g.d[j] = h.d[c]

LEMMA WalkSinks ==
  ASSUME NEW h, NEW pri, NEW i, Gap(h, i, h.d[i]), MaySink(h, i, pri), CountedBy(pri),
         NEW f, Walk(f, Deeper(h, h.d[i], pri), Children(h, pri), h, h.d[i]),
         \A j \in i .. h.n : Placed(f[j], h, h.d[i], j, Downwards)
  PROVE  \A j \in i .. h.n : Sunk(f[j], h, h.d[i], j, pri)
<1> DEFINE m == h.d[i]
           C == Deeper(h, m, pri)
           Bad == {n \in Nat : \E j \in i .. h.n : n = h.n - j /\ ~ Sunk(f[j], h, m, j, pri)}
<1>1. /\ 1 .. h.n \subseteq Slots /\ i \in 1 .. h.n /\ i \in Nat /\ h.n \in Nat /\ h \in Heaps
      /\ m \in Lines
  BY SlotsIn DEF Gap, Heaps
<1>2. SUFFICES ASSUME Bad # {} PROVE FALSE
  <2>1. \A j \in i .. h.n : h.n - j \in Nat BY <1>1
  <2>2. QED BY <1>2, <2>1
<1>3. PICK n \in Bad : \A k \in Bad : n <= k
  <2>1. Bad \subseteq Nat OBVIOUS
  <2> HIDE DEF Bad
  <2>2. QED BY <1>2, <2>1, NatMin
<1>4. PICK j \in i .. h.n : n = h.n - j /\ ~ Sunk(f[j], h, m, j, pri) BY <1>3
<1>5. j \in 1 .. h.n /\ j \in Slots /\ j \in Nat /\ j >= 1 BY <1>1
<1>6. \A a \in j + 1 .. h.n : Sunk(f[a], h, m, a, pri)
  <2>1. SUFFICES ASSUME NEW a \in j + 1 .. h.n PROVE Sunk(f[a], h, m, a, pri) OBVIOUS
  <2>2. h.n - a \in Nat /\ h.n - a < n /\ a \in i .. h.n BY <1>1, <1>4, <1>5
  <2>3. h.n - a \notin Bad BY <2>2, <1>3
  <2>4. QED BY <2>2, <2>3
<1>7. \A q \in 1 .. h.n : pri[h.d[q]] \in Nat BY <1>1 DEF Gap, CountedBy
<1>8. \A k \in 2 .. h.n : /\ k \div 2 \in 1 .. h.n /\ k \div 2 < k /\ k \in 1 .. h.n
                          /\ k \div 2 # i => pri[h.d[k \div 2]] <= pri[h.d[k]]
  <2>1. SUFFICES ASSUME NEW k \in 2 .. h.n
                 PROVE  /\ k \div 2 \in 1 .. h.n /\ k \div 2 < k /\ k \in 1 .. h.n
                        /\ k \div 2 # i => pri[h.d[k \div 2]] <= pri[h.d[k]]
    OBVIOUS
  <2>2. k \in Nat /\ k >= 2 /\ k <= h.n BY <1>1
  <2>3. k \div 2 \in Nat /\ k \div 2 >= 1 /\ k \div 2 < k BY <2>2, Half
  <2>4. QED BY <1>1, <2>2, <2>3 DEF MaySink
<1> DEFINE c == MaxChild(h, j, pri)
<1>9. /\ c = 0 \/ (c \in 2 .. h.n /\ c \div 2 = j /\ c > j)
      /\ \A k \in 2 .. h.n : k \div 2 = j => c # 0 /\ pri[h.d[c]] <= pri[h.d[k]]
  BY <1>1, <1>5, <1>7, MaxChildIs
<1>10. j \in C <=> c # 0 /\ pri[m] > pri[h.d[c]] BY <1>5 DEF Deeper
<1>11. f[j] = IF j \in C THEN Put(f[c], j, h.d[c]) ELSE Put(h, j, m)
  BY <1>5 DEF Walk, Children
<1> DEFINE g == f[j]
<1> SUFFICES Sunk(g, h, m, j, pri) BY <1>4
<1> HIDE DEF c, C, g
<1>12. CASE j \notin C
  <2>1. g = Put(h, j, m) BY <1>11, <1>12 DEF g
  <2>2. h \in Heaps /\ m \in Lines /\ j \in Slots BY <1>1, <1>5
  <2>3. g.d[j] = m /\ \A k \in Slots : k # j => g.d[k] = h.d[k] BY <2>1, <2>2, PutIn
  <2>4. ASSUME NEW k \in 2 .. h.n, k \div 2 >= j PROVE pri[g.d[k \div 2]] <= pri[g.d[k]]
    <3> DEFINE q == k \div 2
    <3>1. q \in 1 .. h.n /\ q < k /\ k \in 1 .. h.n /\ q >= j BY <1>8, <2>4
    <3>2. q # i => pri[h.d[q]] <= pri[h.d[k]] BY <1>8
    <3>3. q = j => c # 0 /\ pri[h.d[c]] <= pri[h.d[k]] BY <1>9
    <3> SUFFICES pri[g.d[q]] <= pri[g.d[k]] OBVIOUS
    <3> HIDE DEF q
    <3>4. g.d[k] = h.d[k] BY <3>1, <2>3, <1>1, <1>5
    <3>5. CASE q = j
      <4>1. ~(pri[m] > pri[h.d[c]]) /\ c # 0 BY <3>3, <3>5, <1>10, <1>12
      <4>2. pri[m] \in Nat /\ pri[h.d[c]] \in Nat /\ pri[h.d[k]] \in Nat
        BY <3>1, <4>1, <1>7, <1>9, <1>1, <1>8
      <4>3. pri[m] <= pri[h.d[k]] BY <4>1, <4>2, <3>3, <3>5
      <4>4. QED BY <4>3, <3>4, <3>5, <2>3
    <3>6. CASE q # j
      <4>1. g.d[q] = h.d[q] BY <3>1, <3>6, <2>3, <1>1
      <4>2. q # i BY <3>1, <3>6, <1>1, <1>5
      <4>3. QED BY <4>1, <4>2, <3>2, <3>4
    <3>7. QED BY <3>5, <3>6
  <2>5. \A k \in j + 1 .. h.n : pri[h.d[k]] <= pri[g.d[k]]
    <3>1. SUFFICES ASSUME NEW k \in j + 1 .. h.n PROVE pri[h.d[k]] <= pri[g.d[k]] OBVIOUS
    <3>2. k \in 1 .. h.n /\ k # j /\ k \in Slots BY <1>1, <1>5
    <3>3. g.d[k] = h.d[k] /\ pri[h.d[k]] \in Nat BY <3>2, <2>3, <1>7
    <3>4. QED BY <3>3
  <2>6. QED BY <2>3, <2>4, <2>5 DEF Sunk
<1>13. CASE j \in C
  <2> DEFINE b == f[c]
  <2>1. c \in 2 .. h.n /\ c \div 2 = j /\ c > j /\ pri[m] > pri[h.d[c]]
    BY <1>9, <1>10, <1>13
  <2>2. /\ c \in 1 .. h.n /\ c \in Slots /\ c \in i .. h.n /\ c \in j + 1 .. h.n /\ c # i
        /\ c \in Nat
    BY <2>1, <1>1, <1>5
  <2>3. g = Put(b, j, h.d[c]) BY <1>11, <1>13 DEF g
  <2>4. Placed(b, h, m, c, Downwards) BY <2>2
  <2>5. Sunk(b, h, m, c, pri) BY <2>2, <1>6
  <2> HIDE DEF b
  <2>6. b \in Heaps /\ h.d[c] \in Lines BY <2>2, <2>4 DEF Placed, Gap
  <2>7. g.d[j] = h.d[c] /\ \A k \in Slots : k # j => g.d[k] = b.d[k]
    <3> DEFINE e == h.d[c]
    <3>1. b \in Heaps /\ e \in Lines /\ j \in Slots BY <2>6, <1>5
    <3>2. g = Put(b, j, e) BY <2>3
    <3> SUFFICES g.d[j] = e /\ \A k \in Slots : k # j => g.d[k] = b.d[k] OBVIOUS
    <3> HIDE DEF e
    <3>3. QED BY <3>1, <3>2, PutIn
  <2>8. \A k \in Slots : k < c => b.d[k] = h.d[k]
    <3>1. SUFFICES ASSUME NEW k \in Slots, k < c PROVE b.d[k] = h.d[k] OBVIOUS
    <3>2. Downwards[k] = Cardinality(Lines) - k /\ Downwards[c] = Cardinality(Lines) - c
      BY <2>2 DEF Downwards
    <3>3. Downwards[k] > Downwards[c] BY <3>1, <3>2, <2>2, SlotsIn
    <3>4. Downwards[k] \in Int /\ Downwards[c] \in Int BY <3>2, <2>2, SlotsIn
    <3>5. k \notin Ahead(h, c, Downwards) BY <3>3, <3>4 DEF Ahead
    <3>6. QED BY <3>5, <2>4 DEF Placed
  <2>9. \A k \in 1 .. h.n : b.d[k] \in Lines
    <3>1. SUFFICES ASSUME NEW k \in 1 .. h.n PROVE b.d[k] \in Lines OBVIOUS
    <3>2. k \in Slots BY <1>1
    <3>3. CASE k \in Ahead(h, c, Downwards) BY <3>3, <2>4 DEF Placed
    <3>4. CASE k \notin Ahead(h, c, Downwards)
      <4>1. b.d[k] = h.d[k] BY <3>2, <3>4, <2>4 DEF Placed
      <4>2. QED BY <4>1, <1>1 DEF Gap
    <3>5. QED BY <3>3, <3>4
  <2>10. \A k \in 1 .. h.n : pri[b.d[k]] \in Nat BY <2>9 DEF CountedBy
  <2>11. /\ \A k \in 2 .. h.n : k \div 2 >= c => pri[b.d[k \div 2]] <= pri[b.d[k]]
         /\ \A k \in c + 1 .. h.n : pri[h.d[k]] <= pri[b.d[k]]
         /\ b.d[c] = m \/ \E e \in 2 .. h.n : e \div 2 = c /\ b.d[c] = h.d[e]
    BY <2>5 DEF Sunk
  <2>12. pri[h.d[c]] <= pri[b.d[c]]
    <3>1. CASE b.d[c] = m
      <4>1. pri[m] \in Nat /\ pri[h.d[c]] \in Nat BY <2>2, <1>7, <1>1
      <4>2. QED BY <4>1, <3>1, <2>1
    <3>2. CASE \E e \in 2 .. h.n : e \div 2 = c /\ b.d[c] = h.d[e] BY <3>2, <2>2, <1>8
    <3>3. QED BY <3>1, <3>2, <2>11
  <2>13. \A k \in j + 1 .. h.n : pri[h.d[k]] <= pri[g.d[k]]
    <3>1. SUFFICES ASSUME NEW k \in j + 1 .. h.n PROVE pri[h.d[k]] <= pri[g.d[k]] OBVIOUS
    <3>2. k \in 1 .. h.n /\ k # j /\ k \in Slots /\ k \in Nat BY <1>1, <1>5
    <3>3. g.d[k] = b.d[k] /\ pri[h.d[k]] \in Nat BY <3>2, <2>7, <1>7
    <3>4. CASE k < c
      <4>1. b.d[k] = h.d[k] BY <3>2, <3>4, <2>8
      <4>2. QED BY <4>1, <3>3
    <3>5. CASE k = c BY <3>3, <3>5, <2>12
    <3>6. CASE k > c
      <4>1. k \in c + 1 .. h.n BY <3>2, <3>6, <2>2
      <4>2. QED BY <4>1, <3>3, <2>11
    <3>7. QED BY <3>2, <2>2, <3>4, <3>5, <3>6
  <2>14. ASSUME NEW k \in 2 .. h.n, k \div 2 >= j PROVE pri[g.d[k \div 2]] <= pri[g.d[k]]
    <3> DEFINE q == k \div 2
    <3>1. q \in 1 .. h.n /\ q < k /\ k \in 1 .. h.n /\ q >= j /\ q \in Nat BY <1>8, <2>14
    <3>2. q # i => pri[h.d[q]] <= pri[h.d[k]] BY <1>8
    <3>3. q = j => pri[h.d[c]] <= pri[h.d[k]] BY <1>9
    <3>4. q >= c => pri[b.d[q]] <= pri[b.d[k]] BY <2>11
    <3>5. k = 2 * q \/ k = 2 * q + 1 BY Half
    <3>6. c = 2 * j \/ c = 2 * j + 1 BY <2>1, Half
    <3> SUFFICES pri[g.d[q]] <= pri[g.d[k]] OBVIOUS
    <3> HIDE DEF q
    <3>7. k \in j + 1 .. h.n /\ k # j BY <3>1, <1>5
    <3>8. g.d[k] = b.d[k] /\ pri[h.d[k]] <= pri[g.d[k]] BY <3>1, <3>7, <2>7, <2>13, <1>1
    <3>9. pri[h.d[q]] \in Nat /\ pri[h.d[k]] \in Nat /\ pri[b.d[q]] \in Nat
          /\ pri[b.d[k]] \in Nat /\ pri[h.d[c]] \in Nat
      BY <3>1, <1>7, <2>10, <2>2
    <3>10. CASE q = j
      <4>1. g.d[q] = h.d[c] BY <3>10, <2>7
      <4>2. QED BY <4>1, <3>3, <3>8, <3>9, <3>10
    <3>11. CASE q # j /\ q < c
      <4>1. g.d[q] = h.d[q] BY <3>1, <3>11, <2>7, <2>8, <1>1
      <4>2. q # i BY <3>1, <3>11, <1>1, <1>5
      <4>3. QED BY <4>1, <4>2, <3>2, <3>8, <3>9
    <3>12. CASE q # j /\ q >= c
      <4>1. g.d[q] = b.d[q] BY <3>1, <3>12, <2>7, <1>1
      <4>2. QED BY <4>1, <3>4, <3>8, <3>12
    <3>13. QED BY <3>1, <2>2, <3>10, <3>11, <3>12
  <2>15. \E e \in 2 .. h.n : e \div 2 = j /\ g.d[j] = h.d[e] BY <2>1, <2>7
  <2>16. QED BY <2>13, <2>14, <2>15 DEF Sunk
<1>14. QED BY <1>12, <1>13

\* percolate_down does so too.
LEMMA PercolateDownRestores ==
  ASSUME NEW h, NEW pri, NEW i, Gap(h, i, h.d[i]), MaySink(h, i, pri), CountedBy(pri)
  PROVE  /\ Settled(PercolateDown(h, i, pri), h)
         /\ Ordered(PercolateDown(h, i, pri), pri)
<1> DEFINE m == h.d[i]
           C == Deeper(h, m, pri)
           p == Children(h, pri)
           r == Downwards
<1>1. /\ 1 .. h.n \subseteq Slots /\ i \in 1 .. h.n /\ i \in Nat /\ h.n \in Nat /\ h \in Heaps
      /\ m \in Lines /\ i \in Slots
  BY SlotsIn DEF Gap, Heaps
<1>2. \A q \in 1 .. h.n : pri[h.d[q]] \in Nat BY <1>1 DEF Gap, CountedBy
<1>3. Falls(C, p, r) BY <1>1, <1>2, PercolateDownWalks
<1>4. PICK f : Walk(f, C, p, h, m) /\ PercolateDown(h, i, pri) = f[i]
  BY <1>1, <1>2, PercolateDownWalks
<1>5. \A k \in 2 .. h.n : /\ k \div 2 \in 1 .. h.n /\ k \div 2 < k /\ k \in 1 .. h.n
                          /\ k \div 2 # i => pri[h.d[k \div 2]] <= pri[h.d[k]]
  <2>1. SUFFICES ASSUME NEW k \in 2 .. h.n
                 PROVE  /\ k \div 2 \in 1 .. h.n /\ k \div 2 < k /\ k \in 1 .. h.n
                        /\ k \div 2 # i => pri[h.d[k \div 2]] <= pri[h.d[k]]
    OBVIOUS
  <2>2. k \in Nat /\ k >= 2 /\ k <= h.n BY <1>1
  <2>3. k \div 2 \in Nat /\ k \div 2 >= 1 /\ k \div 2 < k BY <2>2, Half
  <2>4. QED BY <1>1, <2>2, <2>3 DEF MaySink
<1>6. Stays(C, p, h)
  <2>1. SUFFICES ASSUME NEW j \in C, j \in 1 .. h.n PROVE p[j] \in 1 .. h.n BY DEF Stays
  <2>2. j \in Slots /\ j \in Nat /\ j >= 1 /\ MaxChild(h, j, pri) # 0
    BY <2>1, <1>1 DEF Deeper
  <2>3. MaxChild(h, j, pri) \in 2 .. h.n BY <2>2, <1>1, <1>2, MaxChildIs
  <2>4. QED BY <2>2, <2>3 DEF Children
<1>7. \A j \in Ahead(h, i, r) : Placed(f[j], h, m, j, r)
  BY <1>3, <1>4, <1>6, WalkPlaces
<1>8. \A j \in Slots : j \in Nat /\ r[j] = Cardinality(Lines) - j /\ r[j] \in Nat
  BY SlotsIn DEF Downwards
<1>9. i .. h.n \subseteq Ahead(h, i, r) /\ i \in i .. h.n
  BY <1>1, <1>8, SlotsIn DEF Ahead
<1>10. \A j \in i .. h.n : Placed(f[j], h, m, j, r) BY <1>7, <1>9
<1>11. \A j \in i .. h.n : Sunk(f[j], h, m, j, pri) BY <1>4, <1>10, WalkSinks
<1> DEFINE g == f[i]
<1>12. Placed(g, h, m, i, r) /\ Sunk(g, h, m, i, pri) BY <1>9, <1>10, <1>11
<1> HIDE DEF g
<1>13. Settled(g, h)
  <2>1. \A j \in Slots : r[j] \in Nat BY <1>8
  <2>2. QED BY <1>12, <2>1, PlacedSettles
<1>14. \A k \in Slots : k < i => g.d[k] = h.d[k]
  <2>1. \A k \in Slots : k < i => k \notin Ahead(h, i, r)
    BY <1>1, <1>8, SlotsIn DEF Ahead
  <2>2. QED BY <2>1, <1>12 DEF Placed
<1>15. /\ \A k \in 2 .. h.n : k \div 2 >= i => pri[g.d[k \div 2]] <= pri[g.d[k]]
       /\ \A k \in i + 1 .. h.n : pri[h.d[k]] <= pri[g.d[k]]
       /\ g.d[i] = m \/ \E c \in 2 .. h.n : c \div 2 = i /\ g.d[i] = h.d[c]
  BY <1>12 DEF Sunk
<1>16. \A k \in 1 .. h.n : pri[g.d[k]] \in Nat
  BY <1>13 DEF CountedBy, Settled
<1>17. ASSUME NEW k \in 2 .. h.n PROVE pri[g.d[k \div 2]] <= pri[g.d[k]]
  <2> DEFINE q == k \div 2
  <2>1. q \in 1 .. h.n /\ q < k /\ k \in 1 .. h.n BY <1>5
  <2>2. q # i => pri[h.d[q]] <= pri[h.d[k]] BY <1>5
  <2>3. q >= i => pri[g.d[q]] <= pri[g.d[k]] BY <1>15
  <2>4. k = i => \A c \in 2 .. h.n : c \div 2 = i => pri[h.d[q]] <= pri[h.d[c]]
    BY <1>1 DEF MaySink, Between
  <2> SUFFICES pri[g.d[q]] <= pri[g.d[k]] OBVIOUS
  <2> HIDE DEF q
  <2>5. CASE q >= i BY <2>3, <2>5
  <2>6. CASE q < i
    <3>1. g.d[q] = h.d[q] /\ q # i BY <2>1, <2>6, <1>1, <1>14
    <3>2. CASE k < i
      <4>1. g.d[k] = h.d[k] BY <3>2, <2>1, <1>1, <1>14
      <4>2. QED BY <4>1, <3>1, <2>2
    <3>3. CASE k = i
      <4>1. CASE g.d[i] = m BY <4>1, <3>1, <3>3, <2>2
      <4>2. CASE \E c \in 2 .. h.n : c \div 2 = i /\ g.d[i] = h.d[c]
        BY <4>2, <3>1, <3>3, <2>4
      <4>3. QED BY <4>1, <4>2, <1>15
    <3>4. CASE k > i
      <4>1. pri[h.d[k]] <= pri[g.d[k]] BY <3>4, <2>1, <1>15, <1>1
      <4>2. QED BY <4>1, <3>1, <2>1, <2>2, <1>2, <1>16
    <3>5. QED BY <2>1, <1>1, <3>2, <3>3, <3>4
  <2>7. QED BY <2>5, <2>6, <2>1, <1>1
<1>18. Ordered(g, pri) BY <1>17, <1>13 DEF Ordered, Settled
<1>19. QED BY <1>4, <1>13, <1>18 DEF g

------------------------------------------------------------------------------
(* The operations *)

Sound(h, pri) ==
  /\ Ordered(h, pri)
  /\ \A i \in 1 .. h.n : h.d[i] \in Lines /\ h.pos[h.d[i]] = i
  /\ \A l \in Lines : h.pos[l] # 0 => h.pos[l] <= h.n /\ h.d[h.pos[l]] = l

Members(h) == {h.d[i] : i \in 1 .. h.n}

\* The lines queued are those with a position.
LEMMA MembersHavePositions ==
  ASSUME NEW h \in Heaps, NEW pri, Sound(h, pri)
  PROVE  Members(h) \subseteq Lines /\ \A l \in Lines : l \in Members(h) <=> h.pos[l] # 0
<1>1. h.n \in Nat /\ \A l \in Lines : h.pos[l] \in Nat BY SlotsIn DEF Heaps
<1>2. \A i \in 1 .. h.n : h.d[i] \in Lines /\ h.pos[h.d[i]] = i /\ i # 0 BY <1>1 DEF Sound
<1>3. \A l \in Lines : h.pos[l] # 0 => h.pos[l] \in 1 .. h.n /\ h.d[h.pos[l]] = l
  BY <1>1 DEF Sound
<1>4. Members(h) \subseteq Lines /\ \A l \in Members(h) : h.pos[l] # 0
  BY <1>2 DEF Members
<1>5. \A l \in Lines : h.pos[l] # 0 => l \in Members(h) BY <1>3 DEF Members
<1>6. QED BY <1>4, <1>5

\* A heap with positions restored by a walk is sound again, if a line
\* without a slot has no position.
LEMMA SettledSound ==
  ASSUME NEW h \in Heaps, NEW g, NEW pri, Settled(g, h), Ordered(g, pri),
         \A q \in 1 .. h.n : h.d[q] \in Lines,
         \A l \in Lines \ Members(h) : h.pos[l] = 0
  PROVE  g \in Heaps /\ Sound(g, pri) /\ Members(g) = Members(h)
<1>1. h.n \in Nat /\ g \in Heaps /\ g.n = h.n BY SlotsIn DEF Heaps, Settled
<1>2. \A k \in 1 .. h.n : /\ g.d[k] \in Lines /\ g.pos[g.d[k]] = k
                          /\ \E q \in 1 .. h.n : h.d[q] = g.d[k]
  BY DEF Settled
<1>3. \A l \in Members(h) : l \in Lines =>
        g.pos[l] \in 1 .. h.n /\ g.d[g.pos[l]] = l
  BY DEF Settled, Members
<1>4. \A l \in Lines : l \notin Members(h) => g.pos[l] = 0
  <2>1. SUFFICES ASSUME NEW l \in Lines, l \notin Members(h) PROVE g.pos[l] = 0 OBVIOUS
  <2>2. ~ \E k \in 1 .. h.n : h.d[k] = l BY <2>1 DEF Members
  <2>3. g.pos[l] = h.pos[l] BY <2>2 DEF Settled
  <2>4. QED BY <2>1, <2>3
<1>5. \A l \in Lines : g.pos[l] # 0 => g.pos[l] <= h.n /\ g.d[g.pos[l]] = l
  <2>1. SUFFICES ASSUME NEW l \in Lines, g.pos[l] # 0
                 PROVE  g.pos[l] <= h.n /\ g.d[g.pos[l]] = l
    OBVIOUS
  <2>2. l \in Members(h) BY <2>1, <1>4
  <2>3. QED BY <2>2, <1>1, <1>3
<1>6. Sound(g, pri) BY <1>1, <1>2, <1>5 DEF Sound
<1>7. Members(g) \subseteq Members(h) BY <1>1, <1>2 DEF Members
<1>8. \A q \in 1 .. h.n : h.d[q] \in Members(g)
  <2>1. SUFFICES ASSUME NEW q \in 1 .. h.n PROVE h.d[q] \in Members(g) OBVIOUS
  <2>2. CASE h.d[q] \in Lines
    <3>1. g.pos[h.d[q]] \in 1 .. h.n /\ g.d[g.pos[h.d[q]]] = h.d[q]
      BY <2>2, <1>3 DEF Members
    <3>2. QED BY <3>1, <1>1 DEF Members
  <2>3. QED BY <2>2
<1>9. QED BY <1>1, <1>6, <1>7, <1>8 DEF Members

\* ... and after the line that lost its slot has lost its position.
LEMMA DroppedSound ==
  ASSUME NEW h \in Heaps, NEW g, NEW pri, Settled(g, h), Ordered(g, pri),
         \A q \in 1 .. h.n : h.d[q] \in Lines,
         NEW x \in Lines, x \notin Members(h),
         \A l \in Lines \ Members(h) : l # x => h.pos[l] = 0
  PROVE  Drop(g, x) \in Heaps /\ Sound(Drop(g, x), pri) /\ Members(Drop(g, x)) = Members(h)
<1> DEFINE k == [h EXCEPT !.pos[x] = 0]
           b == Drop(g, x)
<1>1. /\ g \in Heaps /\ g.n = h.n /\ h.n \in Nat /\ h.n <= Cardinality(Lines)
      /\ Cardinality(Lines) \in Nat /\ 0 \in 0 .. Cardinality(Lines)
  BY SlotsIn DEF Heaps, Settled
<1>2. /\ k \in Heaps /\ k.n = h.n /\ k.d = h.d /\ k.pos[x] = 0
      /\ \A l \in Lines : l # x => k.pos[l] = h.pos[l]
  BY <1>1 DEF Heaps
<1>3. /\ b \in Heaps /\ b.n = h.n /\ b.pos[x] = 0
      /\ \A l \in Lines : l # x => b.pos[l] = g.pos[l]
      /\ \A i \in 1 .. h.n : b.d[i] = g.d[i]
  <2> DEFINE d == [i \in Slots |-> IF i <= g.n THEN g.d[i] ELSE NoLine]
             p == [g.pos EXCEPT ![x] = 0]
  <2>1. d \in [Slots -> Lines \cup {NoLine}] /\ p \in [Lines -> 0 .. Cardinality(Lines)]
    BY <1>1 DEF Heaps
  <2>2. b.d = d /\ b.n = g.n /\ b.pos = p /\ b = [d |-> d, n |-> g.n, pos |-> p]
    <3>1. g = [d |-> g.d, n |-> g.n, pos |-> g.pos] BY <1>1 DEF Heaps
    <3>2. b = [g EXCEPT !.d = d, !.pos[x] = 0] BY DEF Drop
    <3> HIDE DEF d, b
    <3>3. QED BY <3>1, <3>2
  <2>3. \A i \in 1 .. h.n : i \in Slots /\ i <= g.n BY <1>1, SlotsIn
  <2>4. \A i \in 1 .. h.n : d[i] = g.d[i] BY <2>3
  <2>5. p[x] = 0 /\ \A l \in Lines : l # x => p[l] = g.pos[l] BY <1>1 DEF Heaps
  <2> HIDE DEF b, d, p
  <2>6. b \in Heaps BY <1>1, <2>1, <2>2 DEF Heaps
  <2>7. QED BY <1>1, <2>2, <2>4, <2>5, <2>6
<1> HIDE DEF k, b
<1>4. \A i \in 1 .. h.n : /\ g.d[i] \in Lines /\ g.pos[g.d[i]] = i
                          /\ \E q \in 1 .. h.n : h.d[q] = g.d[i]
  BY DEF Settled
<1>5. \A i \in 1 .. h.n : g.d[i] # x BY <1>4 DEF Members
<1>6. Members(k) = Members(h) BY <1>2 DEF Members
<1>7. Settled(b, k)
  <2>1. \A i \in 1 .. k.n : /\ b.d[i] \in Lines /\ b.pos[b.d[i]] = i
                            /\ \E q \in 1 .. k.n : k.d[q] = b.d[i]
    BY <1>2, <1>3, <1>4, <1>5
  <2>2. ASSUME NEW l \in Lines
        PROVE  IF \E q \in 1 .. k.n : k.d[q] = l
                 THEN b.pos[l] \in 1 .. k.n /\ b.d[b.pos[l]] = l
                 ELSE b.pos[l] = k.pos[l]
    <3>1. IF \E q \in 1 .. h.n : h.d[q] = l
            THEN g.pos[l] \in 1 .. h.n /\ g.d[g.pos[l]] = l
            ELSE g.pos[l] = h.pos[l]
      BY DEF Settled
    <3>2. CASE l = x
      <4>1. ~ \E q \in 1 .. k.n : k.d[q] = l BY <3>2, <1>2 DEF Members
      <4>2. QED BY <4>1, <3>2, <1>2, <1>3
    <3>3. CASE l # x BY <3>1, <3>3, <1>2, <1>3
    <3>4. QED BY <3>2, <3>3
  <2>3. QED BY <2>1, <2>2, <1>1, <1>2, <1>3 DEF Settled
<1>8. Ordered(b, pri)
  <2>1. \A i \in 2 .. h.n : i \in 1 .. h.n /\ i \div 2 \in 1 .. h.n
    <3>1. SUFFICES ASSUME NEW i \in 2 .. h.n PROVE i \in 1 .. h.n /\ i \div 2 \in 1 .. h.n
      OBVIOUS
    <3>2. i \in Nat /\ i >= 2 /\ i <= h.n BY <1>1
    <3>3. i \div 2 \in Nat /\ i \div 2 >= 1 /\ i \div 2 < i BY <3>2, Half
    <3>4. QED BY <3>2, <3>3, <1>1
  <2>2. \A i \in 2 .. h.n : pri[g.d[i \div 2]] <= pri[g.d[i]] BY <1>1 DEF Ordered
  <2>3. \A i \in 2 .. h.n : b.d[i] = g.d[i] /\ b.d[i \div 2] = g.d[i \div 2] BY <2>1, <1>3
  <2>4. QED BY <2>2, <2>3, <1>3 DEF Ordered
<1>9. \A l \in Lines \ Members(k) : k.pos[l] = 0 BY <1>2, <1>6
<1>10. \A q \in 1 .. k.n : k.d[q] \in Lines BY <1>2
<1>11. b \in Heaps /\ Sound(b, pri) /\ Members(b) = Members(k)
  BY <1>2, <1>7, <1>8, <1>9, <1>10, SettledSound
<1>12. QED BY <1>6, <1>11 DEF b

\* Between a child and its grandparent stands its parent.
LEMMA OrderedBetween ==
  ASSUME NEW h \in Heaps, NEW pri, Ordered(h, pri), NEW i \in 1 .. h.n,
         \A q \in 1 .. h.n : pri[h.d[q]] \in Nat
  PROVE  /\ Between(h, i, pri)
         /\ i > 1 => i \div 2 \in 1 .. h.n /\ i \div 2 # i /\ pri[h.d[i \div 2]] <= pri[h.d[i]]
         /\ \A k \in 2 .. h.n : /\ k \div 2 \in 1 .. h.n /\ k \div 2 < k /\ k \in 1 .. h.n
                                /\ pri[h.d[k \div 2]] <= pri[h.d[k]]
<1>1. h.n \in Nat /\ i \in Nat BY SlotsIn DEF Heaps
<1>2. \A k \in 2 .. h.n : /\ k \div 2 \in 1 .. h.n /\ k \div 2 < k /\ k \in 1 .. h.n
                          /\ pri[h.d[k \div 2]] <= pri[h.d[k]]
  <2>1. SUFFICES ASSUME NEW k \in 2 .. h.n
                 PROVE  /\ k \div 2 \in 1 .. h.n /\ k \div 2 < k /\ k \in 1 .. h.n
                        /\ pri[h.d[k \div 2]] <= pri[h.d[k]]
    OBVIOUS
  <2>2. k \in Nat /\ k >= 2 /\ k <= h.n BY <1>1
  <2>3. k \div 2 \in Nat /\ k \div 2 >= 1 /\ k \div 2 < k BY <2>2, Half
  <2>4. QED BY <1>1, <2>2, <2>3 DEF Ordered
<1>3. i > 1 => i \in 2 .. h.n BY <1>1
<1>4. i > 1 => i \div 2 \in 1 .. h.n /\ i \div 2 # i /\ pri[h.d[i \div 2]] <= pri[h.d[i]]
  BY <1>2, <1>3
<1>5. ASSUME i > 1, NEW k \in 2 .. h.n, k \div 2 = i
      PROVE  pri[h.d[i \div 2]] <= pri[h.d[k]]
  <2>1. pri[h.d[i]] <= pri[h.d[k]] /\ k \in 1 .. h.n BY <1>2, <1>5
  <2> DEFINE q == i \div 2
  <2>2. q \in 1 .. h.n /\ pri[h.d[q]] <= pri[h.d[i]] BY <1>4, <1>5
  <2> SUFFICES pri[h.d[q]] <= pri[h.d[k]] OBVIOUS
  <2> HIDE DEF q
  <2>3. QED BY <2>1, <2>2
<1>6. QED BY <1>2, <1>4, <1>5 DEF Between

\* The heap with the last line moved to slot i, of which line x was removed.
CutOut(h, i) == [h EXCEPT !.n = @ - 1, !.d[i] = h.d[h.n]]

LEMMA CutOutIs ==
  ASSUME NEW h \in Heaps, NEW pri, Sound(h, pri), CountedBy(pri), NEW i \in 1 .. h.n
  PROVE  LET c == CutOut(h, i) IN
         /\ c \in Heaps /\ c.n = h.n - 1 /\ c.pos = h.pos /\ c.d[i] = h.d[h.n]
         /\ \A q \in Slots : q # i => c.d[q] = h.d[q]
         /\ \A q \in 1 .. c.n : c.d[q] \in Lines
         /\ Members(c) = Members(h) \ {h.d[i]} /\ h.d[i] \in Lines
         /\ i <= c.n => Gap(c, i, c.d[i])
         /\ \A l \in Lines \ Members(c) : l # h.d[i] => c.pos[l] = 0
<1> DEFINE c == CutOut(h, i)
           x == h.d[i]
<1>1. /\ h.n \in Nat /\ 1 .. h.n \subseteq Slots /\ h.n \in 1 .. h.n /\ h.n \in Slots
      /\ h.n <= Cardinality(Lines) /\ Cardinality(Lines) \in Nat /\ i \in Nat
      /\ h.n - 1 \in 0 .. Cardinality(Lines) /\ i \in Slots
  BY SlotsIn DEF Heaps
<1>2. \A q \in 1 .. h.n : h.d[q] \in Lines /\ h.pos[h.d[q]] = q BY DEF Sound
<1>3. /\ c \in Heaps /\ c.n = h.n - 1 /\ c.pos = h.pos /\ c.d[i] = h.d[h.n]
      /\ \A q \in Slots : q # i => c.d[q] = h.d[q]
  BY <1>1 DEF Heaps, CutOut
<1> HIDE DEF c
<1>4. 1 .. c.n = 1 .. h.n \ {h.n} BY <1>1, <1>3
<1>5. \A q \in 1 .. c.n : c.d[q] \in Lines BY <1>1, <1>2, <1>3, <1>4
<1>6. Members(c) \subseteq Members(h) \ {x}
  <2>1. SUFFICES ASSUME NEW q \in 1 .. c.n PROVE c.d[q] \in Members(h) \ {x} BY DEF Members
  <2>2. CASE q = i
    <3>1. h.n # i BY <2>2, <1>4
    <3>2. QED BY <3>1, <2>2, <1>1, <1>2, <1>3 DEF Members
  <2>3. CASE q # i
    <3>1. c.d[q] = h.d[q] /\ q \in 1 .. h.n BY <2>3, <1>1, <1>3, <1>4
    <3>2. QED BY <3>1, <2>3, <1>2 DEF Members
  <2>4. QED BY <2>2, <2>3
<1>7. \A q \in 1 .. h.n : h.d[q] # x => h.d[q] \in Members(c)
  <2>1. SUFFICES ASSUME NEW q \in 1 .. h.n, h.d[q] # x PROVE h.d[q] \in Members(c) OBVIOUS
  <2>2. CASE q = h.n
    <3>1. i # h.n BY <2>1, <2>2
    <3>2. i \in 1 .. c.n BY <3>1, <1>4
    <3>3. QED BY <3>2, <2>2, <1>3 DEF Members
  <2>3. CASE q # h.n
    <3>1. q \in 1 .. c.n /\ q # i BY <2>1, <2>3, <1>4
    <3>2. c.d[q] = h.d[q] BY <3>1, <1>1, <1>3
    <3>3. QED BY <3>1, <3>2 DEF Members
  <2>4. QED BY <2>2, <2>3
<1>8. Members(c) = Members(h) \ {x} BY <1>6, <1>7 DEF Members
<1>9. ASSUME i <= c.n PROVE Gap(c, i, c.d[i])
  <2>1. i \in 1 .. c.n /\ i # h.n BY <1>9, <1>1, <1>3
  <2>2. ASSUME NEW q \in 1 .. c.n, q # i
        PROVE  c.d[q] \in Lines /\ c.d[q] # c.d[i] /\ c.pos[c.d[q]] = q
    <3>1. c.d[q] = h.d[q] /\ q \in 1 .. h.n /\ q # h.n BY <2>2, <1>1, <1>3, <1>4
    <3>2. h.pos[h.d[q]] = q /\ h.pos[h.d[h.n]] = h.n /\ h.d[q] \in Lines BY <3>1, <1>1, <1>2
    <3>3. QED BY <3>1, <3>2, <1>3
  <2>3. c.d[i] \in Lines BY <2>1, <1>5
  <2>4. QED BY <2>1, <2>2, <2>3, <1>3 DEF Gap
<1>10. \A l \in Lines \ Members(c) : l # x => c.pos[l] = 0
  <2>1. \A l \in Lines : l \in Members(h) <=> h.pos[l] # 0 BY MembersHavePositions
  <2>2. QED BY <2>1, <1>3, <1>8
<1>11. x \in Lines BY <1>2
<1>12. QED BY <1>3, <1>5, <1>8, <1>9, <1>10, <1>11 DEF c

\* What an operation that removes x leaves.
LeftBy(g, h, x, pri) == g \in Heaps /\ Sound(g, pri) /\ Members(g) = Members(h) \ {x}

\* The last line was removed: there is nothing to move.
LEMMA LastRemoved ==
  ASSUME NEW h \in Heaps, NEW pri, Sound(h, pri), CountedBy(pri), h.n # 0
  PROVE  LeftBy(Drop(PercolateDown(CutOut(h, h.n), h.n, pri), h.d[h.n]), h, h.d[h.n], pri)
<1> DEFINE n == h.n
           c == CutOut(h, n)
           x == h.d[n]
           g == Put(c, n, x)
<1>1. n \in 1 .. n /\ n \in Nat /\ n \in Slots BY SlotsIn DEF Heaps
<1>2. /\ c \in Heaps /\ c.n = n - 1 /\ c.pos = h.pos /\ c.d[n] = x
      /\ \A q \in Slots : q # n => c.d[q] = h.d[q]
      /\ \A q \in 1 .. c.n : c.d[q] \in Lines
      /\ Members(c) = Members(h) \ {x} /\ x \in Lines
      /\ \A l \in Lines \ Members(c) : l # x => c.pos[l] = 0
  BY <1>1, CutOutIs
<1>3. /\ g \in Heaps /\ g.n = c.n /\ g.d[n] = x /\ g.pos[x] = n
      /\ \A q \in Slots : q # n => g.d[q] = c.d[q]
      /\ \A l \in Lines : l # x => g.pos[l] = c.pos[l]
  <2> HIDE DEF c, x, n
  <2>1. c \in Heaps /\ n \in Slots /\ x \in Lines BY <1>1, <1>2
  <2>2. QED BY <2>1, PutIn
<1>4. PercolateDown(c, n, pri) = g
  <2>1. \A q \in 1 .. c.n : pri[c.d[q]] \in Nat BY <1>2 DEF CountedBy
  <2>2. PICK f : /\ Walk(f, Deeper(c, c.d[n], pri), Children(c, pri), c, c.d[n])
                 /\ PercolateDown(c, n, pri) = f[n]
    BY <2>1, <1>1, <1>2, PercolateDownWalks
  <2>3. MaxChild(c, n, pri) = 0 BY <1>1, <1>2 DEF MaxChild
  <2>4. n \notin Deeper(c, c.d[n], pri) BY <2>3 DEF Deeper
  <2>5. QED BY <2>2, <2>4, <1>1, <1>2 DEF Walk
<1> HIDE DEF g, c, x
<1>5. 1 .. c.n = 1 .. n \ {n} /\ 1 .. n \subseteq Slots /\ n \notin 1 .. c.n /\ c.n \in Nat
  BY <1>1, <1>2, SlotsIn DEF Heaps
<1>6. \A q \in 1 .. n : h.d[q] \in Lines /\ h.pos[h.d[q]] = q BY DEF Sound
<1>7. \A q \in 1 .. c.n : c.d[q] = h.d[q] /\ g.d[q] = h.d[q] BY <1>2, <1>3, <1>5
<1>8. h.pos[x] = n BY <1>1, <1>6 DEF x
<1>9. Settled(g, c)
  <2>1. \A q \in 1 .. c.n : /\ g.d[q] \in Lines /\ g.pos[g.d[q]] = q
                            /\ \E s \in 1 .. c.n : c.d[s] = g.d[q]
    <3>1. SUFFICES ASSUME NEW q \in 1 .. c.n
                   PROVE  /\ g.d[q] \in Lines /\ g.pos[g.d[q]] = q
                          /\ \E s \in 1 .. c.n : c.d[s] = g.d[q]
      OBVIOUS
    <3>2. h.d[q] \in Lines /\ h.pos[h.d[q]] = q /\ q # n BY <1>5, <1>6
    <3>3. h.d[q] # x BY <3>2, <1>8
    <3>4. QED BY <3>2, <3>3, <1>2, <1>3, <1>7
  <2>2. ASSUME NEW l \in Lines
        PROVE  IF \E q \in 1 .. c.n : c.d[q] = l
                 THEN g.pos[l] \in 1 .. c.n /\ g.d[g.pos[l]] = l
                 ELSE g.pos[l] = c.pos[l]
    <3>1. ASSUME NEW q \in 1 .. c.n, c.d[q] = l
          PROVE  g.pos[l] \in 1 .. c.n /\ g.d[g.pos[l]] = l
      BY <3>1, <2>1, <1>7
    <3>2. g.pos[l] = c.pos[l] BY <1>2, <1>3, <1>8
    <3>3. QED BY <3>1, <3>2
  <2>3. QED BY <2>1, <2>2, <1>3 DEF Settled
<1>10. Ordered(g, pri)
  <2>1. \A q \in 2 .. c.n : q \in 2 .. n /\ q \in 1 .. c.n /\ q \div 2 \in 1 .. c.n
    <3>1. SUFFICES ASSUME NEW q \in 2 .. c.n
                   PROVE  q \in 2 .. n /\ q \in 1 .. c.n /\ q \div 2 \in 1 .. c.n
      OBVIOUS
    <3>2. q \in Nat /\ q >= 2 /\ q <= c.n BY <1>5
    <3>3. q \div 2 \in Nat /\ q \div 2 >= 1 /\ q \div 2 < q BY <3>2, Half
    <3>4. QED BY <3>2, <3>3, <1>1, <1>2
  <2>2. \A q \in 2 .. c.n : pri[h.d[q \div 2]] <= pri[h.d[q]]
    BY <2>1 DEF Sound, Ordered
  <2>3. \A q \in 2 .. c.n : g.d[q \div 2] = h.d[q \div 2] /\ g.d[q] = h.d[q]
    BY <2>1, <1>7
  <2>4. QED BY <2>2, <2>3, <1>3 DEF Ordered
<1>11. x \notin Members(c) BY <1>2
<1>12. LeftBy(Drop(g, x), h, x, pri)
  <2>1. Drop(g, x) \in Heaps /\ Sound(Drop(g, x), pri) /\ Members(Drop(g, x)) = Members(c)
    BY <1>2, <1>9, <1>10, <1>11, DroppedSound
  <2>2. QED BY <2>1, <1>2 DEF LeftBy
<1>13. QED BY <1>4, <1>12 DEF c, x

\* The line moved into the gap sinks.
LEMMA CutSinks ==
  ASSUME NEW h \in Heaps, NEW pri, Sound(h, pri), CountedBy(pri), NEW i \in 1 .. h.n,
         i = 1 \/ pri[h.d[i]] <= pri[h.d[h.n]]
  PROVE  LeftBy(Drop(PercolateDown(CutOut(h, i), i, pri), h.d[i]), h, h.d[i], pri)
<1> DEFINE c == CutOut(h, i)
           x == h.d[i]
           g == PercolateDown(c, i, pri)
<1>1. CASE i = h.n BY <1>1, LastRemoved
<1>2. CASE i # h.n
  <2>1. h.n \in Nat /\ h.n \in 1 .. h.n /\ 1 .. h.n \subseteq Slots /\ i \in Nat
        /\ h.n <= Cardinality(Lines) /\ Cardinality(Lines) \in Nat
    BY SlotsIn DEF Heaps
  <2>2. /\ c \in Heaps /\ c.n = h.n - 1 /\ c.pos = h.pos /\ c.d[i] = h.d[h.n]
        /\ \A q \in Slots : q # i => c.d[q] = h.d[q]
        /\ \A q \in 1 .. c.n : c.d[q] \in Lines
        /\ Members(c) = Members(h) \ {x} /\ x \in Lines
        /\ i <= c.n => Gap(c, i, c.d[i])
        /\ \A l \in Lines \ Members(c) : l # x => c.pos[l] = 0
    BY CutOutIs
  <2> HIDE DEF c
  <2>3. i <= c.n /\ c.n \in Nat /\ i \in 1 .. c.n BY <2>1, <2>2, <1>2
  <2>4. Gap(c, i, c.d[i]) BY <2>2, <2>3
  <2>5. \A q \in 1 .. h.n : pri[h.d[q]] \in Nat BY DEF Sound, CountedBy
  <2>6. Ordered(h, pri) BY DEF Sound
  <2>7. /\ Between(h, i, pri)
        /\ i > 1 => i \div 2 \in 1 .. h.n /\ i \div 2 # i /\ pri[h.d[i \div 2]] <= pri[h.d[i]]
        /\ \A k \in 2 .. h.n : /\ k \div 2 \in 1 .. h.n /\ k \div 2 < k /\ k \in 1 .. h.n
                               /\ pri[h.d[k \div 2]] <= pri[h.d[k]]
    BY <2>5, <2>6, OrderedBetween
  <2>8. \A k \in 2 .. c.n : k \in 2 .. h.n /\ k \in Slots /\ k \div 2 \in Slots
    BY <2>1, <2>2, <2>7
  <2>9. ASSUME NEW k \in 2 .. c.n, k \div 2 # i PROVE pri[c.d[k \div 2]] <= pri[c.d[k]]
    <3> DEFINE q == k \div 2
    <3>1. q \in 1 .. h.n /\ k \in 1 .. h.n /\ pri[h.d[q]] <= pri[h.d[k]] /\ q # i /\ q \in Slots
          /\ k \in Slots /\ k \in Nat /\ k > 1
      BY <2>7, <2>8, <2>9
    <3>2. k = i => i > 1 /\ q = i \div 2 BY <3>1
    <3> SUFFICES pri[c.d[q]] <= pri[c.d[k]] OBVIOUS
    <3> HIDE DEF q
    <3>3. c.d[q] = h.d[q] BY <3>1, <2>2
    <3>4. CASE k # i BY <3>1, <3>3, <3>4, <2>2
    <3>5. CASE k = i
      <4>1. pri[h.d[i]] <= pri[h.d[h.n]] BY <3>2, <3>5
      <4>2. QED BY <4>1, <3>1, <3>3, <3>5, <2>1, <2>2, <2>5
    <3>6. QED BY <3>4, <3>5
  <2>10. ASSUME i > 1, NEW k \in 2 .. c.n, k \div 2 = i
         PROVE  pri[c.d[i \div 2]] <= pri[c.d[k]]
    <3> DEFINE q == i \div 2
    <3>1. q \in 1 .. h.n /\ q # i BY <2>7, <2>10
    <3>2. k \in 2 .. h.n /\ k \in Slots BY <2>8
    <3>3. k # i BY <2>7, <3>2, <2>10
    <3>4. pri[h.d[q]] <= pri[h.d[k]] BY <2>7, <2>10, <3>2 DEF Between
    <3> SUFFICES pri[c.d[q]] <= pri[c.d[k]] OBVIOUS
    <3> HIDE DEF q
    <3>5. c.d[q] = h.d[q] /\ c.d[k] = h.d[k] BY <3>1, <3>2, <3>3, <2>1, <2>2
    <3>6. QED BY <3>4, <3>5
  <2>11. MaySink(c, i, pri) BY <2>9, <2>10 DEF MaySink, Between
  <2>12. Settled(g, c) /\ Ordered(g, pri) BY <2>4, <2>11, PercolateDownRestores
  <2>13. x \notin Members(c) BY <2>2
  <2> HIDE DEF g, x
  <2>14. Drop(g, x) \in Heaps /\ Sound(Drop(g, x), pri) /\ Members(Drop(g, x)) = Members(c)
    BY <2>2, <2>12, <2>13, DroppedSound
  <2>15. LeftBy(Drop(g, x), h, x, pri) BY <2>2, <2>14 DEF LeftBy
  <2>16. QED BY <2>15 DEF g, c, x
<1>3. QED BY <1>1, <1>2

\* The line moved into the gap rises.
LEMMA CutRises ==
  ASSUME NEW h \in Heaps, NEW pri, Sound(h, pri), CountedBy(pri), NEW i \in 1 .. h.n,
         pri[h.d[i]] > pri[h.d[h.n]]
  PROVE  LeftBy(Drop(BubbleUp(CutOut(h, i), i, pri), h.d[i]), h, h.d[i], pri)
<1> DEFINE c == CutOut(h, i)
           x == h.d[i]
           g == BubbleUp(c, i, pri)
<1>1. \A q \in 1 .. h.n : pri[h.d[q]] \in Nat BY DEF Sound, CountedBy
<1>2. i # h.n BY <1>1
<1>3. h.n \in Nat /\ h.n \in 1 .. h.n /\ 1 .. h.n \subseteq Slots /\ i \in Nat
      /\ h.n <= Cardinality(Lines) /\ Cardinality(Lines) \in Nat
  BY SlotsIn DEF Heaps
<1>4. /\ c \in Heaps /\ c.n = h.n - 1 /\ c.pos = h.pos /\ c.d[i] = h.d[h.n]
      /\ \A q \in Slots : q # i => c.d[q] = h.d[q]
      /\ \A q \in 1 .. c.n : c.d[q] \in Lines
      /\ Members(c) = Members(h) \ {x} /\ x \in Lines
      /\ i <= c.n => Gap(c, i, c.d[i])
      /\ \A l \in Lines \ Members(c) : l # x => c.pos[l] = 0
  BY CutOutIs
<1> HIDE DEF c
<1>5. i <= c.n /\ c.n \in Nat /\ i \in 1 .. c.n BY <1>2, <1>3, <1>4
<1>6. Gap(c, i, c.d[i]) BY <1>4, <1>5
<1>7. Ordered(h, pri) BY DEF Sound
<1>8. /\ Between(h, i, pri)
      /\ i > 1 => i \div 2 \in 1 .. h.n /\ i \div 2 # i /\ pri[h.d[i \div 2]] <= pri[h.d[i]]
      /\ \A k \in 2 .. h.n : /\ k \div 2 \in 1 .. h.n /\ k \div 2 < k /\ k \in 1 .. h.n
                             /\ pri[h.d[k \div 2]] <= pri[h.d[k]]
  BY <1>1, <1>7, OrderedBetween
<1>9. \A k \in 2 .. c.n : k \in 2 .. h.n /\ k \in Slots /\ k \div 2 \in Slots
  BY <1>3, <1>4, <1>8
<1>10. ASSUME NEW k \in 2 .. c.n, k # i PROVE pri[c.d[k \div 2]] <= pri[c.d[k]]
  <2> DEFINE q == k \div 2
  <2>1. q \in 1 .. h.n /\ k \in 1 .. h.n /\ pri[h.d[q]] <= pri[h.d[k]] /\ q \in Slots
        /\ k \in Slots
    BY <1>8, <1>9
  <2> SUFFICES pri[c.d[q]] <= pri[c.d[k]] OBVIOUS
  <2> HIDE DEF q
  <2>2. c.d[k] = h.d[k] BY <2>1, <1>4, <1>10
  <2>3. CASE q # i BY <2>1, <2>2, <2>3, <1>4
  <2>4. CASE q = i
    <3>1. pri[h.d[h.n]] <= pri[h.d[k]] BY <2>1, <2>4, <1>1, <1>3
    <3>2. QED BY <3>1, <2>2, <2>4, <1>4
  <2>5. QED BY <2>3, <2>4
<1>11. ASSUME i > 1, NEW k \in 2 .. c.n, k \div 2 = i
       PROVE  pri[c.d[i \div 2]] <= pri[c.d[k]]
  <2> DEFINE q == i \div 2
  <2>1. q \in 1 .. h.n /\ q # i BY <1>8, <1>11
  <2>2. k \in 2 .. h.n /\ k \in Slots BY <1>9
  <2>3. k # i BY <1>8, <2>2, <1>11
  <2>4. pri[h.d[q]] <= pri[h.d[k]] BY <1>8, <1>11, <2>2 DEF Between
  <2> SUFFICES pri[c.d[q]] <= pri[c.d[k]] OBVIOUS
  <2> HIDE DEF q
  <2>5. c.d[q] = h.d[q] /\ c.d[k] = h.d[k] BY <2>1, <2>2, <2>3, <1>3, <1>4
  <2>6. QED BY <2>4, <2>5
<1>12. MayRise(c, i, pri) BY <1>10, <1>11 DEF MayRise, Between
<1>13. Settled(g, c) /\ Ordered(g, pri) BY <1>6, <1>12, BubbleUpRestores
<1>14. x \notin Members(c) BY <1>4
<1> HIDE DEF g, x
<1>15. Drop(g, x) \in Heaps /\ Sound(Drop(g, x), pri) /\ Members(Drop(g, x)) = Members(c)
  BY <1>4, <1>13, <1>14, DroppedSound
<1>16. LeftBy(Drop(g, x), h, x, pri) BY <1>4, <1>15 DEF LeftBy
<1>17. QED BY <1>16 DEF g, c, x

\* No line of an ordered heap counts less than the one at its root.
LEMMA RootLeast ==
  ASSUME NEW h \in Heaps, NEW pri, Sound(h, pri), CountedBy(pri)
  PROVE  \A k \in 1 .. h.n : pri[h.d[1]] <= pri[h.d[k]]
<1> DEFINE Bad == {k \in 1 .. h.n : ~(pri[h.d[1]] <= pri[h.d[k]])}
<1>1. h.n \in Nat /\ \A q \in 1 .. h.n : pri[h.d[q]] \in Nat
  BY SlotsIn DEF Heaps, Sound, CountedBy
<1>2. SUFFICES ASSUME Bad # {} PROVE FALSE OBVIOUS
<1>3. PICK k \in Bad : \A q \in Bad : k <= q
  <2>1. Bad \subseteq Nat BY <1>1
  <2> HIDE DEF Bad
  <2>2. QED BY <1>2, <2>1, NatMin
<1>4. k \in 2 .. h.n
  <2>1. 1 \notin Bad BY <1>1
  <2>2. k # 1 BY <2>1, <1>3
  <2>3. QED BY <2>2, <1>1
<1> DEFINE q == k \div 2
<1>5. q \in 1 .. h.n /\ q < k /\ pri[h.d[q]] <= pri[h.d[k]]
  <2>1. k \in Nat /\ k >= 2 /\ k <= h.n BY <1>1, <1>4
  <2>2. q \in Nat /\ q >= 1 /\ q < k BY <2>1, Half
  <2>3. QED BY <1>1, <1>4, <2>1, <2>2 DEF Sound, Ordered
<1> HIDE DEF q
<1>6. q \notin Bad BY <1>1, <1>3, <1>5
<1>7. pri[h.d[1]] <= pri[h.d[q]] BY <1>5, <1>6
<1>8. 1 \in 1 .. h.n BY <1>1, <1>4
<1>9. QED BY <1>1, <1>3, <1>5, <1>7, <1>8

\* A line that is not queued finds room.
LEMMA RoomForOne ==
  ASSUME NEW h \in Heaps, NEW pri, Sound(h, pri), NEW l \in Lines, h.pos[l] = 0
  PROVE  h.n + 1 \in Slots
<1>1. h.n \in Nat /\ h.n <= Cardinality(Lines) /\ Cardinality(Lines) \in Nat
  BY SlotsIn DEF Heaps
<1> DEFINE n == h.n
           D == 1 .. n
           T == Lines \ {l}
           d == [i \in D |-> h.d[i]]
<1>2. \A i \in D : h.d[i] \in Lines /\ h.pos[h.d[i]] = i /\ i # 0 BY <1>1 DEF Sound
<1>3. d \in [D -> T] BY <1>2
<1>4. \A i, j \in D : d[i] = d[j] => i = j BY <1>2
<1> HIDE DEF n
<1>5. ~ \E i, j \in D : i # j /\ d[i] = d[j]
  <2> HIDE DEF d, D
  <2>1. QED BY <1>4
<1>6. IsFiniteSet(T) /\ Cardinality(T) = Cardinality(Lines) - 1
  BY QueueAssumption, FS_RemoveElement
<1>7. IsFiniteSet(D) /\ Cardinality(D) = n
  <2>1. n \in Nat BY <1>1 DEF n
  <2>2. QED BY <2>1, FS_Interval
<1> HIDE DEF d, D, T
<1>8. ~(Cardinality(T) < Cardinality(D)) BY <1>3, <1>5, <1>6, <1>7, FS_PigeonHole
<1>9. h.n < Cardinality(Lines) BY <1>1, <1>6, <1>7, <1>8 DEF n
<1>10. QED BY <1>1, <1>9, SlotsIn

\* The heap with line l in a new last slot.
Added(h, l) == [h EXCEPT !.n = @ + 1, !.d[h.n + 1] = l]

LEMMA InsertSound ==
  ASSUME NEW h \in Heaps, NEW pri, NEW p, Sound(h, pri), CountedBy(pri), CountedBy(p),
         NEW l \in Lines, h.pos[l] = 0, \A k \in Lines : k # l => p[k] = pri[k]
  PROVE  LET g == BubbleUp(Added(h, l), h.n + 1, p)
         IN  g \in Heaps /\ Sound(g, p) /\ Members(g) = Members(h) \cup {l}
<1> DEFINE n == h.n + 1
           c == Added(h, l)
           g == BubbleUp(c, n, p)
<1>1. /\ h.n \in Nat /\ n \in Slots /\ n \in 1 .. n /\ 1 .. n \subseteq Slots /\ n \in Nat
      /\ Cardinality(Lines) \in Nat /\ n \in 0 .. Cardinality(Lines)
      /\ 1 .. n = 1 .. h.n \cup {n} /\ n \notin 1 .. h.n
  <2>1. n \in Slots BY RoomForOne
  <2>2. QED BY <2>1, SlotsIn DEF Heaps
<1>2. /\ c \in Heaps /\ c.n = n /\ c.pos = h.pos /\ c.d[n] = l
      /\ \A q \in Slots : q # n => c.d[q] = h.d[q]
  BY <1>1 DEF Heaps, Added
<1> HIDE DEF c, n
<1>3. \A q \in 1 .. h.n : /\ h.d[q] \in Lines /\ h.pos[h.d[q]] = q /\ h.d[q] # l
                          /\ c.d[q] = h.d[q] /\ p[c.d[q]] = pri[h.d[q]]
  BY <1>1, <1>2 DEF Sound
<1>4. Gap(c, n, c.d[n]) BY <1>1, <1>2, <1>3 DEF Gap
<1>5. \A k \in 2 .. n : k # n => p[c.d[k \div 2]] <= p[c.d[k]]
  <2>1. SUFFICES ASSUME NEW k \in 2 .. n, k # n PROVE p[c.d[k \div 2]] <= p[c.d[k]] OBVIOUS
  <2>2. k \in 2 .. h.n /\ k \in Nat BY <1>1, <2>1 DEF n
  <2> DEFINE q == k \div 2
  <2>3. q \in 1 .. h.n
    <3>1. q \in Nat /\ q >= 1 /\ q < k BY <2>2, Half
    <3>2. QED BY <3>1, <2>2, <1>1
  <2>4. pri[h.d[q]] <= pri[h.d[k]] BY <2>2 DEF Sound, Ordered
  <2> SUFFICES p[c.d[q]] <= p[c.d[k]] OBVIOUS
  <2> HIDE DEF q
  <2>5. k \in 1 .. h.n BY <1>1, <2>2
  <2>6. QED BY <1>3, <2>3, <2>4, <2>5
<1>6. \A k \in 2 .. n : k \div 2 # n
  <2>1. SUFFICES ASSUME NEW k \in 2 .. n PROVE k \div 2 # n OBVIOUS
  <2>2. k \in Nat /\ k >= 2 /\ k <= n BY <1>1
  <2>3. QED BY <2>2, <1>1, Half
<1>7. MayRise(c, n, p) BY <1>2, <1>5, <1>6 DEF MayRise, Between
<1>8. Settled(g, c) /\ Ordered(g, p) BY <1>4, <1>7, BubbleUpRestores
<1>9. Members(c) = Members(h) \cup {l}
  <2>1. \A q \in 1 .. n : c.d[q] = l \/ \E k \in 1 .. h.n : c.d[q] = h.d[k]
    BY <1>1, <1>2, <1>3
  <2>2. Members(c) \subseteq Members(h) \cup {l} BY <2>1, <1>2 DEF Members
  <2>3. \A q \in 1 .. h.n : h.d[q] \in Members(c) BY <1>1, <1>2, <1>3 DEF Members
  <2>4. l \in Members(c) BY <1>1, <1>2 DEF Members
  <2>5. QED BY <2>2, <2>3, <2>4 DEF Members
<1>10. \A k \in Lines \ Members(c) : c.pos[k] = 0
  <2>1. \A k \in Lines : k \in Members(h) <=> h.pos[k] # 0 BY MembersHavePositions
  <2>2. QED BY <2>1, <1>2, <1>9
<1>11. \A q \in 1 .. c.n : c.d[q] \in Lines BY <1>1, <1>2, <1>3
<1> HIDE DEF g
<1>12. g \in Heaps /\ Sound(g, p) /\ Members(g) = Members(c)
  BY <1>2, <1>8, <1>10, <1>11, SettledSound
<1>13. g \in Heaps /\ Sound(g, p) /\ Members(g) = Members(h) \cup {l} BY <1>9, <1>12
<1>14. QED BY <1>13 DEF g, c, n

LEMMA LoweredSound ==
  ASSUME NEW h \in Heaps, NEW pri, NEW p, Sound(h, pri), CountedBy(pri), CountedBy(p),
         NEW l \in Lines, h.pos[l] # 0, p[l] <= pri[l],
         \A k \in Lines : k # l => p[k] = pri[k]
  PROVE  LET g == BubbleUp(h, h.pos[l], p)
         IN  g \in Heaps /\ Sound(g, p) /\ Members(g) = Members(h)
<1> DEFINE i == h.pos[l]
           g == BubbleUp(h, i, p)
<1>1. /\ h.n \in Nat /\ i \in 1 .. h.n /\ i \in Nat /\ h.d[i] = l
  BY SlotsIn DEF Heaps, Sound
<1>2. \A q \in 1 .. h.n : /\ h.d[q] \in Lines /\ h.pos[h.d[q]] = q
                          /\ q # i => h.d[q] # l /\ p[h.d[q]] = pri[h.d[q]]
  BY DEF Sound
<1>3. \A q \in 1 .. h.n : pri[h.d[q]] \in Nat /\ p[h.d[q]] \in Nat BY <1>2 DEF CountedBy
<1> HIDE DEF i
<1>4. Gap(h, i, h.d[i]) BY <1>1, <1>2 DEF Gap
<1>5. Ordered(h, pri) BY DEF Sound
<1>6. /\ Between(h, i, pri)
      /\ i > 1 => i \div 2 \in 1 .. h.n /\ i \div 2 # i /\ pri[h.d[i \div 2]] <= pri[h.d[i]]
      /\ \A k \in 2 .. h.n : /\ k \div 2 \in 1 .. h.n /\ k \div 2 < k /\ k \in 1 .. h.n
                             /\ pri[h.d[k \div 2]] <= pri[h.d[k]]
  BY <1>1, <1>3, <1>5, OrderedBetween
<1>7. ASSUME NEW k \in 2 .. h.n, k # i PROVE p[h.d[k \div 2]] <= p[h.d[k]]
  <2> DEFINE q == k \div 2
  <2>1. q \in 1 .. h.n /\ k \in 1 .. h.n /\ pri[h.d[q]] <= pri[h.d[k]] BY <1>6
  <2> SUFFICES p[h.d[q]] <= p[h.d[k]] OBVIOUS
  <2> HIDE DEF q
  <2>2. p[h.d[k]] = pri[h.d[k]] BY <2>1, <1>2, <1>7
  <2>3. p[h.d[q]] <= pri[h.d[q]]
    <3>1. CASE q = i BY <3>1, <1>1
    <3>2. CASE q # i BY <3>2, <2>1, <1>2, <1>3
    <3>3. QED BY <3>1, <3>2
  <2>4. QED BY <2>1, <2>2, <2>3, <1>3
<1>8. ASSUME i > 1, NEW k \in 2 .. h.n, k \div 2 = i
      PROVE  p[h.d[i \div 2]] <= p[h.d[k]]
  <2> DEFINE q == i \div 2
  <2>1. q \in 1 .. h.n /\ q # i BY <1>6, <1>8
  <2>2. k \in 1 .. h.n /\ k # i BY <1>6, <1>8
  <2>3. pri[h.d[q]] <= pri[h.d[k]] BY <1>6, <1>8 DEF Between
  <2> SUFFICES p[h.d[q]] <= p[h.d[k]] OBVIOUS
  <2> HIDE DEF q
  <2>4. QED BY <2>1, <2>2, <2>3, <1>2
<1>9. MayRise(h, i, p) BY <1>7, <1>8 DEF MayRise, Between
<1>10. Settled(g, h) /\ Ordered(g, p) BY <1>4, <1>9, BubbleUpRestores
<1>11. \A k \in Lines \ Members(h) : h.pos[k] = 0 BY MembersHavePositions
<1>12. \A q \in 1 .. h.n : h.d[q] \in Lines BY <1>2
<1> HIDE DEF g
<1>13. g \in Heaps /\ Sound(g, p) /\ Members(g) = Members(h)
  BY <1>10, <1>11, <1>12, SettledSound
<1>14. QED BY <1>13 DEF g, i

------------------------------------------------------------------------------
(* The steps *)

QueueInv == /\ heap \in Heaps /\ Sound(heap, vpc)
            /\ vpc \in [Lines -> 0 .. MaxVpc]
            /\ greedy \in BOOLEAN

LEMMA QueueInvSound ==
  ASSUME QueueInv
  PROVE  HeapSound /\ CountedBy(vpc)
BY QueueAssumption DEF QueueInv, Sound, Ordered, HeapSound, CountedBy

LEMMA InsertKeeps ==
  ASSUME QueueInv, NEW l \in Lines, NEW v \in 0 .. MaxVpc, Insert(l, v)
  PROVE  QueueInv' /\ Candidates!Join(l, v)
<1>1. /\ heap \in Heaps /\ Sound(heap, vpc) /\ vpc \in [Lines -> 0 .. MaxVpc]
      /\ CountedBy(vpc) /\ heap.pos[l] = 0
  BY QueueInvSound DEF QueueInv, Insert
<1>2. vpc' = [vpc EXCEPT ![l] = v] /\ vpc' \in [Lines -> 0 .. MaxVpc] /\ UNCHANGED greedy
      /\ CountedBy(vpc') /\ \A k \in Lines : k # l => vpc'[k] = vpc[k]
  BY <1>1, QueueAssumption DEF Insert, CountedBy
<1>3. PICK p : p = vpc' OBVIOUS
<1> DEFINE g == BubbleUp(Added(heap, l), heap.n + 1, p)
<1>4. heap' = g BY <1>3 DEF Insert, Added
<1>5. g \in Heaps /\ Sound(g, p) /\ Members(g) = Members(heap) \cup {l}
  <2>1. CountedBy(p) /\ \A k \in Lines : k # l => p[k] = vpc[k] BY <1>2, <1>3
  <2>2. QED BY <1>1, <2>1, InsertSound
<1> HIDE DEF g
<1>6. QueueInv' BY <1>2, <1>3, <1>4, <1>5 DEF QueueInv
<1>7. l \notin Members(heap) BY <1>1, MembersHavePositions
<1>8. Candidates!Join(l, v)
  BY <1>2, <1>4, <1>5, <1>7 DEF Candidates!Join, Members
<1>9. QED BY <1>6, <1>8

LEMMA ChangePriorityKeeps ==
  ASSUME QueueInv, NEW l \in Lines, ChangePriority(l)
  PROVE  QueueInv' /\ Candidates!Lower(l)
<1>1. /\ heap \in Heaps /\ Sound(heap, vpc) /\ vpc \in [Lines -> 0 .. MaxVpc]
      /\ CountedBy(vpc) /\ heap.pos[l] # 0 /\ vpc[l] > 0 /\ vpc[l] \in Nat
  BY QueueInvSound DEF QueueInv, ChangePriority, CountedBy
<1>2. vpc' = [vpc EXCEPT ![l] = @ - 1] /\ vpc' \in [Lines -> 0 .. MaxVpc] /\ UNCHANGED greedy
      /\ CountedBy(vpc') /\ vpc'[l] < vpc[l] /\ vpc'[l] <= vpc[l]
      /\ \A k \in Lines : k # l => vpc'[k] = vpc[k]
  BY <1>1, QueueAssumption DEF ChangePriority, CountedBy
<1>3. PICK p : p = vpc' OBVIOUS
<1> DEFINE g == BubbleUp(heap, heap.pos[l], p)
<1>4. heap' = g BY <1>1, <1>2, <1>3 DEF ChangePriority
<1>5. g \in Heaps /\ Sound(g, p) /\ Members(g) = Members(heap)
  <2>1. CountedBy(p) /\ p[l] <= vpc[l] /\ \A k \in Lines : k # l => p[k] = vpc[k] BY <1>2, <1>3
  <2>2. QED BY <1>1, <2>1, LoweredSound
<1> HIDE DEF g
<1>6. QueueInv' BY <1>2, <1>3, <1>4, <1>5 DEF QueueInv
<1>7. l \in Members(heap) BY <1>1, MembersHavePositions
<1>8. Candidates!Lower(l)
  <2>1. Members(heap') = Members(heap) BY <1>4, <1>5
  <2>2. {heap.d[i] : i \in 1 .. heap.n}' = {heap.d[i] : i \in 1 .. heap.n}
    BY <2>1 DEF Members
  <2>3. l \in {heap.d[i] : i \in 1 .. heap.n} BY <1>7 DEF Members
  <2>4. QED BY <1>1, <1>2, <2>2, <2>3 DEF Candidates!Lower
<1>9. QED BY <1>6, <1>8

LEMMA PopKeeps ==
  ASSUME QueueInv, Pop
  PROVE  QueueInv' /\ \E l \in Lines : Candidates!Take(l)
<1>1. /\ heap \in Heaps /\ Sound(heap, vpc) /\ vpc \in [Lines -> 0 .. MaxVpc]
      /\ CountedBy(vpc) /\ heap.n > 0 /\ UNCHANGED <<vpc, greedy>> /\ greedy \in BOOLEAN
  BY QueueInvSound DEF QueueInv, Pop
<1>2. 1 \in 1 .. heap.n /\ heap.n \in Nat BY <1>1, SlotsIn DEF Heaps
<1>3. PICK x : x = heap.d[1] OBVIOUS
<1> DEFINE g == Drop(PercolateDown(CutOut(heap, 1), 1, vpc), x)
<1>4. heap' = g BY <1>3 DEF Pop, CutOut
<1>5. LeftBy(g, heap, x, vpc) BY <1>1, <1>2, <1>3, CutSinks
<1>6. x \in Lines /\ x \in Members(heap) BY <1>1, <1>2, <1>3 DEF Sound, Members
<1>7. \A m \in Members(heap) : vpc[x] <= vpc[m] BY <1>1, <1>3, RootLeast DEF Members
<1> HIDE DEF g
<1>8. QueueInv' BY <1>1, <1>4, <1>5 DEF QueueInv, LeftBy
<1>9. Candidates!Take(x)
  BY <1>1, <1>4, <1>5, <1>6, <1>7 DEF Candidates!Take, Members, LeftBy
<1>10. QED BY <1>6, <1>8, <1>9

LEMMA RemoveKeeps ==
  ASSUME QueueInv, NEW l \in Lines, Remove(l)
  PROVE  QueueInv' /\ Candidates!Take(l)
<1>1. /\ heap \in Heaps /\ Sound(heap, vpc) /\ vpc \in [Lines -> 0 .. MaxVpc]
      /\ CountedBy(vpc) /\ heap.pos[l] # 0 /\ UNCHANGED <<vpc, greedy>> /\ greedy = FALSE
  BY QueueInvSound DEF QueueInv, Remove
<1> DEFINE i == heap.pos[l]
           c == CutOut(heap, i)
<1>2. i \in 1 .. heap.n /\ heap.d[i] = l /\ heap.n \in 1 .. heap.n
  BY <1>1, SlotsIn DEF Heaps, Sound
<1>3. heap' = Drop(IF vpc[l] > vpc[c.d[i]] THEN BubbleUp(c, i, vpc)
                                           ELSE PercolateDown(c, i, vpc), l)
  BY DEF Remove, CutOut
<1>4. c.d[i] = heap.d[heap.n] BY <1>1, <1>2, CutOutIs
<1>5. vpc[l] \in Nat /\ vpc[heap.d[heap.n]] \in Nat BY <1>1, <1>2 DEF Sound, CountedBy
<1> HIDE DEF i
<1>6. LeftBy(heap', heap, l, vpc)
  <2>1. CASE vpc[l] > vpc[heap.d[heap.n]]
    <3>1. LeftBy(Drop(BubbleUp(c, i, vpc), heap.d[i]), heap, heap.d[i], vpc)
      BY <1>1, <1>2, <2>1, CutRises
    <3>2. QED BY <3>1, <2>1, <1>2, <1>3, <1>4
  <2>2. CASE ~(vpc[l] > vpc[heap.d[heap.n]])
    <3>1. vpc[heap.d[i]] <= vpc[heap.d[heap.n]] BY <2>2, <1>2, <1>5
    <3>2. LeftBy(Drop(PercolateDown(c, i, vpc), heap.d[i]), heap, heap.d[i], vpc)
      BY <1>1, <1>2, <3>1, CutSinks
    <3>3. QED BY <3>2, <2>2, <1>2, <1>3, <1>4
  <2>3. QED BY <2>1, <2>2
<1>7. l \in Members(heap) BY <1>1, MembersHavePositions
<1>8. QueueInv' BY <1>1, <1>6 DEF QueueInv, LeftBy
<1>9. Candidates!Take(l)
  BY <1>1, <1>6, <1>7 DEF Candidates!Take, Members, LeftBy
<1>10. QED BY <1>8, <1>9

LEMMA QueueStep ==
  ASSUME QueueInv, [QueueNext]_queueVars
  PROVE  QueueInv' /\ [Candidates!Next]_(Candidates!vars)
<1>1. CASE QueueNext
  <2>1. ASSUME NEW l \in Lines, NEW v \in 0 .. MaxVpc, Insert(l, v)
        PROVE  QueueInv' /\ Candidates!Next
    <3>1. QueueInv' /\ Candidates!Join(l, v) BY <2>1, InsertKeeps
    <3>2. QED BY <3>1 DEF Candidates!Next
  <2>2. ASSUME NEW l \in Lines, ChangePriority(l)
        PROVE  QueueInv' /\ Candidates!Next
    <3>1. QueueInv' /\ Candidates!Lower(l) BY <2>2, ChangePriorityKeeps
    <3>2. QED BY <3>1 DEF Candidates!Next
  <2>3. ASSUME NEW l \in Lines, Remove(l)
        PROVE  QueueInv' /\ Candidates!Next
    <3>1. QueueInv' /\ Candidates!Take(l) BY <2>3, RemoveKeeps
    <3>2. QED BY <3>1 DEF Candidates!Next
  <2>4. CASE Pop
    <3>1. QueueInv' /\ \E l \in Lines : Candidates!Take(l) BY <2>4, PopKeeps
    <3>2. QED BY <3>1 DEF Candidates!Next
  <2>5. QED BY <1>1, <2>1, <2>2, <2>3, <2>4 DEF QueueNext
<1>2. CASE UNCHANGED queueVars
  BY <1>2 DEF queueVars, QueueInv, Candidates!vars
<1>3. QED BY <1>1, <1>2

LEMMA QueueInvInit ==
  ASSUME QueueInit
  PROVE  QueueInv /\ Candidates!Init
<1>1. 0 \in 0 .. Cardinality(Lines) BY SlotsIn
<1>2. heap = [d |-> [i \in Slots |-> NoLine], n |-> 0, pos |-> [l \in Lines |-> 0]]
  BY DEF QueueInit
<1>3. heap \in Heaps /\ heap.n = 0 /\ \A l \in Lines : heap.pos[l] = 0
  BY <1>1, <1>2 DEF Heaps
<1>4. Sound(heap, vpc) BY <1>3 DEF Sound, Ordered
<1>5. {heap.d[i] : i \in 1 .. heap.n} = {} BY <1>3
<1>6. QED BY <1>3, <1>4, <1>5 DEF QueueInit, QueueInv, Candidates!Init

LEMMA QueueInvariant == QueueSpec => []QueueInv
<1>1. QueueInit => QueueInv BY QueueInvInit
<1>2. QueueInv /\ [QueueNext]_queueVars => QueueInv' BY QueueStep
<1>3. QED BY <1>1, <1>2, PTL DEF QueueSpec

\* HeapSound: after any sequence of insertions, removals and lowered
\* priorities the array of pqueue.c is a heap and line->pos says where a
\* line is, and whether it is queued at all.
THEOREM HeapAlwaysSound == QueueSpec => []HeapSound
<1>1. QueueInv => HeapSound BY QueueInvSound
<1>2. QED BY <1>1, QueueInvariant, PTL

\* ImplementsVictimSet: to the FTL the heap is a set of candidates, of which
\* GREEDY takes one with the fewest valid pages.
THEOREM HeapImplementsVictimSet == QueueSpec => ImplementsVictimSet
<1>1. QueueInit => Candidates!Init BY QueueInvInit
<1>2. QueueInv /\ [QueueNext]_queueVars => [Candidates!Next]_(Candidates!vars)
  BY QueueStep
<1>3. QED BY <1>1, <1>2, QueueInvariant, PTL DEF QueueSpec, ImplementsVictimSet, Candidates!Spec
=============================================================================
