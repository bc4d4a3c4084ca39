----------------------------- MODULE VictimScan -----------------------------
(***************************************************************************)
(* How the CAT policies select a victim (select_victim_line of conv_ftl.c  *)
(* and what it calls): a scan of the queued lines for the least vpc /      *)
(* (ipc * age), where the age of a line is a value from a staircase that   *)
(* the installed arm describes.  Quotients are compared exactly in the     *)
(* width of the machine: by their cross products if those fit, else by the *)
(* continued division of both.                                             *)
(***************************************************************************)
EXTENDS Integers, Sequences

CONSTANTS NrLines,      \* lm->tt_lines
          LineSize,     \* spp->pgs_per_line
          Top,          \* the largest number of the width: ~0ULL
          NsecPerSec,
          ScanArms,     \* the arms installed
          Counts,       \* valid pages of a candidate
          Times, Now    \* last_invalidated_at_ns, and the time of the scan

ASSUME ScanAssumption ==
  /\ {NrLines, LineSize, Top, NsecPerSec, Now} \subseteq Nat
  /\ ScanArms \subseteq 0 .. 59       \* WATGC_V2_ARM_N
  /\ Counts \subseteq 0 .. LineSize - 1 /\ Times \subseteq Nat

ScanLines == 0 .. NrLines - 1
NoVictim  == NrLines

----------------------------------------------------------------------------
(* The arm (watgc_v2_decode, watgc_v2_set_arm)                             *)

Levels == <<2, 4, 7, 10>>
Scales == <<25, 50, 100, 200, 400>>
Ratios == <<4, 7, 16>>

\* In thirds of a second.
ThresholdThirds ==
  << <<1080>>,
     <<60, 270, 1080>>,
     <<30, 60, 135, 270, 540, 1080>>,
     <<20, 40, 60, 110, 180, 270, 450, 720, 1080>> >>

LevelIndex(arm) == ((arm \div Len(Ratios)) \div Len(Scales)) + 1
Steps(arm) == Levels[LevelIndex(arm)]
Scale(arm) == Scales[((arm \div Len(Ratios)) % Len(Scales)) + 1]
Ratio(arm) == Ratios[(arm % Len(Ratios)) + 1]

Threshold(arm, i) ==
  (ThresholdThirds[LevelIndex(arm)][i] * NsecPerSec * Scale(arm)) \div 300
AgeValue(arm, i) ==
  18 + (((Ratio(arm) - 1) * 18 * (i - 1)) \div (Steps(arm) - 1))

\* Mutant of TransformAge: a line beyond the last threshold is young again.
TransformAgeLast(arm, at) ==
  LET below == {i \in 1 .. Steps(arm) - 1 : Now - at < Threshold(arm, i)}
  IN  IF at = 0 \/ Now < at \/ below = {} THEN AgeValue(arm, 1)
      ELSE AgeValue(arm, CHOOSE i \in below : \A j \in below : i <= j)

\* cat_fig7_transform_age: the step of the staircase for the time since the
\* line's last page was invalidated.
TransformAge(arm, at) ==
  LET below == {i \in 1 .. Steps(arm) - 1 : Now - at < Threshold(arm, i)}
  IN  IF at = 0 \/ Now < at THEN AgeValue(arm, 1)
      ELSE IF below = {} THEN AgeValue(arm, Steps(arm))
      ELSE AgeValue(arm, CHOOSE i \in below : \A j \in below : i <= j)

----------------------------------------------------------------------------
(* The scan                                                                *)

VARIABLE scan   \* idle, chosen, or: the lines, the arm, force, the line that
                \* is next, the best so far, and the comparison under way
Idle   == [pc |-> "idle"]
Chosen == [pc |-> "chosen"]
None   == <<>>

ScanInit == scan = Idle

Queued(l)    == scan.line[l] # None
Vpc(l)       == scan.line[l].vpc
Ipc(l)       == LineSize - Vpc(l)
Den(l)       == Ipc(l) * TransformAge(scan.arm, scan.line[l].at)
Candidate(l) == Queued(l) /\ (scan.force \/ Vpc(l) <= LineSize \div 8)

BeginScan ==
  /\ scan = Idle
  /\ \E line \in [ScanLines -> {None} \cup [vpc : Counts, at : Times]],
        arm \in ScanArms, force \in BOOLEAN :
       scan' = [pc |-> "scan", line |-> line, arm |-> arm, force |-> force,
                i |-> 0, victim |-> NoVictim, frac |-> None]

Looking == scan.pc = "scan" /\ scan.i < NrLines /\ scan.frac = None

Skip == /\ Looking /\ ~Candidate(scan.i)
        /\ scan' = [scan EXCEPT !.i = @ + 1]

First == /\ Looking /\ Candidate(scan.i) /\ scan.victim = NoVictim
         /\ scan' = [scan EXCEPT !.i = @ + 1, !.victim = scan.i]

\* cat_fig7_line_is_better, once the comparison says cmp.
Judge(cmp) ==
  LET better == cmp < 0 \/ (cmp = 0 /\ scan.i < scan.victim)
  IN  scan' = [scan EXCEPT !.i = @ + 1, !.frac = None,
                           !.victim = IF better THEN scan.i ELSE @]

Sign(a, b) == IF a < b THEN -1 ELSE IF a > b THEN 1 ELSE 0

\* watgc_v2_fraction_cmp(an, ad, bn, bd), if the cross products fit.
Fits(an, bd) == an = 0 \/ bd <= Top \div an

Compare ==
  /\ Looking /\ Candidate(scan.i) /\ scan.victim # NoVictim
  /\ LET an == Vpc(scan.i)       ad == Den(scan.i)
         bn == Vpc(scan.victim)  bd == Den(scan.victim)
     IN  IF Fits(an, bd) /\ Fits(bn, ad) THEN Judge(Sign(an * bd, bn * ad))
         ELSE scan' = [scan EXCEPT !.frac =
                [an |-> an, ad |-> ad, bn |-> bn, bd |-> bd, reverse |-> FALSE]]

\* A round of its loop.
Aq == scan.frac.an \div scan.frac.ad
Ar == scan.frac.an % scan.frac.ad
Bq == scan.frac.bn \div scan.frac.bd
Br == scan.frac.bn % scan.frac.bd

Ends == Aq # Bq \/ Ar = 0 \/ Br = 0
Verdict == IF Aq # Bq THEN Sign(Aq, Bq)
           ELSE IF Ar = 0 /\ Br = 0 THEN 0
           ELSE IF Ar = 0 THEN -1 ELSE 1

Decide ==
  /\ scan.pc = "scan" /\ scan.frac # None /\ Ends
  /\ Judge(IF scan.frac.reverse THEN -Verdict ELSE Verdict)

\* Mutant of Divide: the order is not reversed.
DivideStraight ==
  /\ scan.pc = "scan" /\ scan.frac # None /\ ~Ends
  /\ scan' = [scan EXCEPT !.frac =
       [an |-> scan.frac.ad, ad |-> Ar, bn |-> scan.frac.bd, bd |-> Br,
        reverse |-> scan.frac.reverse]]

Divide ==
  /\ scan.pc = "scan" /\ scan.frac # None /\ ~Ends
  /\ scan' = [scan EXCEPT !.frac =
       [an |-> scan.frac.ad, ad |-> Ar, bn |-> scan.frac.bd, bd |-> Br,
        reverse |-> ~scan.frac.reverse]]

\* The winner is removed from the queue; with none, do_gc fails.
Select == /\ scan.pc = "scan" /\ scan.i = NrLines /\ scan.victim # NoVictim
          /\ scan' = Chosen

ScanStep == Skip \/ First \/ Compare \/ Decide \/ Divide \/ Select

----------------------------------------------------------------------------
(* Properties *)

Over == scan.pc = "scan" /\ scan.i = NrLines

\* The victim is the candidate of the least vpc / (ipc * age), the lower line
\* of two that are equal, and there is one if there is a candidate: however
\* the quotients were compared.
PicksBest ==
  Over => IF scan.victim = NoVictim THEN \A l \in ScanLines : ~Candidate(l)
          ELSE \A l \in ScanLines : Candidate(l) =>
                 LET mine  == Vpc(scan.victim) * Den(l)
                     other == Vpc(l) * Den(scan.victim)
                 IN  mine < other \/ (mine = other /\ scan.victim <= l)

\* No candidate has fewer valid pages than the victim and is known to have
\* rested at least as long, whatever arm is installed: the staircases rise,
\* and a line loses nothing by resting.
NotDominated ==
  Over /\ scan.victim # NoVictim =>
    \A l \in ScanLines : Candidate(l) =>
      ~(/\ Vpc(l) < Vpc(scan.victim) /\ scan.line[l].at # 0
        /\ scan.line[l].at <= scan.line[scan.victim].at)
=============================================================================
