----------------------------- MODULE WatgcTuner -----------------------------
(***************************************************************************)
(* The tuner of the WATGC policy (watgc_v2_on_gc of conv_ftl.c and what it *)
(* calls).  After each collection it looks at the pages the host and the   *)
(* collector wrote since its phase began.  A warm-up is followed by a      *)
(* burn-in and a measured window of one arm; an accepted window changes    *)
(* what is known of the arm and chooses the arm of the next window.  Once  *)
(* one arm has proved stable the tuner is settled: it keeps to that arm,   *)
(* tries the others now and then, and starts anew if the arm drifts.       *)
(*                                                                         *)
(* The record t is the code's struct watgc_v2_tuner.  Of the discounted    *)
(* sums of an arm it has their quotient, the mean write amplification: it  *)
(* moves towards the sample, by a step that is left open, and the discount *)
(* of both sums leaves it where it was.  The score of the search, the mean *)
(* less a bonus for few observations, is left open too: any arm can have   *)
(* the least.  Counts that are only compared are relative to the phase.    *)
(***************************************************************************)
EXTENDS Integers, FiniteSets

CONSTANTS
  NrArms, InitialArm,                  \* WATGC_V2_ARM_N, WATGC_V2_INITIAL_ARM
  Wafs,                                \* write amplifications, in parts of One
  One, Tolerance, DriftShare,          \* WATGC_V2_ONE, _TOLERANCE_Q16, _DRIFT_Q16
  WarmupGc, BurninGc, WindowGc,        \* WATGC_V2_WARMUP_GC, ...
  BurninHost, WindowHost, MaxWindowGc,
  MinVisits, StableWindows, BestConfirmations,
  ProbeEvery, StaleWindows, DriftWindows,
  HostPages                            \* pages the host writes between two collections

Arms  == 0 .. NrArms - 1
Never == 0         \* arm[i].last_window of an arm without a visit

ASSUME TunerAssumption ==
  /\ NrArms \in Nat \ {0, 1} /\ InitialArm \in Arms
  /\ Wafs \subseteq Nat \ {0} /\ HostPages \subseteq Nat
  /\ {One, Tolerance, DriftShare} \subseteq Nat
  /\ {WarmupGc, BurninGc, WindowGc, BurninHost, WindowHost, MaxWindowGc,
      MinVisits, StableWindows, BestConfirmations, ProbeEvery, StaleWindows,
      DriftWindows} \subseteq Nat \ {0}
  \* With 1 the window that completes the coverage would settle the tuner.
  /\ StableWindows > 1

VARIABLES
  phase,   \* "warmup", "burnin" or "measure"
  gcs,     \* collections since the phase began
  host,    \* pages the host has written since then
  t,       \* the tuner
  ran,     \* collections done with the installed arm, since it was installed
  seen     \* of the windows since all arms were covered and the best one was
           \* chosen: their number, and the number of the best arm's

vars == <<phase, gcs, host, t, ran, seen>>

NoVisits == [i \in Arms |-> [visits |-> 0, last |-> Never, mean |-> 0]]

\* watgc_v2_init, and what watgc_v2_reset_epoch starts again.
Epoch(current, windows) ==
  [arm |-> NoVisits,
   windows |-> windows, current |-> current, best |-> current,
   stable |-> 0, confirmed |-> 0, exploit |-> 0, drift |-> 0, reference |-> 0,
   settled |-> FALSE]

Nothing == [all |-> 0, best |-> 0]

Init ==
  /\ phase = "warmup" /\ gcs = 0 /\ host = 0
  /\ t = Epoch(InitialArm, 0)
  /\ ran = 0 /\ seen = Nothing

----------------------------------------------------------------------------
(* What is known of the arms.  u is a tuner.                               *)

Visited(u) == {i \in Arms : u.arm[i].visits > 0}
Covered(u) == \A i \in Arms : u.arm[i].visits >= MinVisits

\* The lowest arm of a set among those of the least value.
Least(S, value) ==
  CHOOSE i \in S : \A j \in S : value[i] < value[j] \/ (value[i] = value[j] /\ i <= j)

Oldest(u, S) == Least(S, [i \in Arms |-> u.arm[i].last])

\* watgc_v2_choose_search: the arms it may return.
Search(u) ==
  LET fewest == Least(Arms, [i \in Arms |-> u.arm[i].visits])
      oldest == Oldest(u, Arms)
  IN  IF u.arm[fewest].visits < MinVisits THEN {fewest}
      ELSE IF u.windows - u.arm[oldest].last >= StaleWindows THEN {oldest}
      ELSE Arms

\* The incumbent stays unless another arm is better by more than the
\* tolerance.
Beats(u, i) == /\ u.arm[u.best].mean > u.arm[i].mean
               /\ (u.arm[u.best].mean - u.arm[i].mean) * One
                    > u.arm[u.best].mean * Tolerance

\* Mutant of Best: the incumbent stays once it is settled.
BestStays(u) ==
  LET least == Least(Visited(u), [i \in Arms |-> u.arm[i].mean])
  IN  IF u.best \in Visited(u) /\ (u.settled \/ ~Beats(u, least)) THEN u.best ELSE least

Best(u) ==
  LET least == Least(Visited(u), [i \in Arms |-> u.arm[i].mean])
  IN  IF u.best \in Visited(u) /\ ~Beats(u, least) THEN u.best ELSE least

Crowned(u) == IF Best(u) = u.best THEN [u EXCEPT !.stable = @ + 1]
              ELSE [u EXCEPT !.best = Best(u), !.stable = 0, !.confirmed = 0,
                             !.exploit = 0, !.drift = 0, !.reference = 0,
                             !.settled = FALSE]

Confirmed(u) == IF u.current = u.best THEN [u EXCEPT !.confirmed = @ + 1] ELSE u

Settled(u) ==
  IF ~u.settled /\ Covered(u) /\ u.stable >= StableWindows
       /\ u.confirmed >= BestConfirmations
    THEN [u EXCEPT !.settled = TRUE, !.exploit = 0, !.drift = 0,
                   !.reference = u.arm[u.best].mean]
    ELSE u

\* watgc_v2_update_best
UpdateBest(u) == Settled(Confirmed(Crowned(u)))

----------------------------------------------------------------------------
(* watgc_v2_observe of a window with write amplification sample, step by   *)
(* step                                                                    *)

\* The settled arm has drifted: DriftWindows of its windows in a row differ
\* from the reference by more than DriftShare.
Distance(a, b) == IF a > b THEN a - b ELSE b - a
Drifted(u, sample) ==
  IF ~(u.settled /\ u.current = u.best) THEN u
  ELSE LET far   == Distance(sample, u.reference) * One > u.reference * DriftShare
           drift == IF far THEN u.drift + 1 ELSE 0
       IN  IF drift >= DriftWindows THEN Epoch(u.current, u.windows)
           ELSE [u EXCEPT !.drift = drift]

\* The mean moves from where it was towards the sample.
Between(a, m, b) == (a <= m /\ m <= b) \/ (b <= m /\ m <= a)
Means(u, sample) ==
  IF u.current \in Visited(u)
    THEN {m \in Wafs : Between(u.arm[u.current].mean, m, sample)} ELSE {sample}

Counted(u, m) ==
  [u EXCEPT !.arm[u.current] =
     [visits |-> u.arm[u.current].visits + 1, last |-> u.windows, mean |-> m]]

\* Windows before all arms were covered show no stability.
Restarted(u) == [u EXCEPT !.stable = 0, !.confirmed = 0]

\* Mutant of Observed: the window that completes the coverage counts.
ObservedEarly(u, sample, m) ==
  UpdateBest(Counted(Drifted([u EXCEPT !.windows = @ + 1], sample), m))

Observed(u, sample, m) ==
  LET before == Drifted([u EXCEPT !.windows = @ + 1], sample)
      after  == Counted(before, m)
      first  == ~Covered(before) /\ Covered(after)
  IN  IF first THEN Restarted(UpdateBest(Restarted(after))) ELSE UpdateBest(after)

\* Mutant of Choices: the oldest arm of all is tried, not the oldest other.
ChoicesOldest(u) ==
  IF ~u.settled THEN {[u EXCEPT !.current = i] : i \in Search(u)}
  ELSE IF u.current # u.best THEN {[u EXCEPT !.exploit = 0, !.current = u.best]}
  ELSE IF u.exploit + 1 >= ProbeEvery
       THEN {[u EXCEPT !.exploit = 0, !.current = u.best]}
       ELSE {[u EXCEPT !.exploit = @ + 1]}

\* The arm of the next window: searched for, or the best one, with every
\* ProbeEvery of its windows one of the oldest other arm.
Choices(u) ==
  IF ~u.settled THEN {[u EXCEPT !.current = i] : i \in Search(u)}
  ELSE IF u.current # u.best THEN {[u EXCEPT !.exploit = 0, !.current = u.best]}
  ELSE IF u.exploit + 1 >= ProbeEvery
       THEN {[u EXCEPT !.exploit = 0, !.current = Oldest(u, Arms \ {u.best})]}
       ELSE {[u EXCEPT !.exploit = @ + 1]}

----------------------------------------------------------------------------
(* watgc_v2_on_gc after a collection, with pages more from the host; late: *)
(* WATGC_V2_MAX_WINDOW_NS have passed since the phase began, as far as the *)
(* clock says, which may have gone back.                                   *)

BeginPhase(p) == phase' = p /\ gcs' = 0 /\ host' = 0

Warmup ==
  /\ phase = "warmup"
  /\ IF gcs + 1 >= WarmupGc THEN BeginPhase("burnin")
     ELSE gcs' = gcs + 1 /\ UNCHANGED <<phase, host>>
  /\ ran' = ran + 1
  /\ UNCHANGED <<t, seen>>

Ready(pages) ==
  IF phase = "burnin" THEN host + pages >= BurninHost /\ gcs + 1 >= BurninGc
                      ELSE host + pages >= WindowHost /\ gcs + 1 >= WindowGc

TooLong(late) == gcs + 1 >= MaxWindowGc \/ late

\* Mutant of NotReady: the counts of the discarded window are kept.
NotReadyKeeps(pages, late) ==
  /\ phase # "warmup" /\ ~Ready(pages)
  /\ IF TooLong(late) THEN phase' = "burnin" /\ UNCHANGED <<gcs, host>>
     ELSE gcs' = gcs + 1 /\ host' = host + pages /\ UNCHANGED phase
  /\ ran' = ran + 1
  /\ UNCHANGED <<t, seen>>

NotReady(pages, late) ==
  /\ phase # "warmup" /\ ~Ready(pages)
  /\ IF TooLong(late) THEN BeginPhase("burnin")
     ELSE gcs' = gcs + 1 /\ host' = host + pages /\ UNCHANGED phase
  /\ ran' = ran + 1
  /\ UNCHANGED <<t, seen>>

BurntIn(pages) ==
  /\ phase = "burnin" /\ Ready(pages)
  /\ BeginPhase("measure")
  /\ ran' = ran + 1
  /\ UNCHANGED <<t, seen>>

\* The numbers of the window are out of range.
Discard(pages) ==
  /\ phase = "measure" /\ Ready(pages)
  /\ BeginPhase("burnin")
  /\ ran' = ran + 1
  /\ UNCHANGED <<t, seen>>

SeenAfter(u) ==
  IF ~Covered(t) \/ ~Covered(u) THEN Nothing
  ELSE LET mine == IF t.current = u.best THEN 1 ELSE 0
       IN  IF u.best # t.best THEN [all |-> 0, best |-> mine]
           ELSE [all |-> seen.all + 1, best |-> seen.best + mine]

\* Mutant of Install: the next arm is measured at once.
InstallAtOnce(u) ==
  /\ BeginPhase("measure")
  /\ ran' = IF u.current = t.current THEN ran + 1 ELSE 0

\* watgc_v2_set_arm, if the arm is another one.
Install(u) ==
  IF u.current = t.current THEN BeginPhase("measure") /\ ran' = ran + 1
                           ELSE BeginPhase("burnin") /\ ran' = 0

Observe(pages) ==
  /\ phase = "measure" /\ Ready(pages)
  /\ \E sample \in Wafs : \E m \in Means(Drifted(t, sample), sample) :
       \E u \in Choices(Observed(t, sample, m)) :
         /\ t' = u
         /\ seen' = SeenAfter(u)
         /\ Install(u)

OnGc == \/ Warmup
        \/ \E pages \in HostPages :
             \/ \E late \in BOOLEAN : NotReady(pages, late)
             \/ BurntIn(pages) \/ Discard(pages) \/ Observe(pages)

Spec     == Init /\ [][OnGc]_vars
FairSpec == Spec /\ WF_vars(OnGc)

----------------------------------------------------------------------------
(* Properties *)

\* "The arm that performed this entire GC remains installed until here"
\* (conv_ftl.c:1456): every collection of a measured window was done with
\* the arm the window is credited to, and so were at least BurninGc before.
MeasuresOneArm == phase = "measure" => ran >= BurninGc + gcs

\* "Bootstrap observations do not establish post-coverage stability"
\* (conv_ftl.c, watgc_v2_observe): when the tuner is settled, all arms were
\* visited, and the best one has since been the best for StableWindows and
\* was measured itself BestConfirmations times, whatever resets came between.
SettledIsConfirmed ==
  t.settled => /\ Covered(t)
               /\ seen.all >= StableWindows /\ seen.best >= BestConfirmations

\* No arm is better than the best one by more than the tolerance, settled or
\* not.
BestNearLeast == \A i \in Visited(t) : t.best \in Visited(t) /\ ~Beats(t, i)

\* The search, the probes and every change between them leave no arm
\* unvisited for long.
Patience == StaleWindows + (NrArms - 1) * (ProbeEvery + 1)
NoArmStarves ==
  Covered(t) => \A i \in Arms : t.windows - t.arm[i].last <= Patience

\* No phase goes on for ever, however little the host writes and whatever
\* the clock does.
PhasesEnd == gcs > 0 ~> gcs = 0
=============================================================================
