---------------------------- MODULE MCWatgcTuner ----------------------------
(* Instances of WatgcTuner for TLC. *)
EXTENDS WatgcTuner

\* Write amplifications: two within the tolerance, and one that has drifted.
SomeWafs == {200, 201, 240}

\* A count above what it is compared with is as good as that.
UpTo(n, bound) == IF n < bound THEN n ELSE bound

\* Without absolute times: last visits by how long ago they were.
RelativeView ==
  <<phase, gcs, UpTo(host, WindowHost), UpTo(ran, BurninGc + MaxWindowGc),
    UpTo(seen.all, StableWindows), UpTo(seen.best, BestConfirmations),
    [t EXCEPT !.windows = 0,
              !.arm = [i \in Arms |->
                [visits |-> UpTo(t.arm[i].visits, MinVisits), mean |-> t.arm[i].mean,
                 last |-> IF t.arm[i].last = Never THEN Never
                          ELSE t.windows - t.arm[i].last + 1]],
              !.stable = UpTo(@, StableWindows),
              !.confirmed = UpTo(@, BestConfirmations)]>>
=============================================================================
