----------------------------- MODULE MCNandTime -----------------------------
(* Instances of NandTime for TLC. *)
EXTENDS NandTime, TLC

\* Two partitions: the first has a channel with two LUNs, the second one with
\* one.
L3 == 0 .. 2
TwoChannels == 0 .. 1
FirstTwo == [l \in L3 |-> IF l < 2 THEN 0 ELSE 1]
Pages3 == {"a", "b", "c"}
LunOfPage == "a" :> 0 @@ "b" :> 1 @@ "c" :> 2

FiveLpns == 0 .. 4
SomeMaps == {[l \in FiveLpns |-> m[l + 1]] :
               m \in {<<"a", "c", "b", "c", "a">>, <<"a", "c", "a", Unmapped, "b">>,
                      <<Unmapped, "c", "b", Unmapped, "b">>}}

SomeRanges == {<<0, 4>>, <<1, 4>>, <<0, 2>>, <<2, 3>>, <<4, 4>>}

\* Without what no step looks at, and the properties only in the step that
\* changes it: the answers, and the last request of a ring.
Without(r, fields) == [f \in DOMAIN r \ fields |-> r[f]]
StepView == <<clock, avail, [b \in Buses |-> Without(ring[b], {"asked", "end"})],
              maptbl, Without(nand, {"done"}), Without(cmd, {"latest"}),
              busyTill, left>>
=============================================================================
