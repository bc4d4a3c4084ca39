---------------------------- MODULE MCCollection ----------------------------
(* Instances of Collection for TLC. *)
EXTENDS Collection

\* The lines have the size of FlashGeometry's.
Line48 == 48

\* Every number of steps, every scale and every ratio; a second has 1000
\* parts.
SixArms == {0, 13, 20, 36, 40, 59}
Young == 1999999
Ages   == {Young, Young - 100000, Young - 400000}
=============================================================================
