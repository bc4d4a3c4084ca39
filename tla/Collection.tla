----------------------------- MODULE Collection -----------------------------
(***************************************************************************)
(* A line is filled, and do_gc is called: it selects a victim (VictimScan) *)
(* and then walks its pages and erases its blocks (FlashGeometry).         *)
(***************************************************************************)
EXTENDS FlashGeometry, VictimScan

CInit == Init /\ ScanInit

\* do_gc returns early if there is no victim.
Selecting == phase = "collect" /\ (BeginScan \/ ScanStep) /\ UNCHANGED vars
Walking   == scan = Chosen /\ (CleanPage \/ FlashPageDone) /\ UNCHANGED scan
Filling   == AdvanceWritePointer /\ UNCHANGED scan

CNext == Filling \/ Selecting \/ Walking
CSpec == CInit /\ [][CNext]_<<vars, scan>>
=============================================================================
