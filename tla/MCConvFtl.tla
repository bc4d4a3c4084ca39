------------------------------ MODULE MCConvFtl ------------------------------
(***************************************************************************)
(* Instances of ConvFtl for TLC.  The order in which GC walks a line and   *)
(* erases its blocks comes from FlashGeometry, for the geometry each run   *)
(* names.                                                                  *)
(***************************************************************************)
EXTENDS ConvFtlInv, TLC

\* Two pages: two channels, one LUN, a page in each block, so each block is
\* erased right after its page was visited.
G2 == INSTANCE FlashGeometry WITH
        Nchs <- 2, LunsPerCh <- 1, WordLines <- 1, PgsPerOneshot <- 1,
        PgsPerFlash <- 1, wp <- 0, filled <- 0, gc <- 0, walked <- 0,
        erased <- 0, phase <- 0
Walk2  == G2!LineWalk
Erase2 == G2!LineErase

\* Three pages: one LUN of three wordlines, so the pages GC has copied stay
\* valid until the whole block is erased at the end.
B3 == INSTANCE FlashGeometry WITH
        Nchs <- 1, LunsPerCh <- 1, WordLines <- 3, PgsPerOneshot <- 1,
        PgsPerFlash <- 1, wp <- 0, filled <- 0, gc <- 0, walked <- 0,
        erased <- 0, phase <- 0
Walk3  == B3!LineWalk
Erase3 == B3!LineErase

Symmetry == Permutations(Lines) \cup Permutations(LPNs)
==============================================================================
