----------------------------- MODULE ConvFtlInv -----------------------------
(***************************************************************************)
(* The inductive invariant behind the safety properties of ConvFtl.        *)
(* MappingInv needs no assumption on the number of logical pages: it holds *)
(* up to the step in which a partition runs out of lines, if it does.      *)
(* SpaceInv is what over-provisioning buys.                                *)
(***************************************************************************)
EXTENDS ConvFtl

\* What each control point says of the dispatcher's local state.
ControlInv ==
  /\ pc = "program" <=> req # InvalidLpn
  /\ pc \in {"clean", "erase"} <=> victim # NoLine
  /\ pc = "erase" => cursor < PgsPerLine
  /\ victim = NoLine => cursor = 0
  /\ pc \in {"ready", "program"} <=> write_credits > 0

\* Which pages of a line are free, by where the line is: the pages past a
\* write pointer, all pages of a free line, none of a closed one, and those
\* of a victim's blocks that are already erased.
ShapeInv ==
  /\ \A io \in IoTypes : wp[io].line # NoLine =>
       \A o \in Offsets : status[<<wp[io].line, o>>] = "free" <=> o >= wp[io].off
  /\ \A l \in free_line_list, o \in Offsets : status[<<l, o>>] = "free"
  /\ \A l \in full_line_list \cup victims, o \in Offsets : status[<<l, o>>] # "free"
  /\ victim # NoLine =>
       \A o \in Offsets : status[<<victim, o>>] = "free" <=> EraseAt[o] < cursor

\* The page counts, and how they add up by where the line is.
CountInv ==
  /\ \A l \in Lines \ {victim} : /\ vpc[l] = Cardinality(ValidIn(l))
                                 /\ ipc[l] = Cardinality(InvalidIn(l))
  /\ \A io \in IoTypes : wp[io].line # NoLine =>
       vpc[wp[io].line] + ipc[wp[io].line] = wp[io].off
  /\ \A l \in free_line_list : vpc[l] = 0 /\ ipc[l] = 0
  /\ \A l \in full_line_list : vpc[l] = PgsPerLine /\ ipc[l] = 0
  /\ \A l \in victims \cup Collected :
       ipc[l] > 0 /\ vpc[l] + ipc[l] = PgsPerLine

\* The page an overwrite invalidated, before the new one is mapped.
OverwriteInv ==
  pc = "program" /\ maptbl[req] # Unmapped => status[maptbl[req]] = "invalid"

MappingInv ==
  /\ TypeOK
  /\ ControlInv
  /\ OneHome
  /\ ShapeInv
  /\ CountInv
  /\ OverwriteInv
  /\ MappingSound
  /\ NoOrphanPage

\* The victim's pages that are still to be copied.
Remaining == {o \in Offsets \ Visited : status[<<victim, o>>] = "valid"}

SpaceInv ==
  /\ Alive
  /\ CreditsBacked
  /\ victim # NoLine =>
       /\ FreePages + vpc[victim] - Cardinality(Remaining)
            >= GcThresLines * PgsPerLine + 2
       /\ credits_to_refill = ipc[victim]
==============================================================================
