---------------------------- MODULE ConvFtlProofs ----------------------------
(***************************************************************************)
(* Proofs about ConvFtl for any number of lines, pages per line and        *)
(* logical pages, any geometry and both kinds of victim policy.            *)
(***************************************************************************)
EXTENDS ConvFtlInv, FiniteSetTheorems, TLAPS

\* The offsets of a line: a finite set with a member per page.
LEMMA OffsetsFinite ==
  /\ PgsPerLine \in Nat \ {0}
  /\ IsFiniteSet(Offsets)
  /\ Cardinality(Offsets) = PgsPerLine
  /\ \A S \in SUBSET Offsets : /\ IsFiniteSet(S)
                               /\ Cardinality(S) \in Nat
                               /\ Cardinality(S) \in 0 .. PgsPerLine
<1>1. PgsPerLine \in Nat \ {0} BY LinesAssumption
<1>2. IsFiniteSet(Offsets) /\ Cardinality(Offsets) = PgsPerLine
  BY <1>1, FS_Interval DEF Offsets
<1>3. ASSUME NEW S \in SUBSET Offsets
      PROVE  /\ IsFiniteSet(S) /\ Cardinality(S) \in Nat
             /\ Cardinality(S) \in 0 .. PgsPerLine
  <2>1. IsFiniteSet(S) /\ Cardinality(S) <= PgsPerLine
    BY <1>2, FS_Subset
  <2>2. Cardinality(S) \in Nat
    BY <2>1, FS_CardinalityType
  <2>3. QED BY <1>1, <2>1, <2>2
<1>4. QED BY <1>1, <1>2, <1>3

\* Free lines are finitely many, so taking one off the list counts down.
LEMMA LinesFinite ==
  ASSUME NEW S \in SUBSET Lines
  PROVE  /\ IsFiniteSet(S)
         /\ Cardinality(S) \in Nat
         /\ \A l \in S : /\ Cardinality(S) > 0
                         /\ Cardinality(S \ {l}) = Cardinality(S) - 1
         /\ \A l \in Lines \ S : Cardinality(S \cup {l}) = Cardinality(S) + 1
<1>1. IsFiniteSet(S) BY LinesAssumption, FS_Subset
<1>2. Cardinality(S) \in Nat BY <1>1, FS_CardinalityType
<1>3. ASSUME NEW l \in S
      PROVE  Cardinality(S) > 0 /\ Cardinality(S \ {l}) = Cardinality(S) - 1
  <2>1. Cardinality(S \ {l}) = Cardinality(S) - 1 BY <1>1, FS_RemoveElement
  <2>2. IsFiniteSet(S \ {l}) BY <1>1, FS_RemoveElement
  <2>3. Cardinality(S \ {l}) \in Nat BY <2>2, FS_CardinalityType
  <2>4. QED BY <2>1, <2>3, <1>2
<1>4. ASSUME NEW l \in Lines \ S
      PROVE  Cardinality(S \cup {l}) = Cardinality(S) + 1
  BY <1>1, FS_AddElement
<1>5. QED BY <1>1, <1>2, <1>3, <1>4

\* Programming a free page adds one valid page to its line and nothing else.
LEMMA CountProgram ==
  ASSUME TypeOK, NEW l \in Lines, NEW o \in Offsets,
         status[<<l, o>>] = "free",
         status' = [status EXCEPT ![<<l, o>>] = "valid"]
  PROVE  /\ Cardinality(ValidIn(l)') = Cardinality(ValidIn(l)) + 1
         /\ InvalidIn(l)' = InvalidIn(l)
         /\ \A m \in Lines \ {l} : /\ ValidIn(m)' = ValidIn(m)
                                   /\ InvalidIn(m)' = InvalidIn(m)
<1>1. /\ ValidIn(l)' = ValidIn(l) \cup {o}
      /\ o \notin ValidIn(l)
  BY DEF ValidIn, TypeOK, Pages
<1>2. IsFiniteSet(ValidIn(l))
  BY OffsetsFinite DEF ValidIn
<1>3. Cardinality(ValidIn(l)') = Cardinality(ValidIn(l)) + 1
  BY <1>1, <1>2, FS_AddElement
<1>4. InvalidIn(l)' = InvalidIn(l)
  BY DEF InvalidIn, TypeOK, Pages
<1>5. ASSUME NEW m \in Lines \ {l}
      PROVE  ValidIn(m)' = ValidIn(m) /\ InvalidIn(m)' = InvalidIn(m)
  BY DEF ValidIn, InvalidIn, TypeOK, Pages
<1>6. QED BY <1>3, <1>4, <1>5

\* Invalidating a valid page turns one valid page of its line invalid.
LEMMA CountInvalidate ==
  ASSUME TypeOK, NEW l \in Lines, NEW o \in Offsets,
         status[<<l, o>>] = "valid",
         status' = [status EXCEPT ![<<l, o>>] = "invalid"]
  PROVE  /\ Cardinality(ValidIn(l)) > 0
         /\ Cardinality(ValidIn(l)') = Cardinality(ValidIn(l)) - 1
         /\ Cardinality(InvalidIn(l)') = Cardinality(InvalidIn(l)) + 1
         /\ \A m \in Lines \ {l} : /\ ValidIn(m)' = ValidIn(m)
                                   /\ InvalidIn(m)' = InvalidIn(m)
<1>1. /\ ValidIn(l)' = ValidIn(l) \ {o}
      /\ o \in ValidIn(l)
      /\ InvalidIn(l)' = InvalidIn(l) \cup {o}
      /\ o \notin InvalidIn(l)
  BY DEF ValidIn, InvalidIn, TypeOK, Pages
<1>2. /\ IsFiniteSet(ValidIn(l)) /\ Cardinality(ValidIn(l)) \in Nat
      /\ IsFiniteSet(InvalidIn(l))
  <2>1. ValidIn(l) \in SUBSET Offsets /\ InvalidIn(l) \in SUBSET Offsets
    BY DEF ValidIn, InvalidIn
  <2>2. QED BY <2>1, OffsetsFinite
<1>3. /\ Cardinality(ValidIn(l)') = Cardinality(ValidIn(l)) - 1
      /\ Cardinality(InvalidIn(l)') = Cardinality(InvalidIn(l)) + 1
  <2>1. Cardinality(ValidIn(l)') = Cardinality(ValidIn(l)) - 1
    BY <1>1, <1>2, FS_RemoveElement
  <2>2. Cardinality(InvalidIn(l)') = Cardinality(InvalidIn(l)) + 1
    BY <1>1, <1>2, FS_AddElement
  <2>3. QED BY <2>1, <2>2
<1>4. Cardinality(ValidIn(l)) > 0
  BY <1>1, <1>2, FS_EmptySet
<1>5. ASSUME NEW m \in Lines \ {l}
      PROVE  ValidIn(m)' = ValidIn(m) /\ InvalidIn(m)' = InvalidIn(m)
  BY DEF ValidIn, InvalidIn, TypeOK, Pages
<1>6. QED BY <1>3, <1>4, <1>5

------------------------------------------------------------------------------
(* Initialisation *)

\* conv_init_ftl establishes the invariant.
LEMMA InitMapping == Init => MappingInv
<1> SUFFICES ASSUME Init PROVE MappingInv
  OBVIOUS
<1> USE OffsetsFinite, LinesAssumption, LpnAssumption
    DEF Init, MapInit, LinesInit, PointersInit, CreditsInit
<1>1. PICK u \in Lines, g \in Lines :
        /\ u # g
        /\ wp = [io \in IoTypes |->
                   [line |-> IF io = "USER_IO" THEN u ELSE g, off |-> 0]]
        /\ free_line_list = Lines \ {u, g}
  OBVIOUS
<1>2. /\ Cardinality(Lines) \in Nat
      /\ Cardinality(Lines \ {u}) = Cardinality(Lines) - 1
      /\ Cardinality((Lines \ {u}) \ {g}) = Cardinality(Lines) - 2
      /\ Cardinality((Lines \ {u}) \ {g}) \in Nat
  <2>1. Cardinality(Lines) \in Nat /\ Cardinality(Lines \ {u}) = Cardinality(Lines) - 1
    BY LinesFinite
  <2>2. /\ Cardinality((Lines \ {u}) \ {g}) = Cardinality(Lines \ {u}) - 1
        /\ Cardinality((Lines \ {u}) \ {g}) \in Nat
    BY <1>1, LinesFinite, Lines \ {u} \in SUBSET Lines, g \in Lines \ {u},
       (Lines \ {u}) \ {g} \in SUBSET Lines
  <2>3. QED BY <2>1, <2>2
<1>3. Lines \ {u, g} = (Lines \ {u}) \ {g}
  OBVIOUS
<1>4. /\ free_line_cnt = Cardinality(free_line_list)
      /\ free_line_cnt \in Nat
  BY <1>1, <1>2, <1>3
<1>5. TypeOK
  BY <1>1, <1>4 DEF TypeOK, IoTypes, Offsets
<1>6. ControlInv
  BY DEF ControlInv
<1>7. OneHome
  BY <1>1, <1>4 DEF OneHome, OpenLines, Collected, IoTypes
<1>8. ShapeInv
  BY <1>1 DEF ShapeInv, IoTypes, Offsets, Pages
<1>9. CountInv
  <2>1. ASSUME NEW l \in Lines
        PROVE  ValidIn(l) = {} /\ InvalidIn(l) = {}
    BY DEF ValidIn, InvalidIn, Pages
  <2>2. \A l \in Lines : vpc[l] = 0 /\ ipc[l] = 0
    OBVIOUS
  <2>3. QED
    BY <1>1, <2>1, <2>2, FS_EmptySet DEF CountInv, IoTypes, Collected
<1>10. OverwriteInv /\ MappingSound /\ NoOrphanPage
  BY DEF OverwriteInv, MappingSound, NoOrphanPage, Pages
<1>11. QED
  BY <1>5, <1>6, <1>7, <1>8, <1>9, <1>10 DEF MappingInv

------------------------------------------------------------------------------
(* Programming a page: what a host write and a GC copy share.              *)

\* Where the write pointer of a live dispatcher stands: on a free page of an
\* open line, whose pages below it are all counted.
LEMMA WritePointer ==
  ASSUME MappingInv, Alive, NEW io \in IoTypes
  PROVE  /\ wp[io].line \in Lines /\ wp[io].off \in Offsets
         /\ wp[io].line # victim
         /\ wp[io].line \notin free_line_list \cup full_line_list \cup victims
         /\ NewPage(io) = <<wp[io].line, wp[io].off>>
         /\ NewPage(io) \in Pages
         /\ status[NewPage(io)] = "free"
         /\ vpc[wp[io].line] + ipc[wp[io].line] = wp[io].off
<1> USE DEF MappingInv
<1>1. wp[io].line \in Lines /\ wp[io].off \in Offsets
  BY DEF TypeOK, Alive
<1>2. /\ wp[io].line # victim
      /\ wp[io].line \notin free_line_list \cup full_line_list \cup victims
  BY <1>1 DEF OneHome, OpenLines, Collected, Alive
<1>3. status[<<wp[io].line, wp[io].off>>] = "free"
  BY <1>1 DEF ShapeInv, Alive, Offsets
<1>4. vpc[wp[io].line] + ipc[wp[io].line] = wp[io].off
  BY DEF CountInv, Alive
<1>5. QED
  BY <1>1, <1>2, <1>3, <1>4 DEF NewPage, Pages

\* Types, line homes and counts after a page was programmed.
LEMMA ProgramStep ==
  ASSUME MappingInv, Alive, NEW io \in IoTypes, NEW lpn \in LPNs,
         Program(io, lpn), victim' = victim
  PROVE  /\ maptbl' \in [LPNs -> Pages \cup {Unmapped}]
         /\ rmap' \in [Pages -> LPNs \cup {InvalidLpn}]
         /\ status' \in [Pages -> {"free", "valid", "invalid"}]
         /\ vpc' \in [Lines -> 0 .. PgsPerLine]
         /\ ipc' \in [Lines -> 0 .. PgsPerLine]
         /\ free_line_list' \in SUBSET Lines
         /\ free_line_cnt' \in Nat
         /\ full_line_list' \in SUBSET Lines
         /\ victims' \in SUBSET Lines
         /\ wp' \in [IoTypes -> [line : Lines \cup {NoLine}, off : Offsets]]
         /\ OneHome'
         /\ CountInv'
<1> USE OffsetsFinite
<1>0. PICK l \in Lines, o \in Offsets : l = wp[io].line /\ o = wp[io].off
  BY WritePointer
<1>1. /\ l \in Lines /\ o \in Offsets /\ l # victim
      /\ l \notin free_line_list \cup full_line_list \cup victims
      /\ NewPage(io) = <<l, o>> /\ NewPage(io) \in Pages
      /\ status[<<l, o>>] = "free"
      /\ vpc[l] + ipc[l] = o
  BY <1>0, WritePointer
<1>2. TypeOK /\ OneHome /\ CountInv
  BY DEF MappingInv
<1>3. /\ vpc[l] \in Nat /\ ipc[l] \in Nat /\ vpc[l] < PgsPerLine
      /\ vpc' = [vpc EXCEPT ![l] = vpc[l] + 1]
      /\ ipc' = ipc
  BY <1>0, <1>1, <1>2 DEF Program, MarkPageValid, Line, TypeOK, Offsets
<1>4. /\ maptbl' \in [LPNs -> Pages \cup {Unmapped}]
      /\ rmap' \in [Pages -> LPNs \cup {InvalidLpn}]
      /\ status' \in [Pages -> {"free", "valid", "invalid"}]
  BY <1>1, <1>2 DEF Program, MarkPageValid, Line, TypeOK
<1>5. /\ vpc' \in [Lines -> 0 .. PgsPerLine]
      /\ ipc' \in [Lines -> 0 .. PgsPerLine]
  BY <1>1, <1>2, <1>3 DEF TypeOK
<1>6. /\ \A m \in Lines \ {victim} : /\ vpc'[m] = Cardinality(ValidIn(m)')
                                    /\ ipc'[m] = Cardinality(InvalidIn(m)')
      /\ vpc'[l] = vpc[l] + 1
      /\ \A m \in Lines \ {l} : vpc'[m] = vpc[m]
  <2>1. status' = [status EXCEPT ![<<l, o>>] = "valid"]
    BY <1>1 DEF Program, MarkPageValid, Line
  <2>2. /\ Cardinality(ValidIn(l)') = Cardinality(ValidIn(l)) + 1
        /\ InvalidIn(l)' = InvalidIn(l)
        /\ \A m \in Lines \ {l} : /\ ValidIn(m)' = ValidIn(m)
                                  /\ InvalidIn(m)' = InvalidIn(m)
    BY <1>1, <1>2, <2>1, CountProgram
  <2>3. \A m \in Lines \ {victim} : /\ vpc[m] = Cardinality(ValidIn(m))
                                  /\ ipc[m] = Cardinality(InvalidIn(m))
    BY <1>2 DEF CountInv
  <2>4. vpc'[l] = vpc[l] + 1 /\ \A m \in Lines \ {l} : vpc'[m] = vpc[m]
    BY <1>1, <1>2, <1>3 DEF TypeOK
  <2>5. QED BY <1>1, <1>3, <2>2, <2>3, <2>4
<1>7. CASE StayInLine(io)
  <2>1. /\ o + 1 < PgsPerLine
        /\ wp' = [wp EXCEPT ![io] = [line |-> l, off |-> o + 1]]
        /\ UNCHANGED <<free_line_list, free_line_cnt, full_line_list, victims>>
    BY <1>0, <1>7 DEF StayInLine
  <2>2. /\ wp' \in [IoTypes -> [line : Lines \cup {NoLine}, off : Offsets]]
        /\ \A x \in IoTypes : wp'[x].line = wp[x].line
        /\ wp'[io].off = o + 1 /\ wp'[io].line = l
        /\ \A x \in IoTypes \ {io} : wp'[x] = wp[x]
    BY <1>0, <1>1, <1>2, <2>1 DEF TypeOK, Offsets
  <2>3. OneHome'
    <3>1. OpenLines' = OpenLines /\ Collected' = Collected
      BY <2>2 DEF OpenLines, Collected
    <3>2. QED BY <1>2, <2>1, <2>2, <3>1 DEF OneHome, IoTypes
  <2>4. CountInv'
    <3>1. ASSUME NEW x \in IoTypes, wp'[x].line # NoLine
          PROVE  vpc'[wp'[x].line] + ipc'[wp'[x].line] = wp'[x].off
      <4>1. CASE x = io
        BY <1>1, <1>3, <1>6, <2>2, <4>1 DEF Offsets
      <4>2. CASE x # io
        <5>1. wp'[x] = wp[x] /\ wp[x].line \in Lines
          BY <1>2, <2>2, <3>1, <4>2 DEF TypeOK
        <5>2. wp[x].line # l
          BY <1>0, <1>2, <4>2 DEF OneHome, IoTypes
        <5>3. vpc[wp[x].line] + ipc[wp[x].line] = wp[x].off
          BY <1>2, <3>1, <5>1 DEF CountInv
        <5>4. QED BY <1>3, <1>6, <5>1, <5>2, <5>3
      <4>3. QED BY <4>1, <4>2
    <3>2. \A m \in free_line_list \cup full_line_list \cup victims \cup Collected :
             m \in Lines /\ m # l
      BY <1>1, <1>2 DEF TypeOK, Collected
    <3>3. QED
      BY <1>2, <1>3, <1>6, <2>1, <3>1, <3>2 DEF CountInv, Collected
  <2>5. QED BY <1>2, <1>4, <1>5, <2>1, <2>2, <2>3, <2>4 DEF TypeOK
<1>8. CASE CloseLine(io)
  <2>1. /\ o + 1 = PgsPerLine
        /\ \/ /\ vpc'[l] = PgsPerLine
              /\ full_line_list' = full_line_list \cup {l}
              /\ victims' = victims
           \/ /\ vpc'[l] # PgsPerLine
              /\ victims' = victims \cup {l}
              /\ full_line_list' = full_line_list
    BY <1>0, <1>8 DEF CloseLine
  <2>2. PICK n \in Lines \cup {NoLine} :
          /\ TakeFreeLine(n)
          /\ wp' = [wp EXCEPT ![io] = [line |-> n, off |-> 0]]
    BY <1>8 DEF CloseLine
  <2>3. /\ \/ /\ n \in free_line_list
              /\ free_line_list' = free_line_list \ {n}
              /\ free_line_cnt' = free_line_cnt - 1
           \/ /\ n = NoLine /\ free_line_list = {}
              /\ free_line_list' = free_line_list
              /\ free_line_cnt' = free_line_cnt
        /\ n \notin {l, victim} \cup full_line_list \cup victims
              \/ n = NoLine
    BY <1>1, <1>2, <2>2 DEF TakeFreeLine, freeVars, OneHome, Collected
  <2>4. /\ free_line_cnt' = Cardinality(free_line_list')
        /\ free_line_cnt' \in Nat
        /\ free_line_list' \in SUBSET Lines
    <3>1. free_line_cnt = Cardinality(free_line_list) /\ free_line_list \in SUBSET Lines
      BY <1>2 DEF OneHome, TypeOK
    <3>2. Cardinality(free_line_list') \in Nat
      BY <2>3, <3>1, LinesFinite
    <3>3. QED BY <2>3, <3>1, <3>2, LinesFinite
  <2>5. /\ wp' \in [IoTypes -> [line : Lines \cup {NoLine}, off : Offsets]]
        /\ wp'[io].off = 0 /\ wp'[io].line = n
        /\ \A x \in IoTypes \ {io} : wp'[x] = wp[x] /\ wp[x].line # l
    <3>1. 0 \in Offsets BY DEF Offsets
    <3>2. \A x \in IoTypes \ {io} : wp[x].line # l
      BY <1>0, <1>2 DEF OneHome, IoTypes
    <3>3. QED BY <1>2, <2>2, <3>1, <3>2 DEF TypeOK
  <2>6. full_line_list' \in SUBSET Lines /\ victims' \in SUBSET Lines
    BY <1>1, <1>2, <2>1 DEF TypeOK
  <2>7. OneHome'
    <3>1. Collected' = Collected
      BY DEF Collected
    <3>2. \A x \in IoTypes \ {io} : wp[x].line # n \/ n = NoLine
      BY <1>2, <2>3 DEF OneHome, OpenLines
    <3>3. PICK y \in IoTypes : y # io /\ IoTypes = {io, y}
      BY DEF IoTypes
    <3>4. /\ OpenLines = {l, wp[y].line} \ {NoLine}
          /\ OpenLines' = {n, wp[y].line} \ {NoLine}
      BY <1>0, <2>5, <3>3 DEF OpenLines
    <3>5. wp[y].line # NoLine
      BY <3>3 DEF Alive
    <3>6. wp'["USER_IO"].line # wp'["GC_IO"].line
      BY <2>5, <3>2, <3>3, <3>5 DEF IoTypes
    <3>7. /\ Lines = UNION {free_line_list, OpenLines, full_line_list, victims, Collected}
          /\ free_line_list \cap (OpenLines \cup full_line_list \cup victims
                                   \cup Collected) = {}
          /\ OpenLines \cap (full_line_list \cup victims \cup Collected) = {}
          /\ full_line_list \cap (victims \cup Collected) = {}
          /\ victims \cap Collected = {}
      BY <1>2 DEF OneHome
    <3>8. /\ Lines = UNION {free_line_list', OpenLines', full_line_list', victims',
                            Collected'}
          /\ free_line_list' \cap (OpenLines' \cup full_line_list' \cup victims'
                                   \cup Collected') = {}
          /\ OpenLines' \cap (full_line_list' \cup victims' \cup Collected') = {}
          /\ full_line_list' \cap (victims' \cup Collected') = {}
          /\ victims' \cap Collected' = {}
      BY <1>1, <2>1, <2>3, <2>5, <3>1, <3>2, <3>3, <3>4, <3>5, <3>7, LinesAssumption
      DEF Collected
    <3>9. QED BY <2>4, <3>6, <3>8 DEF OneHome
  <2>8. CountInv'
    <3>1. ASSUME NEW x \in IoTypes, wp'[x].line # NoLine
          PROVE  vpc'[wp'[x].line] + ipc'[wp'[x].line] = wp'[x].off
      <4>1. CASE x = io
        <5>1. n \in free_line_list /\ n \in Lines /\ n # l
          BY <1>2, <2>3, <2>5, <3>1, <4>1 DEF TypeOK, OneHome
        <5>2. vpc[n] = 0 /\ ipc[n] = 0
          BY <1>2, <5>1 DEF CountInv
        <5>3. QED BY <1>3, <1>6, <2>5, <4>1, <5>1, <5>2
      <4>2. CASE x # io
        <5>1. wp'[x] = wp[x] /\ wp[x].line \in Lines /\ wp[x].line # l
          BY <1>2, <2>5, <3>1, <4>2 DEF TypeOK
        <5>2. vpc[wp[x].line] + ipc[wp[x].line] = wp[x].off
          BY <1>2, <3>1, <5>1 DEF CountInv
        <5>3. QED BY <1>3, <1>6, <5>1, <5>2
      <4>3. QED BY <4>1, <4>2
    <3>2. \A m \in free_line_list \cup full_line_list \cup victims \cup Collected :
             m \in Lines /\ m # l
      BY <1>1, <1>2 DEF TypeOK, Collected
    <3>3. vpc'[l] + ipc'[l] = PgsPerLine /\ (vpc'[l] # PgsPerLine => ipc'[l] > 0)
      BY <1>1, <1>3, <1>6, <2>1
    <3>4. \A m \in full_line_list' : vpc'[m] = PgsPerLine /\ ipc'[m] = 0
      BY <1>2, <1>3, <1>6, <2>1, <3>2, <3>3 DEF CountInv
    <3>5. \A m \in victims' \cup Collected' :
             ipc'[m] > 0 /\ vpc'[m] + ipc'[m] = PgsPerLine
      BY <1>2, <1>3, <1>6, <2>1, <3>2, <3>3 DEF CountInv, Collected
    <3>6. \A m \in free_line_list' : vpc'[m] = 0 /\ ipc'[m] = 0
      BY <1>2, <1>3, <1>6, <2>3, <3>2 DEF CountInv
    <3>7. QED BY <1>3, <1>6, <3>1, <3>4, <3>5, <3>6 DEF CountInv
  <2>9. QED BY <1>4, <1>5, <2>4, <2>5, <2>6, <2>7, <2>8
<1>9. QED BY <1>7, <1>8 DEF Program

\* Which pages are free after a page was programmed.
LEMMA ProgramShape ==
  ASSUME MappingInv, Alive, NEW io \in IoTypes, NEW lpn \in LPNs,
         Program(io, lpn), victim' = victim,
         \A x \in Offsets : EraseAt[x] < cursor' <=> EraseAt[x] < cursor
  PROVE  ShapeInv'
<1>0. PICK l \in Lines, o \in Offsets : l = wp[io].line /\ o = wp[io].off
  BY WritePointer
<1>1. /\ l # victim
      /\ l \notin free_line_list \cup full_line_list \cup victims
      /\ <<l, o>> \in Pages /\ status[<<l, o>>] = "free"
      /\ status' = [status EXCEPT ![<<l, o>>] = "valid"]
  BY <1>0, WritePointer DEF Program, MarkPageValid, Line
<1>2. TypeOK /\ OneHome /\ ShapeInv
  BY DEF MappingInv
<1>3. \A m \in Lines, x \in Offsets :
        status'[<<m, x>>] = IF m = l /\ x = o THEN "valid" ELSE status[<<m, x>>]
  BY <1>1, <1>2 DEF TypeOK, Pages
<1>a. \A m \in free_line_list \cup full_line_list \cup victims, x \in Offsets :
        status'[<<m, x>>] = status[<<m, x>>]
  <2>1. \A m \in free_line_list \cup full_line_list \cup victims : m \in Lines /\ m # l
    BY <1>1, <1>2 DEF TypeOK
  <2>2. QED BY <1>3, <2>1
<1>4. \A x \in Offsets : status[<<l, x>>] = "free" <=> x >= o
  BY <1>0, <1>2 DEF ShapeInv, Alive
<1>5. \A x \in Offsets : status'[<<l, x>>] = "free" <=> x >= o + 1
  BY <1>3, <1>4 DEF Offsets
<1>6. \A y \in IoTypes \ {io} :
        /\ wp'[y] = wp[y] /\ wp[y].line \in Lines \ {l}
        /\ \A x \in Offsets : status'[<<wp'[y].line, x>>] = "free" <=> x >= wp'[y].off
  <2>1. \A y \in IoTypes \ {io} : wp'[y] = wp[y]
    BY <1>2 DEF Program, StayInLine, CloseLine, TypeOK
  <2>2. \A y \in IoTypes \ {io} : wp[y].line \in Lines \ {l}
    BY <1>0, <1>2 DEF TypeOK, OneHome, IoTypes, Alive
  <2>3. QED BY <1>2, <1>3, <2>1, <2>2 DEF ShapeInv, Alive
<1>7. victim # NoLine =>
        \A x \in Offsets : status'[<<victim', x>>] = "free" <=> EraseAt[x] < cursor'
  BY <1>1, <1>2, <1>3 DEF ShapeInv, TypeOK
<1>8. CASE StayInLine(io)
  <2>1. /\ wp'[io] = [line |-> l, off |-> o + 1]
        /\ UNCHANGED <<free_line_list, full_line_list, victims>>
    BY <1>0, <1>2, <1>8 DEF StayInLine, TypeOK
  <2>2. \A y \in IoTypes, x \in Offsets :
          status'[<<wp'[y].line, x>>] = "free" <=> x >= wp'[y].off
    <3>1. SUFFICES ASSUME NEW y \in IoTypes
                   PROVE \A x \in Offsets :
                           status'[<<wp'[y].line, x>>] = "free" <=> x >= wp'[y].off
      OBVIOUS
    <3>2. CASE y = io BY <1>5, <2>1, <3>2
    <3>3. CASE y # io BY <1>6, <3>3
    <3>4. QED BY <3>2, <3>3
  <2>3. \A m \in free_line_list' \cup full_line_list' \cup victims', x \in Offsets :
          status'[<<m, x>>] = status[<<m, x>>]
    BY <1>a, <2>1
  <2>4. QED BY <1>2, <1>7, <2>1, <2>2, <2>3 DEF ShapeInv
<1>9. CASE CloseLine(io)
  <2>1. /\ o + 1 = PgsPerLine
        /\ full_line_list' \cup victims' = full_line_list \cup victims \cup {l}
    BY <1>0, <1>9 DEF CloseLine
  <2>2. PICK n \in Lines \cup {NoLine} :
          TakeFreeLine(n) /\ wp' = [wp EXCEPT ![io] = [line |-> n, off |-> 0]]
    BY <1>9 DEF CloseLine
  <2>3. /\ n = NoLine \/ n \in free_line_list
        /\ free_line_list' \subseteq free_line_list
        /\ wp'[io] = [line |-> n, off |-> 0]
    BY <1>2, <2>2 DEF TakeFreeLine, freeVars, TypeOK
  <2>4. \A x \in Offsets : status'[<<l, x>>] # "free"
    BY <1>5, <2>1, LinesAssumption DEF Offsets
  <2>5. \A m \in free_line_list \cup full_line_list \cup victims, x \in Offsets :
          status'[<<m, x>>] = status[<<m, x>>]
    BY <1>a
  <2>6. \A y \in IoTypes : wp'[y].line # NoLine =>
          \A x \in Offsets : status'[<<wp'[y].line, x>>] = "free" <=> x >= wp'[y].off
    <3>1. n # NoLine => \A x \in Offsets : status'[<<n, x>>] = "free" /\ x >= 0
      BY <1>2, <2>3, <2>5 DEF ShapeInv, Offsets
    <3>2. QED BY <1>6, <2>3, <3>1
  <2>7. \A m \in full_line_list' \cup victims', x \in Offsets : status'[<<m, x>>] # "free"
    BY <1>2, <2>1, <2>4, <2>5 DEF ShapeInv
  <2>8. \A m \in free_line_list', x \in Offsets : status'[<<m, x>>] = "free"
    BY <1>2, <2>3, <2>5 DEF ShapeInv
  <2>9. QED BY <1>7, <2>6, <2>7, <2>8 DEF ShapeInv
<1>10. QED BY <1>8, <1>9 DEF Program

\* The mapping after a page was programmed, given that the page the logical
\* page had before is not current any more.
LEMMA ProgramMapping ==
  ASSUME MappingInv, Alive, NEW io \in IoTypes, NEW lpn \in LPNs,
         Program(io, lpn), victim' = victim,
         pc = "program" => req = lpn, pc' # "program",
         Visited \subseteq Visited',
         NEW old, old = maptbl[lpn],
         \A q \in Pages :
            victim # NoLine /\ q[1] = victim /\ q[2] \in Visited'
              => q[2] \in Visited \/ q = old,
         old # Unmapped =>
           \/ status[old] # "valid"
           \/ victim # NoLine /\ old[1] = victim /\ old[2] \in Visited'
  PROVE  MappingSound' /\ NoOrphanPage'
<1> DEFINE StaleAfter(q) == victim # NoLine /\ q[1] = victim /\ q[2] \in Visited'
           StaleNow(q)   == victim # NoLine /\ q[1] = victim /\ q[2] \in Visited
<1>0. PICK p \in Pages : p = NewPage(io)
  BY WritePointer
<1>1. /\ status[p] = "free" /\ p[1] # victim /\ p # Unmapped
      /\ maptbl' = [maptbl EXCEPT ![lpn] = p]
      /\ rmap' = [rmap EXCEPT ![p] = lpn]
      /\ status' = [status EXCEPT ![p] = "valid"]
  BY <1>0, WritePointer, LpnAssumption DEF Program, MarkPageValid, Line
<1>2. TypeOK /\ MappingSound /\ NoOrphanPage
  BY DEF MappingInv
<1>3. ~StaleAfter(p)
  BY <1>1
<1>4. ASSUME NEW m \in LPNs, maptbl'[m] # Unmapped
      PROVE  /\ status'[maptbl'[m]] = "valid"
             /\ rmap'[maptbl'[m]] = m
             /\ ~StaleAfter(maptbl'[m])
  <2>1. CASE m = lpn
    <3>1. maptbl'[m] = p BY <1>1, <1>2, <2>1 DEF TypeOK
    <3>2. status'[p] = "valid" /\ rmap'[p] = m BY <1>1, <1>2, <2>1 DEF TypeOK
    <3>3. QED BY <1>3, <3>1, <3>2
  <2>2. CASE m # lpn
    <3>1. maptbl'[m] = maptbl[m] /\ maptbl[m] \in Pages
      BY <1>1, <1>2, <1>4, <2>2 DEF TypeOK
    <3>2. PICK q \in Pages : q = maptbl[m]
      BY <3>1
    <3>3. q # Unmapped /\ ~(pc = "program" /\ req = m)
      BY <1>4, <2>2, <3>1, <3>2
    <3>4. status[q] = "valid" /\ rmap[q] = m /\ ~StaleNow(q)
      BY <1>2, <3>2, <3>3 DEF MappingSound, IsStale, Line
    <3>5. q # p
      BY <1>1, <3>4
    <3>6. q # old
      <4>1. SUFFICES ASSUME q = old PROVE FALSE
        OBVIOUS
      <4>2. maptbl[lpn] = q /\ StaleAfter(q)
        BY <3>3, <3>4, <4>1
      <4>3. CASE pc = "program" /\ req = lpn
        BY <1>2, <3>3, <3>4, <4>2, <4>3 DEF MappingInv, OverwriteInv
      <4>4. CASE ~(pc = "program" /\ req = lpn)
        BY <1>2, <2>2, <3>3, <3>4, <4>2, <4>4 DEF MappingSound
      <4>5. QED BY <4>3, <4>4
    <3>7. ~StaleAfter(q)
      BY <3>4, <3>6
    <3>8. status'[q] = "valid" /\ rmap'[q] = m
      BY <1>1, <1>2, <3>4, <3>5 DEF TypeOK
    <3>9. QED BY <3>1, <3>2, <3>7, <3>8
  <2>3. QED BY <2>1, <2>2
<1>5. MappingSound'
  BY <1>4 DEF MappingSound, IsStale, Line
<1>6. ASSUME NEW q \in Pages, status'[q] = "valid", ~StaleAfter(q)
      PROVE  rmap'[q] \in LPNs /\ maptbl'[rmap'[q]] = q
  <2>1. CASE q = p
    <3>1. rmap'[q] = lpn /\ maptbl'[lpn] = p
      BY <1>1, <1>2, <2>1 DEF TypeOK
    <3>2. QED BY <2>1, <3>1
  <2>2. CASE q # p
    <3>1. status[q] = "valid" /\ ~StaleNow(q) /\ rmap'[q] = rmap[q]
      BY <1>1, <1>2, <1>6, <2>2 DEF TypeOK
    <3>2. rmap[q] \in LPNs /\ maptbl[rmap[q]] = q
      BY <1>2, <3>1 DEF NoOrphanPage, IsStale, Line
    <3>3. rmap[q] # lpn
      <4>1. SUFFICES ASSUME rmap[q] = lpn PROVE FALSE OBVIOUS
      <4>2. old = q /\ q # Unmapped
        BY <3>2, <4>1, LpnAssumption
      <4>3. StaleAfter(q) BY <3>1, <4>2
      <4>4. QED BY <1>6, <4>3
    <3>4. maptbl'[rmap[q]] = maptbl[rmap[q]]
      BY <1>1, <1>2, <3>2, <3>3 DEF TypeOK
    <3>5. QED BY <3>1, <3>2, <3>4
  <2>3. QED BY <2>1, <2>2
<1>7. NoOrphanPage'
  BY <1>6 DEF NoOrphanPage, IsStale, Line
<1>8. QED BY <1>5, <1>7

------------------------------------------------------------------------------
(* The actions of the dispatcher, one lemma each.                          *)

\* Lines, counts and free pages of a step that only moves control.
LEMMA SameLines ==
  ASSUME MappingInv,
         UNCHANGED <<mapVars, lineVars, freeVars, wp, victim>>,
         \A x \in Offsets : EraseAt[x] < cursor' <=> EraseAt[x] < cursor
  PROVE  OneHome' /\ ShapeInv' /\ CountInv'
<1>1. OneHome'
  BY DEF MappingInv, OneHome, OpenLines, Collected, lineVars, freeVars
<1>2. ShapeInv'
  BY DEF MappingInv, ShapeInv, mapVars, lineVars, freeVars
<1>3. CountInv'
  BY DEF MappingInv, CountInv, ValidIn, InvalidIn, Collected, mapVars, lineVars, freeVars
<1>4. QED BY <1>1, <1>2, <1>3

\* A write of a page that has no mapping.
LEMMA HostWriteFreshStep ==
  ASSUME MappingInv, NEW lpn \in LPNs, HostWriteFresh(lpn)
  PROVE  MappingInv'
<1> USE DEF HostWriteFresh, At, MappingInv
<1>1. TypeOK'
  BY DEF TypeOK, mapVars, lineVars, freeVars, creditVars, gcVars
<1>2. ControlInv'
  BY LpnAssumption DEF ControlInv, creditVars, gcVars
<1>3. OneHome' /\ ShapeInv' /\ CountInv'
  BY SameLines DEF gcVars
<1>4. OverwriteInv'
  BY DEF OverwriteInv, mapVars
<1>5. MappingSound' /\ NoOrphanPage'
  <2>1. victim = NoLine /\ victim' = NoLine
    BY DEF ControlInv, gcVars
  <2>2. QED
    BY <2>1 DEF MappingSound, NoOrphanPage, IsStale, mapVars
<1>6. QED BY <1>1, <1>2, <1>3, <1>4, <1>5

\* The first half of an overwrite: the old page becomes invalid.
LEMMA HostOverwriteStep ==
  ASSUME MappingInv, NEW lpn \in LPNs, HostOverwrite(lpn)
  PROVE  MappingInv'
<1> USE OffsetsFinite
<1>0. /\ pc = "ready" /\ pc' = "program" /\ req' = lpn /\ Alive
      /\ maptbl[lpn] # Unmapped /\ MarkPageInvalid(maptbl[lpn])
      /\ rmap' = [rmap EXCEPT ![maptbl[lpn]] = InvalidLpn]
      /\ UNCHANGED <<maptbl, free_line_list, free_line_cnt, wp, write_credits,
                     credits_to_refill, victim, cursor>>
  BY DEF HostOverwrite, At, freeVars, creditVars, gcVars
<1>1. /\ TypeOK /\ ControlInv /\ OneHome /\ ShapeInv /\ CountInv
      /\ OverwriteInv /\ MappingSound /\ NoOrphanPage
  BY DEF MappingInv
<1>2. PICK l \in Lines, o \in Offsets : maptbl[lpn] = <<l, o>>
  BY <1>0, <1>1 DEF TypeOK, Pages
<1>3. /\ victim = NoLine /\ victim' = NoLine /\ <<l, o>> \in Pages
      /\ status[<<l, o>>] = "valid" /\ rmap[<<l, o>>] = lpn
  BY <1>0, <1>1, <1>2 DEF ControlInv, MappingSound, Pages
<1>4. /\ status' = [status EXCEPT ![<<l, o>>] = "invalid"]
      /\ rmap' = [rmap EXCEPT ![<<l, o>>] = InvalidLpn]
      /\ ipc' = [ipc EXCEPT ![l] = ipc[l] + 1]
      /\ vpc' = [vpc EXCEPT ![l] = vpc[l] - 1]
      /\ \/ /\ vpc[l] = PgsPerLine
            /\ full_line_list' = full_line_list \ {l}
            /\ victims' = victims \cup {l}
         \/ /\ vpc[l] # PgsPerLine
            /\ full_line_list' = full_line_list
            /\ victims' = victims
  BY <1>0, <1>1, <1>2 DEF MarkPageInvalid, Line, TypeOK
<1>5. /\ \A m \in Lines : /\ vpc'[m] = Cardinality(ValidIn(m)')
                          /\ ipc'[m] = Cardinality(InvalidIn(m)')
      /\ vpc[l] > 0 /\ vpc'[l] = vpc[l] - 1 /\ ipc'[l] = ipc[l] + 1
      /\ \A m \in Lines \ {l} : vpc'[m] = vpc[m] /\ ipc'[m] = ipc[m]
  <2>1. /\ Cardinality(ValidIn(l)) > 0
        /\ Cardinality(ValidIn(l)') = Cardinality(ValidIn(l)) - 1
        /\ Cardinality(InvalidIn(l)') = Cardinality(InvalidIn(l)) + 1
        /\ \A m \in Lines \ {l} : /\ ValidIn(m)' = ValidIn(m)
                                  /\ InvalidIn(m)' = InvalidIn(m)
    BY <1>1, <1>3, <1>4, CountInvalidate
  <2>2. \A m \in Lines : /\ vpc[m] = Cardinality(ValidIn(m))
                        /\ ipc[m] = Cardinality(InvalidIn(m))
    BY <1>1, <1>3, LinesAssumption DEF CountInv
  <2>3. /\ vpc'[l] = vpc[l] - 1 /\ ipc'[l] = ipc[l] + 1
        /\ \A m \in Lines \ {l} : vpc'[m] = vpc[m] /\ ipc'[m] = ipc[m]
    BY <1>1, <1>4 DEF TypeOK
  <2>4. QED BY <2>1, <2>2, <2>3
\* Where the line is: not free, and full exactly when all its pages are valid.
<1>6. /\ l \notin free_line_list
      /\ \A io \in IoTypes : wp[io].line = l => vpc[l] # PgsPerLine
      /\ l \in full_line_list <=> vpc[l] = PgsPerLine
      /\ l \in victims => vpc[l] # PgsPerLine
  <2>1. vpc[l] \in Nat /\ ipc[l] \in Nat /\ wp \in [IoTypes -> [line : Lines \cup {NoLine}, off : Offsets]]
    BY <1>1 DEF TypeOK
  <2>2. l \notin free_line_list
    BY <1>1, <1>3 DEF ShapeInv
  <2>3. \A io \in IoTypes : wp[io].line = l => vpc[l] # PgsPerLine
    <3>1. SUFFICES ASSUME NEW io \in IoTypes, wp[io].line = l PROVE vpc[l] # PgsPerLine
      OBVIOUS
    <3>2. vpc[l] + ipc[l] = wp[io].off
      BY <1>0, <1>1, <3>1 DEF CountInv, Alive
    <3>3. wp[io].off \in 0 .. PgsPerLine - 1
      BY <2>1 DEF Offsets
    <3>4. QED BY <2>1, <3>2, <3>3
  <2>4. l \in victims => vpc[l] # PgsPerLine
    BY <1>1, <2>1 DEF CountInv
  <2>5. l \in full_line_list => vpc[l] = PgsPerLine
    BY <1>1 DEF CountInv
  <2>6. l \in free_line_list \cup OpenLines \cup full_line_list \cup victims
    BY <1>1, <1>3 DEF OneHome, Collected
  <2>7. QED BY <2>2, <2>3, <2>4, <2>5, <2>6 DEF OpenLines
<1>7. TypeOK'
  <2>1. vpc[l] \in 0 .. PgsPerLine /\ ipc[l] \in 0 .. PgsPerLine
    BY <1>1 DEF TypeOK
  <2>2. vpc'[l] \in 0 .. PgsPerLine
    BY <2>1, <1>5
  <2>3. ipc'[l] \in 0 .. PgsPerLine
    <3>1. Cardinality(InvalidIn(l)') \in 0 .. PgsPerLine
      <4>1. InvalidIn(l)' \in SUBSET Offsets BY DEF InvalidIn
      <4>2. QED BY <4>1
    <3>2. QED BY <1>5, <3>1
  <2>4. full_line_list' \in SUBSET Lines /\ victims' \in SUBSET Lines
    BY <1>1, <1>4 DEF TypeOK
  <2>5. /\ status' \in [Pages -> {"free", "valid", "invalid"}]
        /\ rmap' \in [Pages -> LPNs \cup {InvalidLpn}]
        /\ vpc' \in [Lines -> 0 .. PgsPerLine]
        /\ ipc' \in [Lines -> 0 .. PgsPerLine]
    BY <1>1, <1>3, <1>4, <1>5, <2>2, <2>3 DEF TypeOK
  <2>6. QED BY <1>0, <1>1, <2>4, <2>5 DEF TypeOK
<1>8. ControlInv'
  BY <1>0, <1>1, LpnAssumption DEF ControlInv
<1>9. OneHome'
  <2>1. OpenLines' = OpenLines /\ Collected' = {} /\ Collected = {}
    BY <1>0, <1>3 DEF OpenLines, Collected
  <2>2. l \notin OpenLines \/ vpc[l] # PgsPerLine
    BY <1>6 DEF OpenLines
  <2>3. QED BY <1>0, <1>1, <1>4, <1>6, <2>1, <2>2 DEF OneHome
<1>10. ShapeInv'
  <2>1. \A m \in Lines, x \in Offsets :
          status'[<<m, x>>] = "free" <=> status[<<m, x>>] = "free"
    BY <1>1, <1>3, <1>4 DEF TypeOK, Pages
  <2>2. \A m \in full_line_list' \cup victims' : m \in full_line_list \cup victims
    BY <1>4, <1>6
  <2>3. QED BY <1>0, <1>1, <1>3, <2>1, <2>2 DEF ShapeInv, TypeOK
<1>11. CountInv'
  <2>1. vpc[l] \in Nat /\ ipc[l] \in Nat
    BY <1>1 DEF TypeOK
  <2>2. \A io \in IoTypes : wp'[io].line # NoLine =>
           vpc'[wp'[io].line] + ipc'[wp'[io].line] = wp'[io].off
    <3>1. SUFFICES ASSUME NEW io \in IoTypes
                   PROVE vpc'[wp[io].line] + ipc'[wp[io].line] = wp[io].off
      BY <1>0
    <3>2. wp[io].line \in Lines
      BY <1>0, <1>1 DEF TypeOK, Alive
    <3>3. vpc[wp[io].line] + ipc[wp[io].line] = wp[io].off
      BY <1>0, <1>1 DEF CountInv, Alive
    <3>4. QED BY <1>5, <2>1, <3>2, <3>3
  <2>3. \A m \in free_line_list' : vpc'[m] = 0 /\ ipc'[m] = 0
    BY <1>0, <1>1, <1>5, <1>6 DEF CountInv, TypeOK
  <2>4. \A m \in full_line_list' : vpc'[m] = PgsPerLine /\ ipc'[m] = 0
    BY <1>1, <1>4, <1>5, <1>6 DEF CountInv, TypeOK
  <2>5. \A m \in victims' : ipc'[m] > 0 /\ vpc'[m] + ipc'[m] = PgsPerLine
    <3>1. SUFFICES ASSUME NEW m \in victims'
                   PROVE ipc'[m] > 0 /\ vpc'[m] + ipc'[m] = PgsPerLine
      OBVIOUS
    <3>2. CASE m = l
      <4>1. vpc[l] + ipc[l] = PgsPerLine
        BY <1>1, <1>4, <1>6, <2>1, <3>1, <3>2 DEF CountInv
      <4>2. QED BY <1>5, <2>1, <3>2, <4>1
    <3>3. CASE m # l
      BY <1>1, <1>4, <1>5, <3>1, <3>3 DEF CountInv, TypeOK
    <3>4. QED BY <3>2, <3>3
  <2>6. Collected' = {} BY <1>3 DEF Collected
  <2>7. QED BY <1>5, <2>2, <2>3, <2>4, <2>5, <2>6 DEF CountInv
<1>12. OverwriteInv'
  BY <1>0, <1>1, <1>2, <1>3, <1>4 DEF OverwriteInv, TypeOK
<1>13. MappingSound'
  <2>1. SUFFICES ASSUME NEW m \in LPNs, maptbl[m] # Unmapped, m # lpn
                 PROVE status'[maptbl[m]] = "valid" /\ rmap'[maptbl[m]] = m
    BY <1>0, <1>3 DEF MappingSound, IsStale
  <2>2. status[maptbl[m]] = "valid" /\ rmap[maptbl[m]] = m
    BY <1>0, <1>1, <2>1 DEF MappingSound
  <2>3. QED BY <1>1, <1>3, <1>4, <2>1, <2>2 DEF TypeOK
<1>14. NoOrphanPage'
  BY <1>0, <1>1, <1>3, <1>4 DEF NoOrphanPage, IsStale, TypeOK
<1>15. QED
  BY <1>7, <1>8, <1>9, <1>10, <1>11, <1>12, <1>13, <1>14 DEF MappingInv

\* The offsets GC has visited, as VisitsDone advances by one or stays.
LEMMA VisitedStep ==
  ASSUME MappingInv, pc = "clean", cursor < PgsPerLine, VisitDone
  PROVE  /\ cursor \in Offsets /\ GcWalk[cursor] \in Offsets
         /\ GcWalk[cursor] \notin Visited
         /\ Visited' = Visited \cup {GcWalk[cursor]}
         /\ pc' \in {"clean", "erase"}
         /\ cursor' \in 0 .. PgsPerLine
         /\ pc' = "erase" => cursor' < PgsPerLine
         /\ \A x \in Offsets : EraseAt[x] < cursor' <=> EraseAt[x] < cursor
<1> USE OffsetsFinite
<1>1. cursor \in Offsets
  BY DEF MappingInv, TypeOK, Offsets
<1>2. GcWalk[cursor] \in Offsets
  BY <1>1, WalkAssumption
<1>3. Visited = {GcWalk[i] : i \in 0 .. cursor - 1}
  BY DEF Visited, VisitsDone
<1>4. GcWalk[cursor] \notin Visited
  <2>1. SUFFICES ASSUME NEW i \in 0 .. cursor - 1, GcWalk[i] = GcWalk[cursor]
                 PROVE FALSE
    BY <1>3
  <2>2. i \in Offsets /\ i # cursor
    BY <1>1 DEF Offsets
  <2>3. QED BY <1>1, <2>1, <2>2, WalkAssumption
<1>5. VisitsDone' = cursor + 1
  BY <1>1 DEF VisitDone, VisitsDone, Offsets
<1>6. Visited' = {GcWalk[i] : i \in 0 .. cursor}
  <2>1. VisitsDone' - 1 = cursor BY <1>1, <1>5 DEF Offsets
  <2>2. QED BY <2>1 DEF Visited
<1>7. Visited' = Visited \cup {GcWalk[cursor]}
  <2>1. 0 .. cursor = (0 .. cursor - 1) \cup {cursor}
    BY <1>1 DEF Offsets
  <2>2. QED BY <1>3, <1>6, <2>1
<1>8. \A x \in Offsets : EraseAt[x] < cursor' <=> EraseAt[x] < cursor
  <2>1. CASE ErasedNow = {} /\ cursor' = cursor + 1
    <3>1. \A x \in Offsets : EraseAt[x] # cursor /\ EraseAt[x] \in 0 .. PgsPerLine - 1
      BY <2>1, WalkAssumption DEF ErasedNow, Offsets
    <3>2. cursor \in Int BY <1>1 DEF Offsets
    <3>3. QED BY <2>1, <3>1, <3>2
  <2>2. CASE cursor' = cursor
    BY <2>2
  <2>3. QED BY <2>1, <2>2 DEF VisitDone
<1>9. pc' \in {"clean", "erase"} /\ cursor' \in 0 .. PgsPerLine
      /\ (pc' = "erase" => cursor' < PgsPerLine)
  BY <1>1 DEF VisitDone, Offsets
<1>10. QED BY <1>1, <1>2, <1>4, <1>7, <1>8, <1>9

\* The page GC looks at lies in the victim, has not been visited, and is not
\* free, since its block is erased only after its last page was visited.
LEMMA GcPageFacts ==
  ASSUME MappingInv, pc = "clean", cursor < PgsPerLine
  PROVE  /\ victim \in Lines /\ GcPage \in Pages /\ Line(GcPage) = victim
         /\ ~IsStale(GcPage) /\ status[GcPage] # "free"
         /\ status[GcPage] = "valid" =>
              rmap[GcPage] \in LPNs /\ maptbl[rmap[GcPage]] = GcPage
<1> USE OffsetsFinite
<1>0. /\ TypeOK /\ ControlInv /\ ShapeInv /\ NoOrphanPage
  BY DEF MappingInv
<1>1. victim \in Lines /\ victim # NoLine /\ cursor \in Offsets
  BY <1>0 DEF ControlInv, TypeOK, Offsets
<1>2. GcWalk[cursor] \in Offsets /\ EraseAt[GcWalk[cursor]] >= cursor
      /\ EraseAt[GcWalk[cursor]] \in Offsets
  BY <1>1, WalkAssumption
<1>3. GcPage \in Pages /\ Line(GcPage) = victim /\ GcPage[2] = GcWalk[cursor]
  BY <1>1, <1>2 DEF GcPage, Pages, Line
<1>4. status[GcPage] # "free"
  <2>1. status[<<victim, GcWalk[cursor]>>] = "free" <=> EraseAt[GcWalk[cursor]] < cursor
    BY <1>0, <1>1, <1>2 DEF ShapeInv
  <2>2. QED BY <1>1, <1>2, <2>1 DEF GcPage, Offsets
<1>5. GcWalk[cursor] \notin Visited
  <2>1. Visited = {GcWalk[i] : i \in 0 .. cursor - 1}
    BY DEF Visited, VisitsDone
  <2>2. SUFFICES ASSUME NEW i \in 0 .. cursor - 1, GcWalk[i] = GcWalk[cursor]
                 PROVE FALSE
    BY <2>1
  <2>3. i \in Offsets /\ i # cursor
    BY <1>1 DEF Offsets
  <2>4. QED BY <1>1, <2>2, <2>3, WalkAssumption
<1>6. ~IsStale(GcPage)
  BY <1>3, <1>5 DEF IsStale
<1>7. QED BY <1>0, <1>1, <1>3, <1>4, <1>6 DEF NoOrphanPage

\* The second half of a page write.
LEMMA HostProgramStep ==
  ASSUME MappingInv, HostProgram
  PROVE  MappingInv'
<1> USE OffsetsFinite
<1>0. /\ pc = "program" /\ Alive /\ Program("USER_IO", req)
      /\ write_credits' = write_credits - 1
      /\ pc' = IF write_credits' <= 0 THEN "refill" ELSE "ready"
      /\ req' = InvalidLpn /\ UNCHANGED <<credits_to_refill, victim, cursor>>
  BY DEF HostProgram, At, gcVars
<1>1. TypeOK /\ ControlInv /\ OverwriteInv /\ MappingSound
  BY DEF MappingInv
<1>2. req \in LPNs /\ victim = NoLine /\ write_credits \in Nat /\ write_credits > 0
      /\ "USER_IO" \in IoTypes
  BY <1>0, <1>1 DEF TypeOK, ControlInv, IoTypes
<1>3. write_credits' \in Nat /\ pc' \in {"refill", "ready"}
  BY <1>0, <1>2
<1>4. TypeOK' /\ OneHome' /\ CountInv'
  <2>1. /\ maptbl' \in [LPNs -> Pages \cup {Unmapped}]
        /\ rmap' \in [Pages -> LPNs \cup {InvalidLpn}]
        /\ status' \in [Pages -> {"free", "valid", "invalid"}]
        /\ vpc' \in [Lines -> 0 .. PgsPerLine]
        /\ ipc' \in [Lines -> 0 .. PgsPerLine]
        /\ free_line_list' \in SUBSET Lines
        /\ free_line_cnt' \in Nat
        /\ full_line_list' \in SUBSET Lines
        /\ victims' \in SUBSET Lines
        /\ wp' \in [IoTypes -> [line : Lines \cup {NoLine}, off : Offsets]]
        /\ OneHome'
        /\ CountInv'
    BY <1>0, <1>2, ProgramStep
  <2>2. QED BY <1>0, <1>1, <1>3, <2>1 DEF TypeOK
<1>5. ControlInv'
  BY <1>0, <1>1, <1>2, <1>3 DEF ControlInv
<1>6. ShapeInv'
  BY <1>0, <1>2, ProgramShape
<1>7. OverwriteInv'
  BY <1>3 DEF OverwriteInv
<1>8. MappingSound' /\ NoOrphanPage'
  <2>1. Visited \subseteq Visited'
    BY <1>0, <1>3 DEF Visited, VisitsDone
  <2>2. PICK old : old = maptbl[req]
    OBVIOUS
  <2>3. old # Unmapped => status[old] # "valid"
    BY <1>0, <1>1, <2>2 DEF OverwriteInv
  <2>4. QED BY <1>0, <1>2, <1>3, <2>1, <2>2, <2>3, ProgramMapping
<1>9. QED BY <1>4, <1>5, <1>6, <1>7, <1>8 DEF MappingInv

\* GC copies a valid page to the GC line.
LEMMA GcCopyStep ==
  ASSUME MappingInv, GcCopy
  PROVE  MappingInv'
<1> USE OffsetsFinite
<1>0. /\ pc = "clean" /\ Alive /\ cursor < PgsPerLine /\ status[GcPage] = "valid"
      /\ Program("GC_IO", rmap[GcPage]) /\ VisitDone
      /\ UNCHANGED <<write_credits, credits_to_refill, req, victim>>
  BY DEF GcCopy, At, creditVars
<1>1. TypeOK /\ ControlInv /\ OverwriteInv /\ MappingSound
  BY DEF MappingInv
<1>2. PICK lpn \in LPNs : lpn = rmap[GcPage] /\ maptbl[lpn] = GcPage
  BY <1>0, GcPageFacts
<1>3. /\ victim \in Lines /\ GcPage \in Pages /\ GcPage = <<victim, GcWalk[cursor]>>
      /\ "GC_IO" \in IoTypes /\ victim # NoLine
  BY <1>0, <1>1, GcPageFacts DEF GcPage, IoTypes, ControlInv
<1>4. /\ GcWalk[cursor] \in Offsets
      /\ Visited' = Visited \cup {GcWalk[cursor]}
      /\ pc' \in {"clean", "erase"}
      /\ cursor' \in 0 .. PgsPerLine
      /\ pc' = "erase" => cursor' < PgsPerLine
      /\ \A x \in Offsets : EraseAt[x] < cursor' <=> EraseAt[x] < cursor
  BY <1>0, VisitedStep
<1>5. TypeOK' /\ OneHome' /\ CountInv'
  <2>1. /\ maptbl' \in [LPNs -> Pages \cup {Unmapped}]
        /\ rmap' \in [Pages -> LPNs \cup {InvalidLpn}]
        /\ status' \in [Pages -> {"free", "valid", "invalid"}]
        /\ vpc' \in [Lines -> 0 .. PgsPerLine]
        /\ ipc' \in [Lines -> 0 .. PgsPerLine]
        /\ free_line_list' \in SUBSET Lines
        /\ free_line_cnt' \in Nat
        /\ full_line_list' \in SUBSET Lines
        /\ victims' \in SUBSET Lines
        /\ wp' \in [IoTypes -> [line : Lines \cup {NoLine}, off : Offsets]]
        /\ OneHome'
        /\ CountInv'
    BY <1>0, <1>2, <1>3, ProgramStep
  <2>2. QED BY <1>0, <1>1, <1>4, <2>1 DEF TypeOK
<1>6. ControlInv'
  BY <1>0, <1>1, <1>3, <1>4 DEF ControlInv
<1>7. ShapeInv'
  BY <1>0, <1>2, <1>3, <1>4, ProgramShape
<1>8. OverwriteInv'
  BY <1>4 DEF OverwriteInv
<1>9. MappingSound' /\ NoOrphanPage'
  <2>1. PICK old : old = GcPage
    OBVIOUS
  <2>2. \A q \in Pages : victim # NoLine /\ q[1] = victim /\ q[2] \in Visited'
          => q[2] \in Visited \/ q = old
    BY <1>3, <1>4, <2>1 DEF Pages
  <2>3. old[1] = victim /\ old[2] \in Visited'
    BY <1>3, <1>4, <2>1
  <2>4. /\ Program("GC_IO", lpn) /\ victim' = victim
        /\ (pc = "program" => req = lpn) /\ pc' # "program"
        /\ Visited \subseteq Visited' /\ old = maptbl[lpn]
    BY <1>0, <1>2, <1>4, <2>1
  <2>5. QED BY <1>0, <1>3, <2>2, <2>3, <2>4, ProgramMapping
<1>10. QED BY <1>5, <1>6, <1>7, <1>8, <1>9 DEF MappingInv

\* Granting the credits without a collection touches no page and no line.
LEMMA RefillStep ==
  ASSUME MappingInv, RefillWithoutGc \/ RefillNoVictim
  PROVE  MappingInv'
<1>0. /\ pc = "refill" /\ pc' = "ready"
      /\ write_credits' = write_credits + credits_to_refill
      /\ UNCHANGED <<mapVars, lineVars, freeVars, wp, credits_to_refill, req,
                     victim, cursor>>
  BY DEF RefillWithoutGc, RefillNoVictim, Refill, At, gcVars
<1>1. /\ TypeOK /\ ControlInv /\ OverwriteInv /\ MappingSound /\ NoOrphanPage
  BY DEF MappingInv
<1>2. credits_to_refill \in Nat /\ credits_to_refill > 0 /\ write_credits \in Nat
  BY <1>1, LinesAssumption DEF TypeOK
<1>3. TypeOK'
  BY <1>0, <1>1, <1>2 DEF TypeOK, mapVars, lineVars, freeVars
<1>4. ControlInv'
  BY <1>0, <1>1, <1>2 DEF ControlInv
<1>5. OneHome' /\ ShapeInv' /\ CountInv'
  BY <1>0, SameLines
<1>6. OverwriteInv' /\ MappingSound' /\ NoOrphanPage'
  <2>1. victim = NoLine /\ victim' = NoLine /\ pc # "program"
    BY <1>0, <1>1 DEF ControlInv
  <2>2. QED
    BY <1>0, <1>1, <2>1 DEF OverwriteInv, MappingSound, NoOrphanPage, IsStale, mapVars
<1>7. QED BY <1>3, <1>4, <1>5, <1>6 DEF MappingInv

\* GC takes a line off the victim queue; nothing of it is visited yet.
LEMMA GcSelectStep ==
  ASSUME MappingInv, NEW l \in Lines, GcSelect(l)
  PROVE  MappingInv'
<1> USE OffsetsFinite
<1>0. /\ pc = "refill" /\ pc' = "clean" /\ l \in victims /\ victims' = victims \ {l}
      /\ victim' = l /\ cursor' = 0 /\ credits_to_refill' = ipc[l]
      /\ UNCHANGED <<maptbl, rmap, status, vpc, ipc, full_line_list, free_line_list,
                     free_line_cnt, wp, write_credits, req>>
  BY DEF GcSelect, At, IsVictimChoice, mapVars, freeVars
<1>1. /\ TypeOK /\ ControlInv /\ OneHome /\ ShapeInv /\ CountInv /\ OverwriteInv
      /\ MappingSound /\ NoOrphanPage
  BY DEF MappingInv
<1>2. victim = NoLine /\ l # NoLine /\ Collected = {} /\ Collected' = {l}
  BY <1>0, <1>1, LinesAssumption DEF ControlInv, Collected
<1>3. ipc[l] > 0 /\ ipc[l] \in 0 .. PgsPerLine
  BY <1>0, <1>1 DEF CountInv, TypeOK
<1>4. TypeOK'
  BY <1>0, <1>1, <1>3 DEF TypeOK
<1>5. ControlInv'
  BY <1>0, <1>1, <1>2 DEF ControlInv
<1>6. OneHome'
  <2>1. OpenLines' = OpenLines BY <1>0 DEF OpenLines
  <2>2. QED BY <1>0, <1>1, <1>2, <2>1 DEF OneHome
<1>7. ShapeInv'
  <2>1. \A o \in Offsets : status[<<l, o>>] # "free" /\ ~(EraseAt[o] < 0)
    BY <1>0, <1>1, WalkAssumption DEF ShapeInv, Offsets
  <2>2. QED BY <1>0, <1>1, <2>1 DEF ShapeInv
<1>8. CountInv'
  <2>1. ValidIn(l)' = ValidIn(l) /\ \A m \in Lines : ValidIn(m)' = ValidIn(m)
    BY <1>0 DEF ValidIn
  <2>2. \A m \in Lines : InvalidIn(m)' = InvalidIn(m)
    BY <1>0 DEF InvalidIn
  <2>3. QED BY <1>0, <1>1, <1>2, <2>1, <2>2, LinesAssumption DEF CountInv
<1>9. OverwriteInv' /\ MappingSound' /\ NoOrphanPage'
  <2>1. Visited' = {}
    <3>1. VisitsDone' = 0 BY <1>0 DEF VisitsDone
    <3>2. QED BY <3>1 DEF Visited
  <2>2. QED
    BY <1>0, <1>1, <1>2, <2>1 DEF OverwriteInv, MappingSound, NoOrphanPage, IsStale
<1>10. QED BY <1>4, <1>5, <1>6, <1>7, <1>8, <1>9 DEF MappingInv

\* GC passes over a page that is not valid.
LEMMA GcSkipStep ==
  ASSUME MappingInv, GcSkip
  PROVE  MappingInv'
<1> USE OffsetsFinite
<1>0. /\ pc = "clean" /\ cursor < PgsPerLine /\ status[GcPage] # "valid" /\ VisitDone
      /\ UNCHANGED <<mapVars, lineVars, freeVars, wp, write_credits,
                     credits_to_refill, req, victim>>
  BY DEF GcSkip, At, creditVars
<1>1. /\ TypeOK /\ ControlInv /\ OverwriteInv /\ MappingSound /\ NoOrphanPage
  BY DEF MappingInv
<1>2. /\ Visited' = Visited \cup {GcWalk[cursor]}
      /\ pc' \in {"clean", "erase"}
      /\ cursor' \in 0 .. PgsPerLine
      /\ pc' = "erase" => cursor' < PgsPerLine
      /\ \A x \in Offsets : EraseAt[x] < cursor' <=> EraseAt[x] < cursor
  BY <1>0, VisitedStep
<1>3. GcPage = <<victim, GcWalk[cursor]>> /\ victim # NoLine
  BY <1>0, <1>1 DEF GcPage, ControlInv
<1>4. TypeOK'
  BY <1>0, <1>1, <1>2 DEF TypeOK, mapVars, lineVars, freeVars
<1>5. ControlInv'
  BY <1>0, <1>1, <1>2, <1>3 DEF ControlInv
<1>6. OneHome' /\ ShapeInv' /\ CountInv'
  BY <1>0, <1>2, SameLines
<1>7. OverwriteInv'
  BY <1>2 DEF OverwriteInv
<1>8. MappingSound'
  <2>1. SUFFICES ASSUME NEW m \in LPNs, maptbl[m] # Unmapped
                 PROVE  /\ status[maptbl[m]] = "valid" /\ rmap[maptbl[m]] = m
                        /\ ~(maptbl[m][1] = victim /\ maptbl[m][2] \in Visited')
    BY <1>0 DEF MappingSound, IsStale, Line, mapVars
  <2>2. PICK q \in Pages : q = maptbl[m]
    BY <1>1, <2>1 DEF TypeOK
  <2>3. /\ status[q] = "valid" /\ rmap[q] = m
        /\ ~(q[1] = victim /\ q[2] \in Visited)
    BY <1>0, <1>1, <1>3, <2>1, <2>2 DEF MappingSound, IsStale, Line
  <2>4. q # GcPage
    BY <1>0, <2>3
  <2>5. ~(q[1] = victim /\ q[2] = GcWalk[cursor])
    BY <1>3, <2>4 DEF Pages
  <2>6. QED BY <1>2, <2>2, <2>3, <2>5
<1>9. NoOrphanPage'
  BY <1>0, <1>1, <1>2 DEF NoOrphanPage, IsStale, Line, mapVars
<1>10. QED BY <1>4, <1>5, <1>6, <1>7, <1>8, <1>9 DEF MappingInv

\* An erase does not move the walk, and what it erases was visited before.
LEMMA ErasedVisited ==
  ASSUME MappingInv, pc = "erase", pc' = "clean", cursor' = cursor + 1
  PROVE  Visited' = Visited /\ ErasedNow \subseteq Visited
<1>1. cursor \in 0 .. PgsPerLine - 1
  BY LinesAssumption DEF MappingInv, TypeOK, ControlInv
<1>2. VisitsDone - 1 = cursor /\ VisitsDone' - 1 = cursor
  BY <1>1 DEF VisitsDone
<1>3. Visited' = Visited /\ Visited = {GcWalk[i] : i \in 0 .. cursor}
  BY <1>2 DEF Visited
<1>4. SUFFICES ASSUME NEW o \in Offsets, EraseAt[o] = cursor PROVE o \in Visited
  BY <1>3 DEF ErasedNow
<1>5. PICK i \in Offsets : GcWalk[i] = o
  BY WalkAssumption
<1>6. i <= cursor
  BY <1>4, <1>5, WalkAssumption
<1>7. i \in 0 .. cursor
  BY <1>1, <1>6 DEF Offsets
<1>8. QED BY <1>3, <1>5, <1>7

\* GC erases the blocks whose pages have all been visited.
LEMMA GcEraseStep ==
  ASSUME MappingInv, GcErase
  PROVE  MappingInv'
<1> USE OffsetsFinite
<1>0. /\ pc = "erase" /\ pc' = "clean" /\ cursor' = cursor + 1
      /\ status' = [p \in Pages |->
                      IF p[1] = victim /\ p[2] \in ErasedNow THEN "free" ELSE status[p]]
      /\ UNCHANGED <<maptbl, rmap, vpc, ipc, full_line_list, victims, free_line_list,
                     free_line_cnt, wp, write_credits, credits_to_refill, req, victim>>
  BY DEF GcErase, At, lineVars, freeVars, creditVars
<1>1. /\ TypeOK /\ ControlInv /\ OneHome /\ ShapeInv /\ CountInv /\ OverwriteInv
      /\ MappingSound /\ NoOrphanPage
  BY DEF MappingInv
<1>2. victim \in Lines /\ victim # NoLine /\ cursor \in Offsets /\ cursor < PgsPerLine
  BY <1>0, <1>1 DEF ControlInv, TypeOK, Offsets
<1>3. Visited' = Visited /\ ErasedNow \subseteq Visited
  BY <1>0, ErasedVisited
<1>5. TypeOK'
  <2>1. status' \in [Pages -> {"free", "valid", "invalid"}]
    BY <1>0, <1>1 DEF TypeOK
  <2>2. cursor' \in 0 .. PgsPerLine
    BY <1>0, <1>2 DEF Offsets
  <2>3. QED BY <1>0, <1>1, <2>1, <2>2 DEF TypeOK
<1>6. ControlInv'
  BY <1>0, <1>1, <1>2 DEF ControlInv
<1>7. OneHome'
  BY <1>0, <1>1 DEF OneHome, OpenLines, Collected
<1>8. /\ \A m \in Lines \ {victim}, x \in Offsets : status'[<<m, x>>] = status[<<m, x>>]
      /\ \A x \in Offsets : status'[<<victim, x>>] =
                              IF EraseAt[x] = cursor THEN "free" ELSE status[<<victim, x>>]
  BY <1>0, <1>2 DEF Pages, ErasedNow
<1>9. \A m \in OpenLines \cup free_line_list \cup full_line_list \cup victims :
        m \in Lines \ {victim}
  BY <1>1, <1>2 DEF OneHome, Collected
<1>10. ShapeInv'
  <2>1. \A x \in Offsets : status'[<<victim, x>>] = "free" <=> EraseAt[x] < cursor + 1
    <3>1. \A x \in Offsets : status[<<victim, x>>] = "free" <=> EraseAt[x] < cursor
      BY <1>1, <1>2 DEF ShapeInv
    <3>2. \A x \in Offsets : EraseAt[x] \in Int
      BY WalkAssumption DEF Offsets
    <3>3. QED BY <1>2, <1>8, <3>1, <3>2 DEF Offsets
  <2>2. \A io \in IoTypes : wp[io].line # NoLine => wp[io].line \in Lines \ {victim}
    BY <1>9 DEF OpenLines
  <2>3. QED BY <1>0, <1>1, <1>8, <1>9, <2>1, <2>2 DEF ShapeInv
<1>11. CountInv'
  <2>1. \A m \in Lines \ {victim} : ValidIn(m)' = ValidIn(m) /\ InvalidIn(m)' = InvalidIn(m)
    BY <1>8 DEF ValidIn, InvalidIn
  <2>2. Collected' = Collected
    BY <1>0 DEF Collected
  <2>3. QED BY <1>0, <1>1, <2>1, <2>2 DEF CountInv
<1>12. OverwriteInv'
  BY <1>0 DEF OverwriteInv
<1>13. MappingSound'
  <2>1. SUFFICES ASSUME NEW m \in LPNs, maptbl[m] # Unmapped
                 PROVE  /\ status'[maptbl[m]] = "valid" /\ rmap[maptbl[m]] = m
                        /\ ~(maptbl[m][1] = victim /\ maptbl[m][2] \in Visited)
    BY <1>0, <1>3 DEF MappingSound, IsStale, Line
  <2>2. PICK q \in Pages : q = maptbl[m]
    BY <1>1, <2>1 DEF TypeOK
  <2>3. /\ status[q] = "valid" /\ rmap[q] = m
        /\ ~(q[1] = victim /\ q[2] \in Visited)
    BY <1>0, <1>1, <1>2, <2>1, <2>2 DEF MappingSound, IsStale, Line
  <2>4. status'[q] = status[q]
    BY <1>0, <1>3, <2>3
  <2>5. QED BY <2>2, <2>3, <2>4
<1>14. NoOrphanPage'
  BY <1>0, <1>1, <1>3 DEF NoOrphanPage, IsStale, Line
<1>15. QED
  BY <1>5, <1>6, <1>7, <1>10, <1>11, <1>12, <1>13, <1>14 DEF MappingInv

\* The victim, all of whose pages are erased by now, is a free line again.
LEMMA GcFinishStep ==
  ASSUME MappingInv, GcFinish
  PROVE  MappingInv'
<1> USE OffsetsFinite
<1>0. /\ pc = "clean" /\ pc' = "ready" /\ cursor = PgsPerLine
      /\ vpc' = [vpc EXCEPT ![victim] = 0] /\ ipc' = [ipc EXCEPT ![victim] = 0]
      /\ free_line_list' = free_line_list \cup {victim}
      /\ free_line_cnt' = free_line_cnt + 1
      /\ write_credits' = write_credits + credits_to_refill
      /\ victim' = NoLine /\ cursor' = 0
      /\ UNCHANGED <<maptbl, rmap, status, full_line_list, victims, wp,
                     credits_to_refill, req>>
  BY DEF GcFinish, Refill, At, mapVars
<1>1. /\ TypeOK /\ ControlInv /\ OneHome /\ ShapeInv /\ CountInv /\ OverwriteInv
      /\ MappingSound /\ NoOrphanPage
  BY DEF MappingInv
<1>2. victim \in Lines /\ victim # NoLine /\ Collected = {victim} /\ Collected' = {}
  BY <1>0, <1>1 DEF ControlInv, TypeOK, Collected
<1>3. \A x \in Offsets : status[<<victim, x>>] = "free"
  BY <1>0, <1>1, <1>2, WalkAssumption DEF ShapeInv, Offsets
<1>4. /\ vpc'[victim] = 0 /\ ipc'[victim] = 0
      /\ \A m \in Lines \ {victim} : vpc'[m] = vpc[m] /\ ipc'[m] = ipc[m]
  BY <1>0, <1>1, <1>2 DEF TypeOK
<1>5. /\ victim \notin OpenLines \cup full_line_list \cup victims \cup free_line_list
      /\ OpenLines' = OpenLines
  BY <1>0, <1>1, <1>2 DEF OneHome, OpenLines
<1>6. TypeOK'
  <2>1. write_credits' \in Nat /\ free_line_cnt' \in Nat
    BY <1>0, <1>1 DEF TypeOK
  <2>2. vpc' \in [Lines -> 0 .. PgsPerLine] /\ ipc' \in [Lines -> 0 .. PgsPerLine]
    <3>1. 0 \in 0 .. PgsPerLine OBVIOUS
    <3>2. QED BY <1>0, <1>1, <3>1 DEF TypeOK
  <2>3. QED BY <1>0, <1>1, <1>2, <2>1, <2>2 DEF TypeOK
<1>7. ControlInv'
  <2>1. write_credits' > 0
    BY <1>0, <1>1 DEF TypeOK
  <2>2. QED BY <1>0, <1>1, <2>1 DEF ControlInv
<1>8. OneHome'
  <2>1. Cardinality(free_line_list \cup {victim}) = Cardinality(free_line_list) + 1
    BY <1>1, <1>2, <1>5, LinesFinite DEF TypeOK
  <2>2. QED BY <1>0, <1>1, <1>2, <1>5, <2>1 DEF OneHome
<1>9. ShapeInv'
  BY <1>0, <1>1, <1>3 DEF ShapeInv
<1>10. CountInv'
  <2>1. \A m \in Lines : ValidIn(m)' = ValidIn(m) /\ InvalidIn(m)' = InvalidIn(m)
    BY <1>0 DEF ValidIn, InvalidIn
  <2>2. ValidIn(victim) = {} /\ InvalidIn(victim) = {}
    BY <1>3 DEF ValidIn, InvalidIn
  <2>3. \A m \in Lines : /\ vpc'[m] = Cardinality(ValidIn(m)')
                        /\ ipc'[m] = Cardinality(InvalidIn(m)')
    BY <1>1, <1>2, <1>4, <2>1, <2>2, FS_EmptySet DEF CountInv
  <2>4. \A io \in IoTypes : wp[io].line # NoLine => wp[io].line \in Lines \ {victim}
    BY <1>1, <1>5 DEF OpenLines, OneHome
  <2>5. \A m \in free_line_list \cup full_line_list \cup victims : m \in Lines \ {victim}
    BY <1>1, <1>5 DEF TypeOK
  <2>6. QED BY <1>0, <1>1, <1>2, <1>4, <2>3, <2>4, <2>5 DEF CountInv
<1>11. OverwriteInv'
  BY <1>0 DEF OverwriteInv
<1>12. MappingSound'
  BY <1>0, <1>1 DEF MappingSound, IsStale
<1>13. NoOrphanPage'
  <2>1. SUFFICES ASSUME NEW q \in Pages, status[q] = "valid"
                 PROVE rmap[q] \in LPNs /\ maptbl[rmap[q]] = q
    BY <1>0 DEF NoOrphanPage
  <2>2. q[1] # victim
    BY <1>3, <2>1 DEF Pages
  <2>3. QED BY <1>1, <2>1, <2>2 DEF NoOrphanPage, IsStale, Line
<1>14. QED
  BY <1>6, <1>7, <1>8, <1>9, <1>10, <1>11, <1>12, <1>13 DEF MappingInv

------------------------------------------------------------------------------
(* The theorems *)

\* A step that changes nothing keeps the invariant.
LEMMA StutterStep == ASSUME MappingInv, UNCHANGED vars PROVE MappingInv'
<1> USE DEF vars, MappingInv
<1>1. TypeOK' BY DEF TypeOK
<1>2. ControlInv' /\ OverwriteInv' BY DEF ControlInv, OverwriteInv
<1>3. OneHome' /\ ShapeInv' /\ CountInv'
  BY SameLines DEF mapVars, lineVars, freeVars
<1>4. Visited' = Visited BY DEF Visited, VisitsDone
<1>5. MappingSound' /\ NoOrphanPage'
  BY <1>4 DEF MappingSound, NoOrphanPage, IsStale, Line
<1>6. QED BY <1>1, <1>2, <1>3, <1>5

\* MappingInv is an inductive invariant of the FTL, whatever the geometry, the
\* policy and the number of logical pages.
THEOREM MappingInvariant == Spec => []MappingInv
<1>1. ASSUME MappingInv, [Next]_vars PROVE MappingInv'
  <2>1. ASSUME NEW lpn \in LPNs, HostWriteFresh(lpn) \/ HostOverwrite(lpn)
        PROVE  MappingInv'
    BY <1>1, <2>1, HostWriteFreshStep, HostOverwriteStep
  <2>2. CASE HostProgram
    BY <1>1, <2>2, HostProgramStep
  <2>3. CASE RefillWithoutGc \/ RefillNoVictim
    BY <1>1, <2>3, RefillStep
  <2>4. ASSUME NEW l \in Lines, GcSelect(l) PROVE MappingInv'
    BY <1>1, <2>4, GcSelectStep
  <2>5. CASE GcSkip
    BY <1>1, <2>5, GcSkipStep
  <2>6. CASE GcCopy
    BY <1>1, <2>6, GcCopyStep
  <2>7. CASE GcErase
    BY <1>1, <2>7, GcEraseStep
  <2>8. CASE GcFinish
    BY <1>1, <2>8, GcFinishStep
  <2>9. CASE UNCHANGED vars
    BY <1>1, <2>9, StutterStep
  <2>10. QED
    BY <1>1, <2>1, <2>2, <2>3, <2>4, <2>5, <2>6, <2>7, <2>8, <2>9 DEF Next, Dispatcher
<1>2. QED
  BY <1>1, InitMapping, PTL DEF Spec

\* Type correctness of the FTL.
THEOREM TypeCorrect == Spec => []TypeOK
<1>1. MappingInv => TypeOK BY DEF MappingInv
<1>2. QED BY <1>1, MappingInvariant, PTL

\* No logical page loses its data: it is mapped to a valid page that maps
\* back to it in every state, those in the middle of a collection included.
THEOREM MappingAlwaysSound == Spec => []MappingSound
<1>1. MappingInv => MappingSound BY DEF MappingInv
<1>2. QED BY <1>1, MappingInvariant, PTL

\* GC never copies a page that is not the current one of its logical page.
THEOREM NoOrphanPages == Spec => []NoOrphanPage
<1>1. MappingInv => NoOrphanPage BY DEF MappingInv
<1>2. QED BY <1>1, MappingInvariant, PTL

\* A line is on one list, or one write pointer, or being collected.
THEOREM EveryLineHasOneHome == Spec => []OneHome
<1>1. MappingInv => OneHome BY DEF MappingInv
<1>2. QED BY <1>1, MappingInvariant, PTL

\* The page counts that decide about victims and credits are true.
THEOREM CountsAreTrue == Spec => []CountsTrue
<1>1. MappingInv => CountsTrue
  <2>1. SUFFICES ASSUME MappingInv PROVE CountsTrue
    OBVIOUS
  <2>2. \A l \in Lines \ Collected : l \in Lines \ {victim}
    BY LinesAssumption DEF Collected
  <2>3. QED BY <2>1, <2>2 DEF MappingInv, CountInv, CountsTrue
<1>2. QED BY <1>1, MappingInvariant, PTL

\* The assertions on the write path and in GC never fire.
THEOREM AssertionsNeverFire == Spec => []AssertionsHold
<1>1. MappingInv => AssertionsHold
  <2>1. SUFFICES ASSUME MappingInv PROVE AssertionsHold
    OBVIOUS
  <2>2. ASSUME Alive, NEW io \in IoTypes
        PROVE  status[NewPage(io)] = "free" /\ vpc[wp[io].line] < PgsPerLine
    <3>1. /\ status[NewPage(io)] = "free" /\ wp[io].line \in Lines /\ wp[io].off \in Offsets
          /\ vpc[wp[io].line] + ipc[wp[io].line] = wp[io].off
      BY <2>1, <2>2, WritePointer
    <3>2. vpc[wp[io].line] \in Nat /\ ipc[wp[io].line] \in Nat
      BY <2>1, <3>1 DEF MappingInv, TypeOK
    <3>3. QED BY <3>1, <3>2, OffsetsFinite DEF Offsets
  <2>3. QED
    BY <2>1, <2>2, GcPageFacts DEF AssertionsHold, IoTypes
<1>2. QED BY <1>1, MappingInvariant, PTL

(***************************************************************************)
(* The conventional FTL implements the abstract page store: each of its    *)
(* steps programs one erased page for one logical page, erases pages no    *)
(* logical page refers to, or changes nothing the store can see.           *)
(***************************************************************************)
FreeSet == {p \in Pages : status[p] = "free"}

\* A page write of the host, or a copy by GC, programs an erased page.
LEMMA ProgramImplements ==
  ASSUME MappingInv, Alive, NEW io \in IoTypes, NEW lpn \in LPNs, Program(io, lpn)
  PROVE  \E p \in Pages : /\ p \in FreeSet
                          /\ FreeSet' = FreeSet \ {p}
                          /\ maptbl' = [maptbl EXCEPT ![lpn] = p]
<1>1. NewPage(io) \in Pages /\ status[NewPage(io)] = "free"
  BY WritePointer DEF NewPage, Pages
<1>2. status \in [Pages -> {"free", "valid", "invalid"}]
  BY DEF MappingInv, TypeOK
<1>3. /\ maptbl' = [maptbl EXCEPT ![lpn] = NewPage(io)]
      /\ status' = [status EXCEPT ![NewPage(io)] = "valid"]
  BY DEF Program, MarkPageValid
<1>4. FreeSet' = FreeSet \ {NewPage(io)}
  BY <1>1, <1>2, <1>3 DEF FreeSet
<1>5. QED BY <1>1, <1>3, <1>4 DEF FreeSet

\* An overwrite of the host takes back a page that was programmed.
LEMMA InvalidateImplements ==
  ASSUME MappingInv, NEW lpn \in LPNs, HostOverwrite(lpn)
  PROVE  UNCHANGED Store!vars
<1>1. /\ maptbl' = maptbl
      /\ status' = [status EXCEPT ![maptbl[lpn]] = "invalid"]
      /\ pc = "ready" /\ maptbl[lpn] # Unmapped
  BY DEF HostOverwrite, MarkPageInvalid, At
<1>2. status[maptbl[lpn]] = "valid"
  BY <1>1 DEF MappingInv, MappingSound
<1>3. status \in [Pages -> {"free", "valid", "invalid"}]
  BY DEF MappingInv, TypeOK
<1>4. FreeSet' = FreeSet
  BY <1>1, <1>2, <1>3 DEF FreeSet
<1>5. QED BY <1>1, <1>4 DEF Store!vars, FreeSet

\* The pages of the blocks that GC erases hold no current data.
LEMMA EraseImplements ==
  ASSUME MappingInv, GcErase
  PROVE  \E S \in SUBSET (Pages \ FreeSet) :
           /\ \A lpn \in LPNs : maptbl[lpn] \notin S
           /\ FreeSet' = FreeSet \cup S
           /\ UNCHANGED maptbl
<1> DEFINE S == {p \in Pages : p[1] = victim /\ p[2] \in ErasedNow}
<1>1. /\ pc = "erase" /\ maptbl' = maptbl
      /\ status' = [p \in Pages |-> IF p \in S THEN "free" ELSE status[p]]
  BY DEF GcErase, At
<1>2. TypeOK /\ ControlInv /\ ShapeInv /\ MappingSound
  BY DEF MappingInv
<1>3. victim \in Lines /\ victim # NoLine
  BY <1>1, <1>2 DEF ControlInv, TypeOK
<1>4. ErasedNow \subseteq Visited
  BY <1>1, ErasedVisited DEF GcErase, At
<1>5. ASSUME NEW p \in S
      PROVE  status[p] # "free" /\ IsStale(p)
  <2>1. p = <<victim, p[2]>> /\ p[2] \in Offsets /\ p[2] \in ErasedNow
    BY DEF Pages
  <2>2. cursor \in Int /\ EraseAt[p[2]] = cursor
    BY <1>2, <2>1 DEF ErasedNow, TypeOK
  <2>3. status[<<victim, p[2]>>] # "free"
    BY <1>2, <1>3, <2>1, <2>2 DEF ShapeInv
  <2>4. QED BY <1>3, <1>4, <2>1, <2>3 DEF IsStale, Line
<1>6. S \in SUBSET (Pages \ FreeSet)
  BY <1>5 DEF FreeSet
<1>7. \A lpn \in LPNs : maptbl[lpn] \notin S
  BY <1>1, <1>2, <1>5, LpnAssumption DEF MappingSound
<1>8. FreeSet' = FreeSet \cup S
  BY <1>1 DEF FreeSet
<1>9. QED BY <1>1, <1>6, <1>7, <1>8

\* Every step of the FTL is a step of the page store, or none.
LEMMA StepImplements ==
  ASSUME MappingInv, [Next]_vars
  PROVE  [Store!Next]_(Store!vars)
<1>1. CASE UNCHANGED vars
  BY <1>1 DEF vars, Store!vars
<1>2. ASSUME NEW lpn \in LPNs, HostWriteFresh(lpn)
      PROVE  UNCHANGED Store!vars
  BY <1>2 DEF HostWriteFresh, mapVars, Store!vars
<1>3. ASSUME NEW lpn \in LPNs, HostOverwrite(lpn)
      PROVE  UNCHANGED Store!vars
  BY <1>3, InvalidateImplements
<1>4. CASE HostProgram
  <2>1. Alive /\ req \in LPNs /\ Program("USER_IO", req)
    BY <1>4 DEF HostProgram, At, MappingInv, TypeOK, ControlInv
  <2>2. "USER_IO" \in IoTypes
    BY DEF IoTypes
  <2>3. PICK p \in Pages : /\ p \in FreeSet
                           /\ FreeSet' = FreeSet \ {p}
                           /\ maptbl' = [maptbl EXCEPT ![req] = p]
    BY <2>1, <2>2, ProgramImplements
  <2>4. QED BY <2>1, <2>3 DEF Store!Next, Store!Program, FreeSet
<1>5. CASE RefillWithoutGc \/ RefillNoVictim \/ (\E l \in Lines : GcSelect(l))
             \/ GcSkip \/ GcFinish
  BY <1>5 DEF RefillWithoutGc, RefillNoVictim, GcSelect, GcSkip, GcFinish, mapVars,
              Store!vars
<1>6. CASE GcCopy
  <2>1. Alive /\ Program("GC_IO", rmap[GcPage]) /\ rmap[GcPage] \in LPNs
    BY <1>6, GcPageFacts DEF GcCopy, At
  <2>2. "GC_IO" \in IoTypes
    BY DEF IoTypes
  <2>3. PICK p \in Pages : /\ p \in FreeSet
                           /\ FreeSet' = FreeSet \ {p}
                           /\ maptbl' = [maptbl EXCEPT ![rmap[GcPage]] = p]
    BY <2>1, <2>2, ProgramImplements
  <2>4. QED BY <2>1, <2>3 DEF Store!Next, Store!Program, FreeSet
<1>7. CASE GcErase
  BY <1>7, EraseImplements DEF Store!Next, Store!Erase, FreeSet
<1>8. QED BY <1>1, <1>2, <1>3, <1>4, <1>5, <1>6, <1>7 DEF Next, Dispatcher

\* The FTL implements the page store: a page is programmed only after it was
\* erased, and no page that a logical page refers to is ever erased, in the
\* middle of a collection too, whatever the geometry and the victim policy.
THEOREM FtlImplementsPageStore == Spec => ImplementsPageStore
<1>1. Init => Store!Init
  <2>1. SUFFICES ASSUME Init PROVE Store!Init
    OBVIOUS
  <2>2. /\ maptbl = [lpn \in LPNs |-> Unmapped]
        /\ \A p \in Pages : status[p] = "free"
    BY <2>1 DEF Init, MapInit
  <2>3. FreeSet = Pages
    BY <2>2 DEF FreeSet
  <2>4. QED BY <2>2, <2>3 DEF Store!Init, FreeSet
<1>2. MappingInv /\ [Next]_vars => [Store!Next]_(Store!vars)
  BY StepImplements
<1>3. Spec => []MappingInv
  BY MappingInvariant
<1>4. QED BY <1>1, <1>2, <1>3, PTL DEF Spec, ImplementsPageStore, Store!Spec

------------------------------------------------------------------------------
(* What over-provisioning buys: with enough spare lines the write credits  *)
(* are always backed by pages, GC always finds a victim, and neither write *)
(* pointer is ever handed a NULL line.                                     *)

\* The reserve of GcThresLines lines, in pages, and how a count of lines
\* becomes a count of pages.
LEMMA ReserveFacts ==
  /\ GcThresLines * PgsPerLine \in Nat
  /\ GcThresLines * PgsPerLine >= 2 * PgsPerLine
  /\ \A n \in Int : /\ PgsPerLine * n \in Int
                    /\ PgsPerLine * (n + 1) = PgsPerLine * n + PgsPerLine
                    /\ PgsPerLine * (n - 1) = PgsPerLine * n - PgsPerLine
                    /\ n >= GcThresLines + 1 =>
                         PgsPerLine * n >= GcThresLines * PgsPerLine + PgsPerLine
                    /\ n >= 0 => PgsPerLine * n >= 0
<1>1. PgsPerLine \in Nat /\ PgsPerLine > 0 /\ GcThresLines \in Nat /\ GcThresLines >= 2
  BY LinesAssumption, PolicyAssumption
<1>2. \A t, p \in Nat : t * p \in Nat /\ (t >= 2 => t * p >= 2 * p)
  OBVIOUS
<1>3. \A n \in Int, p, t \in Nat :
        /\ p * n \in Int
        /\ p * (n + 1) = p * n + p
        /\ p * (n - 1) = p * n - p
        /\ n >= t + 1 => p * n >= t * p + p
        /\ n >= 0 => p * n >= 0
  OBVIOUS
<1>4. QED BY <1>1, <1>2, <1>3

\* The page counts are integers, and at most a line is gone from each of the
\* two write pointers' lines.
LEMMA FreePagesFacts ==
  ASSUME TypeOK
  PROVE  /\ FreePages \in Int
         /\ \A io \in IoTypes : wp[io].off \in 0 .. PgsPerLine - 1
         /\ FreePages >= 2 + PgsPerLine * free_line_cnt
<1>1. \A io \in IoTypes : wp[io].off \in 0 .. PgsPerLine - 1
  BY DEF TypeOK, Offsets
<1>2. free_line_cnt \in Int /\ PgsPerLine \in Int /\ PgsPerLine * free_line_cnt \in Int
  BY LinesAssumption, ReserveFacts DEF TypeOK
<1>3. wp["USER_IO"].off \in 0 .. PgsPerLine - 1 /\ wp["GC_IO"].off \in 0 .. PgsPerLine - 1
  BY <1>1 DEF IoTypes
<1>4. QED BY <1>1, <1>2, <1>3 DEF FreePages

\* A program takes one page, and when more than a line's pages are left the
\* write pointer that has used its line up finds a free one.
LEMMA ProgramSpace ==
  ASSUME MappingInv, Alive, NEW io \in IoTypes, NEW lpn \in LPNs, Program(io, lpn),
         FreePages >= PgsPerLine + 2
  PROVE  Alive' /\ FreePages' = FreePages - 1
<1>1. TypeOK /\ OneHome
  BY DEF MappingInv
<1>2. PICK x \in IoTypes : x # io /\ IoTypes = {io, x}
  BY DEF IoTypes
<1>3. /\ free_line_cnt \in Nat /\ PgsPerLine \in Nat
      /\ PgsPerLine * free_line_cnt \in Int
      /\ PgsPerLine * (free_line_cnt - 1) = PgsPerLine * free_line_cnt - PgsPerLine
      /\ wp[io].off \in 0 .. PgsPerLine - 1 /\ wp[x].off \in 0 .. PgsPerLine - 1
  BY <1>1, FreePagesFacts, ReserveFacts, LinesAssumption DEF TypeOK
<1>4. /\ FreePages = (PgsPerLine - wp[io].off) + (PgsPerLine - wp[x].off)
                       + PgsPerLine * free_line_cnt
      /\ FreePages' = (PgsPerLine - wp'[io].off) + (PgsPerLine - wp'[x].off)
                       + PgsPerLine * free_line_cnt'
  <2>1. CASE io = "USER_IO" /\ x = "GC_IO"
    <3>1. /\ wp'[io] \in [line : Lines \cup {NoLine}, off : Int]
          /\ wp'[x] \in [line : Lines \cup {NoLine}, off : Int]
      BY <1>1, <1>2, <1>3 DEF Program, StayInLine, CloseLine, TypeOK, Offsets
    <3>2. wp'[io].off \in Int /\ wp'[x].off \in Int
      BY <3>1
    <3>3. QED BY <1>3, <2>1, <3>2 DEF FreePages
  <2>2. CASE io = "GC_IO" /\ x = "USER_IO"
    <3>1. /\ wp'[io] \in [line : Lines \cup {NoLine}, off : Int]
          /\ wp'[x] \in [line : Lines \cup {NoLine}, off : Int]
      BY <1>1, <1>2, <1>3 DEF Program, StayInLine, CloseLine, TypeOK, Offsets
    <3>2. wp'[io].off \in Int /\ wp'[x].off \in Int
      BY <3>1
    <3>3. QED BY <1>3, <2>2, <3>2 DEF FreePages
  <2>3. QED BY <1>2, <2>1, <2>2 DEF IoTypes
<1>5. CASE StayInLine(io)
  <2>1. /\ wp'[io].off = wp[io].off + 1 /\ wp'[io].line = wp[io].line
        /\ wp'[x] = wp[x] /\ free_line_cnt' = free_line_cnt
    BY <1>1, <1>2, <1>5 DEF StayInLine, TypeOK
  <2>2. Alive'
    BY <1>2, <2>1 DEF Alive
  <2>3. FreePages' = FreePages - 1
    <3>1. PICK a \in Int : a = PgsPerLine * free_line_cnt
      BY <1>3
    <3>2. PgsPerLine * free_line_cnt' = a
      BY <2>1, <3>1
    <3>3. /\ FreePages = (PgsPerLine - wp[io].off) + (PgsPerLine - wp[x].off) + a
          /\ FreePages' = (PgsPerLine - (wp[io].off + 1)) + (PgsPerLine - wp[x].off) + a
      BY <1>4, <2>1, <3>1, <3>2
    <3>4. PgsPerLine \in Int /\ wp[io].off \in Int /\ wp[x].off \in Int /\ a \in Int
      BY <1>3
    <3>5. \A p, o, y \in Int :
            (p - (o + 1)) + (p - y) + a = ((p - o) + (p - y) + a) - 1
      OBVIOUS
    <3>6. QED BY <3>3, <3>4, <3>5
  <2>4. QED BY <2>2, <2>3
<1>6. CASE CloseLine(io)
  <2>1. wp[io].off + 1 = PgsPerLine
    BY <1>6 DEF CloseLine
  <2>2. PICK n \in Lines \cup {NoLine} :
          TakeFreeLine(n) /\ wp' = [wp EXCEPT ![io] = [line |-> n, off |-> 0]]
    BY <1>6 DEF CloseLine
  <2>3. free_line_cnt > 0
    <3>1. SUFFICES ASSUME free_line_cnt = 0 PROVE FALSE
      BY <1>3
    <3>2. PgsPerLine * free_line_cnt = 0
      BY <1>3, <3>1
    <3>3. QED BY <1>3, <1>4, <2>1, <3>2
  <2>4. free_line_list # {}
    <3>1. SUFFICES ASSUME free_line_list = {} PROVE FALSE
      OBVIOUS
    <3>2. Cardinality(free_line_list) = 0
      BY <3>1, FS_EmptySet
    <3>3. QED BY <1>1, <2>3, <3>2 DEF OneHome
  <2>5. n \in Lines /\ free_line_cnt' = free_line_cnt - 1
    BY <1>1, <2>2, <2>4 DEF TakeFreeLine, TypeOK
  <2>6. wp'[io].off = 0 /\ wp'[io].line = n /\ wp'[x] = wp[x]
    BY <1>1, <1>2, <2>2 DEF TypeOK
  <2>7. Alive'
    <3>1. n # NoLine /\ wp[x].line # NoLine
      BY <2>5, LinesAssumption DEF Alive
    <3>2. \A y \in IoTypes : y = io \/ y = x
      BY <1>2
    <3>3. wp'[io].line # NoLine /\ wp'[x].line # NoLine
      BY <2>6, <3>1
    <3>4. QED BY <3>2, <3>3 DEF Alive
  <2>8. FreePages' = FreePages - 1
    <3>1. PICK a \in Int : /\ a = PgsPerLine * free_line_cnt
                           /\ PgsPerLine * (free_line_cnt - 1) = a - PgsPerLine
      BY <1>3
    <3>2. PgsPerLine * free_line_cnt' = a - PgsPerLine
      BY <2>5, <3>1
    <3>3. /\ FreePages = (PgsPerLine - wp[io].off) + (PgsPerLine - wp[x].off) + a
          /\ FreePages' = PgsPerLine + (PgsPerLine - wp[x].off) + (a - PgsPerLine)
      BY <1>3, <1>4, <2>6, <3>1, <3>2
    <3>4. QED BY <1>3, <2>1, <3>3
  <2>9. QED BY <2>7, <2>8
<1>7. QED BY <1>5, <1>6 DEF Program

(***************************************************************************)
(* If GC found no victim while free lines are short, the lines are all     *)
(* free, open or full; the pages of the full ones hold distinct logical    *)
(* pages, and there are not that many.                                     *)
(***************************************************************************)
LEMMA VictimFound ==
  ASSUME MappingInv, Overprovisioned
  PROVE  VictimAvailable
<1> USE OffsetsFinite
<1>1. SUFFICES ASSUME pc = "refill", free_line_cnt <= GcThresLines, victims = {}
               PROVE  FALSE
  BY DEF VictimAvailable
<1>2. TypeOK /\ ControlInv /\ OneHome /\ CountInv /\ NoOrphanPage
  BY DEF MappingInv
<1>3. victim = NoLine /\ Collected = {}
  BY <1>1, <1>2 DEF ControlInv, Collected
<1>4. /\ IsFiniteSet(free_line_list) /\ IsFiniteSet(full_line_list) /\ IsFiniteSet(Lines)
      /\ Cardinality(free_line_list) = free_line_cnt
      /\ Cardinality(full_line_list) \in Nat /\ Cardinality(Lines) \in Nat
      /\ free_line_cnt \in Nat /\ GcThresLines \in Nat /\ PgsPerLine \in Nat /\ PgsPerLine > 0
  BY <1>2, LinesFinite, LinesAssumption, PolicyAssumption DEF TypeOK, OneHome
<1>5. Cardinality(Lines) <= free_line_cnt + 2 + Cardinality(full_line_list)
  <2>1. PICK u, g : u = wp["USER_IO"].line /\ g = wp["GC_IO"].line
    OBVIOUS
  <2>2. Lines \subseteq ((free_line_list \cup {u}) \cup {g}) \cup full_line_list
    BY <1>1, <1>2, <1>3, <2>1 DEF OneHome, OpenLines, IoTypes
  <2>3. /\ IsFiniteSet(free_line_list \cup {u})
        /\ Cardinality(free_line_list \cup {u}) <= free_line_cnt + 1
        /\ Cardinality(free_line_list \cup {u}) \in Nat
    <3>1. IsFiniteSet(free_line_list \cup {u})
      BY <1>4, FS_AddElement
    <3>2. Cardinality(free_line_list \cup {u}) \in Nat
      BY <3>1, FS_CardinalityType
    <3>3. QED BY <1>4, <3>1, <3>2, FS_AddElement
  <2>4. /\ IsFiniteSet((free_line_list \cup {u}) \cup {g})
        /\ Cardinality((free_line_list \cup {u}) \cup {g}) <= free_line_cnt + 2
        /\ Cardinality((free_line_list \cup {u}) \cup {g}) \in Nat
    <3>1. IsFiniteSet((free_line_list \cup {u}) \cup {g})
      BY <2>3, FS_AddElement
    <3>2. Cardinality((free_line_list \cup {u}) \cup {g}) \in Nat
      BY <3>1, FS_CardinalityType
    <3>3. \/ Cardinality((free_line_list \cup {u}) \cup {g})
               = Cardinality(free_line_list \cup {u}) + 1
          \/ Cardinality((free_line_list \cup {u}) \cup {g})
               = Cardinality(free_line_list \cup {u})
      BY <2>3, FS_AddElement
    <3>4. QED BY <1>4, <2>3, <3>1, <3>2, <3>3
  <2>5. PICK S : S = (free_line_list \cup {u}) \cup {g}
    OBVIOUS
  <2>6. /\ IsFiniteSet(S \cup full_line_list)
        /\ Cardinality(S \cup full_line_list)
             = Cardinality(S) + Cardinality(full_line_list) - Cardinality(S \cap full_line_list)
    BY <1>4, <2>4, <2>5, FS_Union
  <2>7. Cardinality(S \cap full_line_list) \in Nat
    <3>1. IsFiniteSet(S \cap full_line_list)
      BY <1>4, FS_Subset, S \cap full_line_list \in SUBSET full_line_list
    <3>2. QED BY <3>1, FS_CardinalityType
  <2>8. Cardinality(Lines) <= Cardinality(S \cup full_line_list)
    BY <2>2, <2>5, <2>6, FS_Subset
  <2>9. QED BY <1>4, <2>4, <2>5, <2>6, <2>7, <2>8
\* The reverse mapping is one to one on the pages of full lines.
<1>6. Cardinality(full_line_list) * PgsPerLine <= Cardinality(LPNs)
  <2>1. \A l \in full_line_list, o \in Offsets : status[<<l, o>>] = "valid"
    <3>1. SUFFICES ASSUME NEW l \in full_line_list PROVE ValidIn(l) = Offsets
      BY DEF ValidIn
    <3>2. l \in Lines /\ l # victim
      BY <1>2, <1>3, <3>1, LinesAssumption DEF TypeOK
    <3>3. Cardinality(ValidIn(l)) = PgsPerLine
      BY <1>2, <3>1, <3>2 DEF CountInv
    <3>4. ValidIn(l) \in SUBSET Offsets
      BY DEF ValidIn
    <3>5. QED BY <3>3, <3>4, FS_Subset
  <2>2. PICK D : D = full_line_list \X Offsets
    OBVIOUS
  <2>3. \A p \in D : /\ p \in Pages /\ status[p] = "valid"
                     /\ rmap[p] \in LPNs /\ maptbl[rmap[p]] = p
    <3>1. \A p \in D : p \in Pages /\ status[p] = "valid"
      BY <1>2, <2>1, <2>2 DEF TypeOK, Pages
    <3>2. QED BY <1>2, <1>3, <3>1 DEF NoOrphanPage, IsStale
  <2>4. PICK f : f = [p \in D |-> rmap[p]]
    OBVIOUS
  <2>5. f \in Injection(D, LPNs)
    BY <2>3, <2>4 DEF Injection, IsInjective
  <2>6. Cardinality(D) <= Cardinality(LPNs)
    BY <2>5, LpnAssumption, FS_Injection
  <2>7. Cardinality(D) = Cardinality(full_line_list) * Cardinality(Offsets)
    BY <1>4, <2>2, FS_Product
  <2>8. QED BY <2>6, <2>7
<1>7. Cardinality(full_line_list) >= Cardinality(Lines) - GcThresLines - 2
  BY <1>1, <1>4, <1>5
<1>8. \A a, b \in Int, p \in Nat : a >= b => a * p >= b * p
  OBVIOUS
<1>9. Cardinality(full_line_list) * PgsPerLine
        >= (Cardinality(Lines) - GcThresLines - 2) * PgsPerLine
  BY <1>4, <1>7, <1>8
<1>10. Cardinality(LPNs) \in Nat
  BY LpnAssumption, FS_CardinalityType
<1>11. QED
  <2>1. PICK a, b \in Int : /\ a = Cardinality(full_line_list) * PgsPerLine
                            /\ b = (Cardinality(Lines) - GcThresLines - 2) * PgsPerLine
    BY <1>4
  <2>2. QED BY <1>6, <1>9, <1>10, <2>1 DEF Overprovisioned

------------------------------------------------------------------------------
(* SpaceInv, action by action.                                             *)

\* A fresh partition has all its lines to give.
LEMMA InitSpace == Init => SpaceInv
<1> SUFFICES ASSUME Init PROVE SpaceInv
  OBVIOUS
<1>1. MappingInv
  BY InitMapping
<1>2. /\ victim = NoLine /\ pc = "ready" /\ write_credits = PgsPerLine
      /\ free_line_cnt = Cardinality(Lines) - 2
      /\ wp["USER_IO"].off = 0 /\ wp["GC_IO"].off = 0
  BY DEF Init, MapInit, LinesInit, PointersInit, CreditsInit, IoTypes
<1>3. Alive
  BY LinesAssumption DEF Init, MapInit, LinesInit, PointersInit, CreditsInit, Alive
<1>4. /\ Cardinality(Lines) \in Nat /\ GcThresLines \in Nat /\ PgsPerLine \in Nat
      /\ PgsPerLine > 0
      /\ (Cardinality(Lines) - GcThresLines - 1) * PgsPerLine >= 2
  BY LinesFinite, LinesAssumption, PolicyAssumption
<1>5. \A n, t, p \in Int : /\ p * (n - 2) = n * p - 2 * p
                         /\ (n - t - 1) * p = n * p - t * p - p
                         /\ n * p \in Int /\ t * p \in Int
  OBVIOUS
<1>6. PICK a, b \in Int : /\ a = Cardinality(Lines) * PgsPerLine
                          /\ b = GcThresLines * PgsPerLine
                          /\ PgsPerLine * (Cardinality(Lines) - 2) = a - 2 * PgsPerLine
                          /\ (Cardinality(Lines) - GcThresLines - 1) * PgsPerLine
                               = a - b - PgsPerLine
  BY <1>4, <1>5
<1>7. FreePages >= write_credits + GcThresLines * PgsPerLine + 2
  BY <1>2, <1>4, <1>6 DEF FreePages
<1>8. QED
  BY <1>2, <1>3, <1>4, <1>7 DEF SpaceInv, CreditsBacked

\* The steps that neither program nor erase: they keep the pages there are.
LEMMA HostWriteSpace ==
  ASSUME MappingInv, SpaceInv, NEW lpn \in LPNs,
         HostWriteFresh(lpn) \/ HostOverwrite(lpn)
  PROVE  SpaceInv'
<1>1. /\ pc = "ready" /\ pc' = "program"
      /\ UNCHANGED <<free_line_cnt, wp, write_credits, victim>>
  BY DEF HostWriteFresh, HostOverwrite, At, freeVars, creditVars, gcVars
<1>2. victim = NoLine /\ FreePages' = FreePages
  BY <1>1 DEF MappingInv, ControlInv, FreePages
<1>3. QED
  BY <1>1, <1>2 DEF SpaceInv, Alive, CreditsBacked

\* A host write takes a page and the credit for it.
LEMMA HostProgramSpace ==
  ASSUME MappingInv, SpaceInv, HostProgram
  PROVE  SpaceInv'
<1>1. /\ pc = "program" /\ Alive /\ Program("USER_IO", req)
      /\ write_credits' = write_credits - 1
      /\ pc' \in {"ready", "refill"} /\ victim' = victim
  BY DEF HostProgram, At, gcVars
<1>2. /\ req \in LPNs /\ "USER_IO" \in IoTypes /\ victim = NoLine
      /\ write_credits \in Nat /\ write_credits > 0 /\ TypeOK
  BY <1>1 DEF MappingInv, ControlInv, TypeOK, IoTypes
<1>3. FreePages >= write_credits + GcThresLines * PgsPerLine + 2
  BY <1>1 DEF SpaceInv, CreditsBacked
<1>4. PICK r \in Nat : r = GcThresLines * PgsPerLine /\ r >= 2 * PgsPerLine
  BY ReserveFacts
<1>5. PgsPerLine \in Nat /\ FreePages \in Int
  BY <1>2, FreePagesFacts, LinesAssumption
<1>6. Alive' /\ FreePages' = FreePages - 1
  BY <1>1, <1>2, <1>3, <1>4, <1>5, ProgramSpace
<1>7. FreePages' >= write_credits' + GcThresLines * PgsPerLine + 2
  BY <1>1, <1>2, <1>3, <1>4, <1>5, <1>6
<1>8. MappingInv'
  BY HostProgramStep
<1>9. pc' \in {"ready", "program"} => write_credits' > 0
  BY <1>8 DEF MappingInv, ControlInv
<1>10. QED
  BY <1>1, <1>2, <1>6, <1>7, <1>9 DEF SpaceInv, CreditsBacked

\* A refill without GC hands out a line's worth, which is there; one without a
\* victim does not happen.
LEMMA RefillSpace ==
  ASSUME MappingInv, SpaceInv, Overprovisioned, RefillWithoutGc \/ RefillNoVictim
  PROVE  SpaceInv'
<1>1. /\ pc = "refill" /\ pc' = "ready" /\ Alive
      /\ write_credits' = write_credits + credits_to_refill
      /\ UNCHANGED <<free_line_cnt, wp, credits_to_refill, victim>>
      /\ free_line_cnt > GcThresLines \/ (free_line_cnt <= GcThresLines /\ victims = {})
  BY DEF RefillWithoutGc, RefillNoVictim, Refill, At, freeVars, gcVars
<1>2. free_line_cnt > GcThresLines
  BY <1>1, VictimFound DEF VictimAvailable
<1>3. TypeOK /\ victim = NoLine /\ write_credits \in Nat /\ ~(write_credits > 0)
  BY <1>1 DEF MappingInv, ControlInv, TypeOK
<1>4. /\ credits_to_refill \in 1 .. PgsPerLine /\ PgsPerLine \in Nat
      /\ GcThresLines \in Nat /\ free_line_cnt \in Nat
  BY <1>3, LinesAssumption, PolicyAssumption DEF TypeOK
<1>5. PICK r, a \in Int : /\ r = GcThresLines * PgsPerLine
                          /\ a = PgsPerLine * free_line_cnt
                          /\ a >= r + PgsPerLine
  BY <1>2, <1>4, ReserveFacts
<1>6. FreePages \in Int /\ FreePages >= 2 + a
  BY <1>3, <1>5, FreePagesFacts
<1>7. write_credits' <= PgsPerLine /\ write_credits' > 0
  BY <1>1, <1>3, <1>4
<1>8. FreePages >= write_credits' + r + 2
  BY <1>1, <1>3, <1>4, <1>5, <1>6, <1>7
<1>9. FreePages' = FreePages /\ Alive'
  BY <1>1 DEF FreePages, Alive
<1>10. QED
  BY <1>1, <1>3, <1>5, <1>7, <1>8, <1>9 DEF SpaceInv, CreditsBacked

\* The valid pages GC has still to copy are a finite number of offsets.
LEMMA RemainingFacts ==
  ASSUME MappingInv, victim # NoLine
  PROVE  /\ IsFiniteSet(Remaining) /\ Cardinality(Remaining) \in Nat
         /\ vpc[victim] \in Nat /\ ipc[victim] \in Nat /\ ipc[victim] > 0
         /\ vpc[victim] + ipc[victim] = PgsPerLine
<1>1. Remaining \in SUBSET Offsets
  BY DEF Remaining
<1>2. victim \in Lines /\ vpc[victim] \in Nat /\ ipc[victim] \in Nat
  BY OffsetsFinite DEF MappingInv, TypeOK
<1>3. ipc[victim] > 0 /\ vpc[victim] + ipc[victim] = PgsPerLine
  BY DEF MappingInv, CountInv, Collected
<1>4. QED BY <1>1, <1>2, <1>3, OffsetsFinite

\* At the start of a collection all valid pages of the victim remain.
LEMMA GcSelectSpace ==
  ASSUME MappingInv, SpaceInv, NEW l \in Lines, GcSelect(l)
  PROVE  SpaceInv'
<1>1. /\ pc = "refill" /\ pc' = "clean" /\ Alive /\ victim' = l /\ cursor' = 0
      /\ credits_to_refill' = ipc[l]
      /\ UNCHANGED <<status, vpc, ipc, free_line_cnt, wp, write_credits>>
  BY DEF GcSelect, At, mapVars, freeVars
<1>2. TypeOK /\ victim = NoLine /\ CountInv
  BY <1>1 DEF MappingInv, ControlInv
<1>3. Visited' = {}
  <2>1. VisitsDone' = 0 BY <1>1 DEF VisitsDone
  <2>2. QED BY <2>1 DEF Visited
<1>4. Remaining' = ValidIn(l)
  BY <1>1, <1>3 DEF Remaining, ValidIn
<1>5. vpc[l] = Cardinality(ValidIn(l))
  BY <1>2, LinesAssumption DEF CountInv
<1>6. FreePages' = FreePages /\ Alive'
  BY <1>1 DEF FreePages, Alive
<1>7. FreePages >= write_credits + GcThresLines * PgsPerLine + 2
  BY <1>1 DEF SpaceInv, CreditsBacked
<1>8. vpc[l] \in Int /\ write_credits \in Nat
  BY <1>2 DEF TypeOK
<1>9. FreePages \in Int /\ GcThresLines * PgsPerLine \in Nat
  BY <1>2, FreePagesFacts, ReserveFacts
<1>10. FreePages + vpc[l] - Cardinality(ValidIn(l)) >= GcThresLines * PgsPerLine + 2
  <2>1. PICK r \in Nat : r = GcThresLines * PgsPerLine BY <1>9
  <2>2. QED BY <1>5, <1>7, <1>8, <1>9, <2>1
<1>11. CreditsBacked'
  BY <1>1 DEF CreditsBacked
<1>12. QED
  BY <1>1, <1>4, <1>6, <1>10, <1>11 DEF SpaceInv

\* Passing over a page leaves as many to copy.
LEMMA GcSkipSpace ==
  ASSUME MappingInv, SpaceInv, GcSkip
  PROVE  SpaceInv'
<1>1. /\ pc = "clean" /\ Alive /\ cursor < PgsPerLine /\ status[GcPage] # "valid" /\ VisitDone
      /\ UNCHANGED <<status, vpc, ipc, free_line_cnt, wp, write_credits,
                     credits_to_refill, victim>>
  BY DEF GcSkip, At, mapVars, lineVars, freeVars, creditVars
<1>2. Visited' = Visited \cup {GcWalk[cursor]} /\ pc' \in {"clean", "erase"}
  BY <1>1, VisitedStep
<1>3. Remaining' = Remaining
  BY <1>1, <1>2 DEF Remaining, GcPage
<1>4. FreePages' = FreePages /\ Alive' /\ CreditsBacked'
  BY <1>1, <1>2 DEF FreePages, Alive, CreditsBacked
<1>5. QED
  BY <1>1, <1>3, <1>4 DEF SpaceInv

\* A copy takes a page, and one page less remains.
LEMMA GcCopySpace ==
  ASSUME MappingInv, SpaceInv, GcCopy
  PROVE  SpaceInv'
<1>1. /\ pc = "clean" /\ Alive /\ cursor < PgsPerLine /\ status[GcPage] = "valid"
      /\ Program("GC_IO", rmap[GcPage]) /\ VisitDone
      /\ UNCHANGED <<write_credits, credits_to_refill, victim>>
  BY DEF GcCopy, At, creditVars
<1>2. /\ Visited' = Visited \cup {GcWalk[cursor]} /\ pc' \in {"clean", "erase"}
      /\ GcWalk[cursor] \in Offsets /\ GcWalk[cursor] \notin Visited
  BY <1>1, VisitedStep
<1>3. /\ TypeOK /\ victim # NoLine /\ victim \in Lines /\ "GC_IO" \in IoTypes
      /\ rmap[GcPage] \in LPNs
  BY <1>1, GcPageFacts DEF MappingInv, ControlInv, IoTypes
<1>4. /\ NewPage("GC_IO")[1] # victim /\ NewPage("GC_IO") \in Pages
      /\ wp["GC_IO"].line # victim
  BY <1>1, <1>3, WritePointer
<1>5. /\ \A o \in Offsets : status'[<<victim, o>>] = status[<<victim, o>>]
      /\ vpc'[victim] = vpc[victim] /\ ipc'[victim] = ipc[victim]
  <2>1. \A o \in Offsets : <<victim, o>> # NewPage("GC_IO") /\ <<victim, o>> \in Pages
    BY <1>3, <1>4 DEF Pages
  <2>2. QED BY <1>1, <1>3, <1>4, <2>1 DEF Program, MarkPageValid, Line, TypeOK
<1>6. /\ GcWalk[cursor] \in Remaining
      /\ Remaining' = Remaining \ {GcWalk[cursor]}
  BY <1>1, <1>2, <1>5 DEF Remaining, GcPage
<1>7. /\ IsFiniteSet(Remaining) /\ Cardinality(Remaining) \in Nat
      /\ Cardinality(Remaining') = Cardinality(Remaining) - 1
      /\ Cardinality(Remaining) > 0
      /\ vpc[victim] \in Nat /\ vpc[victim] < PgsPerLine
  <2>1. /\ IsFiniteSet(Remaining) /\ Cardinality(Remaining) \in Nat
        /\ vpc[victim] \in Nat /\ ipc[victim] \in Nat /\ ipc[victim] > 0
        /\ vpc[victim] + ipc[victim] = PgsPerLine
    BY <1>3, RemainingFacts
  <2>2. Cardinality(Remaining') = Cardinality(Remaining) - 1
    BY <1>6, <2>1, FS_RemoveElement
  <2>3. Cardinality(Remaining) > 0
    BY <1>6, <2>1, FS_EmptySet
  <2>4. QED BY <2>1, <2>2, <2>3, LinesAssumption
<1>8. PICK r \in Nat : r = GcThresLines * PgsPerLine /\ r >= 2 * PgsPerLine
  BY ReserveFacts
<1>9. FreePages + vpc[victim] - Cardinality(Remaining) >= r + 2
  BY <1>3, <1>8 DEF SpaceInv
<1>10. FreePages \in Int /\ PgsPerLine \in Nat
  BY <1>3, FreePagesFacts, LinesAssumption
<1>11. FreePages >= PgsPerLine + 2
  BY <1>7, <1>8, <1>9, <1>10
<1>12. Alive' /\ FreePages' = FreePages - 1
  BY <1>1, <1>3, <1>11, ProgramSpace
<1>13. FreePages' + vpc'[victim] - Cardinality(Remaining') >= r + 2
  BY <1>5, <1>7, <1>9, <1>10, <1>12
<1>14. CreditsBacked'
  BY <1>2 DEF CreditsBacked
<1>15. credits_to_refill' = ipc'[victim]
  BY <1>1, <1>3, <1>5 DEF SpaceInv
<1>16. QED
  BY <1>1, <1>8, <1>12, <1>13, <1>14, <1>15 DEF SpaceInv

\* What is erased was visited, so nothing that remains is lost.
LEMMA GcEraseSpace ==
  ASSUME MappingInv, SpaceInv, GcErase
  PROVE  SpaceInv'
<1>1. /\ pc = "erase" /\ pc' = "clean" /\ cursor' = cursor + 1 /\ Alive
      /\ status' = [p \in Pages |->
                      IF p[1] = victim /\ p[2] \in ErasedNow THEN "free" ELSE status[p]]
      /\ UNCHANGED <<vpc, ipc, free_line_cnt, wp, write_credits, credits_to_refill, victim>>
  BY DEF GcErase, At, lineVars, freeVars, creditVars
<1>2. TypeOK /\ victim # NoLine /\ victim \in Lines /\ cursor \in Offsets
  BY <1>1, LinesAssumption DEF MappingInv, ControlInv, TypeOK, Offsets
<1>3. Visited' = Visited /\ ErasedNow \subseteq Visited
  BY <1>1, ErasedVisited
<1>4. Remaining' = Remaining
  <2>1. \A o \in Offsets \ Visited : status'[<<victim, o>>] = status[<<victim, o>>]
    BY <1>1, <1>2, <1>3 DEF Pages
  <2>2. QED BY <1>1, <1>3, <2>1 DEF Remaining
<1>5. FreePages' = FreePages /\ Alive' /\ CreditsBacked'
  BY <1>1 DEF FreePages, Alive, CreditsBacked
<1>6. QED
  BY <1>1, <1>4, <1>5 DEF SpaceInv

\* The end of a collection: a line more, and the credits are what it gained.
LEMMA GcFinishSpace ==
  ASSUME MappingInv, SpaceInv, GcFinish
  PROVE  SpaceInv'
<1>1. /\ pc = "clean" /\ pc' = "ready" /\ cursor = PgsPerLine /\ Alive
      /\ free_line_cnt' = free_line_cnt + 1
      /\ write_credits' = write_credits + credits_to_refill
      /\ victim' = NoLine /\ wp' = wp
  BY DEF GcFinish, Refill, At
<1>2. /\ TypeOK /\ victim # NoLine /\ victim \in Lines /\ ShapeInv
      /\ write_credits \in Nat /\ ~(write_credits > 0)
  BY <1>1 DEF MappingInv, ControlInv, TypeOK
<1>3. Cardinality(Remaining) = 0
  <2>1. \A o \in Offsets : status[<<victim, o>>] = "free"
    BY <1>1, <1>2, LinesAssumption, WalkAssumption DEF ShapeInv, Offsets
  <2>2. Remaining = {} BY <2>1 DEF Remaining
  <2>3. QED BY <2>2, FS_EmptySet
<1>4. /\ vpc[victim] \in Nat /\ ipc[victim] \in Nat /\ ipc[victim] > 0
      /\ vpc[victim] + ipc[victim] = PgsPerLine
  BY <1>2, RemainingFacts
<1>5. PICK r \in Nat : r = GcThresLines * PgsPerLine
  BY ReserveFacts
<1>6. FreePages + vpc[victim] - Cardinality(Remaining) >= r + 2 /\ credits_to_refill = ipc[victim]
  BY <1>2, <1>5 DEF SpaceInv
<1>7. FreePages \in Int /\ PgsPerLine \in Nat /\ free_line_cnt \in Int
  BY <1>2, FreePagesFacts, LinesAssumption DEF TypeOK
<1>8. FreePages' = FreePages + PgsPerLine
  <2>1. wp["USER_IO"].off \in Int /\ wp["GC_IO"].off \in Int
    BY <1>2, FreePagesFacts DEF IoTypes
  <2>2. /\ PgsPerLine * (free_line_cnt + 1) = PgsPerLine * free_line_cnt + PgsPerLine
        /\ PgsPerLine * free_line_cnt \in Int
    BY <1>7, ReserveFacts
  <2>3. QED BY <1>1, <1>7, <2>1, <2>2 DEF FreePages
<1>9. FreePages' >= write_credits' + r + 2 /\ write_credits' > 0
  BY <1>1, <1>2, <1>3, <1>4, <1>6, <1>7, <1>8
<1>10. Alive'
  BY <1>1 DEF Alive
<1>11. QED
  BY <1>1, <1>5, <1>9, <1>10 DEF SpaceInv, CreditsBacked

\* A step that changes nothing keeps SpaceInv.
LEMMA StutterSpace == ASSUME MappingInv, SpaceInv, UNCHANGED vars PROVE SpaceInv'
<1>1. UNCHANGED vars
  OBVIOUS
<1>2. Visited' = Visited
  BY <1>1 DEF vars, Visited, VisitsDone
<1>3. Remaining' = Remaining /\ FreePages' = FreePages /\ Alive'
  BY <1>1, <1>2 DEF vars, Remaining, FreePages, SpaceInv, Alive
<1>4. QED BY <1>1, <1>3 DEF vars, SpaceInv, CreditsBacked

------------------------------------------------------------------------------
(* The theorems *)

\* With enough spare lines SpaceInv holds always, whatever the geometry and
\* the victim policy.
THEOREM SpaceInvariant == Overprovisioned => (Spec => []SpaceInv)
<1> SUFFICES ASSUME Overprovisioned PROVE Spec => []SpaceInv
  OBVIOUS
<1>1. ASSUME MappingInv, SpaceInv, [Next]_vars PROVE SpaceInv'
  <2>1. ASSUME NEW lpn \in LPNs, HostWriteFresh(lpn) \/ HostOverwrite(lpn)
        PROVE  SpaceInv'
    BY <1>1, <2>1, HostWriteSpace
  <2>2. CASE HostProgram
    BY <1>1, <2>2, HostProgramSpace
  <2>3. CASE RefillWithoutGc \/ RefillNoVictim
    BY <1>1, <2>3, RefillSpace
  <2>4. ASSUME NEW l \in Lines, GcSelect(l) PROVE SpaceInv'
    BY <1>1, <2>4, GcSelectSpace
  <2>5. CASE GcSkip
    BY <1>1, <2>5, GcSkipSpace
  <2>6. CASE GcCopy
    BY <1>1, <2>6, GcCopySpace
  <2>7. CASE GcErase
    BY <1>1, <2>7, GcEraseSpace
  <2>8. CASE GcFinish
    BY <1>1, <2>8, GcFinishSpace
  <2>9. CASE UNCHANGED vars
    BY <1>1, <2>9, StutterSpace
  <2>10. QED
    BY <1>1, <2>1, <2>2, <2>3, <2>4, <2>5, <2>6, <2>7, <2>8, <2>9 DEF Next, Dispatcher
<1>2. QED
  BY <1>1, InitSpace, MappingInvariant, PTL DEF Spec

\* advance_write_pointer is never handed the NULL of get_next_free_line.
THEOREM LinesNeverRunOut == Overprovisioned => (Spec => []NoLineExhaustion)
<1> SUFFICES ASSUME Overprovisioned PROVE Spec => []NoLineExhaustion
  OBVIOUS
<1>1. SpaceInv => NoLineExhaustion BY DEF SpaceInv, NoLineExhaustion
<1>2. QED BY <1>1, SpaceInvariant, PTL

\* The credits handed to the host are backed by free pages beyond the reserve.
THEOREM CreditsAlwaysBacked == Overprovisioned => (Spec => []CreditsBacked)
<1> SUFFICES ASSUME Overprovisioned PROVE Spec => []CreditsBacked
  OBVIOUS
<1>1. SpaceInv => CreditsBacked BY DEF SpaceInv
<1>2. QED BY <1>1, SpaceInvariant, PTL

\* GC that has to run finds a line with an invalid page.
THEOREM VictimAlwaysFound == Overprovisioned => (Spec => []VictimAvailable)
<1> SUFFICES ASSUME Overprovisioned PROVE Spec => []VictimAvailable
  OBVIOUS
<1>1. MappingInv => VictimAvailable BY VictimFound
<1>2. QED BY <1>1, MappingInvariant, PTL
=============================================================================
