------------------------------ MODULE PageStore ------------------------------
(***************************************************************************)
(* What the conventional FTL promises, without lines, queues or credits:   *)
(* every logical page that was ever written is owned by exactly one flash  *)
(* page, a flash page is programmed only after it was erased, and a page   *)
(* that a logical page still refers to is never erased.                    *)
(***************************************************************************)
CONSTANTS LPNs,      \* logical page numbers
          Pages,     \* flash pages
          Unmapped   \* "no flash page" (UNMAPPED_PPA)

VARIABLES owner,        \* logical page -> flash page that holds it
          programmable  \* flash pages erased and not programmed since

vars == <<owner, programmable>>

Init == /\ owner = [lpn \in LPNs |-> Unmapped]
        /\ programmable = Pages

\* Program page p with logical page lpn: a host write, or a copy by GC.
Program(lpn, p) ==
  /\ p \in programmable
  /\ programmable' = programmable \ {p}
  /\ owner' = [owner EXCEPT ![lpn] = p]

\* Erase the pages of a block; none of them holds current data.
Erase(S) ==
  /\ \A lpn \in LPNs : owner[lpn] \notin S
  /\ programmable' = programmable \cup S
  /\ UNCHANGED owner

Next == \/ \E lpn \in LPNs, p \in Pages : Program(lpn, p)
        \/ \E S \in SUBSET (Pages \ programmable) : Erase(S)

Spec == Init /\ [][Next]_vars
==============================================================================
