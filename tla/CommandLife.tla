---------------------------- MODULE CommandLife ----------------------------
(***************************************************************************)
(* What the host and the write buffer expect of an I/O worker: a request   *)
(* handed over with a target time is finished once, not before its target  *)
(* time, and a command of the host not before its data were moved.         *)
(***************************************************************************)
EXTENDS Naturals

CONSTANTS Tags, MaxTime

VARIABLES phase,     \* [Tags -> {"idle", "sent", "moved", "lost"}]
          due,       \* the target time of a request in flight
          internal,  \* is it a release of write buffer space?
          clock      \* the worker's clock

vars == <<phase, due, internal, clock>>

Init == /\ phase = [t \in Tags |-> "idle"]
        /\ due = [t \in Tags |-> 0]
        /\ internal = [t \in Tags |-> FALSE]
        /\ clock = 0

Send(t) ==
  /\ phase[t] = "idle"
  /\ \E d \in 0 .. MaxTime : due' = [due EXCEPT ![t] = d]
  /\ \E k \in BOOLEAN : internal' = [internal EXCEPT ![t] = k]
  /\ phase' = [phase EXCEPT ![t] = "sent"]
  /\ UNCHANGED clock

\* The pool of work entries is exhausted.
Lose(t) ==
  /\ phase[t] = "idle"
  /\ phase' = [phase EXCEPT ![t] = "lost"]
  /\ UNCHANGED <<due, internal, clock>>

Move(t) ==
  /\ phase[t] = "sent"
  /\ ~internal[t]
  /\ phase' = [phase EXCEPT ![t] = "moved"]
  /\ UNCHANGED <<due, internal, clock>>

Finish(t) ==
  /\ phase[t] = IF internal[t] THEN "sent" ELSE "moved"
  /\ due[t] <= clock
  /\ phase' = [phase EXCEPT ![t] = "idle"]
  /\ due' = [due EXCEPT ![t] = 0]
  /\ internal' = [internal EXCEPT ![t] = FALSE]
  /\ UNCHANGED clock

Tick == /\ clock' \in clock .. MaxTime
        /\ UNCHANGED <<phase, due, internal>>

Next == Tick \/ \E t \in Tags : Send(t) \/ Lose(t) \/ Move(t) \/ Finish(t)

Spec == Init /\ [][Next]_vars
============================================================================
