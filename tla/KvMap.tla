------------------------------- MODULE KvMap -------------------------------
(***************************************************************************)
(* What the key-value namespace promises its host: a map from keys to      *)
(* values, read, written and deleted by commands.  The promise is a weak   *)
(* one.  Deleting a key may lose others: a lost key is reported as one     *)
(* that does not exist, until it is stored again.  But a value that is     *)
(* read is always the last one stored, and nothing but a delete loses a    *)
(* key.                                                                    *)
(***************************************************************************)
EXTENDS Integers, Sequences

CONSTANTS Keys, Workers, NoValue, Absent

VARIABLES data,    \* [Keys -> value or NoValue]: what the host has stored
          lost,    \* the keys the device no longer finds
          asked,   \* [Workers -> command or <<>>]
          answer   \* [Workers -> the answer to the last command]

vars == <<data, lost, asked, answer>>

Init == /\ data = [k \in Keys |-> NoValue]
        /\ lost = {}
        /\ asked = [w \in Workers |-> <<>>]
        /\ answer = [w \in Workers |-> Absent]

\* Whatever the host asks for.
Ask(w) == /\ asked[w] = <<>>
          /\ asked'[w] # <<>>
          /\ asked' = [asked EXCEPT ![w] = asked'[w]]
          /\ UNCHANGED <<data, lost, answer>>

Found(k) == data[k] # NoValue /\ k \notin lost

\* A stored key is found again; what was there before does not matter.
Store(w) ==
  /\ asked[w].kind \in {"store", "batch"}
  /\ data' = [data EXCEPT ![asked[w].key] = asked[w].value]
  /\ lost' = lost \ {asked[w].key}
  /\ answer' = [answer EXCEPT ![w] = <<>>]

\* As much of the value as the buffer of the host has room for.
Beginning(v, n) == [i \in 1 .. (IF Len(v) < n THEN Len(v) ELSE n) |-> v[i]]

Retrieve(w) ==
  /\ asked[w].kind = "retrieve"
  /\ answer' = [answer EXCEPT ![w] =
       IF Found(asked[w].key) THEN Beginning(data[asked[w].key], asked[w].room) ELSE Absent]
  /\ UNCHANGED <<data, lost>>

Exist(w) ==
  /\ asked[w].kind = "exist"
  /\ answer' = [answer EXCEPT ![w] = IF Found(asked[w].key) THEN <<>> ELSE Absent]
  /\ UNCHANGED <<data, lost>>

\* Keys are lost only when a key that exists is deleted.
Delete(w) ==
  /\ asked[w].kind = "delete"
  /\ data' = [data EXCEPT ![asked[w].key] = NoValue]
  /\ answer' = [answer EXCEPT ![w] = IF Found(asked[w].key) THEN <<>> ELSE Absent]
  /\ \E more \in SUBSET {k \in Keys : data[k] # NoValue} :
       /\ ~Found(asked[w].key) => more = {}
       /\ lost' = (lost \cup more) \ {asked[w].key}

Answer(w) ==
  /\ asked[w] # <<>> /\ asked'[w] = <<>>
  /\ asked' = [asked EXCEPT ![w] = <<>>]
  /\ Store(w) \/ Retrieve(w) \/ Exist(w) \/ Delete(w)

Next == \E w \in Workers : Ask(w) \/ Answer(w)

Spec == Init /\ [][Next]_vars
============================================================================
