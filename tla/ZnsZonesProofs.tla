--------------------------- MODULE ZnsZonesProofs ---------------------------
(***************************************************************************)
(* For any number of zones, sizes and sequence of commands: the counts of  *)
(* zone resources are true, every zone lives as ZoneLife says, and, when   *)
(* writes are of whole pages, no space of a write buffer is unaccounted    *)
(* for.                                                                    *)
(***************************************************************************)
EXTENDS ZnsZones, Arithmetic

States == {"EMPTY", "FULL"} \cup Active

\* What the counts depend on.
ZoneTypes == /\ state \in [Zones -> States]
             /\ zrwav \in [Zones -> BOOLEAN]
             /\ acquired \in [Types -> Int]

\* An empty zone has no random write area: else a write would make an active
\* zone of it that nothing was acquired for.
EmptyIsPlain == \A z \in Zones : state[z] = "EMPTY" => ~zrwav[z]

CountInv == ZoneTypes /\ EmptyIsPlain /\ ResourcesTrue

\* 1 if p, else 0.
One(p) == IF p THEN 1 ELSE 0

------------------------------------------------------------------------------
\* Sets of zones that differ in one zone.
LEMMA OneMore ==
  ASSUME NEW S \in SUBSET Zones, NEW T \in SUBSET Zones, NEW z \in Zones,
         T \ {z} = S \ {z}
  PROVE  /\ Cardinality(S) \in Nat
         /\ Cardinality(T) - Cardinality(S) = One(z \in T) - One(z \in S)
<1>0. IsFiniteSet(Zones)
  BY ZnsAssumption, FS_Interval DEF Zones
<1>1. IsFiniteSet(S) /\ IsFiniteSet(T)
  BY <1>0, FS_Subset
<1>2. Cardinality(S) \in Nat /\ Cardinality(T) \in Nat
  BY <1>1, FS_CardinalityType
<1>3. CASE (z \in S) = (z \in T)
  <2>1. S = T
    BY <1>3
  <2> QED BY <2>1, <1>2 DEF One
<1>4. CASE z \in T /\ z \notin S
  <2>1. T = S \cup {z}
    BY <1>4
  <2>2. Cardinality(T) = Cardinality(S) + 1
    BY <2>1, <1>1, <1>4, FS_AddElement
  <2> QED BY <2>2, <1>2, <1>4 DEF One
<1>5. CASE z \in S /\ z \notin T
  <2>1. S = T \cup {z}
    BY <1>5
  <2>2. Cardinality(S) = Cardinality(T) + 1
    BY <2>1, <1>1, <1>5, FS_AddElement
  <2> QED BY <2>2, <1>2, <1>5 DEF One
<1> QED BY <1>3, <1>4, <1>5

\* A step that gives zone z the state s and the flag v, and changes the
\* counts by what that makes of it.
LEMMA OneZone ==
  ASSUME CountInv, NEW z \in Zones, NEW s \in States, NEW v \in BOOLEAN,
         state' = [state EXCEPT ![z] = s],
         zrwav' = [zrwav EXCEPT ![z] = v],
         s = "EMPTY" => ~v,
         acquired' \in [Types -> Int],
         acquired'["active"] - acquired["active"] = One(s \in Active) - One(state[z] \in Active),
         acquired'["open"] - acquired["open"] = One(s \in Open) - One(state[z] \in Open),
         acquired'["zrwa"] - acquired["zrwa"] >=
           One(s \in Active /\ v) - One(state[z] \in Active /\ zrwav[z])
  PROVE  CountInv'
<1> DEFINE A == {x \in Zones : state[x] \in Active}
           O == {x \in Zones : state[x] \in Open}
           R == {x \in Zones : state[x] \in Active /\ zrwav[x]}
           A1 == {x \in Zones : state'[x] \in Active}
           O1 == {x \in Zones : state'[x] \in Open}
           R1 == {x \in Zones : state'[x] \in Active /\ zrwav'[x]}
<1>1. /\ state' \in [Zones -> States]
      /\ zrwav' \in [Zones -> BOOLEAN]
      /\ state'[z] = s /\ zrwav'[z] = v
      /\ \A x \in Zones \ {z} : state'[x] = state[x] /\ zrwav'[x] = zrwav[x]
  BY DEF CountInv, ZoneTypes
<1>2. EmptyIsPlain'
  BY <1>1 DEF CountInv, EmptyIsPlain
<1>3. /\ Cardinality(A) \in Nat
      /\ Cardinality(A1) - Cardinality(A) = One(s \in Active) - One(state[z] \in Active)
  <2>1. A1 \ {z} = A \ {z} /\ (z \in A1 <=> s \in Active) /\ (z \in A <=> state[z] \in Active)
    BY <1>1
  <2>2. A \in SUBSET Zones /\ A1 \in SUBSET Zones
    OBVIOUS
  <2> HIDE DEF A, A1
  <2> QED BY <2>1, <2>2, OneMore DEF One
<1>4. /\ Cardinality(O) \in Nat
      /\ Cardinality(O1) - Cardinality(O) = One(s \in Open) - One(state[z] \in Open)
  <2>1. O1 \ {z} = O \ {z} /\ (z \in O1 <=> s \in Open) /\ (z \in O <=> state[z] \in Open)
    BY <1>1
  <2>2. O \in SUBSET Zones /\ O1 \in SUBSET Zones
    OBVIOUS
  <2> HIDE DEF O, O1
  <2> QED BY <2>1, <2>2, OneMore DEF One
<1>5. /\ Cardinality(R) \in Nat
      /\ Cardinality(R1) - Cardinality(R) = One(s \in Active /\ v) - One(state[z] \in Active /\ zrwav[z])
  <2>1. R1 \ {z} = R \ {z} /\ (z \in R1 <=> s \in Active /\ v) /\ (z \in R <=> state[z] \in Active /\ zrwav[z])
    BY <1>1
  <2>2. R \in SUBSET Zones /\ R1 \in SUBSET Zones
    OBVIOUS
  <2> HIDE DEF R, R1
  <2> QED BY <2>1, <2>2, OneMore DEF One
<1>6. /\ acquired["active"] = Cardinality(A)
      /\ acquired["open"] = Cardinality(O)
      /\ acquired["zrwa"] >= Cardinality(R)
      /\ acquired["zrwa"] \in Int /\ acquired["active"] \in Int /\ acquired["open"] \in Int
  BY DEF CountInv, ResourcesTrue, ZoneTypes, Types
<1>7. /\ acquired'["zrwa"] \in Int /\ acquired'["active"] \in Int /\ acquired'["open"] \in Int
      /\ Cardinality(A1) \in Nat /\ Cardinality(O1) \in Nat /\ Cardinality(R1) \in Nat
  <2>1. IsFiniteSet(Zones)
    BY ZnsAssumption, FS_Interval DEF Zones
  <2>2. IsFiniteSet(A1) /\ IsFiniteSet(O1) /\ IsFiniteSet(R1)
    BY <2>1, FS_Subset
  <2> QED BY <2>2, FS_CardinalityType DEF Types
<1>8. /\ acquired'["active"] = Cardinality(A1)
      /\ acquired'["open"] = Cardinality(O1)
      /\ acquired'["zrwa"] >= Cardinality(R1)
  <2> HIDE DEF A, O, R, A1, O1, R1
  <2> QED BY <1>3, <1>4, <1>5, <1>6, <1>7 DEF One
<1> QED BY <1>1, <1>2, <1>8 DEF CountInv, ZoneTypes, ResourcesTrue

\* A step that changes no descriptor and no count.
LEMMA Unmoved ==
  ASSUME CountInv, UNCHANGED descs
  PROVE  CountInv'
BY DEF descs, CountInv, ZoneTypes, EmptyIsPlain, ResourcesTrue

\* What Take and Give make of the counts.
LEMMA Counts ==
  ASSUME NEW c \in [Types -> Int], NEW T \in SUBSET Types
  PROVE  /\ Take(c, T) \in [Types -> Int]
         /\ Give(c, T) \in [Types -> Int]
         /\ \A t \in Types : Take(c, T)[t] = c[t] + One(t \in T)
         /\ \A t \in Types : Give(c, T)[t] = c[t] - One(t \in T)
BY DEF Take, Give, One

LEMMA TypeNames == "active" \in Types /\ "open" \in Types /\ "zrwa" \in Types
BY DEF Types

\* A zone that gives back all it holds, and becomes full or empty.
LEMMA GivesAll ==
  ASSUME CountInv, NEW z \in Zones, NEW s \in {"FULL", "EMPTY"}, NEW v \in BOOLEAN,
         state' = [state EXCEPT ![z] = s],
         zrwav' = [zrwav EXCEPT ![z] = v],
         s = "EMPTY" => ~v,
         acquired' = Give(acquired, HeldBy(z))
  PROVE  CountInv'
<1>1. acquired \in [Types -> Int] /\ HeldBy(z) \in SUBSET Types
  BY DEF CountInv, ZoneTypes, HeldBy
<1>2. /\ acquired' \in [Types -> Int]
      /\ \A t \in Types : acquired'[t] = acquired[t] - One(t \in HeldBy(z))
      /\ \A t \in Types : acquired[t] \in Int
  BY <1>1, Counts
<1>3. /\ "active" \in HeldBy(z) <=> state[z] \in Active
      /\ "open" \in HeldBy(z) <=> state[z] \in Open
      /\ "zrwa" \in HeldBy(z) <=> state[z] \in Active /\ zrwav[z]
  BY DEF HeldBy, Types
<1>4. s \in States /\ s \notin Active /\ s \notin Open
  BY DEF States, Active, Open
<1>5. /\ acquired'["active"] = acquired["active"] - One(state[z] \in Active)
      /\ acquired'["open"] = acquired["open"] - One(state[z] \in Open)
      /\ acquired'["zrwa"] = acquired["zrwa"] - One(state[z] \in Active /\ zrwav[z])
  BY <1>2, <1>3, TypeNames DEF One
<1>6. /\ acquired'["active"] - acquired["active"] = One(s \in Active) - One(state[z] \in Active)
      /\ acquired'["open"] - acquired["open"] = One(s \in Open) - One(state[z] \in Open)
      /\ acquired'["zrwa"] - acquired["zrwa"] >=
           One(s \in Active /\ v) - One(state[z] \in Active /\ zrwav[z])
  BY <1>2, <1>4, <1>5, TypeNames DEF One
<1> QED BY <1>2, <1>4, <1>6, OneZone

\* A zone that is not full takes what it wants, and is open then.
LEMMA TakesWanted ==
  ASSUME CountInv, NEW z \in Zones, NEW zrwa \in BOOLEAN, NEW s \in Open,
         state[z] # "FULL",
         state' = [state EXCEPT ![z] = s],
         zrwav' = [zrwav EXCEPT ![z] = @ \/ "zrwa" \in Wanted(z, zrwa)],
         acquired' = Take(acquired, Wanted(z, zrwa))
  PROVE  CountInv'
<1>1. acquired \in [Types -> Int] /\ Wanted(z, zrwa) \in SUBSET Types
  BY DEF CountInv, ZoneTypes, Wanted
<1>2. /\ acquired' \in [Types -> Int]
      /\ \A t \in Types : acquired'[t] = acquired[t] + One(t \in Wanted(z, zrwa))
      /\ \A t \in Types : acquired[t] \in Int
  BY <1>1, Counts
<1>3. state[z] \in States /\ zrwav[z] \in BOOLEAN
  BY DEF CountInv, ZoneTypes
<1>4. /\ "active" \in Wanted(z, zrwa) <=> state[z] \notin Active
      /\ "open" \in Wanted(z, zrwa) <=> state[z] \notin Open
      /\ "zrwa" \in Wanted(z, zrwa) <=> state[z] \notin Active /\ zrwa
  BY <1>3 DEF Wanted, Types, States, Active, Open
<1>5. s \in States /\ s \in Active /\ s # "EMPTY"
  BY DEF States, Active, Open
<1>6. state[z] \notin Active => ~zrwav[z]
  BY <1>3 DEF CountInv, EmptyIsPlain, States
<1> DEFINE v == zrwav[z] \/ "zrwa" \in Wanted(z, zrwa)
<1>7. v \in BOOLEAN /\ zrwav' = [zrwav EXCEPT ![z] = v]
  BY <1>3
<1>8. v <=> (state[z] \in Active /\ zrwav[z]) \/ (state[z] \notin Active /\ zrwa)
  BY <1>4, <1>6
<1>9. /\ acquired'["active"] = acquired["active"] + One(state[z] \notin Active)
      /\ acquired'["open"] = acquired["open"] + One(state[z] \notin Open)
      /\ acquired'["zrwa"] = acquired["zrwa"] + One(state[z] \notin Active /\ zrwa)
  BY <1>2, <1>4, TypeNames DEF One
<1>10. /\ acquired'["active"] - acquired["active"] = One(s \in Active) - One(state[z] \in Active)
       /\ acquired'["open"] - acquired["open"] = One(s \in Open) - One(state[z] \in Open)
  BY <1>2, <1>5, <1>9, TypeNames DEF One
<1>11. acquired'["zrwa"] - acquired["zrwa"] >=
           One(s \in Active /\ v) - One(state[z] \in Active /\ zrwav[z])
  <2>1. CASE state[z] \in Active
    BY <2>1, <1>2, <1>5, <1>8, <1>9, TypeNames DEF One
  <2>2. CASE state[z] \notin Active
    BY <2>2, <1>2, <1>5, <1>8, <1>9, TypeNames DEF One
  <2> QED BY <2>1, <2>2
<1> HIDE DEF v
<1> QED BY <1>2, <1>5, <1>7, <1>10, <1>11, OneZone

\* Counts c that have what an open zone z holds.
HasOpened(c, z) ==
  /\ c \in [Types -> Int]
  /\ c["active"] = acquired["active"] + One(state[z] \notin Active)
  /\ c["open"] = acquired["open"] + One(state[z] \notin Open)
  /\ c["zrwa"] = acquired["zrwa"]

\* A zone that becomes open without a random write area of its own.
LEMMA Opens ==
  ASSUME CountInv, NEW z \in Zones, NEW s \in Open, state[z] # "FULL",
         HasOpened(acquired', z),
         state' = [state EXCEPT ![z] = s], UNCHANGED zrwav
  PROVE  CountInv'
<1>1. /\ state[z] \in States /\ zrwav[z] \in BOOLEAN
      /\ zrwav' = [zrwav EXCEPT ![z] = zrwav[z]]
      /\ \A t \in Types : acquired[t] \in Int
  BY DEF CountInv, ZoneTypes
<1>2. s \in States /\ s \in Active /\ s # "EMPTY"
  BY DEF States, Active, Open
<1>3. state[z] \notin Active => ~zrwav[z]
  BY <1>1 DEF CountInv, EmptyIsPlain, States
<1>4. /\ acquired'["active"] - acquired["active"] = One(s \in Active) - One(state[z] \in Active)
      /\ acquired'["open"] - acquired["open"] = One(s \in Open) - One(state[z] \in Open)
      /\ acquired'["zrwa"] - acquired["zrwa"] >=
           One(s \in Active /\ zrwav[z]) - One(state[z] \in Active /\ zrwav[z])
  BY <1>1, <1>2, <1>3, TypeNames DEF HasOpened, One
<1> QED BY <1>1, <1>2, <1>4, OneZone DEF HasOpened

\* __increase_write_ptr: the zone stays open, or is full and gives back what
\* an open zone holds.
LEMMA Increases ==
  ASSUME CountInv, NEW z \in Zones, NEW n, NEW c, NEW s \in Open,
         state[z] # "FULL", HasOpened(c, z),
         IncreaseWritePtr(z, n, c, s), UNCHANGED zrwav
  PROVE  CountInv'
<1>1. CASE wp[z] + n # ZoneEnd(z)
  <2>1. acquired' = c /\ state' = [state EXCEPT ![z] = s]
    BY <1>1 DEF IncreaseWritePtr
  <2> QED BY <2>1, Opens
<1>2. CASE wp[z] + n = ZoneEnd(z)
  <2>1. acquired' = Give(c, {"open", "active"}) /\ state' = [state EXCEPT ![z] = "FULL"]
    BY <1>2 DEF IncreaseWritePtr
  <2>2. c \in [Types -> Int] /\ {"open", "active"} \in SUBSET Types
    BY DEF HasOpened, Types
  <2>3. /\ acquired' \in [Types -> Int]
        /\ \A t \in Types : acquired'[t] = c[t] - One(t \in {"open", "active"})
    BY <2>1, <2>2, Counts
  <2>4. /\ acquired'["active"] = c["active"] - 1
        /\ acquired'["open"] = c["open"] - 1
        /\ acquired'["zrwa"] = c["zrwa"]
        /\ c["active"] \in Int /\ c["open"] \in Int /\ c["zrwa"] \in Int
    BY <2>2, <2>3, TypeNames DEF One
  <2>5. /\ zrwav[z] \in BOOLEAN /\ zrwav' = [zrwav EXCEPT ![z] = zrwav[z]]
        /\ \A t \in Types : acquired[t] \in Int
    BY DEF CountInv, ZoneTypes
  <2>6. "FULL" \in States /\ "FULL" \notin Active /\ "FULL" \notin Open
    BY DEF States, Active, Open
  <2>7. /\ acquired'["active"] - acquired["active"] = One("FULL" \in Active) - One(state[z] \in Active)
        /\ acquired'["open"] - acquired["open"] = One("FULL" \in Open) - One(state[z] \in Open)
        /\ acquired'["zrwa"] - acquired["zrwa"] >=
             One("FULL" \in Active /\ zrwav[z]) - One(state[z] \in Active /\ zrwav[z])
    BY <2>4, <2>5, <2>6, TypeNames DEF HasOpened, One
  <2> QED BY <2>1, <2>3, <2>5, <2>6, <2>7, OneZone
<1> QED BY <1>1, <1>2

\* What a write takes for its zone.
LEMMA WriteTakes ==
  ASSUME CountInv, NEW z \in Zones, state[z] # "FULL"
  PROVE  HasOpened(Take(acquired, Wanted(z, FALSE)), z)
<1>1. acquired \in [Types -> Int] /\ Wanted(z, FALSE) \in SUBSET Types /\ state[z] \in States
  BY DEF CountInv, ZoneTypes, Wanted
<1>2. /\ "active" \in Wanted(z, FALSE) <=> state[z] \notin Active
      /\ "open" \in Wanted(z, FALSE) <=> state[z] \notin Open
      /\ "zrwa" \notin Wanted(z, FALSE)
  BY <1>1 DEF Wanted, Types, States, Active, Open
<1> DEFINE W == Wanted(z, FALSE)
           c == Take(acquired, W)
<1>3. /\ c \in [Types -> Int]
      /\ \A t \in Types : c[t] = acquired[t] + One(t \in W)
      /\ \A t \in Types : acquired[t] \in Int
  BY <1>1, Counts
<1>4. "active" \in W <=> state[z] \notin Active
  BY <1>2
<1>5. "open" \in W <=> state[z] \notin Open
  BY <1>2
<1>6. "zrwa" \notin W
  BY <1>2
<1> HIDE DEF W, c
<1>7. /\ c["active"] = acquired["active"] + One(state[z] \notin Active)
      /\ c["open"] = acquired["open"] + One(state[z] \notin Open)
      /\ c["zrwa"] = acquired["zrwa"]
  BY <1>3, <1>4, <1>5, <1>6, TypeNames DEF One
<1>8. HasOpened(c, z)
  BY <1>3, <1>7 DEF HasOpened
<1> QED BY <1>8 DEF c, W

\* A zone with a random write area that is not full is active, so opening it
\* takes nothing but the count of open zones.
LEMMA AreaTakes ==
  ASSUME CountInv, NEW z \in Zones, state[z] # "FULL", zrwav[z]
  PROVE  HasOpened(CountsOpened(z), z) /\ StateOpened(z) \in Open
<1>1. acquired \in [Types -> Int] /\ {"open"} \in SUBSET Types /\ state[z] \in Active
  BY DEF CountInv, ZoneTypes, EmptyIsPlain, States, Types
<1>2. /\ Take(acquired, {"open"}) \in [Types -> Int]
      /\ \A t \in Types : Take(acquired, {"open"})[t] = acquired[t] + One(t \in {"open"})
      /\ \A t \in Types : acquired[t] \in Int
  BY <1>1, Counts
<1>3. HasOpened(CountsOpened(z), z)
  <2>1. CASE state[z] \in Open
    BY <2>1, <1>1, <1>2, TypeNames DEF HasOpened, CountsOpened, AreaOpened, One
  <2>2. CASE state[z] \notin Open
    BY <2>2, <1>1, <1>2, TypeNames DEF HasOpened, CountsOpened, AreaOpened, One
  <2> QED BY <2>1, <2>2
<1> QED BY <1>3 DEF StateOpened, AreaOpened, Open

------------------------------------------------------------------------------
\* One zone's management command.
LEMMA ManageKeeps ==
  ASSUME CountInv, NEW action, NEW option \in BOOLEAN, NEW z \in Zones, NEW lba,
         Manage(action, option, z, lba)
  PROVE  CountInv'
<1>0. /\ state[z] \in States /\ zrwav[z] \in BOOLEAN
      /\ zrwav = [zrwav EXCEPT ![z] = zrwav[z]]
      /\ acquired \in [Types -> Int]
  BY DEF CountInv, ZoneTypes
<1>1. CASE CloseZone(z)
  <2>1. CASE state[z] \in Open /\ acquired' = Give(acquired, {"open"})
             /\ state' = [state EXCEPT ![z] = "CLOSED"] /\ UNCHANGED zrwav
    <3>1. /\ acquired' \in [Types -> Int]
          /\ \A t \in Types : acquired'[t] = acquired[t] - One(t \in {"open"})
          /\ \A t \in Types : acquired[t] \in Int
      BY <1>0, <2>1, Counts, TypeNames
    <3>2. "CLOSED" \in States /\ "CLOSED" \in Active /\ "CLOSED" \notin Open /\ state[z] \in Active
      BY <2>1 DEF States, Active, Open
    <3>3. /\ acquired'["active"] - acquired["active"] = One("CLOSED" \in Active) - One(state[z] \in Active)
          /\ acquired'["open"] - acquired["open"] = One("CLOSED" \in Open) - One(state[z] \in Open)
          /\ acquired'["zrwa"] - acquired["zrwa"] >=
               One("CLOSED" \in Active /\ zrwav[z]) - One(state[z] \in Active /\ zrwav[z])
      BY <2>1, <3>1, <3>2, TypeNames DEF One
    <3> QED BY <1>0, <2>1, <3>1, <3>2, <3>3, OneZone
  <2>2. CASE UNCHANGED descs
    BY <2>2, Unmoved
  <2> QED BY <1>1, <2>1, <2>2 DEF CloseZone
<1>2. CASE FinishZone(z)
  <2>1. zrwav' = [zrwav EXCEPT ![z] = zrwav[z]]
    BY <1>0, <1>2 DEF FinishZone
  <2> QED BY <1>0, <1>2, <2>1, GivesAll DEF FinishZone
<1>3. CASE OpenZone(z, option)
  <2>1. CASE UNCHANGED descs
    BY <2>1, Unmoved
  <2>2. CASE ~UNCHANGED descs
    <3>1. "OPENED_EXPL" \in Open
      BY DEF Open
    <3>2. /\ state[z] # "FULL"
          /\ acquired' = Take(acquired, Wanted(z, option))
          /\ zrwav' = [zrwav EXCEPT ![z] = @ \/ "zrwa" \in Wanted(z, option)]
          /\ state' = [state EXCEPT ![z] = "OPENED_EXPL"]
      BY <1>3, <2>2 DEF OpenZone
    <3> QED BY <3>1, <3>2, TakesWanted
  <2> QED BY <2>1, <2>2
<1>4. CASE ResetZone(z)
  BY <1>4, GivesAll DEF ResetZone
<1>5. CASE FlushZrwa(z, lba)
  <2>1. CASE UNCHANGED descs
    BY <2>1, Unmoved
  <2>2. CASE ~UNCHANGED descs
    <3>1. CASE lba = Elba(z)
      <4>1. /\ acquired' = Give(acquired, HeldBy(z))
            /\ state' = [state EXCEPT ![z] = "FULL"]
            /\ zrwav' = [zrwav EXCEPT ![z] = zrwav[z]]
        BY <1>0, <1>5, <2>2, <3>1 DEF FlushZrwa
      <4> QED BY <1>0, <4>1, GivesAll
    <3>2. CASE lba # Elba(z)
      <4>1. UNCHANGED <<state, zrwav, acquired>>
        BY <1>5, <2>2, <3>2 DEF FlushZrwa
      <4> QED BY <4>1 DEF CountInv, ZoneTypes, EmptyIsPlain, ResourcesTrue
    <3> QED BY <3>1, <3>2
  <2> QED BY <2>1, <2>2
<1> QED BY <1>1, <1>2, <1>3, <1>4, <1>5 DEF Manage

\* Writes.
LEMMA WritesKeep ==
  ASSUME CountInv, NEW z \in Zones, NEW n, NEW lba,
         \/ WriteZone(z, n) \/ WriteFails(z, lba, n) \/ WriteZrwaDies(z, lba, n)
         \/ WriteZrwaLater(z, lba, n) \/ WriteZrwa(z, lba, n)
  PROVE  CountInv'
<1>0. state[z] \in States
  BY DEF CountInv, ZoneTypes
<1>1. CASE WriteZone(z, n)
  <2> DEFINE c == Take(acquired, Wanted(z, FALSE))
             s == IF state[z] \in Open THEN state[z] ELSE "OPENED_IMPL"
  <2>1. state[z] # "FULL" /\ IncreaseWritePtr(z, n, c, s) /\ UNCHANGED zrwav
    BY <1>1 DEF WriteZone, Writable
  <2>2. s \in Open
    BY DEF Open
  <2>3. HasOpened(c, z)
    BY <2>1, WriteTakes
  <2> HIDE DEF c, s
  <2> QED BY <2>1, <2>2, <2>3, Increases
<1>2. CASE WriteFails(z, lba, n) \/ WriteZrwaDies(z, lba, n)
  <2>1. UNCHANGED descs
    BY <1>2 DEF WriteFails, WriteZrwaDies
  <2> QED BY <2>1, Unmoved
<1>3. CASE WriteZrwaLater(z, lba, n)
  <2>1. /\ zrwav[z] /\ state[z] # "FULL" /\ UNCHANGED zrwav
        /\ acquired' = CountsOpened(z)
        /\ state' = [state EXCEPT ![z] = StateOpened(z)]
    BY <1>3 DEF WriteZrwaLater, ZrwaWritable
  <2> QED BY <2>1, AreaTakes, Opens
<1>4. CASE WriteZrwa(z, lba, n)
  <2> DEFINE commit == ToCommit(z, lba + n - 1)
  <2>1. zrwav[z] /\ state[z] # "FULL" /\ UNCHANGED zrwav
    BY <1>4 DEF WriteZrwa, ZrwaWritable
  <2>2. HasOpened(CountsOpened(z), z) /\ StateOpened(z) \in Open
    BY <2>1, AreaTakes
  <2>3. CASE IncreaseWritePtr(z, commit, CountsOpened(z), StateOpened(z))
    <3> HIDE DEF commit
    <3> QED BY <2>1, <2>2, <2>3, Increases
  <2>4. CASE /\ acquired' = CountsOpened(z)
             /\ state' = [state EXCEPT ![z] = StateOpened(z)]
    BY <2>1, <2>2, <2>4, Opens
  <2> QED BY <1>4, <2>3, <2>4 DEF WriteZrwa
<1> QED BY <1>1, <1>2, <1>3, <1>4

------------------------------------------------------------------------------
\* A select-all command is at one of the zones.
SweepType == sweep \in Sweeps \cup {NoSweep}

LEMMA SweepTypes == Spec => []SweepType
<1>1. Init => SweepType
  BY DEF Init, SweepType
<1>2. SweepType /\ [Next]_vars => SweepType'
  <2> SUFFICES ASSUME SweepType, [Next]_vars PROVE SweepType'
    OBVIOUS
  <2>1. ASSUME NEW action \in Commands, NEW option \in BOOLEAN, NEW z \in Zones
        PROVE  After(action, option, z) \in Sweeps \cup {NoSweep}
    BY <2>1, ZnsAssumption DEF After, Sweeps, Zones
  <2>2. CASE Management
    <3>1. 0 \in Zones
      BY ZnsAssumption DEF Zones
    <3>2. PICK action \in Commands, option \in BOOLEAN :
            \/ \E z \in Zones : \E lba \in Lbas(z) : ManageOne(action, option, z, lba)
            \/ BeginSweep(action, option)
      BY <2>2 DEF Management
    <3>3. UNCHANGED sweep \/ sweep' = After(action, option, 0)
      BY <3>2 DEF ManageOne, BeginSweep
    <3> QED BY <2>1, <3>1, <3>3 DEF SweepType
  <2>3. CASE SweepZone
    <3>1. sweep \in Sweeps /\ sweep' = After(sweep.action, sweep.option, sweep.zone)
      BY <2>3 DEF SweepZone, SweepType
    <3>2. sweep.action \in Commands /\ sweep.option \in BOOLEAN /\ sweep.zone \in Zones
      BY <3>1 DEF Sweeps
    <3> QED BY <2>1, <3>1, <3>2 DEF SweepType
  <2>4. CASE Writes \/ Appends \/ (\E o \in Operations : Release(o)) \/ UNCHANGED vars
    <3>1. CASE Writes
      BY <3>1 DEF Writes, WriteFails, WriteZrwaDies, WriteZrwaLater, WriteZrwa, SweepType
    <3>2. CASE Appends
      BY <3>2 DEF Appends, WriteZone, WriteFails, SweepType
    <3>3. CASE (\E o \in Operations : Release(o)) \/ UNCHANGED vars
      BY <3>3 DEF Release, vars, SweepType
    <3> QED BY <2>4, <3>1, <3>2, <3>3
  <2> QED BY <2>2, <2>3, <2>4 DEF Next
<1> QED BY <1>1, <1>2, PTL DEF Spec

\* What the counts depend on is inductive.
LEMMA CountsKept == Spec => []CountInv
<1>1. Init => CountInv
  <2> SUFFICES ASSUME Init PROVE CountInv
    OBVIOUS
  <2>1. ZoneTypes /\ EmptyIsPlain
    BY DEF Init, ZoneTypes, EmptyIsPlain, States
  <2>2. /\ {z \in Zones : state[z] \in Active} = {}
        /\ {z \in Zones : state[z] \in Open} = {}
        /\ {z \in Zones : state[z] \in Active /\ zrwav[z]} = {}
    BY DEF Init, Active, Open
  <2>3. acquired["active"] = 0 /\ acquired["open"] = 0 /\ acquired["zrwa"] = 0
    BY TypeNames DEF Init
  <2>4. ResourcesTrue
    BY <2>2, <2>3, FS_EmptySet DEF ResourcesTrue
  <2> QED BY <2>1, <2>4 DEF CountInv
<1>2. CountInv /\ SweepType /\ [Next]_vars => CountInv'
  <2> SUFFICES ASSUME CountInv, SweepType, [Next]_vars PROVE CountInv'
    OBVIOUS
  <2>1. CASE Writes
    BY <2>1, WritesKeep DEF Writes
  <2>2. CASE Appends
    BY <2>2, WritesKeep DEF Appends
  <2>3. CASE Management
    <3>1. 0 \in Zones
      BY ZnsAssumption DEF Zones
    <3> QED BY <2>3, <3>1, ManageKeeps DEF Management, ManageOne, BeginSweep
  <2>4. CASE SweepZone
    <3>1. sweep \in Sweeps
      BY <2>4 DEF SweepZone, SweepType
    <3>2. sweep.option \in BOOLEAN /\ sweep.zone \in Zones
      BY <3>1 DEF Sweeps
    <3> QED BY <2>4, <3>2, ManageKeeps DEF SweepZone
  <2>5. CASE \E o \in Operations : Release(o)
    <3>1. UNCHANGED descs
      BY <2>5 DEF Release
    <3> QED BY <3>1, Unmoved
  <2>6. CASE UNCHANGED vars
    BY <2>6, Unmoved DEF vars
  <2> QED BY <2>1, <2>2, <2>3, <2>4, <2>5, <2>6 DEF Next
<1> QED BY <1>1, <1>2, SweepTypes, PTL DEF Spec

\* The counts of active and open zones are those of the zones, and the count
\* of random write areas is never less than there are, whatever the number
\* and sizes of zones (res_infos, release_zone_resource).
THEOREM ResourcesAlwaysTrue == Spec => []ResourcesTrue
<1>1. CountInv => ResourcesTrue
  BY DEF CountInv
<1> QED BY <1>1, CountsKept, PTL

(***************************************************************************)
(* The zones of the code implement the life of a zone: every command and   *)
(* every step of a select-all moves one zone as ZoneLife allows.           *)
(***************************************************************************)
\* The write pointer lies in its zone, and at its end only in a full one.
WpInv == /\ wp \in [Zones -> Int]
         /\ \A z \in Zones : /\ Zslba(z) <= wp[z] /\ wp[z] <= ZoneEnd(z)
                             /\ wp[z] = ZoneEnd(z) => state[z] = "FULL"

\* Zone z gets state s and write pointer w, as ZoneLife allows.
Moves(z, s, w) ==
  \/ state[z] # "FULL" /\ s \in Open /\ w = wp[z]
  \/ state[z] \in Open /\ s = "CLOSED" /\ w = wp[z]
  \/ s = "FULL" /\ w = wp[z]
  \/ s = "EMPTY" /\ w = Zslba(z)
  \/ /\ state[z] # "FULL" /\ wp[z] < w /\ w < ZoneEnd(z)
     /\ s \in Open \/ (s = "CLOSED" /\ s = state[z])
  \/ state[z] # "FULL" /\ w = ZoneEnd(z) /\ s = "FULL"
  \/ s = state[z] /\ w = wp[z]

------------------------------------------------------------------------------
\* Blocks and zones.
LEMMA Blocks ==
  ASSUME NEW z \in Zones
  PROVE  /\ Zslba(z) \in Nat /\ ZoneLbas \in Nat \ {0}
         /\ ZoneEnd(z) = Zslba(z) + ZoneLbas
         /\ Elba(z) = Zslba(z) + ZoneLbas - 1
<1>1. z \in Nat /\ ZoneLbas \in Nat \ {0}
  BY ZnsAssumption DEF Zones
<1>2. \A a, b \in Nat : a * b \in Nat
  OBVIOUS
<1>3. z * ZoneLbas \in Nat
  BY <1>1, <1>2
<1> QED BY <1>1, <1>3 DEF Zslba, ZoneEnd, Elba

LEMMA Quotient ==
  ASSUME NEW x \in Int, NEW m \in Nat \ {0}
  PROVE  /\ x \div m \in Int
         /\ m * (x \div m) <= x
         /\ x < m * (x \div m) + m
OBVIOUS

\* Of two blocks in the same zone by lba_to_zone, both are in zone z if one
\* is.
LEMMA SameZone ==
  ASSUME NEW z \in Zones, NEW x \in Int, NEW y \in Int,
         Zslba(z) <= x, x < ZoneEnd(z), ZoneOf(x) = ZoneOf(y)
  PROVE  y < ZoneEnd(z)
<1> DEFINE q == x \div ZoneLbas
<1>1. z \in Int /\ ZoneLbas \in Nat \ {0}
  BY ZnsAssumption DEF Zones
<1>2. /\ q \in Int
      /\ ZoneLbas * q <= x /\ y < ZoneLbas * q + ZoneLbas
  BY <1>1, Quotient DEF ZoneOf
<1>3. \A a, b \in Int, m \in Nat \ {0} : a > b => m * a >= m * b + m
  <2> SUFFICES ASSUME NEW a \in Int, NEW b \in Int, NEW m \in Nat \ {0}, a > b
               PROVE  m * a >= m * b + m
    OBVIOUS
  <2>1. PICK d \in Nat : a = b + 1 + d
    <3>1. a - b - 1 \in Nat /\ a = b + 1 + (a - b - 1)
      OBVIOUS
    <3> QED BY <3>1
  <2>2. m * a = m * b + m + m * d
    BY <2>1
  <2>3. m * d \in Nat /\ m * b \in Int
    OBVIOUS
  <2> QED BY <2>2, <2>3
<1> HIDE DEF q
<1>4. ZoneLbas * q \in Int /\ ZoneLbas * z \in Int /\ z * ZoneLbas = ZoneLbas * z
  BY <1>1, <1>2
<1>5. q <= z
  <2> SUFFICES ASSUME q > z PROVE FALSE
    BY <1>1, <1>2
  <2>1. ZoneLbas * q >= ZoneLbas * z + ZoneLbas
    BY <1>1, <1>2, <1>3
  <2>2. x < ZoneLbas * z + ZoneLbas
    BY <1>4 DEF ZoneEnd, Zslba
  <2> QED BY <1>1, <1>2, <1>4, <2>1, <2>2
<1>6. ZoneLbas * q <= ZoneLbas * z
  <2>1. CASE q = z
    BY <2>1, <1>4
  <2>2. CASE q < z
    <3>1. ZoneLbas * z >= ZoneLbas * q + ZoneLbas
      BY <1>1, <1>2, <1>3, <2>2
    <3> QED BY <3>1, <1>1, <1>4
  <2> QED BY <1>1, <1>2, <1>5, <2>1, <2>2
<1>7. y < ZoneLbas * z + ZoneLbas
  BY <1>1, <1>2, <1>4, <1>6
<1> QED BY <1>4, <1>7 DEF ZoneEnd, Zslba

\* What is committed in whole flush groups is not past the write.
LEMMA Rounded ==
  ASSUME NEW d \in Nat, NEW m \in Nat \ {0}
  PROVE  /\ ((d + m) \div m) * m \in Nat
         /\ ((d + m) \div m) * m <= d + m
         /\ ((d + m) \div m) * m > 0
<1> DEFINE q == (d + m) \div m
<1>1. /\ q \in Int
      /\ m * q <= d + m
      /\ d + m < m * q + m
  BY Quotient
<1> HIDE DEF q
<1>2. q * m = m * q /\ m * q \in Int
  BY <1>1
<1> QED BY <1>1, <1>2 DEF q

------------------------------------------------------------------------------
\* A move of one zone is a step of ZoneLife, and keeps the write pointers.
LEMMA OneMove ==
  ASSUME ZoneTypes, WpInv, NEW z \in Zones, NEW s \in States, NEW w \in Int,
         Moves(z, s, w), w = ZoneEnd(z) => s = "FULL",
         state' = [state EXCEPT ![z] = s],
         wp' = [wp EXCEPT ![z] = w]
  PROVE  WpInv' /\ Life!Next
<1>1. \A x \in Zones : /\ Zslba(x) \in Nat /\ ZoneLbas \in Nat \ {0}
                       /\ ZoneEnd(x) = Zslba(x) + ZoneLbas
  BY Blocks
<1>2. /\ state \in [Zones -> States] /\ wp \in [Zones -> Int]
      /\ \A x \in Zones : /\ Zslba(x) <= wp[x] /\ wp[x] <= ZoneEnd(x)
                          /\ wp[x] = ZoneEnd(x) => state[x] = "FULL"
  BY DEF ZoneTypes, WpInv
<1>3. /\ state' \in [Zones -> States] /\ wp' \in [Zones -> Int]
      /\ state'[z] = s /\ wp'[z] = w
      /\ \A x \in Zones \ {z} : state'[x] = state[x] /\ wp'[x] = wp[x]
  BY <1>2
<1>4. Zslba(z) <= w /\ w <= ZoneEnd(z)
  BY <1>1, <1>2 DEF Moves
<1>5. WpInv'
  BY <1>2, <1>3, <1>4 DEF WpInv
<1> DEFINE written == [x \in Zones |-> wp[x] - Zslba(x)]
           written1 == [x \in Zones |-> wp'[x] - Zslba(x)]
<1>6. /\ state' \in [Zones -> Life!States]
      /\ written1 \in [Zones -> 0 .. ZoneLbas]
  <2>1. States = Life!States
    BY DEF States, Active, Open, Life!States, Life!Active, Life!Open
  <2>2. \A x \in Zones : wp'[x] - Zslba(x) \in 0 .. ZoneLbas
    BY <1>1, <1>2, <1>3, <1>4
  <2> QED BY <1>3, <2>1, <2>2
<1>7. \A x \in Zones \ {z} : Life!Kept(x)
  BY <1>3 DEF Life!Kept
<1>8. Life!ZoneStep(z)
  <2>1. /\ written[z] = wp[z] - Zslba(z)
        /\ written1[z] = w - Zslba(z)
    BY <1>3
  <2>2. /\ Zslba(z) \in Int /\ wp[z] \in Int /\ ZoneLbas \in Int
        /\ ZoneEnd(z) = Zslba(z) + ZoneLbas
        /\ Zslba(z) <= wp[z] /\ wp[z] <= ZoneEnd(z)
        /\ wp[z] = ZoneEnd(z) => state[z] = "FULL"
    BY <1>1, <1>2
  <2>3. CASE state[z] # "FULL" /\ s \in Open /\ w = wp[z]
    <3>1. Life!Opened(z)
      BY <1>3, <2>1, <2>3 DEF Life!Opened, Life!Open, Open
    <3> QED BY <3>1 DEF Life!ZoneStep
  <2>4. CASE state[z] \in Open /\ s = "CLOSED" /\ w = wp[z]
    <3>1. Life!Closed(z)
      BY <1>3, <2>1, <2>4 DEF Life!Closed, Life!Open, Open
    <3> QED BY <3>1 DEF Life!ZoneStep
  <2>5. CASE s = "FULL" /\ w = wp[z]
    <3>1. Life!Finished(z)
      BY <1>3, <2>1, <2>5 DEF Life!Finished
    <3> QED BY <3>1 DEF Life!ZoneStep
  <2>6. CASE s = "EMPTY" /\ w = Zslba(z)
    <3>1. Life!Reset(z)
      BY <1>3, <2>1, <2>2, <2>6 DEF Life!Reset
    <3> QED BY <3>1 DEF Life!ZoneStep
  <2>7. CASE /\ state[z] # "FULL" /\ wp[z] < w /\ w < ZoneEnd(z)
             /\ s \in Open \/ (s = "CLOSED" /\ s = state[z])
    <3>1. w - Zslba(z) \in (wp[z] - Zslba(z) + 1) .. (ZoneLbas - 1)
      BY <2>2, <2>7
    <3>2. Life!Advanced(z)
      BY <1>3, <2>1, <2>7, <3>1 DEF Life!Advanced, Life!Open, Open
    <3> QED BY <3>2 DEF Life!ZoneStep
  <2>8. CASE state[z] # "FULL" /\ w = ZoneEnd(z) /\ s = "FULL"
    <3>1. w - Zslba(z) = ZoneLbas /\ wp[z] - Zslba(z) < ZoneLbas
      BY <2>2, <2>8
    <3>2. Life!Filled(z)
      BY <1>3, <2>1, <2>8, <3>1 DEF Life!Filled
    <3> QED BY <3>2 DEF Life!ZoneStep
  <2>9. CASE s = state[z] /\ w = wp[z]
    <3>1. Life!Kept(z)
      BY <1>3, <2>1, <2>9 DEF Life!Kept
    <3> QED BY <3>1 DEF Life!ZoneStep
  <2> QED BY <2>3, <2>4, <2>5, <2>6, <2>7, <2>8, <2>9 DEF Moves
<1>9. \A x \in Zones : Life!ZoneStep(x)
  BY <1>7, <1>8 DEF Life!ZoneStep
<1> QED BY <1>5, <1>6, <1>9 DEF Life!Next

\* A step that changes no descriptor.
LEMMA Still ==
  ASSUME WpInv, UNCHANGED <<state, wp>>
  PROVE  WpInv' /\ UNCHANGED Life!vars
BY DEF WpInv, Life!vars

\* An open or closed zone has room.
LEMMA RoomInZone ==
  ASSUME ZoneTypes, WpInv, NEW z \in Zones
  PROVE  /\ wp[z] \in Int /\ Zslba(z) \in Int /\ ZoneLbas \in Nat \ {0}
         /\ ZoneEnd(z) = Zslba(z) + ZoneLbas /\ Elba(z) = Zslba(z) + ZoneLbas - 1
         /\ Zslba(z) <= wp[z]
         /\ wp[z] <= ZoneEnd(z)
         /\ state[z] # "FULL" => wp[z] < ZoneEnd(z)
         /\ state[z] \in States
         /\ wp = [wp EXCEPT ![z] = wp[z]]
         /\ state = [state EXCEPT ![z] = state[z]]
<1>1. /\ Zslba(z) \in Nat /\ ZoneLbas \in Nat \ {0}
      /\ ZoneEnd(z) = Zslba(z) + ZoneLbas
      /\ Elba(z) = Zslba(z) + ZoneLbas - 1
  BY Blocks
<1>2. /\ wp \in [Zones -> Int] /\ wp[z] \in Int
      /\ Zslba(z) <= wp[z] /\ wp[z] <= ZoneEnd(z)
      /\ wp[z] = ZoneEnd(z) => state[z] = "FULL"
  BY DEF WpInv
<1>3. state \in [Zones -> States] /\ state[z] \in States
  BY DEF ZoneTypes
<1>4. state[z] # "FULL" => wp[z] < ZoneEnd(z)
  <2>1. ZoneEnd(z) \in Int
    BY <1>1
  <2> QED BY <1>2, <2>1
<1>5. wp = [wp EXCEPT ![z] = wp[z]]
  BY <1>2
<1>6. state = [state EXCEPT ![z] = state[z]]
  BY <1>3
<1> QED BY <1>1, <1>2, <1>3, <1>4, <1>5, <1>6

\* Management of one zone.
LEMMA ManageMoves ==
  ASSUME ZoneTypes, WpInv, NEW action, NEW option \in BOOLEAN, NEW z \in Zones,
         NEW lba \in Lbas(z), Manage(action, option, z, lba)
  PROVE  WpInv' /\ [Life!Next]_(Life!vars)
<1>0. /\ wp[z] \in Int /\ Zslba(z) \in Int /\ ZoneLbas \in Nat \ {0}
      /\ ZoneEnd(z) = Zslba(z) + ZoneLbas /\ Elba(z) = Zslba(z) + ZoneLbas - 1
      /\ state[z] # "FULL" => wp[z] < ZoneEnd(z)
      /\ state[z] \in States
      /\ wp = [wp EXCEPT ![z] = wp[z]]
      /\ state = [state EXCEPT ![z] = state[z]]
  BY RoomInZone
<1>1. {"CLOSED", "FULL", "EMPTY", "OPENED_EXPL"} \subseteq States
  BY DEF States, Active, Open
<1>2. CASE CloseZone(z)
  <2>1. CASE state[z] \in Open /\ state' = [state EXCEPT ![z] = "CLOSED"] /\ UNCHANGED wp
    <3>1. Moves(z, "CLOSED", wp[z]) /\ state[z] # "FULL"
      BY <2>1 DEF Moves, Open
    <3>2. wp' = [wp EXCEPT ![z] = wp[z]] /\ wp[z] # ZoneEnd(z)
      BY <1>0, <2>1, <3>1
    <3> QED BY <1>0, <1>1, <2>1, <3>1, <3>2, OneMove
  <2>2. CASE UNCHANGED descs
    BY <2>2, Still DEF descs
  <2> QED BY <1>2, <2>1, <2>2 DEF CloseZone
<1>3. CASE FinishZone(z)
  <2>1. Moves(z, "FULL", wp[z])
    BY DEF Moves
  <2>2. wp' = [wp EXCEPT ![z] = wp[z]] /\ state' = [state EXCEPT ![z] = "FULL"]
    BY <1>0, <1>3 DEF FinishZone
  <2> QED BY <1>0, <1>1, <2>1, <2>2, OneMove
<1>4. CASE OpenZone(z, option)
  <2>1. CASE UNCHANGED descs
    BY <2>1, Still DEF descs
  <2>2. CASE ~UNCHANGED descs
    <3>1. /\ state[z] # "FULL" /\ wp' = [wp EXCEPT ![z] = wp[z]]
          /\ state' = [state EXCEPT ![z] = "OPENED_EXPL"]
      BY <1>0, <1>4, <2>2 DEF OpenZone
    <3>2. Moves(z, "OPENED_EXPL", wp[z]) /\ wp[z] # ZoneEnd(z)
      BY <1>0, <3>1 DEF Moves, Open
    <3> QED BY <1>0, <1>1, <3>1, <3>2, OneMove
  <2> QED BY <2>1, <2>2
<1>5. CASE ResetZone(z)
  <2>1. Moves(z, "EMPTY", Zslba(z)) /\ Zslba(z) # ZoneEnd(z)
    BY <1>0 DEF Moves
  <2>2. wp' = [wp EXCEPT ![z] = Zslba(z)] /\ state' = [state EXCEPT ![z] = "EMPTY"]
    BY <1>5 DEF ResetZone
  <2> QED BY <1>0, <1>1, <2>1, <2>2, OneMove
<1>6. CASE FlushZrwa(z, lba)
  <2>1. CASE UNCHANGED descs
    BY <2>1, Still DEF descs
  <2>2. CASE ~UNCHANGED descs
    <3>1. /\ state[z] \in Active /\ lba >= wp[z]
          /\ wp' = [wp EXCEPT ![z] = lba + 1]
          /\ state' = IF lba = Elba(z) THEN [state EXCEPT ![z] = "FULL"] ELSE state
      BY <1>6, <2>2 DEF FlushZrwa, Flushable, InArea
    <3>2. lba \in Int /\ lba <= Elba(z) /\ state[z] # "FULL"
      BY <1>0, <3>1 DEF Lbas, Active, Open
    <3>3. CASE lba = Elba(z)
      <4>1. lba + 1 = ZoneEnd(z)
        BY <1>0, <3>3
      <4>2. Moves(z, "FULL", lba + 1)
        BY <3>2, <4>1 DEF Moves
      <4>3. state' = [state EXCEPT ![z] = "FULL"] /\ lba + 1 \in Int
        BY <3>1, <3>2, <3>3
      <4> QED BY <1>1, <3>1, <4>2, <4>3, OneMove
    <3>4. CASE lba # Elba(z)
      <4>1. wp[z] < lba + 1 /\ lba + 1 < ZoneEnd(z)
        BY <1>0, <3>1, <3>2, <3>4
      <4>2. Moves(z, state[z], lba + 1)
        BY <3>1, <3>2, <4>1 DEF Moves, Active
      <4>3. state' = [state EXCEPT ![z] = state[z]] /\ lba + 1 # ZoneEnd(z) /\ lba + 1 \in Int
        BY <1>0, <3>1, <3>2, <3>4, <4>1
      <4> QED BY <1>0, <3>1, <4>2, <4>3, OneMove
    <3> QED BY <3>3, <3>4
  <2> QED BY <2>1, <2>2
<1> QED BY <1>2, <1>3, <1>4, <1>5, <1>6 DEF Manage

\* __increase_write_ptr by at most what is left.
LEMMA IncreaseMoves ==
  ASSUME ZoneTypes, WpInv, NEW z \in Zones, NEW n \in Nat \ {0}, NEW c, NEW s \in Open,
         state[z] # "FULL", wp[z] + n <= ZoneEnd(z),
         IncreaseWritePtr(z, n, c, s)
  PROVE  WpInv' /\ Life!Next
<1>0. /\ wp[z] \in Int /\ ZoneEnd(z) \in Int
      /\ wp[z] + n \in Int
  BY RoomInZone
<1>1. "FULL" \in States /\ s \in States
  BY DEF States, Active
<1>2. CASE wp[z] + n = ZoneEnd(z)
  <2>1. state' = [state EXCEPT ![z] = "FULL"] /\ wp' = [wp EXCEPT ![z] = wp[z] + n]
    BY <1>2 DEF IncreaseWritePtr
  <2>2. Moves(z, "FULL", wp[z] + n)
    BY <1>2 DEF Moves
  <2> QED BY <1>0, <1>1, <2>1, <2>2, OneMove
<1>3. CASE wp[z] + n # ZoneEnd(z)
  <2>1. state' = [state EXCEPT ![z] = s] /\ wp' = [wp EXCEPT ![z] = wp[z] + n]
    BY <1>3 DEF IncreaseWritePtr
  <2>2. wp[z] < wp[z] + n /\ wp[z] + n < ZoneEnd(z)
    BY <1>0, <1>3
  <2>3. Moves(z, s, wp[z] + n)
    BY <2>2 DEF Moves
  <2> QED BY <1>0, <1>1, <1>3, <2>1, <2>3, OneMove
<1> QED BY <1>2, <1>3

\* A zone with a random write area that is opened by a write.
LEMMA OpenedMoves ==
  ASSUME ZoneTypes, WpInv, NEW z \in Zones, state[z] # "FULL",
         state' = [state EXCEPT ![z] = StateOpened(z)], UNCHANGED wp
  PROVE  WpInv' /\ Life!Next
<1>1. StateOpened(z) \in Open /\ StateOpened(z) \in States
  BY DEF StateOpened, AreaOpened, Open, States, Active
<1>2. Moves(z, StateOpened(z), wp[z])
  BY <1>1 DEF Moves
<1>3. wp[z] \in Int /\ wp[z] # ZoneEnd(z) /\ wp' = [wp EXCEPT ![z] = wp[z]]
  BY RoomInZone
<1> QED BY <1>1, <1>2, <1>3, OneMove

\* A commit of a random write area ends in the zone.
LEMMA CommitFits ==
  ASSUME ZoneTypes, WpInv, NEW z \in Zones, NEW e \in Int, state[z] # "FULL",
         wp[z] <= e, e < ZoneEnd(z),
         e >= ZrwaStart(z) => LbasPerZrwafg # 0
  PROVE  ToCommit(z, e) \in Nat /\ wp[z] + ToCommit(z, e) <= ZoneEnd(z)
<1>0. /\ wp[z] \in Int /\ ZoneEnd(z) \in Int /\ Elba(z) = ZoneEnd(z) - 1
      /\ wp[z] < ZoneEnd(z)
  BY RoomInZone
<1>1. LbasPerZrwa \in Nat /\ LbasPerZrwafg \in Nat /\ LbasPerZrwafg <= LbasPerZrwa
  BY ZnsAssumption
<1>2. CASE e >= ZrwaStart(z)
  <2> DEFINE d == e - ZrwaStart(z)
             k == ((d + LbasPerZrwafg) \div LbasPerZrwafg) * LbasPerZrwafg
  <2>1. d \in Nat /\ d = e - wp[z] - LbasPerZrwa
    BY <1>0, <1>1, <1>2 DEF ZrwaStart
  <2>2. LbasPerZrwafg \in Nat \ {0}
    BY <1>1, <1>2
  <2>3. ToCommit(z, e) = k
    BY <1>2 DEF ToCommit
  <2> HIDE DEF d
  <2>4. k \in Nat /\ k <= d + LbasPerZrwafg
    BY <2>1, <2>2, Rounded
  <2> HIDE DEF k
  <2>5. wp[z] + k <= ZoneEnd(z)
    BY <1>0, <1>1, <2>1, <2>4
  <2> QED BY <2>3, <2>4, <2>5
<1>3. CASE ~(e >= ZrwaStart(z))
  BY <1>0, <1>3 DEF ToCommit
<1> QED BY <1>2, <1>3

LEMMA WritesMove ==
  ASSUME ZoneTypes, WpInv, NEW z \in Zones, NEW n \in 1 .. MaxLen, NEW lba,
         \/ WriteZone(z, n)
         \/ WriteFails(z, lba, n)
         \/ lba \in Lbas(z) /\ ( \/ WriteZrwaDies(z, lba, n)
                                 \/ WriteZrwaLater(z, lba, n) \/ WriteZrwa(z, lba, n))
  PROVE  WpInv' /\ [Life!Next]_(Life!vars)
<1>0. /\ wp[z] \in Int /\ Zslba(z) \in Int /\ ZoneEnd(z) \in Int
      /\ Zslba(z) <= wp[z] /\ n \in Nat \ {0}
      /\ ZoneEnd(z) = Zslba(z) + ZoneLbas /\ Elba(z) = Zslba(z) + ZoneLbas - 1
      /\ state[z] # "FULL" => wp[z] < ZoneEnd(z)
      /\ ZoneLbas \in Int
  <2>1. MaxLen \in Nat
    BY ZnsAssumption
  <2> QED BY <2>1, RoomInZone
<1>1. CASE WriteZone(z, n)
  <2> DEFINE c == Take(acquired, Wanted(z, FALSE))
             s == IF state[z] \in Open THEN state[z] ELSE "OPENED_IMPL"
  <2>1. /\ state[z] # "FULL" /\ IncreaseWritePtr(z, n, c, s)
        /\ ZoneOf(wp[z]) = ZoneOf(wp[z] + n - 1)
    BY <1>1 DEF WriteZone, Writable
  <2>2. s \in Open
    BY DEF Open
  <2>3. wp[z] + n - 1 < ZoneEnd(z)
    BY <1>0, <2>1, SameZone
  <2>4. wp[z] + n <= ZoneEnd(z)
    BY <1>0, <2>3
  <2> HIDE DEF c, s
  <2> QED BY <1>0, <2>1, <2>2, <2>4, IncreaseMoves
<1>2. CASE WriteFails(z, lba, n) \/ WriteZrwaDies(z, lba, n)
  <2>1. UNCHANGED <<state, wp>>
    BY <1>2 DEF WriteFails, WriteZrwaDies, descs
  <2> QED BY <2>1, Still
<1>3. CASE WriteZrwaLater(z, lba, n)
  <2>1. /\ state[z] # "FULL" /\ UNCHANGED wp
        /\ state' = [state EXCEPT ![z] = StateOpened(z)]
    BY <1>3 DEF WriteZrwaLater, ZrwaWritable
  <2> QED BY <2>1, OpenedMoves
<1>4. CASE lba \in Lbas(z) /\ WriteZrwa(z, lba, n)
  <2> DEFINE e == lba + n - 1
             commit == ToCommit(z, e)
  <2>1. /\ state[z] # "FULL" /\ ZoneOf(lba) = ZoneOf(lba + n - 1) /\ lba >= wp[z]
        /\ e >= ZrwaStart(z) => LbasPerZrwafg # 0
    BY <1>4 DEF WriteZrwa, ZrwaWritable, ZrwaDies, NoGroups
  <2>2. lba \in Int /\ Zslba(z) <= lba /\ lba < ZoneEnd(z) /\ lba + n - 1 \in Int
    BY <1>0, <1>4 DEF Lbas
  <2>3. lba + n - 1 < ZoneEnd(z)
    BY <2>1, <2>2, SameZone
  <2>4. e \in Int /\ wp[z] <= e /\ e < ZoneEnd(z)
    BY <1>0, <2>1, <2>2, <2>3
  <2> HIDE DEF e
  <2>5. commit \in Nat /\ wp[z] + commit <= ZoneEnd(z)
    BY <2>1, <2>4, CommitFits
  <2>6. StateOpened(z) \in Open
    BY DEF StateOpened, AreaOpened, Open
  <2>7. CASE commit > 0
    <3>1. IncreaseWritePtr(z, commit, CountsOpened(z), StateOpened(z))
      BY <1>4, <2>7 DEF WriteZrwa, e
    <3> HIDE DEF commit
    <3>2. commit \in Nat \ {0}
      BY <2>5, <2>7
    <3> QED BY <2>1, <2>5, <2>6, <3>1, <3>2, IncreaseMoves
  <2>8. CASE ~(commit > 0)
    <3>1. UNCHANGED wp /\ state' = [state EXCEPT ![z] = StateOpened(z)]
      BY <1>4, <2>8 DEF WriteZrwa, e
    <3> QED BY <2>1, <3>1, OpenedMoves
  <2> QED BY <2>7, <2>8
<1> QED BY <1>1, <1>2, <1>3, <1>4

\* Every step moves one zone at most, and keeps the write pointers right.
LEMMA StepMoves ==
  ASSUME CountInv, SweepType, WpInv, [Next]_vars
  PROVE  WpInv' /\ [Life!Next]_(Life!vars)
<1>0. ZoneTypes
  BY DEF CountInv
<1>1. CASE Writes
  BY <1>0, <1>1, WritesMove DEF Writes
<1>2. CASE Appends
  BY <1>0, <1>2, WritesMove DEF Appends
<1>3. ASSUME NEW z \in Zones PROVE Zslba(z) \in Lbas(z)
  BY <1>3, Blocks DEF Lbas
<1>4. CASE Management
  <2>1. 0 \in Zones
    BY ZnsAssumption DEF Zones
  <2>2. PICK action \in Commands, option \in BOOLEAN :
          \/ \E z \in Zones : \E lba \in Lbas(z) : Manage(action, option, z, lba)
          \/ Manage(action, option, 0, Zslba(0))
    BY <1>4 DEF Management, ManageOne, BeginSweep
  <2>3. PICK z \in Zones : \E lba \in Lbas(z) : Manage(action, option, z, lba)
    BY <1>3, <2>1, <2>2
  <2> QED BY <1>0, <2>3, ManageMoves
<1>5. CASE SweepZone
  <2>1. sweep \in Sweeps
    BY <1>5 DEF SweepZone, SweepType
  <2>2. sweep.option \in BOOLEAN /\ sweep.zone \in Zones
    BY <2>1 DEF Sweeps
  <2>3. Manage(sweep.action, sweep.option, sweep.zone, Zslba(sweep.zone))
    BY <1>5 DEF SweepZone
  <2>4. Zslba(sweep.zone) \in Lbas(sweep.zone)
    BY <1>3, <2>2
  <2> QED BY <1>0, <2>2, <2>3, <2>4, ManageMoves
<1>6. CASE (\E o \in Operations : Release(o)) \/ UNCHANGED vars
  <2>1. UNCHANGED <<state, wp>>
    BY <1>6 DEF Release, vars, descs
  <2> QED BY <2>1, Still
<1> QED BY <1>1, <1>2, <1>4, <1>5, <1>6 DEF Next

------------------------------------------------------------------------------
\* The zones of zns_ftl.c live as ZoneLife says, for any number and size of
\* zones and any flush groups not larger than the random write area: written
\* forwards while active, full at the end, and empty only by a reset.
THEOREM ZonesImplementLife == Spec => ImplementsZoneLife
<1>1. Init => WpInv /\ Life!Init
  <2> SUFFICES ASSUME Init PROVE WpInv /\ Life!Init
    OBVIOUS
  <2>1. \A z \in Zones : /\ Zslba(z) \in Nat /\ ZoneLbas \in Nat \ {0}
                         /\ ZoneEnd(z) = Zslba(z) + ZoneLbas
    BY Blocks
  <2>2. WpInv
    BY <2>1 DEF Init, WpInv
  <2>3. Life!Init
    BY <2>1 DEF Init, Life!Init
  <2> QED BY <2>2, <2>3
<1>2. CountInv /\ SweepType /\ WpInv /\ [Next]_vars => WpInv' /\ [Life!Next]_(Life!vars)
  BY StepMoves
<1>3. Spec => []CountInv
  BY CountsKept
<1> QED BY <1>1, <1>2, <1>3, SweepTypes, PTL DEF Spec, ImplementsZoneLife, Life!Spec

(***************************************************************************)
(* Where the space of the write buffers is, when writes are of whole pages *)
(***************************************************************************)
WholePages == WriteUnit % SecsPerPg = 0

BufTypes == /\ wbuf \in [Bufs -> Int] /\ lost \in [Bufs -> Int]
            /\ inflight \in [Operations -> Int]

\* A zone without a random write area is written up to a page, and an empty
\* one not at all.
AlignedInv == \A z \in Zones : /\ ~zrwav[z] => (wp[z] - Zslba(z)) % SecsPerPg = 0
                               /\ state[z] = "EMPTY" => wp[z] = Zslba(z)

\* The zones that use buffer b, what their incomplete pages hold, and what
\* scheduled operations will give back to it.
Sharing(b) == {z \in Zones : BufOf(z) = b}
Parts(b) == [z \in Sharing(b) |-> Partial(z)]
Back(i, b, a) == i[<<"write", b, a>>] * a
ComingBack(i, b) == Back(i, b, OneshotLbas) + IF Unaligned = 0 THEN 0 ELSE Back(i, b, Unaligned)

Balanced(b) == \E g : /\ Sums(Sharing(b), Parts(b), g)
                      /\ wbuf[b] + ComingBack(inflight, b) + g[Sharing(b)] + lost[b] = WbLbas
Account == \A b \in Bufs : Balanced(b)

LEMMA SharingFinite ==
  /\ \A b \in Bufs : IsFiniteSet(Sharing(b)) /\ Sharing(b) \subseteq Zones
  /\ \A z \in Zones : BufOf(z) \in Bufs /\ z \in Sharing(BufOf(z))
  /\ \A b \in Bufs : \E z \in Zones : BufOf(z) = b
<1>1. IsFiniteSet(Zones) BY ZnsAssumption, FS_Interval DEF Zones
<1>2. 0 \in Zones BY ZnsAssumption DEF Zones
<1>3. QED BY <1>1, <1>2, FS_Subset DEF Sharing, Bufs, BufOf

LEMMA AmountsAre ==
  /\ OneshotLbas \in Nat \ {0} /\ Unaligned \in Nat /\ Unaligned < OneshotLbas
  /\ OneshotLbas \in Amounts
  /\ Unaligned # 0 => Unaligned \in Amounts
  /\ \A a \in Amounts : a = OneshotLbas \/ (a = Unaligned /\ Unaligned # 0)
<1>1. OneshotLbas \in Nat \ {0} /\ ZoneLbas \in Nat BY ZnsAssumption
<1>2. Unaligned \in Nat /\ Unaligned < OneshotLbas BY <1>1, Division DEF Unaligned
<1>3. QED BY <1>1, <1>2 DEF Amounts

LEMMA BackIn ==
  ASSUME NEW i \in [Operations -> Int], NEW b \in Bufs
  PROVE  /\ Back(i, b, OneshotLbas) \in Int
         /\ Unaligned # 0 => Back(i, b, Unaligned) \in Int
         /\ ComingBack(i, b) \in Int
<1>1. ASSUME NEW a \in Amounts PROVE Back(i, b, a) \in Int
  <2>1. <<"write", b, a>> \in Operations BY DEF Operations
  <2>2. i[<<"write", b, a>>] \in Int BY <2>1
  <2>3. a \in Int BY AmountsAre
  <2>4. QED BY <2>2, <2>3 DEF Back
<1>2. QED BY <1>1, AmountsAre DEF ComingBack

LEMMA PartialIn ==
  ASSUME WpInv, NEW z \in Zones
  PROVE  Partial(z) \in Nat
<1>1. wp[z] - Zslba(z) \in Nat /\ OneshotLbas \in Nat \ {0}
  BY Blocks, ZnsAssumption DEF WpInv
<1>2. (wp[z] - Zslba(z)) % OneshotLbas \in Nat BY <1>1, Division
<1>3. QED BY <1>2 DEF Partial

\* A step that changes the account of at most the buffer of zone z, of that
\* zone only, and keeps its balance.
LEMMA Balance ==
  ASSUME WpInv, WpInv', BufTypes, BufTypes', Account, NEW z \in Zones,
         \A x \in Zones \ {z} : Partial(x)' = Partial(x),
         \A b \in Bufs \ {BufOf(z)} : /\ wbuf'[b] = wbuf[b] /\ lost'[b] = lost[b]
                                      /\ ComingBack(inflight', b) = ComingBack(inflight, b),
         wbuf'[BufOf(z)] + ComingBack(inflight', BufOf(z)) + Partial(z)' + lost'[BufOf(z)]
           = wbuf[BufOf(z)] + ComingBack(inflight, BufOf(z)) + Partial(z) + lost[BufOf(z)]
  PROVE  Account'
<1>1. SUFFICES ASSUME NEW b \in Bufs PROVE Balanced(b)'
  BY DEF Account
<1>2. PICK g : /\ Sums(Sharing(b), Parts(b), g)
               /\ wbuf[b] + ComingBack(inflight, b) + g[Sharing(b)] + lost[b] = WbLbas
  BY DEF Account, Balanced
<1> DEFINE S == Sharing(b)
<1>3. IsFiniteSet(S) /\ S \subseteq Zones BY SharingFinite
<1>4. PICK p : p = Parts(b) OBVIOUS
<1>5. PICK q : q = Parts(b)' OBVIOUS
<1>6. /\ p = [x \in S |-> Partial(x)] /\ q = [x \in S |-> Partial(x)']
      /\ Sharing(b)' = S
  BY <1>4, <1>5 DEF Parts, Sharing, BufOf
<1>7. \A x \in S : p[x] \in Int /\ q[x] \in Int
  <2>1. ASSUME NEW x \in Zones PROVE Partial(x) \in Nat /\ Partial(x)' \in Nat
    <3>1. Partial(x) \in Nat BY PartialIn
    <3>2. wp'[x] - Zslba(x) \in Nat /\ OneshotLbas \in Nat \ {0}
      BY Blocks, ZnsAssumption DEF WpInv
    <3>3. (wp'[x] - Zslba(x)) % OneshotLbas \in Nat BY <3>2, Division
    <3>4. Partial(x)' = IF zrwav'[x] \/ wp'[x] = ZoneEnd(x) THEN 0
                        ELSE (wp'[x] - Zslba(x)) % OneshotLbas
      BY DEF Partial, ZoneEnd, Zslba
    <3>5. QED BY <3>1, <3>3, <3>4
  <2>2. QED BY <2>1, <1>3, <1>6
<1>8. PICK k : Sums(S, q, k) BY <1>3, SumsExist
<1>9. Sums(S, p, g) BY <1>2, <1>4
<1>10. /\ wbuf[b] \in Int /\ lost[b] \in Int /\ wbuf'[b] \in Int /\ lost'[b] \in Int
       /\ ComingBack(inflight, b) \in Int /\ ComingBack(inflight', b) \in Int /\ WbLbas \in Int
  BY ZnsAssumption, BackIn DEF BufTypes
<1>11. wbuf'[b] + ComingBack(inflight', b) + k[S] + lost'[b] = WbLbas
  <2>1. CASE b = BufOf(z)
    <3>1. z \in S /\ \A x \in S \ {z} : p[x] = q[x] BY <2>1, <1>3, <1>6, SharingFinite
    <3>2. k[S] - g[S] = q[z] - p[z] /\ k[S] \in Int /\ g[S] \in Int
      BY <1>3, <1>7, <1>8, <1>9, <3>1, SumChanges
    <3>3. q[z] = Partial(z)' /\ p[z] = Partial(z) /\ q[z] \in Int /\ p[z] \in Int
      BY <1>6, <1>7, <3>1
    <3>4. wbuf'[b] + ComingBack(inflight', b) + q[z] + lost'[b] = wbuf[b] + ComingBack(inflight, b) + p[z] + lost[b]
      BY <2>1, <3>3
    <3> HIDE DEF S
    <3>5. wbuf[b] + ComingBack(inflight, b) + g[S] + lost[b] = WbLbas BY <1>2 DEF S
    <3>6. QED BY <1>10, <3>2, <3>3, <3>4, <3>5
  <2>2. CASE b # BufOf(z)
    <3>1. \A x \in S : p[x] = q[x] BY <2>2, <1>3, <1>6 DEF Sharing
    <3>2. k[S] = g[S] BY <1>3, <1>8, <1>9, <3>1, SumSame
    <3>3. QED BY <1>2, <2>2, <3>2
  <2>3. QED BY <2>1, <2>2
<1>12. Sums(S, Parts(b)', k) BY <1>5, <1>8
<1>13. QED BY <1>6, <1>11, <1>12 DEF Balanced

\* A step that touches no account.
LEMMA NoAccount ==
  ASSUME WpInv, WpInv', BufTypes, Account, UNCHANGED <<wbuf, lost>>,
         inflight' \in [Operations -> Int],
         \A b \in Bufs, a \in Amounts : inflight'[<<"write", b, a>>] = inflight[<<"write", b, a>>],
         \A x \in Zones : Partial(x)' = Partial(x)
  PROVE  BufTypes' /\ Account'
<1>1. BufTypes' BY DEF BufTypes
<1>2. 0 \in Zones /\ BufOf(0) \in Bufs BY SharingFinite, ZnsAssumption DEF Zones
<1>3. \A b \in Bufs : ComingBack(inflight', b) = ComingBack(inflight, b)
  BY AmountsAre DEF ComingBack, Back
<1>4. QED BY <1>1, <1>2, <1>3, Balance

\* Descriptors that change for zone z only, which stays aligned.
LEMMA StaysAligned ==
  ASSUME AlignedInv, NEW z \in Zones,
         \A x \in Zones \ {z} : state'[x] = state[x] /\ wp'[x] = wp[x] /\ zrwav'[x] = zrwav[x],
         ~zrwav'[z] => (wp'[z] - Zslba(z)) % SecsPerPg = 0,
         state'[z] = "EMPTY" => wp'[z] = Zslba(z)
  PROVE  AlignedInv'
BY DEF AlignedInv, Zslba

\* x blocks are q pages.
Pages(q, x) == q \in Nat /\ x = q * SecsPerPg

LEMMA WholeZones ==
  ASSUME NEW z \in Zones
  PROVE  \E q : Pages(q, Zslba(z))
<1>1. /\ ZoneLbas \in Nat /\ SecsPerPg \in Nat \ {0} /\ ZoneLbas % SecsPerPg = 0 /\ z \in Nat
  BY ZnsAssumption DEF Zones
<1> DEFINE k == ZoneLbas \div SecsPerPg
<1>2. k \in Nat /\ ZoneLbas = k * SecsPerPg BY <1>1, Division
<1> HIDE DEF k
<1>3. z * ZoneLbas = (z * k) * SecsPerPg BY <1>1, <1>2
<1>4. z * k \in Nat BY <1>1, <1>2, ProductIn
<1>5. QED BY <1>1, <1>3, <1>4 DEF Zslba, Pages

LEMMA WholeWrite ==
  ASSUME WholePages, NEW n \in Nat, n % WriteUnit = 0
  PROVE  \E q : Pages(q, n)
<1>1. WriteUnit \in Nat \ {0} /\ SecsPerPg \in Nat \ {0} BY ZnsAssumption
<1> DEFINE a == n \div WriteUnit
           c == WriteUnit \div SecsPerPg
<1>2. a \in Nat /\ n = a * WriteUnit BY <1>1, Division
<1>3. c \in Nat /\ WriteUnit = c * SecsPerPg BY <1>1, Division DEF WholePages
<1> HIDE DEF a, c
<1>4. n = (a * c) * SecsPerPg BY <1>1, <1>2, <1>3
<1>5. a * c \in Nat BY <1>2, <1>3, ProductIn
<1>6. QED BY <1>4, <1>5 DEF Pages

\* The pages of a write of whole pages.
LEMMA PagesOf ==
  ASSUME NEW s \in Nat, NEW w \in Nat, NEW n \in Nat \ {0}, NEW a, NEW b, NEW c,
         Pages(a, s), Pages(b, w), Pages(c, n)
  PROVE  /\ PageStart(s + w) - s = w
         /\ PageStart(s + w + n - 1) + SecsPerPg - s = w + n
         /\ (w + n) % SecsPerPg = 0
<1>0. PICK p \in Nat \ {0} : p = SecsPerPg BY ZnsAssumption
<1>1. a \in Nat /\ s = a * p BY <1>0 DEF Pages
<1>2. b \in Nat /\ w = b * p BY <1>0 DEF Pages
<1>3. c \in Nat /\ n = c * p BY <1>0 DEF Pages
<1>3a. s \in Nat /\ w \in Nat /\ n \in Nat \ {0} BY <1>1, <1>2, <1>3, ProductIn
<1>4. a * p \in Nat /\ b * p \in Nat /\ c * p \in Nat BY <1>0, <1>1, <1>2, <1>3, ProductIn
<1>5. (a + b) * p = a * p + b * p /\ (b + c) * p = b * p + c * p BY <1>1, <1>2, <1>3, Distribute
<1>6. c # 0 BY <1>3
<1>7. (a + b + c - 1) * p = a * p + b * p + c * p - p
  <2>1. (a + b + (c - 1)) * p = (a + b) * p + (c - 1) * p /\ (c - 1) * p = c * p - 1 * p
    BY <1>1, <1>2, <1>3, Distribute
  <2>2. a + b + c - 1 = a + b + (c - 1) BY <1>1, <1>2, <1>3
  <2>3. QED BY <2>1, <2>2, <1>4, <1>5
<1> DEFINE d == a + b
           e == a + b + c - 1
           f == b + c
           r == p - 1
<1>8. /\ d \in Nat /\ e \in Nat /\ f \in Nat /\ r \in Nat /\ r < p /\ r + 1 = p
  BY <1>1, <1>2, <1>3, <1>6
<1>9. s + w = d * p /\ w + n = f * p BY <1>1, <1>2, <1>3, <1>5
<1>10. e * p = s + w + n - p
  <2> HIDE DEF e
  <2>1. e * p = a * p + b * p + c * p - p BY <1>7 DEF e
  <2>2. QED BY <2>1, <1>1, <1>2, <1>3
<1> HIDE DEF d, e, f, r
<1>11. (s + w) \div p = d
  <2>1. s + w = d * p /\ s + w \in Nat /\ d \in Nat BY <1>8, <1>9
  <2>2. QED BY <2>1, DivisionWhole
<1>12. (w + n) % p = 0
  <2> DEFINE x == w + n
  <2>1. x = f * p /\ x \in Nat /\ f \in Nat BY <1>8, <1>9
  <2> HIDE DEF x
  <2>2. \A y \in Nat, q \in Nat : y = q * p => y % p = 0 BY DivisionWhole
  <2>3. QED BY <2>1, <2>2 DEF x
<1>13. (s + w + n - 1) \div p = e
  <2> DEFINE y == e * p
             x == s + w + n - 1
  <2>1. y \in Nat BY <1>8, ProductIn
  <2>2. y = s + w + n - p BY <1>10
  <2> HIDE DEF y
  <2>3. x = y + r /\ x \in Nat BY <1>3a, <1>8, <2>1, <2>2
  <2> HIDE DEF x
  <2>4. x = e * p + r BY <2>3 DEF y
  <2>5. x \div p = e BY <2>3, <2>4, <1>8, DivisionIs
  <2>6. QED BY <2>5 DEF x
<1>14. PageStart(s + w) = s + w /\ PageStart(s + w + n - 1) = s + w + n - p
  BY <1>0, <1>9, <1>10, <1>11, <1>13 DEF PageStart
<1>15. QED BY <1>0, <1>3a, <1>8, <1>9, <1>12, <1>14

\* What a write of n blocks takes is what its programs will give back, and
\* what the incomplete page holds more than before.
LEMMA WriteBalance ==
  ASSUME NEW w \in Nat, NEW n \in Nat, NEW o \in Nat \ {0}, NEW l \in Nat
  PROVE  ((w + n) \div o - w \div o) * o + (IF w + n = l THEN l % o ELSE 0)
           + (IF w + n = l THEN 0 ELSE (w + n) % o) = n + (w % o)
<1>1. /\ w \div o \in Nat /\ w % o \in Nat /\ w = (w \div o) * o + (w % o)
  BY Division
<1>2. /\ (w + n) \div o \in Nat /\ (w + n) % o \in Nat /\ w + n = ((w + n) \div o) * o + ((w + n) % o)
  BY Division
<1> DEFINE a == w \div o
           b == (w + n) \div o
           r == (w + n) % o
<1>3. (b - a) * o = b * o - a * o
  <2>1. a \in Int /\ b \in Int BY <1>1, <1>2
  <2> HIDE DEF a, b
  <2>2. QED BY <2>1, Distribute
<1>4. a * o \in Nat /\ b * o \in Nat BY <1>1, <1>2, ProductIn
<1>5. (IF w + n = l THEN l % o ELSE 0) + (IF w + n = l THEN 0 ELSE (w + n) % o) = r
      /\ (IF w + n = l THEN l % o ELSE 0) \in Nat /\ (IF w + n = l THEN 0 ELSE (w + n) % o) \in Nat
  <2>1. CASE w + n = l BY <2>1, <1>2
  <2>2. CASE w + n # l BY <2>2, <1>2
  <2>3. QED BY <2>1, <2>2
<1> HIDE DEF a, b, r
<1>6. w = a * o + (w % o) /\ w + n = b * o + r /\ r \in Nat /\ w % o \in Nat
  BY <1>1, <1>2 DEF a, b, r
<1> DEFINE u == IF w + n = l THEN l % o ELSE 0
           v == IF w + n = l THEN 0 ELSE (w + n) % o
           m == w % o
           x == (b - a) * o
           y == a * o
           z == b * o
<1>7. /\ u + v = r /\ u \in Nat /\ v \in Nat /\ m \in Nat /\ r \in Nat
      /\ w = y + m /\ w + n = z + r /\ x = z - y /\ y \in Nat /\ z \in Nat
  BY <1>3, <1>4, <1>5, <1>6
<1> HIDE DEF u, v, m, x, y, z
<1>8. x + u + v = n + m BY <1>7
<1>9. QED BY <1>8 DEF a, b, u, v, m, x

BufferInv == BufTypes /\ AlignedInv /\ Account

\* A step that leaves every incomplete page and every buffer as it is.
LEMMA SameParts ==
  ASSUME WpInv, WpInv', BufferInv, UNCHANGED bufs, NEW z \in Zones,
         \A x \in Zones \ {z} : state'[x] = state[x] /\ wp'[x] = wp[x] /\ zrwav'[x] = zrwav[x],
         Partial(z)' = Partial(z),
         ~zrwav'[z] => (wp'[z] - Zslba(z)) % SecsPerPg = 0,
         state'[z] = "EMPTY" => wp'[z] = Zslba(z)
  PROVE  BufferInv'
<1>1. AlignedInv' BY StaysAligned DEF BufferInv
<1>2. \A x \in Zones : Partial(x)' = Partial(x) BY DEF Partial, ZoneEnd, Zslba
<1>3. BufTypes' /\ Account' BY <1>2, NoAccount DEF BufferInv, BufTypes, bufs
<1>4. QED BY <1>1, <1>3 DEF BufferInv

LEMMA ManageAccount ==
  ASSUME ZoneTypes, WpInv, WpInv', BufferInv, NEW action, NEW option \in BOOLEAN,
         NEW z \in Zones, NEW lba, Manage(action, option, z, lba)
  PROVE  BufferInv'
<1>1. /\ state \in [Zones -> States] /\ zrwav \in [Zones -> BOOLEAN] /\ wp \in [Zones -> Int]
      /\ ~zrwav[z] => (wp[z] - Zslba(z)) % SecsPerPg = 0
      /\ state[z] = "EMPTY" => wp[z] = Zslba(z)
  BY DEF ZoneTypes, WpInv, BufferInv, AlignedInv
<1>2. Zslba(z) \in Nat /\ ZoneLbas \in Nat \ {0} /\ ZoneEnd(z) = Zslba(z) + ZoneLbas
  BY Blocks
<1>3. /\ (Zslba(z) - Zslba(z)) % SecsPerPg = 0
      /\ (Zslba(z) - Zslba(z)) % OneshotLbas = 0
  <2>1. \A n \in Nat \ {0} : 0 % n = 0 BY DivisionWhole
  <2>2. SecsPerPg \in Nat \ {0} /\ OneshotLbas \in Nat \ {0} /\ Zslba(z) - Zslba(z) = 0
    BY <1>2, ZnsAssumption
  <2>3. QED BY <2>1, <2>2
<1>4. CASE UNCHANGED descs /\ UNCHANGED bufs
  <2>1. UNCHANGED <<state, wp, zrwav>> BY <1>4 DEF descs
  <2>2. Partial(z)' = Partial(z) BY <2>1 DEF Partial, ZoneEnd, Zslba
  <2>3. QED BY <1>1, <1>4, <2>1, <2>2, SameParts
<1>5. ASSUME NEW s \in States \ {"EMPTY"}, state' = [state EXCEPT ![z] = s],
             UNCHANGED <<wp, zrwav, bufs>>
      PROVE  BufferInv'
  <2>1. Partial(z)' = Partial(z) BY <1>5 DEF Partial, ZoneEnd, Zslba
  <2>2. state'[z] = s /\ \A x \in Zones \ {z} : state'[x] = state[x] BY <1>1, <1>5
  <2>3. QED BY <1>1, <1>5, <2>1, <2>2, SameParts
<1>6. CASE CloseZone(z)
  <2>1. "CLOSED" \in States \ {"EMPTY"} BY DEF States, Active
  <2>2. QED BY <1>4, <1>5, <1>6, <2>1 DEF CloseZone
<1>7. CASE FinishZone(z)
  <2>1. "FULL" \in States \ {"EMPTY"} BY DEF States
  <2>2. QED BY <1>5, <1>7, <2>1 DEF FinishZone
<1>8. CASE OpenZone(z, option)
  <2>1. CASE UNCHANGED descs /\ UNCHANGED bufs BY <1>4, <2>1
  <2>2. CASE ~(UNCHANGED descs /\ UNCHANGED bufs)
    <3>1. /\ state' = [state EXCEPT ![z] = "OPENED_EXPL"]
          /\ zrwav' = [zrwav EXCEPT ![z] = @ \/ "zrwa" \in Wanted(z, option)]
          /\ UNCHANGED <<wp, bufs>>
      BY <1>8, <2>2 DEF OpenZone
    <3>2. /\ state'[z] = "OPENED_EXPL" /\ zrwav'[z] = (zrwav[z] \/ "zrwa" \in Wanted(z, option))
          /\ \A x \in Zones \ {z} : state'[x] = state[x] /\ zrwav'[x] = zrwav[x]
      BY <1>1, <3>1
    <3>3. Partial(z)' = Partial(z)
      <4>1. CASE zrwav'[z] = zrwav[z] BY <3>1, <4>1 DEF Partial, ZoneEnd, Zslba
      <4>2. CASE zrwav'[z] # zrwav[z]
        <5>1. zrwav'[z] /\ "zrwa" \in Wanted(z, option) BY <1>1, <3>2, <4>2
        <5>2. wp[z] = Zslba(z) BY <1>1, <5>1 DEF Wanted
        <5>3. Partial(z) = 0 BY <1>3, <5>2 DEF Partial
        <5>4. Partial(z)' = 0 BY <5>1 DEF Partial
        <5>5. QED BY <5>3, <5>4
      <4>3. QED BY <4>1, <4>2
    <3>4. QED BY <1>1, <3>1, <3>2, <3>3, SameParts
  <2>3. QED BY <2>1, <2>2
<1>9. CASE ResetZone(z)
  <2>1. /\ state' = [state EXCEPT ![z] = "EMPTY"] /\ wp' = [wp EXCEPT ![z] = Zslba(z)]
        /\ zrwav' = [zrwav EXCEPT ![z] = FALSE]
        /\ lost' = [lost EXCEPT ![BufOf(z)] = @ + Partial(z)] /\ UNCHANGED <<wbuf, inflight>>
    BY <1>9 DEF ResetZone
  <2>2. /\ wp'[z] = Zslba(z) /\ ~zrwav'[z]
        /\ \A x \in Zones \ {z} : state'[x] = state[x] /\ wp'[x] = wp[x] /\ zrwav'[x] = zrwav[x]
    BY <1>1, <2>1
  <2>3. AlignedInv' BY <1>3, <2>2, StaysAligned DEF BufferInv
  <2>4. Partial(z)' = 0
    <3>1. Partial(z)' = IF zrwav'[z] \/ wp'[z] = ZoneEnd(z) THEN 0
                        ELSE (wp'[z] - Zslba(z)) % OneshotLbas
      BY DEF Partial, ZoneEnd, Zslba
    <3>2. QED BY <1>3, <2>2, <3>1
  <2>5. \A x \in Zones \ {z} : Partial(x)' = Partial(x) BY <2>2 DEF Partial, ZoneEnd, Zslba
  <2>6. lost \in [Bufs -> Int] /\ BufOf(z) \in Bufs /\ Partial(z) \in Int
    BY SharingFinite, PartialIn DEF BufferInv, BufTypes
  <2>7. BufTypes' BY <2>1, <2>6 DEF BufferInv, BufTypes
  <2>8. /\ lost'[BufOf(z)] = lost[BufOf(z)] + Partial(z)
        /\ \A b \in Bufs \ {BufOf(z)} : lost'[b] = lost[b]
    BY <2>1, <2>6
  <2>9. /\ wbuf[BufOf(z)] \in Int /\ lost[BufOf(z)] \in Int /\ ComingBack(inflight, BufOf(z)) \in Int
    BY <2>6, BackIn DEF BufferInv, BufTypes
  <2>10. wbuf'[BufOf(z)] + ComingBack(inflight', BufOf(z)) + Partial(z)' + lost'[BufOf(z)]
           = wbuf[BufOf(z)] + ComingBack(inflight, BufOf(z)) + Partial(z) + lost[BufOf(z)]
    BY <2>1, <2>4, <2>6, <2>8, <2>9
  <2>11. Account' BY <2>1, <2>5, <2>7, <2>8, <2>10, Balance DEF BufferInv
  <2>12. QED BY <2>3, <2>7, <2>11 DEF BufferInv
<1>10. CASE FlushZrwa(z, lba)
  <2>1. CASE UNCHANGED descs /\ UNCHANGED bufs BY <1>4, <2>1
  <2>2. CASE ~(UNCHANGED descs /\ UNCHANGED bufs)
    <3>1. /\ zrwav[z] /\ state[z] \in Active /\ UNCHANGED <<zrwav, bufs>>
          /\ wp' = [wp EXCEPT ![z] = lba + 1]
          /\ state' = IF lba = Elba(z) THEN [state EXCEPT ![z] = "FULL"] ELSE state
      BY <1>10, <2>2 DEF FlushZrwa, Flushable, InArea
    <3>2. /\ state'[z] # "EMPTY" /\ zrwav'[z]
          /\ \A x \in Zones \ {z} : state'[x] = state[x] /\ wp'[x] = wp[x] /\ zrwav'[x] = zrwav[x]
      BY <1>1, <3>1 DEF Active, Open
    <3>3. Partial(z)' = Partial(z) BY <3>1, <3>2 DEF Partial
    <3>4. QED BY <3>1, <3>2, <3>3, SameParts
  <2>3. QED BY <2>1, <2>2
<1>11. QED BY <1>6, <1>7, <1>8, <1>9, <1>10 DEF Manage

\* What Schedule makes of the operations.
LEMMA Scheduled ==
  ASSUME BufTypes, NEW b \in Bufs, NEW c, \A a \in Amounts : c[a] \in Int,
         Schedule("write", b, c)
  PROVE  /\ inflight' \in [Operations -> Int]
         /\ \A d \in Bufs \ {b} : ComingBack(inflight', d) = ComingBack(inflight, d)
         /\ ComingBack(inflight', b) = ComingBack(inflight, b) + c[OneshotLbas] * OneshotLbas
                                       + IF Unaligned = 0 THEN 0 ELSE c[Unaligned] * Unaligned
<1>1. /\ inflight \in [Operations -> Int]
      /\ inflight' = [o \in Operations |-> IF o[1] = "write" /\ o[2] = b THEN inflight[o] + c[o[3]]
                                           ELSE inflight[o]]
  BY DEF BufTypes, Schedule
<1>2. ASSUME NEW o \in Operations PROVE o[3] \in Amounts BY DEF Operations
<1>3. inflight' \in [Operations -> Int]
  <2>1. ASSUME NEW o \in Operations
        PROVE  (IF o[1] = "write" /\ o[2] = b THEN inflight[o] + c[o[3]] ELSE inflight[o]) \in Int
    <3>1. inflight[o] \in Int /\ c[o[3]] \in Int BY <1>1, <1>2
    <3>2. QED BY <3>1
  <2>2. QED BY <1>1, <2>1
<1>4. ASSUME NEW d \in Bufs, NEW a \in Amounts
      PROVE  Back(inflight', d, a) = Back(inflight, d, a) + IF d = b THEN c[a] * a ELSE 0
  <2> DEFINE o == <<"write", d, a>>
  <2>1. o \in Operations /\ o[1] = "write" /\ o[2] = d /\ o[3] = a BY DEF Operations
  <2>2. inflight[o] \in Int /\ c[a] \in Int /\ a \in Int BY <1>1, <2>1, AmountsAre
  <2>3. inflight'[o] = IF d = b THEN inflight[o] + c[a] ELSE inflight[o]
    BY <1>1, <2>1
  <2>4. Back(inflight', d, a) = inflight'[o] * a /\ Back(inflight, d, a) = inflight[o] * a
    BY DEF Back
  <2> HIDE DEF o
  <2>5. (inflight[o] + c[a]) * a = inflight[o] * a + c[a] * a BY <2>2, Distribute
  <2>6. inflight[o] * a \in Int BY <2>2
  <2>7. QED BY <2>3, <2>4, <2>5, <2>6
<1>5. ASSUME NEW d \in Bufs \ {b}
      PROVE  ComingBack(inflight', d) = ComingBack(inflight, d)
  <2>1. ASSUME NEW a \in Amounts PROVE Back(inflight', d, a) = Back(inflight, d, a)
    <3>1. Back(inflight, d, a) \in Int
      <4>1. <<"write", d, a>> \in Operations BY DEF Operations
      <4>2. QED BY <1>1, <4>1, AmountsAre DEF Back
    <3>2. QED BY <1>4, <3>1
  <2>2. QED BY <2>1, AmountsAre DEF ComingBack
<1>6. ComingBack(inflight', b) = ComingBack(inflight, b) + c[OneshotLbas] * OneshotLbas
                                 + IF Unaligned = 0 THEN 0 ELSE c[Unaligned] * Unaligned
  <2> DEFINE x == Back(inflight, b, OneshotLbas)
             y == IF Unaligned = 0 THEN 0 ELSE Back(inflight, b, Unaligned)
             x1 == Back(inflight', b, OneshotLbas)
             y1 == IF Unaligned = 0 THEN 0 ELSE Back(inflight', b, Unaligned)
             p == c[OneshotLbas] * OneshotLbas
             q == IF Unaligned = 0 THEN 0 ELSE c[Unaligned] * Unaligned
  <2>1. x \in Int /\ y \in Int BY <1>1, BackIn
  <2>2. p \in Int /\ q \in Int
    <3>1. c[OneshotLbas] \in Int /\ (Unaligned # 0 => c[Unaligned] \in Int) BY AmountsAre
    <3>2. QED BY <3>1, AmountsAre
  <2>3. x1 = x + p BY <1>4, AmountsAre
  <2>4. y1 = y + q
    <3>1. CASE Unaligned = 0 BY <3>1
    <3>2. CASE Unaligned # 0
      <4>1. Back(inflight', b, Unaligned) = Back(inflight, b, Unaligned) + c[Unaligned] * Unaligned
        BY <1>4, <3>2, AmountsAre
      <4>2. QED BY <3>2, <4>1
    <3>3. QED BY <3>1, <3>2
  <2>5. ComingBack(inflight', b) = x1 + y1 /\ ComingBack(inflight, b) = x + y BY DEF ComingBack
  <2> HIDE DEF x, y, x1, y1, p, q
  <2>6. ComingBack(inflight', b) = ComingBack(inflight, b) + p + q
    BY <2>1, <2>2, <2>3, <2>4, <2>5
  <2>7. QED BY <2>6 DEF p, q
<1>7. QED BY <1>3, <1>5, <1>6

\* A write to a zone in whole pages.
LEMMA WriteAccount ==
  ASSUME WholePages, ZoneTypes, WpInv, WpInv', BufferInv,
         NEW z \in Zones, NEW n \in 1 .. MaxLen, WriteZone(z, n)
  PROVE  BufferInv'
<1> DEFINE b == BufOf(z)
           w == wp[z] - Zslba(z)
           c == Programs(w, w + n)
<1>1. /\ state \in [Zones -> States] /\ zrwav \in [Zones -> BOOLEAN] /\ wp \in [Zones -> Int]
      /\ wbuf \in [Bufs -> Int] /\ lost \in [Bufs -> Int] /\ b \in Bufs
      /\ n \in Nat \ {0} /\ OneshotLbas \in Nat \ {0} /\ ZoneLbas \in Nat \ {0}
  BY SharingFinite, ZnsAssumption DEF ZoneTypes, WpInv, BufferInv, BufTypes
<1>2. /\ ~zrwav[z] /\ state[z] # "FULL" /\ n % WriteUnit = 0
      /\ wbuf' = [wbuf EXCEPT ![b] = @ - n] /\ UNCHANGED <<zrwav, lost>>
      /\ wp' = [wp EXCEPT ![z] = @ + n]
      /\ state' = [state EXCEPT ![z] = IF wp[z] + n = ZoneEnd(z) THEN "FULL"
                                       ELSE IF state[z] \in Open THEN state[z] ELSE "OPENED_IMPL"]
      /\ Schedule("write", b, Programs(PageStart(wp[z]) - Zslba(z),
                                       PageStart(wp[z] + n - 1) + SecsPerPg - Zslba(z)))
  BY DEF WriteZone, Writable, IncreaseWritePtr
<1>3. Zslba(z) \in Nat /\ ZoneEnd(z) = Zslba(z) + ZoneLbas /\ w \in Nat /\ wp[z] = Zslba(z) + w
      /\ w # ZoneLbas
  BY <1>2, Blocks DEF WpInv
<1> HIDE DEF w
<1>4. w % SecsPerPg = 0 BY <1>2 DEF BufferInv, AlignedInv, w
<1>5. /\ PageStart(wp[z]) - Zslba(z) = w
      /\ PageStart(wp[z] + n - 1) + SecsPerPg - Zslba(z) = w + n
      /\ (w + n) % SecsPerPg = 0
  <2> DEFINE s == Zslba(z)
  <2>1. PICK i : Pages(i, s) BY WholeZones
  <2>2. PICK j : Pages(j, n) BY <1>1, <1>2, WholeWrite
  <2>3. PICK k : Pages(k, w)
    <3>1. SecsPerPg \in Nat \ {0} BY ZnsAssumption
    <3>2. w = (w \div SecsPerPg) * SecsPerPg + (w % SecsPerPg) /\ w \div SecsPerPg \in Nat
      BY <1>3, <3>1, Division
    <3> DEFINE q == w \div SecsPerPg
    <3>3. q \in Nat /\ w = q * SecsPerPg + 0 BY <1>4, <3>2
    <3> HIDE DEF q
    <3>4. w = q * SecsPerPg BY <3>1, <3>3
    <3>5. QED BY <3>3, <3>4 DEF Pages
  <2>4. wp[z] = s + w /\ s \in Nat /\ w \in Nat /\ n \in Nat \ {0} BY <1>1, <1>3
  <2> HIDE DEF s
  <2>5. /\ PageStart(s + w) - s = w
        /\ PageStart(s + w + n - 1) + SecsPerPg - s = w + n
        /\ (w + n) % SecsPerPg = 0
    BY <2>1, <2>2, <2>3, <2>4, PagesOf
  <2>6. QED BY <2>4, <2>5 DEF s
<1>6. Schedule("write", b, c) BY <1>2, <1>5
<1>7. /\ c[OneshotLbas] = (w + n) \div OneshotLbas - w \div OneshotLbas
      /\ Unaligned # 0 => c[Unaligned] = IF w + n = ZoneLbas THEN 1 ELSE 0
      /\ \A a \in Amounts : c[a] \in Int
  <2>1. (w + n) \div OneshotLbas \in Nat /\ w \div OneshotLbas \in Nat
    <3>1. \A m \in Nat : m \div OneshotLbas \in Nat BY <1>1, Division
    <3>2. QED BY <1>1, <1>3, <3>1
  <2>2. QED BY <2>1, AmountsAre DEF Programs
<1> HIDE DEF c
<1>8. /\ inflight' \in [Operations -> Int]
      /\ \A d \in Bufs \ {b} : ComingBack(inflight', d) = ComingBack(inflight, d)
      /\ ComingBack(inflight', b) = ComingBack(inflight, b) + c[OneshotLbas] * OneshotLbas
                                    + IF Unaligned = 0 THEN 0 ELSE c[Unaligned] * Unaligned
  BY <1>1, <1>6, <1>7, Scheduled DEF BufferInv
<1>9. /\ wp'[z] = wp[z] + n /\ ~zrwav'[z] /\ state'[z] # "EMPTY"
      /\ \A x \in Zones \ {z} : state'[x] = state[x] /\ wp'[x] = wp[x] /\ zrwav'[x] = zrwav[x]
      /\ wbuf'[b] = wbuf[b] - n /\ \A d \in Bufs \ {b} : wbuf'[d] = wbuf[d]
      /\ wbuf' \in [Bufs -> Int]
  BY <1>1, <1>2 DEF Open
<1>10. wp'[z] - Zslba(z) = w + n BY <1>1, <1>3, <1>9
<1>11. AlignedInv' BY <1>5, <1>9, <1>10, StaysAligned DEF BufferInv
<1>12. BufTypes' BY <1>1, <1>2, <1>8, <1>9 DEF BufTypes
<1>13. \A x \in Zones \ {z} : Partial(x)' = Partial(x) BY <1>9 DEF Partial, ZoneEnd, Zslba
<1>14. /\ Partial(z) = w % OneshotLbas
       /\ Partial(z)' = IF w + n = ZoneLbas THEN 0 ELSE (w + n) % OneshotLbas
  <2>1. Partial(z) = IF wp[z] = ZoneEnd(z) THEN 0 ELSE (wp[z] - Zslba(z)) % OneshotLbas
    BY <1>2 DEF Partial
  <2>2. Partial(z)' = IF wp'[z] = ZoneEnd(z) THEN 0 ELSE (wp'[z] - Zslba(z)) % OneshotLbas
    BY <1>9 DEF Partial, ZoneEnd, Zslba
  <2>3. wp[z] - Zslba(z) = w /\ wp[z] # ZoneEnd(z) /\ (wp'[z] = ZoneEnd(z) <=> w + n = ZoneLbas)
    BY <1>1, <1>3, <1>9
  <2>4. QED BY <1>10, <2>1, <2>2, <2>3
<1>15. c[OneshotLbas] * OneshotLbas + (IF Unaligned = 0 THEN 0 ELSE c[Unaligned] * Unaligned)
         + Partial(z)' = n + Partial(z)
  <2>1. ((w + n) \div OneshotLbas - w \div OneshotLbas) * OneshotLbas
          + (IF w + n = ZoneLbas THEN ZoneLbas % OneshotLbas ELSE 0)
          + (IF w + n = ZoneLbas THEN 0 ELSE (w + n) % OneshotLbas) = n + (w % OneshotLbas)
    <3>1. \A o \in Nat \ {0}, l \in Nat :
            ((w + n) \div o - w \div o) * o + (IF w + n = l THEN l % o ELSE 0)
              + (IF w + n = l THEN 0 ELSE (w + n) % o) = n + (w % o)
      BY <1>1, <1>3, WriteBalance
    <3>2. QED BY <1>1, <3>1
  <2>2. (IF Unaligned = 0 THEN 0 ELSE c[Unaligned] * Unaligned)
          = IF w + n = ZoneLbas THEN ZoneLbas % OneshotLbas ELSE 0
    <3>1. CASE Unaligned = 0 BY <3>1 DEF Unaligned
    <3>2. CASE Unaligned # 0
      <4>1. 1 * Unaligned = Unaligned /\ 0 * Unaligned = 0 BY AmountsAre
      <4>2. QED BY <1>7, <3>2, <4>1 DEF Unaligned
    <3>3. QED BY <3>1, <3>2
  <2>3. QED BY <1>7, <1>14, <2>1, <2>2
<1>16. wbuf'[b] + ComingBack(inflight', b) + Partial(z)' + lost'[b]
         = wbuf[b] + ComingBack(inflight, b) + Partial(z) + lost[b]
  <2> DEFINE p == c[OneshotLbas] * OneshotLbas
             q == IF Unaligned = 0 THEN 0 ELSE c[Unaligned] * Unaligned
  <2>1. p \in Int /\ q \in Int BY <1>7, AmountsAre
  <2>2. /\ Partial(z) \in Int /\ Partial(z)' \in Int
    <3>1. w % OneshotLbas \in Nat /\ (w + n) % OneshotLbas \in Nat BY <1>1, <1>3, Division
    <3>2. QED BY <1>14, <3>1
  <2>3. /\ wbuf[b] \in Int /\ lost[b] \in Int /\ lost'[b] = lost[b]
        /\ ComingBack(inflight, b) \in Int
    BY <1>1, <1>2, BackIn DEF BufferInv, BufTypes
  <2>4. ComingBack(inflight', b) = ComingBack(inflight, b) + p + q BY <1>8
  <2>5. p + q + Partial(z)' = n + Partial(z) BY <1>15
  <2> HIDE DEF p, q
  <2>6. QED BY <1>1, <1>9, <2>1, <2>2, <2>3, <2>4, <2>5
<1>17. Account'
  <2>1. \A d \in Bufs \ {BufOf(z)} : /\ wbuf'[d] = wbuf[d] /\ lost'[d] = lost[d]
                                     /\ ComingBack(inflight', d) = ComingBack(inflight, d)
    BY <1>2, <1>8, <1>9
  <2>2. QED BY <1>12, <1>13, <1>16, <2>1, Balance DEF BufferInv
<1>18. QED BY <1>11, <1>12, <1>17 DEF BufferInv

\* A write that fails takes its space, for good.
LEMMA FailsAccount ==
  ASSUME ZoneTypes, WpInv, WpInv', BufferInv,
         NEW z \in Zones, NEW n \in 1 .. MaxLen, NEW lba, WriteFails(z, lba, n)
  PROVE  BufferInv'
<1>1. /\ wbuf \in [Bufs -> Int] /\ lost \in [Bufs -> Int] /\ BufOf(z) \in Bufs /\ n \in Int
  BY SharingFinite DEF BufferInv, BufTypes
<1>2. /\ wbuf' = [wbuf EXCEPT ![BufOf(z)] = @ - n] /\ lost' = [lost EXCEPT ![BufOf(z)] = @ + n]
      /\ UNCHANGED <<state, wp, zrwav, inflight>>
  BY DEF WriteFails, descs
<1>3. BufTypes' BY <1>1, <1>2 DEF BufferInv, BufTypes
<1>4. AlignedInv' BY <1>2 DEF BufferInv, AlignedInv, Zslba
<1>5. \A x \in Zones : Partial(x)' = Partial(x) BY <1>2 DEF Partial, ZoneEnd, Zslba
<1>6. /\ wbuf'[BufOf(z)] = wbuf[BufOf(z)] - n /\ lost'[BufOf(z)] = lost[BufOf(z)] + n
      /\ \A b \in Bufs \ {BufOf(z)} : wbuf'[b] = wbuf[b] /\ lost'[b] = lost[b]
  BY <1>1, <1>2
<1>7. /\ wbuf[BufOf(z)] \in Int /\ lost[BufOf(z)] \in Int /\ ComingBack(inflight, BufOf(z)) \in Int
      /\ Partial(z) \in Int
  BY <1>1, BackIn, PartialIn DEF BufferInv, BufTypes
<1>8. wbuf'[BufOf(z)] + ComingBack(inflight', BufOf(z)) + Partial(z)' + lost'[BufOf(z)]
        = wbuf[BufOf(z)] + ComingBack(inflight, BufOf(z)) + Partial(z) + lost[BufOf(z)]
  BY <1>1, <1>2, <1>5, <1>6, <1>7
<1>9. Account' BY <1>2, <1>3, <1>5, <1>6, <1>8, Balance DEF BufferInv
<1>10. QED BY <1>3, <1>4, <1>9 DEF BufferInv

\* What a commit schedules for the buffer of a random write area.
LEMMA CommitScheduled ==
  ASSUME ZoneTypes, WpInv, BufferInv, NEW z \in Zones, NEW n \in 1 .. MaxLen, NEW lba \in Lbas(z),
         WriteZrwa(z, lba, n)
  PROVE  /\ inflight' \in [Operations -> Int]
         /\ \A b \in Bufs, a \in Amounts : inflight'[<<"write", b, a>>] = inflight[<<"write", b, a>>]
<1> DEFINE e == lba + n - 1
           commit == ToCommit(z, e)
           c == Commits(z, wp[z], commit)
<1>1. /\ wp[z] \in Int /\ Zslba(z) \in Int /\ ZoneEnd(z) \in Int /\ n \in Nat \ {0}
      /\ ZoneEnd(z) = Zslba(z) + ZoneLbas /\ Elba(z) = Zslba(z) + ZoneLbas - 1 /\ ZoneLbas \in Int
      /\ SecsPerPg \in Nat \ {0} /\ OneshotLbas \in Nat \ {0}
  BY ZnsAssumption, RoomInZone
<1>2. /\ state[z] # "FULL" /\ ZoneOf(lba) = ZoneOf(lba + n - 1) /\ lba >= wp[z]
      /\ e >= ZrwaStart(z) => LbasPerZrwafg # 0
      /\ Schedule("zrwa", z, c)
  BY DEF WriteZrwa, ZrwaWritable, ZrwaDies, NoGroups
<1>3. lba \in Int /\ Zslba(z) <= lba /\ lba < ZoneEnd(z) /\ lba + n - 1 \in Int
  BY <1>1 DEF Lbas
<1>4. lba + n - 1 < ZoneEnd(z) BY <1>2, <1>3, SameZone
<1>5. e \in Int /\ wp[z] <= e /\ e < ZoneEnd(z) BY <1>1, <1>2, <1>3, <1>4
<1> HIDE DEF e
<1>6. commit \in Nat BY <1>2, <1>5, CommitFits
<1> HIDE DEF commit
<1>7. ASSUME NEW a \in Amounts PROVE c[a] \in Int
  <2>1. /\ \A x \in Int : x \div SecsPerPg \in Int
        /\ \A x \in Int : x \div OneshotLbas \in Int
    BY <1>1, Quotient
  <2> DEFINE f == PageStart(wp[z]) - Zslba(z)
             p == commit \div SecsPerPg
             g == f + p * SecsPerPg
  <2>2. p \in Int BY <1>6, <2>1
  <2>3. f \in Int
    <3>1. wp[z] \div SecsPerPg \in Int BY <1>1, <2>1
    <3> DEFINE u == wp[z] \div SecsPerPg
    <3> HIDE DEF u
    <3>2. u * SecsPerPg \in Int BY <1>1, <3>1 DEF u
    <3>3. QED BY <1>1, <3>2 DEF PageStart, u
  <2> HIDE DEF f, p
  <2>4. g \in Int BY <1>1, <2>2, <2>3
  <2>5. c[a] = IF a = OneshotLbas THEN (g \div OneshotLbas) - (f \div OneshotLbas) ELSE 0
    BY DEF Commits, f, p
  <2> HIDE DEF g
  <2>6. g \div OneshotLbas \in Int /\ f \div OneshotLbas \in Int BY <2>1, <2>3, <2>4
  <2>7. QED BY <2>5, <2>6
<1> HIDE DEF c
<1>8. /\ inflight \in [Operations -> Int]
      /\ inflight' = [o \in Operations |-> IF o[1] = "zrwa" /\ o[2] = z THEN inflight[o] + c[o[3]]
                                           ELSE inflight[o]]
  BY <1>2 DEF BufferInv, BufTypes, Schedule
<1>9. ASSUME NEW o \in Operations
      PROVE  (IF o[1] = "zrwa" /\ o[2] = z THEN inflight[o] + c[o[3]] ELSE inflight[o]) \in Int
  <2>1. o[3] \in Amounts BY DEF Operations
  <2>2. inflight[o] \in Int /\ c[o[3]] \in Int BY <1>7, <1>8, <2>1
  <2>3. QED BY <2>2
<1>10. inflight' \in [Operations -> Int] BY <1>8, <1>9
<1>11. ASSUME NEW b \in Bufs, NEW a \in Amounts
       PROVE  inflight'[<<"write", b, a>>] = inflight[<<"write", b, a>>]
  <2>1. <<"write", b, a>> \in Operations /\ <<"write", b, a>>[1] # "zrwa" BY DEF Operations
  <2>2. QED BY <1>8, <2>1
<1>12. QED BY <1>10, <1>11

\* A write into a random write area takes nothing of the write buffer.
LEMMA AreaAccount ==
  ASSUME ZoneTypes, WpInv, WpInv', BufferInv,
         NEW z \in Zones, NEW n \in 1 .. MaxLen, NEW lba \in Lbas(z),
         \/ WriteZrwaDies(z, lba, n) \/ WriteZrwaLater(z, lba, n) \/ WriteZrwa(z, lba, n)
  PROVE  BufferInv'
<1>1. CASE WriteZrwaDies(z, lba, n)
  <2>1. UNCHANGED <<state, wp, zrwav, bufs>> BY <1>1 DEF WriteZrwaDies, descs
  <2>2. zrwav[z] BY <1>1 DEF WriteZrwaDies
  <2>3. Partial(z)' = Partial(z) BY <2>1 DEF Partial, ZoneEnd, Zslba
  <2>4. state[z] = "EMPTY" => wp[z] = Zslba(z) BY DEF BufferInv, AlignedInv
  <2>5. QED BY <2>1, <2>2, <2>3, <2>4, SameParts
<1>2. CASE ~WriteZrwaDies(z, lba, n)
  <2>1. /\ zrwav[z] /\ UNCHANGED <<zrwav, wbuf, lost>> /\ state \in [Zones -> States]
        /\ wp \in [Zones -> Int]
    BY <1>2 DEF WriteZrwaLater, WriteZrwa, ZoneTypes, WpInv
  <2>2. /\ \A x \in Zones \ {z} : state'[x] = state[x] /\ wp'[x] = wp[x]
        /\ state'[z] \in {"FULL", StateOpened(z)}
    <3>1. CASE WriteZrwaLater(z, lba, n) BY <2>1, <3>1 DEF WriteZrwaLater
    <3>2. CASE WriteZrwa(z, lba, n) BY <2>1, <3>2 DEF WriteZrwa, IncreaseWritePtr
    <3>3. QED BY <1>2, <3>1, <3>2
  <2>3. state'[z] # "EMPTY" BY <2>2 DEF StateOpened, AreaOpened, Open
  <2>4. AlignedInv' BY <2>1, <2>2, <2>3, StaysAligned DEF BufferInv
  <2>5. \A x \in Zones : Partial(x)' = Partial(x)
    <3>1. Partial(z)' = Partial(z) BY <2>1 DEF Partial
    <3>2. \A x \in Zones \ {z} : Partial(x)' = Partial(x) BY <2>1, <2>2 DEF Partial, ZoneEnd, Zslba
    <3>3. QED BY <3>1, <3>2
  <2>6. /\ inflight' \in [Operations -> Int]
        /\ \A b \in Bufs, a \in Amounts : inflight'[<<"write", b, a>>] = inflight[<<"write", b, a>>]
    <3>1. CASE WriteZrwaLater(z, lba, n) BY <3>1 DEF WriteZrwaLater, BufferInv, BufTypes
    <3>2. CASE WriteZrwa(z, lba, n) BY <3>2, CommitScheduled
    <3>3. QED BY <1>2, <3>1, <3>2
  <2>7. BufTypes' /\ Account' BY <2>1, <2>5, <2>6, NoAccount DEF BufferInv
  <2>8. QED BY <2>4, <2>7 DEF BufferInv
<1>3. QED BY <1>1, <1>2

\* A worker gives back what a program was scheduled with.
LEMMA ReleaseAccount ==
  ASSUME WpInv, WpInv', BufferInv, NEW o \in Operations, Release(o)
  PROVE  BufferInv'
<1>1. /\ inflight' = [inflight EXCEPT ![o] = @ - 1] /\ inflight \in [Operations -> Int]
      /\ UNCHANGED <<state, wp, zrwav, lost>>
      /\ \/ o[1] = "write" /\ wbuf' = [wbuf EXCEPT ![o[2]] = @ + o[3]]
         \/ o[1] = "zrwa" /\ UNCHANGED wbuf
  BY DEF Release, descs, BufferInv, BufTypes
<1>2. AlignedInv' BY <1>1 DEF BufferInv, AlignedInv, Zslba
<1>3. \A x \in Zones : Partial(x)' = Partial(x) BY <1>1 DEF Partial, ZoneEnd, Zslba
<1>4. inflight' \in [Operations -> Int] /\ inflight'[o] = inflight[o] - 1 /\ inflight[o] \in Int
      /\ \A p \in Operations \ {o} : inflight'[p] = inflight[p]
  BY <1>1
<1>5. CASE o[1] = "zrwa"
  <2>1. UNCHANGED wbuf BY <1>1, <1>5
  <2>2. ASSUME NEW b \in Bufs, NEW a \in Amounts
        PROVE  inflight'[<<"write", b, a>>] = inflight[<<"write", b, a>>]
    <3>1. <<"write", b, a>> \in Operations BY DEF Operations
    <3>2. <<"write", b, a>> # o BY <1>5
    <3>3. QED BY <1>4, <3>1, <3>2
  <2>3. BufTypes' /\ Account' BY <1>1, <1>3, <1>4, <2>1, <2>2, NoAccount DEF BufferInv
  <2>4. QED BY <1>2, <2>3 DEF BufferInv
<1>6. CASE o[1] # "zrwa"
  <2>1. PICK b \in Bufs, a \in Amounts : o = <<"write", b, a>> BY <1>6 DEF Operations
  <2>2. PICK z \in Zones : BufOf(z) = b BY SharingFinite
  <2>3. wbuf' = [wbuf EXCEPT ![b] = @ + a] BY <1>1, <1>6, <2>1
  <2>4. /\ wbuf \in [Bufs -> Int] /\ lost \in [Bufs -> Int] /\ a \in Int
    BY AmountsAre DEF BufferInv, BufTypes
  <2>5. BufTypes' BY <1>1, <1>4, <2>3, <2>4 DEF BufTypes
  <2>6. wbuf'[b] = wbuf[b] + a /\ \A d \in Bufs \ {b} : wbuf'[d] = wbuf[d] BY <2>3, <2>4
  <2>7. ASSUME NEW d \in Bufs, NEW x \in Amounts
        PROVE  Back(inflight', d, x) = Back(inflight, d, x) - IF d = b /\ x = a THEN a ELSE 0
    <3>1. <<"write", d, x>> \in Operations /\ x \in Int BY AmountsAre DEF Operations
    <3> DEFINE p == <<"write", d, x>>
    <3>2. p = o <=> d = b /\ x = a BY <2>1
    <3>3. inflight[p] \in Int /\ inflight[p] * x \in Int BY <1>1, <3>1
    <3>4. inflight'[p] = IF d = b /\ x = a THEN inflight[p] - 1 ELSE inflight[p]
      BY <1>4, <3>1, <3>2
    <3>5. Back(inflight', d, x) = inflight'[p] * x /\ Back(inflight, d, x) = inflight[p] * x
      BY DEF Back
    <3> HIDE DEF p
    <3>6. (inflight[p] - 1) * x = inflight[p] * x - 1 * x BY <3>1, <3>3, Distribute
    <3>7. QED BY <3>1, <3>3, <3>4, <3>5, <3>6
  <2>8. ASSUME NEW d \in Bufs, NEW x \in Amounts PROVE Back(inflight, d, x) \in Int
    <3>1. <<"write", d, x>> \in Operations /\ x \in Int BY AmountsAre DEF Operations
    <3>2. QED BY <1>1, <3>1 DEF Back
  <2>9. \A d \in Bufs \ {b} : ComingBack(inflight', d) = ComingBack(inflight, d)
    <3>1. \A d \in Bufs \ {b}, x \in Amounts : Back(inflight', d, x) = Back(inflight, d, x)
      BY <2>7, <2>8
    <3>2. QED BY <3>1, AmountsAre DEF ComingBack
  <2>10. ComingBack(inflight', b) = ComingBack(inflight, b) - a /\ ComingBack(inflight, b) \in Int
    <3>1. Back(inflight, b, OneshotLbas) \in Int BY <2>8, AmountsAre
    <3>2. CASE Unaligned = 0
      <4>1. a = OneshotLbas BY <3>2, AmountsAre
      <4>2. Back(inflight', b, OneshotLbas) = Back(inflight, b, OneshotLbas) - a BY <2>7, <4>1
      <4>3. QED BY <3>1, <3>2, <4>2, <2>4 DEF ComingBack
    <3>3. CASE Unaligned # 0
      <4>1. Back(inflight, b, Unaligned) \in Int BY <2>8, <3>3, AmountsAre
      <4>2. Unaligned \in Amounts /\ OneshotLbas \in Amounts /\ Unaligned # OneshotLbas
        BY <3>3, AmountsAre
      <4>3. /\ Back(inflight', b, OneshotLbas) = Back(inflight, b, OneshotLbas) - IF OneshotLbas = a THEN a ELSE 0
            /\ Back(inflight', b, Unaligned) = Back(inflight, b, Unaligned) - IF Unaligned = a THEN a ELSE 0
        BY <2>7, <4>2
      <4>4. a = OneshotLbas \/ a = Unaligned BY AmountsAre
      <4>5. QED BY <3>1, <3>3, <4>1, <4>2, <4>3, <4>4, <2>4 DEF ComingBack
    <3>4. QED BY <3>2, <3>3
  <2>11. wbuf'[b] + ComingBack(inflight', b) + Partial(z)' + lost'[b]
           = wbuf[b] + ComingBack(inflight, b) + Partial(z) + lost[b]
    <3>1. wbuf[b] \in Int /\ lost[b] \in Int /\ lost'[b] = lost[b] /\ Partial(z) \in Int
          /\ Partial(z)' = Partial(z)
      BY <1>1, <1>3, <2>4, PartialIn
    <3>2. QED BY <2>4, <2>6, <2>10, <3>1
  <2>12. Account'
    <3>1. \A x \in Zones \ {z} : Partial(x)' = Partial(x) BY <1>3
    <3>2. \A d \in Bufs \ {BufOf(z)} : /\ wbuf'[d] = wbuf[d] /\ lost'[d] = lost[d]
                                       /\ ComingBack(inflight', d) = ComingBack(inflight, d)
      BY <1>1, <2>2, <2>6, <2>9
    <3>3. wbuf'[BufOf(z)] + ComingBack(inflight', BufOf(z)) + Partial(z)' + lost'[BufOf(z)]
           = wbuf[BufOf(z)] + ComingBack(inflight, BufOf(z)) + Partial(z) + lost[BufOf(z)]
      BY <2>2, <2>11
    <3>4. QED BY <2>5, <3>1, <3>2, <3>3, Balance DEF BufferInv
  <2>13. QED BY <1>2, <2>5, <2>12 DEF BufferInv
<1>7. QED BY <1>5, <1>6

\* What the incomplete pages of a buffer's zones hold, as a sum over zones.
LEMMA PartsSummed ==
  ASSUME NEW b \in Bufs
  PROVE  \E h : Sums(Sharing(b), Parts(b), h) /\ MapThenSumSet(Partial, Sharing(b)) = h[Sharing(b)]
<1> DEFINE S == Sharing(b)
           P(h) == h = [s \in SUBSET S |->
                          IF s = {} THEN 0
                          ELSE Partial(CHOOSE x \in s : TRUE) + h[s \ {CHOOSE x \in s : TRUE}]]
           c == CHOOSE h : P(h)
<1>1. MapThenSumSet(Partial, S) = c[S] BY DEF MapThenSumSet, MapThenFoldSet
<1>2. PICK f : f = Parts(b) OBVIOUS
<1>3. f = [x \in S |-> Partial(x)] BY <1>2 DEF Parts
<1>4. IsFiniteSet(S) BY SharingFinite
<1> HIDE DEF S
<1>5. PICK g : Sums(S, f, g) BY <1>4, SumsExist
<1>6. \A s \in SUBSET S : s # {} => f[CHOOSE x \in s : TRUE] = Partial(CHOOSE x \in s : TRUE)
  <2>1. TAKE s \in SUBSET S
  <2>2. HAVE s # {}
  <2>3. (CHOOSE x \in s : TRUE) \in s BY <2>2
  <2>4. QED BY <1>3, <2>3
<1>7. P(g)
  <2>1. g = [s \in SUBSET S |->
               IF s = {} THEN 0 ELSE f[CHOOSE x \in s : TRUE] + g[s \ {CHOOSE x \in s : TRUE}]]
    BY <1>5 DEF Sums
  <2>2. QED BY <1>6, <2>1
<1>8. P(c) BY <1>7
<1>9. Sums(S, f, c)
  <2>1. c = [s \in SUBSET S |->
               IF s = {} THEN 0
               ELSE Partial(CHOOSE x \in s : TRUE) + c[s \ {CHOOSE x \in s : TRUE}]]
    BY <1>8
  <2> HIDE DEF c
  <2>2. QED BY <1>6, <2>1 DEF Sums
<1>10. QED BY <1>1, <1>2, <1>9 DEF S

\* What will come back to a buffer, as a sum over the amounts.
LEMMA BackSummed ==
  ASSUME BufTypes, NEW b \in Bufs
  PROVE  MapThenSumSet(LAMBDA a : inflight[<<"write", b, a>>] * a, Amounts) = ComingBack(inflight, b)
<1> DEFINE S == Amounts
           G(a) == inflight[<<"write", b, a>>] * a
           P(h) == h = [s \in SUBSET S |->
                          IF s = {} THEN 0
                          ELSE G(CHOOSE x \in s : TRUE) + h[s \ {CHOOSE x \in s : TRUE}]]
           c == CHOOSE h : P(h)
<1>1. MapThenSumSet(LAMBDA a : inflight[<<"write", b, a>>] * a, S) = c[S]
  BY DEF MapThenSumSet, MapThenFoldSet
<1>2. PICK f : f = [x \in S |-> G(x)] OBVIOUS
<1>3. \A x \in S : f[x] = Back(inflight, b, x) /\ f[x] \in Int
  <2>1. TAKE x \in S
  <2>2. f[x] = inflight[<<"write", b, x>>] * x BY <1>2
  <2>3. <<"write", b, x>> \in Operations /\ x \in Int BY AmountsAre DEF Operations
  <2>4. inflight[<<"write", b, x>>] \in Int BY <2>3 DEF BufTypes
  <2> DEFINE u == inflight[<<"write", b, x>>]
  <2>5. u \in Int /\ f[x] = u * x /\ Back(inflight, b, x) = u * x BY <2>2, <2>4 DEF Back
  <2> HIDE DEF u
  <2>6. QED BY <2>3, <2>5
<1>4. IsFiniteSet(S)
  <2>1. IsFiniteSet({}) BY FS_EmptySet
  <2>2. IsFiniteSet({} \cup {OneshotLbas}) BY <2>1, FS_AddElement
  <2>3. IsFiniteSet(({} \cup {OneshotLbas}) \cup {Unaligned}) BY <2>2, FS_AddElement
  <2>4. S \subseteq ({} \cup {OneshotLbas}) \cup {Unaligned} BY DEF Amounts
  <2>5. QED BY <2>3, <2>4, FS_Subset
<1> HIDE DEF S, G
<1>5. PICK g : Sums(S, f, g) BY <1>4, SumsExist
<1>6. \A s \in SUBSET S : s # {} => f[CHOOSE x \in s : TRUE] = G(CHOOSE x \in s : TRUE)
  <2>1. TAKE s \in SUBSET S
  <2>2. HAVE s # {}
  <2>3. (CHOOSE x \in s : TRUE) \in s BY <2>2
  <2>4. QED BY <1>2, <2>3
<1>7. P(g)
  <2>1. g = [s \in SUBSET S |->
               IF s = {} THEN 0 ELSE f[CHOOSE x \in s : TRUE] + g[s \ {CHOOSE x \in s : TRUE}]]
    BY <1>5 DEF Sums
  <2>2. QED BY <1>6, <2>1
<1>8. P(c) BY <1>7
<1>9. Sums(S, f, c)
  <2>1. c = [s \in SUBSET S |->
               IF s = {} THEN 0 ELSE G(CHOOSE x \in s : TRUE) + c[s \ {CHOOSE x \in s : TRUE}]]
    BY <1>8
  <2> HIDE DEF c
  <2>2. QED BY <1>6, <2>1 DEF Sums
<1> HIDE DEF c
<1>10. PICK h : h = c OBVIOUS
<1>11. Sums(S, f, h) BY <1>9, <1>10
<1>12. OneshotLbas \in S /\ S \in SUBSET S /\ S \ {OneshotLbas} \in SUBSET S
       /\ {} \in SUBSET S
  BY AmountsAre DEF S
<1>13. h[S] = f[OneshotLbas] + h[S \ {OneshotLbas}] /\ h[{}] = 0
  BY <1>3, <1>4, <1>11, <1>12, SumSplit, SumStep
<1>14. CASE Unaligned = 0
  <2>1. S \ {OneshotLbas} = {} BY <1>14, AmountsAre DEF S
  <2>2. h[S] = f[OneshotLbas] + 0 /\ f[OneshotLbas] = Back(inflight, b, OneshotLbas)
    BY <1>3, <1>12, <1>13, <2>1
  <2>3. QED BY <1>1, <1>10, <1>14, <2>2 DEF S, ComingBack
<1>15. CASE Unaligned # 0
  <2>1. Unaligned \in S /\ OneshotLbas # Unaligned BY <1>15, AmountsAre DEF S
  <2>2. \A x \in S : x = OneshotLbas \/ x = Unaligned BY AmountsAre DEF S
  <2> DEFINE T == S \ {OneshotLbas}
  <2>3. T \in SUBSET S /\ Unaligned \in T /\ T \ {Unaligned} = {} BY <2>1, <2>2
  <2> HIDE DEF T
  <2>4. h[T] = f[Unaligned] + h[T \ {Unaligned}]
    BY <1>3, <1>4, <1>11, <2>3, SumSplit
  <2>5. f[Unaligned] \in Int /\ f[OneshotLbas] \in Int BY <1>3, <1>12, <2>1
  <2>6. h[S] = f[OneshotLbas] + (f[Unaligned] + 0)
    BY <1>13, <2>3, <2>4 DEF T
  <2>7. h[S] = Back(inflight, b, OneshotLbas) + Back(inflight, b, Unaligned)
    BY <1>3, <1>12, <2>1, <2>5, <2>6
  <2>8. QED BY <1>1, <1>10, <1>15, <2>7 DEF S, ComingBack
<1>16. QED BY <1>14, <1>15

LEMMA AccountMeans ==
  ASSUME WpInv, BufferInv
  PROVE  BufferAccounted
<1>1. SUFFICES ASSUME NEW b \in Bufs
      PROVE  wbuf[b] + MapThenSumSet(LAMBDA a : inflight[<<"write", b, a>>] * a, Amounts)
                     + MapThenSumSet(Partial, {z \in Zones : BufOf(z) = b})
                     + lost[b] = WbLbas
  BY DEF BufferAccounted
<1>2. MapThenSumSet(LAMBDA a : inflight[<<"write", b, a>>] * a, Amounts) = ComingBack(inflight, b)
  BY BackSummed DEF BufferInv
<1>3. PICK g : /\ Sums(Sharing(b), Parts(b), g)
               /\ wbuf[b] + ComingBack(inflight, b) + g[Sharing(b)] + lost[b] = WbLbas
  BY DEF BufferInv, Account, Balanced
<1>4. PICK h : /\ Sums(Sharing(b), Parts(b), h)
               /\ MapThenSumSet(Partial, Sharing(b)) = h[Sharing(b)]
  BY PartsSummed
<1>5. g[Sharing(b)] = h[Sharing(b)]
  <2>1. PICK p : p = Parts(b) OBVIOUS
  <2>2. PICK S : S = Sharing(b) OBVIOUS
  <2>3. Sums(S, p, g) /\ Sums(S, p, h) /\ IsFiniteSet(S) /\ S \in SUBSET S
    BY <1>3, <1>4, <2>1, <2>2, SharingFinite
  <2>4. g[S] = h[S] BY <2>3, SumSame
  <2>5. QED BY <2>2, <2>4
<1>6. {z \in Zones : BufOf(z) = b} = Sharing(b) BY DEF Sharing
<1>7. MapThenSumSet(Partial, {z \in Zones : BufOf(z) = b}) = g[Sharing(b)]
  BY <1>4, <1>5, <1>6
<1>8. QED BY <1>2, <1>3, <1>7

LEMMA AccountStarts == Init => BufferInv
<1> SUFFICES ASSUME Init PROVE BufferInv OBVIOUS
<1>1. /\ state = [z \in Zones |-> "EMPTY"] /\ wp = [z \in Zones |-> Zslba(z)]
      /\ zrwav = [z \in Zones |-> FALSE] /\ wbuf = [b \in Bufs |-> WbLbas]
      /\ inflight = [o \in Operations |-> 0] /\ lost = [b \in Bufs |-> 0]
  BY DEF Init
<1>2. WbLbas \in Int /\ SecsPerPg \in Nat \ {0} /\ OneshotLbas \in Nat \ {0} BY ZnsAssumption
<1>3. BufTypes BY <1>1, <1>2 DEF BufTypes
<1>4. \A z \in Zones : wp[z] - Zslba(z) = 0 /\ wp[z] = Zslba(z) BY <1>1, Blocks
<1>5. 0 % SecsPerPg = 0 /\ 0 % OneshotLbas = 0 BY <1>2, DivisionWhole
<1>6. AlignedInv BY <1>4, <1>5 DEF AlignedInv
<1>7. ASSUME NEW b \in Bufs PROVE Balanced(b)
  <2>1. \A z \in Zones : Partial(z) = 0 BY <1>4, <1>5 DEF Partial
  <2> DEFINE S == Sharing(b)
             g == [s \in SUBSET S |-> 0]
  <2>2. \A z \in S : Parts(b)[z] = 0 BY <2>1, SharingFinite DEF Parts
  <2>3. Sums(S, Parts(b), g)
    <3>1. \A s \in SUBSET S : s # {} => Parts(b)[CHOOSE x \in s : TRUE] = 0
      <4>1. TAKE s \in SUBSET S
      <4>2. HAVE s # {}
      <4>3. (CHOOSE x \in s : TRUE) \in s BY <4>2
      <4>4. QED BY <2>2, <4>3
    <3>2. QED BY <3>1 DEF Sums
  <2>4. \A a \in Amounts : Back(inflight, b, a) = 0
    <3>1. TAKE a \in Amounts
    <3>2. <<"write", b, a>> \in Operations /\ a \in Int BY AmountsAre DEF Operations
    <3>3. inflight[<<"write", b, a>>] = 0 /\ 0 * a = 0 BY <1>1, <3>2
    <3>4. QED BY <3>3 DEF Back
  <2>5. ComingBack(inflight, b) = 0 BY <2>4, AmountsAre DEF ComingBack
  <2>6. wbuf[b] = WbLbas /\ lost[b] = 0 /\ g[S] = 0 BY <1>1
  <2>7. wbuf[b] + ComingBack(inflight, b) + g[S] + lost[b] = WbLbas BY <1>2, <2>5, <2>6
  <2>8. QED BY <2>3, <2>7 DEF Balanced
<1>8. QED BY <1>3, <1>6, <1>7 DEF BufferInv, Account

\* The write pointers stay in their zones.
LEMMA PointersKept == Spec => []WpInv
<1>1. Init => WpInv
  <2>1. SUFFICES ASSUME Init PROVE WpInv OBVIOUS
  <2>2. QED BY <2>1, Blocks DEF Init, WpInv
<1>2. CountInv /\ SweepType /\ WpInv /\ [Next]_vars => WpInv'
  <2>1. SUFFICES ASSUME CountInv, SweepType, WpInv, [Next]_vars PROVE WpInv' OBVIOUS
  <2>2. QED BY <2>1, StepMoves
<1>3. QED BY <1>1, <1>2, CountsKept, SweepTypes, PTL DEF Spec

\* However zones are written, reset, finished and swept while the workers
\* give buffer space back, every block of a write buffer is free, on its way
\* back, in an incomplete page or accounted for as lost, for any sizes of
\* which a write unit is whole flash pages (zns_read_write.c: __zns_write;
\* ssd_config.h: WRITE_UNIT_SIZE).
THEOREM BufferAlwaysAccounted == ASSUME WholePages PROVE Spec => []BufferAccounted
<1>1. Init => BufferInv BY AccountStarts
<1>2. CountInv /\ SweepType /\ WpInv /\ WpInv' /\ BufferInv /\ [Next]_vars => BufferInv'
  <2>0. SUFFICES ASSUME CountInv, SweepType, WpInv, WpInv', BufferInv, [Next]_vars
                 PROVE  BufferInv'
    OBVIOUS
  <2>1. ZoneTypes BY <2>0 DEF CountInv
  <2>2. CASE Writes
    <3>1. PICK z \in Zones, n \in 1 .. MaxLen : \E lba \in Lbas(z) :
            \/ WriteFails(z, lba, n) \/ WriteZrwaDies(z, lba, n)
            \/ WriteZrwaLater(z, lba, n) \/ WriteZrwa(z, lba, n)
      BY <2>2 DEF Writes
    <3>2. QED BY <2>0, <2>1, <3>1, FailsAccount, AreaAccount
  <2>3. CASE Appends
    <3>1. PICK z \in Zones, n \in 1 .. MaxLen : WriteZone(z, n) \/ WriteFails(z, wp[z], n)
      BY <2>3 DEF Appends
    <3>2. QED BY <2>0, <2>1, <3>1, FailsAccount, WriteAccount
  <2>4. CASE Management
    <3>1. 0 \in Zones BY ZnsAssumption DEF Zones
    <3>2. PICK action \in Commands, option \in BOOLEAN :
            \/ \E z \in Zones : \E lba \in Lbas(z) : Manage(action, option, z, lba)
            \/ Manage(action, option, 0, Zslba(0))
      BY <2>4 DEF Management, ManageOne, BeginSweep
    <3>3. QED BY <2>0, <2>1, <3>1, <3>2, ManageAccount
  <2>5. CASE SweepZone
    <3>1. sweep \in Sweeps BY <2>0, <2>5 DEF SweepZone, SweepType
    <3>2. sweep.option \in BOOLEAN /\ sweep.zone \in Zones BY <3>1 DEF Sweeps
    <3>3. Manage(sweep.action, sweep.option, sweep.zone, Zslba(sweep.zone))
      BY <2>5 DEF SweepZone
    <3>4. QED BY <2>0, <2>1, <3>2, <3>3, ManageAccount
  <2>6. ASSUME NEW o \in Operations, Release(o) PROVE BufferInv'
    BY <2>0, <2>6, ReleaseAccount
  <2>7. CASE UNCHANGED vars
    <3>1. UNCHANGED <<state, wp, zrwav, wbuf, lost, inflight>> BY <2>7 DEF vars, descs, bufs
    <3>2. AlignedInv' BY <2>0, <3>1 DEF BufferInv, AlignedInv, Zslba
    <3>3. \A x \in Zones : Partial(x)' = Partial(x) BY <3>1 DEF Partial, ZoneEnd, Zslba
    <3>4. inflight' \in [Operations -> Int] BY <2>0, <3>1 DEF BufferInv, BufTypes
    <3>5. QED BY <2>0, <3>1, <3>2, <3>3, <3>4, NoAccount DEF BufferInv
  <2>8. QED BY <2>0, <2>2, <2>3, <2>4, <2>5, <2>6, <2>7 DEF Next
<1>3. WpInv /\ BufferInv => BufferAccounted BY AccountMeans
<1>4. QED BY <1>1, <1>2, <1>3, CountsKept, SweepTypes, PointersKept, PTL DEF Spec
=============================================================================
