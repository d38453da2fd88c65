------------------------- MODULE ObjectsAndIdsProofs -------------------------
(***************************************************************************)
(* ObjectList first, for any number of objects: the lists follow the       *)
(* counters, and crows are accounted for; owners outlive what they own,    *)
(* and nobody keeps a pointer or a callback of who was destroyed.          *)
(*                                                                         *)
(* Crows are not inductive alone: that the list which fills up gets an     *)
(* object once needs that whoever is on it has the flag, and, while        *)
(* objects are updated, that it was updated already.  Owners need the      *)
(* order of the destroy queue, pointers that it does not grow meanwhile.   *)
(*                                                                         *)
(* Then CID_Generator, for any range of ids and size of its blocks: it is  *)
(* a pool of ids.  That needs that counts and times agree with the blocks. *)
(***************************************************************************)
EXTENDS ObjectList, IdGenerator, VectorsProofs, FiniteSetTheorems, TLAPS

ListTypes ==
  /\ objects_active \subseteq Object /\ objects_sleeping \subseteq Object
  /\ bActiveCounter \in [Object -> Nat]
  /\ crow \subseteq Object /\ crows \in [0..1 -> [Object -> Nat]] /\ current \in 0..1
  /\ updated \subseteq Object /\ raw \subseteq Object /\ work \in [Object -> Nat]

Flagged == Entered(current) \subseteq crow

WorkInUpdate ==
  /\ phase # "update" => work = NoEntries
  /\ phase = "update" /\ work # NoEntries => Entered(current) \subseteq updated

IInv == ListTypes /\ ListsFollowCounters /\ CrowsAccounted /\ Flagged /\ WorkInUpdate

-----------------------------------------------------------------------------
\* MakeMeCrow enters the objects of S that have no flag, once, and raises it.
LEMMA CrowsGrow ==
  ASSUME ListTypes, CrowsAccounted, Flagged, NEW S \in SUBSET Object, MakeMeCrow(S)
  PROVE  /\ crow' \subseteq Object /\ crows' \in [0..1 -> [Object -> Nat]] /\ current' \in 0..1
         /\ crow' \subseteq Entered(0)' \cup Entered(1)'
         /\ \A l \in 0..1, o \in Object : crows'[l][o] <= IF o \in Existing \cup S THEN 1 ELSE 0
         /\ Flagged'
         /\ Entered(current)' \subseteq Entered(current) \cup S
<1> DEFINE new == [o \in Object |-> crows[current][o] + IF o \in S \ crow THEN 1 ELSE 0]
<1>1. /\ current' = current /\ current \in 0..1
      /\ crow' = crow \cup S /\ crows' = [crows EXCEPT ![current] = new]
      /\ crow \subseteq Object /\ S \subseteq Object
      /\ crows \in [0..1 -> [Object -> Nat]]
  BY DEF MakeMeCrow, ListTypes
<1>2. \A o \in Object : crows[current][o] \in Nat
  BY <1>1
<1>3. \A o \in Object : /\ o \in S \ crow => new[o] = crows[current][o] + 1
                       /\ o \notin S \ crow => new[o] = crows[current][o]
  BY <1>2
<1>4. new \in [Object -> Nat]
  BY <1>2
<1> HIDE DEF new
<1>5. crows' \in [0..1 -> [Object -> Nat]]
  BY <1>1, <1>4
<1>6. \A l \in 0..1 : crows'[l] = IF l = current THEN new ELSE crows[l]
  BY <1>1
<1>7. \A o \in S \ crow : crows[current][o] = 0
  BY <1>1, <1>2 DEF Flagged, Entered
<1>71. ASSUME NEW o \in S \ crow PROVE new[o] = 1
  <2>1. o \in Object /\ crows[current][o] = 0
    BY <1>7
  <2>2. new[o] = crows[current][o] + 1
    BY <2>1, <1>2 DEF new
  <2> QED BY <2>1, <2>2
<1>8. Entered(current)' = {o \in Object : new[o] > 0}
  BY <1>1, <1>6 DEF Entered
<1>9. Entered(current)' \subseteq Entered(current) \cup S
  BY <1>8, <1>3, <1>1 DEF Entered
<1>10. Flagged'
  BY <1>1, <1>9 DEF Flagged
<1>11. crow' \subseteq Entered(0)' \cup Entered(1)'
  <2> SUFFICES ASSUME NEW o \in Object, o \in crow' PROVE o \in Entered(0)' \cup Entered(1)'
    BY <1>1
  <2>1. CASE o \in S \ crow
    <3>1. new[o] = 1
      BY <2>1, <1>71
    <3>2. crows'[current][o] = 1 /\ (current = 0 \/ current = 1)
      BY <3>1, <1>6, <1>1
    <3> QED BY <3>2 DEF Entered
  <2>2. CASE o \notin S \ crow
    <3>1. PICK l \in 0..1 : crows[l][o] > 0
      BY <2>2, <1>1 DEF CrowsAccounted, Entered
    <3>2. crows'[l][o] > 0
      BY <3>1, <2>2, <1>3, <1>6
    <3> QED BY <3>2 DEF Entered
  <2> QED BY <2>1, <2>2
<1>12. ASSUME NEW l \in 0..1, NEW o \in Object
       PROVE  crows'[l][o] <= IF o \in Existing \cup S THEN 1 ELSE 0
  <2>1. crows[l][o] \in Nat /\ crows[l][o] <= IF o \in Existing THEN 1 ELSE 0
    BY <1>1 DEF CrowsAccounted
  <2>2. CASE l = current /\ o \in S \ crow
    <3>1. crows'[l][o] = 1
      BY <2>2, <1>6, <1>71
    <3> QED BY <3>1, <2>2
  <2>3. CASE ~(l = current /\ o \in S \ crow)
    <3>1. crows'[l][o] = crows[l][o]
      BY <2>3, <1>6, <1>3
    <3>2. CASE o \in Existing
      BY <3>1, <3>2, <2>1
    <3>3. CASE o \notin Existing
      <4>1. crows'[l][o] = 0
        BY <3>1, <3>3, <2>1
      <4> QED BY <4>1
    <3> QED BY <3>2, <3>3
  <2> QED BY <2>2, <2>3
<1> QED BY <1>1, <1>5, <1>9, <1>10, <1>11, <1>12

LEMMA Initially == Init => IInv
<1> SUFFICES ASSUME Init PROVE IInv
  OBVIOUS
<1>1. /\ NoEntries \in [Object -> Nat]
      /\ \A o \in Object : NoEntries[o] = 0
  BY DEF NoEntries
<1>2. /\ crows = [l \in 0..1 |-> NoEntries] /\ current = 0 /\ crow = {}
      /\ objects_active = {} /\ objects_sleeping = {}
      /\ bActiveCounter = NoEntries /\ work = NoEntries
      /\ updated = {} /\ raw = {} /\ phase = "frame"
  BY DEF Init
<1>3. \A l \in 0..1 : crows[l] = NoEntries
  BY <1>2
<1>4. ListTypes
  BY <1>1, <1>2 DEF ListTypes
<1>5. ListsFollowCounters
  BY <1>1, <1>2 DEF ListsFollowCounters
<1>6. CrowsAccounted
  <2>1. \A l \in 0..1, o \in Object : crows[l][o] <= IF o \in Existing THEN 1 ELSE 0
    BY <1>1, <1>3
  <2>2. \A o \in Object : work[o] <= IF o \in Existing THEN 1 ELSE 0
    BY <1>1, <1>2
  <2> QED BY <2>1, <2>2, <1>2 DEF CrowsAccounted
<1>7. Flagged
  BY <1>1, <1>2, <1>3 DEF Flagged, Entered
<1> QED BY <1>2, <1>4, <1>5, <1>6, <1>7 DEF IInv, WorkInUpdate

\* Whatever keeps the lists, the crows and the updates keeps the invariant.
LEMMA NothingMoved ==
  ASSUME IInv, UNCHANGED <<lists, crowed, upd, phase>>
  PROVE  IInv'
BY DEF IInv, lists, crowed, upd, ListTypes, ListsFollowCounters, CrowsAccounted, Flagged,
       WorkInUpdate, Existing, Entered, NoEntries

\* Events, the scheduler and the renderer make crows of objects that are there.
LEMMA CrowsOnly ==
  ASSUME IInv, NEW S \in SUBSET Object, S \subseteq Existing, MakeMeCrow(S),
         UNCHANGED <<lists, upd, phase>>, phase = "frame"
  PROVE  IInv'
<1>1. ListTypes /\ ListsFollowCounters /\ CrowsAccounted /\ Flagged /\ WorkInUpdate
  BY DEF IInv
<1>2. Existing' = Existing
  BY DEF lists, Existing
<1>3. /\ crow' \subseteq Object /\ crows' \in [0..1 -> [Object -> Nat]] /\ current' \in 0..1
      /\ crow' \subseteq Entered(0)' \cup Entered(1)'
      /\ \A l \in 0..1, o \in Object : crows'[l][o] <= IF o \in Existing \cup S THEN 1 ELSE 0
      /\ Flagged'
  BY <1>1, CrowsGrow
<1>4. Existing \cup S = Existing
  OBVIOUS
<1>5. \A l \in 0..1, o \in Object : crows'[l][o] <= IF o \in Existing' THEN 1 ELSE 0
  BY <1>2, <1>3, <1>4
<1>6. ListTypes'
  BY <1>1, <1>3 DEF ListTypes, lists, upd
<1>7. ListsFollowCounters'
  BY <1>1 DEF ListsFollowCounters, lists
<1>8. CrowsAccounted'
  BY <1>1, <1>2, <1>3, <1>5 DEF CrowsAccounted, upd
<1>9. WorkInUpdate'
  BY <1>1 DEF WorkInUpdate, upd, NoEntries
<1> QED BY <1>3, <1>6, <1>7, <1>8, <1>9 DEF IInv

LEMMA ActivateKeeps ==
  ASSUME IInv, NEW o \in Object, processing_activate(o)
  PROVE  IInv'
<1>1. ListTypes /\ ListsFollowCounters /\ CrowsAccounted /\ Flagged /\ WorkInUpdate
  BY DEF IInv
<1>2. /\ bActiveCounter \in [Object -> Nat] /\ bActiveCounter[o] \in Nat
      /\ bActiveCounter' = [bActiveCounter EXCEPT ![o] = @ + 1]
      /\ o \in Existing /\ (phase = "frame" \/ o \in updated)
      /\ updated' = updated /\ raw' = raw /\ work' = work /\ phase' = phase
  BY <1>1 DEF processing_activate, Called, ListTypes, upd
<1>3. /\ bActiveCounter' \in [Object -> Nat]
      /\ bActiveCounter'[o] = bActiveCounter[o] + 1
      /\ \A x \in Object : x # o => bActiveCounter'[x] = bActiveCounter[x]
  BY <1>2
<1>4. CASE bActiveCounter[o] > 0
  <2>1. /\ UNCHANGED <<objects_active, objects_sleeping, crowed>>
    BY <1>4, <1>2 DEF processing_activate
  <2>2. bActiveCounter'[o] > 0
    BY <1>2, <1>3, <1>4
  <2>3. ListTypes'
    BY <1>1, <1>2, <1>3, <2>1 DEF ListTypes, crowed
  <2>4. ListsFollowCounters'
    BY <1>1, <1>3, <1>4, <2>1, <2>2 DEF ListsFollowCounters
  <2>5. CrowsAccounted' /\ Flagged' /\ WorkInUpdate'
    BY <1>1, <1>2, <2>1 DEF CrowsAccounted, Flagged, WorkInUpdate, crowed, Existing, Entered, NoEntries
  <2> QED BY <2>3, <2>4, <2>5 DEF IInv
<1>5. CASE bActiveCounter[o] = 0
  <2>1. /\ objects_sleeping' = objects_sleeping \ {o}
        /\ objects_active' = objects_active \cup {o}
        /\ MakeMeCrow({o})
    BY <1>5 DEF processing_activate
  <2>2. Existing' = Existing
    BY <2>1, <1>2 DEF Existing
  <2>3. /\ crow' \subseteq Object /\ crows' \in [0..1 -> [Object -> Nat]] /\ current' \in 0..1
        /\ crow' \subseteq Entered(0)' \cup Entered(1)'
        /\ \A l \in 0..1, x \in Object : crows'[l][x] <= IF x \in Existing \cup {o} THEN 1 ELSE 0
        /\ Flagged'
        /\ Entered(current)' \subseteq Entered(current) \cup {o}
    <3>1. {o} \in SUBSET Object
      OBVIOUS
    <3> QED BY <3>1, <1>1, <2>1, CrowsGrow
  <2>4. Existing \cup {o} = Existing
    BY <1>2
  <2>5. \A l \in 0..1, x \in Object : crows'[l][x] <= IF x \in Existing' THEN 1 ELSE 0
    BY <2>2, <2>3, <2>4
  <2>6. ListTypes'
    BY <1>1, <1>2, <1>3, <2>1, <2>3 DEF ListTypes
  <2>7. ListsFollowCounters'
    <3>1. bActiveCounter'[o] > 0
      BY <1>3, <1>5
    <3>2. objects_active' = {x \in Object : bActiveCounter'[x] > 0}
      BY <1>1, <1>3, <2>1, <3>1 DEF ListsFollowCounters
    <3> QED BY <3>2, <1>1, <2>1 DEF ListsFollowCounters
  <2>8. CrowsAccounted'
    BY <1>1, <1>2, <2>2, <2>3, <2>5 DEF CrowsAccounted
  <2>9. WorkInUpdate'
    BY <1>1, <1>2, <2>3 DEF WorkInUpdate, NoEntries
  <2> QED BY <2>3, <2>6, <2>7, <2>8, <2>9 DEF IInv
<1> QED BY <1>2, <1>4, <1>5

LEMMA DeactivateKeeps ==
  ASSUME IInv, NEW o \in Object, processing_deactivate(o)
  PROVE  IInv'
<1>1. ListTypes /\ ListsFollowCounters /\ CrowsAccounted /\ Flagged /\ WorkInUpdate
  BY DEF IInv
<1>2. /\ bActiveCounter \in [Object -> Nat] /\ bActiveCounter[o] \in Nat /\ bActiveCounter[o] > 0
      /\ bActiveCounter' = [bActiveCounter EXCEPT ![o] = @ - 1]
      /\ o \in objects_active
      /\ UNCHANGED <<crowed, upd, phase>>
  BY <1>1 DEF processing_deactivate, ListTypes, ListsFollowCounters
<1>3. /\ bActiveCounter[o] - 1 \in Nat
      /\ bActiveCounter' \in [Object -> Nat]
      /\ bActiveCounter'[o] = bActiveCounter[o] - 1
      /\ \A x \in Object : x # o => bActiveCounter'[x] = bActiveCounter[x]
  BY <1>2
<1>4. CASE bActiveCounter[o] > 1
  <2>1. UNCHANGED <<objects_active, objects_sleeping>>
    BY <1>4, <1>2 DEF processing_deactivate
  <2>2. bActiveCounter'[o] > 0
    BY <1>2, <1>3, <1>4
  <2>3. ListTypes'
    BY <1>1, <1>2, <1>3, <2>1 DEF ListTypes, crowed, upd
  <2>4. ListsFollowCounters'
    BY <1>1, <1>2, <1>3, <2>1, <2>2 DEF ListsFollowCounters
  <2>5. CrowsAccounted' /\ Flagged' /\ WorkInUpdate'
    BY <1>1, <1>2, <2>1 DEF CrowsAccounted, Flagged, WorkInUpdate, crowed, upd, Existing, Entered, NoEntries
  <2> QED BY <2>3, <2>4, <2>5 DEF IInv
<1>5. CASE bActiveCounter[o] = 1
  <2>1. /\ objects_active' = objects_active \ {o}
        /\ objects_sleeping' = objects_sleeping \cup {o}
    BY <1>5 DEF processing_deactivate
  <2>2. Existing' = Existing
    BY <2>1, <1>2 DEF Existing
  <2>3. ListTypes'
    BY <1>1, <1>2, <1>3, <2>1 DEF ListTypes, crowed, upd
  <2>4. ListsFollowCounters'
    <3>1. ~(bActiveCounter'[o] > 0)
      BY <1>3, <1>5
    <3>2. objects_active' = {x \in Object : bActiveCounter'[x] > 0}
      BY <1>1, <1>3, <2>1, <3>1 DEF ListsFollowCounters
    <3> QED BY <3>2, <1>1, <2>1 DEF ListsFollowCounters
  <2>5. CrowsAccounted' /\ Flagged' /\ WorkInUpdate'
    BY <1>1, <1>2, <2>2 DEF CrowsAccounted, Flagged, WorkInUpdate, crowed, upd, Entered, NoEntries
  <2> QED BY <2>3, <2>4, <2>5 DEF IInv
<1>6. bActiveCounter[o] = 1 \/ bActiveCounter[o] > 1
  BY <1>2
<1> QED BY <1>4, <1>5, <1>6

LEMMA SpawnKeeps ==
  ASSUME IInv, NEW o \in Object, Spawn(o)
  PROVE  IInv'
<1>1. ListTypes /\ ListsFollowCounters /\ CrowsAccounted /\ Flagged /\ WorkInUpdate
  BY DEF IInv
<1>2. /\ phase = "frame" /\ phase' = "frame" /\ o \notin Existing
      /\ bActiveCounter' = [bActiveCounter EXCEPT ![o] = 1]
      /\ objects_active' = objects_active \cup {o} /\ objects_sleeping' = objects_sleeping
      /\ MakeMeCrow({o})
      /\ raw' \subseteq raw \cup {o} /\ updated' = updated /\ work' = work
  BY DEF Spawn
<1>3. /\ bActiveCounter \in [Object -> Nat]
      /\ bActiveCounter' \in [Object -> Nat] /\ bActiveCounter'[o] = 1
      /\ \A x \in Object : x # o => bActiveCounter'[x] = bActiveCounter[x]
  BY <1>1, <1>2 DEF ListTypes
<1>4. Existing' = Existing \cup {o}
  BY <1>2 DEF Existing
<1>5. /\ crow' \subseteq Object /\ crows' \in [0..1 -> [Object -> Nat]] /\ current' \in 0..1
      /\ crow' \subseteq Entered(0)' \cup Entered(1)'
      /\ \A l \in 0..1, x \in Object : crows'[l][x] <= IF x \in Existing \cup {o} THEN 1 ELSE 0
      /\ Flagged'
  <2>1. {o} \in SUBSET Object
    OBVIOUS
  <2> QED BY <2>1, <1>1, <1>2, CrowsGrow
<1>6. ListTypes'
  BY <1>1, <1>2, <1>3, <1>5 DEF ListTypes
<1>7. ListsFollowCounters'
  <2>1. objects_active' = {x \in Object : bActiveCounter'[x] > 0}
    BY <1>1, <1>2, <1>3 DEF ListsFollowCounters
  <2> QED BY <2>1, <1>1, <1>2 DEF ListsFollowCounters, Existing
<1>8. work' = NoEntries
  BY <1>1, <1>2 DEF WorkInUpdate
<1>9. \A x \in Object : work'[x] <= IF x \in Existing' THEN 1 ELSE 0
  BY <1>8 DEF NoEntries
<1>10. CrowsAccounted'
  BY <1>4, <1>5, <1>9 DEF CrowsAccounted
<1>11. WorkInUpdate'
  BY <1>8, <1>2 DEF WorkInUpdate, NoEntries
<1> QED BY <1>5, <1>6, <1>7, <1>10, <1>11 DEF IInv

LEMMA BeginKeeps ==
  ASSUME IInv, Begin
  PROVE  IInv'
<1>1. ListTypes /\ ListsFollowCounters /\ CrowsAccounted /\ Flagged /\ WorkInUpdate
  BY DEF IInv
<1>2. /\ phase = "frame" /\ phase' = "update" /\ work = NoEntries
      /\ UNCHANGED <<lists, updated, raw>>
  BY <1>1 DEF Begin, Paused, UpdateCrows, UpdateActive, BeginUpdate, WorkInUpdate
<1>3. Existing' = Existing /\ Existing \subseteq Object
  BY <1>1, <1>2 DEF lists, Existing, ListTypes
<1>4. ListsFollowCounters'
  BY <1>1, <1>2 DEF ListsFollowCounters, lists
<1>5. /\ NoEntries \in [Object -> Nat]
      /\ \A x \in Object : NoEntries[x] = 0
  BY DEF NoEntries
<1>6. CASE Paused
  <2>1. crowed' = crowed /\ work' = NoEntries
    BY <1>2, <1>6 DEF Paused
  <2>2. ListTypes' /\ CrowsAccounted' /\ Flagged' /\ WorkInUpdate'
    BY <1>1, <1>2, <1>3, <2>1
       DEF ListTypes, CrowsAccounted, Flagged, WorkInUpdate, crowed, lists, Entered, NoEntries
  <2> QED BY <2>2, <1>4 DEF IInv
<1>7. CASE UpdateCrows
  <2> DEFINE other == 1 - current
  <2>1. /\ work' = crows[current] /\ current' = other /\ crow' = crow \ Entered(other)
        /\ crows' = [crows EXCEPT ![other] = NoEntries]
        /\ current \in 0..1 /\ crows \in [0..1 -> [Object -> Nat]] /\ crow \subseteq Object
    BY <1>1, <1>7 DEF UpdateCrows, ListTypes
  <2>2. other \in 0..1 /\ other # current /\ 0..1 = {current, other}
    BY <2>1
  <2> HIDE DEF other
  <2>3. crows'[other] = NoEntries /\ crows'[current] = crows[current]
    BY <2>1, <2>2
  <2>4. crows' \in [0..1 -> [Object -> Nat]]
    BY <2>1, <1>5
  <2>5. ListTypes'
    BY <1>1, <1>2, <2>1, <2>2, <2>4 DEF ListTypes, lists
  <2>6. Entered(current)' = {}
    BY <2>1, <2>3, <1>5 DEF Entered
  <2>7. crow' \subseteq Entered(0)' \cup Entered(1)'
    <3> SUFFICES ASSUME NEW x \in crow' PROVE x \in Entered(0)' \cup Entered(1)'
      OBVIOUS
    <3>1. x \in Object /\ x \in crow /\ x \notin Entered(other)
      BY <2>1
    <3>2. x \in Entered(current)
      BY <3>1, <2>2, <1>1 DEF CrowsAccounted
    <3>3. crows'[current][x] > 0
      BY <3>2, <2>3 DEF Entered
    <3>4. current = 0 \/ current = 1
      BY <2>1
    <3> QED BY <3>1, <3>3, <3>4 DEF Entered
  <2>8. ASSUME NEW l \in 0..1, NEW x \in Object
        PROVE  crows'[l][x] <= IF x \in Existing' THEN 1 ELSE 0
    <3>1. CASE l = current
      BY <3>1, <2>3, <1>1, <1>3 DEF CrowsAccounted
    <3>2. CASE l = other
      <4>1. crows'[l][x] = 0
        BY <3>2, <2>3, <1>5
      <4> QED BY <4>1
    <3> QED BY <3>1, <3>2, <2>2
  <2>9. \A x \in Object : work'[x] <= IF x \in Existing' THEN 1 ELSE 0
    BY <2>1, <1>1, <1>3 DEF CrowsAccounted
  <2>10. CrowsAccounted'
    BY <2>7, <2>8, <2>9 DEF CrowsAccounted
  <2> QED BY <1>2, <1>4, <2>5, <2>6, <2>10 DEF IInv, Flagged, WorkInUpdate
<1>8. CASE UpdateActive
  <2>1. /\ work' = Once(objects_active) /\ current' = current
        /\ crow' = crow \ (Entered(0) \cup Entered(1))
        /\ crows' = [l \in 0..1 |-> NoEntries]
    BY <1>8 DEF UpdateActive
  <2>2. crow' = {}
    BY <2>1, <1>1 DEF CrowsAccounted
  <2>3. crows' \in [0..1 -> [Object -> Nat]] /\ \A l \in 0..1 : crows'[l] = NoEntries
    BY <2>1, <1>5
  <2>4. current \in 0..1
    BY <1>1 DEF ListTypes
  <2>5. Entered(current)' = {}
    BY <2>1, <2>3, <2>4, <1>5 DEF Entered
  <2>6. work' \in [Object -> Nat]
    BY <2>1 DEF Once
  <2>7. ASSUME NEW x \in Object PROVE work'[x] <= IF x \in Existing' THEN 1 ELSE 0
    <3>1. work'[x] = IF x \in objects_active THEN 1 ELSE 0
      BY <2>1 DEF Once
    <3>2. x \in objects_active => x \in Existing'
      BY <1>3 DEF Existing
    <3> QED BY <3>1, <3>2
  <2>8. ASSUME NEW l \in 0..1, NEW x \in Object
        PROVE  crows'[l][x] <= IF x \in Existing' THEN 1 ELSE 0
    <3>1. crows'[l][x] = 0
      BY <2>3, <1>5
    <3> QED BY <3>1
  <2>9. CrowsAccounted'
    BY <2>2, <2>7, <2>8 DEF CrowsAccounted
  <2>10. ListTypes'
    BY <1>1, <1>2, <2>1, <2>2, <2>3, <2>6 DEF ListTypes, lists
  <2> QED BY <1>2, <1>4, <2>5, <2>9, <2>10 DEF IInv, Flagged, WorkInUpdate
<1> QED BY <1>6, <1>7, <1>8 DEF Begin

\* SingleUpdate goes up to owners that are there and were not updated.
LEMMA ChainFresh ==
  ASSUME ListTypes, NEW o \in Object
  PROVE  Chain(o) \subseteq Existing \ updated /\ Chain(o) \subseteq Object
<1> DEFINE S == Enabled \ updated
<1>1. S \in SUBSET Object /\ S \subseteq Existing \ updated
  BY DEF Enabled, Existing, ListTypes
<1>2. /\ o \in Enabled \ updated => o \in S
      /\ \A y \in S : Parent[y] \in Enabled \ updated => Parent[y] \in S
  OBVIOUS
<1>3. \A x \in Chain(o) : x \in S
  BY <1>1, <1>2, Zenon DEF Chain
<1> QED BY <1>1, <1>3

LEMMA SingleUpdateKeeps ==
  ASSUME IInv, NEW o \in Object, SingleUpdate(o)
  PROVE  IInv'
<1> DEFINE C == Chain(o)
<1>1. ListTypes /\ ListsFollowCounters /\ CrowsAccounted /\ Flagged /\ WorkInUpdate
  BY DEF IInv
<1>2. C \subseteq Existing \ updated /\ C \subseteq Object
  BY <1>1, ChainFresh
<1>3. PICK near \in SUBSET C :
        /\ crow' = (crow \ C) \cup near
        /\ crows' = [crows EXCEPT ![current] = [x \in Object |-> @[x] + Once(near)[x]]]
  BY DEF SingleUpdate
<1>4. /\ phase = "update" /\ phase' = "update" /\ work[o] > 0
      /\ work' = [work EXCEPT ![o] = @ - 1]
      /\ updated' = updated \cup C /\ raw' = raw \ C
      /\ UNCHANGED <<lists, current>>
  BY DEF SingleUpdate
<1> HIDE DEF C
<1>5. Existing' = Existing
  BY <1>4 DEF lists, Existing
<1>6. Entered(current) \subseteq updated
  <2>1. work # NoEntries
    BY <1>4 DEF NoEntries
  <2> QED BY <2>1, <1>1, <1>4 DEF WorkInUpdate
<1> DEFINE new == [x \in Object |-> crows[current][x] + Once(near)[x]]
<1>7. /\ current \in 0..1 /\ crows \in [0..1 -> [Object -> Nat]]
      /\ work \in [Object -> Nat] /\ crow \subseteq Object /\ updated \subseteq Object
      /\ raw \subseteq Object
  BY <1>1 DEF ListTypes
<1>8. \A x \in Object : crows[current][x] \in Nat /\ Once(near)[x] = IF x \in near THEN 1 ELSE 0
  BY <1>7 DEF Once
<1>9. new \in [Object -> Nat]
  BY <1>8
<1>10. ASSUME NEW x \in Object
       PROVE  /\ x \in near => new[x] = 1
              /\ x \notin near => new[x] = crows[current][x]
  <2>1. CASE x \in near
    <3>1. crows[current][x] = 0
      BY <2>1, <1>2, <1>3, <1>6, <1>8 DEF Entered
    <3> QED BY <3>1, <2>1, <1>8
  <2>2. CASE x \notin near
    BY <2>2, <1>8
  <2> QED BY <2>1, <2>2
<1>11. crows' = [crows EXCEPT ![current] = new]
  BY <1>3
<1> HIDE DEF new
<1>12. /\ crows' \in [0..1 -> [Object -> Nat]]
       /\ \A l \in 0..1 : crows'[l] = IF l = current THEN new ELSE crows[l]
  BY <1>7, <1>9, <1>11
<1>13. /\ work[o] \in Nat /\ work[o] - 1 \in Nat
       /\ work' \in [Object -> Nat] /\ work'[o] = work[o] - 1
       /\ \A x \in Object : x # o => work'[x] = work[x]
  BY <1>4, <1>7
<1>14. ListTypes'
  BY <1>1, <1>2, <1>3, <1>4, <1>7, <1>12, <1>13 DEF ListTypes, lists
<1>15. ListsFollowCounters'
  BY <1>1, <1>4 DEF ListsFollowCounters, lists
<1>16. Entered(current)' \subseteq Entered(current) \cup near
  <2> SUFFICES ASSUME NEW x \in Object, crows'[current][x] > 0
               PROVE  x \in Entered(current) \cup near
    BY <1>4 DEF Entered
  <2> QED BY <1>7, <1>10, <1>12 DEF Entered
<1>17. Flagged'
  BY <1>1, <1>2, <1>3, <1>6, <1>16 DEF Flagged
<1>18. crow' \subseteq Entered(0)' \cup Entered(1)'
  <2> SUFFICES ASSUME NEW x \in crow' PROVE \E l \in 0..1 : x \in Object /\ crows'[l][x] > 0
    BY DEF Entered
  <2>1. x \in Object
    BY <1>2, <1>3, <1>7
  <2>2. CASE x \in near
    <3>1. crows'[current][x] = 1
      BY <2>1, <2>2, <1>7, <1>10, <1>12
    <3> QED BY <3>1, <2>1, <1>7
  <2>3. CASE x \notin near
    <3>1. PICK l \in 0..1 : crows[l][x] > 0
      BY <2>3, <1>1, <1>3 DEF CrowsAccounted, Entered
    <3>2. crows'[l][x] = crows[l][x]
      BY <2>1, <2>3, <1>10, <1>12
    <3> QED BY <3>1, <3>2, <2>1
  <2> QED BY <2>2, <2>3
<1>19. ASSUME NEW l \in 0..1, NEW x \in Object
       PROVE  crows'[l][x] <= IF x \in Existing' THEN 1 ELSE 0
  <2>1. CASE l = current /\ x \in near
    <3>1. crows'[l][x] = 1 /\ x \in Existing'
      BY <2>1, <1>2, <1>3, <1>5, <1>10, <1>12
    <3> QED BY <3>1
  <2>2. CASE ~(l = current /\ x \in near)
    <3>1. crows'[l][x] = crows[l][x]
      BY <2>2, <1>10, <1>12
    <3> QED BY <3>1, <1>1, <1>5 DEF CrowsAccounted
  <2> QED BY <2>1, <2>2
<1>20. ASSUME NEW x \in Object PROVE work'[x] <= IF x \in Existing' THEN 1 ELSE 0
  <2>1. work[x] \in Nat /\ work[x] <= IF x \in Existing' THEN 1 ELSE 0
    BY <1>1, <1>5, <1>7 DEF CrowsAccounted
  <2>2. work'[x] \in Nat /\ work'[x] <= work[x]
    BY <1>13, <2>1
  <2>3. CASE x \in Existing'
    BY <2>1, <2>2, <2>3
  <2>4. CASE x \notin Existing'
    BY <2>1, <2>2, <2>4
  <2> QED BY <2>3, <2>4
<1>21. CrowsAccounted'
  BY <1>18, <1>19, <1>20 DEF CrowsAccounted
<1>22. WorkInUpdate'
  BY <1>3, <1>4, <1>6, <1>16 DEF WorkInUpdate
<1> QED BY <1>14, <1>15, <1>17, <1>21, <1>22 DEF IInv

LEMMA EndUpdateKeeps ==
  ASSUME IInv, EndUpdate
  PROVE  IInv'
<1>1. ListTypes /\ ListsFollowCounters /\ CrowsAccounted /\ Flagged /\ WorkInUpdate
  BY DEF IInv
<1>2. /\ work = NoEntries /\ work' = work
      /\ UNCHANGED <<lists, crowed>>
      /\ updated' \subseteq raw \cup updated /\ raw' \subseteq raw
  BY DEF EndUpdate, NewFrame
<1>3. ListTypes'
  BY <1>1, <1>2 DEF ListTypes, lists, crowed
<1>4. ListsFollowCounters' /\ CrowsAccounted' /\ Flagged'
  BY <1>1, <1>2 DEF ListsFollowCounters, CrowsAccounted, Flagged, lists, crowed, Existing, Entered
<1>5. WorkInUpdate'
  BY <1>2 DEF WorkInUpdate, NoEntries
<1> QED BY <1>3, <1>4, <1>5 DEF IInv

LEMMA DestroyQueueKeeps ==
  ASSUME IInv, DestroyQueue
  PROVE  IInv'
<1> DEFINE o == Last(destroy_queue)
<1>1. ListTypes /\ ListsFollowCounters /\ CrowsAccounted /\ Flagged /\ WorkInUpdate
  BY DEF IInv
<1>2. /\ phase = "destroy" /\ phase' \in {"frame", "destroy"}
      /\ crows' = [l \in 0..1 |-> [crows[l] EXCEPT ![o] = IF @ > 0 THEN @ - 1 ELSE 0]]
      /\ objects_active' = objects_active \ {o} /\ objects_sleeping' = objects_sleeping \ {o}
      /\ bActiveCounter' = [bActiveCounter EXCEPT ![o] = 0]
      /\ crow' = crow \ {o} /\ raw' = raw \ {o} /\ updated' = updated \ {o}
      /\ current' = current /\ work' = work
  BY DEF DestroyQueue, Destroy
<1> HIDE DEF o
<1>3. /\ bActiveCounter \in [Object -> Nat] /\ crows \in [0..1 -> [Object -> Nat]]
      /\ work = NoEntries /\ current \in 0..1 /\ crow \subseteq Object
  BY <1>1, <1>2 DEF ListTypes, WorkInUpdate
<1>4. Existing' = Existing \ {o}
  BY <1>2 DEF Existing
<1>5. \A l \in 0..1 : crows[l] \in [Object -> Nat]
                     /\ crows'[l] = [crows[l] EXCEPT ![o] = IF @ > 0 THEN @ - 1 ELSE 0]
  BY <1>2, <1>3
<1>6. ASSUME NEW l \in 0..1, NEW x \in Object
      PROVE  /\ crows'[l][x] \in Nat
             /\ x # o => crows'[l][x] = crows[l][x]
             /\ x = o => crows'[l][x] = 0
  <2>1. crows[l][x] \in Nat /\ crows[l][x] <= 1
    <3>1. crows[l][x] \in Nat /\ crows[l][x] <= IF x \in Existing THEN 1 ELSE 0
      BY <1>1, <1>5 DEF CrowsAccounted
    <3> QED BY <3>1
  <2>2. CASE x = o
    <3>1. crows'[l][x] = IF crows[l][x] > 0 THEN crows[l][x] - 1 ELSE 0
      BY <2>2, <1>5
    <3>2. crows[l][x] = 0 \/ crows[l][x] = 1
      BY <2>1
    <3> QED BY <3>1, <3>2, <2>2
  <2>3. CASE x # o
    BY <2>1, <2>3, <1>5
  <2> QED BY <2>2, <2>3
<1>7. crows' \in [0..1 -> [Object -> Nat]]
  <2>1. \A l \in 0..1 : crows'[l] \in [Object -> Nat]
    <3> SUFFICES ASSUME NEW l \in 0..1 PROVE crows'[l] \in [Object -> Nat]
      OBVIOUS
    <3>1. DOMAIN crows'[l] = Object /\ crows'[l] = [x \in Object |-> crows'[l][x]]
      BY <1>5
    <3> QED BY <3>1, <1>6
  <2> QED BY <2>1, <1>2
<1>8. ListTypes'
  BY <1>1, <1>2, <1>3, <1>7 DEF ListTypes
<1>9. ListsFollowCounters'
  <2>1. \A x \in Object : /\ x # o => bActiveCounter'[x] = bActiveCounter[x]
                         /\ x = o => bActiveCounter'[x] = 0
    BY <1>2, <1>3
  <2>2. objects_active' = {x \in Object : bActiveCounter'[x] > 0}
    BY <1>1, <1>2, <1>3, <2>1 DEF ListsFollowCounters
  <2> QED BY <2>2, <1>1, <1>2 DEF ListsFollowCounters
<1>10. crow' \subseteq Entered(0)' \cup Entered(1)'
  BY <1>1, <1>2, <1>3, <1>6 DEF CrowsAccounted, Entered
<1>11. ASSUME NEW l \in 0..1, NEW x \in Object
       PROVE  crows'[l][x] <= IF x \in Existing' THEN 1 ELSE 0
  <2>1. CASE x = o
    <3>1. crows'[l][x] = 0 /\ x \notin Existing'
      BY <2>1, <1>4, <1>6
    <3> QED BY <3>1
  <2>2. CASE x # o
    <3>1. crows'[l][x] = crows[l][x] /\ (x \in Existing' <=> x \in Existing)
      BY <2>2, <1>4, <1>6
    <3> QED BY <3>1, <1>1 DEF CrowsAccounted
  <2> QED BY <2>1, <2>2
<1>12. ASSUME NEW x \in Object PROVE work'[x] <= IF x \in Existing' THEN 1 ELSE 0
  <2>1. work'[x] = 0
    BY <1>2, <1>3 DEF NoEntries
  <2> QED BY <2>1
<1>13. CrowsAccounted'
  BY <1>10, <1>11, <1>12 DEF CrowsAccounted
<1>14. Flagged'
  BY <1>1, <1>2, <1>3, <1>6 DEF Flagged, Entered
<1>15. WorkInUpdate'
  BY <1>2, <1>3 DEF WorkInUpdate, NoEntries
<1> QED BY <1>8, <1>9, <1>13, <1>14, <1>15 DEF IInv

LEMMA UnloadKeeps ==
  ASSUME IInv, Unload
  PROVE  IInv'
<1>1. ListTypes /\ ListsFollowCounters /\ CrowsAccounted /\ Flagged /\ WorkInUpdate
  BY DEF IInv
<1>2. /\ phase = "frame" /\ phase' = "unloaded"
      /\ objects_active' = {} /\ objects_sleeping' = {} /\ bActiveCounter' = NoEntries
      /\ crow' = {} /\ updated' = {} /\ raw' = {} /\ current' = current /\ work' = work
      /\ crows' = [l \in 0..1 |-> [x \in Object |->
             IF x \in Existing /\ crows[l][x] > 0 THEN crows[l][x] - 1 ELSE crows[l][x]]]
  BY DEF Unload
<1>3. work = NoEntries /\ current \in 0..1 /\ crows \in [0..1 -> [Object -> Nat]]
  BY <1>1, <1>2 DEF WorkInUpdate, ListTypes
<1>4. ASSUME NEW l \in 0..1, NEW x \in Object PROVE crows'[l][x] = 0
  <2>1. crows[l][x] \in Nat /\ crows[l][x] <= IF x \in Existing THEN 1 ELSE 0
    BY <1>1, <1>3 DEF CrowsAccounted
  <2>2. crows'[l][x] = IF x \in Existing /\ crows[l][x] > 0 THEN crows[l][x] - 1 ELSE crows[l][x]
    BY <1>2
  <2>3. CASE x \in Existing
    <3>1. crows[l][x] = 0 \/ crows[l][x] = 1
      BY <2>1, <2>3
    <3> QED BY <3>1, <2>2, <2>3
  <2>4. CASE x \notin Existing
    <3>1. crows[l][x] = 0
      BY <2>1, <2>4
    <3> QED BY <3>1, <2>2
  <2> QED BY <2>3, <2>4
<1>5. NoEntries \in [Object -> Nat] /\ \A x \in Object : NoEntries[x] = 0
  BY DEF NoEntries
<1>6. crows' \in [0..1 -> [Object -> Nat]]
  <2>1. crows' = [l \in 0..1 |-> [x \in Object |-> 0]]
    BY <1>2, <1>4
  <2> QED BY <2>1
<1>7. ListTypes'
  BY <1>1, <1>2, <1>3, <1>5, <1>6 DEF ListTypes
<1>8. ListsFollowCounters'
  BY <1>2, <1>5 DEF ListsFollowCounters
<1>9. ASSUME NEW x \in Object PROVE work'[x] <= IF x \in Existing' THEN 1 ELSE 0
  BY <1>2, <1>3, <1>5
<1>10. ASSUME NEW l \in 0..1, NEW x \in Object
       PROVE  crows'[l][x] <= IF x \in Existing' THEN 1 ELSE 0
  BY <1>4
<1>11. CrowsAccounted'
  BY <1>2, <1>9, <1>10 DEF CrowsAccounted
<1>12. Flagged'
  BY <1>2, <1>3, <1>4 DEF Flagged, Entered
<1>13. WorkInUpdate'
  BY <1>2, <1>3 DEF WorkInUpdate, NoEntries
<1> QED BY <1>7, <1>8, <1>11, <1>12, <1>13 DEF IInv

\* Every step of the object list keeps the invariant.
LEMMA StepKeeps == IInv /\ [Next]_vars => IInv'
<1> SUFFICES ASSUME IInv, [Next]_vars PROVE IInv'
  OBVIOUS
<1>1. ASSUME NEW o \in Object, Spawn(o) PROVE IInv'
  BY <1>1, SpawnKeeps
<1>2. ASSUME NEW o \in Object, processing_activate(o) PROVE IInv'
  BY <1>2, ActivateKeeps
<1>3. ASSUME NEW o \in Object, processing_deactivate(o) PROVE IInv'
  BY <1>3, DeactivateKeeps
<1>4. ASSUME NEW o \in Object, setDestroy(o) PROVE IInv'
  BY <1>4, NothingMoved DEF setDestroy
<1>5. ASSUME NEW o \in Object, NEW S \in SUBSET Object, S \subseteq {o} \cap Existing,
             MakeMeCrow(S), UNCHANGED <<lists, upd, phase>>, phase = "frame"
      PROVE  IInv'
  BY <1>5, CrowsOnly
<1>6. \A o \in Object : {o} \cap Enabled \in SUBSET Object /\ {o} \cap Enabled \subseteq {o} \cap Existing
  BY DEF Enabled
<1>7. ASSUME NEW o \in Object, Detach(o) \/ (\E p \in Object : Attach(o, p)) \/ renderable_Render(o)
      PROVE  IInv'
  <2>1. MakeMeCrow({o} \cap Enabled) /\ UNCHANGED <<lists, upd, phase>> /\ phase = "frame"
    BY <1>7 DEF Detach, Attach, renderable_Render
  <2> QED BY <2>1, <1>5, <1>6
<1>8. ASSUME NEW o \in Object, shedule_Update(o) PROVE IInv'
  <2>1. MakeMeCrow({o}) /\ UNCHANGED <<lists, upd, phase>> /\ phase = "frame" /\ o \in Enabled
    BY <1>8 DEF shedule_Update
  <2>2. {o} \in SUBSET Object /\ {o} \subseteq {o} \cap Existing
    BY <2>1 DEF Enabled
  <2> QED BY <2>1, <2>2, <1>5
<1>9. CASE Calls
  BY <1>1, <1>2, <1>3, <1>4, <1>7, <1>8, <1>9 DEF Calls
<1>10. CASE Update
  BY <1>10, BeginKeeps, EndUpdateKeeps, DestroyQueueKeeps, SingleUpdateKeeps DEF Update
<1>11. CASE Unload
  BY <1>11, UnloadKeeps
<1>12. CASE Stop \/ (\E l \in Links : Hold(l)) \/ UNCHANGED vars
  <2>1. UNCHANGED <<lists, crowed, upd, phase>>
    BY <1>12 DEF Stop, Hold, vars
  <2> QED BY <2>1, NothingMoved
<1> QED BY <1>9, <1>10, <1>11, <1>12 DEF Next

-----------------------------------------------------------------------------
\* For any objects, an object is on the list its counter says, and on no other:
\* o_remove finds what it looks for.
THEOREM ListsFollowCountersAlways == Spec => []ListsFollowCounters
<1>1. IInv => ListsFollowCounters
  BY DEF IInv
<1> QED BY <1>1, Initially, StepKeeps, PTL DEF Spec

\* For any objects, a list of crows has an object at most once, none that was
\* destroyed, and every object whose flag is up: MakeMeCrow loses nobody.
THEOREM CrowsAccountedAlways == Spec => []CrowsAccounted
<1>1. IInv => CrowsAccounted
  BY DEF IInv
<1> QED BY <1>1, Initially, StepKeeps, PTL DEF Spec

-----------------------------------------------------------------------------
(* Owners, pointers and callbacks.                                         *)

PointerTypes ==
  /\ destroy_queue \in Seq(Object) /\ bDestroy \subseteq Object
  /\ Parent \in [Object -> Object \cup {NoObject}]
  /\ callbacks \in Seq(Feel) /\ m_ID \in [Feel -> Nat] /\ links \subseteq Links

\* The queue has who is marked, once, and nobody behind what he owns.
Queued ==
  phase # "unloaded" =>
    /\ NoRepeat(destroy_queue) /\ Listed(destroy_queue) = bDestroy /\ bDestroy \subseteq Existing
    /\ \A i, k \in 1..Len(destroy_queue) :
         Parent[destroy_queue[k]] = destroy_queue[i] => i < k
    /\ \A o \in bDestroy : Parent[o] # NoObject => Parent[o] \in bDestroy
    /\ phase = "destroy" => destroy_queue # <<>>

\* Nobody who is gone is owned.
NoOrphans == \A o \in Object \ Existing : Parent[o] = NoObject

\* While the queue is worked off, everybody has been told of who is in it.
AllTold == phase = "destroy" => \A l \in links : l.target \notin Listed(destroy_queue)

PInv == PointerTypes /\ Queued /\ NoOrphans /\ AllTold
          /\ OwnersOutlive /\ NoDanglingLink /\ CallbacksFound

\* A set is arranged in a sequence that has each member once.
LEMMA ArrangedOnce ==
  ASSUME NEW S \in SUBSET Object, NEW s \in SetToSeqs(S)
  PROVE  s \in Seq(Object) /\ Listed(s) = S /\ NoRepeat(s)
<1>1. IsFiniteSet(S) /\ Cardinality(S) \in Nat
  BY ObjectAssumption, FS_Subset, FS_CardinalityType
<1> PICK n \in Nat : n = Cardinality(S)
  BY <1>1
<1>2. s \in [1..n -> S] /\ \A i, k \in 1..n : i # k => s[i] # s[k]
  BY DEF SetToSeqs
<1>3. s \in Seq(S) /\ Len(s) = n /\ s \in Seq(Object)
  BY <1>2
<1>4. NoRepeat(s)
  BY <1>2, <1>3 DEF NoRepeat
<1>5. s \in Injection(1..n, S)
  BY <1>2 DEF Injection, IsInjective
<1>6. Cardinality(1..n) = n
  BY FS_Interval
<1>7. s \in Surjection(1..n, S)
  BY <1>1, <1>5, <1>6, FS_Injection
<1>8. Listed(s) = S
  BY <1>2, <1>3, <1>7 DEF Surjection, Listed
<1> QED BY <1>3, <1>4, <1>8

LEMMA PInitially == Init => PInv
<1> SUFFICES ASSUME Init PROVE PInv
  OBVIOUS
<1> USE DEF Init
<1>1. PointerTypes
  BY DEF PointerTypes
<1>2. Queued /\ CallbacksFound
  BY DEF Queued, NoRepeat, Listed, CallbacksFound, Existing
<1>3. NoOrphans /\ AllTold /\ OwnersOutlive /\ NoDanglingLink
  BY DEF NoOrphans, AllTold, OwnersOutlive, NoDanglingLink, Existing
<1> QED BY <1>1, <1>2, <1>3 DEF PInv

\* Whatever leaves owners, pointers, callbacks and queue alone keeps the invariant.
LEMMA PointersStay ==
  ASSUME PInv, Existing' = Existing, UNCHANGED <<doom, Parent, relcase>>,
         phase' = "destroy" \/ phase = "unloaded" => phase' = phase
  PROVE  PInv'
<1> USE DEF doom, relcase
<1>1. PointerTypes' /\ NoOrphans' /\ NoDanglingLink' /\ CallbacksFound'
  BY DEF PInv, PointerTypes, NoOrphans, NoDanglingLink, CallbacksFound
<1>2. Queued' /\ AllTold' /\ OwnersOutlive'
  BY DEF PInv, Queued, AllTold, OwnersOutlive
<1> QED BY <1>1, <1>2 DEF PInv

\* A Feel that spawns is the last one in the list of callbacks.
LEMMA SpawnPointers ==
  ASSUME IInv, PInv, NEW o \in Object, Spawn(o)
  PROVE  PInv'
<1>1. /\ Existing' = Existing \cup {o} /\ o \notin Existing /\ Parent' = Parent
      /\ destroy_queue' = destroy_queue /\ bDestroy' = bDestroy /\ links' = links
      /\ phase = "frame" /\ phase' = "frame"
      /\ IF o \in Feel
         THEN callbacks' = Append(callbacks, o) /\ m_ID' = [m_ID EXCEPT ![o] = Len(callbacks)]
         ELSE callbacks' = callbacks /\ m_ID' = m_ID
  BY DEF Spawn, doom, Existing
<1>2. /\ callbacks \in Seq(Feel) /\ m_ID \in [Feel -> Nat] /\ Len(callbacks) \in Nat
      /\ \A i \in 1..Len(callbacks) : callbacks[i] \in Listed(callbacks) /\ callbacks[i] \in Feel
  BY DEF PInv, PointerTypes, Listed
<1>3. callbacks' \in Seq(Feel) /\ m_ID' \in [Feel -> Nat]
  <2>1. CASE o \notin Feel
    BY <1>1, <1>2, <2>1
  <2>2. CASE o \in Feel
    <3>1. Append(callbacks, o) \in Seq(Feel)
      BY <1>2, <2>2, AppendListed
    <3>2. [m_ID EXCEPT ![o] = Len(callbacks)] \in [Feel -> Nat]
      BY <1>2, <2>2
    <3> QED BY <1>1, <2>2, <3>1, <3>2
  <2> QED BY <2>1, <2>2
<1>4. PointerTypes'
  BY <1>1, <1>3 DEF PInv, PointerTypes
<1>5. Queued' /\ NoOrphans' /\ AllTold' /\ OwnersOutlive' /\ NoDanglingLink'
  BY <1>1 DEF PInv, Queued, NoOrphans, AllTold, OwnersOutlive, NoDanglingLink
<1>6. CallbacksFound'
  <2>1. CASE o \notin Feel
    BY <1>1, <2>1 DEF PInv, CallbacksFound
  <2>2. CASE o \in Feel
    <3>1. /\ Listed(callbacks') = Listed(callbacks) \cup {o}
          /\ Len(callbacks') = Len(callbacks) + 1
          /\ \A i \in 1..Len(callbacks) : callbacks'[i] = callbacks[i]
          /\ callbacks'[Len(callbacks) + 1] = o
      <4>1. callbacks' = Append(callbacks, o)
        BY <1>1, <2>2
      <4>2. Listed(Append(callbacks, o)) = Listed(callbacks) \cup {o}
        BY <1>2, <2>2, AppendListed
      <4> QED BY <1>2, <4>1, <4>2
    <3>2. Listed(callbacks) = Existing \cap Feel /\ \A i \in 1..Len(callbacks) : m_ID[callbacks[i]] = i - 1
      BY DEF PInv, CallbacksFound
    <3>3. m_ID'[o] = Len(callbacks) /\ \A x \in Feel : x # o => m_ID'[x] = m_ID[x]
      BY <1>1, <1>2, <2>2
    <3>4. \A i \in 1..Len(callbacks) : callbacks[i] # o
      BY <1>1, <1>2, <3>2
    <3>5. \A i \in 1..(Len(callbacks) + 1) : i \in 1..Len(callbacks) \/ i = Len(callbacks) + 1
      BY <1>2
    <3>6. ASSUME NEW i \in 1..(Len(callbacks) + 1) PROVE m_ID'[callbacks'[i]] = i - 1
      <4>1. CASE i \in 1..Len(callbacks)
        BY <1>2, <3>1, <3>2, <3>3, <3>4, <4>1
      <4>2. CASE i = Len(callbacks) + 1
        BY <1>2, <3>1, <3>3, <4>2
      <4> QED BY <3>5, <4>1, <4>2
    <3>7. Listed(callbacks') = Existing' \cap Feel
      BY <1>1, <2>2, <3>1, <3>2
    <3> QED BY <3>1, <3>6, <3>7 DEF CallbacksFound
  <2> QED BY <2>1, <2>2
<1> QED BY <1>4, <1>5, <1>6 DEF PInv

\* Only who stays is given, and only to who stays.
LEMMA AttachPointers ==
  ASSUME IInv, PInv, NEW o \in Object, NEW p \in Object, Attach(o, p)
  PROVE  PInv'
<1>1. /\ Existing' = Existing /\ UNCHANGED <<doom, relcase, phase>>
      /\ Parent' = [Parent EXCEPT ![o] = p] /\ phase = "frame"
      /\ o \in Existing \ bDestroy /\ p \in Existing \ bDestroy
  BY DEF Attach, lists, Existing
<1> USE DEF doom, relcase
<1>2. Parent' \in [Object -> Object \cup {NoObject}] /\ Parent'[o] = p
      /\ \A x \in Object : x # o => Parent'[x] = Parent[x]
  BY <1>1 DEF PInv, PointerTypes
<1>3. PointerTypes'
  BY <1>1, <1>2 DEF PInv, PointerTypes
<1>4. Existing \subseteq Object /\ \A i \in 1..Len(destroy_queue) :
        destroy_queue[i] \in bDestroy /\ destroy_queue[i] \in Object
  BY <1>1 DEF IInv, ListTypes, Existing, PInv, Queued, Listed, PointerTypes
<1>5. Queued'
  BY <1>1, <1>2, <1>4 DEF PInv, Queued, PointerTypes
<1>6. NoOrphans' /\ OwnersOutlive'
  BY <1>1, <1>2, <1>4 DEF PInv, NoOrphans, OwnersOutlive
<1>7. AllTold' /\ NoDanglingLink' /\ CallbacksFound'
  BY <1>1 DEF PInv, AllTold, NoDanglingLink, CallbacksFound
<1> QED BY <1>3, <1>5, <1>6, <1>7 DEF PInv

LEMMA DetachPointers ==
  ASSUME IInv, PInv, NEW o \in Object, Detach(o)
  PROVE  PInv'
<1>1. /\ Existing' = Existing /\ UNCHANGED <<doom, relcase, phase>>
      /\ Parent' = [Parent EXCEPT ![o] = NoObject] /\ phase = "frame"
  BY DEF Detach, lists, Existing
<1> USE DEF doom, relcase
<1>2. Parent' \in [Object -> Object \cup {NoObject}] /\ Parent'[o] = NoObject
      /\ \A x \in Object : x # o => Parent'[x] = Parent[x]
  BY <1>1 DEF PInv, PointerTypes
<1>3. PointerTypes'
  BY <1>1, <1>2 DEF PInv, PointerTypes
<1>4. Existing \subseteq Object /\ NoObject \notin Object /\ \A i \in 1..Len(destroy_queue) :
        destroy_queue[i] \in bDestroy /\ destroy_queue[i] \in Object
  BY <1>1, ObjectAssumption, SMTT(30) DEF IInv, ListTypes, Existing, PInv, Queued, Listed, PointerTypes
<1>5. Queued'
  BY <1>1, <1>2, <1>4 DEF PInv, Queued, PointerTypes
<1>6. NoOrphans' /\ OwnersOutlive'
  BY <1>1, <1>2, <1>4 DEF PInv, NoOrphans, OwnersOutlive
<1>7. AllTold' /\ NoDanglingLink' /\ CallbacksFound'
  BY <1>1 DEF PInv, AllTold, NoDanglingLink, CallbacksFound
<1> QED BY <1>3, <1>5, <1>6, <1>7 DEF PInv

\* Who holds and who is held are there; nothing is held while the queue is worked off.
LEMMA HoldPointers ==
  ASSUME IInv, PInv, NEW l \in Links, Hold(l)
  PROVE  PInv'
<1>1. /\ Existing' = Existing /\ UNCHANGED <<doom, Parent, callbacks, m_ID, phase>>
      /\ links' = links \cup {l} /\ l.holder \in Existing /\ l.target \in Existing
      /\ phase # "destroy"
  BY DEF Hold, Called, lists, Existing
<1> USE DEF doom
<1>2. PointerTypes' /\ NoDanglingLink' /\ AllTold'
  BY <1>1 DEF PInv, PointerTypes, NoDanglingLink, AllTold
<1>3. Queued' /\ NoOrphans' /\ OwnersOutlive' /\ CallbacksFound'
  BY <1>1 DEF PInv, Queued, NoOrphans, OwnersOutlive, CallbacksFound
<1> QED BY <1>2, <1>3 DEF PInv

\* Everybody who holds a pointer to who is in the queue is told.
LEMMA EndUpdatePointers ==
  ASSUME IInv, PInv, EndUpdate
  PROVE  PInv'
<1>1. /\ Existing' = Existing /\ UNCHANGED <<doom, Parent, callbacks, m_ID>>
      /\ links' = {l \in links : ~(Told(l) /\ l.target \in Listed(destroy_queue))}
      /\ phase = "update" /\ phase' = IF destroy_queue = <<>> THEN "frame" ELSE "destroy"
  BY DEF EndUpdate, lists, Existing
<1> USE DEF doom
<1>2. PointerTypes' /\ NoDanglingLink'
  BY <1>1 DEF PInv, PointerTypes, NoDanglingLink
<1>3. Queued' /\ NoOrphans' /\ OwnersOutlive' /\ CallbacksFound'
  BY <1>1 DEF PInv, Queued, NoOrphans, OwnersOutlive, CallbacksFound
<1>4. AllTold'
  <2>1. ASSUME NEW l \in links PROVE Told(l)
    <3>1. l \in Links /\ l.holder \in Existing /\ (l.via = "object" \/ l.via = "feel")
      BY ObjectAssumption DEF PInv, PointerTypes, NoDanglingLink
    <3>2. l.via = "feel" => l.holder \in Listed(callbacks)
      BY <3>1, ObjectAssumption DEF PInv, CallbacksFound
    <3> QED BY <3>1, <3>2 DEF Told
  <2> QED BY <1>1, <2>1 DEF AllTold
<1> QED BY <1>2, <1>3, <1>4 DEF PInv

LEMMA UnloadPointers ==
  ASSUME IInv, PInv, Unload
  PROVE  PInv'
<1>1. /\ Existing' = {} /\ bDestroy' = {} /\ Parent' = [o \in Object |-> NoObject]
      /\ callbacks' = <<>> /\ m_ID' = [o \in Feel |-> 0] /\ links' = {} /\ phase' = "unloaded"
  BY DEF Unload, Existing
<1>2. destroy_queue' \in Seq(Object)
  <2>1. PICK s \in SetToSeqs(Existing \ bDestroy) : destroy_queue' = destroy_queue \o s
    BY DEF Unload
  <2>2. Existing \subseteq Object
    BY DEF IInv, ListTypes, Existing
  <2>3. s \in Seq(Object)
    BY <2>2, ArrangedOnce
  <2> QED BY <2>1, <2>3 DEF PInv, PointerTypes
<1>3. PointerTypes'
  BY <1>1, <1>2 DEF PointerTypes
<1>4. Queued' /\ NoOrphans' /\ AllTold' /\ OwnersOutlive' /\ NoDanglingLink' /\ CallbacksFound'
  BY <1>1 DEF Queued, NoOrphans, AllTold, OwnersOutlive, NoDanglingLink, CallbacksFound, Listed
<1> QED BY <1>3, <1>4 DEF PInv

\* setDestroy marks the object and the unmarked below it, whole.
LEMMA MarkedBelow ==
  ASSUME NEW o \in Existing \ bDestroy
  PROVE  /\ Marked(o) \subseteq Existing \ bDestroy /\ o \in Marked(o)
         /\ \A c \in Existing \ bDestroy : Parent[c] \in Marked(o) => c \in Marked(o)
         /\ \A x \in Marked(o) : x = o \/ Parent[x] \in Marked(o)
<1> DEFINE Closed(S) == \A c \in Existing \ bDestroy : Parent[c] \in S => c \in S
<1>1. \A x : x \in Marked(o) <=> x \in Existing /\ \A S \in SUBSET Existing : o \in S /\ Closed(S) => x \in S
  BY DEF Marked
<1>2. ASSUME NEW c \in Existing \ bDestroy, Parent[c] \in Marked(o) PROVE c \in Marked(o)
  BY <1>1, <1>2
<1>3. o \in Marked(o)
  BY <1>1
<1>4. Marked(o) \subseteq Existing \ bDestroy
  <2>1. (Existing \ bDestroy) \in SUBSET Existing /\ Closed(Existing \ bDestroy)
    OBVIOUS
  <2> QED BY <1>1, <2>1
<1>5. ASSUME NEW x \in Marked(o) PROVE x = o \/ Parent[x] \in Marked(o)
  <2> DEFINE S == {y \in Marked(o) : y = o \/ Parent[y] \in Marked(o)}
  <2>1. S \in SUBSET Existing /\ o \in S
    BY <1>3, <1>4
  <2>2. Closed(S)
    BY <1>2
  <2>3. x \in S
    BY <1>1, <2>1, <2>2
  <2> QED BY <2>3
<1> QED BY <1>2, <1>3, <1>4, <1>5

\* Who is marked goes behind what was in the queue, owners first.
LEMMA SetDestroyPointers ==
  ASSUME IInv, PInv, NEW o \in Object, setDestroy(o)
  PROVE  PInv'
<1> DEFINE M == Marked(o)
           q == destroy_queue
<1>1. /\ Existing' = Existing /\ UNCHANGED <<Parent, relcase, phase>> /\ phase = "frame"
      /\ bDestroy' = bDestroy \cup M /\ o \in Existing \ bDestroy /\ Parent[o] = NoObject
  BY DEF setDestroy, lists, Existing
<1> PICK s \in Orders(M) : destroy_queue' = q \o s
  BY DEF setDestroy
<1>2. /\ M \subseteq Existing \ bDestroy /\ o \in M
      /\ \A c \in Existing \ bDestroy : Parent[c] \in M => c \in M
      /\ \A x \in M : x = o \/ Parent[x] \in M
  BY <1>1, MarkedBelow
<1> HIDE DEF M
<1>3. Existing \subseteq Object /\ NoObject \notin Object /\ M \in SUBSET Object
  BY <1>2, ObjectAssumption DEF IInv, ListTypes, Existing
<1>4. s \in SetToSeqs(M) /\ \A i, k \in 1..Len(s) : Parent[s[k]] = s[i] => i < k
  BY DEF Orders
<1>5. s \in Seq(Object) /\ Listed(s) = M /\ NoRepeat(s)
  BY <1>3, <1>4, ArrangedOnce
<1>6. /\ q \in Seq(Object) /\ NoRepeat(q) /\ Listed(q) = bDestroy /\ bDestroy \subseteq Existing
      /\ \A i, k \in 1..Len(q) : Parent[q[k]] = q[i] => i < k
      /\ \A x \in bDestroy : Parent[x] # NoObject => Parent[x] \in bDestroy
  BY <1>1 DEF PInv, PointerTypes, Queued
<1> DEFINE n == Len(q)
<1>7. /\ n \in Nat /\ Len(s) \in Nat
      /\ destroy_queue' \in Seq(Object) /\ Len(destroy_queue') = n + Len(s)
      /\ \A i \in 1..n : destroy_queue'[i] = q[i] /\ q[i] \in bDestroy
      /\ \A i \in 1..(n + Len(s)) : i \notin 1..n =>
           i - n \in 1..Len(s) /\ destroy_queue'[i] = s[i-n] /\ s[i-n] \in M
      /\ \A i \in 1..Len(s) : n + i \in 1..(n + Len(s)) /\ destroy_queue'[n+i] = s[i]
  <2>1. /\ Len(q) \in Nat /\ Len(s) \in Nat
        /\ q \o s \in Seq(Object) /\ Len(q \o s) = Len(q) + Len(s)
        /\ \A i \in 1..(Len(q) + Len(s)) : (q \o s)[i] = IF i <= Len(q) THEN q[i] ELSE s[i - Len(q)]
    BY <1>5, <1>6, ConcatProperties, LenProperties
  <2>2. (\A i \in 1..n : q[i] \in bDestroy) /\ (\A i \in 1..Len(s) : s[i] \in M)
    BY <1>5, <1>6 DEF Listed
  <2> HIDE DEF q
  <2> QED BY <2>1, <2>2
<1> HIDE DEF q, n
<1>8. Listed(destroy_queue)' = bDestroy'
  <2>1. ASSUME NEW x \in bDestroy' PROVE \E i \in 1..(n + Len(s)) : destroy_queue'[i] = x
    <3>1. CASE x \in bDestroy
      <4>1. PICK i \in 1..n : q[i] = x
        BY <1>6, <3>1 DEF Listed, n
      <4> QED BY <1>7, <4>1
    <3>2. CASE x \in M
      <4>1. PICK i \in 1..Len(s) : s[i] = x
        BY <1>5, <3>2 DEF Listed
      <4> QED BY <1>7, <4>1
    <3> QED BY <1>1, <3>1, <3>2
  <2>2. \A i \in 1..(n + Len(s)) : destroy_queue'[i] \in bDestroy'
    BY <1>1, <1>7
  <2> QED BY <1>7, <2>1, <2>2 DEF Listed
<1>9. bDestroy \cap M = {}
  BY <1>2
<1>10. NoRepeat(destroy_queue')
  <2> SUFFICES ASSUME NEW i \in 1..(n + Len(s)), NEW k \in 1..(n + Len(s)),
                      destroy_queue'[i] = destroy_queue'[k]
               PROVE  i = k
    BY <1>7 DEF NoRepeat
  <2>1. CASE i \in 1..n /\ k \in 1..n
    BY <1>6, <1>7, <2>1 DEF NoRepeat, n
  <2>2. CASE i \notin 1..n /\ k \notin 1..n
    <3>1. /\ i - n \in 1..Len(s) /\ k - n \in 1..Len(s)
          /\ s[i-n] = s[k-n]
      BY <1>7, <2>2
    <3>2. i - n = k - n
      BY <1>5, <3>1 DEF NoRepeat
    <3> QED BY <1>7, <3>2
  <2>3. CASE i \in 1..n /\ k \notin 1..n
    <3>1. destroy_queue'[i] \in bDestroy /\ destroy_queue'[k] \in M
      BY <1>7, <2>3
    <3> QED BY <1>9, <3>1
  <2>4. CASE i \notin 1..n /\ k \in 1..n
    <3>1. destroy_queue'[i] \in M /\ destroy_queue'[k] \in bDestroy
      BY <1>7, <2>4
    <3> QED BY <1>9, <3>1
  <2> QED BY <2>1, <2>2, <2>3, <2>4
<1>11. ASSUME NEW i \in 1..(n + Len(s)), NEW k \in 1..(n + Len(s)),
              Parent[destroy_queue'[k]] = destroy_queue'[i]
       PROVE  i < k
  <2>1. CASE i \in 1..n /\ k \in 1..n
    BY <1>6, <1>7, <1>11, <2>1 DEF n
  <2>2. CASE i \notin 1..n /\ k \notin 1..n
    <3>1. /\ i - n \in 1..Len(s) /\ k - n \in 1..Len(s)
          /\ Parent[s[k-n]] = s[i-n]
      BY <1>7, <1>11, <2>2
    <3>2. i - n < k - n
      BY <1>4, <3>1
    <3> QED BY <1>7, <3>2
  <2>3. CASE i \in 1..n /\ k \notin 1..n
    BY <1>7, <2>3
  <2>4. CASE i \notin 1..n /\ k \in 1..n
    <3>1. Parent[q[k]] \in M /\ q[k] \in bDestroy
      BY <1>7, <1>11, <2>4
    <3>2. Parent[q[k]] # NoObject
      BY <1>3, <3>1
    <3> QED BY <1>6, <1>9, <3>1, <3>2
  <2> QED BY <2>1, <2>2, <2>3, <2>4
<1>12. \A x \in bDestroy' : Parent[x] # NoObject => Parent[x] \in bDestroy'
  BY <1>1, <1>2, <1>6
<1>13. Queued'
  BY <1>1, <1>2, <1>6, <1>7, <1>8, <1>10, <1>11, <1>12 DEF Queued
<1>14. PointerTypes'
  BY <1>1, <1>2, <1>3, <1>6, <1>7 DEF PInv, PointerTypes, relcase
<1>15. OwnersOutlive'
  <2> SUFFICES ASSUME NEW c \in Existing, Parent[c] # NoObject
               PROVE  Parent[c] \in Existing /\ (Parent[c] \in bDestroy' => c \in bDestroy')
    BY <1>1 DEF OwnersOutlive
  <2>1. Parent[c] \in Existing /\ (Parent[c] \in bDestroy => c \in bDestroy)
    BY <1>1 DEF PInv, OwnersOutlive
  <2> QED BY <1>1, <1>2, <2>1
<1>16. NoOrphans' /\ AllTold' /\ NoDanglingLink' /\ CallbacksFound'
  BY <1>1 DEF PInv, NoOrphans, AllTold, NoDanglingLink, CallbacksFound, relcase
<1> QED BY <1>13, <1>14, <1>15, <1>16 DEF PInv

\* All entries but the last.
LEMMA FrontEntries ==
  ASSUME NEW S, NEW s \in Seq(S), Len(s) > 0
  PROVE  /\ Front(s) \in Seq(S) /\ Len(Front(s)) = Len(s) - 1
         /\ \A i \in 1..(Len(s) - 1) : Front(s)[i] = s[i]
<1> PICK n \in Nat : n = Len(s)
  BY LenProperties
<1>1. 1 \in Int /\ n - 1 \in Int /\ \A k \in 1..(n-1) : s[k] \in S
  BY ElementOfSeq
<1>2. /\ SubSeq(s, 1, n-1) \in Seq(S)
      /\ Len(SubSeq(s, 1, n-1)) = IF 1 <= n-1 THEN (n-1)-1+1 ELSE 0
      /\ \A k \in 1..((n-1)-1+1) : SubSeq(s, 1, n-1)[k] = s[1+k-1]
  BY <1>1, SubSeqProperties
<1> QED BY <1>2 DEF Front

\* The last one's callback moves to the place of the one that goes, with its id.
LEMMA Unregistered ==
  ASSUME NEW o \in Object, relcase_unregister(o), callbacks \in Seq(Feel), m_ID \in [Feel -> Nat],
         \A i \in 1..Len(callbacks) : m_ID[callbacks[i]] = i - 1
  PROVE  /\ callbacks' \in Seq(Feel) /\ m_ID' \in [Feel -> Nat]
         /\ \A i \in 1..Len(callbacks') : m_ID'[callbacks'[i]] = i - 1
         /\ Listed(callbacks') = Listed(callbacks) \ {o}
<1> PICK n \in Nat : n = Len(callbacks)
  BY LenProperties
<1> PICK c \in Seq(Feel) : c = callbacks
  OBVIOUS
<1>1. \A i \in 1..n : c[i] \in Feel /\ m_ID[c[i]] = i - 1
  OBVIOUS
<1>2. CASE o \notin Listed(callbacks)
  <2>1. callbacks' = callbacks /\ m_ID' = m_ID
    BY <1>2 DEF relcase_unregister
  <2> QED BY <1>2, <2>1
<1>3. CASE o \in Listed(callbacks)
  <2> PICK k \in 1..n : c[k] = o
    BY <1>3 DEF Listed
  <2>1. n > 0 /\ n \in 1..n /\ m_ID[o] + 1 = k /\ o \in Feel /\ c[n] \in Feel
    BY <1>1
  <2> PICK last \in Feel : last = c[n]
    BY <2>1
  <2> DEFINE moved == [c EXCEPT ![k] = last]
  <2>2. callbacks' = Front(moved) /\ m_ID' = [m_ID EXCEPT ![last] = m_ID[o]]
    BY <1>3, <2>1 DEF relcase_unregister, Last
  <2>3. /\ moved \in Seq(Feel) /\ Len(moved) = n
        /\ \A i \in 1..n : moved[i] = IF i = k THEN last ELSE c[i]
    OBVIOUS
  <2> HIDE DEF moved
  <2>4. /\ callbacks' \in Seq(Feel) /\ Len(callbacks') = n - 1
        /\ \A i \in 1..(n-1) : callbacks'[i] = IF i = k THEN last ELSE c[i]
    BY <2>1, <2>2, <2>3, FrontEntries, SMTT(30)
  <2>5. m_ID' \in [Feel -> Nat] /\ m_ID'[last] = k - 1
        /\ \A x \in Feel : x # last => m_ID'[x] = m_ID[x]
    BY <2>1, <2>2
  <2>6. \A i, j \in 1..n : c[i] = c[j] => i = j
    <3>1. \A i, j \in 1..n : c[i] = c[j] => i - 1 = j - 1
      BY <1>1
    <3> QED BY <3>1
  <2>7. ASSUME NEW i \in 1..(n-1) PROVE m_ID'[callbacks'[i]] = i - 1
    <3>1. i \in 1..n /\ i # n
      OBVIOUS
    <3>2. CASE i = k
      BY <2>4, <2>5, <3>2
    <3>3. CASE i # k
      <4>1. callbacks'[i] = c[i] /\ c[i] # last
        BY <2>1, <2>4, <2>6, <3>1, <3>3
      <4> QED BY <1>1, <2>5, <3>1, <4>1
    <3> QED BY <3>2, <3>3
  <2>8. ASSUME NEW x \in Listed(callbacks') PROVE x \in Listed(callbacks) \ {o}
    <3>1. PICK i \in 1..(n-1) : callbacks'[i] = x
      BY <2>4, <2>8 DEF Listed
    <3>2. i \in 1..n /\ i # n
      OBVIOUS
    <3>3. CASE i = k
      <4>1. x = c[n] /\ c[n] # o
        BY <2>1, <2>4, <2>6, <3>1, <3>2, <3>3
      <4> QED BY <2>1, <4>1 DEF Listed
    <3>4. CASE i # k
      <4>1. x = c[i] /\ c[i] # o
        BY <2>4, <2>6, <3>1, <3>2, <3>4
      <4> QED BY <3>2, <4>1 DEF Listed
    <3> QED BY <3>3, <3>4
  <2>9. ASSUME NEW x \in Listed(callbacks) \ {o} PROVE x \in Listed(callbacks')
    <3>1. PICK i \in 1..n : c[i] = x
      BY <2>9 DEF Listed
    <3>2. i # k
      BY <2>9, <3>1
    <3>3. CASE i = n
      <4>1. k \in 1..(n-1) /\ callbacks'[k] = x
        BY <2>4, <3>1, <3>2, <3>3
      <4> QED BY <2>4, <4>1 DEF Listed
    <3>4. CASE i # n
      <4>1. i \in 1..(n-1) /\ callbacks'[i] = x
        BY <2>4, <3>1, <3>2, <3>4, SMTT(30)
      <4> QED BY <2>4, <4>1 DEF Listed
    <3> QED BY <3>3, <3>4
  <2> QED BY <2>4, <2>5, <2>7, <2>8, <2>9
<1> QED BY <1>2, <1>3

\* The last of the queue owns nobody any more, and nobody points at him.
LEMMA DestroyQueuePointers ==
  ASSUME IInv, PInv, DestroyQueue
  PROVE  PInv'
<1> PICK q \in Seq(Object) : q = destroy_queue
  BY DEF PInv, PointerTypes
<1> PICK n \in Nat : n = Len(q)
  BY LenProperties
<1>1. /\ phase = "destroy" /\ q # <<>> /\ n > 0
      /\ NoRepeat(q) /\ Listed(q) = bDestroy /\ bDestroy \subseteq Existing
      /\ \A i, k \in 1..n : Parent[q[k]] = q[i] => i < k
      /\ \A x \in bDestroy : Parent[x] # NoObject => Parent[x] \in bDestroy
  BY DEF DestroyQueue, PInv, Queued
<1> PICK o \in Object : o = q[n]
  BY <1>1
<1>2. /\ objects_active' = objects_active \ {o} /\ objects_sleeping' = objects_sleeping \ {o}
      /\ bDestroy' = bDestroy \ {o} /\ Parent' = [Parent EXCEPT ![o] = NoObject]
      /\ relcase_unregister(o) /\ links' = {l \in links : l.holder # o}
      /\ destroy_queue' = Front(q) /\ phase' \in {"frame", "destroy"}
      /\ phase' = "destroy" => destroy_queue' # <<>>
  BY DEF DestroyQueue, Destroy, Last
<1>3. Existing' = Existing \ {o} /\ Existing \subseteq Object /\ NoObject \notin Object
  BY <1>2, ObjectAssumption DEF Existing, IInv, ListTypes
<1>4. /\ destroy_queue' \in Seq(Object) /\ Len(destroy_queue') = n - 1
      /\ \A i \in 1..(n-1) : destroy_queue'[i] = q[i] /\ i \in 1..n /\ i # n
  BY <1>1, <1>2, FrontEntries
<1>5. Parent' \in [Object -> Object \cup {NoObject}] /\ Parent'[o] = NoObject
      /\ \A x \in Object : x # o => Parent'[x] = Parent[x]
  BY <1>2 DEF PInv, PointerTypes
<1>6. /\ callbacks' \in Seq(Feel) /\ m_ID' \in [Feel -> Nat]
      /\ \A i \in 1..Len(callbacks') : m_ID'[callbacks'[i]] = i - 1
      /\ Listed(callbacks') = Listed(callbacks) \ {o}
  BY <1>2, Unregistered DEF PInv, PointerTypes, CallbacksFound
<1>7. PointerTypes'
  BY <1>2, <1>4, <1>5, <1>6 DEF PInv, PointerTypes
<1>8. CallbacksFound'
  BY <1>3, <1>6 DEF PInv, CallbacksFound
<1>9. n \in 1..n /\ o \in bDestroy
  BY <1>1 DEF Listed
<1>10. Listed(destroy_queue)' = bDestroy'
  <2>1. ASSUME NEW x \in bDestroy' PROVE \E i \in 1..(n-1) : destroy_queue'[i] = x
    <3>1. PICK i \in 1..n : q[i] = x
      BY <1>1, <1>2 DEF Listed
    <3>2. i # n
      BY <1>2, <2>1, <3>1
    <3>3. i \in 1..(n-1)
      BY <3>2
    <3> QED BY <1>4, <3>1, <3>3
  <2>2. ASSUME NEW i \in 1..(n-1) PROVE destroy_queue'[i] \in bDestroy'
    <3>1. q[i] \in bDestroy /\ q[i] # o
      BY <1>1, <1>4, <1>9 DEF Listed, NoRepeat
    <3> QED BY <1>2, <1>4, <3>1
  <2>3. Listed(destroy_queue') = {destroy_queue'[i] : i \in 1..(n-1)}
    BY <1>4 DEF Listed
  <2> QED BY <2>1, <2>2, <2>3
<1>11. \A x \in bDestroy : Parent[x] # o
  <2> SUFFICES ASSUME NEW x \in bDestroy, Parent[x] = o PROVE FALSE
    OBVIOUS
  <2>1. PICK k \in 1..n : q[k] = x
    BY <1>1 DEF Listed
  <2>2. n < k
    BY <1>1, <1>9, <2>1
  <2> QED BY <2>2
<1>12. \A c \in Existing : Parent[c] # o
  <2> SUFFICES ASSUME NEW c \in Existing, Parent[c] = o PROVE FALSE
    OBVIOUS
  <2>1. c \in bDestroy
    BY <1>1, <1>3, <1>9 DEF PInv, OwnersOutlive
  <2> QED BY <1>11, <2>1
<1>13. Queued'
  <2>1. NoRepeat(destroy_queue')
    BY <1>1, <1>4 DEF NoRepeat
  <2>2. bDestroy' \subseteq Existing'
    BY <1>1, <1>2, <1>3
  <2>3. ASSUME NEW i \in 1..(n-1), NEW k \in 1..(n-1), Parent'[destroy_queue'[k]] = destroy_queue'[i]
        PROVE  i < k
    <3>1. i \in 1..n /\ k \in 1..n /\ n \in 1..n /\ k # n
      BY <1>1
    <3>4. q[k] # o /\ q[k] \in Object
      BY <1>1, <1>9, <3>1 DEF NoRepeat
    <3>2. Parent[q[k]] = q[i]
      BY <1>4, <1>5, <2>3, <3>1, <3>4
    <3> QED BY <1>1, <3>1, <3>2
  <2>4. \A x \in bDestroy' : Parent'[x] # NoObject => Parent'[x] \in bDestroy'
    BY <1>1, <1>2, <1>3, <1>5, <1>11
  <2> QED BY <1>2, <1>4, <1>10, <2>1, <2>2, <2>3, <2>4 DEF Queued
<1>14. OwnersOutlive'
  <2> SUFFICES ASSUME NEW c \in Existing', Parent'[c] # NoObject
               PROVE  Parent'[c] \in Existing' /\ (Parent'[c] \in bDestroy' => c \in bDestroy')
    BY DEF OwnersOutlive
  <2>1. c \in Existing /\ c # o /\ Parent'[c] = Parent[c] /\ Parent[c] # o
    BY <1>3, <1>5, <1>12
  <2>2. Parent[c] \in Existing /\ (Parent[c] \in bDestroy => c \in bDestroy)
    BY <1>1, <2>1 DEF PInv, OwnersOutlive
  <2> QED BY <1>2, <1>3, <2>1, <2>2
<1>15. NoOrphans'
  BY <1>3, <1>5 DEF PInv, NoOrphans
<1>16. AllTold' /\ NoDanglingLink'
  <2>1. \A l \in links : l.target \notin bDestroy
    BY <1>1 DEF PInv, AllTold
  <2>2. AllTold'
    BY <1>2, <1>10, <2>1 DEF AllTold
  <2>3. NoDanglingLink'
    BY <1>2, <1>3, <1>9, <2>1 DEF PInv, NoDanglingLink
  <2> QED BY <2>2, <2>3
<1> QED BY <1>7, <1>8, <1>13, <1>14, <1>15, <1>16 DEF PInv

\* Every step keeps owners, pointers and callbacks.
LEMMA PointersKept == IInv /\ PInv /\ [Next]_vars => PInv'
<1> SUFFICES ASSUME IInv, PInv, [Next]_vars PROVE PInv'
  OBVIOUS
<1>1. ASSUME NEW o \in Object,
             processing_activate(o) \/ processing_deactivate(o) \/ shedule_Update(o)
               \/ renderable_Render(o) \/ SingleUpdate(o)
      PROVE  PInv'
  <2>1. UNCHANGED <<doom, Parent, relcase, phase>>
    BY <1>1 DEF processing_activate, processing_deactivate, shedule_Update, renderable_Render,
                SingleUpdate
  <2>2. Existing' = Existing
    BY <1>1 DEF processing_activate, processing_deactivate, shedule_Update, renderable_Render,
                SingleUpdate, lists, Existing, Called, IInv, ListsFollowCounters
  <2> QED BY <2>1, <2>2, PointersStay
<1>2. CASE Begin \/ Stop \/ UNCHANGED vars
  <2>1. /\ UNCHANGED <<doom, Parent, relcase>> /\ Existing' = Existing
        /\ phase' = "destroy" \/ phase = "unloaded" => phase' = phase
    BY <1>2 DEF Begin, Paused, UpdateCrows, UpdateActive, BeginUpdate, Stop, vars, lists, Existing
  <2> QED BY <2>1, PointersStay
<1>3. CASE Calls
  BY <1>1, <1>3, SpawnPointers, SetDestroyPointers, DetachPointers, AttachPointers DEF Calls
<1>4. CASE Update
  BY <1>1, <1>2, <1>4, EndUpdatePointers, DestroyQueuePointers DEF Update
<1>5. CASE Unload \/ \E l \in Links : Hold(l)
  BY <1>5, UnloadPointers, HoldPointers
<1> QED BY <1>2, <1>3, <1>4, <1>5 DEF Next

LEMMA PointersAlways == Spec => []PInv
<1>1. Init => IInv /\ PInv
  BY Initially, PInitially
<1>2. IInv /\ PInv /\ [Next]_vars => (IInv /\ PInv)'
  BY StepKeeps, PointersKept
<1> QED BY <1>1, <1>2, PTL DEF Spec

\* For any objects: an owner outlives what it owns, though the queue holds both
\* and is walked from its end, whatever was marked before.
THEOREM OwnersOutliveAlways == Spec => []OwnersOutlive
<1>1. PInv => OwnersOutlive
  BY DEF PInv
<1> QED BY <1>1, PointersAlways, PTL

\* For any objects and pointers: who is destroyed has been forgotten by every
\* object and Feel before, and nobody comes to know him meanwhile.
THEOREM NoDanglingLinkAlways == Spec => []NoDanglingLink
<1>1. PInv => NoDanglingLink
  BY DEF PInv
<1> QED BY <1>1, PointersAlways, PTL

\* For any objects: in whatever order Feels come and go, each finds its callback
\* by the id it keeps, and only those that are there are called.
THEOREM CallbacksFoundAlways == Spec => []CallbacksFound
<1>1. PInv => CallbacksFound
  BY DEF PInv
<1> QED BY <1>1, PointersAlways, PTL
------------------------------------------------------------------------------
(* The ids: CID_Generator.                                                  *)

\* An id is its offset in its block.
LEMMA RoundTrip ==
  ASSUME NEW v \in Values
  PROVE  /\ tfGetBlockByValue(v) \in Blocks
         /\ Offset(v) \in Offsets
         /\ Value(tfGetBlockByValue(v), Offset(v)) = v
  BY IdAssumption, SMTT(30) DEF Values, Blocks, Offsets, tfGetBlockByValue, Offset, Value

\* An offset in a block is that of one id.
LEMMA OneValue ==
  ASSUME NEW b \in Blocks, NEW k \in Offsets
  PROVE  /\ tfGetBlockByValue(Value(b, k)) = b
         /\ Offset(Value(b, k)) = k
  BY IdAssumption, SMTT(30) DEF Values, Blocks, Offsets, tfGetBlockByValue, Offset, Value

\* A block is for at least one id and at most BlockSize; its offsets are those
\* of ids, and every id is in its block.
LEMMA SizeBounds ==
  ASSUME NEW b \in Blocks
  PROVE  /\ Size(b) \in 1..BlockSize
         /\ \A k \in 0..(Size(b) - 1) : Value(b, k) \in Values
         /\ \A v \in Values : tfGetBlockByValue(v) = b => Offset(v) \in 0..(Size(b) - 1)
  <1>1. b * BlockSize \in Nat /\ b * BlockSize <= MaxValue - MinValue
    BY IdAssumption, SMTT(30) DEF Blocks
  <1> DEFINE m == b * BlockSize
  <1>2. m \in Nat /\ m <= MaxValue - MinValue
    BY <1>1
  <1>3. Size(b) = IF MaxValue - MinValue + 1 - m < BlockSize
                  THEN MaxValue - MinValue + 1 - m ELSE BlockSize
    BY DEF Size
  <1>4. \A k \in Nat : Value(b, k) = k + m + MinValue
    BY DEF Value
  <1>5. \A v \in Values : tfGetBlockByValue(v) = b =>
          Offset(v) \in Offsets /\ Offset(v) + m + MinValue = v
    BY RoundTrip, <1>4 DEF Offsets
  <1> HIDE DEF m
  <1>6. Size(b) \in 1..BlockSize
    BY IdAssumption, <1>2, <1>3
  <1>7. \A k \in 0..(Size(b) - 1) : Value(b, k) \in Values
    BY IdAssumption, <1>2, <1>3, <1>4, <1>6 DEF Values
  <1>8. \A v \in Values : tfGetBlockByValue(v) = b => Offset(v) \in 0..(Size(b) - 1)
    BY IdAssumption, <1>2, <1>3, <1>5, <1>6 DEF Values, Offsets
  <1> QED BY <1>6, <1>7, <1>8

\* Taking an offset off the stack leaves the others.
LEMMA WithoutListed ==
  ASSUME NEW S, NEW s \in Seq(S), NoRepeat(s), NEW i \in 1..Len(s)
  PROVE  /\ Without(s, i) \in Seq(S)
         /\ Len(Without(s, i)) = Len(s) - 1
         /\ NoRepeat(Without(s, i))
         /\ Listed(Without(s, i)) = Listed(s) \ {s[i]}
  <1> DEFINE r == Without(s, i)
  <1>1. Len(s) \in Nat /\ Len(s) - 1 \in Nat /\ \A k \in 1..Len(s) : s[k] \in S
    BY ElementOfSeq, LenProperties
  <1>2. \A k \in 1..(Len(s) - 1) :
          r[k] = (IF k = i THEN s[Len(s)] ELSE s[k]) /\ r[k] \in S
    BY <1>1 DEF Without
  <1>3. r \in Seq(S) /\ Len(r) = Len(s) - 1
    <2>1. r \in [1..(Len(s) - 1) -> S]
      BY <1>1, <1>2 DEF Without
    <2>2. r \in Seq(S)
      BY <1>1, <2>1, SeqDef
    <2>3. DOMAIN r = 1..(Len(s) - 1) /\ DOMAIN r = 1..Len(r) /\ Len(r) \in Nat
      BY <2>1, <2>2, LenProperties
    <2> QED BY <1>1, <2>2, <2>3
  <1> HIDE DEF r
  <1>4. NoRepeat(r)
    BY <1>1, <1>2, <1>3 DEF NoRepeat
  <1>5. ASSUME NEW x \in Listed(r) PROVE x \in Listed(s) \ {s[i]}
    <2>1. PICK k \in 1..Len(r) : x = r[k]
      BY <1>5 DEF Listed
    <2>2. PICK l \in 1..Len(s) : x = s[l] /\ l # i
      BY <1>1, <1>2, <1>3, <2>1
    <2> QED BY <2>2 DEF Listed, NoRepeat
  <1>6. ASSUME NEW x \in Listed(s) \ {s[i]} PROVE x \in Listed(r)
    <2>1. PICK l \in 1..Len(s) : x = s[l] /\ l # i
      BY <1>6 DEF Listed
    <2>2. PICK k \in 1..Len(r) : x = r[k]
      <3>1. CASE l = Len(s)
        BY <1>1, <1>2, <1>3, <2>1, <3>1
      <3>2. CASE l # Len(s)
        BY <1>1, <1>2, <1>3, <2>1, <3>2
      <3> QED BY <3>1, <3>2
    <2> QED BY <2>2 DEF Listed
  <1> QED BY <1>3, <1>4, <1>5, <1>6 DEF r

\* The blocks are finitely many.
LEMMA FiniteBlocks == IsFiniteSet(Blocks)
  <1>1. 0 \in Int /\ (MaxValue - MinValue) \div BlockSize \in Int
    BY IdAssumption, SMTT(30)
  <1> QED BY <1>1, FS_Interval DEF Blocks

\* What the invariant says of one block.
LEMMA BlockType ==
  ASSUME TypeOK, NEW b \in Blocks
  PROVE  /\ m_tpIDs[b] \in Seq(Offsets)
         /\ Len(m_tpIDs[b]) \in Nat
         /\ m_tpIDs[b] # <<>> <=> Len(m_tpIDs[b]) > 0
  <1>1. m_tpIDs[b] \in Seq(Offsets)
    BY DEF TypeOK
  <1> QED BY <1>1, LenProperties, EmptySeq

Full == {b \in Blocks : m_tpIDs[b] # <<>>}

\* Taking an id: the invariant holds on, and the id was in nobody's hands.
LEMMA TakeStep ==
  ASSUME IdInv, NEW b \in Blocks, NEW i \in 1..Len(m_tpIDs[b]), tfGetFromBlock(b, i)
  PROVE  /\ IdInv'
         /\ answer' \in Values \ Taken
         /\ tfGetBlockByValue(answer') = b
         /\ Taken' = Taken \cup {answer'}
         /\ refused' = refused
  <1> DEFINE s == m_tpIDs[b]
             k == s[i]
             v == Value(b, k)
  <1>1. s \in Seq(Offsets) /\ NoRepeat(s) /\ Len(s) \in Nat /\ i \in 1..Len(s)
    BY BlockType DEF IdInv, BlocksSound
  <1>2. k \in Offsets /\ k \in Listed(s)
    BY <1>1, ElementOfSeq DEF Listed
  <1>3. v \in Values /\ tfGetBlockByValue(v) = b /\ Offset(v) = k
    BY <1>2, OneValue DEF IdInv, BlocksSound
  <1>4. /\ Without(s, i) \in Seq(Offsets)
        /\ Len(Without(s, i)) = Len(s) - 1
        /\ NoRepeat(Without(s, i))
        /\ Listed(Without(s, i)) = Listed(s) \ {k}
    BY <1>1, WithoutListed
  <1>5. /\ answer' = v /\ now' = now /\ freed' = freed /\ m_tTimeID' = m_tTimeID
        /\ refused' = refused
        /\ m_available_count' = IF Len(s) = 1 THEN m_available_count - 1
                                              ELSE m_available_count
    BY DEF tfGetFromBlock
  <1>6. /\ m_tpIDs'[b] = Without(s, i)
        /\ \A c \in Blocks \ {b} : m_tpIDs'[c] = m_tpIDs[c]
        /\ m_tpIDs' \in [Blocks -> Seq(Offsets)]
    BY <1>4 DEF tfGetFromBlock, IdInv, TypeOK
  <1> HIDE DEF v, k, s
  <1>7. v \notin Taken
    BY <1>2, <1>3 DEF Taken, s
  <1>8. Taken' = Taken \cup {v}
    <2>1. ASSUME NEW w \in Values
          PROVE  Offset(w) \notin Listed(m_tpIDs'[tfGetBlockByValue(w)])
                 <=> w = v \/ Offset(w) \notin Listed(m_tpIDs[tfGetBlockByValue(w)])
      <3>1. CASE tfGetBlockByValue(w) = b
        <4>1. Offset(w) = k <=> w = v
          BY <1>3, <3>1, RoundTrip
        <4> QED BY <1>2, <1>4, <1>6, <3>1, <4>1 DEF s
      <3>2. CASE tfGetBlockByValue(w) # b
        BY <1>3, <1>6, <3>2, RoundTrip
      <3> QED BY <3>1, <3>2
    <2> QED BY <1>3, <2>1 DEF Taken
  <1>9. CountAgrees' /\ m_available_count' \in Nat
    <2>1. IsFiniteSet(Full) /\ m_available_count = Cardinality(Full)
      BY FiniteBlocks, FS_Subset DEF Full, IdInv, CountAgrees
    <2>2. b \in Full /\ Cardinality(Full \ {b}) = Cardinality(Full) - 1
      <3>1. b \in Full
        BY <1>1, BlockType DEF Full, IdInv, s
      <3> QED BY <2>1, <3>1, FS_RemoveElement
    <2>3. Cardinality(Full) \in Nat /\ Cardinality(Full \ {b}) \in Nat
      BY <2>1, FS_RemoveElement, FS_CardinalityType
    <2>4. m_tpIDs'[b] = <<>> <=> Len(s) = 1
      BY <1>1, <1>4, <1>6, EmptySeq
    <2>5. CASE Len(s) = 1
      <3>1. Full' = Full \ {b}
        BY <1>6, <2>4, <2>5 DEF Full
      <3> QED BY <1>5, <2>1, <2>2, <2>3, <2>5, <3>1 DEF CountAgrees, Full
    <2>6. CASE Len(s) # 1
      <3>1. Full' = Full
        BY <1>6, <2>2, <2>4, <2>6 DEF Full
      <3> QED BY <1>5, <2>1, <2>3, <2>6, <3>1 DEF CountAgrees, Full
    <2> QED BY <2>5, <2>6
  <1>10. TypeOK'
    BY <1>3, <1>5, <1>6, <1>9 DEF TypeOK, IdInv
  <1>11. BlocksSound'
    <2> SUFFICES ASSUME NEW c \in Blocks
                 PROVE  /\ NoRepeat(m_tpIDs'[c])
                        /\ \A x \in Listed(m_tpIDs'[c]) : Value(c, x) \in Values
      BY DEF BlocksSound
    <2>1. CASE c = b
      BY <1>4, <1>6, <2>1 DEF BlocksSound, IdInv, s
    <2>2. CASE c # b
      BY <1>6, <2>2 DEF BlocksSound, IdInv
    <2> QED BY <2>1, <2>2
  <1>12. TimesAgree'
    BY <1>5 DEF IdInv, TimesAgree
  <1> QED BY <1>3, <1>5, <1>7, <1>8, <1>9, <1>10, <1>11, <1>12 DEF IdInv

\* Giving an id back.
LEMMA GiveStep ==
  ASSUME IdInv, NEW v \in Values, Free(v)
  PROVE  /\ IdInv'
         /\ v \in Taken
         /\ Taken' = Taken \ {v}
         /\ answer' = answer /\ refused' = refused
  <1> DEFINE b == tfGetBlockByValue(v)
             s == m_tpIDs[b]
             k == Offset(v)
  <1>1. /\ b \in Blocks /\ k \in Offsets /\ Value(b, k) = v
        /\ k \notin Listed(s) /\ v \in Taken
    BY RoundTrip DEF Free, Taken
  <1>2. s \in Seq(Offsets) /\ NoRepeat(s) /\ Len(s) \in Nat
    BY <1>1, BlockType DEF IdInv, BlocksSound
  <1>3. /\ Append(s, k) \in Seq(Offsets)
        /\ Listed(Append(s, k)) = Listed(s) \cup {k}
        /\ NoRepeat(Append(s, k))
        /\ Append(s, k) # <<>>
    <2>1. Append(s, k) # <<>>
      BY <1>1, <1>2, AppendProperties, EmptySeq
    <2> QED BY <1>1, <1>2, <2>1, AppendListed
  <1>4. /\ answer' = answer /\ now' = now /\ refused' = refused
        /\ freed' = [freed EXCEPT ![v] = now]
        /\ m_tTimeID' = [m_tTimeID EXCEPT ![b] = now]
        /\ m_available_count' = IF s = <<>> THEN m_available_count + 1
                                            ELSE m_available_count
    BY DEF Free
  <1>5. /\ m_tpIDs'[b] = Append(s, k)
        /\ \A c \in Blocks \ {b} : m_tpIDs'[c] = m_tpIDs[c]
        /\ m_tpIDs' \in [Blocks -> Seq(Offsets)]
    BY <1>1, <1>3 DEF Free, IdInv, TypeOK
  <1>6. ASSUME NEW w \in Values
        PROVE  tfGetBlockByValue(w) = b /\ Offset(w) = k <=> w = v
    BY <1>1, RoundTrip
  <1> HIDE DEF b, k, s
  <1>7. Taken' = Taken \ {v}
    <2>1. ASSUME NEW w \in Values
          PROVE  Offset(w) \notin Listed(m_tpIDs'[tfGetBlockByValue(w)])
                 <=> w # v /\ Offset(w) \notin Listed(m_tpIDs[tfGetBlockByValue(w)])
      <3>1. CASE tfGetBlockByValue(w) = b
        BY <1>3, <1>5, <1>6, <3>1 DEF s
      <3>2. CASE tfGetBlockByValue(w) # b
        BY <1>5, <1>6, <3>2, RoundTrip
      <3> QED BY <3>1, <3>2
    <2> QED BY <2>1 DEF Taken
  <1>8. CountAgrees' /\ m_available_count' \in Nat
    <2>1. IsFiniteSet(Full) /\ m_available_count = Cardinality(Full)
      BY FiniteBlocks, FS_Subset DEF Full, IdInv, CountAgrees
    <2>2. Cardinality(Full) \in Nat
      BY <2>1, FS_CardinalityType
    <2>3. Full' = Full \cup {b}
      BY <1>1, <1>3, <1>5 DEF Full
    <2>4. b \in Full <=> s # <<>>
      BY <1>1 DEF Full, s
    <2>5. Cardinality(Full \cup {b}) = IF b \in Full THEN Cardinality(Full)
                                                    ELSE Cardinality(Full) + 1
      BY <2>1, FS_AddElement
    <2>6. CountAgrees' <=> m_available_count' = Cardinality(Full')
      BY DEF CountAgrees, Full
    <2>7. CASE s = <<>>
      <3>1. m_available_count' = m_available_count + 1
        BY <1>4, <2>7
      <3> QED BY <2>1, <2>2, <2>3, <2>4, <2>5, <2>6, <2>7, <3>1
    <2>8. CASE s # <<>>
      <3>1. m_available_count' = m_available_count
        BY <1>4, <2>8
      <3> QED BY <2>1, <2>2, <2>3, <2>4, <2>5, <2>6, <2>8, <3>1
    <2> QED BY <2>7, <2>8
  <1>9. TypeOK'
    <2>1. /\ now \in 1..MaxTime /\ now \in Nat /\ freed \in [Values -> 0..now]
          /\ m_tTimeID \in [Blocks -> Nat] /\ answer \in Values
          /\ refused \in SUBSET Values
      BY IdAssumption DEF TypeOK, IdInv
    <2>2. freed' \in [Values -> 0..now']
      <3>1. now \in 0..now
        BY <2>1
      <3>2. [freed EXCEPT ![v] = now] \in [Values -> 0..now]
        BY <2>1, <3>1
      <3> QED BY <1>4, <3>2
    <2>3. m_tTimeID' \in [Blocks -> Nat]
      <3>1. [m_tTimeID EXCEPT ![b] = now] \in [Blocks -> Nat]
        BY <2>1
      <3> QED BY <1>4, <3>1
    <2> QED BY <1>4, <1>5, <1>8, <2>1, <2>2, <2>3 DEF TypeOK
  <1>10. BlocksSound'
    <2> SUFFICES ASSUME NEW c \in Blocks
                 PROVE  /\ NoRepeat(m_tpIDs'[c])
                        /\ \A x \in Listed(m_tpIDs'[c]) : Value(c, x) \in Values
      BY DEF BlocksSound
    <2>1. CASE c = b
      BY <1>1, <1>3, <1>5, <2>1 DEF BlocksSound, IdInv, s
    <2>2. CASE c # b
      BY <1>5, <2>2 DEF BlocksSound, IdInv
    <2> QED BY <2>1, <2>2
  <1>11. TimesAgree'
    <2> SUFFICES ASSUME NEW c \in Blocks, m_tTimeID'[c] # 0
                 PROVE  /\ \A w \in Values : tfGetBlockByValue(w) = c => freed'[w] <= m_tTimeID'[c]
                        /\ \E w \in Values : tfGetBlockByValue(w) = c /\ freed'[w] = m_tTimeID'[c]
      BY DEF TimesAgree
    <2>1. now \in Nat /\ freed \in [Values -> 0..now] /\ m_tTimeID \in [Blocks -> Nat]
      BY DEF IdInv, TypeOK
    <2>2. CASE c = b
      <3>1. m_tTimeID'[c] = now /\ freed'[v] = now
        BY <1>1, <1>4, <2>1, <2>2
      <3>2. \A w \in Values : freed'[w] <= now
        BY <1>4, <2>1
      <3> QED BY <2>2, <3>1, <3>2 DEF b
    <2>3. CASE c # b
      <3>1. m_tTimeID'[c] = m_tTimeID[c]
        BY <1>4, <2>1, <2>3
      <3>2. \A w \in Values : tfGetBlockByValue(w) = c => freed'[w] = freed[w]
        BY <1>4, <1>6, <2>1, <2>3 DEF b
      <3> QED BY <3>1, <3>2 DEF IdInv, TimesAgree
    <2> QED BY <2>2, <2>3
  <1> QED BY <1>1, <1>4, <1>7, <1>8, <1>9, <1>10, <1>11 DEF IdInv

\* VERIFY(l_tID_Block.m_tCount) in tfGetFromBlock holds in tfGetID.
LEMMA CountFindsBlock == IdInv => PicksFull
  <1> SUFFICES ASSUME IdInv, m_available_count > 0,
                      NEW b \in Blocks, IsMinElement(b), m_tpIDs[b] = <<>>
               PROVE  FALSE
    BY DEF PicksFull
  <1>1. IsFiniteSet(Full) /\ m_available_count = Cardinality(Full)
    BY FiniteBlocks, FS_Subset DEF Full, IdInv, CountAgrees
  <1>2. Full # {}
    BY <1>1, FS_EmptySet
  <1>3. PICK c \in Blocks : m_tpIDs[c] # <<>>
    BY <1>2 DEF Full
  <1>4. Less(c, b)
    BY <1>3 DEF Less
  <1> QED BY <1>4 DEF IsMinElement

LEMMA InitInvariant == IdInit => IdInv /\ Taken = {}
  <1> SUFFICES ASSUME IdInit PROVE IdInv /\ Taken = {}
    OBVIOUS
  <1>1. ASSUME NEW b \in Blocks
        PROVE  /\ m_tpIDs[b] = [i \in 1..Size(b) |-> Size(b) - i]
               /\ m_tpIDs[b] \in Seq(Offsets) /\ Len(m_tpIDs[b]) = Size(b)
               /\ NoRepeat(m_tpIDs[b]) /\ m_tpIDs[b] # <<>>
               /\ Listed(m_tpIDs[b]) = 0..(Size(b) - 1)
    <2> DEFINE n == Size(b)
               s == [i \in 1..n |-> n - i]
    <2>1. n \in 1..BlockSize /\ n \in Nat /\ BlockSize \in Nat
      BY IdAssumption, SizeBounds
    <2>2. m_tpIDs[b] = s
      BY DEF IdInit
    <2> HIDE DEF n
    <2>3. s \in [1..n -> Offsets]
      BY <2>1 DEF Offsets
    <2>4. s \in Seq(Offsets)
      BY <2>1, <2>3, SeqDef
    <2>5. Len(s) = n
      <3>1. Len(s) \in Nat /\ DOMAIN s = 1..Len(s) /\ DOMAIN s = 1..n
        BY <2>3, <2>4, LenProperties
      <3> QED BY <2>1, <3>1
    <2>6. NoRepeat(s) /\ s # <<>>
      <3>1. NoRepeat(s)
        BY <2>1, <2>5 DEF NoRepeat
      <3>2. s # <<>>
        BY <2>1, <2>5, EmptySeq
      <3> QED BY <3>1, <3>2
    <2>7. Listed(s) = 0..(n - 1)
      <3>1. ASSUME NEW x \in 0..(n - 1) PROVE x \in Listed(s)
        <4>1. n - x \in 1..n /\ s[n - x] = x
          BY <2>1
        <4> QED BY <2>5, <4>1 DEF Listed
      <3>2. ASSUME NEW x \in Listed(s) PROVE x \in 0..(n - 1)
        BY <2>1, <2>5 DEF Listed
      <3> QED BY <3>1, <3>2
    <2> QED BY <2>2, <2>4, <2>5, <2>6, <2>7 DEF n
  <1>2. /\ IsFiniteSet(Blocks) /\ Cardinality(Blocks) \in Nat
        /\ m_available_count = Cardinality(Blocks)
        /\ {b \in Blocks : m_tpIDs[b] # <<>>} = Blocks
    BY <1>1, FiniteBlocks, FS_CardinalityType DEF IdInit
  <1>3. TypeOK
    <2>1. m_tpIDs \in [Blocks -> Seq(Offsets)]
      BY <1>1 DEF IdInit
    <2>2. /\ m_tTimeID \in [Blocks -> Nat] /\ answer \in Values
          /\ now \in 1..MaxTime /\ freed \in [Values -> 0..now]
          /\ refused \in SUBSET Values
      BY IdAssumption DEF IdInit, Values
    <2> QED BY <1>2, <2>1, <2>2 DEF TypeOK
  <1>4. CountAgrees
    BY <1>2 DEF CountAgrees
  <1>5. BlocksSound
    BY <1>1, SizeBounds DEF BlocksSound
  <1>6. TimesAgree
    BY DEF IdInit, TimesAgree
  <1>7. Taken = {}
    BY <1>1, RoundTrip, SizeBounds DEF Taken
  <1> QED BY <1>3, <1>4, <1>5, <1>6, <1>7 DEF IdInv

\* The steps that hand out and take back no id.
LEMMA OtherStep ==
  ASSUME IdInv, Tick \/ (\E v \in Values : SpawnThrough(v)) \/ UNCHANGED idVars
  PROVE  IdInv' /\ Taken' = Taken /\ answer' = answer /\ refused' = refused
  <1>1. /\ m_tpIDs' = m_tpIDs /\ m_available_count' = m_available_count
        /\ answer' = answer /\ freed' = freed /\ refused' = refused
    BY DEF Tick, SpawnThrough, idVars, blocks
  <1>2. Taken' = Taken /\ CountAgrees' /\ BlocksSound'
    BY <1>1 DEF IdInv, Taken, CountAgrees, BlocksSound
  <1>3. TypeOK' /\ TimesAgree'
    <2>1. CASE Tick
      <3>1. now' = now + 1 /\ now' \in 1..MaxTime /\ m_tTimeID' = m_tTimeID
        BY <2>1, IdAssumption DEF Tick, blocks, IdInv, TypeOK
      <3>2. freed' \in [Values -> 0..now']
        BY <1>1, <3>1, IdAssumption DEF IdInv, TypeOK
      <3> QED BY <1>1, <3>1, <3>2 DEF IdInv, TypeOK, TimesAgree
    <2>2. ASSUME NEW v \in Values, SpawnThrough(v) PROVE TypeOK' /\ TimesAgree'
      <3> DEFINE b == tfGetBlockByValue(v)
      <3>1. now' = now /\ m_tTimeID' = [m_tTimeID EXCEPT ![b] = 0] /\ b \in Blocks
        BY <2>2, RoundTrip DEF SpawnThrough
      <3> HIDE DEF b
      <3>2. m_tTimeID' \in [Blocks -> Nat]
            /\ \A c \in Blocks : m_tTimeID'[c] # 0 => m_tTimeID'[c] = m_tTimeID[c]
        BY <3>1 DEF IdInv, TypeOK
      <3>3. TypeOK'
        BY <1>1, <3>1, <3>2 DEF IdInv, TypeOK
      <3>4. TimesAgree'
        BY <1>1, <3>2 DEF IdInv, TimesAgree
      <3> QED BY <3>3, <3>4
    <2>3. CASE UNCHANGED idVars
      BY <1>1, <2>3 DEF idVars, blocks, IdInv, TypeOK, TimesAgree
    <2> QED BY <2>1, <2>2, <2>3
  <1> QED BY <1>1, <1>2, <1>3 DEF IdInv

\* tfGetID without preference, from the block that min_element returns.
LEMMA GetAnyStep ==
  ASSUME IdInv, GetAny
  PROVE  /\ IdInv' /\ answer' \in Values \ Taken /\ Taken' = Taken \cup {answer'}
         /\ refused' = refused /\ Rested(answer')
  <1>1. PICK b \in Blocks : /\ IsMinElement(b) /\ m_tpIDs[b] # <<>>
                            /\ tfGetFromBlock(b, Len(m_tpIDs[b]))
    BY DEF GetAny
  <1>2. Len(m_tpIDs[b]) \in 1..Len(m_tpIDs[b])
    BY <1>1, BlockType DEF IdInv
  <1>3. /\ IdInv' /\ answer' \in Values \ Taken /\ Taken' = Taken \cup {answer'}
        /\ refused' = refused /\ tfGetBlockByValue(answer') = b
    BY <1>1, <1>2, TakeStep
  <1>4. Rested(answer')
    <2> SUFFICES ASSUME m_tTimeID[b] # 0, NEW c \in Blocks \ {b}, m_tpIDs[c] # <<>>
                 PROVE  \E w \in Values : tfGetBlockByValue(w) = c /\ freed[w] >= freed[answer']
      BY <1>3 DEF Rested
    <2>1. m_tTimeID \in [Blocks -> Nat] /\ freed \in [Values -> Nat]
      <3>1. now \in Nat /\ 0..now \subseteq Nat
        BY IdAssumption DEF IdInv, TypeOK
      <3> QED BY <3>1 DEF IdInv, TypeOK
    <2>2. ~(m_tTimeID[c] < m_tTimeID[b])
      BY <1>1 DEF IsMinElement, Less
    <2>3. freed[answer'] <= m_tTimeID[b]
      BY <1>3 DEF IdInv, TimesAgree
    <2>4. PICK w \in Values : tfGetBlockByValue(w) = c /\ freed[w] = m_tTimeID[c]
      <3>1. m_tTimeID[c] # 0
        BY <2>1, <2>2
      <3> QED BY <3>1 DEF IdInv, TimesAgree
    <2>5. freed[w] >= freed[answer']
      BY <1>3, <2>1, <2>2, <2>3, <2>4
    <2> QED BY <2>4, <2>5
  <1> QED BY <1>3, <1>4

LEMMA GetThisStep ==
  ASSUME IdInv, NEW v \in Values, GetThis(v)
  PROVE  /\ IdInv' /\ answer' \in Values \ Taken /\ Taken' = Taken \cup {answer'}
         /\ refused' = refused
  <1>1. tfGetBlockByValue(v) \in Blocks
    BY RoundTrip
  <1>2. PICK i \in 1..Len(m_tpIDs[tfGetBlockByValue(v)]) :
          tfGetFromBlock(tfGetBlockByValue(v), i)
    BY DEF GetThis
  <1> QED BY <1>1, <1>2, TakeStep

\* A refusal: the ids that were asked for are all taken.  While one is free, its
\* block keeps the count above zero, and the block that is chosen has an id.
LEMMA RefusalStep ==
  ASSUME IdInv, RefuseAny \/ (\E v \in Values : RefuseThis(v))
  PROVE  /\ IdInv' /\ Taken' = Taken /\ answer' = answer
         /\ refused' \subseteq Taken
         /\ refused' = Values \/ \E v \in Values : refused' = {v}
  <1>1. /\ m_tpIDs' = m_tpIDs /\ m_tTimeID' = m_tTimeID /\ answer' = answer
        /\ m_available_count' = m_available_count /\ now' = now /\ freed' = freed
    BY DEF RefuseAny, RefuseThis, blocks
  <1>2. Taken' = Taken /\ CountAgrees' /\ BlocksSound' /\ TimesAgree'
    BY <1>1 DEF IdInv, Taken, CountAgrees, BlocksSound, TimesAgree
  <1>3. /\ refused' \in SUBSET Values /\ refused' \subseteq Taken
        /\ refused' = Values \/ \E v \in Values : refused' = {v}
    <2>1. CASE RefuseAny
      <3>1. refused' = Values
        BY <2>1 DEF RefuseAny
      <3>2. ~(m_available_count > 0)
        BY <2>1, CountFindsBlock DEF RefuseAny, PicksFull
      <3>3. ASSUME NEW v \in Values PROVE v \in Taken
        <4>1. IsFiniteSet(Full) /\ m_available_count = Cardinality(Full)
          BY FiniteBlocks, FS_Subset DEF Full, IdInv, CountAgrees
        <4>2. Full = {}
          BY <3>2, <4>1, FS_CardinalityType, FS_EmptySet
        <4>3. m_tpIDs[tfGetBlockByValue(v)] = <<>>
          BY <4>2, RoundTrip DEF Full
        <4>4. Len(m_tpIDs[tfGetBlockByValue(v)]) = 0
          BY <4>3
        <4> QED BY <4>4 DEF Taken, Listed
      <3> QED BY <3>1, <3>3
    <2>2. ASSUME NEW v \in Values, RefuseThis(v)
          PROVE  refused' = {v} /\ v \in Taken
      BY <2>2 DEF RefuseThis, Taken, Listed
    <2> QED BY <2>1, <2>2
  <1>4. TypeOK'
    BY <1>1, <1>3 DEF IdInv, TypeOK
  <1> QED BY <1>1, <1>2, <1>3, <1>4 DEF IdInv

\* The blocks, their count and their times stay sound for ever.
THEOREM InductiveInvariant == IdSpec => []IdInv
  <1>1. IdInit => IdInv
    BY InitInvariant
  <1>2. IdInv /\ [IdNext]_idVars => IdInv'
    <2> SUFFICES ASSUME IdInv, [IdNext]_idVars PROVE IdInv'
      OBVIOUS
    <2>1. CASE GetAny
      BY <2>1, GetAnyStep
    <2>2. CASE \E v \in Values : GetThis(v)
      BY <2>2, GetThisStep
    <2>3. CASE \E v \in Values : Free(v)
      BY <2>3, GiveStep
    <2>4. CASE RefuseAny \/ (\E v \in Values : RefuseThis(v))
      BY <2>4, RefusalStep
    <2>5. CASE Tick \/ (\E v \in Values : SpawnThrough(v)) \/ UNCHANGED idVars
      BY <2>5, OtherStep
    <2> QED BY <2>1, <2>2, <2>3, <2>4, <2>5 DEF IdNext, Call, Ended
  <1> QED BY <1>1, <1>2, PTL DEF IdSpec

\* The count of blocks is right, and as long as it is not zero the block that
\* std::min_element returns has an id: VERIFY(l_tID_Block.m_tCount).
THEOREM NeverEmptyHanded == IdSpec => [](CountAgrees /\ PicksFull)
  <1>1. IdInv => CountAgrees /\ PicksFull
    BY CountFindsBlock DEF IdInv
  <1> QED BY <1>1, InductiveInvariant, PTL

\* Every variable keeps its type.
THEOREM TypeCorrect == IdSpec => []TypeOK
  <1>1. IdInv => TypeOK
    BY DEF IdInv
  <1> QED BY <1>1, InductiveInvariant, PTL

\* The blocks implement a pool of ids: nobody gets an id that is taken, and
\* nobody is refused one that is free.
THEOREM ImplementsPool == IdSpec => PoolSpec
  <1>1. IdInit => Pool!Init
    <2> SUFFICES ASSUME IdInit PROVE Pool!Init
      OBVIOUS
    <2>1. answer \in Values /\ refused = {}
      BY IdAssumption DEF IdInit, Values
    <2> QED BY <2>1, InitInvariant DEF Pool!Init
  <1>2. IdInv /\ [IdNext]_idVars => [Pool!Next]_(Pool!pool)
    <2> SUFFICES ASSUME IdInv, [IdNext]_idVars PROVE [Pool!Next]_(Pool!pool)
      OBVIOUS
    <2>1. ASSUME answer' \in Values \ Taken, Taken' = Taken \cup {answer'},
                 refused' = refused
          PROVE  Pool!Take
      BY <2>1 DEF Pool!Take
    <2>2. CASE refused = {} /\ GetAny
      BY <2>1, <2>2, GetAnyStep DEF Pool!Next
    <2>3. CASE refused = {} /\ \E v \in Values : GetThis(v)
      BY <2>1, <2>3, GetThisStep DEF Pool!Next
    <2>4. CASE refused = {} /\ \E v \in Values : Free(v)
      <3>1. Pool!Give
        BY <2>4, GiveStep DEF Pool!Give
      <3> QED BY <2>4, <3>1 DEF Pool!Next
    <2>5. CASE refused = {} /\ (RefuseAny \/ (\E v \in Values : RefuseThis(v)))
      <3>1. Pool!Refuse
        BY <2>5, RefusalStep DEF Pool!Refuse
      <3> QED BY <2>5, <3>1 DEF Pool!Next
    <2>6. CASE Tick \/ (\E v \in Values : SpawnThrough(v)) \/ UNCHANGED idVars
      BY <2>6, OtherStep DEF Pool!pool
    <2> QED BY <2>2, <2>3, <2>4, <2>5, <2>6 DEF IdNext, Call, Ended
  <1> QED BY <1>1, <1>2, InductiveInvariant, PTL DEF IdSpec, PoolSpec, Pool!Spec

\* An id freed lately is not handed out while another block has rested longer.
THEOREM NoHotReuseHolds == IdSpec => NoHotReuse
  <1>1. IdInv /\ [IdNext]_idVars => [GetAny => Rested(answer')]_idVars
    BY GetAnyStep
  <1> QED BY <1>1, InductiveInvariant, PTL DEF IdSpec, NoHotReuse
==============================================================================
