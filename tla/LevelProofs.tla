--------------------------- MODULE LevelProofs ---------------------------
(***************************************************************************)
(* The level, in two parts that share nothing but the name.                *)
(*                                                                         *)
(* LevelLife: a level that is up is on the lists it should be on, one that *)
(* is not is on none, for any addresses and bounds.                        *)
(*                                                                         *)
(* LevelClient: its client follows the server, for any stalkers and items. *)
(* That the handlers of the server, called in any order, send what a       *)
(* client can apply is proved in ServerEntitiesProofs; what is added here  *)
(* is that this client is such a one, although it asks for what it still   *)
(* shows, although ALife takes entities away and brings them back with the *)
(* ids they had, and although a stalker that is full refuses what it is    *)
(* given: that alone can stop the client, by one of its assertions.        *)
(***************************************************************************)
EXTENDS LevelLife, LevelClient, VectorsProofs, FiniteSetTheorems, TLAPS

Subscribers == Levels \cup {"app", "persistent", "input", "menu"}
Entries     == Subscribers \X Int

\* Each entry of t is a valid one of r, and each valid one of r is there once.
Permutes(from, r, t) ==
  /\ from \in [DOMAIN t -> DOMAIN r]
  /\ \A k \in DOMAIN t : Valid(r[from[k]]) /\ t[k] = r[from[k]]
  /\ \A k, m \in DOMAIN t : from[k] = from[m] => k = m
  /\ \A i \in DOMAIN r : Valid(r[i]) => \E k \in DOMAIN t : from[k] = i

LEMMA ResortShape ==
  ASSUME NEW r \in Seq(Entries)
  PROVE  Resort(r) \in Seq(Entries) /\ \E from : Permutes(from, r, Resort(r))
<1> DEFINE V == {i \in DOMAIN r : Valid(r[i])}
           before(i, j) == r[i][2] > r[j][2] \/ (r[i][2] = r[j][2] /\ i < j)
           B(i) == {j \in V : before(j, i)}
           rank(i) == Cardinality(B(i))
           n == Cardinality(V)
           from == [k \in 1..n |-> CHOOSE i \in V : rank(i) = k - 1]
<1>1. /\ DOMAIN r = 1..Len(r) /\ Len(r) \in Nat
      /\ \A i \in DOMAIN r : r[i] \in Entries /\ r[i][2] \in Int /\ i \in Nat
  BY DEF Entries
<1>2. IsFiniteSet(V) /\ n \in Nat /\ V \subseteq DOMAIN r
  <2>1. V \in SUBSET (1..Len(r)) /\ IsFiniteSet(1..Len(r))
    BY <1>1, FS_Interval
  <2>2. IsFiniteSet(V)
    BY <2>1, FS_Subset
  <2> QED BY <2>1, <2>2, FS_CardinalityType
<1>3. \A i \in V : B(i) \subseteq V \ {i} /\ IsFiniteSet(B(i)) /\ rank(i) \in Nat
  <2> TAKE i \in V
  <2>1. ~before(i, i)
    BY <1>1
  <2>2. B(i) \in SUBSET V /\ i \notin B(i)
    BY <2>1
  <2>3. IsFiniteSet(B(i))
    BY <1>2, <2>2, FS_Subset
  <2> QED BY <2>2, <2>3, FS_CardinalityType
<1>4. \A i, j \in V : i # j => rank(i) # rank(j)
  <2>1. \A i, j \in V : before(i, j) => rank(i) < rank(j)
    <3> SUFFICES ASSUME NEW i \in V, NEW j \in V, before(i, j) PROVE rank(i) < rank(j)
      OBVIOUS
    <3>1. B(i) \in SUBSET B(j) /\ i \in B(j) /\ i \notin B(i)
      BY <1>1, <1>3
    <3> HIDE DEF B
    <3>2. B(i) # B(j)
      BY <3>1
    <3>3. Cardinality(B(i)) <= Cardinality(B(j)) /\ Cardinality(B(i)) # Cardinality(B(j))
      BY <1>3, <3>1, <3>2, FS_Subset
    <3> QED BY <1>3, <3>3
  <2>2. \A i, j \in V : i # j => before(i, j) \/ before(j, i)
    BY <1>1
  <2> HIDE DEF B, rank, before, V
  <2> QED BY <1>3, <2>1, <2>2
<1> HIDE DEF rank
<1>a. \A i \in V : rank(i) \in 0..(n-1)
  <2> TAKE i \in V
  <2>1. B(i) \in SUBSET V /\ B(i) # V
    BY <1>3
  <2> HIDE DEF B, V
  <2>2. Cardinality(B(i)) <= n /\ Cardinality(B(i)) # n
    BY <1>2, <2>1, FS_Subset
  <2>3. rank(i) = Cardinality(B(i))
    BY DEF rank
  <2> QED BY <1>2, <1>3, <2>2, <2>3
<1>5. \A k \in 1..n : \E i \in V : rank(i) = k - 1
  <2> DEFINE f == [i \in V |-> rank(i) + 1]
  <2>1. n = Cardinality(V)
    OBVIOUS
  <2> HIDE DEF V, n
  <2>2. f \in [V -> 1..n]
    BY <1>2, <1>a
  <2>3. \A i, j \in V : f[i] = f[j] => i = j
    BY <1>a, <1>4, <1>2
  <2> HIDE DEF f
  <2>4. f \in Injection(V, 1..n)
    BY <2>2, <2>3 DEF Injection, IsInjective
  <2>5. IsFiniteSet(1..n) /\ Cardinality(1..n) = n
    BY <1>2, FS_Interval
  <2>6. f \in Surjection(V, 1..n)
    BY <1>2, <2>1, <2>4, <2>5, FS_Injection
  <2>7. \A k \in 1..n : \E i \in V : f[i] = k
    BY <2>6 DEF Surjection
  <2>8. \A i \in V : f[i] = rank(i) + 1
    BY DEF f
  <2> TAKE k \in 1..n
  <2>9. PICK i \in V : f[i] = k
    BY <2>7
  <2>10. rank(i) = k - 1
    BY <1>2, <1>a, <2>8, <2>9
  <2> QED BY <2>10
<1>6. Resort(r) = [k \in 1..n |-> r[CHOOSE i \in V : rank(i) = k - 1]]
  BY DEF Resort, rank
<1> HIDE DEF B, V, n
<1>7. \A k \in 1..n : from[k] \in V /\ rank(from[k]) = k - 1
  BY <1>5
<1>8. Resort(r) = [k \in 1..n |-> r[from[k]]]
  BY <1>6
<1> HIDE DEF from, rank
<1>9. \A k \in 1..n : r[from[k]] \in Entries /\ Valid(r[from[k]])
  BY <1>1, <1>7 DEF V
<1>10. Resort(r) \in Seq(Entries) /\ DOMAIN Resort(r) = 1..n
  BY <1>2, <1>8, <1>9
<1>11. \A k, m \in 1..n : from[k] = from[m] => k = m
  BY <1>2, <1>7
<1>12. \A i \in V : \E k \in 1..n : from[k] = i
  <2> TAKE i \in V
  <2>1. rank(i) + 1 \in 1..n
    BY <1>2, <1>a
  <2>2. rank(from[rank(i) + 1]) = rank(i)
    BY <1>2, <1>a, <1>7, <2>1
  <2>3. from[rank(i) + 1] = i
    BY <1>4, <1>7, <2>1, <2>2
  <2> QED BY <2>1, <2>3
<1>13. from \in [1..n -> DOMAIN r]
  BY <1>2, <1>7 DEF from
<1>14. Permutes(from, r, Resort(r))
  BY <1>8, <1>9, <1>10, <1>11, <1>12, <1>13 DEF V, Permutes
<1> QED BY <1>10, <1>14

\* Where an object has valid entries.
Places(r, obj) == {i \in DOMAIN r : r[i][1] = obj /\ Valid(r[i])}

LEMMA CountIs ==
  ASSUME NEW r \in Seq(Entries), NEW obj
  PROVE  /\ IsFiniteSet(Places(r, obj)) /\ Count(r, obj) = Cardinality(Places(r, obj))
         /\ Count(r, obj) \in Nat
         /\ Count(r, obj) = 0 <=> Places(r, obj) = {}
<1>a. DOMAIN r = 1..Len(r) /\ Len(r) \in Nat
  OBVIOUS
<1>1. Places(r, obj) \in SUBSET (1..Len(r)) /\ IsFiniteSet(1..Len(r))
  BY <1>a, FS_Interval DEF Places
<1>2. IsFiniteSet(Places(r, obj))
  BY <1>1, FS_Subset
<1>3. Count(r, obj) = Cardinality(Places(r, obj))
  BY DEF Count, Places
<1> QED BY <1>2, <1>3, FS_CardinalityType, FS_EmptySet

LEMMA ResortCount ==
  ASSUME NEW r \in Seq(Entries), NEW obj
  PROVE  Count(Resort(r), obj) = Count(r, obj)
<1>1. PICK from : Permutes(from, r, Resort(r))
  BY ResortShape
<1> DEFINE f == [k \in Places(Resort(r), obj) |-> from[k]]
<1>2. f \in [Places(Resort(r), obj) -> Places(r, obj)]
  BY <1>1 DEF Places, Permutes
<1>3. \A k, m \in Places(Resort(r), obj) : f[k] = f[m] => k = m
  BY <1>1 DEF Places, Permutes
<1>4. \A i \in Places(r, obj) : \E k \in Places(Resort(r), obj) : f[k] = i
  BY <1>1 DEF Places, Permutes
<1>5. f \in Bijection(Places(Resort(r), obj), Places(r, obj))
  BY <1>2, <1>3, <1>4 DEF Bijection, Injection, IsInjective, Surjection
<1>6. ExistsBijection(Places(Resort(r), obj), Places(r, obj))
  BY <1>5 DEF ExistsBijection
<1>7. Cardinality(Places(r, obj)) = Cardinality(Places(Resort(r), obj))
  <2>1. IsFiniteSet(Places(Resort(r), obj))
    BY ResortShape, CountIs
  <2> QED BY <1>6, <2>1, FS_Bijection
<1> QED BY <1>7 DEF Count, Places

\* Add makes one valid entry more.
LEMMA AddCount ==
  ASSUME NEW r \in Seq(Entries), NEW obj \in Subscribers, NEW pr \in Int, pr # Invalid,
         NEW inside \in BOOLEAN
  PROVE  /\ Add(r, obj, pr, inside) \in Seq(Entries)
         /\ \A o : Count(Add(r, obj, pr, inside), o) =
                     IF o = obj THEN Count(r, o) + 1 ELSE Count(r, o)
<1> DEFINE t == Append(r, <<obj, pr>>)
<1>1. /\ t \in Seq(Entries) /\ Len(t) = Len(r) + 1 /\ Len(r) \in Nat
      /\ DOMAIN t = 1..Len(t) /\ DOMAIN r = 1..Len(r)
      /\ \A i \in DOMAIN r : t[i] = r[i]
      /\ t[Len(r) + 1] = <<obj, pr>>
  BY DEF Entries
<1> HIDE DEF t
<1>2. ASSUME NEW o PROVE Count(t, o) = IF o = obj THEN Count(r, o) + 1 ELSE Count(r, o)
  <2>1. CASE o # obj
    <3>1. Places(t, o) = Places(r, o)
      BY <1>1, <2>1 DEF Places
    <3> QED BY <2>1, <3>1 DEF Count, Places
  <2>2. CASE o = obj
    <3>1. Places(t, o) = Places(r, o) \cup {Len(r) + 1} /\ Len(r) + 1 \notin Places(r, o)
      BY <1>1, <2>2 DEF Places, Valid
    <3>2. Cardinality(Places(t, o)) = Cardinality(Places(r, o)) + 1
      <4>1. IsFiniteSet(Places(r, o))
        BY CountIs
      <4> QED BY <3>1, <4>1, FS_AddElement
    <3> QED BY <2>2, <3>2 DEF Count, Places
  <2> QED BY <2>1, <2>2
<1>3. Add(r, obj, pr, inside) = IF inside THEN t ELSE Resort(t)
  BY DEF Add, Settled, t
<1>4. Resort(t) \in Seq(Entries)
  BY <1>1, ResortShape
<1>5. \A o : Count(Resort(t), o) = Count(t, o)
  BY <1>1, ResortCount
<1> QED BY <1>1, <1>2, <1>3, <1>4, <1>5

\* Remove leaves no valid entry of its object.
LEMMA RemoveCount ==
  ASSUME NEW r \in Seq(Entries), NEW obj \in Subscribers, NEW inside \in BOOLEAN
  PROVE  /\ Remove(r, obj, inside) \in Seq(Entries)
         /\ \A o : Count(Remove(r, obj, inside), o) = IF o = obj THEN 0 ELSE Count(r, o)
<1> DEFINE t == [i \in DOMAIN r |-> IF r[i][1] = obj THEN <<obj, Invalid>> ELSE r[i]]
<1>1. /\ t \in Seq(Entries) /\ DOMAIN t = DOMAIN r
      /\ \A i \in DOMAIN r : t[i] = IF r[i][1] = obj THEN <<obj, Invalid>> ELSE r[i]
  <2>1. Invalid \in Int
    BY DEF Invalid
  <2>2. DOMAIN r = 1..Len(r) /\ Len(r) \in Nat /\ \A i \in 1..Len(r) : r[i] \in Entries
    OBVIOUS
  <2> QED BY <2>1, <2>2 DEF Entries
<1> HIDE DEF t
<1>2. ASSUME NEW o PROVE Count(t, o) = IF o = obj THEN 0 ELSE Count(r, o)
  <2>1. CASE o # obj
    <3>1. Places(t, o) = Places(r, o)
      BY <1>1, <2>1 DEF Places
    <3> QED BY <2>1, <3>1 DEF Count, Places
  <2>2. CASE o = obj
    <3>1. Places(t, o) = {}
      BY <1>1, <2>2 DEF Places, Valid
    <3> QED BY <1>1, <2>2, <3>1, CountIs
  <2> QED BY <2>1, <2>2
<1>3. Remove(r, obj, inside) = IF inside THEN t ELSE Resort(t)
  BY DEF Remove, Settled, t
<1>4. Resort(t) \in Seq(Entries)
  BY <1>1, ResortShape
<1>5. \A o : Count(Resort(t), o) = Count(t, o)
  BY <1>1, ResortCount
<1> QED BY <1>1, <1>2, <1>3, <1>4, <1>5
------------------------------------------------------------------------------
(* What an edit does to a list of subscribers.                               *)


\* The application is on it once at most.
Lone(r) == \A i, k \in DOMAIN r : r[i][1] = "app" /\ r[k][1] = "app" => i = k

\* Within a walk the entries keep their places, the application its entry.
Grown(r, t) ==
  /\ DOMAIN r \subseteq DOMAIN t
  /\ \A i \in DOMAIN r : t[i][1] = r[i][1] /\ (r[i][1] = "app" => t[i] = r[i])
  /\ \A i \in DOMAIN t \ DOMAIN r : t[i][1] # "app"

Edited(r, t, inside) ==
  /\ t \in Seq(Entries)
  /\ Lone(r) => Lone(t)
  /\ inside => Grown(r, t)

LEMMA ResortLone ==
  ASSUME NEW r \in Seq(Entries)
  PROVE  Edited(r, Resort(r), FALSE)
<1>1. Resort(r) \in Seq(Entries)
  BY ResortShape DEF Entries
<1>2. PICK from : Permutes(from, r, Resort(r))
  BY ResortShape DEF Entries
<1>3. Lone(r) => Lone(Resort(r))
  BY <1>2 DEF Lone, Permutes
<1> QED BY <1>1, <1>3 DEF Edited

LEMMA AddEdits ==
  ASSUME NEW r \in Seq(Entries), NEW obj \in Subscribers, obj # "app", NEW pr \in Int,
         pr # Invalid, NEW inside \in BOOLEAN
  PROVE  /\ Edited(r, Add(r, obj, pr, inside), inside)
         /\ \A o : Count(Add(r, obj, pr, inside), o) =
                     IF o = obj THEN Count(r, o) + 1 ELSE Count(r, o)
<1> DEFINE t == Append(r, <<obj, pr>>)
<1>1. /\ t \in Seq(Entries) /\ Len(r) \in Nat
      /\ DOMAIN t = 1..(Len(r) + 1) /\ DOMAIN r = 1..Len(r)
      /\ \A i \in DOMAIN r : t[i] = r[i]
      /\ t[Len(r) + 1] = <<obj, pr>>
  BY DEF Entries
<1> HIDE DEF t
<1>2. Grown(r, t) /\ (Lone(r) => Lone(t))
  BY <1>1 DEF Grown, Lone
<1>3. Add(r, obj, pr, inside) = IF inside THEN t ELSE Resort(t)
  BY DEF Add, Settled, t
<1>4. Edited(t, Resort(t), FALSE)
  BY <1>1, ResortLone
<1>5. \A o : Count(Add(r, obj, pr, inside), o) =
               IF o = obj THEN Count(r, o) + 1 ELSE Count(r, o)
  BY AddCount
<1> QED BY <1>1, <1>2, <1>3, <1>4, <1>5 DEF Edited

LEMMA RemoveEdits ==
  ASSUME NEW r \in Seq(Entries), NEW obj \in Subscribers, obj # "app", NEW inside \in BOOLEAN
  PROVE  /\ Edited(r, Remove(r, obj, inside), inside)
         /\ \A o : Count(Remove(r, obj, inside), o) = IF o = obj THEN 0 ELSE Count(r, o)
<1> DEFINE t == [i \in DOMAIN r |-> IF r[i][1] = obj THEN <<obj, Invalid>> ELSE r[i]]
<1>1. /\ t \in Seq(Entries) /\ DOMAIN t = DOMAIN r
      /\ \A i \in DOMAIN r : t[i] = IF r[i][1] = obj THEN <<obj, Invalid>> ELSE r[i]
  <2>1. Invalid \in Int
    BY DEF Invalid
  <2>2. DOMAIN r = 1..Len(r) /\ Len(r) \in Nat /\ \A i \in 1..Len(r) : r[i] \in Entries
    OBVIOUS
  <2> QED BY <2>1, <2>2 DEF Entries
<1> HIDE DEF t
<1>2. Grown(r, t) /\ (Lone(r) => Lone(t))
  BY <1>1 DEF Grown, Lone
<1>3. Remove(r, obj, inside) = IF inside THEN t ELSE Resort(t)
  BY DEF Remove, Settled, t
<1>4. Edited(t, Resort(t), FALSE)
  BY <1>1, ResortLone
<1>5. \A o : Count(Remove(r, obj, inside), o) = IF o = obj THEN 0 ELSE Count(r, o)
  BY RemoveCount
<1> QED BY <1>1, <1>2, <1>3, <1>4, <1>5 DEF Edited

\* What is on the screen.
Screens == [active : BOOLEAN, frame : Seq(Entries), render : Seq(Entries)]

\* t shows the levels that s shows, some of them n more times by frame, m by render.
Shows(s, t, lv, n, m) ==
  /\ t \in Screens /\ Edited(s.frame, t.frame, inProcess)
  /\ \A x \in Levels :
       /\ Count(t.frame, x) = IF x = lv THEN n ELSE Count(s.frame, x)
       /\ Count(t.render, x) = IF x = lv THEN m ELSE Count(s.render, x)

LEMMA AddLevelShows ==
  ASSUME NEW s \in Screens, NEW lv \in Levels, NEW frame \in BOOLEAN
  PROVE  /\ AddLevel(lv, frame, s).active = s.active
         /\ Shows(s, AddLevel(lv, frame, s), lv,
                  IF frame THEN Count(s.frame, lv) + 1 ELSE Count(s.frame, lv),
                  Count(s.render, lv) + 1)
<1> DEFINE a == Add(s.render, lv, Normal, FALSE)
           b == IF frame THEN Add(s.frame, lv, Normal, inProcess) ELSE s.frame
           t == AddLevel(lv, frame, s)
<1>1. /\ s.frame \in Seq(Entries) /\ s.render \in Seq(Entries)
      /\ lv \in Subscribers /\ lv # "app" /\ Normal \in Int /\ Normal # Invalid
      /\ inProcess \in BOOLEAN
  BY LevelLifeAssumption DEF Screens, Subscribers, Normal, Invalid, inProcess
<1>2. /\ Edited(s.render, a, FALSE)
      /\ \A o : Count(a, o) = IF o = lv THEN Count(s.render, o) + 1 ELSE Count(s.render, o)
  BY <1>1, AddEdits
<1>3. /\ Edited(s.frame, b, inProcess)
      /\ \A o : Count(b, o) = IF frame /\ o = lv THEN Count(s.frame, o) + 1 ELSE Count(s.frame, o)
  <2>1. CASE frame
    BY <1>1, <2>1, AddEdits
  <2>2. CASE ~frame
    BY <1>1, <2>2 DEF Edited, Grown
  <2> QED BY <2>1, <2>2
<1>4. a \in Seq(Entries) /\ b \in Seq(Entries)
  BY <1>2, <1>3 DEF Edited
<1>5. t = [s EXCEPT !.render = a, !.frame = b]
  BY DEF AddLevel
<1> HIDE DEF a, b, t
<1>6. t \in Screens /\ t.active = s.active /\ t.frame = b /\ t.render = a
  <2>1. [s EXCEPT !.render = a] \in Screens
    BY <1>4 DEF Screens
  <2>2. [[s EXCEPT !.render = a] EXCEPT !.frame = b] \in Screens
    BY <1>4, <2>1 DEF Screens
  <2> QED BY <1>5, <2>2 DEF Screens
<1> QED BY <1>2, <1>3, <1>6 DEF Shows, t

LEMMA RemoveLevelShows ==
  ASSUME NEW s \in Screens, NEW lv \in Levels, NEW frame \in BOOLEAN
  PROVE  /\ RemoveLevel(lv, frame, s).active = s.active
         /\ Shows(s, RemoveLevel(lv, frame, s), lv,
                  IF frame THEN 0 ELSE Count(s.frame, lv), 0)
<1> DEFINE a == Remove(s.render, lv, FALSE)
           b == IF frame THEN Remove(s.frame, lv, inProcess) ELSE s.frame
           t == RemoveLevel(lv, frame, s)
<1>1. /\ s.frame \in Seq(Entries) /\ s.render \in Seq(Entries)
      /\ lv \in Subscribers /\ lv # "app" /\ inProcess \in BOOLEAN
  BY LevelLifeAssumption DEF Screens, Subscribers, inProcess
<1>2. /\ Edited(s.render, a, FALSE)
      /\ \A o : Count(a, o) = IF o = lv THEN 0 ELSE Count(s.render, o)
  BY <1>1, RemoveEdits
<1>3. /\ Edited(s.frame, b, inProcess)
      /\ \A o : Count(b, o) = IF frame /\ o = lv THEN 0 ELSE Count(s.frame, o)
  <2>1. CASE frame
    BY <1>1, <2>1, RemoveEdits
  <2>2. CASE ~frame
    BY <1>1, <2>2 DEF Edited, Grown
  <2> QED BY <2>1, <2>2
<1>4. a \in Seq(Entries) /\ b \in Seq(Entries)
  BY <1>2, <1>3 DEF Edited
<1>5. t = [s EXCEPT !.render = a, !.frame = b]
  BY DEF RemoveLevel
<1> HIDE DEF a, b, t
<1>6. t \in Screens /\ t.active = s.active /\ t.frame = b /\ t.render = a
  <2>1. [s EXCEPT !.render = a] \in Screens
    BY <1>4 DEF Screens
  <2>2. [[s EXCEPT !.render = a] EXCEPT !.frame = b] \in Screens
    BY <1>4, <2>1 DEF Screens
  <2> QED BY <1>5, <2>2 DEF Screens
<1> QED BY <1>2, <1>3, <1>6 DEF Shows, t

\* The menu alone: no level is touched.
LEMMA ActivateAlone ==
  ASSUME NEW s \in Screens, NEW on \in BOOLEAN
  PROVE  /\ Activate(on, NoLevel, s) \in Screens
         /\ Activate(on, NoLevel, s).active = IF Blocked THEN s.active ELSE on
         /\ Activate(on, NoLevel, s).frame = s.frame
         /\ \A x \in Levels : Count(Activate(on, NoLevel, s).render, x) = Count(s.render, x)
<1> DEFINE menu == IF on THEN Add(s.render, "menu", MenuOnTop, FALSE)
                         ELSE Remove(s.render, "menu", FALSE)
           t == [s EXCEPT !.active = on, !.render = menu]
<1>1. /\ s.render \in Seq(Entries) /\ s.active \in BOOLEAN /\ s.frame \in Seq(Entries)
      /\ "menu" \in Subscribers /\ MenuOnTop \in Int /\ MenuOnTop # Invalid
      /\ \A x \in Levels : x # "menu"
  BY LevelLifeAssumption DEF Screens, Subscribers, MenuOnTop, Invalid
<1>2. /\ Edited(s.render, menu, FALSE)
      /\ \A x \in Levels : Count(menu, x) = Count(s.render, x)
  <2> DEFINE up   == Add(s.render, "menu", MenuOnTop, FALSE)
             down == Remove(s.render, "menu", FALSE)
  <2>1. Edited(s.render, up, FALSE) /\ \A x \in Levels : Count(up, x) = Count(s.render, x)
    <3>1. /\ Edited(s.render, up, FALSE)
          /\ \A o : Count(up, o) = IF o = "menu" THEN Count(s.render, o) + 1
                                             ELSE Count(s.render, o)
      BY <1>1, AddEdits
    <3> HIDE DEF up
    <3> QED BY <1>1, <3>1
  <2>2. Edited(s.render, down, FALSE) /\ \A x \in Levels : Count(down, x) = Count(s.render, x)
    <3>1. /\ Edited(s.render, down, FALSE)
          /\ \A o : Count(down, o) = IF o = "menu" THEN 0 ELSE Count(s.render, o)
      BY <1>1, RemoveEdits
    <3> HIDE DEF down
    <3> QED BY <1>1, <3>1
  <2>3. menu = IF on THEN up ELSE down
    OBVIOUS
  <2> HIDE DEF menu, up, down
  <2>4. menu = up \/ menu = down
    BY <2>3
  <2> QED BY <2>1, <2>2, <2>4
<1> HIDE DEF menu
<1>3. t \in Screens /\ t.active = on /\ t.frame = s.frame /\ t.render = menu
  <2>1. [s EXCEPT !.active = on] \in Screens
    BY DEF Screens
  <2>2. [[s EXCEPT !.active = on] EXCEPT !.render = menu] \in Screens
    BY <1>2, <2>1 DEF Screens, Edited
  <2> QED BY <2>2 DEF Screens
<1> HIDE DEF t
<1>4. Activate(on, NoLevel, s) = IF s.active = on \/ Blocked THEN s ELSE t
  BY DEF Activate, Switched, t, menu
<1> QED BY <1>1, <1>2, <1>3, <1>4

\* The menu with a level: what it takes off, it puts back.
LEMMA ActivateWith ==
  ASSUME NEW s \in Screens, NEW on \in BOOLEAN, NEW lv \in Levels, single \in BOOLEAN,
         s.active # on, ~Blocked
  PROVE  /\ Activate(on, lv, s).active = on
         /\ Shows(s, Activate(on, lv, s), lv,
                  IF single THEN IF on THEN 0 ELSE Count(s.frame, lv) + 1 ELSE Count(s.frame, lv),
                  IF on THEN 0 ELSE Count(s.render, lv) + 1)
<1> DEFINE t == Activate(on, NoLevel, s)
<1>1. lv # NoLevel
  BY LevelLifeAssumption
<1>2. Activate(on, lv, s) = IF on THEN RemoveLevel(lv, single, t) ELSE AddLevel(lv, single, t)
  BY <1>1 DEF Activate, Switched
<1>3. /\ t \in Screens /\ t.active = on /\ t.frame = s.frame
      /\ \A x \in Levels : Count(t.render, x) = Count(s.render, x)
  BY ActivateAlone
<1> HIDE DEF t
<1>4. /\ AddLevel(lv, single, t).active = on
      /\ Shows(t, AddLevel(lv, single, t), lv,
                  IF single THEN Count(t.frame, lv) + 1 ELSE Count(t.frame, lv),
                  Count(t.render, lv) + 1)
  BY <1>3, AddLevelShows
<1>5. /\ RemoveLevel(lv, single, t).active = on
      /\ Shows(t, RemoveLevel(lv, single, t), lv,
                  IF single THEN 0 ELSE Count(t.frame, lv), 0)
  BY <1>3, RemoveLevelShows
<1>6. CASE on
  BY <1>2, <1>3, <1>5, <1>6 DEF Shows
<1>7. CASE ~on
  BY <1>2, <1>3, <1>4, <1>7 DEF Shows
<1> QED BY <1>6, <1>7

------------------------------------------------------------------------------
(* The inductive invariant, in three parts.                                  *)

Functions == {"start1", "start2", "start3", "start4", "client1", "client2", "client3",
              "client4", "client5", "client6", "start5", "start6", "finalizer"}
Tasks     == [fn : Functions, lv : Levels \cup {NoLevel}]
Events    == {"start", "disconnect", "quit"}

Types ==
  /\ idx \in Nat /\ ev \in Nat /\ dist \in -2..1 /\ loadRef \in Int
  /\ flActive \in BOOLEAN /\ seqFrame \in Seq(Entries) /\ seqRender \in Seq(Entries)
  /\ level \in Levels \cup {NoLevel} /\ ready \in BOOLEAN /\ single \in BOOLEAN
  /\ connected \in BOOLEAN /\ result \in BOOLEAN /\ total \in BOOLEAN
  /\ loading \in Seq(Tasks) /\ deferred \in Seq(Events)
  /\ appLoaded \in BOOLEAN /\ pending \in BOOLEAN /\ quit \in BOOLEAN

\* Events are delivered while the application has its turn, and those delivered
\* have had their effect.
Delivering ==
  /\ ev <= Len(deferred)
  /\ ev > 0 => Calls("app")
  /\ \A i \in 1..ev : deferred[i] = "quit" => quit
  /\ \A i \in 1..ev : deferred[i] = "start" => loading # <<>>

\* Nothing but an exit waits while the menu cannot change.
Queue == deferred # <<>> => ~Blocked \/ Waiting("quit")

On(q, f) == \E i \in DOMAIN q : q[i].fn = f

\* A level that loads while the frame moves was created in this walk, by the
\* application, whose turn it still is or is no more.
Walking ==
  idx # 0 /\ loading # <<>> =>
    /\ ~ready /\ ~On(loading, "finalizer")
    /\ \/ \E i \in 1..ev : deferred[i] = "start"
       \/ \A j \in DOMAIN seqFrame : j >= idx => seqFrame[j][1] # "app"

\* The loading steps are in their order: those of the client take the place of
\* start4, the finalizer is the last.
Order(f) ==
  CASE f = "start1"  -> 1 [] f = "start2"  -> 2 [] f = "start3"  -> 3 [] f = "start4"  -> 4
    [] f = "client1" -> 5 [] f = "client2" -> 6 [] f = "client3" -> 7 [] f = "client4" -> 8
    [] f = "client5" -> 9 [] f = "client6" -> 10 [] f = "start5" -> 11 [] f = "start6" -> 12
    [] f = "finalizer" -> 13
Line(q) ==
  /\ \A i, k \in DOMAIN q : i < k => Order(q[i].fn) < Order(q[k].fn)
  /\ \A i, k \in DOMAIN q : Order(q[i].fn) <= 4 => Order(q[k].fn) \notin 5..10
  /\ \A i \in DOMAIN q : q[i].fn = "finalizer" => Len(q) = 1 /\ q[i].lv = NoLevel
  /\ \A i \in DOMAIN q : q[i].fn # "finalizer" => q[i].lv \in Levels

\* The next step is one of a deleted level: none will run.
Lost    == loading # <<>> /\ Orphan(loading[1])
Ordered == Lost \/ Line(loading)
Unready == \A i \in DOMAIN loading : Order(loading[i].fn) <= 7 => ~ready

\* The steps are those of the level that is there, and the menu is off the screen,
\* unless the program ends in this walk.
Coming == Calls("app") /\ \E k \in DOMAIN deferred : k > ev /\ deferred[k] = "quit"
Mine(q) == \A i \in DOMAIN q : q[i].fn # "finalizer" => q[i].lv = level
Live   == loading # <<>> =>
            Lost \/ (Mine(loading) /\ (quit \/ Coming \/ (~Blocked /\ ~flActive)))

\* Each LoadBegin has a LoadEnd on the list, or had it.
One(f) == IF On(loading, f) THEN 1 ELSE 0
Loaded == /\ appLoaded <=> loadRef <= 0
          /\ Lost \/ loadRef <= One("start6") + One("client6") - One("client1")

\* Without a level the menu is up, or something follows.
Menu == level = NoLevel /\ ~flActive /\ ~quit /\ ~Lost =>
          \E i \in DOMAIN deferred : i > ev /\ deferred[i] \in {"start", "quit"}

\* A level that is up is on the lists once, unless the menu hides it, and no other is.
OnList ==
  /\ ready => level \in Levels
  /\ pending /\ ready => single
  /\ \A x \in Levels :
       LET up == ready /\ x = level
       IN /\ Count(seqFrame, x) = IF up /\ (~flActive \/ pending \/ ~single) THEN 1 ELSE 0
          /\ Count(seqRender, x) = IF up /\ (~flActive \/ pending) THEN 1 ELSE 0

IInv == /\ Types /\ Delivering /\ Queue /\ Lone(seqFrame)
        /\ Walking /\ Ordered /\ Unready /\ Live /\ Loaded
        /\ Menu /\ OnList
------------------------------------------------------------------------------
LEMMA InitIInv == Init => IInv
<1> SUFFICES ASSUME Init PROVE IInv
  OBVIOUS
<1>1. seqFrame \in Seq(Entries) /\ seqRender \in Seq(Entries)
  BY DEF Init, Entries, Subscribers, MenuOnTop
<1>2. Types
  <2>1. /\ idx \in Nat /\ ev \in Nat /\ dist \in -2..1 /\ loadRef \in Int
        /\ level \in Levels \cup {NoLevel}
    BY DEF Init
  <2>2. loading = <<>> /\ deferred = <<>>
    BY DEF Init
  <2>3. loading \in Seq(Tasks) /\ deferred \in Seq(Events)
    BY <2>2
  <2>4. /\ flActive \in BOOLEAN /\ ready \in BOOLEAN /\ single \in BOOLEAN
        /\ connected \in BOOLEAN /\ result \in BOOLEAN /\ total \in BOOLEAN
        /\ appLoaded \in BOOLEAN /\ pending \in BOOLEAN /\ quit \in BOOLEAN
    BY DEF Init
  <2> QED BY <1>1, <2>1, <2>3, <2>4 DEF Types
<1>3. \A x \in Levels : Places(seqFrame, x) = {} /\ Places(seqRender, x) = {}
  <2> TAKE x \in Levels
  <2>1. x \notin {"app", "persistent", "input", "menu"}
    BY LevelLifeAssumption
  <2>2. DOMAIN seqFrame = 1..4 /\ DOMAIN seqRender = 1..1
    BY DEF Init
  <2>3. \A i \in DOMAIN seqFrame : seqFrame[i][1] \in {"app", "persistent", "input", "menu"}
    BY <2>2 DEF Init
  <2>4. \A i \in DOMAIN seqRender : seqRender[i][1] = "menu"
    BY <2>2 DEF Init
  <2> QED BY <2>1, <2>3, <2>4 DEF Places
<1>4. \A x \in Levels : Count(seqFrame, x) = 0 /\ Count(seqRender, x) = 0
  BY <1>1, <1>3, CountIs
<1>5. Lone(seqFrame)
  BY DEF Init, Lone
<1>6. Delivering /\ Queue
  BY DEF Init, Delivering, Queue
<1>7. Walking /\ Ordered /\ Unready /\ Live
  BY DEF Init, Walking, Ordered, Line, Unready, Live
<1>8. Loaded
  BY DEF Init, Loaded, One, On
<1>9. Menu /\ OnList
  BY <1>4 DEF Init, Menu, OnList
<1> QED BY <1>2, <1>5, <1>6, <1>7, <1>8, <1>9 DEF IInv

LEMMA ShownIs ==
  ASSUME Types
  PROVE  /\ Shown \in Screens /\ Shown.active = flActive
         /\ Shown.frame = seqFrame /\ Shown.render = seqRender
BY DEF Types, Shown, Screens

\* Within a step nothing is edited but as Registrator allows.
Framed == seqFrame' \in Seq(Entries) /\ seqRender' \in Seq(Entries) /\ flActive' \in BOOLEAN
          /\ Edited(seqFrame, seqFrame', inProcess)

LEMMA Untouched ==
  ASSUME Types, UNCHANGED shown
  PROVE  Framed
BY DEF Types, shown, Framed, Edited, Grown

LEMMA ShowsFramed ==
  ASSUME Types, NEW s, NEW lv, NEW n, NEW m, Shows(Shown, s, lv, n, m), Show(s)
  PROVE  /\ Framed
         /\ \A x \in Levels :
              /\ Count(seqFrame', x) = IF x = lv THEN n ELSE Count(seqFrame, x)
              /\ Count(seqRender', x) = IF x = lv THEN m ELSE Count(seqRender, x)
BY ShownIs DEF Shows, Show, Framed, Screens

LEMMA AloneShows ==
  ASSUME NEW r, NEW s, NEW lv, NEW n, NEW m, Shows(r, s, lv, n, m), NEW on \in BOOLEAN
  PROVE  /\ Shows(r, Activate(on, NoLevel, s), lv, n, m)
         /\ Activate(on, NoLevel, s).active = IF Blocked THEN s.active ELSE on
<1>1. s \in Screens
  BY DEF Shows
<1> QED BY <1>1, ActivateAlone DEF Shows

\* The destructor of the level, and the menu that comes back.
LEMMA DeleteFramed ==
  ASSUME Types, level \in Levels, NEW s, Show(s),
         \/ s = Delete(Shown)
         \/ s = Activate(TRUE, NoLevel, Delete(Shown))
         \/ s = Activate(TRUE, NoLevel, Activate(FALSE, NoLevel, Delete(Shown)))
  PROVE  /\ Framed
         /\ \/ s = Activate(TRUE, NoLevel, Delete(Shown))
            \/ s = Activate(TRUE, NoLevel, Activate(FALSE, NoLevel, Delete(Shown)))
            => flActive' \/ Blocked
         /\ \A x \in Levels :
              /\ Count(seqFrame', x) = IF x = level THEN 0 ELSE Count(seqFrame, x)
              /\ Count(seqRender', x) = IF x = level THEN 0 ELSE Count(seqRender, x)
<1> DEFINE d == Delete(Shown)
           off == Activate(FALSE, NoLevel, d)
<1>1. Shows(Shown, d, level, 0, 0)
  <2>1. /\ Shown \in Screens
        /\ (IF TRUE THEN 0 ELSE Count(Shown.frame, level)) = 0
    BY ShownIs
  <2> QED BY <2>1, RemoveLevelShows DEF Delete
<1> HIDE DEF d
<1>2. Shows(Shown, off, level, 0, 0)
  BY <1>1, AloneShows
<1> HIDE DEF off
<1>3. /\ Shows(Shown, Activate(TRUE, NoLevel, d), level, 0, 0)
      /\ Activate(TRUE, NoLevel, d).active = IF Blocked THEN d.active ELSE TRUE
  BY <1>1, AloneShows
<1>4. /\ Shows(Shown, Activate(TRUE, NoLevel, off), level, 0, 0)
      /\ Activate(TRUE, NoLevel, off).active = IF Blocked THEN off.active ELSE TRUE
  BY <1>2, AloneShows
<1>5. \/ s = d
      \/ s = Activate(TRUE, NoLevel, d)
      \/ s = Activate(TRUE, NoLevel, off)
  BY DEF d, off
<1>6. /\ Shows(Shown, s, level, 0, 0)
      /\ \/ s = Activate(TRUE, NoLevel, d)
         \/ s = Activate(TRUE, NoLevel, off)
         => s.active \/ Blocked
  BY <1>1, <1>3, <1>4, <1>5
<1>7. /\ Framed
      /\ \A x \in Levels :
           /\ Count(seqFrame', x) = IF x = level THEN 0 ELSE Count(seqFrame, x)
           /\ Count(seqRender', x) = IF x = level THEN 0 ELSE Count(seqRender, x)
  BY <1>6, ShowsFramed
<1>8. flActive' = s.active
  BY DEF Show
<1> QED BY <1>6, <1>7, <1>8 DEF d, off

\* A new level is put on the screen.
LEMMA StartFramed ==
  ASSUME Types, Show(Activate(FALSE, NoLevel, Shown))
  PROVE  /\ Framed /\ seqFrame' = seqFrame
         /\ flActive' = IF Blocked THEN flActive ELSE FALSE
         /\ \A x \in Levels : Count(seqRender', x) = Count(seqRender, x)
<1>1. /\ Activate(FALSE, NoLevel, Shown) \in Screens
      /\ Activate(FALSE, NoLevel, Shown).active = IF Blocked THEN flActive ELSE FALSE
      /\ Activate(FALSE, NoLevel, Shown).frame = seqFrame
      /\ \A x \in Levels : Count(Activate(FALSE, NoLevel, Shown).render, x) = Count(seqRender, x)
  BY ShownIs, ActivateAlone
<1> QED BY <1>1 DEF Show, Framed, Screens, Edited, Grown, Types

LEMMA AddedFramed ==
  ASSUME Types, level \in Levels, Show(AddLevel(level, TRUE, Shown))
  PROVE  /\ Framed /\ flActive' = flActive
         /\ \A x \in Levels :
              /\ Count(seqFrame', x) = IF x = level THEN Count(seqFrame, x) + 1 ELSE Count(seqFrame, x)
              /\ Count(seqRender', x) = IF x = level THEN Count(seqRender, x) + 1 ELSE Count(seqRender, x)
<1> DEFINE s == AddLevel(level, TRUE, Shown)
<1>1. /\ s.active = flActive
      /\ Shows(Shown, s, level, Count(seqFrame, level) + 1, Count(seqRender, level) + 1)
  <2>1. (IF TRUE THEN Count(seqFrame, level) + 1 ELSE Count(seqFrame, level))
          = Count(seqFrame, level) + 1
    OBVIOUS
  <2> QED BY <2>1, ShownIs, AddLevelShows
<1> HIDE DEF s
<1>2. Show(s)
  BY DEF s
<1>3. /\ Framed
      /\ \A x \in Levels :
           /\ Count(seqFrame', x) = IF x = level THEN Count(seqFrame, level) + 1 ELSE Count(seqFrame, x)
           /\ Count(seqRender', x) = IF x = level THEN Count(seqRender, level) + 1 ELSE Count(seqRender, x)
  BY <1>1, <1>2, ShowsFramed
<1>4. flActive' = flActive
  BY <1>1, <1>2 DEF Show
<1> QED BY <1>3, <1>4

LEMMA RemovedFramed ==
  ASSUME Types, level \in Levels, Show(RemoveLevel(level, TRUE, Shown))
  PROVE  /\ Framed /\ flActive' = flActive
         /\ \A x \in Levels :
              /\ Count(seqFrame', x) = IF x = level THEN 0 ELSE Count(seqFrame, x)
              /\ Count(seqRender', x) = IF x = level THEN 0 ELSE Count(seqRender, x)
<1> DEFINE s == RemoveLevel(level, TRUE, Shown)
<1>1. s.active = flActive /\ Shows(Shown, s, level, 0, 0)
  <2>1. (IF TRUE THEN 0 ELSE Count(seqFrame, level)) = 0
    OBVIOUS
  <2> QED BY <2>1, ShownIs, RemoveLevelShows
<1> HIDE DEF s
<1>2. Show(s)
  BY DEF s
<1> QED BY <1>1, <1>2, ShowsFramed DEF Show

LEMMA SwitchedFramed ==
  ASSUME Types, level \in Levels, ~Blocked, Show(Activate(~flActive, level, Shown))
  PROVE  /\ Framed /\ flActive' = ~flActive
         /\ \A x \in Levels :
              /\ Count(seqFrame', x) =
                   IF x = level /\ single THEN IF flActive THEN Count(seqFrame, x) + 1 ELSE 0
                   ELSE Count(seqFrame, x)
              /\ Count(seqRender', x) =
                   IF x = level THEN IF flActive THEN Count(seqRender, x) + 1 ELSE 0
                   ELSE Count(seqRender, x)
<1> DEFINE on == ~flActive
           s == Activate(on, level, Shown)
           n == IF single THEN IF on THEN 0 ELSE Count(seqFrame, level) + 1 ELSE Count(seqFrame, level)
           m == IF on THEN 0 ELSE Count(seqRender, level) + 1
<1>1. s.active = on /\ Shows(Shown, s, level, n, m)
  <2>1. on \in BOOLEAN /\ Shown.active # on /\ single \in BOOLEAN
    BY ShownIs DEF Types
  <2> HIDE DEF on
  <2> QED BY <2>1, ShownIs, ActivateWith
<1> HIDE DEF s, n, m
<1>2. Show(s)
  BY DEF s
<1>3. /\ Framed
      /\ \A x \in Levels :
           /\ Count(seqFrame', x) = IF x = level THEN n ELSE Count(seqFrame, x)
           /\ Count(seqRender', x) = IF x = level THEN m ELSE Count(seqRender, x)
  BY <1>1, <1>2, ShowsFramed
<1>4. flActive' = ~flActive
  BY <1>1, <1>2 DEF Show
<1> QED BY <1>3, <1>4 DEF n, m

------------------------------------------------------------------------------
(* The count of the loading screen, the loading steps and the events.        *)

\* The flag says that the count is not positive.
Agree(d) == d \in [ref : Int, loaded : BOOLEAN] /\ (d.loaded <=> d.ref <= 0)

LEMMA LoadsAgree ==
  ASSUME NEW d, Agree(d)
  PROVE  /\ Agree(LoadBegin(d)) /\ LoadBegin(d).ref = d.ref + 1
         /\ Agree(LoadEnd(d)) /\ LoadEnd(d).ref = d.ref - 1
<1> DEFINE b == d.loaded /\ d.ref + 1 # 1
           e == d.loaded \/ d.ref - 1 = 0
<1>1. d.ref \in Int /\ (d.loaded <=> d.ref <= 0)
  BY DEF Agree
<1>2. b \in BOOLEAN /\ (b <=> d.ref + 1 <= 0)
  BY <1>1
<1>3. e \in BOOLEAN /\ (e <=> d.ref - 1 <= 0)
  BY <1>1
<1>4. LoadBegin(d) = [ref |-> d.ref + 1, loaded |-> b]
  BY DEF LoadBegin
<1>5. LoadEnd(d) = [ref |-> d.ref - 1, loaded |-> e]
  BY DEF LoadEnd
<1> HIDE DEF b, e
<1> QED BY <1>1, <1>2, <1>3, <1>4, <1>5 DEF Agree

LEMMA LoadsShape ==
  ASSUME Types, Loaded
  PROVE  /\ Agree(Loads) /\ Loads.ref = loadRef
         /\ \A d : Agree(d) /\ SetLoads(d) =>
              loadRef' = d.ref /\ loadRef' \in Int /\ appLoaded' \in BOOLEAN
              /\ (appLoaded' <=> loadRef' <= 0)
BY DEF Types, Loaded, Agree, Loads, SetLoads

LEMMA StepsAre ==
  ASSUME NEW lv \in Levels \cup {NoLevel}
  PROVE  /\ Steps(lv, NetStart) \in Seq(Tasks) /\ DOMAIN Steps(lv, NetStart) = 1..6
         /\ Steps(lv, NetClient) \in Seq(Tasks) /\ DOMAIN Steps(lv, NetClient) = 1..6
         /\ \A i \in 1..6 : /\ Steps(lv, NetStart)[i] = [fn |-> NetStart[i], lv |-> lv]
                            /\ Steps(lv, NetClient)[i] = [fn |-> NetClient[i], lv |-> lv]
         /\ Steps(lv, <<"finalizer">>) \in Seq(Tasks)
         /\ DOMAIN Steps(lv, <<"finalizer">>) = 1..1
         /\ Steps(lv, <<"finalizer">>)[1] = [fn |-> "finalizer", lv |-> lv]
<1>1. DOMAIN NetStart = 1..6 /\ DOMAIN NetClient = 1..6 /\ DOMAIN <<"finalizer">> = 1..1
  BY DEF NetStart, NetClient
<1>2. \A i \in 1..6 : NetStart[i] \in Functions /\ NetClient[i] \in Functions
  BY DEF NetStart, NetClient, Functions
<1>3. ASSUME NEW f, NEW n \in Nat, DOMAIN f = 1..n, \A i \in 1..n : f[i] \in Functions
      PROVE  /\ Steps(lv, f) \in Seq(Tasks) /\ DOMAIN Steps(lv, f) = 1..n
             /\ \A i \in 1..n : Steps(lv, f)[i] = [fn |-> f[i], lv |-> lv]
  <2>1. \A i \in 1..n : [fn |-> f[i], lv |-> lv] \in Tasks
    BY <1>3 DEF Tasks
  <2> QED BY <1>3, <2>1 DEF Steps
<1>4. <<"finalizer">>[1] = "finalizer" /\ "finalizer" \in Functions
  BY DEF Functions
<1> HIDE DEF NetStart, NetClient
<1>5. /\ Steps(lv, NetStart) \in Seq(Tasks) /\ DOMAIN Steps(lv, NetStart) = 1..6
      /\ \A i \in 1..6 : Steps(lv, NetStart)[i] = [fn |-> NetStart[i], lv |-> lv]
  BY <1>1, <1>2, <1>3
<1>6. /\ Steps(lv, NetClient) \in Seq(Tasks) /\ DOMAIN Steps(lv, NetClient) = 1..6
      /\ \A i \in 1..6 : Steps(lv, NetClient)[i] = [fn |-> NetClient[i], lv |-> lv]
  BY <1>1, <1>2, <1>3
<1>7. /\ Steps(lv, <<"finalizer">>) \in Seq(Tasks) /\ DOMAIN Steps(lv, <<"finalizer">>) = 1..1
      /\ Steps(lv, <<"finalizer">>)[1] = [fn |-> "finalizer", lv |-> lv]
  <2> DEFINE f == <<"finalizer">>
  <2>1. DOMAIN f = 1..1 /\ f[1] = "finalizer" /\ \A i \in 1..1 : f[i] \in Functions
    BY <1>1, <1>4
  <2> HIDE DEF f
  <2>2. /\ Steps(lv, f) \in Seq(Tasks) /\ DOMAIN Steps(lv, f) = 1..1
        /\ Steps(lv, f)[1] = [fn |-> "finalizer", lv |-> lv]
    BY <1>3, <2>1
  <2> QED BY <2>2 DEF f
<1> QED BY <1>5, <1>6, <1>7

LEMMA OrderIs ==
  /\ Order("start1") = 1 /\ Order("start2") = 2 /\ Order("start3") = 3 /\ Order("start4") = 4
  /\ Order("client1") = 5 /\ Order("client2") = 6 /\ Order("client3") = 7
  /\ Order("client4") = 8 /\ Order("client5") = 9 /\ Order("client6") = 10
  /\ Order("start5") = 11 /\ Order("start6") = 12 /\ Order("finalizer") = 13
  /\ \A f \in Functions : Order(f) \in 1..13
  /\ \A f, g \in Functions : Order(f) = Order(g) => f = g
<1>1. /\ Order("start1") = 1 /\ Order("start2") = 2
      /\ Order("start3") = 3 /\ Order("start4") = 4
  BY DEF Order
<1>2. /\ Order("client1") = 5 /\ Order("client2") = 6 /\ Order("client3") = 7
      /\ Order("client4") = 8 /\ Order("client5") = 9 /\ Order("client6") = 10
  BY DEF Order
<1>3. Order("start5") = 11 /\ Order("start6") = 12 /\ Order("finalizer") = 13
  BY DEF Order
<1> QED BY <1>1, <1>2, <1>3 DEF Functions

LEMMA ItemsAre ==
  ASSUME NEW q \in Seq(Tasks), NEW k \in DOMAIN q
  PROVE  q[k] \in Tasks /\ q[k].fn \in Functions /\ Order(q[k].fn) \in 1..13
<1>1. q[k] \in Tasks
  OBVIOUS
<1>2. q[k].fn \in Functions
  BY <1>1 DEF Tasks
<1> QED BY <1>1, <1>2, OrderIs

LEMMA TailLine ==
  ASSUME NEW q \in Seq(Tasks), q # <<>>, Line(q)
  PROVE  /\ Tail(q) \in Seq(Tasks) /\ Line(Tail(q)) /\ Head(q) \in Tasks
         /\ Head(q) = q[1] /\ 1 \in DOMAIN q
         /\ DOMAIN Tail(q) = 1..(Len(q) - 1) /\ Len(q) \in Nat /\ DOMAIN q = 1..Len(q)
         /\ \A i \in DOMAIN Tail(q) : /\ i + 1 \in DOMAIN q /\ Tail(q)[i] = q[i + 1]
                                      /\ Order(Tail(q)[i].fn) > Order(Head(q).fn)
         /\ \A f : On(Tail(q), f) <=> On(q, f) /\ f # Head(q).fn
<1>1. /\ Tail(q) \in Seq(Tasks) /\ Head(q) \in Tasks
      /\ Head(q) = q[1] /\ Len(q) \in Nat /\ DOMAIN q = 1..Len(q) /\ Len(q) >= 1
      /\ DOMAIN Tail(q) = 1..(Len(q) - 1) /\ Len(Tail(q)) = Len(q) - 1
      /\ \A i \in DOMAIN q : q[i] \in Tasks
  OBVIOUS
<1>2. \A i \in DOMAIN Tail(q) : i + 1 \in DOMAIN q /\ Tail(q)[i] = q[i + 1] /\ i \in Nat
  BY <1>1
<1>3. \A i \in DOMAIN q : q[i].fn \in Functions /\ Order(q[i].fn) \in 1..13
  BY ItemsAre
<1>4. \A i \in DOMAIN Tail(q) : Order(Tail(q)[i].fn) > Order(Head(q).fn)
  BY <1>1, <1>2, <1>3 DEF Line
<1>5. Line(Tail(q))
  <2>1. \A i, k \in DOMAIN Tail(q) : i < k => Order(Tail(q)[i].fn) < Order(Tail(q)[k].fn)
    BY <1>1, <1>2 DEF Line
  <2>2. \A i, k \in DOMAIN Tail(q) : Order(Tail(q)[i].fn) <= 4 => Order(Tail(q)[k].fn) \notin 5..10
    BY <1>1, <1>2 DEF Line
  <2>3. \A i \in DOMAIN Tail(q) : Tail(q)[i].fn = "finalizer" => FALSE
    <3> SUFFICES ASSUME NEW i \in DOMAIN Tail(q), Tail(q)[i].fn = "finalizer" PROVE FALSE
      OBVIOUS
    <3>1. i + 1 \in DOMAIN q /\ q[i + 1].fn = "finalizer"
      BY <1>2
    <3>2. Len(q) = 1
      BY <3>1 DEF Line
    <3> QED BY <1>1, <3>2
  <2>4. \A i \in DOMAIN Tail(q) : Tail(q)[i].fn # "finalizer" => Tail(q)[i].lv \in Levels
    BY <1>2 DEF Line
  <2> QED BY <2>1, <2>2, <2>3, <2>4 DEF Line
<1>6. ASSUME NEW f PROVE On(Tail(q), f) <=> On(q, f) /\ f # Head(q).fn
  <2>1. ASSUME NEW i \in DOMAIN Tail(q), Tail(q)[i].fn = f PROVE On(q, f) /\ f # Head(q).fn
    <3>1. On(q, f)
      BY <1>2, <2>1 DEF On
    <3>2. Order(f) > Order(Head(q).fn) /\ Order(f) \in 1..13
      BY <1>2, <1>3, <1>4, <2>1
    <3> QED BY <3>1, <3>2
  <2>2. ASSUME NEW i \in DOMAIN q, q[i].fn = f, f # Head(q).fn PROVE On(Tail(q), f)
    <3>1. i - 1 \in DOMAIN Tail(q) /\ (i - 1) + 1 = i
      BY <1>1, <2>2
    <3>2. Tail(q)[i - 1] = q[i]
      BY <1>1, <1>2, <3>1
    <3> QED BY <2>2, <3>1, <3>2 DEF On
  <2> QED BY <2>1, <2>2 DEF On
<1> QED BY <1>1, <1>2, <1>4, <1>5, <1>6

------------------------------------------------------------------------------
(* What the actions do, under the invariant.                                 *)

\* A turn of the loop that loads finds the level there, and the menu off.
LEMMA LoadingLive ==
  ASSUME IInv, NEW f, Loading(f)
  PROVE  /\ idx = 0 /\ ~quit /\ loading # <<>> /\ loading \in Seq(Tasks)
         /\ ~Blocked /\ ~pending /\ ~flActive /\ Mine(loading) /\ Line(loading)
         /\ Head(loading).fn = f /\ f \in Functions /\ ~Lost
         /\ f # "finalizer" => level \in Levels
         /\ Order(f) <= 7 => ~ready
<1>1. idx = 0 /\ ~quit /\ loading # <<>> /\ Head(loading).fn = f
  BY DEF Loading
<1>2. /\ loading \in Seq(Tasks) /\ Unready /\ Live /\ seqFrame \in Seq(Entries)
      /\ ~Lost /\ Line(loading)
  <2>1. loading \in Seq(Tasks) /\ Head(loading) = loading[1] /\ ~Orphan(Head(loading))
    BY DEF IInv, Types, Loading
  <2>2. ~Lost
    BY <2>1 DEF Lost
  <2> QED BY <2>1, <2>2 DEF IInv, Types, Ordered
<1>3. ~Coming
  BY <1>1, <1>2 DEF Coming, Calls
<1>4. ~Blocked /\ ~flActive /\ Mine(loading)
  BY <1>1, <1>2, <1>3 DEF Live
<1>5. Head(loading) = loading[1] /\ 1 \in DOMAIN loading /\ Head(loading) \in Tasks
  BY <1>1, <1>2, TailLine
<1>6. f \in Functions
  BY <1>1, <1>5 DEF Tasks
<1>7. f # "finalizer" => level \in Levels
  BY <1>1, <1>2, <1>4, <1>5 DEF Line, Mine
<1>8. Order(f) <= 7 => ~ready
  BY <1>1, <1>2, <1>5 DEF Unready
<1> QED BY <1>1, <1>2, <1>4, <1>6, <1>7, <1>8 DEF Blocked

\* The list of loading steps after one has been taken, or replaced.
LEMMA LoadTurnLoading ==
  ASSUME IInv, LoadTurn
  PROVE  /\ idx = 0 /\ idx' = 0 /\ ~quit /\ UNCHANGED <<single, shot, events, quit>>
         /\ loading # <<>> /\ loading' \in Seq(Tasks) /\ Line(loading) /\ ~Lost
         /\ \/ loading' = Tail(loading)
            \/ loading' = loading /\ NetClient3 /\ connected /\ NoLevelFound
            \/ loading' = Steps(level, NetClient) \o Tail(loading) /\ NetStart4
            \/ loading' = Steps(NoLevel, <<"finalizer">>) \o Tail(loading) /\ NetStart6
<1>1. PICK f : Loading(f)
  BY DEF LoadTurn, NetStart1, NetStart2, NetStart4, NetStart6, NetOther, NetClient1,
         NetClient2, NetClient3, NetClient6, Finalizer
<1>2. /\ idx = 0 /\ ~quit /\ loading # <<>> /\ loading \in Seq(Tasks) /\ Line(loading) /\ ~Lost
      /\ level \in Levels \cup {NoLevel}
  BY <1>1, LoadingLive DEF IInv, Types
<1>3. Tail(loading) \in Seq(Tasks)
  BY <1>2
<1>4. idx' = 0 /\ UNCHANGED <<single, shot, events, quit>>
  BY <1>1, <1>2 DEF LoadTurn, NetStart1, NetStart2, NetStart4, NetStart6, NetOther, NetClient1,
         NetClient2, NetClient3, NetClient6, Finalizer, Loading
<1>5. \/ loading' = Tail(loading)
      \/ loading' = loading /\ NetClient3 /\ connected /\ NoLevelFound
      \/ loading' = Steps(level, NetClient) \o Tail(loading) /\ NetStart4
      \/ loading' = Steps(NoLevel, <<"finalizer">>) \o Tail(loading) /\ NetStart6
  <2>1. CASE NetStart4
    <3>1. CASE result
      BY <2>1, <3>1 DEF NetStart4
    <3>2. CASE ~result
      <4>1. loading' = <<>> \o Tail(loading)
        BY <2>1, <3>2 DEF NetStart4
      <4> QED BY <1>3, <4>1
    <3> QED BY <3>1, <3>2
  <2>2. CASE NetStart6
    BY <2>2 DEF NetStart6
  <2>3. CASE NetClient3
    BY <2>3 DEF NetClient3, NoLevelFound, Load
  <2>4. CASE NetStart1 \/ NetStart2 \/ NetOther \/ NetClient1 \/ NetClient2 \/ NetClient6 \/ Finalizer
    BY <2>4 DEF NetStart1, NetStart2, NetOther, NetClient1, NetClient2, NetClient6, Finalizer
  <2> QED BY <2>1, <2>2, <2>3, <2>4 DEF LoadTurn
<1>6. loading' \in Seq(Tasks)
  <2>1. Steps(level, NetClient) \in Seq(Tasks) /\ Steps(NoLevel, <<"finalizer">>) \in Seq(Tasks)
    BY <1>2, StepsAre
  <2>2. \A s \in Seq(Tasks) : s \o Tail(loading) \in Seq(Tasks)
    BY <1>3
  <2> QED BY <1>2, <1>3, <1>5, <2>1, <2>2
<1> QED BY <1>2, <1>4, <1>5, <1>6

LEMMA ScreenshotFramed ==
  ASSUME IInv, Screenshot
  PROVE  /\ level \in Levels /\ ready /\ single /\ pending' = TRUE /\ dist' = 1
         /\ deferred = <<>> /\ UNCHANGED deferred
         /\ Framed /\ flActive' = flActive
         /\ \A x \in Levels :
              LET more == flActive /\ x = level
              IN /\ Count(seqFrame', x) = IF more THEN Count(seqFrame, x) + 1 ELSE Count(seqFrame, x)
                 /\ Count(seqRender', x) = IF more THEN Count(seqRender, x) + 1 ELSE Count(seqRender, x)
<1>1. /\ level \in Levels /\ ready /\ single /\ pending' = TRUE /\ dist' = 1
      /\ deferred = <<>> /\ UNCHANGED deferred
  BY DEF Screenshot, IInv, OnList
<1>2. CASE flActive
  <2>1. Show(AddLevel(level, TRUE, Shown))
    BY <1>2 DEF Screenshot
  <2> QED BY <1>1, <1>2, <2>1, AddedFramed DEF IInv
<1>3. CASE ~flActive
  <2>1. Show(Shown)
    BY <1>3 DEF Screenshot
  <2>2. UNCHANGED shown
    BY <2>1 DEF Show, Shown, shown
  <2>3. Framed
    BY <2>2, Untouched DEF IInv
  <2> QED BY <1>1, <1>3, <2>2, <2>3 DEF shown
<1> QED BY <1>2, <1>3

\* What one defers.
LEMMA DeferIs ==
  ASSUME IInv, NEW es \in {<<"disconnect">>, <<"start">>, Reconnect, AltF4}, Defer(es)
  PROVE  /\ deferred' = deferred \o es /\ deferred' \in Seq(Events)
         /\ UNCHANGED <<shown, shot>>
         /\ DOMAIN deferred \subseteq DOMAIN deferred'
         /\ \A i \in DOMAIN deferred : deferred'[i] = deferred[i]
         /\ Waiting("quit")' \/ ~Blocked
<1> DEFINE n == Len(deferred)
<1>1. /\ deferred' = deferred \o es /\ UNCHANGED <<shown, shot>>
      /\ deferred \in Seq(Events) /\ Unblocked(es)
  BY DEF Defer, IInv, Types
<1>2. /\ es \in Seq(Events) /\ Len(es) \in 1..2 /\ DOMAIN es = 1..Len(es)
      /\ Len(es) = 1 => es[1] \in {"disconnect", "start"}
      /\ Len(es) = 2 => es[1] = "disconnect" /\ es[2] \in {"start", "quit"}
      /\ \A i \in DOMAIN es : es[i] = "quit" => i = 2
  <2>1. CASE es = <<"disconnect">>
    BY <2>1 DEF Events
  <2>2. CASE es = <<"start">>
    BY <2>2 DEF Events
  <2>3. CASE es = <<"disconnect", "start">>
    BY <2>3 DEF Events
  <2>4. CASE es = <<"disconnect", "quit">>
    BY <2>4 DEF Events
  <2> QED BY <2>1, <2>2, <2>3, <2>4 DEF Reconnect, AltF4
<1>3. /\ n \in Nat /\ DOMAIN deferred = 1..n /\ DOMAIN deferred' = 1..(n + Len(es))
      /\ deferred' \in Seq(Events)
      /\ \A i \in 1..n : deferred'[i] = deferred[i]
      /\ \A i \in 1..Len(es) : deferred'[n + i] = es[i]
  BY <1>1, <1>2
<1>4. (Len(es) = 2 /\ es[2] = "quit") \/ ~Blocked
  <2>1. "quit" \in {es[i] : i \in DOMAIN es} => Len(es) = 2 /\ es[2] = "quit"
    BY <1>2
  <2> QED BY <1>1, <2>1 DEF Unblocked
<1> HIDE DEF n
<1>5. /\ deferred'[n + 1] = es[1]
      /\ Len(es) = 2 => deferred'[n + 2] = es[2]
      /\ \A i \in DOMAIN deferred' : i \in 1..n \/ i = n + 1 \/ (i = n + 2 /\ Len(es) = 2)
  BY <1>2, <1>3
<1>6. Waiting("quit")' \/ ~Blocked
  BY <1>3, <1>4, <1>5 DEF Waiting
<1>7. DOMAIN deferred \subseteq DOMAIN deferred' /\ \A i \in DOMAIN deferred : deferred'[i] = deferred[i]
  BY <1>2, <1>3
<1> QED BY <1>1, <1>3, <1>6, <1>7


\* The steps of a level that is deleted.
LEMMA OrphanedIs ==
  ASSUME NEW q \in Seq(Tasks)
  PROVE  /\ Orphaned(q) \in Seq(Tasks) /\ (q = <<>> <=> Orphaned(q) = <<>>)
         /\ DOMAIN Orphaned(q) = DOMAIN q
         /\ \A i \in DOMAIN q : Orphaned(q)[i].fn = q[i].fn /\ Orphaned(q)[i].lv = NoLevel
         /\ \A f : On(Orphaned(q), f) <=> On(q, f)
<1> DEFINE p == Orphaned(q)
<1>1. DOMAIN q = 1..Len(q) /\ Len(q) \in Nat /\ \A i \in DOMAIN q : q[i] \in Tasks
  OBVIOUS
<1>2. p = [i \in DOMAIN q |-> [q[i] EXCEPT !.lv = NoLevel]]
  BY DEF Orphaned
<1>3. ASSUME NEW i \in DOMAIN q
      PROVE  p[i] \in Tasks /\ p[i].fn = q[i].fn /\ p[i].lv = NoLevel
  BY <1>1, <1>2, <1>3 DEF Tasks
<1>4. DOMAIN p = 1..Len(q)
  BY <1>1, <1>2
<1> HIDE DEF p
<1>5. p \in Seq(Tasks)
  <2>1. p = [i \in 1..Len(q) |-> p[i]]
    BY <1>1, <1>2, <1>4
  <2> QED BY <1>1, <1>3, <2>1
<1>6. q = <<>> <=> p = <<>>
  BY <1>1, <1>4, <1>5
<1>7. \A f : On(p, f) <=> On(q, f)
  BY <1>1, <1>3, <1>4 DEF On
<1> QED BY <1>1, <1>3, <1>4, <1>5, <1>6, <1>7 DEF p

\* While the frame moves, the steps that are left without a level are a deleted one's.
LEMMA NoneLost ==
  ASSUME IInv, level = NoLevel, idx # 0, loading # <<>>
  PROVE  Lost
<1> SUFFICES ASSUME ~Lost PROVE FALSE
  OBVIOUS
<1>1. loading \in Seq(Tasks) /\ Line(loading) /\ Mine(loading) /\ ~On(loading, "finalizer")
  BY DEF IInv, Types, Ordered, Live, Walking
<1>2. 1 \in DOMAIN loading
  BY <1>1
<1>3. loading[1].fn # "finalizer"
  BY <1>1, <1>2 DEF On
<1>4. loading[1].lv = NoLevel
  BY <1>1, <1>2, <1>3 DEF Mine
<1> QED BY <1>3, <1>4 DEF Lost, Orphan

\* Within the walk, the level that is deleted leaves the steps it has lost.
LEMMA LosesSteps ==
  ASSUME Types, Walking, idx # 0, loading # <<>>, loading' = Orphaned(loading)
  PROVE  Lost'
<1>1. loading \in Seq(Tasks) /\ ~On(loading, "finalizer")
  BY DEF Types, Walking
<1>2. 1 \in DOMAIN loading
  BY <1>1
<1>3. loading'[1].fn = loading[1].fn /\ loading'[1].lv = NoLevel /\ loading' # <<>>
  BY <1>1, <1>2, OrphanedIs
<1>4. loading[1].fn # "finalizer"
  BY <1>1, <1>2 DEF On
<1> QED BY <1>3, <1>4 DEF Lost, Orphan

\* The keys, and the subscribers that may defer an event.
LEMMA DisconnectFramed ==
  ASSUME IInv, OnDisconnect
  PROVE  /\ Framed
         /\ \/ level = NoLevel /\ UNCHANGED <<shown, game, connected, result, loading>>
            \/ /\ level \in Levels /\ level' = NoLevel /\ ready' = FALSE
               /\ loading' = Orphaned(loading)
               /\ connected' = FALSE /\ result' = TRUE /\ single' = single
               /\ Waiting("quit") \/ Waiting("start") \/ flActive' \/ Blocked
               /\ \A x \in Levels :
                    /\ Count(seqFrame', x) = IF x = level THEN 0 ELSE Count(seqFrame, x)
                    /\ Count(seqRender', x) = IF x = level THEN 0 ELSE Count(seqRender, x)
<1>1. CASE level = NoLevel
  <2>1. UNCHANGED <<shown, game, connected, result, loading>>
    BY <1>1 DEF OnDisconnect
  <2> QED BY <1>1, <2>1, Untouched DEF IInv
<1>2. CASE level # NoLevel
  <2> DEFINE back == Activate(TRUE, NoLevel, Activate(FALSE, NoLevel, Delete(Shown)))
             s == IF Waiting("quit") \/ Waiting("start") THEN Delete(Shown) ELSE back
  <2>1. level \in Levels
    BY <1>2 DEF IInv, Types
  <2>2. Show(s) /\ level' = NoLevel /\ ready' = FALSE /\ connected' = FALSE /\ result' = TRUE
        /\ single' = single /\ loading' = Orphaned(loading)
    BY <1>2 DEF OnDisconnect, NoMore
  <2>3. \/ s = Delete(Shown)
        \/ s = back
    OBVIOUS
  <2>4. Waiting("quit") \/ Waiting("start") \/ s = back
    OBVIOUS
  <2> HIDE DEF s
  <2>5. /\ Framed
        /\ s = back => flActive' \/ Blocked
        /\ \A x \in Levels :
             /\ Count(seqFrame', x) = IF x = level THEN 0 ELSE Count(seqFrame, x)
             /\ Count(seqRender', x) = IF x = level THEN 0 ELSE Count(seqRender, x)
    BY <2>1, <2>2, <2>3, DeleteFramed DEF IInv
  <2> QED BY <2>1, <2>2, <2>4, <2>5
<1> QED BY <1>1, <1>2

LEMMA MenuFramed ==
  ASSUME IInv, MenuFrame
  PROVE  /\ Framed /\ flActive' = flActive
         /\ \/ UNCHANGED <<pending, shown>>
            \/ /\ pending /\ pending' = FALSE /\ (~flActive \/ level = NoLevel) /\ UNCHANGED shown
            \/ /\ pending /\ pending' = FALSE /\ flActive /\ level \in Levels
               /\ \A x \in Levels :
                    /\ Count(seqFrame', x) = IF x = level THEN 0 ELSE Count(seqFrame, x)
                    /\ Count(seqRender', x) = IF x = level THEN 0 ELSE Count(seqRender, x)
<1>1. CASE ~(pending /\ dist < 0)
  <2>1. UNCHANGED <<pending, shown>>
    BY <1>1 DEF MenuFrame
  <2> QED BY <2>1, Untouched DEF IInv, shown
<1>2. CASE pending /\ dist < 0
  <2>1. pending' = FALSE
    BY <1>2 DEF MenuFrame
  <2>2. CASE flActive /\ level # NoLevel
    <3>1. level \in Levels /\ Show(RemoveLevel(level, TRUE, Shown))
      BY <1>2, <2>2 DEF MenuFrame, IInv, Types
    <3> QED BY <1>2, <2>1, <2>2, <3>1, RemovedFramed DEF IInv
  <2>3. CASE ~(flActive /\ level # NoLevel)
    <3>1. Show(Shown)
      BY <1>2, <2>3 DEF MenuFrame
    <3>2. UNCHANGED shown
      BY <3>1 DEF Show, Shown, shown
    <3> QED BY <1>2, <2>1, <2>3, <3>2, Untouched DEF IInv, shown
  <2> QED BY <2>2, <2>3
<1> QED BY <1>1, <1>2

LEMMA KeyFramed ==
  ASSUME IInv, level \in Levels, Show(Activate(~flActive, level, Shown))
  PROVE  Framed /\ (UNCHANGED shown
                    \/ (/\ ~Blocked /\ flActive' = ~flActive
                        /\ \A x \in Levels :
                             /\ Count(seqFrame', x) =
                                  IF x = level /\ single
                                    THEN IF flActive THEN Count(seqFrame, x) + 1 ELSE 0
                                    ELSE Count(seqFrame, x)
                             /\ Count(seqRender', x) =
                                  IF x = level
                                    THEN IF flActive THEN Count(seqRender, x) + 1 ELSE 0
                                    ELSE Count(seqRender, x)))
<1>1. CASE Blocked
  <2>1. Show(Shown)
    BY <1>1 DEF Activate
  <2>2. UNCHANGED shown
    BY <2>1 DEF Show, Shown, shown
  <2> QED BY <2>2, Untouched DEF IInv
<1>2. CASE ~Blocked
  BY <1>2, SwitchedFramed DEF IInv
<1> QED BY <1>1, <1>2


\* The program ends.
Ends == SecondStart \/ LostStep

LEMMA EndsIs ==
  ASSUME IInv, Ends
  PROVE  /\ UNCHANGED <<shown, game, start, load, shot>> /\ quit' = TRUE /\ idx' = 0
         /\ (deferred' = <<>> /\ ev' = 0) \/ (UNCHANGED events /\ idx = 0)
         /\ deferred' \in Seq(Events) /\ ev' \in Nat
<1>1. CASE SecondStart
  <2>1. deferred' = <<>> /\ ev' = 0
    BY <1>1 DEF SecondStart
  <2> QED BY <1>1, <2>1 DEF SecondStart
<1>2. CASE LostStep
  BY <1>2 DEF LostStep, events, IInv, Types
<1> QED BY <1>1, <1>2 DEF Ends

LEMMA TypesStep ==
  ASSUME IInv, Next
  PROVE  Types' /\ (Framed \/ EndFrame)
<1>1. Types
  BY DEF IInv
<1>2. ASSUME Framed PROVE seqFrame' \in Seq(Entries) /\ seqRender' \in Seq(Entries) /\ flActive' \in BOOLEAN
  BY <1>2 DEF Framed
<1>3. CASE BeginFrame
  <2>1. Framed
    BY <1>1, <1>3, Untouched DEF BeginFrame
  <2> QED BY <1>1, <1>3, <2>1 DEF BeginFrame, Types, game, start, load, events, Framed
<1>4. CASE Skip
  <2>1. Framed
    BY <1>1, <1>4, Untouched DEF Skip
  <2> QED BY <1>1, <1>4, <2>1 DEF Skip, Types, game, start, load, events, shot, Framed
<1>5. CASE EndFrame
  <2>1. seqFrame' \in Seq(Entries)
    BY <1>1, <1>5, ResortShape DEF EndFrame, Types
  <2> QED BY <1>1, <1>5, <2>1 DEF EndFrame, Types, game, start, load, events, shot
<1>6. CASE OnStart
  <2>1. Framed
    BY <1>1, <1>6, StartFramed DEF OnStart
  <2>2. loadRef' \in Int /\ appLoaded' \in BOOLEAN
    BY <1>6, LoadsShape, LoadsAgree DEF OnStart, IInv
  <2>3. loading' \in Seq(Tasks)
    <3>1. loading' = loading \o Steps(level', NetStart) /\ level' \in Levels
      BY <1>6 DEF OnStart
    <3>2. Steps(level', NetStart) \in Seq(Tasks)
      BY <3>1, StepsAre
    <3> QED BY <1>1, <3>1, <3>2 DEF Types
  <2>4. level' \in Levels /\ ready' = FALSE /\ connected' = FALSE /\ result' = TRUE
    BY <1>6 DEF OnStart
  <2>5. /\ ready' \in BOOLEAN /\ connected' \in BOOLEAN /\ result' \in BOOLEAN
        /\ single' \in BOOLEAN
    BY <1>6, <2>4 DEF OnStart
  <2>6. /\ idx' = idx /\ ev' = ev + 1 /\ deferred' = deferred /\ dist' = dist
        /\ pending' = pending /\ total' = total /\ quit' = quit
    BY <1>6 DEF OnStart, Delivers, shot
  <2> QED BY <1>1, <2>1, <2>2, <2>3, <2>4, <2>5, <2>6 DEF Types, Framed
<1>7. CASE OnDisconnect
  <2>1. Framed
    BY <1>7, DisconnectFramed
  <2>2. /\ level' \in Levels \cup {NoLevel} /\ ready' \in BOOLEAN /\ single' \in BOOLEAN
        /\ connected' \in BOOLEAN /\ result' \in BOOLEAN /\ loading' \in Seq(Tasks)
    BY <1>1, <1>7, DisconnectFramed, OrphanedIs DEF Types, game
  <2> QED BY <1>1, <1>7, <2>1, <2>2 DEF OnDisconnect, Delivers, Types, shot, load, Framed
<1>8. CASE OnQuit
  <2>1. Framed
    BY <1>1, <1>8, Untouched DEF OnQuit
  <2> QED BY <1>1, <1>8, <2>1 DEF OnQuit, Delivers, Types, game, start, load, shot, Framed
<1>9. CASE EventsDelivered
  <2>1. Framed
    BY <1>1, <1>9, Untouched DEF EventsDelivered
  <2>2. deferred' = <<>>
    BY <1>9 DEF EventsDelivered
  <2>3. deferred' \in Seq(Events)
    BY <2>2
  <2> QED BY <1>1, <1>9, <2>1, <2>3 DEF EventsDelivered, Types, game, start, load, shot, Framed
<1>10. ASSUME \/ UNCHANGED <<shown, shot, deferred>>
              \/ Screenshot
              \/ \E es \in {<<"disconnect">>, <<"start">>, Reconnect, AltF4} : Defer(es)
              \/ /\ level # NoLevel /\ ready /\ Show(Activate(~flActive, level, Shown))
                 /\ UNCHANGED <<shot, deferred>>
       PROVE  /\ Framed /\ dist' \in -2..1 /\ pending' \in BOOLEAN /\ deferred' \in Seq(Events)
  <2>1. CASE UNCHANGED <<shown, shot, deferred>>
    <3>1. Framed
      BY <1>1, <2>1, Untouched
    <3> QED BY <1>1, <2>1, <3>1 DEF shot, Types
  <2>2. CASE Screenshot
    BY <1>1, <2>2, ScreenshotFramed DEF Types
  <2>3. CASE \E es \in {<<"disconnect">>, <<"start">>, Reconnect, AltF4} : Defer(es)
    <3>1. UNCHANGED <<shown, shot>> /\ deferred' \in Seq(Events)
      BY <2>3, DeferIs
    <3>2. Framed
      BY <1>1, <3>1, Untouched
    <3> QED BY <1>1, <3>1, <3>2 DEF shot, Types
  <2>4. CASE /\ level # NoLevel /\ ready /\ Show(Activate(~flActive, level, Shown))
             /\ UNCHANGED <<shot, deferred>>
    <3>1. level \in Levels
      BY <1>1, <2>4 DEF Types
    <3>2. Framed
      BY <2>4, <3>1, KeyFramed
    <3> QED BY <1>1, <2>4, <3>2 DEF shot, Types
  <2> QED BY <1>10, <2>1, <2>2, <2>3, <2>4
<1>11. CASE Persistent
  <2>1. Framed /\ dist' \in -2..1 /\ pending' \in BOOLEAN /\ deferred' \in Seq(Events)
    BY <1>10, <1>11 DEF Persistent, Idle
  <2> QED BY <1>1, <1>11, <2>1 DEF Persistent, Types, game, start, load, Framed
<1>12. CASE InputKey
  <2>1. Framed /\ dist' \in -2..1 /\ pending' \in BOOLEAN /\ deferred' \in Seq(Events)
    BY <1>10, <1>12 DEF InputKey
  <2> QED BY <1>1, <1>12, <2>1 DEF InputKey, Types, game, start, load, Framed
<1>13. CASE LevelFrame
  <2>1. Framed /\ dist' \in -2..1 /\ pending' \in BOOLEAN /\ deferred' \in Seq(Events)
    BY <1>10, <1>13 DEF LevelFrame, Idle
  <2> QED BY <1>1, <1>13, <2>1 DEF LevelFrame, Types, game, start, load, Framed
<1>14. CASE Input
  <2>1. Framed
    BY <1>1, <1>14, Untouched DEF Input
  <2> QED BY <1>1, <1>14, <2>1 DEF Input, Types, game, start, load, events, shot, Framed
<1>15. CASE MenuFrame
  <2>1. Framed /\ pending' \in BOOLEAN
    BY <1>1, <1>15, MenuFramed DEF Types
  <2> QED BY <1>1, <1>15, <2>1 DEF MenuFrame, Types, game, start, load, events, Framed
<1>16. CASE Quitted
  <2>1. UNCHANGED vars
    BY <1>16 DEF Quitted
  <2>2. Framed
    BY <1>1, <2>1, Untouched DEF vars
  <2> QED BY <1>1, <2>1, <2>2 DEF Types, vars, game, start, load, events, shot, Framed
<1>17. CASE LoadTurn
  <2>1. /\ idx' \in Nat /\ ev' \in Nat /\ dist' \in -2..1 /\ single' \in BOOLEAN
        /\ deferred' \in Seq(Events) /\ pending' \in BOOLEAN /\ quit' \in BOOLEAN
        /\ loading' \in Seq(Tasks)
    BY <1>1, <1>17, LoadTurnLoading DEF Types, shot, events
  <2>2. loadRef' \in Int /\ appLoaded' \in BOOLEAN
    <3>1. \/ SetLoads(LoadEnd(Loads))
          \/ SetLoads(LoadBegin(Loads))
          \/ UNCHANGED load
      BY <1>17 DEF LoadTurn, NetStart1, NetStart2, NetStart4, NetStart6, NetOther, NetClient1,
         NetClient2, NetClient3, NetClient6, Finalizer, NoLevelFound, Load
    <3>2. CASE UNCHANGED load
      BY <1>1, <3>2 DEF load, Types
    <3> QED BY <3>1, <3>2, LoadsShape, LoadsAgree DEF IInv
  <2>3. Framed /\ level' \in Levels \cup {NoLevel} /\ ready' \in BOOLEAN
        /\ connected' \in BOOLEAN /\ result' \in BOOLEAN /\ total' \in BOOLEAN
    <3>1. CASE UNCHANGED <<shown, level, ready>>
      <4>1. Framed
        BY <1>1, <3>1, Untouched
      <4>2. connected' \in BOOLEAN /\ result' \in BOOLEAN /\ total' \in BOOLEAN
        BY <1>1, <1>17 DEF Types, LoadTurn, NetStart1, NetStart2, NetStart4, NetStart6, NetOther,
           NetClient1, NetClient2, NetClient3, NetClient6, Finalizer, NoLevelFound, Load, NoMore
      <4> QED BY <1>1, <3>1, <4>1, <4>2 DEF Types
    <3>2. CASE NetClient3 /\ Load
      <4>1. level \in Levels
        <5>1. Loading("client3") /\ "client3" # "finalizer"
          BY <3>2 DEF NetClient3
        <5> QED BY <5>1, LoadingLive
      <4>2. Framed
        BY <1>1, <3>2, <4>1, AddedFramed DEF Load
      <4> QED BY <1>1, <3>2, <4>2 DEF Types, NetClient3, Load
    <3>3. CASE Finalizer /\ level # NoLevel /\ ~total
      <4>1. level \in Levels /\ Show(Activate(TRUE, NoLevel, Delete(Shown)))
        BY <1>1, <3>3 DEF Finalizer, Types
      <4>2. Framed
        BY <1>1, <4>1, DeleteFramed
      <4> QED BY <1>1, <3>3, <4>2 DEF Finalizer, Types, NoMore
    <3>4. \/ UNCHANGED <<shown, level, ready>>
          \/ NetClient3 /\ Load
          \/ Finalizer /\ level # NoLevel /\ ~total
      BY <1>17 DEF LoadTurn, NetStart1, NetStart2, NetStart4, NetStart6, NetOther, NetClient1,
         NetClient2, NetClient3, NetClient6, Finalizer, NoLevelFound
    <3> QED BY <3>1, <3>2, <3>3, <3>4
  <2> QED BY <2>1, <2>2, <2>3, <1>17 DEF Types, Framed
<1>18. CASE Ends
  <2>1. /\ UNCHANGED <<shown, game, start, load, shot>> /\ quit' = TRUE
        /\ idx' \in Nat /\ ev' \in Nat /\ deferred' \in Seq(Events)
    BY <1>1, <1>18, EndsIs DEF Types, events
  <2>2. Framed
    BY <1>1, <2>1, Untouched
  <2> QED BY <1>1, <2>1, <2>2 DEF Types, game, start, load, shot, Framed
<1> QED BY <1>3, <1>4, <1>5, <1>6, <1>7, <1>8, <1>9, <1>11, <1>12, <1>13, <1>14, <1>15,
           <1>16, <1>17, <1>18 DEF Next, Turn, Ends


\* The subscribers that are not the application.
Others == Persistent \/ InputKey \/ LevelFrame
Acts   == \/ Idle
          \/ Screenshot
          \/ \E es \in {<<"disconnect">>, <<"start">>, Reconnect, AltF4} : Defer(es)
          \/ /\ level # NoLevel /\ ready /\ Show(Activate(~flActive, level, Shown))
             /\ UNCHANGED <<shot, deferred>>

LEMMA OthersAct ==
  ASSUME IInv, Others
  PROVE  /\ idx \in DOMAIN seqFrame /\ ~Calls("app") /\ idx' \in {idx, idx + 1}
         /\ UNCHANGED <<game, start, load, ev, quit>>
         /\ Acts
<1>1. CASE Persistent
  BY <1>1 DEF Persistent, Calls, Acts
<1>2. CASE InputKey
  BY <1>2 DEF InputKey, Calls, Acts
<1>3. CASE LevelFrame
  <2>1. PICK lv \in Levels : Calls(lv)
    BY <1>3 DEF LevelFrame
  <2>2. lv # "app"
    BY LevelLifeAssumption
  <2> QED BY <1>3, <2>1, <2>2 DEF LevelFrame, Calls, Acts
<1> QED BY <1>1, <1>2, <1>3 DEF Others

LEMMA NoDelivery ==
  ASSUME IInv, ~Calls("app")
  PROVE  ev = 0 /\ ~Coming
BY DEF IInv, Types, Delivering, Coming

LEMMA Between ==
  ASSUME IInv, idx = 0 \/ idx > Len(seqFrame) \/ Skip \/ Others \/ Input \/ MenuFrame
  PROVE  ~Calls("app") /\ ev = 0 /\ ~Coming
<1>1. ~Calls("app")
  <2>1. CASE idx = 0 \/ idx > Len(seqFrame)
    <3>1. idx \notin DOMAIN seqFrame
      BY <2>1 DEF IInv, Types
    <3> QED BY <3>1 DEF Calls
  <2>2. CASE Others
    BY <2>2, OthersAct
  <2>3. CASE Skip \/ Input \/ MenuFrame
    BY <2>3 DEF Skip, Input, MenuFrame, Calls
  <2> QED BY <2>1, <2>2, <2>3
<1> QED BY <1>1, NoDelivery

\* The application keeps its turn while it delivers.
LEMMA Delivered ==
  ASSUME IInv, NEW e, Delivers(e), Framed
  PROVE  /\ idx' = idx /\ idx \in DOMAIN seqFrame /\ idx # 0 /\ seqFrame[idx][1] = "app"
         /\ ev' = ev + 1 /\ deferred' = deferred /\ ev' \in DOMAIN deferred
         /\ deferred[ev'] = e /\ Calls("app")'
<1>1. /\ Calls("app") /\ ev < Len(deferred) /\ deferred[ev + 1] = e /\ ev' = ev + 1
      /\ idx' = idx /\ deferred' = deferred
  BY DEF Delivers
<1>2. idx \in DOMAIN seqFrame /\ seqFrame[idx][1] = "app" /\ Valid(seqFrame[idx])
  BY <1>1 DEF Calls
<1>3. idx # 0 /\ ev' \in DOMAIN deferred
  BY <1>1, <1>2 DEF IInv, Types
<1>4. Grown(seqFrame, seqFrame')
  BY <1>3 DEF Framed, Edited, inProcess
<1>5. Calls("app")'
  BY <1>1, <1>2, <1>4 DEF Calls, Grown
<1> QED BY <1>1, <1>2, <1>3, <1>5

LEMMA QueueStep ==
  ASSUME IInv, Next
  PROVE  Delivering' /\ Queue' /\ Lone(seqFrame)'
<1>1. Types /\ Types' /\ (Framed \/ EndFrame) /\ Delivering /\ Queue /\ Lone(seqFrame)
  BY TypesStep DEF IInv
<1>2. Lone(seqFrame)'
  <2>1. CASE Framed
    BY <1>1, <2>1 DEF Framed, Edited
  <2>2. CASE EndFrame
    BY <1>1, <2>2, ResortLone DEF EndFrame, Edited, Types
  <2> QED BY <1>1, <2>1, <2>2
<1>3. ASSUME deferred' = deferred, Blocked' => Blocked PROVE Queue'
  BY <1>1, <1>3 DEF Queue, Waiting
<1>4. ASSUME ev' = ev, ~Calls("app") PROVE Delivering'
  <2>1. ev' = 0
    BY <1>4, NoDelivery
  <2> QED BY <1>1, <2>1 DEF Delivering, Types
<1>5. ASSUME UNCHANGED shot PROVE Blocked' <=> Blocked
  BY <1>5 DEF shot, Blocked
<1>6. CASE BeginFrame
  <2>1. Blocked' => Blocked
    BY <1>1, <1>6 DEF BeginFrame, Blocked, Types
  <2>2. ~Calls("app")
    BY <1>6, Between DEF BeginFrame
  <2> QED BY <1>2, <1>3, <1>4, <1>6, <2>1, <2>2 DEF BeginFrame, events
<1>7. CASE Skip \/ Input
  BY <1>2, <1>3, <1>4, <1>5, <1>7, Between DEF Skip, Input, events
<1>8. CASE EndFrame
  <2>1. ~Calls("app")
    BY <1>8, Between DEF EndFrame
  <2> QED BY <1>2, <1>3, <1>4, <1>5, <1>8, <2>1 DEF EndFrame, events
<1>9. CASE MenuFrame
  <2>1. Blocked' => Blocked
    BY <1>9, MenuFramed DEF MenuFrame, Blocked
  <2> QED BY <1>2, <1>3, <1>4, <1>9, <2>1, Between DEF MenuFrame, events
<1>10. ASSUME NEW e, Delivers(e), e = "quit" => quit', quit => quit', UNCHANGED shot, Framed,
              e = "start" \/ loading # <<>> => loading' # <<>>
       PROVE  Delivering' /\ Queue'
  <2>1. /\ ev' = ev + 1 /\ deferred' = deferred /\ ev' \in DOMAIN deferred
        /\ deferred[ev'] = e /\ Calls("app")'
    BY <1>10, Delivered
  <2>2. \A i \in 1..ev' : i \in 1..ev \/ i = ev'
    BY <1>1, <2>1 DEF Types
  <2>3. ev' <= Len(deferred)
    BY <1>1, <2>1 DEF Types
  <2>4. ASSUME NEW i \in 1..ev', deferred[i] = "quit" PROVE quit'
    BY <1>1, <1>10, <2>1, <2>2, <2>4 DEF Delivering
  <2>5. ASSUME NEW i \in 1..ev', deferred[i] = "start" PROVE loading' # <<>>
    BY <1>1, <1>10, <2>1, <2>2, <2>5 DEF Delivering
  <2>6. Delivering'
    BY <2>1, <2>3, <2>4, <2>5 DEF Delivering
  <2> QED BY <1>3, <1>5, <1>10, <2>1, <2>6
<1>11. CASE OnStart \/ OnDisconnect \/ OnQuit
  <2>1. Framed
    <3>1. Calls("app")
      BY <1>11 DEF OnStart, OnDisconnect, OnQuit, Delivers
    <3>2. ~EndFrame
      BY <3>1, Between DEF EndFrame
    <3> QED BY <1>1, <3>2
  <2>2. UNCHANGED shot
    BY <1>11 DEF OnStart, OnDisconnect, OnQuit
  <2>3. CASE OnStart
    <3>1. loading' # <<>>
      <4>1. loading' = loading \o Steps(level', NetStart) /\ level' \in Levels
        BY <2>3 DEF OnStart
      <4>2. Steps(level', NetStart) \in Seq(Tasks) /\ DOMAIN Steps(level', NetStart) = 1..6
        BY <4>1, StepsAre
      <4>3. loading \in Seq(Tasks) /\ Len(Steps(level', NetStart)) = 6
        BY <1>1, <4>2 DEF Types
      <4> QED BY <4>1, <4>2, <4>3
    <3> QED BY <1>2, <1>10, <2>1, <2>2, <2>3, <3>1 DEF OnStart
  <2>4. CASE OnDisconnect
    <3>1. loading # <<>> => loading' # <<>>
      BY <1>1, <2>4, DisconnectFramed, OrphanedIs DEF Types
    <3> QED BY <1>2, <1>10, <2>1, <2>2, <2>4, <3>1 DEF OnDisconnect
  <2>5. CASE OnQuit
    BY <1>2, <1>10, <2>1, <2>2, <2>5 DEF OnQuit, start
  <2> QED BY <1>11, <2>3, <2>4, <2>5
<1>12. CASE EventsDelivered
  <2>1. deferred' = <<>> /\ ev' = 0
    BY <1>12 DEF EventsDelivered
  <2> QED BY <1>2, <2>1 DEF Delivering, Queue
<1>13. CASE Others
  <2>1. ~Calls("app") /\ ev' = ev /\ Acts
    BY <1>13, OthersAct
  <2>2. Queue'
    <3>1. CASE Idle \/ UNCHANGED <<shot, deferred>>
      BY <1>3, <1>5, <3>1 DEF Idle
    <3>2. CASE Screenshot
      <4>1. deferred' = <<>>
        BY <3>2, ScreenshotFramed
      <4> QED BY <4>1 DEF Queue
    <3>3. CASE \E es \in {<<"disconnect">>, <<"start">>, Reconnect, AltF4} : Defer(es)
      <4>1. UNCHANGED shot /\ (Waiting("quit")' \/ ~Blocked)
        BY <3>3, DeferIs
      <4> QED BY <1>5, <4>1 DEF Queue
    <3> QED BY <2>1, <3>1, <3>2, <3>3 DEF Acts
  <2> QED BY <1>2, <1>4, <2>1, <2>2
<1>14. CASE LoadTurn
  <2>1. idx = 0 /\ UNCHANGED <<shot, events>>
    BY <1>14, LoadTurnLoading
  <2>2. ~Calls("app")
    BY <2>1, Between
  <2> QED BY <1>2, <1>3, <1>4, <1>5, <2>1, <2>2 DEF events
<1>15. CASE Quitted
  <2>1. ~Calls("app") /\ UNCHANGED <<shot, events>>
    BY <1>15, Between DEF Quitted, vars
  <2> QED BY <1>2, <1>3, <1>4, <1>5, <2>1 DEF events
<1>16. CASE Ends
  <2>1. /\ UNCHANGED shown /\ UNCHANGED shot
        /\ (deferred' = <<>> /\ ev' = 0) \/ (UNCHANGED events /\ idx = 0)
    BY <1>16, EndsIs
  <2>2. CASE deferred' = <<>> /\ ev' = 0
    BY <1>2, <2>2 DEF Delivering, Queue
  <2>3. CASE UNCHANGED events /\ idx = 0
    <3>1. ~Calls("app")
      BY <2>3, Between
    <3> QED BY <1>2, <1>3, <1>4, <1>5, <2>1, <2>3, <3>1 DEF events
  <2> QED BY <2>1, <2>2, <2>3
<1> QED BY <1>6, <1>7, <1>8, <1>9, <1>11, <1>12, <1>13, <1>14, <1>15, <1>16
    DEF Next, Turn, Others, Ends


LEMMA Joined ==
  ASSUME NEW c \in Seq(Tasks), NEW t \in Seq(Tasks)
  PROVE  /\ c \o t \in Seq(Tasks) /\ Len(c \o t) = Len(c) + Len(t)
         /\ DOMAIN (c \o t) = 1..(Len(c) + Len(t))
         /\ \A i \in DOMAIN c : i \in DOMAIN (c \o t) /\ (c \o t)[i] = c[i]
         /\ \A k \in DOMAIN t : /\ Len(c) + k \in DOMAIN (c \o t)
                                /\ (c \o t)[Len(c) + k] = t[k]
         /\ \A i \in DOMAIN (c \o t) : \/ i \in DOMAIN c
                                       \/ \E k \in DOMAIN t : i = Len(c) + k
         /\ \A f : On(c \o t, f) <=> On(c, f) \/ On(t, f)
<1> DEFINE p == c \o t
<1>1. /\ Len(c) \in Nat /\ Len(t) \in Nat /\ DOMAIN c = 1..Len(c) /\ DOMAIN t = 1..Len(t)
      /\ p \in Seq(Tasks) /\ Len(p) = Len(c) + Len(t) /\ DOMAIN p = 1..(Len(c) + Len(t))
  OBVIOUS
<1>2. \A i \in DOMAIN c : p[i] = c[i]
  BY <1>1
<1>3. \A k \in DOMAIN t : p[Len(c) + k] = t[k]
  <2> TAKE k \in DOMAIN t
  <2>1. Len(c) + k \in 1..(Len(c) + Len(t)) /\ ~(Len(c) + k <= Len(c)) /\ (Len(c) + k) - Len(c) = k
    BY <1>1
  <2> QED BY <1>1, <2>1
<1>4. \A i \in DOMAIN c : i \in DOMAIN p
  BY <1>1
<1>5. \A k \in DOMAIN t : Len(c) + k \in DOMAIN p
  BY <1>1
<1>6. ASSUME NEW i \in DOMAIN p, i \notin DOMAIN c PROVE \E k \in DOMAIN t : i = Len(c) + k
  <2>1. i - Len(c) \in DOMAIN t /\ i = Len(c) + (i - Len(c))
    BY <1>1, <1>6
  <2> QED BY <2>1
<1> HIDE DEF p
<1>7. ASSUME NEW f PROVE On(p, f) <=> On(c, f) \/ On(t, f)
  <2>1. On(c, f) => On(p, f)
    BY <1>2, <1>4 DEF On
  <2>2. On(t, f) => On(p, f)
    BY <1>3, <1>5 DEF On
  <2>3. ASSUME NEW i \in DOMAIN p, p[i].fn = f PROVE On(c, f) \/ On(t, f)
    <3>1. CASE i \in DOMAIN c
      BY <1>2, <2>3, <3>1 DEF On
    <3>2. CASE i \notin DOMAIN c
      <4>1. PICK k \in DOMAIN t : i = Len(c) + k
        BY <1>6, <3>2
      <4> QED BY <1>3, <2>3, <4>1 DEF On
    <3> QED BY <3>1, <3>2
  <2> QED BY <2>1, <2>2, <2>3 DEF On
<1> QED BY <1>1, <1>2, <1>3, <1>4, <1>5, <1>6, <1>7 DEF p

\* The steps of a new level go behind those of the lost one, if there are any.
LEMMA StartAppends ==
  ASSUME IInv, OnStart
  PROVE  /\ loading' # <<>> /\ ~On(loading', "finalizer")
         /\ loading # <<>> => Lost /\ Lost'
<1>1. /\ loading' = loading \o Steps(level', NetStart) /\ level' \in Levels /\ level = NoLevel
      /\ loading \in Seq(Tasks) /\ idx # 0
  BY DEF OnStart, Delivers, Calls, IInv, Types
<1> DEFINE t == Steps(level', NetStart)
<1>2. /\ t \in Seq(Tasks) /\ DOMAIN t = 1..6
      /\ \A i \in 1..6 : t[i] = [fn |-> NetStart[i], lv |-> level']
  BY <1>1, StepsAre
<1>3. \A i \in 1..6 : t[i].fn # "finalizer"
  <2>1. \A i \in 1..6 : NetStart[i] # "finalizer"
    BY DEF NetStart
  <2> QED BY <1>2, <2>1
<1>4. ~On(t, "finalizer")
  BY <1>2, <1>3 DEF On
<1>5. loading' = loading \o t
  BY <1>1
<1> HIDE DEF t
<1>6. /\ Len(loading') = Len(loading) + Len(t) /\ Len(t) = 6 /\ Len(loading) \in Nat
      /\ \A i \in DOMAIN loading : loading'[i] = loading[i]
      /\ On(loading', "finalizer") <=> On(loading, "finalizer") \/ On(t, "finalizer")
  BY <1>1, <1>2, <1>5, Joined
<1>7. loading' # <<>>
  BY <1>6
<1>8. On(loading, "finalizer") => loading # <<>>
  BY DEF On
<1>9. loading # <<>> => ~On(loading, "finalizer")
  BY <1>1 DEF IInv, Walking
<1>10. ASSUME loading # <<>> PROVE Lost /\ Lost'
  <2>1. Lost /\ 1 \in DOMAIN loading
    BY <1>1, <1>10, NoneLost
  <2> QED BY <1>6, <1>7, <2>1 DEF Lost
<1> QED BY <1>4, <1>6, <1>7, <1>8, <1>9, <1>10

LEMMA WalkingStep ==
  ASSUME IInv, Next
  PROVE  Walking'
<1>1. /\ Types /\ Types' /\ (Framed \/ EndFrame) /\ Walking /\ Lone(seqFrame)
      /\ seqFrame \in Seq(Entries) /\ idx \in Nat
  BY TypesStep DEF IInv, Types
<1> SUFFICES ASSUME idx' # 0, loading' # <<>>
             PROVE  /\ ~ready' /\ ~On(loading', "finalizer")
                    /\ \/ \E i \in 1..ev' : deferred'[i] = "start"
                       \/ \A j \in DOMAIN seqFrame' : j >= idx' => seqFrame'[j][1] # "app"
  BY DEF Walking
\* The walk goes on, past an entry that is not the application's.
<1>2. ASSUME idx # 0, idx' \in {idx, idx + 1}, Framed, loading' = loading, ready' = ready,
             ev = 0
      PROVE  /\ ~ready' /\ ~On(loading', "finalizer")
             /\ \A j \in DOMAIN seqFrame' : j >= idx' => seqFrame'[j][1] # "app"
  <2>1. ~ready /\ ~On(loading, "finalizer") /\ \A j \in DOMAIN seqFrame : j >= idx => seqFrame[j][1] # "app"
    BY <1>1, <1>2 DEF Walking
  <2>2. Grown(seqFrame, seqFrame')
    BY <1>2 DEF Framed, Edited, inProcess
  <2>3. ASSUME NEW j \in DOMAIN seqFrame', j >= idx' PROVE seqFrame'[j][1] # "app"
    <3>1. j >= idx
      BY <1>1, <1>2, <2>3 DEF Types
    <3>2. CASE j \in DOMAIN seqFrame
      BY <2>1, <2>2, <3>1, <3>2 DEF Grown
    <3>3. CASE j \notin DOMAIN seqFrame
      BY <2>2, <2>3, <3>3 DEF Grown
    <3> QED BY <3>2, <3>3
  <2> QED BY <1>2, <2>1, <2>3
<1>3. CASE BeginFrame
  BY <1>3 DEF BeginFrame, start
<1>4. CASE EndFrame
  BY <1>4 DEF EndFrame
<1>5. CASE LoadTurn
  BY <1>5, LoadTurnLoading
<1>6. CASE Quitted
  BY <1>6 DEF Quitted, vars
<1>7. CASE Skip \/ Input \/ MenuFrame
  <2>1. ev = 0
    BY <1>7, Between
  <2>2. idx \in DOMAIN seqFrame /\ idx' = idx + 1 /\ loading' = loading /\ ready' = ready
    <3>1. CASE Skip
      BY <3>1 DEF Skip, game, start
    <3>2. CASE Input
      BY <3>2 DEF Input, Calls, game, start
    <3>3. CASE MenuFrame
      BY <3>3 DEF MenuFrame, Calls, game, start
    <3> QED BY <1>7, <3>1, <3>2, <3>3
  <2>3. idx # 0 /\ ~EndFrame
    BY <1>1, <2>2 DEF EndFrame
  <2> QED BY <1>1, <1>2, <2>1, <2>2, <2>3
<1>8. CASE Others
  <2>1. /\ idx \in DOMAIN seqFrame /\ idx' \in {idx, idx + 1} /\ UNCHANGED <<game, start>>
        /\ ev = 0
    BY <1>8, OthersAct, Between
  <2>2. idx # 0 /\ loading' = loading /\ ready' = ready /\ ~EndFrame
    BY <1>1, <2>1 DEF game, start, EndFrame
  <2> QED BY <1>1, <1>2, <2>1, <2>2
<1>9. CASE EventsDelivered
  <2>1. /\ idx' = idx + 1 /\ loading' = loading /\ ready' = ready /\ seqFrame' = seqFrame
        /\ idx \in DOMAIN seqFrame /\ seqFrame[idx][1] = "app" /\ idx # 0
    BY <1>1, <1>9 DEF EventsDelivered, Calls, game, start, shown
  <2>2. ASSUME NEW j \in DOMAIN seqFrame', j >= idx' PROVE seqFrame'[j][1] # "app"
    BY <1>1, <2>1, <2>2 DEF Lone
  <2> QED BY <1>1, <2>1, <2>2 DEF Walking
<1>10. ASSUME NEW e, Delivers(e), ~EndFrame, loading # <<>>,
              On(loading', "finalizer") => On(loading, "finalizer"),
              ready' = ready \/ ready' = FALSE
       PROVE  /\ ~ready' /\ ~On(loading', "finalizer")
              /\ \E i \in 1..ev' : deferred'[i] = "start"
  <2>1. /\ idx # 0 /\ idx \in DOMAIN seqFrame /\ seqFrame[idx][1] = "app" /\ idx >= idx
        /\ ev' = ev + 1 /\ deferred' = deferred /\ ev \in Nat
    BY <1>1, <1>10, Delivered DEF Types
  <2>2. ~ready /\ ~On(loading, "finalizer") /\ \E i \in 1..ev : deferred[i] = "start"
    BY <1>1, <1>10, <2>1 DEF Walking
  <2>3. \A i \in 1..ev : i \in 1..ev'
    BY <2>1
  <2> QED BY <1>10, <2>1, <2>2, <2>3
<1>11. CASE OnStart \/ OnDisconnect \/ OnQuit
  <2>1. ~EndFrame
    <3>1. Calls("app")
      BY <1>11 DEF OnStart, OnDisconnect, OnQuit, Delivers
    <3> QED BY <3>1, Between DEF EndFrame
  <2>2. CASE OnStart
    <3>1. Framed /\ Delivers("start") /\ ~ready'
      BY <1>1, <2>1, <2>2 DEF OnStart
    <3>2. ev' = ev + 1 /\ deferred' = deferred /\ deferred[ev'] = "start" /\ ev \in Nat
      BY <1>1, <3>1, Delivered DEF Types
    <3>3. ev' \in 1..ev'
      BY <3>2
    <3>4. ~On(loading', "finalizer")
      BY <1>1, <2>2, StartAppends
    <3> QED BY <3>1, <3>2, <3>3, <3>4
  <2>3. CASE OnDisconnect
    <3>1. /\ ready' = ready \/ ready' = FALSE
          /\ loading # <<>> /\ (On(loading', "finalizer") => On(loading, "finalizer"))
      BY <1>1, <2>3, DisconnectFramed, OrphanedIs DEF game, Types
    <3> QED BY <1>10, <2>1, <2>3, <3>1 DEF OnDisconnect
  <2>4. CASE OnQuit
    BY <1>10, <2>1, <2>4 DEF OnQuit, game, start
  <2> QED BY <1>11, <2>2, <2>3, <2>4
<1>12. CASE Ends
  BY <1>12, EndsIs
<1> QED BY <1>3, <1>4, <1>5, <1>6, <1>7, <1>8, <1>9, <1>11, <1>12 DEF Next, Turn, Others, Ends


LEMMA JoinedLine ==
  ASSUME NEW c \in Seq(Tasks), NEW t \in Seq(Tasks), Line(c), Line(t),
         \A i \in DOMAIN c : Order(c[i].fn) > 4 /\ c[i].fn # "finalizer",
         \A k \in DOMAIN t : Order(t[k].fn) > 4 /\ t[k].fn # "finalizer",
         \A i \in DOMAIN c, k \in DOMAIN t : Order(c[i].fn) < Order(t[k].fn)
  PROVE  Line(c \o t)
<1> DEFINE p == c \o t
<1>1. /\ \A i \in DOMAIN c : i \in DOMAIN p /\ p[i] = c[i]
      /\ \A k \in DOMAIN t : Len(c) + k \in DOMAIN p /\ p[Len(c) + k] = t[k]
      /\ \A i \in DOMAIN p : i \in DOMAIN c \/ \E k \in DOMAIN t : i = Len(c) + k
  BY Joined
<1>2. Len(c) \in Nat /\ DOMAIN c = 1..Len(c) /\ \A k \in DOMAIN t : k \in Nat /\ k >= 1
  OBVIOUS
<1>3. /\ \A i \in DOMAIN c : Order(c[i].fn) \in 1..13
      /\ \A k \in DOMAIN t : Order(t[k].fn) \in 1..13
  BY ItemsAre
<1> HIDE DEF p
<1>4. ASSUME NEW i \in DOMAIN p
      PROVE  Order(p[i].fn) \in 5..13 /\ p[i].fn # "finalizer" /\ p[i].lv \in Levels
  <2>1. CASE i \in DOMAIN c
    BY <1>1, <1>3, <2>1 DEF Line
  <2>2. CASE i \notin DOMAIN c
    <3>1. PICK k \in DOMAIN t : i = Len(c) + k
      BY <1>1, <2>2
    <3>2. p[i] = t[k]
      BY <1>1, <3>1
    <3> QED BY <1>3, <3>2 DEF Line
  <2> QED BY <2>1, <2>2
<1>5. ASSUME NEW i \in DOMAIN p, NEW j \in DOMAIN p, i < j
      PROVE  Order(p[i].fn) < Order(p[j].fn)
  <2>1. CASE j \in DOMAIN c
    <3>1. i \in DOMAIN c
      <4>1. \A k \in DOMAIN t : i # Len(c) + k
        BY <1>2, <1>5, <2>1
      <4> QED BY <1>1, <4>1
    <3> QED BY <1>1, <1>5, <2>1, <3>1 DEF Line
  <2>2. CASE j \notin DOMAIN c
    <3>1. PICK k \in DOMAIN t : j = Len(c) + k
      BY <1>1, <2>2
    <3>2. CASE i \in DOMAIN c
      BY <1>1, <3>1, <3>2
    <3>3. CASE i \notin DOMAIN c
      <4>1. PICK m \in DOMAIN t : i = Len(c) + m
        BY <1>1, <3>3
      <4>2. m < k
        BY <1>2, <1>5, <3>1, <4>1
      <4>3. Order(t[m].fn) < Order(t[k].fn)
        BY <4>2 DEF Line
      <4> QED BY <1>1, <3>1, <4>1, <4>3
    <3> QED BY <3>2, <3>3
  <2> QED BY <2>1, <2>2
<1>6. Line(p)
  <2>1. \A i, j \in DOMAIN p : ~(Order(p[i].fn) <= 4)
    BY <1>4
  <2> QED BY <1>4, <1>5, <2>1 DEF Line
<1> QED BY <1>6 DEF p

\* The steps of the client take the place of start4.
LEMMA ClientLine ==
  ASSUME NEW q \in Seq(Tasks), q # <<>>, Line(q), Head(q).fn = "start4", NEW lv \in Levels
  PROVE  LET p == Steps(lv, NetClient) \o Tail(q)
         IN /\ Line(p)
            /\ On(p, "start6") <=> On(q, "start6")
            /\ On(p, "client1") /\ On(p, "client6")
            /\ ~On(q, "client1") /\ ~On(q, "client6")
            /\ \A i \in DOMAIN p : p[i].lv = lv \/ (\E k \in DOMAIN q : p[i] = q[k])
<1> DEFINE c == Steps(lv, NetClient)
           t == Tail(q)
<1>1. /\ c \in Seq(Tasks) /\ DOMAIN c = 1..6
      /\ \A i \in 1..6 : c[i] = [fn |-> NetClient[i], lv |-> lv]
  BY StepsAre
<1>2. \A i \in 1..6 : c[i].fn = NetClient[i] /\ c[i].lv = lv
  BY <1>1
<1>3. /\ t \in Seq(Tasks) /\ Line(t) /\ 1 \in DOMAIN q /\ q[1].fn = "start4"
      /\ \A k \in DOMAIN t : k + 1 \in DOMAIN q /\ t[k] = q[k + 1] /\ Order(t[k].fn) > 4
      /\ \A f : On(t, f) <=> On(q, f) /\ f # "start4"
  <2>1. Order(Head(q).fn) = 4
    BY OrderIs
  <2> QED BY <2>1, TailLine
<1>4. \A k \in DOMAIN t : Len(q) # 1 /\ k + 1 \in DOMAIN q
  BY TailLine
<1> HIDE DEF c, t
<1>5. /\ NetClient[1] = "client1" /\ NetClient[2] = "client2" /\ NetClient[3] = "client3"
      /\ NetClient[4] = "client4" /\ NetClient[5] = "client5" /\ NetClient[6] = "client6"
  BY DEF NetClient
<1>6. \A i \in 1..6 : Order(c[i].fn) = 4 + i /\ c[i].fn \notin {"finalizer", "start6"}
  <2>1. \A i \in 1..6 : Order(NetClient[i]) = 4 + i /\ NetClient[i] \notin {"finalizer", "start6"}
    BY <1>5, OrderIs
  <2> QED BY <1>2, <2>1
<1>7. Line(c)
  <2>1. /\ \A i, k \in DOMAIN c : i < k => Order(c[i].fn) < Order(c[k].fn)
        /\ \A i \in DOMAIN c : ~(Order(c[i].fn) <= 4)
    BY <1>1, <1>6
  <2> QED BY <1>1, <1>2, <1>6, <2>1 DEF Line
<1>8. \A k \in DOMAIN q : q[k].fn \in Functions /\ Order(q[k].fn) \in 1..13 /\ Order(q[k].fn) \notin 5..10
  <2>1. Order(q[1].fn) <= 4
    BY <1>3, OrderIs
  <2>2. \A k \in DOMAIN q : q[k].fn \in Functions /\ Order(q[k].fn) \in 1..13
    BY ItemsAre
  <2> QED BY <1>3, <2>1, <2>2 DEF Line
<1>9. \A k \in DOMAIN t : Order(t[k].fn) > 10 /\ t[k].fn # "finalizer"
  <2> TAKE k \in DOMAIN t
  <2>1. k + 1 \in DOMAIN q /\ t[k] = q[k + 1] /\ Order(t[k].fn) > 4 /\ Len(q) # 1
    BY <1>3, <1>4
  <2>2. Order(t[k].fn) > 10
    BY <1>8, <2>1
  <2>3. t[k].fn # "finalizer"
    BY <2>1 DEF Line
  <2> QED BY <2>2, <2>3
<1>a. Line(c \o t)
  <2>1. \A i \in DOMAIN c : Order(c[i].fn) \in 5..10 /\ c[i].fn # "finalizer"
    BY <1>1, <1>6
  <2>2. \A k \in DOMAIN t : Order(t[k].fn) \in 11..13 /\ t[k].fn # "finalizer"
    BY <1>3, <1>8, <1>9, SMTT(30)
  <2>3. /\ \A i \in DOMAIN c : Order(c[i].fn) > 4 /\ c[i].fn # "finalizer"
        /\ \A k \in DOMAIN t : Order(t[k].fn) > 4 /\ t[k].fn # "finalizer"
        /\ \A i \in DOMAIN c, k \in DOMAIN t : Order(c[i].fn) < Order(t[k].fn)
    BY <2>1, <2>2
  <2> QED BY <1>1, <1>3, <1>7, <2>3, JoinedLine
<1>b. ~On(q, "client1") /\ ~On(q, "client6")
  BY <1>8, OrderIs DEF On
<1>c. On(c, "client1") /\ On(c, "client6") /\ ~On(c, "start6")
  <2>1. 1 \in DOMAIN c /\ 6 \in DOMAIN c /\ c[1].fn = "client1" /\ c[6].fn = "client6"
    BY <1>1, <1>2, <1>5
  <2> QED BY <1>1, <1>6, <2>1 DEF On
<1>d. \A f : On(c \o t, f) <=> On(c, f) \/ On(t, f)
  BY <1>1, <1>3, Joined
<1>e. ASSUME NEW i \in DOMAIN (c \o t)
      PROVE  (c \o t)[i].lv = lv \/ (\E k \in DOMAIN q : (c \o t)[i] = q[k])
  <2> DEFINE p == c \o t
  <2>1. c \in Seq(Tasks) /\ t \in Seq(Tasks)
    BY <1>1, <1>3
  <2>2. /\ \A j \in DOMAIN c : p[j] = c[j]
        /\ \A k \in DOMAIN t : p[Len(c) + k] = t[k]
        /\ i \in DOMAIN c \/ \E k \in DOMAIN t : i = Len(c) + k
    BY <1>e, <2>1, Joined
  <2> HIDE DEF p
  <2>3. CASE i \in DOMAIN c
    BY <1>1, <1>2, <2>2, <2>3 DEF p
  <2>4. CASE i \notin DOMAIN c
    <3>1. PICK k \in DOMAIN t : i = Len(c) + k
      BY <2>2, <2>4
    <3>2. p[i] = t[k]
      BY <2>2, <3>1
    <3> QED BY <1>3, <3>2 DEF p
  <2> QED BY <2>3, <2>4
<1>f. /\ On(c \o t, "start6") <=> On(q, "start6")
      /\ On(c \o t, "client1") /\ On(c \o t, "client6")
  BY <1>3, <1>c, <1>d
<1> QED BY <1>a, <1>b, <1>e, <1>f DEF c, t

\* The finalizer takes the place of start6, which is the last.
LEMMA FinalLine ==
  ASSUME NEW q \in Seq(Tasks), q # <<>>, Line(q), Head(q).fn = "start6"
  PROVE  LET p == Steps(NoLevel, <<"finalizer">>) \o Tail(q)
         IN /\ Line(p)
            /\ \A f \in {"start6", "client1", "client6"} : ~On(p, f) /\ (On(q, f) <=> f = "start6")
            /\ \A i \in DOMAIN p : p[i].fn = "finalizer"
<1> DEFINE c == Steps(NoLevel, <<"finalizer">>)
           t == Tail(q)
<1>1. /\ t \in Seq(Tasks) /\ 1 \in DOMAIN q /\ DOMAIN q = 1..Len(q) /\ Len(q) \in Nat
      /\ DOMAIN t = 1..(Len(q) - 1) /\ q[1].fn = "start6"
      /\ \A i \in DOMAIN t : i + 1 \in DOMAIN q /\ t[i] = q[i + 1] /\ Order(t[i].fn) > 12
  <2>1. Order(Head(q).fn) = 12
    BY OrderIs
  <2> QED BY <2>1, TailLine
<1> HIDE DEF t
<1>2. ASSUME NEW i \in DOMAIN t PROVE FALSE
  <2>1. i + 1 \in DOMAIN q /\ t[i] = q[i + 1] /\ Order(t[i].fn) > 12 /\ t[i] \in Tasks
    BY <1>1, <1>2
  <2>2. t[i].fn \in Functions /\ Order(t[i].fn) \in 1..13 /\ "finalizer" \in Functions
    BY <2>1, OrderIs DEF Tasks, Functions
  <2>3. Order(t[i].fn) = Order("finalizer")
    BY <2>1, <2>2, OrderIs
  <2>4. t[i].fn = "finalizer"
    BY <2>2, <2>3, OrderIs
  <2>5. Len(q) = 1
    BY <2>1, <2>4 DEF Line
  <2> QED BY <1>1, <1>2, <2>5
<1>3. t = <<>> /\ Len(q) = 1
  <2>1. 1 \notin DOMAIN t
    BY <1>2
  <2>2. Len(q) >= 1 /\ Len(q) \in Nat
    BY <1>1
  <2>3. Len(q) = 1
    BY <1>1, <2>1, <2>2
  <2>4. Len(t) = 0
    BY <1>1, <1>2
  <2> QED BY <1>1, <2>3, <2>4
<1>4. /\ c \in Seq(Tasks) /\ DOMAIN c = 1..1 /\ c[1] = [fn |-> "finalizer", lv |-> NoLevel]
  <2>1. NoLevel \in Levels \cup {NoLevel}
    OBVIOUS
  <2> QED BY <2>1, StepsAre
<1> HIDE DEF c
<1>5. c \o t = c
  BY <1>3, <1>4
<1>6. Len(c) = 1 /\ \A i \in DOMAIN c : i = 1 /\ c[i].fn = "finalizer" /\ c[i].lv = NoLevel
  BY <1>4
<1>7. Line(c)
  <2>1. Order("finalizer") = 13
    BY OrderIs
  <2> QED BY <1>6, <2>1 DEF Line
<1>8. \A f \in {"start6", "client1", "client6"} : ~On(c, f)
  BY <1>6 DEF On
<1>9. \A f : On(q, f) <=> f = "start6"
  BY <1>1, <1>3 DEF On
<1> QED BY <1>5, <1>6, <1>7, <1>8, <1>9 DEF t, c

LEMMA StartLine ==
  ASSUME NEW lv \in Levels
  PROVE  LET p == <<>> \o Steps(lv, NetStart)
         IN /\ Line(p) /\ p # <<>>
            /\ On(p, "start6") /\ ~On(p, "client1") /\ ~On(p, "client6")
            /\ \A i \in DOMAIN p : p[i].lv = lv
<1> DEFINE p == Steps(lv, NetStart)
<1>1. /\ p \in Seq(Tasks) /\ DOMAIN p = 1..6
      /\ \A i \in 1..6 : p[i] = [fn |-> NetStart[i], lv |-> lv]
  BY StepsAre
<1> HIDE DEF p
<1>2. <<>> \o p = p /\ p # <<>>
  <2>1. <<>> \o p = p
    BY <1>1
  <2>2. 1 \in DOMAIN p /\ DOMAIN <<>> = {}
    BY <1>1
  <2> QED BY <2>1, <2>2
<1>a. \A i \in 1..6 : p[i].fn = NetStart[i] /\ p[i].lv = lv
  BY <1>1
<1>3. /\ NetStart[1] = "start1" /\ NetStart[2] = "start2" /\ NetStart[3] = "start3"
      /\ NetStart[4] = "start4" /\ NetStart[5] = "start5" /\ NetStart[6] = "start6"
  BY DEF NetStart
<1>4. /\ Order(NetStart[1]) = 1 /\ Order(NetStart[2]) = 2 /\ Order(NetStart[3]) = 3
      /\ Order(NetStart[4]) = 4 /\ Order(NetStart[5]) = 11 /\ Order(NetStart[6]) = 12
  BY <1>3, OrderIs
<1>5. \A i, k \in 1..6 : i < k => Order(NetStart[i]) < Order(NetStart[k])
  BY <1>4
<1>6. \A k \in 1..6 : Order(NetStart[k]) \notin 5..10
  BY <1>4
<1>7. \A k \in 1..6 : NetStart[k] \notin {"finalizer", "client1", "client6"}
  BY <1>3
<1>8. Line(p)
  BY <1>1, <1>a, <1>5, <1>6, <1>7 DEF Line
<1>9. On(p, "start6") /\ ~On(p, "client1") /\ ~On(p, "client6")
  <2>1. 6 \in DOMAIN p /\ p[6].fn = "start6"
    BY <1>1, <1>3, <1>a
  <2> QED BY <1>1, <1>7, <1>a, <2>1 DEF On
<1>b. \A i \in DOMAIN p : p[i].lv = lv
  BY <1>1, <1>a
<1> QED BY <1>2, <1>8, <1>9, <1>b DEF p


\* The steps that are left, and the count, after a turn that loads.
LEMMA LoadTurnLine ==
  ASSUME IInv, LoadTurn
  PROVE  /\ Line(loading')
         /\ level' = level => Mine(loading)' \/ loading' = <<>>
         /\ loading' = Tail(loading) \/ UNCHANGED <<level, ready, shown>>
         /\ \A i \in DOMAIN loading' : Order(loading'[i].fn) <= 7 => ~ready'
<1>1. /\ loading \in Seq(Tasks) /\ loading # <<>> /\ Line(loading) /\ loading' \in Seq(Tasks)
      /\ Mine(loading) /\ Unready
      /\ \/ loading' = Tail(loading)
         \/ loading' = loading /\ NetClient3 /\ connected /\ NoLevelFound
         \/ loading' = Steps(level, NetClient) \o Tail(loading) /\ NetStart4
         \/ loading' = Steps(NoLevel, <<"finalizer">>) \o Tail(loading) /\ NetStart6
  <2>1. PICK f : Loading(f)
    BY DEF LoadTurn, NetStart1, NetStart2, NetStart4, NetStart6, NetOther, NetClient1,
         NetClient2, NetClient3, NetClient6, Finalizer
  <2>2. Mine(loading) /\ Line(loading) /\ loading \in Seq(Tasks)
    BY <2>1, LoadingLive
  <2> QED BY <2>2, LoadTurnLoading DEF IInv
<1>2. CASE loading' = Tail(loading)
  <2>1. /\ Line(loading') /\ DOMAIN loading' = 1..(Len(loading) - 1)
        /\ \A i \in DOMAIN loading' : /\ i + 1 \in DOMAIN loading /\ loading'[i] = loading[i + 1]
                                      /\ Order(loading'[i].fn) > Order(Head(loading).fn)
    BY <1>1, <1>2, TailLine
  <2>2. level' = level => Mine(loading)'
    BY <1>1, <2>1 DEF Mine
  <2>3. CASE Loading("client3")
    <3>1. Order(Head(loading).fn) = 7
      BY <2>3, OrderIs DEF Loading
    <3>2. \A i \in DOMAIN loading' : ~(Order(loading'[i].fn) <= 7)
      <4> TAKE i \in DOMAIN loading'
      <4>1. Order(loading'[i].fn) \in 1..13
        BY <1>1, ItemsAre
      <4> QED BY <2>1, <3>1, <4>1
    <3> QED BY <1>2, <2>1, <2>2, <3>2
  <2>4. CASE ~Loading("client3")
    <3>1. ready' = ready \/ ready' = FALSE
      BY <2>4 DEF LoadTurn, NetStart1, NetStart2, NetStart4, NetStart6, NetOther, NetClient1,
         NetClient2, NetClient3, NetClient6, Finalizer, NoMore
    <3> QED BY <1>1, <1>2, <2>1, <2>2, <3>1 DEF Unready
  <2> QED BY <2>3, <2>4
<1>3. CASE loading' = loading /\ NetClient3 /\ connected /\ NoLevelFound
  <2>1. UNCHANGED <<level, ready, shown, loading>>
    BY <1>3 DEF NetClient3, NoLevelFound
  <2> QED BY <1>1, <2>1 DEF Mine, Unready
<1>4. CASE loading' = Steps(level, NetClient) \o Tail(loading) /\ NetStart4
  <2>1. UNCHANGED <<level, ready, shown>> /\ Loading("start4") /\ "start4" # "finalizer"
    BY <1>4 DEF NetStart4
  <2>2. level \in Levels /\ Head(loading).fn = "start4" /\ ~ready
    BY <2>1, LoadingLive, OrderIs
  <2>3. /\ Line(loading')
        /\ \A i \in DOMAIN loading' :
             loading'[i].lv = level \/ (\E k \in DOMAIN loading : loading'[i] = loading[k])
    BY <1>1, <1>4, <2>2, ClientLine
  <2>4. Mine(loading)'
    BY <1>1, <2>1, <2>3 DEF Mine
  <2> QED BY <2>1, <2>2, <2>3, <2>4
<1>5. CASE loading' = Steps(NoLevel, <<"finalizer">>) \o Tail(loading) /\ NetStart6
  <2>1. UNCHANGED <<level, ready, shown>> /\ Loading("start6")
    BY <1>5 DEF NetStart6
  <2>2. Head(loading).fn = "start6"
    BY <2>1 DEF Loading
  <2>3. Line(loading') /\ \A i \in DOMAIN loading' : loading'[i].fn = "finalizer"
    BY <1>1, <1>5, <2>2, FinalLine
  <2>4. \A i \in DOMAIN loading' : ~(Order(loading'[i].fn) <= 7)
    BY <2>3, OrderIs
  <2> QED BY <2>1, <2>3, <2>4 DEF Mine
<1> QED BY <1>1, <1>2, <1>3, <1>4, <1>5

LEMMA LoadTurnLoaded ==
  ASSUME IInv, LoadTurn
  PROVE  Loaded'
<1>1. /\ loading \in Seq(Tasks) /\ loading # <<>> /\ Line(loading) /\ Types /\ Loaded /\ Types'
  BY LoadTurnLoading, TypesStep DEF IInv, Types, Next, Turn
<1>2. Agree(Loads) /\ Loads.ref = loadRef /\ loadRef \in Int
  BY <1>1, LoadsShape DEF Types
<1>3. /\ SetLoads(LoadEnd(Loads)) => loadRef' = loadRef - 1 /\ (appLoaded' <=> loadRef' <= 0)
      /\ SetLoads(LoadBegin(Loads)) => loadRef' = loadRef + 1 /\ (appLoaded' <=> loadRef' <= 0)
      /\ UNCHANGED load => loadRef' = loadRef /\ (appLoaded' <=> loadRef' <= 0)
  BY <1>1, <1>2, LoadsShape, LoadsAgree DEF load, Loaded
<1>4. \A f : One(f) \in {0, 1} /\ One(f)' \in {0, 1}
  BY DEF One
<1>5. loadRef <= One("start6") + One("client6") - One("client1")
  BY <1>1, LoadTurnLoading DEF Loaded
<1>6. ASSUME NEW f, Head(loading).fn = f, loading' = Tail(loading)
      PROVE  \A g : One(g)' = IF g = f THEN 0 ELSE One(g)
  <2> TAKE g
  <2>1. On(loading', g) <=> On(loading, g) /\ g # f
    BY <1>1, <1>6, TailLine
  <2> QED BY <2>1 DEF One
<1>7. ASSUME NEW f, Head(loading).fn = f PROVE One(f) = 1
  <2>1. 1 \in DOMAIN loading /\ loading[1].fn = f
    BY <1>1, <1>7, TailLine
  <2> QED BY <2>1 DEF One, On
<1>8. CASE NetStart1 \/ NetStart2 \/ NetOther \/ Finalizer \/ (NetClient3 /\ loading' = Tail(loading))
  <2>1. PICK f : /\ Head(loading).fn = f /\ loading' = Tail(loading)
                 /\ f \notin {"start6", "client1", "client6"}
    BY <1>8 DEF NetStart1, NetStart2, NetOther, Finalizer, NetClient3, Loading
  <2>2. SetLoads(LoadEnd(Loads)) \/ UNCHANGED load
    BY <1>8 DEF NetStart1, NetStart2, NetOther, Finalizer, NetClient3, NoLevelFound, Load
  <2>3. /\ One("start6")' = One("start6") /\ One("client1")' = One("client1")
        /\ One("client6")' = One("client6")
    BY <1>6, <2>1
  <2> QED BY <1>2, <1>3, <1>4, <1>5, <2>2, <2>3 DEF Loaded
<1>9. CASE NetClient3 /\ loading' = loading
  <2>1. SetLoads(LoadEnd(Loads)) \/ UNCHANGED load
    BY <1>9 DEF NetClient3, NoLevelFound, Load
  <2>2. \A f : One(f)' = One(f)
    BY <1>9 DEF One
  <2>3. /\ One("start6")' = One("start6") /\ One("client1")' = One("client1")
        /\ One("client6")' = One("client6")
    BY <2>2
  <2> QED BY <1>2, <1>3, <1>4, <1>5, <2>1, <2>3 DEF Loaded
<1>10. CASE NetClient1
  <2>1. Head(loading).fn = "client1" /\ loading' = Tail(loading) /\ SetLoads(LoadBegin(Loads))
    BY <1>10 DEF NetClient1, Loading
  <2>2. /\ One("start6")' = One("start6") /\ One("client1")' = 0 /\ One("client1") = 1
        /\ One("client6")' = One("client6")
    BY <1>6, <1>7, <2>1
  <2> QED BY <1>2, <1>3, <1>4, <1>5, <2>1, <2>2 DEF Loaded
<1>11. CASE NetClient2
  <2>1. Head(loading).fn = "client2" /\ loading' = Tail(loading) /\ UNCHANGED load
    BY <1>11 DEF NetClient2, Loading
  <2>2. /\ One("start6")' = One("start6") /\ One("client1")' = One("client1")
        /\ One("client6")' = One("client6")
    BY <1>6, <2>1
  <2> QED BY <1>2, <1>3, <1>4, <1>5, <2>1, <2>2 DEF Loaded
<1>12. CASE NetClient6
  <2>1. Head(loading).fn = "client6" /\ loading' = Tail(loading) /\ SetLoads(LoadEnd(Loads))
    BY <1>12 DEF NetClient6, Loading
  <2>2. /\ One("start6")' = One("start6") /\ One("client1")' = One("client1")
        /\ One("client6")' = 0 /\ One("client6") = 1
    BY <1>6, <1>7, <2>1
  <2> QED BY <1>2, <1>3, <1>4, <1>5, <2>1, <2>2 DEF Loaded
<1>13. CASE NetStart4
  <2>1. Loading("start4") /\ "start4" # "finalizer" /\ Head(loading).fn = "start4" /\ UNCHANGED load
    BY <1>13 DEF NetStart4, Loading
  <2>2. level \in Levels
    BY <2>1, LoadingLive
  <2>3. /\ One("start6")' = One("start6")
        /\ One("client6")' - One("client1")' = One("client6") - One("client1")
    <3>1. CASE loading' = Tail(loading)
      <4>1. /\ One("start6")' = One("start6") /\ One("client1")' = One("client1")
            /\ One("client6")' = One("client6")
        BY <1>6, <2>1, <3>1
      <4> QED BY <4>1
    <3>2. CASE loading' = Steps(level, NetClient) \o Tail(loading)
      <4>1. /\ On(loading', "start6") <=> On(loading, "start6")
            /\ On(loading', "client1") /\ On(loading', "client6")
            /\ ~On(loading, "client1") /\ ~On(loading, "client6")
        BY <1>1, <2>1, <2>2, <3>2, ClientLine
      <4>2. /\ One("start6")' = One("start6") /\ One("client1")' = 1 /\ One("client6")' = 1
            /\ One("client1") = 0 /\ One("client6") = 0
        BY <4>1 DEF One
      <4> QED BY <4>2
    <3>3. \/ loading' = Tail(loading)
          \/ loading' = Steps(level, NetClient) \o Tail(loading)
      <4>1. ~NetClient3 /\ ~NetStart6
        BY <2>1 DEF NetClient3, NetStart6, Loading
      <4> QED BY <4>1, LoadTurnLoading
    <3> QED BY <3>1, <3>2, <3>3
  <2> QED BY <1>2, <1>3, <1>4, <1>5, <2>1, <2>3 DEF Loaded
<1>14. CASE NetStart6
  <2>1. /\ Head(loading).fn = "start6" /\ SetLoads(LoadEnd(Loads))
        /\ loading' = Steps(NoLevel, <<"finalizer">>) \o Tail(loading)
    BY <1>14 DEF NetStart6, Loading
  <2>2. /\ ~On(loading', "start6") /\ ~On(loading', "client1") /\ ~On(loading', "client6")
        /\ On(loading, "start6") /\ ~On(loading, "client1") /\ ~On(loading, "client6")
    BY <1>1, <2>1, FinalLine
  <2>3. /\ One("start6")' = 0 /\ One("client1")' = 0 /\ One("client6")' = 0
        /\ One("start6") = 1 /\ One("client1") = 0 /\ One("client6") = 0
    BY <2>2 DEF One
  <2> QED BY <1>2, <1>3, <1>5, <2>1, <2>3 DEF Loaded
<1>15. NetClient3 => loading' = loading \/ loading' = Tail(loading)
  BY DEF NetClient3, NoLevelFound, Load
<1> QED BY <1>8, <1>9, <1>10, <1>11, <1>12, <1>13, <1>14, <1>15 DEF LoadTurn


\* A new level: the screen is loading, and the menu makes room, unless the program ends.
LEMMA StartLoading ==
  ASSUME IInv, OnStart
  PROVE  Ordered' /\ ready' = FALSE /\ Live' /\ Loaded'
<1>1. /\ Types /\ Types' /\ Framed /\ Delivering /\ Queue /\ Loaded
  <2>1. ~EndFrame
    BY Between DEF OnStart, Delivers, EndFrame
  <2> QED BY <2>1, TypesStep DEF Next, Turn, IInv
<1>2. /\ Delivers("start") /\ level' \in Levels /\ ready' = FALSE /\ UNCHANGED <<shot, quit>>
      /\ Show(Activate(FALSE, NoLevel, Shown))
      /\ loading' = loading \o Steps(level', NetStart)
      /\ SetLoads(LoadEnd(LoadBegin(LoadBegin(Loads))))
  BY DEF OnStart
<1>3. loading # <<>> => Lost'
  BY StartAppends
<1>4. loading = <<>> =>
        /\ Line(loading') /\ On(loading', "start6")
        /\ ~On(loading', "client1") /\ ~On(loading', "client6")
        /\ \A i \in DOMAIN loading' : loading'[i].lv = level'
  BY <1>2, StartLine
<1>5. Loaded'
  <2>1. loadRef' = loadRef + 1 /\ (appLoaded' <=> loadRef' <= 0)
    <3> DEFINE a == LoadBegin(Loads)
               b == LoadBegin(a)
               c == LoadEnd(b)
    <3>1. Agree(Loads) /\ Loads.ref = loadRef
      BY <1>1, LoadsShape
    <3>2. Agree(a) /\ a.ref = loadRef + 1
      BY <3>1, LoadsAgree
    <3> HIDE DEF a
    <3>3. Agree(b) /\ b.ref = a.ref + 1
      BY <3>2, LoadsAgree
    <3> HIDE DEF b
    <3>4. Agree(c) /\ c.ref = b.ref - 1
      BY <3>3, LoadsAgree
    <3> HIDE DEF c
    <3>5. SetLoads(c)
      BY <1>2 DEF a, b, c
    <3> QED BY <1>1, <3>2, <3>3, <3>4, <3>5, LoadsShape DEF Types
  <2>2. CASE loading = <<>>
    <3>1. One("start6") = 0 /\ One("client6") = 0 /\ One("client1") = 0 /\ ~Lost
      BY <2>2 DEF One, On, Lost
    <3>2. One("start6")' = 1 /\ One("client6")' = 0 /\ One("client1")' = 0
      BY <1>4, <2>2 DEF One
    <3> QED BY <1>1, <2>1, <3>1, <3>2 DEF Loaded, Types
  <2> QED BY <1>3, <2>1, <2>2 DEF Loaded
<1>6. ASSUME loading = <<>> PROVE Live'
  <2> USE <1>6
  <2>0. Mine(loading)'
    BY <1>4 DEF Mine
  <2>1. /\ ev' = ev + 1 /\ deferred' = deferred /\ ev' \in DOMAIN deferred
        /\ deferred[ev'] = "start" /\ Calls("app")' /\ ev \in Nat
    BY <1>1, <1>2, Delivered DEF Types
  <2>2. CASE Blocked
    <3>1. deferred # <<>>
      BY <2>1
    <3>2. Waiting("quit")
      BY <1>1, <2>2, <3>1 DEF Queue
    <3>3. PICK k \in DOMAIN deferred : deferred[k] = "quit"
      BY <3>2 DEF Waiting
    <3>4. CASE k <= ev
      <4>1. k \in 1..ev
        BY <1>1, <2>1, <3>4 DEF Types
      <4>2. quit
        BY <1>1, <3>3, <4>1 DEF Delivering
      <4> QED BY <1>2, <2>0, <4>2 DEF Live
    <3>5. CASE ~(k <= ev)
      <4>1. k > ev'
        BY <1>1, <2>1, <3>3, <3>5 DEF Types
      <4> QED BY <2>0, <2>1, <3>3, <4>1 DEF Live, Coming
    <3> QED BY <3>4, <3>5
  <2>3. CASE ~Blocked
    <3>1. ~flActive'
      BY <1>1, <1>2, <2>3, StartFramed
    <3>2. ~Blocked'
      BY <1>2, <2>3 DEF Blocked, shot
    <3> QED BY <2>0, <3>1, <3>2 DEF Live
  <2> QED BY <2>2, <2>3
<1>7. Live' /\ Ordered'
  BY <1>3, <1>4, <1>6 DEF Live, Ordered
<1> QED BY <1>2, <1>5, <1>7

LEMMA LoadingStep ==
  ASSUME IInv, Next
  PROVE  Ordered' /\ Unready' /\ Live' /\ Loaded'
<1>1. /\ Types /\ Types' /\ (Framed \/ EndFrame) /\ Walking /\ Ordered /\ Unready
      /\ Live /\ Loaded /\ Queue
  BY TypesStep DEF IInv
<1>2. ASSUME loading' = loading, ready' = ready \/ ready' = FALSE, UNCHANGED load
      PROVE  Ordered' /\ Unready' /\ Loaded'
  <2>1. Ordered'
    BY <1>1, <1>2 DEF Ordered, Lost
  <2>2. Unready'
    BY <1>1, <1>2 DEF Unready
  <2>3. Loaded'
    BY <1>1, <1>2 DEF Loaded, One, load, Lost
  <2> QED BY <2>1, <2>2, <2>3
\* What no delivery is behind.
<1>3. ASSUME loading' = loading, ~Coming, quit' = quit, level' = level,
             loading # <<>> /\ ~Blocked /\ ~flActive => ~Blocked' /\ ~flActive'
      PROVE  Live'
  BY <1>1, <1>3 DEF Live, Mine, Lost
<1>4. CASE LoadTurn
  <2>1. Ordered' /\ Unready'
    BY <1>4, LoadTurnLine DEF Ordered, Unready
  <2>2. Loaded'
    BY <1>4, LoadTurnLoaded
  <2>3. Live'
    <3>1. PICK f : Loading(f)
      BY <1>4 DEF LoadTurn, NetStart1, NetStart2, NetStart4, NetStart6, NetOther, NetClient1,
           NetClient2, NetClient3, NetClient6, Finalizer
    <3>2. ~Blocked' /\ ~flActive
      BY <1>4, <3>1, LoadingLive, LoadTurnLoading DEF Blocked, shot
    <3>3. CASE Finalizer
      <4>1. Head(loading).fn = "finalizer" /\ loading \in Seq(Tasks) /\ loading # <<>>
            /\ loading' = Tail(loading)
        BY <3>3, LoadingLive DEF Finalizer, Loading
      <4>2. 1 \in DOMAIN loading /\ loading[1].fn = "finalizer"
        BY <1>1, <1>4, <4>1, LoadTurnLoading, TailLine
      <4>3. Len(loading) = 1
        BY <1>4, <4>2, LoadTurnLoading DEF Line
      <4>4. loading' = <<>>
        BY <4>1, <4>3
      <4> QED BY <4>4 DEF Live
    <3>4. CASE ~Finalizer
      <4>1. level' = level
        BY <1>4, <3>4 DEF LoadTurn, NetStart1, NetStart2, NetStart4, NetStart6, NetOther,
           NetClient1, NetClient2, NetClient3, NetClient6
      <4>2. flActive' = flActive
        <5>1. CASE NetClient3 /\ Load
          <6>1. level \in Levels
            <7>1. Loading("client3") /\ "client3" # "finalizer"
              BY <5>1 DEF NetClient3
            <7> QED BY <7>1, LoadingLive
          <6> QED BY <1>1, <5>1, <6>1, AddedFramed DEF Load
        <5>2. CASE ~(NetClient3 /\ Load)
          BY <1>4, <3>4, <5>2 DEF LoadTurn, NetStart1, NetStart2, NetStart4, NetStart6, NetOther,
             NetClient1, NetClient2, NetClient3, NetClient6, NoLevelFound, shown
        <5> QED BY <5>1, <5>2
      <4>3. Mine(loading)' \/ loading' = <<>>
        BY <1>4, <4>1, LoadTurnLine
      <4> QED BY <3>2, <4>2, <4>3 DEF Live
    <3> QED BY <3>3, <3>4
  <2> QED BY <2>1, <2>2, <2>3
<1>5. CASE OnStart
  BY <1>5, StartLoading DEF Unready
<1>6. CASE BeginFrame
  <2>1. loading = <<>> /\ UNCHANGED <<game, start, load>>
    BY <1>6 DEF BeginFrame
  <2>2. Live'
    BY <2>1 DEF Live, start
  <2> QED BY <1>2, <2>1, <2>2 DEF game, start
<1>7. CASE Skip \/ Input \/ EndFrame
  <2>1. ~Coming
    BY <1>7, Between DEF EndFrame
  <2>2. UNCHANGED <<flActive, game, start, load, shot, quit>>
    BY <1>7 DEF Skip, Input, EndFrame, shown
  <2> QED BY <1>2, <1>3, <2>1, <2>2 DEF game, start, shot, Blocked
<1>8. CASE MenuFrame
  <2>1. ~Coming
    BY <1>8, Between
  <2>2. UNCHANGED <<flActive, game, start, load, dist, quit>> /\ (pending' => pending)
    <3>1. UNCHANGED <<game, start, load, dist, quit>>
      BY <1>8 DEF MenuFrame
    <3>2. flActive' = flActive /\ (pending' => pending)
      BY <1>1, <1>8, MenuFramed DEF Types
    <3> QED BY <3>1, <3>2
  <2> QED BY <1>2, <1>3, <2>1, <2>2 DEF game, start, Blocked
<1>9. CASE Others
  <2>1. /\ ~Coming /\ UNCHANGED <<game, start, load, quit>> /\ Acts
        /\ idx # 0 /\ idx \in DOMAIN seqFrame /\ ev = 0
    BY <1>1, <1>9, Between, OthersAct DEF Types
  <2>2. loading # <<>> => ~ready
    BY <1>1, <2>1 DEF Walking
  <2>3. loading # <<>> => UNCHANGED <<shown, shot>>
    BY <2>1, <2>2, DeferIs DEF Acts, Idle, Screenshot
  <2> QED BY <1>2, <1>3, <2>1, <2>3 DEF game, start, shot, shown, Blocked
<1>10. CASE OnDisconnect
  <2>1. UNCHANGED load /\ idx # 0
    BY <1>1, <1>10 DEF OnDisconnect, Delivers, Calls, Types
  <2>2. CASE level = NoLevel /\ UNCHANGED <<game, loading>>
    <3>1. loading # <<>> => Lost'
      BY <2>1, <2>2, NoneLost DEF Lost
    <3> QED BY <1>2, <2>1, <2>2, <3>1 DEF Live, game
  <2>3. CASE loading' = Orphaned(loading) /\ ready' = FALSE
    <3>1. CASE loading = <<>>
      <4>1. loading' = loading
        BY <1>1, <2>3, <3>1, OrphanedIs DEF Types
      <4> QED BY <1>2, <2>1, <2>3, <3>1, <4>1 DEF Live
    <3>2. CASE loading # <<>>
      <4>1. Lost'
        BY <1>1, <2>1, <2>3, <3>2, LosesSteps
      <4> QED BY <1>1, <2>1, <2>3, <4>1 DEF Ordered, Unready, Live, Loaded, load
    <3> QED BY <3>1, <3>2
  <2> QED BY <1>10, <2>2, <2>3, DisconnectFramed
<1>11. CASE OnQuit
  <2>1. quit' /\ UNCHANGED <<game, start, load>>
    BY <1>11 DEF OnQuit
  <2> QED BY <1>1, <1>2, <2>1 DEF Live, Lost, Mine, game, start
<1>12. CASE EventsDelivered
  <2>1. ~Coming
    BY <1>1, <1>12 DEF EventsDelivered, Coming, Types
  <2>2. UNCHANGED <<shown, game, start, load, shot, quit>>
    BY <1>12 DEF EventsDelivered
  <2> QED BY <1>2, <1>3, <2>1, <2>2 DEF game, start, shot, shown, Blocked
<1>13. CASE Quitted
  <2>1. quit /\ UNCHANGED <<game, start, load, quit>>
    BY <1>13 DEF Quitted, vars
  <2> QED BY <1>1, <1>2, <2>1 DEF Live, Lost, Mine, game, start
<1>14. CASE Ends
  <2>1. quit' /\ UNCHANGED <<game, start, load>>
    BY <1>14, EndsIs
  <2> QED BY <1>1, <1>2, <2>1 DEF Live, Lost, Mine, game, start
<1> QED BY <1>4, <1>5, <1>6, <1>7, <1>8, <1>9, <1>10, <1>11, <1>12, <1>13, <1>14
    DEF Next, Turn, Others, Ends


LEMMA MenuStep ==
  ASSUME IInv, Next
  PROVE  Menu'
<1>1. /\ Types /\ Types' /\ (Framed \/ EndFrame) /\ Menu /\ Queue /\ Delivering
      /\ NoLevel \notin Levels
  BY TypesStep, LevelLifeAssumption DEF IInv
<1>2. ASSUME ev' = ev, deferred' = deferred, quit' = quit, level' = level,
             flActive' = flActive \/ level # NoLevel, Lost => Lost'
      PROVE  Menu'
  BY <1>1, <1>2 DEF Menu
<1>3. CASE OnStart
  BY <1>1, <1>3 DEF OnStart, Menu
<1>4. CASE OnQuit
  BY <1>4 DEF OnQuit, Menu
<1>5. CASE EventsDelivered
  <2>1. /\ deferred' = <<>> /\ ev = Len(deferred) /\ UNCHANGED <<flActive, level, loading, quit>>
    BY <1>5 DEF EventsDelivered, shown, game, start
  <2>2. \A i \in DOMAIN deferred : ~(i > ev)
    BY <1>1, <2>1 DEF Types
  <2> QED BY <1>1, <2>1, <2>2 DEF Menu, Lost
<1>6. CASE BeginFrame \/ Skip \/ Input \/ EndFrame \/ Quitted
  <2>1. UNCHANGED <<flActive, level, loading, ev, deferred, quit>>
    BY <1>6 DEF BeginFrame, Skip, Input, EndFrame, Quitted, vars, shown, game, start, events
  <2> QED BY <1>2, <2>1 DEF Lost
<1>7. CASE MenuFrame
  <2>1. UNCHANGED <<flActive, level, loading, ev, deferred, quit>>
    <3>1. UNCHANGED <<level, loading, ev, deferred, quit>>
      BY <1>7 DEF MenuFrame, game, start, events
    <3> QED BY <1>7, <3>1, MenuFramed
  <2> QED BY <1>2, <2>1 DEF Lost
<1>8. CASE Others
  <2>1. /\ UNCHANGED <<level, loading, ev, quit>> /\ Acts
    BY <1>8, OthersAct DEF game, start
  <2>2. CASE \E es \in {<<"disconnect">>, <<"start">>, Reconnect, AltF4} : Defer(es)
    <3>1. /\ flActive' = flActive /\ DOMAIN deferred \subseteq DOMAIN deferred'
          /\ \A i \in DOMAIN deferred : deferred'[i] = deferred[i]
      BY <2>2, DeferIs DEF shown
    <3> QED BY <1>1, <2>1, <3>1 DEF Menu, Lost
  <2>3. CASE Idle \/ Screenshot \/ (level # NoLevel /\ UNCHANGED deferred)
    <3>1. deferred' = deferred /\ (flActive' = flActive \/ level # NoLevel)
      BY <2>3, ScreenshotFramed DEF Idle, shown
    <3> QED BY <1>2, <2>1, <3>1 DEF Lost
  <2> QED BY <2>1, <2>2, <2>3 DEF Acts
<1>9. CASE OnDisconnect
  <2>1. /\ Framed /\ quit' = quit
        /\ \/ level = NoLevel /\ UNCHANGED <<shown, game, loading>>
           \/ /\ level \in Levels /\ loading' = Orphaned(loading)
              /\ Waiting("quit") \/ Waiting("start") \/ flActive' \/ Blocked
    BY <1>9, DisconnectFramed DEF OnDisconnect
  <2>2. /\ ev' = ev + 1 /\ deferred' = deferred /\ ev' \in DOMAIN deferred
        /\ deferred[ev'] = "disconnect" /\ ev \in Nat
    BY <1>1, <1>9, <2>1, Delivered DEF OnDisconnect, Types
  <2>3. CASE level = NoLevel /\ UNCHANGED <<shown, game, loading>>
    <3> SUFFICES ASSUME ~flActive', ~quit', ~Lost'
                 PROVE  \E i \in DOMAIN deferred' : i > ev' /\ deferred'[i] \in {"start", "quit"}
      BY DEF Menu
    <3>1. PICK i \in DOMAIN deferred : i > ev /\ deferred[i] \in {"start", "quit"}
      BY <1>1, <2>1, <2>3 DEF Menu, Lost, shown
    <3>2. i > ev'
      BY <1>1, <2>2, <3>1 DEF Types
    <3> QED BY <2>2, <3>1, <3>2
  <2>4. CASE flActive'
    BY <2>4 DEF Menu
  <2>5. ASSUME NEW k \in DOMAIN deferred, deferred[k] = "quit" PROVE Menu'
    <3>1. CASE k <= ev
      <4>1. k \in 1..ev
        BY <1>1, <2>2, <3>1 DEF Types
      <4> QED BY <1>1, <2>1, <2>5, <4>1 DEF Delivering, Menu
    <3>2. CASE ~(k <= ev)
      <4>1. k > ev'
        BY <1>1, <2>2, <2>5, <3>2 DEF Types
      <4> QED BY <2>2, <2>5, <4>1 DEF Menu
    <3> QED BY <3>1, <3>2
  <2>6. CASE Waiting("start") /\ loading' = Orphaned(loading)
    <3>1. PICK k \in DOMAIN deferred : deferred[k] = "start"
      BY <2>6 DEF Waiting
    <3>2. CASE k < ev'
      <4>1. k \in 1..ev
        BY <1>1, <2>2, <3>1, <3>2 DEF Types
      <4>2. loading # <<>> /\ idx # 0 /\ Walking
        BY <1>1, <1>9, <3>1, <4>1 DEF Delivering, OnDisconnect, Delivers, Calls, Types, IInv
      <4>3. Lost'
        BY <1>1, <2>6, <4>2, LosesSteps
      <4> QED BY <4>3 DEF Menu
    <3>3. CASE ~(k < ev')
      <4>1. k > ev'
        BY <1>1, <2>2, <3>1, <3>3 DEF Types
      <4> QED BY <2>2, <3>1, <4>1 DEF Menu
    <3> QED BY <3>2, <3>3
  <2>7. CASE Waiting("quit") \/ Blocked
    <3>1. deferred # <<>>
      BY <2>2
    <3>2. Waiting("quit")
      BY <1>1, <2>7, <3>1 DEF Queue
    <3> QED BY <2>5, <3>2 DEF Waiting
  <2> QED BY <2>1, <2>3, <2>4, <2>6, <2>7
<1>10. CASE LoadTurn
  <2>1. /\ UNCHANGED <<events, quit>>
    BY <1>10, LoadTurnLoading
  <2>2. CASE Finalizer /\ level # NoLevel /\ ~total
    <3>1. Loading("finalizer") /\ level \in Levels /\ Show(Activate(TRUE, NoLevel, Delete(Shown)))
      BY <1>1, <2>2 DEF Finalizer, Types
    <3>2. flActive'
      BY <1>1, <3>1, DeleteFramed, LoadingLive
    <3> QED BY <3>2 DEF Menu
  <2>3. CASE NetClient3 /\ Load
    <3>1. level \in Levels
      <4>1. Loading("client3") /\ "client3" # "finalizer"
        BY <2>3 DEF NetClient3
      <4> QED BY <4>1, LoadingLive
    <3>2. level' = level
      BY <2>3 DEF NetClient3
    <3> QED BY <1>1, <3>1, <3>2 DEF Menu
  <2>4. CASE UNCHANGED <<shown, level>>
    BY <1>2, <1>10, <2>1, <2>4, LoadTurnLoading DEF shown, events
  <2>5. \/ Finalizer /\ level # NoLevel /\ ~total
        \/ NetClient3 /\ Load
        \/ UNCHANGED <<shown, level>>
    BY <1>10 DEF LoadTurn, NetStart1, NetStart2, NetStart4, NetStart6, NetOther, NetClient1,
         NetClient2, NetClient3, NetClient6, Finalizer, NoLevelFound
  <2> QED BY <2>2, <2>3, <2>4, <2>5
<1>11. CASE Ends
  BY <1>11, EndsIs DEF Menu
<1> QED BY <1>3, <1>4, <1>5, <1>6, <1>7, <1>8, <1>9, <1>10, <1>11 DEF Next, Turn, Others, Ends

LEMMA ListedStep ==
  ASSUME IInv, Next
  PROVE  OnList'
<1>1. /\ Types /\ Types' /\ (Framed \/ EndFrame) /\ OnList
      /\ NoLevel \notin Levels
  BY TypesStep, LevelLifeAssumption DEF IInv
<1>2. \A x \in Levels : Count(seqFrame, x) \in Nat /\ Count(seqRender, x) \in Nat
  BY <1>1, CountIs DEF Types
<1>3. ASSUME UNCHANGED <<flActive, game, pending>>,
             \A x \in Levels : /\ Count(seqFrame', x) = Count(seqFrame, x)
                               /\ Count(seqRender', x) = Count(seqRender, x)
      PROVE  OnList'
  BY <1>1, <1>3 DEF OnList, game
\* The level that was up is gone, from the lists too.
<1>4. ASSUME ready' = FALSE,
             \A x \in Levels :
               /\ Count(seqFrame', x) = IF x = level THEN 0 ELSE Count(seqFrame, x)
               /\ Count(seqRender', x) = IF x = level THEN 0 ELSE Count(seqRender, x)
      PROVE  OnList'
  BY <1>1, <1>4 DEF OnList
<1>5. CASE BeginFrame \/ Skip \/ Input \/ Quitted \/ OnQuit \/ EventsDelivered \/ Ends
  <2>1. UNCHANGED <<shown, game, pending>>
    BY <1>5, EndsIs DEF BeginFrame, Skip, Input, Quitted, OnQuit, EventsDelivered, vars, shot
  <2> QED BY <1>3, <2>1 DEF shown
<1>6. CASE EndFrame
  <2>1. \A x \in Levels : Count(seqFrame', x) = Count(seqFrame, x)
    BY <1>1, <1>6, ResortCount DEF EndFrame, Types
  <2> QED BY <1>3, <1>6, <2>1 DEF EndFrame, shot
<1>7. CASE OnStart
  <2>1. ready' = FALSE /\ level = NoLevel
    BY <1>7 DEF OnStart
  <2>2. \A x \in Levels : /\ Count(seqFrame', x) = Count(seqFrame, x)
                          /\ Count(seqRender', x) = Count(seqRender, x)
    BY <1>1, <1>7, StartFramed DEF OnStart
  <2>3. \A x \in Levels : x # level
    BY <1>1, <2>1
  <2> QED BY <1>4, <2>1, <2>2, <2>3
<1>8. CASE OnDisconnect
  <2>1. CASE level = NoLevel /\ UNCHANGED <<shown, game>>
    <3>1. pending' = pending
      BY <1>8 DEF OnDisconnect, shot
    <3> QED BY <1>3, <2>1, <3>1 DEF shown
  <2>2. CASE /\ ready' = FALSE
             /\ \A x \in Levels :
                  /\ Count(seqFrame', x) = IF x = level THEN 0 ELSE Count(seqFrame, x)
                  /\ Count(seqRender', x) = IF x = level THEN 0 ELSE Count(seqRender, x)
    BY <1>4, <2>2
  <2> QED BY <1>8, <2>1, <2>2, DisconnectFramed
<1>9. CASE MenuFrame
  <2>1. UNCHANGED game /\ flActive' = flActive
    BY <1>9, MenuFramed DEF MenuFrame
  <2>2. CASE UNCHANGED <<pending, shown>>
    BY <1>3, <2>1, <2>2 DEF shown
  <2>3. CASE pending /\ pending' = FALSE /\ (~flActive \/ level = NoLevel) /\ UNCHANGED shown
    BY <1>1, <2>1, <2>3 DEF OnList, game, shown
  <2>4. CASE /\ pending /\ pending' = FALSE /\ flActive /\ level \in Levels
             /\ \A x \in Levels :
                  /\ Count(seqFrame', x) = IF x = level THEN 0 ELSE Count(seqFrame, x)
                  /\ Count(seqRender', x) = IF x = level THEN 0 ELSE Count(seqRender, x)
    BY <1>1, <2>1, <2>4 DEF OnList, game
  <2> QED BY <1>9, <2>2, <2>3, <2>4, MenuFramed
<1>10. CASE Others
  <2>1. UNCHANGED game /\ Acts
    BY <1>10, OthersAct
  <2>2. CASE Idle \/ \E es \in {<<"disconnect">>, <<"start">>, Reconnect, AltF4} : Defer(es)
    <3>1. UNCHANGED <<shown, shot>>
      BY <2>2, DeferIs DEF Idle
    <3> QED BY <1>3, <2>1, <3>1 DEF shown, shot
  <2>3. CASE Screenshot
    <3>1. ~(pending /\ flActive)
      BY <2>3 DEF Screenshot
    <3>2. /\ level \in Levels /\ ready /\ single /\ pending' = TRUE /\ flActive' = flActive
          /\ \A x \in Levels :
               /\ Count(seqFrame', x) = IF flActive /\ x = level THEN Count(seqFrame, x) + 1
                                                                  ELSE Count(seqFrame, x)
               /\ Count(seqRender', x) = IF flActive /\ x = level THEN Count(seqRender, x) + 1
                                                                   ELSE Count(seqRender, x)
      BY <2>3, ScreenshotFramed
    <3> QED BY <1>1, <1>2, <2>1, <3>1, <3>2 DEF OnList, game
  <2>4. CASE /\ level # NoLevel /\ ready /\ Show(Activate(~flActive, level, Shown))
             /\ UNCHANGED <<shot, deferred>>
    <3>1. level \in Levels /\ pending' = pending
      BY <1>1, <2>4 DEF Types, shot
    <3>2. CASE UNCHANGED shown
      BY <1>3, <2>1, <3>1, <3>2 DEF shown
    <3>3. CASE /\ ~Blocked /\ flActive' = ~flActive
               /\ \A x \in Levels :
                    /\ Count(seqFrame', x) =
                         IF x = level /\ single
                           THEN IF flActive THEN Count(seqFrame, x) + 1 ELSE 0
                           ELSE Count(seqFrame, x)
                    /\ Count(seqRender', x) =
                         IF x = level
                           THEN IF flActive THEN Count(seqRender, x) + 1 ELSE 0
                           ELSE Count(seqRender, x)
      <4>1. ~pending
        BY <3>3 DEF Blocked
      <4>2. ready' /\ level' = level /\ single' = single /\ ~pending' /\ ready
        BY <2>1, <2>4, <3>1, <4>1 DEF game
      <4>3. \A x \in Levels :
              /\ Count(seqFrame, x) = IF x = level /\ (~flActive \/ ~single) THEN 1 ELSE 0
              /\ Count(seqRender, x) = IF x = level /\ ~flActive THEN 1 ELSE 0
        BY <1>1, <4>1, <4>2 DEF OnList
      <4>4. \A x \in Levels :
              /\ Count(seqFrame', x) = IF x = level /\ (flActive \/ ~single) THEN 1 ELSE 0
              /\ Count(seqRender', x) = IF x = level /\ flActive THEN 1 ELSE 0
        BY <3>3, <4>3
      <4> QED BY <1>1, <3>1, <3>3, <4>2, <4>4 DEF OnList
    <3> QED BY <2>4, <3>1, <3>2, <3>3, KeyFramed
  <2> QED BY <2>1, <2>2, <2>3, <2>4 DEF Acts
<1>11. CASE LoadTurn
  <2>1. /\ UNCHANGED <<single, pending>>
    BY <1>11, LoadTurnLoading DEF shot
  <2>2. CASE Finalizer /\ level # NoLevel /\ ~total
    <3>1. level \in Levels /\ Show(Activate(TRUE, NoLevel, Delete(Shown))) /\ ready' = FALSE
      BY <1>1, <2>2 DEF Finalizer, Types, NoMore
    <3> QED BY <1>1, <1>4, <3>1, DeleteFramed
  <2>3. CASE NetClient3 /\ Load
    <3>1. Loading("client3") /\ "client3" # "finalizer" /\ Order("client3") <= 7
      BY <2>3, OrderIs DEF NetClient3
    <3>2. level \in Levels /\ ~ready /\ ~pending /\ ~flActive
      BY <3>1, LoadingLive
    <3>3. level' = level /\ ready' = TRUE /\ Show(AddLevel(level, TRUE, Shown))
      BY <2>3 DEF NetClient3, Load
    <3>4. /\ flActive' = flActive
          /\ \A x \in Levels :
              /\ Count(seqFrame', x) = IF x = level THEN Count(seqFrame, x) + 1 ELSE Count(seqFrame, x)
              /\ Count(seqRender', x) = IF x = level THEN Count(seqRender, x) + 1 ELSE Count(seqRender, x)
      BY <1>1, <3>2, <3>3, AddedFramed
    <3>5. \A x \in Levels : Count(seqFrame, x) = 0 /\ Count(seqRender, x) = 0
      BY <1>1, <3>2 DEF OnList
    <3>6. \A x \in Levels : /\ Count(seqFrame', x) = IF x = level THEN 1 ELSE 0
                            /\ Count(seqRender', x) = IF x = level THEN 1 ELSE 0
      BY <3>4, <3>5
    <3>7. ready' /\ level' \in Levels /\ ~flActive' /\ ~pending'
      BY <2>1, <3>2, <3>3, <3>4
    <3> QED BY <3>3, <3>6, <3>7 DEF OnList
  <2>4. CASE UNCHANGED <<shown, level, ready>>
    BY <1>3, <2>1, <2>4 DEF shown, game
  <2>5. \/ Finalizer /\ level # NoLevel /\ ~total
        \/ NetClient3 /\ Load
        \/ UNCHANGED <<shown, level, ready>>
    BY <1>11 DEF LoadTurn, NetStart1, NetStart2, NetStart4, NetStart6, NetOther, NetClient1,
         NetClient2, NetClient3, NetClient6, Finalizer, NoLevelFound
  <2> QED BY <2>2, <2>3, <2>4, <2>5
<1> QED BY <1>5, <1>6, <1>7, <1>8, <1>9, <1>10, <1>11 DEF Next, Turn, Others, Ends

------------------------------------------------------------------------------
\* The invariant of the life of a level, for every number of addresses, every
\* length of the queue of events and every count of failed loads.
THEOREM LevelInvariant == Spec => []IInv
<1>1. IInv /\ [Next]_vars => IInv'
  <2> SUFFICES ASSUME IInv, [Next]_vars PROVE IInv'
    OBVIOUS
  <2>1. CASE Next
    <3>1. Types' /\ Delivering' /\ Queue' /\ Lone(seqFrame)'
      BY <2>1, TypesStep, QueueStep
    <3>2. Walking' /\ Ordered' /\ Unready' /\ Live' /\ Loaded'
      BY <2>1, WalkingStep, LoadingStep
    <3>3. Menu' /\ OnList'
      BY <2>1, MenuStep, ListedStep
    <3> QED BY <3>1, <3>2, <3>3 DEF IInv
  <2>2. CASE UNCHANGED vars
    <3>1. /\ idx' = idx /\ UNCHANGED <<flActive, seqFrame, seqRender>>
          /\ UNCHANGED <<level, ready, single>>
          /\ UNCHANGED <<connected, result, total, loading>>
          /\ UNCHANGED <<loadRef, appLoaded>> /\ UNCHANGED <<pending, dist>>
          /\ UNCHANGED <<deferred, ev>> /\ quit' = quit
      BY <2>2 DEF vars, shown, game, start, load, shot, events
    <3>2. Types' /\ Delivering' /\ Queue' /\ Lone(seqFrame)'
      BY <3>1 DEF IInv, Types, Delivering, Queue, Calls, Blocked, Waiting
    <3>3. Walking' /\ Ordered' /\ Unready'
      BY <3>1 DEF IInv, Walking, Ordered, Lost, Unready
    <3>4. Live' /\ Loaded'
      BY <3>1 DEF IInv, Live, Lost, Coming, Calls, Mine, Blocked, Loaded, One
    <3>5. Menu' /\ OnList'
      BY <3>1 DEF IInv, Menu, Lost, OnList
    <3> QED BY <3>2, <3>3, <3>4, <3>5 DEF IInv
  <2> QED BY <2>1, <2>2
<1> QED BY InitIInv, <1>1, PTL DEF Spec

\* Whatever walks seqFrame or seqRender meets no level that was deleted, and none that
\* is not loaded, wherever in the walk the disconnect came and whoever restored the list.
THEOREM CalledReady == Spec => []CalledLevelReady
<1>1. IInv => CalledLevelReady
  <2> SUFFICES ASSUME IInv, NEW x \in Levels, NEW r \in {seqFrame, seqRender}, Count(r, x) > 0
               PROVE  x = level /\ ready
    BY DEF CalledLevelReady
  <2> QED BY DEF IInv, OnList
<1> QED BY <1>1, LevelInvariant, PTL

\* The menu, the screenshot and the load leave a level that is up on each list once, or
\* off it while the menu hides it.
THEOREM RegisteredOnce == Spec => []LevelRegisteredOnce
<1>1. IInv => LevelRegisteredOnce
  <2> SUFFICES ASSUME IInv, ready
               PROVE  /\ Count(seqFrame, level) = IF (flActive /\ ~pending) /\ single THEN 0 ELSE 1
                      /\ Count(seqRender, level) = IF flActive /\ ~pending THEN 0 ELSE 1
    BY DEF LevelRegisteredOnce
  <2>1. /\ level \in Levels /\ OnList
    BY DEF IInv, OnList
  <2> QED BY <2>1 DEF OnList
<1> QED BY <1>1, LevelInvariant, PTL

\* A level goes with steps on the list only behind the start that made it, in the pass
\* that delivered that start; no load that failed, and no later disconnect, does it.
THEOREM EventsLive == Spec => LoadingEventsLive
<1>1. IInv /\ [Next]_vars =>
        [level # NoLevel /\ level' # level /\ (\E i \in DOMAIN loading : loading[i].lv = level)
           => \E i \in 1..ev : deferred[i] = "start"]_vars
  <2> SUFFICES ASSUME IInv, Next, level # NoLevel, level' # level,
                      NEW i \in DOMAIN loading, loading[i].lv = level
               PROVE  \E k \in 1..ev : deferred[k] = "start"
    BY DEF vars, game
  <2>1. CASE OnStart
    BY <2>1 DEF OnStart
  <2>2. CASE OnDisconnect
    <3>1. idx \in DOMAIN seqFrame /\ seqFrame[idx][1] = "app" /\ idx # 0 /\ idx >= idx
      BY <2>2 DEF OnDisconnect, Delivers, Calls, IInv, Types
    <3>2. loading # <<>>
      OBVIOUS
    <3> QED BY <3>1, <3>2 DEF IInv, Walking
  <2>3. CASE Finalizer
    <3>1. Loading("finalizer")
      BY <2>3 DEF Finalizer
    <3>2. loading \in Seq(Tasks) /\ Line(loading) /\ Head(loading).fn = "finalizer"
      BY <3>1, LoadingLive
    <3>3. 1 \in DOMAIN loading /\ loading[1].fn = "finalizer"
      BY <3>2
    <3>4. Len(loading) = 1 /\ loading[1].lv = NoLevel
      BY <3>2, <3>3 DEF Line
    <3>5. i = 1
      BY <3>2, <3>4
    <3> QED BY <3>4, <3>5
  <2>4. CASE LoadTurn /\ ~Finalizer
    BY <2>4 DEF LoadTurn, NetStart1, NetStart2, NetStart4, NetStart6, NetOther, NetClient1,
       NetClient2, NetClient3, NetClient6
  <2>5. CASE Others \/ Ends
    BY <2>5, OthersAct, EndsIs DEF game
  <2>6. CASE \/ BeginFrame \/ Skip \/ EndFrame \/ OnQuit \/ EventsDelivered \/ Input \/ MenuFrame
             \/ Quitted
    BY <2>6 DEF BeginFrame, Skip, EndFrame, OnQuit, EventsDelivered, Input, MenuFrame, Quitted,
       vars, game
  <2> QED BY <2>1, <2>2, <2>3, <2>4, <2>5, <2>6 DEF Next, Turn, Others, Ends
<1> QED BY <1>1, LevelInvariant, PTL DEF Spec, LoadingEventsLive

\* The player without a level, and with nothing on its way, has the menu.
THEOREM MenuShown == Spec => []SomethingToShow
<1>1. IInv => SomethingToShow
  <2> SUFFICES ASSUME IInv, ~quit, level = NoLevel, loading = <<>>, deferred = <<>> PROVE flActive
    BY DEF SomethingToShow
  <2>1. DOMAIN deferred = {} /\ Menu /\ ~Lost
    BY DEF IInv, Lost
  <2> QED BY <2>1 DEF Menu
<1> QED BY <1>1, LevelInvariant, PTL

\* The loading screen is gone when the list is empty: no path through the loading steps
\* leaves a LoadBegin without its LoadEnd.
THEOREM LoadedWhenIdle == Spec => []IdleMeansLoaded
<1>1. IInv => IdleMeansLoaded
  <2> SUFFICES ASSUME IInv, loading = <<>> PROVE appLoaded
    BY DEF IdleMeansLoaded
  <2>1. Loaded /\ ~Lost /\ loadRef \in Int
    BY DEF IInv, Types, Lost
  <2>2. One("start6") = 0 /\ One("client6") = 0 /\ One("client1") = 0
    BY DEF One, On
  <2> QED BY <2>1, <2>2 DEF Loaded
<1> QED BY <1>1, LevelInvariant, PTL

-----------------------------------------------------------------------------
(* The client.  P is what is proved of the server's handlers: P!X and S!X   *)
(* are the same X.                                                          *)

P == INSTANCE ServerEntitiesProofs

\* Both instances of the vectors, and this one, are one.
LEMMA SameListed == \A s : P!Listed(s) = Listed(s) /\ S!Listed(s) = Listed(s)
BY DEF P!Listed, S!Listed, Listed

\* The handlers for requests are the same in both instances.
LEMMA SameRequests ==
  /\ \A s, p, e : P!Process_spawn(s, e, p) = S!Process_spawn(s, e, p)
  /\ \A s, p, e : P!Process_event_ownership(s, p, e) = S!Process_event_ownership(s, p, e)
  /\ \A s, p, e : P!Process_event_reject(s, p, e) = S!Process_event_reject(s, p, e)
  BY DEF P!Process_event_reject, S!Process_event_reject,
         P!Process_event_ownership, S!Process_event_ownership,
         P!Process_spawn, S!Process_spawn, P!Known, S!Known, P!Fault, S!Fault,
         P!Detached, S!Detached, P!Attached, S!Attached, P!Entered, S!Entered,
         P!SendBroadcast, S!SendBroadcast, P!Rejected, S!Rejected, P!Taken, S!Taken,
         P!Spawned, S!Spawned, P!Erase, S!Erase, P!EraseAt, S!EraseAt,
         P!FirstIndex, S!FirstIndex, P!Listed, S!Listed

\* So are those for destroys and switches.
LEMMA SameRemovals ==
  /\ \A s, e : P!Process_event_destroy(s, e) = S!Process_event_destroy(s, e)
  /\ \A s, e : P!Perform_destroy(s, e) = S!Perform_destroy(s, e)
  /\ \A s, e, kids : P!Add_online(s, e, kids) = S!Add_online(s, e, kids)
  BY DEF P!Process_event_destroy, S!Process_event_destroy, P!Perform_destroy,
         S!Perform_destroy, P!Add_online, S!Add_online, P!Known, S!Known, P!Fault, S!Fault,
         P!SendBroadcast, S!SendBroadcast, P!Rejected, S!Rejected, P!Destroyed,
         S!Destroyed, P!Spawned, S!Spawned, P!EnteredWith, S!EnteredWith, P!Pruned,
         S!Pruned, P!Subtree, S!Subtree, P!Intact, S!Intact, P!EventPack, S!EventPack,
         P!DestroyEvents, S!DestroyEvents, P!FlattenSeq, S!FlattenSeq, P!Reverse,
         S!Reverse, P!Erase, S!Erase, P!EraseAt, S!EraseAt, P!FirstIndex, S!FirstIndex,
         P!Listed, S!Listed

\* So are the calls that combine them.
LEMMA SameChains ==
  /\ \A s, p, e : P!ThenOwnership(s, p, e) = S!ThenOwnership(s, p, e)
  /\ \A s, e : P!ThenDestroy(s, e) = S!ThenDestroy(s, e)
  BY SameRequests, SameRemovals
     DEF P!ThenOwnership, S!ThenOwnership, P!ThenDestroy, S!ThenDestroy

\* A request to the server that LevelClient composes is one of which the theorems are.
LEMMA SameCalls == S!Requests => P!Requests
<1>1. ASSUME NEW s, S!Call(s) PROVE P!Call(s)
  BY <1>1 DEF S!Call, P!Call, S!Running, P!Running
<1> QED
  BY <1>1, SameRequests, SameRemovals, SameChains
     DEF S!Requests, P!Requests, S!Spawn, P!Spawn, S!Destroy, P!Destroy,
         S!Leave, P!Leave, S!Enter, P!Enter, S!Ownership, P!Ownership, S!Reject, P!Reject,
         S!Eat, P!Eat, S!Transfer, P!Transfer, S!Luggage, P!Luggage,
         S!MayOwn, P!MayOwn, S!Known, P!Known, P!NoRepeat, S!NoRepeat, P!Listed, S!Listed

\* It starts as the theorems have it.
LEMMA SameInit == S!Init => P!Init
BY DEF S!Init, P!Init

\* What is assumed of this client's entities is what the server's theorems assume.
LEMMA Assumed ==
  ASSUME ClientAssumption
  PROVE  /\ P!EntityAssumption /\ IsFiniteSet(Ids)
         /\ LuggageBound \in Nat /\ Rank \in [Ids -> {0, 1}]
<1>1. IsFiniteSet(Ids)
  <2>1. IsFiniteSet({Actor}) /\ IsFiniteSet(Owners)
    BY FS_Singleton, FS_Union DEF ClientAssumption, Owners
  <2> QED BY <2>1, FS_Union DEF ClientAssumption, Ids
<1>2. LuggageBound \in Nat
  BY FS_CardinalityType DEF ClientAssumption, LuggageBound
<1>3. Rank \in [Ids -> {0, 1}]
  BY DEF Rank
<1>4. Rank \in [Ids -> Nat]
  BY <1>3
<1>5. P!IsFiniteSet(Ids)
  BY <1>1 DEF P!IsFiniteSet, IsFiniteSet
<1> QED BY <1>1, <1>2, <1>3, <1>4, <1>5 DEF ClientAssumption, P!EntityAssumption

\* An entity that is offline, with what was saved with it.
Group(o) == {o} \cup Listed(luggage[o])

\* Items hang on owners.
ObjectsTyped ==
  /\ Objects \subseteq Ids
  /\ held \in [Objects -> Owners \cup {NoParent}]
  /\ inv \in [Objects -> Owners \cup {NoParent}]
  /\ \A x \in Objects : inv[x] # NoParent => x \in Items
  /\ dying \subseteq Objects

\* The destroy queue is empty when a frame begins.
FrameTyped ==
  /\ phase \in {"shedule", "drain", "update"}
  /\ phase = "shedule" => dying = {}
  /\ due \in Nat /\ due <= Len(sv.wire) /\ (phase # "drain" => due = 0)

\* The client has no object of what an event will spawn, nor will an earlier
\* event bring one.
SpawnsFresh ==
  \A i \in 1..Len(sv.wire) : sv.wire[i].kind = "spawn" =>
     /\ sv.wire[i].item \notin Objects
     /\ \A j \in 1..(i-1) : sv.wire[j].item # sv.wire[i].item

\* Only items get a parent, and owners are parents.
OwnersOnWire ==
  \A i \in 1..Len(sv.wire) : sv.wire[i].kind \in {"spawn", "take"} =>
     sv.wire[i].dest = NoParent \/ P!MayOwn(sv.wire[i].dest, sv.wire[i].item)

\* What is offline is not on the server, and is there once.
LuggageKept ==
  /\ Offline \subseteq Ids
  /\ \A o \in Offline :
       /\ Group(o) \cap Known = {}
       /\ luggage[o] \in Seq(Ids) /\ NoRepeat(luggage[o])
       /\ \A x \in Listed(luggage[o]) : P!MayOwn(o, x)
       /\ \A q \in Offline : q # o => Group(o) \cap Group(q) = {}

\* Events about what is offline are left of this frame's switch alone: the drain
\* takes them.
LuggageFar ==
  \A o \in Offline : \A i \in 1..Len(sv.wire) : sv.wire[i].item \in Group(o) =>
     \/ phase = "shedule" /\ o \in switched
     \/ phase = "drain" /\ i <= due

\* p has refused x, and its reject, which the server broadcasts, is on the wire.
Refused(p, x) ==
  \E i \in 1..Len(sv.wire) :
     /\ sv.wire[i].kind = "reject" /\ sv.wire[i].dest = p /\ sv.wire[i].item = x
     /\ \A j \in 1..(i-1) : sv.wire[j].item # x

\* m is the tree the client would show had it taken all it was given.
WouldShow(m) ==
  /\ DOMAIN m = Objects \ dying
  /\ \A x \in DOMAIN m : held[x] = m[x] \/ (held[x] = NoParent /\ Refused(m[x], x))

Follows(m) == P!Following(m, sv) /\ WouldShow(m)

ClientInv(m) ==
  /\ Follows(m) /\ fault = "none" /\ ObjectsTyped /\ FrameTyped /\ SpawnsFresh /\ OwnersOnWire
  /\ LuggageKept /\ LuggageFar /\ InventoryMatches

\* What the client knows of a server it follows.
LEMMA ServerFacts ==
  ASSUME NEW m, Follows(m)
  PROVE  /\ sv.wire \in Seq(P!Events) /\ Len(sv.wire) \in Nat
         /\ \A i \in 1..Len(sv.wire) : sv.wire[i] \in P!Events
         /\ P!Good(sv) /\ P!Ranked(sv) /\ Known = P!Known(sv) /\ Known \subseteq Ids
         /\ DOMAIN sv = {"ID_Parent", "children", "wire", "fault"}
         /\ P!Replays(m, sv.wire, sv.ID_Parent)
<1>1. /\ P!Good(sv) /\ P!Ranked(sv)
      /\ P!Replays(m, sv.wire, sv.ID_Parent)
  BY DEF Follows, P!Following, P!Caught
<1>2. sv.wire \in Seq(P!Events)
  BY <1>1 DEF P!Replays
<1>3. Known = P!Known(sv)
  BY DEF Known, S!Known, P!Known
<1> DEFINE w == sv.wire
           E == P!Events
<1>4. w \in Seq(E)
  BY <1>2
<1> HIDE DEF w, E
<1>5. Len(w) \in Nat /\ \A i \in 1..Len(w) : w[i] \in E
  BY <1>4, LenProperties, ElementOfSeq
<1> QED BY <1>1, <1>2, <1>3, <1>5 DEF w, E, P!Good, P!Typed

\* What is not known and not on the wire is not on the client's tree.
LEMMA MirrorGone ==
  ASSUME NEW m, ClientAssumption, Follows(m), NEW x, x \notin Known,
         \A i \in 1..Len(sv.wire) : sv.wire[i].item # x
  PROVE  x \notin Objects \ dying
<1> SUFFICES ASSUME x \in DOMAIN m PROVE FALSE
  BY DEF Follows, WouldShow
<1>1. P!Replays(m, sv.wire, sv.ID_Parent) /\ Known = DOMAIN sv.ID_Parent
  BY ServerFacts DEF P!Known
<1>2. x \in DOMAIN sv.ID_Parent
  BY <1>1, P!ReplayOthers, Assumed
<1> QED BY <1>1, <1>2

\* Luggage is what ALife may have saved.
LEMMA LuggageFits ==
  ASSUME ClientAssumption, LuggageKept, NEW o \in Offline
  PROVE  luggage[o] \in S!Luggage(o)
<1> DEFINE k == luggage[o]
           n == Len(k)
<1>1. k \in Seq(Ids) /\ NoRepeat(k) /\ o \in Ids /\ \A x \in Listed(k) : P!MayOwn(o, x)
  BY DEF LuggageKept
<1> HIDE DEF k
<1>2. n \in Nat /\ k \in [1..n -> Ids]
  BY <1>1, LenProperties
<1>3. \A i \in 1..n : k[i] \in Listed(k) /\ k[i] \in Ids
  BY <1>2 DEF Listed
<1>4. \A i \in 1..n : k[i] \in Items /\ S!MayOwn(o, k[i])
  <2>1. \A x \in Ids : P!MayOwn(o, x) => x \in Items /\ S!MayOwn(o, x)
    <3>1. /\ \A x \in Ids : Rank[x] \in {0, 1} /\ (x \notin Items => Rank[x] = 1)
          /\ Rank[o] \in {0, 1}
      BY <1>1 DEF Rank
    <3> HIDE DEF Rank
    <3> QED BY <3>1 DEF P!MayOwn, S!MayOwn
  <2> QED BY <1>1, <1>3, <2>1
<1>5. n <= LuggageBound
  <2>1. k \in Injection(1..n, Items)
    <3>1. k \in [1..n -> Items]
      BY <1>2, <1>4
    <3>2. \A a, b \in 1..n : k[a] = k[b] => a = b
      BY <1>1 DEF NoRepeat
    <3> QED BY <3>1, <3>2 DEF Injection, IsInjective
  <2>2. Cardinality(1..n) <= Cardinality(Items)
    BY <2>1, FS_Injection DEF ClientAssumption
  <2>3. Cardinality(1..n) = n
    BY <1>2, FS_Interval
  <2> QED BY <2>2, <2>3 DEF LuggageBound
<1>6. k \in [1..n -> {x \in Ids : S!MayOwn(o, x)}] /\ n \in 0..LuggageBound
  BY <1>2, <1>3, <1>4, <1>5, Assumed
<1>7. k \in S!Luggage(o)
  BY <1>6 DEF S!Luggage
<1> QED BY <1>7 DEF k

\* A stalker that has all the items but one has room for that one.
CanCarryAll == Cardinality(Items) <= Capacity

\* Nobody who can carry all items is full before he is given the last.
LEMMA HasRoom ==
  ASSUME ClientAssumption, CanCarryAll, ObjectsTyped,
         NEW p \in Owners, NEW e \in Items, e \notin dying, e \in Objects => inv[e] = NoParent
  PROVE  CanTakeItem(p, e)
<1> DEFINE has == {x \in Objects : inv[x] = p}
<1>1. p # NoParent
  BY DEF ClientAssumption, Ids
<1>2. has \subseteq Items \ {e}
  BY <1>1 DEF ObjectsTyped
<1>3. IsFiniteSet(Items) /\ IsFiniteSet(Items \ {e})
      /\ Cardinality(Items \ {e}) = Cardinality(Items) - 1
  BY FS_RemoveElement DEF ClientAssumption
<1>4. Cardinality(has) <= Cardinality(Items \ {e}) /\ IsFiniteSet(has)
  <2> HIDE DEF has
  <2> QED BY <1>2, <1>3, FS_Subset
<1>5. Cardinality(has) \in Nat /\ Cardinality(Items) \in Nat /\ Capacity \in Nat
  BY <1>3, <1>4, FS_CardinalityType DEF ClientAssumption
<1>6. Cardinality(has) < Capacity
  <2> HIDE DEF has
  <2> QED BY <1>3, <1>4, <1>5 DEF CanCarryAll
<1> QED BY <1>6 DEF CanTakeItem

\* The event that is processed: the client can apply it.
LEMMA HeadFacts ==
  ASSUME NEW m, ClientAssumption, Follows(m), sv.wire # <<>>, NEW ge, ge = Head(sv.wire)
  PROVE  /\ ge \in P!Events /\ P!CanApply(m, ge) /\ Len(sv.wire) \in Nat \ {0}
         /\ ge = sv.wire[1]
         /\ Taken.wire = Tail(sv.wire) /\ Taken.ID_Parent = sv.ID_Parent
         /\ Taken.fault = sv.fault
         /\ Len(Taken.wire) = Len(sv.wire) - 1
         /\ \A i \in 1..(Len(sv.wire) - 1) : Taken.wire[i] = sv.wire[i + 1]
<1> DEFINE w == sv.wire
           E == P!Events
<1>1. /\ w \in Seq(E) /\ Len(w) \in Nat /\ P!Replays(m, w, sv.ID_Parent)
      /\ DOMAIN sv = {"ID_Parent", "children", "wire", "fault"} /\ w # <<>>
  BY ServerFacts
<1>2. /\ Taken.wire = Tail(w) /\ Taken.ID_Parent = sv.ID_Parent
      /\ Taken.fault = sv.fault
  BY <1>1 DEF Taken
<1> HIDE DEF w
<1>3. ge \in E /\ P!CanApply(m, ge)
  BY <1>1, P!ReplayHead, Assumed DEF w
<1> HIDE DEF E
<1>4. ge = w[1] /\ Len(w) # 0 /\ Len(Tail(w)) = Len(w) - 1
      /\ \A i \in 1..(Len(w) - 1) : Tail(w)[i] = w[i + 1]
  BY <1>1, HeadTailProperties, EmptySeq DEF w
<1> QED BY <1>1, <1>2, <1>3, <1>4 DEF w, E

\* Registering an object and giving it a parent at once is one entry.
LEMMA PutTwice ==
  ASSUME NEW f, NEW e, NEW a, NEW b
  PROVE  Put(Put(f, e, a), e, b) = Put(f, e, b)
BY DEF Put

\* A spawn or a take: the item hangs on p from now on, and is in its inventory.
Hangs(p, e) ==
  /\ held' = Put(held, e, p) /\ inv' = Put(inv, e, p) /\ dying' = dying
  /\ fault' = "none"

\* A stalker that cannot take e lets it lie and tells the server so.
Refuses(p, e) ==
  /\ Hangs(NoParent, e) /\ sv' = S!Process_event_reject(Taken, p, e)
  /\ p \in Owners /\ e \in Items /\ e \notin dying /\ (e \in Objects => inv[e] = NoParent)
  /\ ~CanTakeItem(p, e)

\* A take that the server sent finds the item with nobody: it is accepted or refused.
LEMMA TakeHangs ==
  ASSUME ObjectsTyped, InventoryMatches, fault = "none", NEW p \in Owners, NEW e \in Items,
         e \in Objects \ dying, held[e] = NoParent, p \in Objects,
         OnTake(p, e, held, inv), UNCHANGED dying
  PROVE  (Hangs(p, e) /\ sv' = Taken) \/ Refuses(p, e)
<1>1. inv[e] = NoParent
  BY DEF InventoryMatches
<1>2. {p, e} \subseteq DOMAIN held
  BY DEF Objects
<1>3. fault' = "none"
  BY <1>2 DEF OnTake, Assertion
<1>4. CASE CanTakeItem(p, e)
  BY <1>2, <1>3, <1>4 DEF OnTake, Hangs
<1>5. CASE ~CanTakeItem(p, e)
  <2>1. held' = held /\ inv' = inv /\ sv' = S!Process_event_reject(Taken, p, e)
    BY <1>2, <1>5 DEF OnTake
  <2>2. held = Put(held, e, NoParent) /\ inv = Put(inv, e, NoParent)
    <3>1. /\ DOMAIN held \cup {e} = DOMAIN held /\ DOMAIN inv \cup {e} = DOMAIN inv
          /\ held = [x \in DOMAIN held |-> held[x]] /\ inv = [x \in DOMAIN inv |-> inv[x]]
      BY DEF ObjectsTyped, Objects
    <3> QED BY <1>1, <3>1 DEF Put
  <2> QED BY <1>1, <1>3, <1>5, <2>1, <2>2 DEF Refuses, Hangs
<1> QED BY <1>4, <1>5

\* A spawn, with its parent or without, makes e hang on p, unless p refuses.
LEMMA SpawnHangs ==
  ASSUME ObjectsTyped, fault = "none", NEW p, NEW e \in Ids, e \notin Objects,
         p = NoParent \/ (p \in Owners /\ e \in Items /\ p \in Objects),
         OnSpawn(p, e), UNCHANGED dying
  PROVE  (Hangs(p, e) /\ sv' = Taken) \/ Refuses(p, e)
<1>1. CASE p = NoParent
  BY <1>1 DEF OnSpawn, Assertion, Hangs
<1>2. CASE p # NoParent
  <2> DEFINE h == Put(held, e, NoParent)
             i == Put(inv, e, NoParent)
  <2>1. OnTake(p, e, h, i) /\ p \in Owners /\ e \in Items /\ p \in Objects
    BY <1>2 DEF OnSpawn
  <2>2. e \notin dying
    BY DEF ObjectsTyped
  <2>3. DOMAIN h = DOMAIN held \cup {e} /\ h[e] = NoParent
    BY DEF Put
  <2>4. {p, e} \subseteq DOMAIN h
    <3> HIDE DEF h
    <3> QED BY <2>1, <2>3 DEF Objects
  <2>5. Put(h, e, p) = Put(held, e, p) /\ Put(i, e, p) = Put(inv, e, p)
    BY PutTwice
  <2> HIDE DEF h, i
  <2>6. fault' = "none"
    BY <2>1, <2>3, <2>4 DEF OnTake, Assertion
  <2>7. CASE CanTakeItem(p, e)
    <3>1. held' = Put(h, e, p) /\ inv' = Put(i, e, p) /\ sv' = Taken
      BY <2>1, <2>4, <2>7 DEF OnTake
    <3> QED BY <2>5, <2>6, <3>1 DEF Hangs
  <2>8. CASE ~CanTakeItem(p, e)
    <3>1. held' = h /\ inv' = i /\ sv' = S!Process_event_reject(Taken, p, e)
      BY <2>1, <2>4, <2>8 DEF OnTake
    <3> QED BY <2>1, <2>2, <2>6, <2>8, <3>1 DEF Hangs, Refuses, h, i
  <2> QED BY <2>7, <2>8
<1> QED BY <1>1, <1>2

\* The parents that are shown when e hangs on p.
LEMMA HangsShown ==
  ASSUME NEW p, NEW e, Hangs(p, e)
  PROVE  /\ Objects' = Objects \cup {e} /\ dying' = dying /\ held'[e] = p
         /\ \A x \in Objects : x # e => held'[x] = held[x]
BY DEF Hangs, Put, Objects

\* Inventories match when e hangs on p.
LEMMA HangsMatches ==
  ASSUME ClientAssumption, ObjectsTyped, InventoryMatches, NEW p, NEW e \in Ids, e \notin dying,
         p = NoParent \/ (p \in Objects \ dying /\ p \in Owners /\ e \in Items),
         Hangs(p, e)
  PROVE  /\ InventoryMatches'
         /\ ObjectsTyped'
<1>1. held' = Put(held, e, p) /\ inv' = Put(inv, e, p) /\ dying' = dying
  BY DEF Hangs
<1>2. DOMAIN held = Objects /\ DOMAIN inv = Objects
  BY DEF ObjectsTyped, Objects
<1>3. /\ DOMAIN held' = Objects \cup {e} /\ held'[e] = p
      /\ \A x \in Objects : x # e => held'[x] = held[x]
  BY <1>1, <1>2 DEF Put
<1>4. /\ DOMAIN inv' = Objects \cup {e} /\ inv'[e] = p
      /\ \A x \in Objects : x # e => inv'[x] = inv[x]
  BY <1>1, <1>2 DEF Put
<1>5. Objects' = Objects \cup {e}
  BY <1>3 DEF Objects
<1>6. held' = [x \in Objects' |-> held'[x]] /\ inv' = [x \in Objects' |-> inv'[x]]
  BY <1>1, <1>2, <1>5 DEF Put
<1>7. InventoryMatches'
  <2> SUFFICES ASSUME NEW x \in Objects' \ dying'
               PROVE  /\ inv'[x] = held'[x]
                      /\ held'[x] # NoParent => held'[x] \in Objects' \ dying'
    BY DEF InventoryMatches
  <2>1. CASE x = e
    BY <2>1, <1>1, <1>3, <1>4, <1>5
  <2>2. CASE x # e
    BY <2>2, <1>1, <1>3, <1>4, <1>5 DEF InventoryMatches
  <2> QED BY <2>1, <2>2
<1>8. \A x \in Objects' : /\ held'[x] \in Owners \cup {NoParent}
                          /\ inv'[x] \in Owners \cup {NoParent}
                          /\ inv'[x] # NoParent => x \in Items
  BY <1>3, <1>4, <1>5 DEF ObjectsTyped
<1> HIDE DEF Objects, Ids, Owners
<1> QED BY <1>1, <1>5, <1>6, <1>7, <1>8 DEF ObjectsTyped

\* An item leaves p.
LeavesParent(p, e) ==
  /\ held' = [held EXCEPT ![e] = NoParent] /\ inv' = [inv EXCEPT ![e] = NoParent]
  /\ dying' = dying /\ sv' = Taken /\ fault' = "none"

\* A reject finds e in the inventory, and takes it out.
LEMMA RejectLeaves ==
  ASSUME ClientAssumption, ObjectsTyped, InventoryMatches, fault = "none",
         NEW p, NEW e, e \in Objects \ dying, held[e] = p,
         OnReject(p, e), UNCHANGED dying
  PROVE  LeavesParent(p, e)
<1>1. /\ inv[e] = p /\ (p # NoParent => p \in Objects) /\ fault = "none"
      /\ held \in [Objects -> Owners \cup {NoParent}]
      /\ inv \in [Objects -> Owners \cup {NoParent}] /\ NoParent \notin Objects
  BY DEF InventoryMatches, ObjectsTyped, ClientAssumption
<1>2. sv' = Taken /\ dying' = dying
  BY DEF OnReject
<1>3. CASE p # NoParent
  <2>1. {p, e} \subseteq Objects
    BY <1>1, <1>3
  <2>2. held' = [held EXCEPT ![e] = NoParent] /\ inv' = [inv EXCEPT ![e] = NoParent]
    BY <1>1, <2>1 DEF OnReject
  <2>3. fault' = "none"
    BY <1>1, <2>1 DEF OnReject, Assertion
  <2> QED BY <1>2, <2>2, <2>3 DEF LeavesParent
<1>4. CASE p = NoParent
  <2>1. held' = held /\ inv' = inv
    BY <1>1, <1>4 DEF OnReject
  <2>2. fault' = "none"
    BY <1>1, <1>4 DEF OnReject, Assertion
  <2>3. held = [held EXCEPT ![e] = NoParent] /\ inv = [inv EXCEPT ![e] = NoParent]
    <3> HIDE DEF Objects
    <3> QED BY <1>1, <1>4
  <2> QED BY <1>2, <2>1, <2>2, <2>3 DEF LeavesParent
<1> QED BY <1>3, <1>4

\* What the client shows when e leaves its parent.
LEMMA LeavesShown ==
  ASSUME ObjectsTyped, InventoryMatches, NEW p, NEW e, e \in Objects \ dying, LeavesParent(p, e)
  PROVE  /\ Objects' = Objects /\ dying' = dying /\ held'[e] = NoParent
         /\ \A x \in Objects : x # e => held'[x] = held[x]
         /\ InventoryMatches' /\ ObjectsTyped'
<1>1. /\ DOMAIN held' = Objects /\ held'[e] = NoParent
      /\ \A x \in Objects : x # e => held'[x] = held[x]
  BY DEF LeavesParent, Objects
<1>2. /\ DOMAIN inv' = Objects /\ inv'[e] = NoParent
      /\ \A x \in Objects : x # e => inv'[x] = inv[x]
  BY DEF LeavesParent, ObjectsTyped
<1>3. Objects' = Objects /\ dying' = dying
  BY <1>1 DEF Objects, LeavesParent
<1>4. InventoryMatches'
  BY <1>1, <1>2, <1>3 DEF InventoryMatches
<1>5. \A x \in Objects : /\ held'[x] \in Owners \cup {NoParent}
                         /\ inv'[x] \in Owners \cup {NoParent}
                         /\ inv'[x] # NoParent => x \in Items
  BY <1>1, <1>2 DEF ObjectsTyped
<1>6. held' = [x \in Objects |-> held'[x]] /\ inv' = [x \in Objects |-> inv'[x]]
  BY DEF LeavesParent, ObjectsTyped, Objects
<1>7. dying \subseteq Objects /\ Objects \subseteq Ids
  BY DEF ObjectsTyped
<1> HIDE DEF Objects, Owners
<1> QED BY <1>1, <1>3, <1>4, <1>5, <1>6, <1>7 DEF ObjectsTyped

\* The reject of what was refused, which finds the item with nobody: while its sender is
\* there the assertion fails, and after that it is nothing.
LEMMA RejectOfRefused ==
  ASSUME ClientAssumption, ObjectsTyped, InventoryMatches, fault = "none",
         NEW p, NEW e, e \in Objects \ dying, held[e] = NoParent, p # NoParent,
         OnReject(p, e), UNCHANGED dying
  PROVE  /\ held' = held /\ inv' = inv /\ dying' = dying /\ sv' = Taken
         /\ fault' \in {"none", "reject"}
<1>1. inv[e] # p
  BY DEF InventoryMatches
<1> QED BY <1>1 DEF OnReject, Assertion

\* GE_DESTROY: with nothing that hangs on e but what is dying already.
LEMMA DestroyShown ==
  ASSUME ObjectsTyped, InventoryMatches, NEW e, e \in Objects \ dying,
         \A x \in Objects \ dying : held[x] # e, OnDestroy(e)
  PROVE  /\ Objects' = Objects /\ dying' \cap Objects = (dying \cup {e}) \cap Objects
         /\ held' = held /\ inv' = inv /\ fault' = fault /\ sv' = Taken
         /\ InventoryMatches' /\ ObjectsTyped'
<1>1. held' = held /\ inv' = inv /\ fault' = fault /\ sv' = Taken /\ Objects' = Objects
  BY DEF OnDestroy, Objects
<1>2. dying' = dying \cup {e}
  BY DEF OnDestroy
<1>3. InventoryMatches'
  BY <1>1, <1>2 DEF InventoryMatches
<1>4. ObjectsTyped'
  BY <1>1, <1>2 DEF ObjectsTyped
<1> QED BY <1>1, <1>2, <1>3, <1>4

\* The tree after an event differs from the one before in what the event is about.
AfterEvent(m, ge, a) ==
  /\ a = [x \in DOMAIN a |-> a[x]]
  /\ ge.kind = "destroy" => DOMAIN a = DOMAIN m \ {ge.item}
  /\ ge.kind # "destroy" => DOMAIN a = DOMAIN m \cup {ge.item}
  /\ \A x \in DOMAIN a : x # ge.item => x \in DOMAIN m /\ a[x] = m[x]
  /\ ge.kind \in {"spawn", "take"} => a[ge.item] = ge.dest
  /\ ge.kind = "reject" => a[ge.item] = NoParent

\* Apply does that to any tree.
LEMMA ApplyShape ==
  ASSUME NEW m, NEW ge, ge.kind \in {"spawn", "take", "reject", "destroy"}
  PROVE  AfterEvent(m, ge, P!Apply(m, ge))
<1> SUFFICES ASSUME NEW a, a = P!Apply(m, ge) PROVE AfterEvent(m, ge, a)
  OBVIOUS
<1>1. CASE ge.kind \in {"spawn", "take"}
  <2>1. a = [x \in DOMAIN m \cup {ge.item} |-> IF x = ge.item THEN ge.dest ELSE m[x]]
    BY <1>1 DEF P!Apply
  <2> QED BY <1>1, <2>1 DEF AfterEvent
<1>2. CASE ge.kind = "reject"
  <2>1. a = [x \in DOMAIN m \cup {ge.item} |-> IF x = ge.item THEN NoParent ELSE m[x]]
    BY <1>2 DEF P!Apply
  <2> QED BY <1>2, <2>1 DEF AfterEvent
<1>3. CASE ge.kind = "destroy"
  <2>1. a = [x \in (DOMAIN m \cup {ge.item}) \ {ge.item} |-> m[x]]
    BY <1>3 DEF P!Apply
  <2> QED BY <1>3, <2>1 DEF AfterEvent
<1> QED BY <1>1, <1>2, <1>3

\* What an event leaves on the client: a is the tree with it applied.
Outcome(m, ge, a) ==
  /\ InventoryMatches' /\ ObjectsTyped'
  /\ Objects' = IF ge.kind = "spawn" THEN Objects \cup {ge.item} ELSE Objects
  /\ Objects' \ dying' = DOMAIN a
  /\ \A x \in DOMAIN a : x # ge.item => held'[x] = held[x]
  /\ \/ /\ sv' = Taken /\ fault' = "none"
        /\ ge.item \in DOMAIN a => held'[ge.item] = a[ge.item]
     \/ /\ Refuses(ge.dest, ge.item)
        /\ ge.item \in DOMAIN a /\ a[ge.item] = ge.dest
     \/ /\ sv' = Taken /\ fault' = "reject"
        /\ ge.item \in DOMAIN m /\ held[ge.item] # m[ge.item]

\* Each event leaves the client with the tree it says, but for what was refused.
LEMMA EventEffect ==
  ASSUME NEW m, ClientAssumption, ClientInv(m), ProcessEvent, NEW ge, ge = Head(sv.wire),
         NEW a, a = P!Apply(m, ge)
  PROVE  sv.wire # <<>> /\ Outcome(m, ge, a)
<1>1. /\ Follows(m) /\ ObjectsTyped /\ FrameTyped /\ InventoryMatches /\ fault = "none"
      /\ OwnersOnWire /\ SpawnsFresh
  BY DEF ClientInv
<1>2. sv.wire # <<>>
  <2>1. Len(sv.wire) >= 1
    BY <1>1, ServerFacts DEF ProcessEvent, FrameTyped
  <2> QED BY <2>1
<1>3. /\ ge \in P!Events /\ P!CanApply(m, ge) /\ ge = sv.wire[1]
      /\ Len(sv.wire) \in Nat \ {0}
  BY <1>1, <1>2, HeadFacts
<1>4. /\ ge.item \in Ids /\ ge.dest \in Ids \cup {NoParent}
      /\ ge.kind \in {"spawn", "take", "reject", "destroy"}
  BY <1>3 DEF P!Events
<1>5. /\ DOMAIN m = Objects \ dying
      /\ \A x \in Objects \ dying : held[x] = m[x] \/ held[x] = NoParent
      /\ NoParent \notin Objects
  BY <1>1 DEF Follows, WouldShow, ObjectsTyped, ClientAssumption
<1>6. ge.kind \in {"spawn", "take"} => \/ ge.dest = NoParent
                                       \/ ge.dest \in Owners /\ ge.item \in Items
  <2> SUFFICES ASSUME ge.kind \in {"spawn", "take"}, ge.dest # NoParent
               PROVE  ge.dest \in Owners /\ ge.item \in Items
    OBVIOUS
  <2>1. P!MayOwn(ge.dest, ge.item)
    BY <1>1, <1>3 DEF OwnersOnWire
  <2>2. ge.dest \in Ids /\ Rank[ge.dest] > Rank[ge.item]
    BY <2>1 DEF P!MayOwn
  <2> QED BY <1>4, <2>2 DEF Rank, Ids
<1>7. /\ ge.kind = "destroy" => DOMAIN a = DOMAIN m \ {ge.item}
      /\ ge.kind # "destroy" => DOMAIN a = DOMAIN m \cup {ge.item}
      /\ ge.kind \in {"spawn", "take"} => a[ge.item] = ge.dest
      /\ ge.kind = "reject" => a[ge.item] = NoParent
  <2>1. AfterEvent(m, ge, a)
    BY <1>4, ApplyShape
  <2> QED BY <2>1 DEF AfterEvent
<1>8. ASSUME ge.kind \in {"spawn", "take"}, ge.item \notin dying,
             ge.kind = "take" => ge.item \in Objects,
             \/ ge.dest = NoParent
             \/ ge.dest \in Objects \ dying /\ ge.dest \in Owners /\ ge.item \in Items,
             (Hangs(ge.dest, ge.item) /\ sv' = Taken) \/ Refuses(ge.dest, ge.item)
      PROVE  Outcome(m, ge, a)
  <2>1. PICK q \in {ge.dest, NoParent} : Hangs(q, ge.item)
    BY <1>8 DEF Refuses
  <2>2. /\ Objects' = Objects \cup {ge.item} /\ dying' = dying /\ held'[ge.item] = q
        /\ \A x \in Objects : x # ge.item => held'[x] = held[x]
    BY <2>1, HangsShown
  <2>3. InventoryMatches' /\ ObjectsTyped'
    <3>1. q = NoParent \/ (q \in Objects \ dying /\ q \in Owners /\ ge.item \in Items)
      BY <1>8
    <3> QED BY <1>1, <1>4, <1>8, <2>1, <3>1, HangsMatches
  <2>4. DOMAIN a = (Objects \ dying) \cup {ge.item} /\ a[ge.item] = ge.dest
    BY <1>5, <1>7, <1>8
  <2>5. /\ Objects' = IF ge.kind = "spawn" THEN Objects \cup {ge.item} ELSE Objects
        /\ Objects' \ dying' = DOMAIN a
        /\ \A x \in DOMAIN a : x # ge.item => held'[x] = held[x]
    BY <1>8, <2>2, <2>4
  <2>6. CASE Hangs(ge.dest, ge.item) /\ sv' = Taken
    <3>1. held'[ge.item] = ge.dest /\ fault' = "none"
      BY <2>6, HangsShown DEF Hangs
    <3> QED BY <2>3, <2>4, <2>5, <2>6, <3>1 DEF Outcome
  <2>7. CASE Refuses(ge.dest, ge.item)
    BY <2>3, <2>4, <2>5, <2>7 DEF Outcome
  <2> QED BY <1>8, <2>6, <2>7
<1>9. CASE ge.kind = "spawn"
  <2>1. ge.item \notin Objects
    BY <1>1, <1>3, <1>9 DEF SpawnsFresh
  <2>2. \/ ge.dest = NoParent
        \/ ge.dest \in Owners /\ ge.item \in Items /\ ge.dest \in Objects \ dying
    BY <1>3, <1>5, <1>6, <1>9 DEF P!CanApply
  <2>3. OnSpawn(ge.dest, ge.item) /\ UNCHANGED dying
    BY <1>9 DEF ProcessEvent
  <2>4. (Hangs(ge.dest, ge.item) /\ sv' = Taken) \/ Refuses(ge.dest, ge.item)
    BY <1>1, <1>4, <2>1, <2>2, <2>3, SpawnHangs
  <2>5. ge.item \notin dying
    BY <1>1, <2>1 DEF ObjectsTyped
  <2> QED BY <1>2, <1>8, <1>9, <2>2, <2>4, <2>5
<1>10. CASE ge.kind = "take"
  <2>1. {ge.item, ge.dest} \subseteq Objects \ dying /\ held[ge.item] = NoParent
    BY <1>3, <1>5, <1>10 DEF P!CanApply
  <2>2. ge.dest \in Owners /\ ge.item \in Items
    BY <1>5, <1>6, <1>10, <2>1
  <2>3. OnTake(ge.dest, ge.item, held, inv) /\ UNCHANGED dying
    BY <1>10 DEF ProcessEvent
  <2>4. (Hangs(ge.dest, ge.item) /\ sv' = Taken) \/ Refuses(ge.dest, ge.item)
    BY <1>1, <2>1, <2>2, <2>3, TakeHangs
  <2> QED BY <1>2, <1>8, <1>10, <2>1, <2>2, <2>4
<1>11. CASE ge.kind = "reject"
  <2>1. ge.item \in Objects \ dying /\ m[ge.item] = ge.dest
    BY <1>3, <1>5, <1>11 DEF P!CanApply
  <2>2. OnReject(ge.dest, ge.item) /\ UNCHANGED dying
    BY <1>11 DEF ProcessEvent
  <2>3. DOMAIN a = Objects \ dying /\ a[ge.item] = NoParent
    BY <1>5, <1>7, <1>11, <2>1
  <2>4. CASE held[ge.item] = ge.dest
    <3>1. LeavesParent(ge.dest, ge.item)
      BY <1>1, <2>1, <2>2, <2>4, RejectLeaves
    <3>2. /\ Objects' = Objects /\ dying' = dying /\ held'[ge.item] = NoParent
          /\ \A x \in Objects : x # ge.item => held'[x] = held[x]
          /\ InventoryMatches' /\ ObjectsTyped'
      BY <1>1, <2>1, <3>1, LeavesShown
    <3>3. sv' = Taken /\ fault' = "none"
      BY <3>1 DEF LeavesParent
    <3> QED BY <1>2, <1>11, <2>3, <3>2, <3>3 DEF Outcome
  <2>5. CASE held[ge.item] # ge.dest
    <3>1. held[ge.item] = NoParent /\ ge.dest # NoParent
      BY <1>5, <2>1, <2>5
    <3>2. /\ held' = held /\ inv' = inv /\ dying' = dying /\ sv' = Taken
          /\ fault' \in {"none", "reject"}
      BY <1>1, <2>1, <2>2, <3>1, RejectOfRefused
    <3>3. Objects' = Objects /\ InventoryMatches' /\ ObjectsTyped'
      BY <1>1, <3>2 DEF Objects, InventoryMatches, ObjectsTyped
    <3> QED BY <1>2, <1>5, <1>11, <2>1, <2>3, <2>5, <3>1, <3>2, <3>3 DEF Outcome
  <2> QED BY <2>4, <2>5
<1>12. CASE ge.kind = "destroy"
  <2>1. /\ ge.item \in Objects \ dying
        /\ \A x \in Objects \ dying : held[x] # ge.item
    BY <1>3, <1>5, <1>12 DEF P!CanApply
  <2>2. OnDestroy(ge.item)
    BY <1>12 DEF ProcessEvent
  <2>3. /\ Objects' = Objects /\ dying' \cap Objects = (dying \cup {ge.item}) \cap Objects
        /\ held' = held /\ fault' = fault /\ sv' = Taken
        /\ InventoryMatches' /\ ObjectsTyped'
    BY <1>1, <2>1, <2>2, DestroyShown
  <2>4. DOMAIN a = (Objects \ dying) \ {ge.item}
    BY <1>5, <1>7, <1>12
  <2>5. Objects' \ dying' = DOMAIN a
    BY <2>3, <2>4
  <2>6. ge.item \notin DOMAIN a
    BY <2>4
  <2> QED BY <1>1, <1>2, <1>12, <2>3, <2>5, <2>6 DEF Outcome
<1> QED BY <1>4, <1>9, <1>10, <1>11, <1>12

\* A request that brings nothing new: it sends of what the server knows.
Tells == P!Sends(sv, sv', P!Changes(Known)) /\ Known' \subseteq Known

\* A request calls the server and changes nothing that the client shows.
LEMMA RequestCalls ==
  ASSUME NEW s, Request(s)
  PROVE  S!Call(s) /\ mirror' = mirror
<1>1. mirror' = mirror
  BY DEF Request, client, mirror, Objects
<1> QED BY <1>1 DEF Request, Running, S!Call, S!Running

\* The ranks of ServerEntities say that owners own items.
LEMMA OwnerOfItem ==
  ASSUME ClientAssumption, NEW p \in Owners, NEW e \in Items
  PROVE  S!MayOwn(p, e) /\ P!MayOwn(p, e) /\ p \in Ids /\ e \in Ids
<1>1. p \in Ids /\ e \in Ids /\ Rank[p] = 1 /\ Rank[e] = 0
  BY DEF Ids, Rank, ClientAssumption
<1> QED BY <1>1 DEF S!MayOwn, P!MayOwn

\* The requests about what is there are steps of the server and bring nothing new.
LEMMA PickUpTells ==
  ASSUME NEW m, ClientAssumption, Follows(m), NEW p \in Owners, NEW e \in Items, PickUp(p, e)
  PROVE  Tells /\ S!Requests
<1> DEFINE t == S!Process_event_ownership(sv, p, e)
<1>1. Request(t)
  BY DEF PickUp
<1>2. S!Ownership(p, e)
  BY <1>1, RequestCalls DEF S!Ownership
<1>3. S!Requests
  BY <1>2, OwnerOfItem DEF S!Requests
<1>4. t = P!Process_event_ownership(sv, p, e) /\ Known = P!Known(sv)
  BY SameRequests DEF Known, S!Known, P!Known
<1>5. P!Sends(sv, t, P!Changes(Known)) /\ P!Known(t) = Known
  BY <1>4, P!OwnershipSends, OwnerOfItem, Assumed DEF Follows
<1>6. sv' = t /\ Known' = P!Known(sv')
  BY <1>1 DEF Request, Known, S!Known, P!Known
<1> HIDE DEF t
<1> QED BY <1>3, <1>5, <1>6 DEF Tells

LEMMA DropTells ==
  ASSUME NEW m, ClientAssumption, Follows(m), NEW p \in Owners, NEW e \in Items, Drop(p, e)
  PROVE  Tells /\ S!Requests
<1> DEFINE t == S!Process_event_reject(sv, p, e)
<1>1. Request(t)
  BY DEF Drop
<1>2. S!Reject(p, e)
  BY <1>1, RequestCalls DEF S!Reject
<1>3. S!Requests
  BY <1>2, OwnerOfItem DEF S!Requests
<1>4. t = P!Process_event_reject(sv, p, e) /\ Known = P!Known(sv)
  BY SameRequests DEF Known, S!Known, P!Known
<1>5. P!Sends(sv, t, P!Changes(Known)) /\ P!Known(t) = Known
  BY <1>4, P!RejectSends, OwnerOfItem, Assumed DEF Follows
<1>6. sv' = t /\ Known' = P!Known(sv')
  BY <1>1 DEF Request, Known, S!Known, P!Known
<1> HIDE DEF t
<1> QED BY <1>3, <1>5, <1>6 DEF Tells

LEMMA EatTells ==
  ASSUME NEW m, ClientAssumption, Follows(m), NEW p \in Owners, NEW e \in Items, Eat(p, e)
  PROVE  Tells /\ S!Requests
<1> DEFINE t == S!ThenDestroy(S!Process_event_reject(sv, p, e), e)
<1>1. Request(t)
  BY DEF Eat
<1>2. S!Eat(p, e)
  BY <1>1, RequestCalls DEF S!Eat
<1>3. S!Requests
  BY <1>2, OwnerOfItem DEF S!Requests
<1>4. t = P!ThenDestroy(P!Process_event_reject(sv, p, e), e) /\ Known = P!Known(sv)
  BY SameRequests, SameChains DEF Known, S!Known, P!Known
<1>5. P!Sends(sv, t, P!Changes(Known)) /\ P!Known(t) \subseteq Known
  BY <1>4, P!EatSends, OwnerOfItem, Assumed DEF Follows
<1>6. sv' = t /\ Known' = P!Known(sv')
  BY <1>1 DEF Request, Known, S!Known, P!Known
<1> HIDE DEF t
<1> QED BY <1>3, <1>5, <1>6 DEF Tells

LEMMA TransferTells ==
  ASSUME NEW m, ClientAssumption, Follows(m), NEW p \in Owners, NEW q \in Owners, NEW e \in Items,
         TransferItem(p, e, q)
  PROVE  Tells /\ S!Requests
<1> DEFINE t == S!ThenOwnership(S!Process_event_reject(sv, p, e), q, e)
<1>1. Request(t)
  BY DEF TransferItem
<1>2. S!Transfer(p, e, q)
  BY <1>1, RequestCalls DEF S!Transfer
<1>3. S!Requests
  BY <1>2, OwnerOfItem DEF S!Requests
<1>4. t = P!ThenOwnership(P!Process_event_reject(sv, p, e), q, e) /\ Known = P!Known(sv)
  BY SameRequests, SameChains DEF Known, S!Known, P!Known
<1>5. P!Sends(sv, t, P!Changes(Known)) /\ P!Known(t) = Known
  BY <1>4, P!TransferSends, OwnerOfItem, Assumed DEF Follows
<1>6. sv' = t /\ Known' = P!Known(sv')
  BY <1>1 DEF Request, Known, S!Known, P!Known
<1> HIDE DEF t
<1> QED BY <1>3, <1>5, <1>6 DEF Tells

LEMMA DestroyTells ==
  ASSUME NEW m, ClientAssumption, Follows(m), NEW e \in Ids, DestroyObject(e)
  PROVE  Tells /\ [S!Requests]_(S!vars)
<1> DEFINE t == S!Process_event_destroy(sv, e)
<1>1. CASE e \in dying
  <2>1. Request(sv)
    BY <1>1 DEF DestroyObject
  <2>2. sv' = sv /\ mirror' = mirror
    BY <2>1, RequestCalls DEF Request
  <2>3. P!Sends(sv, sv, P!Changes(Known))
    BY ServerFacts, P!SendsNothing, Assumed
  <2>4. Known' = Known
    BY <2>2 DEF Known, S!Known
  <2> QED BY <2>2, <2>3, <2>4 DEF Tells, S!vars
<1>2. CASE e \notin dying
  <2>1. Request(t)
    BY <1>2 DEF DestroyObject
  <2>2. S!Destroy(e)
    BY <2>1, RequestCalls DEF S!Destroy
  <2>3. S!Requests
    BY <2>2 DEF S!Requests
  <2>4. t = P!Process_event_destroy(sv, e) /\ Known = P!Known(sv)
    BY SameRemovals DEF Known, S!Known, P!Known
  <2>5. P!Sends(sv, t, P!Changes(Known)) /\ P!Known(t) \subseteq Known
    BY <2>4, P!DestroySends, Assumed DEF Follows
  <2>6. sv' = t /\ Known' = P!Known(sv')
    BY <2>1 DEF Request, Known, S!Known, P!Known
  <2> HIDE DEF t
  <2> QED BY <2>3, <2>5, <2>6 DEF Tells
<1> QED BY <1>1, <1>2

\* What is appended is behind what was there.
LEMMA Appended ==
  ASSUME NEW E, NEW w \in Seq(E), NEW v \in Seq(E), NEW u, u = w \o v
  PROVE  /\ Len(u) = Len(w) + Len(v) /\ Len(w) \in Nat /\ Len(v) \in Nat
         /\ \A i \in 1..Len(w) : u[i] = w[i] /\ i \in 1..Len(u)
         /\ \A i \in 1..Len(u) : \/ i \in 1..Len(w) /\ u[i] = w[i]
                                 \/ i > Len(w) /\ i - Len(w) \in 1..Len(v)
                                               /\ u[i] = v[i - Len(w)]
<1>1. /\ Len(u) = Len(w) + Len(v) /\ Len(w) \in Nat /\ Len(v) \in Nat
      /\ \A i \in 1..(Len(w) + Len(v)) : u[i] = IF i <= Len(w) THEN w[i] ELSE v[i - Len(w)]
  BY ConcatProperties, LenProperties
<1> QED BY <1>1

\* The parts of the invariant that a request leaves alone.
Calm == UNCHANGED <<client, phase, due, fault>>

\* Parts that look at the client only are kept when it is left alone.
LEMMA CalmKeeps ==
  ASSUME NEW m, ClientInv(m), Calm
  PROVE  /\ fault' = "none" /\ ObjectsTyped' /\ InventoryMatches' /\ Objects' = Objects
         /\ (Len(sv.wire) <= Len(sv'.wire) /\ Len(sv'.wire) \in Nat => FrameTyped')
<1>1. Objects' = Objects /\ held' = held /\ inv' = inv /\ dying' = dying
  BY DEF Calm, client, Objects
<1>2. ObjectsTyped' /\ InventoryMatches'
  BY <1>1 DEF ClientInv, ObjectsTyped, InventoryMatches
<1>3. Follows(m)
  BY DEF ClientInv
<1>4. Len(sv.wire) \in Nat
  BY <1>3, ServerFacts
<1>5. Len(sv.wire) <= Len(sv'.wire) /\ Len(sv'.wire) \in Nat => FrameTyped'
  BY <1>1, <1>4 DEF ClientInv, FrameTyped, Calm
<1> QED BY <1>1, <1>2, <1>5 DEF ClientInv, Calm

\* A request that brings nothing new keeps the invariant: ALife has nothing of what it
\* is about, and no spawn behind it is of what it names.
LEMMA TellsKeeps ==
  ASSUME NEW m, ClientAssumption, ClientInv(m), Tells, Follows(m)', Calm,
         UNCHANGED <<luggage, switched>>
  PROVE  ClientInv(m)'
<1> DEFINE w == sv.wire
           E == P!Events
           C == P!Changes(Known)
<1>1. w \in Seq(E) /\ Follows(m)
  BY ServerFacts DEF ClientInv
<1>2. C \subseteq E
  BY DEF P!Changes
<1>3. PICK v \in Seq(C) : sv'.wire = w \o v
  BY DEF Tells, P!Sends
<1> DEFINE u == sv'.wire
<1>4. /\ \A ge \in C : /\ ge.kind # "spawn" /\ ge.item \in Known
                       /\ ge.kind = "take" => P!MayOwn(ge.dest, ge.item)
  BY DEF P!Changes
<1> HIDE DEF w, E, C, u
<1>5. v \in Seq(E)
  BY <1>2
<1>6. /\ Len(u) = Len(w) + Len(v) /\ Len(w) \in Nat /\ Len(v) \in Nat
      /\ \A i \in 1..Len(w) : u[i] = w[i] /\ i \in 1..Len(u)
      /\ \A i \in 1..Len(u) : \/ i \in 1..Len(w) /\ u[i] = w[i]
                              \/ i > Len(w) /\ i - Len(w) \in 1..Len(v)
                                            /\ u[i] = v[i - Len(w)]
  BY <1>1, <1>3, <1>5, Appended DEF u
<1>7. \A i \in 1..Len(u) : \/ i \in 1..Len(w) /\ u[i] = w[i]
                           \/ i > Len(w) /\ u[i] \in C
  <2>1. \A i \in 1..Len(v) : v[i] \in C
    BY ElementOfSeq
  <2> QED BY <1>6, <2>1
<1>8. fault' = "none" /\ ObjectsTyped' /\ InventoryMatches' /\ Objects' = Objects /\ FrameTyped'
  <2>1. Len(w) <= Len(u) /\ Len(u) \in Nat
    BY <1>6
  <2> QED BY <2>1, CalmKeeps DEF u, w
<1>9. SpawnsFresh'
  <2> SUFFICES ASSUME NEW i \in 1..Len(u), u[i].kind = "spawn"
               PROVE  /\ u[i].item \notin Objects
                      /\ \A j \in 1..(i-1) : u[j].item # u[i].item
    BY <1>8 DEF SpawnsFresh, u
  <2>1. i \in 1..Len(w) /\ u[i] = w[i]
    BY <1>4, <1>7
  <2>2. /\ w[i].item \notin Objects
        /\ \A j \in 1..(i-1) : w[j].item # w[i].item
    BY <2>1 DEF ClientInv, SpawnsFresh, w
  <2>3. \A j \in 1..(i-1) : j \in 1..Len(w)
    BY <2>1, <1>6
  <2> QED BY <2>1, <2>2, <2>3, <1>6
<1>10. OwnersOnWire'
  <2> SUFFICES ASSUME NEW i \in 1..Len(u), u[i].kind \in {"spawn", "take"}
               PROVE  u[i].dest = NoParent \/ P!MayOwn(u[i].dest, u[i].item)
    BY DEF OwnersOnWire, u, P!MayOwn
  <2> QED BY <1>4, <1>7 DEF ClientInv, OwnersOnWire, w
<1>11. LuggageKept'
  BY DEF ClientInv, LuggageKept, Offline, Group, Tells, P!MayOwn
<1>12. LuggageFar'
  <2> SUFFICES ASSUME NEW o \in Offline, NEW i \in 1..Len(u), u[i].item \in Group(o)
               PROVE  \/ phase = "shedule" /\ o \in switched
                      \/ phase = "drain" /\ i <= due
    BY DEF LuggageFar, Offline, Group, u, Calm
  <2>1. Group(o) \cap Known = {}
    BY DEF ClientInv, LuggageKept
  <2>2. i \in 1..Len(w) /\ u[i] = w[i]
    BY <1>4, <1>7, <2>1
  <2> QED BY <2>2 DEF ClientInv, LuggageFar, w
<1> QED BY <1>8, <1>9, <1>10, <1>11, <1>12 DEF ClientInv

\* One event at the end.
LEMMA AppendedOne ==
  ASSUME NEW E, NEW w \in Seq(E), NEW x \in E, NEW u, u = w \o <<x>>
  PROVE  /\ Len(u) = Len(w) + 1 /\ Len(w) \in Nat
         /\ \A i \in 1..Len(w) : u[i] = w[i] /\ i \in 1..Len(u)
         /\ \A i \in 1..Len(u) : \/ i \in 1..Len(w) /\ u[i] = w[i]
                                 \/ i = Len(w) + 1 /\ u[i] = x
<1>1. <<x>> \in Seq(E) /\ Len(<<x>>) = 1 /\ <<x>>[1] = x
  OBVIOUS
<1> QED BY <1>1, Appended

\* A spawn sends one event, of what the client has never seen or seen go.
Brings(e, p) ==
  /\ sv'.wire = sv.wire \o <<P!Spawned(e, p)>>
  /\ Known' = Known \cup {e}

\* A spawn that the server accepts brings an entity that is new to all; if it refuses,
\* it sends nothing.
LEMMA SpawnBrings ==
  ASSUME NEW m, ClientAssumption, Follows(m), ObjectsTyped, NEW e \in Ids, NEW p,
         p = NoParent \/ (p \in Ids /\ S!MayOwn(p, e)), SpawnNew(e, p)
  PROVE  (Tells \/ Brings(e, p)) /\ S!Requests
<1> DEFINE t == S!Process_spawn(sv, e, p)
<1>1. Request(t) /\ e \notin Known /\ e \notin Objects
  BY DEF SpawnNew, Fresh
<1>2. S!Spawn(e, p)
  <2>1. e \notin DOMAIN mirror
    BY <1>1 DEF mirror
  <2>2. e \notin S!Known(sv)
    BY <1>1 DEF Known
  <2> HIDE DEF mirror
  <2> QED BY <1>1, <2>1, <2>2, RequestCalls DEF S!Spawn
<1>3. S!Requests
  BY <1>2 DEF S!Requests
<1>4. t = P!Process_spawn(sv, e, p) /\ Known = P!Known(sv)
  BY SameRequests DEF Known, S!Known, P!Known
<1>5. \/ t = sv
      \/ t.wire = sv.wire \o <<P!Spawned(e, p)>> /\ P!Known(t) = Known \cup {e}
  <2>1. p \in Ids \cup {NoParent}
    OBVIOUS
  <2> QED BY <1>1, <1>4, <2>1, P!SpawnSends, Assumed DEF Follows
<1>6. sv' = t /\ Known' = P!Known(sv')
  BY <1>1 DEF Request, Known, S!Known, P!Known
<1> HIDE DEF t
<1>7. CASE t = sv
  <2>1. P!Sends(sv, sv, P!Changes(Known))
    BY ServerFacts, P!SendsNothing, Assumed
  <2> QED BY <1>3, <1>4, <1>6, <1>7, <2>1 DEF Tells
<1>8. CASE t # sv
  BY <1>3, <1>5, <1>6, <1>8 DEF Brings
<1> QED BY <1>7, <1>8

\* An entity that is new to all keeps the invariant.
LEMMA SpawnKeeps ==
  ASSUME NEW m, ClientAssumption, ClientInv(m), NEW e \in Ids, NEW p,
         p = NoParent \/ (p \in Ids /\ P!MayOwn(p, e)), Fresh(e), Brings(e, p),
         Follows(m)', Calm, UNCHANGED <<luggage, switched>>
  PROVE  ClientInv(m)'
<1> DEFINE w == sv.wire
           E == P!Events
           ge == P!Spawned(e, p)
           u == sv'.wire
<1>1. w \in Seq(E) /\ Follows(m)
  BY ServerFacts DEF ClientInv
<1>2. ge \in E /\ ge.kind = "spawn" /\ ge.item = e /\ ge.dest = p
  BY DEF P!Events, P!Spawned
<1>3. u = w \o <<ge>>
  BY DEF Brings
<1>4. /\ e \notin Known /\ e \notin Objects /\ e \notin Offline
      /\ \A o \in Offline : e \notin Group(o)
      /\ \A i \in 1..Len(w) : w[i].item # e
  BY DEF Fresh, Group
<1> HIDE DEF w, E, u, ge
<1>6. /\ Len(u) = Len(w) + 1 /\ Len(w) \in Nat
      /\ \A i \in 1..Len(w) : u[i] = w[i] /\ i \in 1..Len(u)
      /\ \A i \in 1..Len(u) : \/ i \in 1..Len(w) /\ u[i] = w[i]
                              \/ i = Len(w) + 1 /\ u[i] = ge
  BY <1>1, <1>2, <1>3, AppendedOne
<1>8. fault' = "none" /\ ObjectsTyped' /\ InventoryMatches' /\ Objects' = Objects /\ FrameTyped'
  <2>1. Len(w) <= Len(u) /\ Len(u) \in Nat
    BY <1>6
  <2> QED BY <2>1, CalmKeeps DEF u, w
<1>9. SpawnsFresh'
  <2> SUFFICES ASSUME NEW i \in 1..Len(u), u[i].kind = "spawn"
               PROVE  /\ u[i].item \notin Objects
                      /\ \A j \in 1..(i-1) : u[j].item # u[i].item
    BY <1>8 DEF SpawnsFresh, u
  <2>1. CASE i \in 1..Len(w) /\ u[i] = w[i]
    <3>1. /\ w[i].item \notin Objects
          /\ \A j \in 1..(i-1) : w[j].item # w[i].item
      BY <2>1 DEF ClientInv, SpawnsFresh, w
    <3>2. \A j \in 1..(i-1) : j \in 1..Len(w)
      BY <2>1, <1>6
    <3> QED BY <2>1, <3>1, <3>2, <1>6
  <2>2. CASE i = Len(w) + 1 /\ u[i] = ge
    <3>1. \A j \in 1..(i-1) : j \in 1..Len(w)
      BY <2>2, <1>6
    <3> QED BY <2>2, <3>1, <1>2, <1>4, <1>6
  <2> QED BY <2>1, <2>2, <1>6
<1>10. OwnersOnWire'
  <2> SUFFICES ASSUME NEW i \in 1..Len(u), u[i].kind \in {"spawn", "take"}
               PROVE  u[i].dest = NoParent \/ P!MayOwn(u[i].dest, u[i].item)
    BY DEF OwnersOnWire, u, P!MayOwn
  <2> QED BY <1>2, <1>6 DEF ClientInv, OwnersOnWire, w
<1>11. LuggageKept'
  <2>1. LuggageKept /\ Known' = Known \cup {e} /\ luggage' = luggage
    BY DEF ClientInv, Brings
  <2> QED BY <1>4, <2>1 DEF LuggageKept, Offline, Group, P!MayOwn
<1>12. LuggageFar'
  <2> SUFFICES ASSUME NEW o \in Offline, NEW i \in 1..Len(u), u[i].item \in Group(o)
               PROVE  \/ phase = "shedule" /\ o \in switched
                      \/ phase = "drain" /\ i <= due
    BY DEF LuggageFar, Offline, Group, u, Calm
  <2>2. i \in 1..Len(w) /\ u[i] = w[i]
    BY <1>2, <1>4, <1>6
  <2> QED BY <2>2 DEF ClientInv, LuggageFar, w
<1> QED BY <1>8, <1>9, <1>10, <1>11, <1>12 DEF ClientInv

\* A visit by ALife is a call of the server that the client does not see yet.
LEMMA VisitCalls ==
  ASSUME NEW e, NEW s, Visit(e, s)
  PROVE  /\ S!Call(s) /\ mirror' = mirror /\ sv' = s /\ Calm
         /\ phase = "shedule" /\ e \notin switched /\ switched' = switched \cup {e}
<1>1. mirror' = mirror
  BY DEF Visit, client, mirror, Objects
<1> QED BY <1>1 DEF Visit, Running, S!Call, S!Running, Calm, clock

\* e goes offline: the server sends of what it knows, and forgets e and its
\* children.
LEMMA OfflineTells ==
  ASSUME NEW m, ClientAssumption, Follows(m), NEW e \in Ids, SwitchOffline(e)
  PROVE  /\ Tells /\ S!Requests /\ Calm /\ phase = "shedule" /\ switched' = switched \cup {e}
         /\ e \in Known /\ Known' \cap ({e} \cup Listed(sv.children[e])) = {}
         /\ {e} \cup Listed(sv.children[e]) \subseteq Known
         /\ sv.children[e] \in Seq(Ids) /\ NoRepeat(sv.children[e])
         /\ \A x \in Listed(sv.children[e]) : P!MayOwn(e, x)
<1> DEFINE t == S!Perform_destroy(sv, e)
           k == sv.children[e]
<1>1. /\ Visit(e, t) /\ e \in Known /\ sv.ID_Parent[e] = NoParent
  BY DEF SwitchOffline
<1>2. S!Leave(e) /\ sv' = t
  BY <1>1, VisitCalls DEF S!Leave, Known
<1>3. S!Requests
  BY <1>2 DEF S!Requests
<1>4. t = P!Perform_destroy(sv, e) /\ Known = P!Known(sv)
  BY SameRemovals DEF Known, S!Known, P!Known
<1>5. P!Sends(sv, t, P!Changes(Known)) /\ P!Known(t) = Known \ P!Subtree(sv, e)
  BY <1>1, <1>4, P!PerformSends, Assumed DEF Follows
<1>6. Known' = P!Known(sv')
  BY DEF Known, S!Known, P!Known
<1>7. P!Good(sv) /\ P!Ranked(sv) /\ Known \subseteq Ids
  BY ServerFacts
<1>8. k \in Seq(Known) /\ NoRepeat(k) /\ Listed(k) = {x \in Known : sv.ID_Parent[x] = e}
  <2>1. sv.children \in [P!Known(sv) -> Seq(P!Known(sv))]
    BY <1>7 DEF P!Good, P!Typed
  <2>2. k \in Seq(Known)
    BY <1>1, <1>4, <2>1
  <2>3. P!NoRepeat(k) /\ P!Listed(k) = {x \in P!Known(sv) : sv.ID_Parent[x] = e}
    BY <1>1, <1>4, <1>7 DEF P!Good, P!Agree
  <2>4. NoRepeat(k)
    BY <2>3 DEF P!NoRepeat, NoRepeat
  <2> QED BY <1>4, <2>2, <2>3, <2>4, SameListed
<1> HIDE DEF t, k
<1>9. k \in Seq(Ids)
  BY <1>7, <1>8
<1>10. {e} \cup Listed(k) \subseteq P!Subtree(sv, e)
  <2>1. P!Intact(sv, P!Subtree(sv, e))
    BY <1>1, <1>4, <1>7, P!TreeIsIntact, Assumed
  <2>2. /\ e \in P!Subtree(sv, e)
        /\ \A x \in P!Known(sv) : sv.ID_Parent[x] \in P!Subtree(sv, e) => x \in P!Subtree(sv, e)
    BY <1>1, <1>4, <1>7, <2>1, P!SubtreeShape, Assumed
  <2> QED BY <1>4, <1>8, <2>2
<1>11. \A x \in Listed(k) : P!MayOwn(e, x)
  <2> SUFFICES ASSUME NEW x \in Listed(k) PROVE P!MayOwn(e, x)
    OBVIOUS
  <2>1. x \in Known /\ sv.ID_Parent[x] = e /\ e # NoParent
    BY <1>1, <1>7, <1>8 DEF ClientAssumption
  <2>2. Rank[e] > Rank[x]
    BY <1>4, <1>7, <2>1 DEF P!Ranked
  <2> QED BY <2>2 DEF P!MayOwn
<1>12. Tells
  BY <1>2, <1>5, <1>6 DEF Tells
<1>13. Calm /\ phase = "shedule" /\ switched' = switched \cup {e}
  BY <1>1, VisitCalls
<1>14. Known' \cap ({e} \cup Listed(k)) = {}
  BY <1>2, <1>5, <1>6, <1>10
<1>15. {e} \cup Listed(k) \subseteq Known
  BY <1>1, <1>8
<1> QED BY <1>1, <1>3, <1>8, <1>9, <1>11, <1>12, <1>13, <1>14, <1>15 DEF k

\* What comes online is not on the client, and no event is about it.
LEMMA LuggageFresh ==
  ASSUME NEW m, ClientAssumption, ClientInv(m), NEW e \in Offline, phase = "shedule",
         e \notin switched, NEW x \in Group(e)
  PROVE  /\ x \in Ids /\ x \notin Known /\ x \notin DOMAIN mirror /\ x \notin Objects
         /\ \A i \in 1..Len(sv.wire) : sv.wire[i].item # x
<1>1. x \notin Known
  BY DEF ClientInv, LuggageKept
<1>2. \A i \in 1..Len(sv.wire) : sv.wire[i].item # x
  BY DEF ClientInv, LuggageFar
<1>3. x \notin Objects \ dying
  BY <1>1, <1>2, MirrorGone DEF ClientInv
<1>4. DOMAIN mirror = Objects \ dying /\ dying = {}
  BY DEF mirror, ClientInv, FrameTyped
<1>5. x \in Ids
  <2>1. e \in Ids /\ luggage[e] \in Seq(Ids)
    BY DEF ClientInv, LuggageKept
  <2>2. Listed(luggage[e]) \subseteq Ids
    BY <2>1, ElementOfSeq DEF Listed
  <2> QED BY <2>1, <2>2 DEF Group
<1> HIDE DEF mirror
<1> QED BY <1>1, <1>2, <1>3, <1>4, <1>5

\* The events that bring e and its children.
Arrivals(e, kids) == <<P!Spawned(e, NoParent)>> \o P!KidsEvents(e, kids)

\* An entity that goes online is one the server and the client are free of, with all
\* that was saved with it: a step of ServerEntities.
LEMMA OnlineSends ==
  ASSUME NEW m, ClientAssumption, ClientInv(m), NEW e \in Offline, SwitchOnline(e)
  PROVE  /\ S!Requests /\ Calm /\ phase = "shedule" /\ e \notin switched
         /\ switched' = switched \cup {e}
         /\ sv'.wire = sv.wire \o Arrivals(e, luggage[e])
         /\ Known' = Known \cup Group(e)
<1> DEFINE k == luggage[e]
           t == S!Add_online(sv, e, k)
<1>1. Visit(e, t)
  BY DEF SwitchOnline
<1>2. /\ Calm /\ phase = "shedule" /\ e \notin switched /\ switched' = switched \cup {e}
      /\ S!Call(t) /\ sv' = t
  BY <1>1, VisitCalls
<1>3. e \in Ids /\ NoRepeat(k) /\ k \in S!Luggage(e)
  BY LuggageFits DEF ClientInv, LuggageKept
<1>4. Group(e) \cap (Known \cup DOMAIN mirror) = {}
  BY <1>2, LuggageFresh
<1>5. S!Enter(e, k)
  <2>1. (S!Listed(k) \cup {e}) \cap (S!Known(sv) \cup DOMAIN mirror) = {}
    BY <1>4, SameListed DEF Group, Known
  <2>2. S!NoRepeat(k)
    BY <1>3 DEF S!NoRepeat, NoRepeat
  <2> HIDE DEF mirror, k, t
  <2> QED BY <1>2, <2>1, <2>2 DEF S!Enter, t
<1>6. S!Requests
  BY <1>3, <1>5 DEF S!Requests
<1>7. t = P!Add_online(sv, e, k) /\ Known = P!Known(sv) /\ P!Listed(k) = Listed(k)
  BY SameRemovals, SameListed DEF Known, S!Known, P!Known
<1>8. /\ t.wire = sv.wire \o Arrivals(e, k)
      /\ P!Known(t) = Known \cup (Listed(k) \cup {e})
  <2>1. P!Following(m, sv)
    BY DEF ClientInv, Follows
  <2> HIDE DEF k, t
  <2>2. /\ P!Add_online(sv, e, k).wire =
             sv.wire \o (<<P!Spawned(e, NoParent)>> \o P!KidsEvents(e, k))
        /\ P!Known(P!Add_online(sv, e, k)) = P!Known(sv) \cup (P!Listed(k) \cup {e})
    BY <2>1, P!AddOnlineSends, Assumed
  <2> QED BY <1>7, <2>2 DEF Arrivals
<1>9. Known' = P!Known(sv')
  BY DEF Known, S!Known, P!Known
<1> HIDE DEF t
<1> QED BY <1>2, <1>6, <1>8, <1>9 DEF Group

\* Going offline keeps the invariant: what leaves the server is saved, and what was sent
\* about it is left of this visit.
LEMMA OfflineKeeps ==
  ASSUME NEW m, ClientAssumption, ClientInv(m), NEW e \in Ids, SwitchOffline(e), Follows(m)'
  PROVE  ClientInv(m)'
<1> DEFINE w == sv.wire
           E == P!Events
           C == P!Changes(Known)
           k == sv.children[e]
           u == sv'.wire
<1>1. w \in Seq(E) /\ Follows(m)
  BY ServerFacts DEF ClientInv
<1>2. /\ Tells /\ Calm /\ phase = "shedule" /\ switched' = switched \cup {e}
      /\ e \in Known /\ Known' \cap ({e} \cup Listed(k)) = {}
      /\ {e} \cup Listed(k) \subseteq Known
      /\ k \in Seq(Ids) /\ NoRepeat(k)
      /\ \A x \in Listed(k) : P!MayOwn(e, x)
  BY <1>1, OfflineTells
<1>3. /\ Offline' = Offline \cup {e} /\ luggage'[e] = k
      /\ \A o \in Offline : o # e => luggage'[o] = luggage[o]
  BY DEF SwitchOffline, Offline
<1>4. \A o \in Offline : Group(o) \cap Known = {} /\ o # e
  BY <1>2 DEF ClientInv, LuggageKept, Group
<1>5. /\ Group(e)' = {e} \cup Listed(k)
      /\ \A o \in Offline : Group(o)' = Group(o)
  BY <1>3, <1>4 DEF Group
<1>6. C \subseteq E /\ \A ge \in C : /\ ge.kind # "spawn" /\ ge.item \in Known
                                     /\ ge.kind = "take" => P!MayOwn(ge.dest, ge.item)
  BY DEF P!Changes
<1>7. PICK v \in Seq(C) : u = w \o v
  BY <1>2 DEF Tells, P!Sends
<1> HIDE DEF w, E, C, u, k
<1>8. v \in Seq(E)
  BY <1>6
<1>9. /\ Len(u) = Len(w) + Len(v) /\ Len(w) \in Nat /\ Len(v) \in Nat
      /\ \A i \in 1..Len(w) : u[i] = w[i] /\ i \in 1..Len(u)
      /\ \A i \in 1..Len(u) : \/ i \in 1..Len(w) /\ u[i] = w[i]
                              \/ i > Len(w) /\ i - Len(w) \in 1..Len(v)
                                            /\ u[i] = v[i - Len(w)]
  BY <1>1, <1>7, <1>8, Appended DEF u
<1>10. \A i \in 1..Len(u) : \/ i \in 1..Len(w) /\ u[i] = w[i]
                            \/ i > Len(w) /\ u[i] \in C
  <2>1. \A i \in 1..Len(v) : v[i] \in C
    BY ElementOfSeq
  <2> QED BY <1>9, <2>1
<1>11. fault' = "none" /\ ObjectsTyped' /\ InventoryMatches' /\ Objects' = Objects /\ FrameTyped'
  <2>1. Len(w) <= Len(u) /\ Len(u) \in Nat
    BY <1>9
  <2> QED BY <1>2, <2>1, CalmKeeps DEF u, w
<1>12. SpawnsFresh'
  <2> SUFFICES ASSUME NEW i \in 1..Len(u), u[i].kind = "spawn"
               PROVE  /\ u[i].item \notin Objects
                      /\ \A j \in 1..(i-1) : u[j].item # u[i].item
    BY <1>11 DEF SpawnsFresh, u
  <2>1. i \in 1..Len(w) /\ u[i] = w[i]
    BY <1>6, <1>10
  <2>2. /\ w[i].item \notin Objects
        /\ \A j \in 1..(i-1) : w[j].item # w[i].item
    BY <2>1 DEF ClientInv, SpawnsFresh, w
  <2>3. \A j \in 1..(i-1) : j \in 1..Len(w)
    BY <2>1, <1>9
  <2> QED BY <2>1, <2>2, <2>3, <1>9
<1>13. OwnersOnWire'
  <2> SUFFICES ASSUME NEW i \in 1..Len(u), u[i].kind \in {"spawn", "take"}
               PROVE  u[i].dest = NoParent \/ P!MayOwn(u[i].dest, u[i].item)
    BY DEF OwnersOnWire, u, P!MayOwn
  <2> QED BY <1>6, <1>10 DEF ClientInv, OwnersOnWire, w
<1>14. LuggageKept'
  <2>1. Offline' \subseteq Ids
    BY <1>3 DEF ClientInv, LuggageKept
  <2>2. ASSUME NEW o \in Offline'
        PROVE  /\ Group(o)' \cap Known' = {}
               /\ luggage'[o] \in Seq(Ids) /\ NoRepeat(luggage'[o])
               /\ \A x \in Listed(luggage'[o]) : P!MayOwn(o, x)
    <3>1. CASE o = e
      BY <1>2, <1>3, <1>5, <3>1
    <3>2. CASE o # e
      <4>1. o \in Offline /\ luggage'[o] = luggage[o] /\ Group(o)' = Group(o)
        BY <1>3, <1>5, <3>2
      <4>2. Known' \subseteq Known
        BY <1>2 DEF Tells
      <4> QED BY <4>1, <4>2 DEF ClientInv, LuggageKept
    <3> QED BY <3>1, <3>2
  <2>3. \A o, q \in Offline' : q # o => Group(o)' \cap Group(q)' = {}
    <3>1. \A o \in Offline : Group(o)' \cap Group(e)' = {}
      BY <1>2, <1>4, <1>5
    <3>2. \A o, q \in Offline : q # o => Group(o)' \cap Group(q)' = {}
      BY <1>5 DEF ClientInv, LuggageKept
    <3> QED BY <1>3, <3>1, <3>2
  <2> QED BY <2>1, <2>2, <2>3 DEF LuggageKept, P!MayOwn
<1>15. LuggageFar'
  <2>1. phase' = "shedule"
    BY <1>2 DEF Calm
  <2> SUFFICES ASSUME NEW o \in Offline', NEW i \in 1..Len(u), u[i].item \in Group(o)'
               PROVE  o \in switched'
    BY <2>1 DEF LuggageFar, u
  <2>2. CASE o = e
    BY <1>2, <2>2
  <2>3. CASE o # e
    <3>1. o \in Offline /\ u[i].item \in Group(o)
      BY <1>3, <1>5, <2>3
    <3>2. i \in 1..Len(w) /\ u[i] = w[i]
      BY <1>4, <1>6, <1>10, <3>1
    <3>3. o \in switched
      BY <1>2, <3>1, <3>2 DEF ClientInv, LuggageFar, w
    <3> QED BY <1>2, <3>3
  <2> QED BY <2>2, <2>3
<1> QED BY <1>11, <1>12, <1>13, <1>14, <1>15 DEF ClientInv

\* The events that bring e and its children are of them, one each.
LEMMA ArrivalsShape ==
  ASSUME ClientAssumption, NEW e \in Ids, NEW k \in Seq(Ids), NoRepeat(k),
         \A x \in Listed(k) : P!MayOwn(e, x), NEW v, v = Arrivals(e, k)
  PROVE  /\ v \in Seq(P!Events)
         /\ \A i \in 1..Len(v) : /\ v[i].kind = "spawn"
                                 /\ v[i].item \in {e} \cup Listed(k)
                                 /\ v[i].dest = NoParent \/ P!MayOwn(v[i].dest, v[i].item)
         /\ \A i, j \in 1..Len(v) : v[i].item = v[j].item => i = j
<1> DEFINE n == Len(k)
           a == <<P!Spawned(e, NoParent)>>
           b == P!KidsEvents(e, k)
           E == P!Events
<1>1. n \in Nat /\ \A i \in 1..n : k[i] \in Ids /\ k[i] \in Listed(k)
  BY LenProperties, ElementOfSeq DEF Listed
<1>2. /\ P!Spawned(e, NoParent) \in E
      /\ \A x \in Ids : P!Spawned(x, e) \in E
  BY DEF P!Spawned, P!Events
<1>3. b = [i \in 1..n |-> P!Spawned(k[i], e)]
  BY DEF P!KidsEvents
<1> HIDE DEF a, b, E
<1>4. a \in Seq(E) /\ Len(a) = 1 /\ a[1] = P!Spawned(e, NoParent)
  BY <1>2 DEF a
<1>5. b \in Seq(E) /\ Len(b) = n /\ \A i \in 1..n : b[i] = P!Spawned(k[i], e)
  <2>1. b \in [1..n -> E]
    BY <1>1, <1>2, <1>3
  <2>2. b \in Seq(E)
    BY <1>1, <2>1, SeqDef
  <2> HIDE DEF n
  <2> QED BY <1>1, <1>3, <2>1, <2>2, LenProperties
<1> HIDE DEF n
<1>6. /\ v \in Seq(E) /\ Len(v) = n + 1
      /\ v[1] = P!Spawned(e, NoParent)
      /\ \A i \in 2..(n + 1) : v[i] = P!Spawned(k[i-1], e)
  <2>1. v = a \o b
    BY DEF Arrivals, a, b
  <2>2. /\ v \in Seq(E) /\ Len(v) = n + 1
        /\ \A i \in 1..(n + 1) : v[i] = IF i <= 1 THEN a[i] ELSE b[i - 1]
    <3>1. /\ v \in Seq(E) /\ Len(v) = Len(a) + Len(b)
          /\ \A i \in 1..(Len(a) + Len(b)) :
               v[i] = IF i <= Len(a) THEN a[i] ELSE b[i - Len(a)]
      <4>1. a \in Seq(E) /\ b \in Seq(E)
        BY <1>4, <1>5
      <4> QED BY <2>1, <4>1, ConcatProperties
    <3>2. Len(a) + Len(b) = n + 1
      BY <1>1, <1>4, <1>5
    <3> QED BY <1>4, <3>1, <3>2
  <2>3. \A i \in 2..(n + 1) : i - 1 \in 1..n
    BY <1>1
  <2> QED BY <1>1, <1>4, <1>5, <2>2, <2>3
<1>7. \A x, p : P!Spawned(x, p).kind = "spawn" /\ P!Spawned(x, p).item = x
                /\ P!Spawned(x, p).dest = p
  BY DEF P!Spawned
<1>8. e \notin Listed(k)
  BY Assumed DEF P!MayOwn
<1>9. \A i \in 1..(n + 1) : i = 1 \/ (i \in 2..(n + 1) /\ i - 1 \in 1..n)
  BY <1>1
<1>10. \A i \in 1..(n + 1) : /\ v[i].kind = "spawn"
                             /\ v[i].item = IF i = 1 THEN e ELSE k[i-1]
                             /\ v[i].dest = IF i = 1 THEN NoParent ELSE e
  BY <1>6, <1>7, <1>9
<1>11. \A i, j \in 1..n : k[i] = k[j] => i = j
  BY DEF NoRepeat, n
<1>12. \A i, j \in 1..(n + 1) : v[i].item = v[j].item => i = j
  <2> SUFFICES ASSUME NEW i \in 1..(n + 1), NEW j \in 1..(n + 1), v[i].item = v[j].item
               PROVE  i = j
    OBVIOUS
  <2>1. CASE i = 1 \/ j = 1
    BY <1>1, <1>8, <1>9, <1>10, <2>1
  <2>2. CASE i # 1 /\ j # 1
    <3>1. i - 1 \in 1..n /\ j - 1 \in 1..n /\ k[i-1] = k[j-1]
      BY <1>9, <1>10, <2>2
    <3>2. i - 1 = j - 1
      BY <1>11, <3>1
    <3> QED BY <1>1, <3>2
  <2> QED BY <2>1, <2>2
<1>13. \A i \in 1..(n + 1) : /\ v[i].item \in {e} \cup Listed(k)
                             /\ v[i].dest = NoParent \/ P!MayOwn(v[i].dest, v[i].item)
  BY <1>1, <1>9, <1>10
<1> QED BY <1>6, <1>10, <1>12, <1>13 DEF E

\* Going online keeps the invariant: nothing on the wire is about what comes, because
\* ALife has not visited it in this frame and the last drain was complete.
LEMMA OnlineKeeps ==
  ASSUME NEW m, ClientAssumption, ClientInv(m), NEW e \in Offline, SwitchOnline(e), Follows(m)'
  PROVE  ClientInv(m)'
<1> DEFINE w == sv.wire
           E == P!Events
           G == Group(e)
           v == Arrivals(e, luggage[e])
           u == sv'.wire
<1>1. w \in Seq(E) /\ Follows(m)
  BY ServerFacts DEF ClientInv
<1>2. /\ Calm /\ phase = "shedule" /\ e \notin switched
      /\ switched' = switched \cup {e}
      /\ u = w \o v /\ Known' = Known \cup G
  BY OnlineSends
<1>3. /\ v \in Seq(E)
      /\ \A i \in 1..Len(v) : /\ v[i].kind = "spawn" /\ v[i].item \in G
                              /\ v[i].dest = NoParent \/ P!MayOwn(v[i].dest, v[i].item)
      /\ \A i, j \in 1..Len(v) : v[i].item = v[j].item => i = j
  <2>1. /\ e \in Ids /\ luggage[e] \in Seq(Ids) /\ NoRepeat(luggage[e])
        /\ \A x \in Listed(luggage[e]) : P!MayOwn(e, x)
    BY DEF ClientInv, LuggageKept
  <2> QED BY <2>1, ArrivalsShape DEF Group
<1>4. \A x \in G : /\ x \notin Objects
                   /\ \A i \in 1..Len(w) : w[i].item # x
  BY <1>2, LuggageFresh
<1>5. /\ Offline' = Offline \ {e}
      /\ \A o \in Offline' : luggage'[o] = luggage[o] /\ Group(o)' = Group(o)
                             /\ Group(o) \cap G = {}
  <2>1. Offline' = Offline \ {e} /\ \A o \in Offline' : luggage'[o] = luggage[o]
    BY DEF SwitchOnline, Offline
  <2>2. \A o \in Offline : o # e => Group(o) \cap Group(e) = {}
    BY DEF ClientInv, LuggageKept
  <2> QED BY <2>1, <2>2 DEF Group
<1> HIDE DEF w, E, G, v, u
<1>6. /\ Len(u) = Len(w) + Len(v) /\ Len(w) \in Nat /\ Len(v) \in Nat
      /\ \A i \in 1..Len(w) : u[i] = w[i] /\ i \in 1..Len(u)
      /\ \A i \in 1..Len(u) : \/ i \in 1..Len(w) /\ u[i] = w[i]
                              \/ i > Len(w) /\ i - Len(w) \in 1..Len(v)
                                            /\ u[i] = v[i - Len(w)]
  BY <1>1, <1>2, <1>3, Appended
<1>7. fault' = "none" /\ ObjectsTyped' /\ InventoryMatches' /\ Objects' = Objects /\ FrameTyped'
  <2>1. Len(w) <= Len(u) /\ Len(u) \in Nat
    BY <1>6
  <2> QED BY <1>2, <2>1, CalmKeeps DEF u, w
<1>8. SpawnsFresh'
  <2> SUFFICES ASSUME NEW i \in 1..Len(u), u[i].kind = "spawn"
               PROVE  /\ u[i].item \notin Objects
                      /\ \A j \in 1..(i-1) : u[j].item # u[i].item
    BY <1>7 DEF SpawnsFresh, u
  <2>1. CASE i \in 1..Len(w) /\ u[i] = w[i]
    <3>1. /\ w[i].item \notin Objects
          /\ \A j \in 1..(i-1) : w[j].item # w[i].item
      BY <2>1 DEF ClientInv, SpawnsFresh, w
    <3>2. \A j \in 1..(i-1) : j \in 1..Len(w)
      BY <2>1, <1>6
    <3> QED BY <2>1, <3>1, <3>2, <1>6
  <2>2. CASE i > Len(w) /\ i - Len(w) \in 1..Len(v) /\ u[i] = v[i - Len(w)]
    <3>1. u[i].item \in G /\ u[i].item \notin Objects
      BY <1>3, <1>4, <2>2
    <3>2. ASSUME NEW j \in 1..(i-1) PROVE u[j].item # u[i].item
      <4>1. j \in 1..Len(u) /\ j # i /\ i \in Nat /\ j \in Nat
        BY <1>6
      <4>2. CASE j \in 1..Len(w) /\ u[j] = w[j]
        BY <1>4, <3>1, <4>2
      <4>3. CASE j - Len(w) \in 1..Len(v) /\ u[j] = v[j - Len(w)]
        <5>1. j - Len(w) # i - Len(w)
          BY <1>6, <4>1
        <5> QED BY <1>3, <2>2, <4>3, <5>1
      <4> QED BY <1>6, <4>1, <4>2, <4>3
    <3> QED BY <3>1, <3>2
  <2> QED BY <1>6, <2>1, <2>2
<1>9. OwnersOnWire'
  <2> SUFFICES ASSUME NEW i \in 1..Len(u), u[i].kind \in {"spawn", "take"}
               PROVE  u[i].dest = NoParent \/ P!MayOwn(u[i].dest, u[i].item)
    BY DEF OwnersOnWire, u, P!MayOwn
  <2>1. CASE i \in 1..Len(w) /\ u[i] = w[i]
    BY <2>1 DEF ClientInv, OwnersOnWire, w
  <2>2. CASE i - Len(w) \in 1..Len(v) /\ u[i] = v[i - Len(w)]
    BY <1>3, <2>2
  <2> QED BY <1>6, <2>1, <2>2
<1>10. LuggageKept'
  <2>1. Offline' \subseteq Ids
    BY <1>5 DEF ClientInv, LuggageKept
  <2>2. ASSUME NEW o \in Offline'
        PROVE  /\ Group(o)' \cap Known' = {}
               /\ luggage'[o] \in Seq(Ids) /\ NoRepeat(luggage'[o])
               /\ \A x \in Listed(luggage'[o]) : P!MayOwn(o, x)
    <3>1. /\ Group(o)' = Group(o) /\ Group(o) \cap G = {} /\ luggage'[o] = luggage[o]
          /\ o \in Offline
      BY <1>5
    <3>2. /\ Group(o) \cap Known = {}
          /\ luggage[o] \in Seq(Ids) /\ NoRepeat(luggage[o])
          /\ \A x \in Listed(luggage[o]) : P!MayOwn(o, x)
      BY <3>1 DEF ClientInv, LuggageKept
    <3> QED BY <1>2, <3>1, <3>2
  <2>3. \A o, q \in Offline' : q # o => Group(o)' \cap Group(q)' = {}
    BY <1>5 DEF ClientInv, LuggageKept
  <2> QED BY <2>1, <2>2, <2>3 DEF LuggageKept, P!MayOwn
<1>11. LuggageFar'
  <2>1. phase' = "shedule"
    BY <1>2 DEF Calm
  <2> SUFFICES ASSUME NEW o \in Offline', NEW i \in 1..Len(u), u[i].item \in Group(o)'
               PROVE  o \in switched'
    BY <2>1 DEF LuggageFar, u
  <2>2. o \in Offline /\ u[i].item \in Group(o) /\ Group(o) \cap G = {}
    BY <1>5
  <2>3. i \in 1..Len(w) /\ u[i] = w[i]
    BY <1>3, <1>6, <2>2
  <2>4. o \in switched
    BY <1>2, <2>2, <2>3 DEF ClientInv, LuggageFar, w
  <2> QED BY <1>2, <2>4
<1> QED BY <1>7, <1>8, <1>9, <1>10, <1>11 DEF ClientInv

\* A reject that is on its way stays so, whatever is sent behind it.
LEMMA RefusedStays ==
  ASSUME NEW E, sv.wire \in Seq(E), NEW v \in Seq(E), sv'.wire = sv.wire \o v,
         NEW p, NEW x, Refused(p, x)
  PROVE  Refused(p, x)'
<1> DEFINE w == sv.wire
           u == sv'.wire
<1>1. PICK i \in 1..Len(w) : /\ w[i].kind = "reject" /\ w[i].dest = p /\ w[i].item = x
                             /\ \A j \in 1..(i-1) : w[j].item # x
  BY DEF Refused
<1> HIDE DEF w, u
<1>2. Len(w) \in Nat /\ \A j \in 1..Len(w) : u[j] = w[j] /\ j \in 1..Len(u)
  BY Appended DEF w, u
<1>3. \A j \in 1..(i-1) : j \in 1..Len(w)
  BY <1>2
<1>4. /\ i \in 1..Len(u) /\ u[i].kind = "reject" /\ u[i].dest = p /\ u[i].item = x
      /\ \A j \in 1..(i-1) : u[j].item # x
  BY <1>1, <1>2, <1>3
<1> QED BY <1>4 DEF Refused, u

\* So it is while the client applies events about others.
LEMMA RefusedShifts ==
  ASSUME NEW n \in Nat \ {0}, n = Len(sv.wire), Len(sv'.wire) \in Nat, n - 1 <= Len(sv'.wire),
         \A i \in 1..(n - 1) : sv'.wire[i] = sv.wire[i + 1],
         NEW p, NEW x, Refused(p, x), sv.wire[1].item # x
  PROVE  Refused(p, x)'
<1> DEFINE w == sv.wire
           u == sv'.wire
<1>1. PICK i \in 1..n : /\ w[i].kind = "reject" /\ w[i].dest = p /\ w[i].item = x
                        /\ \A j \in 1..(i-1) : w[j].item # x
  BY DEF Refused
<1>2. \A j \in 1..(n - 1) : u[j] = w[j + 1] /\ j \in 1..Len(u)
  <2> HIDE DEF w, u
  <2> QED BY DEF w, u
<1> HIDE DEF w, u
<1>3. i # 1
  BY <1>1 DEF w
<1>4. i - 1 \in 1..(n - 1) /\ (i - 1) + 1 = i
  BY <1>3
<1>5. \A j \in 1..((i-1)-1) : j \in 1..(n - 1) /\ j + 1 \in 1..(i-1)
  BY <1>4
<1>6. /\ i - 1 \in 1..Len(u) /\ u[i-1].kind = "reject" /\ u[i-1].dest = p /\ u[i-1].item = x
      /\ \A j \in 1..((i-1)-1) : u[j].item # x
  BY <1>1, <1>2, <1>4, <1>5
<1> QED BY <1>6 DEF Refused, u

\* Whatever is asked of the server, a client that is left alone follows it.
LEMMA AskFollows ==
  ASSUME NEW m, ClientAssumption, Follows(m), [S!Requests]_(S!vars), Calm,
         NEW v \in Seq(P!Events), sv'.wire = sv.wire \o v
  PROVE  Follows(m)'
<1>1. P!Following(m, sv')
  <2>1. CASE S!Requests
    BY <2>1, SameCalls, P!RequestsFollow, Assumed DEF Follows
  <2>2. CASE UNCHANGED S!vars
    BY <2>2 DEF S!vars, Follows
  <2> QED BY <2>1, <2>2
<1>2. WouldShow(m)'
  <2>1. held' = held /\ Objects' = Objects /\ dying' = dying
    BY DEF Calm, client, Objects
  <2>2. sv.wire \in Seq(P!Events)
    BY ServerFacts
  <2>3. \A x \in DOMAIN m : held[x] = m[x] \/ (held[x] = NoParent /\ Refused(m[x], x)')
    <3>1. \A x : Refused(m[x], x) => Refused(m[x], x)'
      BY <2>2, RefusedStays
    <3> QED BY <3>1 DEF Follows, WouldShow
  <2> QED BY <2>1, <2>3 DEF Follows, WouldShow
<1> QED BY <1>1, <1>2
    DEF Follows, P!Following, P!Good, P!Typed, P!Agree, P!Ranked, P!Caught, P!Known

\* Nothing happens to the server, nor to the parents the client shows.
LEMMA SameFollows ==
  ASSUME NEW m, Follows(m), sv' = sv, Objects' \ dying' = Objects \ dying,
         \A x \in Objects \ dying : held'[x] = held[x]
  PROVE  Follows(m)' /\ mirror' = mirror
<1>1. P!Following(m, sv')
  BY DEF Follows
<1>2. WouldShow(m)'
  BY DEF Follows, WouldShow, Refused
<1>3. Follows(m)'
  BY <1>1, <1>2
    DEF Follows, P!Following, P!Good, P!Typed, P!Agree, P!Ranked, P!Caught, P!Known
<1>4. mirror' = mirror
  <2>1. /\ mirror' = [x \in Objects' \ dying' |-> held'[x]]
        /\ mirror = [x \in Objects \ dying |-> held[x]]
    BY DEF mirror
  <2> HIDE DEF mirror, Objects
  <2> QED BY <2>1
<1> QED BY <1>3, <1>4

\* The program has stopped, if by an assertion of the client then by that of a reject.
Halted == ~Running /\ fault \in {"none", "reject"} /\ InventoryMatches

\* A reject that the server does not stop at leaves the item with nobody.
LEMMA RejectFrees ==
  ASSUME NEW s, P!Good(s), s.fault = "none", NEW p, NEW e,
         P!Process_event_reject(s, p, e).fault = "none"
  PROVE  P!Process_event_reject(s, p, e).ID_Parent[e] = NoParent
<1> DEFINE K == P!Known(s)
           d == P!Detached(s, p, e)
<1>1. /\ DOMAIN s = {"ID_Parent", "children", "wire", "fault"}
      /\ s.ID_Parent \in [K -> K \cup {NoParent}]
  BY DEF P!Good, P!Typed
<1>2. P!Fault(s, "reject: unknown entity").fault = "reject: unknown entity"
  BY <1>1 DEF P!Fault
<1>3. P!Fault(s, "reject: another parent").fault = "reject: another parent"
  BY <1>1 DEF P!Fault
<1>4. {p, e} \subseteq K
  BY <1>2 DEF P!Process_event_reject
<1>5. CASE s.ID_Parent[e] = NoParent
  BY <1>4, <1>5 DEF P!Process_event_reject
<1>6. CASE s.ID_Parent[e] # NoParent
  <2>1. s.ID_Parent[e] \in {p, NoParent}
    BY <1>3, <1>4, <1>6 DEF P!Process_event_reject
  <2>2. P!Process_event_reject(s, p, e) = P!SendBroadcast(d, <<P!Rejected(p, e)>>)
    BY <1>4, <1>6, <2>1 DEF P!Process_event_reject
  <2>3. DOMAIN d = DOMAIN s /\ d.ID_Parent = [s.ID_Parent EXCEPT ![e] = NoParent]
    BY <1>1 DEF P!Detached
  <2> HIDE DEF d
  <2>4. P!SendBroadcast(d, <<P!Rejected(p, e)>>).ID_Parent = d.ID_Parent
    BY <1>1, <2>3 DEF P!SendBroadcast
  <2>5. [s.ID_Parent EXCEPT ![e] = NoParent][e] = NoParent
    BY <1>1, <1>4
  <2> QED BY <2>2, <2>3, <2>4, <2>5
<1> QED BY <1>5, <1>6

\* What is left after an event: the rest of the wire, and behind it what was sent about
\* entities the server knows.
Rest(n, C) ==
  /\ Len(sv'.wire) \in Nat /\ n - 1 <= Len(sv'.wire)
  /\ \A i \in 1..(n - 1) : sv'.wire[i] = sv.wire[i + 1]
  /\ \A i \in 1..Len(sv'.wire) :
        (i + 1 \in 1..n /\ sv'.wire[i] = sv.wire[i + 1]) \/ sv'.wire[i] \in C

\* Handling the head and sending some events of C leaves such a rest.
LEMMA RestShape ==
  ASSUME NEW E, NEW C \in SUBSET E, NEW w \in Seq(E), w # <<>>, w = sv.wire,
         NEW v \in Seq(C), sv'.wire = Tail(w) \o v
  PROVE  Rest(Len(w), C)
<1>1. PICK a : a = Tail(w)
  OBVIOUS
<1>2. a \in Seq(E) /\ v \in Seq(E)
  BY <1>1
<1>3. PICK u : u = sv'.wire
  OBVIOUS
<1>4. /\ Len(u) = Len(a) + Len(v) /\ Len(a) \in Nat /\ Len(v) \in Nat
      /\ \A i \in 1..Len(a) : u[i] = a[i] /\ i \in 1..Len(u)
      /\ \A i \in 1..Len(u) : \/ i \in 1..Len(a) /\ u[i] = a[i]
                              \/ i > Len(a) /\ i - Len(a) \in 1..Len(v)
                                            /\ u[i] = v[i - Len(a)]
  BY <1>1, <1>2, <1>3, Appended
<1>5. /\ Len(w) \in Nat /\ Len(a) = Len(w) - 1
      /\ \A i \in 1..(Len(w) - 1) : a[i] = w[i + 1]
  BY <1>1, HeadTailProperties, LenProperties
<1>6. \A i \in 1..Len(v) : v[i] \in C
  BY ElementOfSeq
<1>7. \A i \in 1..(Len(w) - 1) : u[i] = w[i + 1] /\ i + 1 \in 1..Len(w)
  <2>1. \A n \in Nat : \A i \in 1..(n - 1) : i + 1 \in 1..n
    OBVIOUS
  <2>2. 1..Len(a) = 1..(Len(w) - 1)
    BY <1>5
  <2>3. \A i \in 1..(Len(w) - 1) : u[i] = w[i + 1]
    BY <1>4, <1>5, <2>2, Zenon
  <2> QED BY <1>5, <2>1, <2>3
<1>8. \A i \in 1..Len(u) : (i + 1 \in 1..Len(w) /\ u[i] = w[i + 1]) \/ u[i] \in C
  BY <1>4, <1>5, <1>6, <1>7
<1>9. Len(u) \in Nat /\ Len(w) - 1 <= Len(u)
  BY <1>4, <1>5
<1> QED BY <1>3, <1>7, <1>8, <1>9 DEF Rest

\* The parts of the invariant about the wire, after an event.
LEMMA RestKeeps ==
  ASSUME NEW m, ClientAssumption, ClientInv(m), ProcessEvent, Known' = Known,
         Objects' = (IF sv.wire[1].kind = "spawn" THEN Objects \cup {sv.wire[1].item} ELSE Objects),
         ObjectsTyped',
         NEW n \in Nat \ {0}, n = Len(sv.wire), Rest(n, P!Changes(Known))
  PROVE  FrameTyped' /\ SpawnsFresh' /\ OwnersOnWire' /\ LuggageKept' /\ LuggageFar'
<1> DEFINE w == sv.wire
           u == sv'.wire
           C == P!Changes(Known)
<1>1. FrameTyped /\ SpawnsFresh /\ OwnersOnWire /\ LuggageKept /\ LuggageFar
  BY DEF ClientInv
<1>2. /\ phase = "drain" /\ phase' = phase /\ due > 0 /\ due' = due - 1
      /\ luggage' = luggage /\ switched' = switched
  BY DEF ProcessEvent
<1>3. \A ge \in C : /\ ge.kind # "spawn" /\ ge.item \in Known
                    /\ ge.kind = "take" => P!MayOwn(ge.dest, ge.item)
  BY DEF P!Changes
<1>4. /\ Len(u) \in Nat /\ n - 1 <= Len(u)
      /\ \A i \in 1..(n - 1) : u[i] = w[i + 1]
      /\ \A i \in 1..Len(u) : (i + 1 \in 1..n /\ u[i] = w[i + 1]) \/ u[i] \in C
  BY DEF Rest
<1>5. n = Len(w)
  OBVIOUS
<1> HIDE DEF w, u, C
<1>6. FrameTyped'
  <2>1. due \in Nat /\ due <= n
    BY <1>1, <1>5 DEF FrameTyped, w
  <2>2. due' \in Nat /\ due' <= Len(u)
    BY <1>2, <1>4, <2>1
  <2>3. phase' = "drain"
    BY <1>2
  <2> QED BY <2>2, <2>3 DEF FrameTyped, u
<1>7. SpawnsFresh'
  <2> SUFFICES ASSUME NEW i \in 1..Len(u), u[i].kind = "spawn"
               PROVE  /\ u[i].item \notin Objects'
                      /\ \A j \in 1..(i-1) : u[j].item # u[i].item
    BY DEF SpawnsFresh, u
  <2>1. i + 1 \in 1..n /\ u[i] = w[i + 1] /\ i \in Nat /\ i <= Len(u)
    BY <1>3, <1>4
  <2>2. /\ w[i + 1].item \notin Objects
        /\ \A j \in 1..((i + 1) - 1) : w[j].item # w[i + 1].item
    BY <1>1, <1>5, <2>1 DEF SpawnsFresh, w
  <2>3. w[1].item # w[i + 1].item
    BY <2>1, <2>2
  <2>4. u[i].item \notin Objects'
    BY <2>1, <2>2, <2>3 DEF w
  <2>5. \A j \in 1..(i-1) : u[j] = w[j + 1] /\ j + 1 \in 1..((i + 1) - 1)
    BY <1>4, <2>1
  <2> QED BY <2>1, <2>2, <2>4, <2>5
<1>8. OwnersOnWire'
  <2> SUFFICES ASSUME NEW i \in 1..Len(u), u[i].kind \in {"spawn", "take"}
               PROVE  u[i].dest = NoParent \/ P!MayOwn(u[i].dest, u[i].item)
    BY DEF OwnersOnWire, u, P!MayOwn
  <2>1. CASE u[i] \in C
    BY <1>3, <2>1
  <2>2. CASE i + 1 \in 1..n /\ u[i] = w[i + 1]
    BY <1>1, <1>5, <2>2 DEF OwnersOnWire, w
  <2> QED BY <1>4, <2>1, <2>2
<1>9. LuggageKept'
  BY <1>1, <1>2 DEF LuggageKept, Offline, Group, P!MayOwn
<1>10. LuggageFar'
  <2> SUFFICES ASSUME NEW o \in Offline, NEW i \in 1..Len(u), u[i].item \in Group(o)
               PROVE  i <= due - 1
    BY <1>2 DEF LuggageFar, Offline, Group, u
  <2>1. Group(o) \cap Known = {}
    BY <1>1 DEF LuggageKept
  <2>2. i + 1 \in 1..n /\ w[i + 1].item \in Group(o) /\ i \in Nat
    BY <1>3, <1>4, <2>1
  <2>3. i + 1 <= due
    BY <1>1, <1>2, <1>5, <2>2 DEF LuggageFar, w
  <2>4. due \in Nat
    BY <1>1 DEF FrameTyped
  <2> QED BY <2>2, <2>3, <2>4
<1> QED BY <1>6, <1>7, <1>8, <1>9, <1>10

\* The client follows the server after an event, with the tree it says.
LEMMA RestShows ==
  ASSUME NEW m, Follows(m), NEW ge, ge = sv.wire[1],
         ge.kind \in {"spawn", "take", "reject", "destroy"}, NEW a, a = P!Apply(m, ge),
         Len(sv.wire) \in Nat \ {0}, NEW C, Rest(Len(sv.wire), C), P!Following(a, sv'),
         Objects' \ dying' = DOMAIN a,
         \A x \in DOMAIN a : x # ge.item => held'[x] = held[x],
         ge.item \in DOMAIN a => \/ held'[ge.item] = a[ge.item]
                                 \/ held'[ge.item] = NoParent /\ Refused(a[ge.item], ge.item)'
  PROVE  Follows(a)'
<1>1. \A x \in DOMAIN a : x # ge.item => x \in DOMAIN m /\ a[x] = m[x]
  <2>1. AfterEvent(m, ge, a)
    BY ApplyShape
  <2> QED BY <2>1 DEF AfterEvent
<1>2. ASSUME NEW x \in DOMAIN a, x # ge.item
      PROVE  held'[x] = a[x] \/ (held'[x] = NoParent /\ Refused(a[x], x)')
  <2>1. x \in DOMAIN m /\ a[x] = m[x] /\ held'[x] = held[x]
    BY <1>1, <1>2
  <2>2. CASE held[x] = m[x]
    BY <2>1, <2>2
  <2>3. CASE held[x] # m[x]
    <3>1. held[x] = NoParent /\ Refused(m[x], x)
      BY <2>1, <2>3 DEF Follows, WouldShow
    <3>2. Refused(m[x], x)'
      BY <1>2, <3>1, RefusedShifts DEF Rest
    <3> QED BY <2>1, <3>1, <3>2
  <2> QED BY <2>2, <2>3
<1>3. WouldShow(a)'
  BY <1>2 DEF WouldShow
<1> QED BY <1>3 DEF Follows, P!Following, P!Good, P!Typed, P!Agree, P!Ranked, P!Caught, P!Known

\* One event: the client follows on with it applied, unless the program stops at the
\* reject that a refusal made.
LEMMA EventKeeps ==
  ASSUME NEW m, ClientAssumption, ClientInv(m), ProcessEvent, NEW ge, ge = Head(sv.wire),
         NEW a, a = P!Apply(m, ge)
  PROVE  ClientInv(a)' \/ Halted'
<1> DEFINE n == Len(sv.wire)
           C == P!Changes(Known)
           E == P!Events
           p == ge.dest
           e == ge.item
<1>1. sv.wire # <<>> /\ Outcome(m, ge, a)
  BY EventEffect
<1>2. /\ Follows(m) /\ P!Following(m, sv)
      /\ sv.fault = "none" /\ fault = "none"
  BY DEF ClientInv, Follows, ProcessEvent, Running
<1>3. /\ ge \in E /\ n \in Nat \ {0} /\ ge = sv.wire[1]
      /\ Taken.wire = Tail(sv.wire) /\ Taken.ID_Parent = sv.ID_Parent /\ Taken.fault = sv.fault
      /\ Len(Taken.wire) = n - 1
      /\ \A i \in 1..(n - 1) : Taken.wire[i] = sv.wire[i + 1]
  BY <1>1, <1>2, HeadFacts
<1>4. P!Following(a, Taken)
  <2>1. P!Following(P!Apply(m, Head(sv.wire)), [sv EXCEPT !.wire = Tail(@)])
    BY <1>1, <1>2, P!HeadFollows, Assumed
  <2> QED BY <2>1 DEF Taken
<1>5. ge.kind \in {"spawn", "take", "reject", "destroy"} /\ e \in Ids
  BY <1>3 DEF P!Events
<1>6. Known = P!Known(Taken) /\ Known = P!Known(sv)
  BY <1>3 DEF Known, S!Known, P!Known
<1>7. Taken.wire \in Seq(E) /\ sv.wire \in Seq(E) /\ C \in SUBSET E
  BY <1>2, <1>4 DEF P!Following, P!Caught, P!Replays, P!Changes
<1>8. ASSUME NEW v \in Seq(C), sv'.wire = Taken.wire \o v, Known' = Known, fault' = "none",
             P!Following(a, sv'),
             e \in DOMAIN a => \/ held'[e] = a[e]
                               \/ held'[e] = NoParent /\ Refused(a[e], e)'
      PROVE  ClientInv(a)'
  <2>1. Rest(n, C)
    <3> HIDE DEF C, E
    <3>1. sv'.wire = Tail(sv.wire) \o v
      BY <1>3, <1>8
    <3> QED BY <1>1, <1>7, <3>1, RestShape
  <2>2. /\ InventoryMatches' /\ ObjectsTyped'
        /\ Objects' = IF ge.kind = "spawn" THEN Objects \cup {e} ELSE Objects
        /\ Objects' \ dying' = DOMAIN a
        /\ \A x \in DOMAIN a : x # e => held'[x] = held[x]
    BY <1>1 DEF Outcome
  <2>3. Follows(a)'
    <3>1. P!Following(a, sv') /\ Len(sv.wire) \in Nat \ {0} /\ ge = sv.wire[1]
      BY <1>3, <1>8
    <3>2. e \in DOMAIN a => \/ held'[e] = a[e]
                            \/ held'[e] = NoParent /\ Refused(a[e], e)'
      BY <1>8
    <3>3. Objects' \ dying' = DOMAIN a /\ \A x \in DOMAIN a : x # e => held'[x] = held[x]
      BY <2>2
    <3> HIDE DEF C, E
    <3> QED BY <1>2, <1>5, <2>1, <3>1, <3>2, <3>3, RestShows
  <2>4. FrameTyped' /\ SpawnsFresh' /\ OwnersOnWire' /\ LuggageKept' /\ LuggageFar'
    <3> HIDE DEF E
    <3> QED BY <1>3, <1>8, <2>1, <2>2, RestKeeps
  <2> QED BY <1>8, <2>2, <2>3, <2>4 DEF ClientInv
<1>9. CASE /\ sv' = Taken /\ fault' = "none"
           /\ e \in DOMAIN a => held'[e] = a[e]
  <2>1. Known' = Known
    BY <1>3, <1>9 DEF Known, S!Known
  <2>2. \E v \in Seq(C) : sv'.wire = Taken.wire \o v
    <3>1. P!Sends(Taken, Taken, C)
      BY <1>7, P!SendsNothing, Assumed
    <3> QED BY <1>9, <3>1 DEF P!Sends
  <2>3. P!Following(a, sv')
    BY <1>4, <1>9
  <2> QED BY <1>8, <1>9, <2>1, <2>2, <2>3
<1>10. CASE /\ Refuses(p, e)
            /\ e \in DOMAIN a /\ a[e] = p
  <2> DEFINE t == P!Process_event_reject(Taken, p, e)
  <2>1. sv' = t /\ p \in Owners /\ p \in Ids /\ p # NoParent
    BY <1>10, SameRequests DEF Refuses, Ids, ClientAssumption
  <2>2. fault' = "none" /\ held'[e] = NoParent
    BY <1>10, HangsShown DEF Refuses, Hangs
  <2>3. P!Following(a, t)
    BY <1>4, P!RejectFollows, Assumed
  <2>4. P!Sends(Taken, t, C) /\ P!Known(t) = Known
    BY <1>4, <1>5, <1>6, <2>1, P!RejectSends, Assumed
  <2>5. CASE t.fault # "none"
    <3>1. InventoryMatches'
      BY <1>1 DEF Outcome
    <3> HIDE DEF t
    <3> QED BY <2>1, <2>2, <2>5, <3>1 DEF Halted, Running
  <2>6. CASE t.fault = "none"
    <3>1. t.ID_Parent[e] = NoParent
      BY <1>2, <1>3, <1>4, <2>6, RejectFrees DEF P!Following
    <3> HIDE DEF t
    <3>2. P!Replays(a, t.wire, t.ID_Parent)
      BY <2>3 DEF P!Following, P!Caught
    <3>9. e \in DOMAIN a /\ a[e] = p /\ p # NoParent
      BY <1>10, <2>1
    <3>3. PICK i \in 1..Len(t.wire) : /\ t.wire[i] = P!Rejected(p, e)
                                      /\ \A j \in 1..(i-1) : t.wire[j].item # e
      BY <2>1, <3>1, <3>2, <3>9, P!ReplayLetsGo, Assumed
    <3>4. Refused(p, e)'
      BY <2>1, <3>3 DEF Refused, P!Rejected
    <3>5. Known' = Known
      BY <2>1, <2>4 DEF Known, S!Known, P!Known
    <3>6. \E v \in Seq(C) : sv'.wire = Taken.wire \o v
      BY <2>1, <2>4 DEF P!Sends
    <3>7. P!Following(a, sv')
      BY <2>1, <2>3
    <3> QED BY <1>8, <1>10, <2>2, <3>4, <3>5, <3>6, <3>7
  <2> QED BY <2>5, <2>6
<1>11. CASE fault' = "reject"
  <2>1. InventoryMatches'
    BY <1>1 DEF Outcome
  <2> QED BY <1>11, <2>1 DEF Halted, Running
<1> QED BY <1>1, <1>9, <1>10, <1>11 DEF Outcome

\* The steps of the frame that neither send nor apply.
LEMMA BeginDrainKeeps ==
  ASSUME NEW m, ClientInv(m), BeginDrain
  PROVE  ClientInv(m)' /\ UNCHANGED <<sv, mirror>>
<1>1. /\ sv' = sv /\ held' = held /\ inv' = inv /\ dying' = dying /\ luggage' = luggage
      /\ fault' = fault /\ phase' = "drain" /\ due' = Len(sv.wire) /\ phase = "shedule"
  BY DEF BeginDrain, client
<1>2. Objects' = Objects
  BY <1>1 DEF Objects
<1>3. Follows(m)' /\ mirror' = mirror
  BY <1>1, <1>2, SameFollows DEF ClientInv
<1>4. Len(sv.wire) \in Nat
  BY ServerFacts DEF ClientInv
<1>5. ObjectsTyped' /\ InventoryMatches' /\ SpawnsFresh' /\ OwnersOnWire' /\ fault' = "none"
  BY <1>1, <1>2 DEF ClientInv, ObjectsTyped, InventoryMatches, SpawnsFresh, OwnersOnWire, P!MayOwn
<1>6. FrameTyped'
  BY <1>1, <1>4 DEF FrameTyped
<1>7. LuggageKept'
  BY <1>1 DEF ClientInv, LuggageKept, Offline, Group, Known, S!Known, P!MayOwn
<1>8. LuggageFar'
  BY <1>1, <1>4 DEF LuggageFar
<1> QED BY <1>1, <1>3, <1>5, <1>6, <1>7, <1>8 DEF ClientInv

LEMMA EndDrainKeeps ==
  ASSUME NEW m, ClientInv(m), EndDrain
  PROVE  ClientInv(m)' /\ UNCHANGED <<sv, mirror>>
<1>1. /\ sv' = sv /\ held' = held /\ inv' = inv /\ dying' = dying /\ luggage' = luggage
      /\ fault' = fault /\ phase' = "update" /\ due' = due /\ due = 0 /\ phase = "drain"
  BY DEF EndDrain, client
<1>2. Objects' = Objects
  BY <1>1 DEF Objects
<1>3. Follows(m)' /\ mirror' = mirror
  BY <1>1, <1>2, SameFollows DEF ClientInv
<1>5. ObjectsTyped' /\ InventoryMatches' /\ SpawnsFresh' /\ OwnersOnWire' /\ fault' = "none"
  BY <1>1, <1>2 DEF ClientInv, ObjectsTyped, InventoryMatches, SpawnsFresh, OwnersOnWire, P!MayOwn
<1>6. FrameTyped'
  BY <1>1 DEF ClientInv, FrameTyped
<1>7. LuggageKept'
  BY <1>1 DEF ClientInv, LuggageKept, Offline, Group, Known, S!Known, P!MayOwn
<1>8. LuggageFar'
  <2>1. \A o \in Offline : \A i \in 1..Len(sv.wire) : sv.wire[i].item \notin Group(o)
    BY <1>1 DEF ClientInv, LuggageFar
  <2> QED BY <1>1, <2>1 DEF LuggageFar, Offline, Group
<1> QED BY <1>1, <1>3, <1>5, <1>6, <1>7, <1>8 DEF ClientInv

LEMMA DestroyQueueKeeps ==
  ASSUME NEW m, ClientInv(m), DestroyQueue
  PROVE  ClientInv(m)' /\ UNCHANGED <<sv, mirror>>
<1>1. /\ sv' = sv /\ dying' = {} /\ luggage' = luggage /\ fault' = fault
      /\ phase' = "shedule" /\ due' = due /\ phase = "update"
      /\ held' = [e \in Objects \ dying |-> held[e]]
      /\ inv' = [e \in Objects \ dying |-> inv[e]]
  BY DEF DestroyQueue
<1>2. Objects' = Objects \ dying
  BY <1>1 DEF Objects
<1>3. Follows(m)' /\ mirror' = mirror
  <2>1. Objects' \ dying' = Objects \ dying /\ \A e \in Objects \ dying : held'[e] = held[e]
    BY <1>1, <1>2
  <2> QED BY <1>1, <2>1, SameFollows DEF ClientInv
<1>5. ObjectsTyped'
  <2>1. ObjectsTyped
    BY DEF ClientInv
  <2> HIDE DEF Objects
  <2> QED BY <1>1, <1>2, <2>1 DEF ObjectsTyped
<1>6. InventoryMatches'
  BY <1>1, <1>2 DEF ClientInv, InventoryMatches
<1>7. SpawnsFresh' /\ OwnersOnWire' /\ fault' = "none"
  BY <1>1, <1>2 DEF ClientInv, SpawnsFresh, OwnersOnWire, P!MayOwn
<1>8. FrameTyped'
  BY <1>1 DEF ClientInv, FrameTyped
<1>9. LuggageKept'
  BY <1>1 DEF ClientInv, LuggageKept, Offline, Group, Known, S!Known, P!MayOwn
<1>10. LuggageFar'
  <2>1. \A o \in Offline : \A i \in 1..Len(sv.wire) : sv.wire[i].item \notin Group(o)
    BY <1>1 DEF ClientInv, LuggageFar
  <2> QED BY <1>1, <2>1 DEF LuggageFar, Offline, Group
<1> QED BY <1>1, <1>3, <1>5, <1>6, <1>7, <1>8, <1>9, <1>10 DEF ClientInv

\* Each request, and each visit, is a step of the server that keeps the invariant.
Asked(m) == ClientInv(m)' /\ [S!Requests]_(S!vars) /\ mirror' = mirror

\* What the client shows is not touched by a request.
LEMMA CalmMirror == Calm => mirror' = mirror
BY DEF Calm, client, mirror, Objects

\* A request that is told to the client leaves a tree that can follow.
LEMMA TellsFollows ==
  ASSUME NEW m, ClientAssumption, ClientInv(m), Tells, [S!Requests]_(S!vars), Calm
  PROVE  Follows(m)' /\ mirror' = mirror
<1>1. PICK v \in Seq(P!Changes(Known)) : sv'.wire = sv.wire \o v
  BY DEF Tells, P!Sends
<1>2. v \in Seq(P!Events)
  <2>1. P!Changes(Known) \subseteq P!Events
    BY DEF P!Changes
  <2> QED BY <2>1
<1> QED BY <1>1, <1>2, AskFollows, CalmMirror DEF ClientInv

\* Requests of that kind keep the invariant.
LEMMA RequestKeeps ==
  ASSUME NEW m, ClientAssumption, ClientInv(m), Tells, [S!Requests]_(S!vars), NEW s, Request(s)
  PROVE  Asked(m)
<1>1. Calm /\ UNCHANGED <<luggage, switched>>
  BY DEF Request, Calm, clock
<1> QED BY <1>1, TellsFollows, TellsKeeps DEF Asked

\* So does the spawn of a new entity.
LEMMA SpawnNewKeeps ==
  ASSUME NEW m, ClientAssumption, ClientInv(m), NEW e \in Ids, NEW p,
         p = NoParent \/ (p \in Owners /\ e \in Items), SpawnNew(e, p)
  PROVE  Asked(m)
<1>1. Follows(m) /\ ObjectsTyped
  BY DEF ClientInv
<1>2. p = NoParent \/ (p \in Ids /\ S!MayOwn(p, e) /\ P!MayOwn(p, e))
  BY OwnerOfItem
<1>3. (Tells \/ Brings(e, p)) /\ S!Requests
  BY <1>1, <1>2, SpawnBrings
<1>4. Request(S!Process_spawn(sv, e, p)) /\ Fresh(e)
  BY DEF SpawnNew
<1>5. Calm /\ UNCHANGED <<luggage, switched>>
  BY <1>4 DEF Request, Calm, clock
<1>6. CASE Tells
  BY <1>3, <1>5, <1>6, TellsFollows, TellsKeeps DEF Asked
<1>7. CASE Brings(e, p)
  <2>1. P!Spawned(e, p) \in P!Events
    BY <1>2 DEF P!Spawned, P!Events
  <2>2. <<P!Spawned(e, p)>> \in Seq(P!Events) /\ sv'.wire = sv.wire \o <<P!Spawned(e, p)>>
    BY <1>7, <2>1 DEF Brings
  <2>3. Follows(m)' /\ mirror' = mirror
    BY <1>1, <1>3, <1>5, <2>2, AskFollows, CalmMirror
  <2> QED BY <1>2, <1>3, <1>4, <1>5, <1>7, <2>3, SpawnKeeps DEF Asked
<1> QED BY <1>3, <1>6, <1>7

\* So does each request, and it is one of ServerEntities.
LEMMA RequestsKeep ==
  ASSUME NEW m, ClientAssumption, ClientInv(m), Requests
  PROVE  Asked(m)
<1> DEFINE Goal == Asked(m)
<1>0. Follows(m) /\ Actor \in Ids /\ Items \subseteq Ids /\ Offline \subseteq Ids
  BY DEF ClientInv, Ids, Owners, LuggageKept
<1> HIDE DEF Goal
<1>1. ASSUME SpawnNew(Actor, NoParent) PROVE Goal
  BY <1>0, <1>1, SpawnNewKeeps DEF Goal
<1>2. ASSUME NEW e \in Ids, DestroyObject(e) PROVE Goal
  <2>1. Tells /\ [S!Requests]_(S!vars)
    BY <1>0, <1>2, DestroyTells
  <2>2. \E s : Request(s)
    BY <1>2 DEF DestroyObject
  <2> QED BY <2>1, <2>2, RequestKeeps DEF Goal
<1>3. ASSUME NEW e \in Ids, SwitchOffline(e) PROVE Goal
  <2>1. Tells /\ S!Requests /\ Calm
    BY <1>0, <1>3, OfflineTells
  <2>2. Follows(m)' /\ mirror' = mirror
    BY <2>1, TellsFollows
  <2> QED BY <1>3, <2>1, <2>2, OfflineKeeps DEF Goal, Asked
<1>4. ASSUME NEW e \in Ids, SwitchOnline(e) PROVE Goal
  <2>1. e \in Offline
    BY <1>4 DEF SwitchOnline
  <2>2. /\ S!Requests /\ Calm /\ sv'.wire = sv.wire \o Arrivals(e, luggage[e])
    BY <1>4, <2>1, OnlineSends
  <2>3. Arrivals(e, luggage[e]) \in Seq(P!Events)
    <3>1. /\ luggage[e] \in Seq(Ids) /\ NoRepeat(luggage[e])
          /\ \A x \in Listed(luggage[e]) : P!MayOwn(e, x)
      BY <2>1 DEF ClientInv, LuggageKept
    <3> QED BY <3>1, ArrivalsShape
  <2>4. Follows(m)' /\ mirror' = mirror
    BY <1>0, <2>2, <2>3, AskFollows, CalmMirror
  <2> QED BY <1>4, <2>1, <2>2, <2>4, OnlineKeeps DEF Goal, Asked
<1>5. ASSUME NEW e \in Items, SpawnNew(e, NoParent) PROVE Goal
  BY <1>0, <1>5, SpawnNewKeeps DEF Goal
<1>6. ASSUME NEW e \in Items, NEW p \in Owners, SpawnNew(e, p) PROVE Goal
  BY <1>0, <1>6, SpawnNewKeeps DEF Goal
<1>7. ASSUME NEW e \in Items, NEW p \in Owners, PickUp(p, e) PROVE Goal
  <2>1. Tells /\ S!Requests
    BY <1>0, <1>7, PickUpTells
  <2>2. \E s : Request(s)
    BY <1>7 DEF PickUp
  <2> QED BY <2>1, <2>2, RequestKeeps DEF Goal
<1>8. ASSUME NEW e \in Items, NEW p \in Owners, Drop(p, e) PROVE Goal
  <2>1. Tells /\ S!Requests
    BY <1>0, <1>8, DropTells
  <2>2. \E s : Request(s)
    BY <1>8 DEF Drop
  <2> QED BY <2>1, <2>2, RequestKeeps DEF Goal
<1>9. ASSUME NEW e \in Items, NEW p \in Owners, Eat(p, e) PROVE Goal
  <2>1. Tells /\ S!Requests
    BY <1>0, <1>9, EatTells
  <2>2. \E s : Request(s)
    BY <1>9 DEF Eat
  <2> QED BY <2>1, <2>2, RequestKeeps DEF Goal
<1>10. ASSUME NEW e \in Items, NEW p \in Owners, NEW q \in Owners, TransferItem(p, e, q)
       PROVE  Goal
  <2>1. Tells /\ S!Requests
    BY <1>0, <1>10, TransferTells
  <2>2. \E s : Request(s)
    BY <1>10 DEF TransferItem
  <2> QED BY <2>1, <2>2, RequestKeeps DEF Goal
<1>11. Goal
  BY <1>1, <1>2, <1>3, <1>4, <1>5, <1>6, <1>7, <1>8, <1>9, <1>10 DEF Requests
<1> QED BY <1>11 DEF Goal

\* Every step but that of an event keeps the invariant with the same tree, and is one of
\* the server or none.
LEMMA QuietStep ==
  ASSUME NEW m, ClientAssumption, ClientInv(m), [ClientNext]_clientVars, ~ProcessEvent
  PROVE  Asked(m)
<1>1. CASE Requests
  BY <1>1, RequestsKeep
<1>2. CASE BeginDrain
  BY <1>2, BeginDrainKeeps DEF Asked, S!vars
<1>3. CASE EndDrain
  BY <1>3, EndDrainKeeps DEF Asked, S!vars
<1>4. CASE DestroyQueue
  BY <1>4, DestroyQueueKeeps DEF Asked, S!vars
<1>5. CASE UNCHANGED clientVars
  <2>1. /\ sv' = sv /\ held' = held /\ inv' = inv /\ dying' = dying /\ luggage' = luggage
        /\ fault' = fault /\ phase' = phase /\ due' = due /\ switched' = switched
    BY <1>5 DEF clientVars
  <2>2. Objects' = Objects
    BY <2>1 DEF Objects
  <2>3. Follows(m)' /\ mirror' = mirror
    BY <2>1, <2>2, SameFollows DEF ClientInv
  <2>4. ObjectsTyped' /\ InventoryMatches' /\ SpawnsFresh' /\ OwnersOnWire' /\ fault' = "none"
    BY <2>1, <2>2 DEF ClientInv, ObjectsTyped, InventoryMatches, SpawnsFresh, OwnersOnWire, P!MayOwn
  <2>5. FrameTyped' /\ LuggageFar'
    BY <2>1 DEF ClientInv, FrameTyped, LuggageFar, Offline, Group
  <2>6. LuggageKept'
    BY <2>1 DEF ClientInv, LuggageKept, Offline, Group, Known, S!Known, P!MayOwn
  <2> QED BY <2>1, <2>3, <2>4, <2>5, <2>6 DEF ClientInv, Asked, S!vars
<1> QED BY <1>1, <1>2, <1>3, <1>4, <1>5 DEF ClientNext, Frame, Stopped

\* Nothing happens any more once an assertion has failed.
LEMMA HaltedStays == Halted /\ [ClientNext]_clientVars => Halted'
<1> SUFFICES ASSUME Halted, [ClientNext]_clientVars PROVE Halted'
  OBVIOUS
<1>1. ~Running
  BY DEF Halted
<1>2. ASSUME NEW s PROVE ~Request(s)
  BY <1>1 DEF Request
<1>3. ASSUME NEW e, NEW s PROVE ~Visit(e, s)
  BY <1>1 DEF Visit
<1>4. ~Requests
  BY <1>2, <1>3 DEF Requests, SpawnNew, DestroyObject, SwitchOffline, SwitchOnline,
     PickUp, Drop, Eat, TransferItem
<1>5. ~Frame
  BY <1>1 DEF Frame, BeginDrain, ProcessEvent, EndDrain, DestroyQueue
<1>6. UNCHANGED clientVars
  BY <1>4, <1>5 DEF ClientNext, Stopped
<1> QED BY <1>6 DEF clientVars, Halted, Running, InventoryMatches, Objects

\* The client follows the server, with one tree or another, or the program has stopped.
Sound == (\E m : ClientInv(m)) \/ Halted

\* Each step of the client leaves a tree to follow, or stops the client.
LEMMA SoundStep ==
  ASSUME ClientAssumption, Sound, [ClientNext]_clientVars
  PROVE  Sound'
<1>1. CASE Halted
  BY <1>1, HaltedStays DEF Sound
<1>2. CASE \E m : ClientInv(m)
  <2>1. PICK m : ClientInv(m)
    BY <1>2
  <2>2. CASE ProcessEvent
    <3>1. PICK ge : ge = Head(sv.wire)
      OBVIOUS
    <3>2. PICK a : a = P!Apply(m, ge)
      OBVIOUS
    <3>3. ClientInv(a)' \/ Halted'
      BY <2>1, <2>2, <3>1, <3>2, EventKeeps
    <3> QED BY <3>3 DEF Sound
  <2>3. CASE ~ProcessEvent
    <3>1. ClientInv(m)'
      BY <2>1, <2>3, QuietStep DEF Asked
    <3> QED BY <3>1 DEF Sound
  <2> QED BY <2>2, <2>3
<1> QED BY <1>1, <1>2 DEF Sound

\* The tree the client follows with is the one it shows: it has taken all it was given.
Exact == \E m : m = mirror /\ ClientInv(m)

\* So it stays when a stalker can carry all the items, and each step is one of the
\* server, or of the client that applies its events, or neither.
LEMMA ExactStep ==
  ASSUME ClientAssumption, CanCarryAll, Exact, [ClientNext]_clientVars
  PROVE  Exact' /\ [S!Next]_(S!vars)
<1>1. PICK m : m = mirror /\ ClientInv(m)
  BY DEF Exact
<1>2. CASE ~ProcessEvent
  <2>1. Asked(m)
    BY <1>1, <1>2, QuietStep
  <2> QED BY <1>1, <2>1 DEF Asked, Exact, S!Next
<1>3. CASE ProcessEvent
  <2>1. PICK ge : ge = Head(sv.wire)
    OBVIOUS
  <2>2. PICK a : a = P!Apply(m, ge)
    OBVIOUS
  <2>3. sv.wire # <<>> /\ Outcome(m, ge, a) /\ (ClientInv(a)' \/ Halted')
    BY <1>1, <1>3, <2>1, <2>2, EventEffect, EventKeeps
  <2>4. /\ DOMAIN m = Objects \ dying /\ \A x \in DOMAIN m : held[x] = m[x]
    BY <1>1 DEF mirror
  <2>5. ~Refuses(ge.dest, ge.item)
    BY <1>1, HasRoom DEF Refuses, ClientInv
  <2>6. /\ sv' = Taken /\ fault' = "none"
        /\ ge.item \in DOMAIN a => held'[ge.item] = a[ge.item]
    BY <2>3, <2>4, <2>5 DEF Outcome
  <2>7. Follows(m) /\ sv.fault = "none"
    BY <1>1, <1>3 DEF ClientInv, ProcessEvent, Running
  <2>8. Taken.fault = sv.fault /\ ge \in P!Events
    BY <2>1, <2>3, <2>7, HeadFacts
  <2>9. ClientInv(a)'
    BY <2>3, <2>6, <2>7, <2>8 DEF Halted, Running
  <2>10. AfterEvent(m, ge, a)
    BY <2>2, <2>8, ApplyShape DEF P!Events
  <2>11. mirror' = a
    <3>1. mirror' = [x \in Objects' \ dying' |-> held'[x]]
      BY DEF mirror
    <3>2. Objects' \ dying' = DOMAIN a /\ \A x \in DOMAIN a : x # ge.item => held'[x] = held[x]
      BY <2>3 DEF Outcome
    <3>3. \A x \in DOMAIN a : held'[x] = a[x]
      BY <2>4, <2>6, <2>10, <3>2 DEF AfterEvent
    <3>4. a = [x \in DOMAIN a |-> a[x]]
      BY <2>10 DEF AfterEvent
    <3> HIDE DEF mirror, Objects
    <3> QED BY <3>1, <3>2, <3>3, <3>4
  <2>12. S!Receive
    <3>1. P!Apply(m, ge) = S!Apply(m, ge)
      BY DEF P!Apply, S!Apply
    <3> HIDE DEF mirror
    <3> QED BY <1>1, <2>1, <2>2, <2>3, <2>6, <2>11, <3>1 DEF S!Receive, Taken
  <2> QED BY <2>9, <2>11, <2>12 DEF Exact, S!Next
<1> QED BY <1>2, <1>3

\* The invariant holds in the beginning: nothing is there, and the stalkers are offline.
LEMMA ClientStart == ClientAssumption /\ ClientInit => Exact
<1> SUFFICES ASSUME ClientAssumption, ClientInit, NEW m, m = mirror PROVE ClientInv(m)
  BY DEF Exact
<1>1. /\ held = <<>> /\ inv = <<>> /\ dying = {} /\ phase = "shedule" /\ due = 0
      /\ fault = "none" /\ luggage = [e \in Stalkers |-> <<>>] /\ S!Init
  BY DEF ClientInit
<1>2. Objects = {} /\ DOMAIN m = Objects \ dying
  BY <1>1 DEF Objects, mirror
<1>3. Follows(m)
  <2>1. P!Following(mirror, sv)
    BY <1>1, SameInit, P!InitFollows, Assumed
  <2> QED BY <1>2, <2>1 DEF Follows, WouldShow
<1>4. sv.wire = <<>> /\ Known = {}
  BY <1>1 DEF S!Init, Known, S!Known
<1>5. ObjectsTyped
  BY <1>1, <1>2 DEF ObjectsTyped
<1>6. FrameTyped /\ SpawnsFresh /\ OwnersOnWire /\ LuggageFar /\ InventoryMatches
  BY <1>1, <1>2, <1>4 DEF FrameTyped, SpawnsFresh, OwnersOnWire, LuggageFar, InventoryMatches
<1>7. LuggageKept
  <2>1. Offline = Stalkers /\ \A o \in Offline : luggage[o] = <<>>
    BY <1>1 DEF Offline
  <2>2. Listed(<<>>) = {} /\ NoRepeat(<<>>) /\ <<>> \in Seq(Ids)
    BY DEF Listed, NoRepeat
  <2>3. \A o \in Offline : Group(o) = {o}
    BY <2>1, <2>2 DEF Group
  <2>4. Stalkers \subseteq Ids
    BY DEF Ids, Owners
  <2>5. \A o \in Offline :
          Group(o) \cap Known = {} /\ luggage[o] \in Seq(Ids) /\ NoRepeat(luggage[o])
    BY <1>4, <2>1, <2>2
  <2>6. \A o \in Offline : \A x \in Listed(luggage[o]) : P!MayOwn(o, x)
    BY <2>1, <2>2
  <2>7. \A o \in Offline : \A q \in Offline : q # o => Group(o) \cap Group(q) = {}
    BY <2>3
  <2> QED BY <2>1, <2>4, <2>5, <2>6, <2>7 DEF LuggageKept
<1> QED BY <1>1, <1>3, <1>5, <1>6, <1>7 DEF ClientInv

\* What every run of the client and its server is.
LEMMA AlwaysSound == ClientSpec => []Sound
<1>1. ClientAssumption /\ ClientInit => Sound
  BY ClientStart DEF Exact, Sound
<1>2. ClientAssumption /\ Sound /\ [ClientNext]_clientVars => Sound'
  BY SoundStep
<1> QED BY <1>1, <1>2, ClientAssumption, PTL DEF ClientSpec

\* And what it is when nobody refuses.
LEMMA AlwaysExact == CanCarryAll => (ClientSpec => []Exact)
<1> DEFINE I == Exact /\ CanCarryAll
<1>1. ClientAssumption /\ ClientInit /\ CanCarryAll => I
  BY ClientStart
<1>2. ClientAssumption /\ I /\ [ClientNext]_clientVars => I'
  BY ExactStep DEF CanCarryAll
<1>3. I => Exact
  OBVIOUS
<1> QED
  <2> HIDE DEF I
  <2> QED BY <1>1, <1>2, <1>3, ClientAssumption, PTL DEF ClientSpec

\* H_Parent and m_pCurrentInventory never part, nor does an object stay with a
\* parent that is to be destroyed, although takes, rejects and the destroy of the
\* parent come as events of their own, and some takes are refused.
THEOREM InventoryMatchesHolds == ClientSpec => []InventoryMatches
<1>1. Sound => InventoryMatches
  BY DEF Sound, ClientInv, Halted
<1> QED BY <1>1, AlwaysSound, PTL

\* Of the client's assertions only that of a reject can fail (it does: run client_full):
\* whatever is asked, however old what the asking object sees, whenever ALife takes
\* an owner with its inventory offline and back, and whoever refuses, a spawn finds its
\* id free and a take the item with nobody.
THEOREM OnlyRejectsFail == ClientSpec => [](fault \in {"none", "reject"})
<1>1. Sound => fault \in {"none", "reject"}
  BY DEF Sound, ClientInv, Halted
<1> QED BY <1>1, AlwaysSound, PTL

\* No assertion of the client fails when a stalker can carry all items: a reject finds
\* its item in that inventory, too.  The condition is needed: who cannot carry an item
\* answers with a reject that comes back to itself.
THEOREM ClientAcceptsHolds == CanCarryAll => (ClientSpec => []ClientAccepts)
<1>1. Exact => ClientAccepts
  BY DEF Exact, ClientInv, ClientAccepts
<1> QED BY <1>1, AlwaysExact, PTL

\* The client has applied what was sent: what it shows is what there is, what it refused
\* included, for the reject of that was sent too.
LEMMA SoundCaughtUp ==
  ASSUME ClientAssumption, Sound
  PROVE  CaughtUp
<1> SUFFICES ASSUME sv.wire = <<>>, dying = {}, Running PROVE held = sv.ID_Parent
  BY DEF CaughtUp
<1>1. PICK m : ClientInv(m)
  BY DEF Sound, Halted
<1>2. P!Replays(m, sv.wire, sv.ID_Parent) /\ P!Good(sv) /\ WouldShow(m)
  BY <1>1 DEF ClientInv, Follows, P!Following, P!Caught
<1>3. m = sv.ID_Parent
  BY <1>2 DEF P!Replays, P!Runs
<1>4. \A x : ~Refused(m[x], x)
  BY DEF Refused
<1>5. DOMAIN m = DOMAIN held /\ \A x \in DOMAIN held : held[x] = m[x]
  BY <1>2, <1>4 DEF WouldShow, Objects
<1>6. held = [e \in DOMAIN held |-> held[e]]
  BY <1>1 DEF ClientInv, ObjectsTyped, Objects
<1>7. sv.ID_Parent = [e \in DOMAIN sv.ID_Parent |-> sv.ID_Parent[e]]
  BY <1>2 DEF P!Good, P!Typed
<1> QED BY <1>3, <1>5, <1>6, <1>7

\* Once a drain has left nothing behind, the objects and their parents are those of
\* the server: no request or switch in between is lost or applied twice, and what a
\* stalker refused lies about on both sides.
THEOREM CaughtUpHolds == ClientSpec => []CaughtUp
<1>1. ClientAssumption /\ Sound => CaughtUp
  BY SoundCaughtUp
<1> QED BY <1>1, AlwaysSound, ClientAssumption, PTL

\* Server and client in one program are a run of ServerEntities: ALife comes with
\* entities the server and the client are free of, and the drain applies what was
\* sent in its order.  Here, too, nobody may refuse: the reject of a refusal is sent
\* while an event is applied, which is no step of ServerEntities.
THEOREM ImplementsServer == CanCarryAll => (ClientSpec => ServerSpec)
<1> DEFINE I == Exact /\ CanCarryAll
<1>1. ClientAssumption /\ ClientInit /\ CanCarryAll => I
  BY ClientStart
<1>2. ClientAssumption /\ I /\ [ClientNext]_clientVars => I'
  BY ExactStep DEF CanCarryAll
<1>3. ClientInit => S!Init
  BY DEF ClientInit
<1>4. ClientAssumption /\ I /\ [ClientNext]_clientVars => [S!Next]_(S!vars)
  BY ExactStep
<1> QED
  <2> HIDE DEF I
  <2> QED BY <1>1, <1>2, <1>3, <1>4, ClientAssumption, PTL DEF ClientSpec, ServerSpec, S!Spec
=============================================================================
