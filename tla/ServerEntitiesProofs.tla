------------------------- MODULE ServerEntitiesProofs -------------------------
(***************************************************************************)
(* The tree of entities holds together whatever the requests are: for any  *)
(* ids, ranks and bound.                                                   *)
(***************************************************************************)
EXTENDS ServerEntities, VectorsProofs, FiniteSetTheorems, TLAPS

\* The invariant, of one state of the server: TypeOK and Agreement.
Typed(s) ==
  /\ DOMAIN s = {"ID_Parent", "children", "wire", "fault"}
  /\ Known(s) \subseteq Ids
  /\ s.ID_Parent \in [Known(s) -> Known(s) \cup {NoParent}]
  /\ s.children \in [Known(s) -> Seq(Known(s))]

Good(s) == Typed(s) /\ Agree(s)

\* What an event carries and whether a call failed is not part of it.
LEMMA SendIsGood ==
  ASSUME NEW s, Good(s), NEW w
  PROVE  Good(SendBroadcast(s, w))
  <1>1. /\ DOMAIN SendBroadcast(s, w) = DOMAIN s
        /\ SendBroadcast(s, w).ID_Parent = s.ID_Parent
        /\ SendBroadcast(s, w).children = s.children
    BY DEF SendBroadcast, Good, Typed
  <1> QED BY <1>1 DEF Good, Typed, Agree, Known

LEMMA FaultIsGood ==
  ASSUME NEW s, Good(s), NEW site
  PROVE  Good(Fault(s, site))
  <1>1. /\ DOMAIN Fault(s, site) = DOMAIN s
        /\ Fault(s, site).ID_Parent = s.ID_Parent
        /\ Fault(s, site).children = s.children
    BY DEF Fault, Good, Typed
  <1> QED BY <1>1 DEF Good, Typed, Agree, Known

\* A free entity is attached to a parent that is there.
LEMMA AttachedIsGood ==
  ASSUME NEW s, Good(s), NEW e \in Known(s), NEW p \in Known(s), s.ID_Parent[e] = NoParent,
         EntityAssumption
  PROVE  Good(Attached(s, p, e))
  <1> DEFINE a == Attached(s, p, e)
  <1>1. /\ DOMAIN a = DOMAIN s
        /\ a.ID_Parent = [s.ID_Parent EXCEPT ![e] = p]
        /\ a.children = [s.children EXCEPT ![p] = Append(s.children[p], e)]
    BY DEF Attached, Good, Typed
  <1>2. /\ Known(a) = Known(s)
        /\ a.ID_Parent \in [Known(s) -> Known(s) \cup {NoParent}]
        /\ \A x \in Known(s) : a.ID_Parent[x] = IF x = e THEN p ELSE s.ID_Parent[x]
    BY <1>1 DEF Good, Typed, Known
  <1>3. /\ s.children[p] \in Seq(Known(s)) /\ NoRepeat(s.children[p])
        /\ Listed(s.children[p]) = {x \in Known(s) : s.ID_Parent[x] = p}
    BY DEF Good, Typed, Agree
  <1>4. e \notin Listed(s.children[p])
    BY <1>3 DEF EntityAssumption, Good, Typed
  <1>5. /\ Append(s.children[p], e) \in Seq(Known(s))
        /\ Listed(Append(s.children[p], e)) = Listed(s.children[p]) \cup {e}
        /\ NoRepeat(Append(s.children[p], e))
    BY <1>3, <1>4, AppendListed
  <1>6. /\ a.children \in [Known(s) -> Seq(Known(s))]
        /\ \A x \in Known(s) : a.children[x] = IF x = p THEN Append(s.children[p], e) ELSE s.children[x]
    BY <1>1, <1>5 DEF Good, Typed
  <1> HIDE DEF a
  <1>7. ASSUME NEW x \in Known(s)
        PROVE  /\ NoRepeat(a.children[x])
               /\ Listed(a.children[x]) = {y \in Known(s) : a.ID_Parent[y] = x}
    <2>1. CASE x = p
      <3>1. {y \in Known(s) : a.ID_Parent[y] = p} = {y \in Known(s) : s.ID_Parent[y] = p} \cup {e}
        BY <1>2
      <3>2. a.children[p] = Append(s.children[p], e)
        BY <1>6
      <3> QED BY <2>1, <3>1, <3>2, <1>3, <1>5
    <2>2. CASE x # p
      <3>1. /\ NoRepeat(s.children[x])
            /\ Listed(s.children[x]) = {y \in Known(s) : s.ID_Parent[y] = x}
        BY DEF Good, Agree
      <3>2. x # NoParent
        BY DEF Good, Typed, EntityAssumption
      <3> QED BY <2>2, <1>2, <1>6, <3>1, <3>2
    <2> QED BY <2>1, <2>2
  <1>8. Good(a)
    BY <1>1, <1>2, <1>6, <1>7 DEF Good, Typed, Agree
  <1> QED BY <1>8 DEF a

\* An entity is taken out of its parent's list.
LEMMA DetachedIsGood ==
  ASSUME NEW s, Good(s), NEW e \in Known(s), NEW p \in Known(s), s.ID_Parent[e] = p,
         EntityAssumption
  PROVE  Good(Detached(s, p, e))
  <1> DEFINE a == Detached(s, p, e)
  <1>1. /\ DOMAIN a = DOMAIN s
        /\ a.ID_Parent = [s.ID_Parent EXCEPT ![e] = NoParent]
        /\ a.children = [s.children EXCEPT ![p] = Erase(s.children[p], e)]
    BY DEF Detached, Good, Typed
  <1>2. /\ Known(a) = Known(s)
        /\ a.ID_Parent \in [Known(s) -> Known(s) \cup {NoParent}]
        /\ \A x \in Known(s) : a.ID_Parent[x] = IF x = e THEN NoParent ELSE s.ID_Parent[x]
    BY <1>1 DEF Good, Typed, Known
  <1>3. /\ s.children[p] \in Seq(Known(s)) /\ NoRepeat(s.children[p])
        /\ Listed(s.children[p]) = {x \in Known(s) : s.ID_Parent[x] = p}
    BY DEF Good, Typed, Agree
  <1>5. /\ Erase(s.children[p], e) \in Seq(Known(s))
        /\ Listed(Erase(s.children[p], e)) = Listed(s.children[p]) \ {e}
        /\ NoRepeat(Erase(s.children[p], e))
    BY <1>3, EraseListed
  <1>6. /\ a.children \in [Known(s) -> Seq(Known(s))]
        /\ \A x \in Known(s) : a.children[x] = IF x = p THEN Erase(s.children[p], e) ELSE s.children[x]
    BY <1>1, <1>5 DEF Good, Typed
  <1> HIDE DEF a
  <1>7. ASSUME NEW x \in Known(s)
        PROVE  /\ NoRepeat(a.children[x])
               /\ Listed(a.children[x]) = {y \in Known(s) : a.ID_Parent[y] = x}
    <2>3. x # NoParent
      BY DEF Good, Typed, EntityAssumption
    <2>1. CASE x = p
      <3>1. a.children[x] = Erase(s.children[p], e)
        BY <2>1, <1>6
      <3>2. {y \in Known(s) : a.ID_Parent[y] = x} = {y \in Known(s) : s.ID_Parent[y] = p} \ {e}
        BY <2>1, <2>3, <1>2
      <3> QED BY <3>1, <3>2, <1>3, <1>5
    <2>2. CASE x # p
      <3>1. /\ NoRepeat(s.children[x])
            /\ Listed(s.children[x]) = {y \in Known(s) : s.ID_Parent[y] = x}
        BY DEF Good, Agree
      <3>2. a.children[x] = s.children[x]
        BY <2>2, <1>6
      <3>3. \A y \in Known(s) : a.ID_Parent[y] = x <=> s.ID_Parent[y] = x
        BY <2>2, <2>3, <1>2
      <3> QED BY <3>1, <3>2, <3>3, Zenon
    <2> QED BY <2>1, <2>2
  <1>8. Good(a)
    BY <1>1, <1>2, <1>6, <1>7 DEF Good, Typed, Agree
  <1> QED BY <1>8 DEF a

-----------------------------------------------------------------------------
LEMMA SeqOfListed ==
  ASSUME NEW A, NEW q \in Seq(A), NEW B, Listed(q) \subseteq B
  PROVE  q \in Seq(B)
  <1>1. /\ Len(q) \in Nat
        /\ DOMAIN q = 1..Len(q)
        /\ q = [i \in 1..Len(q) |-> q[i]]
    BY LenProperties
  <1>2. \A i \in 1..Len(q) : q[i] \in B
    BY DEF Listed
  <1>3. q \in [1..Len(q) -> B]
    BY <1>1, <1>2
  <1> QED BY <1>1, <1>3, SeqDef

LEMMA EmptyListed == /\ Listed(<<>>) = {} /\ NoRepeat(<<>>)
                     /\ \A A : <<>> \in Seq(A)
  BY DEF Listed, NoRepeat

\* An entity enters, free and without children.
LEMMA EnteredIsGood ==
  ASSUME NEW s, Good(s), NEW e \in Ids, e \notin Known(s), EntityAssumption
  PROVE  /\ Good(Entered(s, e, NoParent, <<>>))
         /\ Known(Entered(s, e, NoParent, <<>>)) = Known(s) \cup {e}
         /\ Entered(s, e, NoParent, <<>>).ID_Parent[e] = NoParent
  <1> DEFINE a == Entered(s, e, NoParent, <<>>)
             K == Known(s) \cup {e}
  <1>1. /\ DOMAIN a = DOMAIN s
        /\ a.ID_Parent = [x \in K |-> IF x = e THEN NoParent ELSE s.ID_Parent[x]]
        /\ a.children = [x \in K |-> IF x = e THEN <<>> ELSE s.children[x]]
    BY DEF Entered, Good, Typed
  <1>2. Known(a) = K
    BY <1>1 DEF Known
  <1> HIDE DEF a
  <1>3. /\ \A x \in K : a.ID_Parent[x] = IF x = e THEN NoParent ELSE s.ID_Parent[x]
        /\ \A x \in K : a.children[x] = IF x = e THEN <<>> ELSE s.children[x]
        /\ DOMAIN a.ID_Parent = K /\ DOMAIN a.children = K
    BY <1>1
  <1>4. a.ID_Parent \in [K -> K \cup {NoParent}]
    BY <1>1 DEF Good, Typed
  <1>5. \A x \in K : a.children[x] \in Seq(K)
    <2> TAKE x \in K
    <2>1. CASE x = e
      BY <2>1, <1>3, EmptyListed
    <2>2. CASE x # e
      <3>1. s.children[x] \in Seq(Known(s)) /\ Listed(s.children[x]) \subseteq K
        BY <2>2 DEF Good, Typed, Agree
      <3>2. s.children[x] \in Seq(K)
        BY <3>1, SeqOfListed
      <3> QED BY <2>2, <3>2, <1>3
    <2> QED BY <2>1, <2>2
  <1>6. a.children \in [K -> Seq(K)]
    BY <1>1, <1>5
  <1>7. ASSUME NEW x \in K
        PROVE  /\ NoRepeat(a.children[x])
               /\ Listed(a.children[x]) = {y \in K : a.ID_Parent[y] = x}
    <2>1. CASE x = e
      <3>1. {y \in K : a.ID_Parent[y] = e} = {}
        BY <1>3 DEF Good, Typed, EntityAssumption
      <3> QED BY <2>1, <3>1, <1>3, EmptyListed
    <2>2. CASE x # e
      <3>1. x # NoParent
        BY DEF Good, Typed, EntityAssumption
      <3>2. {y \in K : a.ID_Parent[y] = x} = {y \in Known(s) : s.ID_Parent[y] = x}
        BY <2>2, <3>1, <1>3
      <3>3. a.children[x] = s.children[x]
        BY <2>2, <1>3
      <3> QED BY <2>2, <3>2, <3>3 DEF Good, Agree
    <2> QED BY <2>1, <2>2
  <1>8. Good(a)
    BY <1>1, <1>2, <1>4, <1>6, <1>7 DEF Good, Typed, Agree
  <1> QED BY <1>2, <1>3, <1>8 DEF a

\* What goes with e: all known, closed under children, and only e has its
\* parent outside.
LEMMA SubtreeShape ==
  ASSUME NEW s, Good(s), NEW e \in Known(s), Intact(s, Subtree(s, e)), EntityAssumption
  PROVE  /\ e \in Subtree(s, e)
         /\ Subtree(s, e) \subseteq Known(s)
         /\ \A x \in Known(s) : s.ID_Parent[x] \in Subtree(s, e) => x \in Subtree(s, e)
         /\ \A x \in Subtree(s, e) : x # e => s.ID_Parent[x] \in Subtree(s, e)
  <1> DEFINE S == Subtree(s, e)
             Closed(U) == e \in U /\ \A y \in U \cap Known(s) : Listed(s.children[y]) \subseteq U
  <1>1. S = {x \in Ids : \A U \in SUBSET Ids : Closed(U) => x \in U}
    BY DEF Subtree
  <1>2. S \subseteq Known(s) /\ Known(s) \subseteq Ids
    BY DEF Intact, Good, Typed
  <1>3. e \in S
    BY <1>1, <1>2
  <1>4. \A y \in Known(s) : Listed(s.children[y]) = {x \in Known(s) : s.ID_Parent[x] = y}
    BY DEF Good, Agree
  <1>5. ASSUME NEW x \in Known(s), s.ID_Parent[x] \in S
        PROVE  x \in S
    <2>1. x \in Listed(s.children[s.ID_Parent[x]])
      BY <1>5, <1>2, <1>4
    <2>2. ASSUME NEW U \in SUBSET Ids, Closed(U)
          PROVE  x \in U
      <3>1. s.ID_Parent[x] \in U
        BY <1>1, <1>5, <2>2
      <3> QED BY <3>1, <2>1, <2>2, <1>2, <1>5
    <2> QED BY <2>2, <1>1, <1>2
  <1>6. ASSUME NEW x \in S, x # e, s.ID_Parent[x] \notin S
        PROVE  FALSE
    <2> DEFINE U == S \ {x}
    <2>1. e \in U /\ U \in SUBSET Ids
      BY <1>2, <1>3, <1>6
    <2>2. ASSUME NEW y \in U \cap Known(s)
          PROVE  Listed(s.children[y]) \subseteq U
      <3>1. Listed(s.children[y]) = {z \in Known(s) : s.ID_Parent[z] = y}
        BY <1>4
      <3>2. \A z \in Known(s) : s.ID_Parent[z] = y => z \in S /\ z # x
        BY <1>5, <1>6
      <3> QED BY <3>1, <3>2
    <2>3. Closed(U)
      BY <2>1, <2>2
    <2>4. x \in U
      BY <2>1, <2>3, <1>1
    <2> QED BY <2>4
  <1> QED BY <1>2, <1>3, <1>5, <1>6

LEMMA PrunedIsGood ==
  ASSUME NEW s, Good(s), NEW e \in Known(s), Intact(s, Subtree(s, e)), EntityAssumption
  PROVE  Good(Pruned(s, Subtree(s, e), e))
  <1> DEFINE S == Subtree(s, e)
             a == Pruned(s, S, e)
             K == Known(s) \ S
             Kids(x) == IF x = s.ID_Parent[e] THEN Erase(s.children[x], e) ELSE s.children[x]
  <1>1. /\ DOMAIN a = DOMAIN s
        /\ a.ID_Parent = [x \in K |-> s.ID_Parent[x]]
        /\ a.children = [x \in K |-> Kids(x)]
    BY DEF Pruned, Good, Typed
  <1>2. Known(a) = K
    BY <1>1 DEF Known
  <1>3. /\ e \in S /\ S \subseteq Known(s)
        /\ \A x \in Known(s) : s.ID_Parent[x] \in S => x \in S
        /\ \A x \in S : x # e => s.ID_Parent[x] \in S
    BY SubtreeShape
  <1> HIDE DEF a, S
  <1>4. a.ID_Parent \in [K -> K \cup {NoParent}]
    <2>1. \A x \in K : s.ID_Parent[x] \in K \cup {NoParent}
      BY <1>3 DEF Good, Typed
    <2> QED BY <2>1, <1>1
  <1>5. ASSUME NEW x \in K
        PROVE  /\ NoRepeat(Kids(x))
               /\ Listed(Kids(x)) = {y \in K : s.ID_Parent[y] = x}
               /\ Kids(x) \in Seq(K)
    <2>1. /\ s.children[x] \in Seq(Known(s)) /\ NoRepeat(s.children[x])
          /\ Listed(s.children[x]) = {y \in Known(s) : s.ID_Parent[y] = x}
      BY DEF Good, Typed, Agree
    <2>2. {y \in K : s.ID_Parent[y] = x} =
            IF x = s.ID_Parent[e] THEN {y \in Known(s) : s.ID_Parent[y] = x} \ {e}
                                  ELSE {y \in Known(s) : s.ID_Parent[y] = x}
      BY <1>3
    <2>3. /\ Kids(x) \in Seq(Known(s)) /\ NoRepeat(Kids(x))
          /\ Listed(Kids(x)) = {y \in K : s.ID_Parent[y] = x}
      <3>1. CASE x = s.ID_Parent[e]
        BY <3>1, <2>1, <2>2, EraseListed
      <3>2. CASE x # s.ID_Parent[e]
        BY <3>2, <2>1, <2>2
      <3> QED BY <3>1, <3>2
    <2> HIDE DEF Kids
    <2>4. Kids(x) \in Seq(K)
      BY <2>3, SeqOfListed
    <2> QED BY <2>3, <2>4
  <1> HIDE DEF Kids
  <1>6. a.children \in [K -> Seq(K)]
    BY <1>1, <1>5
  <1>7. \A x \in K : /\ NoRepeat(a.children[x])
                     /\ Listed(a.children[x]) = {y \in K : a.ID_Parent[y] = x}
    BY <1>1, <1>5
  <1>8. Good(a)
    BY <1>1, <1>2, <1>4, <1>6, <1>7 DEF Good, Typed, Agree
  <1> QED BY <1>8 DEF a, S

\* An entity comes online with the children it was saved with.
LEMMA EnteredWithIsGood ==
  ASSUME NEW s, Good(s), NEW e \in Ids, NEW kids \in Seq(Ids), NoRepeat(kids),
         e \notin Listed(kids), (Listed(kids) \cup {e}) \cap Known(s) = {}, EntityAssumption
  PROVE  Good(EnteredWith(s, e, kids))
  <1> DEFINE a == EnteredWith(s, e, kids)
             L == Listed(kids)
             K == Known(s) \cup L \cup {e}
  <1>1. /\ DOMAIN a = DOMAIN s
        /\ DOMAIN a.ID_Parent = K /\ DOMAIN a.children = K
        /\ \A x \in K : a.ID_Parent[x] = IF x = e THEN NoParent ELSE IF x \in L THEN e ELSE s.ID_Parent[x]
        /\ \A x \in K : a.children[x] = IF x = e THEN kids ELSE IF x \in L THEN <<>> ELSE s.children[x]
        /\ a.ID_Parent = [x \in K |-> a.ID_Parent[x]]
        /\ a.children = [x \in K |-> a.children[x]]
    BY DEF EnteredWith, Good, Typed
  <1>2. Known(a) = K
    BY <1>1 DEF Known
  <1>3. L \subseteq Ids
    BY LenProperties DEF Listed
  <1>9. /\ e \notin L /\ e \notin Known(s) /\ L \cap Known(s) = {}
        /\ e # NoParent /\ NoParent \notin L /\ NoParent \notin Known(s)
        /\ \A y \in Known(s) : s.ID_Parent[y] \in Known(s) \cup {NoParent}
    BY <1>3 DEF Good, Typed, EntityAssumption
  <1> HIDE DEF a, L
  <1>4. a.ID_Parent \in [K -> K \cup {NoParent}]
    <2>1. \A x \in K : a.ID_Parent[x] \in K \cup {NoParent}
      BY <1>1 DEF Good, Typed
    <2> QED BY <2>1, <1>1
  <1>5. ASSUME NEW x \in K
        PROVE  /\ NoRepeat(a.children[x])
               /\ Listed(a.children[x]) = {y \in K : a.ID_Parent[y] = x}
               /\ a.children[x] \in Seq(K)
    <2>1. CASE x = e
      <3>1. \A y \in Known(s) : a.ID_Parent[y] # e
        BY <1>1, <1>9
      <3>4. a.ID_Parent[e] # e
        BY <1>1, <1>9
      <3>5. \A y \in L : a.ID_Parent[y] = e
        BY <1>1, <1>9
      <3>2. {y \in K : a.ID_Parent[y] = e} = L
        BY <3>1, <3>4, <3>5
      <3>3. kids \in Seq(K)
        BY SeqOfListed DEF L
      <3> QED BY <2>1, <3>2, <3>3, <1>1 DEF L
    <2>2. CASE x \in L /\ x # e
      <3>1. \A y \in K : a.ID_Parent[y] # x
        <4> SUFFICES ASSUME NEW y \in K, a.ID_Parent[y] = x PROVE FALSE
          OBVIOUS
        <4>1. CASE y = e \/ y \in L
          BY <4>1, <2>2, <1>1, <1>9
        <4>2. CASE y \in Known(s) /\ y # e /\ y \notin L
          <5>1. a.ID_Parent[y] = s.ID_Parent[y]
            BY <4>2, <1>1
          <5>2. s.ID_Parent[y] \in Known(s) \cup {NoParent}
            BY <4>2, <1>9
          <5> QED BY <5>1, <5>2, <2>2, <1>9
        <4> QED BY <4>1, <4>2
      <3>2. {y \in K : a.ID_Parent[y] = x} = {}
        BY <3>1
      <3> QED BY <2>2, <3>2, <1>1, EmptyListed
    <2>3. CASE x \in Known(s)
      <3>1. /\ s.children[x] \in Seq(Known(s)) /\ NoRepeat(s.children[x])
            /\ Listed(s.children[x]) = {y \in Known(s) : s.ID_Parent[y] = x}
            /\ x # NoParent /\ x # e /\ x \notin L
        BY <2>3 DEF Good, Typed, Agree, EntityAssumption, L
      <3>2. {y \in K : a.ID_Parent[y] = x} = {y \in Known(s) : s.ID_Parent[y] = x}
        BY <3>1, <1>1 DEF L
      <3>3. s.children[x] \in Seq(K)
        BY <3>1, SeqOfListed
      <3> QED BY <3>1, <3>2, <3>3, <1>1
    <2> QED BY <2>1, <2>2, <2>3
  <1>6. a.children \in [K -> Seq(K)]
    BY <1>1, <1>5
  <1>8. Good(a)
    BY <1>1, <1>2, <1>4, <1>5, <1>6, <1>3 DEF Good, Typed, Agree
  <1> QED BY <1>8 DEF a

-----------------------------------------------------------------------------
\* The handlers.
LEMMA SpawnIsGood ==
  ASSUME NEW s, Good(s), NEW e \in Ids, e \notin Known(s), NEW p, EntityAssumption
  PROVE  Good(Process_spawn(s, e, p))
  <1> DEFINE new == Entered(s, e, NoParent, <<>>)
  <1>1. Good(new) /\ Known(new) = Known(s) \cup {e} /\ new.ID_Parent[e] = NoParent
    BY EnteredIsGood
  <1>5. NoParent \notin Known(s)
    BY DEF Good, Typed, EntityAssumption
  <1> HIDE DEF new
  <1>2. CASE p = NoParent
    <2>1. Process_spawn(s, e, p) = SendBroadcast(new, <<Spawned(e, p)>>)
      BY <1>2, <1>5 DEF Process_spawn, new
    <2> QED BY <2>1, <1>1, SendIsGood
  <1>3. CASE p # NoParent /\ p \in Known(s)
    <2>1. Process_spawn(s, e, p) = SendBroadcast(Attached(new, p, e), <<Spawned(e, p)>>)
      BY <1>3 DEF Process_spawn, new
    <2>2. Good(Attached(new, p, e))
      BY <1>1, <1>3, AttachedIsGood
    <2> QED BY <2>1, <2>2, SendIsGood
  <1>4. CASE p # NoParent /\ p \notin Known(s)
    <2>1. Process_spawn(s, e, p) = s
      BY <1>4 DEF Process_spawn
    <2> QED BY <2>1
  <1> QED BY <1>2, <1>3, <1>4

LEMMA OwnershipIsGood ==
  ASSUME NEW s, Good(s), NEW e, NEW p, EntityAssumption
  PROVE  Good(Process_event_ownership(s, p, e))
  <1>1. CASE e \notin Known(s)
    <2>1. Process_event_ownership(s, p, e) = s
      BY <1>1 DEF Process_event_ownership
    <2> QED BY <2>1
  <1>2. CASE e \in Known(s) /\ p \notin Known(s)
    <2>1. Process_event_ownership(s, p, e) = Fault(s, "ownership: no parent")
      BY <1>2 DEF Process_event_ownership
    <2> QED BY <2>1, FaultIsGood
  <1>3. CASE e \in Known(s) /\ p \in Known(s)
    <2>1. CASE s.ID_Parent[e] # NoParent
      <3>1. Process_event_ownership(s, p, e) = s
        BY <1>3, <2>1 DEF Process_event_ownership
      <3> QED BY <3>1
    <2>2. CASE s.ID_Parent[e] = NoParent
      <3>1. Process_event_ownership(s, p, e) = SendBroadcast(Attached(s, p, e), <<Taken(p, e)>>)
        BY <1>3, <2>2 DEF Process_event_ownership
      <3>2. Good(Attached(s, p, e))
        BY <1>3, <2>2, AttachedIsGood
      <3> QED BY <3>1, <3>2, SendIsGood
    <2> QED BY <2>1, <2>2
  <1> QED BY <1>1, <1>2, <1>3

LEMMA RejectIsGood ==
  ASSUME NEW s, Good(s), NEW e, NEW p, EntityAssumption
  PROVE  Good(Process_event_reject(s, p, e))
  <1>1. CASE ~({p, e} \subseteq Known(s))
    <2>1. Process_event_reject(s, p, e) = Fault(s, "reject: unknown entity")
      BY <1>1 DEF Process_event_reject
    <2> QED BY <2>1, FaultIsGood
  <1>2. CASE {p, e} \subseteq Known(s) /\ s.ID_Parent[e] = NoParent
    <2>1. Process_event_reject(s, p, e) = s
      BY <1>2 DEF Process_event_reject
    <2> QED BY <2>1
  <1>3. CASE {p, e} \subseteq Known(s) /\ s.ID_Parent[e] \notin {p, NoParent}
    <2>1. Process_event_reject(s, p, e) = Fault(s, "reject: another parent")
      BY <1>3 DEF Process_event_reject
    <2> QED BY <2>1, FaultIsGood
  <1>4. CASE {p, e} \subseteq Known(s) /\ s.ID_Parent[e] = p
    <2>1. p # NoParent
      BY <1>4 DEF Good, Typed, EntityAssumption
    <2>2. Process_event_reject(s, p, e) = SendBroadcast(Detached(s, p, e), <<Rejected(p, e)>>)
      BY <1>4, <2>1 DEF Process_event_reject
    <2>3. Good(Detached(s, p, e))
      BY <1>4, DetachedIsGood
    <2> QED BY <2>2, <2>3, SendIsGood
  <1> QED BY <1>1, <1>2, <1>3, <1>4

LEMMA DestroyIsGood ==
  ASSUME NEW s, Good(s), NEW e, EntityAssumption
  PROVE  Good(Process_event_destroy(s, e))
  <1> DEFINE S == Subtree(s, e)
  <1>1. CASE e \notin Known(s)
    <2>1. Process_event_destroy(s, e) = s
      BY <1>1 DEF Process_event_destroy
    <2> QED BY <2>1
  <1>2. CASE e \in Known(s) /\ ~Intact(s, S)
    <2>1. Process_event_destroy(s, e) = Fault(s, "destroy: endless loop")
      BY <1>2 DEF Process_event_destroy
    <2> QED BY <2>1, FaultIsGood
  <1>3. CASE e \in Known(s) /\ Intact(s, S)
    <2>1. Process_event_destroy(s, e) = SendBroadcast(Pruned(s, S, e), EventPack(s, e))
      BY <1>3 DEF Process_event_destroy
    <2>2. Good(Pruned(s, S, e))
      BY <1>3, PrunedIsGood
    <2> QED BY <2>1, <2>2, SendIsGood
  <1> QED BY <1>1, <1>2, <1>3

LEMMA PerformIsGood ==
  ASSUME NEW s, Good(s), NEW e \in Known(s), EntityAssumption
  PROVE  Good(Perform_destroy(s, e))
  <1> DEFINE S == Subtree(s, e)
  <1>1. CASE s.ID_Parent[e] # NoParent \/ ~Intact(s, S)
    <2>1. Perform_destroy(s, e) = Fault(s, "Perform_destroy")
      BY <1>1 DEF Perform_destroy
    <2> QED BY <2>1, FaultIsGood
  <1>2. CASE ~(s.ID_Parent[e] # NoParent \/ ~Intact(s, S))
    <2>1. Perform_destroy(s, e) = SendBroadcast(Pruned(s, S, e), DestroyEvents(s, e))
      BY <1>2 DEF Perform_destroy
    <2>2. Good(Pruned(s, S, e))
      BY <1>2, PrunedIsGood
    <2> QED BY <2>1, <2>2, SendIsGood
  <1> QED BY <1>1, <1>2

LEMMA LuggageListed ==
  ASSUME EntityAssumption, NEW e \in Ids, NEW kids \in Luggage(e)
  PROVE  kids \in Seq(Ids) /\ Listed(kids) \subseteq Ids /\ e \notin Listed(kids)
  <1> DEFINE X == {x \in Ids : MayOwn(e, x)}
  <1>1. PICK n \in 0..LuggageBound : kids \in [1..n -> X]
    BY DEF Luggage
  <1>2. n \in Nat /\ X \subseteq Ids /\ e \notin X
    BY DEF EntityAssumption, MayOwn
  <1> HIDE DEF X
  <1>3. kids \in Seq(X) /\ Len(kids) = n
    BY <1>1, <1>2
  <1>4. Listed(kids) \subseteq X
    BY <1>3 DEF Listed
  <1> QED BY <1>2, <1>3, <1>4

LEMMA AddOnlineIsGood ==
  ASSUME NEW s, Good(s), NEW e \in Ids, NEW kids \in Seq(Ids), NoRepeat(kids),
         e \notin Listed(kids), \A x \in Listed(kids) \cup {e} : x \notin Known(s),
         EntityAssumption
  PROVE  Good(Add_online(s, e, kids))
  <1>1. (Listed(kids) \cup {e}) \cap Known(s) = {}
    OBVIOUS
  <1>2. Good(EnteredWith(s, e, kids))
    BY <1>1, EnteredWithIsGood
  <1> QED BY <1>2, SendIsGood DEF Add_online

-----------------------------------------------------------------------------
Inv == Good(sv)

LEMMA InitInv == Init => Inv
  <1> SUFFICES ASSUME Init
               PROVE  Inv
    OBVIOUS
  <1>1. /\ DOMAIN sv = {"ID_Parent", "children", "wire", "fault"}
        /\ sv.ID_Parent = <<>> /\ sv.children = <<>>
    BY DEF Init
  <1>2. Known(sv) = {} /\ DOMAIN sv.children = {}
    BY <1>1 DEF Known
  <1>3. /\ sv.ID_Parent \in [Known(sv) -> Known(sv) \cup {NoParent}]
        /\ sv.children \in [Known(sv) -> Seq(Known(sv))]
    BY <1>1, <1>2
  <1> QED BY <1>1, <1>2, <1>3 DEF Inv, Good, Typed, Agree

\* A call keeps the invariant when its handler does.
LEMMA CallInv ==
  ASSUME NEW s, Good(s), Call(s)
  PROVE  Inv'
  BY DEF Call, Inv, Good, Typed, Agree, Known

LEMMA TransferInv ==
  ASSUME Inv, EntityAssumption, NEW p, NEW e, NEW q, Transfer(p, e, q)
  PROVE  Inv'
  <1> DEFINE t == Process_event_reject(sv, p, e)
  <1>1. Good(t)
    BY RejectIsGood DEF Inv
  <1> HIDE DEF t
  <1>2. Good(ThenOwnership(t, q, e))
    <2>1. CASE t.fault = "none"
      BY <2>1, <1>1, OwnershipIsGood DEF ThenOwnership
    <2>2. CASE t.fault # "none"
      BY <2>2, <1>1 DEF ThenOwnership
    <2> QED BY <2>1, <2>2
  <1> QED BY <1>2, CallInv DEF Transfer, t

LEMMA EatInv ==
  ASSUME Inv, EntityAssumption, NEW p, NEW e, Eat(p, e)
  PROVE  Inv'
  <1> DEFINE t == Process_event_reject(sv, p, e)
  <1>1. Good(t)
    BY RejectIsGood DEF Inv
  <1> HIDE DEF t
  <1>2. Good(ThenDestroy(t, e))
    <2>1. CASE t.fault = "none"
      BY <2>1, <1>1, DestroyIsGood DEF ThenDestroy
    <2>2. CASE t.fault # "none"
      BY <2>2, <1>1 DEF ThenDestroy
    <2> QED BY <2>1, <2>2
  <1> QED BY <1>2, CallInv DEF Eat, t

LEMMA ReceiveInv ==
  ASSUME Inv, Receive
  PROVE  Inv'
  <1>1. /\ DOMAIN sv' = DOMAIN sv
        /\ sv'.ID_Parent = sv.ID_Parent
        /\ sv'.children = sv.children
    BY DEF Receive, Inv, Good, Typed
  <1> QED BY <1>1 DEF Inv, Good, Typed, Agree, Known

LEMMA NextInv == EntityAssumption /\ Inv /\ [Next]_vars => Inv'
  <1> SUFFICES ASSUME EntityAssumption, Inv, [Next]_vars
               PROVE  Inv'
    OBVIOUS
  <1>0. Good(sv)
    BY DEF Inv
  <1>1. CASE Requests
    <2> PICK e \in Ids :
          \/ Spawn(e, NoParent)
          \/ Destroy(e)
          \/ Leave(e)
          \/ \E kids \in Luggage(e) : Enter(e, kids)
          \/ \E p \in Ids :
               /\ MayOwn(p, e)
               /\ \/ Spawn(e, p)
                  \/ Ownership(p, e)
                  \/ Reject(p, e)
                  \/ Eat(p, e)
                  \/ \E q \in Ids : MayOwn(q, e) /\ Transfer(p, e, q)
      BY <1>1 DEF Requests
    <2>1. ASSUME NEW p, Spawn(e, p)
          PROVE  Inv'
      BY <2>1, <1>0, SpawnIsGood, CallInv DEF Spawn
    <2>2. CASE Destroy(e)
      BY <2>2, <1>0, DestroyIsGood, CallInv DEF Destroy
    <2>3. CASE Leave(e)
      BY <2>3, <1>0, PerformIsGood, CallInv DEF Leave
    <2>4. ASSUME NEW p \in Ids, Ownership(p, e)
          PROVE  Inv'
      BY <2>4, <1>0, OwnershipIsGood, CallInv DEF Ownership
    <2>5. ASSUME NEW p \in Ids, Reject(p, e)
          PROVE  Inv'
      BY <2>5, <1>0, RejectIsGood, CallInv DEF Reject
    <2>6. ASSUME NEW kids \in Luggage(e), Enter(e, kids)
          PROVE  Inv'
      <3>1. kids \in Seq(Ids) /\ e \notin Listed(kids)
        BY LuggageListed
      <3> QED BY <3>1, <2>6, <1>0, AddOnlineIsGood, CallInv DEF Enter
    <2> QED BY <2>1, <2>2, <2>3, <2>4, <2>5, <2>6, EatInv, TransferInv
  <1>2. CASE Receive
    BY <1>2, ReceiveInv
  <1>3. CASE Stopped \/ UNCHANGED vars
    BY <1>3, <1>0 DEF Stopped, vars, Inv, Good, Typed, Agree, Known
  <1> QED BY <1>1, <1>2, <1>3 DEF Next

\* However stale the requests are, in whatever order they come, lists and
\* parents agree after each (verify_entity).
THEOREM AgreementHolds == Spec => []Agreement
  <1>1. Inv => Agreement
    BY DEF Inv, Good, Agreement
  <1> QED BY <1>1, EntityAssumption, InitInv, NextInv, PTL DEF Spec

\* The entities, their parents and their lists keep their types.
THEOREM TypeCorrect == Spec => []TypeOK
  <1>1. Inv => TypeOK
    BY DEF Inv, Good, Typed, TypeOK
  <1> QED BY <1>1, EntityAssumption, InitInv, NextInv, PTL DEF Spec

-----------------------------------------------------------------------------
\* The lists lead only to known children, so the destroying loops end.
LEMMA TreeIsIntact ==
  ASSUME NEW s, Good(s), NEW e \in Known(s)
  PROVE  Intact(s, Subtree(s, e))
  <1>1. \A y \in Known(s) : Listed(s.children[y]) = {x \in Known(s) : s.ID_Parent[x] = y}
    BY DEF Good, Agree
  <1>2. Known(s) \in SUBSET Ids /\ e \in Known(s)
    BY DEF Good, Typed
  <1>3. \A y \in Known(s) \cap Known(s) : Listed(s.children[y]) \subseteq Known(s)
    BY <1>1
  <1>4. Subtree(s, e) \subseteq Known(s)
    BY <1>2, <1>3 DEF Subtree
  <1> QED BY <1>1, <1>4 DEF Intact

Ends(s) == s.fault \notin {"destroy: endless loop", "Perform_destroy"}

LEMMA FieldsKept ==
  ASSUME NEW s, DOMAIN s = {"ID_Parent", "children", "wire", "fault"}
  PROVE  /\ \A w : SendBroadcast(s, w).fault = s.fault
         /\ \A p, e : Attached(s, p, e).fault = s.fault
         /\ \A p, e : Detached(s, p, e).fault = s.fault
         /\ \A e, p, kids : Entered(s, e, p, kids).fault = s.fault
         /\ \A e, kids : EnteredWith(s, e, kids).fault = s.fault
         /\ \A S, e : Pruned(s, S, e).fault = s.fault
         /\ \A site : Fault(s, site).fault = site
         /\ \A p, e : DOMAIN Attached(s, p, e) = DOMAIN s
         /\ \A p, e : DOMAIN Detached(s, p, e) = DOMAIN s
         /\ \A e, p, kids : DOMAIN Entered(s, e, p, kids) = DOMAIN s
         /\ \A e, kids : DOMAIN EnteredWith(s, e, kids) = DOMAIN s
         /\ \A S, e : DOMAIN Pruned(s, S, e) = DOMAIN s
  BY DEF SendBroadcast, Attached, Detached, Entered, EnteredWith, Pruned, Fault

LEMMA SpawnEnds ==
  ASSUME NEW s, Good(s), Ends(s), NEW e, NEW p, EntityAssumption
  PROVE  Ends(Process_spawn(s, e, p))
  <1>1. DOMAIN s = {"ID_Parent", "children", "wire", "fault"} /\ NoParent \notin Known(s)
    BY DEF Good, Typed, EntityAssumption
  <1> DEFINE new == Entered(s, e, NoParent, <<>>)
  <1>2. DOMAIN new = DOMAIN s /\ new.fault = s.fault
    BY <1>1, FieldsKept
  <1> HIDE DEF new
  <1>3. DOMAIN Attached(new, p, e) = DOMAIN s /\ Attached(new, p, e).fault = s.fault
    BY <1>1, <1>2, FieldsKept
  <1>4. /\ SendBroadcast(new, <<Spawned(e, p)>>).fault = s.fault
        /\ SendBroadcast(Attached(new, p, e), <<Spawned(e, p)>>).fault = s.fault
    BY <1>1, <1>2, <1>3, FieldsKept
  <1>5. \/ Process_spawn(s, e, p) = SendBroadcast(new, <<Spawned(e, p)>>)
        \/ Process_spawn(s, e, p) = SendBroadcast(Attached(new, p, e), <<Spawned(e, p)>>)
        \/ Process_spawn(s, e, p) = s
    BY <1>1 DEF Process_spawn, new
  <1> QED BY <1>4, <1>5 DEF Ends

LEMMA OwnershipEnds ==
  ASSUME NEW s, Good(s), Ends(s), NEW e, NEW p
  PROVE  Ends(Process_event_ownership(s, p, e))
  <1>1. DOMAIN s = {"ID_Parent", "children", "wire", "fault"}
    BY DEF Good, Typed
  <1>2. SendBroadcast(Attached(s, p, e), <<Taken(p, e)>>).fault = s.fault
    BY <1>1, FieldsKept
  <1>3. \/ Process_event_ownership(s, p, e) = s
        \/ Process_event_ownership(s, p, e) = Fault(s, "ownership: no parent")
        \/ Process_event_ownership(s, p, e) = SendBroadcast(Attached(s, p, e), <<Taken(p, e)>>)
    BY DEF Process_event_ownership
  <1>4. Fault(s, "ownership: no parent").fault = "ownership: no parent"
    BY <1>1, FieldsKept
  <1> QED BY <1>2, <1>3, <1>4 DEF Ends

LEMMA RejectEnds ==
  ASSUME NEW s, Good(s), Ends(s), NEW e, NEW p
  PROVE  Ends(Process_event_reject(s, p, e))
  <1>1. DOMAIN s = {"ID_Parent", "children", "wire", "fault"}
    BY DEF Good, Typed
  <1>2. SendBroadcast(Detached(s, p, e), <<Rejected(p, e)>>).fault = s.fault
    BY <1>1, FieldsKept
  <1>3. \/ Process_event_reject(s, p, e) = s
        \/ Process_event_reject(s, p, e) = Fault(s, "reject: unknown entity")
        \/ Process_event_reject(s, p, e) = Fault(s, "reject: another parent")
        \/ Process_event_reject(s, p, e) = SendBroadcast(Detached(s, p, e), <<Rejected(p, e)>>)
    BY DEF Process_event_reject
  <1>4. /\ Fault(s, "reject: unknown entity").fault = "reject: unknown entity"
        /\ Fault(s, "reject: another parent").fault = "reject: another parent"
    BY <1>1, FieldsKept, ZenonT(30)
  <1> QED BY <1>2, <1>3, <1>4 DEF Ends

LEMMA DestroyEndsStep ==
  ASSUME NEW s, Good(s), Ends(s), NEW e
  PROVE  Ends(Process_event_destroy(s, e))
  <1>1. DOMAIN s = {"ID_Parent", "children", "wire", "fault"}
    BY DEF Good, Typed
  <1>2. SendBroadcast(Pruned(s, Subtree(s, e), e), EventPack(s, e)).fault = s.fault
    BY <1>1, FieldsKept
  <1>3. e \in Known(s) => Intact(s, Subtree(s, e))
    BY TreeIsIntact
  <1>4. \/ Process_event_destroy(s, e) = s
        \/ Process_event_destroy(s, e) = SendBroadcast(Pruned(s, Subtree(s, e), e), EventPack(s, e))
    BY <1>3 DEF Process_event_destroy
  <1> QED BY <1>2, <1>4 DEF Ends

LEMMA PerformEnds ==
  ASSUME NEW s, Good(s), Ends(s), NEW e \in Known(s), s.ID_Parent[e] = NoParent
  PROVE  Ends(Perform_destroy(s, e))
  <1>1. DOMAIN s = {"ID_Parent", "children", "wire", "fault"}
    BY DEF Good, Typed
  <1>2. SendBroadcast(Pruned(s, Subtree(s, e), e), DestroyEvents(s, e)).fault = s.fault
    BY <1>1, FieldsKept
  <1>3. Intact(s, Subtree(s, e))
    BY TreeIsIntact
  <1>4. Perform_destroy(s, e) = SendBroadcast(Pruned(s, Subtree(s, e), e), DestroyEvents(s, e))
    BY <1>3 DEF Perform_destroy
  <1> QED BY <1>2, <1>4 DEF Ends

LEMMA CallEnds ==
  ASSUME NEW s, Ends(s), Call(s)
  PROVE  Ends(sv)'
  BY DEF Call, Ends

LEMMA NextEnds ==
  ASSUME EntityAssumption, Inv, Ends(sv), [Next]_vars
  PROVE  Ends(sv)'
  <1>0. Good(sv) /\ DOMAIN sv = {"ID_Parent", "children", "wire", "fault"}
    BY DEF Inv, Good, Typed
  <1>1. CASE Requests
    <2> PICK e \in Ids :
          \/ Spawn(e, NoParent)
          \/ Destroy(e)
          \/ Leave(e)
          \/ \E kids \in Luggage(e) : Enter(e, kids)
          \/ \E p \in Ids :
               /\ MayOwn(p, e)
               /\ \/ Spawn(e, p)
                  \/ Ownership(p, e)
                  \/ Reject(p, e)
                  \/ Eat(p, e)
                  \/ \E q \in Ids : MayOwn(q, e) /\ Transfer(p, e, q)
      BY <1>1 DEF Requests
    <2>1. ASSUME NEW p, Spawn(e, p)
          PROVE  Ends(sv)'
      BY <2>1, <1>0, SpawnEnds, CallEnds DEF Spawn
    <2>2. CASE Destroy(e)
      BY <2>2, <1>0, DestroyEndsStep, CallEnds DEF Destroy
    <2>3. CASE Leave(e)
      BY <2>3, <1>0, PerformEnds, CallEnds DEF Leave
    <2>4. ASSUME NEW p \in Ids, Ownership(p, e)
          PROVE  Ends(sv)'
      BY <2>4, <1>0, OwnershipEnds, CallEnds DEF Ownership
    <2>5. ASSUME NEW p \in Ids, Reject(p, e)
          PROVE  Ends(sv)'
      BY <2>5, <1>0, RejectEnds, CallEnds DEF Reject
    <2>6. ASSUME NEW kids \in Luggage(e), Enter(e, kids)
          PROVE  Ends(sv)'
      <3>1. DOMAIN EnteredWith(sv, e, kids) = DOMAIN sv /\ EnteredWith(sv, e, kids).fault = sv.fault
        BY <1>0, FieldsKept
      <3>2. Add_online(sv, e, kids).fault = sv.fault
        BY <1>0, <3>1, FieldsKept DEF Add_online
      <3>3. Ends(Add_online(sv, e, kids))
        BY <3>2 DEF Ends
      <3> QED BY <2>6, <3>3, CallEnds DEF Enter
    <2>7. ASSUME NEW p \in Ids, NEW q \in Ids, Transfer(p, e, q)
          PROVE  Ends(sv)'
      <3> DEFINE t == Process_event_reject(sv, p, e)
      <3>1. Good(t) /\ Ends(t)
        BY <1>0, RejectIsGood, RejectEnds
      <3> HIDE DEF t
      <3>2. Ends(ThenOwnership(t, q, e))
        BY <3>1, OwnershipEnds DEF ThenOwnership
      <3> QED BY <2>7, <3>2, CallEnds DEF Transfer, t
    <2>8. ASSUME NEW p \in Ids, Eat(p, e)
          PROVE  Ends(sv)'
      <3> DEFINE t == Process_event_reject(sv, p, e)
      <3>1. Good(t) /\ Ends(t)
        BY <1>0, RejectIsGood, RejectEnds
      <3> HIDE DEF t
      <3>2. Ends(ThenDestroy(t, e))
        BY <3>1, DestroyEndsStep DEF ThenDestroy
      <3> QED BY <2>8, <3>2, CallEnds DEF Eat, t
    <2> QED BY <2>1, <2>2, <2>3, <2>4, <2>5, <2>6, <2>7, <2>8
  <1>2. CASE Receive
    BY <1>2, <1>0 DEF Receive, Ends
  <1>3. CASE Stopped \/ UNCHANGED vars
    BY <1>3 DEF Stopped, vars, Ends
  <1> QED BY <1>1, <1>2, <1>3 DEF Next

\* Process_event_destroy and Perform_destroy never wait for a child that does
\* not leave its parent's list, and their assertions hold.
THEOREM DestroyEndsHolds == Spec => []DestroyEnds
  <1>1. Init => Ends(sv)
    BY DEF Init, Ends
  <1>2. EntityAssumption /\ Inv /\ Ends(sv) /\ [Next]_vars => Ends(sv)'
    BY NextEnds
  <1>3. Ends(sv) <=> DestroyEnds
    BY DEF Ends, DestroyEnds
  <1> QED BY <1>1, <1>2, <1>3, EntityAssumption, InitInv, NextInv, PTL DEF Spec

-----------------------------------------------------------------------------
\* The lists of children aside, the handlers work on a tree of parents.
BelowOf(tr, e) ==
  {x \in DOMAIN tr : \A S \in SUBSET DOMAIN tr :
     (e \in S /\ \A y \in DOMAIN tr : tr[y] \in S => y \in S) => x \in S}

LEMMA SubtreeIsBelow ==
  ASSUME NEW s, Good(s), NEW e \in Known(s)
  PROVE  Subtree(s, e) = BelowOf(s.ID_Parent, e)
  <1> DEFINE Lists(U) == e \in U /\ \A y \in U \cap Known(s) : Listed(s.children[y]) \subseteq U
             Parents(U) == e \in U /\ \A y \in Known(s) : s.ID_Parent[y] \in U => y \in U
  <1>1. \A y \in Known(s) : Listed(s.children[y]) = {x \in Known(s) : s.ID_Parent[x] = y}
    BY DEF Good, Agree
  <1>2. Known(s) \subseteq Ids /\ Subtree(s, e) \subseteq Known(s)
    BY TreeIsIntact DEF Intact, Good, Typed
  <1>3. Subtree(s, e) = {x \in Ids : \A U \in SUBSET Ids : Lists(U) => x \in U}
    BY DEF Subtree
  <1>4. BelowOf(s.ID_Parent, e) = {x \in Known(s) : \A U \in SUBSET Known(s) : Parents(U) => x \in U}
    BY DEF BelowOf, Known
  <1>5. ASSUME NEW U \in SUBSET Known(s), Parents(U)
        PROVE  Lists(U) /\ U \in SUBSET Ids
    BY <1>1, <1>2, <1>5
  <1>6. ASSUME NEW U \in SUBSET Ids, Lists(U)
        PROVE  Parents(U \cap Known(s))
    <2>1. ASSUME NEW y \in Known(s), s.ID_Parent[y] \in U \cap Known(s)
          PROVE  y \in U \cap Known(s)
      <3>1. y \in Listed(s.children[s.ID_Parent[y]])
        BY <1>1, <2>1
      <3> QED BY <3>1, <1>6, <2>1
    <2> QED BY <2>1, <1>6
  <1> HIDE DEF Lists, Parents
  <1>7. Subtree(s, e) \subseteq BelowOf(s.ID_Parent, e)
    BY <1>2, <1>3, <1>4, <1>5
  <1>8. ASSUME NEW x \in BelowOf(s.ID_Parent, e)
        PROVE  x \in Subtree(s, e)
    <2>1. x \in Known(s) /\ \A U \in SUBSET Known(s) : Parents(U) => x \in U
      BY <1>4
    <2>2. ASSUME NEW U \in SUBSET Ids, Lists(U)
          PROVE  x \in U
      <3>1. U \cap Known(s) \in SUBSET Known(s) /\ Parents(U \cap Known(s))
        BY <2>2, <1>6
      <3> QED BY <3>1, <2>1
    <2> QED BY <2>1, <2>2, <1>2, <1>3
  <1> QED BY <1>7, <1>8

\* What each handler does to the parents.
LEMMA ParentsKept ==
  ASSUME NEW s, DOMAIN s = {"ID_Parent", "children", "wire", "fault"}
  PROVE  /\ \A w : SendBroadcast(s, w).ID_Parent = s.ID_Parent
         /\ \A site : Fault(s, site).ID_Parent = s.ID_Parent
         /\ \A p, e : Attached(s, p, e).ID_Parent = [s.ID_Parent EXCEPT ![e] = p]
         /\ \A p, e : Detached(s, p, e).ID_Parent = [s.ID_Parent EXCEPT ![e] = NoParent]
         /\ \A S, e : Pruned(s, S, e).ID_Parent = [x \in Known(s) \ S |-> s.ID_Parent[x]]
  BY DEF SendBroadcast, Fault, Attached, Detached, Pruned

LEMMA OwnershipParents ==
  ASSUME NEW s, Good(s), NEW e, NEW p
  PROVE  \/ Process_event_ownership(s, p, e).ID_Parent = s.ID_Parent
         \/ /\ e \in Known(s) /\ p \in Known(s)
            /\ Process_event_ownership(s, p, e).ID_Parent = [s.ID_Parent EXCEPT ![e] = p]
  <1>1. DOMAIN s = {"ID_Parent", "children", "wire", "fault"}
    BY DEF Good, Typed
  <1>2. \/ Process_event_ownership(s, p, e) = s
        \/ Process_event_ownership(s, p, e) = Fault(s, "ownership: no parent")
        \/ /\ e \in Known(s) /\ p \in Known(s)
           /\ Process_event_ownership(s, p, e) = SendBroadcast(Attached(s, p, e), <<Taken(p, e)>>)
    BY DEF Process_event_ownership
  <1>3. SendBroadcast(Attached(s, p, e), <<Taken(p, e)>>).ID_Parent = [s.ID_Parent EXCEPT ![e] = p]
    <2> DEFINE a == Attached(s, p, e)
    <2>1. DOMAIN a = DOMAIN s
      BY <1>1, FieldsKept
    <2>2. a.ID_Parent = [s.ID_Parent EXCEPT ![e] = p]
      BY <1>1, ParentsKept
    <2> HIDE DEF a
    <2>3. SendBroadcast(a, <<Taken(p, e)>>).ID_Parent = a.ID_Parent
      BY <1>1, <2>1, ParentsKept
    <2> QED BY <2>2, <2>3 DEF a
  <1>4. Fault(s, "ownership: no parent").ID_Parent = s.ID_Parent
    BY <1>1, ParentsKept
  <1> QED BY <1>2, <1>3, <1>4

LEMMA RejectParents ==
  ASSUME NEW s, Good(s), NEW e, NEW p
  PROVE  \/ Process_event_reject(s, p, e).ID_Parent = s.ID_Parent
         \/ /\ e \in Known(s)
            /\ Process_event_reject(s, p, e).ID_Parent = [s.ID_Parent EXCEPT ![e] = NoParent]
  <1>1. DOMAIN s = {"ID_Parent", "children", "wire", "fault"}
    BY DEF Good, Typed
  <1>2. \/ Process_event_reject(s, p, e) = s
        \/ Process_event_reject(s, p, e) = Fault(s, "reject: unknown entity")
        \/ Process_event_reject(s, p, e) = Fault(s, "reject: another parent")
        \/ /\ e \in Known(s)
           /\ Process_event_reject(s, p, e) = SendBroadcast(Detached(s, p, e), <<Rejected(p, e)>>)
    BY DEF Process_event_reject
  <1>3. SendBroadcast(Detached(s, p, e), <<Rejected(p, e)>>).ID_Parent = [s.ID_Parent EXCEPT ![e] = NoParent]
    <2> DEFINE a == Detached(s, p, e)
    <2>1. DOMAIN a = DOMAIN s
      BY <1>1, FieldsKept
    <2>2. a.ID_Parent = [s.ID_Parent EXCEPT ![e] = NoParent]
      BY <1>1, ParentsKept
    <2> HIDE DEF a
    <2>3. SendBroadcast(a, <<Rejected(p, e)>>).ID_Parent = a.ID_Parent
      BY <1>1, <2>1, ParentsKept
    <2> QED BY <2>2, <2>3 DEF a
  <1>4. /\ Fault(s, "reject: unknown entity").ID_Parent = s.ID_Parent
        /\ Fault(s, "reject: another parent").ID_Parent = s.ID_Parent
    BY <1>1, ParentsKept
  <1> QED BY <1>2, <1>3, <1>4

LEMMA DestroyParents ==
  ASSUME NEW s, Good(s), NEW e
  PROVE  \/ Process_event_destroy(s, e).ID_Parent = s.ID_Parent
         \/ /\ e \in Known(s)
            /\ Process_event_destroy(s, e).ID_Parent =
                 [x \in Known(s) \ BelowOf(s.ID_Parent, e) |-> s.ID_Parent[x]]
  <1>1. DOMAIN s = {"ID_Parent", "children", "wire", "fault"}
    BY DEF Good, Typed
  <1>2. CASE e \notin Known(s)
    <2>1. Process_event_destroy(s, e) = s
      BY <1>2 DEF Process_event_destroy
    <2> QED BY <2>1
  <1>3. CASE e \in Known(s)
    <2> DEFINE S == Subtree(s, e)
    <2>1. Intact(s, S) /\ S = BelowOf(s.ID_Parent, e)
      BY <1>3, TreeIsIntact, SubtreeIsBelow
    <2>2. Process_event_destroy(s, e) = SendBroadcast(Pruned(s, S, e), EventPack(s, e))
      BY <1>3, <2>1 DEF Process_event_destroy
    <2>3. DOMAIN Pruned(s, S, e) = DOMAIN s
      BY <1>1, FieldsKept
    <2>4. Pruned(s, S, e).ID_Parent = [x \in Known(s) \ S |-> s.ID_Parent[x]]
      BY <1>1, ParentsKept
    <2> HIDE DEF S
    <2>5. SendBroadcast(Pruned(s, S, e), EventPack(s, e)).ID_Parent = Pruned(s, S, e).ID_Parent
      BY <1>1, <2>3, ParentsKept
    <2>6. Process_event_destroy(s, e).ID_Parent =
            [x \in Known(s) \ BelowOf(s.ID_Parent, e) |-> s.ID_Parent[x]]
      BY <2>1, <2>2, <2>4, <2>5
    <2> QED BY <1>3, <2>6
  <1> QED BY <1>2, <1>3

LEMMA PerformParents ==
  ASSUME NEW s, Good(s), NEW e \in Known(s), s.ID_Parent[e] = NoParent
  PROVE  Perform_destroy(s, e).ID_Parent =
           [x \in Known(s) \ BelowOf(s.ID_Parent, e) |-> s.ID_Parent[x]]
  <1> DEFINE S == Subtree(s, e)
  <1>1. DOMAIN s = {"ID_Parent", "children", "wire", "fault"}
    BY DEF Good, Typed
  <1>2. Intact(s, S) /\ S = BelowOf(s.ID_Parent, e)
    BY TreeIsIntact, SubtreeIsBelow
  <1>3. Perform_destroy(s, e) = SendBroadcast(Pruned(s, S, e), DestroyEvents(s, e))
    BY <1>2 DEF Perform_destroy
  <1>4. DOMAIN Pruned(s, S, e) = DOMAIN s
    BY <1>1, FieldsKept
  <1>5. Pruned(s, S, e).ID_Parent = [x \in Known(s) \ S |-> s.ID_Parent[x]]
    BY <1>1, ParentsKept
  <1> HIDE DEF S
  <1>6. SendBroadcast(Pruned(s, S, e), DestroyEvents(s, e)).ID_Parent = Pruned(s, S, e).ID_Parent
    BY <1>1, <1>4, ParentsKept
  <1> QED BY <1>2, <1>3, <1>5, <1>6

\* Of an entity that was let go, nothing hangs on it that did not before.
LEMMA BelowFreed ==
  ASSUME NEW tr, NEW e \in DOMAIN tr
  PROVE  BelowOf([tr EXCEPT ![e] = NoParent], e) = BelowOf(tr, e)
  <1> DEFINE f == [tr EXCEPT ![e] = NoParent]
  <1>1. DOMAIN f = DOMAIN tr /\ \A y \in DOMAIN tr : y # e => f[y] = tr[y]
    OBVIOUS
  <1> HIDE DEF f
  <1>2. \A S \in SUBSET DOMAIN tr :
          (e \in S /\ \A y \in DOMAIN tr : tr[y] \in S => y \in S)
            <=> (e \in S /\ \A y \in DOMAIN tr : f[y] \in S => y \in S)
    <2> TAKE S \in SUBSET DOMAIN tr
    <2>1. ASSUME e \in S, \A y \in DOMAIN tr : tr[y] \in S => y \in S
          PROVE  \A y \in DOMAIN tr : f[y] \in S => y \in S
      <3> TAKE y \in DOMAIN tr
      <3>1. CASE y = e
        BY <3>1, <2>1
      <3>2. CASE y # e
        BY <3>2, <2>1, <1>1
      <3> QED BY <3>1, <3>2
    <2>2. ASSUME e \in S, \A y \in DOMAIN tr : f[y] \in S => y \in S
          PROVE  \A y \in DOMAIN tr : tr[y] \in S => y \in S
      <3> TAKE y \in DOMAIN tr
      <3>1. CASE y = e
        BY <3>1, <2>2
      <3>2. CASE y # e
        BY <3>2, <2>2, <1>1
      <3> QED BY <3>1, <3>2
    <2> QED BY <2>1, <2>2
  <1>3. BelowOf(f, e) = BelowOf(tr, e)
    BY <1>1, <1>2, Zenon DEF BelowOf
  <1> QED BY <1>3 DEF f

\* Calls that change the parents as an operation of EntityTree does.
LEMMA HandStep ==
  ASSUME NEW e \in Known(sv) \cap Ids, NEW p \in (Known(sv) \cap Ids) \cup {NoParent},
         sv'.ID_Parent = [sv.ID_Parent EXCEPT ![e] = p]
  PROVE  T!Next
  <1>1. T!Hand(e, p)
    BY DEF T!Hand, Known
  <1> QED BY <1>1 DEF T!Next

LEMMA RemoveStep ==
  ASSUME NEW e \in Known(sv) \cap Ids,
         sv'.ID_Parent = [x \in Known(sv) \ BelowOf(sv.ID_Parent, e) |-> sv.ID_Parent[x]]
  PROVE  T!Next
  <1>1. T!Below(e) = BelowOf(sv.ID_Parent, e)
    BY DEF T!Below, BelowOf
  <1>2. T!Remove(e)
    BY <1>1 DEF T!Remove, Known
  <1> QED BY <1>2 DEF T!Next

LEMMA AddStep ==
  ASSUME NEW e \in Ids, NEW K \in SUBSET Ids, e \notin K, (K \cup {e}) \cap Known(sv) = {},
         NEW p \in (Known(sv) \cap Ids) \cup {NoParent},
         sv'.ID_Parent = [x \in Known(sv) \cup K \cup {e} |->
                            IF x = e THEN p ELSE IF x \in K THEN e ELSE sv.ID_Parent[x]]
  PROVE  T!Next
  <1>1. T!Add(e, p, K)
    BY DEF T!Add, Known
  <1>2. \E q \in Ids \cup {NoParent} : \E L \in SUBSET Ids : T!Add(e, q, L)
    BY <1>1
  <1> QED BY <1>2 DEF T!Next

SameTree == sv'.ID_Parent = sv.ID_Parent

LEMMA SpawnStep ==
  ASSUME EntityAssumption, Good(sv), NEW e \in Ids, e \notin Known(sv), NEW p,
         sv'.ID_Parent = Process_spawn(sv, e, p).ID_Parent
  PROVE  T!Next \/ SameTree
  <1> DEFINE new == Entered(sv, e, NoParent, <<>>)
             K == Known(sv) \cup {e}
  <1>1. /\ DOMAIN sv = {"ID_Parent", "children", "wire", "fault"}
        /\ NoParent \notin Known(sv) /\ Known(sv) \subseteq Ids
    BY DEF Good, Typed, EntityAssumption
  <1>2. /\ DOMAIN new = DOMAIN sv
        /\ new.ID_Parent = [x \in K |-> IF x = e THEN NoParent ELSE sv.ID_Parent[x]]
    BY <1>1 DEF Entered
  <1> HIDE DEF new
  <1>3. CASE p = NoParent
    <2>1. Process_spawn(sv, e, p) = SendBroadcast(new, <<Spawned(e, p)>>)
      BY <1>3, <1>1 DEF Process_spawn, new
    <2>2. sv'.ID_Parent = new.ID_Parent
      BY <2>1, <1>1, <1>2, ParentsKept
    <2>3. sv'.ID_Parent = [x \in Known(sv) \cup {} \cup {e} |->
                             IF x = e THEN NoParent ELSE IF x \in {} THEN e ELSE sv.ID_Parent[x]]
      BY <2>2, <1>2
    <2> DEFINE L == {}
    <2>4. L \in SUBSET Ids /\ e \notin L /\ (L \cup {e}) \cap Known(sv) = {}
      OBVIOUS
    <2>5. sv'.ID_Parent = [x \in Known(sv) \cup L \cup {e} |->
                             IF x = e THEN NoParent ELSE IF x \in L THEN e ELSE sv.ID_Parent[x]]
      BY <2>3
    <2> HIDE DEF L
    <2> QED BY <2>4, <2>5, AddStep
  <1>4. CASE p # NoParent /\ p \in Known(sv)
    <2>1. Process_spawn(sv, e, p) = SendBroadcast(Attached(new, p, e), <<Spawned(e, p)>>)
      BY <1>4 DEF Process_spawn, new
    <2> DEFINE a == Attached(new, p, e)
    <2>2. DOMAIN a = DOMAIN sv
      BY <1>1, <1>2, FieldsKept
    <2>3. a.ID_Parent = [new.ID_Parent EXCEPT ![e] = p]
      BY <1>1, <1>2 DEF Attached
    <2>4. Process_spawn(sv, e, p) = SendBroadcast(a, <<Spawned(e, p)>>)
      BY <2>1
    <2> HIDE DEF a
    <2>5. sv'.ID_Parent = a.ID_Parent
      BY <2>4, <2>2, <1>1, ParentsKept
    <2>6. sv'.ID_Parent = [x \in Known(sv) \cup {} \cup {e} |->
                             IF x = e THEN p ELSE IF x \in {} THEN e ELSE sv.ID_Parent[x]]
      BY <2>5, <2>3, <1>2
    <2> DEFINE L == {}
    <2>7. L \in SUBSET Ids /\ e \notin L /\ (L \cup {e}) \cap Known(sv) = {}
      OBVIOUS
    <2>8. sv'.ID_Parent = [x \in Known(sv) \cup L \cup {e} |->
                             IF x = e THEN p ELSE IF x \in L THEN e ELSE sv.ID_Parent[x]]
      BY <2>6
    <2>9. p \in (Known(sv) \cap Ids) \cup {NoParent}
      BY <1>4, <1>1
    <2> HIDE DEF L
    <2> QED BY <2>7, <2>8, <2>9, AddStep
  <1>5. CASE p # NoParent /\ p \notin Known(sv)
    <2>1. Process_spawn(sv, e, p) = sv
      BY <1>5 DEF Process_spawn
    <2> QED BY <2>1 DEF SameTree
  <1> QED BY <1>3, <1>4, <1>5

\* A transfer changes one parent, whichever of its two calls go through.
LEMMA TransferStep ==
  ASSUME EntityAssumption, Good(sv), NEW e \in Ids, NEW p, NEW q \in Ids, Transfer(p, e, q)
  PROVE  T!Next \/ SameTree
  <1> DEFINE t == Process_event_reject(sv, p, e)
             u == ThenOwnership(t, q, e)
  <1>1. Good(t)
    BY RejectIsGood
  <1>2. t.ID_Parent = sv.ID_Parent \/ (e \in Known(sv) /\ t.ID_Parent = [sv.ID_Parent EXCEPT ![e] = NoParent])
    BY RejectParents
  <1>3. sv' = u
    BY DEF Transfer, Call
  <1> HIDE DEF t
  <1>4. u.ID_Parent = t.ID_Parent \/ (e \in Known(t) /\ q \in Known(t) /\ u.ID_Parent = [t.ID_Parent EXCEPT ![e] = q])
    BY <1>1, OwnershipParents DEF ThenOwnership
  <1> HIDE DEF u
  <1>5. Known(t) = Known(sv)
    BY <1>2 DEF Known
  <1>6. CASE u.ID_Parent = t.ID_Parent
    <2>1. CASE t.ID_Parent = sv.ID_Parent
      BY <2>1, <1>6, <1>3 DEF SameTree
    <2>2. CASE e \in Known(sv) /\ t.ID_Parent = [sv.ID_Parent EXCEPT ![e] = NoParent]
      <3>1. sv'.ID_Parent = [sv.ID_Parent EXCEPT ![e] = NoParent]
        BY <2>2, <1>6, <1>3
      <3> QED BY <3>1, <2>2, HandStep
    <2> QED BY <2>1, <2>2, <1>2
  <1>7. CASE e \in Known(t) /\ q \in Known(t) /\ u.ID_Parent = [t.ID_Parent EXCEPT ![e] = q]
    <2>1. [t.ID_Parent EXCEPT ![e] = q] = [sv.ID_Parent EXCEPT ![e] = q]
      BY <1>2, <1>5, <1>7 DEF Known
    <2>2. sv'.ID_Parent = [sv.ID_Parent EXCEPT ![e] = q]
      BY <2>1, <1>7, <1>3
    <2> QED BY <2>2, <1>5, <1>7, HandStep
  <1> QED BY <1>4, <1>6, <1>7

LEMMA EatStep ==
  ASSUME EntityAssumption, Good(sv), NEW e \in Ids, NEW p, Eat(p, e)
  PROVE  T!Next \/ SameTree
  <1> DEFINE t == Process_event_reject(sv, p, e)
             u == ThenDestroy(t, e)
  <1>1. Good(t)
    BY RejectIsGood
  <1>2. t.ID_Parent = sv.ID_Parent \/ (e \in Known(sv) /\ t.ID_Parent = [sv.ID_Parent EXCEPT ![e] = NoParent])
    BY RejectParents
  <1>3. sv' = u
    BY DEF Eat, Call
  <1> HIDE DEF t
  <1>4. \/ u.ID_Parent = t.ID_Parent
        \/ e \in Known(t) /\ u.ID_Parent = [x \in Known(t) \ BelowOf(t.ID_Parent, e) |-> t.ID_Parent[x]]
    BY <1>1, DestroyParents DEF ThenDestroy
  <1> HIDE DEF u
  <1>5. Known(t) = Known(sv)
    BY <1>2 DEF Known
  <1>6. CASE u.ID_Parent = t.ID_Parent
    <2>1. CASE t.ID_Parent = sv.ID_Parent
      BY <2>1, <1>6, <1>3 DEF SameTree
    <2>2. CASE e \in Known(sv) /\ t.ID_Parent = [sv.ID_Parent EXCEPT ![e] = NoParent]
      <3>1. sv'.ID_Parent = [sv.ID_Parent EXCEPT ![e] = NoParent]
        BY <2>2, <1>6, <1>3
      <3> QED BY <3>1, <2>2, HandStep
    <2> QED BY <2>1, <2>2, <1>2
  <1>7. CASE e \in Known(t) /\ u.ID_Parent = [x \in Known(t) \ BelowOf(t.ID_Parent, e) |-> t.ID_Parent[x]]
    <2> DEFINE B == BelowOf(sv.ID_Parent, e)
    <2>1. e \in Known(sv) /\ e \in DOMAIN sv.ID_Parent
      BY <1>5, <1>7 DEF Known
    <2>2. BelowOf(t.ID_Parent, e) = B
      BY <1>2, <2>1, BelowFreed
    <2>3. e \in B
      BY <2>1 DEF BelowOf
    <2> HIDE DEF B
    <2>4. \A x \in Known(sv) \ B : t.ID_Parent[x] = sv.ID_Parent[x]
      BY <1>2, <2>3 DEF Known
    <2>5. [x \in Known(t) \ B |-> t.ID_Parent[x]] = [x \in Known(sv) \ B |-> sv.ID_Parent[x]]
      BY <1>5, <2>4
    <2>6. sv'.ID_Parent = [x \in Known(sv) \ B |-> sv.ID_Parent[x]]
      BY <1>3, <1>7, <2>2, <2>5
    <2> QED BY <2>1, <2>6, RemoveStep DEF B
  <1> QED BY <1>4, <1>6, <1>7

LEMMA EnterStep ==
  ASSUME EntityAssumption, Good(sv), NEW e \in Ids, NEW kids \in Luggage(e), Enter(e, kids)
  PROVE  T!Next
  <1> DEFINE a == EnteredWith(sv, e, kids)
             L == Listed(kids)
  <1>1. DOMAIN sv = {"ID_Parent", "children", "wire", "fault"}
    BY DEF Good, Typed
  <1>2. L \in SUBSET Ids /\ e \notin L /\ (L \cup {e}) \cap Known(sv) = {}
    BY LuggageListed DEF Enter
  <1>3. DOMAIN a = DOMAIN sv
    BY <1>1, FieldsKept
  <1>4. a.ID_Parent = [x \in Known(sv) \cup (L \cup {e}) |->
                         CASE x = e -> NoParent [] x \in L -> e [] OTHER -> sv.ID_Parent[x]]
    BY <1>1 DEF EnteredWith
  <1> HIDE DEF a, L
  <1>5. a.ID_Parent = [x \in Known(sv) \cup L \cup {e} |->
                         IF x = e THEN NoParent ELSE IF x \in L THEN e ELSE sv.ID_Parent[x]]
    BY <1>2, <1>4
  <1>6. Add_online(sv, e, kids).ID_Parent = a.ID_Parent
    BY <1>1, <1>3, ParentsKept DEF Add_online, a
  <1>7. sv'.ID_Parent = a.ID_Parent
    BY <1>6 DEF Enter, Call
  <1> QED BY <1>2, <1>5, <1>7, AddStep

LEMMA NextIsTree ==
  ASSUME EntityAssumption, Inv, [Next]_vars
  PROVE  T!Next \/ SameTree
  <1>0. Good(sv) /\ DOMAIN sv = {"ID_Parent", "children", "wire", "fault"} /\ Known(sv) \subseteq Ids
    BY DEF Inv, Good, Typed
  <1>1. CASE Requests
    <2> PICK e \in Ids :
          \/ Spawn(e, NoParent)
          \/ Destroy(e)
          \/ Leave(e)
          \/ \E kids \in Luggage(e) : Enter(e, kids)
          \/ \E p \in Ids :
               /\ MayOwn(p, e)
               /\ \/ Spawn(e, p)
                  \/ Ownership(p, e)
                  \/ Reject(p, e)
                  \/ Eat(p, e)
                  \/ \E q \in Ids : MayOwn(q, e) /\ Transfer(p, e, q)
      BY <1>1 DEF Requests
    <2>1. ASSUME NEW p, Spawn(e, p)
          PROVE  T!Next \/ SameTree
      BY <2>1, <1>0, SpawnStep DEF Spawn, Call
    <2>2. CASE Destroy(e)
      <3>1. sv' = Process_event_destroy(sv, e)
        BY <2>2 DEF Destroy, Call
      <3>2. \/ SameTree
            \/ /\ e \in Known(sv)
               /\ sv'.ID_Parent = [x \in Known(sv) \ BelowOf(sv.ID_Parent, e) |-> sv.ID_Parent[x]]
        BY <3>1, <1>0, DestroyParents DEF SameTree
      <3> QED BY <3>2, RemoveStep
    <2>3. CASE Leave(e)
      <3>1. e \in Known(sv) /\ sv.ID_Parent[e] = NoParent /\ sv' = Perform_destroy(sv, e)
        BY <2>3 DEF Leave, Call
      <3>2. sv'.ID_Parent = [x \in Known(sv) \ BelowOf(sv.ID_Parent, e) |-> sv.ID_Parent[x]]
        BY <3>1, <1>0, PerformParents
      <3> QED BY <3>1, <3>2, RemoveStep
    <2>4. ASSUME NEW p \in Ids, Ownership(p, e)
          PROVE  T!Next \/ SameTree
      <3>1. sv' = Process_event_ownership(sv, p, e)
        BY <2>4 DEF Ownership, Call
      <3>2. \/ SameTree
            \/ /\ e \in Known(sv) /\ p \in Known(sv)
               /\ sv'.ID_Parent = [sv.ID_Parent EXCEPT ![e] = p]
        BY <3>1, <1>0, OwnershipParents DEF SameTree
      <3> QED BY <3>2, HandStep
    <2>5. ASSUME NEW p \in Ids, Reject(p, e)
          PROVE  T!Next \/ SameTree
      <3>1. sv' = Process_event_reject(sv, p, e)
        BY <2>5 DEF Reject, Call
      <3>2. \/ SameTree
            \/ e \in Known(sv) /\ sv'.ID_Parent = [sv.ID_Parent EXCEPT ![e] = NoParent]
        BY <3>1, <1>0, RejectParents DEF SameTree
      <3> QED BY <3>2, HandStep
    <2> QED BY <2>1, <2>2, <2>3, <2>4, <2>5, <1>0, EnterStep, TransferStep, EatStep
  <1>2. CASE Receive
    BY <1>2, <1>0 DEF Receive, SameTree
  <1>3. CASE Stopped \/ UNCHANGED vars
    BY <1>3 DEF Stopped, vars, SameTree
  <1> QED BY <1>1, <1>2, <1>3 DEF Next

\* Every call adds, hands over or removes as the tree of parents allows: an
\* entity is never in two hands, and goes with all that hangs on it.
THEOREM ImplementsTree == Spec => TreeSpec
  <1>1. Init => T!Init
    BY DEF Init, T!Init
  <1>2. EntityAssumption /\ Inv /\ [Next]_vars => [T!Next]_(sv.ID_Parent)
    BY NextIsTree DEF SameTree
  <1> QED BY <1>1, <1>2, EntityAssumption, InitInv, NextInv, PTL DEF Spec, TreeSpec, T!Spec

-----------------------------------------------------------------------------
(* The wire: what a client makes of the events it applies one by one.       *)

Events == [kind : {"spawn", "take", "reject", "destroy"},
           dest : Ids \cup {NoParent}, item : Ids]

\* t[i] is the tree after the first i events of w.
Runs(t, a, w) ==
  t = [i \in 0..Len(w) |-> IF i = 0 THEN a ELSE Apply(t[i-1], w[i])]

\* A client with tree a can apply w event by event, and has b then.
Replays(a, w, b) ==
  /\ w \in Seq(Events)
  /\ \E t : /\ Runs(t, a, w)
            /\ \A i \in 1..Len(w) : CanApply(t[i-1], w[i])
            /\ t[Len(w)] = b

LEMMA RunsOnce ==
  ASSUME NEW t, NEW u, NEW a, NEW w \in Seq(Events), Runs(t, a, w), Runs(u, a, w)
  PROVE  t = u
<1>1. Len(w) \in Nat
  BY LenProperties
<1>2. /\ t = [i \in 0..Len(w) |-> t[i]] /\ u = [i \in 0..Len(w) |-> u[i]]
      /\ t[0] = a /\ u[0] = a
      /\ \A i \in 1..Len(w) : t[i] = Apply(t[i-1], w[i]) /\ u[i] = Apply(u[i-1], w[i])
  <2>1. /\ DOMAIN t = 0..Len(w)
        /\ \A i \in 0..Len(w) : t[i] = IF i = 0 THEN a ELSE Apply(t[i-1], w[i])
        /\ t = [i \in DOMAIN t |-> t[i]]
    BY DEF Runs
  <2>2. /\ DOMAIN u = 0..Len(w)
        /\ \A i \in 0..Len(w) : u[i] = IF i = 0 THEN a ELSE Apply(u[i-1], w[i])
        /\ u = [i \in DOMAIN u |-> u[i]]
    BY DEF Runs
  <2> QED BY <1>1, <2>1, <2>2
<1> DEFINE Low == {n \in Nat : n <= Len(w) => t[n] = u[n]}
<1>3. 0 \in Low
  BY <1>2
<1>4. ASSUME NEW n \in Nat, n \in Low PROVE n + 1 \in Low
  <2> SUFFICES ASSUME n + 1 <= Len(w) PROVE t[n+1] = u[n+1]
    OBVIOUS
  <2>1. n + 1 \in 1..Len(w) /\ (n + 1) - 1 = n /\ n <= Len(w)
    BY <1>1
  <2>2. t[n] = u[n]
    BY <1>4, <2>1
  <2> QED BY <1>2, <2>1, <2>2
<1>5. Nat \subseteq Low
  <2> HIDE DEF Low
  <2> QED BY <1>3, <1>4, NatSteps
<1>6. \A i \in 0..Len(w) : t[i] = u[i]
  BY <1>1, <1>5
<1> QED BY <1>2, <1>6

\* What WireReplays says.
LEMMA ReplaysOnWire ==
  ASSUME Replays(mirror, sv.wire, sv.ID_Parent)
  PROVE  WireReplays
<1> DEFINE w == sv.wire
           tree == CHOOSE f : f = [i \in 0..Len(w) |-> IF i = 0 THEN mirror ELSE Apply(f[i-1], w[i])]
<1>1. PICK t : /\ Runs(t, mirror, w)
               /\ \A i \in 1..Len(w) : CanApply(t[i-1], w[i])
               /\ t[Len(w)] = sv.ID_Parent
  BY DEF Replays
<1>2. w \in Seq(Events)
  BY DEF Replays
<1>3. tree = [i \in 0..Len(w) |-> IF i = 0 THEN mirror ELSE Apply(tree[i-1], w[i])]
  BY <1>1, Zenon DEF Runs
<1>4. Runs(tree, mirror, w)
  BY <1>3 DEF Runs
<1>5. tree = t
  <2> HIDE DEF tree, w
  <2> QED BY <1>1, <1>2, <1>4, RunsOnce
<1> QED BY <1>1, <1>5 DEF WireReplays

LEMMA ReplayNone ==
  ASSUME NEW a
  PROVE  Replays(a, <<>>, a)
<1> DEFINE t == [i \in 0..0 |-> a]
<1>1. Len(<<>>) = 0 /\ <<>> \in Seq(Events)
  OBVIOUS
<1>2. Runs(t, a, <<>>)
  BY <1>1 DEF Runs
<1>3. t[Len(<<>>)] = a
  BY <1>1
<1>4. \A i \in 1..Len(<<>>) : CanApply(t[i-1], <<>>[i])
  BY <1>1
<1> QED BY <1>1, <1>2, <1>3, <1>4 DEF Replays

LEMMA ReplayOne ==
  ASSUME NEW a, NEW ev \in Events, CanApply(a, ev)
  PROVE  Replays(a, <<ev>>, Apply(a, ev))
<1> DEFINE w == <<ev>>
           b == Apply(a, ev)
           t == [i \in 0..1 |-> IF i = 0 THEN a ELSE b]
<1>1. w \in Seq(Events) /\ Len(w) = 1 /\ w[1] = ev
  OBVIOUS
<1> HIDE DEF w
<1>2. t[0] = a /\ t[1] = b
  OBVIOUS
<1>3. Runs(t, a, w)
  <2>1. \A i \in 0..1 : t[i] = IF i = 0 THEN a ELSE Apply(t[i-1], w[i])
    BY <1>1
  <2>2. t = [i \in 0..1 |-> t[i]]
    OBVIOUS
  <2> HIDE DEF t
  <2> QED BY <1>1, <2>1, <2>2 DEF Runs
<1>4. t[Len(w)] = b /\ \A i \in 1..Len(w) : CanApply(t[i-1], w[i])
  BY <1>1, <1>2
<1>5. Replays(a, w, b)
  <2> HIDE DEF t, b
  <2> QED BY <1>1, <1>3, <1>4 DEF Replays
<1> QED BY <1>5 DEF w

LEMMA ReplayThen ==
  ASSUME NEW a, NEW b, NEW c, NEW u, NEW v, Replays(a, u, b), Replays(b, v, c)
  PROVE  Replays(a, u \o v, c)
<1>1. /\ u \in Seq(Events) /\ v \in Seq(Events)
      /\ Len(u) \in Nat /\ Len(v) \in Nat
  BY LenProperties DEF Replays
<1>2. PICK f : /\ Runs(f, a, u)
               /\ \A i \in 1..Len(u) : CanApply(f[i-1], u[i])
               /\ f[Len(u)] = b
  BY DEF Replays
<1>3. PICK g : /\ Runs(g, b, v)
               /\ \A i \in 1..Len(v) : CanApply(g[i-1], v[i])
               /\ g[Len(v)] = c
  BY DEF Replays
<1> DEFINE w == u \o v
           t == [i \in 0..(Len(u) + Len(v)) |-> IF i <= Len(u) THEN f[i] ELSE g[i - Len(u)]]
<1>4. /\ w \in Seq(Events) /\ Len(w) = Len(u) + Len(v)
      /\ \A i \in 1..(Len(u) + Len(v)) : w[i] = IF i <= Len(u) THEN u[i] ELSE v[i - Len(u)]
  BY <1>1, ConcatProperties
<1> HIDE DEF w
<1>5. /\ f[0] = a /\ g[0] = b
      /\ \A i \in 1..Len(u) : f[i] = Apply(f[i-1], u[i])
      /\ \A i \in 1..Len(v) : g[i] = Apply(g[i-1], v[i])
  <2>1. \A i \in 0..Len(u) : f[i] = IF i = 0 THEN a ELSE Apply(f[i-1], u[i])
    BY <1>2 DEF Runs
  <2>2. \A i \in 0..Len(v) : g[i] = IF i = 0 THEN b ELSE Apply(g[i-1], v[i])
    BY <1>3 DEF Runs
  <2> QED BY <1>1, <2>1, <2>2
<1>6. /\ t = [i \in 0..(Len(u) + Len(v)) |-> t[i]]
      /\ \A i \in 0..(Len(u) + Len(v)) : t[i] = IF i <= Len(u) THEN f[i] ELSE g[i - Len(u)]
  OBVIOUS
<1> HIDE DEF t
<1>7. ASSUME NEW i \in 1..(Len(u) + Len(v))
      PROVE  t[i] = Apply(t[i-1], w[i]) /\ CanApply(t[i-1], w[i])
  <2>1. CASE i <= Len(u)
    <3>1. i \in 1..Len(u) /\ t[i] = f[i] /\ t[i-1] = f[i-1] /\ w[i] = u[i]
      BY <1>1, <1>4, <1>6, <2>1
    <3> QED BY <3>1, <1>2, <1>5
  <2>2. CASE i > Len(u)
    <3>1. i - Len(u) \in 1..Len(v) /\ w[i] = v[i - Len(u)] /\ t[i] = g[i - Len(u)]
      BY <1>1, <1>4, <1>6, <2>2
    <3>2. t[i-1] = g[(i - Len(u)) - 1]
      <4>1. CASE i - 1 = Len(u)
        BY <4>1, <1>1, <1>2, <1>5, <1>6
      <4>2. CASE i - 1 > Len(u)
        BY <4>2, <1>1, <1>6
      <4> QED BY <4>1, <4>2, <2>2, <1>1
    <3> QED BY <3>1, <3>2, <1>3, <1>5
  <2> QED BY <2>1, <2>2, <1>1
<1>8. t[0] = a /\ t[Len(w)] = c
  <2>1. t[0] = a
    BY <1>1, <1>5, <1>6
  <2>2. t[Len(w)] = c
    <3>1. CASE Len(v) = 0
      BY <3>1, <1>1, <1>2, <1>3, <1>4, <1>5, <1>6
    <3>2. CASE Len(v) # 0
      BY <3>2, <1>1, <1>3, <1>4, <1>6
    <3> QED BY <3>1, <3>2
  <2> QED BY <2>1, <2>2
<1>9. Runs(t, a, w)
  <2>1. \A i \in 0..Len(w) : t[i] = IF i = 0 THEN a ELSE Apply(t[i-1], w[i])
    BY <1>1, <1>4, <1>7, <1>8
  <2> QED BY <2>1, <1>4, <1>6 DEF Runs
<1>10. Replays(a, w, c)
  BY <1>4, <1>7, <1>8, <1>9 DEF Replays
<1> QED BY <1>10 DEF w

LEMMA ReplayHead ==
  ASSUME NEW a, NEW w, NEW c, Replays(a, w, c), w # <<>>
  PROVE  /\ CanApply(a, Head(w)) /\ Replays(Apply(a, Head(w)), Tail(w), c)
         /\ Head(w) \in Events
<1>1. /\ w \in Seq(Events) /\ Len(w) \in Nat /\ Len(w) # 0
  BY LenProperties, EmptySeq DEF Replays
<1>2. PICK t : /\ Runs(t, a, w)
               /\ \A i \in 1..Len(w) : CanApply(t[i-1], w[i])
               /\ t[Len(w)] = c
  BY DEF Replays
<1> DEFINE x == Tail(w)
           u == [i \in 0..(Len(w) - 1) |-> t[i+1]]
<1>3. /\ x \in Seq(Events) /\ Len(x) = Len(w) - 1
      /\ \A i \in 1..(Len(w) - 1) : x[i] = w[i+1]
      /\ Head(w) = w[1] /\ Head(w) \in Events
  BY <1>1, HeadTailProperties
<1> HIDE DEF x
<1>4. /\ t[0] = a
      /\ \A i \in 1..Len(w) : t[i] = Apply(t[i-1], w[i])
  <2>1. \A i \in 0..Len(w) : t[i] = IF i = 0 THEN a ELSE Apply(t[i-1], w[i])
    BY <1>2 DEF Runs
  <2> QED BY <1>1, <2>1
<1>5. /\ u = [i \in 0..(Len(w) - 1) |-> u[i]]
      /\ \A i \in 0..(Len(w) - 1) : u[i] = t[i+1]
  OBVIOUS
<1> HIDE DEF u
<1>6. ASSUME NEW i \in 1..(Len(w) - 1)
      PROVE  u[i] = Apply(u[i-1], x[i]) /\ CanApply(u[i-1], x[i])
  <2>1. /\ i + 1 \in 1..Len(w) /\ (i + 1) - 1 = i
        /\ u[i] = t[i+1] /\ u[i-1] = t[i] /\ x[i] = w[i+1]
    BY <1>1, <1>3, <1>5
  <2> QED BY <2>1, <1>2, <1>4
<1>7. u[0] = Apply(a, w[1]) /\ u[Len(w) - 1] = c
  <2>1. t[1] = Apply(t[1-1], w[1])
    BY <1>1, <1>4
  <2>2. /\ 0 \in 0..(Len(w) - 1) /\ Len(w) - 1 \in 0..(Len(w) - 1)
        /\ 0 + 1 = 1 /\ 1 - 1 = 0 /\ (Len(w) - 1) + 1 = Len(w)
    BY <1>1
  <2>3. u[0] = t[1] /\ u[Len(w) - 1] = t[Len(w)]
    BY <1>5, <2>2
  <2> QED BY <2>1, <2>2, <2>3, <1>2, <1>4
<1>8. Runs(u, Apply(a, w[1]), x)
  <2>1. \A i \in 0..Len(x) : u[i] = IF i = 0 THEN Apply(a, w[1]) ELSE Apply(u[i-1], x[i])
    BY <1>1, <1>3, <1>6, <1>7
  <2> QED BY <2>1, <1>3, <1>5 DEF Runs
<1>9. Replays(Apply(a, w[1]), x, c)
  BY <1>3, <1>6, <1>7, <1>8 DEF Replays
<1>10. CanApply(a, w[1])
  BY <1>1, <1>2, <1>4
<1> QED BY <1>3, <1>9, <1>10 DEF x

Glued(q, g, i) == IF i = 1 THEN q[i] ELSE g[i-1] \o q[i]

\* FlattenSeq of q, from its first elements on.
LEMMA Flattened ==
  ASSUME NEW q, NEW n \in Nat, n = Len(q), n # 0
  PROVE  \E g : /\ FlattenSeq(q) = g[n] /\ g[1] = q[1]
                /\ \A i \in 2..n : g[i] = g[i-1] \o q[i]
<1> DEFINE Low == {m \in Nat : \E g : g = [i \in 1..m |-> Glued(q, g, i)]}
           flatten == CHOOSE g : g = [i \in 1..n |-> IF i = 1 THEN q[i] ELSE g[i-1] \o q[i]]
<1>1. 0 \in Low
  <2> DEFINE g == [i \in 1..0 |-> q[i]]
  <2>1. g = [i \in 1..0 |-> Glued(q, g, i)]
    OBVIOUS
  <2> HIDE DEF g
  <2> QED BY <2>1
<1>2. ASSUME NEW m \in Nat, m \in Low PROVE m + 1 \in Low
  <2>1. PICK g : g = [i \in 1..m |-> Glued(q, g, i)]
    BY <1>2
  <2> DEFINE h == [i \in 1..(m+1) |-> IF i <= m THEN g[i] ELSE Glued(q, g, i)]
  <2>2. \A i \in 1..m : g[i] = Glued(q, g, i)
    BY <2>1
  <2>3. /\ h = [i \in 1..(m+1) |-> h[i]]
        /\ \A i \in 1..m : h[i] = g[i]
        /\ h[m+1] = Glued(q, g, m+1)
    OBVIOUS
  <2> HIDE DEF h
  <2>4. \A i \in 1..(m+1) : h[i] = Glued(q, h, i)
    <3> TAKE i \in 1..(m+1)
    <3>1. i # 1 => h[i-1] = g[i-1]
      <4> SUFFICES ASSUME i # 1 PROVE h[i-1] = g[i-1]
        OBVIOUS
      <4>1. i - 1 \in 1..m
        OBVIOUS
      <4> QED BY <4>1, <2>3
    <3>2. Glued(q, h, i) = Glued(q, g, i)
      BY <3>1, Zenon DEF Glued
    <3>3. h[i] = Glued(q, g, i)
      <4>1. CASE i \in 1..m
        BY <4>1, <2>2, <2>3
      <4>2. CASE i = m + 1
        BY <4>2, <2>3
      <4> QED BY <4>1, <4>2
    <3> QED BY <3>2, <3>3
  <2>5. h = [i \in 1..(m+1) |-> Glued(q, h, i)]
    BY <2>3, <2>4
  <2> QED BY <2>5
<1>3. n \in Low
  <2> HIDE DEF Low
  <2> QED BY <1>1, <1>2, NatSteps
<1>4. \E g : g = [i \in 1..n |-> IF i = 1 THEN q[i] ELSE g[i-1] \o q[i]]
  BY <1>3, Zenon DEF Glued
<1>5. flatten = [i \in 1..n |-> IF i = 1 THEN q[i] ELSE flatten[i-1] \o q[i]]
  BY <1>4, Zenon
<1>6. FlattenSeq(q) = flatten[n]
  BY Zenon DEF FlattenSeq
<1> HIDE DEF flatten
<1>7. flatten = [i \in 1..n |-> Glued(q, flatten, i)]
  BY <1>5, Zenon DEF Glued
<1>8. \A i \in 1..n : flatten[i] = Glued(q, flatten, i)
  BY <1>7
<1>9. \A i \in 1..n : flatten[i] = IF i = 1 THEN q[i] ELSE flatten[i-1] \o q[i]
  BY <1>8, Zenon DEF Glued
<1>10. 1 \in 1..n /\ \A i \in 2..n : i \in 1..n /\ i # 1
  OBVIOUS
<1>11. flatten[1] = q[1] /\ \A i \in 2..n : flatten[i] = flatten[i-1] \o q[i]
  BY <1>9, <1>10, Zenon
<1> QED BY <1>6, <1>11

\* The packs of q one after another: each leads from one tree to the next.
LEMMA ReplayAll ==
  ASSUME NEW q, NEW n \in Nat, n = Len(q), NEW f,
         q = <<>> \/ n # 0,
         \A i \in 1..n : Replays(f[i-1], q[i], f[i])
  PROVE  Replays(f[0], FlattenSeq(q), f[n])
<1>1. CASE n = 0
  <2>1. FlattenSeq(q) = <<>>
    BY <1>1 DEF FlattenSeq
  <2> QED BY <1>1, <2>1, ReplayNone
<1>2. CASE n # 0
  <2>1. PICK g : /\ FlattenSeq(q) = g[n] /\ g[1] = q[1]
                 /\ \A i \in 2..n : g[i] = g[i-1] \o q[i]
    BY <1>2, Flattened
  <2> DEFINE Low == {m \in Nat : m + 1 <= n => Replays(f[0], g[m+1], f[m+1])}
  <2>2. 0 \in Low
    <3>1. Replays(f[1-1], q[1], f[1])
      BY <1>2
    <3> QED BY <2>1, <3>1
  <2>3. ASSUME NEW m \in Nat, m \in Low PROVE m + 1 \in Low
    <3> SUFFICES ASSUME (m + 1) + 1 <= n
                 PROVE  Replays(f[0], g[(m+1)+1], f[(m+1)+1])
      OBVIOUS
    <3> DEFINE k == (m + 1) + 1
    <3>1. k \in 2..n /\ k \in 1..n /\ k - 1 = m + 1 /\ m + 1 <= n
      OBVIOUS
    <3>2. Replays(f[0], g[k-1], f[k-1])
      BY <2>3, <3>1
    <3> HIDE DEF k
    <3>3. Replays(f[k-1], q[k], f[k]) /\ g[k] = g[k-1] \o q[k]
      BY <2>1, <3>1
    <3>4. Replays(f[0], g[k], f[k])
      BY <3>2, <3>3, ReplayThen
    <3> QED BY <3>4 DEF k
  <2>4. n - 1 \in Low
    <3>1. n - 1 \in Nat
      BY <1>2
    <3> HIDE DEF Low
    <3> QED BY <2>2, <2>3, <3>1, NatSteps
  <2> QED BY <1>2, <2>1, <2>4
<1> QED BY <1>1, <1>2

\* Who owns outranks what it owns.
Ranked(s) ==
  \A x \in Known(s) : s.ID_Parent[x] # NoParent => Rank[s.ID_Parent[x]] > Rank[x]

LEMMA SubtreeLeast ==
  ASSUME NEW s, Good(s), NEW e \in Known(s), NEW U \in SUBSET Ids, e \in U,
         \A z \in Known(s) : s.ID_Parent[z] \in U => z \in U
  PROVE  Subtree(s, e) \subseteq U
<1>1. \A y \in Known(s) : Listed(s.children[y]) = {z \in Known(s) : s.ID_Parent[z] = y}
  BY DEF Good, Agree
<1>2. \A y \in U \cap Known(s) : Listed(s.children[y]) \subseteq U
  BY <1>1
<1> QED BY <1>2 DEF Subtree

\* What goes with x is x and what goes with each of its children, of which no
\* two share anything; it all ranks below x.
LEMMA SubtreeParts ==
  ASSUME NEW s, Good(s), Ranked(s), EntityAssumption, NEW x \in Known(s)
  PROVE  /\ x \in Subtree(s, x) /\ Subtree(s, x) \subseteq Known(s)
         /\ \A y \in Known(s) : s.ID_Parent[y] \in Subtree(s, x) => y \in Subtree(s, x)
         /\ \A y \in Subtree(s, x) : y # x => s.ID_Parent[y] \in Subtree(s, x)
         /\ \A y \in Subtree(s, x) : y # x => Rank[y] < Rank[x]
         /\ \A c \in Known(s) : s.ID_Parent[c] = x =>
              Subtree(s, c) \subseteq Subtree(s, x) /\ x \notin Subtree(s, c)
         /\ \A y \in Subtree(s, x) : y # x =>
              \E c \in Known(s) : s.ID_Parent[c] = x /\ y \in Subtree(s, c)
         /\ \A c, d \in Known(s) : s.ID_Parent[c] = x /\ s.ID_Parent[d] = x /\ c # d =>
              Subtree(s, c) \cap Subtree(s, d) = {}
<1> DEFINE P(y) == s.ID_Parent[y]
<1>1. /\ Known(s) \subseteq Ids /\ NoParent \notin Ids /\ Rank \in [Ids -> Nat]
      /\ \A y \in Known(s) : P(y) \in Known(s) \cup {NoParent}
      /\ \A y \in Known(s) : P(y) # NoParent => Rank[P(y)] > Rank[y]
      /\ \A y \in Known(s) : Rank[y] \in Nat
  BY DEF Good, Typed, EntityAssumption, Ranked
<1>2. ASSUME NEW e \in Known(s)
      PROVE  /\ e \in Subtree(s, e) /\ Subtree(s, e) \subseteq Known(s)
             /\ \A y \in Known(s) : P(y) \in Subtree(s, e) => y \in Subtree(s, e)
             /\ \A y \in Subtree(s, e) : y # e => P(y) \in Subtree(s, e)
  BY TreeIsIntact, SubtreeShape
<1>3. ASSUME NEW e \in Known(s), NEW y \in Subtree(s, e), y # e
      PROVE  Rank[y] < Rank[e]
  <2> DEFINE U == {z \in Known(s) : z = e \/ Rank[z] < Rank[e]}
  <2>1. U \in SUBSET Ids /\ e \in U
    BY <1>1
  <2>2. ASSUME NEW z \in Known(s), P(z) \in U PROVE z \in U
    <3>1. Rank[P(z)] > Rank[z] /\ Rank[P(z)] <= Rank[e] /\ P(z) \in Known(s)
      <4>1. P(z) \in Known(s) /\ (P(z) = e \/ Rank[P(z)] < Rank[e])
        BY <2>2
      <4>2. P(z) # NoParent
        BY <4>1, <1>1
      <4> QED BY <4>1, <4>2, <1>1
    <3>2. Rank[z] < Rank[e]
      BY <3>1, <1>1
    <3> QED BY <3>2
  <2>3. Subtree(s, e) \subseteq U
    <3> HIDE DEF U
    <3> QED BY <2>1, <2>2, SubtreeLeast
  <2> QED BY <2>3, <1>3
<1>4. ASSUME NEW c \in Known(s), P(c) = x
      PROVE  Subtree(s, c) \subseteq Subtree(s, x) /\ x \notin Subtree(s, c)
  <2>1. c \in Subtree(s, x)
    BY <1>2, <1>4
  <2>2. Subtree(s, x) \in SUBSET Ids
    BY <1>1, <1>2
  <2>3. Subtree(s, c) \subseteq Subtree(s, x)
    BY <2>1, <2>2, <1>2, SubtreeLeast
  <2>4. x # NoParent /\ Rank[x] > Rank[c]
    BY <1>1, <1>4
  <2>5. x \notin Subtree(s, c)
    <3> SUFFICES ASSUME x \in Subtree(s, c) PROVE FALSE
      OBVIOUS
    <3>1. x = c \/ Rank[x] < Rank[c]
      BY <1>3
    <3> QED BY <3>1, <2>4, <1>1
  <2> QED BY <2>3, <2>5
<1>5. ASSUME NEW y \in Subtree(s, x), y # x
      PROVE  \E c \in Known(s) : P(c) = x /\ y \in Subtree(s, c)
  <2> DEFINE U == {z \in Known(s) : z = x \/ \E c \in Known(s) : P(c) = x /\ z \in Subtree(s, c)}
  <2>1. U \in SUBSET Ids /\ x \in U
    BY <1>1
  <2>2. ASSUME NEW z \in Known(s), P(z) \in U PROVE z \in U
    <3>1. CASE P(z) = x
      BY <3>1, <1>2
    <3>2. CASE P(z) # x
      <4>1. PICK c \in Known(s) : P(c) = x /\ P(z) \in Subtree(s, c)
        BY <2>2, <3>2
      <4>2. z \in Subtree(s, c)
        BY <4>1, <1>2
      <4> QED BY <4>1, <4>2
    <3> QED BY <3>1, <3>2
  <2>3. Subtree(s, x) \subseteq U
    <3> HIDE DEF U
    <3> QED BY <2>1, <2>2, SubtreeLeast
  <2> QED BY <2>3, <1>5
<1>6. ASSUME NEW c \in Known(s), NEW d \in Known(s), P(c) = x, P(d) = x, c # d
      PROVE  Subtree(s, c) \cap Subtree(s, d) = {}
  <2> DEFINE U == Subtree(s, d) \ Subtree(s, c)
  <2>1. d \notin Subtree(s, c)
    BY <1>2, <1>4, <1>6
  <2>2. U \in SUBSET Ids /\ d \in U
    BY <2>1, <1>1, <1>2
  <2>3. ASSUME NEW z \in Known(s), P(z) \in U PROVE z \in U
    <3>1. z \in Subtree(s, d)
      BY <2>3, <1>2
    <3>2. z # c
      BY <2>3, <1>4, <1>6
    <3>3. z \notin Subtree(s, c)
      BY <2>3, <3>2, <1>2
    <3> QED BY <3>1, <3>3
  <2>4. Subtree(s, d) \subseteq U
    <3> HIDE DEF U
    <3> QED BY <2>2, <2>3, SubtreeLeast
  <2> QED BY <2>4
<1> QED BY <1>2, <1>3, <1>4, <1>5, <1>6

-----------------------------------------------------------------------------
(* The packs of destroy events.                                             *)

Modes == {"pack", "perform"}

\* The order in which the children of x go.
Order(s, m, x) == IF m = "pack" THEN s.children[x] ELSE Reverse(s.children[x])

\* What is sent of c, when g has the events of each entity.
Piece(s, m, g, c) ==
  IF m = "pack" \/ s.ID_Parent[c] = NoParent THEN g[c]
  ELSE <<Rejected(s.ID_Parent[c], c)>> \o g[c]

Pieces(s, m, g, x) ==
  [i \in 1..Len(Order(s, m, x)) |-> Piece(s, m, g, Order(s, m, x)[i])]

\* x is let go by its parent.
Released(s, x) ==
  IF s.ID_Parent[x] = NoParent THEN <<>> ELSE <<Rejected(s.ID_Parent[x], x)>>

Unfolded(s, m, g, x) ==
  IF m = "pack"
  THEN FlattenSeq(Pieces(s, m, g, x)) \o Released(s, x) \o <<Destroyed(x)>>
  ELSE FlattenSeq(Pieces(s, m, g, x)) \o <<Destroyed(x)>>

\* Each list of children, in either order.
LEMMA OrderListed ==
  ASSUME NEW s, Good(s), NEW m \in Modes, NEW x \in Known(s)
  PROVE  /\ Order(s, m, x) \in Seq(Known(s)) /\ Len(Order(s, m, x)) \in Nat
         /\ Len(Order(s, m, x)) = Len(s.children[x])
         /\ NoRepeat(Order(s, m, x))
         /\ \A i \in 1..Len(Order(s, m, x)) :
              /\ Order(s, m, x)[i] \in Known(s)
              /\ s.ID_Parent[Order(s, m, x)[i]] = x
         /\ \A c \in Known(s) : s.ID_Parent[c] = x =>
              \E i \in 1..Len(Order(s, m, x)) : Order(s, m, x)[i] = c
<1> DEFINE k == s.children[x]
           n == Len(k)
           r == Reverse(k)
<1>1. /\ k \in Seq(Known(s)) /\ NoRepeat(k) /\ n \in Nat
      /\ Listed(k) = {c \in Known(s) : s.ID_Parent[c] = x}
  BY LenProperties DEF Good, Typed, Agree
<1>2. /\ \A i \in 1..n : k[i] \in Known(s) /\ s.ID_Parent[k[i]] = x
      /\ \A c \in Known(s) : s.ID_Parent[c] = x => \E i \in 1..n : k[i] = c
      /\ \A i, j \in 1..n : k[i] = k[j] => i = j
  BY <1>1 DEF Listed, NoRepeat
<1>3. r = [i \in 1..n |-> k[(n - i) + 1]]
  BY DEF Reverse
<1> HIDE DEF k, r, n
<1>4. \A i \in 1..n : (n - i) + 1 \in 1..n
  BY <1>1
<1>5. /\ r \in Seq(Known(s)) /\ Len(r) = n
      /\ \A i \in 1..n : r[i] = k[(n - i) + 1]
  <2>1. r \in [1..n -> Known(s)]
    BY <1>2, <1>3, <1>4
  <2>2. r \in Seq(Known(s))
    BY <2>1, <1>1, SeqDef
  <2>3. Len(r) = n
    BY <2>1, <2>2, <1>1, LenProperties
  <2> QED BY <2>2, <2>3, <1>3
<1>6. \A i \in 1..n : r[i] \in Known(s) /\ s.ID_Parent[r[i]] = x
  BY <1>2, <1>4, <1>5
<1>7. ASSUME NEW c \in Known(s), s.ID_Parent[c] = x
      PROVE  \E i \in 1..n : r[i] = c
  <2>1. PICK j \in 1..n : k[j] = c
    BY <1>2, <1>7
  <2>2. (n - j) + 1 \in 1..n /\ (n - ((n - j) + 1)) + 1 = j
    BY <1>1
  <2> QED BY <2>1, <2>2, <1>5
<1>8. \A i, j \in 1..n : r[i] = r[j] => i = j
  <2> TAKE i \in 1..n, j \in 1..n
  <2> DEFINE a == (n - i) + 1
             b == (n - j) + 1
  <2>2. HAVE r[i] = r[j]
  <2>3. k[a] = k[b] /\ a \in 1..n /\ b \in 1..n
    BY <2>2, <1>4, <1>5
  <2>4. n \in Nat /\ i \in Int /\ j \in Int
    BY <1>1
  <2>5. a = b => i = j
    BY <2>4
  <2> HIDE DEF a, b, n
  <2> QED BY <1>2, <2>3, <2>5
<1>9. NoRepeat(r) /\ NoRepeat(k)
  BY <1>1, <1>5, <1>8 DEF NoRepeat
<1>10. CASE m = "pack"
  <2>1. Order(s, m, x) = k
    BY <1>10 DEF Order, k
  <2>2. Len(k) = n
    BY DEF n
  <2> QED BY <2>1, <2>2, <1>1, <1>2, <1>9 DEF k
<1>11. CASE m = "perform"
  <2>1. Order(s, m, x) = r
    BY <1>11 DEF Order, r, k
  <2>2. Len(k) = n
    BY DEF n
  <2> QED BY <2>1, <2>2, <1>1, <1>5, <1>6, <1>7, <1>9 DEF k
<1> QED BY <1>10, <1>11 DEF Modes

\* A number above all ranks.
LEMMA RankBound ==
  ASSUME EntityAssumption
  PROVE  \E top \in Nat : \A x \in Ids : Rank[x] < top
<1> DEFINE Below(S) == \E top \in Nat : \A x \in S : Rank[x] < top
           Low == {n \in Nat : \A S \in SUBSET Ids :
                   IsFiniteSet(S) /\ Cardinality(S) = n => Below(S)}
<1>1. \A x \in Ids : Rank[x] \in Nat
  BY DEF EntityAssumption
<1>2. 0 \in Low
  <2> SUFFICES ASSUME NEW S \in SUBSET Ids, IsFiniteSet(S), Cardinality(S) = 0
               PROVE  Below(S)
    OBVIOUS
  <2>1. S = {}
    BY FS_EmptySet
  <2>2. \A x \in S : Rank[x] < 0
    BY <2>1
  <2> QED BY <2>2
<1>3. ASSUME NEW n \in Nat, n \in Low PROVE n + 1 \in Low
  <2> SUFFICES ASSUME NEW S \in SUBSET Ids, IsFiniteSet(S), Cardinality(S) = n + 1
               PROVE  Below(S)
    OBVIOUS
  <2>1. S # {}
    BY FS_EmptySet
  <2>2. PICK x \in S : TRUE
    BY <2>1
  <2>3. IsFiniteSet(S \ {x}) /\ Cardinality(S \ {x}) = n
    <3>1. IsFiniteSet(S \ {x}) /\ Cardinality(S \ {x}) = Cardinality(S) - 1
      BY <2>2, FS_RemoveElement
    <3> QED BY <3>1
  <2>4. PICK top \in Nat : \A y \in S \ {x} : Rank[y] < top
    BY <1>3, <2>3
  <2> DEFINE most == top + Rank[x] + 1
  <2>5. most \in Nat /\ \A y \in S : Rank[y] < most
    <3>1. Rank[x] \in Nat
      BY <1>1, <2>2
    <3>2. ASSUME NEW y \in S PROVE Rank[y] < most
      <4>1. Rank[y] \in Nat
        BY <1>1
      <4>2. y # x => Rank[y] < top
        BY <2>4
      <4> QED BY <3>1, <4>1, <4>2
    <3> QED BY <3>1, <3>2
  <2> QED BY <2>5
<1>4. Cardinality(Ids) \in Low
  <2>1. Cardinality(Ids) \in Nat /\ IsFiniteSet(Ids)
    BY FS_CardinalityType DEF EntityAssumption
  <2> HIDE DEF Low
  <2> QED BY <1>2, <1>3, <2>1, NatSteps
<1> QED BY <1>4 DEF EntityAssumption

\* Two functions that agree on the children of x give x the same events.
LEMMA UnfoldedSame ==
  ASSUME NEW s, Good(s), NEW m \in Modes, NEW x \in Known(s), NEW g, NEW h,
         \A c \in Known(s) : s.ID_Parent[c] = x => g[c] = h[c]
  PROVE  Unfolded(s, m, g, x) = Unfolded(s, m, h, x)
<1>1. \A i \in 1..Len(Order(s, m, x)) :
        Piece(s, m, g, Order(s, m, x)[i]) = Piece(s, m, h, Order(s, m, x)[i])
  <2> TAKE i \in 1..Len(Order(s, m, x))
  <2>1. g[Order(s, m, x)[i]] = h[Order(s, m, x)[i]]
    BY OrderListed
  <2> QED BY <2>1, Zenon DEF Piece
<1>2. Pieces(s, m, g, x) = Pieces(s, m, h, x)
  BY <1>1, Zenon DEF Pieces
<1> QED BY <1>2, Zenon DEF Unfolded

\* The recursion over the tree has a solution, because ranks fall.
LEMMA UnfoldExists ==
  ASSUME NEW s, Good(s), Ranked(s), EntityAssumption, NEW m \in Modes
  PROVE  \E g : g = [x \in Known(s) |-> Unfolded(s, m, g, x)]
<1> DEFINE K(n) == {x \in Known(s) : Rank[x] < n}
           Low == {n \in Nat : \E g : g = [x \in K(n) |-> Unfolded(s, m, g, x)]}
<1>1. /\ Known(s) \subseteq Ids /\ NoParent \notin Known(s)
      /\ \A x \in Known(s) : Rank[x] \in Nat
  BY DEF Good, Typed, EntityAssumption
<1>2. 0 \in Low
  <2> DEFINE g == [x \in {} |-> x]
  <2>1. K(0) = {}
    BY <1>1
  <2>2. g = [x \in K(0) |-> Unfolded(s, m, g, x)]
    BY <2>1
  <2> HIDE DEF g
  <2> QED BY <2>2
<1>3. ASSUME NEW n \in Nat, n \in Low PROVE n + 1 \in Low
  <2>1. PICK g : g = [x \in K(n) |-> Unfolded(s, m, g, x)]
    BY <1>3
  <2> DEFINE h == [x \in K(n+1) |-> IF x \in K(n) THEN g[x] ELSE Unfolded(s, m, g, x)]
  <2>2. \A x \in K(n) : x \in K(n+1) /\ g[x] = Unfolded(s, m, g, x)
    BY <1>1, <2>1
  <2>3. /\ h = [x \in K(n+1) |-> h[x]]
        /\ \A x \in K(n+1) : h[x] = Unfolded(s, m, g, x)
        /\ \A x \in K(n) : h[x] = g[x]
    <3>1. \A x \in K(n+1) : h[x] = IF x \in K(n) THEN g[x] ELSE Unfolded(s, m, g, x)
      OBVIOUS
    <3>2. h = [x \in K(n+1) |-> h[x]]
      OBVIOUS
    <3> HIDE DEF h, K
    <3> QED BY <2>2, <3>1, <3>2
  <2> HIDE DEF h
  <2>4. ASSUME NEW x \in K(n+1)
        PROVE  Unfolded(s, m, g, x) = Unfolded(s, m, h, x)
    <3>1. ASSUME NEW c \in Known(s), s.ID_Parent[c] = x
          PROVE  g[c] = h[c]
      <4>1. x # NoParent /\ Rank[x] > Rank[c]
        BY <3>1, <1>1 DEF Ranked
      <4>2. c \in K(n)
        BY <4>1, <1>1
      <4> QED BY <4>2, <2>3
    <3>2. x \in Known(s)
      OBVIOUS
    <3> HIDE DEF K
    <3> QED BY <3>1, <3>2, UnfoldedSame
  <2>5. h = [x \in K(n+1) |-> Unfolded(s, m, h, x)]
    <3> HIDE DEF K
    <3> QED BY <2>3, <2>4
  <2> HIDE DEF K
  <2> QED BY <2>5
<1>4. PICK top \in Nat : \A x \in Ids : Rank[x] < top
  BY RankBound
<1>5. top \in Low
  <2> HIDE DEF Low
  <2> QED BY <1>2, <1>3, NatSteps
<1>6. K(top) = Known(s)
  BY <1>1, <1>4
<1> HIDE DEF K
<1> QED BY <1>5, <1>6

\* EventPack and DestroyEvents are solutions.
LEMMA PackUnfolds ==
  ASSUME NEW s, Good(s), Ranked(s), EntityAssumption, NEW e \in Known(s)
  PROVE  \E g : /\ \A x \in Known(s) : g[x] = Unfolded(s, "pack", g, x)
                /\ EventPack(s, e) = g[e]
<1> DEFINE body(g, x) ==
             FlattenSeq([i \in 1..Len(s.children[x]) |-> g[s.children[x][i]]])
               \o (IF s.ID_Parent[x] = NoParent THEN <<>> ELSE <<Rejected(s.ID_Parent[x], x)>>)
               \o <<Destroyed(x)>>
           pack == CHOOSE g : g = [x \in Known(s) |-> body(g, x)]
<1>1. ASSUME NEW g, NEW x \in Known(s)
      PROVE  Unfolded(s, "pack", g, x) = body(g, x)
  <2>1. Pieces(s, "pack", g, x) = [i \in 1..Len(s.children[x]) |-> g[s.children[x][i]]]
    BY Zenon DEF Pieces, Piece, Order
  <2> QED BY <2>1, Zenon DEF Unfolded, Released
<1>2. PICK f : f = [x \in Known(s) |-> Unfolded(s, "pack", f, x)]
  BY UnfoldExists DEF Modes
<1> HIDE DEF body
<1>3. f = [x \in Known(s) |-> body(f, x)]
  BY <1>1, <1>2
<1>4. pack = [x \in Known(s) |-> body(pack, x)]
  BY <1>3, Zenon
<1>5. EventPack(s, e) = pack[e]
  BY Zenon DEF EventPack, body
<1> HIDE DEF pack
<1>6. \A x \in Known(s) : pack[x] = Unfolded(s, "pack", pack, x)
  BY <1>1, <1>4
<1> QED BY <1>5, <1>6

LEMMA PerformUnfolds ==
  ASSUME NEW s, Good(s), Ranked(s), EntityAssumption, NEW e \in Known(s)
  PROVE  \E g : /\ \A x \in Known(s) : g[x] = Unfolded(s, "perform", g, x)
                /\ DestroyEvents(s, e) = g[e]
<1> DEFINE body(g, x) ==
             FlattenSeq([i \in 1..Len(s.children[x]) |->
                           <<Rejected(x, Reverse(s.children[x])[i])>> \o g[Reverse(s.children[x])[i]]])
               \o <<Destroyed(x)>>
           pack == CHOOSE g : g = [x \in Known(s) |-> body(g, x)]
<1>1. ASSUME NEW g, NEW x \in Known(s)
      PROVE  Unfolded(s, "perform", g, x) = body(g, x)
  <2> DEFINE k == Order(s, "perform", x)
  <2>1. k = Reverse(s.children[x]) /\ "perform" # "pack"
    BY DEF Order
  <2>2. Len(k) = Len(s.children[x]) /\ \A i \in 1..Len(k) : s.ID_Parent[k[i]] = x
    BY OrderListed DEF Modes
  <2>3. x # NoParent
    BY DEF Good, Typed, EntityAssumption
  <2> HIDE DEF k
  <2>4. \A i \in 1..Len(k) : Piece(s, "perform", g, k[i]) = <<Rejected(x, k[i])>> \o g[k[i]]
    BY <2>1, <2>2, <2>3, Zenon DEF Piece
  <2>5. Pieces(s, "perform", g, x) = [i \in 1..Len(k) |-> Piece(s, "perform", g, k[i])]
    BY Zenon DEF Pieces, k
  <2>6. Pieces(s, "perform", g, x) = [i \in 1..Len(k) |-> <<Rejected(x, k[i])>> \o g[k[i]]]
    BY <2>4, <2>5, Zenon
  <2>7. Pieces(s, "perform", g, x) =
          [i \in 1..Len(s.children[x]) |->
             <<Rejected(x, Reverse(s.children[x])[i])>> \o g[Reverse(s.children[x])[i]]]
    BY <2>1, <2>2, <2>6, Zenon
  <2> QED BY <2>1, <2>7, Zenon DEF Unfolded
<1>2. PICK f : f = [x \in Known(s) |-> Unfolded(s, "perform", f, x)]
  BY UnfoldExists DEF Modes
<1> HIDE DEF body
<1>3. f = [x \in Known(s) |-> body(f, x)]
  BY <1>1, <1>2
<1>4. pack = [x \in Known(s) |-> body(pack, x)]
  BY <1>3, Zenon
<1>5. DestroyEvents(s, e) = pack[e]
  BY Zenon DEF DestroyEvents, body
<1> HIDE DEF pack
<1>6. \A x \in Known(s) : pack[x] = Unfolded(s, "perform", pack, x)
  BY <1>1, <1>4
<1> QED BY <1>5, <1>6

Cut(t, S) == [y \in DOMAIN t \ S |-> t[y]]

\* In t, x is as it is in s, with all that goes with it.
Hangs(s, t, x) ==
  /\ t = [y \in DOMAIN t |-> t[y]]
  /\ Subtree(s, x) \subseteq DOMAIN t
  /\ \A y \in Subtree(s, x) : t[y] = s.ID_Parent[y]
  /\ \A y \in DOMAIN t : t[y] \in Subtree(s, x) => y \in Subtree(s, x)

\* What is sent of c takes c and what goes with it out of any tree it is in.
Leaves(s, m, g, c) ==
  \A t : Hangs(s, t, c) => Replays(t, Piece(s, m, g, c), Cut(t, Subtree(s, c)))

\* The children of x leave one after another.
LEMMA KidsReplay ==
  ASSUME NEW s, Good(s), Ranked(s), EntityAssumption, NEW m \in Modes, NEW x \in Known(s),
         NEW g, NEW t, t = [y \in DOMAIN t |-> t[y]],
         \A c \in Known(s) : s.ID_Parent[c] = x => Hangs(s, t, c) /\ Leaves(s, m, g, c)
  PROVE  Replays(t, FlattenSeq(Pieces(s, m, g, x)), Cut(t, Subtree(s, x) \ {x}))
<1> DEFINE k == Order(s, m, x)
           n == Len(k)
           q == Pieces(s, m, g, x)
           Gone(i) == UNION {Subtree(s, k[j]) : j \in 1..i}
           f == [i \in 0..n |-> Cut(t, Gone(i))]
<1>1. /\ n \in Nat /\ NoRepeat(k)
      /\ \A i \in 1..n : k[i] \in Known(s) /\ s.ID_Parent[k[i]] = x
      /\ \A c \in Known(s) : s.ID_Parent[c] = x => \E i \in 1..n : k[i] = c
  BY OrderListed
<1>2. q = [i \in 1..n |-> Piece(s, m, g, k[i])]
  BY DEF Pieces
<1>3. \A i, j \in 1..n : i # j => Subtree(s, k[i]) \cap Subtree(s, k[j]) = {}
  <2> TAKE i \in 1..n, j \in 1..n
  <2> HAVE i # j
  <2>1. k[i] # k[j]
    BY <1>1 DEF NoRepeat
  <2>2. /\ k[i] \in Known(s) /\ s.ID_Parent[k[i]] = x
        /\ k[j] \in Known(s) /\ s.ID_Parent[k[j]] = x
    BY <1>1
  <2> QED BY <2>1, <2>2, SubtreeParts
<1> HIDE DEF k, q
<1>4. \A i \in 1..n : Hangs(s, t, k[i]) /\ Leaves(s, m, g, k[i])
  BY <1>1
<1>5. q \in Seq(Seq(Events)) /\ Len(q) = n /\ \A i \in 1..n : q[i] = Piece(s, m, g, k[i])
  <2>1. \A i \in 1..n : Piece(s, m, g, k[i]) \in Seq(Events)
    BY <1>4 DEF Leaves, Replays
  <2>2. q \in [1..n -> Seq(Events)]
    BY <1>2, <2>1
  <2>3. q \in Seq(Seq(Events))
    BY <2>2, <1>1, SeqDef
  <2>4. Len(q) = n
    BY <2>2, <2>3, <1>1, LenProperties
  <2> QED BY <2>3, <2>4, <1>2
<1>6. q = <<>> \/ n # 0
  BY <1>5, EmptySeq
<1> HIDE DEF n
<1>7. /\ f[0] = Cut(t, Gone(0)) /\ f[n] = Cut(t, Gone(n))
      /\ \A i \in 1..n : f[i-1] = Cut(t, Gone(i-1)) /\ f[i] = Cut(t, Gone(i))
  BY <1>1
<1> HIDE DEF f
<1>8. ASSUME NEW i \in 1..n PROVE Replays(f[i-1], q[i], f[i])
  <2> DEFINE u == f[i-1]
             S == Subtree(s, k[i])
  <2>1. /\ u = [y \in DOMAIN t \ Gone(i-1) |-> t[y]]
        /\ DOMAIN u = DOMAIN t \ Gone(i-1)
        /\ \A y \in DOMAIN u : u[y] = t[y]
    <3> HIDE DEF Gone
    <3>1. u = Cut(t, Gone(i-1))
      BY <1>7
    <3> HIDE DEF u
    <3> QED BY <3>1 DEF Cut
  <2>2. S \cap Gone(i-1) = {}
    <3>1. \A j \in 1..(i-1) : S \cap Subtree(s, k[j]) = {}
      <4> TAKE j \in 1..(i-1)
      <4>1. j \in 1..n /\ i # j
        BY <1>1
      <4> QED BY <4>1, <1>3
    <3> QED BY <3>1
  <2>3. Gone(i) = Gone(i-1) \cup S
    <3>1. 1..i = (1..(i-1)) \cup {i}
      BY <1>1
    <3> QED BY <3>1
  <2> HIDE DEF S, Gone
  <2>4. Hangs(s, t, k[i])
    BY <1>4
  <2>5. Hangs(s, u, k[i])
    <3> HIDE DEF u
    <3>1. u = [y \in DOMAIN u |-> u[y]]
      BY <2>1
    <3>2. S \subseteq DOMAIN u
      BY <2>1, <2>2, <2>4 DEF Hangs, S
    <3>3. \A y \in S : u[y] = s.ID_Parent[y]
      BY <3>2, <2>1, <2>4 DEF Hangs, S
    <3>4. \A y \in DOMAIN u : u[y] \in S => y \in S
      BY <2>1, <2>4 DEF Hangs, S
    <3> QED BY <3>1, <3>2, <3>3, <3>4 DEF Hangs, S
  <2>6. Replays(u, q[i], Cut(u, S))
    BY <2>5, <1>4, <1>5 DEF Leaves, S
  <2>7. Cut(u, S) = Cut(t, Gone(i))
    <3>1. DOMAIN u \ S = DOMAIN t \ Gone(i)
      BY <2>1, <2>3
    <3>2. \A y \in DOMAIN u \ S : u[y] = t[y]
      BY <2>1
    <3> HIDE DEF u
    <3> QED BY <3>1, <3>2 DEF Cut
  <2> QED BY <2>6, <2>7, <1>7
<1>9. Replays(f[0], FlattenSeq(q), f[n])
  <2> HIDE DEF Gone
  <2> QED BY <1>1, <1>5, <1>6, <1>8, ReplayAll
<1>10. f[0] = t
  <2>1. Gone(0) = {}
    OBVIOUS
  <2>2. Cut(t, {}) = [y \in DOMAIN t |-> t[y]]
    BY DEF Cut
  <2> QED BY <2>1, <2>2, <1>7
<1>11. Gone(n) = Subtree(s, x) \ {x}
  <2>1. \A j \in 1..n : Subtree(s, k[j]) \subseteq Subtree(s, x) /\ x \notin Subtree(s, k[j])
    BY <1>1, SubtreeParts
  <2>2. \A y \in Subtree(s, x) \ {x} : \E j \in 1..n : y \in Subtree(s, k[j])
    <3> TAKE y \in Subtree(s, x) \ {x}
    <3>1. PICK c \in Known(s) : s.ID_Parent[c] = x /\ y \in Subtree(s, c)
      BY SubtreeParts
    <3>2. PICK j \in 1..n : k[j] = c
      BY <3>1, <1>1
    <3> QED BY <3>1, <3>2
  <2> QED BY <2>1, <2>2
<1> QED BY <1>7, <1>9, <1>10, <1>11 DEF q

LEMMA EventsTyped ==
  /\ \A x \in Ids : Destroyed(x) \in Events
  /\ \A x \in Ids, p \in Ids : Rejected(p, x) \in Events /\ Taken(p, x) \in Events
  /\ \A x \in Ids, p \in Ids \cup {NoParent} : Spawned(x, p) \in Events
BY DEF Destroyed, Rejected, Taken, Spawned, Events

\* A parent lets x go.
LEMMA RejectReplays ==
  ASSUME NEW t, NEW x \in Ids, NEW p \in Ids, x \in DOMAIN t, t[x] = p
  PROVE  Replays(t, <<Rejected(p, x)>>, [y \in DOMAIN t |-> IF y = x THEN NoParent ELSE t[y]])
<1> DEFINE ev == Rejected(p, x)
<1>1. ev.kind = "reject" /\ ev.dest = p /\ ev.item = x /\ ev \in Events
  BY EventsTyped DEF Rejected
<1> HIDE DEF ev
<1>2. CanApply(t, ev)
  BY <1>1 DEF CanApply
<1>3. Apply(t, ev) = [y \in DOMAIN t \cup {x} |-> IF y = x THEN NoParent ELSE t[y]]
  BY <1>1 DEF Apply
<1>4. DOMAIN t \cup {x} = DOMAIN t
  OBVIOUS
<1>5. Replays(t, <<ev>>, [y \in DOMAIN t |-> IF y = x THEN NoParent ELSE t[y]])
  BY <1>1, <1>2, <1>3, <1>4, ReplayOne
<1> QED BY <1>5 DEF ev

\* Who is free and owns nothing goes.
LEMMA DestroyReplays ==
  ASSUME NEW t, NEW x \in Ids, x \in DOMAIN t, t[x] = NoParent,
         \A y \in DOMAIN t : t[y] # x
  PROVE  Replays(t, <<Destroyed(x)>>, Cut(t, {x}))
<1> DEFINE ev == Destroyed(x)
<1>1. ev.kind = "destroy" /\ ev.dest = x /\ ev.item = x /\ ev \in Events
  BY EventsTyped DEF Destroyed
<1> HIDE DEF ev
<1>2. CanApply(t, ev)
  BY <1>1 DEF CanApply
<1>3. Apply(t, ev) = [y \in (DOMAIN t \cup {x}) \ {x} |-> t[y]]
  BY <1>1 DEF Apply
<1>4. (DOMAIN t \cup {x}) \ {x} = DOMAIN t \ {x}
  OBVIOUS
<1>5. Replays(t, <<ev>>, Cut(t, {x}))
  BY <1>1, <1>2, <1>3, <1>4, ReplayOne DEF Cut
<1> QED BY <1>5 DEF ev

\* In a tree that x hangs in, and in one in which it was let go, its children
\* hang; and x has only them.
LEMMA KidsHang ==
  ASSUME NEW s, Good(s), Ranked(s), EntityAssumption, NEW x \in Known(s), NEW t,
         t = [y \in DOMAIN t |-> t[y]],
         Subtree(s, x) \subseteq DOMAIN t,
         \A y \in Subtree(s, x) : y # x => t[y] = s.ID_Parent[y],
         t[x] \in {s.ID_Parent[x], NoParent},
         \A y \in DOMAIN t : t[y] \in Subtree(s, x) => y \in Subtree(s, x)
  PROVE  /\ \A c \in Known(s) : s.ID_Parent[c] = x => Hangs(s, t, c)
         /\ \A y \in DOMAIN t \ (Subtree(s, x) \ {x}) : t[y] # x
<1>1. /\ x \in Subtree(s, x) /\ Subtree(s, x) \subseteq Known(s)
      /\ \A y \in Subtree(s, x) : y # x => Rank[y] < Rank[x]
  BY SubtreeParts
<1>2. /\ Known(s) \subseteq Ids /\ NoParent \notin Ids /\ \A y \in Known(s) : Rank[y] \in Nat
      /\ \A y \in Known(s) : s.ID_Parent[y] # NoParent => Rank[s.ID_Parent[y]] > Rank[y]
      /\ \A y \in Known(s) : s.ID_Parent[y] \in Known(s) \cup {NoParent}
  BY DEF Good, Typed, EntityAssumption, Ranked
<1>3. t[x] \notin Subtree(s, x)
  <2> SUFFICES ASSUME s.ID_Parent[x] \in Subtree(s, x) PROVE FALSE
    BY <1>1, <1>2
  <2>1. s.ID_Parent[x] \in Known(s) /\ s.ID_Parent[x] # NoParent
    BY <1>1, <1>2
  <2>2. s.ID_Parent[x] = x \/ Rank[s.ID_Parent[x]] < Rank[x]
    BY <1>1
  <2> QED BY <2>1, <2>2, <1>2
<1>4. ASSUME NEW c \in Known(s), s.ID_Parent[c] = x
      PROVE  Hangs(s, t, c)
  <2>1. /\ Subtree(s, c) \subseteq Subtree(s, x) /\ x \notin Subtree(s, c)
        /\ \A y \in Known(s) : s.ID_Parent[y] \in Subtree(s, c) => y \in Subtree(s, c)
    BY <1>4, SubtreeParts
  <2>2. Subtree(s, c) \subseteq DOMAIN t /\ \A y \in Subtree(s, c) : t[y] = s.ID_Parent[y]
    BY <2>1
  <2>3. ASSUME NEW y \in DOMAIN t, t[y] \in Subtree(s, c)
        PROVE  y \in Subtree(s, c)
    <3>1. y \in Subtree(s, x) /\ y # x
      BY <2>1, <2>3, <1>3
    <3>2. t[y] = s.ID_Parent[y] /\ y \in Known(s)
      BY <3>1, <1>1
    <3> QED BY <3>2, <2>1, <2>3
  <2> QED BY <2>2, <2>3 DEF Hangs
<1>5. ASSUME NEW y \in DOMAIN t \ (Subtree(s, x) \ {x}), t[y] = x
      PROVE  FALSE
  <2>1. y \in Subtree(s, x)
    BY <1>1, <1>5
  <2>2. y = x
    BY <2>1
  <2> QED BY <2>2, <1>1, <1>3, <1>5
<1> QED BY <1>4, <1>5

\* x leaves with all that goes with it, when its children do.
LEMMA LeavesAfterKids ==
  ASSUME NEW s, Good(s), Ranked(s), EntityAssumption, NEW m \in Modes, NEW x \in Known(s),
         NEW g, g[x] = Unfolded(s, m, g, x),
         \A c \in Known(s) : s.ID_Parent[c] = x => Leaves(s, m, g, c)
  PROVE  Leaves(s, m, g, x)
<1> SUFFICES ASSUME NEW t, Hangs(s, t, x)
             PROVE  Replays(t, Piece(s, m, g, x), Cut(t, Subtree(s, x)))
  BY DEF Leaves
<1> DEFINE p == s.ID_Parent[x]
           S == Subtree(s, x)
           kids == FlattenSeq(Pieces(s, m, g, x))
           Free(u) == [y \in DOMAIN u |-> IF y = x THEN NoParent ELSE u[y]]
<1>1. /\ x \in Known(s) /\ x \in Ids /\ p \in Ids \cup {NoParent} /\ NoParent \notin Ids
      /\ x \in S
  <2>1. x \in S
    BY SubtreeParts
  <2>2. /\ Known(s) \subseteq Ids /\ NoParent \notin Ids
        /\ s.ID_Parent[x] \in Known(s) \cup {NoParent}
    BY DEF Good, Typed, EntityAssumption
  <2> HIDE DEF S
  <2> QED BY <2>1, <2>2
<1>2. /\ t = [y \in DOMAIN t |-> t[y]]
      /\ S \subseteq DOMAIN t
      /\ \A y \in S : t[y] = s.ID_Parent[y]
      /\ \A y \in DOMAIN t : t[y] \in S => y \in S
      /\ t[x] = p /\ x \in DOMAIN t
  BY <1>1 DEF Hangs
<1>3. ASSUME NEW u, u = t \/ u = Free(t)
      PROVE  /\ DOMAIN u = DOMAIN t /\ u = [y \in DOMAIN u |-> u[y]]
             /\ u[x] \in {p, NoParent}
             /\ \A y \in DOMAIN u : y # x => u[y] = t[y]
             /\ Replays(u, kids, Cut(u, S \ {x}))
             /\ \A y \in DOMAIN u \ (S \ {x}) : u[y] # x
  <2>1. /\ DOMAIN u = DOMAIN t /\ u = [y \in DOMAIN u |-> u[y]]
        /\ u[x] \in {p, NoParent}
        /\ \A y \in DOMAIN u : y # x => u[y] = t[y]
    <3>1. CASE u = t
      BY <3>1, <1>2
    <3>2. CASE u = Free(t)
      BY <3>2, <1>2
    <3> QED BY <3>1, <3>2, <1>3
  <2>2. S \subseteq DOMAIN u /\ \A y \in S : y # x => u[y] = s.ID_Parent[y]
    BY <2>1, <1>2
  <2>3. \A y \in DOMAIN u : u[y] \in S => y \in S
    BY <2>1, <1>1, <1>2
  <2> HIDE DEF S, kids
  <2>4. /\ \A c \in Known(s) : s.ID_Parent[c] = x => Hangs(s, u, c)
        /\ \A y \in DOMAIN u \ (S \ {x}) : u[y] # x
    <3>1. u = [y \in DOMAIN u |-> u[y]] /\ u[x] \in {s.ID_Parent[x], NoParent}
      BY <2>1
    <3> QED BY <2>2, <2>3, <3>1, KidsHang DEF S
  <2>5. Replays(u, kids, Cut(u, S \ {x}))
    <3>1. u = [y \in DOMAIN u |-> u[y]]
      BY <2>1
    <3> QED BY <2>4, <3>1, KidsReplay DEF S, kids
  <2> QED BY <2>1, <2>4, <2>5
<1>4. ASSUME NEW u, u = t \/ u = Free(t), u[x] = NoParent
      PROVE  Replays(Cut(u, S \ {x}), <<Destroyed(x)>>, Cut(t, S))
  <2> DEFINE v == Cut(u, S \ {x})
  <2>1. /\ DOMAIN v = DOMAIN u \ (S \ {x})
        /\ \A y \in DOMAIN v : v[y] = u[y]
    BY DEF Cut
  <2>2. DOMAIN u = DOMAIN t /\ \A y \in DOMAIN u : y # x => u[y] = t[y]
    BY <1>3, <1>4
  <2>3. \A y \in DOMAIN u \ (S \ {x}) : u[y] # x
    BY <1>3, <1>4
  <2> HIDE DEF v, Free, S
  <2>4. x \in DOMAIN v /\ v[x] = NoParent /\ \A y \in DOMAIN v : v[y] # x
    BY <2>1, <2>2, <2>3, <1>2, <1>4
  <2>5. Replays(v, <<Destroyed(x)>>, Cut(v, {x}))
    BY <2>4, <1>1, DestroyReplays
  <2>6. Cut(v, {x}) = Cut(t, S)
    <3>1. DOMAIN v \ {x} = DOMAIN t \ S
      BY <2>1, <2>2, <1>1
    <3>2. \A y \in DOMAIN v \ {x} : v[y] = t[y]
      BY <2>1, <2>2
    <3> QED BY <3>1, <3>2 DEF Cut
  <2> QED BY <2>5, <2>6 DEF v
<1>5. Replays(t, kids, Cut(t, S \ {x}))
  BY <1>3
<1>6. CASE p = NoParent
  <2> HIDE DEF S, kids, Free
  <2>1. Replays(Cut(t, S \ {x}), <<Destroyed(x)>>, Cut(t, S))
    BY <1>2, <1>4, <1>6
  <2>2. Replays(t, kids \o <<Destroyed(x)>>, Cut(t, S))
    BY <2>1, <1>5, ReplayThen
  <2>3. Piece(s, m, g, x) = Unfolded(s, m, g, x)
    BY <1>6 DEF Piece
  <2>4. CASE m = "pack"
    <3>1. Unfolded(s, m, g, x) = kids \o <<>> \o <<Destroyed(x)>>
      BY <2>4, <1>6 DEF Unfolded, Released, kids
    <3>2. kids \o <<>> = kids
      BY <1>5, ConcatEmptySeq DEF Replays
    <3> QED BY <2>2, <2>3, <3>1, <3>2 DEF S
  <2>5. CASE m # "pack"
    <3>1. Unfolded(s, m, g, x) = kids \o <<Destroyed(x)>>
      BY <2>5 DEF Unfolded, kids
    <3> QED BY <2>2, <2>3, <3>1 DEF S
  <2> QED BY <2>4, <2>5
<1>7. CASE p # NoParent /\ m = "pack"
  <2>1. Piece(s, m, g, x) = kids \o <<Rejected(p, x)>> \o <<Destroyed(x)>>
    BY <1>7 DEF Piece, Unfolded, Released
  <2> DEFINE v == Cut(t, S \ {x})
  <2>2. x \in DOMAIN v /\ v[x] = p
    BY <1>1, <1>2 DEF Cut
  <2>3. Replays(v, <<Rejected(p, x)>>, Free(v))
    <3> HIDE DEF v
    <3> QED BY <2>2, <1>1, <1>7, RejectReplays
  <2>4. Free(v) = Cut(Free(t), S \ {x})
    <3>1. DOMAIN Free(t) = DOMAIN t
      OBVIOUS
    <3>2. DOMAIN v = DOMAIN t \ (S \ {x}) /\ \A y \in DOMAIN v : v[y] = t[y]
      BY DEF Cut
    <3>3. \A y \in DOMAIN t : Free(t)[y] = IF y = x THEN NoParent ELSE t[y]
      OBVIOUS
    <3>4. Free(v) = [y \in DOMAIN t \ (S \ {x}) |-> IF y = x THEN NoParent ELSE t[y]]
      <4> HIDE DEF v, S
      <4> QED BY <3>2
    <3>5. Cut(Free(t), S \ {x}) = [y \in DOMAIN t \ (S \ {x}) |-> IF y = x THEN NoParent ELSE t[y]]
      <4> HIDE DEF v, S, Free
      <4> QED BY <3>1, <3>3 DEF Cut
    <3> QED BY <3>4, <3>5
  <2>5. Free(t)[x] = NoParent
    BY <1>2
  <2>6. Replays(Cut(Free(t), S \ {x}), <<Destroyed(x)>>, Cut(t, S))
    <3> HIDE DEF Free, S
    <3> QED BY <2>5, <1>4
  <2> HIDE DEF v, S, kids, Free
  <2>7. Replays(t, kids, v)
    BY <1>5 DEF v
  <2>8. Replays(t, kids \o <<Rejected(p, x)>>, Free(v))
    BY <2>3, <2>7, ReplayThen
  <2>9. Replays(t, kids \o <<Rejected(p, x)>> \o <<Destroyed(x)>>, Cut(t, S))
    BY <2>4, <2>6, <2>8, ReplayThen
  <2> QED BY <2>1, <2>9 DEF S
<1>8. CASE p # NoParent /\ m # "pack"
  <2>1. Piece(s, m, g, x) = <<Rejected(p, x)>> \o (kids \o <<Destroyed(x)>>)
    BY <1>8 DEF Piece, Unfolded
  <2>2. Replays(t, <<Rejected(p, x)>>, Free(t))
    BY <1>1, <1>2, <1>8, RejectReplays
  <2>3. Free(t)[x] = NoParent
    BY <1>2
  <2> HIDE DEF S, kids, Free
  <2>4. Replays(Free(t), kids, Cut(Free(t), S \ {x}))
    BY <1>3
  <2>5. Replays(Cut(Free(t), S \ {x}), <<Destroyed(x)>>, Cut(t, S))
    BY <2>3, <1>4
  <2>6. Replays(Free(t), kids \o <<Destroyed(x)>>, Cut(t, S))
    BY <2>4, <2>5, ReplayThen
  <2>7. Replays(t, <<Rejected(p, x)>> \o (kids \o <<Destroyed(x)>>), Cut(t, S))
    BY <2>2, <2>6, ReplayThen
  <2> QED BY <2>1, <2>7 DEF S
<1> QED BY <1>6, <1>7, <1>8

\* Whoever is known leaves, by what is sent of it, out of any tree it hangs in.
LEMMA AllLeave ==
  ASSUME NEW s, Good(s), Ranked(s), EntityAssumption, NEW m \in Modes, NEW g,
         \A x \in Known(s) : g[x] = Unfolded(s, m, g, x)
  PROVE  \A x \in Known(s) : Leaves(s, m, g, x)
<1> DEFINE Low == {n \in Nat : \A x \in Known(s) : Rank[x] < n => Leaves(s, m, g, x)}
<1>1. /\ \A x \in Known(s) : Rank[x] \in Nat
      /\ \A x \in Known(s) : s.ID_Parent[x] # NoParent => Rank[s.ID_Parent[x]] > Rank[x]
      /\ NoParent \notin Known(s)
  BY DEF Good, Typed, EntityAssumption, Ranked
<1>2. 0 \in Low
  BY <1>1
<1>3. ASSUME NEW n \in Nat, n \in Low PROVE n + 1 \in Low
  <2>1. ASSUME NEW x \in Known(s), Rank[x] < n + 1
        PROVE  Leaves(s, m, g, x)
    <3>1. \A c \in Known(s) : s.ID_Parent[c] = x => Rank[c] < n
      BY <1>1, <2>1
    <3>2. \A c \in Known(s) : s.ID_Parent[c] = x => Leaves(s, m, g, c)
      BY <1>3, <3>1
    <3> QED BY <3>2, LeavesAfterKids
  <2> QED BY <2>1
<1>4. Nat \subseteq Low
  <2> HIDE DEF Low
  <2> QED BY <1>2, <1>3, NatSteps
<1>5. ASSUME NEW x \in Known(s) PROVE Leaves(s, m, g, x)
  <2>1. Rank[x] + 1 \in Low /\ Rank[x] < Rank[x] + 1
    BY <1>1, <1>4
  <2> QED BY <2>1
<1> QED BY <1>5

\* The server's own tree is one of them.
LEMMA TreeHangs ==
  ASSUME NEW s, Good(s), Ranked(s), EntityAssumption, NEW e \in Known(s)
  PROVE  Hangs(s, s.ID_Parent, e)
<1>1. /\ Subtree(s, e) \subseteq Known(s)
      /\ \A y \in Known(s) : s.ID_Parent[y] \in Subtree(s, e) => y \in Subtree(s, e)
  BY TreeIsIntact, SubtreeShape
<1>2. s.ID_Parent = [y \in Known(s) |-> s.ID_Parent[y]]
  BY DEF Good, Typed
<1> QED BY <1>1, <1>2 DEF Hangs, Known

LEMMA PackReplays ==
  ASSUME NEW s, Good(s), Ranked(s), EntityAssumption, NEW e \in Known(s)
  PROVE  Replays(s.ID_Parent, EventPack(s, e), Cut(s.ID_Parent, Subtree(s, e)))
<1>1. PICK g : /\ \A x \in Known(s) : g[x] = Unfolded(s, "pack", g, x)
               /\ EventPack(s, e) = g[e]
  BY PackUnfolds
<1>2. "pack" \in Modes
  BY DEF Modes
<1>3. Leaves(s, "pack", g, e)
  BY <1>1, <1>2, AllLeave
<1>4. Piece(s, "pack", g, e) = EventPack(s, e)
  BY <1>1 DEF Piece
<1> QED BY <1>3, <1>4, TreeHangs DEF Leaves

LEMMA PerformReplays ==
  ASSUME NEW s, Good(s), Ranked(s), EntityAssumption, NEW e \in Known(s),
         s.ID_Parent[e] = NoParent
  PROVE  Replays(s.ID_Parent, DestroyEvents(s, e), Cut(s.ID_Parent, Subtree(s, e)))
<1>1. PICK g : /\ \A x \in Known(s) : g[x] = Unfolded(s, "perform", g, x)
               /\ DestroyEvents(s, e) = g[e]
  BY PerformUnfolds
<1>2. "perform" \in Modes
  BY DEF Modes
<1>3. Leaves(s, "perform", g, e)
  BY <1>1, <1>2, AllLeave
<1>4. Piece(s, "perform", g, e) = DestroyEvents(s, e)
  BY <1>1 DEF Piece
<1> QED BY <1>3, <1>4, TreeHangs DEF Leaves

\* x enters under p, or free.
LEMMA SpawnReplays ==
  ASSUME NEW t, NEW x \in Ids, NEW p \in Ids \cup {NoParent},
         x \notin DOMAIN t, p \in DOMAIN t \cup {NoParent},
         NEW u, u = [y \in DOMAIN t \cup {x} |-> IF y = x THEN p ELSE t[y]]
  PROVE  Replays(t, <<Spawned(x, p)>>, u)
<1> DEFINE ev == Spawned(x, p)
<1>1. ev.kind = "spawn" /\ ev.dest = p /\ ev.item = x /\ ev \in Events
  BY EventsTyped DEF Spawned
<1> HIDE DEF ev
<1>2. CanApply(t, ev)
  BY <1>1 DEF CanApply
<1>3. Apply(t, ev) = [y \in DOMAIN t \cup {x} |-> IF y = x THEN p ELSE t[y]]
  BY <1>1 DEF Apply
<1>4. Replays(t, <<ev>>, [y \in DOMAIN t \cup {x} |-> IF y = x THEN p ELSE t[y]])
  BY <1>1, <1>2, <1>3, ReplayOne
<1> QED BY <1>4 DEF ev

\* p takes x, which is free.
LEMMA TakeReplays ==
  ASSUME NEW t, NEW x \in Ids, NEW p \in Ids, x \in DOMAIN t, p \in DOMAIN t, t[x] = NoParent,
         NEW u, u = [y \in DOMAIN t |-> IF y = x THEN p ELSE t[y]]
  PROVE  Replays(t, <<Taken(p, x)>>, u)
<1> DEFINE ev == Taken(p, x)
<1>1. ev.kind = "take" /\ ev.dest = p /\ ev.item = x /\ ev \in Events
  BY EventsTyped DEF Taken
<1> HIDE DEF ev
<1>2. CanApply(t, ev)
  BY <1>1 DEF CanApply
<1>3. Apply(t, ev) = [y \in DOMAIN t \cup {x} |-> IF y = x THEN p ELSE t[y]]
  BY <1>1 DEF Apply
<1>4. DOMAIN t \cup {x} = DOMAIN t
  OBVIOUS
<1>5. Replays(t, <<ev>>, [y \in DOMAIN t |-> IF y = x THEN p ELSE t[y]])
  BY <1>1, <1>2, <1>3, <1>4, ReplayOne
<1> QED BY <1>5 DEF ev

Whole(t) == t = [y \in DOMAIN t |-> t[y]]

KidsEvents(e, kids) == [i \in 1..Len(kids) |-> Spawned(kids[i], e)]

KidsUnder(t, e, kids) ==
  [y \in DOMAIN t \cup Listed(kids) |-> IF y \in Listed(kids) THEN e ELSE t[y]]

\* The children that come with e enter under it one after another.
LEMMA KidsSpawn ==
  ASSUME NEW t, NEW e \in Ids, e \in DOMAIN t, Whole(t),
         NEW kids \in Seq(Ids), NoRepeat(kids), Listed(kids) \cap DOMAIN t = {}
  PROVE  Replays(t, KidsEvents(e, kids), KidsUnder(t, e, kids))
<1> DEFINE n == Len(kids)
           w == KidsEvents(e, kids)
           In(i) == {kids[j] : j \in 1..i}
           Tree(i) == [y \in DOMAIN t \cup In(i) |-> IF y \in In(i) THEN e ELSE t[y]]
           f == [i \in 0..n |-> Tree(i)]
<1>1. /\ n \in Nat /\ \A i \in 1..n : kids[i] \in Ids /\ kids[i] \notin DOMAIN t
      /\ \A i, j \in 1..n : kids[i] = kids[j] => i = j
  BY LenProperties DEF Listed, NoRepeat
<1>2. /\ w \in Seq(Events) /\ Len(w) = n /\ \A i \in 1..n : w[i] = Spawned(kids[i], e)
  <2>1. \A i \in 1..n : Spawned(kids[i], e) \in Events
    BY <1>1, EventsTyped
  <2>4. w = [i \in 1..n |-> Spawned(kids[i], e)]
    BY DEF KidsEvents
  <2> HIDE DEF n, w
  <2>2. w \in [1..n -> Events] /\ DOMAIN w = 1..n /\ \A i \in 1..n : w[i] = Spawned(kids[i], e)
    BY <2>1, <2>4
  <2>3. w \in Seq(Events)
    BY <2>2, <1>1, SeqDef
  <2> QED BY <2>2, <2>3, <1>1, LenProperties
<1>3. Listed(kids) = In(n)
  BY DEF Listed
<1> HIDE DEF n, w
<1>4. Tree(0) = t
  <2>1. In(0) = {}
    OBVIOUS
  <2> HIDE DEF In
  <2>2. Tree(0) = [y \in DOMAIN t |-> t[y]]
    BY <2>1
  <2> QED BY <2>2 DEF Whole
<1>5. ASSUME NEW i \in 1..n
      PROVE  Tree(i) = Apply(Tree(i-1), w[i]) /\ CanApply(Tree(i-1), w[i])
  <2> DEFINE x == kids[i]
             ev == w[i]
  <2>1. /\ In(i) = In(i-1) \cup {x} /\ x \notin In(i-1) /\ x \notin DOMAIN t
        /\ \A y \in In(i-1) : y \notin DOMAIN t
    BY <1>1
  <2>2. ev.kind = "spawn" /\ ev.dest = e /\ ev.item = x
    BY <1>2 DEF Spawned
  <2> DEFINE P == Tree(i-1)
             D == DOMAIN t \cup In(i)
  <2> HIDE DEF x, ev, In
  <2>3. DOMAIN P = DOMAIN t \cup In(i-1)
    OBVIOUS
  <2>6. \A y \in D : (IF y = x THEN e ELSE P[y]) = IF y \in In(i) THEN e ELSE t[y]
    BY <2>1
  <2>7. DOMAIN P \cup {x} = D
    BY <2>1, <2>3
  <2>9. Tree(i) = [y \in D |-> IF y \in In(i) THEN e ELSE t[y]]
    OBVIOUS
  <2> HIDE DEF P, D, Tree
  <2>4. CanApply(P, ev)
    BY <2>1, <2>2, <2>3 DEF CanApply
  <2>5. Apply(P, ev) = [y \in D |-> IF y = x THEN e ELSE P[y]]
    BY <2>2, <2>7 DEF Apply
  <2>8. Tree(i) = Apply(P, ev)
    BY <2>5, <2>6, <2>9
  <2> QED BY <2>4, <2>8 DEF ev, P
<1> HIDE DEF Tree
<1>6. \A i \in 0..n : f[i] = Tree(i)
  OBVIOUS
<1>7. f = [i \in 0..n |-> IF i = 0 THEN t ELSE Apply(f[i-1], w[i])]
  <2>1. \A i \in 0..n : Tree(i) = IF i = 0 THEN t ELSE Apply(f[i-1], w[i])
    <3> TAKE i \in 0..n
    <3>1. CASE i = 0
      BY <3>1, <1>4
    <3>2. CASE i # 0
      <4>1. i \in 1..n /\ i - 1 \in 0..n
        BY <3>2, <1>1
      <4> QED BY <3>2, <4>1, <1>5, <1>6
    <3> QED BY <3>1, <3>2
  <2> QED BY <2>1
<1> HIDE DEF f
<1>8. \A i \in 1..n : CanApply(f[i-1], w[i])
  <2> TAKE i \in 1..n
  <2>1. i - 1 \in 0..n
    BY <1>1
  <2> QED BY <2>1, <1>5, <1>6
<1>9. n \in 0..n
  BY <1>1
<1>10. Runs(f, t, w) /\ f[Len(w)] = Tree(n)
  BY <1>2, <1>6, <1>7, <1>9 DEF Runs
<1>11. Replays(t, w, Tree(n))
  BY <1>2, <1>8, <1>10 DEF Replays
<1> QED BY <1>3, <1>11 DEF Tree, n, w, KidsUnder

WithKids(t, e, kids) ==
  [y \in DOMAIN t \cup (Listed(kids) \cup {e}) |->
     IF y = e THEN NoParent ELSE IF y \in Listed(kids) THEN e ELSE t[y]]

LEMMA AddReplays ==
  ASSUME NEW t, NEW e \in Ids, Whole(t),
         NEW kids \in Seq(Ids), NoRepeat(kids), e \notin Listed(kids),
         (Listed(kids) \cup {e}) \cap DOMAIN t = {}
  PROVE  Replays(t, <<Spawned(e, NoParent)>> \o KidsEvents(e, kids), WithKids(t, e, kids))
<1> DEFINE u == [y \in DOMAIN t \cup {e} |-> IF y = e THEN NoParent ELSE t[y]]
           v == KidsUnder(u, e, kids)
<1>1. Replays(t, <<Spawned(e, NoParent)>>, u)
  <2>1. /\ e \notin DOMAIN t /\ NoParent \in Ids \cup {NoParent}
        /\ NoParent \in DOMAIN t \cup {NoParent}
    OBVIOUS
  <2>2. u = [y \in DOMAIN t \cup {e} |-> IF y = e THEN NoParent ELSE t[y]]
    OBVIOUS
  <2> HIDE DEF u
  <2> QED BY <2>1, <2>2, SpawnReplays
<1>2. DOMAIN u = DOMAIN t \cup {e} /\ Whole(u)
      /\ \A y \in DOMAIN u : u[y] = IF y = e THEN NoParent ELSE t[y]
  BY DEF Whole
<1> HIDE DEF u
<1>3. Replays(u, KidsEvents(e, kids), v)
  <2>1. e \in DOMAIN u /\ Listed(kids) \cap DOMAIN u = {}
    BY <1>2
  <2> QED BY <2>1, <1>2, KidsSpawn
<1>4. v = [y \in DOMAIN t \cup (Listed(kids) \cup {e}) |->
             IF y = e THEN NoParent ELSE IF y \in Listed(kids) THEN e ELSE t[y]]
  <2> DEFINE L == Listed(kids)
             D == DOMAIN t \cup (L \cup {e})
  <2>1. e \notin L
    OBVIOUS
  <2> HIDE DEF L
  <2>4. v = [y \in DOMAIN u \cup L |-> IF y \in L THEN e ELSE u[y]]
    BY DEF KidsUnder, L
  <2>2. DOMAIN u \cup L = D
    BY <1>2
  <2>3. \A y \in D : (IF y \in L THEN e ELSE u[y]) =
                        IF y = e THEN NoParent ELSE IF y \in L THEN e ELSE t[y]
    BY <1>2, <2>1
  <2> QED BY <2>2, <2>3, <2>4 DEF L
<1>5. Replays(t, <<Spawned(e, NoParent)>> \o KidsEvents(e, kids), v)
  BY <1>1, <1>3, ReplayThen
<1> QED BY <1>4, <1>5 DEF WithKids

LEMMA WireKept ==
  ASSUME NEW s, DOMAIN s = {"ID_Parent", "children", "wire", "fault"}
  PROVE  /\ \A w : SendBroadcast(s, w).wire = s.wire \o w
         /\ \A p, e : Attached(s, p, e).wire = s.wire
         /\ \A p, e : Detached(s, p, e).wire = s.wire
         /\ \A e, p, kids : Entered(s, e, p, kids).wire = s.wire
         /\ \A e, kids : EnteredWith(s, e, kids).wire = s.wire
         /\ \A S, e : Pruned(s, S, e).wire = s.wire
         /\ \A site : Fault(s, site).wire = s.wire
  BY DEF SendBroadcast, Attached, Detached, Entered, EnteredWith, Pruned, Fault

\* A client with tree m gets to the server's by what is on the wire.
Caught(m, s) == Replays(m, s.wire, s.ID_Parent)

Following(m, s) == Good(s) /\ Ranked(s) /\ Caught(m, s)

\* A call that sends nothing and leaves the tree as it is.
LEMMA SilentFollows ==
  ASSUME NEW m, NEW s, Following(m, s), NEW a, Good(a),
         a.wire = s.wire, a.ID_Parent = s.ID_Parent
  PROVE  Following(m, a)
<1>1. Ranked(a)
  BY DEF Following, Ranked, Known
<1>2. Caught(m, a)
  BY DEF Following, Caught
<1> QED BY <1>1, <1>2 DEF Following

LEMMA FaultFollows ==
  ASSUME NEW m, NEW s, Following(m, s), NEW site
  PROVE  Following(m, Fault(s, site))
<1>1. Good(s) /\ DOMAIN s = {"ID_Parent", "children", "wire", "fault"}
  BY DEF Following, Good, Typed
<1>2. /\ Fault(s, site).wire = s.wire /\ Fault(s, site).ID_Parent = s.ID_Parent
      /\ Good(Fault(s, site))
  BY <1>1, WireKept, ParentsKept, FaultIsGood
<1> QED BY <1>2, SilentFollows

\* A call that changes the tree to that of a, and sends events that lead there.
LEMMA SentFollows ==
  ASSUME NEW m, NEW s, Following(m, s), NEW a, Good(a), Ranked(a), a.wire = s.wire,
         NEW w, Replays(s.ID_Parent, w, a.ID_Parent)
  PROVE  Following(m, SendBroadcast(a, w))
<1> DEFINE b == SendBroadcast(a, w)
<1>1. DOMAIN a = {"ID_Parent", "children", "wire", "fault"}
  BY DEF Good, Typed
<1>2. b.wire = s.wire \o w /\ b.ID_Parent = a.ID_Parent /\ Good(b)
  <2>4. b.wire = a.wire \o w
    BY <1>1, WireKept
  <2>1. b.wire = s.wire \o w
    BY <2>4
  <2>2. b.ID_Parent = a.ID_Parent
    BY <1>1, ParentsKept
  <2>3. Good(b)
    BY SendIsGood
  <2> QED BY <2>1, <2>2, <2>3
<1> HIDE DEF b
<1>3. Replays(m, s.wire \o w, a.ID_Parent)
  BY ReplayThen DEF Following, Caught
<1>4. Caught(m, b)
  BY <1>2, <1>3 DEF Caught
<1>5. Ranked(b)
  BY <1>2 DEF Ranked, Known
<1> QED BY <1>2, <1>4, <1>5 DEF Following, b

\* A parent that outranks what it gets.
LEMMA RankedWith ==
  ASSUME NEW s, Ranked(s), NEW a, NEW e, NEW p, p = NoParent \/ Rank[p] > Rank[e],
         a.ID_Parent = [s.ID_Parent EXCEPT ![e] = p]
  PROVE  Ranked(a)
BY DEF Ranked, Known

LEMMA SpawnFollows ==
  ASSUME NEW m, NEW s, Following(m, s), NEW e \in Ids, e \notin Known(s),
         NEW p, p = NoParent \/ MayOwn(p, e), EntityAssumption
  PROVE  Following(m, Process_spawn(s, e, p))
<1> DEFINE new == Entered(s, e, NoParent, <<>>)
           t == s.ID_Parent
           K == Known(s) \cup {e}
<1>1. /\ DOMAIN s = {"ID_Parent", "children", "wire", "fault"} /\ Good(s) /\ Ranked(s)
      /\ NoParent \notin Known(s) /\ Known(s) \subseteq Ids
      /\ \A x \in Known(s) : t[x] # e
  BY DEF Following, Good, Typed, EntityAssumption
<1>2. /\ Good(new) /\ Known(new) = K /\ new.ID_Parent[e] = NoParent
      /\ DOMAIN new = DOMAIN s /\ new.wire = s.wire
  <2>1. Good(new) /\ Known(new) = K /\ new.ID_Parent[e] = NoParent
    BY <1>1, EnteredIsGood
  <2>2. DOMAIN new = DOMAIN s
    BY <1>1, FieldsKept
  <2>3. new.wire = s.wire
    BY <1>1, WireKept
  <2> QED BY <2>1, <2>2, <2>3
<1>3. new.ID_Parent = [x \in K |-> IF x = e THEN NoParent ELSE t[x]]
  BY <1>1 DEF Entered
<1> HIDE DEF new
<1>4. Ranked(new)
  BY <1>1, <1>2, <1>3 DEF Ranked
<1>5. CASE p = NoParent
  <2>1. Process_spawn(s, e, p) = SendBroadcast(new, <<Spawned(e, p)>>)
    BY <1>5, <1>1 DEF Process_spawn, new
  <2>2. Replays(t, <<Spawned(e, p)>>, new.ID_Parent)
    <3>1. p \in Ids \cup {NoParent} /\ e \notin DOMAIN t /\ p \in DOMAIN t \cup {NoParent}
      BY <1>5 DEF Known
    <3>2. new.ID_Parent = [x \in DOMAIN t \cup {e} |-> IF x = e THEN p ELSE t[x]]
      BY <1>5, <1>3 DEF Known
    <3> DEFINE u == new.ID_Parent
    <3> HIDE DEF t
    <3> QED BY <3>1, <3>2, SpawnReplays
  <2> QED BY <2>1, <2>2, <1>2, <1>4, SentFollows
<1>6. CASE p # NoParent /\ p \in Known(s)
  <2> DEFINE a == Attached(new, p, e)
  <2>1. Process_spawn(s, e, p) = SendBroadcast(a, <<Spawned(e, p)>>)
    BY <1>6 DEF Process_spawn, new
  <2>2. /\ Good(a) /\ a.wire = s.wire
        /\ a.ID_Parent = [new.ID_Parent EXCEPT ![e] = p]
    <3>1. DOMAIN new = {"ID_Parent", "children", "wire", "fault"} /\ e \in Known(new) /\ p \in Known(new)
      BY <1>1, <1>2, <1>6
    <3>2. Good(a)
      BY <3>1, <1>2, AttachedIsGood
    <3>3. a.wire = new.wire
      BY <3>1, WireKept
    <3>4. a.ID_Parent = [new.ID_Parent EXCEPT ![e] = p]
      BY <3>1, ParentsKept
    <3> QED BY <3>2, <3>3, <3>4, <1>2
  <2> HIDE DEF a
  <2>3. Ranked(a)
    BY <2>2, <1>4, <1>6, RankedWith DEF MayOwn
  <2>4. Replays(t, <<Spawned(e, p)>>, a.ID_Parent)
    <3>1. p \in Ids \cup {NoParent} /\ e \notin DOMAIN t /\ p \in DOMAIN t \cup {NoParent}
      BY <1>6 DEF Known, MayOwn
    <3>2. a.ID_Parent = [x \in DOMAIN t \cup {e} |-> IF x = e THEN p ELSE t[x]]
      BY <2>2, <1>3 DEF Known
    <3> HIDE DEF t
    <3> QED BY <3>1, <3>2, SpawnReplays
  <2> QED BY <2>1, <2>2, <2>3, <2>4, SentFollows
<1>7. CASE p # NoParent /\ p \notin Known(s)
  <2>1. Process_spawn(s, e, p) = s
    BY <1>7 DEF Process_spawn
  <2> QED BY <2>1
<1> QED BY <1>5, <1>6, <1>7

LEMMA OwnershipFollows ==
  ASSUME NEW m, NEW s, Following(m, s), NEW e \in Ids, NEW p, MayOwn(p, e), EntityAssumption
  PROVE  Following(m, Process_event_ownership(s, p, e))
<1> DEFINE a == Attached(s, p, e)
           t == s.ID_Parent
<1>1. DOMAIN s = {"ID_Parent", "children", "wire", "fault"} /\ Good(s) /\ Ranked(s)
  BY DEF Following, Good, Typed
<1>2. \/ Process_event_ownership(s, p, e) = s
      \/ Process_event_ownership(s, p, e) = Fault(s, "ownership: no parent")
      \/ /\ e \in Known(s) /\ p \in Known(s) /\ t[e] = NoParent
         /\ Process_event_ownership(s, p, e) = SendBroadcast(a, <<Taken(p, e)>>)
  BY DEF Process_event_ownership
<1>3. ASSUME e \in Known(s), p \in Known(s), t[e] = NoParent
      PROVE  Following(m, SendBroadcast(a, <<Taken(p, e)>>))
  <2>1. Good(a) /\ a.wire = s.wire /\ a.ID_Parent = [t EXCEPT ![e] = p]
    <3>1. Good(a)
      BY <1>1, <1>3, AttachedIsGood
    <3>2. a.wire = s.wire
      BY <1>1, WireKept
    <3>3. a.ID_Parent = [t EXCEPT ![e] = p]
      BY <1>1, ParentsKept
    <3> QED BY <3>1, <3>2, <3>3
  <2> HIDE DEF a
  <2>2. Ranked(a)
    BY <2>1, <1>1, RankedWith DEF MayOwn
  <2>3. Replays(t, <<Taken(p, e)>>, a.ID_Parent)
    <3>1. p \in Ids /\ e \in DOMAIN t /\ p \in DOMAIN t
      BY <1>3 DEF Known, MayOwn
    <3>2. a.ID_Parent = [x \in DOMAIN t |-> IF x = e THEN p ELSE t[x]]
      BY <2>1, <3>1
    <3> HIDE DEF t
    <3> QED BY <3>1, <3>2, <1>3, TakeReplays
  <2> QED BY <2>1, <2>2, <2>3, SentFollows
<1>4. Following(m, Fault(s, "ownership: no parent"))
  BY FaultFollows
<1> HIDE DEF a, t
<1> QED BY <1>2, <1>3, <1>4

LEMMA RejectFollows ==
  ASSUME NEW m, NEW s, Following(m, s), NEW e, NEW p, EntityAssumption
  PROVE  Following(m, Process_event_reject(s, p, e))
<1> DEFINE a == Detached(s, p, e)
           t == s.ID_Parent
<1>1. DOMAIN s = {"ID_Parent", "children", "wire", "fault"} /\ Good(s) /\ Ranked(s)
      /\ Known(s) \subseteq Ids
  BY DEF Following, Good, Typed
<1>2. \/ Process_event_reject(s, p, e) = s
      \/ Process_event_reject(s, p, e) = Fault(s, "reject: unknown entity")
      \/ Process_event_reject(s, p, e) = Fault(s, "reject: another parent")
      \/ /\ e \in Known(s) /\ p \in Known(s) /\ t[e] = p
         /\ Process_event_reject(s, p, e) = SendBroadcast(a, <<Rejected(p, e)>>)
  BY DEF Process_event_reject
<1>3. ASSUME e \in Known(s), p \in Known(s), t[e] = p
      PROVE  Following(m, SendBroadcast(a, <<Rejected(p, e)>>))
  <2>1. Good(a) /\ a.wire = s.wire /\ a.ID_Parent = [t EXCEPT ![e] = NoParent]
    <3>1. Good(a)
      BY <1>1, <1>3, DetachedIsGood
    <3>2. a.wire = s.wire
      BY <1>1, WireKept
    <3>3. a.ID_Parent = [t EXCEPT ![e] = NoParent]
      BY <1>1, ParentsKept
    <3> QED BY <3>1, <3>2, <3>3
  <2> HIDE DEF a
  <2>2. Ranked(a)
    BY <2>1, <1>1, RankedWith
  <2>3. Replays(t, <<Rejected(p, e)>>, a.ID_Parent)
    <3>1. p \in Ids /\ e \in Ids /\ e \in DOMAIN t
      BY <1>1, <1>3 DEF Known
    <3>2. a.ID_Parent = [x \in DOMAIN t |-> IF x = e THEN NoParent ELSE t[x]]
      BY <2>1, <3>1
    <3> HIDE DEF t
    <3> QED BY <3>1, <3>2, <1>3, RejectReplays
  <2> QED BY <2>1, <2>2, <2>3, SentFollows
<1>4. /\ Following(m, Fault(s, "reject: unknown entity"))
      /\ Following(m, Fault(s, "reject: another parent"))
  BY FaultFollows
<1> HIDE DEF a, t
<1> QED BY <1>2, <1>3, <1>4

\* e goes with what hangs on it.
LEMMA PrunedFollows ==
  ASSUME NEW m, NEW s, Following(m, s), NEW e \in Known(s), EntityAssumption,
         NEW w, Replays(s.ID_Parent, w, Cut(s.ID_Parent, Subtree(s, e)))
  PROVE  Following(m, SendBroadcast(Pruned(s, Subtree(s, e), e), w))
<1> DEFINE S == Subtree(s, e)
           a == Pruned(s, S, e)
<1>1. DOMAIN s = {"ID_Parent", "children", "wire", "fault"} /\ Good(s) /\ Ranked(s)
  BY DEF Following, Good, Typed
<1>2. Good(a)
  BY <1>1, TreeIsIntact, PrunedIsGood
<1>3. a.wire = s.wire /\ a.ID_Parent = [x \in Known(s) \ S |-> s.ID_Parent[x]]
  <2>1. a.wire = s.wire
    BY <1>1, WireKept
  <2>2. a.ID_Parent = [x \in Known(s) \ S |-> s.ID_Parent[x]]
    BY <1>1, ParentsKept
  <2> QED BY <2>1, <2>2
<1>4. a.ID_Parent = Cut(s.ID_Parent, S)
  BY <1>3 DEF Cut, Known
<1> HIDE DEF a
<1>5. Ranked(a)
  BY <1>1, <1>3 DEF Ranked, Known
<1>6. Following(m, SendBroadcast(a, w))
  BY <1>2, <1>3, <1>4, <1>5, SentFollows
<1> QED BY <1>6 DEF a

LEMMA DestroyFollows ==
  ASSUME NEW m, NEW s, Following(m, s), NEW e, EntityAssumption
  PROVE  Following(m, Process_event_destroy(s, e))
<1>1. CASE e \notin Known(s)
  <2>1. Process_event_destroy(s, e) = s
    BY <1>1 DEF Process_event_destroy
  <2> QED BY <2>1
<1>2. CASE e \in Known(s)
  <2>1. Good(s) /\ Ranked(s) /\ Intact(s, Subtree(s, e))
    BY <1>2, TreeIsIntact DEF Following
  <2>2. Process_event_destroy(s, e) =
          SendBroadcast(Pruned(s, Subtree(s, e), e), EventPack(s, e))
    BY <1>2, <2>1 DEF Process_event_destroy
  <2> QED BY <1>2, <2>1, <2>2, PackReplays, PrunedFollows
<1> QED BY <1>1, <1>2

LEMMA PerformFollows ==
  ASSUME NEW m, NEW s, Following(m, s), NEW e \in Known(s), s.ID_Parent[e] = NoParent,
         EntityAssumption
  PROVE  Following(m, Perform_destroy(s, e))
<1>1. Good(s) /\ Ranked(s) /\ Intact(s, Subtree(s, e))
  BY TreeIsIntact DEF Following
<1>2. Perform_destroy(s, e) =
        SendBroadcast(Pruned(s, Subtree(s, e), e), DestroyEvents(s, e))
  BY <1>1 DEF Perform_destroy
<1> QED BY <1>1, <1>2, PerformReplays, PrunedFollows

LEMMA AddOnlineFollows ==
  ASSUME NEW m, NEW s, Following(m, s), NEW e \in Ids, NEW kids \in Seq(Ids), NoRepeat(kids),
         e \notin Listed(kids), (Listed(kids) \cup {e}) \cap Known(s) = {},
         \A x \in Listed(kids) : Rank[e] > Rank[x], EntityAssumption
  PROVE  Following(m, Add_online(s, e, kids))
<1> DEFINE a == EnteredWith(s, e, kids)
           t == s.ID_Parent
           L == Listed(kids)
<1>1. /\ DOMAIN s = {"ID_Parent", "children", "wire", "fault"} /\ Good(s) /\ Ranked(s)
      /\ Whole(t)
  BY DEF Following, Good, Typed, Known, Whole
<1>2. Good(a) /\ a.wire = s.wire
  <2>1. Good(a)
    BY <1>1, EnteredWithIsGood
  <2>2. a.wire = s.wire
    BY <1>1, WireKept
  <2> QED BY <2>1, <2>2
<1>3. a.ID_Parent = [x \in Known(s) \cup (L \cup {e}) |->
                       CASE x = e -> NoParent [] x \in L -> e [] OTHER -> t[x]]
  BY <1>1 DEF EnteredWith
<1>4. e \notin L
  OBVIOUS
<1> HIDE DEF a, L
<1>5. a.ID_Parent = [x \in DOMAIN t \cup (L \cup {e}) |->
                       IF x = e THEN NoParent ELSE IF x \in L THEN e ELSE t[x]]
  BY <1>3, <1>4 DEF Known
<1>6. Ranked(a)
  <2>1. \A x \in L : Rank[e] > Rank[x]
    BY DEF L
  <2>2. \A x \in Known(s) : t[x] # NoParent => Rank[t[x]] > Rank[x]
    BY <1>1 DEF Ranked
  <2>3. ASSUME NEW x \in Known(a), a.ID_Parent[x] # NoParent
        PROVE  Rank[a.ID_Parent[x]] > Rank[x]
    <3>1. x \in Known(s) \cup (L \cup {e})
      BY <1>5 DEF Known
    <3>2. x # e
      BY <1>5, <2>3, <3>1 DEF Known
    <3>3. CASE x \in L
      BY <1>5, <2>1, <3>2, <3>3
    <3>4. CASE x \notin L
      <4>1. x \in Known(s) /\ a.ID_Parent[x] = t[x]
        BY <1>5, <3>1, <3>2, <3>4 DEF Known
      <4> QED BY <4>1, <2>2, <2>3
    <3> QED BY <3>3, <3>4
  <2> QED BY <2>3 DEF Ranked
<1>7. Replays(t, <<Spawned(e, NoParent)>> \o KidsEvents(e, kids), a.ID_Parent)
  <2>1. (Listed(kids) \cup {e}) \cap DOMAIN t = {}
    BY DEF Known
  <2>2. a.ID_Parent = WithKids(t, e, kids)
    BY <1>5 DEF WithKids, L
  <2> HIDE DEF t
  <2> QED BY <1>1, <2>1, <2>2, AddReplays
<1>8. Add_online(s, e, kids) =
        SendBroadcast(a, <<Spawned(e, NoParent)>> \o KidsEvents(e, kids))
  BY Zenon DEF Add_online, KidsEvents, a
<1> HIDE DEF t
<1> QED BY <1>2, <1>6, <1>7, <1>8, SentFollows DEF t

LEMMA InitFollows ==
  ASSUME Init
  PROVE  Following(mirror, sv)
<1>1. Good(sv)
  BY InitInv DEF Inv
<1>2. sv.ID_Parent = <<>> /\ sv.wire = <<>> /\ mirror = <<>>
  BY DEF Init
<1>3. Known(sv) = {}
  BY <1>2 DEF Known
<1>4. Caught(mirror, sv)
  BY <1>2, ReplayNone DEF Caught
<1> QED BY <1>1, <1>3, <1>4 DEF Following, Ranked

\* The client applies the head of the wire.
LEMMA HeadFollows ==
  ASSUME NEW m, NEW s, Following(m, s), s.wire # <<>>
  PROVE  Following(Apply(m, Head(s.wire)), [s EXCEPT !.wire = Tail(@)])
<1> DEFINE a == [s EXCEPT !.wire = Tail(@)]
<1>1. DOMAIN s = {"ID_Parent", "children", "wire", "fault"} /\ Good(s)
  BY DEF Following, Good, Typed
<1>2. /\ a.wire = Tail(s.wire) /\ a.ID_Parent = s.ID_Parent /\ a.children = s.children
      /\ DOMAIN a = DOMAIN s
  BY <1>1
<1> HIDE DEF a
<1>3. Caught(Apply(m, Head(s.wire)), a)
  BY <1>2, ReplayHead DEF Following, Caught
<1>4. Good(a) /\ Ranked(a)
  BY <1>1, <1>2 DEF Following, Good, Typed, Agree, Ranked, Known
<1> QED BY <1>3, <1>4 DEF Following, a

\* The client applies what it is sent.
LEMMA ReceiveFollows ==
  ASSUME Following(mirror, sv), Receive
  PROVE  Following(mirror', sv')
BY HeadFollows DEF Receive

\* A call leads the server to s: whoever followed s follows it.
LEMMA CallReaches ==
  ASSUME NEW m, NEW s, Following(m, s), Call(s)
  PROVE  Following(m, sv')
BY DEF Call

\* Every request, with whatever tree a client follows the server.
LEMMA RequestsFollow ==
  ASSUME EntityAssumption, NEW m, Following(m, sv), Requests
  PROVE  Following(m, sv')
<1> DEFINE Goal == Following(m, sv')
<1> PICK e \in Ids :
      \/ Spawn(e, NoParent)
      \/ Destroy(e)
      \/ Leave(e)
      \/ \E kids \in Luggage(e) : Enter(e, kids)
      \/ \E p \in Ids :
           /\ MayOwn(p, e)
           /\ \/ Spawn(e, p)
              \/ Ownership(p, e)
              \/ Reject(p, e)
              \/ Eat(p, e)
              \/ \E q \in Ids : MayOwn(q, e) /\ Transfer(p, e, q)
  BY DEF Requests
<1> HIDE DEF Goal
<1>1. ASSUME NEW p, p = NoParent \/ MayOwn(p, e), Spawn(e, p)
      PROVE  Goal
  BY <1>1, SpawnFollows, CallReaches DEF Spawn, Goal
<1>2. CASE Destroy(e)
  BY <1>2, DestroyFollows, CallReaches DEF Destroy, Goal
<1>3. CASE Leave(e)
  BY <1>3, PerformFollows, CallReaches DEF Leave, Goal
<1>4. ASSUME NEW kids \in Luggage(e), Enter(e, kids)
      PROVE  Goal
  <2>1. kids \in Seq(Ids) /\ e \notin Listed(kids)
    BY LuggageListed
  <2>2. \A x \in Listed(kids) : Rank[e] > Rank[x]
    <3>1. PICK n \in 0..LuggageBound : kids \in [1..n -> {x \in Ids : MayOwn(e, x)}]
      BY DEF Luggage
    <3>2. \A i \in 1..Len(kids) : MayOwn(e, kids[i])
      <4>1. n \in Nat
        BY DEF EntityAssumption
      <4>2. Len(kids) = n
        BY <3>1, <4>1
      <4> QED BY <3>1, <4>2
    <3> QED BY <3>2 DEF Listed, MayOwn
  <2>3. NoRepeat(kids) /\ (Listed(kids) \cup {e}) \cap Known(sv) = {}
    BY <1>4 DEF Enter
  <2>4. Following(m, Add_online(sv, e, kids))
    BY <2>1, <2>2, <2>3, AddOnlineFollows
  <2> QED BY <1>4, <2>4, CallReaches DEF Enter, Goal
<1>5. ASSUME NEW p \in Ids, MayOwn(p, e), Ownership(p, e)
      PROVE  Goal
  BY <1>5, OwnershipFollows, CallReaches DEF Ownership, Goal
<1>6. ASSUME NEW p \in Ids, Reject(p, e)
      PROVE  Goal
  BY <1>6, RejectFollows, CallReaches DEF Reject, Goal
<1>7. ASSUME NEW p \in Ids, NEW q \in Ids, MayOwn(q, e), Transfer(p, e, q)
      PROVE  Goal
  <2> DEFINE t == Process_event_reject(sv, p, e)
  <2>1. Following(m, t)
    BY RejectFollows
  <2> HIDE DEF t
  <2>2. Following(m, ThenOwnership(t, q, e))
    BY <2>1, <1>7, OwnershipFollows DEF ThenOwnership
  <2> QED BY <1>7, <2>2, CallReaches DEF Transfer, t, Goal
<1>8. ASSUME NEW p \in Ids, Eat(p, e)
      PROVE  Goal
  <2> DEFINE t == Process_event_reject(sv, p, e)
  <2>1. Following(m, t)
    BY RejectFollows
  <2> HIDE DEF t
  <2>2. Following(m, ThenDestroy(t, e))
    BY <2>1, DestroyFollows DEF ThenDestroy
  <2> QED BY <1>8, <2>2, CallReaches DEF Eat, t, Goal
<1> QED BY <1>1, <1>2, <1>3, <1>4, <1>5, <1>6, <1>7, <1>8 DEF Goal

\* Every step of the server, or of the client that applies what it is sent.
LEMMA NextFollows ==
  ASSUME EntityAssumption, Following(mirror, sv), [Next]_vars
  PROVE  Following(mirror', sv')
<1>1. CASE Requests
  <2>1. mirror' = mirror
    BY <1>1 DEF Requests, Spawn, Destroy, Leave, Enter, Ownership, Reject, Eat, Transfer, Call
  <2> QED BY <1>1, <2>1, RequestsFollow
<1>2. CASE Receive
  BY <1>2, ReceiveFollows
<1>3. CASE Stopped \/ UNCHANGED vars
  BY <1>3 DEF Stopped, vars
<1> QED BY <1>1, <1>2, <1>3 DEF Next

\* A client that applies what the server has broadcast, event by event, can
\* apply each and ends with the server's tree: whatever the order and the age
\* of the requests, and however deep what a destroy takes along hangs.
THEOREM WireReplaysHolds == Spec => []WireReplays
<1> DEFINE F == Following(mirror, sv)
<1>1. Init => F
  BY InitFollows
<1>2. EntityAssumption /\ F /\ [Next]_vars => F'
  <2> SUFFICES ASSUME EntityAssumption, F, [Next]_vars PROVE Following(mirror', sv')
    BY DEF Following, Good, Typed, Agree, Ranked, Caught, Known
  <2> QED BY NextFollows
<1>3. F => WireReplays
  BY ReplaysOnWire DEF Following, Caught
<1> HIDE DEF F
<1> QED BY <1>1, <1>2, <1>3, EntityAssumption, PTL DEF Spec

-----------------------------------------------------------------------------
(* What a call adds to the wire, for those who share it with the server.    *)

\* Events that are not spawns, about members of K.
Changes(K) ==
  {ev \in Events : /\ ev.kind # "spawn" /\ ev.item \in K
                   /\ ev.kind = "take" => MayOwn(ev.dest, ev.item)}

\* t has sent events of E since s.
Sends(s, t, E) == \E w \in Seq(E) : t.wire = s.wire \o w

\* The pieces of a flattened sequence are where their elements are.
LEMMA FlattenedIn ==
  ASSUME NEW E, NEW q, NEW n \in Nat, n = Len(q), q = <<>> \/ n # 0,
         \A i \in 1..n : q[i] \in Seq(E)
  PROVE  FlattenSeq(q) \in Seq(E)
<1>1. CASE q = <<>>
  BY <1>1 DEF FlattenSeq
<1>2. CASE n # 0
  <2>1. PICK g : /\ FlattenSeq(q) = g[n] /\ g[1] = q[1]
                 /\ \A i \in 2..n : g[i] = g[i-1] \o q[i]
    BY <1>2, Flattened
  <2> DEFINE Low == {m \in Nat : m + 1 <= n => g[m+1] \in Seq(E)}
  <2>2. 0 \in Low
    BY <1>2, <2>1
  <2>3. ASSUME NEW m \in Nat, m \in Low PROVE m + 1 \in Low
    <3> SUFFICES ASSUME (m + 1) + 1 <= n PROVE g[(m+1)+1] \in Seq(E)
      OBVIOUS
    <3>1. (m + 1) + 1 \in 2..n /\ ((m + 1) + 1) - 1 = m + 1 /\ m + 1 <= n
      OBVIOUS
    <3>2. g[m+1] \in Seq(E) /\ q[(m+1)+1] \in Seq(E)
      BY <2>3, <3>1
    <3>3. g[(m+1)+1] = g[m+1] \o q[(m+1)+1]
      BY <2>1, <3>1
    <3> QED BY <3>2, <3>3, ConcatProperties
  <2>4. n - 1 \in Low
    <3>1. n - 1 \in Nat
      BY <1>2
    <3> HIDE DEF Low
    <3> QED BY <2>2, <2>3, <3>1, NatSteps
  <2>5. (n - 1) + 1 = n
    OBVIOUS
  <2> QED BY <2>1, <2>4, <2>5
<1> QED BY <1>1, <1>2

\* What is sent of an entity that leaves is about who is known.
LEMMA UnfoldedIn ==
  ASSUME NEW s, Good(s), Ranked(s), EntityAssumption, NEW m \in Modes, NEW g,
         \A x \in Known(s) : g[x] = Unfolded(s, m, g, x)
  PROVE  \A x \in Known(s) : g[x] \in Seq(Changes(Known(s)))
<1> DEFINE E == Changes(Known(s))
           Low == {n \in Nat : \A x \in Known(s) : Rank[x] < n => g[x] \in Seq(E)}
<1>1. /\ \A x \in Known(s) : Rank[x] \in Nat /\ x \in Ids
      /\ \A x \in Known(s) : s.ID_Parent[x] # NoParent => Rank[s.ID_Parent[x]] > Rank[x]
      /\ \A x \in Known(s) : s.ID_Parent[x] \in Known(s) \cup {NoParent}
      /\ NoParent \notin Known(s)
  BY DEF Good, Typed, EntityAssumption, Ranked
<1>2. ASSUME NEW x \in Known(s)
      PROVE  /\ Destroyed(x) \in E
             /\ s.ID_Parent[x] # NoParent => Rejected(s.ID_Parent[x], x) \in E
  <2>1. Destroyed(x) \in E
    BY <1>1, EventsTyped DEF Changes, Destroyed
  <2>2. ASSUME s.ID_Parent[x] # NoParent
        PROVE  Rejected(s.ID_Parent[x], x) \in E
    <3>1. s.ID_Parent[x] \in Ids
      BY <1>1, <2>2
    <3> QED BY <1>1, <3>1, EventsTyped DEF Changes, Rejected
  <2> QED BY <2>1, <2>2
<1> HIDE DEF E
<1>3. \A x \in Known(s) : <<Destroyed(x)>> \in Seq(E) /\ Released(s, x) \in Seq(E)
  BY <1>2 DEF Released
<1>4. 0 \in Low
  BY <1>1
<1>5. ASSUME NEW n \in Nat, n \in Low PROVE n + 1 \in Low
  <2>1. ASSUME NEW x \in Known(s), Rank[x] < n + 1
        PROVE  g[x] \in Seq(E)
    <3> DEFINE k == Order(s, m, x)
               q == Pieces(s, m, g, x)
    <3>1. /\ Len(k) \in Nat
          /\ \A i \in 1..Len(k) : k[i] \in Known(s) /\ s.ID_Parent[k[i]] = x
      BY OrderListed
    <3>2. q = [i \in 1..Len(k) |-> Piece(s, m, g, k[i])]
      BY DEF Pieces
    <3> HIDE DEF k
    <3>3. ASSUME NEW i \in 1..Len(k)
          PROVE  Piece(s, m, g, k[i]) \in Seq(E)
      <4>1. k[i] \in Known(s) /\ s.ID_Parent[k[i]] = x
        BY <3>1
      <4>2. Rank[k[i]] < n
        BY <4>1, <1>1, <2>1
      <4>3. g[k[i]] \in Seq(E)
        BY <4>1, <4>2, <1>5
      <4>4. s.ID_Parent[k[i]] # NoParent => <<Rejected(s.ID_Parent[k[i]], k[i])>> \in Seq(E)
        BY <4>1, <1>2
      <4> QED BY <4>3, <4>4, ConcatProperties DEF Piece
    <3> DEFINE l == Len(k)
    <3> HIDE DEF l, q
    <3>4. q \in Seq(Seq(E)) /\ l = Len(q) /\ l \in Nat /\ \A i \in 1..l : q[i] \in Seq(E)
      <4>1. q = [i \in 1..l |-> Piece(s, m, g, k[i])] /\ l \in Nat
            /\ \A i \in 1..l : Piece(s, m, g, k[i]) \in Seq(E)
        BY <3>1, <3>2, <3>3 DEF l
      <4>2. q \in [1..l -> Seq(E)]
        BY <4>1
      <4>3. q \in Seq(Seq(E))
        BY <4>1, <4>2, SeqDef
      <4> QED BY <4>1, <4>2, <4>3, LenProperties
    <3>5. q = <<>> \/ l # 0
      BY <3>4, EmptySeq
    <3>6. FlattenSeq(q) \in Seq(E)
      BY <3>4, <3>5, FlattenedIn
    <3>7. Unfolded(s, m, g, x) \in Seq(E)
      BY <3>6, <1>3, ConcatProperties DEF Unfolded, q
    <3> QED BY <3>7
  <2> QED BY <2>1
<1>6. Nat \subseteq Low
  <2> HIDE DEF Low
  <2> QED BY <1>4, <1>5, NatSteps
<1>7. ASSUME NEW x \in Known(s) PROVE g[x] \in Seq(E)
  <2>1. Rank[x] + 1 \in Low /\ Rank[x] < Rank[x] + 1
    BY <1>1, <1>6
  <2> QED BY <2>1
<1> QED BY <1>7 DEF E

\* A call that leaves the wire alone; two calls one after the other.
LEMMA SendsNothing ==
  ASSUME NEW s, s.wire \in Seq(Events), NEW t, t.wire = s.wire, NEW E
  PROVE  Sends(s, t, E)
<1>1. <<>> \in Seq(E) /\ s.wire \o <<>> = s.wire
  BY ConcatEmptySeq
<1> QED BY <1>1 DEF Sends

LEMMA SendsMore ==
  ASSUME NEW s, s.wire \in Seq(Events), NEW t, NEW u, NEW E, E \subseteq Events,
         Sends(s, t, E), Sends(t, u, E)
  PROVE  Sends(s, u, E)
<1>1. PICK v \in Seq(E) : t.wire = s.wire \o v
  BY DEF Sends
<1>2. PICK w \in Seq(E) : u.wire = t.wire \o w
  BY DEF Sends
<1>3. v \o w \in Seq(E)
  BY ConcatProperties
<1>4. v \in Seq(Events) /\ w \in Seq(Events)
  OBVIOUS
<1>5. (s.wire \o v) \o w = s.wire \o (v \o w)
  <2> DEFINE a == s.wire
  <2>1. a \in Seq(Events)
    OBVIOUS
  <2> HIDE DEF a
  <2>2. (a \o v) \o w = a \o (v \o w)
    BY <1>4, <2>1, ConcatAssociative
  <2> QED BY <2>2 DEF a
<1> QED BY <1>1, <1>2, <1>3, <1>5 DEF Sends

\* A call leads to a state in which it sent w, or to one with the same wire.
LEMMA BroadcastSends ==
  ASSUME NEW s, DOMAIN s = {"ID_Parent", "children", "wire", "fault"},
         NEW a, DOMAIN a = DOMAIN s, a.wire = s.wire, NEW E, NEW w \in Seq(E)
  PROVE  Sends(s, SendBroadcast(a, w), E)
<1>1. SendBroadcast(a, w).wire = a.wire \o w
  BY WireKept
<1> QED BY <1>1 DEF Sends

\* Each handler sends of what the server knows, and leaves nobody on it who was not
\* there; only a spawn and an entering entity bring more.
LEMMA OwnershipSends ==
  ASSUME NEW m, NEW s, Following(m, s), NEW e \in Ids, NEW p \in Ids, MayOwn(p, e),
         EntityAssumption
  PROVE  /\ Sends(s, Process_event_ownership(s, p, e), Changes(Known(s)))
         /\ Known(Process_event_ownership(s, p, e)) = Known(s)
<1> DEFINE a == Attached(s, p, e)
           t == Process_event_ownership(s, p, e)
<1>1. /\ DOMAIN s = {"ID_Parent", "children", "wire", "fault"} /\ Good(s)
      /\ s.wire \in Seq(Events)
  BY DEF Following, Good, Typed, Caught, Replays
<1>2. \/ t = s
      \/ t = Fault(s, "ownership: no parent")
      \/ e \in Known(s) /\ t = SendBroadcast(a, <<Taken(p, e)>>)
  BY DEF Process_event_ownership
<1>3. Sends(s, s, Changes(Known(s)))
  BY <1>1, SendsNothing
<1>4. Sends(s, Fault(s, "ownership: no parent"), Changes(Known(s)))
  <2>1. Fault(s, "ownership: no parent").wire = s.wire
    BY <1>1, WireKept
  <2> QED BY <1>1, <2>1, SendsNothing
<1>5. ASSUME e \in Known(s) PROVE Sends(s, SendBroadcast(a, <<Taken(p, e)>>), Changes(Known(s)))
  <2>1. Taken(p, e) \in Changes(Known(s))
    BY <1>5, EventsTyped DEF Changes, Taken
  <2>2. <<Taken(p, e)>> \in Seq(Changes(Known(s)))
    BY <2>1
  <2>3. a.wire = s.wire
    BY <1>1, WireKept
  <2>4. DOMAIN a = DOMAIN s
    BY <1>1, FieldsKept
  <2> HIDE DEF a
  <2> QED BY <1>1, <2>2, <2>3, <2>4, BroadcastSends
<1>6. Known(t) = Known(s)
  <2>1. t.ID_Parent = s.ID_Parent \/ t.ID_Parent = [s.ID_Parent EXCEPT ![e] = p]
    BY <1>1, OwnershipParents
  <2> QED BY <2>1 DEF Known
<1> HIDE DEF a, t
<1> QED BY <1>2, <1>3, <1>4, <1>5, <1>6 DEF t

LEMMA RejectSends ==
  ASSUME NEW m, NEW s, Following(m, s), NEW e \in Ids, NEW p \in Ids, EntityAssumption
  PROVE  /\ Sends(s, Process_event_reject(s, p, e), Changes(Known(s)))
         /\ Known(Process_event_reject(s, p, e)) = Known(s)
<1> DEFINE a == Detached(s, p, e)
           t == Process_event_reject(s, p, e)
<1>1. /\ DOMAIN s = {"ID_Parent", "children", "wire", "fault"} /\ Good(s)
      /\ s.wire \in Seq(Events)
  BY DEF Following, Good, Typed, Caught, Replays
<1>2. \/ t = s
      \/ t = Fault(s, "reject: unknown entity")
      \/ t = Fault(s, "reject: another parent")
      \/ e \in Known(s) /\ t = SendBroadcast(a, <<Rejected(p, e)>>)
  BY DEF Process_event_reject
<1>3. Sends(s, s, Changes(Known(s)))
  BY <1>1, SendsNothing
<1>4. \A site : Sends(s, Fault(s, site), Changes(Known(s)))
  <2> TAKE site
  <2>1. Fault(s, site).wire = s.wire
    BY <1>1, WireKept
  <2> QED BY <1>1, <2>1, SendsNothing
<1>5. ASSUME e \in Known(s) PROVE Sends(s, SendBroadcast(a, <<Rejected(p, e)>>), Changes(Known(s)))
  <2>1. Rejected(p, e) \in Changes(Known(s))
    BY <1>5, EventsTyped DEF Changes, Rejected
  <2>2. <<Rejected(p, e)>> \in Seq(Changes(Known(s)))
    BY <2>1
  <2>3. a.wire = s.wire
    BY <1>1, WireKept
  <2>4. DOMAIN a = DOMAIN s
    BY <1>1, FieldsKept
  <2> HIDE DEF a
  <2> QED BY <1>1, <2>2, <2>3, <2>4, BroadcastSends
<1>6. Known(t) = Known(s)
  <2>1. t.ID_Parent = s.ID_Parent \/ t.ID_Parent = [s.ID_Parent EXCEPT ![e] = NoParent]
    BY <1>1, RejectParents
  <2> QED BY <2>1 DEF Known
<1> HIDE DEF a, t
<1> QED BY <1>2, <1>3, <1>4, <1>5, <1>6 DEF t

LEMMA PrunedSends ==
  ASSUME NEW s, Good(s), NEW S, NEW e, NEW w \in Seq(Changes(Known(s)))
  PROVE  /\ Sends(s, SendBroadcast(Pruned(s, S, e), w), Changes(Known(s)))
         /\ Known(SendBroadcast(Pruned(s, S, e), w)) = Known(s) \ S
<1> DEFINE a == Pruned(s, S, e)
<1>1. DOMAIN s = {"ID_Parent", "children", "wire", "fault"}
  BY DEF Good, Typed
<1>2. DOMAIN a = DOMAIN s
  BY <1>1, FieldsKept
<1>3. a.wire = s.wire
  BY <1>1, WireKept
<1>4. a.ID_Parent = [x \in Known(s) \ S |-> s.ID_Parent[x]]
  BY <1>1 DEF Pruned
<1> HIDE DEF a
<1>5. SendBroadcast(a, w).ID_Parent = a.ID_Parent
  BY <1>1, <1>2, ParentsKept
<1>6. Known(SendBroadcast(a, w)) = Known(s) \ S
  BY <1>4, <1>5 DEF Known
<1>7. Sends(s, SendBroadcast(a, w), Changes(Known(s)))
  BY <1>1, <1>2, <1>3, BroadcastSends
<1> QED BY <1>6, <1>7 DEF a

LEMMA DestroySends ==
  ASSUME NEW m, NEW s, Following(m, s), NEW e, EntityAssumption
  PROVE  /\ Sends(s, Process_event_destroy(s, e), Changes(Known(s)))
         /\ Known(Process_event_destroy(s, e)) \subseteq Known(s)
<1>1. Good(s) /\ Ranked(s) /\ s.wire \in Seq(Events)
  BY DEF Following, Caught, Replays
<1>2. CASE e \notin Known(s)
  <2>1. Process_event_destroy(s, e) = s
    BY <1>2 DEF Process_event_destroy
  <2> QED BY <1>1, <2>1, SendsNothing
<1>3. CASE e \in Known(s)
  <2>1. Intact(s, Subtree(s, e))
    BY <1>1, <1>3, TreeIsIntact
  <2>2. Process_event_destroy(s, e) =
          SendBroadcast(Pruned(s, Subtree(s, e), e), EventPack(s, e))
    BY <1>3, <2>1 DEF Process_event_destroy
  <2>3. PICK g : /\ \A x \in Known(s) : g[x] = Unfolded(s, "pack", g, x)
                 /\ EventPack(s, e) = g[e]
    BY <1>1, <1>3, PackUnfolds
  <2>4. EventPack(s, e) \in Seq(Changes(Known(s)))
    BY <1>1, <1>3, <2>3, UnfoldedIn DEF Modes
  <2> QED BY <1>1, <2>2, <2>4, PrunedSends
<1> QED BY <1>2, <1>3

LEMMA PerformSends ==
  ASSUME NEW m, NEW s, Following(m, s), NEW e \in Known(s), s.ID_Parent[e] = NoParent,
         EntityAssumption
  PROVE  /\ Sends(s, Perform_destroy(s, e), Changes(Known(s)))
         /\ Known(Perform_destroy(s, e)) = Known(s) \ Subtree(s, e)
<1>1. Good(s) /\ Ranked(s) /\ Intact(s, Subtree(s, e))
  BY TreeIsIntact DEF Following
<1>2. Perform_destroy(s, e) =
        SendBroadcast(Pruned(s, Subtree(s, e), e), DestroyEvents(s, e))
  BY <1>1 DEF Perform_destroy
<1>3. PICK g : /\ \A x \in Known(s) : g[x] = Unfolded(s, "perform", g, x)
               /\ DestroyEvents(s, e) = g[e]
  BY <1>1, PerformUnfolds
<1>4. DestroyEvents(s, e) \in Seq(Changes(Known(s)))
  BY <1>1, <1>3, UnfoldedIn DEF Modes
<1> QED BY <1>1, <1>2, <1>4, PrunedSends

LEMMA SpawnSends ==
  ASSUME NEW m, NEW s, Following(m, s), NEW e \in Ids, e \notin Known(s),
         NEW p \in Ids \cup {NoParent}, EntityAssumption
  PROVE  \/ Process_spawn(s, e, p) = s
         \/ /\ Process_spawn(s, e, p).wire = s.wire \o <<Spawned(e, p)>>
            /\ Known(Process_spawn(s, e, p)) = Known(s) \cup {e}
<1> DEFINE new == Entered(s, e, NoParent, <<>>)
           a == Attached(new, p, e)
<1>1. /\ DOMAIN s = {"ID_Parent", "children", "wire", "fault"} /\ Good(s)
      /\ NoParent \notin Known(s)
  BY DEF Following, Good, Typed, EntityAssumption
<1>2. DOMAIN new = DOMAIN s
  BY <1>1, FieldsKept
<1>3. new.wire = s.wire
  BY <1>1, WireKept
<1>4. Known(new) = Known(s) \cup {e}
  BY <1>1, EnteredIsGood
<1> HIDE DEF new
<1>5. DOMAIN a = DOMAIN s
  BY <1>1, <1>2, FieldsKept
<1>6. a.wire = s.wire
  <2>1. a.wire = new.wire
    BY <1>1, <1>2 DEF Attached
  <2> QED BY <2>1, <1>3
<1>7. Known(a) = Known(s) \cup {e}
  <2>1. a.ID_Parent = [new.ID_Parent EXCEPT ![e] = p]
    BY <1>1, <1>2, ParentsKept
  <2> QED BY <2>1, <1>4 DEF Known
<1> HIDE DEF a
<1>8. ASSUME NEW b, DOMAIN b = DOMAIN s, b.wire = s.wire, Known(b) = Known(s) \cup {e}
      PROVE  /\ SendBroadcast(b, <<Spawned(e, p)>>).wire = s.wire \o <<Spawned(e, p)>>
             /\ Known(SendBroadcast(b, <<Spawned(e, p)>>)) = Known(s) \cup {e}
  <2>1. SendBroadcast(b, <<Spawned(e, p)>>).wire = b.wire \o <<Spawned(e, p)>>
    BY <1>1, <1>8, WireKept
  <2>2. SendBroadcast(b, <<Spawned(e, p)>>).ID_Parent = b.ID_Parent
    BY <1>1, <1>8, ParentsKept
  <2> QED BY <1>8, <2>1, <2>2 DEF Known
<1>9. \/ Process_spawn(s, e, p) = s
      \/ Process_spawn(s, e, p) = SendBroadcast(new, <<Spawned(e, p)>>)
      \/ Process_spawn(s, e, p) = SendBroadcast(a, <<Spawned(e, p)>>)
  BY <1>1 DEF Process_spawn, new, a
<1> QED BY <1>2, <1>3, <1>4, <1>5, <1>6, <1>7, <1>8, <1>9

LEMMA AddOnlineSends ==
  ASSUME NEW m, NEW s, Following(m, s), NEW e, NEW kids
  PROVE  /\ Add_online(s, e, kids).wire =
              s.wire \o (<<Spawned(e, NoParent)>> \o KidsEvents(e, kids))
         /\ Known(Add_online(s, e, kids)) = Known(s) \cup (Listed(kids) \cup {e})
<1> DEFINE a == EnteredWith(s, e, kids)
           w == <<Spawned(e, NoParent)>> \o KidsEvents(e, kids)
<1>1. DOMAIN s = {"ID_Parent", "children", "wire", "fault"}
  BY DEF Following, Good, Typed
<1>2. DOMAIN a = DOMAIN s
  BY <1>1, FieldsKept
<1>3. a.wire = s.wire
  BY <1>1, WireKept
<1>4. Known(a) = Known(s) \cup (Listed(kids) \cup {e})
  BY <1>1 DEF EnteredWith, Known
<1>5. Add_online(s, e, kids) = SendBroadcast(a, w)
  BY Zenon DEF Add_online, KidsEvents, a
<1> HIDE DEF a, w
<1>6. SendBroadcast(a, w).wire = a.wire \o w
  BY <1>1, <1>2, WireKept
<1>7. SendBroadcast(a, w).ID_Parent = a.ID_Parent
  BY <1>1, <1>2, ParentsKept
<1>8. Known(SendBroadcast(a, w)) = Known(a)
  BY <1>7 DEF Known
<1> QED BY <1>3, <1>4, <1>5, <1>6, <1>8 DEF w

\* Who is on the tree at first and is not at the end, an event was about.
LEMMA ReplayOthers ==
  ASSUME NEW a, NEW w, NEW b, Replays(a, w, b), NEW x, x \in DOMAIN a,
         \A i \in 1..Len(w) : w[i].item # x
  PROVE  x \in DOMAIN b
<1>1. w \in Seq(Events) /\ Len(w) \in Nat
  BY LenProperties DEF Replays
<1>2. PICK t : Runs(t, a, w) /\ t[Len(w)] = b
  BY DEF Replays
<1>3. t[0] = a /\ \A i \in 1..Len(w) : t[i] = Apply(t[i-1], w[i])
  <2>1. \A i \in 0..Len(w) : t[i] = IF i = 0 THEN a ELSE Apply(t[i-1], w[i])
    BY <1>2 DEF Runs
  <2> QED BY <1>1, <2>1
<1> DEFINE Low == {n \in Nat : n <= Len(w) => x \in DOMAIN t[n]}
<1>4. 0 \in Low
  BY <1>3
<1>5. ASSUME NEW n \in Nat, n \in Low PROVE n + 1 \in Low
  <2> SUFFICES ASSUME n + 1 <= Len(w) PROVE x \in DOMAIN t[n+1]
    OBVIOUS
  <2>1. n + 1 \in 1..Len(w) /\ (n + 1) - 1 = n /\ n <= Len(w)
    BY <1>1
  <2>2. x \in DOMAIN t[n] /\ t[n+1] = Apply(t[n], w[n+1])
    BY <1>3, <1>5, <2>1
  <2>3. w[n+1] \in Events /\ w[n+1].item # x
    BY <1>1, <2>1, ElementOfSeq
  <2> QED BY <2>2, <2>3 DEF Apply, Events
<1>6. Len(w) \in Low
  <2> HIDE DEF Low
  <2> QED BY <1>1, <1>4, <1>5, NatSteps
<1> QED BY <1>1, <1>2, <1>6

\* An entity with a parent is let go by that parent before anything else is sent about
\* it; if nothing is, it still has that parent in the end.
LEMMA ReplayLetsGo ==
  ASSUME NEW a, NEW w, NEW b, Replays(a, w, b), NEW x \in DOMAIN a, a[x] # NoParent
  PROVE  \/ /\ \A i \in 1..Len(w) : w[i].item # x
            /\ x \in DOMAIN b /\ b[x] = a[x]
         \/ \E i \in 1..Len(w) : /\ w[i] = Rejected(a[x], x)
                                 /\ \A j \in 1..(i-1) : w[j].item # x
<1>1. w \in Seq(Events) /\ Len(w) \in Nat
  BY LenProperties DEF Replays
<1>2. PICK t : /\ Runs(t, a, w) /\ t[Len(w)] = b
               /\ \A i \in 1..Len(w) : CanApply(t[i-1], w[i])
  BY DEF Replays
<1>3. t[0] = a /\ \A i \in 1..Len(w) : t[i] = Apply(t[i-1], w[i])
  <2>1. \A i \in 0..Len(w) : t[i] = IF i = 0 THEN a ELSE Apply(t[i-1], w[i])
    BY <1>2 DEF Runs
  <2> QED BY <1>1, <2>1
<1> DEFINE Before(n) == \A j \in 1..n : w[j].item # x
           Low == {n \in Nat : n <= Len(w) /\ Before(n) => x \in DOMAIN t[n] /\ t[n][x] = a[x]}
<1>4. 0 \in Low
  BY <1>3
<1>5. ASSUME NEW n \in Nat, n \in Low PROVE n + 1 \in Low
  <2> SUFFICES ASSUME n + 1 <= Len(w), Before(n + 1)
               PROVE  x \in DOMAIN t[n+1] /\ t[n+1][x] = a[x]
    OBVIOUS
  <2>1. n + 1 \in 1..Len(w) /\ (n + 1) - 1 = n /\ n <= Len(w) /\ Before(n) /\ w[n+1].item # x
    BY <1>1
  <2>2. x \in DOMAIN t[n] /\ t[n][x] = a[x] /\ t[n+1] = Apply(t[n], w[n+1])
    BY <1>3, <1>5, <2>1
  <2>3. w[n+1] \in Events
    BY <1>1, <2>1, ElementOfSeq
  <2> QED BY <2>1, <2>2, <2>3 DEF Apply, Events
<1>6. Nat \subseteq Low
  <2> HIDE DEF Low
  <2> QED BY <1>4, <1>5, NatSteps
<1>7. CASE Before(Len(w))
  BY <1>1, <1>2, <1>6, <1>7
<1>8. CASE ~Before(Len(w))
  <2> DEFINE About == {i \in 1..Len(w) : w[i].item = x}
  <2>1. PICK i \in About : \A j \in About : i <= j
    <3>1. About \in SUBSET Nat /\ About # {}
      BY <1>1, <1>8
    <3> HIDE DEF About
    <3> QED BY <3>1, LeastIndex
  <2>2. i \in 1..Len(w) /\ w[i].item = x /\ i - 1 \in Nat /\ i - 1 <= Len(w) /\ Before(i - 1)
    BY <1>1, <2>1
  <2>3. x \in DOMAIN t[i-1] /\ t[i-1][x] = a[x]
    BY <1>6, <2>2
  <2>4. CanApply(t[i-1], w[i]) /\ w[i] \in Events
    BY <1>1, <1>2, <2>2, ElementOfSeq
  <2>5. w[i] = Rejected(a[x], x)
    <3>1. w[i].kind = "reject" /\ w[i].dest = a[x]
      BY <2>2, <2>3, <2>4 DEF CanApply, Events
    <3> QED BY <2>2, <2>4, <3>1 DEF Events, Rejected
  <2> QED BY <2>2, <2>5
<1> QED BY <1>7, <1>8

\* The calls that combine a reject with a destroy or an ownership.
LEMMA EatSends ==
  ASSUME NEW m, NEW s, Following(m, s), NEW e \in Ids, NEW p \in Ids, EntityAssumption
  PROVE  LET t == ThenDestroy(Process_event_reject(s, p, e), e)
         IN  Sends(s, t, Changes(Known(s))) /\ Known(t) \subseteq Known(s)
<1> DEFINE t == Process_event_reject(s, p, e)
           u == ThenDestroy(t, e)
           E == Changes(Known(s))
<1>1. Following(m, t) /\ Sends(s, t, E) /\ Known(t) = Known(s)
  BY RejectFollows, RejectSends
<1> HIDE DEF t
<1>2. Sends(t, u, E) /\ Known(u) \subseteq Known(s)
  <2>1. CASE t.fault = "none"
    BY <1>1, <2>1, DestroySends DEF ThenDestroy
  <2>2. CASE t.fault # "none"
    <3>1. u = t
      BY <2>2 DEF ThenDestroy
    <3>2. t.wire \in Seq(Events)
      BY <1>1 DEF Following, Caught, Replays
    <3> QED BY <1>1, <3>1, <3>2, SendsNothing
  <2> QED BY <2>1, <2>2
<1>3. Sends(s, u, E)
  <2>1. s.wire \in Seq(Events) /\ E \subseteq Events
    BY DEF Following, Caught, Replays, Changes
  <2> HIDE DEF E, u
  <2> QED BY <1>1, <1>2, <2>1, SendsMore
<1> QED BY <1>2, <1>3 DEF t

LEMMA TransferSends ==
  ASSUME NEW m, NEW s, Following(m, s), NEW e \in Ids, NEW p \in Ids, NEW q \in Ids,
         MayOwn(q, e), EntityAssumption
  PROVE  LET t == ThenOwnership(Process_event_reject(s, p, e), q, e)
         IN  Sends(s, t, Changes(Known(s))) /\ Known(t) = Known(s)
<1> DEFINE t == Process_event_reject(s, p, e)
           u == ThenOwnership(t, q, e)
           E == Changes(Known(s))
<1>1. Following(m, t) /\ Sends(s, t, E) /\ Known(t) = Known(s)
  BY RejectFollows, RejectSends
<1> HIDE DEF t
<1>2. Sends(t, u, E) /\ Known(u) = Known(s)
  <2>1. CASE t.fault = "none"
    BY <1>1, <2>1, OwnershipSends DEF ThenOwnership
  <2>2. CASE t.fault # "none"
    <3>1. u = t
      BY <2>2 DEF ThenOwnership
    <3>2. t.wire \in Seq(Events)
      BY <1>1 DEF Following, Caught, Replays
    <3> QED BY <1>1, <3>1, <3>2, SendsNothing
  <2> QED BY <2>1, <2>2
<1>3. Sends(s, u, E)
  <2>1. s.wire \in Seq(Events) /\ E \subseteq Events
    BY DEF Following, Caught, Replays, Changes
  <2> HIDE DEF E, u
  <2> QED BY <1>1, <1>2, <2>1, SendsMore
<1> QED BY <1>2, <1>3 DEF t
=============================================================================
