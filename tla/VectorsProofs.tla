---------------------------- MODULE VectorsProofs ----------------------------
(* Lemmas about the vector operations: what erasing and appending keep.     *)
EXTENDS Vectors, SequenceTheorems, WellFoundedInduction, TLAPS

\* Erasing at an index shifts the entries behind it.
LEMMA EraseAtEntries ==
  ASSUME NEW S, NEW s \in Seq(S), NEW i \in 1..Len(s)
  PROVE  /\ EraseAt(s, i) \in Seq(S)
         /\ Len(EraseAt(s, i)) = Len(s) - 1
         /\ \A p \in 1..(Len(s) - 1) :
              EraseAt(s, i)[p] = IF p < i THEN s[p] ELSE s[p+1]
  <1> DEFINE a == SubSeq(s, 1, i-1)
             b == SubSeq(s, i+1, Len(s))
  <1>1. /\ Len(s) \in Nat
        /\ \A k \in 1..Len(s) : s[k] \in S
    BY ElementOfSeq, LenProperties
  <1>2. /\ a \in Seq(S) /\ Len(a) = i - 1
        /\ \A k \in 1..(i-1) : a[k] = s[k]
    <2>1. /\ 1 \in Int /\ i-1 \in Int
          /\ \A k \in 1..(i-1) : s[k] \in S
      BY <1>1
    <2>2. /\ a \in Seq(S)
          /\ Len(a) = IF 1 <= i-1 THEN (i-1)-1+1 ELSE 0
          /\ \A k \in 1..((i-1)-1+1) : a[k] = s[1+k-1]
      BY <2>1, SubSeqProperties
    <2> QED BY <2>2, <1>1
  <1>3. /\ b \in Seq(S) /\ Len(b) = Len(s) - i
        /\ \A k \in 1..(Len(s) - i) : b[k] = s[i+k]
    <2>1. /\ i+1 \in Int /\ Len(s) \in Int
          /\ \A k \in (i+1)..Len(s) : s[k] \in S
      BY <1>1
    <2>2. /\ b \in Seq(S)
          /\ Len(b) = IF i+1 <= Len(s) THEN Len(s)-(i+1)+1 ELSE 0
          /\ \A k \in 1..(Len(s)-(i+1)+1) : b[k] = s[(i+1)+k-1]
      BY <2>1, SubSeqProperties
    <2> QED BY <2>2, <1>1
  <1>4. /\ a \o b \in Seq(S)
        /\ Len(a \o b) = Len(a) + Len(b)
        /\ \A k \in 1..(Len(a) + Len(b)) :
             (a \o b)[k] = IF k <= Len(a) THEN a[k] ELSE b[k - Len(a)]
    BY <1>2, <1>3, ConcatProperties
  <1> HIDE DEF a, b
  <1>5. /\ a \o b \in Seq(S)
        /\ Len(a \o b) = Len(s) - 1
        /\ \A p \in 1..(Len(s) - 1) :
             (a \o b)[p] = IF p < i THEN s[p] ELSE s[p+1]
    <2>1. Len(a) + Len(b) = Len(s) - 1
      BY <1>1, <1>2, <1>3
    <2>2. ASSUME NEW p \in 1..(Len(s) - 1)
          PROVE  (a \o b)[p] = IF p < i THEN s[p] ELSE s[p+1]
      <3>1. (a \o b)[p] = IF p <= i-1 THEN a[p] ELSE b[p - (i-1)]
        BY <1>2, <1>4, <2>1
      <3>2. CASE p < i
        BY <1>1, <1>2, <3>1, <3>2
      <3>3. CASE p >= i
        <4>1. p - (i-1) \in 1..(Len(s) - i) /\ i + (p - (i-1)) = p + 1
          BY <1>1, <3>3
        <4> QED BY <1>1, <1>3, <3>1, <3>3, <4>1
      <3>4. p < i \/ p >= i
        BY <1>1
      <3> QED BY <3>2, <3>3, <3>4
    <2> QED BY <1>4, <2>1, <2>2
  <1> QED BY <1>5 DEF EraseAt, a, b

\* Where an entry exists, a first one exists.
LEMMA FirstIndexExists ==
  ASSUME NEW S, NEW s \in Seq(S), NEW e \in Listed(s)
  PROVE  /\ FirstIndex(s, e) \in 1..Len(s)
         /\ s[FirstIndex(s, e)] = e
  <1> DEFINE T == {i \in 1..Len(s) : s[i] = e}
             R == OpToRel(<, Nat)
  <1>1. T # {} /\ T \subseteq Nat /\ Len(s) \in Nat
    BY LenProperties DEF Listed
  <1> HIDE DEF T
  <1>a. IsWellFoundedOn(R, Nat)
    BY NatLessThanWellFounded
  <1> HIDE DEF R
  <1>2. PICK i \in T : \A k \in T : ~ (<<k, i>> \in R)
    <2>1. \E i \in T : \A k \in T : ~ (<<k, i>> \in R)
      BY <1>1, <1>a, WFMin
    <2> QED BY <2>1
  <1> USE DEF T
  <1>3. i \in 1..Len(s) /\ s[i] = e /\ \A k \in 1..(i-1) : s[k] # e
    <2> SUFFICES ASSUME NEW k \in 1..(i-1), s[k] = e PROVE FALSE
      BY <1>2
    <2>1. k \in T /\ k < i /\ k \in Nat /\ i \in Nat
      BY <1>1, <1>2
    <2>2. R = {ss \in Nat \X Nat : ss[1] < ss[2]}
      BY Zenon DEF OpToRel, R
    <2>3. <<k, i>> \in R
      BY <2>1, <2>2
    <2> QED BY <1>2, <2>1, <2>3
  <1> QED BY <1>3 DEF FirstIndex

\* Erasing leaves a vector over the same set.
LEMMA EraseType ==
  ASSUME NEW S, NEW s \in Seq(S), NEW e
  PROVE  Erase(s, e) \in Seq(S)
  <1>1. CASE e \in Listed(s)
    BY <1>1, FirstIndexExists, EraseAtEntries DEF Erase
  <1>2. CASE e \notin Listed(s)
    BY <1>2 DEF Erase
  <1> QED BY <1>1, <1>2

\* Erasing a value from a vector without repetition leaves the other values,
\* still without repetition.
LEMMA EraseListed ==
  ASSUME NEW S, NEW s \in Seq(S), NEW e, NoRepeat(s)
  PROVE  /\ Erase(s, e) \in Seq(S)
         /\ NoRepeat(Erase(s, e))
         /\ Listed(Erase(s, e)) = Listed(s) \ {e}
  <1>1. CASE e \notin Listed(s)
    <2>1. Erase(s, e) = s
      BY <1>1 DEF Erase
    <2>2. Listed(s) \ {e} = Listed(s)
      BY <1>1
    <2> QED BY <2>1, <2>2
  <1>2. CASE e \in Listed(s)
    <2> DEFINE i == FirstIndex(s, e)
               r == EraseAt(s, i)
    <2>1. i \in 1..Len(s) /\ s[i] = e /\ Len(s) \in Nat
      BY <1>2, FirstIndexExists, LenProperties
    <2>2. Erase(s, e) = r
      BY <1>2 DEF Erase
    <2>3. /\ r \in Seq(S) /\ Len(r) = Len(s) - 1
          /\ \A p \in 1..(Len(s) - 1) : r[p] = IF p < i THEN s[p] ELSE s[p+1]
      BY <2>1, EraseAtEntries
    <2> HIDE DEF i, r
    <2>4. NoRepeat(r)
      BY <2>1, <2>3 DEF NoRepeat
    <2>5. ASSUME NEW x \in Listed(r) PROVE x \in Listed(s) \ {e}
      <3>1. PICK p \in 1..Len(r) : x = r[p]
        BY <2>5 DEF Listed
      <3>2. PICK k \in 1..Len(s) : x = s[k] /\ k # i
        BY <3>1, <2>1, <2>3
      <3> QED BY <3>2, <2>1 DEF Listed, NoRepeat
    <2>6. ASSUME NEW x \in Listed(s) \ {e} PROVE x \in Listed(r)
      <3>1. PICK k \in 1..Len(s) : x = s[k] /\ k # i
        BY <2>1, <2>6 DEF Listed
      <3>2. CASE k < i
        <4>1. k \in 1..Len(r) /\ r[k] = x
          BY <3>1, <3>2, <2>1, <2>3
        <4> QED BY <4>1 DEF Listed
      <3>3. CASE k > i
        <4>1. k-1 \in 1..Len(r) /\ r[k-1] = x
          BY <3>1, <3>3, <2>1, <2>3
        <4> QED BY <4>1 DEF Listed
      <3> QED BY <3>1, <3>2, <3>3, <2>1
    <2> QED BY <2>2, <2>3, <2>4, <2>5, <2>6
  <1> QED BY <1>1, <1>2

\* Appending a value that is not there yet.
LEMMA AppendListed ==
  ASSUME NEW S, NEW s \in Seq(S), NEW e \in S
  PROVE  /\ Append(s, e) \in Seq(S)
         /\ Listed(Append(s, e)) = Listed(s) \cup {e}
         /\ NoRepeat(s) /\ e \notin Listed(s) => NoRepeat(Append(s, e))
  <1>1. /\ Append(s, e) \in Seq(S)
        /\ Len(Append(s, e)) = Len(s) + 1
        /\ \A i \in 1..Len(s) : Append(s, e)[i] = s[i]
        /\ Append(s, e)[Len(s) + 1] = e
        /\ Len(s) \in Nat
    BY AppendProperties, LenProperties
  <1>2. Listed(Append(s, e)) = Listed(s) \cup {e}
    BY <1>1 DEF Listed
  <1>3. NoRepeat(s) /\ e \notin Listed(s) => NoRepeat(Append(s, e))
    BY <1>1 DEF Listed, NoRepeat
  <1> QED BY <1>1, <1>2, <1>3

\* Induction on a set of numbers.
LEMMA NatSteps ==
  ASSUME NEW T, 0 \in T, \A n \in Nat : n \in T => n + 1 \in T
  PROVE  Nat \subseteq T
<1> DEFINE Bad == Nat \ T
           R == OpToRel(<, Nat)
<1> SUFFICES ASSUME Bad # {} PROVE FALSE
  OBVIOUS
<1>1. IsWellFoundedOn(R, Nat)
  BY NatLessThanWellFounded
<1>2. Bad \subseteq Nat
  OBVIOUS
<1> HIDE DEF Bad, R
<1>3. PICK n \in Bad : \A k \in Bad : ~ (<<k, n>> \in R)
  <2>1. \E n \in Bad : \A k \in Bad : ~ (<<k, n>> \in R)
    BY <1>1, <1>2, WFMin
  <2> QED BY <2>1
<1>4. n \in Nat /\ n # 0 /\ n - 1 \in Nat /\ n - 1 < n /\ (n - 1) + 1 = n
  BY <1>2, <1>3 DEF Bad
<1>5. n - 1 \in Bad
  BY <1>3, <1>4 DEF Bad
<1>6. R = {ss \in Nat \X Nat : ss[1] < ss[2]}
  BY Zenon DEF OpToRel, R
<1>7. <<n - 1, n>> \in R
  BY <1>4, <1>6
<1> QED BY <1>3, <1>5, <1>7

\* A set of indices that is not empty has a least one.
LEMMA LeastIndex ==
  ASSUME NEW T \in SUBSET Nat, T # {}
  PROVE  \E m \in T : \A n \in T : m <= n
<1> DEFINE R == OpToRel(<, Nat)
<1>1. IsWellFoundedOn(R, Nat)
  BY NatLessThanWellFounded
<1> HIDE DEF R
<1>2. PICK m \in T : \A n \in T : ~ (<<n, m>> \in R)
  BY <1>1, WFMin
<1>3. R = {ss \in Nat \X Nat : ss[1] < ss[2]}
  BY Zenon DEF OpToRel, R
<1>4. \A n \in T : ~ (n < m)
  BY <1>2, <1>3
<1> QED
  BY <1>4

==============================================================================
