----------------------------- MODULE Registrator -----------------------------
(* CRegistrator of xrEngine/pure.h: the subscribers of one message of the   *)
(* frame, by priority, on a vector that its own walk may change.  An entry   *)
(* is <<object, priority>>; one that was removed keeps its place, with the   *)
(* priority Invalid, until the vector is sorted.                             *)
EXTENDS Integers, Sequences, FiniteSets

\* REG_PRIORITY_INVALID, below every priority in use.
Invalid == -1

Valid(e) == e[2] # Invalid

\* Resort: the valid entries by falling priority, the invalid ones, which come
\* last, popped.  Equal priorities may come out in any order (qsort is not
\* stable); here they keep theirs.
Resort(r) ==
  LET valid == {i \in DOMAIN r : Valid(r[i])}
      before(i, j) == r[i][2] > r[j][2] \/ (r[i][2] = r[j][2] /\ i < j)
      rank(i) == Cardinality({j \in valid : before(j, i)})
  IN [k \in 1 .. Cardinality(valid) |->
        r[CHOOSE i \in valid : rank(i) = k - 1]]

\* Inside the walk (in_process) the vector is not sorted: changed is raised.
Settled(r, inProcess) == IF inProcess THEN r ELSE Resort(r)

Add(r, obj, priority, inProcess) ==
  Settled(Append(r, <<obj, priority>>), inProcess)

\* Every entry of the object goes, not the first one.
Remove(r, obj, inProcess) ==
  Settled([i \in DOMAIN r |->
             IF r[i][1] = obj THEN <<obj, Invalid>> ELSE r[i]], inProcess)

\* How often the object is called by one walk of r.
Count(r, obj) == Cardinality({i \in DOMAIN r : r[i][1] = obj /\ Valid(r[i])})
==============================================================================
