------------------------------ MODULE EntityTree ------------------------------
(***************************************************************************)
(* What the server promises of its entities, without lists of children and *)
(* events: a forest that grows by an entity under one that is there or     *)
(* under none, where an entity changes hands only when it is free or is    *)
(* let go in the same step, and loses an entity only with all below it.    *)
(***************************************************************************)
CONSTANTS Ids, NoParent

VARIABLE tree     \* the parent of each entity

\* e and what hangs on it: the least set closed under "parent in the set".
Below(e) ==
  {x \in DOMAIN tree : \A S \in SUBSET DOMAIN tree :
     (e \in S /\ \A y \in DOMAIN tree : tree[y] \in S => y \in S) => x \in S}

Init == tree = <<>>

\* e enters, under p, with the entities of K below it.
Add(e, p, K) ==
  /\ e \notin K /\ (K \cup {e}) \cap DOMAIN tree = {}
  /\ p \in DOMAIN tree \cup {NoParent}
  /\ tree' = [x \in DOMAIN tree \cup K \cup {e} |->
                IF x = e THEN p ELSE IF x \in K THEN e ELSE tree[x]]

\* e, free or let go by its parent, is taken by p, or by nobody.
Hand(e, p) ==
  /\ e \in DOMAIN tree /\ p \in DOMAIN tree \cup {NoParent}
  /\ tree' = [tree EXCEPT ![e] = p]

Remove(e) ==
  /\ e \in DOMAIN tree
  /\ tree' = [x \in DOMAIN tree \ Below(e) |-> tree[x]]

Next ==
  \E e \in Ids :
    \/ \E p \in Ids \cup {NoParent} : Hand(e, p) \/ \E K \in SUBSET Ids : Add(e, p, K)
    \/ Remove(e)

Spec == Init /\ [][Next]_tree
=============================================================================
