---------------------------- MODULE ServerEntities ----------------------------
(***************************************************************************)
(* xrServer's tree of entities (xrGame/xrServer*.cpp): an entity has a     *)
(* parent, ID_Parent, and the list of its children; the clients learn of   *)
(* every change from the events the server broadcasts.  The two records    *)
(* are kept by five handlers, Process_spawn, Process_event_ownership,      *)
(* Process_event_reject, Process_event_destroy and Perform_destroy, which  *)
(* run to their end on the primary thread.  Requests may be stale: their   *)
(* sender saw the tree as it was when the last events were applied.        *)
(*                                                                         *)
(* A handler is an operator from one state of the server to the next, so   *)
(* that a caller that calls two is one step.  An R_ASSERT that fails stops *)
(* the program: "fault" names it.  Ids are taken from IdGenerator.         *)
(***************************************************************************)
EXTENDS Naturals, Sequences, FiniteSets, SequencesExt, Vectors

CONSTANTS Ids,
          Rank,       \* what may own what: owners over weapons over ammunition
          NoParent,   \* 0xffff
          WireBound,  \* bound on the events a client has not applied yet
          LuggageBound \* bound on the children ALife brings along

ASSUME EntityAssumption ==
  /\ IsFiniteSet(Ids) /\ NoParent \notin Ids
  /\ Rank \in [Ids -> Nat] /\ WireBound \in Nat \ {0} /\ LuggageBound \in Nat

VARIABLES sv,       \* ID_Parent and children of the entities, broadcasts, fault
          mirror    \* history: the parents as a client's events made them

vars == <<sv, mirror>>

Known(s) == DOMAIN s.ID_Parent        \* get_entity_from_eid finds these
Running  == sv.fault = "none"

MayOwn(p, e) == p \in Ids /\ Rank[p] > Rank[e]

Spawned(e, p)   == [kind |-> "spawn",   dest |-> p, item |-> e]
Taken(p, e)     == [kind |-> "take",    dest |-> p, item |-> e]
Rejected(p, e)  == [kind |-> "reject",  dest |-> p, item |-> e]
Destroyed(e)    == [kind |-> "destroy", dest |-> e, item |-> e]

SendBroadcast(s, events) == [s EXCEPT !.wire = @ \o events]
Fault(s, site) == [s EXCEPT !.fault = site]

\* ID_Parent, and the parent's list of children, where it has one.
Attached(s, p, e) ==
  [s EXCEPT !.ID_Parent[e] = p, !.children[p] = Append(@, e)]

\* Defect: the child stays in the list.
Detached_KeepsEntry(s, p, e) == [s EXCEPT !.ID_Parent[e] = NoParent]

Detached(s, p, e) ==
  [s EXCEPT !.ID_Parent[e] = NoParent, !.children[p] = Erase(@, e)]

-----------------------------------------------------------------------------
\* The entity e, with the list of children it brings along.
Entered(s, e, p, kids) ==
  [s EXCEPT !.ID_Parent = [x \in Known(s) \cup {e} |-> IF x = e THEN p ELSE @[x]],
            !.children  = [x \in Known(s) \cup {e} |-> IF x = e THEN kids ELSE @[x]]]

Process_spawn(s, e, p) ==
  LET new == Entered(s, e, NoParent, <<>>)
  IN CASE p = NoParent -> SendBroadcast(new, <<Spawned(e, p)>>)
       [] p \in Known(s) -> SendBroadcast(Attached(new, p, e), <<Spawned(e, p)>>)
       [] OTHER -> s

\* Defect: an entity that has a parent is taken all the same.
Process_event_ownership_Reparents(s, p, e) ==
  CASE e \notin Known(s) -> s
    [] e \in Known(s) /\ p \notin Known(s) -> Fault(s, "ownership: no parent")
    [] OTHER -> SendBroadcast(Attached(s, p, e), <<Taken(p, e)>>)

Process_event_ownership(s, p, e) ==
  CASE e \notin Known(s) -> s
    [] e \in Known(s) /\ p \notin Known(s) -> Fault(s, "ownership: no parent")
    [] OTHER -> IF s.ID_Parent[e] # NoParent THEN s
                ELSE SendBroadcast(Attached(s, p, e), <<Taken(p, e)>>)

Process_event_reject(s, p, e) ==
  CASE ~({p, e} \subseteq Known(s)) -> Fault(s, "reject: unknown entity")
    [] OTHER -> CASE s.ID_Parent[e] = NoParent -> s
                  [] s.ID_Parent[e] \notin {p, NoParent} -> Fault(s, "reject: another parent")
                  [] OTHER -> SendBroadcast(Detached(s, p, e), <<Rejected(p, e)>>)

-----------------------------------------------------------------------------
\* Defect: the children of the children stay.
Subtree_Children(s, e) == {e} \cup (IF e \in Known(s) THEN Listed(s.children[e]) ELSE {})

\* What goes with e: the least set that holds e and the children of its members.
Subtree(s, e) ==
  {x \in Ids : \A S \in SUBSET Ids :
     (e \in S /\ \A y \in S \cap Known(s) : Listed(s.children[y]) \subseteq S) => x \in S}

\* Every child in the list of a member is known, and is its child: the loops
\* that empty the lists by destroying the children come to an end.
Intact(s, S) ==
  \A x \in S : x \in Known(s) /\ \A c \in Listed(s.children[x]) : c \in Known(s) /\ s.ID_Parent[c] = x

\* The entities of S leave, e from the list of its parent.
Pruned(s, S, e) ==
  [s EXCEPT !.ID_Parent = [x \in Known(s) \ S |-> @[x]],
            !.children  = [x \in Known(s) \ S |->
                             IF x = s.ID_Parent[e] THEN Erase(@[x], e) ELSE @[x]]]

\* Defect: the parent goes before its children.
EventPack_ParentFirst(s, e) ==
  LET pack[x \in Known(s)] ==
        (IF s.ID_Parent[x] = NoParent THEN <<>> ELSE <<Rejected(s.ID_Parent[x], x)>>)
          \o <<Destroyed(x)>>
          \o FlattenSeq([i \in 1..Len(s.children[x]) |-> pack[s.children[x][i]]])
  IN pack[e]

\* M_EVENT_PACK: the children first; one that has a parent is rejected before
\* it is destroyed.
EventPack(s, e) ==
  LET pack[x \in Known(s)] ==
        FlattenSeq([i \in 1..Len(s.children[x]) |-> pack[s.children[x][i]]])
          \o (IF s.ID_Parent[x] = NoParent THEN <<>> ELSE <<Rejected(s.ID_Parent[x], x)>>)
          \o <<Destroyed(x)>>
  IN pack[e]

Process_event_destroy(s, e) ==
  LET S == Subtree(s, e)
  IN CASE e \notin Known(s) -> s
       [] e \in Known(s) /\ ~Intact(s, S) -> Fault(s, "destroy: endless loop")
       [] OTHER -> SendBroadcast(Pruned(s, S, e), EventPack(s, e))

\* Perform_destroy takes the last child first, rejects it, then destroys it.
DestroyEvents(s, e) ==
  LET events[x \in Known(s)] ==
        FlattenSeq([i \in 1..Len(s.children[x]) |->
                      LET c == Reverse(s.children[x])[i]
                      IN <<Rejected(x, c)>> \o events[c]])
          \o <<Destroyed(x)>>
  IN events[e]

Perform_destroy(s, e) ==
  LET S == Subtree(s, e)
  IN IF s.ID_Parent[e] # NoParent \/ ~Intact(s, S) THEN Fault(s, "Perform_destroy")
     ELSE SendBroadcast(Pruned(s, S, e), DestroyEvents(s, e))

\* CALifeSwitchManager::add_online: e, then each child it was saved with.
EnteredWith(s, e, kids) ==
  LET in == Listed(kids) \cup {e}
  IN [s EXCEPT !.ID_Parent = [x \in Known(s) \cup in |->
                                CASE x = e -> NoParent [] x \in Listed(kids) -> e [] OTHER -> @[x]],
               !.children  = [x \in Known(s) \cup in |->
                                CASE x = e -> kids [] x \in Listed(kids) -> <<>> [] OTHER -> @[x]]]

Add_online(s, e, kids) ==
  SendBroadcast(EnteredWith(s, e, kids),
                <<Spawned(e, NoParent)>> \o [i \in 1..Len(kids) |-> Spawned(kids[i], e)])

\* One call after another: the second is not made when the first has failed.
ThenOwnership(s, p, e) == IF s.fault = "none" THEN Process_event_ownership(s, p, e) ELSE s
ThenDestroy(s, e)      == IF s.fault = "none" THEN Process_event_destroy(s, e) ELSE s

-----------------------------------------------------------------------------
Init ==
  /\ sv = [ID_Parent |-> <<>>, children |-> <<>>, wire |-> <<>>, fault |-> "none"]
  /\ mirror = <<>>

\* A call that reaches the server: it runs to its end.
Call(s) == /\ Running /\ Len(sv.wire) < WireBound
           /\ sv' = s
           /\ UNCHANGED mirror

Spawn(e, p) == /\ e \notin Known(sv) /\ e \notin DOMAIN mirror
               /\ Call(Process_spawn(sv, e, p))
Ownership(p, e) == Call(Process_event_ownership(sv, p, e))
Reject(p, e)    == Call(Process_event_reject(sv, p, e))
Destroy(e)      == Call(Process_event_destroy(sv, e))

\* CScriptGameObject::TransferItem, CTrade::TransferItem: two events.
Transfer(p, e, q) == Call(ThenOwnership(Process_event_reject(sv, p, e), q, e))

\* CInventory::Eat, of an item used up.
Eat(p, e) == Call(ThenDestroy(Process_event_reject(sv, p, e), e))

\* remove_online, of an entity with no parent; SLS_Clear, of one after another.
Leave(e) == /\ e \in Known(sv) /\ sv.ID_Parent[e] = NoParent
            /\ Call(Perform_destroy(sv, e))

Enter(e, kids) ==
  /\ (Listed(kids) \cup {e}) \cap (Known(sv) \cup DOMAIN mirror) = {}
  /\ NoRepeat(kids)
  /\ Call(Add_online(sv, e, kids))

\* The children ALife may have saved with e.
Luggage(e) == UNION {[1..n -> {x \in Ids : MayOwn(e, x)}] : n \in 0..LuggageBound}

\* What an event does to a tree of parents, and when it may.
CanApply(tree, ev) ==
  CASE ev.kind = "spawn"   -> /\ ev.item \notin DOMAIN tree
                              /\ ev.dest \in DOMAIN tree \cup {NoParent}
    [] ev.kind = "take"    -> /\ {ev.item, ev.dest} \subseteq DOMAIN tree
                              /\ tree[ev.item] = NoParent
    [] ev.kind = "reject"  -> ev.item \in DOMAIN tree /\ tree[ev.item] = ev.dest
    [] ev.kind = "destroy" -> /\ ev.item \in DOMAIN tree
                              /\ tree[ev.item] = NoParent
                              /\ \A x \in DOMAIN tree : tree[x] # ev.item

Apply(tree, ev) ==
  LET in == DOMAIN tree \cup {ev.item}
  IN CASE ev.kind \in {"spawn", "take"} -> [x \in in |-> IF x = ev.item THEN ev.dest ELSE tree[x]]
       [] ev.kind = "reject"  -> [x \in in |-> IF x = ev.item THEN NoParent ELSE tree[x]]
       [] ev.kind = "destroy" -> [x \in in \ {ev.item} |-> tree[x]]

\* The client applies the oldest event.
Receive == /\ sv.wire # <<>>
           /\ mirror' = Apply(mirror, Head(sv.wire))
           /\ sv' = [sv EXCEPT !.wire = Tail(@)]

Requests ==
  \E e \in Ids :
    \/ Spawn(e, NoParent)
    \/ Destroy(e)
    \/ Leave(e)
    \/ \E kids \in Luggage(e) : Enter(e, kids)
    \/ \E p \in Ids :
         /\ MayOwn(p, e)
         /\ \/ Spawn(e, p)
            \/ Ownership(p, e)
            \/ Reject(p, e)
            \/ Eat(p, e)
            \/ \E q \in Ids : MayOwn(q, e) /\ Transfer(p, e, q)

Stopped == ~Running /\ sv.wire = <<>> /\ UNCHANGED vars

Next == Requests \/ Receive \/ Stopped

Spec == Init /\ [][Next]_vars
-----------------------------------------------------------------------------
TypeOK ==
  /\ DOMAIN sv = {"ID_Parent", "children", "wire", "fault"}
  /\ Known(sv) \subseteq Ids
  /\ sv.ID_Parent \in [Known(sv) -> Known(sv) \cup {NoParent}]
  /\ sv.children \in [Known(sv) -> Seq(Known(sv))]

\* The two records of the tree agree: the list of an entity holds, once each,
\* the entities whose parent it is.  This is what xrServer::verify_entity
\* asks after every request, and synchronize_location of the doubles.
Agree(s) ==
  \A p \in Known(s) : /\ NoRepeat(s.children[p])
                      /\ Listed(s.children[p]) = {e \in Known(s) : s.ID_Parent[e] = p}
Agreement == Agree(sv)

\* Process_event_destroy and Perform_destroy loop while the list of children
\* is not empty and count on each child to take itself out: they come to an
\* end, whatever the requests were.
DestroyEnds == sv.fault \notin {"destroy: endless loop", "Perform_destroy"}

\* Whatever the server has broadcast, a client that applies it event by event
\* is never asked for what it cannot do (a take of what has a parent, a reject
\* of what has another, a destroy of what has a parent or children), and ends
\* with the server's tree.
WireReplays ==
  LET w == sv.wire
      tree[i \in 0..Len(w)] == IF i = 0 THEN mirror ELSE Apply(tree[i - 1], w[i])
  IN /\ \A i \in 1..Len(w) : CanApply(tree[i - 1], w[i])
     /\ tree[Len(w)] = sv.ID_Parent

\* The tree alone, without lists and events (EntityTree): the handlers
\* implement its operations.
T == INSTANCE EntityTree WITH tree <- sv.ID_Parent
TreeSpec == T!Spec
=============================================================================
