----------------------------- MODULE LevelClient ------------------------------
(***************************************************************************)
(* The client of a single player game and its server, in one program       *)
(* (xrGame/Level*.cpp, Inventory.cpp, the OnEvent of actor and stalkers,   *)
(* xrEngine/xr_object_list.cpp).  The server's handlers run inside Send,   *)
(* on the sender's call; what it broadcasts waits until CLevel::OnFrame    *)
(* drains it.  A frame is                                                  *)
(*                                                                         *)
(*   "shedule"  the scheduler: ALife switches (with mtALife they wait on   *)
(*              seqParallel until the end of the frame: before the next    *)
(*              drain all the same), thinking stalkers;                    *)
(*   "drain"    ClientReceive, then ProcessGameEvents, one event a step;   *)
(*   "update"   UpdateCL of the objects, then the queue of objects to      *)
(*              destroy.                                                   *)
(*                                                                         *)
(* Who sends a request looks at the client's objects: they show the        *)
(* server's entities as the last drain left them.                          *)
(***************************************************************************)
EXTENDS Naturals, Sequences, FiniteSets, Vectors

CONSTANTS Actor,      \* takes whatever it is given
          Stalkers,   \* MaxCarryWeight binds them
          Items,
          Capacity,   \* what a stalker can carry: each item weighs one
          NoParent, WireBound

Owners == Stalkers \cup {Actor}
Ids    == Owners \cup Items
Rank   == [e \in Ids |-> IF e \in Items THEN 0 ELSE 1]
LuggageBound == Cardinality(Items)

ASSUME ClientAssumption ==
  /\ IsFiniteSet(Stalkers) /\ IsFiniteSet(Items)
  /\ Actor \notin Stalkers /\ Owners \cap Items = {} /\ NoParent \notin Ids
  /\ Capacity \in Nat /\ WireBound \in Nat \ {0}

VARIABLES sv,        \* the server, with the events the client has not applied
          held,      \* H_Parent of each registered object (map_NETID)
          inv,       \* m_pCurrentInventory of each
          dying,     \* getDestroy: in the destroy queue
          removed,   \* m_bObjectRemoved
          luggage,   \* of each entity that is offline: the children saved with it
          switched,  \* ALife has visited these in this frame
          phase, due,\* of the frame, and the events left to drain in it
          fault      \* the client's assertion that failed

clientVars == <<sv, held, inv, dying, removed, luggage, switched, phase, due, fault>>
client == <<held, inv, dying>>
clock  == <<phase, due>>

Objects == DOMAIN held
mirror  == [e \in Objects \ dying |-> held[e]]

\* xrServer's handlers, and what they promise (ServerEntities).
S == INSTANCE ServerEntities

Running == sv.fault = "none" /\ fault = "none"

Known   == S!Known(sv)
Offline == DOMAIN luggage

\* Defect: an id comes back while the object that had it is on the level.
Fresh_Recycled(e) ==
  e \notin Known \cup Offline /\ \A o \in Offline : e \notin Listed(luggage[o])

\* Ids that nothing uses, nor any event on its way: IdGenerator lets them rest.
Fresh(e) ==
  /\ e \notin Known \cup Objects \cup Offline
  /\ \A o \in Offline : e \notin Listed(luggage[o])
  /\ \A i \in 1..Len(sv.wire) : sv.wire[i].item # e

-----------------------------------------------------------------------------
\* Requests, by objects that are on the level, at any time but during the
\* drain: the guard is what the sender looks at.
Request(s) ==
  /\ Running /\ phase \in {"shedule", "update"} /\ Len(sv.wire) < WireBound
  /\ sv' = s
  /\ UNCHANGED <<client, luggage, switched, clock, fault>>

\* An item that lies about is wanted: PickupModeUpdate_COD, feel_touch_new.
PickUp(p, e) ==
  /\ p \in Objects /\ e \in Objects \ dying /\ held[e] = NoParent
  /\ Request(S!Process_event_ownership(sv, p, e))
  /\ UNCHANGED removed

\* CObjectActionDrop, UpdateDropItem: of an item whose parent is the sender.
Drop(p, e) ==
  /\ e \in Objects /\ held[e] = p
  /\ Request(S!Process_event_reject(sv, p, e))
  /\ UNCHANGED removed

Eat(p, e) ==
  /\ e \in Objects /\ inv[e] = p
  /\ Request(S!ThenDestroy(S!Process_event_reject(sv, p, e), e))
  /\ UNCHANGED removed

TransferItem(p, e, q) ==
  /\ {q, e} \subseteq Objects /\ inv[e] = p /\ p # q
  /\ Request(S!ThenOwnership(S!Process_event_reject(sv, p, e), q, e))
  /\ UNCHANGED removed

DestroyObject(e) ==
  /\ e \in Objects \ removed
  /\ Request(IF e \in dying THEN sv ELSE S!Process_event_destroy(sv, e))
  /\ removed' = removed \cup {e}

\* A script or the game makes an entity.
SpawnNew(e, p) ==
  /\ Fresh(e) /\ p \in Known \cup Objects \cup {NoParent}
  /\ Request(S!Process_spawn(sv, e, p))
  /\ UNCHANGED removed

-----------------------------------------------------------------------------
\* ALife visits each of its objects once.
Visit(e, s) ==
  /\ Running /\ phase = "shedule" /\ e \notin switched /\ Len(sv.wire) < WireBound
  /\ sv' = s
  /\ switched' = switched \cup {e}
  /\ UNCHANGED <<client, removed, clock, fault>>

SwitchOffline(e) ==
  /\ e \in Known \ {Actor} /\ sv.ID_Parent[e] = NoParent
  /\ Visit(e, S!Perform_destroy(sv, e))
  /\ luggage' = [x \in Offline \cup {e} |-> IF x = e THEN sv.children[e] ELSE luggage[x]]

SwitchOnline(e) ==
  /\ e \in Offline
  /\ Visit(e, S!Add_online(sv, e, luggage[e]))
  /\ luggage' = [x \in Offline \ {e} |-> luggage[x]]

-----------------------------------------------------------------------------
\* ClientReceive: what is there now is drained in this frame.
BeginDrain ==
  /\ Running /\ phase = "shedule"
  /\ phase' = "drain" /\ due' = Len(sv.wire)
  /\ switched' = {}
  /\ UNCHANGED <<sv, client, removed, luggage, fault>>

\* CInventory::CanTakeItem.
CanTakeItem(p, e) ==
  /\ e \notin dying
  /\ p = Actor \/ Cardinality({x \in Objects : inv[x] = p}) < Capacity

Put(f, e, p) == [x \in DOMAIN f \cup {e} |-> IF x = e THEN p ELSE f[x]]

Taken == [sv EXCEPT !.wire = Tail(@)]     \* the event that is being processed
Assertion(ok, site) == fault' = IF ok THEN fault ELSE site

\* GE_OWNERSHIP_TAKE, the client's objects being those of h and i.  A take of
\* what cannot be taken is answered by a reject.
OnTake(p, e, h, i) ==
  LET here   == {p, e} \subseteq DOMAIN h
      accept == here /\ CanTakeItem(p, e)
  IN /\ held' = IF accept THEN Put(h, e, p) ELSE h
     /\ inv'  = IF accept THEN Put(i, e, p) ELSE i
     /\ sv'   = IF here /\ ~accept THEN S!Process_event_reject(Taken, p, e) ELSE Taken
     /\ Assertion(/\ p \in DOMAIN h \ {Actor} => e \in DOMAIN h
                  /\ accept => h[e] \in {p, NoParent}, "take")

\* Defect: the parent is not told.
OnSpawn_NoTake(p, e) ==
  /\ held' = Put(held, e, NoParent) /\ inv' = Put(inv, e, NoParent)
  /\ Assertion(e \notin Objects, "spawn") /\ sv' = Taken

\* g_sv_Spawn: net_Register, which keeps an object that has the id, then the
\* take by the parent it came with.
OnSpawn(p, e) ==
  IF e \in Objects \/ p = NoParent
  THEN /\ held' = Put(held, e, NoParent) /\ inv' = Put(inv, e, NoParent)
       /\ Assertion(e \notin Objects, "spawn") /\ sv' = Taken
  ELSE OnTake(p, e, Put(held, e, NoParent), Put(inv, e, NoParent))

\* Defect: H_SetParent(0) is left out.
OnReject_KeepsParent(p, e) ==
  LET here == {p, e} \subseteq Objects
  IN /\ Assertion(here => inv[e] = p, "reject") /\ sv' = Taken
     /\ inv' = IF here /\ inv[e] = p THEN [inv EXCEPT ![e] = NoParent] ELSE inv
     /\ UNCHANGED held

\* Defect: m_pCurrentInventory is not reset.
OnReject_KeepsInventory(p, e) ==
  LET here == {p, e} \subseteq Objects
  IN /\ Assertion(here => inv[e] = p, "reject") /\ sv' = Taken
     /\ held' = IF here /\ inv[e] = p /\ e \notin dying THEN [held EXCEPT ![e] = NoParent] ELSE held
     /\ UNCHANGED inv

\* GE_OWNERSHIP_REJECT: DropItem, then H_SetParent(0) unless it is dying.
OnReject(p, e) ==
  LET here == {p, e} \subseteq Objects
  IN /\ Assertion(here => inv[e] = p, "reject") /\ sv' = Taken
     /\ inv'  = IF here /\ inv[e] = p THEN [inv EXCEPT ![e] = NoParent] ELSE inv
     /\ held' = IF here /\ inv[e] = p /\ e \notin dying THEN [held EXCEPT ![e] = NoParent] ELSE held

\* GE_DESTROY: setDestroy, of the children too.
OnDestroy(e) ==
  /\ dying' = IF e \in Objects \ dying THEN dying \cup {e} \cup {x \in Objects : held[x] = e} ELSE dying
  /\ sv' = Taken /\ UNCHANGED <<held, inv, fault>>

\* ProcessGameEvents, one event.
ProcessEvent ==
  /\ Running /\ phase = "drain" /\ due > 0
  /\ LET ge == Head(sv.wire)
     IN \/ ge.kind = "spawn"   /\ OnSpawn(ge.dest, ge.item) /\ UNCHANGED dying
        \/ ge.kind = "take"    /\ OnTake(ge.dest, ge.item, held, inv) /\ UNCHANGED dying
        \/ ge.kind = "reject"  /\ OnReject(ge.dest, ge.item) /\ UNCHANGED dying
        \/ ge.kind = "destroy" /\ OnDestroy(ge.item)
  /\ due' = due - 1
  /\ UNCHANGED <<removed, luggage, switched, phase>>

EndDrain ==
  /\ Running /\ phase = "drain" /\ due = 0
  /\ phase' = "update"
  /\ UNCHANGED <<sv, client, removed, luggage, switched, due, fault>>

\* Defect: the loop stops short of one object of the queue.
DestroyQueue_AllButOne ==
  /\ Running /\ phase = "update"
  /\ phase' = "shedule"
  /\ LET last == IF dying = {} THEN {} ELSE {CHOOSE e \in dying : TRUE}
         gone == dying \ last
     IN /\ held' = [e \in Objects \ gone |-> held[e]]
        /\ inv'  = [e \in Objects \ gone |-> inv[e]]
        /\ removed' = removed \ gone
  /\ dying' = {}
  /\ UNCHANGED <<sv, luggage, switched, due, fault>>

\* CObjectList::Update, after the UpdateCLs: net_Destroy and Destroy.
DestroyQueue ==
  /\ Running /\ phase = "update"
  /\ phase' = "shedule"
  /\ held' = [e \in Objects \ dying |-> held[e]]
  /\ inv'  = [e \in Objects \ dying |-> inv[e]]
  /\ removed' = removed \ dying
  /\ dying' = {}
  /\ UNCHANGED <<sv, luggage, switched, due, fault>>

-----------------------------------------------------------------------------
\* The stalkers of the level are offline to begin with.
ClientInit ==
  /\ held = <<>> /\ inv = <<>> /\ dying = {} /\ removed = {}
  /\ S!Init
  /\ luggage = [e \in Stalkers |-> <<>>] /\ switched = {}
  /\ phase = "shedule" /\ due = 0 /\ fault = "none"

Requests ==
  \/ SpawnNew(Actor, NoParent)
  \/ \E e \in Ids \ {Actor} : DestroyObject(e) \/ SwitchOffline(e) \/ SwitchOnline(e)
  \/ \E e \in Items :
       \/ SpawnNew(e, NoParent)
       \/ \E p \in Owners :
            \/ PickUp(p, e) \/ Drop(p, e) \/ Eat(p, e) \/ SpawnNew(e, p)
            \/ \E q \in Owners : TransferItem(p, e, q)

Frame == BeginDrain \/ ProcessEvent \/ EndDrain \/ DestroyQueue

Stopped == ~Running /\ UNCHANGED clientVars

ClientNext == Requests \/ Frame \/ Stopped

\* The primary thread goes through its frames.
ClientSpec == ClientInit /\ [][ClientNext]_clientVars /\ WF_clientVars(Frame)
-----------------------------------------------------------------------------
\* The assertions of the client hold: a spawn brings an id that is free, a
\* take finds the item with nobody, a reject finds it in that inventory.
ClientAccepts == fault = "none"

\* An object is in the inventory of the object it hangs on, and does not hang
\* on one that is gone.
InventoryMatches ==
  \A e \in Objects \ dying :
     inv[e] = held[e] /\ (held[e] # NoParent => held[e] \in Objects \ dying)

\* With nothing on its way and nothing left to destroy, the client's objects
\* and their parents are the server's entities.
CaughtUp ==
  sv.wire = <<>> /\ dying = {} /\ Running => held = sv.ID_Parent

\* Each step is one of the server with a client that applies its events, as
\* ServerEntities has it, or changes neither.
ServerSpec == S!Spec

\* What the server has destroyed leaves the level.
Gone ==
  \A e \in Ids :
     (e \in Objects /\ e \notin Known) ~> (e \notin Objects \/ ~Running)

-----------------------------------------------------------------------------
\* The assertions of Process_event_reject and Process_event_ownership, as
\* written: both entities are known, and the item is with who drops it.
ServerAccepts == sv.fault = "none"
=============================================================================
