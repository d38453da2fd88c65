------------------------------ MODULE Sheduler ------------------------------
(***************************************************************************)
(* CSheduler (xrEngine/xrSheduler.cpp), the scheduler of the primary       *)
(* thread: the real-time items, called every frame; the heap of items      *)
(* called when their time comes, as long as the frame's budget lasts; and  *)
(* the queue through which registrations reach both.  The release build is *)
(* modelled: ~ISheduled unregisters once more.                             *)
(*                                                                         *)
(* A time is kept relative to Device.dwTimeGlobal (due < 0: late); the     *)
(* heap is the set of its entries (tombstones of one time are one), its    *)
(* Top any entry with the least time.                                      *)
(* Callers keep to the contract that Register and Unregister assert: an    *)
(* object registers when it is not registered, unregisters when it is, and *)
(* neither unregisters nor deletes itself from its own shedule_Update;     *)
(* real-time objects (the actor) come and go outside Update.               *)
(***************************************************************************)
EXTENDS Integers, Sequences, FiniteSets, Vectors

CONSTANTS Objects,     \* addresses of ISheduled objects
          Null,        \* the pointer of an item whose object unregistered
          Deltas,      \* how far time moves from one Update to the next
          Intervals,   \* the next update interval dwUpdate
          Turns,       \* ProcessStep looks at the time after so many turns: 3
          Lag,         \* bound: how late an item may be
          MaxQueue     \* bound on the length of Registration

ASSUME ShedulerAssumption ==
  /\ Null \notin Objects
  /\ Deltas \subseteq Nat \ {0} /\ Intervals \subseteq Nat \ {0}
  /\ Turns \in Nat \ {0} /\ Lag \in Nat /\ MaxQueue \in Nat

VARIABLES ItemsRT,         \* the real-time objects, in calling order
          Items,           \* the heap: records [obj, due]
          ItemsProcessed,  \* called in this step, to be pushed back
          Registration,    \* queued operations: records [op, rt, obj]
          b_RT,            \* shedule.b_RT of each object
          pc,              \* where Update is; "out": not running
          it,              \* the loop index: of the real-time loop, of ProcessStep
          current,         \* the object whose shedule_Update runs, or Null
          alive,           \* objects constructed and not deleted
          destroying,      \* objects with getDestroy(): shedule_Needed is false
          registered,      \* history: what Register and Unregister asked for
          called           \* history: the objects called in this Update

lists   == <<ItemsRT, Items, ItemsProcessed>>
objects == <<alive, destroying>>
vars    == <<lists, Registration, b_RT, pc, it, current, objects, registered, called>>

Item == [obj : Objects \cup {Null}, due : Int]
Reg  == [op : {"register", "unregister"}, rt : BOOLEAN, obj : Objects]

m_processing_now == pc \in {"rt", "rt_call", "step", "step_call"}
shedule_Needed(o) == o \notin destroying

Init == /\ ItemsRT = <<>> /\ Items = {} /\ ItemsProcessed = {}
        /\ Registration = <<>>
        /\ b_RT = [o \in Objects |-> FALSE]
        /\ pc = "out" /\ it = 0 /\ current = Null
        /\ alive = {} /\ destroying = {} /\ registered = {} /\ called = {}
------------------------------------------------------------------------------
(* The interface, used between two Updates and from within shedule_Update.  *)

Calling  == pc \in {"rt_call", "step_call"}
UserCode == pc = "out" \/ Calling
Queue(r) == Registration' = Append(Registration, r)

\* The constructor leaves shedule.b_RT as the memory was.
Construct(o) ==
  /\ UserCode /\ o \notin alive
  /\ alive' = alive \cup {o}
  /\ \E rt \in BOOLEAN : b_RT' = [b_RT EXCEPT ![o] = rt]
  /\ UNCHANGED <<lists, Registration, pc, it, current, destroying, registered,
                 called>>

Register(o, rt) ==
  /\ UserCode /\ o \in alive \ (registered \cup destroying)
  /\ rt => pc = "out"
  /\ Len(Registration) < MaxQueue
  /\ registered' = registered \cup {o}
  /\ b_RT' = [b_RT EXCEPT ![o] = rt]
  /\ Queue([op |-> "register", rt |-> rt, obj |-> o])
  /\ UNCHANGED <<lists, pc, it, current, objects, called>>

\* The entry of the heap whose object is o becomes a tombstone.
Buried(o) == {IF x.obj = o THEN [x EXCEPT !.obj = Null] ELSE x : x \in Items}
InItems(o) == \E x \in Items : x.obj = o

\* internal_Unregister, and whether it finds the object.
Found(o, rt) == IF rt THEN o \in Listed(ItemsRT) ELSE InItems(o)
internal_Unregister(o, rt) ==
  /\ ItemsRT' = IF rt THEN Erase(ItemsRT, o) ELSE ItemsRT
  /\ Items' = IF rt THEN Items ELSE Buried(o)

\* Defect: Unregister does not look whether the items are being processed.
DoUnregister_Always(o) ==
  /\ internal_Unregister(o, b_RT[o])
  /\ UNCHANGED Registration

\* Defect: an object that is not found while items are processed is forgotten.
DoUnregister_Lost(o) ==
  IF m_processing_now
  THEN internal_Unregister(o, b_RT[o]) /\ UNCHANGED Registration
  ELSE /\ Len(Registration) < MaxQueue
       /\ Queue([op |-> "unregister", rt |-> b_RT[o], obj |-> o])
       /\ UNCHANGED <<ItemsRT, Items>>

\* While items are processed the object leaves at once if it can be found;
\* otherwise its unregistration is queued.
DoUnregister(o) ==
  IF m_processing_now /\ Found(o, b_RT[o])
  THEN internal_Unregister(o, b_RT[o]) /\ UNCHANGED Registration
  ELSE /\ Len(Registration) < MaxQueue
       /\ Queue([op |-> "unregister", rt |-> b_RT[o], obj |-> o])
       /\ UNCHANGED <<ItemsRT, Items>>

Unregister(o) ==
  /\ UserCode /\ o \in alive \cap registered
  /\ o # current
  /\ b_RT[o] => pc = "out"
  /\ registered' = registered \ {o}
  /\ DoUnregister(o)
  /\ UNCHANGED <<ItemsProcessed, b_RT, pc, it, current, objects, called>>

\* ~ISheduled; the address may be used again for another object.
Delete(o) ==
  /\ UserCode /\ o \in alive \ registered
  /\ o # current
  /\ alive' = alive \ {o} /\ destroying' = destroying \ {o}
  /\ DoUnregister(o)
  /\ UNCHANGED <<ItemsProcessed, b_RT, pc, it, current, registered, called>>

\* setDestroy(TRUE): net_Destroy, which unregisters, follows later.
SetDestroy(o) ==
  /\ pc = "out" /\ o \in (alive \cap registered) \ destroying
  /\ destroying' = destroying \cup {o}
  /\ UNCHANGED <<lists, Registration, b_RT, pc, it, current, alive, registered,
                 called>>
------------------------------------------------------------------------------
(* Update.                                                                  *)

Later(d) == {[x EXCEPT !.due = IF @ - d < 0-Lag THEN 0-Lag ELSE @ - d] : x \in Items}

BeginUpdate ==
  /\ pc = "out" /\ pc' = "registration"
  /\ \E d \in Deltas : Items' = Later(d)
  /\ called' = {}
  /\ UNCHANGED <<ItemsRT, ItemsProcessed, Registration, b_RT, it, current,
                 objects, registered>>

\* internal_Registration, one entry of the queue at a time, before the items
\* ("registration") and after them ("registration_end").
Registering == pc \in {"registration", "registration_end"}
Pairs(o)    == {k \in 2..Len(Registration) :
                  Registration[k].op = "unregister" /\ Registration[k].obj = o}
FirstPair(o) == CHOOSE k \in Pairs(o) : \A l \in Pairs(o) : k <= l

RegisterPaired ==
  /\ Registering /\ Registration # <<>>
  /\ Head(Registration).op = "register"
  /\ Pairs(Head(Registration).obj) # {}
  /\ Registration' = Tail(EraseAt(Registration, FirstPair(Head(Registration).obj)))
  /\ UNCHANGED <<lists, b_RT, pc, it, current, objects, registered, called>>

\* internal_Register: due at once.
RegisterItem ==
  /\ Registering /\ Registration # <<>>
  /\ LET r == Head(Registration)
     IN /\ r.op = "register" /\ Pairs(r.obj) = {}
        /\ ItemsRT' = IF r.rt THEN Append(ItemsRT, r.obj) ELSE ItemsRT
        /\ Items' = IF r.rt THEN Items ELSE Items \cup {[obj |-> r.obj, due |-> 0]}
        /\ b_RT' = [b_RT EXCEPT ![r.obj] = r.rt]
  /\ Registration' = Tail(Registration)
  /\ UNCHANGED <<ItemsProcessed, pc, it, current, objects, registered, called>>

UnregisterItem ==
  /\ Registering /\ Registration # <<>>
  /\ Head(Registration).op = "unregister"
  /\ internal_Unregister(Head(Registration).obj, Head(Registration).rt)
  /\ Registration' = Tail(Registration)
  /\ UNCHANGED <<ItemsProcessed, b_RT, pc, it, current, objects, registered, called>>

EndRegistration ==
  /\ Registering /\ Registration = <<>>
  /\ IF pc = "registration" THEN pc' = "rt" /\ it' = 1
                            ELSE pc' = "out" /\ it' = 0
  /\ UNCHANGED <<lists, Registration, b_RT, current, objects, registered, called>>

\* The real-time loop.
RTSkip ==
  /\ pc = "rt" /\ it <= Len(ItemsRT) /\ ~shedule_Needed(ItemsRT[it])
  /\ it' = it + 1
  /\ UNCHANGED <<lists, Registration, b_RT, pc, current, objects, registered, called>>

RTCall ==
  /\ pc = "rt" /\ it <= Len(ItemsRT) /\ shedule_Needed(ItemsRT[it])
  /\ pc' = "rt_call" /\ current' = ItemsRT[it]
  /\ UNCHANGED <<lists, Registration, b_RT, it, objects, registered, called>>

RTReturn ==
  /\ pc = "rt_call" /\ pc' = "rt"
  /\ current' = Null /\ called' = called \cup {current}
  /\ it' = it + 1
  /\ UNCHANGED <<lists, Registration, b_RT, objects, registered>>

RTDone ==
  /\ pc = "rt" /\ it > Len(ItemsRT)
  /\ pc' = "step" /\ it' = 0
  /\ UNCHANGED <<lists, Registration, b_RT, current, objects, registered, called>>

\* Defect: operator < of Item the other way round.
IsTop_Latest(x) == x \in Items /\ \A y \in Items : x.due >= y.due

\* ProcessStep.
IsTop(x) == x \in Items /\ \A y \in Items : x.due <= y.due

\* The object unregistered, or does not need updates any more.
StepDrop ==
  /\ pc = "step"
  /\ \E x \in Items : /\ IsTop(x) /\ x.due < 0
                      /\ x.obj = Null \/ ~shedule_Needed(x.obj)
                      /\ Items' = Items \ {x}
  /\ it' = it + 1
  /\ UNCHANGED <<ItemsRT, ItemsProcessed, Registration, b_RT, pc, current,
                 objects, registered, called>>

\* Defect: the item is popped when its object returns, not before the call.
StepCall_NoPop ==
  /\ pc = "step" /\ pc' = "step_call"
  /\ \E x \in Items : /\ IsTop(x) /\ x.due < 0
                      /\ x.obj # Null /\ shedule_Needed(x.obj)
                      /\ current' = x.obj
  /\ UNCHANGED <<lists, Registration, b_RT, it, objects, registered, called>>

StepCall ==
  /\ pc = "step" /\ pc' = "step_call"
  /\ \E x \in Items : /\ IsTop(x) /\ x.due < 0
                      /\ x.obj # Null /\ shedule_Needed(x.obj)
                      /\ Items' = Items \ {x}
                      /\ current' = x.obj
  /\ UNCHANGED <<ItemsRT, ItemsProcessed, Registration, b_RT, it, objects,
                 registered, called>>

\* What is left when the loop ends: the processed items go back on the heap.
EndStep == /\ pc' = "registration_end" /\ it' = 0
           /\ ItemsProcessed' = {}

\* After every third turn (Turns) of the loop the budget of the frame may be found
\* exhausted.
StepReturn ==
  /\ pc = "step_call"
  /\ current' = Null /\ called' = called \cup {current}
  /\ \E u \in Intervals :
       LET done == ItemsProcessed \cup {[obj |-> current, due |-> u]}
       IN \/ /\ pc' = "step" /\ it' = it + 1
             /\ ItemsProcessed' = done /\ UNCHANGED Items
          \/ /\ it % Turns = Turns - 1
             /\ Items' = Items \cup done
             /\ EndStep
  /\ UNCHANGED <<ItemsRT, Registration, b_RT, objects, registered>>

\* Defect: the processed items are cleared, not pushed back.
StepDone_Clears ==
  /\ pc = "step" /\ \A x \in Items : x.due >= 0
  /\ EndStep
  /\ UNCHANGED <<ItemsRT, Items, Registration, b_RT, current, objects,
                 registered, called>>

StepDone ==
  /\ pc = "step" /\ \A x \in Items : x.due >= 0
  /\ Items' = Items \cup ItemsProcessed
  /\ EndStep
  /\ UNCHANGED <<ItemsRT, Registration, b_RT, current, objects, registered, called>>

Update ==
  \/ BeginUpdate \/ RegisterPaired \/ RegisterItem \/ UnregisterItem
  \/ EndRegistration \/ RTSkip \/ RTCall \/ RTReturn \/ RTDone
  \/ StepDrop \/ StepCall \/ StepReturn \/ StepDone

Interface ==
  \E o \in Objects :
    \/ Construct(o) \/ Unregister(o) \/ Delete(o) \/ SetDestroy(o)
    \/ \E rt \in BOOLEAN : Register(o, rt)

Next == Update \/ Interface

Spec == Init /\ [][Next]_vars

\* The frame loop calls Update again and again, and Update's loops run on;
\* nothing obliges the game to register or unregister anything.
FairSpec == Spec /\ WF_vars(Update)
------------------------------------------------------------------------------
(* Properties.                                                              *)

\* Where an object is: the real-time list, the heap, the processed items, or
\* taken off the heap and being called.
Entries(o) == {x \in Items \cup ItemsProcessed : x.obj = o}
InStep(o)  == pc = "step_call" /\ current = o
Placed(o)  == o \in Listed(ItemsRT) \/ Entries(o) # {} \/ InStep(o)

\* What becomes of an object when the queue has been worked off.
Queued(o)  == {k \in 1..Len(Registration) : Registration[k].obj = o}
Settled(o) ==
  IF Queued(o) = {} THEN Placed(o)
  ELSE LET k == CHOOSE k \in Queued(o) : \A l \in Queued(o) : l <= k
       IN Registration[k].op = "register"

\* CSheduler::Registered, which Register and Unregister assert, tells the truth
\* at every moment: the containers and the queue together hold exactly the
\* objects that asked to be registered (one being destroyed may have been
\* dropped from the heap before it unregisters).
RegisteredAgrees ==
  \A o \in Objects : /\ o \in registered \ destroying => Settled(o)
                     /\ Settled(o) => o \in registered

\* An object is in one place only, and in the one its b_RT names, by which a
\* later Unregister will look for it.
OnePlace ==
  \A o \in Objects :
    /\ Cardinality(Entries(o)) <= 1 /\ NoRepeat(ItemsRT)
    /\ Placed(o) /\ Queued(o) = {} => b_RT[o] = (o \in Listed(ItemsRT))
    /\ ~ (Entries(o) # {} /\ (o \in Listed(ItemsRT) \/ InStep(o)))

\* No object is touched after its destructor, though its pointer may linger in
\* the processed items and in the queue: the one whose shedule_Update runs, and
\* those that the loops and internal_Register ask next (for shedule_Needed, their
\* name, their scale) are alive.
NoDangling ==
  /\ Calling => current \in alive
  /\ pc = "rt" /\ it <= Len(ItemsRT) => ItemsRT[it] \in alive
  /\ pc = "step" => \A x \in Items : IsTop(x) /\ x.due < 0 /\ x.obj # Null => x.obj \in alive
  /\ LET o == Head(Registration).obj
     IN Registering /\ Registration # <<>> /\ Head(Registration).op = "register" =>
          Pairs(o) # {} \/ o \in alive

\* No item is ever as late as Lag: the budget may end a step only after Turns
\* turns, and the latest item is taken first.
LatenessBounded == \A x \in Items : x.obj # Null => x.due > 0-Lag

\* An object that stays registered is called again and again.
Served ==
  \A o \in Objects : []<>(o \in called \/ o \notin registered \/ o \in destroying)
==============================================================================
