------------------------------ MODULE ObjectList ------------------------------
(***************************************************************************)
(* CObjectList (xrEngine/xr_object_list.cpp) and the part of CObject it    *)
(* works on (xr_object.cpp), on the primary thread.  An object is on the   *)
(* list of the active or of the sleeping ones; it is updated in a frame if *)
(* it was made a crow since the previous one.  Who is a crow is kept in a  *)
(* flag and in two lists, one filled while the other is worked off.  Who   *)
(* has to go is queued, everybody who may hold a pointer to it is told,    *)
(* and it is destroyed at the end of Update.                               *)
(*                                                                         *)
(* A frame is                                                              *)
(*   "frame"    events, the scheduler, the renderer;                       *)
(*   "update"   UpdateCL of one object after the other;                    *)
(*   "destroy"  the destroy queue, from its end.                           *)
(*                                                                         *)
(* The order of entries in the lists of objects and crows is left out, how *)
(* often an object is entered is kept.                                     *)
(***************************************************************************)
EXTENDS Naturals, Sequences, FiniteSets, SequencesExt, Vectors

CONSTANTS Object, NoObject,
          Feel,       \* objects with a Feel::Touch or Feel::Vision
          MaxActive,  \* bound on the requests to process one object
          Garbage,    \* where fresh memory may hold the number of a frame
          Links,      \* the pointers looked at, and how many of them at a time
          LinkBound,
          Rounds      \* forced updates before the level is unloaded

ASSUME ObjectAssumption ==
  /\ IsFiniteSet(Object) /\ NoObject \notin Object /\ Feel \subseteq Object
  /\ Garbage \subseteq Object
  /\ MaxActive \in 1..255 /\ LinkBound \in Nat /\ Rounds \in Nat \ {0}
  /\ Links \subseteq [holder : Object, via : {"object", "feel"}, target : Object]
  /\ \A l \in Links : l.via = "feel" => l.holder \in Feel

VARIABLES objects_active, objects_sleeping,
          bActiveCounter,
          crow,       \* the objects with the flag
          crows,      \* crows_0 and crows_1: how often each object is entered
          current,    \* the one that fills up
          destroy_queue,
          bDestroy,   \* the objects marked
          Parent,
          updated,    \* dwFrame_UpdateCL = dwFrame
          raw,        \* dwFrame_UpdateCL was never assigned
          work,       \* what is left to do of objects_dup
          callbacks,  \* m_relcase_callbacks
          m_ID,       \* of each registered callback
          links,      \* pointers to objects that objects and their Feels hold
          sheduled,   \* history: shedule_Update since the last Update, enabled since
          phase, rounds

lists  == <<objects_active, objects_sleeping, bActiveCounter>>
crowed == <<crow, crows, current>>
doom   == <<destroy_queue, bDestroy>>
relcase == <<callbacks, m_ID, links>>
upd    == <<updated, raw, work>>
vars == <<lists, crowed, doom, Parent, upd, relcase, sheduled, phase, rounds>>

Existing == objects_active \cup objects_sleeping
Enabled  == {o \in Existing : bActiveCounter[o] > 0}

NoEntries   == [o \in Object |-> 0]
Entered(l)  == {o \in Object : crows[l][o] > 0}
Once(S)     == [o \in Object |-> IF o \in S THEN 1 ELSE 0]

-----------------------------------------------------------------------------
\* MakeMeCrow of the objects of S, all of them enabled.
MakeMeCrow(S) ==
  /\ crow' = crow \cup S
  /\ crows' = [crows EXCEPT ![current] =
                 [o \in Object |-> @[o] + IF o \in S \ crow THEN 1 ELSE 0]]
  /\ UNCHANGED current

\* Events, the scheduler and the renderer call any object; while an object is
\* updated it makes calls on itself.
Called(o) ==
  /\ o \in Existing
  /\ \/ phase = "frame" /\ rounds = 0
     \/ phase = "update" /\ o \in updated

\* Defect: the sleeping list keeps it.
processing_activate_KeepsEntry(o) ==
  /\ Called(o) /\ bActiveCounter[o] < MaxActive
  /\ bActiveCounter' = [bActiveCounter EXCEPT ![o] = @ + 1]
  /\ objects_active' = objects_active \cup {o}
  /\ IF bActiveCounter[o] = 0 THEN MakeMeCrow({o}) ELSE UNCHANGED crowed
  /\ UNCHANGED <<objects_sleeping, doom, Parent, upd, relcase, sheduled, phase, rounds>>

processing_activate(o) ==
  /\ Called(o) /\ bActiveCounter[o] < MaxActive
  /\ bActiveCounter' = [bActiveCounter EXCEPT ![o] = @ + 1]
  /\ \/ /\ bActiveCounter[o] = 0
        /\ objects_sleeping' = objects_sleeping \ {o}
        /\ objects_active' = objects_active \cup {o}
        /\ MakeMeCrow({o})
     \/ /\ bActiveCounter[o] > 0
        /\ UNCHANGED <<objects_active, objects_sleeping, crowed>>
  /\ UNCHANGED <<doom, Parent, upd, relcase, sheduled, phase, rounds>>

\* Requests come in pairs.  MakeMeCrow has no effect here: o is disabled.
processing_deactivate(o) ==
  /\ Called(o) /\ bActiveCounter[o] > 0
  /\ bActiveCounter' = [bActiveCounter EXCEPT ![o] = @ - 1]
  /\ \/ /\ bActiveCounter[o] = 1
        /\ objects_active' = objects_active \ {o}
        /\ objects_sleeping' = objects_sleeping \cup {o}
        /\ sheduled' = sheduled \ {o}
     \/ /\ bActiveCounter[o] > 1
        /\ UNCHANGED <<objects_active, objects_sleeping, sheduled>>
  /\ UNCHANGED <<crowed, doom, Parent, upd, relcase, phase, rounds>>

-----------------------------------------------------------------------------
\* g_sv_Spawn: the object is created asleep, its Feels register, and net_Spawn
\* wakes it.  A spawn that fails destroys it at once and leaves nothing.
Spawn(o) ==
  /\ phase = "frame" /\ rounds = 0 /\ o \notin Existing
  /\ bActiveCounter' = [bActiveCounter EXCEPT ![o] = 1]
  /\ objects_active' = objects_active \cup {o}
  /\ MakeMeCrow({o})
  /\ raw' = raw \cup ({o} \cap Garbage)
  /\ IF o \in Feel
     THEN /\ callbacks' = Append(callbacks, o)
          /\ m_ID' = [m_ID EXCEPT ![o] = Len(callbacks)]
     ELSE UNCHANGED <<callbacks, m_ID>>
  /\ UNCHANGED <<objects_sleeping, doom, Parent, updated, work, links, sheduled, phase, rounds>>

Ancestor(a, o) ==
  \A S \in SUBSET Object :
    (o \in S /\ \A x \in S : Parent[x] # NoObject => Parent[x] \in S) => a \in S

\* GE_OWNERSHIP_TAKE: the server gives only what is free to what stays.
Attach(o, p) ==
  /\ phase = "frame" /\ rounds = 0
  /\ o \in Existing \ bDestroy /\ p \in Existing \ bDestroy
  /\ Parent[o] = NoObject /\ ~Ancestor(o, p)
  /\ Parent' = [Parent EXCEPT ![o] = p]
  /\ MakeMeCrow({o} \cap Enabled)
  /\ UNCHANGED <<lists, doom, upd, relcase, sheduled, phase, rounds>>

\* GE_OWNERSHIP_REJECT
Detach(o) ==
  /\ phase = "frame" /\ rounds = 0 /\ o \in Existing /\ Parent[o] # NoObject
  /\ Parent' = [Parent EXCEPT ![o] = NoObject]
  /\ MakeMeCrow({o} \cap Enabled)
  /\ UNCHANGED <<lists, doom, upd, relcase, sheduled, phase, rounds>>

\* o, and what has to go with it: the unmarked below it.
Marked(o) ==
  {x \in Existing : \A S \in SUBSET Existing :
     (o \in S /\ \A c \in Existing \ bDestroy : Parent[c] \in S => c \in S) => x \in S}

\* The orders in which register_object_to_destroy, called by setDestroy for
\* every child in turn, queues them.
Orders(S) ==
  {s \in SetToSeqs(S) : \A i, k \in 1..Len(s) : Parent[s[k]] = s[i] => i < k}

\* Defect: the children are not looked for.
setDestroy_Alone(o) ==
  /\ phase = "frame" /\ rounds = 0
  /\ o \in Existing \ bDestroy /\ Parent[o] = NoObject
  /\ destroy_queue' = Append(destroy_queue, o)
  /\ bDestroy' = bDestroy \cup {o}
  /\ UNCHANGED <<lists, crowed, Parent, upd, relcase, sheduled, phase, rounds>>

\* GE_DESTROY, for an object that its parent has let go.
setDestroy(o) ==
  /\ phase = "frame" /\ rounds = 0
  /\ o \in Existing \ bDestroy /\ Parent[o] = NoObject
  /\ \E s \in Orders(Marked(o)) : destroy_queue' = destroy_queue \o s
  /\ bDestroy' = bDestroy \cup Marked(o)
  /\ UNCHANGED <<lists, crowed, Parent, upd, relcase, sheduled, phase, rounds>>

-----------------------------------------------------------------------------
shedule_Update(o) ==
  /\ phase = "frame" /\ rounds = 0 /\ o \in Enabled \ bDestroy
  /\ MakeMeCrow({o})
  /\ sheduled' = sheduled \cup {o}
  /\ UNCHANGED <<lists, doom, Parent, upd, relcase, phase, rounds>>

renderable_Render(o) ==
  /\ phase = "frame" /\ rounds = 0 /\ o \in Existing
  /\ MakeMeCrow({o} \cap Enabled)
  /\ UNCHANGED <<lists, doom, Parent, upd, relcase, sheduled, phase, rounds>>

\* An object, or its Feel, comes to hold a pointer to another.
Hold(l) ==
  /\ Called(l.holder) /\ l.target \in Existing
  /\ l \notin links /\ Cardinality(links) < LinkBound
  /\ links' = links \cup {l}
  /\ UNCHANGED <<lists, crowed, doom, Parent, upd, callbacks, m_ID, sheduled, phase, rounds>>

-----------------------------------------------------------------------------
BeginUpdate == phase = "frame" /\ rounds <= Rounds

\* Paused, or a frame of no time: nobody is updated, but the queue is worked
\* off.  The scheduler does not run in such a frame.
Paused ==
  /\ BeginUpdate /\ rounds = 0 /\ sheduled = {}
  /\ UNCHANGED <<crowed, work>>

\* Defect: the list is emptied, the flags stay up.
UpdateCrows_KeepsFlags ==
  /\ BeginUpdate
  /\ work' = crows[current]
  /\ current' = 1 - current
  /\ crows' = [crows EXCEPT ![1 - current] = NoEntries]
  /\ UNCHANGED crow

\* clear_crow_vec of the other list, which fills up from now on.
UpdateCrows ==
  LET other == 1 - current IN
  /\ BeginUpdate
  /\ work' = crows[current]
  /\ current' = other
  /\ crow' = crow \ Entered(other)
  /\ crows' = [crows EXCEPT ![other] = NoEntries]

\* rsDisableObjectsAsCrows
UpdateActive ==
  /\ BeginUpdate
  /\ work' = Once(objects_active)
  /\ crow' = crow \ (Entered(0) \cup Entered(1))
  /\ crows' = [l \in 0..1 |-> NoEntries]
  /\ UNCHANGED current

Begin ==
  /\ Paused \/ UpdateCrows \/ UpdateActive
  /\ phase' = "update"
  /\ rounds' = IF rounds = 0 THEN 0 ELSE rounds + 1
  /\ UNCHANGED <<lists, doom, Parent, updated, raw, relcase, sheduled>>

\* o and the owners SingleUpdate goes up to: each enabled and not yet updated.
Chain(o) ==
  {x \in Object : \A S \in SUBSET Object :
     ((o \in Enabled \ updated => o \in S)
        /\ \A y \in S : Parent[y] \in Enabled \ updated => Parent[y] \in S) => x \in S}

\* UpdateCL makes a crow again of whom is near, and of whom it always is.
SingleUpdate(o) ==
  /\ phase = "update" /\ work[o] > 0
  /\ work' = [work EXCEPT ![o] = @ - 1]
  /\ updated' = updated \cup Chain(o)
  /\ raw' = raw \ Chain(o)
  /\ \E near \in SUBSET Chain(o) :
       /\ crow' = (crow \ Chain(o)) \cup near
       /\ crows' = [crows EXCEPT ![current] = [x \in Object |-> @[x] + Once(near)[x]]]
  /\ UNCHANGED <<lists, current, doom, Parent, relcase, sheduled, phase, rounds>>

\* Defect: the sleeping objects are not told.
Told_Active(l) == IF l.via = "object" THEN l.holder \in objects_active
                                      ELSE l.holder \in Listed(callbacks)

\* net_Relcase of every object, and the callbacks, for all in the queue.
Told(l) == IF l.via = "object" THEN l.holder \in Existing
                               ELSE l.holder \in Listed(callbacks)

\* Device.dwFrame goes up; an object whose dwFrame_UpdateCL was never assigned
\* may happen to hold it.  The forced updates share one frame.
NewFrame ==
  IF rounds = 0 THEN updated' \in SUBSET raw /\ raw' = raw \ updated'
                ELSE UNCHANGED <<updated, raw>>

EndUpdate ==
  /\ phase = "update" /\ work = NoEntries
  /\ NewFrame
  /\ phase' = IF destroy_queue = <<>> THEN "frame" ELSE "destroy"
  /\ sheduled' = {}
  /\ links' = {l \in links : ~(Told(l) /\ l.target \in Listed(destroy_queue))}
  /\ UNCHANGED <<lists, crowed, doom, Parent, work, callbacks, m_ID, rounds>>

\* Defect: the one that moves keeps its id.
relcase_unregister_KeepsID(o) ==
  IF o \in Listed(callbacks)
  THEN /\ callbacks' = Front([callbacks EXCEPT ![m_ID[o] + 1] = Last(callbacks)])
       /\ UNCHANGED m_ID
  ELSE UNCHANGED <<callbacks, m_ID>>

\* relcase_unregister: the last one takes the place.
relcase_unregister(o) ==
  LET last == Last(callbacks) IN
  IF o \in Listed(callbacks)
  THEN /\ callbacks' = Front([callbacks EXCEPT ![m_ID[o] + 1] = last])
       /\ m_ID' = [m_ID EXCEPT ![last] = m_ID[o]]
  ELSE UNCHANGED <<callbacks, m_ID>>

\* Defect: only the list that fills up is searched.
Destroy_OneList(o) ==
  /\ crows' = [crows EXCEPT ![current][o] = IF @ > 0 THEN @ - 1 ELSE 0]
  /\ objects_active' = objects_active \ {o}
  /\ objects_sleeping' = objects_sleeping \ {o}
  /\ bActiveCounter' = [bActiveCounter EXCEPT ![o] = 0]
  /\ crow' = crow \ {o}
  /\ bDestroy' = bDestroy \ {o}
  /\ Parent' = [Parent EXCEPT ![o] = NoObject]
  /\ raw' = raw \ {o} /\ updated' = updated \ {o}
  /\ relcase_unregister(o)
  /\ links' = {l \in links : l.holder # o}

\* net_Destroy and Destroy of o: std::find takes it from each list of crows once.
Destroy(o) ==
  /\ crows' = [l \in 0..1 |-> [crows[l] EXCEPT ![o] = IF @ > 0 THEN @ - 1 ELSE 0]]
  /\ objects_active' = objects_active \ {o}
  /\ objects_sleeping' = objects_sleeping \ {o}
  /\ bActiveCounter' = [bActiveCounter EXCEPT ![o] = 0]
  /\ crow' = crow \ {o}
  /\ bDestroy' = bDestroy \ {o}
  /\ Parent' = [Parent EXCEPT ![o] = NoObject]
  /\ raw' = raw \ {o} /\ updated' = updated \ {o}
  /\ relcase_unregister(o)
  /\ links' = {l \in links : l.holder # o}

\* The queue is walked from its end and cleared after.
DestroyQueue ==
  LET rest == Front(destroy_queue) IN
  /\ phase = "destroy"
  /\ Destroy(Last(destroy_queue))
  /\ destroy_queue' = rest
  /\ phase' = IF rest = <<>> THEN "frame" ELSE "destroy"
  /\ UNCHANGED <<current, work, sheduled, rounds>>

-----------------------------------------------------------------------------
\* IGame_Level::net_Stop: forced updates, then Unload.
Stop ==
  /\ phase = "frame" /\ rounds = 0
  /\ rounds' = 1
  /\ UNCHANGED <<lists, crowed, doom, Parent, upd, relcase, sheduled, phase>>

\* What is left is marked, destroyed, and stays in the queue; the destructor
\* wants it empty.
Unload ==
  /\ phase = "frame" /\ rounds > Rounds
  /\ \E s \in SetToSeqs(Existing \ bDestroy) : destroy_queue' = destroy_queue \o s
  /\ phase' = "unloaded"
  /\ objects_active' = {} /\ objects_sleeping' = {} /\ bDestroy' = {}
  /\ bActiveCounter' = NoEntries
  /\ crow' = {} /\ crows' = [l \in 0..1 |-> [o \in Object |->
                    IF o \in Existing /\ crows[l][o] > 0 THEN crows[l][o] - 1 ELSE crows[l][o]]]
  /\ Parent' = [o \in Object |-> NoObject]
  /\ updated' = {} /\ raw' = {}
  /\ callbacks' = <<>> /\ m_ID' = [o \in Feel |-> 0] /\ links' = {}
  /\ UNCHANGED <<current, work, sheduled, rounds>>

Init ==
  /\ objects_active = {} /\ objects_sleeping = {} /\ bActiveCounter = NoEntries
  /\ crow = {} /\ crows = [l \in 0..1 |-> NoEntries] /\ current = 0
  /\ destroy_queue = <<>> /\ bDestroy = {}
  /\ Parent = [o \in Object |-> NoObject]
  /\ updated = {} /\ raw = {} /\ work = NoEntries
  /\ callbacks = <<>> /\ m_ID = [o \in Feel |-> 0] /\ links = {}
  /\ sheduled = {} /\ phase = "frame" /\ rounds = 0

Calls ==
  \E o \in Object :
    \/ Spawn(o) \/ setDestroy(o) \/ Detach(o) \/ \E p \in Object : Attach(o, p)
    \/ processing_activate(o) \/ processing_deactivate(o)
    \/ shedule_Update(o) \/ renderable_Render(o)

Update == Begin \/ EndUpdate \/ DestroyQueue \/ \E o \in Object : SingleUpdate(o)

Next == Calls \/ Update \/ Stop \/ Unload \/ \E l \in Links : Hold(l)

Spec == Init /\ [][Next]_vars

\* The frame loop goes on whatever the game does.
FairSpec == Spec /\ WF_vars(Update)

-----------------------------------------------------------------------------
\* An object is on one of the two lists, the one its counter says: whoever
\* walks the lists (net_Export, o_get_by_iterator, net_Relcase) meets it once,
\* and nothing on them was destroyed (the VERIFY of o_activate and o_remove).
ListsFollowCounters ==
  /\ objects_active \cap objects_sleeping = {}
  /\ objects_active = {o \in Object : bActiveCounter[o] > 0}

\* An object with the flag is entered somewhere, else MakeMeCrow would never
\* enter it again; the list that fills up has an object once, as Destroy takes
\* it out once; and no list, nor the copy that is worked off, has one that is
\* gone.
CrowsAccounted ==
  /\ crow \subseteq Entered(0) \cup Entered(1)
  /\ \A l \in 0..1, o \in Object : crows[l][o] <= IF o \in Existing THEN 1 ELSE 0
  /\ \A o \in Object : work[o] <= IF o \in Existing THEN 1 ELSE 0

\* An owner outlives what it owns: nobody has a parent that is gone, though the
\* queue holds both and is walked from its end, and nobody stays behind.
OwnersOutlive ==
  phase # "unloaded" =>
    \A o \in Existing : Parent[o] # NoObject =>
      Parent[o] \in Existing /\ (Parent[o] \in bDestroy => o \in bDestroy)

\* No pointer to a destroyed object is left with an object or a Feel: they are
\* told before the first of the queue is destroyed, and get no other meanwhile.
NoDanglingLink == \A l \in links : l.holder \in Existing /\ l.target \in Existing

\* A Feel finds its callback by the id it keeps, and a Feel that is gone is
\* not called (the VERIFY of Update and of relcase_unregister).
CallbacksFound ==
  /\ \A i \in 1..Len(callbacks) : m_ID[callbacks[i]] = i - 1
  /\ Listed(callbacks) = Existing \cap Feel

\* An object that stays enabled, and is called by the scheduler for ever, is
\* updated for ever.
CrowsLive ==
  \A o \in Object :
    <>[](o \in Enabled) /\ []<>(o \in sheduled) => []<>(phase = "update" /\ o \in updated)

\* shedule_Update makes a crow, which "makes sure that update-cl called at least
\* with freq of shedule-update" (xr_object.cpp:284): whom the scheduler called
\* in this frame is updated in it, unless it was put to sleep.
SheduledAreUpdated ==
  [][phase = "update" /\ phase' # "update" => sheduled \cap objects_active \subseteq updated]_vars
=============================================================================
