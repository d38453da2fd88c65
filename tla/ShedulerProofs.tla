---------------------------- MODULE ShedulerProofs ----------------------------
(***************************************************************************)
(* That the scheduler knows who is registered, keeps everyone in one place *)
(* and touches no dead object, for any objects, intervals and budget, and  *)
(* a queue of any length; and how late an item can be, for any number of   *)
(* items that are late at once.                                            *)
(***************************************************************************)
EXTENDS Sheduler, VectorsProofs, FiniteSetTheorems, TLAPS

TypeOK ==
  /\ ItemsRT \in Seq(Objects) /\ Items \subseteq Item /\ ItemsProcessed \subseteq Item
  /\ Registration \in Seq(Reg)
  /\ b_RT \in [Objects -> BOOLEAN]
  /\ pc \in {"out", "registration", "rt", "rt_call", "step", "step_call", "registration_end"}
  /\ it \in Nat /\ current \in Objects \cup {Null}
  /\ alive \subseteq Objects /\ destroying \subseteq alive /\ registered \subseteq alive

\* Who is called is registered, and cannot unregister from its own call.
Callers ==
  /\ IF Calling THEN current \in registered ELSE current = Null
  /\ pc = "rt" => it > 0

\* What is known of the containers alone.
Single ==
  /\ NoRepeat(ItemsRT)
  /\ pc \notin {"step", "step_call"} => ItemsProcessed = {}
  /\ \A x, y \in Items \cup ItemsProcessed : x.obj = y.obj /\ x.obj # Null => x = y
  /\ \A x \in Items, y \in ItemsProcessed : x.obj = y.obj => x.obj = Null
  /\ \A x \in Items \cup ItemsProcessed :
       x.obj # Null => x.obj \notin Listed(ItemsRT) /\ ~InStep(x.obj)
  /\ pc = "step_call" => current \notin Listed(ItemsRT)

\* While items are processed, nothing that is queued concerns who is in the lists.
Settling ==
  m_processing_now =>
    /\ \A o \in Listed(ItemsRT) : Queued(o) = {}
    /\ \A x \in Items : x.obj # Null => Queued(x.obj) = {}

\* What entry i asks for, and for whom.
Op(i, op) == Registration[i].op = op
Of(i, o)  == Registration[i].obj = o

\* In the queue an object does not register twice without unregistering between,
Alternates ==
  \A o \in Objects : \A i, j \in 1..Len(Registration) :
    i < j /\ Op(i, "register") /\ Of(i, o) /\ Op(j, "register") /\ Of(j, o) =>
      \E k \in (i+1)..(j-1) : Op(k, "unregister") /\ Of(k, o)

\* and one that is in a list leaves it before it registers again,
Leaves ==
  \A o \in Objects : Placed(o) =>
    \A i \in 1..Len(Registration) : Op(i, "register") /\ Of(i, o) =>
      \E k \in 1..(i-1) : Op(k, "unregister") /\ Of(k, o)

\* from the list that its entry names.
FirstNames ==
  \A o \in Objects : Placed(o) =>
    \A i \in 1..Len(Registration) : Of(i, o) /\ (\A k \in 1..(i-1) : ~Of(k, o)) =>
      Registration[i].rt = (o \in Listed(ItemsRT))

\* The last that an object asked for is what it is,
LastSays ==
  \A o \in Objects : \A i \in 1..Len(Registration) :
    Of(i, o) /\ (\A k \in (i+1)..Len(Registration) : ~Of(k, o)) =>
      /\ Op(i, "register") <=> o \in registered
      /\ Op(i, "register") => b_RT[o] = Registration[i].rt

\* and if nothing is queued, its place says it.
PlaceSays ==
  \A o \in Objects :
    Queued(o) = {} =>
      /\ Placed(o) => o \in registered /\ b_RT[o] = (o \in Listed(ItemsRT))
      /\ o \in registered \ destroying => Placed(o)

QueueInv == Alternates /\ Leaves /\ FirstNames /\ LastSays /\ PlaceSays

IInv == TypeOK /\ Callers /\ Single /\ Settling /\ QueueInv

USE ShedulerAssumption
------------------------------------------------------------------------------
(* Queues.                                                                  *)

\* What is appended to a vector is its last entry.
LEMMA AppendEntries ==
  ASSUME NEW S, NEW q \in Seq(S), NEW r \in S
  PROVE  /\ Append(q, r) \in Seq(S) /\ Len(Append(q, r)) = Len(q) + 1 /\ Len(q) \in Nat
         /\ \A i \in 1..Len(q) : Append(q, r)[i] = q[i]
         /\ Append(q, r)[Len(q) + 1] = r
  OBVIOUS

LEMMA TailEntries ==
  ASSUME NEW S, NEW q \in Seq(S), q # <<>>
  PROVE  /\ Tail(q) \in Seq(S) /\ Len(Tail(q)) = Len(q) - 1 /\ Len(q) \in Nat \ {0}
         /\ \A i \in 1..(Len(q) - 1) : Tail(q)[i] = q[i+1]
         /\ Head(q) = q[1] /\ Head(q) \in S
  OBVIOUS

\* The first entry goes, and with it a later one.
LEMMA PairEntries ==
  ASSUME NEW S, NEW q \in Seq(S), NEW k \in 2..Len(q)
  PROVE  LET t == Tail(EraseAt(q, k))
         IN /\ t \in Seq(S) /\ Len(t) = Len(q) - 2 /\ Len(q) \in Nat
            /\ \A i \in 1..(Len(q) - 2) : t[i] = IF i + 1 < k THEN q[i+1] ELSE q[i+2]
<1>1. Len(q) \in Nat /\ k \in 1..Len(q)
  OBVIOUS
<1>2. /\ EraseAt(q, k) \in Seq(S) /\ Len(EraseAt(q, k)) = Len(q) - 1
      /\ \A i \in 1..(Len(q) - 1) : EraseAt(q, k)[i] = IF i < k THEN q[i] ELSE q[i+1]
  BY <1>1, EraseAtEntries
<1>3. EraseAt(q, k) # <<>>
  BY <1>1, <1>2
<1>4. /\ Tail(EraseAt(q, k)) \in Seq(S) /\ Len(Tail(EraseAt(q, k))) = Len(q) - 2
      /\ \A i \in 1..(Len(q) - 2) : Tail(EraseAt(q, k))[i] = EraseAt(q, k)[i+1]
  BY <1>1, <1>2, <1>3, TailEntries
<1> QED
  BY <1>1, <1>2, <1>4

\* A set of indices that is not empty and bounded has a greatest one.
LEMMA GreatestIndex ==
  ASSUME NEW N \in Nat, NEW T \in SUBSET (1..N), T # {}
  PROVE  \E m \in T : \A n \in T : n <= m
<1> DEFINE U == {N - n : n \in T}
<1>1. U \in SUBSET Nat /\ U # {}
  <2>1. \A n \in T : N - n \in Nat
    OBVIOUS
  <2>2. PICK n \in T : TRUE
    OBVIOUS
  <2>3. N - n \in U
    BY <2>2
  <2> QED
    BY <2>1, <2>3
<1> HIDE DEF U
<1>2. PICK u \in U : \A v \in U : u <= v
  BY <1>1, LeastIndex
<1>3. PICK m \in T : u = N - m
  BY <1>2 DEF U
<1>4. \A n \in T : N - n \in U
  BY DEF U
<1>5. ASSUME NEW n \in T PROVE n <= m
  BY <1>2, <1>3, <1>4
<1> QED
  BY <1>5
------------------------------------------------------------------------------
(* Steps that do not touch the queue.                                       *)

\* If queue, flags and registrations stay, and nobody changes his list but those
\* that drop out while they are being destroyed, the queue still says the truth.
LEMMA QueueInvStays ==
  ASSUME IInv, TypeOK', UNCHANGED <<Registration, b_RT, registered>>,
         destroying \subseteq destroying',
         \A o \in Objects : Placed(o)' => Placed(o),
         \A o \in Objects : Placed(o) => Placed(o)' \/ o \in destroying',
         \A o \in Objects : Placed(o)' => (o \in Listed(ItemsRT)' <=> o \in Listed(ItemsRT))
  PROVE  QueueInv'
<1>1. Alternates'
  BY DEF IInv, QueueInv, Alternates, Op, Of
<1>2. Leaves' /\ FirstNames'
  BY DEF IInv, QueueInv, Leaves, FirstNames, Op, Of
<1>3. LastSays'
  BY DEF IInv, QueueInv, LastSays, Op, Of
<1>4. PlaceSays'
  BY DEF IInv, QueueInv, PlaceSays, Queued
<1> QED
  BY <1>1, <1>2, <1>3, <1>4 DEF QueueInv

\* The initial states.
LEMMA StartsAgreed == Init => IInv
<1> SUFFICES ASSUME Init PROVE IInv
  OBVIOUS
<1>1. TypeOK /\ Callers /\ Settling
  BY DEF Init, TypeOK, Callers, Settling, Calling, m_processing_now
<1>2. Single
  BY DEF Init, Single, NoRepeat
<1>3. \A o \in Objects : ~Placed(o)
  BY DEF Init, Placed, Listed, Entries, InStep
<1>4. QueueInv
  BY <1>3 DEF Init, QueueInv, Alternates, Leaves, FirstNames, LastSays, PlaceSays
<1> QED
  BY <1>1, <1>2, <1>4 DEF IInv

\* The frame's time passes, and the late items stay as late as Lag.
LEMMA KeepsBeginUpdate == IInv /\ BeginUpdate => IInv'
<1> SUFFICES ASSUME IInv, BeginUpdate PROVE IInv'
  OBVIOUS
<1> USE DEF BeginUpdate, lists, objects
<1> PICK d \in Deltas : Items' = Later(d)
  OBVIOUS
<1> DEFINE late(x) == [x EXCEPT !.due = IF @ - d < 0-Lag THEN 0-Lag ELSE @ - d]
<1>1. \A x \in Item : late(x) \in Item /\ late(x).obj = x.obj
  BY DEF Item
<1>2. Items \subseteq Item /\ ItemsProcessed \subseteq Item
  BY DEF IInv, TypeOK
<1>3. Items' = {late(x) : x \in Items}
  BY DEF Later
<1> HIDE DEF late
<1>4. \A x \in Items : late(x) \in Items' /\ late(x).obj = x.obj
  BY <1>1, <1>2, <1>3
<1>5. \A y \in Items' : \E x \in Items : y = late(x) /\ y.obj = x.obj
  BY <1>1, <1>2, <1>3
<1>6. TypeOK'
  BY <1>1, <1>2, <1>3 DEF IInv, TypeOK
<1>7. Callers' /\ Settling'
  BY DEF IInv, Callers, Settling, Calling, m_processing_now
<1>8. Single'
  BY <1>5 DEF IInv, Single, InStep
<1>9. \A o \in Objects : Placed(o)' <=> Placed(o)
  BY <1>4, <1>5 DEF Placed, Entries, InStep
<1>10. QueueInv'
  BY <1>6, <1>9, QueueInvStays
<1> QED
  BY <1>6, <1>7, <1>8, <1>10 DEF IInv

\* The queue is empty: nothing that is queued concerns the items.
LEMMA KeepsEndRegistration == IInv /\ EndRegistration => IInv'
<1> SUFFICES ASSUME IInv, EndRegistration PROVE IInv'
  OBVIOUS
<1> USE DEF EndRegistration, Registering, lists, objects
<1>1. TypeOK'
  BY DEF IInv, TypeOK
<1>2. Callers'
  BY DEF IInv, Callers, Calling
<1>3. Settling'
  BY DEF Settling, m_processing_now, Queued
<1>4. Single'
  BY DEF IInv, Single, InStep
<1>5. \A o \in Objects : Placed(o)' <=> Placed(o)
  BY DEF Placed, Entries, InStep
<1>6. QueueInv'
  BY <1>1, <1>5, QueueInvStays
<1> QED
  BY <1>1, <1>2, <1>3, <1>4, <1>6 DEF IInv

\* The real-time loop changes no list.
LEMMA KeepsRT == IInv /\ (RTSkip \/ RTCall \/ RTReturn \/ RTDone) => IInv'
<1> SUFFICES ASSUME IInv, RTSkip \/ RTCall \/ RTReturn \/ RTDone PROVE IInv'
  OBVIOUS
<1> USE DEF RTSkip, RTCall, RTReturn, RTDone, lists, objects
<1>1. UNCHANGED <<lists, Registration, b_RT, objects, registered>>
      /\ m_processing_now /\ m_processing_now' /\ ~(pc = "step_call") /\ ~(pc' = "step_call")
  BY DEF m_processing_now
<1>2. \A o \in Objects : Placed(o)' <=> Placed(o)
  BY <1>1 DEF Placed, Entries, InStep
<1>3. (pc = "rt" => it > 0) /\ it' \in Nat /\ (pc' = "rt" => it' > 0)
  BY DEF IInv, TypeOK, Callers
<1>4. pc = "rt" /\ it <= Len(ItemsRT) =>
        /\ ItemsRT[it] \in Listed(ItemsRT) /\ ItemsRT[it] \in Objects
        /\ ItemsRT[it] \in registered
  <2> SUFFICES ASSUME pc = "rt", it <= Len(ItemsRT)
               PROVE  /\ ItemsRT[it] \in Listed(ItemsRT) /\ ItemsRT[it] \in Objects
                      /\ ItemsRT[it] \in registered
    OBVIOUS
  <2>1. ItemsRT \in Seq(Objects) /\ it \in 1..Len(ItemsRT)
    BY <1>3 DEF IInv, TypeOK
  <2>2. ItemsRT[it] \in Listed(ItemsRT) /\ ItemsRT[it] \in Objects
    BY <2>1 DEF Listed
  <2>3. Queued(ItemsRT[it]) = {} /\ Placed(ItemsRT[it])
    BY <1>1, <2>2 DEF IInv, Settling, Placed
  <2> QED
    BY <2>2, <2>3 DEF IInv, QueueInv, PlaceSays
<1>5. Callers'
  BY <1>1, <1>3, <1>4 DEF IInv, Callers, Calling
<1>6. TypeOK'
  BY <1>1, <1>3, <1>4 DEF IInv, TypeOK
<1>7. Settling'
  BY <1>1 DEF IInv, Settling, Queued
<1>8. Single'
  BY <1>1 DEF IInv, Single, InStep
<1>9. QueueInv'
  BY <1>1, <1>2, <1>6, QueueInvStays
<1> QED
  BY <1>5, <1>6, <1>7, <1>8, <1>9 DEF IInv

\* What is dropped from the heap is a tombstone or being destroyed.
LEMMA KeepsStepDrop == IInv /\ StepDrop => IInv'
<1> SUFFICES ASSUME IInv, StepDrop PROVE IInv'
  OBVIOUS
<1> USE DEF StepDrop, objects
<1> PICK x \in Items : (x.obj = Null \/ x.obj \in destroying) /\ Items' = Items \ {x}
  BY DEF shedule_Needed
<1>1. TypeOK'
  BY DEF IInv, TypeOK
<1>2. Callers' /\ Settling'
  BY DEF IInv, Callers, Settling, Calling, m_processing_now, Queued
<1>3. Single'
  BY DEF IInv, Single, InStep
<1>4. \A o \in Objects : Placed(o)' => Placed(o)
  BY DEF Placed, Entries, InStep
<1>5. \A o \in Objects : Placed(o) => Placed(o)' \/ o \in destroying
  BY DEF Placed, Entries, InStep
<1>6. QueueInv'
  BY <1>1, <1>4, <1>5, QueueInvStays
<1> QED
  BY <1>1, <1>2, <1>3, <1>6 DEF IInv

\* The item is popped before its object is called: it is placed all the same.
LEMMA KeepsStepCall == IInv /\ StepCall => IInv'
<1> SUFFICES ASSUME IInv, StepCall PROVE IInv'
  OBVIOUS
<1> USE DEF StepCall, objects
<1> PICK x \in Items : /\ x.obj # Null /\ shedule_Needed(x.obj)
                       /\ Items' = Items \ {x} /\ current' = x.obj
  OBVIOUS
<1>1. x.obj \in Objects /\ Placed(x.obj) /\ Queued(x.obj) = {}
  BY DEF IInv, TypeOK, Item, Placed, Entries, Settling, m_processing_now
<1>2. TypeOK'
  BY <1>1 DEF IInv, TypeOK
<1>3. x.obj \in registered
  BY <1>1 DEF IInv, QueueInv, PlaceSays
<1>4. Callers' /\ Settling'
  BY <1>3 DEF IInv, Callers, Settling, Calling, m_processing_now, Queued
<1>5. Single'
  <2>1. \A z \in Items' \cup ItemsProcessed' : z.obj # Null => z.obj # x.obj
    BY DEF IInv, Single
  <2>2. x.obj \notin Listed(ItemsRT) /\ \A p : InStep(p)' <=> p = x.obj
    BY DEF IInv, Single, InStep
  <2> QED
    BY <2>1, <2>2 DEF IInv, Single
<1>6. \A o \in Objects : Placed(o)' <=> Placed(o)
  BY <1>1 DEF Placed, Entries, InStep
<1>7. QueueInv'
  BY <1>2, <1>6, QueueInvStays
<1> QED
  BY <1>2, <1>4, <1>5, <1>7 DEF IInv

\* The called object goes to the processed items, or with them onto the heap.
LEMMA KeepsStepReturn == IInv /\ StepReturn => IInv'
<1> SUFFICES ASSUME IInv, StepReturn PROVE IInv'
  OBVIOUS
<1> USE DEF StepReturn, EndStep, objects
<1> PICK u \in Intervals :
      LET done == ItemsProcessed \cup {[obj |-> current, due |-> u]}
      IN \/ /\ pc' = "step" /\ it' = it + 1
            /\ ItemsProcessed' = done /\ UNCHANGED Items
         \/ /\ Items' = Items \cup done
            /\ pc' = "registration_end" /\ it' = 0 /\ ItemsProcessed' = {}
  OBVIOUS
<1> DEFINE y == [obj |-> current, due |-> u]
<1>1. current \in Objects /\ current # Null /\ InStep(current) /\ y \in Item /\ y.obj = current
  BY DEF IInv, Callers, Calling, TypeOK, Item, InStep
<1> HIDE DEF y
<1>2. Items' \cup ItemsProcessed' = Items \cup ItemsProcessed \cup {y}
  BY DEF y
<1>3. TypeOK'
  BY <1>1, <1>2 DEF IInv, TypeOK
<1>4. Callers'
  BY DEF Callers, Calling
<1>5. Settling'
  BY DEF IInv, Settling, m_processing_now, Queued
<1>6. Single'
  <2>1. current \notin Listed(ItemsRT) /\ \A z \in Items \cup ItemsProcessed : z.obj # current
    BY <1>1 DEF IInv, Single, InStep
  <2>2. \A p : ~InStep(p)'
    BY DEF InStep
  <2> QED
    BY <1>1, <1>2, <2>1, <2>2 DEF IInv, Single
<1>7. \A o \in Objects : Placed(o)' <=> Placed(o)
  BY <1>1, <1>2 DEF Placed, Entries, InStep
<1>8. QueueInv'
  BY <1>3, <1>7, QueueInvStays
<1> QED
  BY <1>3, <1>4, <1>5, <1>6, <1>8 DEF IInv

\* The processed items go back onto the heap.
LEMMA KeepsStepDone == IInv /\ StepDone => IInv'
<1> SUFFICES ASSUME IInv, StepDone PROVE IInv'
  OBVIOUS
<1> USE DEF StepDone, EndStep, objects
<1>1. Items' \cup ItemsProcessed' = Items \cup ItemsProcessed
  OBVIOUS
<1>2. TypeOK'
  BY DEF IInv, TypeOK
<1>3. Callers' /\ Settling'
  BY DEF IInv, Callers, Settling, Calling, m_processing_now
<1>4. Single'
  BY <1>1 DEF IInv, Single, InStep
<1>5. \A o \in Objects : Placed(o)' <=> Placed(o)
  BY <1>1 DEF Placed, Entries, InStep
<1>6. QueueInv'
  BY <1>2, <1>5, QueueInvStays
<1> QED
  BY <1>2, <1>3, <1>4, <1>6 DEF IInv

\* What is being destroyed may be dropped from the heap.
LEMMA KeepsSetDestroy == \A o \in Objects : IInv /\ SetDestroy(o) => IInv'
<1> SUFFICES ASSUME NEW o \in Objects, IInv, SetDestroy(o) PROVE IInv'
  OBVIOUS
<1> USE DEF SetDestroy, lists
<1>1. TypeOK'
  BY DEF IInv, TypeOK
<1>2. Callers' /\ Settling'
  BY DEF IInv, Callers, Settling, Calling, m_processing_now
<1>3. Single'
  BY DEF IInv, Single, InStep
<1>4. \A p \in Objects : Placed(p)' <=> Placed(p)
  BY DEF Placed, Entries, InStep
<1>5. QueueInv'
  BY <1>1, <1>4, QueueInvStays
<1> QED
  BY <1>1, <1>2, <1>3, <1>5 DEF IInv
------------------------------------------------------------------------------
(* Steps that put an entry on the queue.                                    *)

LEMMA EntryTypes ==
  ASSUME TypeOK
  PROVE  /\ Len(Registration) \in Nat
         /\ \A i \in 1..Len(Registration) :
              /\ Registration[i] \in Reg /\ Registration[i].obj \in Objects
              /\ Registration[i].rt \in BOOLEAN
              /\ ~Op(i, "register") <=> Op(i, "unregister")
<1>1. Registration \in Seq(Reg)
  BY DEF TypeOK
<1>2. Len(Registration) \in Nat /\ \A i \in 1..Len(Registration) : Registration[i] \in Reg
  BY <1>1
<1> QED
  BY <1>2 DEF Reg, Op

\* Of an object that is queued there is a last entry, which says whether it is
\* registered.
LEMMA LastEntry ==
  ASSUME IInv, NEW o \in Objects, Queued(o) # {}
  PROVE  \E k \in Queued(o) : /\ \A l \in Queued(o) : l <= k
                              /\ Op(k, "register") <=> o \in registered
<1>1. Len(Registration) \in Nat /\ Queued(o) \in SUBSET (1..Len(Registration))
  BY EntryTypes DEF IInv, Queued
<1>2. PICK k \in Queued(o) : \A l \in Queued(o) : l <= k
  BY <1>1, GreatestIndex
<1>3. k \in 1..Len(Registration) /\ Of(k, o)
  BY DEF Queued, Of
<1>4. \A l \in (k+1)..Len(Registration) : ~Of(l, o)
  BY <1>1, <1>2, <1>3 DEF Queued, Of
<1> QED
  BY <1>2, <1>3, <1>4 DEF IInv, QueueInv, LastSays

\* If the last entry says what its object asked for, the queue says the truth.
LEMMA QueueInvGrows ==
  ASSUME IInv, NEW r \in Reg, Registration' = Append(Registration, r),
         UNCHANGED ItemsRT, \A o \in Objects : Placed(o)' <=> Placed(o),
         \A o \in Objects \ {r.obj} : /\ b_RT'[o] = b_RT[o]
                                      /\ o \in registered' <=> o \in registered
                                      /\ o \in destroying => o \in destroying',
         r.op = "register" <=> r.obj \in registered',
         r.op = "register" => r.obj \notin registered /\ b_RT'[r.obj] = r.rt,
         Placed(r.obj) /\ Queued(r.obj) = {} => r.rt = (r.obj \in Listed(ItemsRT))
  PROVE  QueueInv'
<1> PICK n \in Nat : n = Len(Registration)
  BY EntryTypes DEF IInv
<1> DEFINE p == r.obj
<1>1. /\ Len(Registration') = n + 1
      /\ \A i \in 1..n : Registration'[i] = Registration[i]
      /\ Registration'[n+1] = r
  BY AppendEntries DEF IInv, TypeOK
<1>2. p \in Objects
  BY DEF Reg
<1>3. /\ \A i \in 1..n : \A e : (Op(i, e)' <=> Op(i, e)) /\ (Of(i, e)' <=> Of(i, e))
      /\ \A e : (Op(n+1, e)' <=> r.op = e) /\ (Of(n+1, e)' <=> p = e)
  BY <1>1 DEF Op, Of
<1>4. \A i \in 1..(n+1) : i \in 1..n \/ i = n + 1
  BY <1>1
<1>5. p \notin registered => Queued(p) = {} \/
        \E k \in 1..n : /\ Of(k, p) /\ Op(k, "unregister")
                        /\ \A l \in 1..n : Of(l, p) => l <= k
  BY <1>2, LastEntry, EntryTypes DEF IInv, Queued, Of
<1>6. Queued(p) = {} <=> \A l \in 1..n : ~Of(l, p)
  BY DEF Queued, Of
<1>7. \A o \in Objects \ {p} : Queued(o)' = {} => Queued(o) = {}
  BY <1>1 DEF Queued
<1>8. Queued(p)' # {}
  BY <1>1 DEF Queued
<1> HIDE DEF p
<1>9. ASSUME NEW o \in Objects, NEW i \in 1..(n+1), NEW j \in 1..(n+1), i < j,
             Op(i, "register")', Of(i, o)', Op(j, "register")', Of(j, o)'
      PROVE  \E k \in (i+1)..(j-1) : Op(k, "unregister")' /\ Of(k, o)'
  <2>1. i \in 1..n /\ Op(i, "register") /\ Of(i, o)
    BY <1>1, <1>3, <1>4, <1>9
  <2>2. CASE j \in 1..n
    <3>1. PICK k \in (i+1)..(j-1) : Op(k, "unregister") /\ Of(k, o)
      BY <1>3, <1>9, <2>1, <2>2 DEF IInv, QueueInv, Alternates
    <3>2. k \in 1..n
      BY <1>1, <2>1, <2>2
    <3> QED
      BY <1>3, <3>1, <3>2
  <2>3. CASE j = n + 1
    <3>1. r.op = "register" /\ o = p
      BY <1>3, <1>9, <2>3
    <3>2. PICK k \in 1..n : /\ Of(k, p) /\ Op(k, "unregister")
                            /\ \A l \in 1..n : Of(l, p) => l <= k
      BY <1>5, <1>6, <2>1, <3>1 DEF p
    <3>3. i <= k /\ i # k
      BY <2>1, <3>1, <3>2 DEF Op
    <3>4. k \in (i+1)..(j-1)
      BY <1>1, <2>1, <2>3, <3>2, <3>3
    <3> QED
      BY <1>3, <3>1, <3>2, <3>4
  <2> QED
    BY <1>4, <2>2, <2>3
<1>10. Alternates'
  BY <1>1, <1>9 DEF Alternates
<1>11. ASSUME NEW o \in Objects, Placed(o), NEW i \in 1..(n+1), Op(i, "register")', Of(i, o)'
       PROVE  \E k \in 1..(i-1) : Op(k, "unregister")' /\ Of(k, o)'
  <2>1. CASE i \in 1..n
    <3>1. PICK k \in 1..(i-1) : Op(k, "unregister") /\ Of(k, o)
      BY <1>3, <1>11, <2>1 DEF IInv, QueueInv, Leaves
    <3>2. k \in 1..n
      BY <1>1, <2>1
    <3> QED
      BY <1>3, <3>1, <3>2
  <2>2. CASE i = n + 1
    <3>1. r.op = "register" /\ o = p /\ p \notin registered
      BY <1>3, <1>11, <2>2 DEF p
    <3>2. Queued(p) # {}
      BY <1>2, <1>11, <3>1 DEF IInv, QueueInv, PlaceSays
    <3>3. PICK k \in 1..n : Of(k, p) /\ Op(k, "unregister")
      BY <1>5, <3>1, <3>2
    <3> QED
      BY <1>1, <1>3, <2>2, <3>1, <3>3
  <2> QED
    BY <1>4, <2>1, <2>2
<1>12. Leaves'
  BY <1>1, <1>11 DEF Leaves
<1>13. ASSUME NEW o \in Objects, Placed(o), NEW i \in 1..(n+1), Of(i, o)',
              \A k \in 1..(i-1) : ~Of(k, o)'
       PROVE  Registration'[i].rt = (o \in Listed(ItemsRT))
  <2>1. CASE i \in 1..n
    <3>1. \A k \in 1..(i-1) : k \in 1..n
      BY <1>1, <2>1
    <3> QED
      BY <1>1, <1>3, <1>13, <2>1, <3>1 DEF IInv, QueueInv, FirstNames
  <2>2. CASE i = n + 1
    <3>1. o = p /\ \A k \in 1..n : ~Of(k, o)
      BY <1>1, <1>3, <1>13, <2>2
    <3> QED
      BY <1>1, <1>6, <1>13, <2>2, <3>1 DEF p
  <2> QED
    BY <1>4, <2>1, <2>2
<1>14. FirstNames'
  BY <1>1, <1>13 DEF FirstNames
<1>15. ASSUME NEW o \in Objects, NEW i \in 1..(n+1), Of(i, o)',
              \A k \in (i+1)..(n+1) : ~Of(k, o)'
       PROVE  /\ Op(i, "register")' <=> o \in registered'
              /\ Op(i, "register")' => b_RT'[o] = Registration'[i].rt
  <2>1. CASE i \in 1..n
    <3>1. o # p /\ Of(i, o)
      BY <1>1, <1>3, <1>15, <2>1
    <3>2. \A k \in (i+1)..n : ~Of(k, o)
      BY <1>1, <1>3, <1>15, <2>1
    <3>3. /\ Op(i, "register") <=> o \in registered
          /\ Op(i, "register") => b_RT[o] = Registration[i].rt
      BY <2>1, <3>1, <3>2 DEF IInv, QueueInv, LastSays
    <3> QED
      BY <1>1, <1>3, <2>1, <3>1, <3>3 DEF p
  <2>2. CASE i = n + 1
    <3>1. o = p /\ Registration'[i] = r /\ (Op(i, "register")' <=> r.op = "register")
      BY <1>1, <1>3, <1>15, <2>2
    <3> QED
      BY <3>1 DEF p
  <2> QED
    BY <1>4, <2>1, <2>2
<1>16. LastSays'
  BY <1>1, <1>15 DEF LastSays
<1>17. PlaceSays'
  BY <1>7, <1>8 DEF IInv, QueueInv, PlaceSays, p
<1> QED
  BY <1>10, <1>12, <1>14, <1>16, <1>17 DEF QueueInv

\* The memory of a new object may say anything: nothing is queued for it.
LEMMA KeepsConstruct == \A o \in Objects : IInv /\ Construct(o) => IInv'
<1> SUFFICES ASSUME NEW o \in Objects, IInv, Construct(o) PROVE IInv'
  OBVIOUS
<1> USE DEF Construct, lists
<1>1. TypeOK' /\ o \notin registered /\ \A p \in Objects \ {o} : b_RT'[p] = b_RT[p]
  BY DEF IInv, TypeOK
<1>2. Callers' /\ Settling'
  BY DEF IInv, Callers, Settling, Calling, m_processing_now, Queued
<1>3. Single'
  BY DEF IInv, Single, InStep
<1>4. \A p \in Objects : (Placed(p)' <=> Placed(p)) /\ (Queued(p)' = {} <=> Queued(p) = {})
  BY DEF Placed, Entries, InStep, Queued
<1>5. Alternates' /\ Leaves' /\ FirstNames'
  BY <1>4 DEF IInv, QueueInv, Alternates, Leaves, FirstNames, Op, Of
<1>6. LastSays'
  BY <1>1 DEF IInv, QueueInv, LastSays, Op, Of
<1>7. PlaceSays'
  BY <1>1, <1>4 DEF IInv, QueueInv, PlaceSays
<1> QED
  BY <1>1, <1>2, <1>3, <1>5, <1>6, <1>7 DEF IInv, QueueInv

\* What is put on the queue while items are processed concerns nobody who is in
\* the lists.
LEMMA SettlingGrows ==
  ASSUME Settling, TypeOK, NEW r \in Reg, Registration' = Append(Registration, r),
         UNCHANGED <<ItemsRT, Items, pc>>,
         m_processing_now => r.obj \notin Listed(ItemsRT) /\ ~InItems(r.obj)
  PROVE  Settling'
<1> SUFFICES ASSUME m_processing_now PROVE Settling'
  BY DEF Settling, m_processing_now
<1>1. \A o \in Objects \ {r.obj} : Queued(o) = {} => Queued(o)' = {}
  <2>1. /\ Len(Registration') = Len(Registration) + 1 /\ Len(Registration) \in Nat
        /\ \A i \in 1..Len(Registration) : Registration'[i] = Registration[i]
        /\ Registration'[Len(Registration) + 1] = r
    BY AppendEntries DEF TypeOK
  <2> QED
    BY <2>1 DEF Queued
<1>2. Listed(ItemsRT) \subseteq Objects \ {r.obj}
  BY DEF TypeOK, Listed
<1>3. \A x \in Items : x.obj # Null => x.obj \in Objects \ {r.obj}
  BY DEF TypeOK, Item, InItems
<1> QED
  BY <1>1, <1>2, <1>3 DEF Settling

LEMMA KeepsRegister ==
  \A o \in Objects, rt \in BOOLEAN : IInv /\ Register(o, rt) => IInv'
<1> SUFFICES ASSUME NEW o \in Objects, NEW rt \in BOOLEAN, IInv, Register(o, rt)
             PROVE  IInv'
  OBVIOUS
<1> USE DEF Register, Queue, lists, objects
<1> DEFINE r == [op |-> "register", rt |-> rt, obj |-> o]
<1>1. r \in Reg /\ r.obj = o /\ r.rt = rt /\ r.op = "register" /\ Registration' = Append(Registration, r)
  BY DEF Reg
<1> HIDE DEF r
<1>2. Registration' \in Seq(Reg)
  BY <1>1, AppendEntries DEF IInv, TypeOK
<1>3. TypeOK' /\ b_RT'[o] = rt /\ \A p \in Objects \ {o} : b_RT'[p] = b_RT[p]
  BY <1>2 DEF IInv, TypeOK
<1>4. Callers'
  BY DEF IInv, Callers, Calling
<1>5. ~(Placed(o) /\ Queued(o) = {})
  BY DEF IInv, QueueInv, PlaceSays
<1>6. m_processing_now => o \notin Listed(ItemsRT) /\ ~InItems(o)
  <2>1. o # Null
    OBVIOUS
  <2> QED
    BY <1>5, <2>1 DEF IInv, Settling, Placed, InItems, Entries
<1>7. Settling'
  BY <1>1, <1>6, SettlingGrows DEF IInv
<1>8. Single'
  BY DEF IInv, Single, InStep
<1>9. \A p \in Objects : Placed(p)' <=> Placed(p)
  BY DEF Placed, Entries, InStep
<1>10. QueueInv'
  BY <1>1, <1>3, <1>5, <1>9, QueueInvGrows
<1> QED
  BY <1>3, <1>4, <1>7, <1>8, <1>10 DEF IInv

\* The object that is not found while items are processed is queued; it is in
\* no list, for its b_RT would have named it.
LEMMA KeepsQueuedUnregister ==
  ASSUME NEW o \in Objects, IInv, ~(m_processing_now /\ Found(o, b_RT[o])),
         Queue([op |-> "unregister", rt |-> b_RT[o], obj |-> o]),
         o # current, registered' = registered \ {o},
         UNCHANGED <<lists, b_RT, pc, it, current>>,
         alive' \subseteq Objects, destroying' \subseteq alive', registered' \subseteq alive',
         \A p \in Objects \ {o} : p \in destroying => p \in destroying'
  PROVE  IInv'
<1> USE DEF Queue, lists
<1> DEFINE r == [op |-> "unregister", rt |-> b_RT[o], obj |-> o]
<1>1. r \in Reg /\ r.obj = o /\ r.rt = b_RT[o] /\ r.op = "unregister" /\ Registration' = Append(Registration, r)
  BY DEF Reg, IInv, TypeOK
<1> HIDE DEF r
<1>2. Registration' \in Seq(Reg)
  BY <1>1, AppendEntries DEF IInv, TypeOK
<1>3. TypeOK'
  BY <1>2 DEF IInv, TypeOK
<1>4. Callers'
  BY DEF IInv, Callers, Calling
<1>5. Placed(o) /\ Queued(o) = {} => b_RT[o] = (o \in Listed(ItemsRT))
  BY DEF IInv, QueueInv, PlaceSays
<1>6. m_processing_now => o \notin Listed(ItemsRT) /\ ~InItems(o)
  <2> SUFFICES ASSUME m_processing_now PROVE o \notin Listed(ItemsRT) /\ ~InItems(o)
    OBVIOUS
  <2>1. ~ (o \in Listed(ItemsRT))
    <3> SUFFICES ASSUME o \in Listed(ItemsRT) PROVE FALSE
      OBVIOUS
    <3>1. Queued(o) = {} /\ Placed(o)
      BY DEF IInv, Settling, Placed
    <3> QED
      BY <1>5, <3>1 DEF Found
  <2>2. ~InItems(o)
    <3> SUFFICES ASSUME InItems(o) PROVE FALSE
      OBVIOUS
    <3>1. Queued(o) = {} /\ Placed(o)
      BY DEF IInv, Settling, Placed, InItems, Entries
    <3> QED
      BY <1>5, <2>1, <3>1 DEF Found
  <2> QED
    BY <2>1, <2>2
<1>7. Settling'
  BY <1>1, <1>6, SettlingGrows DEF IInv
<1>8. Single'
  BY DEF IInv, Single, InStep
<1>9. \A p \in Objects : Placed(p)' <=> Placed(p)
  BY DEF Placed, Entries, InStep
<1>10. QueueInv'
  BY <1>1, <1>5, <1>9, QueueInvGrows
<1> QED
  BY <1>3, <1>4, <1>7, <1>8, <1>10 DEF IInv
------------------------------------------------------------------------------
(* Steps that take an object out of its list.                               *)

\* internal_Unregister leaves the others where they are, and takes the object
\* out if it is told the right list.
LEMMA Unregistering ==
  ASSUME TypeOK, Single, NEW o \in Objects, NEW rt \in BOOLEAN,
         internal_Unregister(o, rt), ~InStep(o),
         UNCHANGED <<ItemsProcessed, pc, current>>,
         \A x \in ItemsProcessed : x.obj # o,
         Placed(o) => rt = (o \in Listed(ItemsRT))
  PROVE  /\ ItemsRT' \in Seq(Objects) /\ Items' \subseteq Item
         /\ Single' /\ ~Placed(o)'
         /\ \A p \in Objects \ {o} : /\ Placed(p)' <=> Placed(p)
                                     /\ p \in Listed(ItemsRT') <=> p \in Listed(ItemsRT)
         /\ Listed(ItemsRT') \subseteq Listed(ItemsRT)
         /\ \A x \in Items' : x.obj # Null => x \in Items
<1> USE DEF internal_Unregister
<1>1. /\ ItemsRT' \in Seq(Objects) /\ NoRepeat(ItemsRT')
      /\ Listed(ItemsRT') = IF rt THEN Listed(ItemsRT) \ {o} ELSE Listed(ItemsRT)
  BY EraseListed DEF TypeOK, Single
<1> DEFINE bury(x) == IF x.obj = o THEN [x EXCEPT !.obj = Null] ELSE x
<1>2. \A x \in Item : bury(x) \in Item /\ bury(x).obj = IF x.obj = o THEN Null ELSE x.obj
  BY DEF Item
<1>3. Items \subseteq Item /\ o # Null
  BY DEF TypeOK
<1>4. Buried(o) = {bury(x) : x \in Items}
  BY DEF Buried
<1>5. \A x \in Item : x.obj # o => bury(x) = x
  OBVIOUS
<1> HIDE DEF bury
<1>6. /\ Buried(o) \subseteq Item
      /\ \A x \in Buried(o) : x.obj # Null => x \in Items /\ x.obj # o
      /\ \A x \in Items : x.obj # o => x \in Buried(o)
      /\ \A x \in Buried(o) : x.obj # o
  BY <1>2, <1>3, <1>4, <1>5
<1>7. /\ Items' \subseteq Item
      /\ \A x \in Items' : x.obj # Null => x \in Items
      /\ \A x \in Items : x.obj # o => x \in Items'
      /\ ~rt => \A x \in Items' : x.obj # o
  BY <1>3, <1>6
<1>8. Single'
  BY <1>1, <1>7 DEF Single, InStep
<1>9. ~Placed(o)'
  <2>1. ~InStep(o)' /\ o \notin Listed(ItemsRT')
    BY <1>1 DEF InStep, Placed
  <2>2. Entries(o)' = {}
    <3> SUFFICES ASSUME NEW x \in Items', x.obj = o PROVE FALSE
      BY DEF Entries
    <3>1. rt /\ x \in Items
      BY <1>3, <1>7
    <3>2. o \in Listed(ItemsRT) /\ Placed(o)
      BY <3>1 DEF Placed, Entries
    <3> QED
      BY <1>3, <3>1, <3>2 DEF Single
  <2> QED
    BY <2>1, <2>2 DEF Placed
<1>10. ASSUME NEW p \in Objects \ {o} PROVE (Placed(p)' <=> Placed(p))
  <2>1. p # Null
    OBVIOUS
  <2>2. Entries(p)' = {} <=> Entries(p) = {}
    BY <1>7, <2>1 DEF Entries
  <2> QED
    BY <1>1, <2>2 DEF Placed, InStep
<1> QED
  BY <1>1, <1>7, <1>8, <1>9, <1>10

\* Found while items are processed, the object leaves at once.
LEMMA KeepsFoundUnregister ==
  ASSUME NEW o \in registered, IInv, m_processing_now, Found(o, b_RT[o]),
         internal_Unregister(o, b_RT[o]), o # current,
         registered' = registered \ {o}, b_RT[o] => pc = "out",
         UNCHANGED <<ItemsProcessed, Registration, b_RT, pc, it, current, alive, destroying>>
  PROVE  IInv'
<1>1. o \in Objects /\ o # Null /\ ~b_RT[o] /\ ~InStep(o) /\ b_RT[o] \in BOOLEAN
  BY DEF IInv, TypeOK, m_processing_now, InStep
<1>2. PICK x \in Items : x.obj = o
  BY <1>1 DEF Found, InItems
<1>3. Queued(o) = {} /\ o \notin Listed(ItemsRT) /\ \A y \in ItemsProcessed : y.obj # o
  BY <1>1, <1>2 DEF IInv, Settling, Single
<1>4. /\ ItemsRT' \in Seq(Objects) /\ Items' \subseteq Item
      /\ Single' /\ ~Placed(o)'
      /\ \A p \in Objects \ {o} : /\ Placed(p)' <=> Placed(p)
                                  /\ p \in Listed(ItemsRT') <=> p \in Listed(ItemsRT)
      /\ Listed(ItemsRT') \subseteq Listed(ItemsRT)
      /\ \A y \in Items' : y.obj # Null => y \in Items
  BY <1>1, <1>3, Unregistering DEF IInv
<1>5. TypeOK'
  BY <1>4 DEF IInv, TypeOK
<1>6. Callers'
  BY DEF IInv, Callers, Calling
<1>7. Settling'
  BY <1>4 DEF IInv, Settling, Queued
<1>8. Alternates'
  BY DEF IInv, QueueInv, Alternates, Op, Of
<1>9. Leaves' /\ FirstNames'
  BY <1>4 DEF IInv, QueueInv, Leaves, FirstNames, Op, Of
<1>10. LastSays'
  <2>1. \A i \in 1..Len(Registration) : ~Of(i, o)
    BY <1>3 DEF Queued, Of
  <2> QED
    BY <2>1 DEF IInv, QueueInv, LastSays, Op, Of
<1>11. PlaceSays'
  BY <1>4 DEF IInv, QueueInv, PlaceSays, Queued
<1> QED
  BY <1>4, <1>5, <1>6, <1>7, <1>8, <1>9, <1>10, <1>11 DEF IInv, QueueInv

LEMMA KeepsUnregister == \A o \in Objects : IInv /\ Unregister(o) => IInv'
<1> SUFFICES ASSUME NEW o \in Objects, IInv, Unregister(o) PROVE IInv'
  OBVIOUS
<1> USE DEF Unregister, DoUnregister, lists, objects
<1>1. CASE m_processing_now /\ Found(o, b_RT[o])
  BY <1>1, KeepsFoundUnregister
<1>2. CASE ~(m_processing_now /\ Found(o, b_RT[o]))
  <2>1. alive' \subseteq Objects /\ destroying' \subseteq alive' /\ registered' \subseteq alive'
    BY DEF IInv, TypeOK
  <2> QED
    BY <1>2, <2>1, KeepsQueuedUnregister
<1> QED
  BY <1>1, <1>2

\* The destructor never finds its object: whoever is in a list while items are
\* processed is registered.
LEMMA KeepsDelete == \A o \in Objects : IInv /\ Delete(o) => IInv'
<1> SUFFICES ASSUME NEW o \in Objects, IInv, Delete(o) PROVE IInv'
  OBVIOUS
<1> USE DEF Delete, DoUnregister, lists, objects
<1>1. ~(m_processing_now /\ Found(o, b_RT[o]))
  <2> SUFFICES ASSUME m_processing_now, Found(o, b_RT[o]) PROVE FALSE
    OBVIOUS
  <2>1. o \in Listed(ItemsRT) \/ \E x \in Items : x.obj = o
    BY DEF Found, InItems
  <2>2. o # Null
    OBVIOUS
  <2>3. Queued(o) = {} /\ Placed(o)
    BY <2>1, <2>2 DEF IInv, Settling, Placed, Entries
  <2> QED
    BY <2>3 DEF IInv, QueueInv, PlaceSays
<1>2. alive' \subseteq Objects /\ destroying' \subseteq alive' /\ registered' \subseteq alive'
  BY DEF IInv, TypeOK
<1>3. registered' = registered \ {o}
  OBVIOUS
<1> QED
  BY <1>1, <1>2, <1>3, KeepsQueuedUnregister
------------------------------------------------------------------------------
(* Steps that take an entry off the queue.                                  *)

\* The first entry goes.  If it registered, its object asks for nothing more and
\* is now in the list that the entry named; if it unregistered, the object is in
\* no list.
LEMMA QueueInvShrinks ==
  ASSUME IInv, Registration # <<>>, Registration' = Tail(Registration),
         UNCHANGED <<registered, b_RT, destroying>>,
         NEW o \in Objects, o = Registration[1].obj,
         \A p \in Objects \ {o} : /\ Placed(p)' <=> Placed(p)
                                  /\ p \in Listed(ItemsRT)' <=> p \in Listed(ItemsRT),
         Op(1, "register") => /\ Pairs(o) = {} /\ Placed(o)'
                              /\ Registration[1].rt = (o \in Listed(ItemsRT)'),
         Op(1, "unregister") => ~Placed(o)'
  PROVE  QueueInv'
<1> PICK n \in Nat : n = Len(Registration)
  BY EntryTypes DEF IInv
<1>1. /\ n > 0 /\ Len(Registration') = n - 1
      /\ \A i \in 1..(n-1) : Registration'[i] = Registration[i+1]
  BY TailEntries DEF IInv, TypeOK
<1>2. /\ \A i \in 1..(n-1) : \A e : (Op(i, e)' <=> Op(i+1, e)) /\ (Of(i, e)' <=> Of(i+1, e))
      /\ Of(1, o)
  BY <1>1 DEF Op, Of
<1>3. Op(1, "unregister") \/ Op(1, "register")
  BY <1>1, EntryTypes DEF IInv
<1>4. \A i \in 1..n : ~Op(i, "register") <=> Op(i, "unregister")
  BY EntryTypes DEF IInv
<1>5. Op(1, "register") => \A k \in 2..n : ~Of(k, o)
  <2> SUFFICES ASSUME Op(1, "register"), NEW k \in 2..n, Of(k, o) PROVE FALSE
    OBVIOUS
  <2>1. \A l \in 2..n : ~(Op(l, "unregister") /\ Of(l, o))
    BY DEF Pairs, Op, Of
  <2>2. Op(k, "register")
    BY <1>4, <2>1
  <2>3. PICK l \in 2..(k-1) : Op(l, "unregister") /\ Of(l, o)
    BY <1>1, <1>2, <2>2 DEF IInv, QueueInv, Alternates
  <2> QED
    BY <2>1, <2>3
<1>6. ASSUME NEW p \in Objects, NEW i \in 1..(n-1), NEW j \in 1..(n-1), i < j,
             Op(i, "register")', Of(i, p)', Op(j, "register")', Of(j, p)'
      PROVE  \E k \in (i+1)..(j-1) : Op(k, "unregister")' /\ Of(k, p)'
  <2>1. PICK k \in (i+2)..j : Op(k, "unregister") /\ Of(k, p)
    BY <1>1, <1>2, <1>6 DEF IInv, QueueInv, Alternates
  <2>2. k - 1 \in (i+1)..(j-1) /\ k - 1 \in 1..(n-1) /\ (k-1)+1 = k
    OBVIOUS
  <2>3. Op(k-1, "unregister")' /\ Of(k-1, p)'
    BY <1>2, <2>1, <2>2
  <2> QED
    BY <2>2, <2>3
<1>7. Alternates'
  BY <1>1, <1>6 DEF Alternates
<1>8. ASSUME NEW p \in Objects, Placed(p)', NEW i \in 1..(n-1), Op(i, "register")', Of(i, p)'
      PROVE  \E k \in 1..(i-1) : Op(k, "unregister")' /\ Of(k, p)'
  <2>1. p # o
    BY <1>1, <1>2, <1>3, <1>5, <1>8
  <2>2. PICK k \in 1..i : Op(k, "unregister") /\ Of(k, p)
    BY <1>1, <1>2, <1>8, <2>1 DEF IInv, QueueInv, Leaves
  <2>3. k # 1
    BY <2>1, <2>2 DEF Of
  <2>4. k - 1 \in 1..(i-1) /\ k - 1 \in 1..(n-1) /\ (k-1)+1 = k
    BY <2>3
  <2>5. Op(k-1, "unregister")' /\ Of(k-1, p)'
    BY <1>2, <2>2, <2>4
  <2> QED
    BY <2>4, <2>5
<1>9. Leaves'
  BY <1>1, <1>8 DEF Leaves
<1>10. ASSUME NEW p \in Objects, Placed(p)', NEW i \in 1..(n-1), Of(i, p)',
              \A k \in 1..(i-1) : ~Of(k, p)'
       PROVE  Registration'[i].rt = (p \in Listed(ItemsRT)')
  <2>1. p # o
    BY <1>1, <1>2, <1>3, <1>5, <1>10
  <2>2. ASSUME NEW k \in 1..i, Of(k, p) PROVE FALSE
    <3>1. k # 1
      BY <2>1, <2>2 DEF Of
    <3>2. k - 1 \in 1..(i-1) /\ k - 1 \in 1..(n-1) /\ (k-1)+1 = k
      BY <3>1
    <3> QED
      BY <1>2, <1>10, <2>2, <3>2
  <2>3. i + 1 \in 1..n /\ Of(i+1, p) /\ \A k \in 1..((i+1)-1) : ~Of(k, p)
    BY <1>2, <1>10, <2>2
  <2>4. Registration[i+1].rt = (p \in Listed(ItemsRT))
    BY <1>10, <2>1, <2>3 DEF IInv, QueueInv, FirstNames
  <2> QED
    BY <1>1, <2>1, <2>4
<1>11. FirstNames'
  BY <1>1, <1>10 DEF FirstNames
<1>12. ASSUME NEW p \in Objects, NEW i \in 1..(n-1), Of(i, p)',
              \A k \in (i+1)..(n-1) : ~Of(k, p)'
       PROVE  /\ Op(i, "register")' <=> p \in registered
              /\ Op(i, "register")' => b_RT[p] = Registration'[i].rt
  <2>1. ASSUME NEW k \in (i+2)..n, Of(k, p) PROVE FALSE
    <3>1. k - 1 \in (i+1)..(n-1) /\ k - 1 \in 1..(n-1) /\ (k-1)+1 = k
      OBVIOUS
    <3> QED
      BY <1>2, <1>12, <2>1, <3>1
  <2>2. i + 1 \in 1..n /\ Of(i+1, p) /\ \A k \in ((i+1)+1)..n : ~Of(k, p)
    BY <1>2, <1>12, <2>1
  <2>3. /\ Op(i+1, "register") <=> p \in registered
        /\ Op(i+1, "register") => b_RT[p] = Registration[i+1].rt
    BY <2>2 DEF IInv, QueueInv, LastSays
  <2> QED
    BY <1>1, <1>2, <2>3
<1>13. LastSays'
  BY <1>1, <1>12 DEF LastSays
<1>14. ASSUME NEW p \in Objects, Queued(p)' = {}
       PROVE  /\ Placed(p)' => p \in registered /\ b_RT[p] = (p \in Listed(ItemsRT)')
              /\ p \in registered \ destroying => Placed(p)'
  <2>1. \A i \in 1..(n-1) : ~Of(i, p)'
    BY <1>1, <1>14 DEF Queued, Of
  <2>2. ASSUME NEW k \in 2..n, Of(k, p) PROVE FALSE
    <3>1. k - 1 \in 1..(n-1) /\ (k-1)+1 = k
      OBVIOUS
    <3> QED
      BY <1>2, <2>1, <2>2, <3>1
  <2>3. CASE p # o
    <3>1. ~Of(1, p)
      BY <2>3 DEF Of
    <3>2. Queued(p) = {}
      BY <2>2, <3>1 DEF Queued, Of
    <3> QED
      BY <2>3, <3>2 DEF IInv, QueueInv, PlaceSays
  <2>4. CASE p = o
    <3>1. /\ Op(1, "register") <=> p \in registered
          /\ Op(1, "register") => b_RT[p] = Registration[1].rt
      BY <1>1, <1>2, <2>2, <2>4 DEF IInv, QueueInv, LastSays
    <3> QED
      BY <1>3, <2>4, <3>1
  <2> QED
    BY <2>3, <2>4
<1>15. PlaceSays'
  BY <1>14 DEF PlaceSays
<1> QED
  BY <1>7, <1>9, <1>11, <1>13, <1>15 DEF QueueInv

\* internal_Register: its object was in no list and has no other entry.
LEMMA KeepsRegisterItem == IInv /\ RegisterItem => IInv'
<1> SUFFICES ASSUME IInv, RegisterItem PROVE IInv'
  OBVIOUS
<1> USE DEF RegisterItem, Registering, objects
<1>1. /\ Registration' \in Seq(Reg) /\ Len(Registration) \in Nat \ {0}
      /\ Head(Registration) = Registration[1]
  BY TailEntries DEF IInv, TypeOK
<1> PICK r : r = Registration[1]
  OBVIOUS
<1> PICK o \in Objects : o = Registration[1].obj
  BY <1>1, EntryTypes DEF IInv
<1>2. r.obj = o /\ r.rt \in BOOLEAN /\ r.op = "register" /\ Pairs(o) = {}
      /\ Of(1, o) /\ Op(1, "register") /\ ~Op(1, "unregister")
  BY <1>1, EntryTypes DEF IInv, Of, Op
<1>3. /\ ItemsRT' = IF r.rt THEN Append(ItemsRT, o) ELSE ItemsRT
      /\ Items' = IF r.rt THEN Items ELSE Items \cup {[obj |-> o, due |-> 0]}
      /\ b_RT' = [b_RT EXCEPT ![o] = r.rt]
  BY <1>1, <1>2
<1>4. ~Placed(o)
  BY <1>1, <1>2 DEF IInv, QueueInv, Leaves
<1>5. \A k \in 2..Len(Registration) : ~Of(k, o)
  <2> SUFFICES ASSUME NEW k \in 2..Len(Registration), Of(k, o) PROVE FALSE
    OBVIOUS
  <2>1. \A l \in 2..Len(Registration) : ~(Op(l, "unregister") /\ Of(l, o))
    BY <1>2 DEF Pairs, Op, Of
  <2>2. Op(k, "register")
    BY <1>1, <2>1, EntryTypes DEF IInv
  <2>3. PICK l \in 2..(k-1) : Op(l, "unregister") /\ Of(l, o)
    BY <1>1, <1>2, <2>2 DEF IInv, QueueInv, Alternates
  <2> QED
    BY <1>1, <2>1, <2>3
<1>6. b_RT[o] = r.rt /\ b_RT' = b_RT
  <2>1. b_RT[o] = r.rt
    BY <1>1, <1>2, <1>5 DEF IInv, QueueInv, LastSays
  <2> QED
    BY <1>3, <2>1 DEF IInv, TypeOK
<1>7. /\ ItemsRT' \in Seq(Objects) /\ NoRepeat(ItemsRT')
      /\ Listed(ItemsRT') = IF r.rt THEN Listed(ItemsRT) \cup {o} ELSE Listed(ItemsRT)
  <2>1. ItemsRT \in Seq(Objects) /\ NoRepeat(ItemsRT) /\ o \notin Listed(ItemsRT)
    BY <1>4 DEF IInv, TypeOK, Single, Placed
  <2>2. /\ Append(ItemsRT, o) \in Seq(Objects) /\ NoRepeat(Append(ItemsRT, o))
        /\ Listed(Append(ItemsRT, o)) = Listed(ItemsRT) \cup {o}
    BY <2>1, AppendListed
  <2> QED
    BY <1>3, <2>1, <2>2
<1> DEFINE x == [obj |-> o, due |-> 0]
<1>8. x \in Item /\ x.obj = o
  BY DEF Item
<1>9. Items' = IF r.rt THEN Items ELSE Items \cup {x}
  BY <1>3
<1> HIDE DEF x
<1>10. TypeOK'
  BY <1>1, <1>6, <1>7, <1>8, <1>9 DEF IInv, TypeOK
<1>11. Callers' /\ Settling' /\ ItemsProcessed = {}
  BY DEF IInv, Single, Callers, Calling, Settling, m_processing_now
<1>12. Single'
  <2>1. \A y \in Items : y.obj # o
    BY <1>4 DEF Placed, Entries
  <2>2. ~(\E p : InStep(p)')
    BY DEF InStep
  <2> QED
    BY <1>4, <1>7, <1>8, <1>9, <1>11, <2>1, <2>2 DEF IInv, Single, Placed
<1>13. ASSUME NEW p \in Objects \ {o}
       PROVE  (Placed(p)' <=> Placed(p)) /\ (p \in Listed(ItemsRT)' <=> p \in Listed(ItemsRT))
  <2>1. Entries(p)' = {} <=> Entries(p) = {}
    BY <1>8, <1>9 DEF Entries
  <2> QED
    BY <1>7, <2>1 DEF Placed, InStep
<1>14. Placed(o)' /\ r.rt = (o \in Listed(ItemsRT)')
  <2>1. r.rt = (o \in Listed(ItemsRT)')
    BY <1>2, <1>4, <1>7 DEF Placed
  <2>2. ~r.rt => Entries(o)' # {}
    BY <1>8, <1>9 DEF Entries
  <2> QED
    BY <1>2, <2>1, <2>2 DEF Placed
<1>15. QueueInv'
  BY <1>1, <1>2, <1>6, <1>13, <1>14, QueueInvShrinks
<1> QED
  BY <1>10, <1>11, <1>12, <1>15 DEF IInv

\* internal_Unregister: the entry names the list that the object is in.
LEMMA KeepsUnregisterItem == IInv /\ UnregisterItem => IInv'
<1> SUFFICES ASSUME IInv, UnregisterItem PROVE IInv'
  OBVIOUS
<1> USE DEF UnregisterItem, Registering, objects
<1>1. /\ Registration' \in Seq(Reg) /\ Len(Registration) \in Nat \ {0}
      /\ Head(Registration) = Registration[1]
  BY TailEntries DEF IInv, TypeOK
<1> PICK r : r = Registration[1]
  OBVIOUS
<1> PICK o \in Objects : o = Registration[1].obj
  BY <1>1, EntryTypes DEF IInv
<1>2. r.obj = o /\ r.rt \in BOOLEAN /\ Of(1, o) /\ Op(1, "unregister") /\ ~Op(1, "register")
  BY <1>1, EntryTypes DEF IInv, Of, Op
<1>3. Placed(o) => r.rt = (o \in Listed(ItemsRT))
  BY <1>1, <1>2 DEF IInv, QueueInv, FirstNames
<1>4. ItemsProcessed = {} /\ ~InStep(o) /\ internal_Unregister(o, r.rt)
  BY <1>1, <1>2 DEF IInv, Single, InStep
<1>5. /\ ItemsRT' \in Seq(Objects) /\ Items' \subseteq Item
      /\ Single' /\ ~Placed(o)'
      /\ \A p \in Objects \ {o} : /\ Placed(p)' <=> Placed(p)
                                  /\ p \in Listed(ItemsRT') <=> p \in Listed(ItemsRT)
  BY <1>2, <1>3, <1>4, Unregistering DEF IInv
<1>6. TypeOK'
  BY <1>1, <1>5 DEF IInv, TypeOK
<1>7. Callers' /\ Settling'
  BY DEF IInv, Callers, Calling, Settling, m_processing_now
<1>8. QueueInv'
  BY <1>2, <1>5, QueueInvShrinks
<1> QED
  BY <1>5, <1>6, <1>7, <1>8 DEF IInv

\* A registration and the first unregistration behind it go together: nothing
\* that is queued for the object lies between them.
LEMMA KeepsRegisterPaired == IInv /\ RegisterPaired => IInv'
<1> SUFFICES ASSUME IInv, RegisterPaired PROVE IInv'
  OBVIOUS
<1> USE DEF RegisterPaired, Registering, lists, objects
<1> PICK n \in Nat : n = Len(Registration)
  BY EntryTypes DEF IInv
<1>1. n > 0 /\ Head(Registration) = Registration[1] /\ Registration \in Seq(Reg)
  BY TailEntries DEF IInv, TypeOK
<1> PICK o \in Objects : o = Registration[1].obj
  BY <1>1, EntryTypes DEF IInv
<1>2. Of(1, o) /\ Op(1, "register") /\ Pairs(o) # {}
  BY <1>1 DEF Op, Of
<1> PICK k : k = FirstPair(o)
  OBVIOUS
<1>3. k \in Pairs(o) /\ \A l \in Pairs(o) : k <= l
  <2>1. Pairs(o) \in SUBSET Nat
    BY DEF Pairs
  <2>2. \E m \in Pairs(o) : \A l \in Pairs(o) : m <= l
    BY <1>2, <2>1, LeastIndex
  <2> QED
    BY <2>2 DEF FirstPair
<1>4. /\ k \in 2..n /\ Op(k, "unregister") /\ Of(k, o)
      /\ \A l \in 2..n : Op(l, "unregister") /\ Of(l, o) => k <= l
  BY <1>3 DEF Pairs, Op, Of
<1>5. Registration' = Tail(EraseAt(Registration, k))
  BY <1>1
<1>6. /\ Registration' \in Seq(Reg) /\ Len(Registration') = n - 2
      /\ \A i \in 1..(n-2) : Registration'[i] = IF i + 1 < k THEN Registration[i+1] ELSE Registration[i+2]
  BY <1>1, <1>4, <1>5, PairEntries
<1>7. TypeOK'
  BY <1>6 DEF IInv, TypeOK
<1>8. Callers' /\ Settling' /\ Single'
  BY DEF IInv, Callers, Calling, Settling, m_processing_now, Single, InStep
<1>9. \A p \in Objects : Placed(p)' <=> Placed(p)
  BY DEF Placed, Entries, InStep
<1>10. ~Placed(o)
  BY <1>1, <1>2 DEF IInv, QueueInv, Leaves
<1>11. ASSUME NEW l \in 2..(k-1), Of(l, o) PROVE FALSE
  <2>1. \A m \in 2..(k-1) : ~(Op(m, "unregister") /\ Of(m, o))
    BY <1>4
  <2>2. Op(l, "register") /\ l \in 1..n
    BY <1>4, <1>11, <2>1, EntryTypes DEF IInv
  <2>3. PICK m \in 2..(l-1) : Op(m, "unregister") /\ Of(m, o)
    BY <1>1, <1>2, <1>11, <2>2 DEF IInv, QueueInv, Alternates
  <2> QED
    BY <1>4, <2>1, <2>3
\* Where an entry comes from, and where one goes that stays.
<1> DEFINE old(i) == IF i + 1 < k THEN i + 1 ELSE i + 2
           new(l) == IF l < k THEN l - 1 ELSE l - 2
<1>12. \A i \in 1..(n-2) : /\ old(i) \in 2..n /\ old(i) # k
                           /\ Registration'[i] = Registration[old(i)]
                           /\ \A e : (Op(i, e)' <=> Op(old(i), e)) /\ (Of(i, e)' <=> Of(old(i), e))
  BY <1>4, <1>6 DEF Op, Of
<1>13. \A l \in 2..n : l # k => new(l) \in 1..(n-2) /\ old(new(l)) = l
  BY <1>4
<1>14. /\ \A i, j \in 1..(n-2) : i < j <=> old(i) < old(j)
       /\ \A i \in 1..(n-2) : \A l \in 2..n : l # k =>
            /\ l < old(i) <=> new(l) < i
            /\ old(i) < l <=> i < new(l)
  BY <1>4
<1> HIDE DEF old, new
<1>15. \A p \in Objects \ {o} : ~Of(1, p) /\ ~Of(k, p)
  BY <1>2, <1>4 DEF Of
<1>16. ASSUME NEW p \in Objects, NEW i \in 1..(n-2), NEW j \in 1..(n-2), i < j,
              Op(i, "register")', Of(i, p)', Op(j, "register")', Of(j, p)'
       PROVE  \E l \in (i+1)..(j-1) : Op(l, "unregister")' /\ Of(l, p)'
  <2>1. /\ old(i) \in 2..n /\ old(j) \in 2..n /\ old(i) < old(j)
        /\ Op(old(i), "register") /\ Of(old(i), p) /\ Op(old(j), "register") /\ Of(old(j), p)
    BY <1>12, <1>14, <1>16
  <2>2. old(i) \in 1..n /\ old(j) \in 1..n
    BY <2>1
  <2>3. PICK l \in (old(i)+1)..(old(j)-1) : Op(l, "unregister") /\ Of(l, p)
    BY <2>1, <2>2 DEF IInv, QueueInv, Alternates
  <2>4. l \in 2..n /\ old(i) < l /\ l < old(j)
    BY <2>1, <2>3
  <2>5. l # k
    <3> SUFFICES ASSUME l = k PROVE FALSE
      OBVIOUS
    <3>1. p = o
      BY <1>4, <2>3 DEF Of
    <3>2. old(i) \in 2..(k-1)
      BY <2>1, <2>4
    <3> QED
      BY <1>11, <2>1, <3>1, <3>2
  <2>6. new(l) \in 1..(n-2) /\ old(new(l)) = l /\ i < new(l) /\ new(l) < j
    BY <1>13, <1>14, <2>4, <2>5
  <2>7. Op(new(l), "unregister")' /\ Of(new(l), p)'
    BY <1>12, <2>3, <2>6
  <2>8. new(l) \in (i+1)..(j-1)
    BY <2>6
  <2> QED
    BY <2>7, <2>8
<1>17. Alternates'
  BY <1>6, <1>16 DEF Alternates
<1>18. ASSUME NEW p \in Objects, Placed(p), NEW i \in 1..(n-2), Op(i, "register")', Of(i, p)'
       PROVE  \E l \in 1..(i-1) : Op(l, "unregister")' /\ Of(l, p)'
  <2>1. p # o /\ old(i) \in 1..n /\ Op(old(i), "register") /\ Of(old(i), p)
    BY <1>10, <1>12, <1>18
  <2>2. PICK l \in 1..(old(i)-1) : Op(l, "unregister") /\ Of(l, p)
    BY <1>18, <2>1 DEF IInv, QueueInv, Leaves
  <2>3. l # 1 /\ l # k
    BY <1>15, <2>1, <2>2
  <2>4. l \in 2..n /\ l < old(i)
    BY <2>1, <2>2, <2>3
  <2>5. new(l) \in 1..(n-2) /\ old(new(l)) = l /\ new(l) < i
    BY <1>13, <1>14, <2>3, <2>4
  <2>6. Op(new(l), "unregister")' /\ Of(new(l), p)'
    BY <1>12, <2>2, <2>5
  <2>7. new(l) \in 1..(i-1)
    BY <2>5
  <2> QED
    BY <2>6, <2>7
<1>19. Leaves'
  BY <1>6, <1>9, <1>18 DEF Leaves
<1>20. ASSUME NEW p \in Objects, Placed(p), NEW i \in 1..(n-2), Of(i, p)',
              \A l \in 1..(i-1) : ~Of(l, p)'
       PROVE  Registration'[i].rt = (p \in Listed(ItemsRT))
  <2>1. p # o /\ old(i) \in 1..n /\ Of(old(i), p)
    BY <1>10, <1>12, <1>20
  <2>2. ASSUME NEW l \in 1..(old(i)-1), Of(l, p) PROVE FALSE
    <3>1. l # 1 /\ l # k
      BY <1>15, <2>1, <2>2
    <3>2. l \in 2..n /\ l < old(i)
      BY <2>1, <3>1
    <3>3. new(l) \in 1..(n-2) /\ old(new(l)) = l /\ new(l) < i
      BY <1>13, <1>14, <3>1, <3>2
    <3>4. Of(new(l), p)'
      BY <1>12, <2>2, <3>3
    <3>5. new(l) \in 1..(i-1)
      BY <3>3
    <3> QED
      BY <1>20, <3>4, <3>5
  <2>3. Registration[old(i)].rt = (p \in Listed(ItemsRT))
    BY <1>20, <2>1, <2>2 DEF IInv, QueueInv, FirstNames
  <2> QED
    BY <1>12, <2>3
<1>21. FirstNames'
  BY <1>6, <1>9, <1>20 DEF FirstNames
<1>22. ASSUME NEW p \in Objects, NEW i \in 1..(n-2), Of(i, p)',
              \A l \in (i+1)..(n-2) : ~Of(l, p)'
       PROVE  /\ Op(i, "register")' <=> p \in registered
              /\ Op(i, "register")' => b_RT[p] = Registration'[i].rt
  <2>1. old(i) \in 2..n /\ old(i) \in 1..n /\ Of(old(i), p) /\ old(i) # k
    BY <1>12, <1>22
  <2>2. ASSUME NEW l \in (old(i)+1)..n, Of(l, p) PROVE FALSE
    <3>1. l \in 2..n /\ old(i) < l
      BY <2>1
    <3>2. l # k
      <4> SUFFICES ASSUME l = k PROVE FALSE
        OBVIOUS
      <4>1. p = o /\ old(i) \in 2..(k-1)
        BY <1>4, <2>1, <2>2, <3>1 DEF Of
      <4> QED
        BY <1>11, <2>1, <4>1
    <3>3. new(l) \in 1..(n-2) /\ old(new(l)) = l /\ i < new(l)
      BY <1>13, <1>14, <3>1, <3>2
    <3>4. Of(new(l), p)' /\ new(l) \in (i+1)..(n-2)
      BY <1>12, <2>2, <3>3
    <3> QED
      BY <1>22, <3>4
  <2>3. /\ Op(old(i), "register") <=> p \in registered
        /\ Op(old(i), "register") => b_RT[p] = Registration[old(i)].rt
    BY <2>1, <2>2 DEF IInv, QueueInv, LastSays
  <2> QED
    BY <1>12, <2>3
<1>23. LastSays'
  BY <1>6, <1>22 DEF LastSays
<1>24. ASSUME NEW p \in Objects, Queued(p)' = {}
       PROVE  /\ Placed(p) => p \in registered /\ b_RT[p] = (p \in Listed(ItemsRT))
              /\ p \in registered \ destroying => Placed(p)
  <2>1. \A i \in 1..(n-2) : ~Of(i, p)'
    BY <1>6, <1>24 DEF Queued, Of
  <2>2. \A l \in 2..n : l # k => ~Of(l, p)
    BY <1>12, <1>13, <2>1
  <2>3. CASE p # o
    <3>1. Queued(p) = {}
      BY <1>1, <1>15, <2>2, <2>3 DEF Queued, Of
    <3> QED
      BY <3>1 DEF IInv, QueueInv, PlaceSays
  <2>4. CASE p = o
    <3>1. ~Op(k, "register") /\ k \in 1..n /\ \A l \in (k+1)..n : ~Of(l, o)
      BY <1>4, <2>2, <2>4 DEF Op
    <3>2. o \notin registered
      BY <1>4, <3>1 DEF IInv, QueueInv, LastSays
    <3> QED
      BY <1>10, <2>4, <3>2
  <2> QED
    BY <2>3, <2>4
<1>25. PlaceSays'
  BY <1>9, <1>24 DEF PlaceSays
<1> QED
  BY <1>7, <1>8, <1>17, <1>19, <1>21, <1>23, <1>25 DEF IInv, QueueInv
------------------------------------------------------------------------------
(* The theorems.                                                            *)

\* What the scheduler's lists, its queue and the objects' flags keep between
\* them, at every moment of Update and of the calls into the game: every other
\* theorem of this module follows from it.
THEOREM InductiveInvariant == Spec => []IInv
<1>1. Init => IInv
  BY StartsAgreed
<1>2. IInv /\ [Next]_vars => IInv'
  <2>1. ASSUME IInv, UNCHANGED vars PROVE IInv'
    <3> USE DEF vars, lists, objects
    <3>1. TypeOK' /\ Callers' /\ Single' /\ Settling'
      BY <2>1 DEF IInv, TypeOK, Callers, Calling, Single, InStep, Settling, m_processing_now, Queued
    <3>2. \A o \in Objects : Placed(o)' <=> Placed(o)
      BY <2>1 DEF Placed, Entries, InStep
    <3>3. QueueInv'
      BY <2>1, <3>1, <3>2, QueueInvStays
    <3> QED
      BY <3>1, <3>3 DEF IInv
  <2>2. ASSUME IInv, Update PROVE IInv'
    BY <2>2, KeepsBeginUpdate, KeepsRegisterPaired, KeepsRegisterItem, KeepsUnregisterItem,
       KeepsEndRegistration, KeepsRT, KeepsStepDrop, KeepsStepCall, KeepsStepReturn,
       KeepsStepDone DEF Update
  <2>3. ASSUME IInv, Interface PROVE IInv'
    BY <2>3, KeepsConstruct, KeepsRegister, KeepsUnregister, KeepsDelete, KeepsSetDestroy
       DEF Interface
  <2> QED
    BY <2>1, <2>2, <2>3 DEF Next
<1> QED
  BY <1>1, <1>2, PTL DEF Spec

\* CSheduler::Registered, which Register and Unregister assert, tells the truth:
\* the lists and the queue together hold exactly the objects that asked to be
\* registered.
THEOREM AlwaysRegisteredAgrees == Spec => []RegisteredAgrees
<1>1. IInv => RegisteredAgrees
  <2> SUFFICES ASSUME IInv, NEW o \in Objects
               PROVE  /\ o \in registered \ destroying => Settled(o)
                      /\ Settled(o) => o \in registered
    BY DEF RegisteredAgrees
  <2>1. CASE Queued(o) = {}
    BY <2>1 DEF IInv, QueueInv, PlaceSays, Settled
  <2>2. CASE Queued(o) # {}
    <3>1. PICK m \in Queued(o) : /\ \A l \in Queued(o) : l <= m
                                 /\ Op(m, "register") <=> o \in registered
      BY <2>2, LastEntry
    <3> PICK last : last = CHOOSE k \in Queued(o) : \A l \in Queued(o) : l <= k
      OBVIOUS
    <3>2. last \in Queued(o) /\ \A l \in Queued(o) : l <= last
      BY <3>1
    <3>3. last = m
      BY <3>1, <3>2, EntryTypes DEF IInv, Queued
    <3>4. Settled(o) <=> Op(last, "register")
      BY <2>2 DEF Settled, Op
    <3> QED
      BY <3>1, <3>3, <3>4
  <2> QED
    BY <2>1, <2>2
<1> QED
  BY <1>1, InductiveInvariant, PTL

\* An object is in one list at most, and in the one its b_RT names, by which a
\* later Unregister will look for it.
THEOREM AlwaysOnePlace == Spec => []OnePlace
<1>1. IInv => OnePlace
  <2> SUFFICES ASSUME IInv, NEW o \in Objects
               PROVE  /\ Cardinality(Entries(o)) <= 1 /\ NoRepeat(ItemsRT)
                      /\ Placed(o) /\ Queued(o) = {} => b_RT[o] = (o \in Listed(ItemsRT))
                      /\ ~ (Entries(o) # {} /\ (o \in Listed(ItemsRT) \/ InStep(o)))
    BY DEF OnePlace
  <2>1. o # Null
    OBVIOUS
  <2>2. \A x, y \in Entries(o) : x = y
    BY <2>1 DEF IInv, Single, Entries
  <2>3. Cardinality(Entries(o)) <= 1
    <3>1. CASE Entries(o) = {}
      BY <3>1, FS_EmptySet
    <3>2. CASE Entries(o) # {}
      <4> PICK x : x \in Entries(o)
        BY <3>2
      <4>1. Entries(o) = {x}
        BY <2>2
      <4>2. Cardinality({x}) = 1
        BY FS_Singleton
      <4> QED
        BY <4>1, <4>2
    <3> QED
      BY <3>1, <3>2
  <2>4. ~ (Entries(o) # {} /\ (o \in Listed(ItemsRT) \/ InStep(o)))
    BY <2>1 DEF IInv, Single, Entries
  <2> QED
    BY <2>3, <2>4 DEF IInv, Single, QueueInv, PlaceSays
<1> QED
  BY <1>1, InductiveInvariant, PTL

\* No object is touched after its destructor: whom the loops call or ask, and
\* whom internal_Register asks, is alive, though pointers to the dead may linger
\* in the queue and in the processed items.
THEOREM AlwaysNoDangling == Spec => []NoDangling
<1>1. IInv => NoDangling
  <2> SUFFICES ASSUME IInv PROVE NoDangling
    OBVIOUS
  <2>1. registered \subseteq alive
    BY DEF IInv, TypeOK
  <2>2. \A o \in Objects : Placed(o) /\ Queued(o) = {} => o \in registered
    BY DEF IInv, QueueInv, PlaceSays
  <2>3. Calling => current \in alive
    BY <2>1 DEF IInv, Callers
  <2>4. ASSUME pc = "rt", it <= Len(ItemsRT) PROVE ItemsRT[it] \in alive
    <3>1. ItemsRT \in Seq(Objects) /\ it \in 1..Len(ItemsRT)
      BY <2>4 DEF IInv, TypeOK, Callers
    <3>2. ItemsRT[it] \in Listed(ItemsRT) /\ ItemsRT[it] \in Objects
      BY <3>1 DEF Listed
    <3>3. Queued(ItemsRT[it]) = {} /\ Placed(ItemsRT[it])
      BY <2>4, <3>2 DEF IInv, Settling, m_processing_now, Placed
    <3> QED
      BY <2>1, <2>2, <3>2, <3>3
  <2>5. ASSUME pc = "step", NEW x \in Items, x.obj # Null PROVE x.obj \in alive
    <3>1. x.obj \in Objects
      BY <2>5 DEF IInv, TypeOK, Item
    <3>2. Queued(x.obj) = {} /\ Placed(x.obj)
      BY <2>5 DEF IInv, Settling, m_processing_now, Placed, Entries
    <3> QED
      BY <2>1, <2>2, <3>1, <3>2
  <2>6. ASSUME Registration # <<>>, Head(Registration).op = "register",
               Pairs(Head(Registration).obj) = {}
        PROVE  Head(Registration).obj \in alive
    <3> PICK n \in Nat : n = Len(Registration)
      BY EntryTypes DEF IInv
    <3>1. n > 0 /\ Head(Registration) = Registration[1]
      BY <2>6, TailEntries DEF IInv, TypeOK
    <3> PICK o \in Objects : o = Registration[1].obj
      BY <3>1, EntryTypes DEF IInv
    <3>2. Of(1, o) /\ Op(1, "register")
      BY <2>6, <3>1 DEF Of, Op
    <3>3. \A l \in 2..n : ~(Op(l, "unregister") /\ Of(l, o))
      BY <2>6, <3>1 DEF Pairs, Op, Of
    <3>4. ASSUME NEW l \in 2..n, Of(l, o) PROVE FALSE
      <4>1. Op(l, "register")
        BY <3>3, <3>4, EntryTypes DEF IInv
      <4>2. PICK m \in 2..(l-1) : Op(m, "unregister") /\ Of(m, o)
        BY <3>1, <3>2, <3>4, <4>1 DEF IInv, QueueInv, Alternates
      <4> QED
        BY <3>3, <4>2
    <3>5. o \in registered
      BY <3>1, <3>2, <3>4 DEF IInv, QueueInv, LastSays
    <3> QED
      BY <2>1, <3>1, <3>5
  <2> QED
    BY <2>3, <2>4, <2>5, <2>6 DEF NoDangling
<1> QED
  BY <1>1, InductiveInvariant, PTL
------------------------------------------------------------------------------
(* How late an item can be.  Nothing bounds how many items are late at the   *)
(* same time, since objects that come and go leave tombstones; that is       *)
(* stated as a condition, K.  An item that comes in is due at the earliest   *)
(* now, hence nobody overtakes one that is late; and a step ends before all  *)
(* that are late had their turn only after Turns turns, each of which took   *)
(* an item from before those that it leaves.  So an item that was left       *)
(* waiting by j steps has had j * Turns of the K before it taken away.       *)

\* The items whose time has come, and those that are before an item due at d.
Late     == {x \in Items : x.due < 0}
Ahead(d) == {x \in Items : x.due <= d}

\* No more than K items are late at the same time.
LoadWithin(K) == Cardinality(Late) <= K

\* The turns that this Update's step has taken; after it, the fewest that a step
\* takes which leaves an item late.
TurnsTaken ==
  IF pc \in {"out", "registration_end"} THEN Turns
  ELSE IF pc = "step" THEN it
  ELSE IF pc = "step_call" THEN it + 1
  ELSE 0

\* x has been left waiting by j steps: each took Turns items from before it.
Waited(K, D, x, j) ==
  /\ x.due >= 0 - (j + 1) * D
  /\ Cardinality(Ahead(x.due)) + TurnsTaken + j * Turns <= K

\* Whoever is late has waited for as many steps as its lateness shows, at D a
\* frame, and has fewer before it for each.  (The rest is what the step's end
\* needs: what goes back on the heap is not late.)
Patience(K, D) ==
  /\ IsFiniteSet(Items) /\ IsFiniteSet(ItemsProcessed)
  /\ \A x \in ItemsProcessed : x.due > 0
  /\ \A x \in Late : \E j \in Nat : Waited(K, D, x, j)

\* A set is at least as large as what a function makes of it.
LEMMA ImageBound ==
  ASSUME NEW S, IsFiniteSet(S), NEW f, NEW T, T \subseteq {f[x] : x \in S}
  PROVE  IsFiniteSet(T) /\ Cardinality(T) <= Cardinality(S)
<1> DEFINE R == {f[x] : x \in S}
           g == [x \in S |-> f[x]]
<1>1. g \in Surjection(S, R)
  BY DEF Surjection
<1>2. IsFiniteSet(R) /\ Cardinality(R) <= Cardinality(S)
  BY <1>1, FS_Surjection
<1>3. IsFiniteSet(T) /\ Cardinality(T) <= Cardinality(R)
  BY <1>2, FS_Subset
<1> QED BY <1>2, <1>3, FS_CardinalityType

\* A step that brings no item before one that is late, and takes as many from
\* before it as it takes turns, keeps who waits patient.
LEMMA PatienceKept ==
  ASSUME NEW K \in Nat, NEW D \in Nat, Patience(K, D), Turns \in Nat, TurnsTaken \in Nat,
         TurnsTaken' \in Nat, IsFiniteSet(Items'), Items' \subseteq Item,
         IsFiniteSet(ItemsProcessed'), \A x \in ItemsProcessed' : x.due > 0,
         \A y \in Late' :
           \E x \in Late : /\ x.due = y.due
                           /\ Cardinality(Ahead(y.due))' + TurnsTaken'
                                <= Cardinality(Ahead(x.due)) + TurnsTaken
  PROVE  Patience(K, D)'
<1> SUFFICES ASSUME NEW y \in Late' PROVE \E j \in Nat : Waited(K, D, y, j)'
  BY DEF Patience
<1>1. PICK x \in Late : /\ x.due = y.due
                        /\ Cardinality(Ahead(y.due))' + TurnsTaken'
                             <= Cardinality(Ahead(x.due)) + TurnsTaken
  OBVIOUS
<1>2. PICK j \in Nat : Waited(K, D, x, j)
  BY DEF Patience
<1>3. IsFiniteSet(Items)
  BY DEF Patience
<1>4. /\ Cardinality(Ahead(x.due)) \in Nat
      /\ Cardinality(Ahead(y.due))' \in Nat
  <2>1. Ahead(x.due) \subseteq Items /\ Ahead(y.due)' \subseteq Items'
    BY DEF Ahead
  <2> QED BY <1>3, <2>1, FS_Subset, FS_CardinalityType
<1>5. j * Turns \in Nat
  OBVIOUS
<1>6. Cardinality(Ahead(y.due))' + TurnsTaken' + j * Turns <= K
  <2>1. Cardinality(Ahead(x.due)) + TurnsTaken + j * Turns <= K
    BY <1>2 DEF Waited
  <2>2. PICK p, q, r, s, u \in Nat :
          /\ p = Cardinality(Ahead(x.due)) /\ q = TurnsTaken
          /\ r = Cardinality(Ahead(y.due))' /\ s = TurnsTaken' /\ u = j * Turns
    BY <1>4, <1>5
  <2>3. p + q + u <= K /\ r + s <= p + q
    BY <1>1, <2>1, <2>2
  <2>4. r + s + u <= K
    BY <2>3
  <2> QED BY <2>2, <2>4
<1>7. y.due >= 0 - (j + 1) * D
  BY <1>1, <1>2 DEF Waited
<1>8. Waited(K, D, y, j)'
  BY <1>6, <1>7 DEF Waited
<1> QED BY <1>8

\* What a turn takes from the heap was before all that are late and stay.
LEMMA TurnTakes ==
  ASSUME Items \subseteq Item, IsFiniteSet(Items), NEW x, IsTop(x), Items' = Items \ {x},
         NEW y \in Late'
  PROVE  /\ y \in Late
         /\ Cardinality(Ahead(y.due))' + 1 <= Cardinality(Ahead(y.due))
         /\ Cardinality(Ahead(y.due)) \in Nat
<1>1. y \in Items /\ x \in Items /\ x.due <= y.due /\ y.due < 0
  BY DEF Late, IsTop
<1>2. Ahead(y.due)' = Ahead(y.due) \ {x} /\ x \in Ahead(y.due)
  BY <1>1 DEF Ahead
<1>3. IsFiniteSet(Ahead(y.due))
  <2>1. Ahead(y.due) \subseteq Items
    BY DEF Ahead
  <2> QED BY <2>1, FS_Subset
<1>4. Cardinality(Ahead(y.due) \ {x}) = Cardinality(Ahead(y.due)) - 1
  BY <1>2, <1>3, FS_RemoveElement
<1> QED BY <1>1, <1>2, <1>3, <1>4, FS_CardinalityType DEF Late

\* An item becomes a tombstone where it is.
LEMMA BuriedStays ==
  ASSUME Items \subseteq Item, IsFiniteSet(Items), NEW o, Items' = Buried(o)
  PROVE  /\ IsFiniteSet(Items')
         /\ \A y \in Late' :
              \E x \in Late : /\ x.due = y.due
                              /\ Cardinality(Ahead(y.due))' <= Cardinality(Ahead(x.due))
<1> DEFINE f == [x \in Items |-> IF x.obj = o THEN [x EXCEPT !.obj = Null] ELSE x]
<1>1. /\ Items' = {f[x] : x \in Items}
      /\ \A x \in Items : f[x].due = x.due
  BY DEF Buried, Item
<1>2. IsFiniteSet(Items')
  BY <1>1, ImageBound
<1>3. ASSUME NEW y \in Late'
      PROVE  \E x \in Late : /\ x.due = y.due
                             /\ Cardinality(Ahead(y.due))' <= Cardinality(Ahead(x.due))
  <2>1. PICK x \in Items : y = f[x]
    BY <1>1 DEF Late
  <2>2. x.due = y.due /\ x \in Late
    BY <1>1, <2>1 DEF Late
  <2>3. Ahead(y.due)' \subseteq {f[z] : z \in Ahead(y.due)}
    <3> SUFFICES ASSUME NEW v \in Ahead(y.due)' PROVE \E z \in Ahead(y.due) : v = f[z]
      OBVIOUS
    <3> HIDE DEF f
    <3>1. v \in Items' /\ v.due <= y.due
      BY DEF Ahead
    <3>2. PICK z \in Items : v = f[z]
      BY <1>1, <3>1
    <3>3. z \in Ahead(y.due)
      BY <1>1, <3>1, <3>2 DEF Ahead
    <3> QED BY <3>2, <3>3
  <2>4. IsFiniteSet(Ahead(y.due))
    <3>1. Ahead(y.due) \subseteq Items
      BY DEF Ahead
    <3> QED BY <3>1, FS_Subset
  <2>5. Cardinality(Ahead(y.due)') <= Cardinality(Ahead(y.due))
    <3> HIDE DEF f
    <3> QED BY <2>3, <2>4, ImageBound
  <2> QED BY <2>2, <2>5
<1> QED BY <1>2, <1>3

\* Items that are not late come in behind all that are.
LEMMA BehindLate ==
  ASSUME Items \subseteq Item, NEW N, N \subseteq Item, \A x \in N : ~(x.due < 0),
         Items' = Items \cup N
  PROVE  Late' = Late /\ \A y \in Late : Ahead(y.due)' = Ahead(y.due)
<1>1. Late' = Late
  BY DEF Late
<1>2. ASSUME NEW y \in Late PROVE Ahead(y.due)' = Ahead(y.due)
  <2>1. y.due < 0 /\ y.due \in Int
    BY DEF Late, Item
  <2>2. \A x \in N : x.due \in Int /\ ~(x.due <= y.due)
    BY <2>1 DEF Item
  <2> QED BY <2>2 DEF Ahead
<1> QED BY <1>1, <1>2

\* No step can leave so many items before a late one that it waits for Lag.
Bounded(K, D) == \A j \in Nat : j * Turns < K => (j + 1) * D < Lag

\* Time passes: who was left waiting is left for one step more, and whoever is
\* late for the first time has at most K with it.
LEMMA TimePasses ==
  ASSUME NEW K \in Nat \ {0}, NEW D \in Nat, \A d \in Deltas : d <= D, Bounded(K, D),
         TypeOK, Patience(K, D), LoadWithin(K)', BeginUpdate
  PROVE  Patience(K, D)'
<1>1. /\ Items \subseteq Item /\ Deltas \subseteq Nat \ {0} /\ Lag \in Nat /\ Turns \in Nat \ {0}
      /\ IsFiniteSet(Items) /\ pc = "out" /\ pc' = "registration"
      /\ ItemsProcessed' = ItemsProcessed
  BY ShedulerAssumption DEF TypeOK, Patience, BeginUpdate
<1>2. PICK d \in Deltas : Items' = Later(d)
  BY DEF BeginUpdate
<1> DEFINE f == [x \in Items |->
                   [x EXCEPT !.due = IF @ - d < 0-Lag THEN 0-Lag ELSE @ - d]]
<1>3. /\ Items' = {f[x] : x \in Items}
      /\ \A x \in Items : f[x].due = IF x.due - d < 0-Lag THEN 0-Lag ELSE x.due - d
  <2>1. Items' = {f[x] : x \in Items}
    BY <1>2 DEF Later
  <2>2. \A x \in Items : f[x].due = IF x.due - d < 0-Lag THEN 0-Lag ELSE x.due - d
    BY <1>1 DEF Item
  <2> QED BY <2>1, <2>2
<1> HIDE DEF f
<1>4. IsFiniteSet(Items')
  BY <1>1, <1>3, ImageBound
<1>5. TurnsTaken = Turns /\ TurnsTaken' = 0
  BY <1>1 DEF TurnsTaken
<1>6. D < Lag
  <2>1. 0 * Turns < K => (0 + 1) * D < Lag
    BY DEF Bounded
  <2> QED BY <1>1, <2>1
<1>7. ASSUME NEW y \in Late' PROVE \E j \in Nat : Waited(K, D, y, j)'
  <2>1. PICK x \in Items : y = f[x]
    BY <1>3 DEF Late
  <2>2. /\ y.due = IF x.due - d < 0-Lag THEN 0-Lag ELSE x.due - d
        /\ x.due \in Int /\ d \in Nat \ {0} /\ d <= D /\ y.due < 0
    BY <1>1, <1>3, <2>1 DEF Item, Late
  <2>3. CASE x.due >= 0
    <3>1. y.due \in Int /\ y.due >= 0 - D
      BY <1>1, <1>6, <2>2, <2>3
    <3>2. Ahead(y.due)' \subseteq Late' /\ Late' \subseteq Items'
      <4>1. \A z \in Items' : z.due \in Int
        BY <1>1, <1>3, <2>2 DEF Item
      <4> QED BY <2>2, <3>1, <4>1 DEF Ahead, Late
    <3>3. Cardinality(Ahead(y.due))' <= K /\ Cardinality(Ahead(y.due))' \in Nat
      <4>1. IsFiniteSet(Late')
        BY <1>4, <3>2, FS_Subset
      <4>2. /\ Cardinality(Ahead(y.due)') <= Cardinality(Late')
            /\ IsFiniteSet(Ahead(y.due)')
        BY <3>2, <4>1, FS_Subset
      <4>3. Cardinality(Late') <= K
        BY DEF LoadWithin
      <4>4. Cardinality(Ahead(y.due)') \in Nat /\ Cardinality(Late') \in Nat
        BY <4>1, <4>2, FS_CardinalityType
      <4> QED BY <4>2, <4>3, <4>4
    <3>4. Waited(K, D, y, 0)'
      <4>1. (0 + 1) * D = D /\ 0 * Turns = 0
        BY <1>1
      <4> QED BY <1>5, <3>1, <3>3, <4>1 DEF Waited
    <3> QED BY <3>4
  <2>4. CASE x.due < 0
    <3>1. x \in Late
      BY <2>4 DEF Late
    <3>2. PICK j \in Nat : Waited(K, D, x, j)
      BY <3>1 DEF Patience
    <3>3. /\ x.due >= 0 - (j + 1) * D
          /\ Cardinality(Ahead(x.due)) + Turns + j * Turns <= K
      BY <1>5, <3>2 DEF Waited
    <3>4. /\ IsFiniteSet(Ahead(x.due)) /\ Cardinality(Ahead(x.due)) \in Nat \ {0}
      <4>1. Ahead(x.due) \subseteq Items /\ x \in Ahead(x.due)
        BY <2>2 DEF Ahead
      <4>2. IsFiniteSet(Ahead(x.due))
        BY <1>1, <4>1, FS_Subset
      <4> QED BY <4>1, <4>2, FS_CardinalityType, FS_EmptySet
    <3>5. j + 1 \in Nat /\ (j + 1) * Turns = j * Turns + Turns /\ j * Turns \in Nat
      BY <1>1
    <3>6. (j + 1) * Turns < K
      <4> DEFINE c == Cardinality(Ahead(x.due))
                 m == j * Turns
                 n == (j + 1) * Turns
      <4>1. c + Turns + m <= K /\ c \in Nat \ {0} /\ m \in Nat /\ n = m + Turns
        BY <3>3, <3>4, <3>5
      <4> HIDE DEF c, m, n
      <4>2. n < K
        BY <1>1, <4>1
      <4> QED BY <4>2 DEF n
    <3>7. ((j + 1) + 1) * D < Lag
      BY <3>5, <3>6 DEF Bounded
    <3>8. ((j + 1) + 1) * D = (j + 1) * D + D /\ (j + 1) * D \in Nat
      BY <3>5
    <3>9. y.due = x.due - d /\ y.due >= 0 - ((j + 1) + 1) * D
      <4> DEFINE p == (j + 1) * D
                 q == ((j + 1) + 1) * D
      <4>1. x.due >= 0 - p /\ q < Lag /\ q = p + D /\ p \in Nat
        BY <3>3, <3>7, <3>8
      <4> HIDE DEF p, q
      <4>2. y.due = x.due - d /\ y.due >= 0 - q
        BY <1>1, <2>2, <4>1
      <4> QED BY <4>2 DEF q
    <3>10. Ahead(y.due)' \subseteq {f[z] : z \in Ahead(x.due)}
      <4> SUFFICES ASSUME NEW v \in Ahead(y.due)' PROVE \E z \in Ahead(x.due) : v = f[z]
        OBVIOUS
      <4>1. v \in Items' /\ v.due <= y.due
        BY DEF Ahead
      <4>2. PICK z \in Items : v = f[z]
        BY <1>3, <4>1
      <4>3. z.due \in Int /\ v.due = IF z.due - d < 0-Lag THEN 0-Lag ELSE z.due - d
        BY <1>1, <1>3, <4>2 DEF Item
      <4>4. z.due <= x.due
        BY <1>1, <2>2, <3>9, <4>1, <4>3
      <4> QED BY <4>2, <4>4 DEF Ahead
    <3>11. /\ Cardinality(Ahead(y.due)') <= Cardinality(Ahead(x.due))
           /\ Cardinality(Ahead(y.due)') \in Nat
      BY <3>4, <3>10, ImageBound, FS_CardinalityType
    <3>12. Cardinality(Ahead(y.due))' + TurnsTaken' + (j + 1) * Turns <= K
      <4> DEFINE a == Cardinality(Ahead(y.due)')
                 c == Cardinality(Ahead(x.due))
                 m == j * Turns
                 n == (j + 1) * Turns
      <4>1. c + Turns + m <= K /\ c \in Nat /\ a \in Nat /\ a <= c /\ m \in Nat /\ n = m + Turns
        BY <3>3, <3>4, <3>5, <3>11
      <4> HIDE DEF a, c, m, n
      <4>2. a + 0 + n <= K
        BY <1>1, <4>1
      <4> QED BY <1>5, <4>2 DEF a, n
    <3> QED BY <3>5, <3>9, <3>12 DEF Waited
  <2> QED BY <2>2, <2>3, <2>4
<1> QED BY <1>1, <1>4, <1>7 DEF Patience

\* The heap is left alone, and the count of turns does not go up.
LEMMA PatienceStays ==
  ASSUME NEW K \in Nat, NEW D \in Nat, Patience(K, D), TypeOK, TypeOK',
         Items' = Items, ItemsProcessed' = ItemsProcessed, TurnsTaken' <= TurnsTaken,
         TurnsTaken \in Nat, TurnsTaken' \in Nat
  PROVE  Patience(K, D)'
<1>1. /\ IsFiniteSet(Items') /\ IsFiniteSet(ItemsProcessed') /\ Items' \subseteq Item
      /\ \A x \in ItemsProcessed' : x.due > 0
  BY DEF Patience, TypeOK
<1>2. ASSUME NEW y \in Late'
      PROVE  \E x \in Late : /\ x.due = y.due
                             /\ Cardinality(Ahead(y.due))' + TurnsTaken'
                                  <= Cardinality(Ahead(x.due)) + TurnsTaken
  <2>1. y \in Late /\ Ahead(y.due)' = Ahead(y.due) /\ Ahead(y.due) \subseteq Items
    BY DEF Late, Ahead
  <2>2. Cardinality(Ahead(y.due)) \in Nat
    BY <2>1, FS_Subset, FS_CardinalityType DEF Patience
  <2>3. Cardinality(Ahead(y.due))' = Cardinality(Ahead(y.due))
    BY <2>1
  <2> QED BY <2>1, <2>2, <2>3
<1> QED BY <1>1, <1>2, PatienceKept, ShedulerAssumption

\* An item becomes a tombstone, or none does.
LEMMA PatienceBuries ==
  ASSUME NEW K \in Nat, NEW D \in Nat, Patience(K, D), TypeOK, TypeOK',
         NEW o, Items' \in {Items, Buried(o)}, ItemsProcessed' = ItemsProcessed,
         TurnsTaken' = TurnsTaken, TurnsTaken \in Nat
  PROVE  Patience(K, D)'
<1>1. CASE Items' = Items
  BY <1>1, PatienceStays
<1>2. CASE Items' = Buried(o)
  <2>1. Items \subseteq Item /\ IsFiniteSet(Items)
    BY DEF TypeOK, Patience
  <2>2. /\ IsFiniteSet(Items')
        /\ \A y \in Late' :
             \E x \in Late : /\ x.due = y.due
                             /\ Cardinality(Ahead(y.due))' <= Cardinality(Ahead(x.due))
    BY <1>2, <2>1, BuriedStays
  <2>3. ASSUME NEW y \in Late'
        PROVE  \E x \in Late : /\ x.due = y.due
                               /\ Cardinality(Ahead(y.due))' + TurnsTaken'
                                    <= Cardinality(Ahead(x.due)) + TurnsTaken
    <3>1. PICK x \in Late : /\ x.due = y.due
                            /\ Cardinality(Ahead(y.due))' <= Cardinality(Ahead(x.due))
      BY <2>2
    <3>2. Ahead(x.due) \subseteq Items /\ Ahead(y.due)' \subseteq Items'
      BY DEF Ahead
    <3>3. Cardinality(Ahead(x.due)) \in Nat /\ Cardinality(Ahead(y.due))' \in Nat
      BY <2>1, <2>2, <3>2, FS_Subset, FS_CardinalityType
    <3>4. Cardinality(Ahead(y.due))' + TurnsTaken' <= Cardinality(Ahead(x.due)) + TurnsTaken
      BY <3>1, <3>3
    <3> QED BY <3>1, <3>4
  <2>4. /\ IsFiniteSet(ItemsProcessed') /\ Items' \subseteq Item
        /\ \A x \in ItemsProcessed' : x.due > 0
    BY DEF Patience, TypeOK
  <2> QED BY <2>2, <2>3, <2>4, PatienceKept, ShedulerAssumption
<1> QED BY <1>1, <1>2

\* A turn takes the top of the heap.
LEMMA PatienceTakes ==
  ASSUME NEW K \in Nat, NEW D \in Nat, Patience(K, D), TypeOK, TypeOK',
         NEW x, IsTop(x), Items' = Items \ {x}, ItemsProcessed' = ItemsProcessed,
         TurnsTaken' = TurnsTaken + 1, TurnsTaken \in Nat
  PROVE  Patience(K, D)'
<1>1. Items \subseteq Item /\ IsFiniteSet(Items)
  BY DEF TypeOK, Patience
<1>2. ASSUME NEW y \in Late'
      PROVE  \E z \in Late : /\ z.due = y.due
                             /\ Cardinality(Ahead(y.due))' + TurnsTaken'
                                  <= Cardinality(Ahead(z.due)) + TurnsTaken
  <2>1. /\ y \in Late
        /\ Cardinality(Ahead(y.due))' + 1 <= Cardinality(Ahead(y.due))
        /\ Cardinality(Ahead(y.due)) \in Nat
    BY <1>1, TurnTakes
  <2>2. Cardinality(Ahead(y.due))' \in Nat
    <3>1. IsFiniteSet(Items') /\ Ahead(y.due)' \subseteq Items'
      BY <1>1, FS_Subset DEF Ahead
    <3> QED BY <3>1, FS_Subset, FS_CardinalityType
  <2> QED BY <2>1, <2>2
<1>3. /\ IsFiniteSet(Items') /\ IsFiniteSet(ItemsProcessed') /\ Items' \subseteq Item
      /\ \A z \in ItemsProcessed' : z.due > 0
      /\ TurnsTaken' \in Nat
  BY <1>1, FS_Subset DEF Patience, TypeOK
<1> QED BY <1>2, <1>3, PatienceKept, ShedulerAssumption

\* Items come in that are not late.
LEMMA PatienceGrows ==
  ASSUME NEW K \in Nat, NEW D \in Nat, Patience(K, D), TypeOK, TypeOK',
         NEW N, N \subseteq Item, IsFiniteSet(N), \A x \in N : ~(x.due < 0), Items' = Items \cup N,
         IsFiniteSet(ItemsProcessed'), \A x \in ItemsProcessed' : x.due > 0,
         TurnsTaken' <= TurnsTaken, TurnsTaken \in Nat, TurnsTaken' \in Nat
  PROVE  Patience(K, D)'
<1>1. Items \subseteq Item /\ IsFiniteSet(Items) /\ Items' \subseteq Item
  BY DEF TypeOK, Patience
<1>2. Late' = Late /\ \A y \in Late : Ahead(y.due)' = Ahead(y.due)
  BY <1>1, BehindLate
<1>3. IsFiniteSet(Items')
  BY <1>1, FS_Union
<1>4. ASSUME NEW y \in Late'
      PROVE  \E x \in Late : /\ x.due = y.due
                             /\ Cardinality(Ahead(y.due))' + TurnsTaken'
                                  <= Cardinality(Ahead(x.due)) + TurnsTaken
  <2>1. y \in Late /\ Cardinality(Ahead(y.due))' = Cardinality(Ahead(y.due))
    BY <1>2
  <2>2. Ahead(y.due) \subseteq Items
    BY DEF Ahead
  <2>3. Cardinality(Ahead(y.due)) \in Nat
    BY <1>1, <2>2, FS_Subset, FS_CardinalityType
  <2> QED BY <2>1, <2>3
<1> QED BY <1>1, <1>3, <1>4, PatienceKept, ShedulerAssumption

\* What a call returned goes to the processed items; the step goes on, or gives
\* back what it has processed, after at least Turns turns.
LEMMA PatienceReturns ==
  ASSUME NEW K \in Nat, NEW D \in Nat, Patience(K, D), TypeOK, TypeOK', current \in Objects,
         StepReturn
  PROVE  Patience(K, D)'
<1>1. /\ pc = "step_call" /\ it \in Nat /\ Turns \in Nat \ {0} /\ Intervals \subseteq Nat \ {0}
      /\ ItemsProcessed \subseteq Item
  BY ShedulerAssumption DEF StepReturn, TypeOK
<1>2. PICK u \in Intervals :
        LET done == ItemsProcessed \cup {[obj |-> current, due |-> u]}
        IN \/ /\ pc' = "step" /\ it' = it + 1
              /\ ItemsProcessed' = done /\ UNCHANGED Items
           \/ /\ it % Turns = Turns - 1
              /\ Items' = Items \cup done
              /\ EndStep
  BY DEF StepReturn
<1> DEFINE done == ItemsProcessed \cup {[obj |-> current, due |-> u]}
<1>3. TurnsTaken = it + 1
  BY <1>1 DEF TurnsTaken
<1>4. IsFiniteSet(done) /\ done \subseteq Item /\ \A x \in done : x.due > 0 /\ ~(x.due < 0)
  <2>1. IsFiniteSet(ItemsProcessed) /\ \A x \in ItemsProcessed : x.due > 0
    BY DEF Patience
  <2>2. u \in Nat \ {0} /\ [obj |-> current, due |-> u] \in Item
    BY <1>1 DEF Item
  <2>3. IsFiniteSet(done)
    BY <2>1, FS_AddElement
  <2>4. \A x \in ItemsProcessed : x.due \in Int
    BY <1>1 DEF Item
  <2> QED BY <1>1, <2>1, <2>2, <2>3, <2>4
<1> HIDE DEF done
<1>5. CASE pc' = "step" /\ it' = it + 1 /\ ItemsProcessed' = done /\ Items' = Items
  <2>1. TurnsTaken' = it + 1
    BY <1>5 DEF TurnsTaken
  <2>2. Items' = Items \cup {} /\ IsFiniteSet({})
    BY <1>5, FS_EmptySet
  <2>3. \A x \in ItemsProcessed' : x.due > 0
    BY <1>4, <1>5
  <2> QED BY <1>1, <1>3, <1>4, <1>5, <2>1, <2>2, <2>3, PatienceGrows
<1>6. CASE it % Turns = Turns - 1 /\ Items' = Items \cup done /\ EndStep
  <2>1. it >= Turns - 1
    BY <1>1, <1>6
  <2>2. TurnsTaken' = Turns /\ ItemsProcessed' = {}
    BY <1>6 DEF EndStep, TurnsTaken
  <2>3. IsFiniteSet(ItemsProcessed') /\ TurnsTaken' <= TurnsTaken
    BY <1>1, <1>3, <2>1, <2>2, FS_EmptySet
  <2> QED BY <1>1, <1>3, <1>4, <1>6, <2>2, <2>3, PatienceGrows
<1> QED BY <1>2, <1>5, <1>6 DEF done

\* Nobody is late when the step ends by itself.
LEMMA PatienceEnds ==
  ASSUME NEW K \in Nat, NEW D \in Nat, Patience(K, D), TypeOK, TypeOK', StepDone
  PROVE  Patience(K, D)'
<1>1. /\ Items' = Items \cup ItemsProcessed /\ ItemsProcessed' = {}
      /\ \A x \in Items : x.due >= 0
      /\ IsFiniteSet(Items) /\ IsFiniteSet(ItemsProcessed) /\ \A x \in ItemsProcessed : x.due > 0
      /\ Items \subseteq Item /\ ItemsProcessed \subseteq Item
  BY DEF StepDone, EndStep, Patience, TypeOK
<1>2. IsFiniteSet(Items') /\ IsFiniteSet(ItemsProcessed')
  BY <1>1, FS_Union, FS_EmptySet
<1>3. Late' = {}
  BY <1>1 DEF Late, Item
<1> QED BY <1>1, <1>2, <1>3 DEF Patience

\* As long as not more than K items are late, every step keeps who waits patient:
\* of the actions only BeginUpdate makes anyone later, StepDrop and StepCall take
\* from before all others, and the others bring in nobody who is late.
LEMMA PatienceStep ==
  ASSUME NEW K \in Nat \ {0}, NEW D \in Nat, \A d \in Deltas : d <= D, Bounded(K, D),
         IInv, IInv', Patience(K, D), LoadWithin(K)', [Next]_vars
  PROVE  Patience(K, D)'
<1>1. TypeOK /\ TypeOK' /\ it \in Nat /\ it' \in Nat /\ Turns \in Nat \ {0} /\ K \in Nat
  BY ShedulerAssumption DEF IInv, TypeOK
<1>2. TurnsTaken \in Nat /\ TurnsTaken' \in Nat
  <2>1. Turns \in Nat /\ it + 1 \in Nat /\ 0 \in Nat
    BY <1>1
  <2>5. \A n \in Nat : n + 1 \in Nat
    OBVIOUS
  <2>2. TurnsTaken \in {Turns, it, it + 1, 0}
    BY ZenonT(30) DEF TurnsTaken
  <2>3. TurnsTaken' \in {Turns, it', it' + 1, 0}
    BY ZenonT(30) DEF TurnsTaken
  <2> QED BY <1>1, <2>1, <2>2, <2>3, <2>5, Zenon
<1>3. CASE BeginUpdate
  BY <1>1, <1>3, TimePasses
<1>4. CASE RegisterPaired
  <2>1. lists' = lists /\ TurnsTaken' = TurnsTaken
    BY <1>4 DEF RegisterPaired, TurnsTaken
  <2> QED BY <1>1, <1>2, <2>1, PatienceStays DEF lists
<1>5. CASE RegisterItem
  <2>1. ItemsProcessed' = ItemsProcessed /\ TurnsTaken' = TurnsTaken
    BY <1>5 DEF RegisterItem, TurnsTaken
  <2>2. \E N : /\ N \subseteq Item /\ IsFiniteSet(N) /\ \A x \in N : ~(x.due < 0)
               /\ Items' = Items \cup N
    <3>1. Head(Registration).obj \in Objects
      <4>1. Registration # <<>> /\ Registration \in Seq(Reg)
        BY <1>1, <1>5 DEF RegisterItem, TypeOK
      <4>2. Head(Registration) \in Reg
        BY <4>1
      <4> QED BY <4>2 DEF Reg
    <3> DEFINE x == [obj |-> Head(Registration).obj, due |-> 0]
    <3>2. x \in Item /\ x.due = 0
      BY <3>1 DEF Item
    <3>3. Items' = Items \cup {} \/ Items' = Items \cup {x}
      BY <1>5 DEF RegisterItem
    <3> HIDE DEF x
    <3>4. IsFiniteSet({}) /\ IsFiniteSet({x})
      BY FS_EmptySet, FS_Singleton
    <3> QED BY <3>2, <3>3, <3>4
  <2>3. PICK N : /\ N \subseteq Item /\ IsFiniteSet(N) /\ \A x \in N : ~(x.due < 0)
                 /\ Items' = Items \cup N
    BY <2>2
  <2>4. IsFiniteSet(ItemsProcessed') /\ \A x \in ItemsProcessed' : x.due > 0
    BY <2>1 DEF Patience
  <2>5. TurnsTaken' <= TurnsTaken
    BY <1>2, <2>1
  <2> QED BY <1>1, <1>2, <2>3, <2>4, <2>5, PatienceGrows
<1>6. CASE UnregisterItem
  <2>1. /\ ItemsProcessed' = ItemsProcessed /\ TurnsTaken' = TurnsTaken
        /\ Items' \in {Items, Buried(Head(Registration).obj)}
    BY <1>6 DEF UnregisterItem, internal_Unregister, TurnsTaken
  <2> QED BY <1>1, <1>2, <2>1, PatienceBuries
<1>7. CASE EndRegistration
  <2>1. lists' = lists /\ TurnsTaken' = TurnsTaken
    BY <1>7 DEF EndRegistration, TurnsTaken, Registering
  <2> QED BY <1>1, <1>2, <2>1, PatienceStays DEF lists
<1>8. CASE RTSkip \/ RTCall \/ RTReturn \/ RTDone
  <2>1. lists' = lists /\ TurnsTaken' = TurnsTaken
    BY <1>8 DEF RTSkip, RTCall, RTReturn, RTDone, TurnsTaken
  <2> QED BY <1>1, <1>2, <2>1, PatienceStays DEF lists
<1>9. CASE StepDrop
  <2>1. /\ \E x : IsTop(x) /\ Items' = Items \ {x}
        /\ ItemsProcessed' = ItemsProcessed
    BY <1>9 DEF StepDrop
  <2>2. TurnsTaken' = TurnsTaken + 1
    BY <1>1, <1>9 DEF StepDrop, TurnsTaken
  <2> QED BY <1>1, <1>2, <2>1, <2>2, PatienceTakes
<1>10. CASE StepCall
  <2>1. /\ \E x : IsTop(x) /\ Items' = Items \ {x}
        /\ ItemsProcessed' = ItemsProcessed
    BY <1>10 DEF StepCall
  <2>2. TurnsTaken' = TurnsTaken + 1
    BY <1>1, <1>10 DEF StepCall, TurnsTaken
  <2> QED BY <1>1, <1>2, <2>1, <2>2, PatienceTakes
<1>11. CASE StepReturn
  <2>1. current \in Objects
    BY <1>11 DEF IInv, TypeOK, Callers, Calling, StepReturn
  <2> QED BY <1>1, <1>11, <2>1, PatienceReturns
<1>12. CASE StepDone
  BY <1>1, <1>12, PatienceEnds
<1>13. ASSUME NEW o \in Objects, Unregister(o) \/ Delete(o) PROVE Patience(K, D)'
  <2>1. /\ ItemsProcessed' = ItemsProcessed /\ TurnsTaken' = TurnsTaken
        /\ Items' \in {Items, Buried(o)}
    BY <1>13 DEF Unregister, Delete, DoUnregister, internal_Unregister, TurnsTaken
  <2> QED BY <1>1, <1>2, <2>1, PatienceBuries
<1>14. ASSUME NEW o \in Objects, Construct(o) \/ SetDestroy(o) \/ \E rt \in BOOLEAN : Register(o, rt)
       PROVE  Patience(K, D)'
  <2>1. lists' = lists /\ TurnsTaken' = TurnsTaken
    BY <1>14 DEF Construct, SetDestroy, Register, TurnsTaken
  <2> QED BY <1>1, <1>2, <2>1, PatienceStays DEF lists
<1>15. CASE UNCHANGED vars
  <2>1. lists' = lists /\ TurnsTaken' = TurnsTaken
    BY <1>15 DEF vars, TurnsTaken
  <2> QED BY <1>1, <1>2, <2>1, PatienceStays DEF lists
<1> QED BY <1>3, <1>4, <1>5, <1>6, <1>7, <1>8, <1>9, <1>10, <1>11, <1>12, <1>13, <1>14, <1>15
        DEF Next, Update, Interface

\* Who waits with patience is not late by Lag.
LEMMA PatienceBounds ==
  ASSUME NEW K \in Nat \ {0}, NEW D \in Nat, Bounded(K, D), TypeOK, Patience(K, D)
  PROVE  LatenessBounded
<1> SUFFICES ASSUME NEW x \in Items PROVE x.due > 0 - Lag
  BY DEF LatenessBounded
<1>1. x.due \in Int /\ Lag \in Nat /\ Turns \in Nat \ {0} /\ it \in Nat
  BY ShedulerAssumption DEF TypeOK, Item
<1>2. CASE x.due >= 0
  <2>1. 0 * Turns < K => (0 + 1) * D < Lag
    BY DEF Bounded
  <2> QED BY <1>1, <1>2, <2>1
<1>3. CASE x.due < 0
  <2>1. PICK j \in Nat : Waited(K, D, x, j)
    BY <1>3 DEF Patience, Late
  <2>2. Cardinality(Ahead(x.due)) \in Nat \ {0}
    <3>1. Ahead(x.due) \subseteq Items /\ x \in Ahead(x.due)
      BY <1>1 DEF Ahead
    <3>2. IsFiniteSet(Ahead(x.due))
      BY <3>1, FS_Subset DEF Patience
    <3> QED BY <3>1, <3>2, FS_CardinalityType, FS_EmptySet
  <2>3. TurnsTaken \in Nat
    BY <1>1 DEF TurnsTaken
  <2>4. j * Turns < K
    <3> PICK c \in Nat \ {0}, n \in Nat, m \in Nat :
           c = Cardinality(Ahead(x.due)) /\ n = TurnsTaken /\ m = j * Turns
      BY <1>1, <2>2, <2>3
    <3>1. c + n + m <= K
      BY <2>1 DEF Waited
    <3>2. m < K
      BY <3>1
    <3> QED BY <3>2
  <2>5. (j + 1) * D < Lag /\ (j + 1) * D \in Nat
    BY <2>4 DEF Bounded
  <2>6. x.due >= 0 - (j + 1) * D
    BY <2>1 DEF Waited
  <2> QED
    <3> DEFINE p == (j + 1) * D
    <3>1. p < Lag /\ p \in Nat /\ x.due >= 0 - p
      BY <2>5, <2>6
    <3> HIDE DEF p
    <3> QED BY <1>1, <3>1
<1> QED BY <1>1, <1>2, <1>3

\* A late item waits for whole steps only, and each takes Turns from before it.
LEMMA WaitsForSteps ==
  ASSUME NEW K \in Nat \ {0}, NEW D \in Nat, D * (1 + (K - 1) \div Turns) < Lag
  PROVE  Bounded(K, D)
<1> SUFFICES ASSUME NEW j \in Nat, j * Turns < K PROVE (j + 1) * D < Lag
  BY DEF Bounded
<1>1. Turns \in Nat \ {0} /\ Lag \in Nat
  BY ShedulerAssumption
<1> DEFINE q == (K - 1) \div Turns
<1>2. q \in Nat /\ K - 1 < (q + 1) * Turns
  BY <1>1
<1>3. j <= q
  <2> HIDE DEF q
  <2>1. j * Turns < (q + 1) * Turns
    BY <1>1, <1>2
  <2>2. ASSUME j >= q + 1 PROVE FALSE
    <3>1. j * Turns >= (q + 1) * Turns
      BY <1>1, <1>2, <2>2
    <3> QED BY <1>1, <1>2, <2>1, <3>1
  <2> QED BY <1>2, <2>2
<1>4. (j + 1) * D <= (q + 1) * D
  <2> HIDE DEF q
  <2> QED BY <1>2, <1>3
<1>5. D * (1 + q) = (q + 1) * D /\ D * (1 + q) < Lag
  <2> DEFINE r == q
  <2>1. r \in Nat /\ D * (1 + r) < Lag
    BY <1>2
  <2> HIDE DEF r
  <2>2. D * (1 + r) = (r + 1) * D
    BY <2>1
  <2> QED BY <2>1, <2>2 DEF r
<1> HIDE DEF q
<1> QED BY <1>1, <1>2, <1>4, <1>5

\* LatenessBounded, for any objects, intervals, budget and queue: if time moves by
\* at most D from one Update to the next and never more than K items (tombstones
\* included) are late at once, none is ever later than D times the number of
\* steps that K items take at Turns a step; the budget, which may end every step
\* after Turns turns, starves nobody, because ProcessStep takes the latest first.
THEOREM LatenessHolds ==
  ASSUME NEW K \in Nat \ {0}, NEW D \in Nat, \A d \in Deltas : d <= D,
         D * (1 + (K - 1) \div Turns) < Lag
  PROVE  Spec /\ []LoadWithin(K) => []LatenessBounded
<1> DEFINE P == Patience(K, D)
           W == LoadWithin(K)
<1>1. Bounded(K, D)
  BY WaitsForSteps
<1>2. Init => P
  BY FS_EmptySet DEF Init, Patience, Late
<1>3. IInv /\ IInv' /\ W' /\ P /\ [Next]_vars => P'
  BY <1>1, PatienceStep
<1>4. IInv /\ P => LatenessBounded
  BY <1>1, PatienceBounds DEF IInv
<1> HIDE DEF P, W
<1>5. Spec => []IInv
  BY InductiveInvariant
<1>6. Spec /\ []W => []LatenessBounded
  BY <1>2, <1>3, <1>4, <1>5, PTL DEF Spec
<1> QED BY <1>6 DEF W
===============================================================================
