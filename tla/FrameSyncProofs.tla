--------------------------- MODULE FrameSyncProofs ---------------------------
(***************************************************************************)
(* The inductive invariants of FrameSync and their proofs.                 *)
(*                                                                         *)
(* LockInv says which mutex each thread owns at each point of its loop and *)
(* what mt_bMustExit means; FrameInv ties the marker and the last pass to  *)
(* the frame number; together they are inductive and give Exclusive.       *)
(* ListInv describes the list and the flags.                               *)
(***************************************************************************)
EXTENDS FrameSync, VectorsProofs, TLAPS

LockInv ==
  /\ pc \in [Threads -> PrimaryPC \cup SecondaryPC]
  /\ pc[Primary] \in PrimaryPC /\ pc[Secondary] \in SecondaryPC
  /\ pc[Primary] = "start" <=> pc[Secondary] = "unspawned"
  /\ enter \in Threads \cup {NoThread} /\ leave \in Threads \cup {NoThread}
  /\ enter = Primary <=>
       pc[Primary] \in Moving \cup {"pump", "lock_leave", "unlock_enter",
                                    "unlock_leave", "check", "pass", "exit"}
  /\ enter = Secondary <=>
       pc[Secondary] \in {"granted", "pass", "unlock_enter", "exit"}
  /\ leave = Primary <=>
       pc[Primary] \in {"unlock_enter", "render", "lock_enter", "unlock_leave"}
  /\ leave = Secondary <=> pc[Secondary] = "unlock_leave"
  /\ mustExit \in BOOLEAN
  /\ mustExit => pc[Primary] \in {"exit", "spin"}
  /\ pc[Primary] = "exit" => mustExit
  /\ pc[Primary] = "done" => ~mustExit
  /\ (pc[Primary] \in {"spin", "done"} /\ ~mustExit)
       <=> pc[Secondary] \in {"exit", "done"}

FrameInv ==
  /\ dwFrame \in 0..MaxFrame /\ passes \in 0..MaxFrame
  /\ marker \in 0..dwFrame \/ marker = InitialMarker
  /\ passes = dwFrame \/ passes + 1 = dwFrame
  /\ pc[Primary] \in Moving \cup {"lock_leave", "unlock_enter"} =>
       passes # dwFrame /\ marker # dwFrame
  /\ pc[Primary] \in {"start", "pump", "exit", "spin", "done"} =>
       passes = dwFrame
  /\ pc[Primary] = "pass" => passes # dwFrame
  /\ pc[Secondary] = "pass" => passes # dwFrame /\ marker = dwFrame
  /\ pc[Secondary] = "granted" =>
       passes # dwFrame \/ pc[Primary] = "spin"
  /\ pc[Primary] \in {"render", "lock_enter", "unlock_leave", "check"} =>
       \/ marker = dwFrame /\ passes = dwFrame
       \/ marker # dwFrame /\ passes # dwFrame
       \/ marker = dwFrame /\ pc[Secondary] = "pass"
  /\ pc[Primary] \in {"render", "lock_enter"} /\ passes = dwFrame =>
       pc[Secondary] \in {"unlock_enter", "lock_leave"}

\* The list is empty between frames; a cursor is within it.
ListShape ==
  /\ seqParallel \in Seq(Jobs) /\ it \in [Threads -> Nat]
  /\ \A t \in Threads : /\ it[t] \in 0..Len(seqParallel)
                        /\ pc[t] # "pass" => it[t] = 0
  /\ passes = dwFrame => seqParallel = <<>>

\* What FrameMove keeps true of the list: no entry twice, every entry bound to
\* a live object, at most one builder of an object and that exactly while its
\* object waits; and which entries cannot be there yet at this point.
ListInv ==
  /\ waiting \subseteq alive /\ alive \subseteq Objects
  /\ toSchedule \subseteq alive /\ toUpdate \subseteq alive
  /\ NoRepeat(seqParallel)
  /\ \A job \in Listed(seqParallel) \cap ObjectJobs : job[1] \in alive
  /\ \A o \in Objects : ~ {<<o, "level">>, <<o, "detail">>}
                           \subseteq Listed(seqParallel)
  /\ WaitIffQueued
  /\ toSchedule # {} => pc[Primary] = "sheduler"
  /\ toUpdate # {} => pc[Primary] = "objects"
  /\ \A o \in toSchedule : \A k \in AllKinds : <<o, k>> \notin Listed(seqParallel)
  /\ \A o \in Objects, k \in ClientSide :
       pc[Primary] \in {"sheduler", "level"} \/ o \in toUpdate
         => <<o, k>> \notin Listed(seqParallel)
------------------------------------------------------------------------------
USE DEF Primary, Secondary, Threads, NoThread

\* The mutexes are where LockInv says whatever the game does in FrameMove.
LEMMA LockInvInit == Init => LockInv
  BY DEF Init, LockInv, PrimaryPC, SecondaryPC, Moving

LEMMA LockInvStep == LockInv /\ [Next]_vars => LockInv'
  <1> SUFFICES ASSUME LockInv, [Next]_vars PROVE LockInv'
    OBVIOUS
  <1> USE DEF At, Goto, Step
  <1>1. CASE StartThreads
    BY <1>1 DEF LockInv, PrimaryPC, SecondaryPC, Moving, StartThreads
  <1>2. CASE FrameMove
    <2>1. /\ UNCHANGED <<locks, mustExit>>
          /\ pc[Primary] \in {"pump"} \cup Moving
          /\ \/ UNCHANGED pc
             \/ pc[Primary] = "pump" /\ Goto(Primary, "sheduler")
             \/ pc[Primary] = "sheduler" /\ Goto(Primary, "level")
             \/ pc[Primary] = "level" /\ Goto(Primary, "objects")
             \/ pc[Primary] = "objects" /\ Goto(Primary, "lock_leave")
      BY <1>2 DEF FrameMove, BeginFrame, EndSheduler, BeginObjects, EndMove,
                  ScheduleUpdate, Spawn, RestrictionsChange, UpdateCL, Destroy,
                  Moving
    <2> QED BY <2>1 DEF LockInv, PrimaryPC, SecondaryPC, Moving, locks
  <1>3. CASE Handoff
    BY <1>3 DEF LockInv, PrimaryPC, SecondaryPC, Moving, Handoff, LockLeave,
                UnlockEnter, Render, LockEnter, UnlockLeave, CheckMarker,
                CallJob, EndPass, locks, rest
  <1>4. CASE Quit
    BY <1>4 DEF LockInv, PrimaryPC, SecondaryPC, Moving, Quit, locks
  <1>5. CASE Exit
    BY <1>5 DEF LockInv, PrimaryPC, SecondaryPC, Moving, Exit, UnlockEnter,
                SpinEnds, locks, rest
  <1>6. CASE mt_Thread
    <2> USE DEF LockInv, PrimaryPC, SecondaryPC, Moving
    <2>1. CASE Granted
      <3>1. CASE mustExit
        BY <2>1, <3>1 DEF Granted, locks
      <3>2. CASE ~mustExit
        BY <2>1, <3>2 DEF Granted, locks
      <3> QED BY <3>1, <3>2
    <2>2. CASE \/ LockEnter(Secondary, "lock_enter", "granted")
               \/ LockLeave(Secondary, "lock_leave", "unlock_leave")
      BY <2>2 DEF LockEnter, LockLeave, rest
    <2>3. CASE \/ UnlockEnter(Secondary, "unlock_enter", "lock_leave")
               \/ UnlockLeave(Secondary, "unlock_leave", "lock_enter")
               \/ UnlockEnter(Secondary, "exit", "done")
      BY <2>3 DEF UnlockEnter, UnlockLeave, rest
    <2>4. CASE CallJob(Secondary) \/ EndPass(Secondary, "unlock_enter")
      BY <2>4 DEF CallJob, EndPass, locks
    <2> QED BY <1>6, <2>1, <2>2, <2>3, <2>4 DEF mt_Thread
  <1>7. CASE UNCHANGED vars
    BY <1>7 DEF LockInv, vars, locks
  <1> QED
    BY <1>1, <1>2, <1>3, <1>4, <1>5, <1>6, <1>7 DEF Next, Run, Terminated

THEOREM LockDiscipline == Spec => []LockInv
  BY LockInvInit, LockInvStep, PTL DEF Spec

\* No two threads on the frame's data, for any number of objects and frames.
THEOREM MutualExclusion == Spec => []Exclusive
  <1>1. LockInv => Exclusive
    BY DEF LockInv, Exclusive, Moving
  <1> QED BY <1>1, LockDiscipline, PTL
------------------------------------------------------------------------------
LEMMA FrameInvInit == Init => FrameInv
  BY FrameSyncAssumption DEF Init, FrameInv, Moving

LEMMA FrameInvStep == LockInv /\ FrameInv /\ [Next]_vars => FrameInv'
  <1> SUFFICES ASSUME LockInv, FrameInv, [Next]_vars PROVE FrameInv'
    OBVIOUS
  <1> USE FrameSyncAssumption DEF At, Goto, Step
  <1>1. CASE StartThreads
    BY <1>1 DEF LockInv, FrameInv, Moving, StartThreads
  <1>2. CASE BeginFrame
    BY <1>2 DEF LockInv, FrameInv, Moving, BeginFrame
  <1>3. CASE FrameMove /\ ~BeginFrame
    <2>1. /\ UNCHANGED <<dwFrame, passes, marker>>
          /\ pc[Primary] \in Moving
          /\ \/ UNCHANGED pc
             \/ pc[Primary] = "sheduler" /\ Goto(Primary, "level")
             \/ pc[Primary] = "level" /\ Goto(Primary, "objects")
             \/ pc[Primary] = "objects" /\ Goto(Primary, "lock_leave")
      BY <1>3 DEF FrameMove, EndSheduler, BeginObjects, EndMove,
                  ScheduleUpdate, Spawn, RestrictionsChange, UpdateCL, Destroy,
                  Moving
    <2> QED BY <2>1 DEF LockInv, FrameInv, Moving
  <1>4. CASE Handoff
    <2>1. CASE LockLeave(Primary, "lock_leave", "unlock_enter")
      BY <2>1 DEF LockInv, FrameInv, Moving, LockLeave, rest
    <2>2. CASE UnlockEnter(Primary, "unlock_enter", "render")
      BY <2>2 DEF LockInv, FrameInv, Moving, UnlockEnter, rest
    <2>3. CASE Render
      BY <2>3 DEF LockInv, FrameInv, Moving, Render, rest
    <2>4. CASE LockEnter(Primary, "lock_enter", "unlock_leave")
      BY <2>4 DEF LockInv, FrameInv, Moving, LockEnter, rest
    <2>5. CASE UnlockLeave(Primary, "unlock_leave", "check")
      BY <2>5 DEF LockInv, FrameInv, Moving, UnlockLeave, rest
    <2>6. CASE CheckMarker
      BY <2>6 DEF LockInv, FrameInv, Moving, CheckMarker, rest
    <2>7. CASE CallJob(Primary) \/ EndPass(Primary, "pump")
      BY <2>7 DEF LockInv, FrameInv, Moving, CallJob, EndPass
    <2> QED BY <1>4, <2>1, <2>2, <2>3, <2>4, <2>5, <2>6, <2>7 DEF Handoff
  <1>5. CASE Quit \/ Exit
    BY <1>5 DEF LockInv, FrameInv, Moving, Quit, Exit, UnlockEnter, SpinEnds, rest
  <1>6. CASE mt_Thread
    <2>1. CASE Granted
      <3>1. CASE mustExit
        BY <2>1, <3>1 DEF LockInv, FrameInv, Moving, Granted
      <3>2. CASE ~mustExit
        BY <2>1, <3>2 DEF LockInv, FrameInv, Moving, Granted
      <3> QED BY <3>1, <3>2
    <2>2. CASE LockEnter(Secondary, "lock_enter", "granted")
      BY <2>2 DEF LockInv, FrameInv, PrimaryPC, Moving, LockEnter, rest
    <2>3. CASE LockLeave(Secondary, "lock_leave", "unlock_leave")
      BY <2>3 DEF LockInv, FrameInv, Moving, LockLeave, rest
    <2>4. CASE \/ UnlockEnter(Secondary, "unlock_enter", "lock_leave")
               \/ UnlockLeave(Secondary, "unlock_leave", "lock_enter")
               \/ UnlockEnter(Secondary, "exit", "done")
      BY <2>4 DEF LockInv, FrameInv, Moving, UnlockEnter, UnlockLeave, rest
    <2>5. CASE CallJob(Secondary) 
      BY <2>5 DEF LockInv, FrameInv, Moving, CallJob
    <2>6. CASE EndPass(Secondary, "unlock_enter")
      BY <2>6 DEF LockInv, FrameInv, Moving, EndPass
    <2> QED BY <2>6, <1>6, <2>1, <2>2, <2>3, <2>4, <2>5 DEF mt_Thread
  <1>7. CASE UNCHANGED vars
    BY <1>7 DEF FrameInv, vars
  <1> QED
    BY <1>1, <1>2, <1>3, <1>4, <1>5, <1>6, <1>7 DEF Next, Run, Terminated

LEMMA FrameInvariant == Spec => [](LockInv /\ FrameInv)
  <1>1. Init => LockInv /\ FrameInv
    BY LockInvInit, FrameInvInit
  <1>2. LockInv /\ FrameInv /\ [Next]_vars => (LockInv /\ FrameInv)'
    BY LockInvStep, FrameInvStep
  <1> QED BY <1>1, <1>2, PTL DEF Spec
------------------------------------------------------------------------------
\* Whatever the game does in FrameMove, the list stays a list of jobs.
LEMMA MoveKeepsJobs ==
  ASSUME seqParallel \in Seq(Jobs), FrameMove
  PROVE  seqParallel' \in Seq(Jobs)
  <1>1. ASSUME NEW s \in Seq(Jobs), NEW o \in Objects, NEW k \in Kinds
        PROVE  Append(s, <<o, k>>) \in Seq(Jobs)
    <2>1. <<o, k>> \in Jobs
      BY DEF Jobs, ObjectJobs
    <2> QED BY <2>1, AppendProperties
  <1>2. ASSUME NEW s \in Seq(Jobs), NEW e PROVE Erase(s, e) \in Seq(Jobs)
    BY EraseType
  <1>3. ASSUME NEW s \in Seq(Jobs), NEW o \in Objects, NEW s2, NEW w, NEW w2,
               MayBuild(o, s, s2, w, w2)
        PROVE  s2 \in Seq(Jobs)
    BY <1>1, <1>3 DEF MayBuild
  <1>4. CASE BeginFrame
    <2> DEFINE two == <<<<"render", "hom">>, <<"render", "details">>>>
    <2>1. two \in Seq(Jobs)
      BY DEF Jobs, RenderJobs
    <2> HIDE DEF two
    <2>2. two \o seqParallel \in Seq(Jobs)
      BY <2>1, ConcatProperties
    <2> QED BY <1>4, <2>2 DEF BeginFrame, two
  <1>5. CASE EndSheduler \/ BeginObjects \/ EndMove
    BY <1>5 DEF EndSheduler, BeginObjects, EndMove
  <1>6. ASSUME NEW o \in Objects, ScheduleUpdate(o) PROVE seqParallel' \in Seq(Jobs)
    <2>1. PICK seen \in MayDefer(o, "vision", seqParallel), clear \in BOOLEAN :
            MayBuild(o, ClearPath(o, clear, seen), seqParallel',
                     ClearFlag(o, clear, waiting), waiting')
      BY <1>6 DEF ScheduleUpdate
    <2>2. ClearPath(o, clear, seen) \in Seq(Jobs)
      BY <1>1, <1>2 DEF ClearPath, MayDefer
    <2> QED BY <2>1, <2>2, <1>3
  <1>7. ASSUME NEW o \in Objects, UpdateCL(o) PROVE seqParallel' \in Seq(Jobs)
    <2>1. PICK heard \in MayDefer(o, "sound", seqParallel) :
            \E handled \in MayDefer(o, "handler", heard) :
              MayBuild(o, handled, seqParallel', waiting, waiting')
      BY <1>7 DEF UpdateCL
    <2>2. heard \in Seq(Jobs)
      BY <1>1 DEF MayDefer
    <2>3. PICK handled \in MayDefer(o, "handler", heard) :
            MayBuild(o, handled, seqParallel', waiting, waiting')
      BY <2>1
    <2>4. handled \in Seq(Jobs)
      BY <1>1, <2>2 DEF MayDefer
    <2> QED BY <2>3, <2>4, <1>3
  <1>8. ASSUME NEW o \in Objects, Spawn(o) \/ RestrictionsChange(o) \/ Destroy(o)
        PROVE  seqParallel' \in Seq(Jobs)
    BY <1>8, <1>2 DEF Spawn, RestrictionsChange, Destroy, Dropped
  <1> QED BY <1>4, <1>5, <1>6, <1>7, <1>8 DEF FrameMove

LEMMA ListShapeStep ==
  LockInv /\ FrameInv /\ ListShape /\ [Next]_vars => ListShape'
  <1> SUFFICES ASSUME LockInv, FrameInv, ListShape, [Next]_vars PROVE ListShape'
    OBVIOUS
  <1> USE DEF At, Goto, Step
  <1>0. Len(seqParallel) \in Nat
    BY LenProperties DEF ListShape
  <1>1. CASE FrameMove
    <2>1. seqParallel' \in Seq(Jobs)
      BY <1>1, MoveKeepsJobs DEF ListShape
    <2>2. Len(seqParallel') \in Nat
      BY <2>1, LenProperties
    <2>3. /\ UNCHANGED <<it, passes>>
          /\ pc[Primary] \in {"pump"} \cup Moving
          /\ pc'[Secondary] = pc[Secondary] /\ pc'[Primary] # "pass"
          /\ \/ BeginFrame
             \/ pc[Primary] \in Moving /\ UNCHANGED dwFrame
      BY <1>1 DEF LockInv, FrameMove, BeginFrame, EndSheduler, BeginObjects, EndMove,
                  ScheduleUpdate, Spawn, RestrictionsChange, UpdateCL, Destroy,
                  Moving
    <2>4. \A t \in Threads : it'[t] = 0
      <3>1. pc[Secondary] # "pass" /\ pc[Primary] # "pass"
        BY <2>3 DEF LockInv, Moving
      <3>2. it' = it /\ \A t \in Threads : pc[t] # "pass" => it[t] = 0
        BY <2>3 DEF ListShape
      <3> QED BY <3>1, <3>2
    <2>5. passes' # dwFrame'
      BY <2>3, FrameSyncAssumption DEF FrameInv, BeginFrame
    <2> QED BY <2>1, <2>2, <2>3, <2>4, <2>5 DEF ListShape
  <1>2. ASSUME NEW t \in Threads, CallJob(t) PROVE ListShape'
    BY <1>0, <1>2 DEF ListShape, CallJob
  <1>3. ASSUME NEW t \in Threads, NEW l, l # "pass", EndPass(t, l) PROVE ListShape'
    <2>1. seqParallel' = <<>> /\ Len(seqParallel') = 0 /\ seqParallel' \in Seq(Jobs)
      BY <1>3 DEF EndPass
    <2>2. it' = [it EXCEPT ![t] = 0]
      BY <1>3 DEF EndPass
    <2>3. \A x \in Threads : pc[x] = "pass" => x = t
      BY <1>3 DEF EndPass, LockInv, Moving
    <2>4. it' \in [Threads -> Nat] /\ \A x \in Threads : it'[x] = 0
      BY <2>2, <2>3 DEF ListShape
    <2>5. \A x \in Threads : it'[x] \in 0..0
      BY <2>4
    <2> QED BY <2>1, <2>4, <2>5 DEF ListShape
  <1>4. CASE StartThreads \/ Quit \/ Exit
    BY <1>4 DEF ListShape, StartThreads, Quit, Exit, UnlockEnter, SpinEnds, game,
                rest, LockInv
  <1>5. CASE \/ LockLeave(Primary, "lock_leave", "unlock_enter")
             \/ UnlockEnter(Primary, "unlock_enter", "render")
             \/ Render
             \/ LockEnter(Primary, "lock_enter", "unlock_leave")
             \/ UnlockLeave(Primary, "unlock_leave", "check")
             \/ CheckMarker
    BY <1>5 DEF ListShape, LockLeave, UnlockEnter, Render, LockEnter,
                UnlockLeave, CheckMarker, game, rest, LockInv
  <1>6. CASE \/ LockEnter(Secondary, "lock_enter", "granted")
             \/ Granted
             \/ UnlockEnter(Secondary, "unlock_enter", "lock_leave")
             \/ LockLeave(Secondary, "lock_leave", "unlock_leave")
             \/ UnlockLeave(Secondary, "unlock_leave", "lock_enter")
             \/ UnlockEnter(Secondary, "exit", "done")
    BY <1>6 DEF ListShape, LockLeave, UnlockEnter, Granted, LockEnter,
                UnlockLeave, game, rest, LockInv
  <1>7. CASE UNCHANGED vars
    BY <1>7 DEF ListShape, vars, game
  <1> QED
    BY <1>1, <1>2, <1>3, <1>4, <1>5, <1>6, <1>7
    DEF Next, Run, Terminated, Handoff, mt_Thread

LEMMA ListShapeInit == Init => ListShape
  BY DEF Init, ListShape
------------------------------------------------------------------------------
\* The part of ListInv that speaks of the jobs on the list as a set.
JobsInv(J, w, a) ==
  /\ \A job \in J \cap ObjectJobs : job[1] \in a
  /\ \A o \in Objects : ~ {<<o, "level">>, <<o, "detail">>} \subseteq J
  /\ \A o \in Objects : o \in w <=> \E k \in Builds : <<o, k>> \in J

\* Setting up a builder keeps it.
LEMMA MayBuildKeeps ==
  ASSUME NEW s \in Seq(Jobs), NEW s2, NEW w \in SUBSET Objects, NEW w2, NEW a,
         NEW o \in Objects, o \in a, NoRepeat(s), JobsInv(Listed(s), w, a),
         MayBuild(o, s, s2, w, w2)
  PROVE  /\ s2 \in Seq(Jobs) /\ NoRepeat(s2) /\ JobsInv(Listed(s2), w2, a)
         /\ Listed(s2) \subseteq Listed(s) \cup ({o} \X Builds)
         /\ w2 \subseteq w \cup {o}
  <1>1. CASE s2 = s /\ w2 = w
    BY <1>1
  <1>2. ASSUME NEW k \in Kinds \cap Builds, o \notin w, s2 = Append(s, <<o, k>>),
               w2 = w \cup {o}
        PROVE  /\ s2 \in Seq(Jobs) /\ NoRepeat(s2) /\ JobsInv(Listed(s2), w2, a)
               /\ Listed(s2) \subseteq Listed(s) \cup ({o} \X Builds)
               /\ w2 \subseteq w \cup {o}
    <2> DEFINE J == Listed(s)
    <2>1. \A b \in Builds : <<o, b>> \notin J
      BY <1>2 DEF JobsInv
    <2>2. <<o, k>> \in Jobs
      BY DEF Jobs, ObjectJobs
    <2>3. /\ s2 \in Seq(Jobs) /\ NoRepeat(s2) /\ Listed(s2) = J \cup {<<o, k>>}
      BY <1>2, <2>1, <2>2, AppendListed
    <2> HIDE DEF J
    <2>4. JobsInv(J \cup {<<o, k>>}, w \cup {o}, a)
      <3>1. ASSUME NEW job \in (J \cup {<<o, k>>}) \cap ObjectJobs
            PROVE  job[1] \in a
        <4>1. CASE job \in J
          BY <4>1 DEF JobsInv, J
        <4>2. CASE job = <<o, k>>
          BY <4>2
        <4> QED BY <4>1, <4>2
      <3>2. \A x \in Objects :
              ~ {<<x, "level">>, <<x, "detail">>} \subseteq J \cup {<<o, k>>}
        BY <2>1 DEF JobsInv, J, Builds
      <3>3. \A x \in Objects :
              x \in w \cup {o} <=> \E b \in Builds : <<x, b>> \in J \cup {<<o, k>>}
        BY DEF JobsInv, J
      <3> QED BY <3>1, <3>2, <3>3 DEF JobsInv
    <2>5. J \cup {<<o, k>>} \subseteq J \cup ({o} \X Builds)
      OBVIOUS
    <2> QED BY <1>2, <2>3, <2>4, <2>5 DEF J
  <1> QED BY <1>1, <1>2 DEF MayBuild

\* Taking every builder of an object off the list and lowering its flag.
LEMMA DropKeeps ==
  ASSUME NEW J, NEW K, NEW w, NEW a, NEW b, NEW o \in Objects, JobsInv(J, w, a),
         K \subseteq J, J \ K \subseteq {<<o, k>> : k \in AllKinds},
         \A k \in Builds : <<o, k>> \notin K,
         a \subseteq b \cup {o},
         o \in b \/ \A k \in AllKinds : <<o, k>> \notin K
  PROVE  JobsInv(K, w \ {o}, b)
  <1>1. \A job \in K \cap ObjectJobs : job[1] \in b
    <2> SUFFICES ASSUME NEW job \in K \cap ObjectJobs PROVE job[1] \in b
      OBVIOUS
    <2>1. job[1] \in a
      BY DEF JobsInv
    <2>2. PICK x \in Objects, k \in Kinds : job = <<x, k>>
      BY DEF ObjectJobs
    <2>3. CASE x = o
      BY <2>2, <2>3, FrameSyncAssumption
    <2>4. CASE x # o
      BY <2>1, <2>2, <2>4
    <2> QED BY <2>3, <2>4
  <1>2. \A x \in Objects : ~ {<<x, "level">>, <<x, "detail">>} \subseteq K
    BY DEF JobsInv
  <1>3. ASSUME NEW x \in Objects
        PROVE  x \in w \ {o} <=> \E k \in Builds : <<x, k>> \in K
    <2>1. CASE x = o
      BY <2>1
    <2>2. CASE x # o
      <3>1. \A k \in Builds : <<x, k>> \in J <=> <<x, k>> \in K
        BY <2>2
      <3> QED BY <2>2, <3>1 DEF JobsInv
    <2> QED BY <2>1, <2>2
  <1> QED BY <1>1, <1>2, <1>3 DEF JobsInv

\* While the primary is in FrameMove nothing of the list has been called, so
\* ListInv reads as a statement about the set of jobs.
LEMMA MovingList ==
  ASSUME LockInv, FrameInv, ListShape,
         pc[Primary] \in {"pump", "lock_leave"} \cup Moving
  PROVE  /\ it[Primary] = 0 /\ it[Secondary] = 0 /\ pc[Secondary] # "pass"
         /\ Called = 0
         /\ pc[Primary] = "pump" => seqParallel = <<>>
         /\ WaitIffQueued <=>
              \A o \in Objects : o \in waiting <=>
                  \E k \in Builds : <<o, k>> \in Listed(seqParallel)
  <1>1. pc[Secondary] # "pass" /\ pc[Primary] # "pass"
    BY DEF LockInv, Moving
  <1>2. it[Primary] = 0 /\ it[Secondary] = 0
    BY <1>1 DEF ListShape
  <1>3. Called = 0
    BY <1>1, <1>2 DEF Called, At
  <1>4. \A o \in Objects :
          (\E i \in (Called + 1)..Len(seqParallel) : seqParallel[i] \in {o} \X Builds)
          <=> \E k \in Builds : <<o, k>> \in Listed(seqParallel)
    <2>1. (Called + 1)..Len(seqParallel) = 1..Len(seqParallel)
      BY <1>3
    <2>2. ASSUME NEW o \in Objects, NEW i \in 1..Len(seqParallel),
                 seqParallel[i] \in {o} \X Builds
          PROVE  \E k \in Builds : <<o, k>> \in Listed(seqParallel)
      <3>1. PICK k \in Builds : seqParallel[i] = <<o, k>>
        BY <2>2
      <3> QED BY <3>1 DEF Listed
    <2>3. ASSUME NEW o \in Objects, NEW k \in Builds, <<o, k>> \in Listed(seqParallel)
          PROVE  \E i \in 1..Len(seqParallel) : seqParallel[i] \in {o} \X Builds
      <3>1. PICK i \in 1..Len(seqParallel) : seqParallel[i] = <<o, k>>
        BY <2>3 DEF Listed
      <3>2. seqParallel[i] \in {o} \X Builds
        BY <3>1
      <3> QED BY <3>2
    <2> QED BY <2>1, <2>2, <2>3, Zenon
  <1> QED BY <1>1, <1>2, <1>3, <1>4 DEF WaitIffQueued, FrameInv, ListShape

\* The rest of ListInv, for the points inside FrameMove.
MoveInv(J, w, a, sched, upd, l) ==
  /\ JobsInv(J, w, a)
  /\ w \subseteq a /\ a \subseteq Objects /\ sched \subseteq a /\ upd \subseteq a
  /\ sched # {} => l = "sheduler"
  /\ upd # {} => l = "objects"
  /\ \A o \in sched : \A k \in AllKinds : <<o, k>> \notin J
  /\ \A o \in Objects, k \in ClientSide :
       l \in {"sheduler", "level"} \/ o \in upd => <<o, k>> \notin J

LEMMA MovingListInv ==
  /\ LockInv /\ FrameInv /\ ListShape
  /\ pc[Primary] \in {"pump", "lock_leave"} \cup Moving
  => (ListInv <=> /\ NoRepeat(seqParallel)
                  /\ MoveInv(Listed(seqParallel), waiting, alive,
                             toSchedule, toUpdate, pc[Primary]))
  <1> SUFFICES ASSUME LockInv, FrameInv, ListShape,
                      pc[Primary] \in {"pump", "lock_leave"} \cup Moving
               PROVE  ListInv <=> /\ NoRepeat(seqParallel)
                                  /\ MoveInv(Listed(seqParallel), waiting, alive,
                                             toSchedule, toUpdate, pc[Primary])
    OBVIOUS
  <1> DEFINE J == Listed(seqParallel)
  <1>1. WaitIffQueued <=> \A o \in Objects : o \in waiting <=>
                            \E k \in Builds : <<o, k>> \in J
    BY MovingList
  <1> HIDE DEF J
  <1>2. ListInv <=> /\ NoRepeat(seqParallel)
                    /\ MoveInv(J, waiting, alive, toSchedule, toUpdate, pc[Primary])
    BY <1>1 DEF ListInv, MoveInv, JobsInv, J
  <1> QED BY <1>2 DEF J

\* Deferring a job that is not on the list.
LEMMA MayDeferKeeps ==
  ASSUME NEW s \in Seq(Jobs), NoRepeat(s), NEW o \in Objects, NEW k,
         k \in Kinds => <<o, k>> \notin Listed(s), NEW s2 \in MayDefer(o, k, s)
  PROVE  /\ s2 \in Seq(Jobs) /\ NoRepeat(s2)
         /\ Listed(s2) \in {Listed(s), Listed(s) \cup {<<o, k>>}}
  <1>1. CASE s2 = s
    BY <1>1
  <1>2. CASE k \in Kinds /\ s2 = Append(s, <<o, k>>)
    <2>1. <<o, k>> \in Jobs
      BY <1>2 DEF Jobs, ObjectJobs
    <2> QED BY <1>2, <2>1, AppendListed
  <1> QED BY <1>1, <1>2 DEF MayDefer

\* Every step of FrameMove keeps it.
LEMMA MoveKeepsListInv ==
  ASSUME LockInv, FrameInv, ListShape, ListInv, FrameMove
  PROVE  /\ NoRepeat(seqParallel')
         /\ MoveInv(Listed(seqParallel'), waiting', alive', toSchedule',
                    toUpdate', pc'[Primary])
  <1> DEFINE J == Listed(seqParallel)
             Goal == /\ NoRepeat(seqParallel')
                     /\ MoveInv(Listed(seqParallel'), waiting', alive', toSchedule',
                                toUpdate', pc'[Primary])
  <1> USE DEF At, Goto, Step
  <1>1. pc[Primary] \in {"pump"} \cup Moving /\ pc \in [Threads -> PrimaryPC \cup SecondaryPC]
    BY DEF LockInv, FrameMove, BeginFrame, EndSheduler, BeginObjects, EndMove,
           ScheduleUpdate, Spawn, RestrictionsChange, UpdateCL, Destroy, Moving
  <1>2. /\ NoRepeat(seqParallel)
        /\ MoveInv(J, waiting, alive, toSchedule, toUpdate, pc[Primary])
    BY <1>1, MovingListInv
  <1>3. seqParallel \in Seq(Jobs) /\ waiting \in SUBSET Objects /\ JobsInv(J, waiting, alive)
    BY <1>2 DEF ListShape, MoveInv
  <1>4. CASE BeginFrame
    <2> DEFINE two == <<<<"render", "hom">>, <<"render", "details">>>>
    <2>1. seqParallel = <<>>
      BY <1>1, <1>4, MovingList DEF BeginFrame
    <2>2. two \in Seq(Jobs) /\ NoRepeat(two) /\ Listed(two) = RenderJobs
      BY DEF Jobs, RenderJobs, NoRepeat, Listed
    <2> HIDE DEF two
    <2>3. two \o <<>> = two
      BY <2>2, ConcatEmptySeq
    <2>4. seqParallel' = <<>> \/ seqParallel' = two
      BY <1>4, <2>1, <2>3 DEF BeginFrame, two
    <2>5. NoRepeat(<<>>) /\ Listed(<<>>) = {}
      BY DEF NoRepeat, Listed
    <2>6. NoRepeat(seqParallel') /\ Listed(seqParallel') \subseteq RenderJobs
      BY <2>2, <2>4, <2>5
    <2>7. \A o \in Objects, k \in AllKinds : <<o, k>> \notin RenderJobs
      BY DEF RenderJobs, AllKinds, Builds, Scheduled, ClientSide
    <2>8. RenderJobs \cap ObjectJobs = {}
      BY <2>7, FrameSyncAssumption DEF ObjectJobs
    <2>9. J = {}
      BY <2>1, <2>5
    <2> HIDE DEF J
    <2>10. waiting = {}
      BY <1>2, <1>3, <2>9 DEF JobsInv
    <2>11. MoveInv(Listed(seqParallel'), waiting, alive, alive, {}, "sheduler")
      <3>1. JobsInv(Listed(seqParallel'), waiting, alive)
        BY <2>6, <2>7, <2>8, <2>10 DEF JobsInv, Builds, AllKinds
      <3> QED BY <1>2, <3>1, <2>6, <2>7, <2>10 DEF MoveInv, AllKinds
    <2> QED BY <1>1, <1>4, <2>6, <2>11 DEF BeginFrame
  <1>5. CASE EndSheduler \/ BeginObjects
    <2> HIDE DEF J
    <2>1. UNCHANGED <<seqParallel, waiting, alive>>
      BY <1>5 DEF EndSheduler, BeginObjects
    <2>2. MoveInv(J, waiting, alive, toSchedule', toUpdate', pc'[Primary])
      BY <1>1, <1>2, <1>5 DEF EndSheduler, BeginObjects, MoveInv, JobsInv
    <2> QED BY <1>2, <2>1, <2>2 DEF J
  <1>6. CASE EndMove
    <2> HIDE DEF J
    <2>1. UNCHANGED <<seqParallel, waiting, alive>>
      BY <1>6 DEF EndMove
    <2>2. MoveInv(J, waiting, alive, toSchedule', toUpdate', pc'[Primary])
      BY <1>1, <1>2, <1>6 DEF EndMove, MoveInv, JobsInv
    <2> QED BY <1>2, <2>1, <2>2 DEF J
  <1>7. ASSUME NEW o \in Objects, Spawn(o) PROVE Goal
    <2> HIDE DEF J
    <2>1. UNCHANGED <<pc, seqParallel, waiting, toSchedule, toUpdate>>
          /\ alive' = alive \cup {o} /\ pc[Primary] = "level"
      BY <1>7 DEF Spawn
    <2>2. MoveInv(J, waiting, alive', toSchedule, toUpdate, pc[Primary])
      BY <1>2, <2>1 DEF MoveInv, JobsInv
    <2> QED BY <1>2, <2>1, <2>2 DEF J
  <1>8. ASSUME NEW o \in Objects, ScheduleUpdate(o) PROVE Goal
    <2>1. PICK seen \in MayDefer(o, "vision", seqParallel), clear \in BOOLEAN :
            MayBuild(o, ClearPath(o, clear, seen), seqParallel',
                     ClearFlag(o, clear, waiting), waiting')
      BY <1>8 DEF ScheduleUpdate
    <2>2. /\ o \in toSchedule /\ pc[Primary] = "sheduler"
          /\ UNCHANGED <<pc, alive, toUpdate>> /\ toSchedule' = toSchedule \ {o}
      BY <1>8 DEF ScheduleUpdate
    <2>3. \A k \in AllKinds : <<o, k>> \notin J
      BY <1>2, <2>2 DEF MoveInv
    <2> DEFINE s == ClearPath(o, clear, seen)
               w == ClearFlag(o, clear, waiting)
    <2>4. /\ seen \in Seq(Jobs) /\ NoRepeat(seen)
          /\ Listed(seen) \in {J, J \cup {<<o, "vision">>}}
      BY <1>2, <1>3, <2>3, MayDeferKeeps DEF AllKinds, Scheduled
    <2>5. /\ s \in Seq(Jobs) /\ NoRepeat(s)
          /\ Listed(s) \in {Listed(seen), Listed(seen) \ {<<o, "detail">>}}
      BY <2>4, EraseListed DEF ClearPath
    <2> HIDE DEF s, J
    <2>6. Listed(s) \in {J, J \cup {<<o, "vision">>}}
      BY <2>3, <2>4, <2>5 DEF AllKinds, Builds
    <2>7. o \in alive /\ o \notin waiting /\ w = waiting
      BY <1>2, <1>3, <2>2, <2>3 DEF MoveInv, JobsInv, ClearFlag, AllKinds
    <2>8. JobsInv(Listed(s), waiting, alive)
      <3>1. \A job \in (J \cup {<<o, "vision">>}) \cap ObjectJobs : job[1] \in alive
        <4> SUFFICES ASSUME NEW job \in (J \cup {<<o, "vision">>}) \cap ObjectJobs
                     PROVE job[1] \in alive
          OBVIOUS
        <4>1. CASE job \in J
          BY <1>3, <4>1 DEF JobsInv
        <4>2. CASE job = <<o, "vision">>
          BY <2>7, <4>2
        <4> QED BY <4>1, <4>2
      <3>2. JobsInv(J \cup {<<o, "vision">>}, waiting, alive)
        BY <1>3, <3>1 DEF JobsInv, Builds
      <3> QED BY <1>3, <2>6, <3>2
    <2> HIDE DEF w
    <2>9. /\ NoRepeat(seqParallel') /\ JobsInv(Listed(seqParallel'), waiting', alive)
          /\ Listed(seqParallel') \subseteq Listed(s) \cup ({o} \X Builds)
          /\ waiting' \subseteq waiting \cup {o}
      <3>1. MayBuild(o, s, seqParallel', waiting, waiting')
        BY <2>1, <2>7 DEF s, w
      <3> QED BY <1>3, <2>5, <2>7, <2>8, <3>1, MayBuildKeeps
    <2>10. Listed(seqParallel') \subseteq J \cup ({o} \X {"vision", "level", "detail"})
      BY <2>6, <2>9 DEF Builds
    <2>11. MoveInv(Listed(seqParallel'), waiting', alive, toSchedule \ {o}, toUpdate,
                   "sheduler")
      BY <1>2, <2>2, <2>7, <2>9, <2>10 DEF MoveInv, ClientSide
    <2> QED BY <2>2, <2>9, <2>11
  <1>9. ASSUME NEW o \in Objects, RestrictionsChange(o) PROVE Goal
    <2>1. /\ o \in alive /\ UNCHANGED <<pc, alive, toSchedule, toUpdate>>
          /\ waiting' = waiting \ {o}
          /\ seqParallel' = Erase(Erase(seqParallel, <<o, "level">>), <<o, "detail">>)
      BY <1>9 DEF RestrictionsChange
    <2>2. /\ NoRepeat(seqParallel')
          /\ Listed(seqParallel') = J \ {<<o, "level">>, <<o, "detail">>}
      <3>1. /\ Erase(seqParallel, <<o, "level">>) \in Seq(Jobs)
            /\ NoRepeat(Erase(seqParallel, <<o, "level">>))
            /\ Listed(Erase(seqParallel, <<o, "level">>)) = J \ {<<o, "level">>}
        BY <1>2, <1>3, EraseListed
      <3>2. /\ NoRepeat(seqParallel')
            /\ Listed(seqParallel') =
                  Listed(Erase(seqParallel, <<o, "level">>)) \ {<<o, "detail">>}
        BY <2>1, <3>1, EraseListed
      <3> QED BY <3>1, <3>2
    <2> HIDE DEF J
    <2>3. JobsInv(Listed(seqParallel'), waiting \ {o}, alive)
      BY <1>3, <2>1, <2>2, DropKeeps DEF AllKinds, Builds
    <2>4. MoveInv(Listed(seqParallel'), waiting \ {o}, alive, toSchedule, toUpdate,
                  pc[Primary])
      BY <1>2, <2>2, <2>3 DEF MoveInv
    <2> QED BY <2>1, <2>2, <2>4
  <1>10. ASSUME NEW o \in Objects, UpdateCL(o) PROVE Goal
    <2>1. /\ o \in toUpdate /\ pc[Primary] = "objects"
          /\ UNCHANGED <<pc, alive, toSchedule>> /\ toUpdate' = toUpdate \ {o}
          /\ \E heard \in MayDefer(o, "sound", seqParallel) :
               \E handled \in MayDefer(o, "handler", heard) :
                 MayBuild(o, handled, seqParallel', waiting, waiting')
      BY <1>10 DEF UpdateCL
    <2>2. \A k \in ClientSide : <<o, k>> \notin J
      BY <1>2, <2>1 DEF MoveInv
    <2>a. PICK heard \in MayDefer(o, "sound", seqParallel) :
            \E handled \in MayDefer(o, "handler", heard) :
              MayBuild(o, handled, seqParallel', waiting, waiting')
      BY <2>1
    <2>b. PICK handled \in MayDefer(o, "handler", heard) :
            MayBuild(o, handled, seqParallel', waiting, waiting')
      BY <2>a
    <2>3. /\ heard \in Seq(Jobs) /\ NoRepeat(heard)
          /\ Listed(heard) \in {J, J \cup {<<o, "sound">>}}
      BY <1>2, <1>3, <2>2, MayDeferKeeps DEF ClientSide
    <2> HIDE DEF J
    <2>4. <<o, "handler">> \notin Listed(heard)
      BY <2>2, <2>3 DEF ClientSide
    <2>5. /\ handled \in Seq(Jobs) /\ NoRepeat(handled)
          /\ Listed(handled) \in {Listed(heard), Listed(heard) \cup {<<o, "handler">>}}
      BY <2>3, <2>4, MayDeferKeeps
    <2>6. /\ J \subseteq Listed(handled)
          /\ Listed(handled) \subseteq J \cup {<<o, "sound">>, <<o, "handler">>}
      BY <2>3, <2>5
    <2>7. o \in alive
      BY <1>2, <2>1 DEF MoveInv
    <2>8. JobsInv(Listed(handled), waiting, alive)
      <3>1. ASSUME NEW job \in Listed(handled) \cap ObjectJobs PROVE job[1] \in alive
        <4>1. CASE job \in J
          BY <1>3, <4>1, <3>1 DEF JobsInv
        <4>2. CASE job \in {<<o, "sound">>, <<o, "handler">>}
          BY <2>7, <4>2
        <4> QED BY <2>6, <4>1, <4>2
      <3>2. \A x \in Objects, k \in Builds : <<x, k>> \in Listed(handled) <=> <<x, k>> \in J
        BY <2>6 DEF Builds
      <3> QED BY <1>3, <3>1, <3>2 DEF JobsInv, Builds
    <2>9. /\ NoRepeat(seqParallel') /\ JobsInv(Listed(seqParallel'), waiting', alive)
          /\ Listed(seqParallel') \subseteq Listed(handled) \cup ({o} \X Builds)
          /\ waiting' \subseteq waiting \cup {o}
      BY <1>3, <2>b, <2>5, <2>7, <2>8, MayBuildKeeps
    <2>10. Listed(seqParallel') \subseteq J \cup ({o} \X AllKinds)
      BY <2>6, <2>9 DEF AllKinds, Builds, ClientSide
    <2>11. MoveInv(Listed(seqParallel'), waiting', alive, toSchedule, toUpdate \ {o},
                   "objects")
      BY <1>2, <2>1, <2>7, <2>9, <2>10 DEF MoveInv
    <2> QED BY <2>1, <2>9, <2>11
  <1>11. ASSUME NEW o \in Objects, Destroy(o) PROVE Goal
    <2>1. /\ pc[Primary] = "objects" /\ UNCHANGED <<pc, toSchedule>>
          /\ waiting' = waiting \ {o} /\ alive' = alive \ {o}
          /\ toUpdate' = toUpdate \ {o}
          /\ seqParallel' = Dropped(o, seqParallel)
      BY <1>11 DEF Destroy
    <2>2. /\ NoRepeat(seqParallel')
          /\ Listed(seqParallel') = J \ ({o} \X AllKinds)
      <3> DEFINE a == Erase(seqParallel, <<o, "level">>)
                 b == Erase(a, <<o, "detail">>)
                 c == Erase(b, <<o, "sound">>)
                 d == Erase(c, <<o, "vision">>)
                 e == Erase(d, <<o, "handler">>)
      <3>0. seqParallel' = e
        BY <2>1 DEF Dropped
      <3>1. a \in Seq(Jobs) /\ NoRepeat(a) /\ Listed(a) = J \ {<<o, "level">>}
        BY <1>2, <1>3, EraseListed
      <3> HIDE DEF a, J
      <3>2. b \in Seq(Jobs) /\ NoRepeat(b) /\ Listed(b) = Listed(a) \ {<<o, "detail">>}
        BY <3>1, EraseListed
      <3> HIDE DEF b
      <3>3. c \in Seq(Jobs) /\ NoRepeat(c) /\ Listed(c) = Listed(b) \ {<<o, "sound">>}
        BY <3>2, EraseListed
      <3> HIDE DEF c
      <3>4. d \in Seq(Jobs) /\ NoRepeat(d) /\ Listed(d) = Listed(c) \ {<<o, "vision">>}
        BY <3>3, EraseListed
      <3> HIDE DEF d
      <3>5. e \in Seq(Jobs) /\ NoRepeat(e) /\ Listed(e) = Listed(d) \ {<<o, "handler">>}
        BY <3>4, EraseListed
      <3> HIDE DEF e
      <3>6. Listed(e) = J \ ({o} \X AllKinds)
        BY <3>1, <3>2, <3>3, <3>4, <3>5 DEF AllKinds, Builds, Scheduled, ClientSide
      <3> QED BY <3>0, <3>5, <3>6
    <2> HIDE DEF J
    <2>3. JobsInv(Listed(seqParallel'), waiting \ {o}, alive \ {o})
      <3>1. /\ Listed(seqParallel') \subseteq J
            /\ J \ Listed(seqParallel') \subseteq {<<o, k>> : k \in AllKinds}
            /\ \A k \in AllKinds : <<o, k>> \notin Listed(seqParallel')
        BY <2>2
      <3>2. Builds \subseteq AllKinds /\ alive \subseteq (alive \ {o}) \cup {o}
        BY DEF AllKinds
      <3> QED BY <1>3, <3>1, <3>2, DropKeeps
    <2>4. MoveInv(Listed(seqParallel'), waiting \ {o}, alive \ {o}, toSchedule,
                  toUpdate \ {o}, pc[Primary])
      BY <1>2, <2>1, <2>2, <2>3 DEF MoveInv
    <2> QED BY <2>1, <2>2, <2>4
  <1> QED BY <1>4, <1>5, <1>6, <1>7, <1>8, <1>9, <1>10, <1>11 DEF FrameMove
------------------------------------------------------------------------------
\* A builder called lowers its object's flag, and no other builder of that
\* object is left on the list.
LEMMA CallKeepsListInv ==
  ASSUME LockInv, ListShape, ListInv, NEW t \in Threads, CallJob(t)
  PROVE  ListInv'
  <1> DEFINE n == Len(seqParallel)
             job == seqParallel[it[t] + 1]
  <1>1. /\ pc[t] = "pass" /\ it[t] < n /\ it' = [it EXCEPT ![t] = @ + 1]
        /\ waiting' = IF job[2] \in Builds THEN waiting \ {job[1]} ELSE waiting
        /\ UNCHANGED <<pc, seqParallel, alive, toSchedule, toUpdate>>
    BY DEF CallJob, At
  <1>2. n \in Nat /\ it \in [Threads -> Nat]
    BY LenProperties DEF ListShape
  <1>3. Called = it[t] /\ Called' = Called + 1
    BY <1>1, <1>2 DEF LockInv, Called, At, Moving
  <1>4. NoRepeat(seqParallel) /\ waiting \subseteq alive
    BY DEF ListInv
  <1>5. Called + 1 \in 1..n /\ job = seqParallel[Called + 1] /\ job \in Jobs
    BY <1>1, <1>2, <1>3, ElementOfSeq DEF ListShape
  <1> HIDE DEF n, job
  <1>6. ASSUME NEW o \in Objects
        PROVE  o \in waiting' <=> \E i \in (Called' + 1)..n : seqParallel[i] \in {o} \X Builds
    <2>1. o \in waiting <=> \E i \in (Called + 1)..n : seqParallel[i] \in {o} \X Builds
      BY DEF ListInv, WaitIffQueued, n
    <2>2. CASE job \in {o} \X Builds
      <3>1. o \notin waiting'
        BY <1>1, <2>2
      <3>2. ASSUME NEW i \in (Called' + 1)..n, seqParallel[i] \in {o} \X Builds PROVE FALSE
        <4>1. i \in 1..n /\ i # Called + 1 /\ Called + 1 \in 1..n
          BY <1>2, <1>3, <1>5
        <4>2. PICK j \in Builds, k \in Builds : job = <<o, j>> /\ seqParallel[i] = <<o, k>>
          BY <2>2, <3>2
        <4>3. <<o, j>> \in Listed(seqParallel) /\ <<o, k>> \in Listed(seqParallel)
          BY <4>1, <4>2, <1>5 DEF Listed, n
        <4>4. j = k
          BY <4>3 DEF ListInv, Builds
        <4> QED BY <1>4, <1>5, <4>1, <4>2, <4>4 DEF NoRepeat, n
      <3> QED BY <3>1, <3>2
    <2>3. CASE job \notin {o} \X Builds
      <3>1. o \in waiting' <=> o \in waiting
        <4>1. CASE job[2] \in Builds
          <5>1. job \in ObjectJobs
            BY <1>5, <4>1 DEF Jobs, RenderJobs, Builds
          <5>2. PICK x \in Objects, k \in Kinds : job = <<x, k>>
            BY <5>1 DEF ObjectJobs
          <5>3. x # o
            BY <2>3, <4>1, <5>2
          <5> QED BY <1>1, <4>1, <5>2, <5>3
        <4>2. CASE job[2] \notin Builds
          BY <1>1, <4>2
        <4> QED BY <4>1, <4>2
      <3>2. \A i \in (Called + 1)..n : i = Called + 1 \/ i \in (Called' + 1)..n
        BY <1>2, <1>3
      <3>3. \A i \in (Called' + 1)..n : i \in (Called + 1)..n
        BY <1>2, <1>3
      <3> QED BY <1>5, <2>1, <2>3, <3>1, <3>2, <3>3
    <2> QED BY <2>2, <2>3
  <1>7. WaitIffQueued'
    BY <1>1, <1>6 DEF WaitIffQueued, n
  <1>8. waiting' \subseteq waiting
    BY <1>1
  <1> QED BY <1>1, <1>4, <1>7, <1>8 DEF ListInv

LEMMA EndPassKeepsListInv ==
  ASSUME LockInv, ListShape, ListInv, NEW t \in Threads, NEW l, l # "pass",
         EndPass(t, l)
  PROVE  ListInv'
  <1>1. /\ pc[t] = "pass" /\ it[t] = Len(seqParallel) /\ seqParallel' = <<>>
        /\ UNCHANGED <<waiting, alive, toSchedule, toUpdate>>
    BY DEF EndPass, Step, At
  <1>2. it \in [Threads -> Nat] /\ Called = it[t]
    BY <1>1 DEF LockInv, ListShape, Called, At, Moving
  <1>3. (Called + 1)..Len(seqParallel) = {}
    BY <1>1, <1>2
  <1>4. waiting = {}
    BY <1>3 DEF ListInv, WaitIffQueued
  <1>5. toSchedule = {} /\ toUpdate = {}
    BY <1>1 DEF ListInv, LockInv, Moving
  <1>6. NoRepeat(<<>>) /\ Listed(<<>>) = {}
    BY DEF NoRepeat, Listed
  <1>7. \A k \in Nat : (k + 1)..Len(<<>>) = {}
    BY EmptySeq
  <1>8. it' \in [Threads -> Nat]
    BY <1>2 DEF EndPass
  <1>9. WaitIffQueued'
    <2>1. Called' \in Nat
      BY <1>8 DEF Called
    <2>2. ((Called + 1)..Len(seqParallel))' = {}
      BY <1>1, <1>7, <2>1
    <2> QED BY <1>1, <1>4, <2>2 DEF WaitIffQueued
  <1> QED BY <1>1, <1>4, <1>5, <1>6, <1>9 DEF ListInv

\* The other steps touch neither the list nor the flags.
LEMMA OtherKeepsListInv ==
  ASSUME LockInv, ListShape, ListInv, UNCHANGED <<game, it>>,
         Called' = Called,
         pc'[Primary] = pc[Primary] \/ pc[Primary] \notin Moving,
         pc'[Primary] \notin Moving \/ pc'[Primary] = pc[Primary]
  PROVE  ListInv'
  <1>1. UNCHANGED <<seqParallel, waiting, alive, toSchedule, toUpdate>>
    BY DEF game
  <1>2. WaitIffQueued'
    BY <1>1 DEF ListInv, WaitIffQueued
  <1>3. ~ (pc'[Primary] \in {"sheduler", "level"}) \/ pc'[Primary] = pc[Primary]
    BY DEF Moving
  <1>4. /\ toSchedule # {} => pc'[Primary] = "sheduler"
        /\ toUpdate # {} => pc'[Primary] = "objects"
    BY DEF ListInv, Moving
  <1> QED BY <1>1, <1>2, <1>3, <1>4 DEF ListInv

LEMMA ListInvStep ==
  LockInv /\ FrameInv /\ ListShape /\ ListInv /\ [Next]_vars => ListInv'
  <1> SUFFICES ASSUME LockInv, FrameInv, ListShape, ListInv, [Next]_vars PROVE ListInv'
    OBVIOUS
  <1>0. pc \in [Threads -> PrimaryPC \cup SecondaryPC] /\ it \in [Threads -> Nat]
    BY DEF LockInv, ListShape
  <1>1. CASE FrameMove
    <2>1. LockInv' /\ FrameInv' /\ ListShape'
      BY LockInvStep, FrameInvStep, ListShapeStep
    <2>2. pc'[Primary] \in {"pump", "lock_leave"} \cup Moving
      BY <1>0, <1>1 DEF LockInv, FrameMove, BeginFrame, EndSheduler, BeginObjects,
                        EndMove, ScheduleUpdate, Spawn, RestrictionsChange, UpdateCL,
                        Destroy, Moving, At, Goto, Step
    <2>3. /\ NoRepeat(seqParallel')
          /\ MoveInv(Listed(seqParallel'), waiting', alive', toSchedule', toUpdate',
                     pc'[Primary])
      BY <1>1, MoveKeepsListInv
    <2>4. (/\ LockInv /\ FrameInv /\ ListShape
           /\ pc[Primary] \in {"pump", "lock_leave"} \cup Moving)'
          => (ListInv <=> /\ NoRepeat(seqParallel)
                          /\ MoveInv(Listed(seqParallel), waiting, alive,
                                     toSchedule, toUpdate, pc[Primary]))'
      BY MovingListInv, PTL
    <2> QED BY <2>1, <2>2, <2>3, <2>4
  <1>2. CASE \E t \in Threads : CallJob(t)
    BY <1>2, CallKeepsListInv
  <1>3. CASE EndPass(Primary, "pump") \/ EndPass(Secondary, "unlock_enter")
    BY <1>3, EndPassKeepsListInv
  <1>4. CASE StartThreads \/ Quit \/ Exit
    <2>1. UNCHANGED <<game, it>> /\ Called' = Called
      BY <1>0, <1>4 DEF StartThreads, Quit, Exit, UnlockEnter, SpinEnds, rest, Called,
                        At, Goto, Step, LockInv
    <2>2. pc[Primary] \notin Moving /\ pc'[Primary] \notin Moving
      BY <1>0, <1>4 DEF StartThreads, Quit, Exit, UnlockEnter, SpinEnds, Moving,
                        At, Goto, Step
    <2> QED BY <2>1, <2>2, OtherKeepsListInv
  <1>5. CASE \/ LockLeave(Primary, "lock_leave", "unlock_enter")
             \/ UnlockEnter(Primary, "unlock_enter", "render")
             \/ Render
             \/ LockEnter(Primary, "lock_enter", "unlock_leave")
             \/ UnlockLeave(Primary, "unlock_leave", "check")
             \/ CheckMarker
    <2>1. UNCHANGED <<game, it>> /\ Called' = Called
      BY <1>0, <1>5 DEF LockLeave, UnlockEnter, Render, LockEnter, UnlockLeave,
                        CheckMarker, rest, Called, At, Goto, Step
    <2>2. pc[Primary] \notin Moving /\ pc'[Primary] \notin Moving
      BY <1>0, <1>5 DEF LockLeave, UnlockEnter, Render, LockEnter, UnlockLeave,
                        CheckMarker, Moving, At, Goto, Step
    <2> QED BY <2>1, <2>2, OtherKeepsListInv
  <1>6. CASE \/ LockEnter(Secondary, "lock_enter", "granted")
             \/ UnlockEnter(Secondary, "unlock_enter", "lock_leave")
             \/ LockLeave(Secondary, "lock_leave", "unlock_leave")
             \/ UnlockLeave(Secondary, "unlock_leave", "lock_enter")
             \/ UnlockEnter(Secondary, "exit", "done")
             \/ Granted
    <2>1. UNCHANGED <<game, it>> /\ pc'[Primary] = pc[Primary]
      BY <1>0, <1>6 DEF LockEnter, UnlockEnter, LockLeave, UnlockLeave, Granted, rest,
                        At, Goto, Step
    <2>2. pc[Secondary] # "pass" /\ (pc'[Secondary] = "pass" => pc[Secondary] = "granted")
      BY <1>0, <1>6 DEF LockEnter, UnlockEnter, LockLeave, UnlockLeave, Granted,
                        At, Goto, Step
    <2>3. pc[Secondary] = "granted" => pc[Primary] # "pass"
      BY DEF LockInv, Moving
    <2>4. \A t \in Threads : pc[t] # "pass" => it[t] = 0
      BY DEF ListShape
    <2>5. Called' = Called
      BY <2>1, <2>2, <2>3, <2>4 DEF Called, At
    <2> QED BY <2>1, <2>5, OtherKeepsListInv
  <1>7. CASE UNCHANGED vars
    BY <1>7, OtherKeepsListInv DEF vars, Called, At
  <1> QED
    BY <1>1, <1>2, <1>3, <1>4, <1>5, <1>6, <1>7
    DEF Next, Run, Terminated, Handoff, mt_Thread

LEMMA ListInvInit == Init => ListInv
  <1> SUFFICES ASSUME Init PROVE ListInv
    OBVIOUS
  <1>1. /\ seqParallel = <<>> /\ waiting = {} /\ alive = {} /\ toSchedule = {} /\ toUpdate = {}
        /\ Called = 0
    BY DEF Init, Called, At
  <1>2. Listed(<<>>) = {} /\ NoRepeat(<<>>) /\ 1..Len(<<>>) = {}
    BY DEF Listed, NoRepeat
  <1>3. WaitIffQueued
    BY <1>1, <1>2 DEF WaitIffQueued
  <1> QED BY <1>1, <1>2, <1>3 DEF ListInv
------------------------------------------------------------------------------
\* Everything that holds in every state of the frame loop.
IInv == LockInv /\ FrameInv /\ ListShape /\ ListInv

THEOREM InductiveInvariant == Spec => []IInv
  <1>1. Init => IInv
    BY LockInvInit, FrameInvInit, ListShapeInit, ListInvInit DEF IInv
  <1>2. IInv /\ [Next]_vars => IInv'
    BY LockInvStep, FrameInvStep, ListShapeStep, ListInvStep DEF IInv
  <1> QED BY <1>1, <1>2, PTL DEF Spec

THEOREM TypeCorrect == Spec => []TypeOK
  <1>1. IInv => TypeOK
    <2> SUFFICES ASSUME IInv PROVE TypeOK
      OBVIOUS
    <2>1. pc \in [Threads -> PrimaryPC \cup SecondaryPC]
      BY DEF IInv, LockInv
    <2>2. /\ dwFrame \in 0..MaxFrame /\ passes \in 0..MaxFrame
          /\ marker \in (0..MaxFrame) \cup {InitialMarker}
      BY FrameSyncAssumption DEF IInv, FrameInv
    <2> QED BY <2>1, <2>2 DEF IInv, LockInv, ListShape, ListInv, TypeOK
  <1> QED BY <1>1, InductiveInvariant, PTL

\* No delegate of a destroyed object is called.
THEOREM CalledAlive == Spec => []NoDeadCall
  <1>1. IInv => NoDeadCall
    <2> SUFFICES ASSUME IInv, NEW i \in (Called + 1)..Len(seqParallel),
                        seqParallel[i] \in ObjectJobs
                 PROVE  seqParallel[i][1] \in alive
      BY DEF NoDeadCall
    <2>1. Called \in Nat /\ Len(seqParallel) \in Nat
      BY LenProperties DEF IInv, ListShape, Called
    <2>2. i \in 1..Len(seqParallel)
      BY <2>1
    <2>3. seqParallel[i] \in Listed(seqParallel)
      BY <2>2 DEF Listed
    <2> QED BY <2>3 DEF IInv, ListInv
  <1> QED BY <1>1, InductiveInvariant, PTL

\* The wait flag of a movement manager is up exactly while a builder is pending.
THEOREM FlagMeansPending == Spec => []WaitIffQueued
  <1>1. IInv => WaitIffQueued
    BY DEF IInv, ListInv
  <1> QED BY <1>1, InductiveInvariant, PTL

\* The pass of each frame happens once, before the next frame begins.
THEOREM OnePass == Spec => OnePassPerFrame
  <1>1. IInv /\ [Next]_vars
        => [/\ passes' # passes => passes' = dwFrame
            /\ dwFrame' # dwFrame => passes = dwFrame]_vars
    <2> SUFFICES ASSUME IInv, [Next]_vars
                 PROVE  /\ passes' # passes => passes' = dwFrame
                        /\ dwFrame' # dwFrame => passes = dwFrame
      OBVIOUS
    <2> USE DEF At, Goto, Step
    <2>1. CASE FrameMove
      <3>1. /\ passes' = passes
            /\ dwFrame' # dwFrame => pc[Primary] = "pump"
        BY <2>1 DEF FrameMove, BeginFrame, EndSheduler, BeginObjects, EndMove,
                    ScheduleUpdate, Spawn, RestrictionsChange, UpdateCL, Destroy
      <3> QED BY <3>1 DEF IInv, FrameInv
    <2>2. ASSUME NEW t \in Threads, NEW l, EndPass(t, l)
          PROVE  passes' = dwFrame /\ dwFrame' = dwFrame
      BY <2>2 DEF EndPass, IInv, FrameInv
    <2>3. CASE UNCHANGED <<dwFrame, passes>>
      BY <2>3
    <2> QED
      BY <2>1, <2>2, <2>3
      DEF Next, Run, Terminated, Handoff, Exit, mt_Thread, StartThreads, LockEnter,
          UnlockEnter, LockLeave, UnlockLeave, Render, CheckMarker, CallJob, Quit,
          SpinEnds, Granted, rest, vars
  <1> QED BY <1>1, InductiveInvariant, PTL DEF Spec, OnePassPerFrame
------------------------------------------------------------------------------
\* The two-thread loop implements FrameWork: a step of FrameMove changes its list,
\* a call of either thread runs a job, the end of either pass ends the work, and
\* every step of the mutexes stutters.
LEMMA WorkInit == Init => Work!Init
  BY DEF Init, Work!Init, Called, Phase, At, Moving

LEMMA WorkStep == IInv /\ [Next]_vars => [Work!Next]_(Work!vars)
  <1> SUFFICES ASSUME IInv, [Next]_vars PROVE [Work!Next]_(Work!vars)
    OBVIOUS
  <1> USE DEF At, Goto, Step
  <1>0. /\ pc \in [Threads -> PrimaryPC \cup SecondaryPC] /\ it \in [Threads -> Nat]
        /\ LockInv /\ FrameInv /\ ListShape
    BY DEF IInv, LockInv, ListShape
  <1>1. CASE FrameMove
    <2>1. Called = 0 /\ pc[Secondary] # "pass"
      <3>1. pc[Primary] \in {"pump"} \cup Moving
        BY <1>1 DEF FrameMove, BeginFrame, EndSheduler, BeginObjects, EndMove,
                    ScheduleUpdate, Spawn, RestrictionsChange, UpdateCL, Destroy, Moving
      <3> QED BY <1>0, <3>1, MovingList
    <2>2. /\ Called' = Called /\ UNCHANGED passes
      BY <1>0, <1>1, <2>1
      DEF FrameMove, BeginFrame, EndSheduler, BeginObjects, EndMove, ScheduleUpdate,
          Spawn, RestrictionsChange, UpdateCL, Destroy, Called
    <2>3. seqParallel' \in Seq(Jobs)
      BY <1>0, <1>1, MoveKeepsJobs DEF ListShape
    <2>4. CASE BeginFrame
      BY <1>0, <2>2, <2>3, <2>4
      DEF BeginFrame, Work!Next, Work!BeginFrame, Phase, FrameInv, Moving
    <2>5. CASE EndMove
      BY <1>0, <2>2, <2>5 DEF EndMove, Work!Next, Work!EndMove, Phase, FrameInv, Moving
    <2>6. CASE EndSheduler \/ BeginObjects
      BY <1>0, <2>2, <2>6 DEF EndSheduler, BeginObjects, Work!vars, Phase, Moving
    <2>7. ASSUME NEW o \in Objects,
                 ScheduleUpdate(o) \/ Spawn(o) \/ RestrictionsChange(o)
                   \/ UpdateCL(o) \/ Destroy(o)
          PROVE  Work!ChangeList
      BY <2>2, <2>3, <2>7 DEF ScheduleUpdate, Spawn, RestrictionsChange, UpdateCL,
                              Destroy, Work!ChangeList, Phase, Moving
    <2> QED BY <1>1, <2>4, <2>5, <2>6, <2>7 DEF FrameMove, Work!Next
  <1>2. ASSUME NEW t \in Threads, CallJob(t) PROVE Work!RunJob
    <2>1. /\ pc[t] = "pass" /\ it[t] < Len(seqParallel) /\ it' = [it EXCEPT ![t] = @ + 1]
          /\ UNCHANGED <<pc, seqParallel, dwFrame, passes>>
      BY <1>2 DEF CallJob
    <2>2. Called = it[t] /\ Called' = Called + 1
      BY <1>0, <2>1 DEF LockInv, Called, Moving
    <2>3. Phase = "work" /\ Phase' = Phase
      BY <1>0, <2>1 DEF LockInv, FrameInv, Phase, Moving
    <2> QED BY <2>1, <2>2, <2>3 DEF Work!RunJob
  <1>3. ASSUME NEW t \in Threads, NEW l, EndPass(t, l), l = "pump" \/ t = Secondary,
               l \notin Moving \cup {"pass"}
        PROVE  Work!EndWork
    <2>1. /\ pc[t] = "pass" /\ it[t] = Len(seqParallel) /\ it' = [it EXCEPT ![t] = 0]
          /\ pc' = [pc EXCEPT ![t] = l] /\ seqParallel' = <<>> /\ passes' = passes + 1
          /\ dwFrame' = dwFrame
      BY <1>3 DEF EndPass
    <2>2. Called = it[t]
      BY <1>0, <2>1 DEF LockInv, Called, Moving
    <2>3. Called' = 0
      <3>1. \A u \in Threads : pc[u] = "pass" => u = t
        BY <1>0, <2>1 DEF LockInv, Moving
      <3>2. \A u \in Threads : pc[u] # "pass" => it[u] = 0
        BY <1>0 DEF ListShape
      <3>3. \A u \in Threads : it'[u] = 0
        BY <1>0, <2>1, <3>1, <3>2
      <3> QED BY <3>3 DEF Called
    <2>4. Phase = "work" /\ Phase' = "idle"
      BY <1>0, <1>3, <2>1 DEF LockInv, FrameInv, Phase, Moving
    <2> QED BY <2>1, <2>2, <2>3, <2>4 DEF Work!EndWork
  <1>4. CASE \/ StartThreads \/ Quit \/ Exit
             \/ LockLeave(Primary, "lock_leave", "unlock_enter")
             \/ UnlockEnter(Primary, "unlock_enter", "render")
             \/ Render
             \/ LockEnter(Primary, "lock_enter", "unlock_leave")
             \/ UnlockLeave(Primary, "unlock_leave", "check")
             \/ CheckMarker
    <2>1. /\ UNCHANGED <<seqParallel, it, dwFrame, passes>> /\ Called' = Called
      BY <1>0, <1>4 DEF StartThreads, Quit, Exit, UnlockEnter, SpinEnds, LockLeave,
                        Render, LockEnter, UnlockLeave, CheckMarker, rest, game, Called,
                        LockInv
    <2>2. pc[Primary] \notin Moving /\ pc'[Primary] \notin Moving
      BY <1>0, <1>4 DEF StartThreads, Quit, Exit, UnlockEnter, SpinEnds, LockLeave,
                        Render, LockEnter, UnlockLeave, CheckMarker, Moving
    <2> QED BY <2>1, <2>2 DEF Work!vars, Phase, Moving
  <1>5. CASE \/ LockEnter(Secondary, "lock_enter", "granted")
             \/ UnlockEnter(Secondary, "unlock_enter", "lock_leave")
             \/ LockLeave(Secondary, "lock_leave", "unlock_leave")
             \/ UnlockLeave(Secondary, "unlock_leave", "lock_enter")
             \/ UnlockEnter(Secondary, "exit", "done")
             \/ Granted
    <2>1. /\ UNCHANGED <<seqParallel, it, dwFrame, passes>>
          /\ pc'[Primary] = pc[Primary]
      BY <1>0, <1>5 DEF LockEnter, UnlockEnter, LockLeave, UnlockLeave, Granted, rest,
                        game
    <2>2. pc[Secondary] # "pass" /\ (pc'[Secondary] = "pass" => pc[Secondary] = "granted")
      BY <1>0, <1>5 DEF LockEnter, UnlockEnter, LockLeave, UnlockLeave, Granted
    <2>3. pc[Secondary] = "granted" => pc[Primary] # "pass"
      BY <1>0 DEF LockInv, Moving
    <2>4. \A t \in Threads : pc[t] # "pass" => it[t] = 0
      BY <1>0 DEF ListShape
    <2>5. Called' = Called
      BY <2>1, <2>2, <2>3, <2>4 DEF Called
    <2> QED BY <2>1, <2>5 DEF Work!vars, Phase
  <1>6. CASE UNCHANGED vars
    BY <1>6 DEF vars, game, Work!vars, Called, Phase
  <1> QED
    BY <1>1, <1>2, <1>3, <1>4, <1>5, <1>6
    DEF Next, Run, Terminated, Handoff, mt_Thread, Work!Next, Moving

THEOREM ImplementsFrameWork == Spec => WorkSpec
  <1> QED BY InductiveInvariant, WorkInit, WorkStep, PTL DEF Spec, WorkSpec, Work!Spec
==============================================================================
