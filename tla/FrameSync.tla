------------------------------ MODULE FrameSync ------------------------------
(***************************************************************************)
(* The two-thread frame loop of xrEngine/device.cpp: CRenderDevice::Run on *)
(* the "X-RAY Primary thread", mt_Thread on the "X-RAY Secondary thread",  *)
(* the mutexes mt_csEnter and mt_csLeave that hand the frame from one to   *)
(* the other, the marker that tells the primary whether the secondary got  *)
(* its turn, and the list seqParallel of delegates that the renderer and   *)
(* the game objects defer while the primary is in FrameMove.               *)
(*                                                                         *)
(* The mutexes are recursive in the code, but no thread locks one it owns: *)
(* a lock is taken here only when free, so a thread that locked a mutex    *)
(* twice would be a deadlock of this model.                                *)
(***************************************************************************)
EXTENDS Naturals, Sequences, Vectors

CONSTANTS Objects,        \* the monsters and stalkers of the level
          Kinds,          \* which of AllKinds the objects defer
          MaxFrame,       \* bound on dwFrame
          InitialMarker   \* 0x12345678, a frame number out of reach

\* What an object defers: the two path builders of its movement manager,
\* Exec_Visibility, update_sound_player and update_object_handler.
Builds     == {"level", "detail"}
Scheduled  == {"vision"}
ClientSide == {"sound", "handler"}
AllKinds   == Builds \cup Scheduled \cup ClientSide

ASSUME FrameSyncAssumption ==
  /\ Kinds \subseteq AllKinds
  /\ MaxFrame \in Nat
  /\ InitialMarker \in Nat /\ InitialMarker > MaxFrame

ObjectJobs == Objects \X Kinds
RenderJobs == {<<"render", "hom">>, <<"render", "details">>}
Jobs       == ObjectJobs \cup RenderJobs

Primary   == "primary"
Secondary == "secondary"
Threads   == {Primary, Secondary}
NoThread  == "none"

VARIABLES pc,           \* where each thread is
          enter,        \* owner of mt_csEnter, or NoThread
          leave,        \* owner of mt_csLeave, or NoThread
          mustExit,     \* mt_bMustExit
          dwFrame,      \* Device.dwFrame
          marker,       \* mt_Thread_marker
          seqParallel,  \* the deferred delegates
          it,           \* per thread: delegates already called in its pass
          waiting,      \* objects with m_wait_for_distributed_computation
          alive,        \* objects that are spawned
          toSchedule,   \* objects whose shedule_Update may still run this frame
          toUpdate,     \* objects whose UpdateCL may still run this frame
          passes        \* history: the seqFrameMT passes so far

locks == <<enter, leave>>
game  == <<seqParallel, waiting, alive, toSchedule, toUpdate>>
vars  == <<pc, locks, mustExit, dwFrame, marker, it, game, passes>>

At(t, l)      == pc[t] = l
Goto(t, l)    == pc' = [pc EXCEPT ![t] = l]
Step(t, l, m) == At(t, l) /\ Goto(t, m)

Init == /\ pc = [t \in Threads |-> IF t = Primary THEN "start" ELSE "unspawned"]
        /\ enter = NoThread /\ leave = NoThread
        /\ mustExit = FALSE
        /\ dwFrame = 0 /\ marker = InitialMarker
        /\ seqParallel = <<>> /\ it = [t \in Threads |-> 0]
        /\ waiting = {} /\ alive = {} /\ toSchedule = {} /\ toUpdate = {}
        /\ passes = 0
------------------------------------------------------------------------------
(* The pass over the deferred work, the same in both threads: the delegates *)
(* one by one, then the list is cleared and seqFrameMT is processed.        *)

\* process() of a path builder lowers the flag its movement manager waits on.
CallJob(t) ==
  /\ At(t, "pass") /\ it[t] < Len(seqParallel)
  /\ it' = [it EXCEPT ![t] = @ + 1]
  /\ LET job == seqParallel[it[t] + 1]
     IN waiting' = IF job[2] \in Builds THEN waiting \ {job[1]} ELSE waiting
  /\ UNCHANGED <<pc, locks, mustExit, dwFrame, marker, seqParallel, alive,
                 toSchedule, toUpdate, passes>>

\* Defect: the pass does not clear seqParallel.
EndPass_KeepsList(t, l) ==
  /\ Step(t, "pass", l) /\ it[t] = Len(seqParallel)
  /\ it' = [it EXCEPT ![t] = 0]
  /\ passes' = passes + 1
  /\ UNCHANGED <<locks, mustExit, dwFrame, marker, seqParallel, waiting, alive,
                 toSchedule, toUpdate>>

EndPass(t, l) ==
  /\ Step(t, "pass", l) /\ it[t] = Len(seqParallel)
  /\ it' = [it EXCEPT ![t] = 0]
  /\ seqParallel' = <<>>
  /\ passes' = passes + 1
  /\ UNCHANGED <<locks, mustExit, dwFrame, marker, waiting, alive, toSchedule,
                 toUpdate>>
------------------------------------------------------------------------------
(* What the primary does to the list in FrameMove; remove_from_seq_parallel *)
(* is Erase of Vectors.                                                     *)

\* update_path: nothing while a path is being built, else it may set up one of
\* the two builders, which raises the flag both share.
MayBuild(o, s, s2, w, w2) ==
  \/ s2 = s /\ w2 = w
  \/ \E k \in Kinds \cap Builds : /\ o \notin w
                                  /\ s2 = Append(s, <<o, k>>)
                                  /\ w2 = w \cup {o}

\* The list after an object that is alive, with the g_mt_config bit of k set,
\* defers k; a dead one, or one that runs k itself, leaves the list alone.
MayDefer(o, k, s) ==
  {s} \cup IF k \in Kinds THEN {Append(s, <<o, k>>)} ELSE {}

\* clear_path removes the detail builder only; the flag is down afterwards
\* whichever builder raised it.
ClearPath(o, clear, s) == IF clear THEN Erase(s, <<o, "detail">>) ELSE s
ClearFlag(o, clear, w) == IF clear THEN w \ {o} ELSE w

\* FrameMove starts: the renderer, first in seqFrame, puts its two jobs at the
\* front of the list when R2FLAG_EXP_MT_CALC is set.
BeginFrame ==
  /\ Step(Primary, "pump", "sheduler") /\ dwFrame < MaxFrame
  /\ dwFrame' = dwFrame + 1
  /\ toSchedule' = alive /\ toUpdate' = {}
  /\ \/ UNCHANGED seqParallel
     \/ seqParallel' =
          <<<<"render", "hom">>, <<"render", "details">>>> \o seqParallel
  /\ UNCHANGED <<locks, mustExit, marker, it, waiting, alive, passes>>

\* shedule_Update of an object, run by the scheduler at most once a frame:
\* vision is deferred, the brain may enter combat and clear the path, then the
\* movement manager updates it.
ScheduleUpdate(o) ==
  /\ At(Primary, "sheduler") /\ o \in toSchedule
  /\ toSchedule' = toSchedule \ {o}
  /\ \E seen \in MayDefer(o, "vision", seqParallel), clear \in BOOLEAN :
       MayBuild(o, ClearPath(o, clear, seen), seqParallel',
                ClearFlag(o, clear, waiting), waiting')
  /\ UNCHANGED <<pc, locks, mustExit, dwFrame, marker, it, alive, toUpdate,
                 passes>>

\* The scheduler is done (or was skipped: paused); CLevel::OnFrame starts.
EndSheduler ==
  /\ Step(Primary, "sheduler", "level")
  /\ toSchedule' = {}
  /\ UNCHANGED <<locks, mustExit, dwFrame, marker, it, seqParallel, waiting,
                 alive, toUpdate, passes>>

\* A spawn message handled in CLevel::OnFrame, before the objects are updated.
Spawn(o) ==
  /\ At(Primary, "level") /\ o \notin alive
  /\ alive' = alive \cup {o}
  /\ UNCHANGED <<pc, locks, mustExit, dwFrame, marker, it, seqParallel, waiting,
                 toSchedule, toUpdate, passes>>

\* Defect: only the level path builder is removed.
RestrictionsChange_LevelOnly(o) ==
  /\ pc[Primary] \in {"sheduler", "level", "objects"} /\ o \in alive
  /\ waiting' = waiting \ {o}
  /\ seqParallel' = Erase(seqParallel, <<o, "level">>)
  /\ UNCHANGED <<pc, locks, mustExit, dwFrame, marker, it, alive, toSchedule,
                 toUpdate, passes>>

\* A change of the space restrictions drops both builders of the object.
RestrictionsChange(o) ==
  /\ pc[Primary] \in {"sheduler", "level", "objects"} /\ o \in alive
  /\ waiting' = waiting \ {o}
  /\ seqParallel' = Erase(Erase(seqParallel, <<o, "level">>), <<o, "detail">>)
  /\ UNCHANGED <<pc, locks, mustExit, dwFrame, marker, it, alive, toSchedule,
                 toUpdate, passes>>

BeginObjects ==
  /\ Step(Primary, "level", "objects")
  /\ toUpdate' = alive
  /\ UNCHANGED <<locks, mustExit, dwFrame, marker, it, seqParallel, waiting,
                 alive, toSchedule, passes>>

\* UpdateCL of an object, at most once a frame.
UpdateCL(o) ==
  /\ At(Primary, "objects") /\ o \in toUpdate
  /\ toUpdate' = toUpdate \ {o}
  /\ \E heard \in MayDefer(o, "sound", seqParallel) :
       \E handled \in MayDefer(o, "handler", heard) :
         MayBuild(o, handled, seqParallel', waiting, waiting')
  /\ UNCHANGED <<pc, locks, mustExit, dwFrame, marker, it, alive, toSchedule,
                 passes>>

\* Defect: net_Destroy forgets Exec_Visibility.
Dropped_NoVision(o, s) ==
  Erase(Erase(Erase(Erase(s, <<o, "level">>), <<o, "detail">>),
              <<o, "sound">>), <<o, "handler">>)

\* net_Destroy of an object, at the end of CObjectList::Update: its movement
\* manager drops the builders, the monster its other delegates.
Dropped(o, s) ==
  Erase(Erase(Erase(Erase(Erase(s, <<o, "level">>), <<o, "detail">>),
                    <<o, "sound">>), <<o, "vision">>), <<o, "handler">>)

Destroy(o) ==
  /\ At(Primary, "objects") /\ o \in alive
  /\ alive' = alive \ {o} /\ toUpdate' = toUpdate \ {o}
  /\ waiting' = waiting \ {o}
  /\ seqParallel' = Dropped(o, seqParallel)
  /\ UNCHANGED <<pc, locks, mustExit, dwFrame, marker, it, toSchedule,
                 passes>>

EndMove ==
  /\ Step(Primary, "objects", "lock_leave")
  /\ toUpdate' = {}
  /\ UNCHANGED <<locks, mustExit, dwFrame, marker, it, seqParallel, waiting,
                 alive, toSchedule, passes>>
------------------------------------------------------------------------------
(* The primary thread: CRenderDevice::Run.                                  *)

rest == <<mustExit, dwFrame, marker, it, game, passes>>

StartThreads ==
  /\ At(Primary, "start") /\ enter = NoThread
  /\ enter' = Primary
  /\ mustExit' = FALSE
  /\ pc' = [pc EXCEPT ![Primary] = "pump", ![Secondary] = "lock_enter"]
  /\ UNCHANGED <<leave, dwFrame, marker, it, game, passes>>

LockEnter(t, l, m) ==
  /\ Step(t, l, m) /\ enter = NoThread /\ enter' = t
  /\ UNCHANGED <<leave, rest>>

UnlockEnter(t, l, m) ==
  /\ Step(t, l, m) /\ enter' = NoThread
  /\ UNCHANGED <<leave, rest>>

LockLeave(t, l, m) ==
  /\ Step(t, l, m) /\ leave = NoThread /\ leave' = t
  /\ UNCHANGED <<enter, rest>>

UnlockLeave(t, l, m) ==
  /\ Step(t, l, m) /\ leave' = NoThread
  /\ UNCHANGED <<enter, rest>>

\* Everything between the release of the secondary and its suspension.
Render == Step(Primary, "render", "lock_enter") /\ UNCHANGED <<locks, rest>>

\* Defect: the primary works whether the secondary did or not.
CheckMarker_Always ==
  Step(Primary, "check", "pass") /\ UNCHANGED <<locks, rest>>

\* "Ensure, that second thread gets chance to execute anyway"
CheckMarker ==
  /\ Step(Primary, "check", IF dwFrame # marker THEN "pass" ELSE "pump")
  /\ UNCHANGED <<locks, rest>>

\* WM_QUIT: the loop ends and the secondary is told to exit.
Quit ==
  /\ Step(Primary, "pump", "exit")
  /\ mustExit' = TRUE
  /\ UNCHANGED <<locks, dwFrame, marker, it, game, passes>>

\* while (mt_bMustExit) Sleep(0), and Run returns.
SpinEnds ==
  /\ Step(Primary, "spin", "done") /\ ~mustExit
  /\ UNCHANGED <<locks, rest>>

FrameMove ==
  \/ BeginFrame \/ EndSheduler \/ BeginObjects \/ EndMove
  \/ \E o \in Objects : \/ ScheduleUpdate(o) \/ Spawn(o)
                        \/ RestrictionsChange(o) \/ UpdateCL(o) \/ Destroy(o)

\* Defect: the primary does not take mt_csEnter back after the rendering.
Handoff_NoRelock ==
  \/ LockLeave(Primary, "lock_leave", "unlock_enter")
  \/ UnlockEnter(Primary, "unlock_enter", "render")
  \/ Render
  \/ Step(Primary, "lock_enter", "unlock_leave") /\ UNCHANGED <<locks, rest>>
  \/ UnlockLeave(Primary, "unlock_leave", "check")
  \/ CheckMarker
  \/ CallJob(Primary) \/ EndPass(Primary, "pump")

Handoff ==
  \/ LockLeave(Primary, "lock_leave", "unlock_enter")
  \/ UnlockEnter(Primary, "unlock_enter", "render")
  \/ Render
  \/ LockEnter(Primary, "lock_enter", "unlock_leave")
  \/ UnlockLeave(Primary, "unlock_leave", "check")
  \/ CheckMarker
  \/ CallJob(Primary) \/ EndPass(Primary, "pump")

Exit == UnlockEnter(Primary, "exit", "spin") \/ SpinEnds

Run == StartThreads \/ FrameMove \/ Handoff \/ Quit \/ Exit
------------------------------------------------------------------------------
(* The secondary thread: mt_Thread.                                         *)

\* Defect: the secondary exits without acknowledging mt_bMustExit.
Granted_NoAck ==
  /\ At(Secondary, "granted")
  /\ IF mustExit
     THEN Goto(Secondary, "exit") /\ UNCHANGED marker
     ELSE marker' = dwFrame /\ Goto(Secondary, "pass")
  /\ UNCHANGED <<locks, mustExit, dwFrame, it, game, passes>>

\* With mt_csEnter locked: leave if told to, else mark the frame and work.
Granted ==
  /\ At(Secondary, "granted")
  /\ IF mustExit
     THEN mustExit' = FALSE /\ Goto(Secondary, "exit") /\ UNCHANGED marker
     ELSE marker' = dwFrame /\ Goto(Secondary, "pass") /\ UNCHANGED mustExit
  /\ UNCHANGED <<locks, dwFrame, it, game, passes>>

mt_Thread ==
  \/ LockEnter(Secondary, "lock_enter", "granted")
  \/ Granted
  \/ CallJob(Secondary) \/ EndPass(Secondary, "unlock_enter")
  \/ UnlockEnter(Secondary, "unlock_enter", "lock_leave")
  \/ LockLeave(Secondary, "lock_leave", "unlock_leave")
  \/ UnlockLeave(Secondary, "unlock_leave", "lock_enter")
  \/ UnlockEnter(Secondary, "exit", "done")

\* Both threads have returned.
Terminated == (\A t \in Threads : At(t, "done")) /\ UNCHANGED vars

Next == Run \/ mt_Thread \/ Terminated

\* Both threads are scheduled, seqFrame.Process returns, and a thread waiting
\* for a free mutex gets it unless the other takes it again and again; nothing
\* obliges the user to start a frame, an object to appear or WM_QUIT to come.
Fairness ==
  /\ WF_vars(StartThreads) /\ WF_vars(EndSheduler) /\ WF_vars(BeginObjects)
  /\ WF_vars(EndMove) /\ WF_vars(Handoff) /\ WF_vars(Exit) /\ WF_vars(mt_Thread)

Spec     == Init /\ [][Next]_vars
FairSpec == Spec /\ Fairness
------------------------------------------------------------------------------
(* Properties.                                                              *)

\* Where the threads can be; Moving: the primary is in seqFrame.Process.
Moving      == {"sheduler", "level", "objects"}
PrimaryPC   == {"start", "pump", "lock_leave", "unlock_enter", "render",
                "lock_enter", "unlock_leave", "check", "pass", "exit", "spin",
                "done"} \cup Moving
SecondaryPC == {"unspawned", "lock_enter", "granted", "pass", "unlock_enter",
                "lock_leave", "unlock_leave", "exit", "done"}

TypeOK ==
  /\ pc \in [Threads -> PrimaryPC \cup SecondaryPC]
  /\ enter \in Threads \cup {NoThread} /\ leave \in Threads \cup {NoThread}
  /\ mustExit \in BOOLEAN
  /\ dwFrame \in 0..MaxFrame /\ passes \in 0..MaxFrame
  /\ marker \in (0..MaxFrame) \cup {InitialMarker}
  /\ seqParallel \in Seq(Jobs) /\ it \in [Threads -> Nat]
  /\ waiting \subseteq Objects /\ alive \subseteq Objects
  /\ toSchedule \subseteq Objects /\ toUpdate \subseteq Objects

\* The number of delegates of the list that have been called.
Called == IF At(Secondary, "pass") THEN it[Secondary] ELSE it[Primary]

\* The two threads never work on the frame's data (the frame number, the list,
\* the game objects) at the same time: the mutexes carry the frame from one to
\* the other although neither is held by the same thread throughout.
Exclusive ==
  ~ /\ pc[Primary] \in Moving \cup {"pump", "check", "pass"}
    /\ pc[Secondary] \in {"granted", "pass"}

\* A delegate still to be called is bound to an object that is still there:
\* net_Destroy erases one entry per delegate, so no delegate may be on the list
\* twice whatever the order of updates, restriction changes and cleared paths.
NoDeadCall ==
  \A i \in (Called + 1)..Len(seqParallel) :
    seqParallel[i] \in ObjectJobs => seqParallel[i][1] \in alive

\* An object waits for a path exactly while one of its builders is still to be
\* called, so no object waits for ever and no path is built behind its back.
WaitIffQueued ==
  \A o \in Objects :
    o \in waiting <=> \E i \in (Called + 1)..Len(seqParallel) :
                         seqParallel[i] \in {o} \X Builds

\* The work deferred in a frame is done by exactly one pass, in that frame: the
\* secondary's, or the primary's when the secondary did not get its turn.
OnePassPerFrame ==
  [][/\ passes' # passes => passes' = dwFrame
     /\ dwFrame' # dwFrame => passes = dwFrame]_vars

\* WM_QUIT leads to the end of both threads.
ExitHandshake == At(Primary, "exit") ~> \A t \in Threads : At(t, "done")

\* The frame loop implements the single-threaded account of the frame.
Phase == IF pc[Primary] \in Moving THEN "move"
         ELSE IF passes = dwFrame THEN "idle" ELSE "work"

Work == INSTANCE FrameWork WITH frame <- dwFrame, todo <- seqParallel,
                                ran <- Called, phase <- Phase

WorkSpec == Work!Spec
==============================================================================
