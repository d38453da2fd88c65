----------------------------- MODULE RenderSync -----------------------------
(***************************************************************************)
(* The two jobs the renderer puts on seqParallel, CHOM::MT_RENDER, which    *)
(* draws the occlusion raster of the frame, and CDetailManager::MT_CALC,    *)
(* which lists the visible details, against the renderer, which draws the  *)
(* scene meanwhile and does the same work itself where it comes first.     *)
(*                                                                         *)
(* FrameSync has who runs the jobs and when: all of them between the end of *)
(* FrameMove and the next one, by one thread, in the order hom, details.   *)
(* Here that thread is Worker; it may come before, during or after the     *)
(* scene, as the secondary does (or the primary, when it caught up).       *)
(***************************************************************************)
EXTENDS Naturals

CONSTANT MaxFrame   \* bound on dwFrame

ASSUME RenderSyncAssumption == MaxFrame \in Nat

Renderer == "renderer"
Worker   == "worker"
Threads  == {Renderer, Worker}
NoThread == "none"

VARIABLES dwFrame,    \* Device.dwFrame
          mtcalc,     \* R2FLAG_EXP_MT_CALC in this frame
          menu,       \* the main menu is active in this frame
          model,      \* m_pModel: the level has an occlusion map
          stage,      \* per thread: part of the scene, or the job
          pc,         \* per thread: where it is in CHOM
          dpc,        \* per thread: where it is in CDetailManager
          hom,        \* owner of CHOM::MT
          details,    \* owner of CDetailManager::MT
          bEnabled,   \* occlusion tests are done
          raster,     \* what is in the raster: of which frame, complete
          homFrame,   \* MT_frame_rendered
          lists,      \* what is in m_visibles: of which frame, complete
          calc,       \* m_frame_calc
          rendered    \* m_frame_rendered

frame    == <<dwFrame, mtcalc, menu, model>>
homVars  == <<hom, bEnabled, raster, homFrame>>
dtVars   == <<details, lists, calc, rendered>>
vars     == <<frame, stage, pc, dpc, homVars, dtVars>>

Frames  == 0 .. MaxFrame
Picture == [of : Frames, done : BOOLEAN]
Nothing == [of |-> 0, done |-> TRUE]

\* CHOM is a member of a global object; the constructor of CDetailManager, which
\* is on the heap, leaves its two frame numbers as they are.
Init == /\ dwFrame = 0 /\ mtcalc = FALSE /\ menu = FALSE
        /\ model \in BOOLEAN
        /\ stage = [t \in Threads |-> "over"]
        /\ pc = [t \in Threads |-> "idle"] /\ dpc = [t \in Threads |-> "out"]
        /\ hom = NoThread /\ details = NoThread
        /\ bEnabled = model /\ raster = Nothing /\ homFrame = 0
        /\ lists = Nothing /\ calc \in Frames /\ rendered \in Frames

Goto(t, l)   == pc' = [pc EXCEPT ![t] = l]
DGoto(t, l)  == dpc' = [dpc EXCEPT ![t] = l]
Enters(t, s) == stage' = [stage EXCEPT ![t] = s]
------------------------------------------------------------------------------
(* The frame.                                                               *)

Over == \A t \in Threads : stage[t] = "over"

\* FrameMove: the loading screen counts frames without one.  The renderer then
\* draws the scene or does not (another level, the menu, the first frame after a
\* reset).  The flag is read for the jobs and for the scene: nobody changes it
\* between.
BeginFrame ==
  /\ Over
  /\ dwFrame' \in {n \in Frames : n \in {dwFrame + 1, dwFrame + 2}}
  /\ mtcalc' \in BOOLEAN /\ menu' \in BOOLEAN
  /\ \E scene \in BOOLEAN :
       stage' = [t \in Threads |->
                   IF t = Worker THEN IF mtcalc' THEN "hom" ELSE "over"
                   ELSE IF ~scene THEN "over"
                   ELSE IF mtcalc' THEN "main" ELSE "hom"]
  /\ UNCHANGED <<model, pc, dpc, homVars, dtVars>>

\* Another level: Unload and Load of both.
Reload ==
  /\ Over
  /\ model' \in BOOLEAN /\ bEnabled' = model'
  /\ lists' = Nothing /\ calc' \in Frames /\ rendered' \in Frames
  /\ UNCHANGED <<dwFrame, mtcalc, menu, stage, pc, dpc, hom, details, raster,
                 homFrame>>

\* The bound is reached.
Stop == Over /\ dwFrame = MaxFrame /\ UNCHANGED vars

\* The renderer is in the scene, and in neither of the two objects.
InScene == /\ stage[Renderer] \in {"main", "lights"}
           /\ pc[Renderer] = "idle" /\ dpc[Renderer] = "out"

\* The lights are drawn with occlusion off; no lock is held.
Disable ==
  /\ InScene
  /\ bEnabled' = FALSE /\ Enters(Renderer, "lights")
  /\ UNCHANGED <<frame, pc, dpc, hom, raster, homFrame, dtVars>>

EndScene ==
  /\ InScene /\ stage[Renderer] = "lights" /\ Enters(Renderer, "over")
  /\ UNCHANGED <<frame, pc, dpc, homVars, dtVars>>
------------------------------------------------------------------------------
(* CHOM: MT_RENDER as a job, or before a test of the raster (MT_SYNC), or    *)
(* Enable and Render alone where the renderer has no jobs.                   *)

\* visible() with occlusion on; with it off everything is visible.
Test(t) ==
  /\ pc[t] = "idle" /\ ((t = Renderer /\ InScene) \/ dpc[t] = "building")
  /\ bEnabled /\ Goto(t, "sync")
  /\ UNCHANGED <<frame, stage, dpc, homVars, dtVars>>

MT_SYNC(t) ==
  /\ pc[t] = "sync" /\ Goto(t, IF menu THEN "read" ELSE "enter")
  /\ UNCHANGED <<frame, stage, dpc, homVars, dtVars>>

\* The job takes the lock, the renderer without jobs does not.
StartHOM(t) ==
  /\ stage[t] = "hom" /\ pc[t] = "idle"
  /\ Goto(t, IF t = Worker THEN "enter" ELSE "enable")
  /\ UNCHANGED <<frame, stage, dpc, homVars, dtVars>>

\* Defect: whoever gets the lock draws, drawn or not.
MT_Enter_DrawsAgain(t) ==
  /\ pc[t] = "enter" /\ hom = NoThread /\ hom' = t
  /\ Goto(t, IF ~menu THEN "enable" ELSE "leave")
  /\ UNCHANGED <<frame, stage, dpc, bEnabled, raster, homFrame, dtVars>>

MT_Enter(t) ==
  /\ pc[t] = "enter" /\ hom = NoThread /\ hom' = t
  /\ Goto(t, IF homFrame # dwFrame /\ ~menu THEN "enable" ELSE "leave")
  /\ UNCHANGED <<frame, stage, dpc, bEnabled, raster, homFrame, dtVars>>

Enable(t) ==
  /\ pc[t] = "enable" /\ bEnabled' = model /\ Goto(t, "render")
  /\ UNCHANGED <<frame, stage, dpc, hom, raster, homFrame, dtVars>>

\* Render looks at bEnabled again, which the renderer may have cleared.
RenderBegin(t) ==
  /\ pc[t] = "render"
  /\ IF bEnabled
       THEN raster' = [of |-> dwFrame, done |-> FALSE] /\ Goto(t, "draw")
       ELSE UNCHANGED raster /\ Goto(t, "leave")
  /\ UNCHANGED <<frame, stage, dpc, hom, bEnabled, homFrame, dtVars>>

RenderEnd(t) ==
  /\ pc[t] = "draw" /\ raster' = [raster EXCEPT !.done = TRUE]
  /\ Goto(t, "stamp")
  /\ UNCHANGED <<frame, stage, dpc, hom, bEnabled, homFrame, dtVars>>

Stamp(t) ==
  /\ pc[t] = "stamp" /\ homFrame' = dwFrame /\ Goto(t, "leave")
  /\ UNCHANGED <<frame, stage, dpc, hom, bEnabled, raster, dtVars>>

\* Back to the test, or on to what follows the job.
MT_Leave(t) ==
  /\ pc[t] = "leave"
  /\ hom' = IF hom = t THEN NoThread ELSE hom
  /\ IF stage[t] = "hom"
       THEN /\ Goto(t, "idle")
            /\ Enters(t, IF t = Worker THEN "details" ELSE "main")
       ELSE Goto(t, "read") /\ UNCHANGED stage
  /\ UNCHANGED <<frame, dpc, bEnabled, raster, homFrame, dtVars>>

Read(t) ==
  /\ pc[t] = "read" /\ Goto(t, "idle")
  /\ UNCHANGED <<frame, stage, dpc, homVars, dtVars>>
------------------------------------------------------------------------------
(* CDetailManager: MT_CALC as a job, or before the details are drawn.        *)

\* Render starts with MT_SYNC, which looks at m_frame_calc without the lock.
DrawDetails ==
  /\ InScene
  /\ DGoto(Renderer, IF calc = dwFrame THEN "draw" ELSE "enter")
  /\ UNCHANGED <<frame, stage, pc, homVars, dtVars>>

StartDetails ==
  /\ stage[Worker] = "details" /\ dpc[Worker] = "out"
  /\ DGoto(Worker, "enter")
  /\ UNCHANGED <<frame, stage, pc, homVars, dtVars>>

\* Defect: what was drawn in this frame is listed, not what was in the last.
MT_CALC_ThisFrame(t) ==
  /\ dpc[t] = "enter" /\ details = NoThread /\ details' = t
  /\ IF calc # dwFrame /\ rendered = dwFrame
       THEN lists' = [of |-> dwFrame, done |-> FALSE] /\ DGoto(t, "building")
       ELSE UNCHANGED lists /\ DGoto(t, "leave")
  /\ UNCHANGED <<frame, stage, pc, homVars, calc, rendered>>

\* The lists are built once a frame, and only if the last frame drew them; the
\* first thing is to clear them.
MT_CALC(t) ==
  /\ dpc[t] = "enter" /\ details = NoThread /\ details' = t
  /\ IF calc # dwFrame /\ rendered + 1 = dwFrame
       THEN lists' = [of |-> dwFrame, done |-> FALSE] /\ DGoto(t, "building")
       ELSE UNCHANGED lists /\ DGoto(t, "leave")
  /\ UNCHANGED <<frame, stage, pc, homVars, calc, rendered>>

\* Defect: the frame number is set before the lists are complete.
Built_Early(t) ==
  /\ dpc[t] = "building" /\ pc[t] = "idle"
  /\ IF calc = dwFrame
       THEN /\ lists' = [lists EXCEPT !.done = TRUE]
            /\ DGoto(t, "leave") /\ UNCHANGED calc
       ELSE calc' = dwFrame /\ UNCHANGED <<lists, dpc>>
  /\ UNCHANGED <<frame, stage, pc, homVars, details, rendered>>

\* UpdateVisibleM has been through the slots, testing those it pleases.
Built(t) ==
  /\ dpc[t] = "building" /\ pc[t] = "idle"
  /\ lists' = [lists EXCEPT !.done = TRUE] /\ DGoto(t, "mark")
  /\ UNCHANGED <<frame, stage, pc, homVars, details, calc, rendered>>

MarkCalc(t) ==
  /\ dpc[t] = "mark" /\ calc' = dwFrame /\ DGoto(t, "leave")
  /\ UNCHANGED <<frame, stage, pc, homVars, details, lists, rendered>>

LeaveDetails(t) ==
  /\ dpc[t] = "leave" /\ details' = NoThread
  /\ DGoto(t, IF t = Worker THEN "out" ELSE "draw")
  /\ IF t = Worker THEN Enters(t, "over") ELSE UNCHANGED stage
  /\ UNCHANGED <<frame, pc, homVars, lists, calc, rendered>>

DetailsDrawn ==
  /\ dpc[Renderer] = "draw" /\ DGoto(Renderer, "out")
  /\ rendered' = dwFrame
  /\ UNCHANGED <<frame, stage, pc, homVars, details, lists, calc>>
------------------------------------------------------------------------------
HOMStep(t) == \/ Test(t) \/ MT_SYNC(t) \/ StartHOM(t) \/ MT_Enter(t) \/ Enable(t)
              \/ RenderBegin(t) \/ RenderEnd(t) \/ Stamp(t) \/ MT_Leave(t)
              \/ Read(t)

DetailStep(t) == MT_CALC(t) \/ Built(t) \/ MarkCalc(t) \/ LeaveDetails(t)

Next == \/ BeginFrame \/ Reload \/ Stop
        \/ Disable \/ EndScene \/ DrawDetails \/ DetailsDrawn \/ StartDetails
        \/ \E t \in Threads : HOMStep(t) \/ DetailStep(t)

Spec == Init /\ [][Next]_vars
------------------------------------------------------------------------------
(* What must hold.                                                          *)

TypeOK ==
  /\ dwFrame \in Frames /\ {mtcalc, menu, model, bEnabled} \subseteq BOOLEAN
  /\ stage \in [Threads -> {"over", "hom", "main", "lights", "details"}]
  /\ pc \in [Threads -> {"idle", "sync", "enter", "enable", "render", "draw",
                         "stamp", "leave", "read"}]
  /\ dpc \in [Threads -> {"out", "enter", "building", "mark", "leave", "draw"}]
  /\ {hom, details} \subseteq Threads \cup {NoThread}
  /\ raster \in Picture /\ lists \in Picture
  /\ {homFrame, calc, rendered} \subseteq Frames

\* Whoever reads the raster, out of the menu, finds it complete and of this
\* frame: drawn by the job, by the renderer, or by itself on the way in.  The
\* lock covers the drawing and not the reading, and Disable takes none: a
\* renderer that lowers bEnabled between Enable and Render makes MT_RENDER return
\* with nothing drawn.
RasterCurrent ==
  \A t \in Threads : pc[t] = "read" /\ ~menu =>
    raster = [of |-> dwFrame, done |-> TRUE]

\* The details are not listed while they are drawn: hw_Render walks m_visibles
\* without the lock, and MT_SYNC may have returned without taking it.
ListsStable == dpc[Renderer] = "draw" => lists.done

\* A frame after one that drew the details draws those visible in it, not those
\* of the last: whichever thread was the one to list them.  (Before the first
\* listing m_frame_calc is whatever was in memory.)
DrawnFresh ==
  dpc[Renderer] = "draw" /\ rendered + 1 = dwFrame /\ lists.of # 0
  => lists.of = dwFrame
==============================================================================
