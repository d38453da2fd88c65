-------------------------- MODULE RenderSyncProofs --------------------------
(***************************************************************************)
(* Proofs about RenderSync, for any number of frames.  The lock of the     *)
(* raster covers the drawing only; what makes the reading safe is that the *)
(* stamp MT_frame_rendered equals dwFrame exactly when the raster is       *)
(* complete (Drawing), and that a thread which was sent away undrawn,      *)
(* because Disable came in between, leaves occlusion off behind (Enabling).*)
(***************************************************************************)
EXTENDS RenderSync, TLAPS

USE DEF Threads, Renderer, Worker, NoThread, Frames, Picture, Nothing, Over,
        InScene, Goto, DGoto, Enters, frame, homVars, dtVars
------------------------------------------------------------------------------
(* A thread is in CHOM or CDetailManager only from the part of the frame     *)
(* that calls it.                                                           *)
Calls ==
  /\ stage[Renderer] \in {"over", "hom", "main", "lights"}
  /\ stage[Worker] \in {"over", "hom", "details"}
  /\ ~mtcalc => stage[Worker] = "over"
  /\ mtcalc => stage[Renderer] # "hom"
  /\ pc[Renderer] = "enter" => stage[Renderer] # "hom"
  /\ dpc[Worker] # "draw"
  /\ dpc[Worker] # "out" => stage[Worker] = "details"
  /\ dpc[Renderer] # "out" => stage[Renderer] \in {"main", "lights"}
  /\ \A t \in Threads :
       /\ stage[t] = "over" => pc[t] = "idle"
       /\ pc[t] \in {"sync", "read"} => stage[t] # "hom"
       /\ dpc[t] \notin {"out", "building"} => pc[t] = "idle"
       /\ t = Worker /\ stage[t] = "details" /\ dpc[t] = "out" => pc[t] = "idle"

\* Inside MT_RENDER, or in its middle without the lock.
InRender == {"enable", "render", "draw", "stamp"}
Held(t)  == pc[t] \in InRender \cup {"leave"}

Locks ==
  \A t \in Threads :
    /\ hom = t <=> Held(t) /\ (t = Renderer => stage[t] # "hom")
    /\ details = t <=> dpc[t] \in {"building", "mark", "leave"}

(* The raster is complete once it is stamped, and nobody draws it again.     *)
Drawing ==
  /\ homFrame <= dwFrame
  /\ homFrame = dwFrame => raster = [of |-> dwFrame, done |-> TRUE]
  /\ stage[Renderer] = "hom" /\ pc[Renderer] = "idle" => homFrame # dwFrame
  /\ \A t \in Threads :
       /\ pc[t] \in InRender => homFrame # dwFrame
       /\ pc[t] = "draw" => raster = [of |-> dwFrame, done |-> FALSE]
       /\ pc[t] = "stamp" => raster = [of |-> dwFrame, done |-> TRUE]
       /\ pc[t] = "read" /\ ~menu => homFrame = dwFrame
       /\ pc[t] = "leave" /\ stage[t] # "hom" /\ ~menu => homFrame = dwFrame

(* Where bEnabled is up for certain, and where it is down.                   *)
Enabling ==
  /\ bEnabled => model
  /\ pc[Renderer] # "idle" /\ stage[Renderer] # "hom" => bEnabled
  /\ stage[Worker] = "details" /\ ~menu /\ pc[Worker] # "idle"
       => homFrame = dwFrame
  /\ (stage[Worker] = "hom" /\ pc[Worker] = "leave") \/ stage[Worker] = "details"
       => menu \/ homFrame = dwFrame \/ ~bEnabled

(* The lists are built by one thread, at most once a frame, and not after a  *)
(* drawing has started.                                                     *)
Listing ==
  /\ lists.of <= dwFrame
  /\ \A t \in Threads :
       /\ dpc[t] \in {"building", "mark"} =>
            calc # dwFrame /\ rendered + 1 = dwFrame /\ lists.of = dwFrame
       /\ dpc[t] \in {"leave", "draw"} => calc = dwFrame \/ rendered + 1 # dwFrame
  /\ ~lists.done => \E t \in Threads : dpc[t] = "building"
  /\ lists.of # 0 => \/ calc = lists.of
                     \/ \E t \in Threads : dpc[t] \in {"building", "mark"}

IInv == TypeOK /\ Calls /\ Locks /\ Drawing /\ Enabling /\ Listing
------------------------------------------------------------------------------
(* The initial states satisfy the invariant.                                *)
LEMMA InitInv == Init => IInv
  <1> SUFFICES ASSUME Init PROVE IInv
    OBVIOUS
  <1> USE RenderSyncAssumption DEF Init
  <1>1. TypeOK
    <2>1. 0 \in Frames /\ Nothing \in Picture
      OBVIOUS
    <2>2. stage \in [Threads -> {"over", "hom", "main", "lights", "details"}]
      OBVIOUS
    <2>3. pc \in [Threads -> {"idle", "sync", "enter", "enable", "render",
                               "draw", "stamp", "leave", "read"}]
      OBVIOUS
    <2>4. dpc \in [Threads ->
                     {"out", "enter", "building", "mark", "leave", "draw"}]
      OBVIOUS
    <2>5. raster \in Picture /\ lists \in Picture
      BY <2>1
    <2>6. model \in BOOLEAN /\ bEnabled \in BOOLEAN
      OBVIOUS
    <2> HIDE DEF Init
    <2>7. {mtcalc, menu, model, bEnabled} \subseteq BOOLEAN
      BY <2>6 DEF Init
    <2>8. {hom, details} \subseteq Threads \cup {NoThread}
      BY DEF Init
    <2>9. {homFrame, calc, rendered} \subseteq Frames
      BY <2>1 DEF Init
    <2> QED
      BY <2>1, <2>2, <2>3, <2>4, <2>5, <2>7, <2>8, <2>9 DEF TypeOK, Init
  <1>2. Calls
    BY DEF Calls
  <1>3. Locks
    BY DEF Locks, Held, InRender
  <1>4. Drawing
    BY DEF Drawing, InRender
  <1>5. Enabling
    BY DEF Enabling
  <1>6. Listing
    BY DEF Listing
  <1> QED
    BY <1>1, <1>2, <1>3, <1>4, <1>5, <1>6 DEF IInv

(* Every step keeps TypeOK. *)
LEMMA TypeOKStep == IInv /\ [Next]_vars => TypeOK'
  <1> SUFFICES ASSUME IInv, [Next]_vars PROVE TypeOK'
    OBVIOUS
  <1> USE RenderSyncAssumption DEF IInv, TypeOK, Calls, Locks, Held, InRender,
          Drawing, Enabling, Listing
  <1>1. CASE BeginFrame
    BY <1>1 DEF BeginFrame
  <1>2. CASE Reload
    BY <1>2 DEF Reload
  <1>3. CASE Stop
    BY <1>3 DEF Stop, vars
  <1>4. CASE Disable
    BY <1>4 DEF Disable
  <1>5. CASE EndScene
    BY <1>5 DEF EndScene
  <1>6. CASE DrawDetails
    BY <1>6 DEF DrawDetails
  <1>7. CASE DetailsDrawn
    BY <1>7 DEF DetailsDrawn
  <1>8. CASE StartDetails
    BY <1>8 DEF StartDetails
  <1>9. ASSUME NEW t \in Threads, Test(t) PROVE TypeOK'
    BY <1>9 DEF Test
  <1>10. ASSUME NEW t \in Threads, MT_SYNC(t) PROVE TypeOK'
    BY <1>10 DEF MT_SYNC
  <1>11. ASSUME NEW t \in Threads, StartHOM(t) PROVE TypeOK'
    BY <1>11 DEF StartHOM
  <1>12. ASSUME NEW t \in Threads, MT_Enter(t) PROVE TypeOK'
    BY <1>12 DEF MT_Enter
  <1>13. ASSUME NEW t \in Threads, Enable(t) PROVE TypeOK'
    BY <1>13 DEF Enable
  <1>14. ASSUME NEW t \in Threads, RenderBegin(t) PROVE TypeOK'
    <2>1. [of |-> dwFrame, done |-> FALSE] \in Picture
      OBVIOUS
    <2>2. raster' \in Picture
      BY <1>14, <2>1 DEF RenderBegin
    <2> QED
      BY <1>14, <2>2 DEF RenderBegin
  <1>15. ASSUME NEW t \in Threads, RenderEnd(t) PROVE TypeOK'
    BY <1>15 DEF RenderEnd
  <1>16. ASSUME NEW t \in Threads, Stamp(t) PROVE TypeOK'
    BY <1>16 DEF Stamp
  <1>17. ASSUME NEW t \in Threads, MT_Leave(t) PROVE TypeOK'
    BY <1>17 DEF MT_Leave
  <1>18. ASSUME NEW t \in Threads, Read(t) PROVE TypeOK'
    BY <1>18 DEF Read
  <1>19. ASSUME NEW t \in Threads, MT_CALC(t) PROVE TypeOK'
    <2>1. [of |-> dwFrame, done |-> FALSE] \in Picture
      OBVIOUS
    <2>2. lists' \in Picture
      BY <1>19, <2>1 DEF MT_CALC
    <2> QED
      BY <1>19, <2>2 DEF MT_CALC
  <1>20. ASSUME NEW t \in Threads, Built(t) PROVE TypeOK'
    BY <1>20 DEF Built
  <1>21. ASSUME NEW t \in Threads, MarkCalc(t) PROVE TypeOK'
    BY <1>21 DEF MarkCalc
  <1>22. ASSUME NEW t \in Threads, LeaveDetails(t) PROVE TypeOK'
    BY <1>22 DEF LeaveDetails
  <1>23. CASE UNCHANGED vars
    BY <1>23 DEF vars
  <1> HIDE DEF IInv, TypeOK
  <1> QED
    BY <1>1, <1>2, <1>3, <1>4, <1>5, <1>6, <1>7, <1>8, <1>9, <1>10, <1>11, <1>12, <1>13, <1>14, <1>15, <1>16, <1>17, <1>18, <1>19, <1>20, <1>21, <1>22, <1>23 DEF Next, HOMStep, DetailStep

(* Every step keeps Calls. *)
LEMMA CallsStep == IInv /\ [Next]_vars => Calls'
  <1> SUFFICES ASSUME IInv, [Next]_vars PROVE Calls'
    OBVIOUS
  <1> USE RenderSyncAssumption DEF IInv, TypeOK, Calls, Locks, Held, InRender,
          Drawing, Enabling, Listing
  <1>1. CASE BeginFrame
    BY <1>1 DEF BeginFrame
  <1>2. CASE Reload
    BY <1>2 DEF Reload
  <1>3. CASE Stop
    BY <1>3 DEF Stop, vars
  <1>4. CASE Disable
    BY <1>4 DEF Disable
  <1>5. CASE EndScene
    BY <1>5 DEF EndScene
  <1>6. CASE DrawDetails
    BY <1>6 DEF DrawDetails
  <1>7. CASE DetailsDrawn
    BY <1>7 DEF DetailsDrawn
  <1>8. CASE StartDetails
    BY <1>8 DEF StartDetails
  <1>9. ASSUME NEW t \in Threads, Test(t) PROVE Calls'
    BY <1>9 DEF Test
  <1>10. ASSUME NEW t \in Threads, MT_SYNC(t) PROVE Calls'
    BY <1>10 DEF MT_SYNC
  <1>11. ASSUME NEW t \in Threads, StartHOM(t) PROVE Calls'
    BY <1>11 DEF StartHOM
  <1>12. ASSUME NEW t \in Threads, MT_Enter(t) PROVE Calls'
    BY <1>12 DEF MT_Enter
  <1>13. ASSUME NEW t \in Threads, Enable(t) PROVE Calls'
    BY <1>13 DEF Enable
  <1>14. ASSUME NEW t \in Threads, RenderBegin(t) PROVE Calls'
    BY <1>14 DEF RenderBegin
  <1>15. ASSUME NEW t \in Threads, RenderEnd(t) PROVE Calls'
    BY <1>15 DEF RenderEnd
  <1>16. ASSUME NEW t \in Threads, Stamp(t) PROVE Calls'
    BY <1>16 DEF Stamp
  <1>17. ASSUME NEW t \in Threads, MT_Leave(t) PROVE Calls'
    BY <1>17 DEF MT_Leave
  <1>18. ASSUME NEW t \in Threads, Read(t) PROVE Calls'
    BY <1>18 DEF Read
  <1>19. ASSUME NEW t \in Threads, MT_CALC(t) PROVE Calls'
    BY <1>19 DEF MT_CALC
  <1>20. ASSUME NEW t \in Threads, Built(t) PROVE Calls'
    BY <1>20 DEF Built
  <1>21. ASSUME NEW t \in Threads, MarkCalc(t) PROVE Calls'
    BY <1>21 DEF MarkCalc
  <1>22. ASSUME NEW t \in Threads, LeaveDetails(t) PROVE Calls'
    BY <1>22 DEF LeaveDetails
  <1>23. CASE UNCHANGED vars
    BY <1>23 DEF vars
  <1> HIDE DEF IInv, Calls
  <1> QED
    BY <1>1, <1>2, <1>3, <1>4, <1>5, <1>6, <1>7, <1>8, <1>9, <1>10, <1>11, <1>12, <1>13, <1>14, <1>15, <1>16, <1>17, <1>18, <1>19, <1>20, <1>21, <1>22, <1>23 DEF Next, HOMStep, DetailStep

(* Every step keeps Locks. *)
LEMMA LocksStep == IInv /\ [Next]_vars => Locks'
  <1> SUFFICES ASSUME IInv, [Next]_vars PROVE Locks'
    OBVIOUS
  <1> USE RenderSyncAssumption DEF IInv, TypeOK, Calls, Locks, Held, InRender,
          Drawing, Enabling, Listing
  <1>1. CASE BeginFrame
    BY <1>1 DEF BeginFrame
  <1>2. CASE Reload
    BY <1>2 DEF Reload
  <1>3. CASE Stop
    BY <1>3 DEF Stop, vars
  <1>4. CASE Disable
    BY <1>4 DEF Disable
  <1>5. CASE EndScene
    BY <1>5 DEF EndScene
  <1>6. CASE DrawDetails
    BY <1>6 DEF DrawDetails
  <1>7. CASE DetailsDrawn
    BY <1>7 DEF DetailsDrawn
  <1>8. CASE StartDetails
    BY <1>8 DEF StartDetails
  <1>9. ASSUME NEW t \in Threads, Test(t) PROVE Locks'
    BY <1>9 DEF Test
  <1>10. ASSUME NEW t \in Threads, MT_SYNC(t) PROVE Locks'
    BY <1>10 DEF MT_SYNC
  <1>11. ASSUME NEW t \in Threads, StartHOM(t) PROVE Locks'
    BY <1>11 DEF StartHOM
  <1>12. ASSUME NEW t \in Threads, MT_Enter(t) PROVE Locks'
    BY <1>12 DEF MT_Enter
  <1>13. ASSUME NEW t \in Threads, Enable(t) PROVE Locks'
    BY <1>13 DEF Enable
  <1>14. ASSUME NEW t \in Threads, RenderBegin(t) PROVE Locks'
    BY <1>14 DEF RenderBegin
  <1>15. ASSUME NEW t \in Threads, RenderEnd(t) PROVE Locks'
    BY <1>15 DEF RenderEnd
  <1>16. ASSUME NEW t \in Threads, Stamp(t) PROVE Locks'
    BY <1>16 DEF Stamp
  <1>17. ASSUME NEW t \in Threads, MT_Leave(t) PROVE Locks'
    BY <1>17 DEF MT_Leave
  <1>18. ASSUME NEW t \in Threads, Read(t) PROVE Locks'
    BY <1>18 DEF Read
  <1>19. ASSUME NEW t \in Threads, MT_CALC(t) PROVE Locks'
    BY <1>19 DEF MT_CALC
  <1>20. ASSUME NEW t \in Threads, Built(t) PROVE Locks'
    BY <1>20 DEF Built
  <1>21. ASSUME NEW t \in Threads, MarkCalc(t) PROVE Locks'
    BY <1>21 DEF MarkCalc
  <1>22. ASSUME NEW t \in Threads, LeaveDetails(t) PROVE Locks'
    BY <1>22 DEF LeaveDetails
  <1>23. CASE UNCHANGED vars
    BY <1>23 DEF vars
  <1> HIDE DEF IInv, Locks
  <1> QED
    BY <1>1, <1>2, <1>3, <1>4, <1>5, <1>6, <1>7, <1>8, <1>9, <1>10, <1>11, <1>12, <1>13, <1>14, <1>15, <1>16, <1>17, <1>18, <1>19, <1>20, <1>21, <1>22, <1>23 DEF Next, HOMStep, DetailStep

(* Every step keeps Drawing. *)
LEMMA DrawingStep == IInv /\ [Next]_vars => Drawing'
  <1> SUFFICES ASSUME IInv, [Next]_vars PROVE Drawing'
    OBVIOUS
  <1> USE RenderSyncAssumption DEF IInv, TypeOK, Calls, Locks, Held, InRender,
          Drawing, Enabling, Listing
  <1>1. CASE BeginFrame
    BY <1>1 DEF BeginFrame
  <1>2. CASE Reload
    BY <1>2 DEF Reload
  <1>3. CASE Stop
    BY <1>3 DEF Stop, vars
  <1>4. CASE Disable
    BY <1>4 DEF Disable
  <1>5. CASE EndScene
    BY <1>5 DEF EndScene
  <1>6. CASE DrawDetails
    BY <1>6 DEF DrawDetails
  <1>7. CASE DetailsDrawn
    BY <1>7 DEF DetailsDrawn
  <1>8. CASE StartDetails
    BY <1>8 DEF StartDetails
  <1>9. ASSUME NEW t \in Threads, Test(t) PROVE Drawing'
    BY <1>9 DEF Test
  <1>10. ASSUME NEW t \in Threads, MT_SYNC(t) PROVE Drawing'
    BY <1>10 DEF MT_SYNC
  <1>11. ASSUME NEW t \in Threads, StartHOM(t) PROVE Drawing'
    BY <1>11 DEF StartHOM
  <1>12. ASSUME NEW t \in Threads, MT_Enter(t) PROVE Drawing'
    BY <1>12 DEF MT_Enter
  <1>13. ASSUME NEW t \in Threads, Enable(t) PROVE Drawing'
    BY <1>13 DEF Enable
  <1>14. ASSUME NEW t \in Threads, RenderBegin(t) PROVE Drawing'
    BY <1>14 DEF RenderBegin
  <1>15. ASSUME NEW t \in Threads, RenderEnd(t) PROVE Drawing'
    <2>a. raster = [of |-> dwFrame, done |-> FALSE]
      BY <1>15 DEF RenderEnd
    <2>b. raster' = [raster EXCEPT !.done = TRUE]
      BY <1>15 DEF RenderEnd
    <2>1. raster' = [of |-> dwFrame, done |-> TRUE]
      BY ONLY <2>a, <2>b
    <2>2. homFrame # dwFrame
      BY <1>15 DEF RenderEnd
    <2>3. \A u \in Threads : pc'[u] \in {"draw", "stamp"} => u = t
      BY <1>15 DEF RenderEnd
    <2>4. \A u \in Threads : u # t => pc'[u] = pc[u]
      BY <1>15 DEF RenderEnd
    <2>5. pc'[t] = "stamp" /\ UNCHANGED <<dwFrame, homFrame, stage, menu>>
      BY <1>15 DEF RenderEnd
    <2>6. /\ homFrame' <= dwFrame'
          /\ homFrame' # dwFrame'
          /\ \A u \in Threads :
               /\ pc'[u] = "read" /\ ~menu' => homFrame' = dwFrame'
               /\ pc'[u] = "leave" /\ stage'[u] # "hom" /\ ~menu'
                    => homFrame' = dwFrame'
      BY <2>2, <2>4, <2>5
    <2>7. \A u \in Threads : pc'[u] = "draw" =>
            raster' = [of |-> dwFrame', done |-> FALSE]
      BY <2>3, <2>5
    <2>8. \A u \in Threads : pc'[u] = "stamp" =>
            raster' = [of |-> dwFrame', done |-> TRUE]
      BY <2>1, <2>5
    <2> QED
      BY <2>6, <2>7, <2>8
  <1>16. ASSUME NEW t \in Threads, Stamp(t) PROVE Drawing'
    BY <1>16 DEF Stamp
  <1>17. ASSUME NEW t \in Threads, MT_Leave(t) PROVE Drawing'
    BY <1>17 DEF MT_Leave
  <1>18. ASSUME NEW t \in Threads, Read(t) PROVE Drawing'
    BY <1>18 DEF Read
  <1>19. ASSUME NEW t \in Threads, MT_CALC(t) PROVE Drawing'
    BY <1>19 DEF MT_CALC
  <1>20. ASSUME NEW t \in Threads, Built(t) PROVE Drawing'
    BY <1>20 DEF Built
  <1>21. ASSUME NEW t \in Threads, MarkCalc(t) PROVE Drawing'
    BY <1>21 DEF MarkCalc
  <1>22. ASSUME NEW t \in Threads, LeaveDetails(t) PROVE Drawing'
    BY <1>22 DEF LeaveDetails
  <1>23. CASE UNCHANGED vars
    BY <1>23 DEF vars
  <1> HIDE DEF IInv, Drawing
  <1> QED
    BY <1>1, <1>2, <1>3, <1>4, <1>5, <1>6, <1>7, <1>8, <1>9, <1>10, <1>11, <1>12, <1>13, <1>14, <1>15, <1>16, <1>17, <1>18, <1>19, <1>20, <1>21, <1>22, <1>23 DEF Next, HOMStep, DetailStep

(* Every step keeps Enabling. *)
LEMMA EnablingStep == IInv /\ [Next]_vars => Enabling'
  <1> SUFFICES ASSUME IInv, [Next]_vars PROVE Enabling'
    OBVIOUS
  <1> USE RenderSyncAssumption DEF IInv, TypeOK, Calls, Locks, Held, InRender,
          Drawing, Enabling, Listing
  <1>1. CASE BeginFrame
    BY <1>1 DEF BeginFrame
  <1>2. CASE Reload
    BY <1>2 DEF Reload
  <1>3. CASE Stop
    BY <1>3 DEF Stop, vars
  <1>4. CASE Disable
    BY <1>4 DEF Disable
  <1>5. CASE EndScene
    BY <1>5 DEF EndScene
  <1>6. CASE DrawDetails
    BY <1>6 DEF DrawDetails
  <1>7. CASE DetailsDrawn
    BY <1>7 DEF DetailsDrawn
  <1>8. CASE StartDetails
    BY <1>8 DEF StartDetails
  <1>9. ASSUME NEW t \in Threads, Test(t) PROVE Enabling'
    BY <1>9 DEF Test
  <1>10. ASSUME NEW t \in Threads, MT_SYNC(t) PROVE Enabling'
    BY <1>10 DEF MT_SYNC
  <1>11. ASSUME NEW t \in Threads, StartHOM(t) PROVE Enabling'
    BY <1>11 DEF StartHOM
  <1>12. ASSUME NEW t \in Threads, MT_Enter(t) PROVE Enabling'
    BY <1>12 DEF MT_Enter
  <1>13. ASSUME NEW t \in Threads, Enable(t) PROVE Enabling'
    BY <1>13 DEF Enable
  <1>14. ASSUME NEW t \in Threads, RenderBegin(t) PROVE Enabling'
    BY <1>14 DEF RenderBegin
  <1>15. ASSUME NEW t \in Threads, RenderEnd(t) PROVE Enabling'
    BY <1>15 DEF RenderEnd
  <1>16. ASSUME NEW t \in Threads, Stamp(t) PROVE Enabling'
    BY <1>16 DEF Stamp
  <1>17. ASSUME NEW t \in Threads, MT_Leave(t) PROVE Enabling'
    BY <1>17 DEF MT_Leave
  <1>18. ASSUME NEW t \in Threads, Read(t) PROVE Enabling'
    BY <1>18 DEF Read
  <1>19. ASSUME NEW t \in Threads, MT_CALC(t) PROVE Enabling'
    BY <1>19 DEF MT_CALC
  <1>20. ASSUME NEW t \in Threads, Built(t) PROVE Enabling'
    BY <1>20 DEF Built
  <1>21. ASSUME NEW t \in Threads, MarkCalc(t) PROVE Enabling'
    BY <1>21 DEF MarkCalc
  <1>22. ASSUME NEW t \in Threads, LeaveDetails(t) PROVE Enabling'
    BY <1>22 DEF LeaveDetails
  <1>23. CASE UNCHANGED vars
    BY <1>23 DEF vars
  <1> HIDE DEF IInv, Enabling
  <1> QED
    BY <1>1, <1>2, <1>3, <1>4, <1>5, <1>6, <1>7, <1>8, <1>9, <1>10, <1>11, <1>12, <1>13, <1>14, <1>15, <1>16, <1>17, <1>18, <1>19, <1>20, <1>21, <1>22, <1>23 DEF Next, HOMStep, DetailStep

(* Every step keeps Listing. *)
LEMMA ListingStep == IInv /\ [Next]_vars => Listing'
  <1> SUFFICES ASSUME IInv, [Next]_vars PROVE Listing'
    OBVIOUS
  <1> USE RenderSyncAssumption DEF IInv, TypeOK, Calls, Locks, Held, InRender,
          Drawing, Enabling, Listing
  <1>1. CASE BeginFrame
    BY <1>1 DEF BeginFrame
  <1>2. CASE Reload
    <2>1. \A t \in Threads : dpc[t] = "out"
      BY <1>2 DEF Reload
    <2>2. lists'.of = 0 /\ lists'.done
      BY <1>2 DEF Reload
    <2>3. UNCHANGED <<dwFrame, dpc>> /\ dwFrame \in Nat
      BY <1>2 DEF Reload
    <2> QED
      BY <2>1, <2>2, <2>3
  <1>3. CASE Stop
    BY <1>3 DEF Stop, vars
  <1>4. CASE Disable
    BY <1>4 DEF Disable
  <1>5. CASE EndScene
    BY <1>5 DEF EndScene
  <1>6. CASE DrawDetails
    BY <1>6 DEF DrawDetails
  <1>7. CASE DetailsDrawn
    BY <1>7 DEF DetailsDrawn
  <1>8. CASE StartDetails
    BY <1>8 DEF StartDetails
  <1>9. ASSUME NEW t \in Threads, Test(t) PROVE Listing'
    BY <1>9 DEF Test
  <1>10. ASSUME NEW t \in Threads, MT_SYNC(t) PROVE Listing'
    BY <1>10 DEF MT_SYNC
  <1>11. ASSUME NEW t \in Threads, StartHOM(t) PROVE Listing'
    BY <1>11 DEF StartHOM
  <1>12. ASSUME NEW t \in Threads, MT_Enter(t) PROVE Listing'
    BY <1>12 DEF MT_Enter
  <1>13. ASSUME NEW t \in Threads, Enable(t) PROVE Listing'
    BY <1>13 DEF Enable
  <1>14. ASSUME NEW t \in Threads, RenderBegin(t) PROVE Listing'
    BY <1>14 DEF RenderBegin
  <1>15. ASSUME NEW t \in Threads, RenderEnd(t) PROVE Listing'
    BY <1>15 DEF RenderEnd
  <1>16. ASSUME NEW t \in Threads, Stamp(t) PROVE Listing'
    BY <1>16 DEF Stamp
  <1>17. ASSUME NEW t \in Threads, MT_Leave(t) PROVE Listing'
    BY <1>17 DEF MT_Leave
  <1>18. ASSUME NEW t \in Threads, Read(t) PROVE Listing'
    BY <1>18 DEF Read
  <1>19. ASSUME NEW t \in Threads, MT_CALC(t) PROVE Listing'
    BY <1>19 DEF MT_CALC
  <1>20. ASSUME NEW t \in Threads, Built(t) PROVE Listing'
    BY <1>20 DEF Built
  <1>21. ASSUME NEW t \in Threads, MarkCalc(t) PROVE Listing'
    BY <1>21 DEF MarkCalc
  <1>22. ASSUME NEW t \in Threads, LeaveDetails(t) PROVE Listing'
    BY <1>22 DEF LeaveDetails
  <1>23. CASE UNCHANGED vars
    BY <1>23 DEF vars
  <1> HIDE DEF IInv, Listing
  <1> QED
    BY <1>1, <1>2, <1>3, <1>4, <1>5, <1>6, <1>7, <1>8, <1>9, <1>10, <1>11, <1>12, <1>13, <1>14, <1>15, <1>16, <1>17, <1>18, <1>19, <1>20, <1>21, <1>22, <1>23 DEF Next, HOMStep, DetailStep

------------------------------------------------------------------------------
(* Locks, stamps, the flag and the lists keep their relations at every step. *)
THEOREM InductiveInvariant == Spec => []IInv
  <1>1. IInv /\ [Next]_vars => IInv'
    BY TypeOKStep, CallsStep, LocksStep, DrawingStep, EnablingStep, ListingStep
       DEF IInv
  <1> QED
    BY InitInv, <1>1, PTL DEF Spec

(* Every variable keeps its type.                                           *)
THEOREM TypeCorrect == Spec => []TypeOK
  <1>1. IInv => TypeOK
    BY DEF IInv
  <1> QED
    BY InductiveInvariant, <1>1, PTL

(* Whichever thread draws the raster, and whenever occlusion is switched off *)
(* and on, nobody reads a raster that is incomplete or of another frame.    *)
THEOREM ReadsCurrent == Spec => []RasterCurrent
  <1>1. IInv => RasterCurrent
    BY DEF IInv, Drawing, RasterCurrent
  <1> QED
    BY InductiveInvariant, <1>1, PTL

(* The details are never listed while the renderer walks the lists.         *)
THEOREM DrawsStable == Spec => []ListsStable
  <1>1. IInv => ListsStable
    <2> SUFFICES ASSUME IInv, dpc[Renderer] = "draw", ~lists.done PROVE FALSE
      BY DEF ListsStable
    <2>1. PICK t \in Threads : dpc[t] = "building"
      BY DEF IInv, Listing
    <2>2. calc # dwFrame /\ rendered + 1 = dwFrame
      BY <2>1 DEF IInv, Listing
    <2> QED
      BY <2>2 DEF IInv, Listing
  <1> QED
    BY InductiveInvariant, <1>1, PTL

(* Frame after frame, the details drawn are those listed for the frame.     *)
THEOREM DrawsFresh == Spec => []DrawnFresh
  <1>1. IInv => DrawnFresh
    <2> SUFFICES ASSUME IInv, dpc[Renderer] = "draw", rendered + 1 = dwFrame,
                        lists.of # 0
                 PROVE  lists.of = dwFrame
      BY DEF DrawnFresh
    <2>1. calc = dwFrame
      BY DEF IInv, Listing
    <2>2. \A t \in Threads : dpc[t] \notin {"building", "mark"}
      BY <2>1 DEF IInv, Listing
    <2> QED
      BY <2>1, <2>2 DEF IInv, Listing
  <1> QED
    BY InductiveInvariant, <1>1, PTL
==============================================================================
