------------------------------ MODULE LevelLife ------------------------------
(***************************************************************************)
(* The life of g_pGameLevel: CApplication, which creates and destroys it   *)
(* for the events deferred to the start of the next frame; the list        *)
(* g_loading_events, which replaces FrameMove until the level is up; the   *)
(* main menu and the screenshot of a saved game, which take the level off  *)
(* seqFrame and seqRender and put it back; and the walk of seqFrame, from  *)
(* inside which all but the loading happens.                               *)
(*                                                                         *)
(* seqRender is walked later in the frame, by nobody who changes it, and   *)
(* always holds the cursor and the statistics: it is sorted at once.       *)
(***************************************************************************)
EXTENDS Registrator

CONSTANTS Levels,       \* the addresses a level may get
          NoLevel,      \* the null pointer
          MaxDeferred,  \* bound on the deferred events
          MaxEntries,   \* bound on seqFrame while a key is pressed
          MaxDebt       \* bound on how far failed loads lower ll_dwReference

ASSUME LevelLifeAssumption ==
  /\ NoLevel \notin Levels
  /\ Levels \cap {"app", "persistent", "input", "menu"} = {}
  /\ MaxDeferred \in Nat /\ MaxDeferred >= 2
  /\ MaxEntries \in Nat
  /\ MaxDebt \in Nat

VARIABLES idx,        \* place in the walk of seqFrame; 0: no walk
          seqFrame,   \* Device.seqFrame
          seqRender,  \* Device.seqRender
          level,      \* g_pGameLevel
          ready,      \* bReady of the level
          single,     \* IsGameTypeSingle()
          connected,  \* connected_to_server of the level
          result,     \* net_start_result_total of the level
          total,      \* g_start_total_res
          loading,    \* g_loading_events: which step, of which level
          deferred,   \* Events_Deferred
          ev,         \* events of them delivered in this pass
          loadRef,    \* ll_dwReference, read as a signed number
          appLoaded,  \* g_appLoaded
          flActive,   \* the main menu is up
          pending,    \* flGameSaveScreenshot
          dist,       \* m_screenshotFrame - dwFrame, from 1 down to -2: past
          quit        \* WM_QUIT is posted, or the program has ended otherwise

shown  == <<flActive, seqFrame, seqRender>>
game   == <<level, ready, single>>
start  == <<connected, result, total, loading>>
load   == <<loadRef, appLoaded>>
shot   == <<pending, dist>>
events == <<deferred, ev>>
vars   == <<idx, shown, game, start, load, shot, events, quit>>

\* The subscribers of seqFrame that matter here, the level apart.
Normal   == 2
MenuOnTop == 1
Init == /\ idx = 0
        /\ seqFrame = <<<<"app", 5>>, <<"persistent", 4>>, <<"input", 3>>,
                        <<"menu", 1>>>>
        /\ seqRender = <<<<"menu", MenuOnTop>>>>
        /\ level = NoLevel /\ ready = FALSE /\ single = TRUE
        /\ connected = FALSE /\ result = TRUE /\ total = TRUE /\ loading = <<>>
        /\ deferred = <<>> /\ ev = 0
        /\ loadRef = 0 /\ appLoaded = TRUE
        /\ flActive = TRUE /\ pending = FALSE /\ dist = -2
        /\ quit = FALSE

inProcess == idx # 0
Waiting(e) == \E i \in DOMAIN deferred : deferred[i] = e    \* Peek
------------------------------------------------------------------------------
(* What is on the screen: the menu's flag and the two lists, as one value.  *)

Shown   == [active |-> flActive, frame |-> seqFrame, render |-> seqRender]
Show(s) == flActive' = s.active /\ seqFrame' = s.frame /\ seqRender' = s.render

AddLevel(lv, frame, s) ==
  [s EXCEPT !.render = Add(@, lv, Normal, FALSE),
            !.frame  = IF frame THEN Add(@, lv, Normal, inProcess) ELSE @]
RemoveLevel(lv, frame, s) ==
  [s EXCEPT !.render = Remove(@, lv, FALSE),
            !.frame  = IF frame THEN Remove(@, lv, inProcess) ELSE @]

\* The frame of a screenshot, the one before and the one after, and for as long
\* as it has not been taken.
Blocked == pending \/ dist \in {-1, 0, 1}

\* The menu takes the level off the screen and, in a game of one player, stops
\* it; it gives back what it took.
Switched(on, lv, s) ==
  LET menu == IF on THEN Add(s.render, "menu", MenuOnTop, FALSE)
                    ELSE Remove(s.render, "menu", FALSE)
      t == [s EXCEPT !.active = on, !.render = menu]
  IN IF lv = NoLevel THEN t
     ELSE IF on THEN RemoveLevel(lv, single, t) ELSE AddLevel(lv, single, t)

\* Defect: the menu comes and goes whatever the screenshot does.
Activate_Always(on, lv, s) == IF s.active = on THEN s ELSE Switched(on, lv, s)

\* CMainMenu::Activate.
Activate(on, lv, s) ==
  IF s.active = on \/ Blocked THEN s ELSE Switched(on, lv, s)

\* LoadBegin and LoadEnd, on the count and the flag.
Loads         == [ref |-> loadRef, loaded |-> appLoaded]
LoadBegin(d)  == [ref |-> d.ref + 1, loaded |-> d.loaded /\ d.ref + 1 # 1]
LoadEnd(d)    == [ref |-> d.ref - 1, loaded |-> d.loaded \/ d.ref - 1 = 0]
SetLoads(d)   == loadRef' = d.ref /\ appLoaded' = d.loaded

\* Defect: the destructor takes the level off seqRender only.
Delete_RenderOnly(s) == RemoveLevel(level, FALSE, s)

\* ~IGame_Level: off both lists, whether it is on them or not.
Delete(s) == RemoveLevel(level, TRUE, s)

\* The pointer is null, the members are gone with the object.
NoMore == level' = NoLevel /\ ready' = FALSE /\ connected' = FALSE /\ result' = TRUE
------------------------------------------------------------------------------
(* One turn of CRenderDevice::Run is a walk of seqFrame or, while there are  *)
(* loading events, the first of these.                                       *)

\* Defect: the frame moves while a level loads.
BeginFrame_Loading ==
  /\ idx = 0 /\ ~quit
  /\ idx' = 1
  /\ dist' = IF dist = -2 THEN -2 ELSE dist - 1
  /\ UNCHANGED <<shown, game, start, load, pending, events, quit>>

BeginFrame ==
  /\ idx = 0 /\ ~quit /\ loading = <<>>
  /\ idx' = 1
  /\ dist' = IF dist = -2 THEN -2 ELSE dist - 1
  /\ UNCHANGED <<shown, game, start, load, pending, events, quit>>

Calls(obj) == /\ idx \in DOMAIN seqFrame
              /\ Valid(seqFrame[idx]) /\ seqFrame[idx][1] = obj

Skip == /\ idx \in DOMAIN seqFrame /\ ~Valid(seqFrame[idx])
        /\ idx' = idx + 1
        /\ UNCHANGED <<shown, game, start, load, shot, events, quit>>

EndFrame == /\ idx > Len(seqFrame)
            /\ idx' = 0
            /\ seqFrame' = Resort(seqFrame)
            /\ UNCHANGED <<flActive, seqRender, game, start, load, shot, events,
                           quit>>

\* After WM_QUIT the loop is left.
Quitted == idx = 0 /\ quit /\ UNCHANGED vars
------------------------------------------------------------------------------
(* CApplication::OnFrame delivers the deferred events in their order.  The   *)
(* vector is cleared after the last, so that Peek sees all of them.          *)

Delivers(e) == /\ Calls("app") /\ ev < Len(deferred) /\ deferred[ev + 1] = e
               /\ ev' = ev + 1
               /\ UNCHANGED <<idx, deferred>>

EventsDelivered == /\ Calls("app") /\ ev = Len(deferred)
                   /\ deferred' = <<>> /\ ev' = 0
                   /\ idx' = idx + 1
                   /\ UNCHANGED <<shown, game, start, load, shot, quit>>

\* The six steps of net_Start, for the new level.  A step of a level that was
\* deleted belongs to none; nor does the finalizer, which is an object of its own.
Steps(lv, fns) == [i \in DOMAIN fns |-> [fn |-> fns[i], lv |-> lv]]
Orphaned(q)    == [i \in DOMAIN q |-> [q[i] EXCEPT !.lv = NoLevel]]
Orphan(step)   == step.fn # "finalizer" /\ step.lv = NoLevel
NetStart  == <<"start1", "start2", "start3", "start4", "start5", "start6">>
NetClient == <<"client1", "client2", "client3", "client4", "client5", "client6">>

\* The level may get the address of an old one.
OnStart ==
  /\ Delivers("start") /\ level = NoLevel
  /\ Show(Activate(FALSE, NoLevel, Shown))
  /\ level' \in Levels /\ ready' = FALSE /\ single' \in BOOLEAN
  /\ connected' = FALSE /\ result' = TRUE
  /\ SetLoads(LoadEnd(LoadBegin(LoadBegin(Loads))))
  /\ loading' = loading \o Steps(level', NetStart)
  /\ UNCHANGED <<total, shot, quit>>

\* R_ASSERT(0 == g_pGameLevel): the program ends here.
SecondStart ==
  /\ Calls("app") /\ ev < Len(deferred) /\ deferred[ev + 1] = "start"
  /\ level # NoLevel
  /\ idx' = 0 /\ deferred' = <<>> /\ ev' = 0 /\ quit' = TRUE
  /\ UNCHANGED <<shown, game, start, load, shot>>

\* net_Stop and the destructor; then the menu, unless something follows or, since
\* Peek sees what was delivered, came before.  The steps of a load stay.
OnDisconnect ==
  /\ Delivers("disconnect")
  /\ IF level = NoLevel THEN UNCHANGED <<shown, game, connected, result, loading>>
     ELSE /\ Show(LET s == Delete(Shown)
                  IN IF Waiting("quit") \/ Waiting("start") THEN s
                     ELSE Activate(TRUE, NoLevel, Activate(FALSE, NoLevel, s)))
          /\ NoMore /\ loading' = Orphaned(loading) /\ UNCHANGED single
  /\ UNCHANGED <<total, load, shot, quit>>

OnQuit == /\ Delivers("quit") /\ quit' = TRUE
          /\ UNCHANGED <<shown, game, start, load, shot>>
------------------------------------------------------------------------------
(* The rest of the walk.  Who defers an event, or saves, does it as the code *)
(* does; what the code leaves to its users is named here.                    *)

\* Nothing but an exit is deferred while a screenshot keeps the menu from changing.
Unblocked(es) == ~Blocked \/ "quit" \in {es[i] : i \in DOMAIN es}

\* Events are deferred whatever waits: starts behind starts, disconnects behind both.
Defer(es) == /\ Unblocked(es) /\ Len(deferred) + Len(es) <= MaxDeferred
             /\ deferred' = deferred \o es
             /\ UNCHANGED <<shown, shot>>

Reconnect == <<"disconnect", "start">>
AltF4     == <<"disconnect", "quit">>

\* CMainMenu::Screenshot for a saved game: under the menu the level is put back
\* for the frames of the picture.  Nobody saves again under the menu before it
\* is taken, or with an event deferred.
Screenshot ==
  /\ level # NoLevel /\ ready /\ single
  /\ ~(pending /\ flActive) /\ deferred = <<>>
  /\ pending' = TRUE /\ dist' = 1
  /\ Show(IF flActive THEN AddLevel(level, TRUE, Shown) ELSE Shown)
  /\ UNCHANGED deferred

Idle == UNCHANGED <<shown, shot, deferred>>

\* The scheduler runs the autosave, but not while the menu has the game paused; a
\* demo that has come to its end goes on with the next level.
Persistent ==
  /\ Calls("persistent")
  /\ \/ Idle
     \/ ~flActive /\ Screenshot
     \/ level # NoLevel /\ ready /\ Defer(Reconnect)
  /\ idx' = idx + 1
  /\ UNCHANGED <<game, start, load, ev, quit>>

\* A key or a command.  On and off again in one walk leaves an invalid entry each
\* time: MaxEntries bounds them.
InputKey ==
  /\ Calls("input")
  /\ \/ /\ level # NoLevel /\ ready /\ Len(seqFrame) < MaxEntries
        /\ Show(Activate(~flActive, level, Shown))
        /\ UNCHANGED <<shot, deferred>>
     \/ \E es \in {<<"disconnect">>, <<"start">>, Reconnect, AltF4} : Defer(es)
     \/ Screenshot
  /\ UNCHANGED <<idx, game, start, load, ev, quit>>

Input == /\ Calls("input")
         /\ idx' = idx + 1
         /\ UNCHANGED <<shown, game, start, load, shot, events, quit>>

\* CLevel::OnFrame: the connection is lost, or a message asks for another level.
LevelFrame ==
  /\ \E lv \in Levels : Calls(lv)
  /\ Idle \/ (~single /\ Defer(<<"disconnect">>)) \/ Defer(Reconnect)
  /\ idx' = idx + 1
  /\ UNCHANGED <<game, start, load, ev, quit>>

\* CMainMenu::OnFrame takes the screenshot in the second frame after it was
\* asked for, and the level off again.
MenuFrame ==
  /\ Calls("menu")
  /\ IF pending /\ dist < 0
       THEN /\ pending' = FALSE
            /\ Show(IF flActive /\ level # NoLevel
                      THEN RemoveLevel(level, TRUE, Shown) ELSE Shown)
       ELSE UNCHANGED <<pending, shown>>
  /\ idx' = idx + 1
  /\ UNCHANGED <<game, start, load, dist, events, quit>>
------------------------------------------------------------------------------
(* A turn of the loop with loading events: the first one runs and, unless it *)
(* returned false, is popped.  LoadDraw and the titles count frames too, but *)
(* no screenshot is near by then.                                            *)

Loading(f) == /\ idx = 0 /\ ~quit /\ loading # <<>> /\ Head(loading).fn = f
              /\ ~Orphan(Head(loading))
              /\ UNCHANGED <<idx, single, shot, events, quit>>

\* A step of a level that was deleted: what it does is undefined, and the model
\* ends here.
LostStep == /\ idx = 0 /\ ~quit /\ loading # <<>> /\ Orphan(Head(loading))
            /\ quit' = TRUE
            /\ UNCHANGED <<idx, shown, game, start, load, shot, events>>

\* The server's level is unknown: one LoadEnd too many.
NetStart1 ==
  /\ Loading("start1")
  /\ \/ UNCHANGED <<result, load>>
     \/ /\ ~single /\ loadRef > -MaxDebt
        /\ result' = FALSE /\ SetLoads(LoadEnd(Loads))
  /\ loading' = Tail(loading)
  /\ UNCHANGED <<shown, level, ready, connected, total>>

NetStart2 ==
  /\ Loading("start2")
  /\ result' \in IF single THEN {result} ELSE {FALSE, result}
  /\ loading' = Tail(loading)
  /\ UNCHANGED <<shown, level, ready, connected, total, load>>

\* Steps that leave nothing of this behind.
NetOther ==
  /\ \E f \in {"start3", "start5", "client4", "client5"} : Loading(f)
  /\ loading' = Tail(loading)
  /\ UNCHANGED <<shown, level, ready, connected, result, total, load>>

\* Puts the steps of the client in its own place.
NetStart4 ==
  /\ Loading("start4")
  /\ loading' = (IF result THEN Steps(level, NetClient) ELSE <<>>)
                  \o Tail(loading)
  /\ UNCHANGED <<shown, level, ready, connected, result, total, load>>

\* Puts the finalizer, which belongs to no level, in its own place.
NetStart6 ==
  /\ Loading("start6")
  /\ total' = result
  /\ loading' = Steps(NoLevel, <<"finalizer">>) \o Tail(loading)
  /\ SetLoads(LoadEnd(Loads))
  /\ UNCHANGED <<shown, level, ready, connected, result>>

NetClient1 ==
  /\ Loading("client1")
  /\ loading' = Tail(loading)
  /\ SetLoads(LoadBegin(Loads))
  /\ UNCHANGED <<shown, level, ready, connected, result, total>>

NetClient2 ==
  /\ Loading("client2")
  /\ connected' \in IF single THEN {TRUE} ELSE BOOLEAN
  /\ loading' = Tail(loading)
  /\ UNCHANGED <<shown, level, ready, result, total, load>>

\* The client does not have the level: a LoadEnd too many, and the step is left
\* on the list, to find itself disconnected in the next turn.
NoLevelFound ==
  /\ loadRef > -MaxDebt
  /\ SetLoads(LoadEnd(Loads)) /\ connected' = FALSE
  /\ UNCHANGED <<shown, ready, loading>>

\* IGame_Level::Load.
Load ==
  /\ ready' = TRUE
  /\ Show(AddLevel(level, TRUE, Shown))
  /\ loading' = Tail(loading)
  /\ UNCHANGED <<connected, load>>

\* Defect: without a connection the step stays on the list.
NetClient3_Again ==
  /\ Loading("client3")
  /\ \/ connected /\ (NoLevelFound \/ Load)
     \/ ~connected /\ UNCHANGED <<loading, shown, ready, connected, load>>
  /\ UNCHANGED <<level, result, total>>

NetClient3 ==
  /\ Loading("client3")
  /\ \/ connected /\ (NoLevelFound \/ Load)
     \/ /\ ~connected /\ loading' = Tail(loading)
        /\ UNCHANGED <<shown, ready, connected, load>>
  /\ UNCHANGED <<level, result, total>>

\* Defect: the client that did not connect leaves without LoadEnd.
NetClient6_NoEnd ==
  /\ Loading("client6")
  /\ result' = connected
  /\ loading' = Tail(loading)
  /\ SetLoads(IF connected THEN LoadEnd(Loads) ELSE Loads)
  /\ UNCHANGED <<shown, level, ready, connected, total>>

NetClient6 ==
  /\ Loading("client6")
  /\ result' = connected
  /\ loading' = Tail(loading)
  /\ SetLoads(LoadEnd(Loads))
  /\ UNCHANGED <<shown, level, ready, connected, total>>

\* Defect: the level that failed to load is deleted and nothing is shown.
Finalizer_NoMenu ==
  /\ Loading("finalizer")
  /\ IF level # NoLevel /\ ~total
       THEN Show(Delete(Shown)) /\ NoMore
       ELSE UNCHANGED <<shown, level, ready, connected, result>>
  /\ loading' = Tail(loading)
  /\ UNCHANGED <<total, load>>

\* The level that failed to load is deleted, and the menu comes back.
Finalizer ==
  /\ Loading("finalizer")
  /\ IF level # NoLevel /\ ~total
       THEN Show(Activate(TRUE, NoLevel, Delete(Shown))) /\ NoMore
       ELSE UNCHANGED <<shown, level, ready, connected, result>>
  /\ loading' = Tail(loading)
  /\ UNCHANGED <<total, load>>

LoadTurn == \/ NetStart1 \/ NetStart2 \/ NetStart4 \/ NetStart6 \/ NetOther
            \/ NetClient1 \/ NetClient2 \/ NetClient3 \/ NetClient6
            \/ Finalizer

Turn == \/ BeginFrame \/ Skip \/ EndFrame
        \/ OnStart \/ SecondStart \/ OnDisconnect \/ OnQuit \/ EventsDelivered
        \/ Persistent \/ Input \/ LevelFrame \/ MenuFrame
        \/ LoadTurn \/ LostStep

Next == Turn \/ InputKey \/ Quitted

Spec     == Init /\ [][Next]_vars
\* The primary thread keeps turning, and runs out of keys.
FairSpec == Spec /\ WF_vars(Turn)
------------------------------------------------------------------------------
(* What must hold.                                                          *)

\* No walk of seqFrame or seqRender calls a level that was deleted, or one that
\* is not loaded: OnFrame has VERIFY(bReady), and after the destructor there is
\* no object to call.  Deletions happen inside the walk (a disconnect, before
\* the level's turn) and between two (a load that failed).
CalledLevelReady ==
  \A lv \in Levels, r \in {seqFrame, seqRender} :
    Count(r, lv) > 0 => lv = level /\ ready

\* Between two frames a level that is up is called once by each list, or not at
\* all where the menu hides it (and, with one player, stops it); a screenshot
\* under the menu shows it for a while.  Nobody's Add and Remove may pair up
\* wrongly: a level listed twice updates its objects twice a frame, and Add has
\* a VERIFY against it; one that is not listed again is a frozen game.
LevelRegisteredOnce ==
  idx = 0 /\ ready =>
    LET hidden == flActive /\ ~pending
    IN /\ Count(seqFrame, level) = IF hidden /\ single THEN 0 ELSE 1
       /\ Count(seqRender, level) = IF hidden THEN 0 ELSE 1

\* A level whose steps are on g_loading_events is there until they have run: they
\* hold its address, and nobody takes them off when it is deleted.  What the code
\* has against it is that no frame moves meanwhile; so the one way left is an
\* event behind the start that made the level, delivered in the same pass.
LoadingEventsLive ==
  [][level # NoLevel /\ level' # level /\ (\E i \in DOMAIN loading : loading[i].lv = level)
       => \E i \in 1..ev : deferred[i] = "start"]_vars

\* Whatever sequence of starts, disconnects, lost connections and failed loads
\* brought the program here: with no level, nothing to load and nothing
\* deferred, the menu is up.  Else the player has nothing to leave it by.
SomethingToShow ==
  /\ idx = 0 /\ ~quit
  /\ level = NoLevel /\ loading = <<>> /\ deferred = <<>>
  => flActive

\* A level that plays is not behind the loading screen: each LoadBegin got its
\* LoadEnd (or more), on the paths that fail too, also those of earlier loads.
IdleMeansLoaded ==
  idx = 0 /\ ready /\ loading = <<>> => appLoaded

\* The loading list empties, whatever fails on the way, and leaves a level that
\* is up, or the menu.
LoadingEnds ==
  loading # <<>> /\ ~quit ~>
    quit \/ (loading = <<>> /\ (ready \/ flActive))
==============================================================================
