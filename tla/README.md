# A formal model of the X-Ray engine (NSProjectX)

`src/` is a build of the X-Ray engine (S.T.A.L.K.E.R.: Clear Sky): a Windows game of about fifty
projects with no documentation or tests of its own. What the code promises is in its comments and
in its `VERIFY` / `R_ASSERT` assertions. This directory keeps TLA+ specifications of the parts of
the engine whose correctness is a matter of ordering, ownership and shared state, the TLC
configurations that check them on small instances, and TLAPS proofs for every instance.

## 1. Inventory

The program is one process with a primary thread (window messages, simulation, rendering), a
secondary thread (work deferred from the simulation, run while the primary renders), a sound and a
network thread of their own, and, in a single-player game, a server and a client that live in the
same process and talk through in-memory packets.

| Part | State it keeps | Operations | What must hold |
|---|---|---|---|
| Frame loop (`xrEngine/device.{h,cpp}`) | `mt_csEnter`, `mt_csLeave`, `mt_bMustExit`, `mt_Thread_marker`, `dwFrame`, `seqParallel`, `seqFrameMT` | `Run`, `FrameMove`, `mt_Thread`, `remove_from_seq_parallel` | the two threads alternate; each frame's deferred work is done once, in that frame; exit joins |
| Deferred jobs (`level_path_builder.h`, `detail_path_builder.h`, `movement_manager*.cpp`, `CustomMonster.cpp`, `ai_stalker.cpp`) | per object: `m_wait_for_distributed_computation`, its delegates on `seqParallel` | set up, process, remove, `clear_path`, `on_restrictions_change`, `net_Destroy` | no delegate of a dead object is called; the flag is up exactly while a builder is pending |
| Scheduler (`xrEngine/xrSheduler.{h,cpp}`, `ISheduled`) | `ItemsRT`, heap `Items`, `ItemsProcessed`, `Registration` queue, current step object | `Register`, `Unregister`, `Push/Pop/Top`, `ProcessStep`, `Update` (`EnsureOrder` has no caller) | a registered object is in one container, is updated again, and is not called after it unregistered |
| Level life cycle (`xrEngine/x_ray.cpp`, `IGame_Level.cpp`, `xrGame/Level_start.cpp`, `Level_network_start_client.cpp`, `MainMenu.cpp`) | `g_pGameLevel`, its `bReady`, `g_loading_events`, `ll_dwReference`, the menu's flags | start, disconnect, quit, the twelve steps of a load and the finalizer, menu on and off, screenshot of a save | the lists call the level that is there, once; a load ends in a game or in the menu |
| Registrators (`xrEngine/pure.h`) | `R` sorted by priority, `in_process`, `changed` | `Add`, `Remove`, `Process`, `Resort` | every subscriber is called once per event; removal during the event is safe |
| Object list (`xrEngine/xr_object_list.cpp`, `xr_object.cpp`) | `objects_active/sleeping`, `destroy_queue`, `crows_0/1`, `map_NETID`, relcase callbacks | create, destroy, sleep/wake, crow, `Update` | an object is in exactly one list; a destroyed object is on none, and everybody was told |
| Event dispatcher (`xrEngine/EventAPI.cpp`) | events with reference counts and handlers, deferred list | `Create`, `Destroy`, `Handler_Attach/Detach`, `Signal`, `Defer`, `OnFrame` | a deferred event is delivered once; an event lives while referenced |
| Id allocator (`xrGame/id_generator.h`) | blocks of ids, counts, time stamps | `tfGetID`, `vfFreeID` | an id is owned by one object at a time; a freed id rests as long as possible |
| Server entities (`xrGame/xrServer*.cpp`) | entity map, parent / children links, clients | spawn, destroy, ownership take, reject, ownership transfer, `verify_entities` | parent and children agree, no cycle, no dangling child |
| ALife switching (`alife_switch_manager.cpp`, `alife_update_manager.cpp`) | online / offline sets, `switch_counter` | add, remove, switch online / offline | an online object has a server entity and its inventory follows it |
| Client events (`NET_Queue.h`, `Level.cpp`, `Level_network*.cpp`, `GameObject.cpp`) | event queue, spawn queue, objects | `ProcessGameEvents`, `ProcessGameSpawns`, `net_Spawn` | events are applied in order, to objects that exist |
| Sound (`xrSound/SoundRender_*`) | emitters and their states, targets, pauses, the pointers between sound, emitter and target | `play`, `stop`, `stop_deffered`, `destroy`, `pause_emitters`, `update` | sound, emitter and target agree on who plays where; the loudest have the targets; who is told to stop stops |
| Occlusion and details (`layers/xrRender/HOM.*`, `DetailManager.*`) | `MT_frame_rendered`, `m_frame_*`, buffers, `MT` critical sections | `MT_RENDER`, `MT_SYNC`, `MT_CALC`, `Render`, `Disable/Enable` | each is computed once a frame by one thread, before it is read |
| Weapons, inventory (`Weapon*.cpp`, `HudItem.cpp`, `Inventory.cpp`) | state and next state of the weapon, slots, belt, ruck | commands, network events, ends of animations | an item is in one place; a state that was begun is left |

`PROJECT.json` lists these and every other part of the repository, with its sources and, where it
is not modelled, the reason (geometry, physics, rendering, scripts, user interface, file formats,
offline tools, vendored libraries).

How the parts meet, in the single-player game that is modelled:

* The primary thread goes through `Device.seqFrame` by priority: renderer, `CApplication`
  (`Engine.Event.OnFrame`), `CGamePersistent` (the scheduler, unless the game is paused, then ALife),
  input, `CLevel::OnFrame` (drain the client's events, then `Objects.Update`: every `UpdateCL`, then
  the destroy queue), the rest. Then it hands the frame to the secondary thread and renders.
* Objects defer work on `Device.seqParallel` from the scheduler and from `UpdateCL`; the secondary
  thread, or the primary in its stead, works the list off.
* A request to the server (`u_EventSend`) runs the server's handler synchronously, inside the call.
  What the server broadcasts is queued, and applied by the drain of a later `OnFrame`.
* ALife switches entities online and offline through the same queue: the scheduler calls its update,
  which with `mtALife` set waits on `Device.seqParallel` (`alife_update_manager.cpp:121`) and runs
  behind the frame it was called in. Either way it runs between two drains, which is what
  `LevelClient` needs of it.
* The server's ids come from `CID_Generator`; ids of destroyed entities go back to it.

### What is hard

Two threads that hand a frame to each other with two mutexes; lists that are changed while they are
walked; objects destroyed while somebody holds their address or their id; a client that lags the
server by one drain and sends requests from what it still sees; times and budgets that decide who is
served. `PROJECT.json` ("hazards") names each of these at its line, with the properties that would
catch it.

## 2. Modules

| Module | Models | Role |
|---|---|---|
| `Vectors` | `std::find` + `erase` on vectors | shared operators; `VectorsProofs` has their laws |
| `FrameWork` | - | abstract: each frame's deferred jobs run once, in order, before the next frame |
| `FrameSync` | `device.cpp`, `device.h`, and the objects that defer work | two threads; implements `FrameWork` |
| `Sheduler` | `xrSheduler.cpp`, `ISheduled.cpp` | containers, registration queue, budget |
| `IdPool` | - | abstract: an id is handed out while nobody has it, and refused only when somebody has |
| `IdGenerator` | `id_generator.h` and its callers | implements `IdPool` |
| `EntityTree` | - | abstract: the forest of entities |
| `ServerEntities` | `xrServer_process_*.cpp` | handlers, broadcasts; implements `EntityTree` |
| `LevelClient` | `Level*.cpp`, `ai_stalker_events.cpp`, `Actor_Events.cpp`, `alife_switch_manager.cpp` | composes the server (by `INSTANCE`) with its client; implements `ServerEntities` |
| `ObjectList` | `xr_object_list.cpp`, `xr_object.cpp`, `pure_relcase.*` | lists, crows, destroy queue, pointers |
| `Registrator` | `pure.h` | operators on a list of subscribers, in and out of its walk |
| `LevelLife` | `x_ray.cpp`, `EventAPI.cpp`, `IGame_Level.cpp`, `Level_start.cpp`, `Level_network_start_client.cpp`, `MainMenu.cpp` | the level, from start to disconnect; uses `Registrator` |
| `RenderSync` | `HOM.*`, `DetailManager.*`, `occRasterizer.cpp`, `r2_R_render.cpp` | the two jobs of the renderer against the renderer |
| `SoundRender` | `SoundRender_Core*.cpp`, `SoundRender_Emitter*.cpp`, `SoundRender_Target.cpp`, `CRenderDevice::Pause` | emitters competing for targets, pauses, deferred stops |
| `FrameSyncProofs`, `ShedulerProofs`, `ServerEntitiesProofs`, `ObjectsAndIdsProofs`, `LevelProofs` (of `LevelLife` and `LevelClient`), `RenderSyncProofs`, `SoundRenderProofs` | - | theorems for every value of the constants |
| `MC*` | - | small instances for TLC |

Definitions carry the names of the code (`m_available_count`, `ProcessStep`, `Process_event_reject`,
`clear_crow_vec`); "map" in `PROJECT.json` gives the lines of each. A definition whose comment begins
with "Defect:" is not part of a specification: it is what a plausible bug would make of the
definition after it, and exists to show that a property notices.

### FrameSync

`pc` says where each thread is in `Run` and `mt_Thread`: one action per lock, unlock, test and call.
`mt_csEnter` and `mt_csLeave` are owners, `mt_bMustExit`, `dwFrame` and `mt_Thread_marker` are as in
the code, `seqParallel` is the sequence of delegates. During `FrameMove` (`"sheduler"`, `"level"`,
`"objects"`) any object may do what `shedule_Update`, events, `UpdateCL` and `net_Destroy` do to the
list: set up one of two path builders that share `m_wait_for_distributed_computation`, defer vision,
sound and object handler, clear a path, restart after a change of restrictions, go away. A defer is
possible or not, as the path manager decides; what the path is, is left out. The renderer's two jobs
(`insert` at the front) are there, what they compute is not.

### Sheduler

`ItemsRT`, `Items`, `ItemsProcessed` and `Registration` are the four containers, `b_RT` the flag by
which `Unregister` looks for an object, `due` a time relative to `dwTimeGlobal`. Addresses are reused:
an object may die and another be built in its place while old entries still name it. The time a call
takes is not modelled; the code looks at its budget after every third turn, so the model lets a step
end there, or go on.

### IdGenerator

Blocks are sequences of offsets; `IsMinElement` is the block that `std::min_element` returns, the
first of the least by `operator<`. A request that meets an assertion ("Not enough IDs", "Requesting ID
has already been used!", the `VERIFY` on an empty block) ends the program: `refused` then holds the ids
one of which was asked for in vain, all of them when any would have done. `IdPool` refuses only what is
taken, so a count of blocks that is too low, or an empty block that is chosen, would break `PoolSpec`.
`freed` is a history of when each id was freed. `SpawnThrough` is what `CALifeSimulator__spawn_item2`
does: an id is freed with time 0, which stamps its block.

### ServerEntities

A handler is an operator from a server state to the next, so that handlers that call one another, and
callers that make two calls, stay one step. `sv.wire` is what was broadcast and not yet applied,
`mirror` the tree that a client makes of it. Requests are stale: any sender may name entities that are
gone or have changed hands. An `R_ASSERT` that fails sets `sv.fault`.

### LevelClient

`held` (`H_Parent` of what `map_NETID` has), `inv` (`m_pCurrentInventory`), `dying` (the destroy
queue) and `removed` (`m_bObjectRemoved`) are the client; `luggage` and `switched` are ALife's. A frame
is `"shedule"`, `"drain"`, `"update"`. `BeginDrain` takes what has arrived, `ProcessEvent` applies one
event, a take that is refused sends its reject at once, `DestroyQueue` closes the frame. Every request
has the guard its sender has: what the client's objects show.

### ObjectList

The lists of active and sleeping objects follow `bActiveCounter`; `crow` is the flag, `crows[l][o]`
says how often `o` is entered in list `l`, `work` is the copy `objects_dup`. `raw` marks objects whose
`dwFrame_UpdateCL` was never assigned: the constructor leaves it as the memory has it, so whether it
equals the number of the frame is a free choice for the objects of `Garbage`. `Hold` gives an object
or one of its Feels a pointer to another object; `Told` is `net_Relcase` for all objects and the
registered callbacks. Taken from the callers: requests to process an object come in pairs, the server
lets an item go before destroying it and gives nothing to an owner that is doomed, an `UpdateCL`
changes its own object only. A spawn that fails leaves nothing behind (in debug builds its
`net_Destroy` would meet `VERIFY(getDestroy())`, `xr_object.cpp:188`).

### LevelLife

`idx` walks `seqFrame` entry by entry, so that what a subscriber does to the list meets the rest of
the walk: an entry that is removed is skipped, one that is added is called in this walk, and the list
is sorted at its end (`Registrator`). `app` delivers the deferred events one by one, `persistent`
may save or go on with a demo, `input` presses any number of keys, the level loses its connection or is
told to change, `menu` ends a screenshot. With events on `g_loading_events` (`loading`) there is no
walk: each turn runs the first, and pops it unless it returned false, as `net_start4` and `net_start6`
do after popping themselves. Any step that can fail may fail; the levels of `Levels` are addresses, so
a new one may have the old one's.

Events are deferred in any order, starts behind starts and disconnects behind both. A start that finds
a level ends the program (`SecondStart`: `R_ASSERT(0 == g_pGameLevel)`, `x_ray.cpp:874`). A disconnect
behind the start that made a level, in the same pass, deletes it under the steps of its load, which
nobody takes off the list; nor does the menu come, since `Peek` still finds the start. What the first
such step then does, through a dangling pointer, is undefined: it ends the model (`LostStep`).
Taken from the users: while a screenshot blocks the menu (`Blocked`: `Activate` returns silently) only
an exit is deferred (`Unblocked`; without this TLC finds a save and a disconnect in the next frame
that leave neither level nor menu), and nobody saves twice under the menu before the picture is taken
(`Screenshot`). The subscribers that do
nothing to the level are left out; `seqRender` is not walked while it changes.

### RenderSync

`FrameSync` shows that the jobs of a frame run once, in order, between the end of `FrameMove` and the
next; `RenderSync` starts from that: a worker has the two jobs to do, in any interleaving with the
renderer's scene. `hom` and `details` own the two critical sections; `raster` and `lists` say of which
frame their contents are and whether they are complete; one action per lock, test of a flag, clearing,
completion and stamp. The jobs' flag and the menu do not change between `OnFrame` and the scene. What
is drawn, culled and listed is left out, and details are switched on. `CDetailManager`'s constructor
does not set its frame numbers: they start as anything.

### SoundRender

`update` of the core runs on the thread that works off `seqFrameMT`, the calls of the game between two
updates, as `VERIFY(!::Sound->i_locked())` in every function of `ref_sound` (`Sound.h`) asks: `pc` is
`"game"`, `"targets"` (the loop over who renders) or `"emitters"` (the loop over the rest). Emitters are
addresses, used again after their deletion; `owner_data` and `feedback` are the two pointers between a
sound and its emitter, `target` and `pEmitter` those between emitter and target. A sound played without
feedback is a member of `Sounds` of its own (`play_no_feedback` makes it a fresh `ref_sound_data`).

One update of an emitter is one step: `Outcomes` is its `switch`, what `update_culling` hears being
input (`Volumes`), and `Moved` what follows, in `i_start`, `i_stop`, `cancel` and the footer. Loudness
(`priority()`) and `fade_volume` are small numbers, `Silent` is below `psSoundCull` or out of range;
the smoothing between the two is left to the input, so that any loudness may follow any volume. The
enumerators that differ in `Looped` are one phase and a flag. The order of targets and emitters in
their vectors is left out: any order is allowed, which is more than the code does. `faded` is history.

Left out: the events for the AI (`s_events`), streams and buffers, EAX, `attach_tail` (no caller),
a sound that becomes 2D, looped or delayed while it plays, and `snd_restart`, after which
`CSoundRender_CoreA::_restart` leaves `bPresent` down and every `play` returns at once.

## 3. Runs

| Run | Question | Instance, and why it is enough |
|---|---|---|
| `frame` | does the hand-over give each frame exactly one pass, on a list without dead delegates, and end both threads? | 2 objects, all kinds of jobs, `MaxFrame` 2: a marker left by the previous frame, and a secondary that did or did not get its turn, both take two frames; a third repeats the second. A flag shared by two builders needs one object, the order among objects two. 557,589 states |
| `sheduler` | do queue and containers say the truth at every moment, is nobody dead called, is everybody served, and how late can an item be? | 3 objects of which 2 are called in a frame (`Turns` 2 for the three of the code), each due every frame: one must wait, one may be unregistered by the one that is called, one born at an address that is still queued. `Lag` 6 is exact for two registrations or unregistrations a frame (`MaxQueue` 2): 5 is exceeded; dropped items use up turns, with more of them the bound grows. 2,628,304 states, no symmetry. Four symmetric objects with three turns (`Lag` 8), and intervals of one or two frames (`Lag` 8), were checked with the same result and are too large to keep |
| `ids` | is the block allocator a pool, does an id rest? | 5 ids in blocks of 2: full blocks and a short one; every order of calls until one is refused; 2 times, so that blocks tie and differ |
| `entities` | do parents and children agree, whatever arrives when? | 5 entities of three ranks: trees of depth three, lists of three; 2 events under way |
| `client` | does the client follow the server? | actor, stalker, 2 items, `Capacity` 2 (nothing is refused), 7 events under way: a switch, a transfer and a destroy of the same item in one frame. With two stalkers and `WireBound` 5 (2.25M states) nothing else was found |
| `client_full` | does a refused take end well? (no) | `Capacity` 1 |
| `stale_requests` | are the server's assertions out of reach of late requests? (no) | as `client` |
| `objects` | do lists, crows, queue, pointers and callbacks agree? | 2 objects, both with a Feel, one pointer at a time of either kind, two requests to process, one forced update of the six of `net_Stop`: whatever the first does not clear the second would not either. 713,756 states |
| `level_life` | does every sequence of starts, failures, disconnects, menus and saves keep the lists right and end in a game or the menu? | 2 addresses (the old and another), `MaxDeferred` 5: two changes of level, or one and an exit, and one event more, `MaxEntries` 8: the menu toggled twice in a walk, `MaxDebt` 1: one load that failed with a `LoadEnd` too many. 407,676 states |
| `render` | is what is read and drawn complete and of this frame? | `MaxFrame` 4: three frames in a row and one skipped, in every interleaving of worker and renderer. 144,295 states |
| `sound` | do sounds, emitters and targets agree, do the loudest play, does a deferred stop end? | 3 sounds of different flags and 3 emitters for 2 targets: one emitter more than targets, so that one is refused or robs another; `MaxLoud` 1: quieter and louder, `MaxFade` 1, `MaxPause` 2: a pause within the one the counter starts with. 4,278,100 states, emitters and targets symmetric |
| `objects_crow` | is who the scheduler called updated in that frame? (no) | as `objects`, without garbage |

`objects` says `CHECK_DEADLOCK FALSE`: after `Unload` the level is over.

### What the runs show

* **`Exclusive`, `OnePassPerFrame`, `ExitHandshake`, `WorkSpec`**: although no thread
  holds a mutex throughout, the two never work on a frame together; the marker makes exactly one of
  them do the pass; `Run` returns after the secondary has answered; and all this implements the
  single-threaded `FrameWork`.
* **`NoDeadCall`, `WaitIffQueued`**: a delegate is never listed twice, so the single `erase` in
  `remove_from_seq_parallel` is enough; the wait flag is up exactly while a builder is pending.
* **`RegisteredAgrees`, `OnePlace`, `NoDangling`**: `CSheduler::Registered` is right at
  every moment, and addresses left in queue and processed items are never dereferenced after the
  destructor. **`LatenessBounded`**, **`Served`**: nobody starves.
* **`PoolSpec`, `NoHotReuse`** (ids): no id is in two hands, none is refused while it is free, and an id
  rests while one of another block has rested longer - except in a block that `SpawnThrough` stamped
  with 0, whose ids come back next.
* **`Agreement`, `DestroyEnds`, `WireReplays`, `TreeSpec`**: what `verify_entity` asserts after each
  request holds for stale requests too, and a client that applies the broadcasts one by one is never
  asked for the impossible.
* **`ClientAccepts`, `InventoryMatches`, `CaughtUp`, `Gone`, `ServerSpec`**: the
  client's objects and inventories follow the server; the pair is a run of `ServerEntities`.
* **`ListsFollowCounters`, `CrowsAccounted`, `OwnersOutlive`, `NoDanglingLink`, `CallbacksFound`,
  `CrowsLive`**: lists, flags and queue never part; owners outlive what they own; pointers
  are dropped before what they point to is destroyed; an object the scheduler keeps calling is updated
  for ever.

* **`CalledLevelReady`, `LevelRegisteredOnce`, `LoadingEventsLive`**: whoever deletes, hides or shows
  the level, in whichever part of the frame, no walk calls a deleted or unloaded level, and one that is
  up is listed once. It takes the menu's three tests of the screenshot's frame, and that a frame does
  not move while a level loads. The steps of a load outlive their level in one way only: a disconnect
  behind the start, delivered in the same pass.
* **`SomethingToShow`, `IdleMeansLoaded`, `LoadingEnds`**: a load that fails in any step ends, in the
  menu (a `Peek` that finds an event of the past keeps the menu away only where such steps are left);
  a failure calls `LoadEnd` once more than `LoadBegin`, never less, so no later game is left
  behind the loading screen.
* **`RasterCurrent`, `ListsStable`, `DrawnFresh`**: the tests without a lock (`bEnabled`,
  `m_frame_calc`) are safe because of the order in which the frame numbers are written. This is about
  the raster and the lists: `m_xform_01`, which `CHOM::visible` reads before the `MT_SYNC` of
  `occRasterizer.cpp:130`, is not modelled.
* **`LinksAgree`**: the three records of who plays where (`m_current_state`, `target`, `pEmitter`) and the
  two of whose it is never part, whoever is robbed, culled, paused, ended or stopped: none of the
  assertions on the way (`i_stop`, `i_rewind`, `cancel`, `CSoundRender_Target::rewind`) can fail.
* **`LoudestPlay`**: the comparisons with priorities that are stale while targets change hands end in the
  right assignment, because the second loop only ever raises the lowest.
* **`FadesOut`**: what a deferred stop needs is to be heard often enough. It is not enough that updates
  run: a looped 3D sound left behind out of range is never heard, and its emitter is simulated, fading,
  until the listener comes back (the early return of `update_culling`). The property says so. With the
  run's `MaxFade` 1 a fade is over at the first update that hears it; robbed or culled in the middle of
  one is covered by the theorem `FadesAlways`, for every `MaxFade`.

### Where the code does something else than it says

1. `client_full`: a stalker that cannot carry an item it was spawned with answers the take with a
   reject ("Dropping for valid server information", `ai_stalker_events.cpp:63`). The server broadcasts
   it back, and the stalker's inventory drops what it never took: `R_ASSERT` at `Inventory.cpp:200`.
2. `stale_requests`: a request made in the frame in which its entity was destroyed, switched offline
   or given away reaches an `R_ASSERT` of `Process_event_reject` or `Process_event_ownership`, where
   the other look-ups of these handlers return.
3. `objects_crow`: "Makes sure that update-cl called at least with freq of shedule-update"
   (`xr_object.cpp:284`) fails for an object put to sleep as a crow and woken one frame later: its flag
   is still up, so it is entered nowhere. It is updated from the next time somebody makes it a crow, the scheduler
   at the latest (`CrowsLive`).

### Fairness

* `FrameSync`: weak fairness of the secondary thread, and of the primary's steps from one part of its
  frame to the next: both threads are scheduled and `seqFrame.Process` returns. Nothing obliges a
  frame to start, an object to appear or `WM_QUIT` to come.
* `Sheduler`: weak fairness of `Update`, which is its beginning, the steps of its
  loops and the return of a `shedule_Update`: the frame loop calls it in every frame.
* `LevelLife`: weak fairness of `Turn`, which is everything the primary thread does but pressing keys:
  `Run` turns, each subscriber and each loading step returns.
* `LevelClient`: weak fairness of the frame's own steps. `ObjectList`: weak fairness of `Update`. No
  request, switch, spawn or destroy is ever assumed to happen. `RenderSync` and `SoundRender` state safety only.

## 4. Proofs

Each proof module extends the module it is about. Assumptions are the named `ASSUME`s on constants
(`FrameSyncAssumption`, `ShedulerAssumption`, `IdAssumption`, `EntityAssumption`, `ObjectAssumption`,
`RenderSyncAssumption`, `SoundRenderAssumption`, `LevelLifeAssumption`, `ClientAssumption`), nothing
else. Theorems that need more state it: `ClientAcceptsHolds` and `ImplementsServer` a condition on two
constants of `LevelClient`, `LatenessHolds` one on the load.

* **`FrameSyncProofs`**. For any set of objects, kinds of jobs and number of frames: `Exclusive`,
  `TypeOK`, `NoDeadCall`, `WaitIffQueued`, `OnePassPerFrame`, and the refinement `WorkSpec`. `IInv` is
  `LockInv` (who owns which mutex at each place: a mutex is what tells the threads' places apart, so
  `Exclusive` is not inductive without it), `FrameInv` (`marker` and `passes` against `dwFrame`: the
  primary's test of the marker is right only because of it), `ListShape` (cursors are within the list,
  no delegate is twice in what is left of it) and `ListInv` (alive, waiting). The list's part rests on
  the laws of `Erase` and `Append` in `VectorsProofs`.
* **`ShedulerProofs`**. For any objects, intervals, budget and queue: `RegisteredAgrees`, `OnePlace`,
  `NoDangling`. What makes `Registered` right is a matter of the order in the queue: `IInv` says that an
  object's entries alternate (`Alternates`), that one which is in a list leaves it first (`Leaves`), by
  the list that its entry names (`FirstNames`), that the last entry is what it asked for (`LastSays`),
  and, when none is queued, that its place says it (`PlaceSays`). `Settling` is why an object may leave
  at once while items are processed: nothing is queued then for who is in the lists, so the destructor's
  second `Unregister` finds nobody. `QueueInvGrows` and `QueueInvShrinks` say once what an entry more or
  less does; only the pairing of a registration with a later unregistration needs the shift of both.
  `LatenessHolds` says how late an item can be. `Patience` says of each item that is late, due before
  now, that it has waited for some number of steps, no less than its lateness shows at `D` a frame, and
  that those who are due no later than it, the turns of this step and those of the earlier ones are
  together `K` at most (`Waited`): a step that leaves a late item on the heap has taken `Turns` that
  were due no later, and what goes back on the heap is due in the future, so nobody comes in between. The
  hypothesis is about the load, since the constants do not bound how many items there are: an `Unregister`
  leaves a tombstone, and an address that is registered again and again leaves many. `LoadWithin(K)`
  says that no more than `K` items, tombstones included, are late at once. On the instance of run
  `sheduler`, TLC finds 8 late at once and no more, so that the theorem gives `Lag` = 9 there (and TLC
  agrees); the run checks the exact one, 6.
* **`ObjectsAndIdsProofs`**, the ids. For any range, block size and times: `IdInv` (types, `CountAgrees`,
  `BlocksSound`: each block holds its own offsets, once, `TimesAgree`: its time is that of the last
  free in it), from which `PicksFull` (`min_element` finds a block with an id while the count is not
  zero), `NoHotReuse` and the refinement `PoolSpec` follow; its refusals (`RefusalStep`) need `PicksFull`
  and, for a count of zero, `CountAgrees`. The arithmetic of block and offset is proved once, as lemmas on `\div` and `%`.
* **`ServerEntitiesProofs`**. For any entities and ranks: `Agreement`, `TypeOK`, `DestroyEnds` and the
  refinement `TreeSpec`. A state is `Good` when its records are typed and agree; each handler, as an
  operator, keeps `Good`, so every composition of handlers does.
  `WireReplays` adds to `Good` that owners outrank what they own (`Ranked`: the guards of the requests,
  which is why no entity hangs on itself) and that the events on the wire lead a client from its tree to
  the server's (`Caught`, `Following`). A client's run over a wire is a function on indices, which two
  wires one after another extend (`Runs`, `ReplayThen`, `ReplayAll`). What a destroy sends is defined by
  recursion over the tree; `UnfoldExists` shows that the recursion has a solution because ranks fall,
  and `Leaves` says what it is good for: what is sent of an entity takes it, and all that hangs on it,
  out of *any* tree it hangs in as it does in the server's. `LeavesAfterKids` is the step, for both
  orders (`EventPack` rejects an entity after its children went, `DestroyEvents` before), `KidsReplay`
  lets the children go one after another. Both inductions, over the wire and over ranks, are by a set
  of numbers (`NatSteps` in `VectorsProofs`), which the provers can use where an induction rule about
  operators is beyond them.
* **`ObjectsAndIdsProofs`**, the objects. For any set of objects: `ListsFollowCounters`, `CrowsAccounted`,
  `OwnersOutlive`, `NoDanglingLink` and `CallbacksFound`. Flags and lists of crows part for a while in every `Update`; `IInv` adds `Flagged` (an object in the list that
  fills up has the flag) and `WorkInUpdate` (what is being worked off is empty outside of `"update"`,
  and who is entered meanwhile was updated already).
  `PInv` adds, for the destroy queue: it holds who is marked, once, and nobody behind what he owns
  (`Queued`, which is why walking it from its end leaves no orphan: `NoOrphans`); and while it is worked
  off, everyone with a callback was told of all that is queued (`AllTold`), so that no pointer to it is
  left. `setDestroy` marks what is not yet marked of a subtree whole, owners first (`MarkedBelow`,
  `SetDestroyPointers`); that a finite set can be entered as a sequence without repetition
  (`ArrangedOnce`) follows from its cardinality.

* **`RenderSyncProofs`**. For any number of frames: `RasterCurrent`, `ListsStable`, `DrawnFresh`. `IInv` is
  `TypeOK`, `Calls` (what each frame number says of how far its job is), `Locks` (who owns which critical
  section at each place), `Drawing`, `Enabling` (when the raster may be incomplete, and why `bEnabled` is
  down then for whoever could read it) and `Listing` (the same for the details): the safety of the
  unlocked reads is a matter of which of two writes came first, which only these parts remember.
* **`SoundRenderProofs`**. For any number of sounds, emitters and targets, any loudness and depth of
  pauses: `LinksAgree`, `LoudestPlay`, `FadesOut` and `PausesNest` (an emitter obeys a pause in force).
  `IInv` adds to the links `Rendered` (what the first loop will meet has been rendering since the last
  update), `Loops` (whom the loops have met, and that who is left for the second has no target),
  `Ranked` (the first loop takes targets only from the silent; in the second, who waits is no louder
  than *any* target, which rising priorities keep true: `LoudestPlay` alone would not survive a step),
  `Pauses` and `Fading` (updates that were heard and what is left of the volume add up). `OutcomeFacts`
  says what the switch can make of an emitter, `MovedPoints` and `MovedRanks` what a move changes; each
  later lemma uses only these.

* **`LevelProofs`**, the life cycle. For any addresses and bounds: `CalledLevelReady`, `LevelRegisteredOnce`,
  `LoadingEventsLive`, `SomethingToShow`, `IdleMeansLoaded`. None is inductive; `IInv` (`LevelInvariant`)
  adds `Delivering` (what was delivered in this pass has had its effect: after a start there are steps
  on the list), `Queue`, `Walking` (a walk that goes on with steps to load has delivered the start or is
  past the application, and none of them is the finalizer), `Lost` (the first step on the list is one of
  a deleted level: then no step will run) and, unless it is so, `Line` (the steps are in the order of the code: what `net_start4` and `net_start6`
  put in their own place comes before what is left), `Unready`, `Live` (steps belong to the level there
  is, and neither menu nor screenshot is in the way of the finalizer, unless the program is about to
  quit), from which `NoneLost` follows: a start meets no steps but lost ones; `Loaded` (`loadRef` is at most what the steps that are left will take off); `Menu` and
  `OnList` (both counts of every address at every moment of the frame, from `ready`, the menu and the
  screenshot). Each action edits `seqFrame` at most once, which keeps the walk's place (`Framed`,
  `Grown`). `Registrator`'s operators have laws of their own: `ResortShape` (sorting keeps exactly the
  valid entries, by a ranking of indices), `CountIs`, `ResortCount`, `AddCount`, `RemoveCount`. That
  nobody else has a level's address is part of `LevelLifeAssumption`. `IInv` was checked with TLC
  on the instance of `level_life` before it was proved.

* **`LevelProofs`**, the client. For any stalkers, items and capacity: `InventoryMatches`, `CaughtUp`, and
  that of the client's assertions only the reject's can fail (`OnlyRejectsFail`). Provided a stalker can
  carry all the items there are (`CanCarryAll`): `ClientAccepts`, and the refinement `ServerSpec`, so
  that what `ServerEntitiesProofs` proves holds of server and client in one program. The condition is
  not for convenience: run `client_full` shows that with less capacity `ClientAccepts` is false, and the
  reject by which such a stalker answers a take during the drain is a request in the middle of a
  receipt, which is no step of `ServerEntities`.
  `ClientInv(m)` is about what is *on its way*. `m` is the tree the client would show had it taken all
  it was given; what it does show (`WouldShow`) differs in the items a stalker refused: they lie about
  until the reject that answers the take, the next event about such an item, comes back (`Refused`).
  That reject finds the item with nobody, which the client asserts against: the client stops there, and
  what it shows till then is what `Sound` says - an `m` with `ClientInv(m)`, or `Halted`. When nobody
  refuses, `m` stays the client's own tree (`Exact`).
  `Follows` has `Following` of `ServerEntitiesProofs` for `m`; it says that each event can be applied to
  the tree, which is less than what the client asserts. What it asserts besides is in `SpawnsFresh` (no
  object, dying ones included, has an id that a spawn on the wire brings, and no event before that spawn
  is about it), `OwnersOnWire` (so that an item hangs on an owner), and `InventoryMatches`. `Outcome`
  says what each event does to `m` and to what is shown, `Rest` what is left of the wire behind it.
  `ServerEntities` lets an entity enter only when the client is free of it; that ALife, which knows
  nothing of the client, enters only such ones is `LuggageKept` (what is offline, with what went along,
  is not on the server, and is there once) with `LuggageFar`: events about it are on the wire only
  between the visit that took it off and the end of the next drain, and until the next frame ALife does
  not visit it again. `FrameTyped` adds that no object is dying when ALife looks. Requests other than
  spawns and switches send only about entities the server knows, and that no spawn (`Tells`); this, for
  each handler, is in `ServerEntitiesProofs` (`Sends`, `Changes`: from `SendsNothing` to
  `TransferSends`; `ReplayOthers`: an entity that leaves the tree has been sent about, which is why
  going offline is seen by the client). TLC checked the invariant on the instance of `client`, and with
  a capacity of 1 and wires of up to 7 events, before it was proved. `ServerEntities` is there twice, as
  `S`, which `LevelClient` composes, and as `P`, of which the theorems are; `SameRequests`, `SameCalls`
  and their like say that both are one.

Only model-checked: liveness (`ExitHandshake`, `Served`, `Gone`, `CrowsLive`, `LoadingEnds`), because
reasoning about fairness is out of the prover's reach.

## 5. What is left out, and what comes next

Simplifications: a packet arrives complete and in order (client and server share a process);
`CID_Generator` is not composed with `ServerEntities`: `LevelClient` spawns ids that nothing uses, as
`NoHotReuse` makes likely but the functions that free with time 0 do not (an id may come back at
once); boxes and cars as owners, phantoms, respawn and `M_UPDATE` are not modelled.

Not modelled, of parts that are:

* scheduler: the handler of structured exceptions, which goes on without `Pop` (`xrSheduler.cpp:307`),
  the reference that the real-time loop keeps into `ItemsRT` (`xrSheduler.cpp:437`: only for code that
  unregisters a real-time item from within the call of one), `EnsureOrder` and the shutdown;
* renderer: `vid_restart` in the middle of `seqFrame` (`r2.cpp:360`), details switched off;
* level: the loops of `net_start_client4` that wait for the server, which in single player answers
  within the call.

Coverage: the repository has about a million lines of code, most of it libraries, compilers, tools
and editors; the modules here stand for some three thousand lines of the engine. What is modelled is
what decides ordering, ownership and sharing. No list of modules of this size could stand for a third of
the tree: what is left is data (geometry, numbers, formats, scripts) or sequential.

Plan, in order:

1. `FrameSync` composed with the destroy queue of `ObjectList`, for delegates that nobody takes off
   the list (`wallmark_manager.cpp:83`), and with `RenderSync`'s jobs.
2. Weapons: the state machine of `WeaponMagazined`, driven by commands, network and animations.
3. `CompilerThreads`: the worker pool of the level compiler (`xrThread.h`, `xrLight.cpp`).
