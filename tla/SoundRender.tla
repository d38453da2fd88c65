---------------------------- MODULE SoundRender ----------------------------
(***************************************************************************)
(* CSoundRender_Core and CSoundRender_Emitter (xrSound): the sounds that    *)
(* are on, each with an emitter that plays, if it is loud enough for one   *)
(* of the few targets (voices of the sound card), or is only simulated.    *)
(*                                                                         *)
(* The game calls play, stop and pause between two updates, which          *)
(* VERIFY(!i_locked()) asks of it; update moves every emitter once, first  *)
(* those that have a target.  What is heard is input: how far a sound is,  *)
(* how loud, when it ends.  The enumerators of State that differ in Looped *)
(* are one phase here, with a flag; loudness is the priority() of an       *)
(* emitter, Silent when it is out of range or below psSoundCull.           *)
(*                                                                         *)
(* The order of emitters and targets in their vectors is left out, and so  *)
(* are the sound events of the AI and the streams.                         *)
(***************************************************************************)
EXTENDS Integers, FiniteSets

CONSTANTS Sounds,      \* ref_sound_data
          Emitters,    \* addresses of emitters
          Targets,
          NoSound, NoEmitter, NoTarget,
          Flat,        \* the sounds that are 2D: stereo, or played so
          Looped,      \* those played with sm_Looped
          Delayed,     \* those played with a delay
          MaxLoud,     \* bound on the loudness of an emitter
          MaxFade,     \* fade_volume of a sound that is not faded
          MaxPause     \* bound on m_iPauseCounter

ASSUME SoundRenderAssumption ==
  /\ NoSound \notin Sounds /\ NoEmitter \notin Emitters /\ NoTarget \notin Targets
  /\ Flat \subseteq Sounds /\ Looped \subseteq Sounds /\ Delayed \subseteq Sounds
  /\ MaxLoud \in Nat /\ MaxFade \in Nat \ {0} /\ MaxPause \in Nat \ {0}

VARIABLES s_emitters,       \* the emitters that exist
          m_current_state,
          owner_data,       \* the sound an emitter belongs to
          target,           \* the target it plays on
          iPaused,          \* the number of the pause it obeys, 0: none
          bStopping,        \* emitters whose deferred stop is under way
          bRewind,          \* emitters to be heard from the start
          fade_volume,
          loud,             \* as this update finds it
          feedback,         \* the emitter of a sound
          pEmitter,         \* the emitter of a target
          rendering,        \* targets that the card plays
          priority,
          faded,            \* history: updates that heard an emitter since it was
                            \* told to stop
          m_iPauseCounter,
          snd_emitters_,    \* what CRenderDevice::Pause knows of it
          pc,
          todo,             \* what is left of the loop over s_targets, s_emitters
          marked            \* those left that have been updated: marker = s_emitters_u

states  == <<m_current_state, owner_data, target, bStopping, bRewind, fade_volume, loud, faded>>
cards   == <<pEmitter, rendering, priority>>
pauses  == <<iPaused, m_iPauseCounter, snd_emitters_>>
loop    == <<pc, todo, marked>>
vars    == <<s_emitters, states, feedback, cards, pauses, loop>>

Silent == -1
Phases == {"stStopped", "stStartingDelayed", "stStarting", "stPlaying", "stSimulating"}

\* The targets do not initialise their priority.
Init == /\ s_emitters = {} /\ feedback = [s \in Sounds |-> NoEmitter]
        /\ m_current_state = [e \in Emitters |-> "stStopped"]
        /\ owner_data = [e \in Emitters |-> NoSound]
        /\ target = [e \in Emitters |-> NoTarget]
        /\ bStopping = {} /\ bRewind = {}
        /\ fade_volume = [e \in Emitters |-> MaxFade]
        /\ loud = [e \in Emitters |-> Silent] /\ faded = [e \in Emitters |-> 0]
        /\ iPaused = [e \in Emitters |-> 0]
        /\ pEmitter = [t \in Targets |-> NoEmitter] /\ rendering = {}
        /\ priority \in [Targets -> Silent .. MaxLoud]
        /\ m_iPauseCounter = 1 /\ snd_emitters_ = -1
        /\ pc = "game" /\ todo = {} /\ marked = {}
------------------------------------------------------------------------------
(* Between two updates.                                                     *)

\* play: rewind() of the emitter there is, or i_play with a new one.
Rewind(s) ==
  /\ pc = "game" /\ feedback[s] # NoEmitter
  /\ bStopping' = bStopping \ {feedback[s]}
  /\ bRewind' = bRewind \cup {feedback[s]}
  /\ UNCHANGED <<s_emitters, m_current_state, owner_data, target, fade_volume,
                 loud, faded, feedback, cards, pauses, loop>>

i_play(s) ==
  /\ pc = "game"
  /\ \E e \in Emitters \ s_emitters :
       /\ s_emitters' = s_emitters \cup {e}
       /\ feedback' = [feedback EXCEPT ![s] = e]
       /\ owner_data' = [owner_data EXCEPT ![e] = s]
       /\ m_current_state' = [m_current_state EXCEPT ![e] =
            IF s \in Delayed THEN "stStartingDelayed" ELSE "stStarting"]
  /\ UNCHANGED <<target, bStopping, bRewind, fade_volume, loud, faded, cards, pauses, loop>>

Play(s) == IF feedback[s] # NoEmitter THEN Rewind(s) ELSE i_play(s)

\* i_stop of some emitters: their targets and their owners are let go; they
\* themselves go with the next update.
i_stop(es) ==
  /\ m_current_state' = [e \in Emitters |-> IF e \in es THEN "stStopped" ELSE m_current_state[e]]
  /\ target' = [e \in Emitters |-> IF e \in es THEN NoTarget ELSE target[e]]
  /\ owner_data' = [e \in Emitters |-> IF e \in es THEN NoSound ELSE owner_data[e]]
  /\ pEmitter' = [t \in Targets |-> IF pEmitter[t] \in es THEN NoEmitter ELSE pEmitter[t]]
  /\ rendering' = {t \in rendering : pEmitter[t] \notin es}
  /\ feedback' = [s \in Sounds |-> IF feedback[s] \in es THEN NoEmitter ELSE feedback[s]]
  /\ bRewind' = bRewind \ es

\* Defect: the target is not told.
Stop_KeepsTarget(s) ==
  /\ pc = "game" /\ feedback[s] # NoEmitter
  /\ m_current_state' = [m_current_state EXCEPT ![feedback[s]] = "stStopped"]
  /\ owner_data' = [owner_data EXCEPT ![feedback[s]] = NoSound]
  /\ feedback' = [feedback EXCEPT ![s] = NoEmitter]
  /\ UNCHANGED <<s_emitters, target, bStopping, bRewind, fade_volume, loud, faded, cards,
                 pauses, loop>>

\* stop, destroy.
Stop(s) ==
  /\ pc = "game" /\ feedback[s] # NoEmitter
  /\ i_stop({feedback[s]})
  /\ UNCHANGED <<s_emitters, bStopping, fade_volume, loud, faded, priority, pauses, loop>>

StopDeffered(s) ==
  /\ pc = "game" /\ feedback[s] # NoEmitter
  /\ bStopping' = bStopping \cup {feedback[s]}
  /\ faded' = IF feedback[s] \in bStopping THEN faded ELSE [faded EXCEPT ![feedback[s]] = 0]
  /\ UNCHANGED <<s_emitters, m_current_state, owner_data, target, bRewind,
                 fade_volume, loud, feedback, cards, pauses, loop>>

stop_emitters ==
  /\ pc = "game" /\ i_stop(s_emitters)
  /\ UNCHANGED <<s_emitters, bStopping, fade_volume, loud, faded, priority, pauses, loop>>

\* CRenderDevice::Pause, pause_emitters.
Pause ==
  /\ pc = "game" /\ m_iPauseCounter < MaxPause
  /\ m_iPauseCounter' = m_iPauseCounter + 1 /\ snd_emitters_' = m_iPauseCounter'
  /\ iPaused' = [e \in Emitters |->
       IF e \in s_emitters /\ iPaused[e] = 0 THEN m_iPauseCounter' ELSE iPaused[e]]
  /\ UNCHANGED <<s_emitters, states, feedback, cards, loop>>

Resume ==
  /\ pc = "game" /\ snd_emitters_ > 0
  /\ m_iPauseCounter' = m_iPauseCounter - 1 /\ snd_emitters_' = m_iPauseCounter'
  /\ iPaused' = [e \in Emitters |->
       IF e \in s_emitters /\ iPaused[e] = m_iPauseCounter THEN 0 ELSE iPaused[e]]
  /\ UNCHANGED <<s_emitters, states, feedback, cards, loop>>
------------------------------------------------------------------------------
(* update of one emitter.                                                   *)

AtLeast0(n) == IF n < 0 THEN 0 ELSE n
AtMost(n)   == IF n > MaxFade THEN MaxFade ELSE n

\* Defect: a sound that stops fades only if it is also far away.
Fades_OnlyFar(e, f) ==
  {AtMost(f + 1)} \cup IF owner_data[e] \in Flat THEN {} ELSE {AtLeast0(f - 1)}

\* update_culling moves fade_volume down if the emitter stops or is too quiet
\* where the listener is, and up otherwise...
Fades(e, f) ==
  IF e \in bStopping THEN {AtLeast0(f - 1)}
  ELSE {AtMost(f + 1)} \cup IF owner_data[e] \in Flat THEN {} ELSE {AtLeast0(f - 1)}

\* ...but leaves it alone when the listener is out of range.
Volumes(e, f) ==
  [fade : Fades(e, f), loud : Silent .. MaxLoud, near : {TRUE}]
    \cup IF owner_data[e] \in Flat THEN {} ELSE {[fade |-> f, loud |-> Silent, near |-> FALSE]}

i_allow_play(l) == \E t \in Targets : priority[t] < l

Heard(e, f) ==
  {[phase |-> IF v.loud # Silent /\ (target[e] # NoTarget \/ i_allow_play(v.loud))
              THEN "stPlaying" ELSE "stSimulating",
    fade |-> v.fade, loud |-> v.loud, near |-> v.near] : v \in Volumes(e, f)}

\* The switch of update: what becomes of an emitter.
Same(e, ph) ==
  [phase |-> ph, fade |-> fade_volume[e], loud |-> loud[e], near |-> FALSE]
Outcomes(e) ==
  LET now == m_current_state[e]
  IN IF now = "stStopped" THEN {Same(e, now)}
     ELSE IF iPaused[e] # 0
       THEN {Same(e, IF now = "stPlaying" THEN "stSimulating" ELSE now)}
     ELSE IF now = "stStartingDelayed" THEN {Same(e, now), Same(e, "stStarting")}
     ELSE IF now = "stStarting" THEN Heard(e, MaxFade)
     ELSE Heard(e, fade_volume[e])
            \cup IF owner_data[e] \in Looped THEN {} ELSE {Same(e, "stStopped")}

\* Defect: the first target of a lower priority, not the lowest.
Lowest_Lower(l) == {t \in Targets : priority[t] < l}

\* The target that i_start takes, whatever plays there.
Lowest(l) == {t \in Targets : \A u \in Targets : priority[t] <= priority[u]}

\* The rest of update: i_start and i_stop of the core, the deferred stop, the
\* footer.  Into priority goes what the loop over s_targets finds afterwards, or
\* what i_start leaves.
Moved(e, o, t, first) ==
  LET over   == o.phase = "stStopped" \/ (e \in bStopping /\ o.fade = 0)
      starts == o.phase = "stPlaying" /\ m_current_state[e] # "stPlaying"
      plays  == o.phase = "stPlaying" /\ ~over
      victim == IF starts THEN pEmitter[t] ELSE NoEmitter
  IN /\ t \in IF starts THEN Lowest(o.loud) ELSE {target[e]}
     /\ m_current_state' = [x \in Emitters |->
          IF x = e THEN (IF over THEN "stStopped" ELSE o.phase)
          ELSE IF x = victim THEN "stSimulating" ELSE m_current_state[x]]
     /\ target' = [x \in Emitters |->
          IF x = e THEN (IF plays THEN t ELSE NoTarget)
          ELSE IF x = victim THEN NoTarget ELSE target[x]]
     /\ pEmitter' = [u \in Targets |->
          IF u = t THEN (IF plays THEN e ELSE NoEmitter) ELSE pEmitter[u]]
     /\ rendering' = IF starts \/ ~plays THEN rendering \ {t} ELSE rendering
     /\ priority' = IF first \/ starts
                    THEN [priority EXCEPT ![t] = IF plays \/ ~first THEN o.loud ELSE Silent]
                    ELSE priority
     /\ owner_data' = IF over THEN [owner_data EXCEPT ![e] = NoSound] ELSE owner_data
     /\ feedback' = [s \in Sounds |-> IF over /\ feedback[s] = e THEN NoEmitter ELSE feedback[s]]
     /\ fade_volume' = [fade_volume EXCEPT ![e] = o.fade]
     /\ loud' = [loud EXCEPT ![e] = o.loud]
     /\ faded' = [faded EXCEPT ![e] = IF o.near /\ e \in bStopping THEN @ + 1 ELSE @]
     /\ bRewind' = bRewind \ {e}

update(e, first) ==
  \E o \in Outcomes(e), t \in Targets \cup {NoTarget} : Moved(e, o, t, first)
------------------------------------------------------------------------------
(* CSoundRender_Core::update.                                               *)

BeginUpdate ==
  /\ pc = "game" /\ pc' = "targets" /\ todo' = Targets
  /\ UNCHANGED <<s_emitters, states, feedback, cards, pauses, marked>>

TargetFree(t) ==
  /\ pc = "targets" /\ t \in todo /\ pEmitter[t] = NoEmitter
  /\ priority' = [priority EXCEPT ![t] = Silent]
  /\ todo' = todo \ {t}
  /\ UNCHANGED <<s_emitters, states, feedback, pEmitter, rendering, pauses, pc, marked>>

TargetUpdate(t) ==
  /\ pc = "targets" /\ t \in todo /\ pEmitter[t] # NoEmitter
  /\ update(pEmitter[t], TRUE)
  /\ marked' = marked \cup {pEmitter[t]}
  /\ todo' = todo \ {t}
  /\ UNCHANGED <<s_emitters, bStopping, pauses, pc>>

TargetsDone ==
  /\ pc = "targets" /\ todo = {}
  /\ pc' = "emitters" /\ todo' = s_emitters
  /\ UNCHANGED <<s_emitters, states, feedback, cards, pauses, marked>>

\* An emitter the first loop has not met.
EmitterUpdate(e) ==
  /\ pc = "emitters" /\ e \in todo \ marked
  /\ update(e, FALSE)
  /\ IF m_current_state'[e] = "stStopped"
     THEN marked' = marked \cup {e} /\ UNCHANGED todo
     ELSE todo' = todo \ {e} /\ UNCHANGED marked
  /\ UNCHANGED <<s_emitters, bStopping, pauses, pc>>

\* One that it has met, and that is still on.
EmitterStays(e) ==
  /\ pc = "emitters" /\ e \in todo \cap marked /\ m_current_state[e] # "stStopped"
  /\ todo' = todo \ {e} /\ marked' = marked \ {e}
  /\ UNCHANGED <<s_emitters, states, feedback, cards, pauses, pc>>

\* One that stopped is deleted; the next at its address is constructed afresh.
EmitterDeleted(e) ==
  /\ pc = "emitters" /\ e \in todo \cap marked /\ m_current_state[e] = "stStopped"
  /\ todo' = todo \ {e} /\ marked' = marked \ {e}
  /\ s_emitters' = s_emitters \ {e}
  /\ bStopping' = bStopping \ {e} /\ bRewind' = bRewind \ {e}
  /\ fade_volume' = [fade_volume EXCEPT ![e] = MaxFade]
  /\ loud' = [loud EXCEPT ![e] = Silent] /\ faded' = [faded EXCEPT ![e] = 0]
  /\ iPaused' = [iPaused EXCEPT ![e] = 0]
  /\ UNCHANGED <<m_current_state, owner_data, target, feedback, cards, m_iPauseCounter,
                 snd_emitters_, pc>>

\* The targets that are not rendering yet start to.
EndUpdate ==
  /\ pc = "emitters" /\ todo = {}
  /\ rendering' = {t \in Targets : pEmitter[t] # NoEmitter}
  /\ loud' = [e \in Emitters |-> Silent]
  /\ pc' = "game"
  /\ UNCHANGED <<s_emitters, m_current_state, owner_data, target, bStopping, bRewind,
                 fade_volume, faded, feedback, pEmitter, priority, pauses, todo, marked>>

Update ==
  \/ BeginUpdate \/ TargetsDone \/ EndUpdate
  \/ \E t \in Targets : TargetFree(t) \/ TargetUpdate(t)
  \/ \E e \in Emitters : EmitterUpdate(e) \/ EmitterStays(e) \/ EmitterDeleted(e)

Game ==
  \/ stop_emitters \/ Pause \/ Resume
  \/ \E s \in Sounds : Play(s) \/ Stop(s) \/ StopDeffered(s)

Next == Update \/ Game

Spec == Init /\ [][Next]_vars
------------------------------------------------------------------------------
(* Properties.                                                              *)

TypeOK ==
  /\ s_emitters \subseteq Emitters
  /\ m_current_state \in [Emitters -> Phases]
  /\ owner_data \in [Emitters -> Sounds \cup {NoSound}]
  /\ target \in [Emitters -> Targets \cup {NoTarget}]
  /\ bStopping \subseteq Emitters /\ bRewind \subseteq Emitters
  /\ fade_volume \in [Emitters -> 0 .. MaxFade]
  /\ loud \in [Emitters -> Silent .. MaxLoud]
  /\ feedback \in [Sounds -> Emitters \cup {NoEmitter}]
  /\ pEmitter \in [Targets -> Emitters \cup {NoEmitter}]
  /\ rendering \subseteq Targets /\ priority \in [Targets -> Silent .. MaxLoud]
  /\ iPaused \in [Emitters -> Nat] /\ m_iPauseCounter \in Int /\ snd_emitters_ \in Int
  /\ pc \in {"game", "targets", "emitters"}
  /\ marked \subseteq Emitters /\ faded \in [Emitters -> Nat]

\* An emitter has a target exactly while it plays, and it is the emitter of that
\* target.
PlaysOnItsTarget ==
  /\ \A e \in Emitters : m_current_state[e] = "stPlaying" <=> target[e] # NoTarget
  /\ \A e \in Emitters, t \in Targets : target[e] = t <=> pEmitter[t] = e

\* The feedback of a sound is the emitter whose owner it is, which exists and has
\* not stopped.
FeedbackOwned ==
  \A e \in Emitters :
    /\ m_current_state[e] # "stStopped" <=> owner_data[e] # NoSound
    /\ owner_data[e] # NoSound => e \in s_emitters
    /\ \A s \in Sounds : owner_data[e] = s <=> feedback[s] = e

\* An emitter that is to be rewound finds its target rendering.
RewindsRendering ==
  pc = "targets" => \A t \in todo : pEmitter[t] \in bRewind => t \in rendering

\* Sounds, emitters and targets always agree on who belongs to whom, whatever is
\* played, stopped, paused, culled or robbed of its target in between: feedback
\* "automaticaly clears on emitter-stop"; i_stop of the core, which reads target
\* without a test, has R_ASSERT(E == E->target->get_emitter()), cancel has
\* FATAL("Non playing ref_sound forced out of render queue"), and rewind of a
\* target has R_ASSERT(rendering).
LinksAgree == PlaysOnItsTarget /\ FeedbackOwned /\ RewindsRendering

\* Pauses nest: an emitter obeys one that is still in force, and the counter,
\* which CRenderDevice::Pause guards ("avoid crash"), is never negative.
PausesNest ==
  /\ m_iPauseCounter >= 0
  /\ \A e \in Emitters : iPaused[e] <= m_iPauseCounter

\* When all emitters have moved, whoever is loud enough but has no target is no
\* louder than any emitter that has one, and the priority of a target is the
\* loudness of its emitter.
LoudestPlay ==
  pc = "emitters" /\ todo = {} =>
    \A t \in Targets :
      /\ \A e \in Emitters :
           m_current_state[e] = "stSimulating" /\ iPaused[e] = 0 => loud[e] <= priority[t]
      /\ pEmitter[t] # NoEmitter => priority[t] = loud[pEmitter[t]]

\* An emitter that is told to stop fades out: it is gone before MaxFade updates
\* have heard it, however it was paused, culled or robbed of its target meanwhile.
\* An update that finds the listener out of range does not hear it: a looped sound
\* left behind goes on, simulated, until the listener comes back.
FadesOut ==
  \A e \in bStopping : m_current_state[e] # "stStopped" => faded[e] < MaxFade
==============================================================================
