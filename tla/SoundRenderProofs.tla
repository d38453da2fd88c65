-------------------------- MODULE SoundRenderProofs --------------------------
(***************************************************************************)
(* What MCSoundRender checks for three sounds and two targets holds for    *)
(* any number of them, any loudness, any number of steps a volume fades in *)
(* and any depth of pauses.                                                *)
(***************************************************************************)
EXTENDS SoundRender, TLAPS

\* What a target plays when the loops over targets and emitters begin has been
\* rendering since the last update; what begins to play in the second loop is
\* rendered at the end.
Rendered ==
  /\ pc = "game" => \A t \in Targets : pEmitter[t] # NoEmitter => t \in rendering
  /\ pc = "targets" => \A t \in todo : pEmitter[t] # NoEmitter => t \in rendering

\* What each loop has left to do, and whom it has met.
Loops ==
  /\ pc = "game" => todo = {} /\ marked = {}
  /\ pc = "targets" => /\ todo \subseteq Targets /\ marked \subseteq s_emitters
                       /\ \A t \in Targets \ todo :
                            pEmitter[t] # NoEmitter => pEmitter[t] \in marked
  /\ pc = "emitters" => /\ todo \subseteq s_emitters /\ marked \subseteq todo
                        /\ \A e \in todo \ marked : target[e] = NoTarget

\* An emitter that waits for a target although it is heard.
Waits(e) == m_current_state[e] = "stSimulating" /\ iPaused[e] = 0

\* The first loop takes a target only from an emitter that is silent; in the
\* second, priorities only rise, so that one refused or robbed stays too quiet.
Ranked ==
  /\ pc = "targets" =>
       /\ \A e \in marked : Waits(e) => loud[e] = Silent
       /\ \A t \in Targets \ todo :
            pEmitter[t] # NoEmitter => priority[t] = loud[pEmitter[t]]
  /\ pc = "emitters" =>
       \A t \in Targets :
         /\ \A e \in Emitters :
              e \notin todo \ marked /\ Waits(e) => loud[e] <= priority[t]
         /\ pEmitter[t] # NoEmitter => priority[t] = loud[pEmitter[t]]

\* CRenderDevice::Pause knows the counter, once it was called; an emitter that does
\* not exist is not paused.
Pauses ==
  /\ PausesNest
  /\ snd_emitters_ \in {-1, m_iPauseCounter}
  /\ \A e \in Emitters \ s_emitters : iPaused[e] = 0

\* An emitter that stops has lost a step of its volume with each update that heard
\* it; before it starts, none did.
Fading ==
  /\ bStopping \subseteq s_emitters
  /\ \A e \in bStopping : m_current_state[e] # "stStopped" =>
       /\ faded[e] = 0 \/ (fade_volume[e] > 0 /\ faded[e] + fade_volume[e] <= MaxFade)
       /\ m_current_state[e] \in {"stStartingDelayed", "stStarting"} => faded[e] = 0

IInv == /\ TypeOK /\ PlaysOnItsTarget /\ FeedbackOwned
        /\ Rendered /\ Loops /\ Ranked /\ Pauses /\ Fading
------------------------------------------------------------------------------
(* One emitter.                                                             *)

\* What update_culling finds.
LEMMA VolumeFacts ==
  ASSUME NEW e \in Emitters, NEW f \in 0 .. MaxFade, NEW v \in Volumes(e, f)
  PROVE  /\ v.fade \in 0 .. MaxFade /\ v.loud \in Silent .. MaxLoud
         /\ v.near => v.fade \in Fades(e, f)
         /\ ~v.near => v.fade = f
<1>1. Fades(e, f) \subseteq 0 .. MaxFade /\ Silent \in Silent .. MaxLoud
  BY SoundRenderAssumption DEF Fades, AtLeast0, AtMost, Silent
<1>2. \/ v \in [fade : Fades(e, f), loud : Silent .. MaxLoud, near : {TRUE}]
      \/ v = [fade |-> f, loud |-> Silent, near |-> FALSE]
  BY DEF Volumes
<1>3. CASE v \in [fade : Fades(e, f), loud : Silent .. MaxLoud, near : {TRUE}]
  BY <1>1, <1>3
<1>4. CASE v = [fade |-> f, loud |-> Silent, near |-> FALSE]
  BY <1>1, <1>4
<1> QED
  BY <1>2, <1>3, <1>4

\* The volume an emitter has when the listener hears it: a sound that starts has
\* all of it.
Volume(e) == IF m_current_state[e] = "stStarting" THEN MaxFade ELSE fade_volume[e]

Playable(e, o) == o.loud # Silent /\ (target[e] # NoTarget \/ i_allow_play(o.loud))

Waking == {"stStartingDelayed", "stStarting"}

\* What the switch of update can make of an emitter: it plays if it can, and if it
\* stops its volume falls each time it is heard.
LEMMA OutcomeFacts ==
  ASSUME TypeOK, NEW e \in Emitters, NEW o \in Outcomes(e)
  PROVE  /\ o.phase \in Phases /\ o.fade \in 0 .. MaxFade /\ o.loud \in Silent .. MaxLoud
         /\ m_current_state[e] = "stStopped" => o.phase = "stStopped"
         /\ o.phase = "stPlaying" => Playable(e, o)
         /\ o.phase = "stSimulating" /\ iPaused[e] = 0 => ~Playable(e, o)
         /\ o.near => o.fade \in Fades(e, Volume(e))
         /\ ~o.near => o.fade \in {fade_volume[e], Volume(e)}
         /\ o.phase \in Waking => m_current_state[e] \in Waking /\ ~o.near
<1> DEFINE Good ==
      /\ o.phase \in Phases /\ o.fade \in 0 .. MaxFade /\ o.loud \in Silent .. MaxLoud
      /\ m_current_state[e] = "stStopped" => o.phase = "stStopped"
      /\ o.phase = "stPlaying" => Playable(e, o)
      /\ o.phase = "stSimulating" /\ iPaused[e] = 0 => ~Playable(e, o)
      /\ o.near => o.fade \in Fades(e, Volume(e))
      /\ ~o.near => o.fade \in {fade_volume[e], Volume(e)}
      /\ o.phase \in Waking => m_current_state[e] \in Waking /\ ~o.near
<1> SUFFICES Good
  OBVIOUS
<1>1. /\ fade_volume[e] \in 0 .. MaxFade /\ MaxFade \in 0 .. MaxFade
      /\ loud[e] \in Silent .. MaxLoud
      /\ m_current_state[e] \in Phases /\ iPaused[e] \in Nat
  BY SoundRenderAssumption DEF TypeOK
<1>2. ASSUME o \in Heard(e, Volume(e)), m_current_state[e] # "stStopped"
      PROVE  Good
  <2>1. PICK v \in Volumes(e, Volume(e)) :
          o = [phase |-> IF v.loud # Silent /\ (target[e] # NoTarget \/ i_allow_play(v.loud))
                         THEN "stPlaying" ELSE "stSimulating",
               fade |-> v.fade, loud |-> v.loud, near |-> v.near]
    BY <1>2 DEF Heard
  <2>2. Volume(e) \in 0 .. MaxFade
    BY <1>1 DEF Volume
  <2>3. /\ v.fade \in 0 .. MaxFade /\ v.loud \in Silent .. MaxLoud
        /\ v.near => v.fade \in Fades(e, Volume(e))
        /\ ~v.near => v.fade = Volume(e)
    BY <2>2, VolumeFacts
  <2>4. /\ o.fade = v.fade /\ o.loud = v.loud /\ o.near = v.near
        /\ o.phase = IF Playable(e, o) THEN "stPlaying" ELSE "stSimulating"
    BY <2>1 DEF Playable
  <2> QED
    BY <1>2, <2>3, <2>4 DEF Phases, Waking
<1>3. ASSUME NEW ph \in Phases, o = Same(e, ph), ph # "stPlaying",
             ph = "stSimulating" => iPaused[e] # 0,
             m_current_state[e] = "stStopped" => ph = "stStopped",
             ph \in Waking => m_current_state[e] \in Waking
      PROVE  Good
  <2>1. o.phase = ph /\ o.fade = fade_volume[e] /\ o.loud = loud[e] /\ o.near = FALSE
    BY <1>3 DEF Same
  <2> QED
    BY <1>1, <1>3, <2>1
<1> HIDE DEF Good
<1>4. CASE m_current_state[e] = "stStopped"
  <2>1. o = Same(e, "stStopped")
    BY <1>4 DEF Outcomes
  <2> QED
    BY <1>3, <1>4, <2>1 DEF Phases, Waking
<1>5. CASE iPaused[e] # 0 /\ m_current_state[e] = "stPlaying"
  <2>1. o = Same(e, "stSimulating")
    BY <1>5 DEF Outcomes
  <2> QED
    BY <1>3, <1>5, <2>1 DEF Phases, Waking
<1>6. CASE iPaused[e] # 0 /\ m_current_state[e] \notin {"stPlaying", "stStopped"}
  <2>1. o = Same(e, m_current_state[e])
    BY <1>6 DEF Outcomes
  <2> QED
    BY <1>1, <1>3, <1>6, <2>1
<1>7. CASE iPaused[e] = 0 /\ m_current_state[e] = "stStartingDelayed"
  <2>1. o \in {Same(e, "stStartingDelayed"), Same(e, "stStarting")}
    BY <1>7 DEF Outcomes
  <2> QED
    BY <1>3, <1>7, <2>1 DEF Phases, Waking
<1>8. CASE iPaused[e] = 0 /\ m_current_state[e] = "stStarting"
  <2>1. o \in Heard(e, MaxFade)
    BY <1>8 DEF Outcomes
  <2> QED
    BY <1>2, <1>8, <2>1 DEF Volume
<1>9. CASE iPaused[e] = 0 /\ m_current_state[e] \in {"stPlaying", "stSimulating"}
  <2>1. o \in Heard(e, fade_volume[e]) \/ o = Same(e, "stStopped")
    BY <1>9 DEF Outcomes
  <2>2. fade_volume[e] = Volume(e)
    BY <1>9 DEF Volume
  <2>3. CASE o \in Heard(e, fade_volume[e])
    BY <1>2, <1>9, <2>2, <2>3
  <2>4. CASE o = Same(e, "stStopped")
    BY <1>3, <1>9, <2>4 DEF Phases, Waking
  <2> QED
    BY <2>1, <2>3, <2>4
<1>10. Good
  BY <1>1, <1>4, <1>5, <1>6, <1>7, <1>8, <1>9 DEF Phases
<1> QED
  BY <1>10 DEF Good

------------------------------------------------------------------------------
(* A move of one emitter.                                                   *)

Over(e, o)   == o.phase = "stStopped" \/ (e \in bStopping /\ o.fade = 0)
Starts(e, o) == o.phase = "stPlaying" /\ m_current_state[e] # "stPlaying"
Plays(e, o)  == o.phase = "stPlaying" /\ ~Over(e, o)

Robbed(e, o, t) == IF Starts(e, o) THEN pEmitter[t] ELSE NoEmitter

\* Moved, point by point.
Points(e, o, t) ==
  /\ t \in IF Starts(e, o) THEN Lowest(o.loud) ELSE {target[e]}
  /\ m_current_state'[e] = IF Over(e, o) THEN "stStopped" ELSE o.phase
  /\ \A x \in Emitters \ {e} :
       m_current_state'[x] = IF x = Robbed(e, o, t) THEN "stSimulating" ELSE m_current_state[x]
  /\ target'[e] = IF Plays(e, o) THEN t ELSE NoTarget
  /\ \A x \in Emitters \ {e} :
       target'[x] = IF x = Robbed(e, o, t) THEN NoTarget ELSE target[x]
  /\ \A u \in Targets :
       pEmitter'[u] = IF u = t THEN (IF Plays(e, o) THEN e ELSE NoEmitter) ELSE pEmitter[u]

\* What is said of an emitter here is what Moved does.
LEMMA MovedPoints ==
  ASSUME TypeOK, NEW e \in Emitters, NEW o \in Outcomes(e), NEW t \in Targets \cup {NoTarget},
         NEW first \in BOOLEAN, Moved(e, o, t, first)
  PROVE  Points(e, o, t)
  BY DEF Moved, Over, Starts, Plays, Robbed, Points

\* An emitter that moves and whoever it robs agree with the targets afterwards.
LEMMA MovedLinks ==
  ASSUME TypeOK, PlaysOnItsTarget, NEW e \in Emitters, NEW o \in Outcomes(e),
         NEW t \in Targets \cup {NoTarget}, NEW first \in BOOLEAN, Moved(e, o, t, first)
  PROVE  PlaysOnItsTarget'
<1>0. Points(e, o, t)
  BY MovedPoints
<1>1. NoTarget \notin Targets /\ NoEmitter \notin Emitters
  BY SoundRenderAssumption
<1>3. Starts(e, o) => t \in Targets /\ target[e] = NoTarget /\ pEmitter[t] # e
  <2>1. Starts(e, o) => t \in Targets
    BY <1>0 DEF Lowest, Points
  <2> QED
    BY <1>1, <2>1 DEF Starts, PlaysOnItsTarget
<1>4. ~Starts(e, o) => t = target[e] /\ (t \in Targets => pEmitter[t] = e)
  BY <1>0 DEF PlaysOnItsTarget, Points
<1>5. \A x \in Emitters : m_current_state'[x] = "stPlaying" <=> target'[x] # NoTarget
  <2>1. m_current_state'[e] = "stPlaying" <=> target'[e] # NoTarget
    <3>1. m_current_state'[e] = "stPlaying" <=> Plays(e, o)
      BY <1>0 DEF Plays, Over, Points
    <3>2. Plays(e, o) => t # NoTarget
      BY <1>1, <1>3, <1>4 DEF Plays, Starts, PlaysOnItsTarget
    <3> QED
      BY <3>1, <3>2, <1>0 DEF Points
  <2>2. ASSUME NEW x \in Emitters \ {e}
        PROVE  m_current_state'[x] = "stPlaying" <=> target'[x] # NoTarget
    BY <1>0 DEF PlaysOnItsTarget, Points
  <2> QED
    BY <2>1, <2>2
<1>6. ASSUME NEW x \in Emitters, NEW u \in Targets
      PROVE  target'[x] = u <=> pEmitter'[u] = x
  <2>1. pEmitter[u] = x <=> target[x] = u
    BY DEF PlaysOnItsTarget
  <2>2. CASE x = e
    <3>1. target'[e] = IF Plays(e, o) THEN t ELSE NoTarget
      BY <1>0 DEF Points
    <3>2. pEmitter'[u] = IF u = t THEN (IF Plays(e, o) THEN e ELSE NoEmitter)
                         ELSE pEmitter[u]
      BY <1>0 DEF Points
    <3> QED
      BY <1>1, <1>3, <1>4, <2>1, <2>2, <3>1, <3>2
  <2>3. CASE x # e
    <3>1. target'[x] = IF x = Robbed(e, o, t) THEN NoTarget ELSE target[x]
      BY <2>3, <1>0 DEF Points
    <3>2. pEmitter'[u] = IF u = t THEN (IF Plays(e, o) THEN e ELSE NoEmitter)
                         ELSE pEmitter[u]
      BY <1>0 DEF Points
    <3>3. Starts(e, o) => (x = pEmitter[t] <=> target[x] = t)
      BY <1>3 DEF PlaysOnItsTarget
    <3> QED
      BY <1>1, <1>3, <1>4, <2>1, <2>3, <3>1, <3>2, <3>3 DEF Robbed
  <2> QED
    BY <2>2, <2>3
<1> QED
  BY <1>5, <1>6 DEF PlaysOnItsTarget

\* The sound of an emitter that stops is told.
LEMMA MovedOwners ==
  ASSUME TypeOK, PlaysOnItsTarget, FeedbackOwned, NEW e \in Emitters, NEW o \in Outcomes(e),
         NEW t \in Targets \cup {NoTarget}, NEW first \in BOOLEAN, Moved(e, o, t, first),
         UNCHANGED s_emitters
  PROVE  FeedbackOwned'
<1>0. Points(e, o, t)
  BY MovedPoints
<1>1. NoSound \notin Sounds /\ NoEmitter \notin Emitters /\ NoTarget \notin Targets
  BY SoundRenderAssumption
<1>2. /\ \A x \in Emitters :
           owner_data'[x] = IF Over(e, o) /\ x = e THEN NoSound ELSE owner_data[x]
      /\ \A s \in Sounds :
           feedback'[s] = IF Over(e, o) /\ feedback[s] = e THEN NoEmitter ELSE feedback[s]
  BY DEF Moved, Over, TypeOK
<1>3. m_current_state[e] = "stStopped" => Over(e, o)
  BY OutcomeFacts DEF Over
<1>4. m_current_state'[e] = "stStopped" <=> Over(e, o)
  BY <1>0 DEF Over, Points
<1>5. ASSUME NEW x \in Emitters \ {e}
      PROVE  m_current_state'[x] = "stStopped" <=> m_current_state[x] = "stStopped"
  <2>1. x = Robbed(e, o, t) => m_current_state[x] = "stPlaying"
    <3>1. Starts(e, o) => t \in Targets
      BY <1>0 DEF Lowest, Points
    <3> QED
      BY <1>1, <3>1 DEF Robbed, PlaysOnItsTarget
  <2> QED
    BY <2>1, <1>0 DEF Points
<1>6. ASSUME NEW x \in Emitters
      PROVE  /\ m_current_state'[x] # "stStopped" <=> owner_data'[x] # NoSound
             /\ owner_data'[x] # NoSound => x \in s_emitters
             /\ \A s \in Sounds : owner_data'[x] = s <=> feedback'[s] = x
  BY <1>1, <1>2, <1>3, <1>4, <1>5 DEF FeedbackOwned
<1> QED
  BY <1>6 DEF FeedbackOwned

LEMMA MovedTypes ==
  ASSUME TypeOK, NEW e \in Emitters, NEW o \in Outcomes(e), NEW t \in Targets \cup {NoTarget},
         NEW first \in BOOLEAN, Moved(e, o, t, first),
         UNCHANGED <<s_emitters, bStopping, pauses, pc>>, marked' \subseteq Emitters
  PROVE  TypeOK'
<1>1. o.phase \in Phases /\ o.fade \in 0 .. MaxFade /\ o.loud \in Silent .. MaxLoud
  BY OutcomeFacts
<1>2. Silent \in Silent .. MaxLoud
  BY SoundRenderAssumption DEF Silent
<1>3. m_current_state' \in [Emitters -> Phases] /\ target' \in [Emitters -> Targets \cup {NoTarget}]
  BY <1>1 DEF Moved, TypeOK, Phases
<1>4. owner_data' \in [Emitters -> Sounds \cup {NoSound}]
  BY DEF Moved, TypeOK
<1>5. feedback' \in [Sounds -> Emitters \cup {NoEmitter}]
  BY DEF Moved, TypeOK
<1>6. /\ fade_volume' \in [Emitters -> 0 .. MaxFade] /\ loud' \in [Emitters -> Silent .. MaxLoud]
      /\ bRewind' \subseteq Emitters
  BY <1>1 DEF Moved, TypeOK
<1>7. faded' \in [Emitters -> Nat]
  BY DEF Moved, TypeOK
<1>8. pEmitter' \in [Targets -> Emitters \cup {NoEmitter}] /\ rendering' \subseteq Targets
  BY DEF Moved, TypeOK
<1>9. priority' \in [Targets -> Silent .. MaxLoud]
  BY <1>1, <1>2 DEF Moved, TypeOK
<1> QED
  BY <1>3, <1>4, <1>5, <1>6, <1>7, <1>8, <1>9 DEF TypeOK, pauses

\* Whom i_start robs was playing.
LEMMA RobbedPlays ==
  ASSUME TypeOK, PlaysOnItsTarget, NEW e \in Emitters, NEW o \in Outcomes(e),
         NEW t \in Targets \cup {NoTarget}, Points(e, o, t),
         NEW x \in Emitters, x = Robbed(e, o, t)
  PROVE  Starts(e, o) /\ t \in Targets /\ m_current_state[x] = "stPlaying"
<1>1. NoTarget \notin Targets /\ NoEmitter \notin Emitters
  BY SoundRenderAssumption
<1>2. Starts(e, o) /\ x = pEmitter[t]
  BY <1>1 DEF Robbed
<1>3. t \in Targets
  BY <1>2 DEF Points, Lowest
<1> QED
  BY <1>1, <1>2, <1>3 DEF PlaysOnItsTarget

LEMMA MovedFading ==
  ASSUME TypeOK, PlaysOnItsTarget, Fading, NEW e \in Emitters, NEW o \in Outcomes(e),
         NEW t \in Targets \cup {NoTarget}, NEW first \in BOOLEAN, Moved(e, o, t, first),
         UNCHANGED <<s_emitters, bStopping>>
  PROVE  Fading'
<1>0. Points(e, o, t)
  BY MovedPoints
<1>1. /\ fade_volume'[e] = o.fade
      /\ faded'[e] = IF o.near /\ e \in bStopping THEN faded[e] + 1 ELSE faded[e]
      /\ \A x \in Emitters \ {e} : fade_volume'[x] = fade_volume[x] /\ faded'[x] = faded[x]
  BY DEF Moved, TypeOK
<1>2. ASSUME NEW x \in bStopping \ {e}, m_current_state'[x] # "stStopped"
      PROVE  /\ faded'[x] = 0 \/ (fade_volume'[x] > 0 /\ faded'[x] + fade_volume'[x] <= MaxFade)
             /\ m_current_state'[x] \in Waking => faded'[x] = 0
  <2>1. x \in Emitters
    BY DEF TypeOK
  <2>2. x = Robbed(e, o, t) => m_current_state[x] = "stPlaying"
    BY <1>0, <2>1, RobbedPlays
  <2>3. m_current_state'[x] = IF x = Robbed(e, o, t) THEN "stSimulating" ELSE m_current_state[x]
    BY <1>0, <2>1 DEF Points
  <2> QED
    BY <1>1, <1>2, <2>1, <2>2, <2>3 DEF Fading, Waking
<1>3. ASSUME e \in bStopping, m_current_state'[e] # "stStopped"
      PROVE  /\ faded'[e] = 0 \/ (fade_volume'[e] > 0 /\ faded'[e] + fade_volume'[e] <= MaxFade)
             /\ m_current_state'[e] \in Waking => faded'[e] = 0
  <2>1. m_current_state'[e] = o.phase /\ o.fade # 0 /\ m_current_state[e] # "stStopped"
    BY <1>0, <1>3, OutcomeFacts DEF Points, Over
  <2>2. /\ o.fade \in 0 .. MaxFade /\ fade_volume[e] \in 0 .. MaxFade /\ faded[e] \in Nat
        /\ MaxFade \in Nat
    BY OutcomeFacts, SoundRenderAssumption DEF TypeOK
  <2>3. /\ faded[e] = 0 \/ faded[e] + fade_volume[e] <= MaxFade
        /\ m_current_state[e] \in Waking => faded[e] = 0
    BY <1>3, <2>1 DEF Fading, Waking
  <2>4. CASE o.near
    <3>1. o.fade = AtLeast0(Volume(e) - 1) /\ o.phase \notin Waking
      BY <1>3, <2>4, OutcomeFacts DEF Fades
    <3>2. faded[e] + Volume(e) <= MaxFade \/ (faded[e] = 0 /\ Volume(e) <= MaxFade)
      BY <2>2, <2>3 DEF Volume, Waking
    <3>3. Volume(e) \in 0 .. MaxFade
      BY <2>2 DEF Volume
    <3> QED
      BY <1>1, <1>3, <2>1, <2>2, <2>4, <3>1, <3>2, <3>3 DEF AtLeast0
  <2>5. CASE ~o.near
    <3>1. o.fade \in {fade_volume[e], Volume(e)}
      BY <2>5, OutcomeFacts
    <3>2. faded[e] = 0 \/ Volume(e) = fade_volume[e]
      BY <2>3 DEF Volume, Waking
    <3>3. o.phase \in Waking => m_current_state[e] \in Waking
      BY OutcomeFacts
    <3> QED
      BY <1>1, <1>3, <2>1, <2>2, <2>3, <2>5, <3>1, <3>2, <3>3
  <2> QED
    BY <2>4, <2>5
<1> QED
  BY <1>2, <1>3 DEF Fading, Waking

------------------------------------------------------------------------------
(* The steps of an update.                                                  *)

USE SoundRenderAssumption

LEMMA InitInv == Init => IInv
<1> SUFFICES ASSUME Init PROVE IInv
  OBVIOUS
<1>1. TypeOK
  BY DEF Init, TypeOK, Phases, Silent
<1>2. PlaysOnItsTarget /\ FeedbackOwned
  BY DEF Init, PlaysOnItsTarget, FeedbackOwned
<1>3. Rendered /\ Loops /\ Ranked /\ Pauses /\ Fading
  BY DEF Init, Rendered, Loops, Ranked, Pauses, PausesNest, Fading
<1> QED
  BY <1>1, <1>2, <1>3 DEF IInv

LEMMA BeginUpdateInv == IInv /\ BeginUpdate => IInv'
<1> SUFFICES ASSUME IInv, BeginUpdate PROVE IInv'
  OBVIOUS
<1> USE DEF IInv, BeginUpdate, states, cards, pauses
<1>1. TypeOK' /\ Pauses' /\ Fading'
  BY DEF TypeOK, Pauses, PausesNest, Fading
<1>2. PlaysOnItsTarget' /\ FeedbackOwned'
  BY DEF PlaysOnItsTarget, FeedbackOwned
<1>3. Rendered' /\ Loops' /\ Ranked'
  BY DEF Rendered, Loops, Ranked
<1> QED
  BY <1>1, <1>2, <1>3

LEMMA TargetFreeInv == \A t \in Targets : IInv /\ TargetFree(t) => IInv'
<1> SUFFICES ASSUME NEW t \in Targets, IInv, TargetFree(t) PROVE IInv'
  OBVIOUS
<1> USE DEF IInv, TargetFree, states, pauses
<1>1. TypeOK' /\ Pauses' /\ Fading'
  BY DEF TypeOK, Pauses, PausesNest, Fading, Silent
<1>2. PlaysOnItsTarget' /\ FeedbackOwned'
  BY DEF PlaysOnItsTarget, FeedbackOwned
<1>3. Rendered' /\ Loops'
  BY DEF Rendered, Loops
<1>4. Ranked'
  BY DEF Ranked, Waits, TypeOK
<1> QED
  BY <1>1, <1>2, <1>3, <1>4

LEMMA TargetsDoneInv == IInv /\ TargetsDone => IInv'
<1> SUFFICES ASSUME IInv, TargetsDone PROVE IInv'
  OBVIOUS
<1> USE DEF IInv, TargetsDone, states, cards, pauses
<1>1. TypeOK' /\ Pauses' /\ Fading'
  BY DEF TypeOK, Pauses, PausesNest, Fading
<1>2. PlaysOnItsTarget' /\ FeedbackOwned'
  BY DEF PlaysOnItsTarget, FeedbackOwned
<1>3. Rendered'
  BY DEF Rendered
<1>4. Loops'
  BY DEF Loops, PlaysOnItsTarget, TypeOK
<1>5. Ranked'
  <2>1. ASSUME NEW x \in Emitters, x \notin s_emitters \ marked, Waits(x), NEW t \in Targets
        PROVE  loud[x] <= priority[t]
    <3>1. x \in marked
      BY <2>1 DEF Waits, FeedbackOwned
    <3>2. loud[x] = Silent
      BY <2>1, <3>1 DEF Ranked
    <3> QED
      BY <3>2 DEF TypeOK, Silent
  <2> QED
    BY <2>1 DEF Ranked, Waits
<1> QED
  BY <1>1, <1>2, <1>3, <1>4, <1>5

LEMMA EmitterStaysInv == \A e \in Emitters : IInv /\ EmitterStays(e) => IInv'
<1> SUFFICES ASSUME NEW e \in Emitters, IInv, EmitterStays(e) PROVE IInv'
  OBVIOUS
<1> USE DEF IInv, EmitterStays, states, cards, pauses
<1>1. TypeOK' /\ Pauses' /\ Fading'
  BY DEF TypeOK, Pauses, PausesNest, Fading
<1>2. PlaysOnItsTarget' /\ FeedbackOwned'
  BY DEF PlaysOnItsTarget, FeedbackOwned
<1>3. Rendered' /\ Loops'
  BY DEF Rendered, Loops
<1>4. Ranked'
  BY DEF Ranked, Waits
<1> QED
  BY <1>1, <1>2, <1>3, <1>4

LEMMA EmitterDeletedInv == \A e \in Emitters : IInv /\ EmitterDeleted(e) => IInv'
<1> SUFFICES ASSUME NEW e \in Emitters, IInv, EmitterDeleted(e) PROVE IInv'
  OBVIOUS
<1> USE DEF IInv, EmitterDeleted, cards
<1>1. TypeOK' /\ Pauses' /\ Fading'
  <2>1. TypeOK'
    BY DEF TypeOK, Silent
  <2>2. Pauses'
    BY DEF Pauses, PausesNest, TypeOK
  <2>3. Fading'
    BY DEF Fading, TypeOK
  <2> QED
    BY <2>1, <2>2, <2>3
<1>2. PlaysOnItsTarget' /\ FeedbackOwned'
  BY DEF PlaysOnItsTarget, FeedbackOwned
<1>3. Rendered' /\ Loops'
  BY DEF Rendered, Loops
<1>4. Ranked'
  BY DEF Ranked, Waits, PlaysOnItsTarget, TypeOK
<1> QED
  BY <1>1, <1>2, <1>3, <1>4

LEMMA EndUpdateInv == IInv /\ EndUpdate => IInv'
<1> SUFFICES ASSUME IInv, EndUpdate PROVE IInv'
  OBVIOUS
<1> USE DEF IInv, EndUpdate, pauses
<1>1. TypeOK' /\ Pauses' /\ Fading'
  BY DEF TypeOK, Pauses, PausesNest, Fading, Silent
<1>2. PlaysOnItsTarget' /\ FeedbackOwned'
  BY DEF PlaysOnItsTarget, FeedbackOwned
<1>3. Rendered' /\ Loops' /\ Ranked'
  BY DEF Rendered, Loops, Ranked
<1> QED
  BY <1>1, <1>2, <1>3

\* How loud everyone is after a move.
Ranks(e, o, t, first) ==
  /\ loud'[e] = o.loud
  /\ \A x \in Emitters \ {e} : loud'[x] = loud[x]
  /\ \A u \in Targets :
       priority'[u] = IF u = t /\ (first \/ Starts(e, o))
                      THEN (IF Plays(e, o) \/ ~first THEN o.loud ELSE Silent)
                      ELSE priority[u]

LEMMA MovedRanks ==
  ASSUME TypeOK, NEW e \in Emitters, NEW o \in Outcomes(e), NEW t \in Targets \cup {NoTarget},
         NEW first \in BOOLEAN, Moved(e, o, t, first)
  PROVE  Ranks(e, o, t, first)
  BY DEF Moved, Over, Starts, Plays, Ranks, TypeOK

LEMMA TargetUpdateInv == \A t \in Targets : IInv /\ TargetUpdate(t) => IInv'
<1> SUFFICES ASSUME NEW t \in Targets, IInv, TargetUpdate(t) PROVE IInv'
  OBVIOUS
<1> DEFINE e == pEmitter[t]
<1>1. /\ TypeOK /\ PlaysOnItsTarget /\ FeedbackOwned /\ Fading
      /\ e \in Emitters /\ target[e] = t /\ m_current_state[e] = "stPlaying" /\ e \in s_emitters
  BY DEF IInv, TargetUpdate, TypeOK, PlaysOnItsTarget, FeedbackOwned
<1>2. PICK o \in Outcomes(e), u \in Targets \cup {NoTarget} : Moved(e, o, u, TRUE)
  BY DEF TargetUpdate, update
<1>3. /\ pc = "targets" /\ pc' = pc /\ t \in todo /\ todo' = todo \ {t}
      /\ marked' = marked \cup {e}
      /\ UNCHANGED <<s_emitters, bStopping, pauses>>
  BY DEF TargetUpdate
<1> HIDE DEF e
<1>4. Points(e, o, u) /\ Ranks(e, o, u, TRUE)
  BY <1>1, <1>2, MovedPoints, MovedRanks
<1>5. u = t /\ ~Starts(e, o) /\ \A x \in Emitters : x # Robbed(e, o, u)
  BY <1>1, <1>4 DEF Points, Starts, Robbed
<1>6. \A x \in Emitters \ {e} : m_current_state'[x] = m_current_state[x]
  BY <1>4, <1>5 DEF Points
<1>7. /\ pEmitter'[t] = IF Plays(e, o) THEN e ELSE NoEmitter
      /\ \A v \in Targets \ {t} : pEmitter'[v] = pEmitter[v] /\ pEmitter[v] # e
  BY <1>1, <1>4, <1>5 DEF Points, PlaysOnItsTarget
<1>8. marked' \subseteq Emitters
  BY <1>1, <1>3 DEF TypeOK
<1>9. TypeOK'
  BY <1>1, <1>2, <1>3, <1>8, MovedTypes
<1>10. PlaysOnItsTarget' /\ FeedbackOwned'
  BY <1>1, <1>2, <1>3, MovedLinks, MovedOwners
<1>11. Rendered'
  <2>1. \A v \in todo' : v \in rendering => v \in rendering'
    BY <1>2, <1>3, <1>5 DEF Moved
  <2> QED
    BY <1>3, <1>7, <2>1 DEF Rendered, IInv, Loops
<1>12. Loops'
  BY <1>1, <1>3, <1>7 DEF Loops, IInv
<1>13. Ranked'
  <2>1. ASSUME NEW x \in marked', Waits(x)'
        PROVE  loud'[x] = Silent
    <3>1. CASE x = e
      <4>1. o.phase = "stSimulating" /\ iPaused[e] = 0
        BY <1>3, <1>4, <2>1, <3>1 DEF Waits, Points, pauses
      <4>2. ~Playable(e, o)
        BY <1>1, <4>1, OutcomeFacts
      <4> QED
        BY <1>1, <1>4, <3>1, <4>2 DEF Playable, Ranks
    <3>2. CASE x # e
      BY <1>1, <1>3, <1>4, <1>6, <2>1, <3>2 DEF Waits, Ranks, Ranked, IInv, pauses, TypeOK
    <3> QED
      BY <3>1, <3>2
  <2>2. ASSUME NEW v \in Targets \ todo', pEmitter'[v] # NoEmitter
        PROVE  priority'[v] = loud'[pEmitter'[v]]
    <3>1. CASE v = t
      BY <1>4, <1>5, <1>7, <2>2, <3>1 DEF Ranks
    <3>2. CASE v # t
      <4>1. pEmitter'[v] = pEmitter[v] /\ pEmitter[v] \in Emitters \ {e} /\ v \in Targets \ todo
        BY <1>1, <1>3, <1>7, <2>2, <3>2 DEF TypeOK
      <4> QED
        BY <1>3, <1>4, <1>5, <2>2, <3>2, <4>1 DEF Ranks, Ranked, IInv
    <3> QED
      BY <3>1, <3>2
  <2> QED
    BY <1>3, <2>1, <2>2 DEF Ranked
<1>14. Pauses'
  BY <1>3 DEF Pauses, PausesNest, IInv, pauses
<1>15. Fading'
  BY <1>1, <1>2, <1>3, MovedFading
<1> QED
  BY <1>9, <1>10, <1>11, <1>12, <1>13, <1>14, <1>15 DEF IInv

LEMMA EmitterUpdateInv == \A e \in Emitters : IInv /\ EmitterUpdate(e) => IInv'
<1> SUFFICES ASSUME NEW e \in Emitters, IInv, EmitterUpdate(e) PROVE IInv'
  OBVIOUS
<1>1. /\ TypeOK /\ PlaysOnItsTarget /\ FeedbackOwned /\ Fading /\ Loops /\ Ranked
      /\ target[e] = NoTarget /\ NoTarget \notin Targets
  BY DEF IInv, EmitterUpdate, Loops
<1>2. PICK o \in Outcomes(e), t \in Targets \cup {NoTarget} : Moved(e, o, t, FALSE)
  BY DEF EmitterUpdate, update
<1>3. /\ pc = "emitters" /\ pc' = pc /\ e \in todo \ marked
      /\ UNCHANGED <<s_emitters, bStopping, pauses>>
      /\ \/ todo' = todo \ {e} /\ marked' = marked
         \/ todo' = todo /\ marked' = marked \cup {e}
  BY DEF EmitterUpdate
<1>4. Points(e, o, t) /\ Ranks(e, o, t, FALSE)
  BY <1>1, <1>2, MovedPoints, MovedRanks
<1>5. marked' \subseteq Emitters
  BY <1>1, <1>3 DEF TypeOK
<1>6. TypeOK'
  BY <1>1, <1>2, <1>3, <1>5, MovedTypes
<1>7. PlaysOnItsTarget' /\ FeedbackOwned'
  BY <1>1, <1>2, <1>3, MovedLinks, MovedOwners
<1>8. Rendered'
  BY <1>3 DEF Rendered
<1>9. Loops'
  <2>1. \A x \in Emitters \ {e} : target[x] = NoTarget => target'[x] = NoTarget
    BY <1>4 DEF Points
  <2>2. todo' \ marked' = (todo \ marked) \ {e}
    BY <1>3
  <2>3. todo' \subseteq s_emitters /\ marked' \subseteq todo' /\ s_emitters \subseteq Emitters
    BY <1>1, <1>3 DEF Loops, TypeOK
  <2> QED
    BY <1>1, <1>3, <2>1, <2>2, <2>3 DEF Loops
<1>10. Ranked'
  <2>1. /\ \A u \in Targets : priority[u] \in Int /\ priority'[u] \in Int
        /\ \A x \in Emitters : loud[x] \in Int
        /\ o.loud \in Int
    BY <1>1, <1>6, OutcomeFacts DEF TypeOK, Silent
  <2>2. Starts(e, o) => /\ t \in Targets /\ priority[t] < o.loud
                        /\ \A u \in Targets : priority[t] <= priority[u]
    <3>1. Starts(e, o) => t \in Lowest(o.loud) /\ i_allow_play(o.loud)
      BY <1>1, <1>4, OutcomeFacts DEF Points, Playable, Starts
    <3> QED
      BY <2>1, <3>1 DEF Lowest, i_allow_play
  <2>3. \A u \in Targets :
          priority'[u] = IF u = t /\ Starts(e, o) THEN o.loud ELSE priority[u]
    BY <1>4 DEF Ranks
  <2>4. \A u \in Targets : priority[u] <= priority'[u]
    BY <2>1, <2>2, <2>3
  <2>5. ASSUME NEW x \in Emitters, x \notin todo' \ marked', Waits(x)', NEW u \in Targets
        PROVE  loud'[x] <= priority'[u]
    <3>1. iPaused' = iPaused
      BY <1>3 DEF pauses
    <3>2. CASE x = e
      <4>1. o.phase = "stSimulating" /\ iPaused[e] = 0 /\ loud'[e] = o.loud
        BY <1>4, <2>5, <3>1, <3>2 DEF Waits, Points, Ranks
      <4>2. o.loud = Silent \/ ~i_allow_play(o.loud)
        BY <1>1, <4>1, OutcomeFacts DEF Playable
      <4>3. o.loud <= priority[u]
        BY <1>1, <2>1, <4>2 DEF i_allow_play, TypeOK, Silent
      <4> QED
        BY <2>1, <2>4, <3>2, <4>1, <4>3
    <3>3. CASE x = Robbed(e, o, t) /\ x # e
      <4>1. Starts(e, o) /\ t \in Targets /\ pEmitter[t] = x
        BY <1>1, <1>4, <3>3, RobbedPlays DEF Robbed
      <4>2. loud'[x] = loud[x] /\ loud[x] = priority[t]
        BY <1>1, <1>3, <1>4, <3>3, <4>1 DEF Ranks, Ranked
      <4> QED
        BY <2>1, <2>2, <2>4, <4>1, <4>2
    <3>4. CASE x # Robbed(e, o, t) /\ x # e
      <4>1. Waits(x) /\ loud'[x] = loud[x] /\ x \notin todo \ marked
        BY <1>3, <1>4, <2>5, <3>1, <3>4 DEF Waits, Points, Ranks
      <4>2. loud[x] <= priority[u]
        BY <1>1, <1>3, <4>1 DEF Ranked
      <4> QED
        BY <2>1, <2>4, <4>1, <4>2
    <3> QED
      BY <3>2, <3>3, <3>4
  <2>6. ASSUME NEW u \in Targets, pEmitter'[u] # NoEmitter
        PROVE  priority'[u] = loud'[pEmitter'[u]]
    <3>1. CASE u = t
      <4>1. Starts(e, o)
        BY <1>1, <1>4, <3>1 DEF Points
      <4>2. pEmitter'[u] = e
        BY <1>4, <2>6, <3>1 DEF Points
      <4> QED
        BY <1>4, <2>3, <3>1, <4>1, <4>2 DEF Ranks
    <3>2. CASE u # t
      <4>1. pEmitter'[u] = pEmitter[u] /\ pEmitter[u] \in Emitters
        BY <1>1, <1>4, <2>6, <3>2 DEF Points, TypeOK
      <4>2. pEmitter[u] # e
        BY <1>1, <4>1 DEF PlaysOnItsTarget
      <4> QED
        BY <1>1, <1>3, <1>4, <2>3, <3>2, <4>1, <4>2 DEF Ranks, Ranked
    <3> QED
      BY <3>1, <3>2
  <2> QED
    BY <1>3, <2>5, <2>6 DEF Ranked
<1>11. Pauses'
  BY <1>3 DEF Pauses, PausesNest, IInv, pauses
<1>12. Fading'
  BY <1>1, <1>2, <1>3, MovedFading
<1> QED
  BY <1>6, <1>7, <1>8, <1>9, <1>10, <1>11, <1>12 DEF IInv

------------------------------------------------------------------------------
(* The calls of the game.                                                   *)

LEMMA StopsInv ==
  ASSUME IInv, NEW es \in SUBSET Emitters, i_stop(es), pc = "game",
         UNCHANGED <<s_emitters, bStopping, fade_volume, loud, faded, priority, pauses, loop>>
  PROVE  IInv'
<1> USE DEF IInv, i_stop, pauses, loop
<1>1. TypeOK'
  BY DEF TypeOK, Phases
<1>2. PlaysOnItsTarget' /\ FeedbackOwned'
  BY DEF PlaysOnItsTarget, FeedbackOwned, TypeOK
<1>3. Rendered' /\ Loops' /\ Ranked'
  BY DEF Rendered, Loops, Ranked
<1>4. Pauses' /\ Fading'
  BY DEF Pauses, PausesNest, Fading, TypeOK
<1> QED
  BY <1>1, <1>2, <1>3, <1>4

LEMMA StopInv == \A s \in Sounds : IInv /\ Stop(s) => IInv'
<1> SUFFICES ASSUME NEW s \in Sounds, IInv, Stop(s) PROVE IInv'
  OBVIOUS
<1>1. {feedback[s]} \in SUBSET Emitters
  BY DEF IInv, TypeOK, Stop
<1> QED
  BY <1>1, StopsInv DEF Stop

LEMMA StopEmittersInv == IInv /\ stop_emitters => IInv'
<1> SUFFICES ASSUME IInv, stop_emitters PROVE IInv'
  OBVIOUS
<1>1. s_emitters \in SUBSET Emitters
  BY DEF IInv, TypeOK
<1> QED
  BY <1>1, StopsInv DEF stop_emitters

LEMMA RewindInv == \A s \in Sounds : IInv /\ Rewind(s) => IInv'
<1> SUFFICES ASSUME NEW s \in Sounds, IInv, Rewind(s) PROVE IInv'
  OBVIOUS
<1> USE DEF IInv, Rewind, cards, pauses, loop
<1>1. TypeOK' /\ Pauses' /\ Fading'
  BY DEF TypeOK, Pauses, PausesNest, Fading
<1>2. PlaysOnItsTarget' /\ FeedbackOwned'
  BY DEF PlaysOnItsTarget, FeedbackOwned
<1>3. Rendered' /\ Loops' /\ Ranked'
  BY DEF Rendered, Loops, Ranked
<1> QED
  BY <1>1, <1>2, <1>3

LEMMA i_playInv == \A s \in Sounds : IInv /\ i_play(s) /\ feedback[s] = NoEmitter => IInv'
<1> SUFFICES ASSUME NEW s \in Sounds, IInv, i_play(s), feedback[s] = NoEmitter PROVE IInv'
  OBVIOUS
<1> USE DEF IInv, cards, pauses, loop
<1>1. PICK e \in Emitters \ s_emitters :
        /\ s_emitters' = s_emitters \cup {e}
        /\ feedback' = [feedback EXCEPT ![s] = e]
        /\ owner_data' = [owner_data EXCEPT ![e] = s]
        /\ m_current_state' = [m_current_state EXCEPT ![e] =
             IF s \in Delayed THEN "stStartingDelayed" ELSE "stStarting"]
  BY DEF i_play
<1>2. /\ pc = "game" /\ pc' = pc
      /\ UNCHANGED <<target, bStopping, bRewind, fade_volume, loud, faded, cards, pauses, loop>>
  BY DEF i_play
<1>3. TypeOK' /\ Pauses' /\ Fading'
  BY <1>1, <1>2 DEF TypeOK, Phases, Pauses, PausesNest, Fading
<1>4. owner_data[e] = NoSound /\ m_current_state[e] = "stStopped"
  BY <1>1 DEF FeedbackOwned
<1>5. PlaysOnItsTarget'
  BY <1>1, <1>2, <1>4 DEF PlaysOnItsTarget, TypeOK
<1>6. FeedbackOwned'
  BY <1>1, <1>4 DEF FeedbackOwned, TypeOK
<1>7. Rendered' /\ Loops' /\ Ranked'
  BY <1>1, <1>2 DEF Rendered, Loops, Ranked
<1> QED
  BY <1>3, <1>5, <1>6, <1>7

LEMMA PlayInv == \A s \in Sounds : IInv /\ Play(s) => IInv'
  BY RewindInv, i_playInv DEF Play

LEMMA StopDefferedInv == \A s \in Sounds : IInv /\ StopDeffered(s) => IInv'
<1> SUFFICES ASSUME NEW s \in Sounds, IInv, StopDeffered(s) PROVE IInv'
  OBVIOUS
<1> USE DEF IInv, StopDeffered, cards, pauses, loop
<1>1. feedback[s] \in Emitters /\ feedback[s] \in s_emitters
  BY DEF TypeOK, FeedbackOwned
<1>2. TypeOK' /\ Pauses'
  BY <1>1 DEF TypeOK, Pauses, PausesNest
<1>3. Fading'
  BY <1>1 DEF Fading, TypeOK
<1>4. PlaysOnItsTarget' /\ FeedbackOwned'
  BY DEF PlaysOnItsTarget, FeedbackOwned
<1>5. Rendered' /\ Loops' /\ Ranked'
  BY DEF Rendered, Loops, Ranked
<1> QED
  BY <1>2, <1>3, <1>4, <1>5

LEMMA PauseInv == IInv /\ (Pause \/ Resume) => IInv'
<1> SUFFICES ASSUME IInv, Pause \/ Resume PROVE IInv'
  OBVIOUS
<1> USE DEF IInv, states, cards, loop
<1>1. TypeOK' /\ Pauses'
  <2>1. CASE Pause
    BY <2>1 DEF Pause, TypeOK, Pauses, PausesNest
  <2>2. CASE Resume
    BY <2>2 DEF Resume, TypeOK, Pauses, PausesNest
  <2> QED
    BY <2>1, <2>2
<1>2. PlaysOnItsTarget' /\ FeedbackOwned' /\ Fading'
  BY DEF PlaysOnItsTarget, FeedbackOwned, Fading, Pause, Resume
<1>3. Rendered' /\ Loops' /\ Ranked'
  BY DEF Rendered, Loops, Ranked, Pause, Resume
<1> QED
  BY <1>1, <1>2, <1>3

LEMMA StutterInv == IInv /\ UNCHANGED vars => IInv'
<1> SUFFICES ASSUME IInv, UNCHANGED vars PROVE IInv'
  OBVIOUS
<1> USE DEF IInv, vars, states, cards, pauses, loop
<1>1. TypeOK' /\ Pauses' /\ Fading'
  BY DEF TypeOK, Pauses, PausesNest, Fading
<1>2. PlaysOnItsTarget' /\ FeedbackOwned'
  BY DEF PlaysOnItsTarget, FeedbackOwned
<1>3. Rendered' /\ Loops' /\ Ranked'
  BY DEF Rendered, Loops, Ranked, Waits
<1> QED
  BY <1>1, <1>2, <1>3

------------------------------------------------------------------------------
(* The theorems.                                                            *)

\* Every state the sound core reaches, between the calls of the game or in the
\* middle of an update, satisfies the inductive invariant.
THEOREM InductiveInvariant == Spec => []IInv
<1>1. IInv /\ [Next]_vars => IInv'
  <2> SUFFICES ASSUME IInv, [Next]_vars PROVE IInv'
    OBVIOUS
  <2>1. CASE Update
    BY <2>1, BeginUpdateInv, TargetsDoneInv, EndUpdateInv, TargetFreeInv, TargetUpdateInv,
       EmitterUpdateInv, EmitterStaysInv, EmitterDeletedInv DEF Update
  <2>2. CASE Game
    BY <2>2, StopEmittersInv, PauseInv, PlayInv, StopInv, StopDefferedInv DEF Game
  <2>3. CASE UNCHANGED vars
    BY <2>3, StutterInv
  <2> QED
    BY <2>1, <2>2, <2>3 DEF Next
<1> QED
  BY <1>1, InitInv, PTL DEF Spec

\* What play, stop, pause and update leave in the variables has its type: no volume
\* is below zero and no priority above the loudest.
THEOREM TypeCorrect == Spec => []TypeOK
  BY InductiveInvariant, PTL DEF IInv

\* An emitter of the core has a target exactly while it plays, is that target's
\* emitter and its sound's feedback, and a target that is told to rewind renders,
\* however many sounds compete for however few targets.
THEOREM LinksAlwaysAgree == Spec => []LinksAgree
<1>1. IInv => LinksAgree
  BY DEF IInv, LinksAgree, RewindsRendering, Rendered, TypeOK, Loops
<1> QED
  BY <1>1, InductiveInvariant, PTL

\* However pause_emitters is called through CRenderDevice::Pause, each emitter obeys
\* a pause that is still in force.
THEOREM PausesAlwaysNest == Spec => []PausesNest
<1>1. IInv => PausesNest
  BY DEF IInv, Pauses
<1> QED
  BY <1>1, InductiveInvariant, PTL

\* At the end of the loop over the emitters in update nobody is silent whom a target
\* could serve in place of a quieter one, for any order of the emitters.
THEOREM LoudestAlwaysPlay == Spec => []LoudestPlay
<1>1. IInv => LoudestPlay
  BY DEF IInv, LoudestPlay, Ranked, Waits
<1> QED
  BY <1>1, InductiveInvariant, PTL

\* A deferred stop ends within as many heard updates as the volume takes to fade.
THEOREM FadesAlways == Spec => []FadesOut
<1>1. IInv => FadesOut
  <2> SUFFICES ASSUME IInv, NEW e \in bStopping, m_current_state[e] # "stStopped"
               PROVE  faded[e] < MaxFade
    BY DEF FadesOut
  <2>1. /\ faded[e] = 0 \/ (fade_volume[e] > 0 /\ faded[e] + fade_volume[e] <= MaxFade)
        /\ faded[e] \in Nat /\ fade_volume[e] \in 0 .. MaxFade /\ MaxFade \in Nat \ {0}
    BY DEF IInv, Fading, TypeOK
  <2> QED
    BY <2>1
<1> QED
  BY <1>1, InductiveInvariant, PTL
==============================================================================
