SPECIFICATION Spec
CONSTANTS
  Sounds = {s1, s2, s3}
  Emitters = {e1, e2, e3}
  Targets = {t1, t2}
  NoSound = NoSound
  NoEmitter = NoEmitter
  NoTarget = NoTarget
  Flat = {s1}
  Looped = {s1, s2}
  Delayed = {s2}
  MaxLoud = 1
  MaxFade = 1
  MaxPause = 2
SYMMETRY EmitterSymmetry
INVARIANTS LinksAgree LoudestPlay FadesOut
