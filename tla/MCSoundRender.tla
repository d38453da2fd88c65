---------------------------- MODULE MCSoundRender ----------------------------
(* SoundRender for TLC: three sounds, a looped 2D one, a looped 3D one that  *)
(* starts with a delay and one that ends by itself, compete for two targets. *)
EXTENDS SoundRender, TLC

EmitterSymmetry == Permutations(Emitters) \cup Permutations(Targets)
==============================================================================
