----------------------------- MODULE MCSheduler -----------------------------
(* Sheduler for TLC.  Two time units pass between two Updates and every     *)
(* object asks for one, so that all are due again in every frame; the       *)
(* budget may end a step after two turns, so that three objects are enough  *)
(* for one to be left waiting.                                              *)
EXTENDS Sheduler
==============================================================================
