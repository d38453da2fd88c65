----------------------------- MODULE MCLevelLife -----------------------------
(* LevelLife for TLC: two addresses, so that a new level may get another one *)
(* than the old.                                                            *)
EXTENDS LevelLife
==============================================================================
