---------------------------- MODULE MCLevelClient -----------------------------
EXTENDS LevelClient
CONSTANTS npc, medkit, gun

MCStalkers == {npc}
MCItems    == {medkit, gun}
=============================================================================
