--------------------------- MODULE MCServerEntities ---------------------------
(***************************************************************************)
(* Two owners, a weapon, two rounds for it: trees three levels deep, lists *)
(* of up to three children.                                                *)
(***************************************************************************)
EXTENDS ServerEntities
CONSTANTS actor, npc, weapon, shell, dart

MCIds  == {actor, npc, weapon, shell, dart}
MCRank == [e \in MCIds |-> CASE e \in {shell, dart} -> 0 [] e = weapon -> 1 [] OTHER -> 2]
=============================================================================
