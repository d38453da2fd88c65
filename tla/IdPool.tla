-------------------------------- MODULE IdPool --------------------------------
(***************************************************************************)
(* What an allocator of ids promises its callers: an id is handed out only *)
(* while nobody has it, comes back only from somebody who has it, and is   *)
(* refused only when somebody has it; one that may be any, when all are    *)
(* taken.  A refusal ends the program.                                     *)
(***************************************************************************)
CONSTANT Values     \* the ids

VARIABLES taken,    \* ids in somebody's hands
          answer,   \* the id last handed out
          refused   \* the ids one of which was asked for in vain

pool == <<taken, answer, refused>>

Init == taken = {} /\ answer \in Values /\ refused = {}

Take   == \E v \in Values \ taken :
            taken' = taken \cup {v} /\ answer' = v /\ UNCHANGED refused
Give   == \E v \in taken : taken' = taken \ {v} /\ UNCHANGED <<answer, refused>>
Refuse == \E r \in {Values} \cup {{v} : v \in Values} :
            r \subseteq taken /\ refused' = r /\ UNCHANGED <<taken, answer>>

Next == refused = {} /\ (Take \/ Give \/ Refuse)
Spec == Init /\ [][Next]_pool
==============================================================================
