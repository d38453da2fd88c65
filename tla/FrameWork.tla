------------------------------ MODULE FrameWork ------------------------------
(***************************************************************************)
(* What CRenderDevice promises about the deferred work of a frame, with no *)
(* threads and no locks: in each frame the game may change the list of     *)
(* deferred jobs, then every job of the list runs once, in list order, and *)
(* one pass over seqFrameMT closes the frame; only then does the next      *)
(* frame begin.  FrameSync (two threads, two mutexes, a frame marker)      *)
(* implements this specification.                                          *)
(***************************************************************************)
EXTENDS Naturals, Sequences

CONSTANTS Jobs,       \* the delegates that may be deferred
          MaxFrame    \* bound on the number of frames

VARIABLES frame,      \* number of the frame in progress
          todo,       \* the jobs deferred in this frame, in order
          ran,        \* how many of them have run
          phase       \* "idle": between frames, "move": the game runs,
                      \* "work": the deferred jobs run

vars == <<frame, todo, ran, phase>>

Init == /\ frame = 0
        /\ todo = <<>>
        /\ ran = 0
        /\ phase = "idle"

\* A new frame starts only when the work of the previous one is over; the
\* renderer may defer its jobs at once.
BeginFrame == /\ phase = "idle"
              /\ frame < MaxFrame
              /\ frame' = frame + 1
              /\ phase' = "move"
              /\ todo' \in Seq(Jobs)
              /\ UNCHANGED ran

\* The game adds jobs to the list and takes jobs off it.
ChangeList == /\ phase = "move"
              /\ todo' \in Seq(Jobs)
              /\ UNCHANGED <<frame, ran, phase>>

EndMove == /\ phase = "move"
           /\ phase' = "work"
           /\ UNCHANGED <<frame, todo, ran>>

RunJob == /\ phase = "work"
          /\ ran < Len(todo)
          /\ ran' = ran + 1
          /\ UNCHANGED <<frame, todo, phase>>

\* The pass over seqFrameMT, after the last job.
EndWork == /\ phase = "work"
           /\ ran = Len(todo)
           /\ todo' = <<>>
           /\ ran' = 0
           /\ phase' = "idle"
           /\ UNCHANGED frame

Next == BeginFrame \/ ChangeList \/ EndMove \/ RunJob \/ EndWork

Spec == Init /\ [][Next]_vars
==============================================================================
