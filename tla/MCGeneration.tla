---------------------------- MODULE MCGeneration ----------------------------
(* One user with all the sessions: the generation and creation keys are per *)
(* user, so turns of different users share nothing.                         *)
EXTENDS Generation, TLC

MCOwner == [s \in Sessions |-> CHOOSE u \in Users : TRUE]

\* Nothing orders turns or sessions, and every session has the same owner.
Symmetry == Permutations(Turns) \cup Permutations(Sessions)
=============================================================================
