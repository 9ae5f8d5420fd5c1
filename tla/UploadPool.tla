------------------------------- MODULE UploadPool -------------------------------
(***************************************************************************)
(* What the upload widget promises of its queue, whatever the requests of   *)
(* one upload are: a file waits, runs in one of Slots slots and ends; no    *)
(* slot is left free while a file waits, and a file that runs comes to an   *)
(* end or is taken out.  UploadQueue is shown to implement it.              *)
(***************************************************************************)
EXTENDS Integers, FiniteSets

CONSTANTS Files, Slots

VARIABLES
  waiting,   \* files that have not been started
  running,   \* files in a slot
  ended      \* files shown as done or failed

pool == <<waiting, running, ended>>

Init == waiting = {} /\ running = {} /\ ended = {}

\* After w waits and r runs, the free slots are filled from the waiting files.
Fill(w, r) ==
  \E go \in SUBSET w :
    /\ Cardinality(r \cup go) <= Slots
    /\ Cardinality(r \cup go) = Slots \/ go = w
    /\ waiting' = w \ go
    /\ running' = r \cup go

Add(f) ==
  /\ f \notin waiting \cup running \cup ended
  /\ Fill(waiting \cup {f}, running)
  /\ ended' = ended

Finish(f) ==
  /\ f \in running
  /\ Fill(waiting, running \ {f})
  /\ ended' = ended \cup {f}

Again(f) ==
  /\ f \in ended
  /\ Fill(waiting \cup {f}, running)
  /\ ended' = ended \ {f}

Drop(f) ==
  /\ f \in waiting \cup running \cup ended
  /\ Fill(waiting \ {f}, running \ {f})
  /\ ended' = ended \ {f}

Clear == waiting' = {} /\ running' = {} /\ ended' = {}

Next ==
  \/ \E f \in Files : Add(f) \/ Finish(f) \/ Again(f) \/ Drop(f)
  \/ Clear

Fairness == \A f \in Files : WF_pool(Finish(f))
Spec == Init /\ [][Next]_pool /\ Fairness
Safe == Init /\ [][Next]_pool
=============================================================================
