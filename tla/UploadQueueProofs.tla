--------------------------- MODULE UploadQueueProofs ---------------------------
(***************************************************************************)
(* For every number of files, slots and chats: the widget tells its page    *)
(* when files upload, every step of it is a step of the pool or leaves the   *)
(* pool alone, no file is left on a session unexplained, and a message takes *)
(* along the files that it shows.                                          *)
(***************************************************************************)
EXTENDS UploadQueue, FiniteSetTheorems, SequenceTheorems, TLAPS

\* The inductive invariant: the three places that say whether a file uploads
\* (its status, activeUploads, its calls) agree, the widget's state follows
\* from them, and the slots are full or nobody waits.
Statuses == {"none", "queued", "uploading", "done", "error"}
SlotsAgree == /\ status \in [Files -> Statuses] /\ step \in [Files -> Steps]
              /\ active = {f \in Files : status[f] = "uploading"}
              /\ active = {f \in Files : step[f] # "none"}
Settled(st) == \A f \in Files : st[f] \in {"none"} \cup Over
StateFollows == /\ busy \in BOOLEAN /\ (busy <=> state = "uploading")
                /\ (busy <=> ~Settled(status))
Filled(w, r) == /\ IsFiniteSet(r) /\ Cardinality(r) <= Slots
                /\ Cardinality(r) = Slots \/ w = {}
QInv == SlotsAgree /\ StateFollows /\ Filled(Waiting(status), active)

\* The pool as a function of the statuses and the slots.
Ended(st) == {f \in Files : st[f] \in Over}

\* Pool!Fill with the sets after the step as parameters.
Fills(w, r, after, slots) ==
  \E go \in SUBSET w :
    /\ Cardinality(r \cup go) <= Slots
    /\ Cardinality(r \cup go) = Slots \/ go = w
    /\ after = w \ go /\ slots = r \cup go

-----------------------------------------------------------------------------
\* What st, act and sp must agree on before they become the next state.
Agree(st, act, sp) ==
  /\ st \in [Files -> Statuses] /\ sp \in [Files -> Steps]
  /\ act = {f \in Files : st[f] = "uploading"}
  /\ act = {f \in Files : sp[f] # "none"}

\* The instance counts as this module does.
LEMMA SameCardinality == \A S : Pool!Cardinality(S) = Cardinality(S)
BY DEF Pool!Cardinality, Cardinality

\* pumpQueue fills the slots as the pool does, and keeps the three in agreement.
LEMMA PumpFills ==
  ASSUME NEW l, NEW st, NEW act, NEW sp, Agree(st, act, sp), Pump(l, st, act, sp)
  PROVE  /\ SlotsAgree' /\ Filled(Waiting(status), active)'
         /\ Fills(Waiting(st), act, Waiting(status'), active')
         /\ Ended(status') = Ended(st)
         /\ (Settled(status') <=> Settled(st))
<1>1. PICK go \in SUBSET Waiting(st) :
        /\ Cardinality(act \cup go) <= Slots
        /\ Cardinality(act \cup go) = Slots \/ go = Waiting(st)
        /\ status' = [f \in Files |-> IF f \in go THEN "uploading" ELSE st[f]]
        /\ active' = act \cup go
        /\ step' = [f \in Files |-> IF f \in go THEN "register" ELSE sp[f]]
  BY DEF Pump
<1>2. go \subseteq Files /\ \A f \in go : st[f] = "queued"
  BY <1>1 DEF Waiting
<1>3. SlotsAgree'
  BY <1>1, <1>2 DEF Agree, SlotsAgree, Statuses, Steps
<1>4. Waiting(status') = Waiting(st) \ go
  BY <1>1, <1>2 DEF Waiting
<1>5. active' \subseteq Files
  BY <1>3 DEF SlotsAgree
<1>6. Filled(Waiting(status), active)'
  BY <1>1, <1>4, <1>5, SlotsAssumption, FS_Subset DEF Filled
<1>7. Fills(Waiting(st), act, Waiting(status'), active')
  BY <1>1, <1>4 DEF Fills
<1>8. Ended(status') = Ended(st)
  BY <1>1, <1>2 DEF Ended, Over
<1>9. Settled(status') <=> Settled(st)
  BY <1>1, <1>2 DEF Settled, Over
<1> QED BY <1>3, <1>6, <1>7, <1>8, <1>9

\* Nothing has to be started once every file has ended.
LEMMA HoldFills ==
  ASSUME NEW st, NEW act, NEW sp, Agree(st, act, sp), Hold(st, act, sp),
         Waiting(st) = {}, act \subseteq active, Filled(Waiting(status), active)
  PROVE  /\ SlotsAgree' /\ Filled(Waiting(status), active)'
         /\ Fills(Waiting(st), act, Waiting(status'), active')
         /\ Ended(status') = Ended(st)
         /\ (Settled(status') <=> Settled(st))
<1>1. IsFiniteSet(act) /\ Cardinality(act) <= Cardinality(active)
  BY FS_Subset DEF Filled
<1>2. Cardinality(act) \in Nat /\ Cardinality(active) \in Nat /\ Slots \in Nat
  BY <1>1, FS_CardinalityType, SlotsAssumption DEF Filled
<1>3. Cardinality(act) <= Slots
  BY <1>1, <1>2 DEF Filled
<1>4. status' = st /\ active' = act /\ step' = sp
  BY DEF Hold
<1>5. Filled(Waiting(status), active)'
  BY <1>1, <1>3, <1>4 DEF Filled, Waiting
<1>6. Fills(Waiting(st), act, Waiting(status'), active')
  <2>1. {} \in SUBSET Waiting(st) /\ act \cup {} = act /\ Waiting(st) \ {} = Waiting(st)
    OBVIOUS
  <2>2. Waiting(status') = Waiting(st)
    BY <1>4
  <2> QED BY <1>3, <1>4, <2>1, <2>2 DEF Fills
<1>7. SlotsAgree'
  BY <1>4 DEF SlotsAgree, Agree
<1> QED BY <1>4, <1>5, <1>6, <1>7

\* settleIfFinished or pumpQueue, from a widget that is uploading.
LEMMA SettleOrPumpFills ==
  ASSUME NEW l, NEW st, NEW act, NEW sp, Agree(st, act, sp),
         SettleOrPump(l, st, act, sp), act \subseteq active, QInv, state = "uploading"
  PROVE  QInv' /\ Fills(Waiting(st), act, Waiting(status'), active') /\ Ended(status') = Ended(st)
<1>1. CASE Settled(st)
  <2>1. Hold(st, act, sp) /\ state' = "completed" /\ busy' = FALSE
    BY <1>1 DEF SettleOrPump, Settled
  <2>2. Waiting(st) = {}
    BY <1>1 DEF Settled, Waiting, Over
  <2>3. /\ SlotsAgree' /\ Filled(Waiting(status), active)'
        /\ Fills(Waiting(st), act, Waiting(status'), active') /\ Ended(status') = Ended(st)
        /\ (Settled(status') <=> Settled(st))
    BY <2>1, <2>2, HoldFills DEF QInv
  <2>4. StateFollows'
    BY <1>1, <2>1, <2>3 DEF StateFollows, Settled
  <2> QED BY <2>3, <2>4 DEF QInv
<1>2. CASE ~Settled(st)
  <2>1. Pump(l, st, act, sp) /\ UNCHANGED <<state, busy>>
    BY <1>2 DEF SettleOrPump, Settled
  <2>2. /\ SlotsAgree' /\ Filled(Waiting(status), active)'
        /\ Fills(Waiting(st), act, Waiting(status'), active') /\ Ended(status') = Ended(st)
        /\ (Settled(status') <=> Settled(st))
    BY <2>1, PumpFills
  <2>3. StateFollows'
    BY <1>2, <2>1, <2>2 DEF StateFollows, Settled, QInv
  <2> QED BY <2>2, <2>3 DEF QInv
<1> QED BY <1>1, <1>2

\* What the pool keeps of a step: its three sets.
LEMMA PoolSets ==
  /\ Pool!pool = <<Waiting(status), active, Ended(status)>>
  /\ Pool!pool' = <<Waiting(status'), active', Ended(status')>>
BY DEF Pool!pool, Waiting, Ended

\* The waiting files begin to upload with a file of their own: an item more.
LEMMA EnqueueStep ==
  ASSUME QInv, NEW f \in Files, Enqueue(f)
  PROVE  QInv' /\ Pool!Add(f)
<1> DEFINE st == [status EXCEPT ![f] = "queued"]
<1>1. /\ status[f] = "none" /\ state' = "uploading" /\ busy' = TRUE
      /\ Pump(list', st, active, step)
  BY DEF Enqueue
<1>2. Agree(st, active, step)
  BY <1>1 DEF Agree, QInv, SlotsAgree, Statuses, Steps
<1>3. Waiting(st) = Waiting(status) \cup {f} /\ Ended(st) = Ended(status) /\ ~Settled(st)
  BY <1>1 DEF Waiting, Ended, Over, Settled, QInv, SlotsAgree

<1>4. /\ SlotsAgree' /\ Filled(Waiting(status), active)' /\ Fills(Waiting(st), active, Waiting(status'), active')
      /\ Ended(status') = Ended(st) /\ (Settled(status') <=> Settled(st))
  BY <1>1, <1>2, PumpFills
<1>5. QInv'
  BY <1>1, <1>3, <1>4 DEF QInv, StateFollows, Settled
<1>6. f \notin Waiting(status) \cup active \cup Ended(status)
  BY <1>1 DEF Waiting, Ended, Over, QInv, SlotsAgree
<1> QED BY <1>3, <1>4, <1>5, <1>6, SameCardinality DEF Pool!Add, Pool!Fill, Fills, Waiting, Ended

LEMMA RetryStep ==
  ASSUME QInv, NEW f \in Files, RetryItem(f)
  PROVE  QInv' /\ Pool!Again(f)
<1> DEFINE st == [status EXCEPT ![f] = "queued"]
<1>1. /\ status[f] = "error" /\ state' = "uploading" /\ busy' = TRUE
      /\ Pump(list, st, active, step)
  BY DEF RetryItem
<1>2. Agree(st, active, step)
  BY <1>1 DEF Agree, QInv, SlotsAgree, Statuses, Steps
<1>3. Waiting(st) = Waiting(status) \cup {f} /\ Ended(st) = Ended(status) \ {f} /\ ~Settled(st)
  BY <1>1 DEF Waiting, Ended, Over, Settled, QInv, SlotsAgree

<1>4. /\ SlotsAgree' /\ Filled(Waiting(status), active)' /\ Fills(Waiting(st), active, Waiting(status'), active')
      /\ Ended(status') = Ended(st) /\ (Settled(status') <=> Settled(st))
  BY <1>1, <1>2, PumpFills
<1>5. QInv'
  BY <1>1, <1>3, <1>4 DEF QInv, StateFollows, Settled
<1>6. f \in Ended(status)
  BY <1>1 DEF Ended, Over
<1> QED BY <1>3, <1>4, <1>5, <1>6, SameCardinality DEF Pool!Again, Pool!Fill, Fills, Waiting, Ended

\* A file whose calls are under way has a slot, and its widget is uploading.
LEMMA InASlot ==
  ASSUME QInv, NEW f \in Files, step[f] # "none"
  PROVE  f \in active /\ status[f] = "uploading" /\ state = "uploading"
BY DEF QInv, SlotsAgree, StateFollows, Settled, Over

\* The end of an upload, good (s = "done") or bad, is Finish.
LEMMA EndStep ==
  ASSUME QInv, NEW f \in Files, step[f] # "none", NEW s \in Over,
         SettleOrPump(list, [status EXCEPT ![f] = s], active \ {f}, [step EXCEPT ![f] = "none"])
  PROVE  QInv' /\ Pool!Finish(f)
<1> DEFINE st == [status EXCEPT ![f] = s]
           sp == [step EXCEPT ![f] = "none"]
<1>1. f \in active /\ status[f] = "uploading" /\ state = "uploading"
  BY InASlot
<1>2. Agree(st, active \ {f}, sp)
  BY <1>1 DEF Agree, QInv, SlotsAgree, Statuses, Steps, Over
<1>3. Waiting(st) = Waiting(status) /\ Ended(st) = Ended(status) \cup {f}
  BY <1>1 DEF Waiting, Ended, Over, QInv, SlotsAgree
<1>4. active \ {f} \subseteq active /\ SettleOrPump(list, st, active \ {f}, sp)
  OBVIOUS

<1>5. QInv' /\ Fills(Waiting(st), active \ {f}, Waiting(status'), active') /\ Ended(status') = Ended(st)
  BY <1>1, <1>2, <1>4, SettleOrPumpFills
<1> QED BY <1>1, <1>3, <1>5, SameCardinality DEF Pool!Finish, Pool!Fill, Fills, Waiting, Ended

LEMMA FailStep ==
  ASSUME QInv, NEW f \in Files, step[f] # "none", FailItem(f)
  PROVE  QInv' /\ Pool!Finish(f)
<1>1. state = "uploading"
  BY InASlot
<1>2. SettleOrPump(list, [status EXCEPT ![f] = "error"], active \ {f}, [step EXCEPT ![f] = "none"])
  BY <1>1 DEF FailItem
<1>3. "error" \in Over
  BY DEF Over
<1> QED BY <1>2, <1>3, EndStep

\* A removed file leaves the pool; the widget idles, settles or goes on.
LEMMA RemoveStep ==
  ASSUME QInv, NEW f \in Files, RemoveItem(f)
  PROVE  QInv' /\ Pool!Drop(f)
<1> DEFINE st == [status EXCEPT ![f] = "none"]
           sp == [step EXCEPT ![f] = "none"]
           act == active \ {f}
<1>1. /\ status[f] # "none"
      /\ \/ /\ \A g \in Files : st[g] = "none"
            /\ state' = "idle" /\ busy' = FALSE /\ Hold(st, act, sp)
         \/ IF state = "uploading" THEN SettleOrPump(Without(list, f), st, act, sp)
                                   ELSE Hold(st, act, sp) /\ UNCHANGED <<state, busy>>
  BY DEF RemoveItem
<1>2. Agree(st, act, sp)
  BY DEF Agree, QInv, SlotsAgree, Statuses, Steps
<1>3. Waiting(st) = Waiting(status) \ {f} /\ Ended(st) = Ended(status) \ {f}
  BY DEF Waiting, Ended, Over, QInv, SlotsAgree
<1>4. f \in Waiting(status) \cup active \cup Ended(status)
  BY <1>1 DEF Waiting, Ended, Over, QInv, SlotsAgree, Statuses
<1>5. act \subseteq active
  OBVIOUS
<1>6. QInv' /\ Fills(Waiting(st), act, Waiting(status'), active') /\ Ended(status') = Ended(st)
  <2>1. CASE state = "uploading" /\ SettleOrPump(Without(list, f), st, act, sp)
    BY <1>2, <1>5, <2>1, SettleOrPumpFills
  <2>2. CASE Hold(st, act, sp) /\ state' # "uploading" /\ busy' = FALSE /\ Settled(st)
    <3>1. Waiting(st) = {}
      BY <2>2 DEF Settled, Waiting, Over
    <3>2. /\ SlotsAgree' /\ Filled(Waiting(status), active)' /\ Ended(status') = Ended(st)
          /\ Fills(Waiting(st), act, Waiting(status'), active')
          /\ (Settled(status') <=> Settled(st))
      BY <1>2, <1>5, <2>2, <3>1, HoldFills DEF QInv
    <3>3. StateFollows'
      BY <2>2, <3>2 DEF StateFollows, Settled
    <3> QED BY <3>2, <3>3 DEF QInv
  <2>3. ASSUME \A g \in Files : st[g] = "none" PROVE Settled(st)
    BY <2>3 DEF Settled
  <2>4. ASSUME state # "uploading" PROVE Settled(st) /\ busy = FALSE
    BY <2>4 DEF QInv, StateFollows, Settled, SlotsAgree
  <2> QED BY <1>1, <2>1, <2>2, <2>3, <2>4
<1> QED BY <1>3, <1>4, <1>6, SameCardinality DEF Pool!Drop, Pool!Fill, Fills, Waiting, Ended

\* An accepted message, or leaving the page, clears the pool.
LEMMA ResetStep ==
  ASSUME QInv, Reset
  PROVE  QInv' /\ Pool!Clear
<1>1. /\ active' = {} /\ state' = "idle" /\ busy' = FALSE
      /\ status' = [f \in Files |-> "none"] /\ step' = [f \in Files |-> "none"]
  BY DEF Reset
<1>2. SlotsAgree' /\ StateFollows'
  BY <1>1 DEF SlotsAgree, StateFollows, Settled, Statuses, Steps
<1>3. Waiting(status') = {}
  BY <1>1 DEF Waiting
<1>4. IsFiniteSet({}) /\ Cardinality({}) = 0 /\ 0 <= Slots
  BY FS_EmptySet, SlotsAssumption
<1>5. Filled(Waiting(status), active)'
  BY <1>1, <1>3, <1>4 DEF Filled
<1>6. Pool!Clear
  BY <1>1 DEF Pool!Clear, Over
<1> QED BY <1>2, <1>5, <1>6 DEF QInv

\* The other steps leave the pool alone: the calls of a file that uploads go
\* from one to the next.
LEMMA CallStep ==
  ASSUME QInv, UNCHANGED <<status, active, state, busy>>,
         NEW f \in Files, NEW t \in Steps \ {"none"}, step[f] # "none",
         step' \in {step, [step EXCEPT ![f] = t]}
  PROVE  QInv' /\ UNCHANGED Pool!pool
<1>1. SlotsAgree'
  BY DEF QInv, SlotsAgree
<1>2. StateFollows' /\ Filled(Waiting(status), active)'
  BY DEF QInv, StateFollows, Settled, Filled, Waiting
<1> QED BY <1>1, <1>2 DEF QInv, Pool!pool

LEMMA OtherStep ==
  ASSUME QInv, UNCHANGED <<status, active, state, busy, step>>
  PROVE  QInv' /\ UNCHANGED Pool!pool
BY DEF QInv, SlotsAgree, StateFollows, Settled, Filled, Waiting, Pool!pool

-----------------------------------------------------------------------------
\* Every step of the widget, its calls, the server and the page.
LEMMA QueueStep ==
  ASSUME QInv, [Next]_vars
  PROVE  QInv' /\ [Pool!Next]_(Pool!pool)
<1>1. ASSUME NEW f \in Files, Enqueue(f) PROVE QInv' /\ Pool!Next
  BY <1>1, EnqueueStep DEF Pool!Next
<1>2. ASSUME NEW f \in Files, RemoveItem(f) PROVE QInv' /\ Pool!Next
  BY <1>2, RemoveStep DEF Pool!Next
<1>3. ASSUME NEW f \in Files, RetryItem(f) PROVE QInv' /\ Pool!Next
  BY <1>3, RetryStep DEF Pool!Next
<1>4. ASSUME NEW f \in Files, ServeRequest(f) PROVE QInv' /\ UNCHANGED Pool!pool
  BY <1>4, CallStep DEF ServeRequest, widget, Steps
<1>5. ASSUME NEW f \in Files, ReadAnswer(f) PROVE QInv' /\ UNCHANGED Pool!pool
  BY <1>5, CallStep DEF ReadAnswer, Steps
<1>6. ASSUME NEW f \in Files, RequestFails(f) PROVE QInv' /\ Pool!Next
  <2>1. step[f] # "none" /\ FailItem(f)
    BY <1>6 DEF RequestFails
  <2> QED BY <2>1, FailStep DEF Pool!Next
<1>7. ASSUME NEW f \in Files, Stored(f) PROVE QInv' /\ UNCHANGED Pool!pool
  BY <1>7, CallStep DEF Stored, Move, widget, Steps
<1>8. ASSUME NEW f \in Files, Confirmed(f) PROVE QInv' /\ UNCHANGED Pool!pool
  BY <1>8, CallStep DEF Confirmed, Move, widget, Steps
<1>9. ASSUME NEW f \in Files, StillProcessing(f) PROVE QInv' /\ UNCHANGED Pool!pool
  BY <1>9, OtherStep DEF StillProcessing, widget
<1>10. ASSUME NEW f \in Files, Completed(f) PROVE QInv' /\ Pool!Next
  <2>1. step[f] # "none" /\ "done" \in Over
    BY <1>10 DEF Completed, Over
  <2>2. SettleOrPump(list, [status EXCEPT ![f] = "done"], active \ {f}, [step EXCEPT ![f] = "none"])
    BY <1>10 DEF Completed, FinishItem
  <2> QED BY <2>1, <2>2, EndStep DEF Pool!Next
<1>11. ASSUME NEW f \in Files, GiveUp(f) PROVE QInv' /\ Pool!Next
  <2>1. step[f] # "none" /\ FailItem(f)
    BY <1>11 DEF GiveUp
  <2> QED BY <2>1, FailStep DEF Pool!Next
<1>12. ASSUME NEW f \in Files, UploadFails(f) PROVE QInv' /\ Pool!Next
  <2>1. step[f] # "none" /\ FailItem(f)
    BY <1>12 DEF UploadFails
  <2> QED BY <2>1, FailStep DEF Pool!Next
<1>13. ASSUME NEW n \in 1..MaxRows, Process(n) PROVE QInv' /\ UNCHANGED Pool!pool
  BY <1>13, OtherStep DEF Process, widget, uploads
<1>14. ASSUME NEW d \in deletes, ServeDelete(d) \/ DeleteFails(d) PROVE QInv' /\ UNCHANGED Pool!pool
  BY <1>14, OtherStep DEF ServeDelete, DeleteFails, widget, uploads
<1>15. ASSUME NEW c \in Chats, OpenChat(c) \/ ServeCutOff(c) PROVE QInv' /\ UNCHANGED Pool!pool
  BY <1>15, OtherStep DEF OpenChat, ServeCutOff, widget, uploads
<1>16. ASSUME SendMessage \/ ServeSend \/ SendFails PROVE QInv' /\ UNCHANGED Pool!pool
  BY <1>16, OtherStep DEF SendMessage, ServeSend, SendFails, widget, uploads
<1>17. ASSUME SendAnswered \/ LeavePage PROVE QInv' /\ Pool!Next
  BY <1>17, ResetStep DEF SendAnswered, LeavePage, Pool!Next
<1>18. ASSUME UNCHANGED vars PROVE QInv' /\ UNCHANGED Pool!pool
  BY <1>18, OtherStep DEF vars, widget, uploads
<1> QED BY <1>1, <1>2, <1>3, <1>4, <1>5, <1>6, <1>7, <1>8, <1>9, <1>10, <1>11, <1>12,
           <1>13, <1>14, <1>15, <1>16, <1>17, <1>18 DEF Next, Ends

LEMMA QueueInit == Init => QInv /\ Pool!Init
<1> SUFFICES ASSUME Init PROVE QInv /\ Pool!Init
  OBVIOUS
<1>1. /\ active = {} /\ state = "idle" /\ busy = FALSE
      /\ status = [f \in Files |-> "none"] /\ step = [f \in Files |-> "none"]
  BY DEF Init
<1>2. SlotsAgree /\ StateFollows
  BY <1>1 DEF SlotsAgree, StateFollows, Settled, Statuses, Steps
<1>3. IsFiniteSet({}) /\ Cardinality({}) = 0 /\ 0 <= Slots
  BY FS_EmptySet, SlotsAssumption
<1>4. Waiting(status) = {}
  BY <1>1 DEF Waiting
<1>5. Filled(Waiting(status), active)
  BY <1>1, <1>3, <1>4 DEF Filled
<1>6. Pool!Init
  BY <1>1 DEF Pool!Init, Over
<1> QED BY <1>2, <1>5, <1>6 DEF QInv

\* The inductive invariant, for any number of files, slots and chats.
THEOREM QueueInvariant == Spec => []QInv
<1>1. QInv /\ [Next]_vars => QInv'
  BY QueueStep
<1> QED BY <1>1, QueueInit, PTL DEF Spec

\* The page is always told whether files upload (BusyIsTold): it never takes a
\* message while a file is on its way, and never refuses one for ever.
THEOREM PageIsTold == Spec => []BusyIsTold
<1>1. QInv => BusyIsTold
  BY DEF QInv, StateFollows, Settled, SlotsAgree, Statuses, Over, BusyIsTold
<1> QED BY <1>1, QueueInvariant, PTL

\* The widget implements the pool: the safety part of RefinesUploadPool.  Its
\* liveness, that every upload ends, is left to the run.
THEOREM ImplementsPool == Spec => Pool!Safe
<1>1. QInv /\ [Next]_vars => [Pool!Next]_(Pool!pool)
  BY QueueStep
<1> QED BY <1>1, QueueInit, QueueInvariant, PTL DEF Spec, Pool!Safe

\* The slots, as the code means them: no more than Slots uploads, and no file
\* waits while one is free.
SlotsUsed == /\ Cardinality(active) <= Slots
             /\ Cardinality(active) # Slots => Waiting(status) = {}

\* No more than MAX_CONCURRENT_UPLOADS files upload at once, and a free slot
\* means that nobody waits (pumpQueue).
THEOREM SlotsAreUsed == Spec => []SlotsUsed
<1>1. QInv => SlotsUsed
  BY DEF QInv, Filled, SlotsUsed
<1> QED BY <1>1, QueueInvariant, PTL

-----------------------------------------------------------------------------
(* The items, the rows and the message: types, StrandedFiles and             *)
(* DoneFilesTravel.                                                        *)

\* What the server and the calls hold.
RowStates == {"uploading", "processing", "completed", "ready", "linked", "error", "gone"}
Whys == {"none", "retried", "unheard", "emptied", "refused", "failed"}
Posts == [chat : Chats, at : {"asked", "answered"}, taken : BOOLEAN, shown : SUBSET Nat]
RowTypes ==
  /\ rows \in Seq([chat : Chats, state : RowStates])
  /\ why \in Seq(Whys) /\ Len(why) = Len(rows)
  /\ id \in [Files -> 0..Len(rows)] /\ answer \in [Files -> 0..Len(rows)]
  /\ deletes \subseteq [chat : Chats, row : 1..Len(rows)]
  /\ open \in Chats /\ cutOff \subseteq Chats
  /\ sending = NoSend \/ sending \in Posts
Present(st) == {f \in Files : st[f] # "none"}
ItemTypes ==
  /\ list \in Seq(Files) /\ Items(list) = Present(status)
  /\ \A i, j \in 1..Len(list) : list[i] = list[j] => i = j
  /\ state \in {"idle", "uploading", "completed"}
  /\ target \in [Files -> Chats] /\ polls \in [Files -> 0..StatusPollLimit]
IsHeard == \A f \in Files : answer[f] # 0 <=> step[f] = "registered"

\* The row that an upload knows is in the chat that it was started for.
Uploaded(f) == step[f] \in {"post", "confirm", "poll"} \/ status[f] = "done"
KnowsItsRow ==
  \A f \in Files :
    /\ answer[f] # 0 => rows[answer[f]].chat = target[f]
    /\ Uploaded(f) => id[f] # 0 /\ rows[id[f]].chat = target[f]

\* What a message shows is in the chat that it is sent to.
ShowsItsChat ==
  sending # NoSend =>
    /\ sending.at = "asked" => ~sending.taken
    /\ \A n \in sending.shown : n \in 1..Len(rows) /\ rows[n].chat = sending.chat

\* A row that the widget has not lost sight of (why) is delivered or deleted,
\* or an item, an answer or a DELETE knows its id.
Seen(n) == \/ \E f \in Files : id[f] = n \/ answer[f] = n
           \/ \E d \in deletes : d.row = n
InSight == \A n \in 1..Len(rows) :
             why[n] = "none" => rows[n].state \in {"linked", "gone"} \/ Seen(n)

RInv == RowTypes /\ ItemTypes /\ IsHeard /\ KnowsItsRow /\ ShowsItsChat /\ InSight
-----------------------------------------------------------------------------
\* What becomes of the files when pumpQueue may have started some of them.
Pumped(st, sp) ==
  /\ status' \in [Files -> Statuses] /\ step' \in [Files -> Steps]
  /\ target' \in [Files -> Chats] /\ polls' \in [Files -> 0..StatusPollLimit]
  /\ \A f \in Files :
       \/ status'[f] = st[f] /\ step'[f] = sp[f] /\ target'[f] = target[f]
       \/ st[f] = "queued" /\ status'[f] = "uploading" /\ step'[f] = "register"

LEMMA PumpPumps ==
  ASSUME NEW l, NEW act, NEW st \in [Files -> Statuses], NEW sp \in [Files -> Steps],
         RowTypes, ItemTypes, Pump(l, st, act, sp)
  PROVE  Pumped(st, sp)
<1>1. PICK go \in SUBSET Waiting(st) :
        /\ status' = [f \in Files |-> IF f \in go THEN "uploading" ELSE st[f]]
        /\ step' = [f \in Files |-> IF f \in go THEN "register" ELSE sp[f]]
        /\ target' = [f \in Files |-> IF f \in go THEN open ELSE target[f]]
        /\ polls' = [f \in Files |-> IF f \in go THEN 0 ELSE polls[f]]
  BY DEF Pump
<1>2. go \subseteq Files /\ \A f \in go : st[f] = "queued"
  BY DEF Waiting
<1>3. status' \in [Files -> Statuses] /\ step' \in [Files -> Steps]
  BY <1>1, <1>2 DEF Statuses, Steps
<1>4. target' \in [Files -> Chats] /\ polls' \in [Files -> 0..StatusPollLimit]
  BY <1>1, <1>2, QueueBoundAssumption DEF RowTypes, ItemTypes
<1> QED BY <1>1, <1>2, <1>3, <1>4 DEF Pumped

LEMMA HoldPumps ==
  ASSUME NEW act, NEW st \in [Files -> Statuses], NEW sp \in [Files -> Steps],
         ItemTypes, Hold(st, act, sp)
  PROVE  Pumped(st, sp)
BY DEF Hold, Pumped, ItemTypes

LEMMA SettlePumps ==
  ASSUME NEW l, NEW act, NEW st \in [Files -> Statuses], NEW sp \in [Files -> Steps],
         RowTypes, ItemTypes, SettleOrPump(l, st, act, sp)
  PROVE  Pumped(st, sp) /\ state' \in {state, "completed"}
<1>1. CASE Settled(st)
  BY <1>1, HoldPumps DEF SettleOrPump, Settled
<1>2. CASE ~Settled(st)
  BY <1>2, PumpPumps DEF SettleOrPump, Settled
<1> QED BY <1>1, <1>2

\* Files that are started were items before.
LEMMA PumpedPresent ==
  ASSUME NEW st \in [Files -> Statuses], NEW sp \in [Files -> Steps], Pumped(st, sp)
  PROVE  Present(status') = Present(st)
BY DEF Pumped, Present, Statuses
-----------------------------------------------------------------------------
(* The items.                                                              *)

\* No file is twice in l, a sequence of files.
Once(l) == l \in Seq(Files) /\ \A i, j \in 1..Len(l) : l[i] = l[j] => i = j

LEMMA ItemsWithout ==
  ASSUME NEW l, Once(l), NEW f \in Items(l)
  PROVE  Once(Without(l, f)) /\ Items(Without(l, f)) = Items(l) \ {f}
<1> DEFINE at == CHOOSE i \in DOMAIN l : l[i] = f
           m == Without(l, f)
<1>1. l \in Seq(Files) /\ DOMAIN l = 1..Len(l) /\ Len(l) \in Nat /\ \A i \in 1..Len(l) : l[i] \in Files
  BY DEF Once
<1>2. at \in 1..Len(l) /\ l[at] = f
  BY <1>1 DEF Items
<1> HIDE DEF at
<1> DEFINE front == SubSeq(l, 1, at - 1)
           back == SubSeq(l, at + 1, Len(l))
<1>3. m = front \o back
  BY DEF Without, RemoveAt, at
<1>4. front \in Seq(Files) /\ Len(front) = at - 1 /\ \A k \in 1..(at - 1) : front[k] = l[k]
  <2>1. \A i \in 1..(at - 1) : l[i] \in Files
    BY <1>1, <1>2
  <2>2. /\ front \in Seq(Files)
        /\ Len(front) = IF 1 <= at - 1 THEN (at - 1) - 1 + 1 ELSE 0
        /\ \A k \in 1..((at - 1) - 1 + 1) : front[k] = l[1 + k - 1]
    BY <1>1, <1>2, <2>1, SubSeqProperties
  <2> HIDE DEF front
  <2> QED BY <1>1, <1>2, <2>2
<1>5. /\ back \in Seq(Files) /\ Len(back) = Len(l) - at
      /\ \A k \in 1..(Len(l) - at) : back[k] = l[at + k]
  <2>1. \A i \in (at + 1)..Len(l) : l[i] \in Files
    BY <1>1, <1>2
  <2>2. /\ back \in Seq(Files)
        /\ Len(back) = IF at + 1 <= Len(l) THEN Len(l) - (at + 1) + 1 ELSE 0
        /\ \A k \in 1..(Len(l) - (at + 1) + 1) : back[k] = l[(at + 1) + k - 1]
    BY <1>1, <1>2, <2>1, SubSeqProperties
  <2> HIDE DEF back
  <2>3. Len(back) = Len(l) - at /\ Len(l) - (at + 1) + 1 = Len(l) - at
    <3>1. at \in Int /\ Len(l) \in Int /\ at <= Len(l)
      BY <1>1, <1>2
    <3>2. Len(back) = IF at + 1 <= Len(l) THEN Len(l) - (at + 1) + 1 ELSE 0
      BY <2>2
    <3> QED BY <3>1, <3>2
  <2>4. ASSUME NEW k \in 1..(Len(l) - at) PROVE back[k] = l[at + k]
    <3>1. (at + 1) + k - 1 = at + k
      BY <1>1, <1>2
    <3> QED BY <2>2, <2>3, <3>1
  <2> QED BY <2>2, <2>3, <2>4
<1> HIDE DEF front, back
<1>6. /\ m \in Seq(Files) /\ Len(m) = Len(l) - 1 /\ DOMAIN m = 1..(Len(l) - 1)
      /\ \A k \in 1..(Len(l) - 1) : m[k] = IF k <= at - 1 THEN front[k] ELSE back[k - (at - 1)]
  <2>1. /\ front \o back \in Seq(Files) /\ Len(front \o back) = Len(front) + Len(back)
        /\ \A k \in 1..(Len(front) + Len(back)) :
             (front \o back)[k] = IF k <= Len(front) THEN front[k] ELSE back[k - Len(front)]
    BY <1>4, <1>5, ConcatProperties
  <2>2. Len(front) + Len(back) = Len(l) - 1
    BY <1>1, <1>2, <1>4, <1>5
  <2>3. DOMAIN m = 1..Len(m)
    BY <1>3, <2>1
  <2> QED BY <1>3, <1>4, <2>1, <2>2, <2>3
<1> HIDE DEF m
<1>7. \A k \in 1..(Len(l) - 1) : m[k] = IF k < at THEN l[k] ELSE l[k + 1]
  <2> SUFFICES ASSUME NEW k \in 1..(Len(l) - 1) PROVE m[k] = IF k < at THEN l[k] ELSE l[k + 1]
    OBVIOUS
  <2>1. CASE k < at
    BY <1>1, <1>2, <1>4, <1>6, <2>1
  <2>2. CASE k >= at
    <3>1. k - (at - 1) \in 1..(Len(l) - at) /\ at + (k - (at - 1)) = k + 1 /\ ~(k <= at - 1)
      BY <1>1, <1>2, <2>2
    <3>2. m[k] = back[k - (at - 1)]
      BY <1>6, <3>1
    <3> QED BY <1>5, <1>2, <2>2, <3>1, <3>2
  <2> QED BY <1>1, <1>2, <2>1, <2>2
<1>8. Once(m)
  BY <1>1, <1>2, <1>6, <1>7 DEF Once
<1>9. ASSUME NEW g \in Items(m) PROVE g \in Items(l) \ {f}
  <2>1. PICK k \in 1..(Len(l) - 1) : m[k] = g
    BY <1>6 DEF Items
  <2>2. PICK i \in 1..Len(l) : l[i] = g /\ i # at
    <3>1. CASE k < at
      BY <1>1, <1>2, <1>7, <2>1, <3>1
    <3>2. CASE ~(k < at)
      BY <1>1, <1>2, <1>7, <2>1, <3>2
    <3> QED BY <3>1, <3>2
  <2>3. l[i] # l[at]
    BY <1>2, <2>2 DEF Once
  <2> QED BY <1>1, <1>2, <2>2, <2>3 DEF Items
<1>10. ASSUME NEW g \in Items(l) \ {f} PROVE g \in Items(m)
  <2>1. PICK i \in 1..Len(l) : l[i] = g /\ i # at
    BY <1>1, <1>2, <1>10 DEF Items
  <2>2. CASE i < at
    <3>1. i \in 1..(Len(l) - 1) /\ m[i] = g
      BY <1>1, <1>2, <1>7, <2>1, <2>2
    <3> QED BY <1>6, <3>1 DEF Items
  <2>3. CASE i > at
    <3>1. i - 1 \in 1..(Len(l) - 1) /\ ~(i - 1 < at) /\ (i - 1) + 1 = i
      BY <1>1, <1>2, <2>1, <2>3
    <3>2. m[i - 1] = g
      BY <1>7, <2>1, <3>1
    <3> QED BY <1>6, <3>1, <3>2 DEF Items
  <2> QED BY <1>1, <1>2, <2>1, <2>2, <2>3
<1> QED BY <1>8, <1>9, <1>10 DEF m

LEMMA ItemsAppend ==
  ASSUME NEW l, Once(l), NEW f \in Files \ Items(l)
  PROVE  Once(Append(l, f)) /\ Items(Append(l, f)) = Items(l) \cup {f}
<1>1. l \in Seq(Files) /\ DOMAIN l = 1..Len(l) /\ Len(l) \in Nat
  BY DEF Once
<1>2. /\ Append(l, f) \in Seq(Files) /\ Len(Append(l, f)) = Len(l) + 1
      /\ DOMAIN Append(l, f) = 1..(Len(l) + 1)
      /\ \A i \in 1..Len(l) : Append(l, f)[i] = l[i]
      /\ Append(l, f)[Len(l) + 1] = f
  BY <1>1
<1>3. \A i \in 1..Len(l) : l[i] # f
  BY <1>1 DEF Items
<1>4. Once(Append(l, f))
  BY <1>1, <1>2, <1>3 DEF Once
<1>5. Items(Append(l, f)) = Items(l) \cup {f}
  <2>1. Items(Append(l, f)) \subseteq Items(l) \cup {f}
    BY <1>1, <1>2 DEF Items
  <2>2. \A g \in Items(l) : g \in Items(Append(l, f))
    BY <1>1, <1>2 DEF Items
  <2>3. f \in Items(Append(l, f))
    BY <1>1, <1>2 DEF Items
  <2> QED BY <2>1, <2>2, <2>3
<1> QED BY <1>4, <1>5
-----------------------------------------------------------------------------
(* The rows.                                                               *)

Rows == Seq([chat : Chats, state : RowStates])

\* No row leaves its chat.
RowsKept == /\ rows' \in Rows /\ why' \in Seq(Whys) /\ Len(why') = Len(rows')
            /\ Len(rows) <= Len(rows') /\ \A n \in 1..Len(rows) : rows'[n].chat = rows[n].chat

LEMMA SetRowKeeps ==
  ASSUME RowTypes, NEW n \in 1..Len(rows), NEW s \in RowStates, SetRow(n, s)
  PROVE  /\ rows' \in Rows /\ Len(rows') = Len(rows)
         /\ \A m \in 1..Len(rows) : /\ rows'[m].chat = rows[m].chat
                                    /\ rows'[m].state = IF m = n THEN s ELSE rows[m].state
<1>1. rows \in Seq([chat : Chats, state : RowStates]) /\ DOMAIN rows = 1..Len(rows) /\ Len(rows) \in Nat
  BY DEF RowTypes
<1>2. rows' = [rows EXCEPT ![n] = [rows[n] EXCEPT !.state = s]]
  BY DEF SetRow
<1>3. rows[n] \in [chat : Chats, state : RowStates]
  BY <1>1, ElementOfSeq
<1>4. /\ [rows[n] EXCEPT !.state = s] \in [chat : Chats, state : RowStates]
      /\ [rows[n] EXCEPT !.state = s].chat = rows[n].chat
      /\ [rows[n] EXCEPT !.state = s].state = s
  BY <1>3
<1>5. rows' \in Rows /\ Len(rows') = Len(rows)
  BY <1>1, <1>2, <1>4, ExceptSeq DEF Rows
<1>6. \A m \in 1..Len(rows) : rows'[m] = IF m = n THEN [rows[n] EXCEPT !.state = s] ELSE rows[m]
  BY <1>1, <1>2
<1> QED BY <1>4, <1>5, <1>6

LEMMA RegisterKeeps ==
  ASSUME RowTypes, NEW c \in Chats, NEW w \in Whys,
         rows' = Register(c), why' = Append(why, w)
  PROVE  /\ RowsKept /\ Len(rows') = Len(rows) + 1
         /\ \A m \in 1..Len(rows) : rows'[m] = rows[m] /\ why'[m] = why[m]
         /\ rows'[Len(rows) + 1].chat = c /\ why'[Len(rows) + 1] = w
<1>1. [chat |-> c, state |-> "uploading"] \in [chat : Chats, state : RowStates]
  BY DEF RowStates
<1>2. /\ rows' \in Rows /\ Len(rows') = Len(rows) + 1
      /\ \A m \in 1..Len(rows) : rows'[m] = rows[m]
      /\ rows'[Len(rows) + 1] = [chat |-> c, state |-> "uploading"]
  BY <1>1, AppendProperties DEF RowTypes, Rows, Register
<1>3. /\ why' \in Seq(Whys) /\ Len(why') = Len(rows) + 1
      /\ \A m \in 1..Len(rows) : why'[m] = why[m]
      /\ why'[Len(rows) + 1] = w
  BY AppendProperties DEF RowTypes
<1>4. Len(rows) \in Nat
  BY DEF RowTypes
<1> QED BY <1>2, <1>3, <1>4 DEF RowsKept

LEMMA LostSight ==
  ASSUME RowTypes, NEW ns, NEW reason \in Whys \ {"none"}, LoseSight(ns, reason)
  PROVE  /\ why' \in Seq(Whys) /\ Len(why') = Len(rows)
         /\ \A n \in 1..Len(rows) : why'[n] = IF n \in ns THEN reason ELSE why[n]
<1>1. why \in Seq(Whys) /\ DOMAIN why = 1..Len(rows) /\ Len(rows) \in Nat
  BY DEF RowTypes
<1>2. why' = [n \in 1..Len(rows) |-> IF n \in ns THEN reason ELSE why[n]]
  BY <1>1 DEF LoseSight
<1>3. \A n \in 1..Len(rows) : why[n] \in Whys
  BY <1>1
<1> QED BY <1>1, <1>2, <1>3, IsASeq

LEMMA NothingLost ==
  ASSUME RowTypes, UNCHANGED why
  PROVE  /\ why' \in Seq(Whys) /\ Len(why') = Len(rows)
         /\ \A n \in 1..Len(rows) : why'[n] = why[n]
BY DEF RowTypes

\* The sending of a message and its files, as long as no row leaves its chat.
LEMMA ShowsKept ==
  ASSUME RowTypes, ShowsItsChat, RowsKept, UNCHANGED sending
  PROVE  ShowsItsChat'
<1>1. Len(rows) \in Nat /\ Len(rows') \in Nat
  BY DEF RowTypes, RowsKept, Rows
<1> QED BY <1>1 DEF ShowsItsChat, RowsKept

LEMMA InSightIsStranded == RowTypes /\ InSight => StrandedFiles
<1> SUFFICES ASSUME RowTypes, InSight, NEW n \in Orphans PROVE why[n] # "none"
  BY DEF StrandedFiles
<1>1. n \in 1..Len(rows) /\ rows[n].state \notin {"linked", "gone"}
  BY DEF Orphans, RowTypes
<1>2. \A f \in Files : id[f] # n /\ answer[f] # n
  BY <1>1 DEF Orphans, Ids, RowTypes
<1>3. ~Seen(n)
  BY <1>2 DEF Seen, Orphans
<1> QED BY <1>1, <1>3 DEF InSight
-----------------------------------------------------------------------------
(* The steps of the widget.                                                *)

LEMMA TypesKept ==
  ASSUME RowTypes, RowsKept, UNCHANGED <<open, sending>>,
         id' \in [Files -> 0..Len(rows)], answer' \in [Files -> 0..Len(rows)],
         deletes' \subseteq [chat : Chats, row : 1..Len(rows)], cutOff' \subseteq Chats
  PROVE  RowTypes'
<1>1. Len(rows) \in Nat /\ Len(rows') \in Nat /\ Len(rows) <= Len(rows')
  BY DEF RowTypes, RowsKept, Rows
<1>2. 0..Len(rows) \subseteq 0..Len(rows') /\ 1..Len(rows) \subseteq 1..Len(rows')
  BY <1>1
<1>3. id' \in [Files -> 0..Len(rows')] /\ answer' \in [Files -> 0..Len(rows')]
  BY <1>2
<1>4. deletes' \subseteq [chat : Chats, row : 1..Len(rows')]
  BY <1>2
<1> QED BY <1>3, <1>4 DEF RowTypes, RowsKept, Rows

\* A row stays in sight whose item, answer or DELETE stays.
LEMMA InSightKept ==
  ASSUME RowTypes, InSight, Len(rows') = Len(rows),
         \A n \in 1..Len(rows) :
           /\ why'[n] = "none" => why[n] = "none"
           /\ why'[n] = "none" /\ rows[n].state \in {"linked", "gone"} =>
                rows'[n].state \in {"linked", "gone"}
           /\ why'[n] = "none" /\ Seen(n) => Seen(n)' \/ rows'[n].state \in {"linked", "gone"}
  PROVE  InSight'
BY DEF InSight

\* A file is added, or tried again: it waits, and the first files are started.
LEMMA QueuedKeeps ==
  ASSUME QInv, RInv, NEW f \in Files, status[f] \in {"none", "error"},
         Pump(list', [status EXCEPT ![f] = "queued"], active, step), state' = "uploading",
         Once(list'), Items(list') = Items(list) \cup {f},
         UNCHANGED <<id, answer, server, page>>
  PROVE  RInv'
<1> DEFINE st == [status EXCEPT ![f] = "queued"]
<1>1. st \in [Files -> Statuses] /\ step \in [Files -> Steps]
  BY DEF QInv, SlotsAgree, Statuses
<1>2. Pumped(st, step)
  BY <1>1, PumpPumps DEF RInv
<1>3. UNCHANGED <<rows, cutOff, deletes, why, open, sending>>
  BY DEF server, page
<1>4. step[f] = "none"
  BY DEF QInv, SlotsAgree
<1>5. RowTypes'
  BY <1>3 DEF RInv, RowTypes
<1>6. ItemTypes'
  <2>1. Present(st) = Present(status) \cup {f}
    BY DEF Present, QInv, SlotsAgree
  <2>2. Items(list') = Present(status')
    BY <1>1, <1>2, <2>1, PumpedPresent DEF RInv, ItemTypes
  <2> QED BY <1>2, <2>2 DEF ItemTypes, Pumped, Once
<1>7. \A g \in Files : \/ step'[g] = step[g] /\ target'[g] = target[g] /\ status'[g] = st[g]
                       \/ step[g] = "none" /\ step'[g] = "register" /\ status'[g] = "uploading"
  <2> SUFFICES ASSUME NEW g \in Files, st[g] = "queued", step'[g] = "register",
                      status'[g] = "uploading"
               PROVE  step[g] = "none"
    BY <1>2 DEF Pumped
  <2> QED BY <1>4 DEF QInv, SlotsAgree
<1>8. IsHeard'
  BY <1>7 DEF RInv, IsHeard
<1>9. KnowsItsRow'
  <2> SUFFICES ASSUME NEW g \in Files
               PROVE  /\ answer'[g] # 0 => rows'[answer'[g]].chat = target'[g]
                      /\ Uploaded(g)' => id'[g] # 0 /\ rows'[id'[g]].chat = target'[g]
    BY DEF KnowsItsRow
  <2>1. CASE step'[g] = step[g] /\ target'[g] = target[g] /\ status'[g] = st[g]
    <3>1. Uploaded(g)' => Uploaded(g)
      BY <2>1 DEF Uploaded, QInv, SlotsAgree
    <3> QED BY <1>3, <2>1, <3>1 DEF RInv, KnowsItsRow
  <2>2. CASE step[g] = "none" /\ step'[g] = "register" /\ status'[g] = "uploading"
    <3>1. ~Uploaded(g)' /\ answer'[g] = 0
      BY <2>2 DEF Uploaded, RInv, IsHeard
    <3> QED BY <3>1
  <2> QED BY <1>7, <2>1, <2>2
<1>10. ShowsItsChat'
  BY <1>3 DEF RInv, ShowsItsChat
<1>11. InSight'
  <2>1. \A n : Seen(n)' <=> Seen(n)
    BY <1>3 DEF Seen
  <2> QED BY <1>3, <2>1 DEF RInv, InSight
<1> QED BY <1>5, <1>6, <1>8, <1>9, <1>10, <1>11 DEF RInv

LEMMA EnqueueKeeps ==
  ASSUME QInv, RInv, NEW f \in Files, Enqueue(f)
  PROVE  RInv'
<1>1. status[f] = "none" /\ list' = Append(list, f) /\ state' = "uploading"
  BY DEF Enqueue
<1>2. Once(list) /\ f \notin Items(list)
  BY <1>1 DEF RInv, ItemTypes, Once, Present
<1>3. Once(list') /\ Items(list') = Items(list) \cup {f}
  BY <1>1, <1>2, ItemsAppend
<1>4. Pump(list', [status EXCEPT ![f] = "queued"], active, step) /\ UNCHANGED <<id, answer, server, page>>
  BY DEF Enqueue
<1> QED BY <1>1, <1>3, <1>4, QueuedKeeps

LEMMA RetryKeeps ==
  ASSUME QInv, RInv, NEW f \in Files, RetryItem(f)
  PROVE  RInv'
<1>1. status[f] = "error" /\ list' = list /\ state' = "uploading"
  BY DEF RetryItem
<1>2. Once(list') /\ Items(list') = Items(list) \cup {f}
  BY <1>1 DEF RInv, ItemTypes, Once, Present
<1>3. Pump(list', [status EXCEPT ![f] = "queued"], active, step) /\ UNCHANGED <<id, answer, server, page>>
  BY <1>1 DEF RetryItem
<1> QED BY <1>1, <1>2, <1>3, QueuedKeeps

\* The observable of f ends, well or badly; an answer on its way is not read.
LEMMA OverKeeps ==
  ASSUME QInv, RInv, NEW f \in Files, step[f] # "none", NEW s \in Over, s = "done" => Uploaded(f),
         Pumped([status EXCEPT ![f] = s], [step EXCEPT ![f] = "none"]),
         state' \in {state, "completed"}, UNCHANGED <<list, id, rows, cutOff, deletes, page>>,
         answer' = [answer EXCEPT ![f] = 0], LoseSight(Unheard({f}), "unheard")
  PROVE  RInv'
<1> DEFINE st == [status EXCEPT ![f] = s]
           sp == [step EXCEPT ![f] = "none"]
<1>1. st \in [Files -> Statuses] /\ sp \in [Files -> Steps]
  BY DEF QInv, SlotsAgree, Statuses, Steps, Over
<1>2. UNCHANGED <<open, sending>>
  BY DEF page
<1>3. /\ why' \in Seq(Whys) /\ Len(why') = Len(rows)
      /\ \A n \in 1..Len(rows) : why'[n] = IF n \in Unheard({f}) THEN "unheard" ELSE why[n]
  BY LostSight DEF RInv, Whys
<1>4. RowsKept
  BY <1>3 DEF RowsKept, RInv, RowTypes, Rows
<1>5. RowTypes'
  <2>1. answer' \in [Files -> 0..Len(rows)]
    BY DEF RInv, RowTypes
  <2> QED BY <1>2, <1>4, <2>1, TypesKept DEF RInv, RowTypes
<1>6. status[f] = "uploading"
  BY DEF QInv, SlotsAgree
<1>7. ItemTypes'
  <2>1. Present(st) = Present(status)
    BY <1>6 DEF Present, QInv, SlotsAgree, Over
  <2>2. Items(list') = Present(status')
    BY <1>1, <2>1, PumpedPresent DEF RInv, ItemTypes
  <2> QED BY <2>2 DEF RInv, ItemTypes, Pumped
<1>8. \A g \in Files \ {f} :
        \/ step'[g] = step[g] /\ target'[g] = target[g] /\ status'[g] = status[g]
        \/ step[g] = "none" /\ step'[g] = "register" /\ status'[g] = "uploading"
  BY DEF Pumped, QInv, SlotsAgree
<1>9. step'[f] = "none" /\ target'[f] = target[f] /\ status'[f] = s
  BY DEF Pumped, QInv, SlotsAgree, Over
<1>10. \A g \in Files \ {f} : answer'[g] = answer[g]
  BY DEF RInv, RowTypes
<1>11. answer'[f] = 0
  BY DEF RInv, RowTypes
<1>12. IsHeard'
  <2>1. \A g \in Files \ {f} : answer'[g] # 0 <=> step'[g] = "registered"
    BY <1>8, <1>10 DEF RInv, IsHeard
  <2> QED BY <1>9, <1>11, <2>1 DEF IsHeard
<1>13. KnowsItsRow'
  <2> SUFFICES ASSUME NEW g \in Files
               PROVE  /\ answer'[g] # 0 => rows'[answer'[g]].chat = target'[g]
                      /\ Uploaded(g)' => id'[g] # 0 /\ rows'[id'[g]].chat = target'[g]
    BY DEF KnowsItsRow
  <2>1. CASE g = f
    <3>1. Uploaded(f)' => Uploaded(f)
      BY <1>9 DEF Uploaded
    <3> QED BY <1>9, <1>11, <2>1, <3>1 DEF RInv, KnowsItsRow
  <2>2. CASE g # f /\ step'[g] = step[g] /\ target'[g] = target[g] /\ status'[g] = status[g]
    BY <1>10, <2>2 DEF RInv, KnowsItsRow, Uploaded
  <2>3. CASE g # f /\ step[g] = "none" /\ step'[g] = "register" /\ status'[g] = "uploading"
    <3>1. ~Uploaded(g)' /\ answer'[g] = 0
      BY <1>10, <2>3 DEF Uploaded, RInv, IsHeard
    <3> QED BY <3>1
  <2> QED BY <1>8, <2>1, <2>2, <2>3
<1>14. ShowsItsChat'
  BY <1>2, <1>4, ShowsKept DEF RInv
<1>15. InSight'
  <2>1. ASSUME NEW n \in 1..Len(rows), why'[n] = "none", Seen(n) PROVE Seen(n)'
    <3>1. answer[f] # n
      BY <1>3, <2>1 DEF Unheard, RInv, IsHeard
    <3> QED BY <1>10, <2>1, <3>1 DEF Seen
  <2> QED BY <1>3, <2>1, InSightKept DEF RInv
<1> QED BY <1>5, <1>7, <1>12, <1>13, <1>14, <1>15 DEF RInv

LEMMA FailPumps ==
  ASSUME QInv, RInv, NEW f \in Files, step[f] # "none", FailItem(f)
  PROVE  /\ Pumped([status EXCEPT ![f] = "error"], [step EXCEPT ![f] = "none"])
         /\ state' \in {state, "completed"} /\ UNCHANGED <<list, id>>
<1>1. state = "uploading"
  BY InASlot
<1>2. /\ SettleOrPump(list, [status EXCEPT ![f] = "error"], active \ {f}, [step EXCEPT ![f] = "none"])
      /\ UNCHANGED <<list, id>>
  BY <1>1 DEF FailItem
<1>3. /\ [status EXCEPT ![f] = "error"] \in [Files -> Statuses]
      /\ [step EXCEPT ![f] = "none"] \in [Files -> Steps]
  BY DEF QInv, SlotsAgree, Statuses, Steps
<1> QED BY <1>2, <1>3, SettlePumps DEF RInv

\* Nothing is lost of a file that waits for no answer.
LEMMA NoAnswer ==
  ASSUME RInv, NEW f \in Files, step[f] # "registered", UNCHANGED <<answer, why>>
  PROVE  answer' = [answer EXCEPT ![f] = 0] /\ LoseSight(Unheard({f}), "unheard")
<1>1. answer[f] = 0
  BY DEF RInv, IsHeard
<1>2. answer' = [answer EXCEPT ![f] = 0]
  BY <1>1 DEF RInv, RowTypes
<1>3. Unheard({f}) = {}
  BY DEF Unheard
<1>4. why = [n \in DOMAIN why |-> why[n]]
  BY DEF RInv, RowTypes
<1> QED BY <1>2, <1>3, <1>4 DEF LoseSight

LEMMA FailedKeeps ==
  ASSUME QInv, RInv, NEW f \in Files, RequestFails(f) \/ GiveUp(f) \/ UploadFails(f)
  PROVE  RInv'
<1>1. step[f] # "none" /\ FailItem(f) /\ UNCHANGED <<rows, cutOff, deletes, page>>
  BY DEF RequestFails, GiveUp, UploadFails, server
<1>2. "error" \in Over
  BY DEF Over
<1>3. answer' = [answer EXCEPT ![f] = 0] /\ LoseSight(Unheard({f}), "unheard")
  <2>1. CASE RequestFails(f)
    BY <2>1 DEF RequestFails
  <2>2. CASE GiveUp(f) \/ UploadFails(f)
    <3>1. step[f] # "registered" /\ UNCHANGED <<answer, why>>
      BY <2>2 DEF GiveUp, UploadFails, server
    <3> QED BY <3>1, NoAnswer
  <2> QED BY <2>1, <2>2
<1>4. /\ Pumped([status EXCEPT ![f] = "error"], [step EXCEPT ![f] = "none"])
      /\ state' \in {state, "completed"} /\ UNCHANGED <<list, id>>
  BY <1>1, FailPumps
<1> QED BY <1>1, <1>2, <1>3, <1>4, OverKeeps

LEMMA CompletedKeeps ==
  ASSUME QInv, RInv, NEW f \in Files, Completed(f)
  PROVE  RInv'
<1>1. /\ step[f] = "poll" /\ UNCHANGED <<answer, server, page, list, id>>
      /\ SettleOrPump(list, [status EXCEPT ![f] = "done"], active \ {f}, [step EXCEPT ![f] = "none"])
  BY DEF Completed, FinishItem
<1>2. /\ [status EXCEPT ![f] = "done"] \in [Files -> Statuses]
      /\ [step EXCEPT ![f] = "none"] \in [Files -> Steps]
  BY DEF QInv, SlotsAgree, Statuses, Steps
<1>3. /\ Pumped([status EXCEPT ![f] = "done"], [step EXCEPT ![f] = "none"])
      /\ state' \in {state, "completed"}
  BY <1>1, <1>2, SettlePumps DEF RInv
<1>4. answer' = [answer EXCEPT ![f] = 0] /\ LoseSight(Unheard({f}), "unheard")
  BY <1>1, NoAnswer DEF server
<1>5. step[f] # "none" /\ "done" \in Over /\ Uploaded(f)
  BY <1>1 DEF Over, Uploaded
<1>6. UNCHANGED <<rows, cutOff, deletes, page, list, id>>
  BY <1>1 DEF server
<1> QED BY <1>3, <1>4, <1>5, <1>6, OverKeeps

LEMMA RemoveKeeps ==
  ASSUME QInv, RInv, NEW f \in Files, RemoveItem(f)
  PROVE  RInv'
<1> DEFINE st == [status EXCEPT ![f] = "none"]
           sp == [step EXCEPT ![f] = "none"]
<1>1. /\ status[f] # "none" /\ list' = Without(list, f) /\ id' = [id EXCEPT ![f] = 0]
      /\ DeleteOnServer(f) /\ Unsubscribe({f}) /\ LoseSight(Unheard({f}), "unheard")
      /\ UNCHANGED <<rows, open, sending>>
  BY DEF RemoveItem, page
<1>2. st \in [Files -> Statuses] /\ sp \in [Files -> Steps]
  BY DEF QInv, SlotsAgree, Statuses, Steps
<1>3. Pumped(st, sp) /\ state' \in {state, "completed", "idle"}
  <2>1. CASE /\ \A g \in Files : st[g] = "none"
             /\ state' = "idle" /\ busy' = FALSE /\ Hold(st, active \ {f}, sp)
    BY <1>2, <2>1, HoldPumps DEF RInv
  <2>2. CASE state = "uploading" /\ SettleOrPump(Without(list, f), st, active \ {f}, sp)
    BY <1>2, <2>2, SettlePumps DEF RInv
  <2>3. CASE Hold(st, active \ {f}, sp) /\ UNCHANGED <<state, busy>>
    BY <1>2, <2>3, HoldPumps DEF RInv
  <2> QED BY <2>1, <2>2, <2>3 DEF RemoveItem
<1>4. /\ why' \in Seq(Whys) /\ Len(why') = Len(rows)
      /\ \A n \in 1..Len(rows) : why'[n] = IF n \in Unheard({f}) THEN "unheard" ELSE why[n]
  BY <1>1, LostSight DEF RInv, Whys
<1>5. RowsKept
  BY <1>1, <1>4 DEF RowsKept, RInv, RowTypes, Rows
<1>6. answer' = [g \in Files |-> IF g = f THEN 0 ELSE answer[g]]
  BY <1>1 DEF Unsubscribe
<1>7. deletes' = IF id[f] # 0 THEN deletes \cup {[chat |-> open, row |-> id[f]]} ELSE deletes
  BY <1>1 DEF DeleteOnServer
<1>8. RowTypes'
  <2>1. id' \in [Files -> 0..Len(rows)] /\ answer' \in [Files -> 0..Len(rows)]
    BY <1>1, <1>6 DEF RInv, RowTypes
  <2>2. cutOff' \subseteq Chats
    BY <1>1 DEF Unsubscribe, RInv, RowTypes, ItemTypes
  <2>3. deletes' \subseteq [chat : Chats, row : 1..Len(rows)]
    <3>1. ASSUME id[f] # 0 PROVE [chat |-> open, row |-> id[f]] \in [chat : Chats, row : 1..Len(rows)]
      BY <3>1 DEF RInv, RowTypes
    <3> QED BY <1>7, <3>1 DEF RInv, RowTypes
  <2> QED BY <1>1, <1>5, <2>1, <2>2, <2>3, TypesKept DEF RInv
<1>9. ItemTypes'
  <2>1. Present(st) = Present(status) \ {f} /\ f \in Present(status)
    BY <1>1 DEF Present, QInv, SlotsAgree
  <2>2. Once(list) /\ Items(list) = Present(status)
    BY DEF RInv, ItemTypes, Once
  <2>3. Once(list') /\ Items(list') = Present(st)
    BY <1>1, <2>1, <2>2, ItemsWithout
  <2>4. Items(list') = Present(status')
    BY <1>2, <1>3, <2>3, PumpedPresent
  <2> QED BY <1>3, <2>3, <2>4 DEF RInv, ItemTypes, Pumped, Once
<1>10. \A g \in Files \ {f} :
        \/ step'[g] = step[g] /\ target'[g] = target[g] /\ status'[g] = status[g]
        \/ step[g] = "none" /\ step'[g] = "register" /\ status'[g] = "uploading"
  BY <1>3 DEF Pumped, QInv, SlotsAgree
<1>11. step'[f] = "none" /\ status'[f] = "none" /\ answer'[f] = 0
  BY <1>3, <1>6 DEF Pumped, QInv, SlotsAgree
<1>12. \A g \in Files \ {f} : answer'[g] = answer[g] /\ id'[g] = id[g]
  BY <1>1, <1>6 DEF RInv, RowTypes
<1>13. IsHeard'
  <2>1. \A g \in Files \ {f} : answer'[g] # 0 <=> step'[g] = "registered"
    BY <1>10, <1>12 DEF RInv, IsHeard
  <2> QED BY <1>11, <2>1 DEF IsHeard
<1>14. KnowsItsRow'
  <2> SUFFICES ASSUME NEW g \in Files
               PROVE  /\ answer'[g] # 0 => rows'[answer'[g]].chat = target'[g]
                      /\ Uploaded(g)' => id'[g] # 0 /\ rows'[id'[g]].chat = target'[g]
    BY DEF KnowsItsRow
  <2>1. CASE g = f
    BY <1>11, <2>1 DEF Uploaded
  <2>2. CASE g # f /\ step'[g] = step[g] /\ target'[g] = target[g] /\ status'[g] = status[g]
    BY <1>1, <1>12, <2>2 DEF RInv, KnowsItsRow, Uploaded
  <2>3. CASE g # f /\ step[g] = "none" /\ step'[g] = "register" /\ status'[g] = "uploading"
    <3>1. ~Uploaded(g)' /\ answer'[g] = 0
      BY <1>12, <2>3 DEF Uploaded, RInv, IsHeard
    <3> QED BY <3>1
  <2> QED BY <1>10, <2>1, <2>2, <2>3
<1>15. ShowsItsChat'
  BY <1>1, <1>5, ShowsKept DEF RInv
<1>16. InSight'
  <2>1. ASSUME NEW n \in 1..Len(rows), why'[n] = "none", Seen(n) PROVE Seen(n)'
    <3>1. answer[f] # n
      BY <1>4, <2>1 DEF Unheard, RInv, IsHeard
    <3>2. CASE id[f] = n
      <4>1. [chat |-> open, row |-> n] \in deletes'
        BY <1>7, <2>1, <3>2
      <4> QED BY <4>1 DEF Seen
    <3>3. CASE id[f] # n
      <4>1. deletes \subseteq deletes'
        BY <1>7
      <4> QED BY <1>12, <2>1, <3>1, <3>3, <4>1 DEF Seen
    <3> QED BY <3>2, <3>3
  <2> QED BY <1>1, <1>4, <2>1, InSightKept DEF RInv
<1> QED BY <1>8, <1>9, <1>13, <1>14, <1>15, <1>16 DEF RInv

\* The widget is emptied, and what it knew is out of its sight.
LEMMA ResetKeeps ==
  ASSUME QInv, RInv, Reset, UNCHANGED <<rows, deletes, open>>, sending' \in {sending, NoSend}
  PROVE  RInv'
<1> DEFINE known == {id[f] : f \in {g \in Files : id[g] # 0}}
<1>1. /\ list' = <<>> /\ state' = "idle" /\ status' = [f \in Files |-> "none"]
      /\ id' = [f \in Files |-> 0] /\ step' = [f \in Files |-> "none"]
      /\ UNCHANGED <<target, polls>>
  BY DEF Reset
<1>2. \A f \in Files \ active : answer[f] = 0
  BY DEF RInv, IsHeard, QInv, SlotsAgree
<1>3. answer' = [f \in Files |-> 0]
  <2>1. answer' = [f \in Files |-> IF f \in active THEN 0 ELSE answer[f]]
    BY DEF Reset, Unsubscribe
  <2> QED BY <1>2, <2>1
<1>4. /\ why' \in Seq(Whys) /\ Len(why') = Len(rows)
      /\ \A n \in 1..Len(rows) :
           why'[n] = IF n \in Unheard(active) THEN "unheard"
                     ELSE IF n \in known /\ rows[n].state # "linked" THEN "emptied" ELSE why[n]
  <2>1. why \in Seq(Whys) /\ DOMAIN why = 1..Len(rows) /\ Len(rows) \in Nat
    BY DEF RInv, RowTypes
  <2>2. why' = [n \in 1..Len(rows) |-> IF n \in Unheard(active) THEN "unheard"
                     ELSE IF n \in known /\ rows[n].state # "linked" THEN "emptied" ELSE why[n]]
    BY <2>1 DEF Reset
  <2>3. \A n \in 1..Len(rows) : why[n] \in Whys
    BY <2>1
  <2>4. \A n \in 1..Len(rows) : why'[n] \in Whys
    BY <2>2, <2>3 DEF Whys
  <2> HIDE DEF known
  <2> QED BY <2>1, <2>2, <2>4, IsASeq
<1>5. RowsKept
  BY <1>4 DEF RowsKept, RInv, RowTypes, Rows
<1>6. cutOff' \subseteq Chats
  BY DEF Reset, Unsubscribe, RInv, RowTypes, ItemTypes, QInv, SlotsAgree
<1>7. RowTypes'
  <2>1. Len(rows) \in Nat
    BY DEF RInv, RowTypes
  <2>2. id' \in [Files -> 0..Len(rows)] /\ answer' \in [Files -> 0..Len(rows)]
    BY <1>1, <1>3, <2>1
  <2>3. deletes' \subseteq [chat : Chats, row : 1..Len(rows')] /\ open' \in Chats
    BY DEF RInv, RowTypes
  <2>4. sending' = NoSend \/ sending' \in Posts
    BY DEF RInv, RowTypes
  <2> QED BY <1>5, <1>6, <2>2, <2>3, <2>4 DEF RowTypes, RowsKept, Rows
<1>8. ItemTypes'
  <2>1. Items(list') = {} /\ Present(status') = {}
    BY <1>1 DEF Items, Present
  <2>2. list' \in Seq(Files) /\ Len(list') = 0
    BY <1>1
  <2>3. \A i, j \in 1..Len(list') : list'[i] = list'[j] => i = j
    BY <2>2
  <2>4. target' \in [Files -> Chats] /\ polls' \in [Files -> 0..StatusPollLimit]
    BY <1>1 DEF RInv, ItemTypes
  <2>5. state' \in {"idle", "uploading", "completed"}
    BY <1>1
  <2> QED BY <2>1, <2>2, <2>3, <2>4, <2>5 DEF ItemTypes
<1>9. IsHeard'
  BY <1>1, <1>3 DEF IsHeard
<1>10. KnowsItsRow'
  BY <1>1, <1>3 DEF KnowsItsRow, Uploaded
<1>11. ShowsItsChat'
  BY DEF RInv, ShowsItsChat
<1>12. InSight'
  <2>1. ASSUME NEW n \in 1..Len(rows), why'[n] = "none"
        PROVE  /\ why[n] = "none"
               /\ Seen(n) => Seen(n)' \/ rows'[n].state \in {"linked", "gone"}
    <3>1. n \notin Unheard(active) /\ (n \in known => rows[n].state = "linked") /\ why[n] = "none"
      BY <1>4, <2>1
    <3>2. \A f \in Files : answer[f] # n
      <4> SUFFICES ASSUME NEW f \in Files, answer[f] = n PROVE FALSE
        OBVIOUS
      <4>1. answer[f] # 0
        OBVIOUS
      <4>2. step[f] = "registered" /\ f \in active
        BY <4>1 DEF RInv, IsHeard, QInv, SlotsAgree
      <4> QED BY <3>1, <4>2 DEF Unheard
    <3>3. (\E f \in Files : id[f] = n) => rows'[n].state = "linked"
      BY <3>1
    <3> QED BY <3>1, <3>2, <3>3 DEF Seen
  <2> QED BY <1>4, <2>1, InSightKept DEF RInv
<1> QED BY <1>7, <1>8, <1>9, <1>10, <1>11, <1>12 DEF RInv
-----------------------------------------------------------------------------
(* The calls of an upload, the server and the page.                        *)

\* A step that leaves the items alone.
LEMMA ItemsKept ==
  ASSUME ItemTypes, UNCHANGED <<list, status, state, target>>,
         polls' \in [Files -> 0..StatusPollLimit]
  PROVE  ItemTypes'
BY DEF ItemTypes, Items, Present

\* A step that leaves the calls and what the widget knows alone.
LEMMA CallsKept ==
  ASSUME RowTypes, IsHeard, KnowsItsRow, RowsKept, UNCHANGED <<status, id, step, target, answer>>
  PROVE  IsHeard' /\ KnowsItsRow'
<1>1. IsHeard'
  BY DEF IsHeard
<1>2. \A f \in Files : id[f] \in 0..Len(rows) /\ answer[f] \in 0..Len(rows) /\ Len(rows) \in Nat
  BY DEF RowTypes
<1>3. KnowsItsRow'
  <2> SUFFICES ASSUME NEW g \in Files
               PROVE  /\ answer'[g] # 0 => rows'[answer'[g]].chat = target'[g]
                      /\ Uploaded(g)' => id'[g] # 0 /\ rows'[id'[g]].chat = target'[g]
    BY DEF KnowsItsRow
  <2>1. answer[g] # 0 => rows'[answer[g]].chat = rows[answer[g]].chat
    BY <1>2 DEF RowsKept
  <2>2. id[g] # 0 => rows'[id[g]].chat = rows[id[g]].chat
    BY <1>2 DEF RowsKept
  <2>3. Uploaded(g)' <=> Uploaded(g)
    BY DEF Uploaded
  <2> QED BY <2>1, <2>2, <2>3 DEF KnowsItsRow
<1> QED BY <1>1, <1>3

LEMMA RequestKeeps ==
  ASSUME QInv, RInv, NEW f \in Files, ServeRequest(f)
  PROVE  RInv'
<1>1. /\ step[f] = "register" /\ rows' = Register(target[f]) /\ why' = Append(why, "none")
      /\ step' = [step EXCEPT ![f] = "registered"]
      /\ answer' = [answer EXCEPT ![f] = Len(rows) + 1]
      /\ UNCHANGED <<list, status, id, active, state, busy, target, polls, cutOff, deletes, open, sending>>
  BY DEF ServeRequest, widget, page
<1>2. target[f] \in Chats /\ "none" \in Whys
  BY DEF RInv, ItemTypes, Whys
<1>3. /\ RowsKept /\ Len(rows') = Len(rows) + 1
      /\ \A m \in 1..Len(rows) : rows'[m] = rows[m] /\ why'[m] = why[m]
      /\ rows'[Len(rows) + 1].chat = target[f]
  BY <1>1, <1>2, RegisterKeeps DEF RInv
<1>4. Len(rows) \in Nat
  BY DEF RInv, RowTypes
<1>5. answer[f] = 0 /\ answer'[f] = Len(rows) + 1 /\ Len(rows) + 1 # 0
  BY <1>1, <1>4 DEF RInv, IsHeard, RowTypes
<1>6. \A g \in Files \ {f} : answer'[g] = answer[g] /\ step'[g] = step[g]
  BY <1>1 DEF RInv, RowTypes, QInv, SlotsAgree
<1>7. step'[f] = "registered"
  BY <1>1 DEF QInv, SlotsAgree
<1>8. RowTypes'
  <2>1. 0..Len(rows) \subseteq 0..Len(rows') /\ 1..Len(rows) \subseteq 1..Len(rows')
           /\ Len(rows) + 1 \in 0..Len(rows')
    BY <1>3, <1>4
  <2>2. answer' \in [Files -> 0..Len(rows')] /\ id' \in [Files -> 0..Len(rows')]
    BY <1>1, <2>1 DEF RInv, RowTypes
  <2>3. deletes' \subseteq [chat : Chats, row : 1..Len(rows')]
    BY <1>1, <2>1 DEF RInv, RowTypes
  <2> QED BY <1>1, <1>3, <2>2, <2>3 DEF RInv, RowTypes, RowsKept, Rows
<1>9. ItemTypes'
  BY <1>1, ItemsKept DEF RInv, ItemTypes
<1>10. IsHeard'
  BY <1>5, <1>6, <1>7 DEF RInv, IsHeard
<1>11. KnowsItsRow'
  <2> SUFFICES ASSUME NEW g \in Files
               PROVE  /\ answer'[g] # 0 => rows'[answer'[g]].chat = target'[g]
                      /\ Uploaded(g)' => id'[g] # 0 /\ rows'[id'[g]].chat = target'[g]
    BY DEF KnowsItsRow
  <2>1. id[g] \in 0..Len(rows) /\ answer[g] \in 0..Len(rows)
    BY DEF RInv, RowTypes
  <2>2. CASE g = f
    <3>1. ~Uploaded(f)'
      BY <1>1, <1>7 DEF Uploaded, QInv, SlotsAgree
    <3> QED BY <1>1, <1>3, <1>5, <2>2, <3>1
  <2>3. CASE g # f
    <3>1. Uploaded(g)' <=> Uploaded(g)
      BY <1>1, <1>6, <2>3 DEF Uploaded
    <3>2. answer[g] # 0 => rows'[answer[g]].chat = rows[answer[g]].chat
      BY <1>3, <1>4, <2>1
    <3>3. id[g] # 0 => rows'[id[g]].chat = rows[id[g]].chat
      BY <1>3, <1>4, <2>1
    <3> QED BY <1>1, <1>6, <2>3, <3>1, <3>2, <3>3 DEF RInv, KnowsItsRow
  <2> QED BY <2>2, <2>3
<1>12. ShowsItsChat'
  BY <1>1, <1>3, ShowsKept DEF RInv
<1>13. InSight'
  <2> SUFFICES ASSUME NEW n \in 1..(Len(rows) + 1), why'[n] = "none"
               PROVE  rows'[n].state \in {"linked", "gone"} \/ Seen(n)'
    BY <1>3 DEF InSight
  <2>1. CASE n = Len(rows) + 1
    BY <1>5, <2>1 DEF Seen
  <2>2. CASE n \in 1..Len(rows)
    <3>1. rows[n].state \in {"linked", "gone"} \/ Seen(n)
      BY <1>3, <2>2 DEF RInv, InSight
    <3>2. Seen(n) => Seen(n)'
      <4>1. \A g \in Files : answer[g] = n => answer'[g] = n
        BY <1>4, <1>5, <1>6, <2>2
      <4> QED BY <1>1, <4>1 DEF Seen
    <3> QED BY <1>3, <2>2, <3>1, <3>2
  <2> QED BY <1>4, <2>1, <2>2
<1> QED BY <1>8, <1>9, <1>10, <1>11, <1>12, <1>13 DEF RInv

LEMMA CutOffKeeps ==
  ASSUME QInv, RInv, NEW c \in Chats, ServeCutOff(c)
  PROVE  RInv'
<1>1. /\ rows' = Register(c) /\ why' = Append(why, "unheard") /\ cutOff' = cutOff \ {c}
      /\ UNCHANGED <<list, status, id, active, state, busy, step, target, answer, polls, deletes,
                     open, sending>>
  BY DEF ServeCutOff, widget, uploads, page
<1>2. "unheard" \in Whys
  BY DEF Whys
<1>3. /\ RowsKept /\ Len(rows') = Len(rows) + 1
      /\ \A m \in 1..Len(rows) : rows'[m] = rows[m] /\ why'[m] = why[m]
      /\ why'[Len(rows) + 1] = "unheard"
  BY <1>1, <1>2, RegisterKeeps DEF RInv
<1>4. Len(rows) \in Nat
  BY DEF RInv, RowTypes
<1>5. RowTypes'
  BY <1>1, <1>3, TypesKept DEF RInv, RowTypes
<1>6. ItemTypes'
  BY <1>1, ItemsKept DEF RInv, ItemTypes
<1>7. IsHeard' /\ KnowsItsRow'
  BY <1>1, <1>3, CallsKept DEF RInv
<1>8. ShowsItsChat'
  BY <1>1, <1>3, ShowsKept DEF RInv
<1>9. InSight'
  <2>1. \A n : Seen(n)' <=> Seen(n)
    BY <1>1 DEF Seen
  <2>2. \A n \in 1..Len(rows') : n \in 1..Len(rows) \/ n = Len(rows) + 1
    BY <1>3, <1>4
  <2> QED BY <1>3, <2>1, <2>2 DEF RInv, InSight
<1> QED BY <1>5, <1>6, <1>7, <1>8, <1>9 DEF RInv

LEMMA ReadKeeps ==
  ASSUME QInv, RInv, NEW f \in Files, ReadAnswer(f)
  PROVE  RInv'
<1>1. /\ step[f] = "registered" /\ id' = [id EXCEPT ![f] = answer[f]]
      /\ answer' = [answer EXCEPT ![f] = 0] /\ step' = [step EXCEPT ![f] = "post"]
      /\ LoseSight({id[f]} \ {0}, "retried")
      /\ UNCHANGED <<list, status, active, state, busy, target, polls, rows, cutOff, deletes,
                     open, sending>>
  BY DEF ReadAnswer, page
<1>2. /\ why' \in Seq(Whys) /\ Len(why') = Len(rows)
      /\ \A n \in 1..Len(rows) : why'[n] = IF n \in {id[f]} \ {0} THEN "retried" ELSE why[n]
  BY <1>1, LostSight DEF RInv, Whys
<1>3. RowsKept
  BY <1>1, <1>2 DEF RowsKept, RInv, RowTypes, Rows
<1>4. RowTypes'
  <2>1. id' \in [Files -> 0..Len(rows)] /\ answer' \in [Files -> 0..Len(rows)]
    BY <1>1 DEF RInv, RowTypes
  <2> QED BY <1>1, <1>3, <2>1, TypesKept DEF RInv, RowTypes
<1>5. ItemTypes'
  BY <1>1, ItemsKept DEF RInv, ItemTypes
<1>6. \A g \in Files \ {f} : answer'[g] = answer[g] /\ step'[g] = step[g] /\ id'[g] = id[g]
  BY <1>1 DEF RInv, RowTypes, QInv, SlotsAgree
<1>7. /\ answer'[f] = 0 /\ step'[f] = "post" /\ id'[f] = answer[f] /\ answer[f] # 0
      /\ status'[f] = "uploading"
  BY <1>1 DEF RInv, RowTypes, QInv, SlotsAgree, IsHeard
<1>8. IsHeard'
  BY <1>6, <1>7 DEF RInv, IsHeard
<1>9. KnowsItsRow'
  <2> SUFFICES ASSUME NEW g \in Files
               PROVE  /\ answer'[g] # 0 => rows'[answer'[g]].chat = target'[g]
                      /\ Uploaded(g)' => id'[g] # 0 /\ rows'[id'[g]].chat = target'[g]
    BY DEF KnowsItsRow
  <2>1. CASE g = f
    BY <1>1, <1>7, <2>1 DEF RInv, KnowsItsRow
  <2>2. CASE g # f
    BY <1>1, <1>6, <2>2 DEF RInv, KnowsItsRow, Uploaded
  <2> QED BY <2>1, <2>2
<1>10. ShowsItsChat'
  BY <1>1, <1>3, ShowsKept DEF RInv
<1>11. InSight'
  <2>1. ASSUME NEW n \in 1..Len(rows), why'[n] = "none", Seen(n) PROVE Seen(n)'
    <3>1. id[f] # n
      BY <1>2, <2>1
    <3>2. answer[f] = n => id'[f] = n
      BY <1>7
    <3> QED BY <1>1, <1>6, <2>1, <3>1, <3>2 DEF Seen
  <2> QED BY <1>1, <1>2, <2>1, InSightKept DEF RInv
<1> QED BY <1>4, <1>5, <1>8, <1>9, <1>10, <1>11 DEF RInv

\* A step that leaves what knows of the rows alone, and undelivers none.
LEMMA StatesKeep ==
  ASSUME RInv, RowsKept, Len(rows') = Len(rows), UNCHANGED <<id, answer, deletes, why>>,
         \A n \in 1..Len(rows) : rows[n].state \in {"linked", "gone"} =>
                                   rows'[n].state \in {"linked", "gone"}
  PROVE  InSight'
<1>1. \A n : Seen(n) => Seen(n)'
  BY DEF Seen
<1> QED BY <1>1, InSightKept DEF RInv

\* The calls of f go on, from a known row.
LEMMA MovesKeep ==
  ASSUME QInv, RInv, NEW f \in Files, Uploaded(f), step[f] # "registered",
         NEW t \in {"confirm", "poll"}, step' = [step EXCEPT ![f] = t],
         RowsKept, UNCHANGED <<status, id, target, answer>>
  PROVE  IsHeard' /\ KnowsItsRow'
<1>1. \A g \in Files \ {f} : step'[g] = step[g]
  BY DEF QInv, SlotsAgree
<1>2. step'[f] = t
  BY DEF QInv, SlotsAgree
<1>3. IsHeard'
  BY <1>1, <1>2 DEF RInv, IsHeard
<1>4. KnowsItsRow'
  <2> SUFFICES ASSUME NEW g \in Files
               PROVE  /\ answer'[g] # 0 => rows'[answer'[g]].chat = target'[g]
                      /\ Uploaded(g)' => id'[g] # 0 /\ rows'[id'[g]].chat = target'[g]
    BY DEF KnowsItsRow
  <2>1. id[g] \in 0..Len(rows) /\ answer[g] \in 0..Len(rows) /\ Len(rows) \in Nat
    BY DEF RInv, RowTypes
  <2>2. answer[g] # 0 => rows'[answer[g]].chat = rows[answer[g]].chat
    BY <2>1 DEF RowsKept
  <2>3. id[g] # 0 => rows'[id[g]].chat = rows[id[g]].chat
    BY <2>1 DEF RowsKept
  <2>4. Uploaded(g)' => Uploaded(g)
    BY <1>1 DEF Uploaded
  <2> QED BY <2>2, <2>3, <2>4 DEF RInv, KnowsItsRow
<1> QED BY <1>3, <1>4

LEMMA StoredKeeps ==
  ASSUME QInv, RInv, NEW f \in Files, Stored(f)
  PROVE  RInv'
<1>1. /\ step[f] = "post" /\ step' = [step EXCEPT ![f] = "confirm"]
      /\ rows[id[f]].state = "uploading" /\ SetRow(id[f], "processing")
      /\ UNCHANGED <<list, status, id, active, state, busy, target, answer, polls, cutOff, deletes,
                     why, open, sending>>
  BY DEF Stored, Move, widget, page
<1>2. Uploaded(f) /\ id[f] \in 1..Len(rows) /\ "processing" \in RowStates
  BY <1>1 DEF Uploaded, RInv, KnowsItsRow, RowTypes, RowStates
<1>3. /\ rows' \in Rows /\ Len(rows') = Len(rows)
      /\ \A m \in 1..Len(rows) : /\ rows'[m].chat = rows[m].chat
                                 /\ rows'[m].state = IF m = id[f] THEN "processing" ELSE rows[m].state
  BY <1>1, <1>2, SetRowKeeps DEF RInv
<1>4. RowsKept
  BY <1>1, <1>3 DEF RowsKept, RInv, RowTypes
<1>5. RowTypes'
  BY <1>1, <1>4, TypesKept DEF RInv, RowTypes
<1>6. ItemTypes'
  BY <1>1, ItemsKept DEF RInv, ItemTypes
<1>7. IsHeard' /\ KnowsItsRow'
  BY <1>1, <1>2, <1>4, MovesKeep
<1>8. ShowsItsChat'
  BY <1>1, <1>4, ShowsKept DEF RInv
<1>9. InSight'
  BY <1>1, <1>3, <1>4, StatesKeep
<1> QED BY <1>5, <1>6, <1>7, <1>8, <1>9 DEF RInv

LEMMA PolledKeeps ==
  ASSUME QInv, RInv, NEW f \in Files, Confirmed(f) \/ StillProcessing(f)
  PROVE  RInv'
<1>1. UNCHANGED <<list, status, id, active, state, busy, target, answer, rows, cutOff, deletes,
                  why, open, sending>>
  BY DEF Confirmed, StillProcessing, widget, server, page
<1>2. RowsKept
  BY <1>1 DEF RowsKept, RInv, RowTypes, Rows
<1>3. RowTypes'
  BY <1>1, <1>2, TypesKept DEF RInv, RowTypes
<1>4. ShowsItsChat' /\ InSight'
  BY <1>1, <1>2, ShowsKept, StatesKeep DEF RInv
<1>5. CASE Confirmed(f)
  <2>1. step[f] = "confirm" /\ step' = [step EXCEPT ![f] = "poll"] /\ polls' = polls
    BY <1>5 DEF Confirmed, Move
  <2>2. ItemTypes'
    BY <1>1, <2>1, ItemsKept DEF RInv, ItemTypes
  <2>3. Uploaded(f)
    BY <2>1 DEF Uploaded
  <2>4. IsHeard' /\ KnowsItsRow'
    BY <1>1, <1>2, <2>1, <2>3, MovesKeep
  <2> QED BY <1>3, <1>4, <2>2, <2>4 DEF RInv
<1>6. CASE StillProcessing(f)
  <2>1. polls[f] < StatusPollLimit /\ polls' = [polls EXCEPT ![f] = @ + 1] /\ step' = step
    BY <1>6 DEF StillProcessing
  <2>2. polls' \in [Files -> 0..StatusPollLimit]
    BY <2>1, QueueBoundAssumption DEF RInv, ItemTypes
  <2>3. ItemTypes'
    BY <1>1, <2>2, ItemsKept DEF RInv
  <2>4. IsHeard' /\ KnowsItsRow'
    BY <1>1, <1>2, <2>1, CallsKept DEF RInv
  <2> QED BY <1>3, <1>4, <2>3, <2>4 DEF RInv
<1> QED BY <1>5, <1>6

\* Every row may be delivered or deleted, and is never taken back.
LEMMA ServedKeeps ==
  ASSUME QInv, RInv, UNCHANGED <<widget, uploads, cutOff, deletes, why, open>>,
         rows' \in Rows, Len(rows') = Len(rows),
         \A n \in 1..Len(rows) :
           /\ rows'[n].chat = rows[n].chat
           /\ rows[n].state \in {"linked", "gone"} => rows'[n].state \in {"linked", "gone"},
         \/ UNCHANGED sending
         \/ /\ sending' = NoSend \/ sending' \in Posts
            /\ sending' # NoSend =>
                 /\ sending'.at = "asked" => ~sending'.taken
                 /\ \A n \in sending'.shown : n \in 1..Len(rows) /\ rows[n].chat = sending'.chat
  PROVE  RInv'
<1>1. UNCHANGED <<list, status, id, active, state, busy, step, target, answer, polls>>
  BY DEF widget, uploads
<1>2. RowsKept
  BY DEF RowsKept, RInv, RowTypes
<1>3. RowTypes'
  BY <1>1, <1>2 DEF RowTypes, RInv, RowsKept, Rows
<1>4. ItemTypes'
  BY <1>1, ItemsKept DEF RInv, ItemTypes
<1>5. IsHeard' /\ KnowsItsRow'
  BY <1>1, <1>2, CallsKept DEF RInv
<1>6. ShowsItsChat'
  <2>1. CASE UNCHANGED sending
    BY <1>2, <2>1, ShowsKept DEF RInv
  <2>2. CASE sending' # NoSend =>
                 /\ sending'.at = "asked" => ~sending'.taken
                 /\ \A n \in sending'.shown : n \in 1..Len(rows) /\ rows[n].chat = sending'.chat
    BY <2>2 DEF ShowsItsChat
  <2> QED BY <2>1, <2>2
<1>7. InSight'
  BY <1>1, <1>2, StatesKeep
<1> QED BY <1>3, <1>4, <1>5, <1>6, <1>7 DEF RInv

LEMMA ProcessKeeps ==
  ASSUME QInv, RInv, NEW n \in 1..MaxRows, Process(n)
  PROVE  RInv'
<1>1. n \in 1..Len(rows)
  BY DEF Process, RInv, RowTypes
<1>2. PICK s \in {"completed", "ready", "error"} : SetRow(n, s)
  BY DEF Process
<1>3. rows[n].state \in {"processing", "completed"} /\ s \in RowStates
  BY DEF Process, RowStates
<1>4. /\ rows' \in Rows /\ Len(rows') = Len(rows)
      /\ \A m \in 1..Len(rows) : /\ rows'[m].chat = rows[m].chat
                                 /\ rows'[m].state = IF m = n THEN s ELSE rows[m].state
  BY <1>1, <1>2, <1>3, SetRowKeeps DEF RInv
<1>5. UNCHANGED <<widget, uploads, cutOff, deletes, why, open, sending>>
  BY DEF Process, page
<1> QED BY <1>3, <1>4, <1>5, ServedKeeps

LEMMA DeleteKeeps ==
  ASSUME QInv, RInv, NEW d \in deletes, ServeDelete(d) \/ DeleteFails(d)
  PROVE  RInv'
<1>1. /\ deletes' = deletes \ {d}
      /\ UNCHANGED <<list, status, id, active, state, busy, step, target, answer, polls, cutOff,
                     open, sending>>
  BY DEF ServeDelete, DeleteFails, widget, uploads, page
<1>2. d.row \in 1..Len(rows)
  BY DEF RInv, RowTypes
<1>3. /\ rows' \in Rows /\ Len(rows') = Len(rows) /\ why' \in Seq(Whys) /\ Len(why') = Len(rows)
      /\ \A m \in 1..Len(rows) : rows'[m].chat = rows[m].chat
      /\ \A m \in 1..Len(rows) \ {d.row} : rows'[m].state = rows[m].state /\ why'[m] = why[m]
      /\ \/ rows'[d.row].state = "gone"
         \/ why'[d.row] \in {"refused", "failed"} /\ rows'[d.row].state = rows[d.row].state
  <2>1. CASE ServeDelete(d) /\ rows[d.row].chat = d.chat
    <3>1. SetRow(d.row, "gone") /\ UNCHANGED why /\ "gone" \in RowStates
      BY <2>1 DEF ServeDelete, RowStates
    <3>2. /\ rows' \in Rows /\ Len(rows') = Len(rows)
          /\ \A m \in 1..Len(rows) : /\ rows'[m].chat = rows[m].chat
                                     /\ rows'[m].state = IF m = d.row THEN "gone" ELSE rows[m].state
      BY <1>2, <3>1, SetRowKeeps DEF RInv
    <3>3. why' \in Seq(Whys) /\ Len(why') = Len(rows)
      BY <3>1 DEF RInv, RowTypes
    <3> QED BY <1>2, <3>1, <3>2, <3>3
  <2>2. CASE ServeDelete(d) /\ rows[d.row].chat # d.chat
    <3>1. LoseSight({d.row}, "refused") /\ UNCHANGED rows /\ "refused" \in Whys \ {"none"}
      BY <2>2 DEF ServeDelete, Whys
    <3> QED BY <1>2, <3>1, LostSight DEF RInv, RowTypes, Rows
  <2>3. CASE DeleteFails(d)
    <3>1. LoseSight({d.row}, "failed") /\ UNCHANGED rows /\ "failed" \in Whys \ {"none"}
      BY <2>3 DEF DeleteFails, Whys
    <3> QED BY <1>2, <3>1, LostSight DEF RInv, RowTypes, Rows
  <2> QED BY <2>1, <2>2, <2>3
<1>4. RowsKept
  BY <1>3 DEF RowsKept, RInv, RowTypes
<1>5. RowTypes'
  <2>1. deletes' \subseteq [chat : Chats, row : 1..Len(rows)]
    BY <1>1 DEF RInv, RowTypes
  <2> QED BY <1>1, <1>4, <2>1, TypesKept DEF RInv, RowTypes
<1>6. ItemTypes'
  BY <1>1, ItemsKept DEF RInv, ItemTypes
<1>7. IsHeard' /\ KnowsItsRow'
  BY <1>1, <1>4, CallsKept DEF RInv
<1>8. ShowsItsChat'
  BY <1>1, <1>4, ShowsKept DEF RInv
<1>9. InSight'
  <2>1. ASSUME NEW n \in 1..Len(rows), why'[n] = "none"
        PROVE  rows'[n].state \in {"linked", "gone"} \/ Seen(n)'
    <3>1. CASE n = d.row
      BY <1>3, <2>1, <3>1
    <3>2. CASE n # d.row
      <4>1. why[n] = "none" /\ rows'[n].state = rows[n].state
        BY <1>3, <2>1, <3>2
      <4>2. Seen(n) => Seen(n)'
        BY <1>1, <3>2 DEF Seen
      <4> QED BY <4>1, <4>2 DEF RInv, InSight
    <3> QED BY <3>1, <3>2
  <2> QED BY <1>3, <2>1 DEF InSight
<1> QED BY <1>5, <1>6, <1>7, <1>8, <1>9 DEF RInv

LEMMA OpenKeeps ==
  ASSUME QInv, RInv, NEW c \in Chats, OpenChat(c)
  PROVE  RInv'
<1>1. /\ open' = c
      /\ UNCHANGED <<list, status, id, active, state, busy, step, target, answer, polls, rows, cutOff,
                     deletes, why, sending>>
  BY DEF OpenChat, widget, uploads, server
<1>2. RowTypes'
  BY <1>1 DEF RInv, RowTypes
<1>3. ItemTypes'
  BY <1>1, ItemsKept DEF RInv, ItemTypes
<1>4. RowsKept
  BY <1>1 DEF RowsKept, RInv, RowTypes, Rows
<1>5. IsHeard' /\ KnowsItsRow' /\ ShowsItsChat' /\ InSight'
  BY <1>1, <1>4, CallsKept, ShowsKept, StatesKeep DEF RInv
<1> QED BY <1>2, <1>3, <1>5 DEF RInv

LEMMA SendKeeps ==
  ASSUME QInv, RInv, SendMessage
  PROVE  RInv'
<1> DEFINE ids == {id[f] : f \in {g \in Files : status[g] = "done" /\ target[g] = open}}
<1>1. /\ UNCHANGED <<widget, uploads, cutOff, deletes, why, open, rows>>
      /\ sending' = [chat |-> open, at |-> "asked", taken |-> FALSE, shown |-> ids]
  BY DEF SendMessage, server
<1>2. \A n \in ids : n \in 1..Len(rows) /\ rows[n].chat = open
  <2> SUFFICES ASSUME NEW f \in Files, status[f] = "done", target[f] = open
               PROVE  id[f] \in 1..Len(rows) /\ rows[id[f]].chat = open
    OBVIOUS
  <2>1. Uploaded(f) /\ id[f] \in 0..Len(rows) /\ Len(rows) \in Nat
    BY DEF Uploaded, RInv, RowTypes
  <2>2. id[f] # 0 /\ rows[id[f]].chat = target[f]
    BY <2>1 DEF RInv, KnowsItsRow
  <2> QED BY <2>1, <2>2
<1>3. ids \in SUBSET Nat
  BY <1>2
<1> HIDE DEF ids
<1>4. sending' \in Posts
  BY <1>1, <1>3 DEF Posts, RInv, RowTypes
<1>5. sending'.chat = open /\ sending'.shown = ids /\ ~sending'.taken
  BY <1>1
<1>6. rows' \in Rows /\ Len(rows') = Len(rows)
  BY <1>1 DEF RInv, RowTypes, Rows
<1> QED BY <1>1, <1>2, <1>4, <1>5, <1>6, ServedKeeps

\* Every file that the message shows is on its row afterwards.
LEMMA ServeSendKeeps ==
  ASSUME QInv, RInv, ServeSend
  PROVE  RInv' /\ (sending'.taken => \A n \in sending.shown : rows'[n].state \in {"linked", "gone"})
<1> DEFINE ok == \A n \in Of(sending.chat) : rows[n].state \in {"ready", "linked"}
<1>1. /\ sending # NoSend /\ sending.at = "asked"
      /\ sending' = [sending EXCEPT !.at = "answered", !.taken = ok]
      /\ UNCHANGED <<widget, uploads, cutOff, deletes, why, open>>
      /\ rows' = IF ok THEN [n \in DOMAIN rows |->
                              IF n \in Of(sending.chat) THEN [rows[n] EXCEPT !.state = "linked"]
                                                        ELSE rows[n]]
                       ELSE rows
  BY DEF ServeSend
<1>2. sending \in Posts
  BY <1>1 DEF RInv, RowTypes
<1>3. ok \in BOOLEAN
  OBVIOUS
<1>4. rows \in Rows /\ DOMAIN rows = 1..Len(rows) /\ Len(rows) \in Nat
  BY DEF RInv, RowTypes, Rows
<1>5. \A n \in 1..Len(rows) : rows[n] \in [chat : Chats, state : RowStates]
  BY <1>4, ElementOfSeq DEF Rows
<1>6. ASSUME NEW r \in [chat : Chats, state : RowStates]
      PROVE  /\ [r EXCEPT !.state = "linked"] \in [chat : Chats, state : RowStates]
             /\ [r EXCEPT !.state = "linked"].chat = r.chat
             /\ [r EXCEPT !.state = "linked"].state = "linked"
  BY DEF RowStates
<1> HIDE DEF ok
<1>7. /\ rows' \in Rows /\ Len(rows') = Len(rows)
      /\ \A n \in 1..Len(rows) :
           /\ rows'[n].chat = rows[n].chat
           /\ rows'[n].state = IF ok /\ n \in Of(sending.chat) THEN "linked" ELSE rows[n].state
  <2>1. CASE ok
    <3>1. rows' = [n \in 1..Len(rows) |->
                     IF n \in Of(sending.chat) THEN [rows[n] EXCEPT !.state = "linked"] ELSE rows[n]]
      BY <1>1, <1>4, <2>1
    <3>2. \A n \in 1..Len(rows) : rows'[n] \in [chat : Chats, state : RowStates]
      BY <1>5, <1>6, <3>1
    <3>3. rows' \in Rows /\ Len(rows') = Len(rows)
      BY <1>4, <3>1, <3>2, IsASeq DEF Rows
    <3> QED BY <1>5, <1>6, <2>1, <3>1, <3>3
  <2>2. CASE ~ok
    BY <1>1, <1>4, <2>2
  <2> QED BY <2>1, <2>2
<1>8. /\ sending' \in Posts /\ sending'.at = "answered" /\ sending'.taken = ok
      /\ sending'.chat = sending.chat /\ sending'.shown = sending.shown
  BY <1>1, <1>2, <1>3 DEF Posts
<1>9. \A n \in sending.shown : n \in 1..Len(rows) /\ rows[n].chat = sending.chat
  BY <1>1 DEF RInv, ShowsItsChat
<1>10. RInv'
  BY <1>1, <1>7, <1>8, <1>9, ServedKeeps
<1>11. ASSUME sending'.taken, NEW n \in sending.shown PROVE rows'[n].state \in {"linked", "gone"}
  <2>1. rows[n].state # "gone" => n \in Of(sending.chat)
    BY <1>4, <1>9 DEF Of
  <2> QED BY <1>7, <1>8, <1>9, <1>11, <2>1
<1> QED BY <1>10, <1>11

-----------------------------------------------------------------------------
\* Whether an accepted message takes its files along, of one step.
Travels ==
  (sending # NoSend /\ sending' # NoSend /\ sending.at = "asked" /\ sending'.taken) =>
    \A n \in sending.shown : rows'[n].state \in {"linked", "gone"}

LEMMA RowsStep ==
  ASSUME QInv, RInv, [Next]_vars
  PROVE  RInv' /\ Travels
<1>1. ASSUME UNCHANGED sending PROVE Travels
  BY <1>1 DEF Travels, RInv, ShowsItsChat
<1>2. ASSUME NEW f \in Files, Enqueue(f) \/ RemoveItem(f) \/ RetryItem(f) \/ ServeRequest(f)
      PROVE  RInv' /\ Travels
  <2>1. UNCHANGED sending
    BY <1>2 DEF Enqueue, RemoveItem, RetryItem, ServeRequest, page
  <2> QED BY <1>1, <1>2, <2>1, EnqueueKeeps, RemoveKeeps, RetryKeeps, RequestKeeps
<1>3. ASSUME NEW f \in Files, ReadAnswer(f) \/ Stored(f) \/ Confirmed(f) \/ StillProcessing(f)
      PROVE  RInv' /\ Travels
  <2>1. UNCHANGED sending
    BY <1>3 DEF ReadAnswer, Stored, Confirmed, StillProcessing, page
  <2> QED BY <1>1, <1>3, <2>1, ReadKeeps, StoredKeeps, PolledKeeps
<1>4. ASSUME NEW f \in Files, RequestFails(f) \/ Completed(f) \/ GiveUp(f) \/ UploadFails(f)
      PROVE  RInv' /\ Travels
  <2>1. UNCHANGED sending
    BY <1>4 DEF RequestFails, Completed, GiveUp, UploadFails, page
  <2> QED BY <1>1, <1>4, <2>1, FailedKeeps, CompletedKeeps
<1>5. ASSUME NEW n \in 1..MaxRows, Process(n) PROVE RInv' /\ Travels
  <2>1. UNCHANGED sending
    BY <1>5 DEF Process, page
  <2> QED BY <1>1, <1>5, <2>1, ProcessKeeps
<1>6. ASSUME NEW d \in deletes, ServeDelete(d) \/ DeleteFails(d) PROVE RInv' /\ Travels
  <2>1. UNCHANGED sending
    BY <1>6 DEF ServeDelete, DeleteFails, page
  <2> QED BY <1>1, <1>6, <2>1, DeleteKeeps
<1>7. ASSUME NEW c \in Chats, OpenChat(c) \/ ServeCutOff(c) PROVE RInv' /\ Travels
  <2>1. UNCHANGED sending
    BY <1>7 DEF OpenChat, ServeCutOff, page
  <2> QED BY <1>1, <1>7, <2>1, OpenKeeps, CutOffKeeps
<1>8. CASE SendMessage
  <2>1. sending = NoSend
    BY <1>8 DEF SendMessage
  <2> QED BY <1>8, <2>1, SendKeeps DEF Travels
<1>9. CASE ServeSend
  BY <1>9, ServeSendKeeps DEF Travels
<1>10. CASE SendFails
  <2>1. UNCHANGED <<widget, uploads, rows, cutOff, deletes, why, open>> /\ sending' = NoSend
    BY <1>10 DEF SendFails, server
  <2>2. rows' \in Rows /\ Len(rows') = Len(rows)
    BY <2>1 DEF RInv, RowTypes, Rows
  <2>3. RInv'
    BY <2>1, <2>2, ServedKeeps
  <2> QED BY <2>1, <2>3 DEF Travels
<1>11. CASE SendAnswered
  <2>1. Reset /\ UNCHANGED <<rows, deletes, open>> /\ sending' = NoSend
    BY <1>11 DEF SendAnswered
  <2> QED BY <2>1, ResetKeeps DEF Travels
<1>12. CASE LeavePage
  <2>1. Reset /\ UNCHANGED <<rows, deletes, open, sending>>
    BY <1>12 DEF LeavePage, page
  <2> QED BY <1>1, <2>1, ResetKeeps
<1>13. CASE UNCHANGED vars
  <2>1. UNCHANGED <<widget, uploads, rows, cutOff, deletes, why, open, sending>>
    BY <1>13 DEF vars, server, page
  <2>2. rows' \in Rows /\ Len(rows') = Len(rows)
    BY <2>1 DEF RInv, RowTypes, Rows
  <2>3. RInv'
    BY <2>1, <2>2, ServedKeeps
  <2> QED BY <1>1, <2>1, <2>3
<1> QED BY <1>2, <1>3, <1>4, <1>5, <1>6, <1>7, <1>8, <1>9, <1>10, <1>11, <1>12, <1>13 DEF Next, Ends

LEMMA RowsInit == Init => RInv
<1> SUFFICES ASSUME Init PROVE RInv
  OBVIOUS
<1>1. /\ open = CHOOSE c \in Chats : TRUE
      /\ list = <<>> /\ state = "idle" /\ rows = <<>> /\ why = <<>> /\ cutOff = {} /\ deletes = {}
      /\ status = [f \in Files |-> "none"] /\ step = [f \in Files |-> "none"]
      /\ id = [f \in Files |-> 0] /\ answer = [f \in Files |-> 0]
      /\ target = [f \in Files |-> open] /\ polls = [f \in Files |-> 0] /\ sending = NoSend
  BY DEF Init
<1>2. open \in Chats
  BY <1>1, ChatsAssumption
<1>3. Len(rows) = 0 /\ Len(why) = 0 /\ Len(list) = 0
  BY <1>1
<1>4. rows \in Seq([chat : Chats, state : RowStates]) /\ why \in Seq(Whys) /\ list \in Seq(Files)
  BY <1>1
<1>5. RowTypes
  BY <1>1, <1>2, <1>3, <1>4 DEF RowTypes
<1>6. ItemTypes
  <2>1. Items(list) = {} /\ Present(status) = {}
    BY <1>1 DEF Items, Present
  <2> QED BY <1>1, <1>2, <1>3, <1>4, <2>1, QueueBoundAssumption DEF ItemTypes
<1>7. IsHeard /\ KnowsItsRow /\ ShowsItsChat /\ InSight
  BY <1>1, <1>3 DEF IsHeard, KnowsItsRow, Uploaded, ShowsItsChat, InSight
<1> QED BY <1>5, <1>6, <1>7 DEF RInv

\* The second inductive invariant, on top of QInv: the list is its items, an
\* answer is held while its call is at that point, an upload knows a row of its
\* own chat, a message shows rows of its chat, and no row gets lost unexplained.
THEOREM RowsInvariant == Spec => [](QInv /\ RInv)
<1>1. QInv /\ RInv /\ [Next]_vars => (QInv /\ RInv)'
  BY QueueStep, RowsStep
<1>2. Init => QInv /\ RInv
  BY QueueInit, RowsInit
<1> QED BY <1>1, <1>2, PTL DEF Spec

\* Items, slots and calls agree, and every variable has its type (TypeOK).
THEOREM WidgetTypes == Spec => []TypeOK
<1>1. QInv /\ RInv => TypeOK
  BY DEF QInv, SlotsAgree, Statuses, RInv, RowTypes, ItemTypes, Present, StateFollows, TypeOK
<1> QED BY <1>1, RowsInvariant, PTL

\* A file that stays on a session without the widget knowing of it got there in
\* one of the five ways of StrandedFiles, a DELETE that fails after its item is
\* gone (drag-n-drop.component.ts:230-232) among them; removeItem leaves none behind else.
THEOREM NoFileIsStranded == Spec => []StrandedFiles
<1>1. QInv /\ RInv => StrandedFiles
  BY InSightIsStranded DEF RInv
<1> QED BY <1>1, RowsInvariant, PTL

\* An accepted message takes along every file it showed as uploaded
\* (DoneFilesTravel): send_message finds them all in the chat it is about.
THEOREM ShownFilesTravel == Spec => DoneFilesTravel
<1>1. QInv /\ RInv /\ [Next]_vars => Travels
  BY RowsStep
<1>2. Travels => ((sending # NoSend /\ sending' # NoSend /\ sending.at = "asked" /\ sending'.taken) =>
                    \A n \in sending.shown : rows'[n].state \in {"linked", "gone"})
  BY DEF Travels
<1> QED BY <1>1, <1>2, RowsInvariant, PTL DEF Spec, DoneFilesTravel
=============================================================================
