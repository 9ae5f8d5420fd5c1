------------------------------ MODULE UploadQueue ------------------------------
(***************************************************************************)
(* The upload widget of a chat page: DragNDropComponent with its queue and  *)
(* its slots, the observable of AttachmentUploadService behind every slot,  *)
(* and as much of the page and of the server as the queue meets: the chat    *)
(* that is open, the send that empties the widget, the attachment rows.     *)
(*                                                                         *)
(* The page always has a session (CalculationChatComponent.id is required), *)
(* so the branches without one are not modelled.  A batch of dropped files  *)
(* is its files one after the other: nothing can come between them.         *)
(***************************************************************************)
EXTENDS Integers, Sequences, FiniteSets, SequencesExt

CONSTANTS
  Files,           \* what the user may add: one entry per name and size
  Chats,           \* the chats of the user
  Slots,           \* MAX_CONCURRENT_UPLOADS
  StatusPollLimit, \* STATUS_POLL_LIMIT
  MaxRows,         \* bound: attachment rows
  MaxSends,        \* bound: messages the user sends
  MaxOpens,        \* bound: how often the user opens another chat
  NoSend           \* no POST of a message is in flight

ASSUME SlotsAssumption == Slots \in Nat \ {0} /\ IsFiniteSet(Files)
ASSUME ChatsAssumption == Chats # {}     \* the page always shows one
ASSUME QueueBoundAssumption ==
  StatusPollLimit \in Nat /\ MaxRows \in Nat /\ MaxSends \in Nat /\ MaxOpens \in Nat

VARIABLES
  open,      \* the input sessionId: the chat that the page shows
  list,      \* items(): the files in their order
  status,    \* item.status, "none" for a file that is no item
  id,        \* item.attachmentId, 0 while it is not known
  active,    \* the keys of activeUploads
  state,     \* state(): "idle", "uploading", "completed"
  busy,      \* the last uploadingChange: the page's isUploading()
  step,      \* what the observable of an upload waits for
  target,    \* the sessionId that an upload was started with
  answer,    \* the id in an answer of requestUpload that has not been read
  polls,     \* pollCount of an upload
  rows,      \* attachments on the server, by id
  cutOff,    \* chats of requestUpload calls whose caller has unsubscribed
  deletes,   \* DELETE requests in flight
  why,       \* ghost: how the widget lost sight of a row
  sending,   \* the POST of a message and what it shows
  sends,     \* messages sent so far
  opens      \* chats opened so far

widget == <<list, status, id, active, state, busy>>
uploads == <<step, target, answer, polls>>
server == <<rows, cutOff, deletes, why>>
page == <<open, sending, sends, opens>>
vars == <<widget, uploads, server, page>>

Over == {"done", "error"}
Waiting(st) == {f \in Files : st[f] = "queued"}
Items(l) == {l[i] : i \in DOMAIN l}
Before(l, f, g) == \E i, j \in DOMAIN l : l[i] = f /\ l[j] = g /\ i < j

Init ==
  /\ open = CHOOSE c \in Chats : TRUE      \* any chat: they are alike
  /\ list = <<>> /\ active = {} /\ state = "idle" /\ busy = FALSE
  /\ status = [f \in Files |-> "none"]
  /\ id = [f \in Files |-> 0]
  /\ step = [f \in Files |-> "none"]
  /\ target = [f \in Files |-> open]
  /\ answer = [f \in Files |-> 0]
  /\ polls = [f \in Files |-> 0]
  /\ rows = <<>> /\ cutOff = {} /\ deletes = {} /\ why = <<>>
  /\ sending = NoSend /\ sends = 0 /\ opens = 0

-----------------------------------------------------------------------------
(* The widget.                                                             *)

\* pumpQueue and startItem: the first waiting items of l take the free slots.
Pump(l, st, act, sp) ==
  \E go \in SUBSET Waiting(st) :
    /\ Cardinality(act \cup go) <= Slots
    /\ Cardinality(act \cup go) = Slots \/ go = Waiting(st)
    /\ \A f \in go, g \in Waiting(st) \ go : Before(l, f, g)
    /\ status' = [f \in Files |-> IF f \in go THEN "uploading" ELSE st[f]]
    /\ active' = act \cup go
    /\ step' = [f \in Files |-> IF f \in go THEN "register" ELSE sp[f]]
    /\ target' = [f \in Files |-> IF f \in go THEN open ELSE target[f]]
    /\ polls' = [f \in Files |-> IF f \in go THEN 0 ELSE polls[f]]

Hold(st, act, sp) ==
  status' = st /\ active' = act /\ step' = sp /\ UNCHANGED <<target, polls>>

\* Mutant: only files that are done count as finished.
MutantSettleOnlyDone(l, st, act, sp) ==
  IF \A f \in Files : st[f] \in {"none", "done"}
  THEN state' = "completed" /\ busy' = FALSE /\ Hold(st, act, sp)
  ELSE UNCHANGED <<state, busy>> /\ Pump(l, st, act, sp)

\* settleIfFinished, and pumpQueue if it has not.
SettleOrPump(l, st, act, sp) ==
  IF \A f \in Files : st[f] \in {"none"} \cup Over
  THEN state' = "completed" /\ busy' = FALSE /\ Hold(st, act, sp)
  ELSE UNCHANGED <<state, busy>> /\ Pump(l, st, act, sp)

\* Bound: no more files once there may be MaxRows attachments.
MayRegister == Len(rows) + Cardinality(cutOff) < MaxRows

\* enqueueFiles; a file of the name and size of an item is a duplicate.
Enqueue(f) ==
  /\ status[f] = "none" /\ MayRegister
  /\ list' = Append(list, f)
  /\ state' = "uploading" /\ busy' = TRUE
  /\ Pump(list', [status EXCEPT ![f] = "queued"], active, step)
  /\ UNCHANGED <<id, answer, server, page>>

\* Mutant: a finished upload keeps its slot.
MutantFinishItemKeepsSlot(f) ==
  /\ SettleOrPump(list, [status EXCEPT ![f] = "done"], active, [step EXCEPT ![f] = "none"])
  /\ UNCHANGED <<list, id>>

\* finishItem, when the observable of f completes.
FinishItem(f) ==
  /\ SettleOrPump(list, [status EXCEPT ![f] = "done"], active \ {f}, [step EXCEPT ![f] = "none"])
  /\ UNCHANGED <<list, id>>

\* Mutant: a failure does not give its slot to the next file.
MutantFailItemNoPump(f) ==
  /\ Hold([status EXCEPT ![f] = "error"], active \ {f}, [step EXCEPT ![f] = "none"])
  /\ UNCHANGED <<list, id, state, busy>>

\* failItem, when it fails.
FailItem(f) ==
  LET st == [status EXCEPT ![f] = "error"]
      act == active \ {f}
      sp == [step EXCEPT ![f] = "none"]
  IN /\ IF state = "uploading" THEN SettleOrPump(list, st, act, sp)
                               ELSE Hold(st, act, sp) /\ UNCHANGED <<state, busy>>
     /\ UNCHANGED <<list, id>>

\* The teardown of the observables of fs: a requestUpload in flight goes on
\* without its caller (bound: one to a chat at a time), an id that was on its
\* way is never read.
Unsubscribe(fs) ==
  /\ cutOff' = cutOff \cup {target[f] : f \in {g \in fs : step[g] = "register"}}
  /\ answer' = [f \in Files |-> IF f \in fs THEN 0 ELSE answer[f]]

Unheard(fs) == {answer[f] : f \in {g \in fs : step[g] = "registered"}}
LoseSight(ns, reason) == why' = [n \in DOMAIN why |-> IF n \in ns THEN reason ELSE why[n]]

\* Mutant: only a file that has been uploaded is deleted.
MutantDeleteDoneOnServer(f) ==
  deletes' = IF status[f] = "done" THEN deletes \cup {[chat |-> open, row |-> id[f]]} ELSE deletes

\* deleteOnServer: nothing is known of a file without an id.
DeleteOnServer(f) ==
  deletes' = IF id[f] # 0 THEN deletes \cup {[chat |-> open, row |-> id[f]]} ELSE deletes

\* The list without f: an item has its id to itself.
Without(l, f) == RemoveAt(l, CHOOSE i \in DOMAIN l : l[i] = f)

\* removeItem with deleteOnServer, resetToIdle or settleIfFinished.
RemoveItem(f) ==
  LET st == [status EXCEPT ![f] = "none"]
      act == active \ {f}
      sp == [step EXCEPT ![f] = "none"]
      l == Without(list, f)
  IN /\ status[f] # "none"
     /\ list' = l
     /\ id' = [id EXCEPT ![f] = 0]
     /\ DeleteOnServer(f)
     /\ Unsubscribe({f}) /\ LoseSight(Unheard({f}), "unheard")
     /\ \/ /\ \A g \in Files : st[g] = "none"
           /\ state' = "idle" /\ busy' = FALSE /\ Hold(st, act, sp)
        \/ /\ \E g \in Files : st[g] # "none"
           /\ IF state = "uploading" THEN SettleOrPump(l, st, act, sp)
                                     ELSE Hold(st, act, sp) /\ UNCHANGED <<state, busy>>
     /\ UNCHANGED <<rows, page>>

\* retryItem: the item waits again, at its place in the list.
RetryItem(f) ==
  /\ status[f] = "error" /\ f \notin active /\ MayRegister
  /\ state' = "uploading" /\ busy' = TRUE
  /\ Pump(list, [status EXCEPT ![f] = "queued"], active, step)
  /\ UNCHANGED <<list, id, answer, server, page>>

\* reset, after an accepted message; the calls of the slots are torn down.
Reset ==
  /\ list' = <<>> /\ active' = {} /\ state' = "idle" /\ busy' = FALSE
  /\ status' = [f \in Files |-> "none"]
  /\ id' = [f \in Files |-> 0]
  /\ step' = [f \in Files |-> "none"]
  /\ Unsubscribe(active)
  /\ LET known == {id[f] : f \in {g \in Files : id[g] # 0}} IN
     why' = [n \in DOMAIN why |-> IF n \in Unheard(active) THEN "unheard"
                                  ELSE IF n \in known /\ rows[n].state # "linked" THEN "emptied"
                                  ELSE why[n]]
  /\ UNCHANGED <<target, polls>>

-----------------------------------------------------------------------------
(* The observable of one upload.  An HTTP call fails on the client's side   *)
(* whether or not the server has done its part.                             *)

Register(chat) == Append(rows, [chat |-> chat, state |-> "uploading"])

ServeRequest(f) ==
  /\ step[f] = "register" /\ Len(rows) < MaxRows
  /\ rows' = Register(target[f])
  /\ why' = Append(why, "none")
  /\ step' = [step EXCEPT ![f] = "registered"]
  /\ answer' = [answer EXCEPT ![f] = Len(rows) + 1]
  /\ UNCHANGED <<widget, target, polls, cutOff, deletes, page>>

ServeCutOff(c) ==
  /\ c \in cutOff /\ Len(rows) < MaxRows
  /\ rows' = Register(c)
  /\ why' = Append(why, "unheard")
  /\ cutOff' = cutOff \ {c}
  /\ UNCHANGED <<widget, uploads, deletes, page>>

\* onAttachmentId; a retried item forgets the row of its first attempt.
ReadAnswer(f) ==
  /\ step[f] = "registered"
  /\ id' = [id EXCEPT ![f] = answer[f]]
  /\ answer' = [answer EXCEPT ![f] = 0]
  /\ step' = [step EXCEPT ![f] = "post"]
  /\ LoseSight({id[f]} \ {0}, "retried")
  /\ UNCHANGED <<list, status, active, state, busy, target, polls, rows, cutOff, deletes, page>>

RequestFails(f) ==
  /\ step[f] \in {"register", "registered"}
  /\ FailItem(f)
  /\ answer' = [answer EXCEPT ![f] = 0]
  /\ LoseSight(Unheard({f}), "unheard")
  /\ UNCHANGED <<rows, cutOff, deletes, page>>

Move(f, from, to) ==
  step[f] = from /\ step' = [step EXCEPT ![f] = to]

SetRow(n, s) == rows' = [rows EXCEPT ![n].state = s]

\* request.onload with a good status: confirmUploaded is called and served;
\* the browser may still cut the call off.
Stored(f) ==
  /\ Move(f, "post", "confirm")
  /\ rows[id[f]].state = "uploading" /\ SetRow(id[f], "processing")
  /\ UNCHANGED <<widget, target, answer, polls, cutOff, deletes, why, page>>

Confirmed(f) ==
  /\ Move(f, "confirm", "poll")
  /\ UNCHANGED <<widget, target, answer, polls, server, page>>

\* pollStatus: the timer fires and the status is asked for, up to the limit.
StillProcessing(f) ==
  /\ step[f] = "poll" /\ polls[f] < StatusPollLimit
  /\ rows[id[f]].state = "processing"
  /\ polls' = [polls EXCEPT ![f] = @ + 1]
  /\ UNCHANGED <<widget, step, target, answer, server, page>>

Completed(f) ==
  /\ step[f] = "poll" /\ polls[f] < StatusPollLimit
  /\ rows[id[f]].state \in {"completed", "ready", "linked"}
  /\ FinishItem(f)
  /\ UNCHANGED <<answer, server, page>>

GiveUp(f) ==
  /\ step[f] = "poll" /\ polls[f] = StatusPollLimit
  /\ FailItem(f)
  /\ UNCHANGED <<answer, server, page>>

\* The storage or a call refuses or is not reached, or the status is "error".
UploadFails(f) ==
  /\ step[f] \in {"post", "confirm", "poll"}
  /\ FailItem(f)
  /\ UNCHANGED <<answer, server, page>>

-----------------------------------------------------------------------------
(* The server and the page.                                                *)

\* The worker: "completed" is reported before ready is committed (PDF).
Process(n) ==
  /\ n \in DOMAIN rows
  /\ \/ rows[n].state = "processing" /\ \E s \in {"completed", "ready", "error"} : SetRow(n, s)
     \/ rows[n].state = "completed" /\ SetRow(n, "ready")
  /\ UNCHANGED <<widget, uploads, cutOff, deletes, why, page>>

\* delete_attachment is refused for an id of another chat (deps.py).
ServeDelete(d) ==
  /\ d \in deletes /\ deletes' = deletes \ {d}
  /\ IF rows[d.row].chat = d.chat THEN SetRow(d.row, "gone") /\ UNCHANGED why
                                  ELSE LoseSight({d.row}, "refused") /\ UNCHANGED rows
  /\ UNCHANGED <<widget, uploads, cutOff, page>>

\* The DELETE is refused (429, 5xx) or does not arrive: the user is told, and
\* the item has gone from the list already.
DeleteFails(d) ==
  /\ d \in deletes /\ deletes' = deletes \ {d}
  /\ LoseSight({d.row}, "failed")
  /\ UNCHANGED <<widget, uploads, rows, cutOff, page>>

OpenChat(c) ==
  /\ c # open /\ opens < MaxOpens
  /\ open' = c /\ opens' = opens + 1
  /\ UNCHANGED <<widget, uploads, server, sending, sends>>

\* sendMessage: refused while isUploading() or isSending().
SendMessage ==
  /\ ~busy /\ sending = NoSend /\ sends < MaxSends
  /\ sends' = sends + 1
  /\ sending' = [chat |-> open, at |-> "asked", taken |-> FALSE,
                 shown |-> {id[f] : f \in {g \in Files : status[g] = "done" /\ target[g] = open}}]
  /\ UNCHANGED <<widget, uploads, server, open, opens>>

Of(c) == {n \in DOMAIN rows : rows[n].chat = c /\ rows[n].state # "gone"}

\* Mutant: the files that are ready are linked, the others are left behind.
MutantServeSendReadyOnly ==
  /\ sending # NoSend /\ sending.at = "asked"
  /\ sending' = [sending EXCEPT !.at = "answered", !.taken = TRUE]
  /\ rows' = [n \in DOMAIN rows |->
                IF n \in Of(sending.chat) /\ rows[n].state = "ready"
                THEN [rows[n] EXCEPT !.state = "linked"] ELSE rows[n]]
  /\ UNCHANGED <<widget, uploads, cutOff, deletes, why, open, sends, opens>>

\* send_message links every free row of the chat, or answers 400 if one is not ready.
ServeSend ==
  /\ sending # NoSend /\ sending.at = "asked"
  /\ LET ok == \A n \in Of(sending.chat) : rows[n].state \in {"ready", "linked"} IN
     /\ sending' = [sending EXCEPT !.at = "answered", !.taken = ok]
     /\ rows' = IF ok THEN [n \in DOMAIN rows |->
                             IF n \in Of(sending.chat) THEN [rows[n] EXCEPT !.state = "linked"]
                                                       ELSE rows[n]]
                      ELSE rows
  /\ UNCHANGED <<widget, uploads, cutOff, deletes, why, open, sends, opens>>

SendAnswered ==
  /\ sending # NoSend /\ sending.at = "answered" /\ sending.taken
  /\ sending' = NoSend
  /\ Reset
  /\ UNCHANGED <<rows, deletes, open, sends, opens>>

\* ngOnDestroy: the user leaves the page and finds an empty widget on coming back.
LeavePage ==
  /\ sending = NoSend /\ list # <<>>
  /\ Reset
  /\ UNCHANGED <<rows, deletes, page>>

\* A 400, or no answer: the text comes back, the widget stays as it is.
SendFails ==
  /\ sending # NoSend
  /\ sending' = NoSend
  /\ UNCHANGED <<widget, uploads, server, open, sends, opens>>

-----------------------------------------------------------------------------
Ends(f) == ReadAnswer(f) \/ RequestFails(f) \/ Stored(f) \/ Confirmed(f)
             \/ StillProcessing(f) \/ Completed(f) \/ GiveUp(f) \/ UploadFails(f)

Next ==
  \/ \E f \in Files : Enqueue(f) \/ RemoveItem(f) \/ RetryItem(f) \/ ServeRequest(f) \/ Ends(f)
  \/ \E n \in 1..MaxRows : Process(n)
  \/ \E d \in deletes : ServeDelete(d) \/ DeleteFails(d)
  \/ \E c \in Chats : OpenChat(c) \/ ServeCutOff(c)
  \/ SendMessage \/ ServeSend \/ SendAnswered \/ SendFails \/ LeavePage

\* Every HTTP call of an upload ends in the browser and every timer fires.
Fairness == \A f \in Files : WF_vars(Ends(f))
Spec == Init /\ [][Next]_vars /\ Fairness

-----------------------------------------------------------------------------
(* Properties.                                                             *)

Steps == {"none", "register", "registered", "post", "confirm", "poll"}
Ids == {id[f] : f \in {g \in Files : id[g] # 0}}

\* Every variable has its type, and the two things a slot means agree: the
\* items and their order (items()), the slots (activeUploads), the calls.
TypeOK ==
  /\ open \in Chats
  /\ list \in Seq(Files) /\ Items(list) = {f \in Files : status[f] # "none"}
  /\ status \in [Files -> {"none", "queued", "uploading", "done", "error"}]
  /\ id \in [Files -> 0..Len(rows)] /\ answer \in [Files -> 0..Len(rows)]
  /\ state \in {"idle", "uploading", "completed"} /\ busy \in BOOLEAN
  /\ step \in [Files -> Steps] /\ target \in [Files -> Chats]
  /\ polls \in [Files -> 0..StatusPollLimit]
  /\ Len(why) = Len(rows)
  /\ active = {f \in Files : step[f] # "none"}

\* The page is told that files upload (uploadingChange, which keeps
\* sendMessage from sending) exactly while an item waits or uploads.
BusyIsTold == busy <=> \E f \in Files : status[f] \in {"queued", "uploading"}

\* The queue is a pool of Slots slots: no more files upload at once, nobody
\* waits while a slot is free, and every upload that nobody takes out ends,
\* however its calls fail (pumpQueue, finishItem, failItem, pollStatus).
Pool == INSTANCE UploadPool
          WITH waiting <- {f \in Files : status[f] = "queued"},
               running <- active,
               ended <- {f \in Files : status[f] \in Over}
RefinesUploadPool == Pool!Spec

\* removeItem deletes "a file the backend already knows about", or it would be
\* attached to the next message (drag-n-drop.component.ts:208).  A file that
\* is on a session with no item, answer or DELETE that knows its id got
\* there in one of five ways: its id was never read, a retry replaced it, the
\* widget was emptied under it, its DELETE named another chat, or its DELETE
\* failed after the item was gone (drag-n-drop.component.ts:230-232).
Orphans ==
  {n \in DOMAIN rows : rows[n].state \notin {"linked", "gone"}
                         /\ n \notin Ids \cup {answer[f] : f \in Files}
                         /\ \A d \in deletes : d.row # n}
StrandedFiles == \A n \in Orphans : why[n] # "none"

\* A message that is accepted takes along every file that the widget showed as
\* uploaded to its chat when it was sent, though "completed" is reported
\* before the file is ready (files.py:348) and send_message looks at the
\* session by itself.
DoneFilesTravel ==
  [][(sending # NoSend /\ sending' # NoSend /\ sending.at = "asked" /\ sending'.taken) =>
       \A n \in sending.shown : rows'[n].state \in {"linked", "gone"}]_vars
=============================================================================
