------------------------------ MODULE Attachments ------------------------------
(***************************************************************************)
(* The files of one chat session, from the request for an upload link to   *)
(* the message that carries their content: the upload, delete and send     *)
(* handlers of routes/chat.py, the ownership cache of deps.py, and the      *)
(* worker tasks of tasks/files.py with the Redis counter that joins the     *)
(* page tasks of a PDF.                                                     *)
(*                                                                         *)
(* A run r of an attachment a is one POST .../uploaded and the tasks it     *)
(* enqueues: confirm[a][r] is the handler, task[a][r] process_attachment    *)
(* and then process_pdf, process_dxf or process_image, page[a][r][p] the    *)
(* page's upload_pdf_image and then the pdf_upload_cleanup it enqueues.  A   *)
(* run is also a second delivery of a task whose first one had published     *)
(* already: both go on, each with its own successors.                        *)
(* Every action is one Redis command, one S3 call or one transaction.       *)
(***************************************************************************)
EXTENDS Integers, FiniteSets

CONSTANTS
  Attachments,   \* attachments.id; an id is never reused
  Pages,         \* the pages of a PDF
  Runs,          \* bound: confirmations of one attachment
  MaxSends,      \* bound: messages sent
  Watched,       \* bound: the attachments whose status is polled
  Removable,     \* bound: the attachments somebody deletes
  Old,           \* bound: the attachments that grow an hour old
  None,          \* an absent key or an unset column
  KeysLapse,     \* TRUE: the 600 s of status and counter may run out in a run
  MaxDeaths      \* bound: how often API and worker processes are killed

ASSUME PagesAssumption == IsFiniteSet(Pages) /\ Pages # {} /\ "whole" \notin Pages
ASSUME BoundAssumption == MaxSends \in Nat /\ MaxDeaths \in Nat /\ KeysLapse \in BOOLEAN
ASSUME ClientAssumption == Watched \cup Removable \cup Old \subseteq Attachments
ASSUME NoneAssumption == None \notin Int \cup Runs

VARIABLES
  kind,       \* the content type asked for: "pdf", "dxf" or "image"
  row,        \* attachments: "none", "live", "gone"
  ready,      \* attachments.ready
  link,       \* attachments.chat_message_id: None or the number of the message
  file,       \* the browser has put the object under s3_key
  content,    \* processing_results and processing_result_uploadables
  artifacts,  \* S3 objects artifacts/pdf/{id}/{uuid}.png
  status,     \* attachment:{id}:status
  owned,      \* attachment:ownership:{session}:{id}
  sync,       \* attachment:pdf:sync:{id}
  lock,       \* attachment:upload:lock:{id}: the run whose handler holds it
  register,   \* progress of upload_file
  confirm,    \* progress of attachment_uploaded
  poll,       \* progress of a status poll
  remove,     \* progress of delete_attachment
  task,       \* progress of process_attachment, then of the task it dispatches to
  page,       \* progress of upload_pdf_image, then of its pdf_upload_cleanup
  uploaded,   \* ghost: the pages whose sber_id was committed
  send,       \* progress of send_message
  sent,       \* messages saved so far
  carries,    \* the content in the text or files_str of each message
  deaths,     \* processes killed so far
  cut         \* ghost: files that lost the next task of their latest run

attachmentRow == <<kind, row, ready, link>>
storage == <<file, artifacts>>
redis == <<status, owned, sync, lock>>
handlers == <<register, confirm, poll, remove>>
workers == <<task, page, uploaded>>
messages == <<send, sent, carries>>
vars == <<attachmentRow, storage, content, redis, handlers, workers, messages, deaths, cut>>

-----------------------------------------------------------------------------
\* One ProcessingResult ("whole" of a dxf) or ProcessingResultUploadable (a
\* page of a pdf, the "whole" of an image); hasId: sber_id is set.
Content == [att : Attachments, run : Runs, part : Pages \cup {"whole"}, hasId : BOOLEAN]
Piece == [att : Attachments, run : Runs, part : Pages \cup {"whole"}]

Kinds == {"pdf", "dxf", "image"}
Statuses == {"uploading", "processing", "completed", "error"}
ConfirmSteps == {"idle", "locked", "checked", "found", "set", "unlocking", "closed"}
TaskSteps == {"none", "queued", "typed", "stored", "counted", "committed",
              "failing", "failed", "done", "lost", "killed"}
PageSteps == {"none", "queued", "calling", "sent", "failing", "failed", "over",
              "cleanup", "taken", "loaded", "approved", "completed", "cleanupFailing"}
SendSteps == {"idle", "checked", "collected", "saved"}

PieceOf(a, r, p) == [att |-> a, run |-> r, part |-> p]
Row(a, r, p, id) == [att |-> a, run |-> r, part |-> p, hasId |-> id]
Live(a) == row[a] = "live"
Started(a) == {r \in Runs : task[a][r] # "none" \/ confirm[a][r] = "set"}

\* The page's task has been taken from the queue and has not been sent.
PageFailed(a, r, p) ==
  page[a][r][p] \notin {"none", "queued", "calling"} /\ PieceOf(a, r, p) \notin uploaded

-----------------------------------------------------------------------------
Init ==
  /\ kind = [a \in Attachments |-> None]
  /\ row = [a \in Attachments |-> "none"]
  /\ ready = [a \in Attachments |-> FALSE]
  /\ link = [a \in Attachments |-> None]
  /\ file = [a \in Attachments |-> FALSE]
  /\ content = {} /\ artifacts = {}
  /\ status = [a \in Attachments |-> "none"]
  /\ owned = [a \in Attachments |-> FALSE]
  /\ sync = [a \in Attachments |-> None]
  /\ lock = [a \in Attachments |-> None]
  /\ register = [a \in Attachments |-> "idle"]
  /\ confirm = [a \in Attachments |-> [r \in Runs |-> "idle"]]
  /\ poll = [a \in Attachments |-> "idle"]
  /\ remove = [a \in Attachments |-> "idle"]
  /\ task = [a \in Attachments |-> [r \in Runs |-> "none"]]
  /\ page = [a \in Attachments |-> [r \in Runs |-> [p \in Pages |-> "none"]]]
  /\ uploaded = {}
  /\ send = "idle" /\ sent = 0
  /\ carries = [n \in 1..MaxSends |-> {}]
  /\ deaths = 0 /\ cut = {}

SetStatus(a, s) == status' = [status EXCEPT ![a] = s]

\* The task that was to come next does not come, and nobody is told.
CutIf(a, happens) == cut' = IF happens THEN cut \cup {a} ELSE cut

-----------------------------------------------------------------------------
(* upload_file: the row is committed before the status is set.  The object *)
(* comes from the browser, any time after that (presigned POST).           *)

RegisterRow(a) ==
  /\ register[a] = "idle"
  /\ register' = [register EXCEPT ![a] = "committed"]
  /\ row' = [row EXCEPT ![a] = "live"]
  /\ \E k \in Kinds : kind' = [kind EXCEPT ![a] = k]
  /\ UNCHANGED <<ready, link, storage, content, redis, confirm, poll, remove, workers,
                 messages, deaths, cut>>

RegisterStatus(a) ==
  /\ register[a] = "committed"
  /\ register' = [register EXCEPT ![a] = "closed"]
  /\ SetStatus(a, IF status[a] = "none" THEN "uploading" ELSE status[a])
  /\ UNCHANGED <<attachmentRow, storage, content, owned, sync, lock, confirm, poll, remove,
                 workers, messages, deaths, cut>>

BrowserUploads(a) ==
  /\ register[a] = "closed" /\ ~file[a]
  /\ file' = [file EXCEPT ![a] = TRUE]
  /\ UNCHANGED <<attachmentRow, artifacts, content, redis, handlers, workers, messages, deaths, cut>>

(* attachment_uploaded.  A taken lock is answered 429 and leaves no trace. *)

ConfirmStep(a, r, from, to) ==
  /\ confirm[a][r] = from
  /\ confirm' = [confirm EXCEPT ![a][r] = to]

\* Mutant: no lock around the confirmation.
MutantConfirmNoLock(a, r) ==
  /\ register[a] = "closed"
  /\ ConfirmStep(a, r, "idle", "locked")
  /\ lock' = [lock EXCEPT ![a] = r]
  /\ UNCHANGED <<attachmentRow, storage, content, status, owned, sync, register, poll, remove,
                 workers, messages, deaths, cut>>

ConfirmLock(a, r) ==
  /\ register[a] = "closed"
  /\ lock[a] = None
  /\ ConfirmStep(a, r, "idle", "locked")
  /\ lock' = [lock EXCEPT ![a] = r]
  /\ UNCHANGED <<attachmentRow, storage, content, status, owned, sync, register, poll, remove,
                 workers, messages, deaths, cut>>

ConfirmStatus(a, r) ==
  /\ ConfirmStep(a, r, "locked",
                 IF status[a] \in {"uploading", "error"} THEN "checked" ELSE "unlocking")
  /\ UNCHANGED <<attachmentRow, storage, content, redis, register, poll, remove,
                 workers, messages, deaths, cut>>

\* The row and its object are looked up; S3 may also fail.
ConfirmFile(a, r) ==
  /\ \E s3Answers \in BOOLEAN :
       ConfirmStep(a, r, "checked",
                   IF Live(a) /\ file[a] /\ s3Answers THEN "found" ELSE "unlocking")
  /\ UNCHANGED <<attachmentRow, storage, content, redis, register, poll, remove,
                 workers, messages, deaths, cut>>

ConfirmSet(a, r) ==
  /\ ConfirmStep(a, r, "found", "set")
  /\ SetStatus(a, "processing")
  /\ cut' = cut \ {a}
  /\ UNCHANGED <<attachmentRow, storage, content, owned, sync, lock, register, poll, remove,
                 workers, messages, deaths>>

\* A publish that raises is answered 500; the status stays as it was set.
ConfirmEnqueue(a, r) ==
  /\ ConfirmStep(a, r, "set", "unlocking")
  /\ \E published \in BOOLEAN :
       /\ task' = [task EXCEPT ![a][r] = IF published THEN "queued" ELSE "lost"]
       /\ CutIf(a, ~published)
  /\ UNCHANGED <<attachmentRow, storage, content, redis, register, poll, remove,
                 page, uploaded, messages, deaths>>

\* The lock carries a token: a handler releases its own or none.
ConfirmUnlock(a, r) ==
  /\ ConfirmStep(a, r, "unlocking", "closed")
  /\ lock' = [lock EXCEPT ![a] = IF @ = r THEN None ELSE @]
  /\ UNCHANGED <<attachmentRow, storage, content, status, owned, sync, register, poll, remove,
                 workers, messages, deaths, cut>>

-----------------------------------------------------------------------------
(* attachment_status behind verify_attachment_id: a cached ownership is    *)
(* trusted, and the poll leaves no trace; otherwise the database decides    *)
(* and the answer is cached.                                                *)

PollVerify(a) ==
  /\ a \in Watched /\ poll[a] = "idle"
  /\ ~owned[a] /\ Live(a)
  /\ poll' = [poll EXCEPT ![a] = "known"]
  /\ UNCHANGED <<attachmentRow, storage, content, redis, register, confirm, remove,
                 workers, messages, deaths, cut>>

PollCache(a) ==
  /\ poll[a] = "known"
  /\ poll' = [poll EXCEPT ![a] = "idle"]
  /\ owned' = [owned EXCEPT ![a] = TRUE]
  /\ UNCHANGED <<attachmentRow, storage, content, status, sync, lock, register, confirm, remove,
                 workers, messages, deaths, cut>>

(* delete_attachment: objects, row, keys.  One DELETE per attachment.      *)

RemoveStep(a, from, to) ==
  /\ remove[a] = from
  /\ remove' = [remove EXCEPT ![a] = to]

RemoveVerify(a) ==
  /\ a \in Removable
  /\ RemoveStep(a, "idle", "verified")
  /\ owned[a] \/ Live(a)
  /\ owned' = [owned EXCEPT ![a] = TRUE]
  /\ UNCHANGED <<attachmentRow, storage, content, status, sync, lock, register, confirm, poll,
                 workers, messages, deaths, cut>>

RemoveObjects(a) ==
  /\ RemoveStep(a, "verified", IF Live(a) THEN "emptied" ELSE "refused")
  /\ file' = [file EXCEPT ![a] = @ /\ ~Live(a)]
  /\ artifacts' = artifacts \ {x \in artifacts :
       x.att = a /\ Live(a) /\ \E id \in BOOLEAN : Row(a, x.run, x.part, id) \in content}
  /\ UNCHANGED <<attachmentRow, content, redis, register, confirm, poll,
                 workers, messages, deaths, cut>>

\* Mutant: the row goes and its content stays.
MutantDropRowsNoCascade(gone) ==
  /\ row' = [a \in Attachments |-> IF a \in gone THEN "gone" ELSE row[a]]
  /\ content' = content

\* The row and, by the cascade, its content.
DropRows(gone) ==
  /\ row' = [a \in Attachments |-> IF a \in gone THEN "gone" ELSE row[a]]
  /\ content' = {c \in content : c.att \notin gone}

\* The DELETE of a row that went in the meantime raises, and the keys stay.
RemoveRow(a) ==
  /\ RemoveStep(a, "emptied", IF Live(a) THEN "deleted" ELSE "refused")
  /\ DropRows({a} \cap {b \in Attachments : Live(b)})
  /\ UNCHANGED <<kind, ready, link, storage, redis, register, confirm, poll,
                 workers, messages, deaths, cut>>

RemoveKeys(a) ==
  /\ RemoveStep(a, "deleted", "closed")
  /\ SetStatus(a, "none")
  /\ owned' = [owned EXCEPT ![a] = FALSE]
  /\ sync' = [sync EXCEPT ![a] = None]
  /\ UNCHANGED <<attachmentRow, storage, content, lock, register, confirm, poll,
                 workers, messages, deaths, cut>>

-----------------------------------------------------------------------------
(* process_attachment, process_pdf, process_dxf, process_image             *)

TaskStep(a, r, from, to) ==
  /\ task[a][r] = from
  /\ task' = [task EXCEPT ![a][r] = to]

\* The content type is one upload_file has let into the signed form.  The lookup
\* of the row and the publish of process_pdf, process_dxf or process_image stand
\* outside the try: when one of them raises, nobody is told.
Dispatch(a, r) ==
  /\ \E s3Answers, raises \in BOOLEAN :
       /\ TaskStep(a, r, "queued", IF raises THEN "lost"
                                   ELSE IF Live(a) /\ file[a] /\ s3Answers THEN "typed"
                                   ELSE "failing")
       /\ CutIf(a, raises)
  /\ UNCHANGED <<attachmentRow, storage, content, redis, handlers, page, uploaded,
                 messages, deaths>>

\* Mutant: the exception is logged only.
MutantTaskErrorSilent(a, r) ==
  /\ TaskStep(a, r, "failing", "failed")
  /\ UNCHANGED <<attachmentRow, storage, content, redis, handlers, page, uploaded,
                 messages, deaths, cut>>

\* _redis_error
TaskError(a, r) ==
  /\ TaskStep(a, r, "failing", "failed")
  /\ SetStatus(a, "error")
  /\ UNCHANGED <<attachmentRow, storage, content, owned, sync, lock, handlers, page, uploaded,
                 messages, deaths, cut>>

\* The pages that got their object and their row before gather raised, or all.
PdfStore(a, r) ==
  /\ kind[a] = "pdf"
  /\ \E stored \in SUBSET Pages :
       /\ (Live(a) /\ file[a]) \/ stored = {}
       /\ TaskStep(a, r, "typed", IF stored = Pages THEN "stored" ELSE "failing")
       /\ content' = content \cup {Row(a, r, p, FALSE) : p \in stored}
       /\ artifacts' = artifacts \cup {PieceOf(a, r, p) : p \in stored}
  /\ UNCHANGED <<attachmentRow, file, redis, handlers, page, uploaded, messages, deaths, cut>>

\* Mutant: one page is counted too few.
MutantPdfCountOffByOne(a, r) ==
  /\ TaskStep(a, r, "stored", "counted")
  /\ sync' = [sync EXCEPT ![a] = Cardinality(Pages) - 1]
  /\ UNCHANGED <<attachmentRow, storage, content, status, owned, lock, handlers, page, uploaded,
                 messages, deaths, cut>>

PdfCount(a, r) ==
  /\ TaskStep(a, r, "stored", "counted")
  /\ sync' = [sync EXCEPT ![a] = Cardinality(Pages)]
  /\ UNCHANGED <<attachmentRow, storage, content, status, owned, lock, handlers, page, uploaded,
                 messages, deaths, cut>>

\* The publish of a page may raise; the pages before it are on their way.
PdfFanOut(a, r) ==
  /\ \E published \in SUBSET Pages :
       /\ TaskStep(a, r, "counted", IF published = Pages THEN "done" ELSE "failing")
       /\ page' = [page EXCEPT ![a][r] =
                     [p \in Pages |-> IF p \in published THEN "queued" ELSE @[p]]]
  /\ UNCHANGED <<attachmentRow, storage, content, redis, handlers, uploaded, messages, deaths, cut>>

\* Result and ready in one commit.  A dxf has one result only (unique).
DirectCommit(a, r) ==
  /\ kind[a] # "pdf"
  /\ \E works \in BOOLEAN :
       LET fresh == kind[a] = "image" \/ \A c \in content : c.att # a
           ok == works /\ Live(a) /\ file[a] /\ fresh
       IN  /\ TaskStep(a, r, "typed", IF ok THEN "committed" ELSE "failing")
           /\ content' = content \cup {c \in {Row(a, r, "whole", TRUE)} : ok}
           /\ ready' = [ready EXCEPT ![a] = @ \/ ok]
  /\ UNCHANGED <<kind, row, link, storage, redis, handlers, page, uploaded, messages, deaths, cut>>

DirectReport(a, r) ==
  /\ TaskStep(a, r, "committed", "done")
  /\ SetStatus(a, "completed")
  /\ UNCHANGED <<attachmentRow, storage, content, owned, sync, lock, handlers, page, uploaded,
                 messages, deaths, cut>>

-----------------------------------------------------------------------------
(* upload_pdf_image *)

PageStep(a, r, p, from, to) ==
  /\ page[a][r][p] = from
  /\ page' = [page EXCEPT ![a][r][p] = to]

PageLoad(a, r, p) ==
  /\ \E s3Answers \in BOOLEAN :
       LET found == Row(a, r, p, FALSE) \in content \/ Row(a, r, p, TRUE) \in content
           ok == s3Answers /\ found /\ PieceOf(a, r, p) \in artifacts
       IN  PageStep(a, r, p, "queued", IF ok THEN "calling" ELSE "failing")
  /\ UNCHANGED <<attachmentRow, storage, content, redis, handlers, task, uploaded,
                 messages, deaths, cut>>

\* The provider's id is committed; a row that went in the meantime raises.
PageSend(a, r, p) ==
  /\ \E providerTakes \in BOOLEAN :
       LET mine == {c \in content : c.att = a /\ c.run = r /\ c.part = p}
           ok == providerTakes /\ mine # {}
       IN  /\ PageStep(a, r, p, "calling", IF ok THEN "sent" ELSE "failing")
           /\ content' = IF ok THEN (content \ mine) \cup {Row(a, r, p, TRUE)} ELSE content
           /\ uploaded' = uploaded \cup {x \in {PieceOf(a, r, p)} : ok}
  /\ UNCHANGED <<attachmentRow, storage, redis, handlers, task, messages, deaths, cut>>

PageError(a, r, p) ==
  /\ PageStep(a, r, p, "failing", "failed")
  /\ SetStatus(a, "error")
  /\ UNCHANGED <<attachmentRow, storage, content, owned, sync, lock, handlers, task,
                 uploaded, messages, deaths, cut>>

\* DECR makes -1 of a missing counter.
Decremented(a) == (IF sync[a] = None THEN 0 ELSE sync[a]) - 1

\* The last page and every failed one ask for the cleanup; the publish may raise.
CountPage(a, r, p, last) ==
  /\ sync' = [sync EXCEPT ![a] = Decremented(a)]
  /\ \E from \in {"sent", "failed"}, published \in BOOLEAN :
       LET asks == last \/ from = "failed"
       IN  /\ PageStep(a, r, p, from, IF asks /\ published THEN "cleanup" ELSE "over")
           /\ CutIf(a, asks /\ ~published)
  /\ UNCHANGED <<attachmentRow, storage, content, status, owned, lock, handlers, task,
                 uploaded, messages, deaths>>

\* Mutant: the last page is not seen to be the last.
MutantPageCountStrict(a, r, p) == CountPage(a, r, p, Decremented(a) < 0)

PageCount(a, r, p) == CountPage(a, r, p, Decremented(a) <= 0)

(* pdf_upload_cleanup *)

CleanupTake(a, r, p) ==
  /\ PageStep(a, r, p, "cleanup", IF sync[a] = None THEN "over" ELSE "taken")
  /\ sync' = [sync EXCEPT ![a] = None]
  /\ UNCHANGED <<attachmentRow, storage, content, status, owned, lock, handlers, task,
                 uploaded, messages, deaths, cut>>

\* The objects of all the rows of the attachment go, whichever run made them.
CleanupObjects(a, r, p) ==
  /\ PageStep(a, r, p, "taken", IF Live(a) THEN "loaded" ELSE "cleanupFailing")
  /\ artifacts' = artifacts \ {x \in artifacts :
       x.att = a /\ \E id \in BOOLEAN : Row(a, x.run, x.part, id) \in content}
  /\ UNCHANGED <<attachmentRow, file, content, redis, handlers, task, uploaded,
                 messages, deaths, cut>>

\* Mutant: the cleanup does not look at the status.
MutantCleanupJudgeBlind(a, r, p) ==
  /\ PageStep(a, r, p, "loaded", "approved")
  /\ UNCHANGED <<attachmentRow, storage, content, redis, handlers, task, uploaded,
                 messages, deaths, cut>>

CleanupJudge(a, r, p) ==
  /\ PageStep(a, r, p, "loaded", IF status[a] = "error" THEN "over" ELSE "approved")
  /\ UNCHANGED <<attachmentRow, storage, content, redis, handlers, task, uploaded,
                 messages, deaths, cut>>

CleanupApprove(a, r, p) ==
  /\ PageStep(a, r, p, "approved", "completed")
  /\ SetStatus(a, "completed")
  /\ UNCHANGED <<attachmentRow, storage, content, owned, sync, lock, handlers, task,
                 uploaded, messages, deaths, cut>>

\* The UPDATE of a row that went in the meantime raises.
CleanupCommit(a, r, p) ==
  /\ PageStep(a, r, p, "completed", IF Live(a) THEN "over" ELSE "cleanupFailing")
  /\ ready' = [ready EXCEPT ![a] = @ \/ Live(a)]
  /\ UNCHANGED <<kind, row, link, storage, content, redis, handlers, task, uploaded,
                 messages, deaths, cut>>

CleanupError(a, r, p) ==
  /\ PageStep(a, r, p, "cleanupFailing", "over")
  /\ SetStatus(a, "error")
  /\ UNCHANGED <<attachmentRow, storage, content, owned, sync, lock, handlers, task,
                 uploaded, messages, deaths, cut>>

-----------------------------------------------------------------------------
(* The attachments in send_message.  chat_lock lets one through at a time. *)

SendCheck ==
  /\ send = "idle" /\ sent < MaxSends
  /\ \A a \in Attachments : Live(a) => ready[a]
  /\ send' = "checked"
  /\ UNCHANGED <<attachmentRow, storage, content, redis, handlers, workers, sent, carries, deaths, cut>>

Unlinked == {a \in Attachments : Live(a) /\ link[a] = None}

\* A page without an id is left out.
SendCollect ==
  /\ send = "checked"
  /\ send' = "collected"
  /\ carries' = [carries EXCEPT ![sent + 1] =
       {PieceOf(c.att, c.run, c.part) : c \in {d \in content : d.att \in Unlinked /\ d.hasId}}]
  /\ UNCHANGED <<attachmentRow, storage, content, redis, handlers, workers, sent, deaths, cut>>

\* Mutant: the collected rows are not deleted.
MutantSendSaveKeepsContent ==
  /\ send = "collected"
  /\ send' = "saved"
  /\ sent' = sent + 1
  /\ UNCHANGED <<attachmentRow, storage, content, redis, handlers, workers, carries, deaths, cut>>

\* The message is committed, together with the DELETE of all that content.
SendSave ==
  /\ send = "collected"
  /\ send' = "saved"
  /\ sent' = sent + 1
  /\ content' = {c \in content : c.att \notin Unlinked}
  /\ UNCHANGED <<attachmentRow, storage, redis, handlers, workers, carries, deaths, cut>>

\* Mutant: the link uses the number of the next message.
MutantSendLinkNext ==
  /\ send = "saved"
  /\ send' = "idle"
  /\ link' = [a \in Attachments |-> IF a \in Unlinked THEN sent + 1 ELSE link[a]]
  /\ UNCHANGED <<kind, row, ready, storage, content, redis, handlers, workers, sent, carries, deaths, cut>>

\* Mutant: nothing is linked to the message.
MutantSendLinkNothing ==
  /\ send = "saved"
  /\ send' = "idle"
  /\ UNCHANGED <<attachmentRow, storage, content, redis, handlers, workers, sent, carries, deaths, cut>>

SendLink ==
  /\ send = "saved"
  /\ send' = "idle"
  /\ link' = [a \in Attachments |-> IF a \in Unlinked THEN sent ELSE link[a]]
  /\ UNCHANGED <<kind, row, ready, storage, content, redis, handlers, workers, sent, carries, deaths, cut>>

-----------------------------------------------------------------------------
(* The hourly tasks: an old file may be so at any time after its row.      *)

CleanupOrphans ==
  \E old \in SUBSET {a \in Attachments : Live(a) /\ ~ready[a] /\ a \in Old} :
    /\ old # {}
    /\ DropRows(old)
    /\ UNCHANGED <<kind, ready, link, storage, redis, handlers, workers, messages, deaths, cut>>

CleanupStaleResults ==
  \E old \in SUBSET (Old \cap {c.att : c \in content}) :
    /\ old # {}
    /\ content' = {c \in content : c.att \notin old}
    /\ UNCHANGED <<attachmentRow, storage, redis, handlers, workers, messages, deaths, cut>>

(* Time to live: 600 s for status, counter and ownership.  The 10 s of the *)
(* confirmation lock are taken to outlive its handler.                     *)

\* A task of the attachment is queued or at work.
Busy(a) ==
  \E r \in Runs :
    \/ task[a][r] \notin {"none", "failed", "done", "lost", "killed"}
    \/ \E p \in Pages : page[a][r][p] \notin {"none", "over"}

StatusExpires(a) ==
  /\ status[a] # "none"
  /\ KeysLapse \/ ~Busy(a)
  /\ SetStatus(a, "none")
  /\ UNCHANGED <<attachmentRow, storage, content, owned, sync, lock, handlers, workers,
                 messages, deaths, cut>>

SyncExpires(a) ==
  /\ sync[a] # None
  /\ KeysLapse \/ ~Busy(a)
  /\ sync' = [sync EXCEPT ![a] = None]
  /\ UNCHANGED <<attachmentRow, storage, content, status, owned, lock, handlers, workers,
                 messages, deaths, cut>>

OwnedExpires(a) ==
  /\ owned[a]
  /\ owned' = [owned EXCEPT ![a] = FALSE]
  /\ UNCHANGED <<attachmentRow, storage, content, status, sync, lock, handlers, workers,
                 messages, deaths, cut>>

(* External: killed processes; RabbitMQ redelivers what was not acknowledged. *)

SendDies ==
  /\ deaths < MaxDeaths
  /\ deaths' = deaths + 1
  /\ send \in {"collected", "saved"}
  /\ send' = "idle"
  /\ carries' = IF send = "saved" THEN carries ELSE [carries EXCEPT ![sent + 1] = {}]
  /\ UNCHANGED <<attachmentRow, storage, content, redis, handlers, workers, sent, cut>>

\* After the counter went down, and before the acknowledgement, too.
PageDies(a, r, p) ==
  /\ deaths < MaxDeaths
  /\ deaths' = deaths + 1
  /\ page[a][r][p] \in {"calling", "sent", "failing", "failed", "over"}
  /\ page' = [page EXCEPT ![a][r][p] = "queued"]
  /\ UNCHANGED <<attachmentRow, storage, content, redis, handlers, task, uploaded, messages, cut>>

TaskDies(a, r) ==
  /\ deaths < MaxDeaths
  /\ deaths' = deaths + 1
  /\ task[a][r] \in {"stored", "counted", "committed"}
  /\ task' = [task EXCEPT ![a][r] = "typed"]
  /\ UNCHANGED <<attachmentRow, storage, content, redis, handlers, page, uploaded, messages, cut>>

\* The delivery that follows one that had published already takes a run that no
\* client has confirmed.
Redelivered(a, r, s) ==
  /\ deaths < MaxDeaths
  /\ deaths' = deaths + 1
  /\ s # r /\ confirm[a][s] = "idle"
  /\ confirm' = [confirm EXCEPT ![a][s] = "closed"]

\* process_attachment, after it has published and before it is acknowledged.
DispatchDies(a, r, s) ==
  /\ Redelivered(a, r, s)
  /\ task[a][r] = "queued" /\ Live(a) /\ file[a]
  /\ task' = [task EXCEPT ![a][r] = "typed", ![a][s] = "queued"]
  /\ UNCHANGED <<attachmentRow, storage, content, redis, register, poll, remove, page, uploaded,
                 messages, cut>>

\* process_pdf, after it has published the first pages or all of them.
PdfFanOutDies(a, r, s) ==
  /\ Redelivered(a, r, s)
  /\ task[a][r] = "counted"
  /\ task' = [task EXCEPT ![a][r] = "killed", ![a][s] = "typed"]
  /\ \E published \in (SUBSET Pages) \ {{}} :
       page' = [page EXCEPT ![a][r] =
                  [p \in Pages |-> IF p \in published THEN "queued" ELSE @[p]]]
  /\ UNCHANGED <<attachmentRow, storage, content, redis, register, poll, remove, uploaded,
                 messages, cut>>

\* pdf_upload_cleanup: the counter it has taken is not put back.
CleanupDies(a, r, p) ==
  /\ deaths < MaxDeaths
  /\ deaths' = deaths + 1
  /\ page[a][r][p] \in {"taken", "loaded", "approved", "completed", "cleanupFailing"}
  /\ page' = [page EXCEPT ![a][r][p] = "cleanup"]
  /\ cut' = cut \cup {a}
  /\ UNCHANGED <<attachmentRow, storage, content, redis, handlers, task, uploaded, messages>>

\* attachment_uploaded is not delivered again.  Its lock goes with its 10 s;
\* until then others are refused and leave no trace.
ConfirmDies(a, r) ==
  /\ deaths < MaxDeaths
  /\ deaths' = deaths + 1
  /\ confirm[a][r] \notin {"idle", "closed"}
  /\ confirm' = [confirm EXCEPT ![a][r] = "closed"]
  /\ lock' = [lock EXCEPT ![a] = IF @ = r THEN None ELSE @]
  /\ CutIf(a, confirm[a][r] = "set")
  /\ UNCHANGED <<attachmentRow, storage, content, status, owned, sync, register, poll, remove,
                 workers, messages>>

-----------------------------------------------------------------------------
Register(a) == RegisterRow(a) \/ RegisterStatus(a) \/ BrowserUploads(a)
Confirm(a, r) ==
  \/ ConfirmLock(a, r) \/ ConfirmStatus(a, r) \/ ConfirmFile(a, r)
  \/ ConfirmSet(a, r) \/ ConfirmEnqueue(a, r) \/ ConfirmUnlock(a, r)
Poll(a) == PollVerify(a) \/ PollCache(a)
Remove(a) == RemoveVerify(a) \/ RemoveObjects(a) \/ RemoveRow(a) \/ RemoveKeys(a)
Process(a, r) ==
  \/ Dispatch(a, r) \/ TaskError(a, r)
  \/ PdfStore(a, r) \/ PdfCount(a, r) \/ PdfFanOut(a, r)
  \/ DirectCommit(a, r) \/ DirectReport(a, r)
UploadPage(a, r, p) ==
  \/ PageLoad(a, r, p) \/ PageSend(a, r, p) \/ PageError(a, r, p) \/ PageCount(a, r, p)
  \/ CleanupTake(a, r, p) \/ CleanupObjects(a, r, p) \/ CleanupJudge(a, r, p)
  \/ CleanupApprove(a, r, p) \/ CleanupCommit(a, r, p) \/ CleanupError(a, r, p)
Send == SendCheck \/ SendCollect \/ SendSave \/ SendLink
Expire(a) == StatusExpires(a) \/ SyncExpires(a) \/ OwnedExpires(a)
RunDies(a, r) ==
  \/ ConfirmDies(a, r) \/ TaskDies(a, r)
  \/ \E s \in Runs : DispatchDies(a, r, s) \/ PdfFanOutDies(a, r, s)
  \/ \E p \in Pages : PageDies(a, r, p) \/ CleanupDies(a, r, p)

Next ==
  \/ \E a \in Attachments :
       \/ Register(a) \/ Poll(a) \/ Remove(a) \/ Expire(a)
       \/ \E r \in Runs :
            \/ Confirm(a, r) \/ Process(a, r) \/ RunDies(a, r)
            \/ \E p \in Pages : UploadPage(a, r, p)
  \/ Send \/ SendDies \/ CleanupOrphans \/ CleanupStaleResults

Spec == Init /\ [][Next]_vars

\* The workers take what is queued and finish it.  Nothing obliges a client.
Fairness ==
  \A a \in Attachments, r \in Runs :
    /\ WF_vars(Process(a, r))
    /\ \A p \in Pages : WF_vars(UploadPage(a, r, p))

LiveSpec == Spec /\ Fairness

-----------------------------------------------------------------------------
(* Properties *)

\* Every variable stays in its type; in particular no attachment is linked to a
\* message that was not saved.
TypeOK ==
  /\ kind \in [Attachments -> Kinds \cup {None}]
  /\ row \in [Attachments -> {"none", "live", "gone"}]
  /\ ready \in [Attachments -> BOOLEAN]
  /\ link \in [Attachments -> (1..sent) \cup {None}]
  /\ file \in [Attachments -> BOOLEAN]
  /\ content \subseteq Content /\ artifacts \subseteq Piece
  /\ status \in [Attachments -> Statuses \cup {"none"}]
  /\ owned \in [Attachments -> BOOLEAN]
  /\ sync \in [Attachments -> Int \cup {None}]
  /\ lock \in [Attachments -> Runs \cup {None}]
  /\ register \in [Attachments -> {"idle", "committed", "closed"}]
  /\ confirm \in [Attachments -> [Runs -> ConfirmSteps]]
  /\ poll \in [Attachments -> {"idle", "known"}]
  /\ remove \in [Attachments -> {"idle", "verified", "emptied", "deleted", "refused", "closed"}]
  /\ task \in [Attachments -> [Runs -> TaskSteps]]
  /\ page \in [Attachments -> [Runs -> [Pages -> PageSteps]]]
  /\ uploaded \subseteq Piece
  /\ send \in SendSteps
  /\ sent \in 0..MaxSends
  /\ carries \in [1..MaxSends -> SUBSET Piece]
  /\ deaths \in 0..MaxDeaths
  /\ cut \subseteq Attachments

\* Content belongs to a row that is there: neither a late task nor a page stored
\* while its file is deleted leaves rows behind (models/chat.py:162, 177).
ContentHasItsRow == \A c \in content : Live(c.att)

\* A file is processed again only after an error was reported: every run beyond
\* the first one has taken an error report of its own, however confirmations,
\* late pages and polls interleave (the lock and the status check of
\* attachment_uploaded).
RunsArePaidForByErrors ==
  deaths = 0 =>
    \A a \in Attachments :
      Cardinality(Started(a)) <= 1
        + Cardinality({r \in Runs : task[a][r] = "failed"})
        + Cardinality({x \in Runs \X Pages :
            PageFailed(a, x[1], x[2]) /\ page[a][x[1]][x[2]] # "failing"})

\* Without a second run, a lapsing key or a redelivery, the counter does its
\* work: a PDF is ready only when all its pages are with the provider.
FirstRunReadyMeansSent ==
  (deaths = 0 /\ ~KeysLapse) =>
    \A a \in Attachments : \A r \in Runs :
      (kind[a] = "pdf" /\ ready[a] /\ Started(a) = {r})
        => \A p \in Pages : PieceOf(a, r, p) \in uploaded

\* A file that is shown as being processed is being processed: as long as it is
\* not ready and no error is reported, a task or a page of it is queued or at
\* work, or its confirmation is about to enqueue one, however the pages of
\* several runs meet at their one counter.  There are five ways to leave it with
\* nobody, and no sixth: since its latest confirmation a handler was killed
\* between the status and the publish (routes/chat.py:697-698), this publish
\* raised, process_attachment raised outside its try (tasks/files.py:157,
\* 174-178), the publish of the cleanup raised (321), or a cleanup was killed
\* after it took the counter (327).
ProcessingIsUnderWay ==
  ~KeysLapse =>
    \A a \in Attachments :
      Live(a) /\ ~ready[a] /\ status[a] \in {"processing", "completed"}
        => \/ Busy(a) \/ \E r \in Runs : confirm[a][r] = "set"
           \/ a \in cut

\* In the first run nothing turns a reported error into "completed": only a new
\* confirmation or the TTL takes it back.
ReportedErrorStands ==
  [][\A a \in Attachments :
       (deaths = 0 /\ ~KeysLapse /\ Live(a) /\ Cardinality(Started(a)) <= 1 /\ status[a] = "error")
         => status'[a] # "completed"]_vars

\* A page or a result is in one message at most; it takes two crashes to get it
\* into a second one.
ContentOnce ==
  deaths <= 1 => \A m, n \in 1..MaxSends : m # n => carries[m] \cap carries[n] = {}

\* What a message carries is of files that are linked to this very message,
\* although both are two transactions and files come and go between them.
FilesBelongToTheirMessage ==
  (deaths = 0 /\ send # "saved") =>
    \A n \in 1..sent : \A x \in carries[n] : Live(x.att) => link[x.att] = n

\* Every run that was queued is decided: the file becomes ready, or an error is
\* reported, or it is gone; unless the next task of its chain could not be
\* published, or the cleanup was killed after it took the counter.
EveryRunIsDecided ==
  \A a \in Attachments, r \in Runs :
    (task[a][r] = "queued") ~> (ready[a] \/ status[a] = "error" \/ ~Live(a) \/ a \in cut)

-----------------------------------------------------------------------------
(* What the repository says, and the code does not do *)

\* "all of them must have finished processing" (routes/chat.py:307-308), and
\* ready "says whether the file may be sent" (routes/chat.py:530): a ready PDF
\* has all the pages of one of its runs with the provider.
ReadyMeansEveryPageSent ==
  \A a \in Attachments :
    (kind[a] = "pdf" /\ ready[a]) =>
      \E r \in Runs : \A p \in Pages : PieceOf(a, r, p) \in uploaded

\* After a DELETE "the ownership entry is gone and verify_attachment_id refuses
\* the id" (.context/DECISIONS.md:639-640).
DeletedIsRefused ==
  \A a \in Attachments : remove[a] = "closed" => ~(owned[a] \/ Live(a))

=============================================================================
