# Divaldi in TLA+

Divaldi is a chat application for sheet-metal offers. A user writes to an
assistant and uploads drawings; a worker asks a language model, and turns its
answer into an offer. This directory holds models of its concurrent parts, TLC
configurations that check them, and proofs checked by TLAPS.

    tlc -config MCGeneration.cfg MCGeneration        # one run
    tlapm GenerationProofs.tla                       # one proof module

`PROJECT.json` lists components, runs, mutants, findings, hazards, theorems, and
for every definition the source lines it stands for.

## The system

| part | state | operations | talks to |
|---|---|---|---|
| chat API (`backend/app/routes/chat.py`, `deps.py`) | rows of `chat_sessions`, `chat_messages`, `generation_results`; Redis keys `chat:generation:{user}`, `chat:creation:{user}`, `chat:deletion:{session}` | create, send, retry, delete, poll the result | PostgreSQL, Redis, the task broker |
| chat worker (`tasks/api.py`) | the same rows and keys | `generate_chat_message`, `process_response`, `cleanup_old_results` | provider, calculator, S3 |
| attachment API (`routes/chat.py`, `deps.py`) | rows of `attachments`, `processing_results`, `processing_result_uploadables`; Redis status, ownership, URL cache and confirmation lock | register, confirm, poll, list, download, delete | S3, broker |
| attachment worker (`tasks/files.py`) | the same rows, the page counter of a PDF, S3 objects | `process_attachment`, `process_pdf`/`dxf`/`image`, `upload_pdf_image`, `pdf_upload_cleanup`, two hourly cleanups | provider, S3 |
| accounts and login (`routes/auth.py`, `users.py`, `admin.py`, `tasks/users.py`) | `users`, `sessions` | log in and out, set passwords, edit, delete, expire sessions | PostgreSQL |
| settings (`routes/admin.py`) | one row `settings` | read, save fields of it | read by the chat worker |
| avatars (`routes/users.py`, `tasks/files.py`) | Redis marker and URL cache, one S3 object per user | ask for a link, confirm, process, read | S3, broker |
| rate limiter (`deps.py`) | one Redis counter per user and route | count a request | all routes |
| provider client (`providers/`) | access token, a Redis lock over all workers | refresh, generate, upload | the vendor's API |
| calculator and parsers (`processing/`) | none | price an offer, read DXF and PDF | called by the worker |
| frontend (`frontend/src/app`) | signals of the chat page, the upload queue, the profile | poll, send, upload, delete, navigate | the API |

Requests run in several API processes and tasks in several workers. They share
PostgreSQL (read committed, each handler one session, often several commits) and
Redis. Nothing is held across a `kiq`: a task is a new transaction at an unknown
time, delivered at least once. Locks are Redis keys with a time to live, and
most of them are released by `DEL` without looking at the owner. This is where
the hard behaviours are:

* locks that expire or are deleted by somebody else while their holder works;
* a check in the request and the action in the worker, with anything in between;
* two commits that belong together, and a Redis command before or after a commit;
* a join of parallel page tasks through a counter that also expires;
* rows that a delete or an hourly cleanup removes under a running task;
* crashes, redelivery, and a broker or a provider that refuses.

What makes each part correct:

* chat turn: one generation per user, no answer without its question, a result
  that belongs to the turn that is waited for, no rows of a deleted session, no
  lockout, every accepted turn is settled;
* attachments: a ready file has been processed as a whole, an error stays
  until somebody retries, content goes into one message and the message is the
  one the file is linked to, a deleted file leaves nothing and is refused, every
  run is decided;
* accounts: an instance never loses its superusers, a password change ends the
  other sessions of the user, no session outlives its account;
* settings: a save changes what it sent and nothing else, a lost race refuses
  nobody, the row names an author who exists;
* provider client: one caller at a time, and nobody releases another's lock;
* rate limiter: a refusal ends with its window;
* avatars: a request is processed once, and the cache does not hide a picture;
* offer and drawings: the sheet says what the answer says, the measurements what
  the drawing says (old polylines are found to be missed);
* upload widget: a pool of three slots that never stands still, a page that knows
  whether files upload, no file on the server that nobody knows of, and a message
  that takes along every file shown as uploaded;
* list of chats: no chat is skipped between two pages, and the page shows what its
  pager and sort heads say.

## Plan

| order | module | models | composed with | state |
|---|---|---|---|---|
| 1 | `Conversation`, `Generation` | the chat turn | `Generation` implements `Conversation` | done |
| 2 | `GenerationProofs` | theorems about it | | done |
| 3 | `Attachments` | files from link to message | | done |
| 4 | `AttachmentsProofs` | theorems about it | | done |
| 5 | `Accounts` | logins, passwords, roles, user management | | done |
| 6 | `Settings` | the settings row | extends `Accounts` | done |
| 7 | `AccountsProofs`, `SettingsProofs` | theorems about them | | done |
| 8 | `UploadPool`, `UploadQueue` | the upload widget, its calls, the page that sends and the rows on the server | `UploadQueue` implements `UploadPool` | done |
| 9 | `ProviderClient`, `RateLimiter` | the provider's lock and tokens; the counter of a route | | done |
| 10 | `Avatar` | marker, worker, cached link | | done |
| 11 | `Offer` | from an answer to `kp.xlsx` | the rates of `Settings`, reduced to versions | done |
| 12 | `DxfReader` | the parser of drawings | a model of the program that writes them | done |
| 13 | `ChatList` | the list of chats and the history page | | done |
| 14 | `MCServices` | 8 to 13 in one run | they share no state | done |
| 15 | `UploadQueueProofs`, `ServicesProofs` | theorems about 8 to 10 | `ServicesProofs` is about provider client, rate limiter and avatars | done |
| 16 | `ChatListProofs`, `ProcessingProofs` | theorems about the list of chats; about the offer and the parser of drawings | | done |

Still worth doing: the promise of a *file* (absent, pending, ready, failed, gone) as an
abstract specification that `Attachments` implements while the file is confirmed once,
checked and proved step by step; the polling of the chat page; the rest of the
parser's coverage (PDF).

## Generation

A turn is one POST and the one task it enqueues. `req[t]` follows the handler:
`chat_lock` reads the generation key (`ReqCheck`) and takes the creation key
(`ReqLock`), then the body commits (`CreateSession`, `SendSave`, `SendLink`,
`RetryRead`), enqueues (`Enqueue`), and the finally clause deletes the key
(`ReqUnlock`). Where the broker fails, the publish may raise there too (`EnqueueFails`):
the message stays and no task comes. `job[t]` follows `generate_chat_message`
(`JobClear` to `Publish`) and `process_response` (`PrCommit` to `PrRelease`), with both
error paths: `_add_error_result` is a commit (`AddErrorResult`) and a `DEL`
(`ReleaseKey`), and the outer `except` and `finally` clauses repeat them. `delete_chat`
takes no lock and is two actions of its own. Keys expire, a killed handler stops where
it is, and a killed worker's task starts again.

The keys hold `"1"` in the code. The model stores the turn that set them, and no
guard reads it. `unguarded` is a ghost: the turns whose key went away while they
worked. Since the code never checks a key's owner, this is what the guarantees
of the lock have to be stated relative to.

The bounds are `Turns` (POSTs) and `MaxDeaths`. One user is enough, as both locks
are per user. Two turns show every race of two handlers and two tasks; the run
`one_generation` takes three, since a stray release needs a third turn to harm.

| run | shows |
|---|---|
| `generation` | 2 turns, 2 sessions, generation keys that may lapse, 1 killed process, failing broker: mutual exclusion relative to lost keys, one handler per user, what a success row means, nothing outlives its session, how a key can be lost, what is asked; and, until a process is killed, that failed turns do not also answer and which ends leave the key |
| `generation_live` | 2 turns on 1 session, 1 killed process, failing broker: the code implements `Conversation`, its fairness included, so every accepted turn is settled; no lockout |
| `one_generation` | violation: two generations of a user at work, after the double release of `process_response` |
| `stale_poll` | violation: `running=false` with the result of the earlier turn, before the worker has started |
| `lost_reply` | violation: two sends are accepted before a task takes the key; the second task deletes the row that the first has just stored (`api.py:122`), finds the key not yet released and returns (`:133-135`), and no result is left. Sessions that are being deleted do not count |

`Conversation` is what the users see: a turn is asked, accepted and settled by an
answer, an error or nothing; an answer appears together with the result that
reports it, in a live chat with a question and no other result; a retry follows an
error. It has no locks, queues or keys. `Chat` maps `Generation` to it: a session
whose DELETE has begun is still live, `msgs` is the chat, `result` what a poll may
report, and `PhaseOf` folds the steps of handler and task into the phase of a turn.
`Again` (`Redo`) exists only where processes may be killed: a redelivered task works
on a settled turn once more. Taking and losing the generation key, lapsing keys,
the tombstone and refused rows are stutters, which is the point: no race of the
locks shows up as an answer without a result or a result without a question.
`RefinesConversation` is `Chat!Spec` with its fairness, so it includes that every
accepted turn is settled. No key lapses while it is needed in the run; the
theorem `ImplementsConversation` covers the lapses, too.

Fairness (`LiveSpec`): a handler past its lock goes on, queued and running tasks
go on, and Redis keys run out. The event loop, the broker and Redis's clock
justify this. Nothing is assumed of clients, deletes or cleanups. A provider call
ends because the HTTP client has a timeout.

Deadlock checking is off in all runs: a bounded number of POSTs is used up, and
then nothing has to happen.

### What is proved

`GenerationProofs` proves, for all users, sessions, turns, bounds and fault
switches:

* `TypeCorrect`: `Spec => []TypeOK`.
* `OneGeneration`: `OneGenerationWhileGuarded`. It is not inductive, because it
  says nothing of the key. `WorkingHoldsKey` is the strengthening: whoever works
  holds the key or is in `unguarded`. Two holders of one key are the same turn.
* `GuardLoss`: the action property `GuardLostOnlyToStrayRelease`, from the same
  invariant, since a release by a guarded turn deletes its own key.
* `OneHandler`: `OneHandlerPerUser`, from `HandlerHoldsKey`, unless the creation
  key may lapse.
* `DeletedStaysDeleted`: `NothingOutlivesItsSession`.
* `SuccessIsBacked`: `SuccessIsBackedByTheChat`, with `BackingInv`: a handler
  enqueues once, the question a task works on stays in the chat, and success
  rows come from `process_response`.
* `AsksNewest`: `AsksTheNewestQuestion`, from `SystemPromptFirst` and a lemma on
  what `_history_up_to_last_user_message` returns.
* `ImplementsConversation`: `Chat!Safe`, step by step, with `BackingInv` for the
  question behind an answer. Its fairness is left to the run.
* `FailedStaySilent`: `FailedTurnsStaySilent`, which is about the time before a
  process is killed. It is proved of `Conversation` (`Silent`: who is not settled has
  neither answered nor failed, and who failed did not answer) and carried over by the
  refinement; `SettledStays` says that only a crash brings a settled turn back.
* `KeyLeaks`: `OnlyCancelledOrFailedLeakTheKey`, before a process is killed, from
  `KeyHolders`: a key names a turn of its user that is at work, or that has ended
  in one of the two named ways.

The assumptions are those named in the module: sessions have an owner, `None` is
no turn, switches are Boolean and `MaxDeaths` a natural number. Users, sessions
and turns need not be finite. The liveness properties are model-checked
only.

### What is left out

Renaming chats, the offer file that `process_response` attaches, the age of
results in `cleanup_old_results`, a worker killed between publishing
`process_response` and its own acknowledgement, the cascade from a deleted user,
and a second DELETE of a session that is already gone (it leaves a tombstone
that nothing reads). `api.py:170-177` cannot be
reached: a null response has already raised (`api.py:162-163`), and what the
client returns otherwise is never falsy.

## Attachments

One session. `register`, `confirm`, `poll` and `remove` follow the handlers,
`task[a][r]` follows run `r` of a file from `process_attachment` on, and
`page[a][r][p]` follows one `upload_pdf_image` and the `pdf_upload_cleanup` it
enqueues. `content` is the union of the two processing tables, so that `send_message`
collects, deletes and links rows as the code does: check, collect, commit, link.
Status, ownership and counter are Redis keys with a TTL. The hourly cleanups may
take any row of a file in `Old` (the files that live to be an hour old), as the
model has no clock. Of a status poll the model has the ownership check and the entry
it writes; the answer changes nothing.

A publish (`kiq`) is a step that may raise, and a process may be killed between any
two steps that leave something behind. What then happens follows the code:
`ConfirmEnqueue`, `Dispatch` and `CountPage` raise with nobody told; a killed handler
is gone with its request (`ConfirmDies`); a killed task is delivered again, before it
has published (`TaskDies`, `PageDies`) and after it (`DispatchDies`, `PdfFanOutDies`:
the second delivery publishes everything again and takes a run of its own); a killed
`pdf_upload_cleanup` finds its counter taken (`CleanupDies`). `cut` is a ghost: the
files that lost the next task of their latest run in one of these ways; a new
confirmation takes a file out of it, and no guard reads it.

`SendCollect` reads uploadables and results in one step, and `SendSave` deletes
them with the commit; the code has a DELETE between its two SELECTs, inside
the same transaction. `RemoveObjects` reads the row and deletes its objects in one
step. A `gather` that fails stores any subset of the pages, and a publish loop
that fails has published any subset.

The bounds are the files, `Runs` (confirmations of a file), `Pages`, `MaxSends`,
`MaxDeaths`, and which files are `Watched`, `Removable` and `Old`. One file is
enough for the counter and the verdict, since files share no key. Two pages are
the smallest join; two runs the smallest retry; two messages the smallest case
of double content. `KeysLapse` is FALSE in the runs: status and counter outlive
a run, and expire after it. With `KeysLapse` TRUE `EveryRunIsDecided` fails: when
the counter runs out between the last DECR and the cleanup, the cleanup takes
itself for a duplicate and the file is never decided.

| run | shows |
|---|---|
| `attachments` | 1 file of any kind, 1 run, 1 page, 2 messages, delete, polls, cleanups, 1 killed process: content has its row, is in one message, and that message is the linked one; every run is decided, unless its file is `cut` |
| `attachment_runs` | 2 runs, 2 pages, 1 killed process, publishes that raise: processing again costs an error report, a first run makes a PDF ready only when all pages are sent, and nothing overwrites its error; in any run a file that is shown as being processed is at work, or got stuck in one of five named ways |
| `pdf_retry` | violation: a PDF that is confirmed again becomes ready without its pages |
| `deleted_owner` | violation: a poll writes the ownership entry of a deleted file |

`FirstRunReadyMeansSent` and `ReportedErrorStands` are restricted to one run on
purpose: `pdf_retry` shows that they fail for two. Fairness: workers take and
finish tasks. Nothing is assumed of clients.

### What is proved (`AttachmentsProofs.tla`)

For every set of files, pages and runs, any number of messages and of killed
processes, whether keys lapse or not, from the module's named assumptions:

| theorem | property | argument |
|---|---|---|
| `TypeCorrect` | `TypeOK` | inductive together with `SendRoom`: a send that has passed its check leaves room for one more message, and one that has saved its message has one |
| `ContentCorrect` | `ContentHasItsRow` | inductive as it stands, given the types. Content is only added while its file's row is there (`PdfStore`, `DirectCommit`) or next to a row of the same file (`PageSend`), and `DropRows` takes both |
| `FilesBelong` | `FilesBelongToTheirMessage` | not inductive: between the two commits of `send_message` the message exists and its files are unlinked. `FilesInv` says what holds there (`UnlinkedCollected`, `UnlinkedSaved`, `LinkedBefore`) and that a row is inserted once (`Registered`), so that a file that was deleted never comes back under its id |
| `SentOnce` | `ContentOnce` | not inductive: `OnceInv` gives two reasons why a sent piece is not collected again. `Spent`: its task has stored it and the row was deleted with the message (`EnqueuedOnce`: a task is enqueued once). `Bound`: its file is linked, about to be, or gone. A crash takes away one of the two |
| `PaidRuns` | `RunsArePaidForByErrors` | not inductive: `Paid` adds that wherever the next run may start (`MayStart`: an error stands on a live file, or a handler has seen one) the reports already cover all runs. `Ordered` supplies the order of things it needs: one handler behind the lock, pages only of a task that has ended, no cleanup error on a live row. Started runs and reports are finite sets that only grow (`FailsStand`, `CountsGrow`) |
| `FirstRunSent` | `FirstRunReadyMeansSent` | not inductive: `Joins` says that without a report the counter equals the pages still to come, and that nobody cleans up before the last of them; with one, the status is "error" as long as anything runs, and nothing is approved. `ReadyIsSent` then holds where `ready` is written |
| `UnderWay` | `ProcessingIsUnderWay` | not inductive: `Tended` says who decides the file. Some run is `OnDuty`: its handler or task is at work, a page is in the cleanup, a page waits for the cleanup and the counter is still there to be taken, or the counter is not above the pages that are `Coming` to it, so that one of them will be the last. The other runs may take the counter down or away; only `PdfCount` sets it up, and its task is then on duty itself. Redelivered tasks and pages come again, which only adds to them (`DeathTended`). A publish that raises and a killed cleanup break the argument, and are what `cut` is for. `Bounded` keeps the counter below the number of pages, `Fresh` keeps work from files not yet registered |
| `ErrorStands` | `ReportedErrorStands` | `Paid` and `Joins` together: an error on a live file with one run is this run's report, and a run with a report is neither approved nor committed |

`PaidRuns`, `FirstRunSent` and `ErrorStands` hold until a process is killed, the last
two and `UnderWay` for keys that outlive the run, as their properties say.
`EveryRunIsDecided` is liveness and stays with TLC; `UnderWay` is its safety half,
without bounds, for keys that outlive the run. It does not say that a file always has
somebody to decide it, which is false: there are five ways to strand one, and a sixth
is excluded. Since the latest confirmation

1. the handler was killed between status and publish (`chat.py:697`, `698`),
2. its publish raised (`chat.py:698`),
3. `process_attachment` raised outside its `try` (`files.py:157`, `174-178`),
4. the publish of the cleanup raised (`files.py:321`), or
5. a cleanup was killed after it took the counter (`files.py:327`): the next delivery
   takes itself for a duplicate.

Such a file is shown as "processing" (or "completed", and not ready) until the 600 s of
the status are over, and a new confirmation is refused meanwhile.

Left out: failures of Redis itself, in the error reports and the counter too
(`files.py:50-52`, `314`, `319`); a second delivery of a cleanup that had finished, or
of a page task whose cleanup is already on its way (both add a cleanup, which may decide
the file early, as in `pdf_retry`, and leave none undecided); the list and download
endpoints and the URL cache (reads), file names and content types outside the four that
are accepted, the 10 s lapse of the confirmation lock, S3 garbage
(`cleanup_orphan_attachments` deletes no object; `.context/LESSONS.md` documents it),
and the offer files that the chat worker adds to a session.

## Accounts and settings

`Accounts` is the user management over `users` and `sessions`. A request `o` is read
committed, statement by statement: `AdminEnter` reads the caller (`require_login`,
`require_admin`), `AdminRead` reads and judges the account it is about, and
`ResetCommit`, `EditCommit`, `DeleteCommit`, `CreateCommit` commit. A login is
`LoginVerify` and `LoginOpen`, a change of one's own password `ChangeVerify` and
`ChangeCommit`. The latter takes the flushed UPDATE, the DELETE of the sessions and the
COMMIT (`users.py:76-78`) together: a login that commits between them is in `racing`, as
one is that had checked the old password before. What was read is not read again, so
ranks and passwords may be stale at the commit. Two facts of the ORM and the database
matter and are part of the actions: an UPDATE names only the columns whose value differs
from what was read (`EditCommit`), and a session cannot be inserted for an account that
is gone (`LoginOpen`).

`Settings` extends it with the one row of settings. A save is `SaveEnter`,
`SaveRead`, `SaveCommit`, and after an `IntegrityError` `SaveConflict`, `SaveAdopt`
and `SaveCommitAgain` or `SaveFails`. `Updated` is the same partial UPDATE;
`Inserted` the first row. `DeleteAccount` joins a deletion with the row's
`ON DELETE SET NULL`.

Ghosts: the keeper of a password (the session in which its owner chose it), the
password a session was opened with, `racing` (logins between check and commit
when the password changed) and `latest` (what the last accepted save sent).
The names of accounts appear as the 409 they may cause, `expires_at` of a session
as `SessionEnds` at any time, and `TEST_INSTANCE_MODE` not at all, as it turns
endpoints off. Values of a field are the default and another one: only equality
matters.

| run | shows |
|---|---|
| `admin` | 2 accounts of any roles, 2 requests, 2 saves: the properties below, except `SettingsTypeOK`, which is left to its proof |
| `last_write` | violation of `LastWriteWins`, with 1 account and 2 saves that overlap |

Two requests show each race of two commits, and with two accounts one acts on the other.
Two saves show the race of the first saves and the stale UPDATE of a row that was there
before, and a deletion is a third party to both. Deadlock checking is off: requests are
used up. Nothing here is live; a handler either commits or does not.

`SuperusersStay` speaks of *settled* superusers: a request that has read an
account as an admin may still demote it after a promotion that it has not seen.
By the same theorem the way the API describes for deleting a superuser ("demote
them first", `admin.py:182`, `193-194`) does not exist: `ensure_outranks` is strict,
so nobody can demote one. `OnlyTheDeletedAreRefused` says the same of the comment
at `admin.py:270-271`: the 409 is never caused by another save that rolled back (the
database lets the second INSERT through then), only by a deleted author.

### What is proved (`AccountsProofs.tla`, `SettingsProofs.tla`)

For all sets of accounts, requests, saves and values:

| theorem | property | argument |
|---|---|---|
| `TypeCorrect` | `TypeOK` | with `Taken`, what a request has read by each step; a token is new because its login has not ended before |
| `SessionsCorrect` | `SessionsHaveUsers` | inductive given the types: only `DeleteCommit` takes an account, and takes the sessions with it |
| `SuperusersCorrect` | `SuperusersStay` | `NothingAboveSuperusers`: no rank is above theirs, so `AdminRead` cannot make a request a threat to one |
| `SignedOutCorrect` | `OthersAreSignedOut` | with `LoginsAccounted`, the same claim about sessions still to be opened |
| `SettingsImplementAccounts` | | a step of `Settings` is one of `Accounts` or a stutter; the theorems above carry over |
| `SettingsTypeCorrect`, `AttributionCorrect`, `RefusalsCorrect`, `OnlySentFieldsCorrect` | `SettingsTypeOK`, `AttributionExists`, `OnlyTheDeletedAreRefused`, `OnlySentFieldsChange` | `SettingsInv`: the row is never deleted once it is there (`Saving`), and a conflict without a row is of an author who is gone (`Refused`); `Written` says what an UPDATE or INSERT that breaks no key leaves |

Assumptions: names of accounts, requests and `None` differ from each other and
from the names of roles, and the default is a value.

## Upload widget

`UploadQueue` is `DragNDropComponent` (items, slots, state), the observable of
`AttachmentUploadService` behind every slot, and what these meet: the page's open
chat and its send, and the rows on the server. Angular runs one handler at a
time, so a handler is one action, the chain `finishItem`, `settleIfFinished`,
`pumpQueue`, `startItem` included. `step[f]` is what the observable waits for:
the answer of `requestUpload` (`register` until the server has handled it, then
`registered`), the POST to the storage, `confirmUploaded`, the timer and the poll.
Each call may fail in the browser whether or not the server did its part
(`RequestFails`, `UploadFails`, `GiveUp` at the poll limit); unsubscribing leaves
a registration on its way (`cutOff`).

`RemoveItem` and `Reset` follow the code to the lines that delete on the server
or do not. `why` is a ghost, the reason why no item knows a row any more; no
guard reads it.

`UploadPool` is what the widget promises, without calls or a server: files wait,
run in slots, end, and no slot is free while a file waits. The mapping takes
`waiting` from the statuses, `running` from `activeUploads` and `ended` from the
statuses. `RefinesUploadPool` is `Pool!Spec` with its fairness, so it includes that
every upload that is not taken out ends.

* `StrandedFiles` is about the comment at `drag-n-drop.component.ts:208-209`: a file
  that is removed "has to be removed there too, otherwise it stays on the session
  and is attached to the next message". The model finds five ways in which the widget
  loses a row (its id had not been read; a retry registers the file again and
  forgets the first row; the widget is emptied under it by an accepted message or by
  leaving the page; its DELETE names the chat that was opened meanwhile; its DELETE is
  refused or lost, `DeleteFails`, when the item has gone from the list already and
  `:230-232` only tells the user), and the property says that there is no sixth.
* `DoneFilesTravel` joins the widget with `pdf_upload_cleanup`, which reports
  "completed" before the row is ready: the message is refused then, and never
  accepted without the file.
* The session of an upload is read when a slot becomes free, not when the file
  is dropped (`:358`), so a file that waits while another chat is opened goes to
  that chat; `target` keeps which.

Fairness (`Fairness`): weak fairness of each upload's own steps, as every HTTP
call ends in the browser, by an answer or an error, and timers fire. Nothing is
assumed of the user, the worker or the server. A status that stays "processing"
is ended by the poll limit, which the run takes as 1 instead of 150.

### What is proved (`UploadQueueProofs.tla`)

For any number of files, chats, slots, rows and sends:

| theorem | property | argument |
|---|---|---|
| `QueueInvariant` | | `QInv`: the status of an item, `activeUploads` and the calls agree, `uploadingChange` follows from them, and the slots are full or nobody waits. The lemmas go along the code: `PumpFills`, `SettleOrPumpFills`, then one per handler. `SettleOrPump` is the reason for the invariant: that it fills the slots follows only if they were full before, or nobody waited |
| `PageIsTold`, `SlotsAreUsed` | `BusyIsTold` | from `QInv` |
| `ImplementsPool` | the safety part of `RefinesUploadPool` | step simulation from `QInv` |
| `RowsInvariant` | | `RInv` on top of `QInv`, next lines |
| `WidgetTypes` | `TypeOK` | `RowTypes` and `ItemTypes`: the list has each of its items once, and they are the files that have a status. That removing by id leaves the others in place needs the first |
| `NoFileIsStranded` | `StrandedFiles` | not inductive: it speaks of rows that a file's item has lost, and the row may be known to an answer on its way (`answer`), to an item (`id`) or to a DELETE. `InSight` is the bookkeeping of the three; `IsHeard` says when an answer is held |
| `ShownFilesTravel` | `DoneFilesTravel` | not inductive: the message shows ids, and the server looks for them in the chat of the message. `KnowsItsRow` (an upload knows a row of the chat it was started for) gives `ShowsItsChat` when the page sends, and rows never change chats |

Assumed of the constants: the bounds are natural numbers, there is a slot, the set of
files is finite, and there is a chat (the page always shows one).

## Avatars

`Avatar` follows `users_get_avatar`, `users_set_avatar`, `users_set_avatar_complete`
and `process_avatar` command by command over the marker, the cached link and the
two objects. Keys lapse, the presigned POST may be used several times, tasks are
redelivered, and the storage fails. `NoneIsExplained` says when a user who has an
avatar may still be told that there is none: while the task that stored it has not
come to the cache, after a reader who had looked before (or whose `head_object`
failed) has cached its answer, or after a task that died in between. `late` and
`taken` are ghosts. `ServicesProofs` proves it and `OncePerRequest` for any number of
readers and tasks; the invariant counts markers and takers.

The docstring at `users.py:146` ("Requesting a new upload cancels a previous
unconfirmed one") is not kept to the letter: the earlier POST still works and a task
that was queued takes the new marker, which is one processing for the new
request. `DeleteRaw` removes whatever is under the key, a picture posted after
`ReadPicture` as well (`files.py:147`); confirming it is then answered 400.

## Rate limiter and provider client

`RateLimiter` is `user_rate_limiter` for one key. `WindowsEnd`: a counter that
does not lapse is about to get its expiry from the request that created it, or
that request was cut off between INCR and EXPIRE; such a counter stays for good.
If the key lapses between INCR and TTL, `Retry-After` is negative (`deps.py:140`);
the model keeps the command and not its number. `ServicesProofs` proves
`WindowsEnd` and that no more than the quota passes in the life of a counter.

`ProviderClient` is `_authed_request` in several processes with one lock (scope
PERS) and a token per process. The lease is 120 s and is not extended, an
authorization and a request take up to 10 + 120 s each, so `LeaseRunsOut` is enabled
whenever the lock is held. `OneRequestOpen`: whoever has not outlived its lease
owns the lock. `ServicesProofs` proves it, and that an answer is lost to
`LockNotOwnedError` only after an overrun. A 401 raises `AuthorizationError` and
leaves the token in place (`client.py:64-66`), so a token that the vendor revokes is
used until it is old.

## Offer and drawings

`Offer` is the path from the positions of an answer to the saved sheet: the indices
of materials (a Python index: negative ones count from the end, one past the end
raises `IndexError`, which `models.py:64` does not catch), the rates as they are when
`_load_parameters` reads them, the slice of ten, validation, clearing, writing and
saving. Cells hold what they were computed from. `OfferIsTheAnswer` compares each
cell of the saved sheet with an independent description; it fails when a block is
not cleared, a row or a column is off, or the rates are read again meanwhile.

`ProcessingProofs` proves it for every list of materials, number of positions, blocks and
edits, and every height of a block that holds the rows of one
(`OfferAssumption`). The property is about the stage "saved" only, so `OfferInv` says
what the sheet is after `n` positions: the owned cells of the first `n` blocks hold
what was answered, by the rates in `used`, and those of the other blocks are
blank. `CellsApart` (a cell is of one block, at one offset) is why writing a block
leaves the others alone; `RowOf` takes a row to its block by division; and
`WrittenIsExpected` compares the two descriptions cell by cell. The proof needed one
repair of the model: the guards of the CASE in `Expected` overlapped, which TLC
resolves by their order and the logic does not.

`DxfReader` composes `parse_dxf` with the program that writes the drawing: sections in
any order, shapes, and a file that may end after any group. The parser keeps nothing but
`in_entities`, the entities and the current one (the last, since it outlives its
section), so `ReadGroup` takes a turn of its loop for every group that is written, and
`parser` is what the loop would end with if the file ended there.
`OnlyOldPolylinesAreMissed` compares what is measured of that with what has been drawn.
It has one exception, `Missed`: both measuring functions have a branch for POLYLINE
(`:188`, `326`) and mean to measure it (`:196`, `333`), but they look for the points in
the entity itself, and in a DXF file these are VERTEX entities of their own. The parser
never measures one: it is in no list and not in the box, and a drawing of nothing else
gives "No measurements found." The property says so, and that everything else is exact.
The unit test for the branch (`test_dxf_parser_entities.py:88-100`) passes because it
writes the points into the entity. The place of a shape is the number of its first
entity, and a list of measurements is a function of these places: their order is that of
the list. Shapes are those of the cfg: a line, a circle, a circle of no radius, an arc,
closed polylines of two and three points, one of a single point, and an old POLYLINE,
whose vertices are entities of their own. Blank and unnumbered lines, encodings, values
that are no number and square roots are left out. A group `2 / ENTITIES` outside a
section header (a block or a layer of that name) makes the parser take what follows for
entities (`:79`); the property excepts such files.

`ProcessingProofs` proves it for every set of shapes that have the points their kind
needs (`ShapesAssumption`), polylines of any number of vertices among them, and for
files of any length. The property looks at the measurements of complete shapes; what
makes it true is where the parser is *within* a shape, so `DxfInv` says that as well:

* between two shapes, in the headers of sections and in blocks, whether the parser
  takes what comes for an entity (`Idle`, `Opening`, `Closing`, `InBlock`);
* within a shape of the section ENTITIES, after `k` of its groups, what its entity
  holds: `Looks` gives, for each kind, the values under every code that a measurement
  reads, and `Sketch` adds that an old POLYLINE is the last entity for four groups and
  the entities behind it are never measured;
* the complete shapes hold all their values, at their places, and no entity before
  `ended` belongs to none of them (`Complete`).

`LooksNext` is the step from `k` groups to `k + 1`, one lemma for each kind: the values of
a light polyline grow at the end of two lists in turn (`LightNext`). `LineMeasured`,
`RoundMeasured`, `LightMeasured` and `OldMeasured` are what is then measured of a
complete shape, and `SegmentsDrawn` that the segments of the parser, with the one that
closes the line appended, are the sides of the polygon. The first model took the
parser's result as a fold over the whole file, and induction over that is out of the
provers' reach; the same loop as a variable that takes one turn a step is not.

## List of chats

`ChatList` is `get_chats` as two statements, the writes that change the order
between them, and `HistoryPageComponent` with several requests on the way.
`PagesDoNotSkip` is the claim of `chat.py:162-163` over a whole walk from the first
page to the last, and its exemptions are what the model found: by the oldest
message a chat that is written to goes to the end and the others move up; a
deletion moves them up as well; and a chat that becomes listed between count and
page makes the answer say that the last page is the last but one. `ShownIsCurrent` is the
comment at `history-page.component.ts:97-98`, failures included. A page that has
become empty shows no pager, so the user cannot go back from it but by reloading.

`ChatListProofs` proves both, for any finite set of chats, any page size and any
number of requests, writes and deletions (`ListAssumption`). Neither is inductive:

* `TheLastAnswerIsShown` (`ShownIsCurrent`) needs `RequestsInOrder`: the request with
  the last number is unique and is for what the pager says.
* `NoChatIsSkipped` (`PagesDoNotSkip`) is about the end of a walk. By the newest
  message, and by number, the set of chats ahead of one that is not written to only
  grows (`AheadOn`). `IsBehind` therefore keeps, for each chat that the walker has not
  seen, that all the pages walked are ahead of it (`PlaceAfterPage`), and `HasMore`
  that the answer has then told of a further page. Chats move while an answer is on
  its way, so both are also said of what the walk becomes if that answer is shown
  (`AnswersKept`).

## The run `services`

`MCServices` extends the seven modules of the sections above. They share no state,
so an initial state picks the part that moves, and the run is the sum of seven
instances. `TypeOK` is the type invariant of the upload widget, and the fairness is
the widget's; nothing of it is enabled in the other parts.

| part | bounds | why they are enough |
|---|---|---|
| uploads | 2 files, 2 chats, 1 slot, 2 rows, 1 message, 1 switch of chats, 1 poll | one file waits for the slot of the other, every removal meets every phase, and a retry has a second row |
| avatar | 2 readers, 1 setter, 2 tasks, 2 pictures, 2 requests | the races are of two; two tasks are the smallest repetition |
| limiter | 2 callers, quota 2, 4 hits, 2 cuts | callers inside each other's gap, and a hit over the quota before and after |
| provider | 3 requests in 2 processes | an overrun owner, the next one, and one that waits |
| offer | 2 materials (1 priced), answers of up to 3 positions, 2 blocks used of 3, 1 edit | one position too many, an index beyond either end, a block to be cleared and one to be left |
| dxf | files of up to 14 groups before the last shape, 2 sections | every pair of shapes, and ENTITIES before, after and without another section |
| list | 3 chats, 1 per page, 3 requests, 2 at a time, 2 writes | a walk over every page and one more request, with a change between any two |

The properties are those named above. Deadlock checking is off: users stop,
bounded counters are used up.

## Not modelled

Text and rendering (the prompt in `harness.py`, templates, components), rasterising
of PDFs, renaming and reading a chat, profile, guards and interceptors, migrations and
deployment, the mock provider.

The polling of the chat page is left out. It drops an answer for another chat
(`calculation-chat.component.ts:515`). A second poll of the same chat that is
answered late is not told apart and stops the polling that a newer send has
started; `stale_poll` shows what the server answers to such polls.

## What is only model-checked

Every invariant and action property of the passing runs is a theorem. What needs
ENABLED stays with TLC: the liveness properties `EveryRunIsDecided` and the absence of
lockouts (`LockoutEnds`), and the fairness in `RefinesConversation` and
`RefinesUploadPool`, whose safety parts are proved.
