-------------------------- MODULE AttachmentsProofs --------------------------
(***************************************************************************)
(* Theorems about Attachments, for every set of files, runs and pages,     *)
(* every number of messages and crashes, and keys that may lapse or not.   *)
(***************************************************************************)
EXTENDS Attachments, FiniteSetTheorems, TLAPS

-----------------------------------------------------------------------------
(* Types *)

\* Where a send stands and how many messages there are.
SendRoom ==
  /\ send \in {"checked", "collected"} => sent < MaxSends
  /\ send = "saved" => sent > 0

Types == TypeOK /\ SendRoom

\* The rows that the actions build are rows of their tables.
LEMMA Pieces ==
  \A a \in Attachments, r \in Runs : \A p \in Pages \cup {"whole"} :
    /\ PieceOf(a, r, p) \in Piece
    /\ Row(a, r, p, TRUE) \in Content
    /\ Row(a, r, p, FALSE) \in Content
BY DEF PieceOf, Row, Piece, Content

\* So are the rows of any set of pages.
LEMMA StoredPieces ==
  ASSUME NEW a \in Attachments, NEW r \in Runs, NEW stored \in SUBSET Pages
  PROVE  /\ {Row(a, r, p, FALSE) : p \in stored} \subseteq Content
         /\ {PieceOf(a, r, p) : p \in stored} \subseteq Piece
<1>1. ASSUME NEW p \in stored PROVE Row(a, r, p, FALSE) \in Content /\ PieceOf(a, r, p) \in Piece
  BY Pieces
<1> QED
  BY <1>1

\* Every step keeps every variable in its type.
LEMMA TypeStep == Types /\ [Next]_vars => Types'
<1> SUFFICES ASSUME Types, [Next]_vars PROVE Types'
  OBVIOUS
<1>0. Cardinality(Pages) \in Int
  BY PagesAssumption, FS_CardinalityType
<1> USE BoundAssumption DEF Types, SendRoom, TypeOK, attachmentRow, storage, redis, handlers,
        workers, messages
<1>1. ASSUME NEW a \in Attachments, Register(a) PROVE Types'
  <2>1. CASE RegisterRow(a)
    BY <2>1 DEF RegisterRow, Kinds
  <2>2. CASE RegisterStatus(a)
    BY <2>2 DEF RegisterStatus, SetStatus, Statuses
  <2>3. CASE BrowserUploads(a)
    BY <2>3 DEF BrowserUploads
  <2> QED
    BY <1>1, <2>1, <2>2, <2>3 DEF Register
<1>2. ASSUME NEW a \in Attachments, Poll(a) PROVE Types'
  <2>1. CASE PollVerify(a)
    BY <2>1 DEF PollVerify
  <2>2. CASE PollCache(a)
    BY <2>2 DEF PollCache
  <2> QED
    BY <1>2, <2>1, <2>2 DEF Poll
<1>3. ASSUME NEW a \in Attachments, Remove(a) PROVE Types'
  <2>1. CASE RemoveVerify(a)
    BY <2>1 DEF RemoveVerify, RemoveStep
  <2>2. CASE RemoveObjects(a)
    BY <2>2 DEF RemoveObjects, RemoveStep
  <2>3. CASE RemoveRow(a)
    BY <2>3 DEF RemoveRow, RemoveStep, DropRows
  <2>4. CASE RemoveKeys(a)
    BY <2>4 DEF RemoveKeys, RemoveStep, SetStatus, Statuses
  <2> QED
    BY <1>3, <2>1, <2>2, <2>3, <2>4 DEF Remove
<1>4. ASSUME NEW a \in Attachments, Expire(a) PROVE Types'
  <2>1. CASE StatusExpires(a)
    BY <2>1 DEF StatusExpires, SetStatus, Statuses
  <2>2. CASE SyncExpires(a)
    BY <2>2 DEF SyncExpires
  <2>3. CASE OwnedExpires(a)
    BY <2>3 DEF OwnedExpires
  <2> QED
    BY <1>4, <2>1, <2>2, <2>3 DEF Expire
<1>5. ASSUME NEW a \in Attachments, NEW r \in Runs, Confirm(a, r) PROVE Types'
  <2>1. CASE ConfirmLock(a, r)
    BY <2>1 DEF ConfirmLock, ConfirmStep, ConfirmSteps
  <2>2. CASE ConfirmStatus(a, r)
    BY <2>2 DEF ConfirmStatus, ConfirmStep, ConfirmSteps
  <2>3. CASE ConfirmFile(a, r)
    BY <2>3 DEF ConfirmFile, ConfirmStep, ConfirmSteps
  <2>4. CASE ConfirmSet(a, r)
    BY <2>4 DEF ConfirmSet, ConfirmStep, SetStatus, ConfirmSteps, Statuses
  <2>5. CASE ConfirmEnqueue(a, r)
    BY <2>5 DEF ConfirmEnqueue, CutIf, ConfirmStep, ConfirmSteps, TaskSteps
  <2>6. CASE ConfirmUnlock(a, r)
    BY <2>6 DEF ConfirmUnlock, ConfirmStep, ConfirmSteps
  <2> QED
    BY <1>5, <2>1, <2>2, <2>3, <2>4, <2>5, <2>6 DEF Confirm
<1>6. ASSUME NEW a \in Attachments, NEW r \in Runs, Process(a, r) PROVE Types'
  <2>1. CASE Dispatch(a, r)
    BY <2>1 DEF Dispatch, CutIf, TaskStep, TaskSteps
  <2>2. CASE TaskError(a, r)
    BY <2>2 DEF TaskError, TaskStep, SetStatus, TaskSteps, Statuses
  <2>3. CASE PdfStore(a, r)
    <3>1. content' \subseteq Content /\ artifacts' \subseteq Piece
      <4>1. PICK stored \in SUBSET Pages :
              /\ content' = content \cup {Row(a, r, p, FALSE) : p \in stored}
              /\ artifacts' = artifacts \cup {PieceOf(a, r, p) : p \in stored}
        BY <2>3 DEF PdfStore
      <4>2. {Row(a, r, p, FALSE) : p \in stored} \subseteq Content
        BY StoredPieces
      <4>3. {PieceOf(a, r, p) : p \in stored} \subseteq Piece
        BY StoredPieces
      <4> QED
        BY <4>1, <4>2, <4>3
    <3>2. task' \in [Attachments -> [Runs -> TaskSteps]]
      BY <2>3 DEF PdfStore, TaskStep, TaskSteps
    <3> QED
      BY <2>3, <3>1, <3>2 DEF PdfStore
  <2>4. CASE PdfCount(a, r)
    BY <2>4, <1>0 DEF PdfCount, TaskStep, TaskSteps
  <2>5. CASE PdfFanOut(a, r)
    BY <2>5 DEF PdfFanOut, TaskStep, TaskSteps, PageSteps
  <2>6. CASE DirectCommit(a, r)
    <3>1. content' \subseteq Content
      <4>1. content' \subseteq content \cup {Row(a, r, "whole", TRUE)}
        BY <2>6 DEF DirectCommit
      <4>2. Row(a, r, "whole", TRUE) \in Content
        BY Pieces
      <4> QED
        BY <4>1, <4>2
    <3>2. task' \in [Attachments -> [Runs -> TaskSteps]]
      BY <2>6 DEF DirectCommit, TaskStep, TaskSteps
    <3>3. ready' \in [Attachments -> BOOLEAN]
      <4>1. PICK b \in BOOLEAN : ready' = [ready EXCEPT ![a] = @ \/ b]
        BY <2>6 DEF DirectCommit, Live
      <4>2. (ready[a] \/ b) \in BOOLEAN
        OBVIOUS
      <4> QED
        BY <4>1, <4>2
    <3> QED
      BY <2>6, <3>1, <3>2, <3>3 DEF DirectCommit
  <2>7. CASE DirectReport(a, r)
    BY <2>7 DEF DirectReport, TaskStep, SetStatus, TaskSteps, Statuses
  <2> QED
    BY <1>6, <2>1, <2>2, <2>3, <2>4, <2>5, <2>6, <2>7 DEF Process
<1>7. ASSUME NEW a \in Attachments, NEW r \in Runs, RunDies(a, r) PROVE Types'
  <2>1. CASE ConfirmDies(a, r)
    BY <2>1 DEF ConfirmDies, CutIf, ConfirmSteps
  <2>2. CASE TaskDies(a, r)
    BY <2>2 DEF TaskDies, TaskSteps
  <2>3. ASSUME NEW t \in Runs, DispatchDies(a, r, t) \/ PdfFanOutDies(a, r, t) PROVE Types'
    <3>1. confirm' \in [Attachments -> [Runs -> ConfirmSteps]] /\ deaths' \in 0..MaxDeaths
      <4>1. Redelivered(a, r, t)
        BY <2>3 DEF DispatchDies, PdfFanOutDies
      <4>2. deaths + 1 \in 0..MaxDeaths
        BY <4>1 DEF Redelivered
      <4> QED
        BY <4>1, <4>2 DEF Redelivered, ConfirmSteps
    <3>2. task' \in [Attachments -> [Runs -> TaskSteps]]
      <4>1. CASE DispatchDies(a, r, t)
        BY <4>1 DEF DispatchDies, TaskSteps
      <4>2. CASE PdfFanOutDies(a, r, t)
        BY <4>2 DEF PdfFanOutDies, TaskSteps
      <4> QED
        BY <2>3, <4>1, <4>2
    <3>3. page' \in [Attachments -> [Runs -> [Pages -> PageSteps]]]
      <4>1. CASE DispatchDies(a, r, t)
        BY <4>1 DEF DispatchDies
      <4>2. CASE PdfFanOutDies(a, r, t)
        <5>1. PICK published \in (SUBSET Pages) \ {{}} :
                page' = [page EXCEPT ![a][r] =
                           [p \in Pages |-> IF p \in published THEN "queued" ELSE page[a][r][p]]]
          BY <4>2 DEF PdfFanOutDies
        <5>2. [p \in Pages |-> IF p \in published THEN "queued" ELSE page[a][r][p]] \in [Pages -> PageSteps]
          BY DEF PageSteps
        <5> QED
          BY <5>1, <5>2
      <4> QED
        BY <2>3, <4>1, <4>2
    <3>4. UNCHANGED <<kind, row, ready, link, file, artifacts, content, status, owned, sync, lock,
                      register, poll, remove, uploaded, send, sent, carries, cut>>
      BY <2>3 DEF DispatchDies, PdfFanOutDies
    <3> QED
      BY <3>1, <3>2, <3>3, <3>4
  <2>5. ASSUME NEW p \in Pages, PageDies(a, r, p) PROVE Types'
    BY <2>5 DEF PageDies, PageSteps
  <2>6. ASSUME NEW p \in Pages, CleanupDies(a, r, p) PROVE Types'
    BY <2>6 DEF CleanupDies, PageSteps
  <2> QED
    BY <1>7, <2>1, <2>2, <2>3, <2>5, <2>6 DEF RunDies
<1>8. ASSUME NEW a \in Attachments, NEW r \in Runs, NEW p \in Pages, UploadPage(a, r, p) PROVE Types'
  <2>1. CASE PageLoad(a, r, p)
    BY <2>1 DEF PageLoad, PageStep, PageSteps
  <2>2. CASE PageSend(a, r, p)
    <3>1. content' \subseteq Content /\ uploaded' \subseteq Piece
      <4>1. /\ content' \subseteq content \cup {Row(a, r, p, TRUE)}
            /\ uploaded' \subseteq uploaded \cup {PieceOf(a, r, p)}
        BY <2>2 DEF PageSend
      <4>2. Row(a, r, p, TRUE) \in Content /\ PieceOf(a, r, p) \in Piece
        BY Pieces
      <4> QED
        BY <4>1, <4>2
    <3>2. page' \in [Attachments -> [Runs -> [Pages -> PageSteps]]]
      BY <2>2 DEF PageSend, PageStep, PageSteps
    <3> QED
      BY <2>2, <3>1, <3>2 DEF PageSend
  <2>3. CASE PageError(a, r, p)
    BY <2>3 DEF PageError, PageStep, SetStatus, PageSteps, Statuses
  <2>4. CASE PageCount(a, r, p)
    <3>1. sync' \in [Attachments -> Int \cup {None}]
      <4>1. Decremented(a) \in Int
        BY DEF Decremented
      <4> QED
        BY <2>4, <4>1 DEF PageCount, CountPage
    <3>2. page' \in [Attachments -> [Runs -> [Pages -> PageSteps]]]
      <4>1. PICK v \in PageSteps : page' = [page EXCEPT ![a][r][p] = v]
        BY <2>4 DEF PageCount, CountPage, PageStep, PageSteps
      <4> QED
        BY <4>1
    <3>3. cut' \subseteq Attachments
      BY <2>4 DEF PageCount, CountPage, CutIf
    <3> QED
      BY <2>4, <3>1, <3>2, <3>3 DEF PageCount, CountPage
  <2>5. CASE CleanupTake(a, r, p)
    BY <2>5 DEF CleanupTake, PageStep, PageSteps
  <2>6. CASE CleanupObjects(a, r, p)
    BY <2>6 DEF CleanupObjects, PageStep, PageSteps
  <2>7. CASE CleanupJudge(a, r, p)
    BY <2>7 DEF CleanupJudge, PageStep, PageSteps
  <2>8. CASE CleanupApprove(a, r, p)
    BY <2>8 DEF CleanupApprove, PageStep, SetStatus, PageSteps, Statuses
  <2>9. CASE CleanupCommit(a, r, p)
    BY <2>9 DEF CleanupCommit, PageStep, PageSteps
  <2>10. CASE CleanupError(a, r, p)
    BY <2>10 DEF CleanupError, PageStep, SetStatus, PageSteps, Statuses
  <2> QED
    BY <1>8, <2>1, <2>2, <2>3, <2>4, <2>5, <2>6, <2>7, <2>8, <2>9, <2>10 DEF UploadPage
<1>10. ASSUME Send PROVE Types'
  <2>1. CASE SendCheck
    BY <2>1 DEF SendCheck, SendSteps
  <2>2. CASE SendCollect
    <3>1. {PieceOf(c.att, c.run, c.part) : c \in {d \in content : d.att \in Unlinked /\ d.hasId}} \subseteq Piece
      BY DEF Content, Piece, PieceOf
    <3>2. carries' \in [1..MaxSends -> SUBSET Piece]
      BY <2>2, <3>1 DEF SendCollect
    <3> QED
      BY <2>2, <3>2 DEF SendCollect, SendSteps
  <2>3. CASE SendSave
    BY <2>3 DEF SendSave, SendSteps
  <2>4. CASE SendLink
    BY <2>4 DEF SendLink, SendSteps
  <2> QED
    BY <1>10, <2>1, <2>2, <2>3, <2>4 DEF Send
<1>11. ASSUME SendDies PROVE Types'
  BY <1>11 DEF SendDies, SendSteps
<1>12. ASSUME CleanupOrphans PROVE Types'
  BY <1>12 DEF CleanupOrphans, DropRows
<1>13. ASSUME CleanupStaleResults PROVE Types'
  BY <1>13 DEF CleanupStaleResults
<1>14. CASE UNCHANGED vars
  BY <1>14 DEF vars
<1> QED
  BY <1>1, <1>2, <1>3, <1>4, <1>5, <1>6, <1>7, <1>8, <1>10, <1>11, <1>12, <1>13, <1>14 DEF Next

\* In every reachable state every variable is in its type.
THEOREM TypeCorrect == Spec => []TypeOK
<1>1. Init => Types
  BY BoundAssumption DEF Init, Types, SendRoom, TypeOK, ConfirmSteps, TaskSteps, PageSteps, SendSteps
<1>2. Spec => []Types
  BY <1>1, TypeStep, PTL DEF Spec
<1> QED
  BY <1>2, PTL DEF Types

-----------------------------------------------------------------------------
(* Content and rows *)

\* Steps that touch neither table keep every content with its row.
LEMMA QuietTables ==
  ContentHasItsRow /\ UNCHANGED <<row, content>> => ContentHasItsRow'
BY DEF ContentHasItsRow, Live

\* A process killed at its work on a run leaves tables, statuses and messages
\* alone; what it changes is where the run goes on.
LEMMA DeathsLeave ==
  ASSUME NEW a \in Attachments, NEW r \in Runs, RunDies(a, r)
  PROVE  /\ UNCHANGED <<kind, row, ready, link, content, status, owned, sync, register, remove,
                        uploaded, send, sent, carries>>
         /\ deaths' = deaths + 1
<1> USE DEF attachmentRow, redis, handlers, workers, messages
<1>1. CASE ConfirmDies(a, r) \/ TaskDies(a, r)
  BY <1>1 DEF ConfirmDies, TaskDies
<1>2. ASSUME NEW t \in Runs, DispatchDies(a, r, t) \/ PdfFanOutDies(a, r, t)
      PROVE  /\ UNCHANGED <<kind, row, ready, link, content, status, owned, sync, register, remove,
                            uploaded, send, sent, carries>>
             /\ deaths' = deaths + 1
  BY <1>2 DEF DispatchDies, PdfFanOutDies, Redelivered
<1>3. ASSUME NEW p \in Pages, PageDies(a, r, p) \/ CleanupDies(a, r, p)
      PROVE  /\ UNCHANGED <<kind, row, ready, link, content, status, owned, sync, register, remove,
                            uploaded, send, sent, carries>>
             /\ deaths' = deaths + 1
  BY <1>3 DEF PageDies, CleanupDies
<1> QED
  BY <1>1, <1>2, <1>3 DEF RunDies

\* Where rows go, their content goes with them (DropRows).
LEMMA CascadeKeepsRows ==
  ASSUME NEW gone \in SUBSET Attachments, Types, ContentHasItsRow, DropRows(gone)
  PROVE  ContentHasItsRow'
<1>1. ASSUME NEW c \in content' PROVE row'[c.att] = "live"
  <2>1. c \in content /\ c.att \notin gone
    BY <1>1 DEF DropRows
  <2>2. c.att \in Attachments
    BY <2>1 DEF Types, TypeOK, Content
  <2> QED
    BY <2>1, <2>2 DEF DropRows, ContentHasItsRow, Live
<1> QED
  BY <1>1 DEF ContentHasItsRow, Live

\* Every step keeps every content with its row.
LEMMA ContentStep == Types /\ ContentHasItsRow /\ [Next]_vars => ContentHasItsRow'
<1> SUFFICES ASSUME Types, ContentHasItsRow, [Next]_vars PROVE ContentHasItsRow'
  OBVIOUS
<1>1. ASSUME NEW a \in Attachments, Register(a) PROVE ContentHasItsRow'
  <2>1. CASE RegisterRow(a)
    <3>1. row' = [row EXCEPT ![a] = "live"] /\ content' = content
      BY <2>1 DEF RegisterRow
    <3> QED
      BY <3>1 DEF ContentHasItsRow, Live, Types, TypeOK, Content
  <2>2. CASE RegisterStatus(a)
    BY <2>2, QuietTables DEF RegisterStatus, attachmentRow
  <2>3. CASE BrowserUploads(a)
    BY <2>3, QuietTables DEF BrowserUploads, attachmentRow
  <2> QED
    BY <1>1, <2>1, <2>2, <2>3 DEF Register
<1>2. ASSUME NEW a \in Attachments, Poll(a) PROVE ContentHasItsRow'
  <2>1. CASE PollVerify(a)
    BY <2>1, QuietTables DEF PollVerify, attachmentRow
  <2>2. CASE PollCache(a)
    BY <2>2, QuietTables DEF PollCache, attachmentRow
  <2> QED
    BY <1>2, <2>1, <2>2 DEF Poll
<1>3. ASSUME NEW a \in Attachments, Remove(a) PROVE ContentHasItsRow'
  <2>1. CASE RemoveVerify(a)
    BY <2>1, QuietTables DEF RemoveVerify, attachmentRow
  <2>2. CASE RemoveObjects(a)
    BY <2>2, QuietTables DEF RemoveObjects, attachmentRow
  <2>3. CASE RemoveRow(a)
    BY <2>3, CascadeKeepsRows DEF RemoveRow
  <2>4. CASE RemoveKeys(a)
    BY <2>4, QuietTables DEF RemoveKeys, attachmentRow
  <2> QED
    BY <1>3, <2>1, <2>2, <2>3, <2>4 DEF Remove
<1>4. ASSUME NEW a \in Attachments, Expire(a) PROVE ContentHasItsRow'
  <2>1. CASE StatusExpires(a)
    BY <2>1, QuietTables DEF StatusExpires, attachmentRow
  <2>2. CASE SyncExpires(a)
    BY <2>2, QuietTables DEF SyncExpires, attachmentRow
  <2>3. CASE OwnedExpires(a)
    BY <2>3, QuietTables DEF OwnedExpires, attachmentRow
  <2> QED
    BY <1>4, <2>1, <2>2, <2>3 DEF Expire
<1>5. ASSUME NEW a \in Attachments, NEW r \in Runs, Confirm(a, r) PROVE ContentHasItsRow'
  <2>1. CASE ConfirmLock(a, r)
    BY <2>1, QuietTables DEF ConfirmLock, attachmentRow
  <2>2. CASE ConfirmStatus(a, r)
    BY <2>2, QuietTables DEF ConfirmStatus, attachmentRow
  <2>3. CASE ConfirmFile(a, r)
    BY <2>3, QuietTables DEF ConfirmFile, attachmentRow
  <2>4. CASE ConfirmSet(a, r)
    BY <2>4, QuietTables DEF ConfirmSet, attachmentRow
  <2>5. CASE ConfirmEnqueue(a, r)
    BY <2>5, QuietTables DEF ConfirmEnqueue, attachmentRow
  <2>6. CASE ConfirmUnlock(a, r)
    BY <2>6, QuietTables DEF ConfirmUnlock, attachmentRow
  <2> QED
    BY <1>5, <2>1, <2>2, <2>3, <2>4, <2>5, <2>6 DEF Confirm
<1>6. ASSUME NEW a \in Attachments, NEW r \in Runs, Process(a, r) PROVE ContentHasItsRow'
  <2>1. CASE Dispatch(a, r)
    BY <2>1, QuietTables DEF Dispatch, attachmentRow
  <2>2. CASE TaskError(a, r)
    BY <2>2, QuietTables DEF TaskError, attachmentRow
  <2>3. CASE PdfStore(a, r)
    <3>1. PICK stored \in SUBSET Pages :
            /\ Live(a) \/ stored = {}
            /\ content' = content \cup {Row(a, r, p, FALSE) : p \in stored}
      BY <2>3 DEF PdfStore
    <3>2. row' = row
      BY <2>3 DEF PdfStore, attachmentRow
    <3>3. ASSUME NEW c \in content' PROVE row[c.att] = "live"
      BY <3>1, <3>3 DEF ContentHasItsRow, Live, Row
    <3> QED
      BY <3>2, <3>3 DEF ContentHasItsRow, Live
  <2>4. CASE PdfCount(a, r)
    BY <2>4, QuietTables DEF PdfCount, attachmentRow
  <2>5. CASE PdfFanOut(a, r)
    BY <2>5, QuietTables DEF PdfFanOut, attachmentRow
  <2>6. CASE DirectCommit(a, r)
    <3>1. row' = row /\ \A c \in content' : c \in content \/ (Live(a) /\ c.att = a)
      BY <2>6 DEF DirectCommit, Row
    <3> QED
      BY <3>1 DEF ContentHasItsRow, Live
  <2>7. CASE DirectReport(a, r)
    BY <2>7, QuietTables DEF DirectReport, attachmentRow
  <2> QED
    BY <1>6, <2>1, <2>2, <2>3, <2>4, <2>5, <2>6, <2>7 DEF Process
<1>7. ASSUME NEW a \in Attachments, NEW r \in Runs, RunDies(a, r) PROVE ContentHasItsRow'
  BY <1>7, QuietTables, DeathsLeave
<1>8. ASSUME NEW a \in Attachments, NEW r \in Runs, NEW p \in Pages, UploadPage(a, r, p) PROVE ContentHasItsRow'
  <2>1. CASE PageLoad(a, r, p)
    BY <2>1, QuietTables DEF PageLoad, attachmentRow
  <2>2. CASE PageSend(a, r, p)
    <3>1. row' = row
      BY <2>2 DEF PageSend, attachmentRow
    <3>2. ASSUME NEW c \in content' PROVE row[c.att] = "live"
      <4>1. c \in content \/ (c.att = a /\ \E d \in content : d.att = a)
        BY <2>2, <3>2 DEF PageSend, Row
      <4> QED
        BY <4>1 DEF ContentHasItsRow, Live
    <3> QED
      BY <3>1, <3>2 DEF ContentHasItsRow, Live
  <2>3. CASE PageError(a, r, p)
    BY <2>3, QuietTables DEF PageError, attachmentRow
  <2>4. CASE PageCount(a, r, p)
    BY <2>4, QuietTables DEF PageCount, CountPage, attachmentRow
  <2>5. CASE CleanupTake(a, r, p)
    BY <2>5, QuietTables DEF CleanupTake, attachmentRow
  <2>6. CASE CleanupObjects(a, r, p)
    BY <2>6, QuietTables DEF CleanupObjects, attachmentRow
  <2>7. CASE CleanupJudge(a, r, p)
    BY <2>7, QuietTables DEF CleanupJudge, attachmentRow
  <2>8. CASE CleanupApprove(a, r, p)
    BY <2>8, QuietTables DEF CleanupApprove, attachmentRow
  <2>9. CASE CleanupCommit(a, r, p)
    BY <2>9, QuietTables DEF CleanupCommit, attachmentRow
  <2>10. CASE CleanupError(a, r, p)
    BY <2>10, QuietTables DEF CleanupError, attachmentRow
  <2> QED
    BY <1>8, <2>1, <2>2, <2>3, <2>4, <2>5, <2>6, <2>7, <2>8, <2>9, <2>10 DEF UploadPage
<1>10. ASSUME Send PROVE ContentHasItsRow'
  <2>1. CASE SendCheck
    BY <2>1, QuietTables DEF SendCheck, attachmentRow
  <2>2. CASE SendCollect
    BY <2>2, QuietTables DEF SendCollect, attachmentRow
  <2>3. CASE SendSave
    BY <2>3 DEF SendSave, attachmentRow, ContentHasItsRow, Live
  <2>4. CASE SendLink
    BY <2>4, QuietTables DEF SendLink, attachmentRow
  <2> QED
    BY <1>10, <2>1, <2>2, <2>3, <2>4 DEF Send
<1>11. ASSUME SendDies PROVE ContentHasItsRow'
  BY <1>11, QuietTables DEF SendDies, attachmentRow
<1>12. ASSUME CleanupOrphans PROVE ContentHasItsRow'
  <2>1. PICK old \in SUBSET Attachments : DropRows(old)
    BY <1>12, ClientAssumption DEF CleanupOrphans
  <2> QED
    BY <2>1, CascadeKeepsRows
<1>13. ASSUME CleanupStaleResults PROVE ContentHasItsRow'
  BY <1>13 DEF CleanupStaleResults, attachmentRow, ContentHasItsRow, Live
<1>14. CASE UNCHANGED vars
  BY <1>14, QuietTables DEF vars, attachmentRow
<1> QED
  BY <1>1, <1>2, <1>3, <1>4, <1>5, <1>6, <1>7, <1>8, <1>10, <1>11, <1>12, <1>13, <1>14 DEF Next

\* No late task, stored page, deletion or hourly cleanup leaves content behind
\* whose file is gone (the guards of PdfStore, DirectCommit and PageSend, and the
\* cascade of the two that delete rows).
THEOREM ContentCorrect == Spec => []ContentHasItsRow
<1>1. Init => Types /\ ContentHasItsRow
  BY BoundAssumption DEF Init, Types, SendRoom, TypeOK, ConfirmSteps, TaskSteps, PageSteps,
     SendSteps, ContentHasItsRow
<1>2. (Types /\ ContentHasItsRow) /\ [Next]_vars => (Types /\ ContentHasItsRow)'
  BY TypeStep, ContentStep
<1> QED
  BY <1>1, <1>2, PTL DEF Spec

-----------------------------------------------------------------------------
(* Files and messages *)

\* A row is inserted once, and what a message carries had a row.
Registered ==
  /\ \A a \in Attachments : register[a] = "idle" => row[a] = "none"
  /\ \A n \in 1..MaxSends : \A x \in carries[n] : register[x.att] # "idle"

\* The live files in a message are linked to it, except those in the message
\* under way, which are not linked at all.
LinkedBefore ==
  \A n \in 1..sent : (send = "saved" => n # sent) =>
    \A x \in carries[n] : Live(x.att) => link[x.att] = n
UnlinkedSaved == send = "saved" => \A x \in carries[sent] : Live(x.att) => link[x.att] = None
UnlinkedCollected ==
  send = "collected" => \A x \in carries[sent + 1] : Live(x.att) => link[x.att] = None
Linked == LinkedBefore /\ UnlinkedSaved /\ UnlinkedCollected

FilesInv == Registered /\ (deaths = 0 => Linked)

\* Messages carry pieces of files.
LEMMA CarriedFiles ==
  ASSUME Types, NEW n \in 1..MaxSends, NEW x \in carries[n]
  PROVE  x.att \in Attachments
<1>1. carries \in [1..MaxSends -> SUBSET Piece]
  BY DEF Types, TypeOK
<1>2. x \in Piece
  BY <1>1
<1> QED
  BY <1>2 DEF Piece

\* A process that dies leaves the invariant nothing to say about links.
LEMMA DeathsCount == Types => deaths + 1 # 0
BY BoundAssumption DEF Types, TypeOK

\* Steps that leave files and messages alone keep the invariant.
LEMMA QuietFiles ==
  FilesInv /\ UNCHANGED <<row, link, register, carries, sent, send>>
           /\ (deaths' = 0 => deaths = 0) => FilesInv'
BY DEF FilesInv, Registered, Linked, LinkedBefore, UnlinkedSaved, UnlinkedCollected, Live

\* So do those that only delete rows.
LEMMA RowsGoFiles ==
  ASSUME NEW gone \in SUBSET {a \in Attachments : Live(a)}, Types, FilesInv, DropRows(gone),
         UNCHANGED <<link, register, carries, sent, send, deaths>>
  PROVE  FilesInv'
<1>1. \A a : (Live(a))' /\ a \in Attachments => Live(a)
  BY DEF DropRows, Live
<1>2. \A n \in 1..MaxSends : \A x \in carries[n] : x.att \in Attachments
  BY CarriedFiles
<1>3. sent \in 0..MaxSends /\ (send = "saved" => sent > 0) /\ (send = "collected" => sent < MaxSends)
  BY DEF Types, TypeOK, SendRoom
<1>4. Registered'
  BY DEF FilesInv, Registered, DropRows, Live
<1>5. ASSUME deaths = 0 PROVE Linked'
  <2> USE <1>5 DEF FilesInv, Linked
  <2>1. LinkedBefore'
    BY <1>1, <1>2, <1>3, BoundAssumption DEF LinkedBefore
  <2>2. UnlinkedSaved'
    BY <1>1, <1>2, <1>3, BoundAssumption DEF UnlinkedSaved
  <2>3. UnlinkedCollected'
    BY <1>1, <1>2, <1>3, BoundAssumption DEF UnlinkedCollected
  <2> QED
    BY <2>1, <2>2, <2>3
<1> QED
  BY <1>4, <1>5 DEF FilesInv

\* A new row is of a file that no message carries.
LEMMA RegisterRowFiles ==
  ASSUME NEW a \in Attachments, Types, FilesInv, RegisterRow(a)
  PROVE  FilesInv'
<1>1. /\ register[a] = "idle"
      /\ register' = [register EXCEPT ![a] = "committed"]
      /\ row' = [row EXCEPT ![a] = "live"]
      /\ UNCHANGED <<link, carries, sent, send, deaths>>
  BY DEF RegisterRow, messages
<1>2. \A n \in 1..MaxSends : \A x \in carries[n] :
        x.att \in Attachments /\ x.att # a /\ ((Live(x.att))' <=> Live(x.att))
  <2>1. row \in [Attachments -> {"none", "live", "gone"}]
    BY DEF Types, TypeOK
  <2>2. ASSUME NEW n \in 1..MaxSends, NEW x \in carries[n]
        PROVE  x.att \in Attachments /\ x.att # a
    BY <1>1, <2>2, CarriedFiles DEF FilesInv, Registered
  <2> QED
    BY <1>1, <2>1, <2>2 DEF Live
<1>3. sent \in 0..MaxSends /\ (send = "saved" => sent > 0) /\ (send = "collected" => sent < MaxSends)
  BY DEF Types, TypeOK, SendRoom
<1>4. Registered'
  BY <1>1, <1>2 DEF FilesInv, Registered, Types, TypeOK
<1>5. ASSUME deaths = 0 PROVE Linked'
  <2> USE <1>5 DEF FilesInv, Linked
  <2>1. LinkedBefore'
    BY <1>1, <1>2, <1>3, BoundAssumption DEF LinkedBefore
  <2>2. UnlinkedSaved'
    BY <1>1, <1>2, <1>3, BoundAssumption DEF UnlinkedSaved
  <2>3. UnlinkedCollected'
    BY <1>1, <1>2, <1>3, BoundAssumption DEF UnlinkedCollected
  <2> QED
    BY <2>1, <2>2, <2>3
<1> QED
  BY <1>1, <1>4, <1>5 DEF FilesInv

\* What is collected is of live files without a message.
LEMMA SendCollectFiles ==
  ASSUME Types, FilesInv, SendCollect
  PROVE  FilesInv'
<1>1. /\ send = "checked" /\ send' = "collected"
      /\ UNCHANGED <<row, link, register, sent, deaths>>
  BY DEF SendCollect, attachmentRow, handlers
<1>2. sent \in 0..MaxSends /\ sent < MaxSends /\ sent + 1 \in 1..MaxSends
  BY <1>1, BoundAssumption DEF Types, TypeOK, SendRoom
<1>3. \A n \in 1..MaxSends : n # sent + 1 => carries'[n] = carries[n]
  BY <1>2 DEF SendCollect, Types, TypeOK
<1>4. \A x \in carries'[sent + 1] : x.att \in Attachments /\ Live(x.att) /\ link[x.att] = None
  <2>1. carries'[sent + 1] =
          {PieceOf(c.att, c.run, c.part) : c \in {d \in content : d.att \in Unlinked /\ d.hasId}}
    BY <1>2 DEF SendCollect, Types, TypeOK
  <2> QED
    BY <2>1 DEF PieceOf, Unlinked
<1>5. Registered'
  BY <1>1, <1>3, <1>4 DEF FilesInv, Registered, Live
<1>6. ASSUME deaths = 0 PROVE Linked'
  <2> USE <1>6 DEF FilesInv, Linked
  <2>1. ASSUME NEW n \in 1..sent, NEW x \in carries'[n], Live(x.att)
        PROVE  link[x.att] = n
    <3>1. n \in 1..MaxSends /\ n # sent + 1
      BY <1>2, BoundAssumption
    <3> QED
      BY <1>1, <1>3, <2>1, <3>1 DEF LinkedBefore
  <2>2. UnlinkedSaved'
    BY <1>1 DEF UnlinkedSaved
  <2>3. UnlinkedCollected'
    BY <1>1, <1>4 DEF UnlinkedCollected, Live
  <2>4. LinkedBefore'
    BY <1>1, <2>1 DEF LinkedBefore, Live
  <2> QED
    BY <2>2, <2>3, <2>4
<1> QED
  BY <1>1, <1>5, <1>6 DEF FilesInv

\* The message is saved before its files are linked.
LEMMA SendSaveFiles ==
  ASSUME Types, FilesInv, SendSave
  PROVE  FilesInv'
<1>1. /\ send = "collected" /\ send' = "saved" /\ sent' = sent + 1
      /\ UNCHANGED <<row, link, register, carries, deaths>>
  BY DEF SendSave, attachmentRow, handlers
<1>2. sent \in 0..MaxSends
  BY DEF Types, TypeOK
<1>3. Registered'
  BY <1>1 DEF FilesInv, Registered
<1>4. ASSUME deaths = 0 PROVE Linked'
  <2> USE <1>4 DEF FilesInv, Linked
  <2>1. LinkedBefore'
    BY <1>1, <1>2, BoundAssumption DEF LinkedBefore, Live
  <2>2. UnlinkedSaved' /\ UnlinkedCollected'
    BY <1>1 DEF UnlinkedSaved, UnlinkedCollected, Live
  <2> QED
    BY <2>1, <2>2
<1> QED
  BY <1>1, <1>3, <1>4 DEF FilesInv

\* The link reaches the files of the message just saved, and no others of a message.
LEMMA SendLinkFiles ==
  ASSUME Types, FilesInv, SendLink
  PROVE  FilesInv'
<1>1. /\ send = "saved" /\ send' = "idle"
      /\ link' = [a \in Attachments |-> IF a \in Unlinked THEN sent ELSE link[a]]
      /\ UNCHANGED <<row, register, sent, carries, deaths>>
  BY DEF SendLink, handlers
<1>2. sent \in 0..MaxSends /\ sent > 0
  BY <1>1 DEF Types, TypeOK, SendRoom
<1>3. \A n \in 1..MaxSends : \A x \in carries[n] : x.att \in Attachments
  BY CarriedFiles
<1>4. Registered'
  BY <1>1 DEF FilesInv, Registered
<1>5. ASSUME deaths = 0 PROVE Linked'
  <2>1. ASSUME NEW n \in 1..sent, NEW x \in carries[n], Live(x.att)
        PROVE  link'[x.att] = n
    <3>1. n \in 1..MaxSends /\ x.att \in Attachments
      BY <1>2, <1>3, <2>1, BoundAssumption
    <3>2. CASE n = sent
      <4>1. link[x.att] = None
        BY <1>1, <1>5, <2>1, <3>2 DEF FilesInv, Linked, UnlinkedSaved
      <4>2. x.att \in Unlinked
        BY <2>1, <3>1, <4>1 DEF Unlinked
      <4> QED
        BY <1>1, <3>1, <3>2, <4>2
    <3>3. CASE n # sent
      <4>1. link[x.att] = n
        BY <1>5, <2>1, <3>3 DEF FilesInv, Linked, LinkedBefore
      <4>2. x.att \notin Unlinked
        BY <4>1, NoneAssumption DEF Unlinked
      <4> QED
        BY <1>1, <3>1, <4>1, <4>2
    <3> QED
      BY <3>2, <3>3
  <2>2. LinkedBefore'
    BY <1>1, <2>1 DEF LinkedBefore, Live
  <2>3. UnlinkedSaved' /\ UnlinkedCollected'
    BY <1>1 DEF UnlinkedSaved, UnlinkedCollected
  <2> QED
    BY <2>2, <2>3 DEF Linked
<1> QED
  BY <1>1, <1>4, <1>5 DEF FilesInv

\* A process that dies in the middle of a send takes back what was not saved.
LEMMA SendDiesFiles ==
  ASSUME Types, FilesInv, SendDies
  PROVE  FilesInv'
<1>1. UNCHANGED <<row, register>> /\ deaths' # 0
  BY DeathsCount DEF SendDies, attachmentRow, handlers
<1>2. \A n \in 1..MaxSends : carries'[n] \subseteq carries[n]
  BY DEF SendDies, Types, TypeOK
<1> QED
  BY <1>1, <1>2 DEF FilesInv, Registered

\* Every step keeps the invariant.
LEMMA FilesStep == Types /\ FilesInv /\ [Next]_vars => FilesInv'
<1> SUFFICES ASSUME Types, FilesInv, [Next]_vars PROVE FilesInv'
  OBVIOUS
<1>1. ASSUME NEW a \in Attachments, Register(a) PROVE FilesInv'
  <2>1. CASE RegisterRow(a)
    BY <2>1, RegisterRowFiles
  <2>2. CASE RegisterStatus(a)
    <3>1. /\ register[a] = "committed" /\ register' = [register EXCEPT ![a] = "closed"]
          /\ UNCHANGED <<row, link, carries, sent, send, deaths>>
      BY <2>2 DEF RegisterStatus, attachmentRow, messages
    <3>2. Registered'
      BY <3>1 DEF FilesInv, Registered, Types, TypeOK
    <3>3. deaths = 0 => Linked'
      BY <3>1 DEF FilesInv, Linked, LinkedBefore, UnlinkedSaved, UnlinkedCollected, Live
    <3> QED
      BY <3>1, <3>2, <3>3 DEF FilesInv
  <2>3. CASE BrowserUploads(a)
    BY <2>3, QuietFiles DEF BrowserUploads, attachmentRow, handlers, messages
  <2> QED
    BY <1>1, <2>1, <2>2, <2>3 DEF Register
<1>2. ASSUME NEW a \in Attachments, Poll(a) PROVE FilesInv'
  <2>1. CASE PollVerify(a)
    BY <2>1, QuietFiles DEF PollVerify, attachmentRow, handlers, messages
  <2>2. CASE PollCache(a)
    BY <2>2, QuietFiles DEF PollCache, attachmentRow, handlers, messages
  <2> QED
    BY <1>2, <2>1, <2>2 DEF Poll
<1>3. ASSUME NEW a \in Attachments, Remove(a) PROVE FilesInv'
  <2>1. CASE RemoveVerify(a)
    BY <2>1, QuietFiles DEF RemoveVerify, attachmentRow, handlers, messages
  <2>2. CASE RemoveObjects(a)
    BY <2>2, QuietFiles DEF RemoveObjects, attachmentRow, handlers, messages
  <2>3. CASE RemoveRow(a)
    BY <2>3, RowsGoFiles DEF RemoveRow, messages
  <2>4. CASE RemoveKeys(a)
    BY <2>4, QuietFiles DEF RemoveKeys, attachmentRow, handlers, messages
  <2> QED
    BY <1>3, <2>1, <2>2, <2>3, <2>4 DEF Remove
<1>4. ASSUME NEW a \in Attachments, Expire(a) PROVE FilesInv'
  <2>1. CASE StatusExpires(a)
    BY <2>1, QuietFiles DEF StatusExpires, attachmentRow, handlers, messages
  <2>2. CASE SyncExpires(a)
    BY <2>2, QuietFiles DEF SyncExpires, attachmentRow, handlers, messages
  <2>3. CASE OwnedExpires(a)
    BY <2>3, QuietFiles DEF OwnedExpires, attachmentRow, handlers, messages
  <2> QED
    BY <1>4, <2>1, <2>2, <2>3 DEF Expire
<1>5. ASSUME NEW a \in Attachments, NEW r \in Runs, Confirm(a, r) PROVE FilesInv'
  <2>1. CASE ConfirmLock(a, r)
    BY <2>1, QuietFiles DEF ConfirmLock, attachmentRow, handlers, messages
  <2>2. CASE ConfirmStatus(a, r)
    BY <2>2, QuietFiles DEF ConfirmStatus, attachmentRow, handlers, messages
  <2>3. CASE ConfirmFile(a, r)
    BY <2>3, QuietFiles DEF ConfirmFile, attachmentRow, handlers, messages
  <2>4. CASE ConfirmSet(a, r)
    BY <2>4, QuietFiles DEF ConfirmSet, attachmentRow, handlers, messages
  <2>5. CASE ConfirmEnqueue(a, r)
    BY <2>5, QuietFiles DEF ConfirmEnqueue, attachmentRow, handlers, messages
  <2>6. CASE ConfirmUnlock(a, r)
    BY <2>6, QuietFiles DEF ConfirmUnlock, attachmentRow, handlers, messages
  <2> QED
    BY <1>5, <2>1, <2>2, <2>3, <2>4, <2>5, <2>6 DEF Confirm
<1>6. ASSUME NEW a \in Attachments, NEW r \in Runs, Process(a, r) PROVE FilesInv'
  <2>1. CASE Dispatch(a, r)
    BY <2>1, QuietFiles DEF Dispatch, attachmentRow, handlers, messages
  <2>2. CASE TaskError(a, r)
    BY <2>2, QuietFiles DEF TaskError, attachmentRow, handlers, messages
  <2>3. CASE PdfStore(a, r)
    BY <2>3, QuietFiles DEF PdfStore, attachmentRow, handlers, messages
  <2>4. CASE PdfCount(a, r)
    BY <2>4, QuietFiles DEF PdfCount, attachmentRow, handlers, messages
  <2>5. CASE PdfFanOut(a, r)
    BY <2>5, QuietFiles DEF PdfFanOut, attachmentRow, handlers, messages
  <2>6. CASE DirectCommit(a, r)
    BY <2>6, QuietFiles DEF DirectCommit, attachmentRow, handlers, messages
  <2>7. CASE DirectReport(a, r)
    BY <2>7, QuietFiles DEF DirectReport, attachmentRow, handlers, messages
  <2> QED
    BY <1>6, <2>1, <2>2, <2>3, <2>4, <2>5, <2>6, <2>7 DEF Process
<1>7. ASSUME NEW a \in Attachments, NEW r \in Runs, RunDies(a, r) PROVE FilesInv'
  BY <1>7, QuietFiles, DeathsCount, DeathsLeave
<1>8. ASSUME NEW a \in Attachments, NEW r \in Runs, NEW p \in Pages, UploadPage(a, r, p) PROVE FilesInv'
  <2>1. CASE PageLoad(a, r, p)
    BY <2>1, QuietFiles DEF PageLoad, attachmentRow, handlers, messages
  <2>2. CASE PageSend(a, r, p)
    BY <2>2, QuietFiles DEF PageSend, attachmentRow, handlers, messages
  <2>3. CASE PageError(a, r, p)
    BY <2>3, QuietFiles DEF PageError, attachmentRow, handlers, messages
  <2>4. CASE PageCount(a, r, p)
    BY <2>4, QuietFiles DEF PageCount, CountPage, attachmentRow, handlers, messages
  <2>5. CASE CleanupTake(a, r, p)
    BY <2>5, QuietFiles DEF CleanupTake, attachmentRow, handlers, messages
  <2>6. CASE CleanupObjects(a, r, p)
    BY <2>6, QuietFiles DEF CleanupObjects, attachmentRow, handlers, messages
  <2>7. CASE CleanupJudge(a, r, p)
    BY <2>7, QuietFiles DEF CleanupJudge, attachmentRow, handlers, messages
  <2>8. CASE CleanupApprove(a, r, p)
    BY <2>8, QuietFiles DEF CleanupApprove, attachmentRow, handlers, messages
  <2>9. CASE CleanupCommit(a, r, p)
    BY <2>9, QuietFiles DEF CleanupCommit, attachmentRow, handlers, messages
  <2>10. CASE CleanupError(a, r, p)
    BY <2>10, QuietFiles DEF CleanupError, attachmentRow, handlers, messages
  <2> QED
    BY <1>8, <2>1, <2>2, <2>3, <2>4, <2>5, <2>6, <2>7, <2>8, <2>9, <2>10 DEF UploadPage
<1>10. ASSUME Send PROVE FilesInv'
  <2>1. CASE SendCheck
    <3>1. /\ send = "idle" /\ send' = "checked"
          /\ UNCHANGED <<row, link, register, carries, sent, deaths>>
      BY <2>1 DEF SendCheck, attachmentRow, handlers
    <3> QED
      BY <3>1 DEF FilesInv, Registered, Linked, LinkedBefore, UnlinkedSaved, UnlinkedCollected, Live
  <2>2. CASE SendCollect
    BY <2>2, SendCollectFiles
  <2>3. CASE SendSave
    BY <2>3, SendSaveFiles
  <2>4. CASE SendLink
    BY <2>4, SendLinkFiles
  <2> QED
    BY <1>10, <2>1, <2>2, <2>3, <2>4 DEF Send
<1>11. ASSUME SendDies PROVE FilesInv'
  BY <1>11, SendDiesFiles
<1>12. ASSUME CleanupOrphans PROVE FilesInv'
  <2>1. PICK old \in SUBSET {a \in Attachments : Live(a)} : DropRows(old)
    BY <1>12, ClientAssumption DEF CleanupOrphans
  <2>2. UNCHANGED <<link, register, carries, sent, send, deaths>>
    BY <1>12 DEF CleanupOrphans, handlers, messages
  <2> QED
    BY <2>1, <2>2, RowsGoFiles
<1>13. ASSUME CleanupStaleResults PROVE FilesInv'
  BY <1>13, QuietFiles DEF CleanupStaleResults, attachmentRow, handlers, messages
<1>14. CASE UNCHANGED vars
  BY <1>14, QuietFiles DEF vars, attachmentRow, handlers, messages
<1> QED
  BY <1>1, <1>2, <1>3, <1>4, <1>5, <1>6, <1>7, <1>8, <1>10, <1>11, <1>12, <1>13, <1>14 DEF Next

\* What a message carries is of files linked to this message, for every number
\* of files and messages, as long as no process dies (send_message commits the
\* message and the link apart, with the chat lock held over both).
THEOREM FilesBelong == Spec => []FilesBelongToTheirMessage
<1>1. Init => Types /\ FilesInv
  BY BoundAssumption DEF Init, Types, SendRoom, TypeOK, ConfirmSteps, TaskSteps, PageSteps,
     SendSteps, FilesInv, Registered, Linked, LinkedBefore, UnlinkedSaved, UnlinkedCollected
<1>2. (Types /\ FilesInv) /\ [Next]_vars => (Types /\ FilesInv)'
  BY TypeStep, FilesStep
<1>3. FilesInv => FilesBelongToTheirMessage
  BY DEF FilesInv, Linked, LinkedBefore, FilesBelongToTheirMessage
<1> QED
  BY <1>1, <1>2, <1>3, PTL DEF Spec

-----------------------------------------------------------------------------
(* Tasks *)

\* A run is enqueued once: until then it has no task.
EnqueuedOnce ==
  \A a \in Attachments, r \in Runs :
    confirm[a][r] \notin {"unlocking", "closed"} => task[a][r] = "none"

TaskOnly(a, r) ==
  /\ \A b \in Attachments, k \in Runs : (b # a \/ k # r) => task'[b][k] = task[b][k]
  /\ task[a][r] # "none"
  /\ confirm' = confirm

\* A step of a task moves this task, which has been enqueued.
LEMMA ProcessMoves ==
  ASSUME Types, NEW a \in Attachments, NEW r \in Runs, Process(a, r)
  PROVE  TaskOnly(a, r)
<1> USE DEF Types, TypeOK, TaskOnly, handlers, TaskStep
<1>1. CASE Dispatch(a, r) \/ TaskError(a, r) \/ PdfCount(a, r) \/ DirectReport(a, r)
  BY <1>1 DEF Dispatch, TaskError, PdfCount, DirectReport
<1>2. CASE PdfStore(a, r)
  <2>1. task[a][r] = "typed" /\ confirm' = confirm
    BY <1>2 DEF PdfStore
  <2>2. PICK to : task' = [task EXCEPT ![a][r] = to]
    BY <1>2 DEF PdfStore
  <2> QED
    BY <2>1, <2>2
<1>3. CASE PdfFanOut(a, r)
  <2>1. task[a][r] = "counted" /\ confirm' = confirm
    BY <1>3 DEF PdfFanOut
  <2>2. PICK to : task' = [task EXCEPT ![a][r] = to]
    BY <1>3 DEF PdfFanOut
  <2> QED
    BY <2>1, <2>2
<1>4. CASE DirectCommit(a, r)
  <2>1. task[a][r] = "typed" /\ confirm' = confirm
    BY <1>4 DEF DirectCommit
  <2>2. PICK to : task' = [task EXCEPT ![a][r] = to]
    BY <1>4 DEF DirectCommit
  <2> QED
    BY <2>1, <2>2
<1> QED
  BY <1>1, <1>2, <1>3, <1>4 DEF Process

\* Steps of neither a task nor a confirmation leave both alone.
LEMMA OthersLeaveTasks ==
  ASSUME \/ \E a \in Attachments :
              \/ Register(a) \/ Poll(a) \/ Remove(a) \/ Expire(a)
              \/ \E r \in Runs, p \in Pages : UploadPage(a, r, p)
         \/ Send \/ SendDies \/ CleanupOrphans \/ CleanupStaleResults
         \/ UNCHANGED vars
  PROVE  UNCHANGED <<task, confirm>>
<1> USE DEF handlers, workers
<1>1. ASSUME NEW a \in Attachments, Register(a) \/ Poll(a) \/ Remove(a) \/ Expire(a)
      PROVE  UNCHANGED <<task, confirm>>
  BY <1>1 DEF Register, RegisterRow, RegisterStatus, BrowserUploads, Poll, PollVerify, PollCache, Remove, RemoveVerify, RemoveObjects, RemoveRow, RemoveKeys, Expire,
       StatusExpires, SyncExpires, OwnedExpires
<1>2. ASSUME NEW a \in Attachments, NEW r \in Runs, NEW p \in Pages, UploadPage(a, r, p)
      PROVE  UNCHANGED <<task, confirm>>
  BY <1>2 DEF UploadPage, PageLoad, PageSend, PageError, PageCount, CountPage, CleanupTake,
       CleanupObjects, CleanupJudge, CleanupApprove, CleanupCommit, CleanupError
<1>3. CASE Send \/ SendDies \/ CleanupOrphans \/ CleanupStaleResults \/ UNCHANGED vars
  BY <1>3 DEF Send, SendCheck, SendCollect, SendSave, SendLink, SendDies, CleanupOrphans,
       CleanupStaleResults, vars
<1> QED
  BY <1>1, <1>2, <1>3

\* A confirmation moves forward, and only its end enqueues.
LEMMA ConfirmMoves ==
  ASSUME Types, NEW a \in Attachments, NEW r \in Runs, Confirm(a, r)
  PROVE  /\ \A b \in Attachments, k \in Runs : (b # a \/ k # r) =>
              confirm'[b][k] = confirm[b][k] /\ task'[b][k] = task[b][k]
         /\ \/ ConfirmEnqueue(a, r) /\ confirm[a][r] = "set" /\ confirm'[a][r] = "unlocking"
                 /\ task'[a][r] \in {"queued", "lost"}
            \/ task' = task /\ confirm[a][r] \in {"unlocking", "closed"}
                 /\ confirm'[a][r] \in {"unlocking", "closed"}
            \/ task' = task /\ confirm[a][r] \notin {"unlocking", "closed"}
<1> USE DEF Types, TypeOK, ConfirmStep, workers
<1>1. CASE ConfirmEnqueue(a, r)
  <2>1. PICK t \in {"queued", "lost"} : task' = [task EXCEPT ![a][r] = t]
    BY <1>1 DEF ConfirmEnqueue
  <2>2. confirm[a][r] = "set" /\ confirm' = [confirm EXCEPT ![a][r] = "unlocking"]
    BY <1>1 DEF ConfirmEnqueue
  <2> QED
    BY <1>1, <2>1, <2>2
<1>2. CASE \/ ConfirmLock(a, r) \/ ConfirmStatus(a, r) \/ ConfirmFile(a, r)
           \/ ConfirmSet(a, r) \/ ConfirmUnlock(a, r)
  BY <1>2 DEF ConfirmLock, ConfirmStatus, ConfirmFile, ConfirmSet, ConfirmUnlock
<1> QED
  BY <1>1, <1>2 DEF Confirm

\* A killed handler enqueues nothing any more; a killed worker leaves a task for
\* its own run, or for one that nobody will confirm.
LEMMA DeathMoves ==
  ASSUME Types, EnqueuedOnce, NEW a \in Attachments, NEW r \in Runs, RunDies(a, r)
  PROVE  \A b \in Attachments, k \in Runs :
           /\ confirm'[b][k] \in {confirm[b][k], "closed"}
           /\ task'[b][k] # task[b][k] => task[b][k] # "none" \/ confirm'[b][k] = "closed"
<1> USE DEF Types, TypeOK, handlers, workers
<1>1. CASE ConfirmDies(a, r)
  BY <1>1 DEF ConfirmDies
<1>2. CASE TaskDies(a, r)
  BY <1>2 DEF TaskDies
<1>3. ASSUME NEW t \in Runs, DispatchDies(a, r, t) \/ PdfFanOutDies(a, r, t),
             NEW b \in Attachments, NEW k \in Runs
      PROVE  /\ confirm'[b][k] \in {confirm[b][k], "closed"}
             /\ task'[b][k] # task[b][k] => task[b][k] # "none" \/ confirm'[b][k] = "closed"
  <2>1. confirm' = [confirm EXCEPT ![a][t] = "closed"] /\ task[a][r] # "none"
    BY <1>3 DEF DispatchDies, PdfFanOutDies, Redelivered
  <2>2. \E u, v : task' = [task EXCEPT ![a][r] = u, ![a][t] = v]
    BY <1>3 DEF DispatchDies, PdfFanOutDies
  <2>3. task'[b][k] # task[b][k] => b = a /\ k \in {r, t}
    BY <2>2
  <2>4. confirm'[a][t] = "closed" /\ confirm'[b][k] \in {confirm[b][k], "closed"}
    BY <2>1
  <2> QED
    BY <2>1, <2>3, <2>4
<1>4. ASSUME NEW p \in Pages, PageDies(a, r, p) \/ CleanupDies(a, r, p)
      PROVE  UNCHANGED <<task, confirm>>
  BY <1>4 DEF PageDies, CleanupDies
<1> QED
  BY <1>1, <1>2, <1>3, <1>4 DEF RunDies

\* Every step keeps the order of confirmation and task.
LEMMA EnqueuedStep == Types /\ EnqueuedOnce /\ [Next]_vars => EnqueuedOnce'
<1> SUFFICES ASSUME Types, EnqueuedOnce, [Next]_vars PROVE EnqueuedOnce'
  OBVIOUS
<1>1. ASSUME NEW a \in Attachments, NEW r \in Runs, Process(a, r)
      PROVE  EnqueuedOnce'
  BY <1>1, ProcessMoves DEF TaskOnly, EnqueuedOnce
<1>2. ASSUME NEW a \in Attachments, NEW r \in Runs, Confirm(a, r) PROVE EnqueuedOnce'
  BY <1>2, ConfirmMoves DEF EnqueuedOnce
<1>3. ASSUME UNCHANGED <<task, confirm>> PROVE EnqueuedOnce'
  BY <1>3 DEF EnqueuedOnce
<1>4. ASSUME NEW a \in Attachments, NEW r \in Runs, RunDies(a, r) PROVE EnqueuedOnce'
  BY <1>4, DeathMoves DEF EnqueuedOnce
<1> QED
  BY <1>1, <1>2, <1>3, <1>4, OthersLeaveTasks DEF Next

-----------------------------------------------------------------------------
(* Content and messages *)

PastSteps == TaskSteps \ {"none", "queued", "typed", "lost"}
Past(x) == task[x.att][x.run] \in PastSteps
Stored(x) == \E c \in content : PieceOf(c.att, c.run, c.part) = x

\* Two reasons why a piece that was sent is not collected again: its task has
\* stored it and the row was deleted with the message, or its file is linked,
\* is about to be, or is gone.  One crash can take one of them away.
Spent(x) == Past(x) /\ ~Stored(x)
Bound(x) == Live(x.att) => (link[x.att] # None \/ send = "saved")

NothingAhead ==
  \A n \in 1..MaxSends :
    carries[n] # {} => (n <= sent \/ (n = sent + 1 /\ send = "collected"))
StoredByPast ==
  deaths = 0 => /\ \A c \in content : Past(c)
                /\ \A n \in 1..MaxSends : \A x \in carries[n] : Past(x)
SpentOrBound ==
  deaths <= 1 =>
    \A n \in 1..MaxSends : n <= sent =>
      \A x \in carries[n] : /\ Spent(x) \/ Bound(x)
                            /\ deaths = 0 => (Spent(x) /\ Bound(x))
OnceInv == NothingAhead /\ StoredByPast /\ SpentOrBound /\ ContentOnce

\* Steps of one file and of the hourly tasks: nothing is sent, and what is new in
\* content was stored by a task that had not stored before.
LEMMA StoringKeepsOnce ==
  ASSUME Types, OnceInv, UNCHANGED <<link, send, sent, carries, deaths>>,
         \A n \in 1..MaxSends : \A x \in carries[n] : (Live(x.att))' => Live(x.att),
         \A a \in Attachments, r \in Runs : task[a][r] \in PastSteps => task'[a][r] \in PastSteps,
         content' \subseteq Content,
         \A c \in content' :
           \/ Stored(PieceOf(c.att, c.run, c.part))
           \/ task[c.att][c.run] \notin PastSteps /\ task'[c.att][c.run] \in PastSteps
  PROVE  OnceInv'
<1>1. \A n \in 1..MaxSends : carries[n] \subseteq Piece
  BY DEF Types, TypeOK
<1>2. ASSUME NEW x \in Piece, Past(x) PROVE Past(x)'
  BY <1>2 DEF Past, Piece
<1>3. ASSUME NEW x \in Piece, Past(x), ~Stored(x) PROVE ~(Stored(x))'
  <2> SUFFICES ASSUME NEW c \in content', PieceOf(c.att, c.run, c.part) = x PROVE FALSE
    BY DEF Stored
  <2>1. c.att = x.att /\ c.run = x.run
    BY DEF PieceOf
  <2> QED
    BY <1>3, <2>1 DEF Past
<1>4. ASSUME NEW x \in Piece, Spent(x) PROVE Spent(x)'
  BY <1>2, <1>3, <1>4 DEF Spent
<1>5. ASSUME NEW n \in 1..MaxSends, NEW x \in carries[n], Bound(x) PROVE Bound(x)'
  BY <1>5 DEF Bound
<1>6. NothingAhead'
  BY DEF OnceInv, NothingAhead
<1>7. StoredByPast'
  <2> SUFFICES ASSUME deaths = 0
               PROVE  /\ \A c \in content' : Past(c)'
                      /\ \A n \in 1..MaxSends : \A x \in carries[n] : Past(x)'
    BY DEF StoredByPast
  <2>1. ASSUME NEW c \in content' PROVE Past(c)'
    <3>1. CASE Stored(PieceOf(c.att, c.run, c.part))
      <4>1. PICK d \in content : PieceOf(d.att, d.run, d.part) = PieceOf(c.att, c.run, c.part)
        BY <3>1 DEF Stored
      <4>2. d.att = c.att /\ d.run = c.run
        BY <4>1 DEF PieceOf
      <4>3. Past(d)
        BY DEF OnceInv, StoredByPast
      <4>4. c.att \in Attachments /\ c.run \in Runs
        BY <2>1 DEF Content
      <4> QED
        BY <4>2, <4>3, <4>4 DEF Past
    <3>2. CASE ~Stored(PieceOf(c.att, c.run, c.part))
      BY <3>2 DEF Past
    <3> QED
      BY <3>1, <3>2
  <2>2. ASSUME NEW n \in 1..MaxSends, NEW x \in carries[n] PROVE Past(x)'
    BY <1>1, <1>2 DEF OnceInv, StoredByPast
  <2> QED
    BY <2>1, <2>2
<1>8. SpentOrBound'
  <2> SUFFICES ASSUME deaths <= 1, NEW n \in 1..MaxSends, n <= sent, NEW x \in carries[n]
               PROVE  (Spent(x) \/ Bound(x))' /\ (deaths = 0 => (Spent(x) /\ Bound(x))')
    BY DEF SpentOrBound
  <2>1. (Spent(x) \/ Bound(x)) /\ (deaths = 0 => Spent(x) /\ Bound(x))
    BY DEF OnceInv, SpentOrBound
  <2> QED
    BY <1>1, <1>4, <1>5, <2>1
<1>9. ContentOnce'
  BY DEF OnceInv, ContentOnce
<1> QED
  BY <1>6, <1>7, <1>8, <1>9 DEF OnceInv

\* So do steps that leave content and tasks alone.
LEMMA QuietKeepsOnce ==
  ASSUME Types, OnceInv, UNCHANGED <<link, send, sent, carries, deaths, task>>,
         content' \subseteq content,
         \A n \in 1..MaxSends : \A x \in carries[n] : (Live(x.att))' => Live(x.att)
  PROVE  OnceInv'
<1>1. content' \subseteq Content
  BY DEF Types, TypeOK
<1>2. \A c \in content' : Stored(PieceOf(c.att, c.run, c.part))
  BY DEF Stored
<1> QED
  BY <1>1, <1>2, StoringKeepsOnce

\* A killed worker leaves every file bound to its message, if it is the first.
LEMMA WorkerDeathKeepsOnce ==
  ASSUME Types, OnceInv, deaths' = deaths + 1,
         UNCHANGED <<row, link, content, send, sent, carries>>
  PROVE  OnceInv'
<1>1. deaths \in Nat
  BY DEF Types, TypeOK
<1>2. NothingAhead' /\ StoredByPast' /\ ContentOnce'
  BY <1>1 DEF OnceInv, NothingAhead, StoredByPast, ContentOnce
<1>3. SpentOrBound'
  <2> SUFFICES ASSUME deaths = 0, NEW n \in 1..MaxSends, n <= sent, NEW x \in carries[n]
               PROVE  Bound(x)'
    BY <1>1 DEF SpentOrBound
  <2> QED
    BY DEF OnceInv, SpentOrBound, Bound, Live
<1> QED
  BY <1>2, <1>3 DEF OnceInv

\* A killed handler leaves every piece spent, if it is the first.
LEMMA SendDiesKeepsOnce ==
  ASSUME Types, OnceInv, SendDies
  PROVE  OnceInv'
<1>1. /\ deaths \in Nat /\ deaths' = deaths + 1 /\ send' = "idle" /\ sent' = sent
      /\ UNCHANGED <<content, task>> /\ send \in {"collected", "saved"}
  BY DEF SendDies, Types, TypeOK, workers
<1>2. \A n \in 1..MaxSends : carries'[n] \in {carries[n], {}}
  BY DEF SendDies, Types, TypeOK
<1>3. send = "collected" => \A n \in 1..MaxSends : n = sent + 1 => carries'[n] = {}
  BY DEF SendDies, Types, TypeOK
<1>4. NothingAhead'
  BY <1>1, <1>2, <1>3 DEF OnceInv, NothingAhead
<1>5. StoredByPast' /\ ContentOnce'
  BY <1>1, <1>2 DEF OnceInv, StoredByPast, ContentOnce
<1>6. SpentOrBound'
  <2> SUFFICES ASSUME deaths = 0, NEW n \in 1..MaxSends, n <= sent, NEW x \in carries'[n]
               PROVE  Spent(x)'
    BY <1>1 DEF SpentOrBound
  <2>1. Spent(x)
    BY <1>2 DEF OnceInv, SpentOrBound
  <2> QED
    BY <1>1, <2>1 DEF Spent, Past, Stored
<1> QED
  BY <1>4, <1>5, <1>6 DEF OnceInv

\* What is collected was not sent before: it is stored, and of a live file
\* without a message.
LEMMA CollectKeepsOnce ==
  ASSUME Types, OnceInv, SendCollect
  PROVE  OnceInv'
<1>1. /\ send = "checked" /\ send' = "collected"
      /\ UNCHANGED <<row, link, content, task, sent, deaths>>
  BY DEF SendCollect, attachmentRow, workers
<1>2. sent \in 0..MaxSends /\ sent + 1 \in 1..MaxSends
  BY <1>1, BoundAssumption DEF Types, TypeOK, SendRoom
<1>3. \A n \in 1..MaxSends : n # sent + 1 => carries'[n] = carries[n]
  BY <1>2 DEF SendCollect, Types, TypeOK
<1>4. \A x \in carries'[sent + 1] :
         \E c \in content : /\ x = PieceOf(c.att, c.run, c.part) /\ x.att = c.att /\ x.run = c.run
                            /\ Live(x.att) /\ link[x.att] = None
  <2>1. carries'[sent + 1] =
          {PieceOf(c.att, c.run, c.part) : c \in {d \in content : d.att \in Unlinked /\ d.hasId}}
    BY <1>2 DEF SendCollect, Types, TypeOK
  <2> QED
    BY <2>1 DEF PieceOf, Unlinked
<1>5. \A x \in carries'[sent + 1] : ~Spent(x) /\ ~Bound(x) /\ (deaths = 0 => Past(x))
  <2> SUFFICES ASSUME NEW x \in carries'[sent + 1]
               PROVE  Stored(x) /\ Live(x.att) /\ link[x.att] = None /\ (deaths = 0 => Past(x))
    BY <1>1 DEF Spent, Bound
  <2> QED
    BY <1>4 DEF Stored, OnceInv, StoredByPast, Past
<1>6. NothingAhead'
  BY <1>1, <1>2, <1>3 DEF OnceInv, NothingAhead
<1>7. StoredByPast'
  BY <1>1, <1>3, <1>5 DEF OnceInv, StoredByPast, Past
<1>8. ASSUME NEW n \in 1..MaxSends, n <= sent, NEW x \in carries'[n], deaths <= 1
      PROVE  x \in carries[n] /\ (Spent(x) \/ Bound(x)) /\ (deaths = 0 => Spent(x) /\ Bound(x))
  <2>1. x \in carries[n]
    BY <1>2, <1>3, <1>8
  <2> QED
    BY <1>8, <2>1 DEF OnceInv, SpentOrBound
<1>9. SpentOrBound'
  BY <1>1, <1>8 DEF SpentOrBound, Spent, Bound, Past, Stored, Live
<1>10. ContentOnce'
  <2> SUFFICES ASSUME deaths <= 1, NEW m \in 1..MaxSends, NEW n \in 1..MaxSends, m # n,
                      NEW x \in carries'[m], x \in carries'[n]
               PROVE  FALSE
    BY <1>1 DEF ContentOnce
  <2>1. CASE m # sent + 1 /\ n # sent + 1
    BY <1>3, <2>1 DEF OnceInv, ContentOnce
  <2>2. ASSUME NEW k \in 1..MaxSends, k # sent + 1, x \in carries'[k], x \in carries'[sent + 1] PROVE FALSE
    <3>1. k <= sent
      BY <1>1, <1>3, <2>2 DEF OnceInv, NothingAhead
    <3> QED
      BY <1>5, <1>8, <2>2, <3>1
  <2> QED
    BY <2>1, <2>2
<1> QED
  BY <1>6, <1>7, <1>9, <1>10 DEF OnceInv

\* The message is saved with the deletion of what it carries.
LEMMA SaveKeepsOnce ==
  ASSUME Types, ContentHasItsRow, FilesInv, OnceInv, SendSave
  PROVE  OnceInv'
<1>1. /\ send = "collected" /\ send' = "saved" /\ sent' = sent + 1
      /\ content' = {c \in content : c.att \notin Unlinked}
      /\ UNCHANGED <<row, link, task, carries, deaths>>
  BY DEF SendSave, attachmentRow, workers
<1>2. sent \in 0..MaxSends /\ sent < MaxSends /\ MaxSends \in Nat
  BY <1>1, BoundAssumption DEF Types, TypeOK, SendRoom
<1>3. NothingAhead'
  BY <1>1, <1>2 DEF OnceInv, NothingAhead
<1>4. StoredByPast'
  BY <1>1 DEF OnceInv, StoredByPast, Past
<1>5. ContentOnce'
  BY <1>1 DEF OnceInv, ContentOnce
<1>6. \A x : Bound(x)'
  BY <1>1 DEF Bound
<1>7. ASSUME deaths = 0, NEW n \in 1..MaxSends, n <= sent + 1, NEW x \in carries[n]
      PROVE  Spent(x)'
  <2>1. Past(x)
    BY <1>7 DEF OnceInv, StoredByPast
  <2>2. CASE n <= sent
    <3>1. ~Stored(x)
      BY <1>7, <2>2 DEF OnceInv, SpentOrBound, Spent
    <3> QED
      BY <1>1, <2>1, <3>1 DEF Spent, Past, Stored
  <2>3. CASE n = sent + 1
    <3> SUFFICES ASSUME NEW c \in content', PieceOf(c.att, c.run, c.part) = x PROVE FALSE
      BY <1>1, <2>1 DEF Spent, Past, Stored
    <3>1. c \in content /\ c.att \notin Unlinked /\ c.att = x.att
      BY <1>1 DEF PieceOf
    <3>2. Live(x.att)
      BY <3>1 DEF ContentHasItsRow
    <3>3. link[x.att] = None
      BY <1>1, <1>7, <2>3, <3>2 DEF FilesInv, Linked, UnlinkedCollected
    <3>4. x.att \in Attachments
      BY <1>7, CarriedFiles
    <3> QED
      BY <3>1, <3>2, <3>3, <3>4 DEF Unlinked
  <2> QED
    BY <1>2, <1>7, <2>2, <2>3
<1>8. SpentOrBound'
  BY <1>1, <1>6, <1>7 DEF SpentOrBound
<1> QED
  BY <1>3, <1>4, <1>5, <1>8 DEF OnceInv

\* The link binds every file of a message that is live and had none.
LEMMA LinkKeepsOnce ==
  ASSUME Types, OnceInv, SendLink
  PROVE  OnceInv'
<1>1. /\ send = "saved" /\ send' = "idle"
      /\ link' = [a \in Attachments |-> IF a \in Unlinked THEN sent ELSE link[a]]
      /\ UNCHANGED <<row, content, task, sent, carries, deaths>>
  BY DEF SendLink, workers
<1>2. sent \in Int
  BY DEF Types, TypeOK
<1>3. NothingAhead' /\ StoredByPast' /\ ContentOnce'
  BY <1>1 DEF OnceInv, NothingAhead, StoredByPast, ContentOnce, Past
<1>4. ASSUME NEW n \in 1..MaxSends, NEW x \in carries[n] PROVE Bound(x)'
  <2>1. x.att \in Attachments
    BY CarriedFiles
  <2>2. Live(x.att) => link'[x.att] # None
    BY <1>1, <1>2, <2>1, NoneAssumption DEF Unlinked
  <2> QED
    BY <1>1, <2>2 DEF Bound, Live
<1>5. \A x : Spent(x) => Spent(x)'
  BY <1>1 DEF Spent, Past, Stored
<1>6. SpentOrBound'
  BY <1>1, <1>4, <1>5 DEF OnceInv, SpentOrBound
<1> QED
  BY <1>3, <1>6 DEF OnceInv

\* Every step keeps the invariant.
LEMMA OnceStep ==
  ASSUME Types, ContentHasItsRow, FilesInv, EnqueuedOnce, OnceInv, [Next]_vars
  PROVE  OnceInv'
<1>0. content \subseteq Content /\ \A n \in 1..MaxSends : \A x \in carries[n] : x.att \in Attachments
  BY CarriedFiles DEF Types, TypeOK
<1>1. ASSUME NEW a \in Attachments, Register(a) PROVE OnceInv'
  <2>1. CASE RegisterRow(a)
    <3>1. \A n \in 1..MaxSends : \A x \in carries[n] : (Live(x.att))' => Live(x.att)
      BY <1>0, <2>1 DEF RegisterRow, FilesInv, Registered, Live, Types, TypeOK
    <3> QED
      BY <2>1, <3>1, QuietKeepsOnce DEF RegisterRow, workers, messages
  <2>2. CASE RegisterStatus(a)
    BY <2>2, QuietKeepsOnce DEF RegisterStatus, attachmentRow, workers, messages, Live
  <2>3. CASE BrowserUploads(a)
    BY <2>3, QuietKeepsOnce DEF BrowserUploads, attachmentRow, workers, messages, Live
  <2> QED
    BY <1>1, <2>1, <2>2, <2>3 DEF Register
<1>2. ASSUME NEW a \in Attachments, Poll(a) \/ Expire(a) PROVE OnceInv'
  BY <1>2, QuietKeepsOnce DEF Poll, PollVerify, PollCache, Expire, StatusExpires,
     SyncExpires, OwnedExpires, attachmentRow, workers, messages, Live
<1>3. ASSUME NEW a \in Attachments, Remove(a) PROVE OnceInv'
  <2>1. CASE RemoveVerify(a)
    BY <2>1, QuietKeepsOnce DEF RemoveVerify, attachmentRow, workers, messages, Live
  <2>2. CASE RemoveObjects(a)
    BY <2>2, QuietKeepsOnce DEF RemoveObjects, attachmentRow, workers, messages, Live
  <2>3. CASE RemoveRow(a)
    BY <1>0, <2>3, QuietKeepsOnce DEF RemoveRow, DropRows, workers, messages, Live
  <2>4. CASE RemoveKeys(a)
    BY <2>4, QuietKeepsOnce DEF RemoveKeys, attachmentRow, workers, messages, Live
  <2> QED
    BY <1>3, <2>1, <2>2, <2>3, <2>4 DEF Remove
<1>4. ASSUME NEW a \in Attachments, NEW r \in Runs, Confirm(a, r) PROVE OnceInv'
  <2>1. /\ UNCHANGED <<link, row, send, sent, carries, deaths, content>>
    BY <1>4 DEF Confirm, ConfirmLock, ConfirmStatus, ConfirmFile, ConfirmSet, ConfirmEnqueue,
       ConfirmUnlock, attachmentRow, messages
  <2>2. \A b \in Attachments, k \in Runs : task[b][k] \in PastSteps => task'[b][k] \in PastSteps
    BY <1>4, ConfirmMoves DEF EnqueuedOnce, PastSteps
  <2>3. \A c \in content' : Stored(PieceOf(c.att, c.run, c.part))
    BY <2>1 DEF Stored
  <2> QED
    BY <1>0, <2>1, <2>2, <2>3, StoringKeepsOnce DEF Live
<1>5. ASSUME NEW a \in Attachments, NEW r \in Runs, Process(a, r) PROVE OnceInv'
  <2>1. UNCHANGED <<link, row, send, sent, carries, deaths>>
    BY <1>5 DEF Process, Dispatch, TaskError, PdfStore, PdfCount, PdfFanOut, DirectCommit,
       DirectReport, attachmentRow, messages
  <2>2. task[a][r] \in PastSteps => task'[a][r] \in PastSteps
    <3> USE DEF TaskStep, PastSteps, TaskSteps, Types, TypeOK
    <3>1. CASE PdfStore(a, r) \/ DirectCommit(a, r) \/ Dispatch(a, r)
      BY <3>1 DEF PdfStore, DirectCommit, Dispatch
    <3>2. CASE PdfFanOut(a, r)
      <4>1. PICK published \in SUBSET Pages :
              TaskStep(a, r, "counted", IF published = Pages THEN "done" ELSE "failing")
        BY <3>2 DEF PdfFanOut
      <4> QED
        BY <4>1
    <3>3. CASE TaskError(a, r) \/ PdfCount(a, r) \/ DirectReport(a, r)
      BY <3>3 DEF TaskError, PdfCount, DirectReport
    <3> QED
      BY <1>5, <3>1, <3>2, <3>3 DEF Process
  <2>3. \A b \in Attachments, k \in Runs : task[b][k] \in PastSteps => task'[b][k] \in PastSteps
    BY <1>5, <2>2, ProcessMoves DEF TaskOnly
  <2>4. /\ content' \subseteq Content
        /\ \A c \in content' : \/ c \in content
                               \/ c.att = a /\ c.run = r /\ task[a][r] = "typed" /\ task'[a][r] \in PastSteps
    <3>1. CASE PdfStore(a, r)
      <4>1. PICK stored \in SUBSET Pages :
              /\ TaskStep(a, r, "typed", IF stored = Pages THEN "stored" ELSE "failing")
              /\ content' = content \cup {Row(a, r, p, FALSE) : p \in stored}
        BY <3>1 DEF PdfStore
      <4>2. task[a][r] = "typed" /\ task'[a][r] \in {"stored", "failing"}
        BY <4>1 DEF TaskStep, Types, TypeOK
      <4>3. \A p \in stored : Row(a, r, p, FALSE) \in Content /\ Row(a, r, p, FALSE).att = a
                               /\ Row(a, r, p, FALSE).run = r
        BY DEF Row, Content
      <4> QED
        BY <1>0, <4>1, <4>2, <4>3 DEF PastSteps, TaskSteps
    <3>2. CASE DirectCommit(a, r)
      <4>1. PICK ok \in BOOLEAN :
              /\ TaskStep(a, r, "typed", IF ok THEN "committed" ELSE "failing")
              /\ content' = content \cup {c \in {Row(a, r, "whole", TRUE)} : ok}
        BY <3>2 DEF DirectCommit, Live
      <4>2. task[a][r] = "typed" /\ task'[a][r] \in {"committed", "failing"}
        BY <4>1 DEF TaskStep, Types, TypeOK
      <4>3. Row(a, r, "whole", TRUE) \in Content /\ Row(a, r, "whole", TRUE).att = a
              /\ Row(a, r, "whole", TRUE).run = r
        BY DEF Row, Content
      <4> QED
        BY <1>0, <4>1, <4>2, <4>3 DEF PastSteps, TaskSteps
    <3>3. CASE ~PdfStore(a, r) /\ ~DirectCommit(a, r)
      <4>1. content' = content
        BY <1>5, <3>3 DEF Process, Dispatch, TaskError, PdfCount, PdfFanOut, DirectReport
      <4> QED
        BY <1>0, <4>1
    <3> QED
      BY <3>1, <3>2, <3>3
  <2>5. \A c \in content' : \/ Stored(PieceOf(c.att, c.run, c.part))
                            \/ task[c.att][c.run] \notin PastSteps /\ task'[c.att][c.run] \in PastSteps
    BY <2>4 DEF Stored, PastSteps
  <2> QED
    BY <2>1, <2>3, <2>4, <2>5, StoringKeepsOnce DEF Live
<1>6. ASSUME NEW a \in Attachments, NEW r \in Runs, NEW p \in Pages, UploadPage(a, r, p) PROVE OnceInv'
  <2>1. UNCHANGED <<link, row, send, sent, carries, deaths, task>>
    BY <1>6 DEF UploadPage, PageLoad, PageSend, PageError, PageCount, CountPage, CleanupTake, CleanupObjects,
       CleanupJudge, CleanupApprove, CleanupCommit, CleanupError, attachmentRow, messages
  <2>2. content' \subseteq Content /\ \A c \in content' : Stored(PieceOf(c.att, c.run, c.part))
    <3>1. CASE PageSend(a, r, p)
      <4> DEFINE mine == {c \in content : c.att = a /\ c.run = r /\ c.part = p}
      <4>1. content' = content \/ (mine # {} /\ content' = (content \ mine) \cup {Row(a, r, p, TRUE)})
        BY <3>1 DEF PageSend
      <4>2. mine # {} => Stored(PieceOf(a, r, p))
        BY DEF Stored
      <4>3. Row(a, r, p, TRUE) \in Content /\ PieceOf(a, r, p) =
              PieceOf(Row(a, r, p, TRUE).att, Row(a, r, p, TRUE).run, Row(a, r, p, TRUE).part)
        BY DEF Row, Content
      <4>4. \A c \in content : Stored(PieceOf(c.att, c.run, c.part))
        BY DEF Stored
      <4> HIDE DEF mine
      <4> QED
        BY <1>0, <4>1, <4>2, <4>3, <4>4
    <3>2. CASE ~PageSend(a, r, p)
      <4>1. content' = content
        BY <1>6, <3>2 DEF UploadPage, PageLoad, PageError, PageCount, CountPage, CleanupTake, CleanupObjects,
           CleanupJudge, CleanupApprove, CleanupCommit, CleanupError
      <4> QED
        BY <1>0, <4>1 DEF Stored
    <3> QED
      BY <3>1, <3>2
  <2> QED
    BY <2>1, <2>2, StoringKeepsOnce DEF Live
<1>7. ASSUME NEW a \in Attachments, NEW r \in Runs, RunDies(a, r) PROVE OnceInv'
  BY <1>7, WorkerDeathKeepsOnce, DeathsLeave
<1>9. ASSUME Send PROVE OnceInv'
  <2>1. CASE SendCheck
    <3>1. /\ send = "idle" /\ send' = "checked"
          /\ UNCHANGED <<row, link, content, task, sent, carries, deaths>>
      BY <2>1 DEF SendCheck, attachmentRow, workers
    <3> QED
      BY <3>1 DEF OnceInv, NothingAhead, StoredByPast, SpentOrBound, ContentOnce, Spent, Bound,
         Past, Stored, Live
  <2> QED
    BY <1>9, <2>1, CollectKeepsOnce, SaveKeepsOnce, LinkKeepsOnce DEF Send
<1>10. CASE SendDies
  BY <1>10, SendDiesKeepsOnce
<1>11. CASE CleanupOrphans
  BY <1>0, <1>11, QuietKeepsOnce DEF CleanupOrphans, DropRows, workers, messages, Live
<1>12. CASE CleanupStaleResults
  BY <1>12, QuietKeepsOnce DEF CleanupStaleResults, attachmentRow, workers, messages, Live
<1>13. CASE UNCHANGED vars
  BY <1>13, QuietKeepsOnce DEF vars, attachmentRow, workers, messages, Live
<1> QED
  BY <1>1, <1>2, <1>3, <1>4, <1>5, <1>6, <1>7, <1>9, <1>10, <1>11, <1>12, <1>13 DEF Next

\* No piece of a file is in two messages, whatever is uploaded, deleted and
\* cleaned up meanwhile, until two processes have been killed.
THEOREM SentOnce == Spec => []ContentOnce
<1>1. Init => Types /\ ContentHasItsRow /\ FilesInv /\ EnqueuedOnce /\ OnceInv
  BY BoundAssumption DEF Init, Types, SendRoom, TypeOK, ConfirmSteps, TaskSteps, PageSteps,
     SendSteps, FilesInv, Registered, Linked, LinkedBefore, UnlinkedSaved, UnlinkedCollected,
     ContentHasItsRow, EnqueuedOnce, OnceInv, NothingAhead, StoredByPast, SpentOrBound, ContentOnce
<1>2. /\ Types /\ ContentHasItsRow /\ FilesInv /\ EnqueuedOnce /\ OnceInv
      /\ [Next]_vars
      => (Types /\ ContentHasItsRow /\ FilesInv /\ EnqueuedOnce /\ OnceInv)'
  BY TypeStep, ContentStep, FilesStep, EnqueuedStep, OnceStep
<1>3. OnceInv => ContentOnce
  BY DEF OnceInv
<1> QED
  BY <1>1, <1>2, <1>3, PTL DEF Spec

-----------------------------------------------------------------------------
(* Runs, until a process is killed *)

Early == {"none", "queued", "typed", "stored", "counted", "committed", "lost"}

\* A file is confirmed after it was registered, by one handler at a time.
OneHandler ==
  \A a \in Attachments, r \in Runs :
    /\ register[a] # "closed" => confirm[a][r] = "idle"
    /\ confirm[a][r] \notin {"idle", "closed"} => lock[a] = r

\* Pages come from a task that has ended, and it has failed if one is missing.
PagesOfTask ==
  \A a \in Attachments, r \in Runs :
    /\ task[a][r] \in Early => \A p \in Pages : page[a][r][p] = "none"
    /\ task[a][r] \in {"failing", "failed"} => \E p \in Pages : page[a][r][p] = "none"
    /\ task[a][r] = "done" /\ kind[a] = "pdf" => \A p \in Pages : page[a][r][p] # "none"
    /\ task[a][r] # "killed"

\* Only a pdf is split into pages, and nothing else is committed as a whole.
ByKind ==
  \A a \in Attachments, r \in Runs :
    /\ kind[a] = "pdf" => task[a][r] # "committed"
    /\ kind[a] # "pdf" => /\ task[a][r] \notin {"stored", "counted"}
                          /\ \A p \in Pages : page[a][r][p] = "none"

\* A page is with the provider from the moment it was sent.
SentPages ==
  \A a \in Attachments, r \in Runs, p \in Pages :
    /\ page[a][r][p] \in {"none", "queued", "calling", "failing", "failed"}
         => PieceOf(a, r, p) \notin uploaded
    /\ page[a][r][p] = "sent" => PieceOf(a, r, p) \in uploaded

\* Keys are deleted, and a cleanup fails, after the row has gone.
GoneFiles ==
  \A a \in Attachments :
    /\ remove[a] = "deleted" => row[a] = "gone"
    /\ \A r \in Runs, p \in Pages : page[a][r][p] = "cleanupFailing" => ~Live(a)

\* Before the first run a file is neither ready nor reported as anything.
NotStarted ==
  \A a \in Attachments :
    /\ status[a] = "uploading" => Started(a) = {}
    /\ Started(a) = {} => ~ready[a]

Ordered == OneHandler /\ PagesOfTask /\ ByKind /\ SentPages /\ GoneFiles /\ NotStarted

\* Steps that touch neither confirmations nor tasks keep the order.
LEMMA QuietOrder ==
  ASSUME Ordered, UNCHANGED <<kind, ready, register, confirm, lock, task, page, uploaded>>,
         \A a \in Attachments :
           /\ row'[a] \in {row[a], "gone"}
           /\ status'[a] = "uploading" => status[a] = "uploading"
           /\ remove'[a] = "deleted" => remove[a] = "deleted" \/ row'[a] = "gone"
  PROVE  Ordered'
<1>1. OneHandler' /\ PagesOfTask' /\ ByKind' /\ SentPages'
  BY DEF Ordered, OneHandler, PagesOfTask, ByKind, SentPages
<1>2. GoneFiles'
  BY DEF Ordered, GoneFiles, Live
<1>3. NotStarted'
  BY DEF Ordered, NotStarted, Started
<1> QED
  BY <1>1, <1>2, <1>3 DEF Ordered

\* A file is registered before anything else is done with it.
LEMMA RegisterOrder ==
  ASSUME Types, FilesInv, EnqueuedOnce, Ordered, NEW a \in Attachments, Register(a)
  PROVE  Ordered'
<1> USE DEF Types, TypeOK
<1>0. register[a] # "closed" => \A r \in Runs : task[a][r] = "none" /\ confirm[a][r] = "idle"
  BY DEF Ordered, OneHandler, EnqueuedOnce
<1>1. CASE RegisterRow(a)
  <2>1. /\ register[a] = "idle" /\ register' = [register EXCEPT ![a] = "committed"]
        /\ row' = [row EXCEPT ![a] = "live"] /\ \A b \in Attachments \ {a} : kind'[b] = kind[b]
        /\ UNCHANGED <<ready, confirm, lock, status, remove, task, page, uploaded>>
    BY <1>1 DEF RegisterRow, redis, workers
  <2>2. \A r \in Runs : task[a][r] = "none" /\ \A p \in Pages : page[a][r][p] = "none"
    BY <1>0, <2>1 DEF Ordered, PagesOfTask, Early
  <2>3. row[a] = "none"
    BY <2>1 DEF FilesInv, Registered
  <2>4. OneHandler' /\ SentPages'
    BY <2>1 DEF Ordered, OneHandler, SentPages
  <2>5. /\ PagesOfTask'
        /\ ByKind'
    <3>1. ASSUME NEW b \in Attachments, NEW r \in Runs, b # a PROVE kind'[b] = kind[b]
      BY <2>1, <3>1
    <3>2. ASSUME NEW b \in Attachments, NEW r \in Runs, b = a
          PROVE  task[b][r] = "none" /\ \A p \in Pages : page[b][r][p] = "none"
      BY <2>2, <3>2
    <3>3. PagesOfTask'
      BY <2>1, <3>1, <3>2 DEF Ordered, PagesOfTask, Early
    <3>4. ByKind'
      BY <2>1, <3>1, <3>2 DEF Ordered, ByKind
    <3> QED
      BY <3>3, <3>4
  <2>6. GoneFiles'
    BY <2>1, <2>2, <2>3 DEF Ordered, GoneFiles, Live
  <2>7. NotStarted'
    BY <2>1 DEF Ordered, NotStarted, Started
  <2> QED
    BY <2>4, <2>5, <2>6, <2>7 DEF Ordered
<1>2. CASE RegisterStatus(a)
  <2>1. /\ register[a] = "committed" /\ register' = [register EXCEPT ![a] = "closed"]
        /\ \A b \in Attachments : status'[b] = status[b] \/ (b = a /\ status'[b] = "uploading")
        /\ UNCHANGED <<row, kind, ready, confirm, lock, remove, task, page, uploaded>>
    BY <1>2 DEF RegisterStatus, SetStatus, attachmentRow, workers
  <2>2. Started(a) = {}
    BY <1>0, <2>1 DEF Started
  <2>3. OneHandler' /\ SentPages' /\ PagesOfTask' /\ ByKind' /\ GoneFiles'
    BY <2>1 DEF Ordered, OneHandler, SentPages, PagesOfTask, ByKind, GoneFiles, Live
  <2>4. \A b \in Attachments : (Started(b))' = Started(b)
    BY <2>1 DEF Started
  <2>5. NotStarted'
    BY <2>1, <2>2, <2>4 DEF Ordered, NotStarted
  <2> QED
    BY <2>3, <2>5 DEF Ordered
<1>3. CASE BrowserUploads(a)
  BY <1>3, QuietOrder DEF BrowserUploads, attachmentRow, redis, handlers, workers
<1> QED
  BY <1>1, <1>2, <1>3 DEF Register

\* The lock lets one handler through, and what it sets starts a run.
LEMMA ConfirmOrder ==
  ASSUME Types, EnqueuedOnce, Ordered, NEW a \in Attachments, NEW r \in Runs, Confirm(a, r)
  PROVE  Ordered'
<1>1. UNCHANGED <<row, kind, ready, register, remove, page, uploaded>>
  BY DEF Confirm, ConfirmLock, ConfirmStatus, ConfirmFile, ConfirmSet, ConfirmEnqueue, ConfirmUnlock,
     attachmentRow, workers
<1>2. SentPages' /\ GoneFiles'
  BY <1>1 DEF Ordered, SentPages, GoneFiles, Live
<1>3. PagesOfTask' /\ ByKind'
  <2>1. \A b \in Attachments, k \in Runs :
          task'[b][k] = task[b][k] \/ (task'[b][k] \in {"queued", "lost"} /\ task[b][k] = "none")
    <3>1. confirm[a][r] = "set" => task[a][r] = "none"
      BY DEF EnqueuedOnce
    <3>2. task'[a][r] = task[a][r] \/ (task'[a][r] \in {"queued", "lost"} /\ task[a][r] = "none")
      BY <3>1, ConfirmMoves
    <3>3. \A b \in Attachments, k \in Runs : (b # a \/ k # r) => task'[b][k] = task[b][k]
      BY ConfirmMoves
    <3> QED
      BY <3>2, <3>3
  <2>2. PagesOfTask'
    BY <1>1, <2>1 DEF Ordered, PagesOfTask, Early
  <2>3. ByKind'
    BY <1>1, <2>1 DEF Ordered, ByKind
  <2> QED
    BY <2>2, <2>3
<1> USE DEF Types, TypeOK
<1>4. OneHandler'
  <2>1. CASE ConfirmLock(a, r)
    BY <2>1, NoneAssumption DEF ConfirmLock, ConfirmStep, Ordered, OneHandler
  <2>2. CASE ConfirmUnlock(a, r)
    <3>1. lock[a] = r /\ lock' = [lock EXCEPT ![a] = None] /\ confirm' = [confirm EXCEPT ![a][r] = "closed"]
          /\ confirm[a][r] = "unlocking" /\ register' = register
      BY <2>2 DEF ConfirmUnlock, ConfirmStep, Ordered, OneHandler
    <3> QED
      BY <3>1 DEF Ordered, OneHandler
  <2>3. CASE ConfirmStatus(a, r) \/ ConfirmFile(a, r) \/ ConfirmSet(a, r) \/ ConfirmEnqueue(a, r)
    <3>1. PICK s : confirm' = [confirm EXCEPT ![a][r] = s]
      BY <2>3 DEF ConfirmStatus, ConfirmFile, ConfirmSet, ConfirmEnqueue, ConfirmStep
    <3>2. confirm[a][r] \notin {"idle", "closed"} /\ lock' = lock
      BY <2>3 DEF ConfirmStatus, ConfirmFile, ConfirmSet, ConfirmEnqueue, ConfirmStep, redis
    <3> QED
      BY <1>1, <3>1, <3>2 DEF Ordered, OneHandler
  <2> QED
    BY <2>1, <2>2, <2>3 DEF Confirm
<1>5. NotStarted'
  <2>1. CASE ConfirmSet(a, r)
    <3>1. confirm' = [confirm EXCEPT ![a][r] = "set"] /\ status' = [status EXCEPT ![a] = "processing"]
          /\ task' = task
      BY <2>1 DEF ConfirmSet, ConfirmStep, SetStatus, workers
    <3>2. \A b \in Attachments : b # a => (Started(b))' = Started(b)
      BY <3>1 DEF Started
    <3>3. r \in (Started(a))'
      BY <3>1 DEF Started
    <3> QED
      BY <1>1, <3>1, <3>2, <3>3 DEF Ordered, NotStarted
  <2>2. CASE ~ConfirmSet(a, r)
    <3>1. status' = status
      BY <2>2 DEF Confirm, ConfirmLock, ConfirmStatus, ConfirmFile, ConfirmEnqueue, ConfirmUnlock, redis
    <3>2. \A b \in Attachments : (Started(b))' = Started(b)
      <4>1. CASE ConfirmEnqueue(a, r)
        BY <4>1 DEF ConfirmEnqueue, ConfirmStep, Started, Types, TypeOK
      <4>2. CASE ConfirmLock(a, r) \/ ConfirmUnlock(a, r) \/ ConfirmStatus(a, r) \/ ConfirmFile(a, r)
        <5>1. confirm[a][r] # "set" /\ task' = task
          BY <4>2 DEF ConfirmLock, ConfirmUnlock, ConfirmStatus, ConfirmFile, ConfirmStep, workers
        <5>2. PICK s \in ConfirmSteps \ {"set"} : confirm' = [confirm EXCEPT ![a][r] = s]
          BY <4>2 DEF ConfirmLock, ConfirmUnlock, ConfirmStatus, ConfirmFile, ConfirmStep, ConfirmSteps
        <5> QED
          BY <5>1, <5>2 DEF Started
      <4> QED
        BY <2>2, <4>1, <4>2 DEF Confirm
    <3> QED
      BY <1>1, <3>1, <3>2 DEF Ordered, NotStarted
  <2> QED
    BY <2>1, <2>2
<1> QED
  BY <1>2, <1>3, <1>4, <1>5 DEF Ordered

\* What the step of a task does to its task and to its pages.
TaskMoves(a, r) ==
  \/ /\ page' = page
     /\ \/ task[a][r] = "queued" /\ task'[a][r] \in {"typed", "failing", "lost"}
        \/ task[a][r] = "typed" /\ task'[a][r] = "failing"
        \/ task[a][r] = "typed" /\ kind[a] = "pdf" /\ task'[a][r] = "stored"
        \/ task[a][r] = "typed" /\ kind[a] # "pdf" /\ task'[a][r] = "committed"
        \/ task[a][r] = "stored" /\ task'[a][r] = "counted"
        \/ task[a][r] = "failing" /\ task'[a][r] = "failed"
        \/ task[a][r] = "committed" /\ task'[a][r] = "done"
  \/ /\ task[a][r] = "counted"
     /\ \A b \in Attachments, k \in Runs : (b # a \/ k # r) => page'[b][k] = page[b][k]
     /\ \E published \in SUBSET Pages :
          /\ task'[a][r] = IF published = Pages THEN "done" ELSE "failing"
          /\ \A p \in Pages : page'[a][r][p] = IF p \in published THEN "queued" ELSE page[a][r][p]

\* What else the step of a task may touch.
LEMMA ProcessEffect ==
  ASSUME Types, NEW a \in Attachments, NEW r \in Runs, Process(a, r)
  PROVE  /\ UNCHANGED <<kind, row, link, register, confirm, poll, remove, lock, owned, uploaded, deaths>>
         /\ \A b \in Attachments, k \in Runs : (b # a \/ k # r) => task'[b][k] = task[b][k]
         /\ TaskMoves(a, r)
<1> USE DEF TaskStep, attachmentRow, redis, handlers, workers
<1>1. /\ UNCHANGED <<kind, row, link, register, confirm, poll, remove, lock, owned, uploaded, deaths>>
  BY DEF Process, Dispatch, TaskError, PdfStore, PdfCount, PdfFanOut, DirectCommit, DirectReport
<1>2. \A b \in Attachments, k \in Runs : (b # a \/ k # r) => task'[b][k] = task[b][k]
  BY ProcessMoves DEF TaskOnly
<1> USE DEF Types, TypeOK
<1>3. CASE Dispatch(a, r) \/ TaskError(a, r)
  BY <1>3 DEF Dispatch, TaskError, TaskMoves
<1>4. CASE PdfCount(a, r) \/ DirectReport(a, r)
  BY <1>4 DEF PdfCount, DirectReport, TaskMoves
<1>5. CASE PdfStore(a, r)
  <2>1. /\ task[a][r] = "typed" /\ kind[a] = "pdf" /\ page' = page
        /\ \E stored \in SUBSET Pages :
             task' = [task EXCEPT ![a][r] = IF stored = Pages THEN "stored" ELSE "failing"]
    BY <1>5 DEF PdfStore
  <2>2. task'[a][r] \in {"stored", "failing"}
    BY <2>1
  <2> HIDE DEF Types, TypeOK
  <2> QED
    BY <1>1, <1>2, <2>1, <2>2 DEF TaskMoves
<1>6. CASE DirectCommit(a, r)
  <2>1. /\ task[a][r] = "typed" /\ kind[a] # "pdf" /\ page' = page
        /\ \E ok : task' = [task EXCEPT ![a][r] = IF ok THEN "committed" ELSE "failing"]
    BY <1>6 DEF DirectCommit
  <2>2. task'[a][r] \in {"committed", "failing"}
    BY <2>1
  <2> HIDE DEF Types, TypeOK
  <2> QED
    BY <1>1, <1>2, <2>1, <2>2 DEF TaskMoves
<1>7. CASE PdfFanOut(a, r)
  <2>1. PICK published \in SUBSET Pages :
          /\ task[a][r] = "counted"
          /\ task' = [task EXCEPT ![a][r] = IF published = Pages THEN "done" ELSE "failing"]
          /\ page' = [page EXCEPT ![a][r] = [p \in Pages |-> IF p \in published THEN "queued" ELSE @[p]]]
    BY <1>7 DEF PdfFanOut
  <2>2. task'[a][r] = IF published = Pages THEN "done" ELSE "failing"
    BY <2>1
  <2>3. \A b \in Attachments, k \in Runs : (b # a \/ k # r) => page'[b][k] = page[b][k]
    BY <2>1
  <2>4. \A p \in Pages : page'[a][r][p] = IF p \in published THEN "queued" ELSE page[a][r][p]
    BY <2>1
  <2>5. \E q \in SUBSET Pages :
          /\ task'[a][r] = IF q = Pages THEN "done" ELSE "failing"
          /\ \A p \in Pages : page'[a][r][p] = IF p \in q THEN "queued" ELSE page[a][r][p]
    BY <2>2, <2>4
  <2> HIDE DEF Types, TypeOK
  <2> QED
    BY <1>1, <1>2, <2>1, <2>3, <2>5 DEF TaskMoves
<1> QED
  BY <1>1, <1>2, <1>3, <1>4, <1>5, <1>6, <1>7 DEF Process

\* Status and ready, as far as the order of things goes.
LEMMA ProcessReports ==
  ASSUME Types, NEW a \in Attachments, NEW r \in Runs, Process(a, r)
  PROVE  /\ \A b \in Attachments : b # a => ready'[b] = ready[b] /\ status'[b] = status[b]
         /\ kind[a] = "pdf" => ready' = ready
         /\ status'[a] \in {status[a], "error", "completed"}
         /\ status'[a] = "completed" /\ status[a] # "completed" => task[a][r] = "committed"
         /\ status'[a] = "error" /\ status[a] # "error" => task'[a][r] = "failed"
         /\ task'[a][r] = "failed" => status'[a] = "error"
<1> USE DEF Types, TypeOK, TaskStep, SetStatus, attachmentRow, redis
<1>1. CASE Dispatch(a, r)
  BY <1>1 DEF Dispatch
<1>2. CASE TaskError(a, r)
  BY <1>2 DEF TaskError
<1>3. CASE PdfStore(a, r)
  BY <1>3 DEF PdfStore
<1>4. CASE PdfCount(a, r)
  BY <1>4 DEF PdfCount
<1>5. CASE PdfFanOut(a, r)
  BY <1>5 DEF PdfFanOut
<1>6. CASE DirectCommit(a, r)
  BY <1>6 DEF DirectCommit
<1>7. CASE DirectReport(a, r)
  BY <1>7 DEF DirectReport
<1> QED
  BY <1>1, <1>2, <1>3, <1>4, <1>5, <1>6, <1>7 DEF Process

\* The step of a task keeps the order.
LEMMA ProcessOrder ==
  ASSUME Types, Ordered, NEW a \in Attachments, NEW r \in Runs, Process(a, r)
  PROVE  Ordered'
<1>1. /\ UNCHANGED <<kind, row, register, confirm, remove, lock, uploaded>>
      /\ \A b \in Attachments, k \in Runs : (b # a \/ k # r) => task'[b][k] = task[b][k]
      /\ TaskMoves(a, r)
  BY ProcessEffect
<1>2. OneHandler'
  BY <1>1 DEF Ordered, OneHandler
<1>3. \A b \in Attachments, k \in Runs : (b # a \/ k # r) => page'[b][k] = page[b][k]
  BY <1>1 DEF TaskMoves
<1>4. task[a][r] \in Early => \A p \in Pages : page[a][r][p] = "none"
  BY DEF Ordered, PagesOfTask
<1>5. /\ task'[a][r] \in Early => \A p \in Pages : page'[a][r][p] = "none"
      /\ task'[a][r] \in {"failing", "failed"} => \E p \in Pages : page'[a][r][p] = "none"
      /\ task'[a][r] = "done" /\ kind[a] = "pdf" => \A p \in Pages : page'[a][r][p] # "none"
      /\ task'[a][r] # "killed"
  <2>1. CASE page' = page /\ task[a][r] \in Early
    BY <1>1, <1>4, <2>1, PagesAssumption DEF Ordered, ByKind, TaskMoves, Early
  <2>2. CASE task[a][r] = "failing" /\ page' = page /\ task'[a][r] = "failed"
    BY <2>2 DEF Ordered, PagesOfTask, Early
  <2>3. CASE task[a][r] = "counted" /\ page' # page
    <3>1. PICK published \in SUBSET Pages :
            /\ task'[a][r] = IF published = Pages THEN "done" ELSE "failing"
            /\ \A p \in Pages : page'[a][r][p] = IF p \in published THEN "queued" ELSE page[a][r][p]
      BY <1>1, <2>3 DEF TaskMoves
    <3>2. \A p \in Pages : page[a][r][p] = "none"
      BY <1>4, <2>3 DEF Early
    <3> QED
      BY <3>1, <3>2 DEF Early
  <2> QED
    BY <1>1, <2>1, <2>2, <2>3 DEF TaskMoves, Early
<1>6. PagesOfTask'
  BY <1>1, <1>3, <1>5 DEF Ordered, PagesOfTask
<1>7. /\ kind[a] = "pdf" => task'[a][r] # "committed"
      /\ kind[a] # "pdf" => /\ task'[a][r] \notin {"stored", "counted"}
                            /\ \A p \in Pages : page'[a][r][p] = "none"
  BY <1>1, <1>4 DEF Ordered, ByKind, TaskMoves
<1>8. ByKind'
  BY <1>1, <1>3, <1>7 DEF Ordered, ByKind
<1>9. \A p \in Pages : page'[a][r][p] = page[a][r][p] \/ (page'[a][r][p] = "queued" /\ page[a][r][p] = "none")
  BY <1>1, <1>4 DEF TaskMoves, Early
<1>10. SentPages'
  BY <1>1, <1>3, <1>9 DEF Ordered, SentPages
<1>11. GoneFiles'
  BY <1>1, <1>3, <1>9 DEF Ordered, GoneFiles, Live
<1>12. NotStarted'
  <2>1. task[a][r] # "none" /\ task'[a][r] # "none"
    BY <1>1 DEF TaskMoves
  <2>2. \A b \in Attachments : (Started(b))' = Started(b)
    BY <1>1, <2>1 DEF Started
  <2>3. r \in Started(a)
    BY <2>1 DEF Started
  <2>4. \A b \in Attachments : b # a => ready'[b] = ready[b] /\ status'[b] = status[b]
    BY ProcessReports
  <2>5. status'[a] = "uploading" => status[a] = "uploading"
    BY ProcessReports
  <2> QED
    BY <2>2, <2>3, <2>4, <2>5 DEF Ordered, NotStarted
<1> QED
  BY <1>2, <1>6, <1>8, <1>10, <1>11, <1>12 DEF Ordered

\* What the step of a page does to the page, the status, the counter and ready.
PageMoves(a, r, p) ==
  LET from == page[a][r][p]
      to == page'[a][r][p]
  IN  \/ /\ \/ from = "queued" /\ to \in {"calling", "failing"}
            \/ from = "calling" /\ to = "failing"
            \/ from = "taken" /\ to = IF Live(a) THEN "loaded" ELSE "cleanupFailing"
            \/ from = "loaded" /\ to = IF status[a] = "error" THEN "over" ELSE "approved"
         /\ UNCHANGED <<uploaded, sync, status, ready>>
      \/ /\ from = "calling" /\ to = "sent"
         /\ uploaded' = uploaded \cup {PieceOf(a, r, p)}
         /\ UNCHANGED <<sync, status, ready>>
      \/ /\ from = "sent" /\ to \in {"cleanup", "over"} /\ (Decremented(a) > 0 => to = "over")
         /\ sync' = [sync EXCEPT ![a] = Decremented(a)]
         /\ UNCHANGED <<uploaded, status, ready>>
      \/ /\ from = "failed" /\ to \in {"cleanup", "over"}
         /\ sync' = [sync EXCEPT ![a] = Decremented(a)]
         /\ UNCHANGED <<uploaded, status, ready>>
      \/ /\ from = "cleanup" /\ to \in {"over", "taken"}
         /\ sync' = [sync EXCEPT ![a] = None]
         /\ UNCHANGED <<uploaded, status, ready>>
      \/ /\ \/ from = "failing" /\ to = "failed"
            \/ from = "cleanupFailing" /\ to = "over"
         /\ status' = [status EXCEPT ![a] = "error"]
         /\ UNCHANGED <<uploaded, sync, ready>>
      \/ /\ from = "approved" /\ to = "completed"
         /\ status' = [status EXCEPT ![a] = "completed"]
         /\ UNCHANGED <<uploaded, sync, ready>>
      \/ /\ from = "completed" /\ to = IF Live(a) THEN "over" ELSE "cleanupFailing"
         /\ ready' = [ready EXCEPT ![a] = @ \/ Live(a)]
         /\ UNCHANGED <<uploaded, sync, status>>

\* What else the step of a page may touch.
LEMMA UploadEffect ==
  ASSUME Types, NEW a \in Attachments, NEW r \in Runs, NEW p \in Pages, UploadPage(a, r, p)
  PROVE  /\ UNCHANGED <<kind, row, link, register, confirm, poll, remove, lock, owned, task, deaths>>
         /\ \A b \in Attachments, k \in Runs, q \in Pages :
              (b # a \/ k # r \/ q # p) => page'[b][k][q] = page[b][k][q]
         /\ PageMoves(a, r, p)
<1>1. UNCHANGED <<kind, row, link, register, confirm, poll, remove, lock, owned, task, deaths>>
  BY DEF UploadPage, PageLoad, PageSend, PageError, PageCount, CountPage, CleanupTake, CleanupObjects,
     CleanupJudge, CleanupApprove, CleanupCommit, CleanupError, attachmentRow, redis, handlers
<1>2. PICK s \in PageSteps : page' = [page EXCEPT ![a][r][p] = s]
  BY DEF UploadPage, PageLoad, PageSend, PageError, PageCount, CountPage, CleanupTake, CleanupObjects,
     CleanupJudge, CleanupApprove, CleanupCommit, CleanupError, PageStep, PageSteps
<1>3. page \in [Attachments -> [Runs -> [Pages -> PageSteps]]]
  BY DEF Types, TypeOK
<1>4. \A b \in Attachments, k \in Runs, q \in Pages :
        (b # a \/ k # r \/ q # p) => page'[b][k][q] = page[b][k][q]
  BY <1>2, <1>3
<1>5. \A t : page' = [page EXCEPT ![a][r][p] = t] => page'[a][r][p] = t
  BY <1>3
<1>6. PageMoves(a, r, p)
  <2> USE <1>5 DEF PageStep, PageMoves, attachmentRow, redis
  <2>1. CASE PageLoad(a, r, p)
    BY <2>1 DEF PageLoad
  <2>2. CASE PageSend(a, r, p)
    BY <2>2 DEF PageSend
  <2>3. CASE PageError(a, r, p)
    BY <2>3 DEF PageError, SetStatus
  <2>8. CASE CleanupError(a, r, p)
    BY <2>8 DEF CleanupError, SetStatus
  <2>9. CASE CleanupApprove(a, r, p)
    BY <2>9 DEF CleanupApprove, SetStatus
  <2>4. CASE PageCount(a, r, p)
    <3>1. PICK from \in {"sent", "failed"}, published \in BOOLEAN :
            LET asks == Decremented(a) <= 0 \/ from = "failed"
            IN  PageStep(a, r, p, from, IF asks /\ published THEN "cleanup" ELSE "over")
      BY <2>4 DEF PageCount, CountPage
    <3>2. /\ page[a][r][p] = from /\ page'[a][r][p] \in {"cleanup", "over"}
          /\ from = "sent" /\ ~(Decremented(a) <= 0) => page'[a][r][p] = "over"
      BY <3>1
    <3>3. Decremented(a) \in Int
      BY DEF Decremented, Types, TypeOK
    <3>4. sync' = [sync EXCEPT ![a] = Decremented(a)] /\ UNCHANGED <<uploaded, status, ready>>
      BY <2>4 DEF PageCount, CountPage
    <3> QED
      BY <3>2, <3>3, <3>4
  <2>5. CASE CleanupTake(a, r, p)
    BY <2>5 DEF CleanupTake
  <2>6. CASE CleanupObjects(a, r, p) \/ CleanupJudge(a, r, p)
    BY <2>6 DEF CleanupObjects, CleanupJudge
  <2>7. CASE CleanupCommit(a, r, p)
    BY <2>7 DEF CleanupCommit
  <2> QED
    BY <2>1, <2>2, <2>3, <2>4, <2>5, <2>6, <2>7, <2>8, <2>9 DEF UploadPage
<1> QED
  BY <1>1, <1>4, <1>6

\* A page that moves is there, and belongs to a task that has ended, of a pdf.
LEMMA PageIsThere ==
  ASSUME Types, Ordered, NEW a \in Attachments, NEW r \in Runs, NEW p \in Pages,
         PageMoves(a, r, p)
  PROVE  /\ page[a][r][p] # "none" /\ page'[a][r][p] # "none"
         /\ task[a][r] \in {"failing", "failed", "done"} /\ kind[a] = "pdf"
         /\ r \in Started(a)
<1>1. page[a][r][p] # "none" /\ page'[a][r][p] # "none"
  BY DEF PageMoves
<1>2. task[a][r] \notin Early /\ task[a][r] # "killed" /\ kind[a] = "pdf"
  BY <1>1 DEF Ordered, PagesOfTask, ByKind
<1>3. task[a][r] \in TaskSteps
  BY DEF Types, TypeOK
<1> QED
  BY <1>1, <1>2, <1>3 DEF Early, TaskSteps, Started

\* The step of a page keeps the order.
LEMMA UploadOrder ==
  ASSUME Types, Ordered, NEW a \in Attachments, NEW r \in Runs, NEW p \in Pages,
         UploadPage(a, r, p)
  PROVE  Ordered'
<1>1. /\ UNCHANGED <<kind, row, register, confirm, remove, lock, task>>
      /\ \A b \in Attachments, k \in Runs, q \in Pages :
           (b # a \/ k # r \/ q # p) => page'[b][k][q] = page[b][k][q]
      /\ PageMoves(a, r, p)
  BY UploadEffect
<1>2. /\ page[a][r][p] # "none" /\ page'[a][r][p] # "none"
      /\ task[a][r] \in {"failing", "failed", "done"} /\ kind[a] = "pdf" /\ r \in Started(a)
  BY <1>1, PageIsThere
<1>3. OneHandler'
  BY <1>1 DEF Ordered, OneHandler
<1>4. \A b \in Attachments, k \in Runs, q \in Pages : page'[b][k][q] = "none" <=> page[b][k][q] = "none"
  BY <1>1, <1>2
<1>5. PagesOfTask'
  BY <1>1, <1>4 DEF Ordered, PagesOfTask
<1>6. ByKind'
  BY <1>1, <1>4 DEF Ordered, ByKind
<1>7. SentPages'
  <2>1. ASSUME NEW b \in Attachments, NEW k \in Runs, NEW q \in Pages, b # a \/ k # r \/ q # p
        PROVE  /\ page'[b][k][q] = page[b][k][q]
               /\ PieceOf(b, k, q) \in uploaded' <=> PieceOf(b, k, q) \in uploaded
    <3>1. PieceOf(b, k, q) # PieceOf(a, r, p)
      BY <2>1 DEF PieceOf
    <3>2. uploaded' \in {uploaded, uploaded \cup {PieceOf(a, r, p)}}
      BY <1>1 DEF PageMoves
    <3> QED
      BY <1>1, <2>1, <3>1, <3>2
  <2>2. /\ page'[a][r][p] \in {"none", "queued", "calling", "failing", "failed"}
             => PieceOf(a, r, p) \notin uploaded'
        /\ page'[a][r][p] = "sent" => PieceOf(a, r, p) \in uploaded'
    BY <1>1 DEF PageMoves, Ordered, SentPages
  <2> QED
    BY <2>1, <2>2 DEF Ordered, SentPages
<1>8. GoneFiles'
  <2>1. page'[a][r][p] = "cleanupFailing" => ~Live(a)
    BY <1>1 DEF PageMoves
  <2> QED
    BY <1>1, <2>1 DEF Ordered, GoneFiles, Live
<1>9. NotStarted'
  <2>1. \A b \in Attachments : (Started(b))' = Started(b)
    BY <1>1 DEF Started
  <2>2. \A b \in Attachments : b # a => ready'[b] = ready[b] /\ status'[b] = status[b]
    BY <1>1 DEF PageMoves, Types, TypeOK
  <2>3. status'[a] = "uploading" => status[a] = "uploading"
    BY <1>1 DEF PageMoves, Types, TypeOK
  <2> QED
    BY <1>2, <2>1, <2>2, <2>3 DEF Ordered, NotStarted
<1> QED
  BY <1>3, <1>5, <1>6, <1>7, <1>8, <1>9 DEF Ordered

\* A process that was killed stays in the count.
LEMMA Killed ==
  ASSUME Types, [Next]_vars, deaths' = 0
  PROVE  /\ deaths = 0 /\ ~SendDies
         /\ \A a \in Attachments, r \in Runs : ~RunDies(a, r)
<1>1. deaths \in Nat
  BY DEF Types, TypeOK
<1>2. ~SendDies /\ \A a \in Attachments, r \in Runs : ~RunDies(a, r)
  BY <1>1, DeathsLeave DEF SendDies
<1>3. ASSUME NEW a \in Attachments, Register(a) \/ Poll(a) \/ Remove(a) \/ Expire(a) PROVE deaths' = deaths
  BY <1>3 DEF Register, RegisterRow, RegisterStatus, BrowserUploads, Poll, PollVerify, PollCache, Remove, RemoveVerify, RemoveObjects, RemoveRow, RemoveKeys, Expire,
       StatusExpires, SyncExpires, OwnedExpires
<1>4. ASSUME NEW a \in Attachments, NEW r \in Runs, Confirm(a, r) PROVE deaths' = deaths
  BY <1>4 DEF Confirm, ConfirmLock, ConfirmStatus, ConfirmFile, ConfirmSet, ConfirmEnqueue, ConfirmUnlock
<1>5. ASSUME NEW a \in Attachments, NEW r \in Runs, Process(a, r) PROVE deaths' = deaths
  BY <1>5, ProcessEffect
<1>6. ASSUME NEW a \in Attachments, NEW r \in Runs, NEW p \in Pages, UploadPage(a, r, p) PROVE deaths' = deaths
  BY <1>6, UploadEffect
<1>7. CASE Send \/ CleanupOrphans \/ CleanupStaleResults \/ UNCHANGED vars
  BY <1>2, <1>7 DEF Send, SendCheck, SendCollect, SendSave, SendLink, CleanupOrphans,
       CleanupStaleResults, vars
<1> QED
  BY <1>2, <1>3, <1>4, <1>5, <1>6, <1>7 DEF Next

\* The remaining steps touch no run: they are those of the client's polls and
\* deletions, of messages, of the hourly tasks and of time.
Aside == \/ \E a \in Attachments : Poll(a) \/ Remove(a) \/ Expire(a)
         \/ Send \/ CleanupOrphans \/ CleanupStaleResults \/ UNCHANGED vars

\* What these steps leave alone.
LEMMA AsideEffect ==
  ASSUME Types, Aside
  PROVE  /\ UNCHANGED <<kind, ready, register, confirm, lock, task, page, uploaded, deaths, cut>>
         /\ \A a \in Attachments :
              /\ row'[a] \in {row[a], "gone"}
              /\ status'[a] \in {status[a], "none"}
              /\ remove'[a] = "deleted" => remove[a] = "deleted" \/ row'[a] = "gone"
<1> USE DEF attachmentRow, redis, handlers, workers, Types, TypeOK
<1>1. ASSUME NEW a \in Attachments, Poll(a) \/ Expire(a)
      PROVE  /\ UNCHANGED <<kind, ready, register, confirm, lock, task, page, uploaded, deaths, cut, row, remove>>
             /\ \A b \in Attachments : status'[b] \in {status[b], "none"}
  BY <1>1 DEF Poll, PollVerify, PollCache, Expire, StatusExpires, SyncExpires,
       OwnedExpires, SetStatus
<1>2. ASSUME NEW a \in Attachments, RemoveVerify(a) \/ RemoveObjects(a) \/ RemoveKeys(a)
      PROVE  /\ UNCHANGED <<kind, ready, register, confirm, lock, task, page, uploaded, deaths, cut, row>>
             /\ \A b \in Attachments : /\ status'[b] \in {status[b], "none"}
                                       /\ remove'[b] = "deleted" => remove[b] = "deleted"
  BY <1>2 DEF RemoveVerify, RemoveObjects, RemoveKeys, RemoveStep, SetStatus
<1>3. ASSUME NEW a \in Attachments, RemoveRow(a)
      PROVE  /\ UNCHANGED <<kind, ready, register, confirm, lock, task, page, uploaded, deaths, cut, status>>
             /\ \A b \in Attachments : /\ row'[b] \in {row[b], "gone"}
                                       /\ remove'[b] = "deleted" => remove[b] = "deleted" \/ row'[b] = "gone"
  BY <1>3 DEF RemoveRow, RemoveStep, DropRows
<1>4. CASE Send \/ CleanupStaleResults \/ UNCHANGED vars
  BY <1>4 DEF Send, SendCheck, SendCollect, SendSave, SendLink, CleanupStaleResults, vars
<1>5. CASE CleanupOrphans
  BY <1>5 DEF CleanupOrphans, DropRows
<1> QED
  BY <1>1, <1>2, <1>3, <1>4, <1>5 DEF Aside, Remove

\* Until a process is killed, every step keeps the order.
LEMMA OrderedStep ==
  ASSUME Types, FilesInv, EnqueuedOnce, Ordered, [Next]_vars, deaths' = 0
  PROVE  Ordered'
<1>1. CASE Aside
  BY <1>1, AsideEffect, QuietOrder
<1> QED
  BY <1>1, Killed, RegisterOrder, ConfirmOrder, ProcessOrder, UploadOrder DEF Next, Aside

-----------------------------------------------------------------------------
(* What a run costs, until a process is killed *)

TaskFails(a) == {r \in Runs : task[a][r] = "failed"}
PageFails(a) ==
  {x \in Runs \X Pages : PageFailed(a, x[1], x[2]) /\ page[a][x[1]][x[2]] # "failing"}
Reports(a) == Cardinality(TaskFails(a)) + Cardinality(PageFails(a))

\* The next run may start: an error stands, or a handler has seen one.
MayStart(a) ==
  \/ Live(a) /\ status[a] = "error"
  \/ Live(a) /\ \E r \in Runs : confirm[a][r] = "checked"
  \/ \E r \in Runs : confirm[a][r] = "found"

\* Every run but the first is paid for, and where the next one may start, so is
\* the first.
Paid(a) ==
  /\ IsFiniteSet(Started(a))
  /\ Cardinality(Started(a)) <= 1 + Reports(a)
  /\ MayStart(a) => Cardinality(Started(a)) <= Reports(a)

\* Failures are those of started runs.
FailsInRuns ==
  \A a \in Attachments :
    TaskFails(a) \subseteq Started(a) /\ PageFails(a) \subseteq Started(a) \X Pages

\* They are, because pages come from tasks.
LEMMA FailsOfRuns == Ordered => FailsInRuns
<1> SUFFICES ASSUME Ordered, NEW a \in Attachments
             PROVE  TaskFails(a) \subseteq Started(a) /\ PageFails(a) \subseteq Started(a) \X Pages
  BY DEF FailsInRuns
<1>1. ASSUME NEW x \in PageFails(a) PROVE x \in Started(a) \X Pages
  <2>1. x \in Runs \X Pages /\ page[a][x[1]][x[2]] # "none"
    BY <1>1 DEF PageFails, PageFailed
  <2>2. task[a][x[1]] # "none"
    BY <2>1 DEF Ordered, PagesOfTask, Early
  <2> QED
    BY <2>1, <2>2 DEF Started
<1> QED
  BY <1>1 DEF TaskFails, Started

\* Two finite sets that grow count more, and strictly more with a new element.
LEMMA CountsGrow ==
  ASSUME NEW S1, NEW S2, NEW T1, NEW T2, S1 \subseteq S2, T1 \subseteq T2,
         IsFiniteSet(S2), IsFiniteSet(T2)
  PROVE  /\ Cardinality(S1) + Cardinality(T1) \in Nat
         /\ Cardinality(S2) + Cardinality(T2) \in Nat
         /\ Cardinality(S1) + Cardinality(T1) <= Cardinality(S2) + Cardinality(T2)
         /\ S1 # S2 \/ T1 # T2
              => Cardinality(S1) + Cardinality(T1) < Cardinality(S2) + Cardinality(T2)
<1>1. /\ IsFiniteSet(S1) /\ Cardinality(S1) <= Cardinality(S2)
      /\ Cardinality(S2) = Cardinality(S1) => S1 = S2
  BY FS_Subset
<1>2. /\ IsFiniteSet(T1) /\ Cardinality(T1) <= Cardinality(T2)
      /\ Cardinality(T2) = Cardinality(T1) => T1 = T2
  BY FS_Subset
<1>3. /\ Cardinality(S1) \in Nat /\ Cardinality(S2) \in Nat
      /\ Cardinality(T1) \in Nat /\ Cardinality(T2) \in Nat
  BY <1>1, <1>2, FS_CardinalityType
<1> QED
  BY <1>1, <1>2, <1>3

\* A step that starts no run leaves the runs paid for, if the next one may start
\* only as before, before the first one, or at the price of a new report.
LEMMA PaidStays ==
  ASSUME Ordered, Ordered', NEW a \in Attachments, Paid(a),
         Started(a)' = Started(a),
         TaskFails(a) \subseteq TaskFails(a)', PageFails(a) \subseteq PageFails(a)',
         MayStart(a)' => \/ MayStart(a) \/ Started(a) = {}
                         \/ TaskFails(a) # TaskFails(a)' \/ PageFails(a) # PageFails(a)'
  PROVE  Paid(a)'
<1>0. FailsInRuns'
  BY FailsOfRuns, PTL
<1>1. IsFiniteSet(Started(a)) /\ Cardinality(Started(a)) \in Nat
  BY FS_CardinalityType DEF Paid
<1>2. IsFiniteSet(TaskFails(a)')
  <2>1. TaskFails(a)' \in SUBSET Started(a)
    BY <1>0 DEF FailsInRuns
  <2> QED
    BY <1>1, <2>1, FS_Subset
<1>3. IsFiniteSet(PageFails(a)')
  <2>1. PageFails(a)' \in SUBSET (Started(a) \X Pages)
    BY <1>0 DEF FailsInRuns
  <2>2. IsFiniteSet(Started(a) \X Pages)
    BY <1>1, PagesAssumption, FS_Product
  <2> QED
    BY <2>1, <2>2, FS_Subset
<1>4. /\ Reports(a) \in Nat /\ Reports(a)' \in Nat /\ Reports(a) <= Reports(a)'
      /\ TaskFails(a) # TaskFails(a)' \/ PageFails(a) # PageFails(a)' => Reports(a) < Reports(a)'
  BY <1>2, <1>3, CountsGrow DEF Reports
<1>5. Started(a) = {} => Cardinality(Started(a)) = 0
  BY FS_EmptySet
<1> QED
  BY <1>1, <1>4, <1>5 DEF Paid

\* A failure stands: neither a task nor a page comes back from it.
LEMMA FailsStand ==
  ASSUME Types, EnqueuedOnce, Ordered, [Next]_vars, deaths' = 0, NEW a \in Attachments
  PROVE  TaskFails(a) \subseteq TaskFails(a)' /\ PageFails(a) \subseteq PageFails(a)'
<1> DEFINE Out(r, p) == PageFailed(a, r, p) /\ page[a][r][p] # "failing"
           Stand == \A r \in Runs : /\ task[a][r] = "failed" => task'[a][r] = "failed"
                                    /\ \A p \in Pages : Out(r, p) => Out(r, p)'
<1>1. CASE Aside
  BY <1>1, AsideEffect DEF TaskFails, PageFails, PageFailed
<1>2. CASE \E b \in Attachments : Register(b)
  <2>1. UNCHANGED <<task, page, uploaded>>
    BY <1>2 DEF Register, RegisterRow, RegisterStatus, BrowserUploads, workers
  <2> QED
    BY <2>1 DEF TaskFails, PageFails, PageFailed
<1>3. ASSUME NEW b \in Attachments, NEW k \in Runs, Confirm(b, k) PROVE Stand
  <2>1. UNCHANGED <<page, uploaded>>
    BY <1>3 DEF Confirm, ConfirmLock, ConfirmStatus, ConfirmFile, ConfirmSet, ConfirmEnqueue,
         ConfirmUnlock, workers
  <2>2. \A r \in Runs : task[a][r] = "failed" => task'[a][r] = "failed"
    BY <1>3, ConfirmMoves DEF EnqueuedOnce
  <2> QED
    BY <2>1, <2>2 DEF PageFailed
<1>4. ASSUME NEW b \in Attachments, NEW k \in Runs, Process(b, k) PROVE Stand
  <2>1. /\ uploaded' = uploaded
        /\ \A c \in Attachments, r \in Runs : (c # b \/ r # k) => task'[c][r] = task[c][r]
        /\ TaskMoves(b, k)
    BY <1>4, ProcessEffect
  <2>2. \A r \in Runs : task[a][r] = "failed" => task'[a][r] = "failed"
    BY <2>1 DEF TaskMoves
  <2>3. \A r \in Runs, p \in Pages : page'[a][r][p] = page[a][r][p] \/ page[a][r][p] = "none"
    BY <2>1 DEF TaskMoves, Ordered, PagesOfTask, Early
  <2> QED
    BY <2>1, <2>2, <2>3 DEF PageFailed
<1>5. ASSUME NEW b \in Attachments, NEW k \in Runs, NEW q \in Pages, UploadPage(b, k, q) PROVE Stand
  <2>1. /\ task' = task
        /\ \A c \in Attachments, r \in Runs, p \in Pages :
             (c # b \/ r # k \/ p # q) => page'[c][r][p] = page[c][r][p]
        /\ PageMoves(b, k, q)
    BY <1>5, UploadEffect
  <2>2. ASSUME NEW r \in Runs, NEW p \in Pages, Out(r, p), a # b \/ r # k \/ p # q PROVE Out(r, p)'
    <3>1. PieceOf(a, r, p) # PieceOf(b, k, q)
      BY <2>2 DEF PieceOf
    <3>2. uploaded' \in {uploaded, uploaded \cup {PieceOf(b, k, q)}}
      BY <2>1 DEF PageMoves
    <3> QED
      BY <2>1, <2>2, <3>1, <3>2 DEF PageFailed, PieceOf
  <2>3. ASSUME Out(k, q), a = b PROVE Out(k, q)'
    BY <2>1, <2>3 DEF PageMoves, PageFailed, PieceOf
  <2> QED
    BY <2>1, <2>2, <2>3
<1>6. Stand => TaskFails(a) \subseteq TaskFails(a)' /\ PageFails(a) \subseteq PageFails(a)'
  BY DEF TaskFails, PageFails
<1> HIDE DEF Stand
<1> QED
  BY <1>1, <1>2, <1>3, <1>4, <1>5, <1>6, Killed DEF Next, Aside

\* The handler of a confirmation starts a run that is paid for.
LEMMA ConfirmPaid ==
  ASSUME Types, EnqueuedOnce, Ordered, Ordered', NEW a \in Attachments, NEW r \in Runs, Confirm(a, r),
         NEW b \in Attachments, Paid(b),
         TaskFails(b) \subseteq TaskFails(b)', PageFails(b) \subseteq PageFails(b)'
  PROVE  Paid(b)'
<1>0. /\ confirm \in [Attachments -> [Runs -> ConfirmSteps]]
      /\ status \in [Attachments -> Statuses \cup {"none"}]
  BY DEF Types, TypeOK
<1>1. UNCHANGED <<row, page, uploaded>>
  BY DEF Confirm, ConfirmLock, ConfirmStatus, ConfirmFile, ConfirmSet, ConfirmEnqueue, ConfirmUnlock,
     attachmentRow, workers
<1>2. \A c \in Attachments, k \in Runs : (c # a \/ k # r) =>
        confirm'[c][k] = confirm[c][k] /\ task'[c][k] = task[c][k]
  BY ConfirmMoves
<1>3. \A c \in Attachments : c # a => status'[c] = status[c]
  BY DEF Confirm, ConfirmLock, ConfirmStatus, ConfirmFile, ConfirmSet, ConfirmEnqueue, ConfirmUnlock,
     redis, SetStatus, Types, TypeOK
<1>4. CASE b # a
  <2>1. Started(b)' = Started(b)
    BY <1>2, <1>4 DEF Started
  <2>2. MayStart(b)' => MayStart(b)
    BY <1>1, <1>2, <1>3, <1>4 DEF MayStart, Live
  <2> QED
    BY <2>1, <2>2, PaidStays
<1>5. CASE b = a /\ ConfirmSet(a, r)
  <2>1. /\ confirm[a][r] = "found" /\ confirm'[a][r] = "set" /\ status'[a] = "processing"
        /\ task' = task
    BY <1>0, <1>5 DEF ConfirmSet, ConfirmStep, SetStatus, workers
  <2>2. Started(a)' = Started(a) \cup {r}
    BY <1>2, <2>1 DEF Started
  <2>3. MayStart(a)
    BY <2>1 DEF MayStart
  <2>4. ~MayStart(a)'
    <3>1. \A k \in Runs : confirm'[a][k] \in {"checked", "found"} => k = r
      BY <2>1 DEF Ordered, OneHandler
    <3> QED
      BY <2>1, <3>1 DEF MayStart
  <2>5. Reports(a)' = Reports(a)
    BY <1>1, <2>1 DEF Reports, TaskFails, PageFails, PageFailed
  <2>6. IsFiniteSet(Started(a)) /\ Cardinality(Started(a)) \in Nat
    BY <1>5, FS_CardinalityType DEF Paid
  <2>7. /\ IsFiniteSet(Started(a) \cup {r})
        /\ Cardinality(Started(a) \cup {r}) <= Cardinality(Started(a)) + 1
    BY <2>6, FS_AddElement
  <2>8. Reports(a) \in Nat
    <3>1. TaskFails(a) \in SUBSET Started(a) /\ PageFails(a) \in SUBSET (Started(a) \X Pages)
      BY FailsOfRuns DEF FailsInRuns
    <3>2. IsFiniteSet(Started(a) \X Pages)
      BY <2>6, PagesAssumption, FS_Product
    <3> QED
      BY <2>6, <3>1, <3>2, FS_Subset, CountsGrow DEF Reports
  <2>9. Cardinality(Started(a)) <= Reports(a)
    BY <1>5, <2>3 DEF Paid
  <2>10. Cardinality(Started(a) \cup {r}) \in Nat
    BY <2>7, FS_CardinalityType
  <2> QED
    BY <1>5, <2>2, <2>4, <2>5, <2>6, <2>7, <2>8, <2>9, <2>10 DEF Paid
<1>6. CASE b = a /\ ~ConfirmSet(a, r)
  <2>1. status' = status
    BY <1>6 DEF Confirm, ConfirmLock, ConfirmStatus, ConfirmFile, ConfirmEnqueue, ConfirmUnlock, redis
  <2>2. PICK s \in ConfirmSteps \ {"set"} :
          /\ confirm' = [confirm EXCEPT ![a][r] = s]
          /\ s = "checked" => status[a] \in {"uploading", "error"}
          /\ s = "found" => confirm[a][r] = "checked" /\ Live(a)
    <3> DEFINE Goes(s) == /\ confirm' = [confirm EXCEPT ![a][r] = s]
                          /\ s = "checked" => status[a] \in {"uploading", "error"}
                          /\ s = "found" => confirm[a][r] = "checked" /\ Live(a)
    <3>1. CASE ConfirmLock(a, r)
      <4>1. Goes("locked")
        BY <3>1 DEF ConfirmLock, ConfirmStep
      <4> QED
        BY <4>1 DEF ConfirmSteps
    <3>2. CASE ConfirmStatus(a, r)
      <4>1. Goes("checked") \/ Goes("unlocking")
        BY <3>2 DEF ConfirmStatus, ConfirmStep
      <4> QED
        BY <4>1 DEF ConfirmSteps
    <3>3. CASE ConfirmFile(a, r)
      <4>1. Goes("found") \/ Goes("unlocking")
        BY <3>3 DEF ConfirmFile, ConfirmStep
      <4> QED
        BY <4>1 DEF ConfirmSteps
    <3>4. CASE ConfirmEnqueue(a, r)
      <4>1. Goes("unlocking")
        BY <3>4 DEF ConfirmEnqueue, ConfirmStep
      <4> QED
        BY <4>1 DEF ConfirmSteps
    <3>5. CASE ConfirmUnlock(a, r)
      <4>1. Goes("closed")
        BY <3>5 DEF ConfirmUnlock, ConfirmStep
      <4> QED
        BY <4>1 DEF ConfirmSteps
    <3> QED
      BY <1>6, <3>1, <3>2, <3>3, <3>4, <3>5 DEF Confirm
  <2>3. confirm'[a][r] = s
    BY <1>0, <2>2
  <2>6. Started(a)' = Started(a)
    <3>1. task'[a][r] # "none" <=> (task[a][r] # "none" \/ confirm[a][r] = "set")
      <4>1. CASE confirm[a][r] = "set"
        <5>1. ConfirmEnqueue(a, r)
          BY <1>6, <4>1 DEF Confirm, ConfirmLock, ConfirmStatus, ConfirmFile, ConfirmUnlock, ConfirmStep
        <5> QED
          BY <4>1, <5>1 DEF ConfirmEnqueue, Types, TypeOK
      <4>2. CASE confirm[a][r] # "set"
        BY <4>2, ConfirmMoves
      <4> QED
        BY <4>1, <4>2
    <3> QED
      BY <1>2, <2>2, <2>3, <3>1 DEF Started
  <2>7. MayStart(a)' => MayStart(a) \/ Started(a) = {}
    <3>1. status[a] = "uploading" => Started(a) = {}
      BY DEF Ordered, NotStarted
    <3> QED
      BY <1>1, <1>2, <2>1, <2>2, <2>3, <3>1 DEF MayStart, Live
  <2> QED
    BY <1>6, <2>6, <2>7, PaidStays
<1> QED
  BY <1>4, <1>5, <1>6

\* A report of an error is a payment.
LEMMA ProcessPaid ==
  ASSUME Types, Ordered, Ordered', NEW a \in Attachments, NEW r \in Runs, Process(a, r),
         NEW b \in Attachments, Paid(b),
         TaskFails(b) \subseteq TaskFails(b)', PageFails(b) \subseteq PageFails(b)'
  PROVE  Paid(b)'
<1>1. /\ UNCHANGED <<row, confirm>>
      /\ \A c \in Attachments, k \in Runs : (c # a \/ k # r) => task'[c][k] = task[c][k]
      /\ TaskMoves(a, r)
  BY ProcessEffect
<1>2. Started(b)' = Started(b)
  BY <1>1 DEF Started, TaskMoves
<1>3. MayStart(b)' => MayStart(b) \/ TaskFails(b) # TaskFails(b)'
  <2>1. CASE status'[b] # "error" \/ status[b] = "error"
    BY <1>1, <2>1 DEF MayStart, Live
  <2>2. CASE status'[b] = "error" /\ status[b] # "error"
    <3>1. b = a /\ task'[a][r] = "failed"
      BY <2>2, ProcessReports
    <3>2. task[a][r] # "failed"
      BY <1>1 DEF TaskMoves
    <3> QED
      BY <3>1, <3>2 DEF TaskFails
  <2> QED
    BY <2>1, <2>2
<1> QED
  BY <1>2, <1>3, PaidStays

\* So is the report of a page; a cleanup that fails finds no row.
LEMMA UploadPaid ==
  ASSUME Types, Ordered, Ordered', NEW a \in Attachments, NEW r \in Runs, NEW p \in Pages,
         UploadPage(a, r, p), NEW b \in Attachments, Paid(b),
         TaskFails(b) \subseteq TaskFails(b)', PageFails(b) \subseteq PageFails(b)'
  PROVE  Paid(b)'
<1>1. /\ UNCHANGED <<row, confirm, task>>
      /\ PageMoves(a, r, p)
  BY UploadEffect
<1>2. Started(b)' = Started(b)
  BY <1>1 DEF Started
<1>3. MayStart(b)' => MayStart(b) \/ PageFails(b) # PageFails(b)'
  <2>1. CASE status'[b] # "error" \/ status[b] = "error"
    BY <1>1, <2>1 DEF MayStart, Live
  <2>2. CASE status'[b] = "error" /\ status[b] # "error"
    <3>1. /\ b = a /\ uploaded' = uploaded
          /\ \/ page[a][r][p] = "failing" /\ page'[a][r][p] = "failed"
             \/ page[a][r][p] = "cleanupFailing"
      BY <1>1, <2>2 DEF PageMoves, Types, TypeOK
    <3>2. CASE page[a][r][p] = "failing" /\ page'[a][r][p] = "failed"
      <4>1. PieceOf(a, r, p) \notin uploaded
        BY <3>2 DEF Ordered, SentPages
      <4>2. <<r, p>> \in PageFails(a)' /\ <<r, p>> \notin PageFails(a)
        BY <3>1, <3>2, <4>1 DEF PageFails, PageFailed, PieceOf
      <4> QED
        BY <3>1, <4>2
    <3>3. CASE page[a][r][p] = "cleanupFailing"
      BY <1>1, <2>2, <3>1, <3>3 DEF Ordered, GoneFiles, MayStart, Live
    <3> QED
      BY <3>1, <3>2, <3>3
  <2> QED
    BY <2>1, <2>2
<1> QED
  BY <1>2, <1>3, PaidStays

\* A file that is registered has not been run.
LEMMA RegisterPaid ==
  ASSUME Types, EnqueuedOnce, Ordered, Ordered', NEW a \in Attachments, Register(a),
         NEW b \in Attachments, Paid(b),
         TaskFails(b) \subseteq TaskFails(b)', PageFails(b) \subseteq PageFails(b)'
  PROVE  Paid(b)'
<1>1. UNCHANGED <<confirm, task>>
  BY DEF Register, RegisterRow, RegisterStatus, BrowserUploads, workers, handlers
<1>2. Started(b)' = Started(b)
  BY <1>1 DEF Started
<1>3. MayStart(b)' => MayStart(b) \/ Started(b) = {}
  <2>1. CASE RegisterRow(a)
    <3>1. register[a] = "idle" /\ status' = status /\ \A c \in Attachments : c # a => row'[c] = row[c]
      BY <2>1 DEF RegisterRow, redis, Types, TypeOK
    <3>2. Started(a) = {}
      BY <3>1 DEF Ordered, OneHandler, EnqueuedOnce, Started
    <3> QED
      BY <1>1, <3>1, <3>2 DEF MayStart, Live
  <2>2. CASE RegisterStatus(a)
    <3>1. row' = row /\ (status'[b] = status[b] \/ status'[b] = "uploading")
      BY <2>2 DEF RegisterStatus, SetStatus, attachmentRow, Types, TypeOK
    <3> QED
      BY <1>1, <3>1 DEF MayStart, Live
  <2>3. CASE BrowserUploads(a)
    BY <1>1, <2>3 DEF BrowserUploads, attachmentRow, redis, MayStart, Live
  <2> QED
    BY <2>1, <2>2, <2>3 DEF Register
<1> QED
  BY <1>2, <1>3, PaidStays

\* Until a process is killed, the runs are paid for.
AllPaid == deaths = 0 => Ordered /\ \A a \in Attachments : Paid(a)

\* The invariant is inductive.
LEMMA PaidStep == Types /\ FilesInv /\ EnqueuedOnce /\ AllPaid /\ [Next]_vars => AllPaid'
<1> SUFFICES ASSUME Types, FilesInv, EnqueuedOnce, AllPaid, [Next]_vars, deaths' = 0
             PROVE  Ordered' /\ \A a \in Attachments : Paid(a)'
  BY DEF AllPaid
<1>1. Ordered /\ (\A a \in Attachments : Paid(a)) /\ Ordered'
  BY Killed, OrderedStep DEF AllPaid
<1> SUFFICES ASSUME NEW b \in Attachments PROVE Paid(b)'
  BY <1>1
<1>2. TaskFails(b) \subseteq TaskFails(b)' /\ PageFails(b) \subseteq PageFails(b)'
  BY <1>1, FailsStand
<1>3. CASE Aside
  <2>1. Started(b)' = Started(b)
    BY <1>3, AsideEffect DEF Started
  <2>2. MayStart(b)' => MayStart(b)
    BY <1>3, AsideEffect DEF MayStart, Live
  <2> QED
    BY <1>1, <1>2, <2>1, <2>2, PaidStays
<1> QED
  BY <1>1, <1>2, <1>3, Killed, RegisterPaid, ConfirmPaid, ProcessPaid, UploadPaid DEF Next, Aside

\* It holds when there is no file.
LEMMA PaidAtFirst == Init => Types /\ FilesInv /\ EnqueuedOnce /\ AllPaid
<1> SUFFICES ASSUME Init PROVE Types /\ FilesInv /\ EnqueuedOnce /\ AllPaid
  OBVIOUS
<1>1. Types /\ FilesInv /\ EnqueuedOnce
  BY BoundAssumption DEF Init, Types, SendRoom, TypeOK, ConfirmSteps, TaskSteps, PageSteps,
     SendSteps, FilesInv, Registered, Linked, LinkedBefore, UnlinkedSaved, UnlinkedCollected,
     EnqueuedOnce
<1>2. Ordered
  BY PagesAssumption DEF Init, Ordered, OneHandler, PagesOfTask, ByKind, SentPages, GoneFiles, NotStarted,
     Early
<1>3. ASSUME NEW a \in Attachments
      PROVE  /\ Started(a) = {} /\ TaskFails(a) = {} /\ PageFails(a) = {}
             /\ ~MayStart(a)
  BY DEF Init, Started, TaskFails, PageFails, PageFailed, MayStart, Live
<1>4. ASSUME NEW a \in Attachments PROVE Paid(a)
  BY <1>3, FS_EmptySet DEF Paid, Reports
<1> QED
  BY <1>1, <1>2, <1>4 DEF AllPaid

\* A file is processed again only after an error was reported.
THEOREM PaidRuns == Spec => []RunsArePaidForByErrors
<1>1. Init => Types /\ FilesInv /\ EnqueuedOnce /\ AllPaid
  BY PaidAtFirst
<1>2. Types /\ FilesInv /\ EnqueuedOnce /\ AllPaid /\ [Next]_vars
        => (Types /\ FilesInv /\ EnqueuedOnce /\ AllPaid)'
  BY TypeStep, FilesStep, EnqueuedStep, PaidStep
<1>3. Types /\ AllPaid => RunsArePaidForByErrors
  <2> SUFFICES ASSUME Types, Ordered, NEW a \in Attachments, Paid(a)
               PROVE  Cardinality(Started(a)) <= 1 + Cardinality(TaskFails(a)) + Cardinality(PageFails(a))
    BY DEF AllPaid, RunsArePaidForByErrors, TaskFails, PageFails
  <2>1. TaskFails(a) \in SUBSET Started(a) /\ PageFails(a) \in SUBSET (Started(a) \X Pages)
    BY FailsOfRuns DEF FailsInRuns
  <2>2. IsFiniteSet(Started(a) \X Pages)
    BY PagesAssumption, FS_Product DEF Paid
  <2>3. Cardinality(TaskFails(a)) \in Nat /\ Cardinality(PageFails(a)) \in Nat
    BY <2>1, <2>2, FS_Subset, FS_CardinalityType DEF Paid
  <2> QED
    BY <2>3 DEF Paid, Reports
<1> QED
  BY <1>1, <1>2, <1>3, PTL DEF Spec

-----------------------------------------------------------------------------
(* The join of the pages in a first run, until a process is killed, with keys *)
(* that outlive the run                                                      *)

\* The pages that have taken their turn at the counter.
Counted(a, r) ==
  {p \in Pages : page[a][r][p] \notin {"none", "queued", "calling", "sent", "failing", "failed"}}

\* The run has reported an error of its own.
Reported(a, r) ==
  \/ task[a][r] = "failed"
  \/ \E p \in Pages : PageFailed(a, r, p) /\ page[a][r][p] # "failing"

\* A reported error is there for the cleanup to see, and none has approved the
\* file before it.  Without one the counter holds the pages to come, and nobody
\* cleans up until the last of them.
Joins(a, r) ==
  /\ Reported(a, r) =>
       /\ status[a] = "error" \/ ~Busy(a)
       /\ \A p \in Pages : page[a][r][p] \notin {"approved", "completed"}
  /\ ~Reported(a, r) /\ Counted(a, r) # Pages =>
       /\ \A p \in Counted(a, r) : page[a][r][p] = "over"
       /\ task[a][r] = "counted" \/ (\E p \in Pages : page[a][r][p] # "none")
            => sync[a] = Cardinality(Pages \ Counted(a, r))

FirstRunJoins(a) ==
  \A r \in Runs : kind[a] = "pdf" /\ Live(a) /\ Started(a) = {r} => Joins(a, r)

\* Steps that touch none of it leave it joined.
LEMMA QuietJoins ==
  ASSUME NEW a \in Attachments, NEW r \in Runs, Joins(a, r),
         task'[a] = task[a], page'[a] = page[a], sync'[a] = sync[a], status'[a] = status[a],
         \A p \in Pages : PieceOf(a, r, p) \in uploaded' <=> PieceOf(a, r, p) \in uploaded
  PROVE  Joins(a, r)'
<1>1. Counted(a, r)' = Counted(a, r)
  BY DEF Counted
<1>2. Reported(a, r)' <=> Reported(a, r)
  BY DEF Reported, PageFailed, PieceOf
<1>3. Busy(a)' <=> Busy(a)
  BY DEF Busy
<1> QED
  BY <1>1, <1>2, <1>3 DEF Joins

\* The steps of the run's own task.
LEMMA ProcessJoins ==
  ASSUME Types, Ordered, NEW a \in Attachments, NEW r \in Runs, Process(a, r), kind[a] = "pdf",
         Joins(a, r)
  PROVE  Joins(a, r)'
<1> USE DEF TaskStep, SetStatus, redis
<1>0. /\ task \in [Attachments -> [Runs -> TaskSteps]]
      /\ page \in [Attachments -> [Runs -> [Pages -> PageSteps]]]
      /\ status \in [Attachments -> Statuses \cup {"none"}]
      /\ sync \in [Attachments -> Int \cup {None}]
  BY DEF Types, TypeOK
<1>1. task[a][r] \in Early => \A p \in Pages : page[a][r][p] = "none"
  BY DEF Ordered, PagesOfTask
<1>2. CASE Dispatch(a, r)
  <2>1. task[a][r] = "queued" /\ page' = page /\ task'[a][r] \in {"typed", "failing", "lost"}
    BY <1>0, <1>2 DEF Dispatch
  <2>2. \A p \in Pages : page'[a][r][p] = "none"
    BY <1>1, <2>1 DEF Early
  <2> QED
    BY <2>1, <2>2 DEF Joins, Reported, Counted, PageFailed
<1>3. CASE PdfStore(a, r)
  <2>1. task[a][r] = "typed" /\ page' = page
        /\ \E stored \in SUBSET Pages :
             task' = [task EXCEPT ![a][r] = IF stored = Pages THEN "stored" ELSE "failing"]
    BY <1>3 DEF PdfStore
  <2>2. task'[a][r] \in {"stored", "failing"}
    BY <1>0, <2>1
  <2>3. \A p \in Pages : page'[a][r][p] = "none"
    BY <1>1, <2>1 DEF Early
  <2> QED
    BY <2>2, <2>3 DEF Joins, Reported, Counted, PageFailed
<1>4. CASE PdfCount(a, r)
  <2>1. task[a][r] = "stored" /\ page' = page /\ task'[a][r] = "counted"
        /\ sync'[a] = Cardinality(Pages)
    BY <1>0, <1>4 DEF PdfCount
  <2>2. \A p \in Pages : page'[a][r][p] = "none"
    BY <1>1, <2>1 DEF Early
  <2>3. Counted(a, r)' = {} /\ ~Reported(a, r)'
    BY <2>1, <2>2 DEF Counted, Reported, PageFailed
  <2>4. Pages \ {} = Pages
    OBVIOUS
  <2> QED
    BY <2>1, <2>3, <2>4 DEF Joins
<1>5. CASE PdfFanOut(a, r)
  <2>1. PICK published \in SUBSET Pages :
          /\ task[a][r] = "counted"
          /\ task' = [task EXCEPT ![a][r] = IF published = Pages THEN "done" ELSE "failing"]
          /\ page' = [page EXCEPT ![a][r] = [p \in Pages |-> IF p \in published THEN "queued" ELSE @[p]]]
          /\ sync' = sync
    BY <1>5 DEF PdfFanOut
  <2>2. task'[a][r] \in {"done", "failing"}
    BY <1>0, <2>1
  <2>3. \A p \in Pages : page[a][r][p] = "none" /\ page'[a][r][p] \in {"none", "queued"}
    BY <1>0, <1>1, <2>1 DEF Early
  <2>4. /\ Counted(a, r)' = {} /\ ~Reported(a, r)'
        /\ Counted(a, r) = {} /\ ~Reported(a, r)
    BY <2>1, <2>2, <2>3 DEF Counted, Reported, PageFailed
  <2>5. sync'[a] = Cardinality(Pages \ Counted(a, r)')
    BY <2>1, <2>4, PagesAssumption DEF Joins
  <2> QED
    BY <2>4, <2>5 DEF Joins
<1>6. CASE TaskError(a, r)
  <2>1. task[a][r] = "failing" /\ page' = page /\ status'[a] = "error" /\ task'[a][r] = "failed"
    BY <1>0, <1>6 DEF TaskError
  <2>2. PICK p \in Pages : page[a][r][p] = "none"
    BY <2>1 DEF Ordered, PagesOfTask
  <2>3. Counted(a, r) # Pages
    BY <2>2 DEF Counted
  <2>4. \A q \in Pages : page[a][r][q] \notin {"approved", "completed"}
    BY <2>3 DEF Joins, Counted
  <2>5. Reported(a, r)'
    BY <2>1 DEF Reported
  <2> QED
    BY <2>1, <2>4, <2>5 DEF Joins
<1>7. CASE DirectCommit(a, r) \/ DirectReport(a, r)
  BY <1>7 DEF DirectCommit, DirectReport, Ordered, ByKind
<1> QED
  BY <1>2, <1>3, <1>4, <1>5, <1>6, <1>7 DEF Process

\* The steps of the run's own pages.
LEMMA UploadJoins ==
  ASSUME Types, Ordered, NEW a \in Attachments, NEW r \in Runs, NEW p \in Pages, UploadPage(a, r, p),
         Live(a), Joins(a, r)
  PROVE  Joins(a, r)'
<1>1. /\ task' = task
      /\ \A q \in Pages : q # p => page'[a][r][q] = page[a][r][q]
      /\ PageMoves(a, r, p)
  BY UploadEffect
<1>2. page[a][r][p] \in PageSteps /\ page'[a][r][p] \notin {"none"} /\ page[a][r][p] # "none"
  BY <1>1, PageIsThere DEF Types, TypeOK
<1>3. page[a][r][p] # "over" /\ Busy(a)
  BY <1>1, <1>2 DEF PageMoves, Busy
<1>4. /\ status \in [Attachments -> Statuses \cup {"none"}]
      /\ sync \in [Attachments -> Int \cup {None}]
  BY DEF Types, TypeOK
<1>5. ASSUME NEW q \in Pages, q # p
      PROVE  /\ page'[a][r][q] = page[a][r][q]
             /\ PageFailed(a, r, q)' <=> PageFailed(a, r, q)
  <2>1. PieceOf(a, r, q) # PieceOf(a, r, p)
    BY <1>5 DEF PieceOf
  <2>2. uploaded' \in {uploaded, uploaded \cup {PieceOf(a, r, p)}}
    BY <1>1 DEF PageMoves
  <2> QED
    BY <1>1, <1>5, <2>1, <2>2 DEF PageFailed, PieceOf
<1>6. /\ p \in Counted(a, r) => Reported(a, r) \/ Counted(a, r) = Pages
      /\ page[a][r][p] \in {"approved", "completed"} => ~Reported(a, r)
      /\ Reported(a, r) => status[a] = "error"
      /\ ~Reported(a, r) /\ Counted(a, r) # Pages => sync[a] = Cardinality(Pages \ Counted(a, r))
  BY <1>2, <1>3 DEF Joins
<1>7. CASE \/ page[a][r][p] = "queued" /\ page'[a][r][p] \in {"calling", "failing"}
           \/ page[a][r][p] = "calling" /\ page'[a][r][p] \in {"sent", "failing"}
  <2>1. UNCHANGED <<sync, status>>
        /\ (page'[a][r][p] = "sent" => uploaded' = uploaded \cup {PieceOf(a, r, p)})
    BY <1>1, <1>7 DEF PageMoves
  <2>2. Counted(a, r)' = Counted(a, r)
    BY <1>5, <1>7 DEF Counted
  <2>3. Reported(a, r)' <=> Reported(a, r)
    BY <1>1, <1>5, <1>7, <2>1 DEF Reported, PageFailed, PieceOf
  <2>4. \A q \in Pages : page'[a][r][q] \in {"approved", "completed"} => page[a][r][q] \in {"approved", "completed"}
    BY <1>5, <1>7
  <2>5. \A q \in Counted(a, r) : page'[a][r][q] = page[a][r][q]
    BY <1>5, <1>7 DEF Counted
  <2> QED
    BY <1>6, <2>1, <2>2, <2>3, <2>4, <2>5 DEF Joins
<1>8. CASE page[a][r][p] = "sent"
  <2>1. /\ sync'[a] = Decremented(a) /\ UNCHANGED <<status, uploaded>>
        /\ page'[a][r][p] \in {"cleanup", "over"} /\ (Decremented(a) > 0 => page'[a][r][p] = "over")
    BY <1>1, <1>4, <1>8 DEF PageMoves
  <2>2. Counted(a, r)' = Counted(a, r) \cup {p} /\ p \notin Counted(a, r)
    BY <1>5, <1>8, <2>1 DEF Counted
  <2>3. Reported(a, r)' <=> Reported(a, r)
    BY <1>1, <1>5, <1>8, <2>1 DEF Reported, PageFailed, PieceOf, Ordered, SentPages
  <2>4. CASE Reported(a, r)
    <3>1. status'[a] = "error"
      BY <1>6, <2>1, <2>4
    <3>2. \A q \in Pages : page'[a][r][q] \notin {"approved", "completed"}
      BY <1>5, <2>1, <2>4 DEF Joins
    <3> QED
      BY <2>3, <2>4, <3>1, <3>2 DEF Joins
  <2>5. CASE ~Reported(a, r)
    <3>1. IsFiniteSet(Pages \ Counted(a, r)) /\ p \in Pages \ Counted(a, r)
      BY <2>2, PagesAssumption, FS_Subset
    <3>2. /\ IsFiniteSet(Pages \ Counted(a, r)')
          /\ Cardinality(Pages \ Counted(a, r)') = Cardinality(Pages \ Counted(a, r)) - 1
          /\ Cardinality(Pages \ Counted(a, r)) \in Nat
      <4>1. (Pages \ Counted(a, r)) \ {p} = Pages \ Counted(a, r)'
        BY <2>2
      <4> QED
        BY <3>1, <4>1, FS_RemoveElement, FS_CardinalityType
    <3>3. sync[a] = Cardinality(Pages \ Counted(a, r))
      BY <1>6, <2>2, <2>5
    <3>4. Decremented(a) = Cardinality(Pages \ Counted(a, r)')
      BY <3>2, <3>3, NoneAssumption DEF Decremented
    <3>5. Decremented(a) <= 0 => Counted(a, r)' = Pages
      <4>1. Decremented(a) <= 0 => Cardinality(Pages \ Counted(a, r)') = 0
        BY <3>2, <3>4, FS_CardinalityType
      <4>2. Decremented(a) <= 0 => Pages \ Counted(a, r)' = {}
        BY <3>2, <4>1, FS_EmptySet
      <4>3. Counted(a, r)' \subseteq Pages
        BY <2>2 DEF Counted
      <4> QED
        BY <4>2, <4>3
    <3>6. Decremented(a) > 0 => \A q \in Counted(a, r)' : page'[a][r][q] = "over"
      <4>1. \A q \in Counted(a, r) : page[a][r][q] = "over"
        BY <2>2, <2>5 DEF Joins
      <4> QED
        BY <1>5, <2>1, <2>2, <3>2, <3>4, <4>1 DEF Counted
    <3>7. Decremented(a) \in Int
      BY <1>4, NoneAssumption DEF Decremented
    <3> QED
      BY <2>1, <2>3, <2>5, <3>4, <3>5, <3>6, <3>7 DEF Joins
  <2> QED
    BY <2>4, <2>5
<1>9. CASE page[a][r][p] = "failing"
  <2>1. page'[a][r][p] = "failed" /\ status'[a] = "error" /\ uploaded' = uploaded
    BY <1>1, <1>4, <1>9 DEF PageMoves
  <2>2. Reported(a, r)'
    BY <1>9, <2>1 DEF Reported, PageFailed, PieceOf, Ordered, SentPages
  <2>3. Counted(a, r) # Pages
    BY <1>9 DEF Counted
  <2>4. \A q \in Pages : page[a][r][q] \notin {"approved", "completed"}
    BY <2>3 DEF Joins, Counted
  <2> QED
    BY <1>5, <2>1, <2>2, <2>4 DEF Joins
<1>10. CASE page[a][r][p] = "failed"
  <2>1. page'[a][r][p] \in {"cleanup", "over"} /\ UNCHANGED <<status, uploaded>>
    BY <1>1, <1>10 DEF PageMoves
  <2>2. Reported(a, r) /\ Reported(a, r)'
    BY <1>10, <2>1 DEF Reported, PageFailed, PieceOf, Ordered, SentPages
  <2> QED
    BY <1>5, <1>6, <2>1, <2>2 DEF Joins
<1>11. CASE page[a][r][p] \in {"cleanup", "taken", "loaded", "approved", "completed", "cleanupFailing"}
  <2>1. p \in Counted(a, r) /\ uploaded' = uploaded
    BY <1>1, <1>11 DEF Counted, PageMoves
  <2>2. page'[a][r][p] \in {"over", "taken", "loaded", "approved", "completed"}
    BY <1>1, <1>11 DEF PageMoves, Ordered, GoneFiles
  <2>3. Counted(a, r)' = Counted(a, r)
    BY <1>5, <1>11, <2>2 DEF Counted
  <2>4. Reported(a, r)' <=> Reported(a, r)
    BY <1>1, <1>5, <1>11, <2>1, <2>2 DEF Reported, PageFailed, PieceOf
  <2>5. CASE Reported(a, r)
    <3>1. status'[a] = "error" /\ page'[a][r][p] \notin {"approved", "completed"}
      BY <1>1, <1>4, <1>6, <1>11, <2>5 DEF PageMoves
    <3> QED
      BY <1>5, <2>4, <2>5, <3>1 DEF Joins
  <2>6. CASE ~Reported(a, r)
    BY <1>6, <2>1, <2>3, <2>4, <2>6 DEF Joins
  <2> QED
    BY <2>5, <2>6
<1> QED
  BY <1>1, <1>2, <1>3, <1>7, <1>8, <1>9, <1>10, <1>11 DEF PageMoves, PageSteps

\* Enqueueing the run's task is the one step of a confirmation it can see.
LEMMA ConfirmJoins ==
  ASSUME Types, EnqueuedOnce, Ordered, NEW a \in Attachments, NEW r \in Runs, Confirm(a, r),
         NEW b \in Attachments, NEW k \in Runs, Started(b) = {k}, Started(b)' = {k}, Joins(b, k)
  PROVE  Joins(b, k)'
<1>1. UNCHANGED <<page, uploaded, sync>>
  BY DEF Confirm, ConfirmLock, ConfirmStatus, ConfirmFile, ConfirmSet, ConfirmEnqueue, ConfirmUnlock,
     redis, workers
<1>2. status'[b] = status[b]
  <2>1. CASE ~(b = a /\ ConfirmSet(a, r))
    BY <2>1 DEF Confirm, ConfirmLock, ConfirmStatus, ConfirmFile, ConfirmSet, ConfirmEnqueue,
       ConfirmUnlock, redis, SetStatus, Types, TypeOK
  <2>2. CASE b = a /\ ConfirmSet(a, r)
    <3>1. confirm[a][r] = "found" /\ confirm'[a][r] = "set"
      BY <2>2 DEF ConfirmSet, ConfirmStep, Types, TypeOK
    <3>2. r \in Started(b)' /\ r \notin Started(b)
      BY <2>2, <3>1 DEF Started, EnqueuedOnce
    <3> QED
      BY <3>2
  <2> QED
    BY <2>1, <2>2
<1>3. CASE ConfirmEnqueue(a, r) /\ b = a
  <2>1. confirm[a][r] = "set" /\ task'[a][r] \in {"queued", "lost"}
    BY <1>3 DEF ConfirmEnqueue, ConfirmStep, Types, TypeOK
  <2>2. task[a][r] = "none" /\ r = k
    BY <1>3, <2>1 DEF EnqueuedOnce, Started
  <2>3. \A p \in Pages : page'[a][r][p] = "none"
    BY <1>1, <2>2 DEF Ordered, PagesOfTask, Early
  <2> QED
    BY <1>3, <2>1, <2>2, <2>3 DEF Joins, Reported, Counted, PageFailed
<1>4. CASE ~(ConfirmEnqueue(a, r) /\ b = a)
  <2>1. task'[b] = task[b]
    BY <1>4 DEF Confirm, ConfirmLock, ConfirmStatus, ConfirmFile, ConfirmSet, ConfirmEnqueue,
       ConfirmUnlock, workers, Types, TypeOK
  <2> QED
    BY <1>1, <1>2, <2>1, QuietJoins
<1> QED
  BY <1>3, <1>4

\* Nor do the other clients, the hourly tasks and time take a report away from a
\* file that is worked on, or the counter of a file that is there.
LEMMA AsideJoins ==
  ASSUME Types, Ordered, Aside, ~KeysLapse, NEW b \in Attachments, NEW k \in Runs,
         Started(b) = {k}, Live(b), Joins(b, k)
  PROVE  Joins(b, k)'
<1>1. UNCHANGED <<task, page, uploaded>>
  BY AsideEffect
<1>2. CASE sync'[b] = sync[b] /\ status'[b] = status[b]
  BY <1>1, <1>2, QuietJoins
<1>3. CASE SyncExpires(b) \/ StatusExpires(b)
  <2>1. ~Busy(b) /\ ~Busy(b)'
    BY <1>1, <1>3 DEF SyncExpires, StatusExpires, Busy
  <2>2. Counted(b, k)' = Counted(b, k) /\ (Reported(b, k)' <=> Reported(b, k))
    BY <1>1 DEF Counted, Reported, PageFailed
  <2>3. ~Reported(b, k) /\ Counted(b, k) # Pages
          => task[b][k] # "counted" /\ \A p \in Pages : page[b][k][p] = "none"
    <3>1. \A p \in Pages : page[b][k][p] \in {"none", "over"}
      BY <2>1 DEF Busy
    <3>2. task[b][k] \in {"none", "failed", "done", "lost"} /\ kind[b] \in Kinds \cup {None}
      BY <2>1 DEF Busy, Types, TypeOK, Ordered, PagesOfTask
    <3>3. CASE task[b][k] \in {"none", "lost"}
      BY <3>3 DEF Ordered, PagesOfTask, Early
    <3>4. CASE task[b][k] = "failed"
      BY <3>4 DEF Reported
    <3>5. CASE task[b][k] = "done"
      BY <3>1, <3>5 DEF Ordered, PagesOfTask, ByKind, Counted
    <3> QED
      BY <3>2, <3>3, <3>4, <3>5
  <2> QED
    BY <1>1, <2>1, <2>2, <2>3 DEF Joins
<1>4. CASE /\ ~(sync'[b] = sync[b] /\ status'[b] = status[b])
           /\ ~(SyncExpires(b) \/ StatusExpires(b))
  <2> USE DEF redis, Types, TypeOK, SetStatus
  <2>1. ASSUME NEW a \in Attachments, Poll(a) PROVE FALSE
    BY <1>4, <2>1 DEF Poll, PollVerify, PollCache
  <2>2. ASSUME NEW a \in Attachments, Remove(a) PROVE FALSE
    <3>1. CASE RemoveKeys(a)
      <4>1. a = b /\ remove[a] = "deleted"
        BY <1>4, <3>1 DEF RemoveKeys, RemoveStep
      <4> QED
        BY <4>1 DEF Ordered, GoneFiles, Live
    <3>2. CASE RemoveVerify(a) \/ RemoveObjects(a) \/ RemoveRow(a)
      BY <1>4, <3>2 DEF RemoveVerify, RemoveObjects, RemoveRow
    <3> QED
      BY <2>2, <3>1, <3>2 DEF Remove
  <2>3. ASSUME NEW a \in Attachments, Expire(a) PROVE FALSE
    BY <1>4, <2>3 DEF Expire, StatusExpires, SyncExpires, OwnedExpires
  <2>4. CASE Send \/ CleanupOrphans \/ CleanupStaleResults \/ UNCHANGED vars
    BY <1>4, <2>4 DEF Send, SendCheck, SendCollect, SendSave, SendLink, CleanupOrphans,
       CleanupStaleResults, vars
  <2> QED
    BY <2>1, <2>2, <2>3, <2>4 DEF Aside
<1> QED
  BY <1>2, <1>3, <1>4

\* So do the steps of other files, and of the file's own registration.
LEMMA OthersJoin ==
  ASSUME Types, NEW a \in Attachments, NEW b \in Attachments, NEW k \in Runs, Joins(b, k),
         \/ a # b /\ \E r \in Runs : Process(a, r) \/ \E p \in Pages : UploadPage(a, r, p)
         \/ Register(a) /\ register[b] = "closed"
  PROVE  Joins(b, k)'
<1>1. ASSUME NEW r \in Runs, Process(a, r), a # b PROVE Joins(b, k)'
  <2>1. /\ uploaded' = uploaded /\ task'[b] = task[b] /\ page'[b] = page[b]
    BY <1>1 DEF Process, Dispatch, TaskError, PdfStore, PdfCount, PdfFanOut, DirectCommit, DirectReport,
       TaskStep, Types, TypeOK
  <2>2. sync'[b] = sync[b] /\ status'[b] = status[b]
    BY <1>1 DEF Process, Dispatch, TaskError, PdfStore, PdfCount, PdfFanOut, DirectCommit, DirectReport,
       SetStatus, redis, Types, TypeOK
  <2> QED
    BY <2>1, <2>2, QuietJoins
<1>2. ASSUME NEW r \in Runs, NEW p \in Pages, UploadPage(a, r, p), a # b PROVE Joins(b, k)'
  <2>1. task' = task /\ PageMoves(a, r, p)
    BY <1>2, UploadEffect
  <2>2. page'[b] = page[b]
    BY <1>2 DEF UploadPage, PageLoad, PageSend, PageError, PageCount, CountPage, CleanupTake, CleanupObjects,
       CleanupJudge, CleanupApprove, CleanupCommit, CleanupError, PageStep, Types, TypeOK
  <2>3. sync'[b] = sync[b] /\ status'[b] = status[b]
    BY <1>2, <2>1 DEF PageMoves, Types, TypeOK
  <2>4. \A q \in Pages : PieceOf(b, k, q) \in uploaded' <=> PieceOf(b, k, q) \in uploaded
    BY <1>2, <2>1 DEF PageMoves, PieceOf
  <2> QED
    BY <2>1, <2>2, <2>3, <2>4, QuietJoins
<1>3. CASE Register(a) /\ register[b] = "closed"
  <2>1. /\ UNCHANGED <<task, page, uploaded, sync>> /\ status'[b] = status[b]
    BY <1>3 DEF Register, RegisterRow, RegisterStatus, BrowserUploads, SetStatus, redis, workers,
       Types, TypeOK
  <2> QED
    BY <2>1, QuietJoins
<1> QED
  BY <1>1, <1>2, <1>3

\* A file is ready only with all the pages of its first run.
ReadyIsSent(a) ==
  \A r \in Runs : kind[a] = "pdf" /\ ready[a] /\ Started(a) = {r}
                    => \A p \in Pages : PieceOf(a, r, p) \in uploaded

AllJoin == deaths = 0 /\ ~KeysLapse => \A a \in Attachments : FirstRunJoins(a) /\ ReadyIsSent(a)

\* Only a confirmation starts a run.
LEMMA ConfirmStarts ==
  ASSUME Types, [Next]_vars, deaths' = 0, NEW b \in Attachments, Started(b)' # Started(b)
  PROVE  \E a \in Attachments, r \in Runs : Confirm(a, r)
<1>1. CASE Aside
  BY <1>1, AsideEffect DEF Started
<1>2. ASSUME NEW a \in Attachments, Register(a) PROVE FALSE
  BY <1>2, OthersLeaveTasks DEF Started
<1>3. ASSUME NEW a \in Attachments, NEW r \in Runs, Process(a, r) PROVE FALSE
  BY <1>3, ProcessEffect DEF Started, TaskMoves
<1>4. ASSUME NEW a \in Attachments, NEW r \in Runs, NEW p \in Pages, UploadPage(a, r, p) PROVE FALSE
  BY <1>4, UploadEffect DEF Started
<1> QED
  BY <1>1, <1>2, <1>3, <1>4, Killed DEF Next, Aside

\* The confirmation that starts a first run starts it with nothing to join.
LEMMA FirstRunStarts ==
  ASSUME Types, EnqueuedOnce, Ordered, NEW a \in Attachments, NEW r \in Runs, Confirm(a, r),
         NEW b \in Attachments, NEW k \in Runs, Started(b) # {k}, Started(b)' = {k}
  PROVE  Joins(b, k)' /\ ~ready'[b]
<1>1. UNCHANGED <<page, uploaded, ready>>
  BY DEF Confirm, ConfirmLock, ConfirmStatus, ConfirmFile, ConfirmSet, ConfirmEnqueue, ConfirmUnlock,
     attachmentRow, workers
<1>2. \A c \in Attachments, j \in Runs :
        /\ task[c][j] # "none" \/ confirm[c][j] = "set" => task'[c][j] # "none" \/ confirm'[c][j] = "set"
        /\ task[c][j] = "none" /\ confirm[c][j] # "set" => task'[c][j] = "none"
  <2>1. ASSUME NEW c \in Attachments, NEW j \in Runs, c # a \/ j # r
        PROVE  confirm'[c][j] = confirm[c][j] /\ task'[c][j] = task[c][j]
    BY <2>1, ConfirmMoves
  <2>2. confirm[a][r] = "set" => ConfirmEnqueue(a, r)
    BY DEF Confirm, ConfirmLock, ConfirmStatus, ConfirmFile, ConfirmSet, ConfirmUnlock, ConfirmStep
  <2>3. ConfirmEnqueue(a, r) => task'[a][r] \in {"queued", "lost"} /\ confirm[a][r] = "set"
    BY DEF ConfirmEnqueue, ConfirmStep, Types, TypeOK
  <2>4. ~ConfirmEnqueue(a, r) => task'[a][r] = task[a][r]
    BY ConfirmMoves
  <2> QED
    BY <2>1, <2>2, <2>3, <2>4
<1>3. Started(b) = {}
  BY <1>2 DEF Started
<1>4. task[b][k] = "none" /\ confirm[b][k] # "set" /\ ~ready[b]
  BY <1>3 DEF Started, Ordered, NotStarted
<1>5. task'[b][k] = "none" /\ \A p \in Pages : page'[b][k][p] = "none"
  BY <1>1, <1>2, <1>4 DEF Ordered, PagesOfTask, Early
<1> QED
  BY <1>1, <1>4, <1>5 DEF Joins, Reported, Counted, PageFailed

\* Ready is written after the last page has joined.
LEMMA ReadyJoined ==
  ASSUME Types, Ordered, [Next]_vars, deaths' = 0, NEW b \in Attachments, NEW k \in Runs,
         kind[b] = "pdf", Started(b) = {k}, Live(b) => Joins(b, k), ReadyIsSent(b), ready'[b]
  PROVE  \A p \in Pages : PieceOf(b, k, p) \in uploaded'
<1>1. CASE ready[b]
  <2>1. \A p \in Pages : PieceOf(b, k, p) \in uploaded
    BY <1>1 DEF ReadyIsSent
  <2>2. uploaded \subseteq uploaded'
    <3>1. CASE Aside
      BY <3>1, AsideEffect
    <3>2. ASSUME NEW a \in Attachments, Register(a) PROVE uploaded' = uploaded
      BY <3>2 DEF Register, RegisterRow, RegisterStatus, BrowserUploads, workers
    <3>3. ASSUME NEW a \in Attachments, NEW r \in Runs, Confirm(a, r) PROVE uploaded' = uploaded
      BY <3>3 DEF Confirm, ConfirmLock, ConfirmStatus, ConfirmFile, ConfirmSet, ConfirmEnqueue,
           ConfirmUnlock, workers
    <3>4. ASSUME NEW a \in Attachments, NEW r \in Runs, Process(a, r) PROVE uploaded' = uploaded
      BY <3>4, ProcessEffect
    <3>5. ASSUME NEW a \in Attachments, NEW r \in Runs, NEW p \in Pages, UploadPage(a, r, p)
          PROVE  uploaded \subseteq uploaded'
      BY <3>5, UploadEffect DEF PageMoves
    <3> QED
      BY <3>1, <3>2, <3>3, <3>4, <3>5, Killed DEF Next, Aside
  <2> QED
    BY <2>1, <2>2
<1>2. CASE ~ready[b]
  <2>1. PICK a \in Attachments, r \in Runs, p \in Pages : UploadPage(a, r, p)
    <3>1. CASE Aside
      BY <1>2, <3>1, AsideEffect
    <3>2. ASSUME NEW a \in Attachments, Register(a) PROVE FALSE
      BY <1>2, <3>2 DEF Register, RegisterRow, RegisterStatus, BrowserUploads, attachmentRow
    <3>3. ASSUME NEW a \in Attachments, NEW r \in Runs, Confirm(a, r) PROVE FALSE
      BY <1>2, <3>3 DEF Confirm, ConfirmLock, ConfirmStatus, ConfirmFile, ConfirmSet, ConfirmEnqueue,
           ConfirmUnlock, attachmentRow
    <3>4. ASSUME NEW a \in Attachments, NEW r \in Runs, Process(a, r) PROVE FALSE
      BY <1>2, <3>4, ProcessReports
    <3> QED
      BY <3>1, <3>2, <3>3, <3>4, Killed DEF Next, Aside
  <2>2. PageMoves(a, r, p) /\ task' = task
    BY <2>1, UploadEffect
  <2>3. /\ a = b /\ page[b][r][p] = "completed" /\ Live(b) /\ uploaded' = uploaded
    BY <1>2, <2>2 DEF PageMoves, Types, TypeOK
  <2>4. r = k
    BY <2>2, <2>3, PageIsThere
  <2>5. ~Reported(b, k) /\ Counted(b, k) = Pages
    <3>1. ~Reported(b, k)
      BY <2>3, <2>4 DEF Joins
    <3>2. p \in Counted(b, k) /\ page[b][k][p] # "over"
      BY <2>3, <2>4 DEF Counted
    <3> QED
      BY <2>3, <3>1, <3>2 DEF Joins
  <2>6. ASSUME NEW q \in Pages PROVE PieceOf(b, k, q) \in uploaded
    <3>1. page[b][k][q] \notin {"none", "queued", "calling", "failing"}
      BY <2>5 DEF Counted
    <3> QED
      BY <2>5, <3>1 DEF Reported, PageFailed
  <2> QED
    BY <2>3, <2>6
<1> QED
  BY <1>1, <1>2

\* The join is inductive, next to the invariant of the runs.
LEMMA JoinStep == Types /\ FilesInv /\ EnqueuedOnce /\ AllPaid /\ AllJoin /\ [Next]_vars => AllJoin'
<1> SUFFICES ASSUME Types, FilesInv, EnqueuedOnce, AllPaid, AllJoin, [Next]_vars,
                    deaths' = 0, ~KeysLapse, NEW b \in Attachments, NEW k \in Runs,
                    kind'[b] = "pdf", Started(b)' = {k}
             PROVE  /\ Live(b)' => Joins(b, k)'
                    /\ ready'[b] => \A p \in Pages : PieceOf(b, k, p) \in uploaded'
  BY DEF AllJoin, FirstRunJoins, ReadyIsSent, PieceOf
<1>1. deaths = 0 /\ Ordered /\ FirstRunJoins(b) /\ ReadyIsSent(b)
  BY Killed DEF AllPaid, AllJoin
<1>2. CASE Started(b) # {k}
  BY <1>1, <1>2, ConfirmStarts, FirstRunStarts
<1>3. CASE Started(b) = {k}
  <2>1. register[b] = "closed"
    <3>1. task[b][k] # "none" \/ confirm[b][k] = "set"
      BY <1>3 DEF Started
    <3>2. register[b] # "closed" => confirm[b][k] = "idle" /\ task[b][k] = "none"
      BY <1>1 DEF Ordered, OneHandler, EnqueuedOnce
    <3> QED
      BY <3>1, <3>2
  <2>2. kind[b] = "pdf" /\ (Live(b)' => Live(b))
    <3>1. CASE Aside
      BY <3>1, AsideEffect DEF Live
    <3>2. ASSUME NEW a \in Attachments, Register(a) PROVE kind'[b] = kind[b] /\ row'[b] = row[b]
      <4>1. CASE RegisterRow(a)
        BY <2>1, <4>1 DEF RegisterRow, Types, TypeOK
      <4>2. CASE RegisterStatus(a) \/ BrowserUploads(a)
        BY <4>2 DEF RegisterStatus, BrowserUploads, attachmentRow
      <4> QED
        BY <3>2, <4>1, <4>2 DEF Register
    <3>3. ASSUME NEW a \in Attachments, NEW r \in Runs, Confirm(a, r) PROVE kind' = kind /\ row' = row
      BY <3>3 DEF Confirm, ConfirmLock, ConfirmStatus, ConfirmFile, ConfirmSet, ConfirmEnqueue,
           ConfirmUnlock, attachmentRow
    <3>4. ASSUME NEW a \in Attachments, NEW r \in Runs, Process(a, r) PROVE kind' = kind /\ row' = row
      BY <3>4, ProcessEffect
    <3>5. ASSUME NEW a \in Attachments, NEW r \in Runs, NEW p \in Pages, UploadPage(a, r, p)
          PROVE  kind' = kind /\ row' = row
      BY <3>5, UploadEffect
    <3> QED
      BY <3>1, <3>2, <3>3, <3>4, <3>5, Killed DEF Next, Aside, Live
  <2>3. Live(b) => Joins(b, k)
    BY <1>1, <1>3, <2>2 DEF FirstRunJoins
  <2>4. ready'[b] => \A p \in Pages : PieceOf(b, k, p) \in uploaded'
    BY <1>1, <1>3, <2>2, <2>3, ReadyJoined
  <2>5. ASSUME Live(b)' PROVE Joins(b, k)'
    <3>1. Live(b) /\ Joins(b, k)
      BY <2>2, <2>3, <2>5
    <3>2. CASE Aside
      BY <1>1, <1>3, <3>1, <3>2, AsideJoins
    <3>3. ASSUME NEW a \in Attachments, Register(a) PROVE Joins(b, k)'
      BY <2>1, <3>1, <3>3, OthersJoin
    <3>4. ASSUME NEW a \in Attachments, NEW r \in Runs, Confirm(a, r) PROVE Joins(b, k)'
      BY <1>1, <1>3, <3>1, <3>4, ConfirmJoins
    <3>5. ASSUME NEW a \in Attachments, NEW r \in Runs, Process(a, r) PROVE Joins(b, k)'
      <4>1. CASE a # b
        BY <3>1, <3>5, <4>1, OthersJoin
      <4>2. CASE a = b
        <5>1. r = k
          BY <1>3, <3>5, <4>2, ProcessMoves DEF TaskOnly, Started
        <5> QED
          BY <1>1, <2>2, <3>1, <3>5, <4>2, <5>1, ProcessJoins
      <4> QED
        BY <4>1, <4>2
    <3>6. ASSUME NEW a \in Attachments, NEW r \in Runs, NEW p \in Pages, UploadPage(a, r, p)
          PROVE  Joins(b, k)'
      <4>1. CASE a # b
        BY <3>1, <3>6, <4>1, OthersJoin
      <4>2. CASE a = b
        <5>1. r = k
          BY <1>1, <1>3, <3>6, <4>2, UploadEffect, PageIsThere
        <5> QED
          BY <1>1, <3>1, <3>6, <4>2, <5>1, UploadJoins
      <4> QED
        BY <4>1, <4>2
    <3> QED
      BY <3>2, <3>3, <3>4, <3>5, <3>6, Killed DEF Next, Aside
  <2> QED
    BY <2>4, <2>5
<1> QED
  BY <1>2, <1>3

RunsInv == Types /\ FilesInv /\ EnqueuedOnce /\ AllPaid /\ AllJoin

\* Both hold in every behaviour.
LEMMA RunsInvariant == Spec => []RunsInv
<1>1. Init => RunsInv
  <2> SUFFICES ASSUME Init PROVE RunsInv
    OBVIOUS
  <2>1. Types /\ FilesInv /\ EnqueuedOnce /\ AllPaid
    BY PaidAtFirst
  <2>2. AllJoin
    BY <2>1 DEF Init, AllJoin, FirstRunJoins, ReadyIsSent, Live
  <2> QED
    BY <2>1, <2>2 DEF RunsInv
<1>2. RunsInv /\ [Next]_vars => RunsInv'
  BY TypeStep, FilesStep, EnqueuedStep, PaidStep, JoinStep DEF RunsInv
<1> QED
  BY <1>1, <1>2, PTL DEF Spec

\* A PDF whose first run makes it ready has all its pages with the provider.
THEOREM FirstRunSent == Spec => []FirstRunReadyMeansSent
<1>1. RunsInv => FirstRunReadyMeansSent
  BY DEF RunsInv, AllJoin, ReadyIsSent, FirstRunReadyMeansSent
<1> QED
  BY <1>1, RunsInvariant, PTL

\* Two steps write "completed".
LEMMA StatusCompletes ==
  ASSUME Types, [Next]_vars, NEW a \in Attachments, status[a] = "error", status'[a] = "completed"
  PROVE  \E b \in Attachments, r \in Runs :
           \/ task[b][r] = "committed" /\ DirectReport(b, r)
           \/ \E p \in Pages : CleanupApprove(b, r, p)
<1> USE DEF Types, TypeOK, SetStatus, redis
<1>1. ASSUME NEW b \in Attachments, Register(b) \/ Poll(b) \/ Remove(b) \/ Expire(b) PROVE FALSE
  BY <1>1 DEF Register, RegisterRow, RegisterStatus, BrowserUploads, Poll, PollVerify, PollCache, Remove, RemoveVerify, RemoveObjects, RemoveRow, RemoveKeys, Expire,
       StatusExpires, SyncExpires, OwnedExpires
<1>2. ASSUME NEW b \in Attachments, NEW r \in Runs, Confirm(b, r) PROVE FALSE
  BY <1>2 DEF Confirm, ConfirmLock, ConfirmStatus, ConfirmFile, ConfirmSet, ConfirmEnqueue,
       ConfirmUnlock
<1>3. ASSUME NEW b \in Attachments, NEW r \in Runs, Process(b, r)
      PROVE  task[b][r] = "committed" /\ DirectReport(b, r)
  BY <1>3 DEF Process, Dispatch, TaskError, PdfStore, PdfCount, PdfFanOut, DirectCommit,
       DirectReport, TaskStep
<1>4. ASSUME NEW b \in Attachments, NEW r \in Runs, NEW p \in Pages, UploadPage(b, r, p)
      PROVE  CleanupApprove(b, r, p)
  BY <1>4 DEF UploadPage, PageLoad, PageSend, PageError, PageCount, CountPage, CleanupTake,
       CleanupObjects, CleanupJudge, CleanupCommit, CleanupError
<1>5. CASE Send \/ SendDies \/ CleanupOrphans \/ CleanupStaleResults \/ UNCHANGED vars
  BY <1>5 DEF Send, SendCheck, SendCollect, SendSave, SendLink, SendDies, CleanupOrphans,
       CleanupStaleResults, vars
<1>6. ASSUME NEW b \in Attachments, NEW r \in Runs, RunDies(b, r) PROVE FALSE
  BY <1>6, DeathsLeave
<1> QED
  BY <1>1, <1>2, <1>3, <1>4, <1>5, <1>6 DEF Next

\* A run that is approved or reported as completed has not failed.
LEMMA CompletedHasNotFailed ==
  ASSUME RunsInv, [Next]_vars, deaths = 0, ~KeysLapse, NEW a \in Attachments, Live(a),
         Cardinality(Started(a)) <= 1, status[a] = "error"
  PROVE  status'[a] # "completed"
<1> SUFFICES ASSUME status'[a] = "completed" PROVE FALSE
  OBVIOUS
<1> USE DEF RunsInv
<1>1. Ordered /\ Paid(a) /\ FirstRunJoins(a)
  BY DEF AllPaid, AllJoin
<1>2. PICK b \in Attachments, r \in Runs :
        \/ task[b][r] = "committed" /\ DirectReport(b, r)
        \/ \E p \in Pages : CleanupApprove(b, r, p)
  BY StatusCompletes
<1>3. b = a
  BY <1>2 DEF DirectReport, CleanupApprove, SetStatus, Types, TypeOK
<1>4. r \in Started(a) /\ (kind[a] = "pdf" <=> \E p \in Pages : CleanupApprove(a, r, p))
  BY <1>1, <1>2, <1>3 DEF Started, Ordered, PagesOfTask, ByKind, Early, CleanupApprove, PageStep
<1>5. Started(a) = {r}
  <2>1. IsFiniteSet(Started(a)) /\ {r} \in SUBSET Started(a)
    BY <1>1, <1>4 DEF Paid
  <2>2. Cardinality({r}) = 1 /\ Cardinality(Started(a)) \in Nat
    BY <2>1, FS_Singleton, FS_CardinalityType
  <2> QED
    BY <2>1, <2>2, FS_Subset
<1>6. Reported(a, r)
  <2>1. Cardinality(Started(a)) = 1 /\ Cardinality(Started(a)) <= Reports(a)
    BY <1>1, <1>5, FS_Singleton DEF Paid, MayStart
  <2>2. TaskFails(a) # {} \/ PageFails(a) # {}
    BY <2>1, FS_EmptySet DEF Reports
  <2>3. TaskFails(a) \subseteq {r} /\ PageFails(a) \subseteq {r} \X Pages
    BY <1>1, <1>5, FailsOfRuns DEF FailsInRuns
  <2> QED
    BY <2>2, <2>3 DEF TaskFails, PageFails, Reported
<1>7. CASE \E p \in Pages : CleanupApprove(a, r, p)
  BY <1>1, <1>4, <1>5, <1>6, <1>7 DEF FirstRunJoins, Joins, CleanupApprove, PageStep
<1>8. CASE kind[a] # "pdf"
  BY <1>1, <1>2, <1>3, <1>4, <1>6, <1>8 DEF Reported, PageFailed, Ordered, ByKind
<1> QED
  BY <1>4, <1>7, <1>8

\* In the first run nothing turns a reported error into "completed".
THEOREM ErrorStands == Spec => ReportedErrorStands
<1> DEFINE Stands == \A a \in Attachments :
             (deaths = 0 /\ ~KeysLapse /\ Live(a) /\ Cardinality(Started(a)) <= 1 /\ status[a] = "error")
               => status'[a] # "completed"
<1>1. RunsInv /\ [Next]_vars => Stands
  BY CompletedHasNotFailed
<1>2. Stands => [Stands]_vars
  OBVIOUS
<1> QED
  BY <1>1, RunsInvariant, PTL DEF Spec, ReportedErrorStands

-----------------------------------------------------------------------------
(* Somebody is at work, as long as nobody cuts the chain and the keys last     *)

\* The pages that have their turn at the counter before them.
Coming(a, r) ==
  {p \in Pages : page[a][r][p] \in {"queued", "calling", "sent", "failing", "failed"}}

\* The run will decide the file: its task or its cleanup is at work, or enough
\* of its pages are coming for one of them to be the last.
OnDuty(a, r) ==
  \/ confirm[a][r] = "set"
  \/ task[a][r] \in {"queued", "typed", "stored", "counted", "committed", "failing"}
  \/ \E p \in Pages : page[a][r][p] \in {"taken", "loaded", "approved", "completed", "cleanupFailing"}
  \/ sync[a] # None /\ \E p \in Pages : page[a][r][p] = "cleanup"
  \/ Coming(a, r) # {} /\ (sync[a] = None \/ sync[a] <= Cardinality(Coming(a, r)))

\* The file waits for the end of a run.
Undecided(a) == Live(a) /\ ~ready[a] /\ status[a] \in {"processing", "completed"}

\* Nothing is confirmed before the file is registered.
Fresh(a) ==
  register[a] # "closed" =>
    /\ status[a] = "none"
    /\ \A r \in Runs :
         confirm[a][r] = "idle" /\ task[a][r] = "none" /\ \A p \in Pages : page[a][r][p] = "none"

\* The counter is never above the number of pages, and a result is ready with
\* its commit.
Bounded(a) ==
  /\ sync[a] # None => sync[a] <= Cardinality(Pages)
  /\ \A r \in Runs : task[a][r] = "committed" => ready[a]

\* The invariant of a file whose next task was not lost.
Manned(a) == ~KeysLapse /\ Undecided(a) /\ a \notin cut => \E r \in Runs : OnDuty(a, r)

Tended(a) == Fresh(a) /\ Bounded(a) /\ Manned(a)

\* The state of one file, as far as the work on it goes.
workOn(a) == <<row[a], ready[a], status[a], sync[a], register[a], confirm[a], task[a], page[a],
              a \in cut>>

\* Steps that leave the file alone.
LEMMA QuietTended ==
  ASSUME NEW a \in Attachments, Tended(a), UNCHANGED workOn(a)
  PROVE  Tended(a)'
<1>1. Fresh(a)' /\ Bounded(a)'
  BY DEF Tended, Fresh, Bounded, workOn
<1>2. \A r \in Runs : OnDuty(a, r)' <=> OnDuty(a, r)
  BY DEF OnDuty, Coming, workOn
<1>3. Manned(a)'
  BY <1>2 DEF Tended, Manned, Undecided, Live, workOn
<1> QED
  BY <1>1, <1>3 DEF Tended

\* A handler, a task or a page touches its own file.
LEMMA WorkIsLocal ==
  ASSUME Types, NEW a \in Attachments, NEW b \in Attachments, a # b,
         \/ Register(a) \/ Poll(a) \/ Remove(a) \/ Expire(a)
         \/ \E r \in Runs :
              \/ Confirm(a, r) \/ Process(a, r) \/ RunDies(a, r)
              \/ \E p \in Pages : UploadPage(a, r, p)
  PROVE  UNCHANGED workOn(b)
<1> USE DEF workOn, attachmentRow, redis, handlers, workers, SetStatus, CutIf
<1>0. /\ row \in [Attachments -> {"none", "live", "gone"}]
      /\ ready \in [Attachments -> BOOLEAN]
      /\ status \in [Attachments -> Statuses \cup {"none"}]
      /\ sync \in [Attachments -> Int \cup {None}]
      /\ register \in [Attachments -> {"idle", "committed", "closed"}]
      /\ confirm \in [Attachments -> [Runs -> ConfirmSteps]]
      /\ task \in [Attachments -> [Runs -> TaskSteps]]
      /\ page \in [Attachments -> [Runs -> [Pages -> PageSteps]]]
  BY DEF Types, TypeOK
<1>1. CASE Register(a)
  BY <1>0, <1>1 DEF Register, RegisterRow, RegisterStatus, BrowserUploads
<1>2. CASE Poll(a) \/ Expire(a)
  BY <1>0, <1>2 DEF Poll, PollVerify, PollCache, Expire, StatusExpires, SyncExpires,
       OwnedExpires
<1>3. CASE Remove(a)
  <2>1. CASE RemoveRow(a)
    BY <1>0, <2>1 DEF RemoveRow, DropRows
  <2>2. CASE RemoveVerify(a) \/ RemoveObjects(a) \/ RemoveKeys(a)
    BY <1>0, <2>2 DEF RemoveVerify, RemoveObjects, RemoveKeys
  <2> QED
    BY <1>3, <2>1, <2>2 DEF Remove
<1>4. ASSUME NEW r \in Runs, Confirm(a, r) PROVE UNCHANGED workOn(b)
  BY <1>0, <1>4 DEF Confirm, ConfirmLock, ConfirmStatus, ConfirmFile, ConfirmSet, ConfirmEnqueue,
       ConfirmUnlock, ConfirmStep
<1>5. ASSUME NEW r \in Runs, Process(a, r) PROVE UNCHANGED workOn(b)
  <2>1. CASE Dispatch(a, r) \/ TaskError(a, r) \/ PdfCount(a, r) \/ DirectReport(a, r)
    BY <1>0, <2>1 DEF Dispatch, TaskError, PdfCount, DirectReport, TaskStep
  <2>2. CASE PdfStore(a, r)
    BY <1>0, <2>2 DEF PdfStore, TaskStep
  <2>3. CASE PdfFanOut(a, r)
    <3>1. /\ UNCHANGED <<row, ready, status, sync, register, confirm, cut>>
          /\ \E t, u : task' = [task EXCEPT ![a][r] = t] /\ page' = [page EXCEPT ![a][r] = u]
      BY <2>3 DEF PdfFanOut, TaskStep
    <3> QED
      BY <1>0, <3>1
  <2>4. CASE DirectCommit(a, r)
    <3>1. /\ UNCHANGED <<row, status, sync, register, confirm, page, cut>>
          /\ \E t, u : task' = [task EXCEPT ![a][r] = t] /\ ready' = [ready EXCEPT ![a] = u]
      BY <2>4 DEF DirectCommit, TaskStep
    <3> QED
      BY <1>0, <3>1
  <2> QED
    BY <1>5, <2>1, <2>2, <2>3, <2>4 DEF Process
<1>6. ASSUME NEW r \in Runs, NEW p \in Pages, UploadPage(a, r, p) PROVE UNCHANGED workOn(b)
  <2>1. PICK t : page' = [page EXCEPT ![a][r][p] = t]
    BY <1>6 DEF UploadPage, PageLoad, PageSend, PageError, PageCount, CountPage, CleanupTake, CleanupObjects,
         CleanupJudge, CleanupApprove, CleanupCommit, CleanupError, PageStep
  <2>2. UNCHANGED <<row, register, confirm, task>> /\ PageMoves(a, r, p)
    BY <1>6, UploadEffect
  <2>3. UNCHANGED <<ready[b], status[b], sync[b]>>
    BY <1>0, <2>2 DEF PageMoves
  <2>4. cut' = cut \/ cut' = cut \cup {a}
    BY <1>6 DEF UploadPage, PageLoad, PageSend, PageError, PageCount, CountPage, CleanupTake, CleanupObjects,
         CleanupJudge, CleanupApprove, CleanupCommit, CleanupError
  <2> QED
    BY <1>0, <2>1, <2>2, <2>3, <2>4
<1>7. ASSUME NEW r \in Runs, RunDies(a, r) PROVE UNCHANGED workOn(b)
  <2>1. UNCHANGED <<row, ready, status, sync, register>>
    BY <1>7, DeathsLeave
  <2>2. CASE ConfirmDies(a, r) \/ TaskDies(a, r)
    BY <1>0, <2>1, <2>2 DEF ConfirmDies, TaskDies
  <2>3. ASSUME NEW k \in Runs, DispatchDies(a, r, k) PROVE UNCHANGED workOn(b)
    BY <1>0, <2>1, <2>3 DEF DispatchDies, Redelivered
  <2>4. ASSUME NEW k \in Runs, PdfFanOutDies(a, r, k) PROVE UNCHANGED workOn(b)
    <3>1. /\ confirm' = [confirm EXCEPT ![a][k] = "closed"]
          /\ task' = [task EXCEPT ![a][r] = "killed", ![a][k] = "typed"]
          /\ \E u : page' = [page EXCEPT ![a][r] = u]
          /\ cut' = cut
      BY <2>4 DEF PdfFanOutDies, Redelivered
    <3> QED
      BY <1>0, <2>1, <3>1
  <2>5. ASSUME NEW p \in Pages, PageDies(a, r, p) \/ CleanupDies(a, r, p) PROVE UNCHANGED workOn(b)
    BY <1>0, <2>1, <2>5 DEF PageDies, CleanupDies
  <2> QED
    BY <1>7, <2>2, <2>3, <2>4, <2>5 DEF RunDies
<1> QED
  BY <1>1, <1>2, <1>3, <1>4, <1>5, <1>6, <1>7

\* Registration comes before all work.
LEMMA RegisterTended ==
  ASSUME Types, NEW a \in Attachments, Tended(a), Register(a)
  PROVE  Tended(a)'
<1> USE DEF Types, TypeOK
<1>1. CASE RegisterRow(a)
  <2>1. /\ register[a] = "idle" /\ register'[a] = "committed"
        /\ UNCHANGED <<status, sync, ready, confirm, task, page, cut>>
    BY <1>1 DEF RegisterRow, redis, workers
  <2>2. status[a] = "none"
    BY <2>1 DEF Tended, Fresh
  <2> QED
    BY <2>1, <2>2 DEF Tended, Fresh, Bounded, Manned, Undecided
<1>2. CASE RegisterStatus(a)
  <2>1. /\ register[a] = "committed" /\ register'[a] = "closed"
        /\ status'[a] = IF status[a] = "none" THEN "uploading" ELSE status[a]
        /\ UNCHANGED <<sync, ready, confirm, task, page>>
    BY <1>2 DEF RegisterStatus, SetStatus, attachmentRow, workers
  <2>2. status'[a] = "uploading"
    BY <2>1 DEF Tended, Fresh
  <2> QED
    BY <2>1, <2>2 DEF Tended, Fresh, Bounded, Manned, Undecided
<1>3. CASE BrowserUploads(a)
  BY <1>3, QuietTended DEF BrowserUploads, workOn, attachmentRow, redis, handlers, workers
<1> QED
  BY <1>1, <1>2, <1>3 DEF Register

\* The handler is on duty from the status it sets to the task it enqueues.
LEMMA ConfirmTended ==
  ASSUME Types, NEW a \in Attachments, Tended(a), NEW r \in Runs, Confirm(a, r)
  PROVE  Tended(a)'
<1>1. UNCHANGED <<row, ready, sync, register, page>>
  BY DEF Confirm, ConfirmLock, ConfirmStatus, ConfirmFile, ConfirmSet, ConfirmEnqueue, ConfirmUnlock,
     attachmentRow, redis, workers
<1>2. register[a] = "closed"
  BY DEF Tended, Fresh, Confirm, ConfirmLock, ConfirmStatus, ConfirmFile, ConfirmSet, ConfirmEnqueue,
     ConfirmUnlock, ConfirmStep
<1>3. \A k \in Runs : task'[a][k] = "committed" => task[a][k] = "committed"
  BY ConfirmMoves
<1>4. Fresh(a)' /\ Bounded(a)'
  BY <1>1, <1>2, <1>3 DEF Tended, Fresh, Bounded
<1>5. ASSUME Undecided(a)', ~KeysLapse, a \notin cut' PROVE \E k \in Runs : OnDuty(a, k)'
  <2>1. CASE ConfirmSet(a, r)
    BY <2>1 DEF ConfirmSet, ConfirmStep, OnDuty, Types, TypeOK
  <2>2. CASE ConfirmEnqueue(a, r)
    <3>1. task'[a][r] = "queued"
      BY <1>5, <2>2 DEF ConfirmEnqueue, CutIf, Types, TypeOK
    <3> QED
      BY <3>1 DEF OnDuty
  <2>3. CASE ConfirmLock(a, r) \/ ConfirmStatus(a, r) \/ ConfirmFile(a, r) \/ ConfirmUnlock(a, r)
    <3>1. UNCHANGED <<status, task, cut>> /\ confirm[a][r] # "set"
          /\ \A k \in Runs : k # r => confirm'[a][k] = confirm[a][k]
      BY <2>3 DEF ConfirmLock, ConfirmStatus, ConfirmFile, ConfirmUnlock, ConfirmStep, redis, workers,
           Types, TypeOK
    <3>2. PICK k \in Runs : OnDuty(a, k)
      BY <1>1, <1>5, <3>1 DEF Tended, Manned, Undecided, Live
    <3>3. confirm[a][k] = "set" => confirm'[a][k] = "set"
      BY <3>1
    <3> QED
      BY <1>1, <3>1, <3>2, <3>3 DEF OnDuty, Coming
  <2> QED
    BY <2>1, <2>2, <2>3 DEF Confirm
<1> QED
  BY <1>4, <1>5 DEF Tended, Manned

\* A task hands its duty over to its pages, or has decided the file.
LEMMA ProcessTended ==
  ASSUME Types, NEW a \in Attachments, Tended(a), NEW r \in Runs, Process(a, r)
  PROVE  Tended(a)'
<1>0. /\ ready \in [Attachments -> BOOLEAN]
      /\ status \in [Attachments -> Statuses \cup {"none"}]
      /\ sync \in [Attachments -> Int \cup {None}]
      /\ task \in [Attachments -> [Runs -> TaskSteps]]
      /\ page \in [Attachments -> [Runs -> [Pages -> PageSteps]]]
      /\ Cardinality(Pages) \in Nat
  BY PagesAssumption, FS_CardinalityType DEF Types, TypeOK
<1>1. /\ UNCHANGED <<row, register, confirm>>
      /\ \A k \in Runs : k # r => task'[a][k] = task[a][k]
      /\ TaskMoves(a, r)
  BY ProcessEffect
<1>2. Fresh(a)'
  <2>1. task[a][r] # "none"
    BY <1>1 DEF TaskMoves
  <2> QED
    BY <1>1, <2>1 DEF Tended, Fresh
<1>3. sync'[a] \in {sync[a], Cardinality(Pages)} /\ (ready[a] => ready'[a])
      /\ (task'[a][r] = "committed" => ready'[a])
  <2>1. CASE Dispatch(a, r) \/ TaskError(a, r) \/ PdfCount(a, r) \/ DirectReport(a, r)
    BY <1>0, <2>1 DEF Dispatch, TaskError, PdfCount, DirectReport, TaskStep, redis, attachmentRow
  <2>2. CASE PdfStore(a, r) \/ PdfFanOut(a, r)
    <3>1. UNCHANGED <<sync, ready>>
      BY <2>2 DEF PdfStore, PdfFanOut, redis, attachmentRow
    <3>2. task[a][r] \in {"typed", "counted"} /\ (kind[a] = "pdf" \/ task[a][r] = "counted")
      BY <2>2 DEF PdfStore, PdfFanOut, TaskStep
    <3>3. task'[a][r] # "committed"
      BY <1>1, <3>2 DEF TaskMoves
    <3> QED
      BY <3>1, <3>3
  <2>3. CASE DirectCommit(a, r)
    <3>1. /\ \E ok \in BOOLEAN : /\ TaskStep(a, r, "typed", IF ok THEN "committed" ELSE "failing")
                                 /\ ready' = [ready EXCEPT ![a] = @ \/ ok]
          /\ sync' = sync
      BY <2>3 DEF DirectCommit, redis
    <3> QED
      BY <1>0, <3>1 DEF TaskStep
  <2> QED
    BY <2>1, <2>2, <2>3 DEF Process
<1>4. Bounded(a)'
  <2>1. sync'[a] # None => sync'[a] <= Cardinality(Pages)
    BY <1>0, <1>3 DEF Tended, Bounded
  <2>2. \A k \in Runs : task'[a][k] = "committed" => ready'[a]
    BY <1>1, <1>3 DEF Tended, Bounded
  <2> QED
    BY <2>1, <2>2 DEF Bounded
<1>5. ASSUME Undecided(a)', a \notin cut' PROVE OnDuty(a, r)'
  <2>1. CASE TaskError(a, r)
    BY <1>0, <1>5, <2>1 DEF TaskError, SetStatus, Undecided
  <2>2. CASE DirectReport(a, r)
    BY <1>5, <2>2 DEF DirectReport, TaskStep, attachmentRow, Tended, Bounded, Undecided
  <2>3. CASE PdfFanOut(a, r)
    <3>1. CASE task'[a][r] = "failing"
      BY <3>1 DEF OnDuty
    <3>2. CASE task'[a][r] # "failing"
      <4>1. \A p \in Pages : page'[a][r][p] = "queued"
        BY <2>3, <3>2, <1>0, <1>1 DEF TaskMoves, PdfFanOut, TaskStep
      <4>2. Coming(a, r)' = Pages
        BY <4>1 DEF Coming
      <4> QED
        BY <1>4, <4>2, PagesAssumption DEF OnDuty, Bounded
    <3> QED
      BY <3>1, <3>2
  <2>4. CASE ~TaskError(a, r) /\ ~DirectReport(a, r) /\ ~PdfFanOut(a, r)
    <3>1. CASE Dispatch(a, r)
      BY <1>0, <1>5, <3>1 DEF Dispatch, CutIf, TaskStep, OnDuty
    <3>2. CASE PdfStore(a, r)
      BY <1>0, <3>2 DEF PdfStore, TaskStep, OnDuty
    <3>3. CASE PdfCount(a, r)
      BY <1>0, <3>3 DEF PdfCount, TaskStep, OnDuty
    <3>4. CASE DirectCommit(a, r)
      <4>1. PICK t \in {"committed", "failing"} : task' = [task EXCEPT ![a][r] = t]
        BY <3>4 DEF DirectCommit, TaskStep
      <4> QED
        BY <1>0, <4>1 DEF OnDuty
    <3> QED
      BY <2>4, <3>1, <3>2, <3>3, <3>4 DEF Process, OnDuty
  <2> QED
    BY <2>1, <2>2, <2>3, <2>4
<1> QED
  BY <1>2, <1>4, <1>5 DEF Tended, Manned

\* A page on its way to the counter, and what it leaves behind there.
LEMMA ComingPages ==
  ASSUME Types, NEW a \in Attachments, NEW r \in Runs
  PROVE  /\ IsFiniteSet(Coming(a, r)) /\ Cardinality(Coming(a, r)) \in Nat
         /\ \A p \in Coming(a, r) : Cardinality(Coming(a, r) \ {p}) = Cardinality(Coming(a, r)) - 1
         /\ Cardinality(Coming(a, r)) > 0 => Coming(a, r) # {}
<1>1. IsFiniteSet(Coming(a, r))
  BY PagesAssumption, FS_Subset DEF Coming
<1> QED
  BY <1>1, FS_CardinalityType, FS_RemoveElement, FS_EmptySet

\* The duty of other runs, and of this one's task and handler, survives the step
\* of a page, unless the counter goes up.
LEMMA DutyStays ==
  ASSUME Types, NEW a \in Attachments, NEW k \in Runs, OnDuty(a, k),
         confirm'[a][k] = confirm[a][k], task'[a][k] = task[a][k],
         \A p \in Pages : page[a][k][p] \in {"taken", "loaded", "approved", "completed", "cleanupFailing"}
                            => page'[a][k][p] = page[a][k][p],
         \A p \in Pages : page[a][k][p] = "cleanup" => page'[a][k][p] = "cleanup",
         \/ sync'[a] = sync[a]
         \/ sync'[a] \in Int /\ sync'[a] <= IF sync[a] = None THEN 0 ELSE sync[a],
         Coming(a, k) \subseteq Coming(a, k)'
  PROVE  OnDuty(a, k)'
<1>1. CASE Coming(a, k) # {} /\ (sync[a] = None \/ sync[a] <= Cardinality(Coming(a, k)))
  <2>1. IsFiniteSet(Coming(a, k)') /\ Coming(a, k)' # {}
    <3>1. Coming(a, k)' \subseteq Pages
      BY DEF Coming
    <3> QED
      BY <1>1, <3>1, PagesAssumption, FS_Subset
  <2>2. /\ Cardinality(Coming(a, k)) \in Nat /\ Cardinality(Coming(a, k)') \in Nat
        /\ Cardinality(Coming(a, k)) <= Cardinality(Coming(a, k)')
    BY <2>1, FS_Subset, FS_CardinalityType
  <2>3. sync[a] \in Int \cup {None}
    BY DEF Types, TypeOK
  <2>4. sync'[a] = None \/ sync'[a] <= Cardinality(Coming(a, k)')
    BY <1>1, <2>2, <2>3
  <2> QED
    BY <2>1, <2>4 DEF OnDuty
<1>2. CASE sync[a] # None /\ \E p \in Pages : page[a][k][p] = "cleanup"
  <2>1. sync'[a] # None
    BY <1>2, NoneAssumption
  <2> QED
    BY <1>2, <2>1 DEF OnDuty
<1>3. CASE \/ confirm[a][k] = "set"
           \/ task[a][k] \in {"queued", "typed", "stored", "counted", "committed", "failing"}
           \/ \E p \in Pages : page[a][k][p] \in {"taken", "loaded", "approved", "completed", "cleanupFailing"}
  BY <1>3 DEF OnDuty
<1> QED
  BY <1>1, <1>2, <1>3 DEF OnDuty


\* A page that is not the last leaves another one to come, the last one cleans
\* up, and the cleanup decides the file.
LEMMA UploadTended ==
  ASSUME Types, NEW a \in Attachments, Tended(a), NEW r \in Runs, NEW p \in Pages,
         UploadPage(a, r, p)
  PROVE  Tended(a)'
<1>0. /\ ready \in [Attachments -> BOOLEAN]
      /\ status \in [Attachments -> Statuses \cup {"none"}]
      /\ sync \in [Attachments -> Int \cup {None}]
      /\ page \in [Attachments -> [Runs -> [Pages -> PageSteps]]]
      /\ Cardinality(Pages) \in Nat /\ Decremented(a) \in Int
  BY PagesAssumption, FS_CardinalityType DEF Types, TypeOK, Decremented
<1>1. /\ UNCHANGED <<row, register, confirm, task>>
      /\ \A k \in Runs, q \in Pages : k # r \/ q # p => page'[a][k][q] = page[a][k][q]
      /\ PageMoves(a, r, p)
  BY UploadEffect
<1>2. Fresh(a)'
  <2>1. page[a][r][p] # "none"
    BY <1>1 DEF PageMoves
  <2> QED
    BY <1>1, <2>1 DEF Tended, Fresh
<1>3. Bounded(a)'
  <2>1. sync'[a] \in {sync[a], None, Decremented(a)} /\ (ready[a] => ready'[a])
    BY <1>0, <1>1 DEF PageMoves
  <2>2. Decremented(a) <= Cardinality(Pages)
    BY <1>0 DEF Tended, Bounded, Decremented
  <2> QED
    BY <1>1, <2>1, <2>2 DEF Tended, Bounded
<1>4. ASSUME Undecided(a)', ~KeysLapse, a \notin cut' PROVE \E k \in Runs : OnDuty(a, k)'
  <2>1. CASE PageError(a, r, p) \/ CleanupError(a, r, p)
    BY <1>0, <1>4, <2>1 DEF PageError, CleanupError, SetStatus, Undecided
  <2>2. CASE CleanupObjects(a, r, p) \/ CleanupApprove(a, r, p)
    BY <1>0, <2>2 DEF CleanupObjects, CleanupApprove, PageStep, OnDuty
  <2>3. CASE CleanupJudge(a, r, p)
    <3>1. page'[a][r][p] = "approved"
      BY <1>0, <1>4, <2>3 DEF CleanupJudge, PageStep, Undecided, redis
    <3> QED
      BY <3>1 DEF OnDuty
  <2>4. CASE CleanupCommit(a, r, p)
    BY <1>0, <1>1, <1>4, <2>4 DEF CleanupCommit, Undecided, Live
  <2>5. CASE CleanupTake(a, r, p) /\ sync[a] # None
    BY <1>0, <2>5 DEF CleanupTake, PageStep, OnDuty
  <2>6. CASE PageCount(a, r, p) /\ page'[a][r][p] = "cleanup"
    <3>1. sync'[a] = Decremented(a)
      BY <1>0, <2>6 DEF PageCount, CountPage
    <3> QED
      BY <1>0, <2>6, <3>1, NoneAssumption DEF OnDuty
  <2>7. CASE \/ PageLoad(a, r, p) \/ PageSend(a, r, p)
             \/ CleanupTake(a, r, p) /\ sync[a] = None
             \/ PageCount(a, r, p) /\ page'[a][r][p] # "cleanup"
    <3>1. UNCHANGED <<status, ready>> /\ a \notin cut
      BY <1>4, <2>7 DEF PageLoad, PageSend, CleanupTake, PageCount, CountPage, CutIf, redis, attachmentRow
    <3>2. PICK k \in Runs : OnDuty(a, k)
      BY <1>1, <1>4, <3>1 DEF Tended, Manned, Undecided, Live
    <3>3. CASE PageLoad(a, r, p) \/ PageSend(a, r, p)
      <4>1. sync' = sync
        BY <3>3 DEF PageLoad, PageSend, redis
      <4>2. page[a][r][p] \in {"queued", "calling"} /\ page'[a][r][p] \in {"calling", "sent", "failing"}
        BY <1>1, <3>3 DEF PageMoves, PageLoad, PageSend, PageStep
      <4>3. Coming(a, k) \subseteq Coming(a, k)'
        BY <1>1, <4>2 DEF Coming
      <4> QED
        BY <1>1, <3>2, <4>1, <4>2, <4>3, DutyStays
    <3>4. CASE CleanupTake(a, r, p) /\ sync[a] = None
      <4>1. sync'[a] = None /\ page[a][r][p] = "cleanup"
        BY <1>0, <3>4 DEF CleanupTake, PageStep
      <4>2. Coming(a, k) = Coming(a, k)'
        BY <1>1, <4>1, <1>0, <3>4 DEF Coming, CleanupTake, PageStep
      <4>3. CASE Coming(a, k) # {}
        BY <4>1, <4>2, <4>3 DEF OnDuty
      <4>4. CASE Coming(a, k) = {}
        <5>1. \/ confirm[a][k] = "set"
              \/ task[a][k] \in {"queued", "typed", "stored", "counted", "committed", "failing"}
              \/ \E q \in Pages : page[a][k][q] \in {"taken", "loaded", "approved", "completed", "cleanupFailing"}
          BY <3>2, <3>4, <4>4 DEF OnDuty
        <5> QED
          BY <1>1, <4>1, <5>1 DEF OnDuty
      <4> QED
        BY <4>3, <4>4
    <3>5. CASE PageCount(a, r, p) /\ page'[a][r][p] # "cleanup"
      <4>1. /\ page[a][r][p] = "sent" /\ page'[a][r][p] = "over"
            /\ sync'[a] = Decremented(a) /\ Decremented(a) > 0
        BY <1>0, <1>4, <3>5 DEF PageCount, CountPage, CutIf, PageStep
      <4>2. sync[a] \in Int /\ sync'[a] = sync[a] - 1
        BY <1>0, <4>1 DEF Decremented
      <4>3. CASE k # r \/ Coming(a, k) = {} \/ ~(sync[a] <= Cardinality(Coming(a, k)))
        <5>1. CASE k # r
          <6>1. Coming(a, k) \subseteq Coming(a, k)'
            BY <1>1, <5>1 DEF Coming
          <6>2. sync'[a] \in Int /\ sync'[a] <= IF sync[a] = None THEN 0 ELSE sync[a]
            BY <4>2, NoneAssumption
          <6>3. \A q \in Pages : page'[a][k][q] = page[a][k][q]
            BY <1>1, <5>1
          <6> QED
            BY <1>1, <3>2, <5>1, <6>1, <6>2, <6>3, DutyStays
        <5>2. CASE k = r
          <6>1. \/ confirm[a][k] = "set"
                \/ task[a][k] \in {"queued", "typed", "stored", "counted", "committed", "failing"}
                \/ \E q \in Pages : page[a][k][q] \in {"taken", "loaded", "approved", "completed", "cleanupFailing", "cleanup"}
            BY <3>2, <4>2, <4>3, <5>2, NoneAssumption DEF OnDuty
          <6>2. sync'[a] # None
            BY <4>2, NoneAssumption
          <6> QED
            BY <1>1, <4>1, <6>1, <6>2 DEF OnDuty
        <5> QED
          BY <5>1, <5>2
      <4>4. CASE k = r /\ sync[a] <= Cardinality(Coming(a, k))
        <5>1. p \in Coming(a, r) /\ Coming(a, r)' = Coming(a, r) \ {p}
          BY <1>1, <4>1 DEF Coming
        <5>2. Cardinality(Coming(a, r)') = Cardinality(Coming(a, r)) - 1
          BY <5>1, ComingPages
        <5>3. sync'[a] <= Cardinality(Coming(a, r)')
          BY <4>2, <4>4, <5>2, ComingPages
        <5>4. Coming(a, r)' # {}
          <6>1. Cardinality(Coming(a, r)') > 0
            BY <4>1, <4>2, <5>2, <5>3, ComingPages
          <6> QED
            BY <6>1, FS_EmptySet
        <5> QED
          BY <5>3, <5>4 DEF OnDuty
      <4> QED
        BY <4>3, <4>4
    <3> QED
      BY <2>7, <3>3, <3>4, <3>5
  <2> QED
    BY <2>1, <2>2, <2>3, <2>4, <2>5, <2>6, <2>7 DEF UploadPage
<1> QED
  BY <1>2, <1>3, <1>4 DEF Tended, Manned

\* A task that is redelivered takes its duty up again; a handler and a cleanup
\* are the ones whose duty nobody takes up.
LEMMA DeathTended ==
  ASSUME Types, NEW a \in Attachments, Tended(a), NEW r \in Runs, RunDies(a, r)
  PROVE  Tended(a)'
<1>0. /\ confirm \in [Attachments -> [Runs -> ConfirmSteps]]
      /\ task \in [Attachments -> [Runs -> TaskSteps]]
      /\ page \in [Attachments -> [Runs -> [Pages -> PageSteps]]]
  BY DEF Types, TypeOK
<1>1. UNCHANGED <<row, ready, status, sync, register>>
  BY DeathsLeave
<1>2. CASE ConfirmDies(a, r)
  <2>1. /\ UNCHANGED <<task, page>> /\ confirm[a][r] # "idle" /\ (a \in cut => a \in cut')
        /\ \A k \in Runs : k # r => confirm'[a][k] = confirm[a][k]
        /\ confirm[a][r] = "set" => a \in cut'
    BY <1>0, <1>2 DEF ConfirmDies, CutIf, workers
  <2>2. a \notin cut' => \A k \in Runs : OnDuty(a, k) => OnDuty(a, k)'
    BY <1>1, <2>1 DEF OnDuty, Coming
  <2> QED
    BY <1>1, <2>1, <2>2 DEF Tended, Fresh, Bounded, Manned, Undecided, Live
<1>3. CASE TaskDies(a, r)
  <2>1. /\ UNCHANGED <<confirm, page>>
        /\ task[a][r] # "none" /\ task'[a][r] = "typed"
        /\ \A k \in Runs : k # r => task'[a][k] = task[a][k]
    BY <1>0, <1>3 DEF TaskDies, handlers
  <2>2. OnDuty(a, r)'
    BY <2>1 DEF OnDuty
  <2> QED
    BY <1>1, <2>1, <2>2 DEF Tended, Fresh, Bounded, Manned
<1>4. ASSUME NEW k \in Runs, DispatchDies(a, r, k) \/ PdfFanOutDies(a, r, k) PROVE Tended(a)'
  <2>1. /\ task[a][r] # "none" /\ task'[a][k] \in {"queued", "typed"}
        /\ \A q \in Runs : task'[a][q] = "committed" => task[a][q] = "committed"
    BY <1>0, <1>4 DEF DispatchDies, PdfFanOutDies, Redelivered
  <2>2. OnDuty(a, k)'
    BY <2>1 DEF OnDuty
  <2> QED
    BY <1>1, <2>1, <2>2 DEF Tended, Fresh, Bounded, Manned
<1>5. ASSUME NEW p \in Pages, PageDies(a, r, p) PROVE Tended(a)'
  <2>1. /\ UNCHANGED <<confirm, task, cut>>
        /\ page[a][r][p] \in {"calling", "sent", "failing", "failed", "over"}
        /\ page'[a][r][p] = "queued"
        /\ \A k \in Runs, q \in Pages : k # r \/ q # p => page'[a][k][q] = page[a][k][q]
    BY <1>0, <1>5 DEF PageDies, handlers
  <2>2. \A k \in Runs : Coming(a, k) \subseteq Coming(a, k)'
    BY <2>1 DEF Coming
  <2>3. \A k \in Runs : OnDuty(a, k) => OnDuty(a, k)'
    BY <1>1, <2>1, <2>2, DutyStays
  <2>4. Fresh(a)' /\ Bounded(a)'
    BY <1>1, <2>1 DEF Tended, Fresh, Bounded
  <2> QED
    BY <1>1, <2>1, <2>3, <2>4 DEF Tended, Manned, Undecided, Live
<1>6. ASSUME NEW p \in Pages, CleanupDies(a, r, p) PROVE Tended(a)'
  <2>1. UNCHANGED <<confirm, task>> /\ page[a][r][p] # "none" /\ a \in cut'
    BY <1>6 DEF CleanupDies, handlers
  <2> QED
    BY <1>1, <2>1 DEF Tended, Fresh, Bounded, Manned
<1> QED
  BY <1>2, <1>3, <1>4, <1>5, <1>6 DEF RunDies

\* Keys that are deleted, or that run out while nobody is at work, leave nobody
\* waiting.
LEMMA AsideTended ==
  ASSUME Types, NEW a \in Attachments, Tended(a), Aside \/ SendDies
  PROVE  Tended(a)'
<1>1. /\ UNCHANGED <<ready, register, confirm, task, page, cut>>
      /\ row'[a] \in {row[a], "gone"}
      /\ status'[a] \in {status[a], "none"}
  BY AsideEffect DEF SendDies, attachmentRow, redis, handlers, workers
<1>2. CASE sync'[a] = sync[a]
  <2>1. Fresh(a)' /\ Bounded(a)'
    BY <1>1, <1>2 DEF Tended, Fresh, Bounded
  <2>2. \A k \in Runs : OnDuty(a, k) => OnDuty(a, k)'
    BY <1>1, <1>2 DEF OnDuty, Coming
  <2>3. Undecided(a)' => Undecided(a)
    BY <1>1 DEF Undecided, Live
  <2> QED
    BY <1>1, <2>1, <2>2, <2>3 DEF Tended, Manned
<1>3. CASE sync'[a] # sync[a]
  <2>1. SyncExpires(a) \/ RemoveKeys(a)
    <3> USE DEF redis, Types, TypeOK
    <3>1. ASSUME NEW b \in Attachments, Poll(b) PROVE FALSE
      BY <1>3, <3>1 DEF Poll, PollVerify, PollCache
    <3>2. ASSUME NEW b \in Attachments, Remove(b) PROVE RemoveKeys(a)
      BY <1>3, <3>2 DEF Remove, RemoveVerify, RemoveObjects, RemoveRow, RemoveKeys
    <3>3. ASSUME NEW b \in Attachments, Expire(b) PROVE SyncExpires(a)
      BY <1>3, <3>3 DEF Expire, StatusExpires, SyncExpires, OwnedExpires
    <3>4. CASE Send \/ SendDies \/ CleanupOrphans \/ CleanupStaleResults \/ UNCHANGED vars
      BY <1>3, <3>4 DEF Send, SendCheck, SendCollect, SendSave, SendLink, SendDies, CleanupOrphans,
           CleanupStaleResults, vars
    <3> QED
      BY <3>1, <3>2, <3>3, <3>4 DEF Aside
  <2>2. sync'[a] = None
    BY <2>1 DEF SyncExpires, RemoveKeys, Types, TypeOK
  <2>3. Fresh(a)' /\ Bounded(a)'
    BY <1>1, <2>2 DEF Tended, Fresh, Bounded
  <2>4. CASE RemoveKeys(a)
    BY <1>1, <2>3, <2>4 DEF RemoveKeys, SetStatus, Types, TypeOK, Tended, Manned, Undecided
  <2>5. CASE SyncExpires(a)
    <3>1. UNCHANGED <<row, status>>
      BY <2>5 DEF SyncExpires, attachmentRow
    <3>2. ASSUME ~KeysLapse, NEW k \in Runs, OnDuty(a, k) PROVE OnDuty(a, k)'
      <4>1. ~Busy(a)
        BY <2>5, <3>2 DEF SyncExpires
      <4>2. confirm[a][k] = "set"
        BY <3>2, <4>1 DEF OnDuty, Busy, Coming
      <4> QED
        BY <1>1, <4>2 DEF OnDuty
    <3> QED
      BY <1>1, <2>3, <3>1, <3>2 DEF Tended, Manned, Undecided, Live
  <2> QED
    BY <2>1, <2>4, <2>5
<1> QED
  BY <1>2, <1>3

\* Every file is tended to.
HangInv == Types /\ \A a \in Attachments : Tended(a)

\* Each step, of whatever file, leaves every file tended to.
LEMMA TendedStep ==
  ASSUME HangInv, [Next]_vars, NEW b \in Attachments
  PROVE  Tended(b)'
<1> USE DEF HangInv
<1>1. CASE Aside \/ SendDies
  BY <1>1, AsideTended
<1>2. ASSUME NEW a \in Attachments, a # b,
             \/ Register(a) \/ Poll(a) \/ Remove(a) \/ Expire(a)
             \/ \E r \in Runs :
                  \/ Confirm(a, r) \/ Process(a, r) \/ RunDies(a, r)
                  \/ \E p \in Pages : UploadPage(a, r, p)
      PROVE  Tended(b)'
  BY <1>2, WorkIsLocal, QuietTended
<1>3. CASE Register(b)
  BY <1>3, RegisterTended
<1>4. ASSUME NEW r \in Runs, Confirm(b, r) PROVE Tended(b)'
  BY <1>4, ConfirmTended
<1>5. ASSUME NEW r \in Runs, Process(b, r) PROVE Tended(b)'
  BY <1>5, ProcessTended
<1>6. ASSUME NEW r \in Runs, NEW p \in Pages, UploadPage(b, r, p) PROVE Tended(b)'
  BY <1>6, UploadTended
<1>7. ASSUME NEW r \in Runs, RunDies(b, r) PROVE Tended(b)'
  BY <1>7, DeathTended
<1> QED
  BY <1>1, <1>2, <1>3, <1>4, <1>5, <1>6, <1>7 DEF Next, Aside

\* A file that is shown as being processed is being processed: somebody is left
\* to decide it, however its runs meet at the counter (tasks/files.py:201, 319,
\* 321, 327) and whichever task is redelivered, or its chain was cut in one of
\* five ways: at the publish of its handler, by a raise or a kill before it
\* (routes/chat.py:698), outside the try of process_attachment (tasks/files.py:157,
\* 174-178), at the publish of the cleanup (321) or in the cleanup (327).
THEOREM UnderWay == Spec => []ProcessingIsUnderWay
<1>1. Init => HangInv
  <2> SUFFICES ASSUME Init PROVE HangInv
    OBVIOUS
  <2>1. Types
    BY BoundAssumption DEF Init, Types, TypeOK, SendRoom, ConfirmSteps, TaskSteps, PageSteps, SendSteps
  <2>2. ASSUME NEW a \in Attachments PROVE Tended(a)
    BY DEF Init, Tended, Fresh, Bounded, Manned, Undecided
  <2> QED
    BY <2>1, <2>2 DEF HangInv
<1>2. HangInv /\ [Next]_vars => HangInv'
  BY TypeStep, TendedStep DEF HangInv
<1>3. HangInv => ProcessingIsUnderWay
  <2> SUFFICES ASSUME HangInv, ~KeysLapse, NEW a \in Attachments, Undecided(a)
               PROVE  Busy(a) \/ (\E r \in Runs : confirm[a][r] = "set") \/ a \in cut
    BY DEF ProcessingIsUnderWay, Undecided
  <2> SUFFICES ASSUME a \notin cut PROVE Busy(a) \/ \E r \in Runs : confirm[a][r] = "set"
    OBVIOUS
  <2>1. PICK r \in Runs : OnDuty(a, r)
    BY DEF HangInv, Tended, Manned
  <2> QED
    BY <2>1 DEF OnDuty, Busy, Coming
<1> QED
  BY <1>1, <1>2, <1>3, PTL DEF Spec

=============================================================================
