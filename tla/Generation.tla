----------------------------- MODULE Generation -----------------------------
(***************************************************************************)
(* One chat turn of divaldi, from the POST that asks for it to the row the *)
(* client polls: the request handlers of routes/chat.py with the chat_lock *)
(* dependency of deps.py, the two worker tasks of tasks/api.py             *)
(* (generate_chat_message and process_response), the three Redis keys they *)
(* share (generation, creation, deletion) and the rows they write.         *)
(*                                                                         *)
(* A turn t is one POST and, for send and retry, the one task it enqueues: *)
(* req[t] is where the handler stands, job[t] where the task stands.       *)
(* Every action is one Redis command or one committed transaction.         *)
(*                                                                         *)
(* The keys hold "1" in the code.  Here genKey and creKey hold the turn    *)
(* that set them, which only the properties read: no guard looks at it.    *)
(***************************************************************************)
EXTENDS Naturals, Sequences, FiniteSets

CONSTANTS
  Users,          \* users.uuid
  Sessions,       \* chat_sessions.session_id; an id is never reused
  Turns,          \* bound: the POSTs that can ever arrive
  Owner,          \* the user each session belongs to
  None,           \* an absent row, key or turn
  GenKeyLapses,   \* TRUE: the 300 s may run out while the task still works
  CreKeyLapses,   \* TRUE: the 5 s may run out while the handler still works
  MaxDeaths,      \* bound: how often API and worker processes are killed
  BrokerFails     \* TRUE: publishing one of the two tasks may raise

ASSUME OwnerAssumption == Owner \in [Sessions -> Users]
ASSUME NoneAssumption == None \notin Turns
ASSUME FaultAssumption == /\ {GenKeyLapses, CreKeyLapses, BrokerFails} \subseteq BOOLEAN
                          /\ MaxDeaths \in Nat

VARIABLES
  session,   \* chat_sessions: "absent", "live", "doomed" (deletion begun), "deleted"
  msgs,      \* chat_messages of the session, in id order
  result,    \* generation_results: None or [type, turn]
  genKey,    \* chat:generation:{user}
  creKey,    \* chat:creation:{user}
  delKey,    \* chat:deletion:{session}
  op,        \* what each POST asks for (fixed)
  target,    \* the session each POST is about (fixed)
  req,       \* progress of the POST handler
  job,       \* progress of the task(s) it enqueued
  asked,     \* the user message the task sent to the provider last
  unguarded, \* ghost: turns that lost the generation key while working
  deaths     \* processes killed so far

rows == <<session, msgs, result>>
keys == <<genKey, creKey, delKey>>
plan == <<op, target>>
vars == <<rows, keys, plan, req, job, asked, unguarded, deaths>>

-----------------------------------------------------------------------------
Ops == {"create", "send", "retry"}
Roles == {"system", "user", "assistant"}
Message == [role : Roles, turn : Turns \cup {None}]
ResultRow == [type : {"success", "error"}, turn : Turns]

ReqSteps == {"idle", "checked", "locked", "saved", "linked", "unlocking", "closed"}

\* Between chat_lock's SET of the creation key and its finally clause.
InHandler == {"locked", "saved", "linked", "unlocking"}

\* generate_chat_message and process_response between the SET of the
\* generation key and their first DELETE of it.
GenerateWorking == {"locked", "calling", "answered", "publishing",
                    "err", "errRelease", "outer", "outerRelease"}
RespondWorking == {"prQueued", "prErr", "prErrRelease", "prRelease"}
WorkingSteps == GenerateWorking \cup RespondWorking

\* Past the first DELETE, about to issue the second one.
SecondRelease == {"outerRelease2", "prRelease2"}

EndedSteps == {"done", "dropped", "cancelled", "failed"}
JobSteps == {"none", "queued", "cleared", "found"}
              \cup WorkingSteps \cup SecondRelease \cup EndedSteps

UserOf(t) == Owner[target[t]]
Working(t) == job[t] \in WorkingSteps
Ended(t) == job[t] \in EndedSteps
HasRows(s) == session[s] \in {"live", "doomed"}

\* Mutant: no foreign key from the result to the session.
MutantInsertWithoutSession(s) == result[s] = None

\* generation_results: primary key chat_session_id, a foreign key on the session.
CanInsertResult(s) == HasRows(s) /\ result[s] = None

\* Mutant: the search runs from the start of the table.
MutantHistoryUpToFirst(rs) ==
  LET users == {i \in DOMAIN rs : rs[i].role = "user"}
  IN  IF users = {} THEN <<>>
      ELSE SubSeq(rs, 1, CHOOSE i \in users : \A k \in users : i <= k)

(* _history_up_to_last_user_message *)
HistoryUpToLastUserMessage(rs) ==
  LET users == {i \in DOMAIN rs : rs[i].role = "user"}
  IN  IF users = {} THEN <<>>
      ELSE SubSeq(rs, 1, CHOOSE i \in users : \A k \in users : k <= i)

-----------------------------------------------------------------------------
\* Sessions may exist from before, with their system message only and no key set.
Init ==
  /\ \E old \in SUBSET Sessions :
       /\ session = [s \in Sessions |-> IF s \in old THEN "live" ELSE "absent"]
       /\ msgs = [s \in Sessions |->
                    IF s \in old THEN <<[role |-> "system", turn |-> None]>> ELSE <<>>]
  /\ result = [s \in Sessions |-> None]
  /\ genKey = [u \in Users |-> None]
  /\ creKey = [u \in Users |-> None]
  /\ delKey = [s \in Sessions |-> FALSE]
  /\ op \in [Turns -> Ops]
  /\ target \in [Turns -> Sessions]
  /\ req = [t \in Turns |-> "idle"]
  /\ job = [t \in Turns |-> "none"]
  /\ asked = [t \in Turns |-> None]
  /\ unguarded = {}
  /\ deaths = 0

-----------------------------------------------------------------------------
(* The POST handlers.  chat_lock reads the generation key (a held key is   *)
(* answered 409 and leaves no trace), then takes the creation key.         *)

ReqCheck(t) ==
  /\ req[t] = "idle"
  /\ genKey[UserOf(t)] = None
  /\ req' = [req EXCEPT ![t] = "checked"]
  /\ UNCHANGED <<rows, keys, plan, job, asked, unguarded, deaths>>

\* Mutant: the SET of the creation key without NX.
MutantReqLockNoNX(t) ==
  /\ req[t] = "checked"
  /\ creKey' = [creKey EXCEPT ![UserOf(t)] = t]
  /\ req' = [req EXCEPT ![t] = "locked"]
  /\ UNCHANGED <<rows, genKey, delKey, plan, job, asked, unguarded, deaths>>

ReqLock(t) ==
  /\ req[t] = "checked"
  /\ creKey[UserOf(t)] = None
  /\ creKey' = [creKey EXCEPT ![UserOf(t)] = t]
  /\ req' = [req EXCEPT ![t] = "locked"]
  /\ UNCHANGED <<rows, genKey, delKey, plan, job, asked, unguarded, deaths>>

\* 429 "Stop spamming": raised before the try, so nothing is released.
ReqSpam(t) ==
  /\ req[t] = "checked"
  /\ creKey[UserOf(t)] # None
  /\ req' = [req EXCEPT ![t] = "closed"]
  /\ UNCHANGED <<rows, keys, plan, job, asked, unguarded, deaths>>

\* A rate limit, a session that is gone, an attachment that is not ready,
\* nothing to retry: the handler answers 4xx and the finally clause runs.
ReqRefuse(t) ==
  /\ req[t] = "locked"
  /\ req' = [req EXCEPT ![t] = "unlocking"]
  /\ UNCHANGED <<rows, keys, plan, job, asked, unguarded, deaths>>

CreateSession(t) ==
  LET s == target[t] IN
  /\ op[t] = "create" /\ req[t] = "locked"
  /\ session[s] = "absent"
  /\ session' = [session EXCEPT ![s] = "live"]
  /\ msgs' = [msgs EXCEPT ![s] = <<[role |-> "system", turn |-> None]>>]
  /\ req' = [req EXCEPT ![t] = "unlocking"]
  /\ UNCHANGED <<result, keys, plan, job, asked, unguarded, deaths>>

\* The first commit of send_message: the user's message.
SendSave(t) ==
  LET s == target[t] IN
  /\ op[t] = "send" /\ req[t] = "locked"
  /\ HasRows(s)
  /\ msgs' = [msgs EXCEPT ![s] = Append(@, [role |-> "user", turn |-> t])]
  /\ req' = [req EXCEPT ![t] = "saved"]
  /\ UNCHANGED <<session, result, keys, plan, job, asked, unguarded, deaths>>

\* The refresh of the message and the second commit (it touches attachments
\* only).  The refresh raises when the session was deleted in between.
SendLink(t) ==
  /\ req[t] = "saved"
  /\ req' = [req EXCEPT ![t] = IF HasRows(target[t]) THEN "linked" ELSE "unlocking"]
  /\ UNCHANGED <<rows, keys, plan, job, asked, unguarded, deaths>>

\* Mutant: any stored result can be retried.
MutantRetryReadAny(t) ==
  /\ op[t] = "retry" /\ req[t] = "locked"
  /\ result[target[t]] # None
  /\ req' = [req EXCEPT ![t] = "linked"]
  /\ UNCHANGED <<rows, keys, plan, job, asked, unguarded, deaths>>

\* retry_send goes on only when the stored result is an error.
RetryRead(t) ==
  LET s == target[t] IN
  /\ op[t] = "retry" /\ req[t] = "locked"
  /\ result[s] # None /\ result[s].type = "error"
  /\ req' = [req EXCEPT ![t] = "linked"]
  /\ UNCHANGED <<rows, keys, plan, job, asked, unguarded, deaths>>

\* generate_chat_message.kiq
Enqueue(t) ==
  /\ req[t] = "linked"
  /\ job' = [job EXCEPT ![t] = "queued"]
  /\ req' = [req EXCEPT ![t] = "unlocking"]
  /\ UNCHANGED <<rows, keys, plan, asked, unguarded, deaths>>

\* 500: the user's message stays saved, and no task comes.
EnqueueFails(t) ==
  /\ BrokerFails
  /\ req[t] = "linked"
  /\ req' = [req EXCEPT ![t] = "unlocking"]
  /\ UNCHANGED <<rows, keys, plan, job, asked, unguarded, deaths>>

\* The finally clause deletes the creation key, whoever set it.
ReqUnlock(t) ==
  /\ req[t] = "unlocking"
  /\ creKey' = [creKey EXCEPT ![UserOf(t)] = None]
  /\ req' = [req EXCEPT ![t] = "closed"]
  /\ UNCHANGED <<rows, genKey, delKey, plan, job, asked, unguarded, deaths>>

(* delete_chat takes no lock: first the tombstone, then the rows. *)

SetTombstone(s) ==
  /\ HasRows(s)
  /\ session' = [session EXCEPT ![s] = "doomed"]
  /\ delKey' = [delKey EXCEPT ![s] = TRUE]
  /\ UNCHANGED <<msgs, result, genKey, creKey, plan, req, job, asked, unguarded, deaths>>

DeleteRows(s) ==
  /\ session[s] = "doomed"
  /\ session' = [session EXCEPT ![s] = "deleted"]
  /\ msgs' = [msgs EXCEPT ![s] = <<>>]
  /\ result' = [result EXCEPT ![s] = None]
  /\ UNCHANGED <<keys, plan, req, job, asked, unguarded, deaths>>

-----------------------------------------------------------------------------
(* generate_chat_message *)

JobStep(t, from, to) ==
  /\ job[t] = from
  /\ job' = [job EXCEPT ![t] = to]

\* The old result goes before the lock is even looked at.
JobClear(t) ==
  /\ JobStep(t, "queued", "cleared")
  /\ result' = [result EXCEPT ![target[t]] = None]
  /\ UNCHANGED <<session, msgs, keys, plan, req, asked, unguarded, deaths>>

\* No user for the session: the error row violates the foreign key, and that
\* exception leaves the task.
JobLookup(t) ==
  /\ JobStep(t, "cleared", IF HasRows(target[t]) THEN "found" ELSE "failed")
  /\ UNCHANGED <<rows, keys, plan, req, asked, unguarded, deaths>>

\* Mutant: the SET of the generation key without NX.
MutantJobAcquireNoNX(t) ==
  /\ JobStep(t, "found", "locked")
  /\ genKey' = [genKey EXCEPT ![UserOf(t)] = t]
  /\ unguarded' = unguarded \ {t}
  /\ UNCHANGED <<rows, creKey, delKey, plan, req, asked, deaths>>

\* Mutant: a task that did not get the key deletes it on its way out.
MutantJobAcquireFinally(t) ==
  LET u == UserOf(t) IN
  /\ JobStep(t, "found", IF genKey[u] = None THEN "locked" ELSE "dropped")
  /\ genKey' = [genKey EXCEPT ![u] = IF @ = None THEN t ELSE None]
  /\ unguarded' = IF genKey[u] = None THEN unguarded \ {t}
                  ELSE unguarded \cup {k \in Turns \ {t} : genKey[u] = k /\ Working(k)}
  /\ UNCHANGED <<rows, creKey, delKey, plan, req, asked, deaths>>

JobAcquire(t) ==
  LET u == UserOf(t) IN
  /\ JobStep(t, "found", IF genKey[u] = None THEN "locked" ELSE "dropped")
  /\ genKey' = [genKey EXCEPT ![u] = IF @ = None THEN t ELSE @]
  /\ unguarded' = IF genKey[u] = None THEN unguarded \ {t} ELSE unguarded
  /\ UNCHANGED <<rows, creKey, delKey, plan, req, asked, deaths>>

JobHistory(t) ==
  LET h == HistoryUpToLastUserMessage(msgs[target[t]]) IN
  /\ JobStep(t, "locked", IF h = <<>> THEN "err" ELSE "calling")
  /\ asked' = [asked EXCEPT ![t] = IF h = <<>> THEN @ ELSE h[Len(h)].turn]
  /\ UNCHANGED <<rows, keys, plan, req, unguarded, deaths>>

ProviderAnswers(t) ==
  /\ JobStep(t, "calling", "answered")
  /\ UNCHANGED <<rows, keys, plan, req, asked, unguarded, deaths>>

\* An exception, no response, or a response without content.
ProviderFails(t) ==
  /\ JobStep(t, "calling", "err")
  /\ UNCHANGED <<rows, keys, plan, req, asked, unguarded, deaths>>

\* DEL of the deletion key tells whether it was there; if so the task returns
\* at once, and the generation key stays.
CheckTombstone(t) ==
  LET s == target[t] IN
  /\ JobStep(t, "answered", IF delKey[s] THEN "cancelled" ELSE "publishing")
  /\ delKey' = [delKey EXCEPT ![s] = FALSE]
  /\ UNCHANGED <<rows, genKey, creKey, plan, req, asked, unguarded, deaths>>

Publish(t) ==
  /\ JobStep(t, "publishing", "prQueued")
  /\ UNCHANGED <<rows, keys, plan, req, asked, unguarded, deaths>>

\* Mutant: no except clause around the publish, the task just stops there.
MutantPublishFails(t) ==
  /\ BrokerFails
  /\ JobStep(t, "publishing", "raised")
  /\ UNCHANGED <<rows, keys, plan, req, asked, unguarded, deaths>>

PublishFails(t) ==
  /\ BrokerFails
  /\ JobStep(t, "publishing", "outer")
  /\ UNCHANGED <<rows, keys, plan, req, asked, unguarded, deaths>>

\* _add_error_result: the row, and then the key.  When the row cannot be
\* inserted the task goes to onFail and the key is not touched.
AddErrorResult(t, from, onOk, onFail) ==
  LET s == target[t] IN
  /\ JobStep(t, from, IF CanInsertResult(s) THEN onOk ELSE onFail)
  /\ result' = [result EXCEPT ![s] =
                  IF CanInsertResult(s) THEN [type |-> "error", turn |-> t] ELSE @]
  /\ UNCHANGED <<session, msgs, keys, plan, req, asked, unguarded, deaths>>

\* DEL of the generation key, whoever set it.  A working turn whose key this
\* deletes goes on without one.
ReleaseKey(t, from, to) ==
  LET u == UserOf(t) IN
  /\ JobStep(t, from, to)
  /\ genKey' = [genKey EXCEPT ![u] = None]
  /\ unguarded' = unguarded \cup {k \in Turns \ {t} : genKey[u] = k /\ Working(k)}
  /\ UNCHANGED <<rows, creKey, delKey, plan, req, asked, deaths>>

\* Mutant: an inner error path that forgets the release.
MutantErrReleaseKeepsKey(t) ==
  /\ JobStep(t, "errRelease", "done")
  /\ UNCHANGED <<rows, keys, plan, req, asked, unguarded, deaths>>

ErrCommit(t) == AddErrorResult(t, "err", "errRelease", "outer")
ErrRelease(t) == ReleaseKey(t, "errRelease", "done")
OuterCommit(t) == AddErrorResult(t, "outer", "outerRelease", "failed")
OuterRelease(t) == ReleaseKey(t, "outerRelease", "outerRelease2")
OuterReleaseAgain(t) == ReleaseKey(t, "outerRelease2", "done")

-----------------------------------------------------------------------------
(* process_response *)

\* Mutant: the result is committed and the message is not.
MutantPrCommitResultOnly(t) ==
  LET s == target[t] IN
  /\ JobStep(t, "prQueued", IF CanInsertResult(s) THEN "prRelease" ELSE "prErr")
  /\ result' = [result EXCEPT ![s] =
                  IF CanInsertResult(s) THEN [type |-> "success", turn |-> t] ELSE @]
  /\ UNCHANGED <<session, msgs, keys, plan, req, asked, unguarded, deaths>>

\* Mutant: the message is committed before the result, in a transaction of its own.
MutantPrCommitMessageFirst(t) ==
  LET s == target[t] IN
  /\ JobStep(t, "prQueued", IF CanInsertResult(s) THEN "prRelease" ELSE "prErr")
  /\ result' = [result EXCEPT ![s] =
                  IF CanInsertResult(s) THEN [type |-> "success", turn |-> t] ELSE @]
  /\ msgs' = [msgs EXCEPT ![s] =
                IF HasRows(s) THEN Append(@, [role |-> "assistant", turn |-> t]) ELSE @]
  /\ UNCHANGED <<session, keys, plan, req, asked, unguarded, deaths>>

\* Result row and assistant message in one transaction.
PrCommit(t) ==
  LET s == target[t] IN
  /\ JobStep(t, "prQueued", IF CanInsertResult(s) THEN "prRelease" ELSE "prErr")
  /\ result' = [result EXCEPT ![s] =
                  IF CanInsertResult(s) THEN [type |-> "success", turn |-> t] ELSE @]
  /\ msgs' = [msgs EXCEPT ![s] =
                IF CanInsertResult(s)
                THEN Append(@, [role |-> "assistant", turn |-> t]) ELSE @]
  /\ UNCHANGED <<session, keys, plan, req, asked, unguarded, deaths>>

\* The text is not the JSON asked for, or building the offer fails.
PrReject(t) ==
  /\ JobStep(t, "prQueued", "prErr")
  /\ UNCHANGED <<rows, keys, plan, req, asked, unguarded, deaths>>

PrErrCommit(t) == AddErrorResult(t, "prErr", "prErrRelease", "prRelease")
PrErrRelease(t) == ReleaseKey(t, "prErrRelease", "prRelease2")
PrReleaseAgain(t) == ReleaseKey(t, "prRelease2", "done")
PrRelease(t) == ReleaseKey(t, "prRelease", "done")

-----------------------------------------------------------------------------
(* cleanup_old_results, hourly: the age of a row is not modelled. *)

CleanupOldResults ==
  \E old \in (SUBSET {s \in Sessions : result[s] # None}) \ {{}} :
    /\ result' = [s \in Sessions |-> IF s \in old THEN None ELSE result[s]]
    /\ UNCHANGED <<session, msgs, keys, plan, req, job, asked, unguarded, deaths>>

(* Time to live of the keys: 300, 5 and 300 seconds. *)

\* Mutant: the SET of the generation key without EX.
MutantGenKeyNeverExpires(u) ==
  /\ FALSE
  /\ genKey[u] # None
  /\ UNCHANGED vars

GenKeyExpires(u) ==
  /\ genKey[u] # None
  /\ GenKeyLapses \/ ~Working(genKey[u])
  /\ genKey' = [genKey EXCEPT ![u] = None]
  /\ unguarded' = unguarded \cup {k \in Turns : genKey[u] = k /\ Working(k)}
  /\ UNCHANGED <<rows, creKey, delKey, plan, req, job, asked, deaths>>

CreKeyExpires(u) ==
  /\ creKey[u] # None
  /\ CreKeyLapses \/ req[creKey[u]] = "closed"
  /\ creKey' = [creKey EXCEPT ![u] = None]
  /\ UNCHANGED <<rows, genKey, delKey, plan, req, job, asked, unguarded, deaths>>

DelKeyExpires(s) ==
  /\ delKey[s]
  /\ delKey' = [delKey EXCEPT ![s] = FALSE]
  /\ UNCHANGED <<rows, genKey, creKey, plan, req, job, asked, unguarded, deaths>>

-----------------------------------------------------------------------------
(* External: a killed API process forgets its handler; RabbitMQ redelivers *)
(* the unacknowledged task of a killed worker, which starts from its top.  *)

ApiDies(t) ==
  /\ deaths < MaxDeaths
  /\ deaths' = deaths + 1
  /\ req[t] \in InHandler
  /\ req' = [req EXCEPT ![t] = "closed"]
  /\ UNCHANGED <<rows, keys, plan, job, asked, unguarded>>

GenerateDies(t) ==
  /\ deaths < MaxDeaths
  /\ deaths' = deaths + 1
  /\ job[t] \in {"cleared", "found", "outerRelease2"} \cup GenerateWorking
  /\ job' = [job EXCEPT ![t] = "queued"]
  /\ UNCHANGED <<rows, keys, plan, req, asked, unguarded>>

RespondDies(t) ==
  /\ deaths < MaxDeaths
  /\ deaths' = deaths + 1
  /\ job[t] \in {"prErr", "prErrRelease", "prRelease", "prRelease2"}
  /\ job' = [job EXCEPT ![t] = "prQueued"]
  /\ unguarded' = unguarded \cup {k \in {t} : genKey[UserOf(t)] # t}
  /\ UNCHANGED <<rows, keys, plan, req, asked>>

-----------------------------------------------------------------------------
Handler(t) ==
  \/ ReqCheck(t) \/ ReqLock(t) \/ ReqSpam(t) \/ ReqRefuse(t)
  \/ CreateSession(t) \/ SendSave(t) \/ SendLink(t) \/ RetryRead(t)
  \/ Enqueue(t) \/ EnqueueFails(t) \/ ReqUnlock(t)

Generate(t) ==
  \/ JobClear(t) \/ JobLookup(t) \/ JobAcquire(t) \/ JobHistory(t)
  \/ ProviderAnswers(t) \/ ProviderFails(t) \/ CheckTombstone(t)
  \/ Publish(t) \/ PublishFails(t)
  \/ ErrCommit(t) \/ ErrRelease(t)
  \/ OuterCommit(t) \/ OuterRelease(t) \/ OuterReleaseAgain(t)

Respond(t) ==
  \/ PrCommit(t) \/ PrReject(t)
  \/ PrErrCommit(t) \/ PrErrRelease(t) \/ PrReleaseAgain(t) \/ PrRelease(t)

Dies(t) == ApiDies(t) \/ GenerateDies(t) \/ RespondDies(t)

DeleteChat(s) == SetTombstone(s) \/ DeleteRows(s)

Next ==
  \/ \E t \in Turns : Handler(t) \/ Generate(t) \/ Respond(t) \/ Dies(t)
  \/ \E s \in Sessions : DeleteChat(s) \/ DelKeyExpires(s)
  \/ \E u \in Users : GenKeyExpires(u) \/ CreKeyExpires(u)
  \/ CleanupOldResults

Spec == Init /\ [][Next]_vars

\* Handlers and tasks that were started go on, and Redis runs its clock.
\* Nothing obliges a client to POST, to delete, or a cleanup to come.
Fairness ==
  /\ \A t \in Turns :
       /\ WF_vars(req[t] \in InHandler /\ Handler(t))
       /\ WF_vars(Generate(t) \/ Respond(t))
  /\ \A u \in Users : WF_vars(GenKeyExpires(u)) /\ WF_vars(CreKeyExpires(u))

LiveSpec == Spec /\ Fairness

-----------------------------------------------------------------------------
(* Properties *)

\* Every variable stays in its type.
TypeOK ==
  /\ session \in [Sessions -> {"absent", "live", "doomed", "deleted"}]
  /\ msgs \in [Sessions -> Seq(Message)]
  /\ result \in [Sessions -> ResultRow \cup {None}]
  /\ genKey \in [Users -> Turns \cup {None}]
  /\ creKey \in [Users -> Turns \cup {None}]
  /\ delKey \in [Sessions -> BOOLEAN]
  /\ op \in [Turns -> Ops]
  /\ target \in [Turns -> Sessions]
  /\ req \in [Turns -> ReqSteps]
  /\ job \in [Turns -> JobSteps]
  /\ asked \in [Turns -> Turns \cup {None}]
  /\ unguarded \subseteq Turns
  /\ deaths \in 0..MaxDeaths

\* Two tasks of one user are at work together only when one of them lost the
\* generation key to somebody else (chat_lock and the SET NX in
\* generate_chat_message promise one generation per user).
OneGenerationWhileGuarded ==
  \A t, k \in Turns :
    (t # k /\ UserOf(t) = UserOf(k) /\ Working(t) /\ Working(k))
      => (t \in unguarded \/ k \in unguarded)

\* A working task loses its key to another task only in three ways: the other
\* one releases for the second time, or it releases a key it had lost itself,
\* or (where TTLs may lapse, or a killed worker is redelivered) the TTL ran
\* out or the task restarted.  The release in process_response's success path
\* and the first release of an error path never hit a stranger's key.
GuardLostOnlyToStrayRelease ==
  [][\A t \in unguarded' \ unguarded :
       \/ \E k \in Turns \ {t} :
            /\ job[k] \in SecondRelease \/ k \in unguarded
            /\ job'[k] # job[k]
       \/ GenKeyLapses /\ job' = job
       \/ job[t] \in RespondWorking \cup SecondRelease /\ job'[t] = "prQueued"
    ]_vars

\* The inductive reason: whoever works holds the key or is known to have lost it.
WorkingHoldsKey ==
  \A t \in Turns : Working(t) => (genKey[UserOf(t)] = t \/ t \in unguarded)

\* Two handlers of one user are never between chat_lock's SET and its release
\* together, as long as the 5 s TTL of the creation key outlives a handler.
OneHandlerPerUser ==
  CreKeyLapses \/
  \A t, k \in Turns :
    (t # k /\ UserOf(t) = UserOf(k)) => ~(req[t] \in InHandler /\ req[k] \in InHandler)

\* The inductive reason: the creation key is the one its handler has set.
HandlerHoldsKey ==
  CreKeyLapses \/ \A t \in Turns : req[t] \in InHandler => creKey[UserOf(t)] = t

\* A success result is backed by the stored conversation: the answer of its
\* turn is there, after the user message that was sent to the provider.
SuccessIsBackedByTheChat ==
  \A s \in Sessions :
    (result[s] # None /\ result[s].type = "success") =>
      LET t == result[s].turn IN
      \E i, k \in DOMAIN msgs[s] :
        /\ i < k
        /\ msgs[s][i] = [role |-> "user", turn |-> asked[t]]
        /\ msgs[s][k] = [role |-> "assistant", turn |-> t]

\* The inductive reasons.  A handler enqueues at most once, and only for a
\* session that existed; the question a task works on stays in the chat; a
\* success row is of a task that process_response has taken up.
Answering == {"calling", "answered", "publishing", "prRelease2"} \cup RespondWorking
Responding == {"done", "prRelease2"} \cup RespondWorking

EnqueuedOnce ==
  \A t \in Turns :
    req[t] \in {"idle", "checked", "locked", "saved", "linked"} => job[t] = "none"

SessionExisted ==
  \A t \in Turns :
    job[t] \notin {"none", "queued", "cleared", "failed"} => session[target[t]] # "absent"

QuestionInChat(t, s) ==
  \E i \in DOMAIN msgs[s] : msgs[s][i] = [role |-> "user", turn |-> asked[t]]

QuestionKept ==
  \A t \in Turns :
    (job[t] \in Answering /\ HasRows(target[t])) => QuestionInChat(t, target[t])

SuccessFromResponder ==
  \A s \in Sessions :
    (result[s] # None /\ result[s].type = "success") => job[result[s].turn] \in Responding

BackingInv == EnqueuedOnce /\ SessionExisted /\ QuestionKept /\ SuccessFromResponder

\* What a task sends ends with the newest thing the user had said when it read
\* the history, even on a retry whose table ends with an old answer.
AsksTheNewestQuestion ==
  [][\A t \in Turns : (job[t] = "locked" /\ job'[t] = "calling") =>
       \E i \in DOMAIN msgs[target[t]] :
         /\ msgs[target[t]][i] = [role |-> "user", turn |-> asked'[t]]
         /\ \A k \in DOMAIN msgs[target[t]] :
              k > i => msgs[target[t]][k].role = "assistant"
    ]_vars

\* The inductive reason: the system prompt is only ever the first message.
SystemPromptFirst ==
  \A s \in Sessions : \A k \in DOMAIN msgs[s] : msgs[s][k].role = "system" => k = 1

\* Rows of a deleted session never come back, whatever a late task does: the
\* tombstone is best effort, the foreign keys decide.
NothingOutlivesItsSession ==
  \A s \in Sessions : ~HasRows(s) => (msgs[s] = <<>> /\ result[s] = None)

\* Without crashes, a turn that is reported as failed has not also put an
\* answer into the chat, and no turn answers twice.
FailedTurnsStaySilent ==
  deaths = 0 => \A s \in Sessions :
    LET answersOf(t) == {i \in DOMAIN msgs[s] : msgs[s][i] = [role |-> "assistant", turn |-> t]}
    IN  /\ \A t \in Turns : Cardinality(answersOf(t)) <= 1
        /\ (result[s] # None /\ result[s].type = "error") => answersOf(result[s].turn) = {}

\* Without crashes, the only tasks that end and leave the generation key
\* behind are the cancelled ones and those whose error row was refused: every
\* other end of the two tasks has released it.
OnlyCancelledOrFailedLeakTheKey ==
  deaths = 0 => \A u \in Users :
    (genKey[u] # None /\ Ended(genKey[u])) => job[genKey[u]] \in {"cancelled", "failed"}

\* A user is never locked out for good: a held generation key goes away, also
\* the one a cancelled generation leaves (api.py:187-189).
LockoutEnds == \A u \in Users : (genKey[u] # None) ~> (genKey[u] = None)

\* What a turn looks like from outside: a task that has not yet brought
\* its result is pending, with any step it may still take before its first
\* DELETE of the key settled.
PendingSteps == {"queued", "cleared", "found", "locked", "calling", "answered",
                 "publishing", "err", "outer", "prQueued", "prErr"}
Phase(j, r) ==
  IF j \in PendingSteps THEN "pending"
  ELSE IF j # "none" THEN "settled"
  ELSE IF r \in {"idle", "checked", "locked"} THEN "idle"
  ELSE IF r \in {"saved", "linked"} THEN "asked" ELSE "over"
PhaseOf(t) == Phase(job[t], req[t])

\* Through locks, keys that lapse, refused rows and late deletes the users see
\* a conversation: an answer appears with its result, at most once for each
\* time the turn is worked on, only where a question stands and no result
\* does; and every accepted turn is settled.
Chat == INSTANCE Conversation
          WITH state <- [s \in Sessions |-> IF session[s] = "doomed" THEN "live" ELSE session[s]],
               chat <- msgs,
               verdict <- result,
               about <- target,
               phase <- [t \in Turns |-> PhaseOf(t)],
               Again <- MaxDeaths > 0
RefinesConversation == Chat!Spec

-----------------------------------------------------------------------------
(* What the repository says, and the code does not do *)

\* "one generation per user, 409" (.context/DECISIONS.md:225), with TTLs that
\* outlive the tasks.
OneGenerationPerUser ==
  \A t, k \in Turns :
    (t # k /\ UserOf(t) = UserOf(k)) => ~(Working(t) /\ Working(k))

(* get_result *)
PollAnswer(s) ==
  IF genKey[Owner[s]] # None
  THEN [running |-> TRUE, result |-> None]
  ELSE [running |-> FALSE, result |-> result[s]]

\* A poll after the 202 says running, or no result, or the result of the turn
\* that was accepted last; "while running is true, result refers to a
\* previous turn", so with running false it must not (routes/chat.py:440-441).
PollNeverAnswersWithAnEarlierTurn ==
  \A t \in Turns :
    (job[t] = "queued" /\ req[t] = "closed") =>
      LET p == PollAnswer(target[t])
      IN  p.running \/ p.result = None \/ p.result.turn = t

\* "Returns 202 immediately; poll for the assistant's reply" (routes/chat.py:
\* 310-311): once the task of a send has dropped the result of the turn before,
\* a new one comes, unless somebody has begun to delete the session.
AcceptedSendGetsAResult ==
  \A t \in Turns :
    (op[t] = "send" /\ job[t] = "cleared")
      ~> (result[target[t]] # None \/ session[target[t]] # "live")

=============================================================================
