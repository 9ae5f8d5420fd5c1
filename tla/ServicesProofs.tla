----------------------------- MODULE ServicesProofs -----------------------------
(***************************************************************************)
(* Theorems about the services that a request passes or calls on its way:     *)
(* avatars, the rate limiter and the lock around the language model.  The     *)
(* three share no state, and each part stands on its own.                   *)
(***************************************************************************)
EXTENDS Avatar, RateLimiter, ProviderClient, TLAPS

(***************************************************************************)
(* Avatars, for any number of readers, requests for an upload,             *)
(* confirmations and pictures.                                             *)
(***************************************************************************)

Stages == {"none", "marked", "queued", "taken", "read", "stored", "deleted"}

\* A marker that is there has not been paid out yet.
MarkersCounted ==
  /\ marker \in Nat /\ asks \in Nat /\ taken \in Nat
  /\ taken <= asks /\ (marker # 0 => taken < asks)

\* c is between storing the picture and dropping the cached link.
Late(c) == task[c] \in {"stored", "deleted"}

AvatarInv ==
  /\ task \in [Confirms -> Stages]
  /\ MarkersCounted /\ NoneIsExplained

-----------------------------------------------------------------------------
(* Markers.                                                                *)

LEMMA MarkerStep ==
  ASSUME MarkersCounted, [AvatarNext]_avatarVars
  PROVE  MarkersCounted'
<1> USE DEF MarkersCounted
<1>1. ASSUME NEW r \in Readers, MissLink(r) \/ HeadPicture(r) \/ CacheLink(r)
      PROVE  MarkersCounted'
  <2>1. UNCHANGED <<marker, asks, taken>>
    BY <1>1 DEF MissLink, HeadPicture, CacheLink
  <2> QED
    BY <2>1
<1>2. ASSUME NEW s \in Setters, ForgetMarker(s) PROVE MarkersCounted'
  BY <1>2 DEF ForgetMarker
<1>3. ASSUME NEW s \in Setters, SetMarker(s) PROVE MarkersCounted'
  <2>1. /\ marker' = IF marker = 0 THEN asks + 1 ELSE marker
        /\ asks' = asks + 1 /\ taken' = taken
    BY <1>3 DEF SetMarker
  <2> QED
    BY <2>1
<1>4. ASSUME NEW c \in Confirms, TakeMarker(c) PROVE MarkersCounted'
  <2>1. /\ taken' = IF marker # 0 THEN taken + 1 ELSE taken
        /\ marker' = 0 /\ asks' = asks
    BY <1>4 DEF TakeMarker
  <2> QED
    BY <2>1
<1>5. ASSUME NEW c \in Confirms,
             \/ FindMarker(c) \/ StartTask(c) \/ ReadPicture(c) \/ RefusePicture(c) \/ TaskEnds(c)
             \/ Redeliver(c) \/ StorePicture(c) \/ DeleteRaw(c) \/ ForgetLink(c)
      PROVE  MarkersCounted'
  <2>1. UNCHANGED <<marker, asks, taken>>
    BY <1>5 DEF FindMarker, StartTask, ReadPicture, RefusePicture, TaskEnds, Redeliver,
                StorePicture, DeleteRaw, ForgetLink
  <2> QED
    BY <2>1
<1>6. ASSUME LinkLapses \/ PostPicture PROVE MarkersCounted'
  <2>1. UNCHANGED <<marker, asks, taken>>
    BY <1>6 DEF LinkLapses, PostPicture
  <2> QED
    BY <2>1
<1>7. ASSUME RequestLapses PROVE MarkersCounted'
  <2>1. marker' \in {0, marker} /\ UNCHANGED <<asks, taken>>
    BY <1>7 DEF RequestLapses
  <2> QED
    BY <2>1
<1>8. CASE UNCHANGED avatarVars
  BY <1>8 DEF avatarVars
<1> QED
  BY <1>1, <1>2, <1>3, <1>4, <1>5, <1>6, <1>7, <1>8 DEF AvatarNext

-----------------------------------------------------------------------------
(* The cached answer.                                                      *)

LEMMA TaskStep ==
  ASSUME task \in [Confirms -> Stages], [AvatarNext]_avatarVars
  PROVE  task' \in [Confirms -> Stages]
<1> USE DEF Stages
<1>1. ASSUME NEW c \in Confirms, NEW from \in Stages, NEW to \in Stages, Goes(c, from, to)
      PROVE  task' \in [Confirms -> Stages]
  BY <1>1 DEF Goes
<1>2. ASSUME NEW c \in Confirms,
             \/ FindMarker(c) \/ StartTask(c) \/ TakeMarker(c) \/ ReadPicture(c) \/ RefusePicture(c)
             \/ TaskEnds(c) \/ StorePicture(c) \/ DeleteRaw(c) \/ ForgetLink(c)
      PROVE  task' \in [Confirms -> Stages]
  BY <1>1, <1>2 DEF FindMarker, StartTask, TakeMarker, ReadPicture, RefusePicture, TaskEnds,
                    StorePicture, DeleteRaw, ForgetLink
<1>3. ASSUME NEW c \in Confirms, Redeliver(c) PROVE task' \in [Confirms -> Stages]
  BY <1>3 DEF Redeliver
<1>4. ASSUME NEW r \in Readers, MissLink(r) \/ HeadPicture(r) \/ CacheLink(r)
      PROVE  task' = task
  BY <1>4 DEF MissLink, HeadPicture, CacheLink
<1>5. ASSUME NEW s \in Setters, ForgetMarker(s) \/ SetMarker(s) PROVE task' = task
  BY <1>5 DEF ForgetMarker, SetMarker
<1>6. ASSUME LinkLapses \/ PostPicture \/ RequestLapses PROVE task' = task
  BY <1>6 DEF LinkLapses, PostPicture, RequestLapses
<1>7. CASE UNCHANGED avatarVars
  BY <1>7 DEF avatarVars
<1> QED
  BY <1>2, <1>3, <1>4, <1>5, <1>6, <1>7 DEF AvatarNext

\* A step that leaves the picture, the link and the ghost alone keeps the
\* property if no task passes the point at which it drops the link.
LEMMA ExplainedFrame ==
  ASSUME NoneIsExplained, UNCHANGED <<avatar, link, late>>,
         \A c \in Confirms : Late(c) => Late(c)'
  PROVE  NoneIsExplained'
BY DEF NoneIsExplained, Late

LEMMA ExplainedStep ==
  ASSUME task \in [Confirms -> Stages], NoneIsExplained, [AvatarNext]_avatarVars
  PROVE  NoneIsExplained'
<1>1. ASSUME NEW r \in Readers, MissLink(r) \/ HeadPicture(r) PROVE NoneIsExplained'
  BY <1>1, ExplainedFrame DEF MissLink, HeadPicture, Late
<1>2. ASSUME NEW r \in Readers, CacheLink(r) PROVE NoneIsExplained'
  <2>1. UNCHANGED <<avatar, task>>
    BY <1>2 DEF CacheLink
  <2>2. CASE link # ""
    BY <1>2, <2>1, <2>2 DEF CacheLink, NoneIsExplained
  <2>3. CASE link = "" /\ reading[r] = "nothing"
    BY <1>2, <2>1, <2>3 DEF CacheLink, NoneIsExplained
  <2>4. CASE link = "" /\ reading[r] # "nothing"
    <3>1. link' = "url"
      BY <1>2, <2>4 DEF CacheLink
    <3> QED
      BY <3>1 DEF NoneIsExplained
  <2> QED
    BY <2>2, <2>3, <2>4
<1>3. ASSUME NEW s \in Setters, ForgetMarker(s) \/ SetMarker(s) PROVE NoneIsExplained'
  BY <1>3, ExplainedFrame DEF ForgetMarker, SetMarker, Late
<1>4. ASSUME NEW c \in Confirms,
             \/ FindMarker(c) \/ StartTask(c) \/ TakeMarker(c) \/ ReadPicture(c) \/ RefusePicture(c)
             \/ Redeliver(c) \/ DeleteRaw(c)
      PROVE  NoneIsExplained'
  <2>1. UNCHANGED <<avatar, link, late>>
    BY <1>4 DEF FindMarker, StartTask, TakeMarker, ReadPicture, RefusePicture, Redeliver, DeleteRaw
  <2>2. ASSUME NEW d \in Confirms, Late(d) PROVE Late(d)'
    BY <1>4, <2>2 DEF FindMarker, StartTask, TakeMarker, ReadPicture, RefusePicture, Redeliver,
                      DeleteRaw, Goes, Late
  <2> QED
    BY <2>1, <2>2, ExplainedFrame
<1>5. ASSUME NEW c \in Confirms, StorePicture(c) PROVE NoneIsExplained'
  <2>1. task'[c] = "stored"
    BY <1>5 DEF StorePicture, Goes
  <2> QED
    BY <2>1 DEF NoneIsExplained
<1>6. ASSUME NEW c \in Confirms, TaskEnds(c) PROVE NoneIsExplained'
  <2>1. UNCHANGED <<avatar, link>> /\ (late => late')
    BY <1>6 DEF TaskEnds
  <2>2. CASE Late(c)
    <3>1. link = "0" => late'
      BY <1>6, <2>2 DEF TaskEnds, Late
    <3> QED
      BY <2>1, <3>1 DEF NoneIsExplained
  <2>3. CASE ~Late(c)
    <3>1. \A d \in Confirms : Late(d) => Late(d)'
      BY <1>6, <2>3 DEF TaskEnds, Goes, Late
    <3> QED
      BY <2>1, <3>1 DEF NoneIsExplained, Late
  <2> QED
    BY <2>2, <2>3
<1>7. ASSUME NEW c \in Confirms, ForgetLink(c) PROVE NoneIsExplained'
  BY <1>7 DEF ForgetLink, NoneIsExplained
<1>8. ASSUME LinkLapses PROVE NoneIsExplained'
  BY <1>8 DEF LinkLapses, NoneIsExplained
<1>9. ASSUME PostPicture \/ RequestLapses PROVE NoneIsExplained'
  BY <1>9, ExplainedFrame DEF PostPicture, RequestLapses, Late
<1>10. CASE UNCHANGED avatarVars
  BY <1>10, ExplainedFrame DEF avatarVars, Late
<1> QED
  BY <1>1, <1>2, <1>3, <1>4, <1>5, <1>6, <1>7, <1>8, <1>9, <1>10 DEF AvatarNext

-----------------------------------------------------------------------------
\* The invariant of avatars (users.py:101-207, files.py:107-150).
THEOREM AvatarInvariant == AvatarSpec => []AvatarInv
<1>1. AvatarInit => AvatarInv
  <2> SUFFICES ASSUME AvatarInit PROVE AvatarInv
    OBVIOUS
  <2>1. task \in [Confirms -> Stages] /\ NoneIsExplained
    BY DEF AvatarInit, Stages, NoneIsExplained
  <2>2. marker = 0 /\ asks = 0 /\ taken = 0
    BY DEF AvatarInit
  <2>3. MarkersCounted
    BY <2>2 DEF MarkersCounted
  <2> QED
    BY <2>1, <2>3 DEF AvatarInv
<1>2. AvatarInv /\ [AvatarNext]_avatarVars => AvatarInv'
  BY MarkerStep, TaskStep, ExplainedStep DEF AvatarInv
<1> QED
  BY <1>1, <1>2, PTL DEF AvatarSpec

\* A request for an upload is processed once at most, whatever is confirmed
\* and delivered again.
THEOREM ProcessedOncePerRequest == AvatarSpec => []OncePerRequest
<1>1. AvatarInv => OncePerRequest
  BY DEF AvatarInv, MarkersCounted, OncePerRequest
<1> QED
  BY <1>1, AvatarInvariant, PTL

\* Whoever has an avatar and is told that there is none can say why.
THEOREM CachedNoneIsExplained == AvatarSpec => []NoneIsExplained
<1>1. AvatarInv => NoneIsExplained
  BY DEF AvatarInv
<1> QED
  BY <1>1, AvatarInvariant, PTL

-----------------------------------------------------------------------------
(***************************************************************************)
(* The rate limiter, for any quota and any number of concurrent requests.  *)
(***************************************************************************)

\* The requests that were let through are among those that were counted, and
\* the window of a counter is open unless its creator is still to open it.
LimiterInv ==
  /\ hits \in Nat /\ served \in Nat /\ cuts \in Nat /\ expires \in BOOLEAN
  /\ calling \in [Callers -> {"idle", "first", "over"}]
  /\ served <= hits /\ QuotaKept
  /\ WindowsEnd

-----------------------------------------------------------------------------
LEMMA LimiterInitInv == ASSUME LimiterInit PROVE LimiterInv
<1>1. expires \in BOOLEAN /\ calling \in [Callers -> {"idle", "first", "over"}]
  BY DEF LimiterInit
<1>2. /\ hits \in Nat /\ served \in Nat /\ cuts \in Nat /\ served <= hits
      /\ QuotaKept /\ WindowsEnd
  BY QuotaAssumption DEF LimiterInit, QuotaKept, WindowsEnd
<1> QED
  BY <1>1, <1>2 DEF LimiterInv

LEMMA CountKeepsInv ==
  ASSUME LimiterInv, NEW q \in Callers, Count(q)
  PROVE  LimiterInv'
<1> USE QuotaAssumption DEF LimiterInv
<1>1. hits' = hits + 1 /\ calling[q] = "idle" /\ UNCHANGED <<expires, cuts>>
  BY DEF Count
<1>2. served' = IF hits + 1 <= Quota THEN served + 1 ELSE served
  BY <1>1 DEF Count
<1>3. /\ calling' \in [Callers -> {"idle", "first", "over"}]
      /\ calling'[q] = "first" <=> hits' = 1
      /\ \A r \in Callers : r # q => calling'[r] = calling[r]
  BY <1>1 DEF Count
<1>4. served' \in Nat /\ served' <= hits' /\ QuotaKept'
  BY <1>1, <1>2 DEF QuotaKept
<1>5. WindowsEnd'
  <2> SUFFICES ASSUME ~expires', ~(cuts' > 0)
               PROVE  \E r \in Callers : calling'[r] = "first"
    BY DEF WindowsEnd
  <2>1. CASE hits = 0
    BY <1>1, <1>3, <2>1
  <2>2. CASE hits # 0
    <3>1. PICK r \in Callers : calling[r] = "first"
      BY <1>1, <2>2 DEF WindowsEnd
    <3> QED
      BY <1>1, <1>3, <3>1
  <2> QED
    BY <2>1, <2>2
<1> QED
  BY <1>1, <1>3, <1>4, <1>5

LEMMA LimiterStepKeepsInv ==
  ASSUME LimiterInv, [LimiterNext]_limiterVars
  PROVE  LimiterInv'
<1> USE QuotaAssumption DEF LimiterInv
<1>1. ASSUME NEW q \in Callers, Count(q) PROVE LimiterInv'
  BY <1>1, CountKeepsInv
<1>2. ASSUME NEW q \in Callers, StartWindow(q) PROVE LimiterInv'
  BY <1>2 DEF StartWindow, QuotaKept, WindowsEnd
<1>3. ASSUME NEW q \in Callers, Refuse(q) PROVE LimiterInv'
  <2>1. \A r \in Callers : calling[r] = "first" => calling'[r] = "first"
    BY <1>3 DEF Refuse
  <2> QED
    BY <1>3, <2>1 DEF Refuse, QuotaKept, WindowsEnd
<1>4. ASSUME NEW q \in Callers, CutOff(q) PROVE LimiterInv'
  BY <1>4 DEF CutOff, QuotaKept, WindowsEnd
<1>5. ASSUME WindowLapses PROVE LimiterInv'
  <2>1. expires' \in BOOLEAN /\ UNCHANGED <<calling, cuts>>
    BY <1>5 DEF WindowLapses
  <2>2. hits' = 0 /\ served' = 0
    BY <1>5 DEF WindowLapses
  <2>3. QuotaKept' /\ WindowsEnd'
    BY <2>2 DEF QuotaKept, WindowsEnd
  <2> QED
    BY <2>1, <2>2, <2>3
<1>6. CASE UNCHANGED limiterVars
  BY <1>6 DEF limiterVars, QuotaKept, WindowsEnd
<1> QED
  BY <1>1, <1>2, <1>3, <1>4, <1>5, <1>6 DEF LimiterNext

\* The invariant of the limiter (deps.py:133-147).
THEOREM LimiterInvariant == LimiterSpec => []LimiterInv
<1>1. LimiterInit => LimiterInv
  BY LimiterInitInv
<1>2. LimiterInv /\ [LimiterNext]_limiterVars => LimiterInv'
  BY LimiterStepKeepsInv
<1> QED
  BY <1>1, <1>2, PTL DEF LimiterSpec

\* A counter that does not lapse is about to get its expiry, unless a request
\* was cut off between the two commands.
THEOREM LockedOutForAWindow == LimiterSpec => []WindowsEnd
<1>1. LimiterInv => WindowsEnd
  BY DEF LimiterInv
<1> QED
  BY <1>1, LimiterInvariant, PTL

\* In the life of a counter no more requests go through than the quota says.
THEOREM NoMoreThanTheQuota == LimiterSpec => []QuotaKept
<1>1. LimiterInv => QuotaKept
  BY DEF LimiterInv
<1> QED
  BY <1>1, LimiterInvariant, PTL

-----------------------------------------------------------------------------
(***************************************************************************)
(* The lock around the language model, for any number of requests and      *)
(* worker processes, of a personal account or another one.                 *)
(***************************************************************************)

States == {"idle", "inside", "sent", "leaving", "ended", "dead"}
Results == {"none", "answer", "bad_status", "unauthorized", "timeout", "AuthorizationError",
            "LockError", "LockNotOwnedError"}

ProviderTypeOK ==
  /\ lock \in Requests \cup {NoRequest}
  /\ doing \in [Requests -> States] /\ outcome \in [Requests -> Results]
  /\ overrun \subseteq Requests

\* Who is inside holds the lock or has outlived its lease, and so did whoever
\* was told that the lock is not its own.
ProviderInv == ProviderTypeOK /\ OneRequestOpen /\ AnswersComeBack

-----------------------------------------------------------------------------
LEMMA ProviderInitInv == ASSUME ProviderInit PROVE ProviderInv
BY ProviderAssumption
   DEF ProviderInit, ProviderInv, ProviderTypeOK, OneRequestOpen, AnswersComeBack, Inside, States, Results

\* The request enters a lock that nobody holds: nobody is inside who has not
\* outlived its lease.
LEMMA EnteringKeepsInv ==
  ASSUME ProviderInv, NEW q \in Requests, EnterLock(q)
  PROVE  ProviderInv'
<1> USE DEF ProviderInv, EnterLock, To
<1>1. ProviderTypeOK'
  BY DEF ProviderTypeOK, States
<1>2. OneRequestOpen'
  <2> SUFFICES ASSUME Personal', NEW r \in Requests, Inside(r)', r \notin overrun'
               PROVE  lock' = r
    BY DEF OneRequestOpen
  <2>1. Personal /\ lock = NoRequest /\ lock' = q
    OBVIOUS
  <2>2. CASE r = q
    BY <2>1, <2>2
  <2>3. CASE r # q
    <3>1. Inside(r) /\ r \notin overrun
      BY <2>3 DEF Inside, ProviderTypeOK
    <3>2. lock = r
      BY <2>1, <3>1 DEF OneRequestOpen
    <3> QED
      BY <2>1, <3>2, ProviderAssumption
  <2> QED
    BY <2>2, <2>3
<1>3. AnswersComeBack'
  BY DEF AnswersComeBack
<1> QED
  BY <1>1, <1>2, <1>3

\* The request leaves: the lock goes if it is its own, and otherwise it has
\* outlived its lease.
LEMMA LeavingKeepsInv ==
  ASSUME ProviderInv, NEW q \in Requests, LeaveLock(q)
  PROVE  ProviderInv'
<1> USE DEF ProviderInv, LeaveLock, To
<1>1. ProviderTypeOK'
  BY DEF ProviderTypeOK, States, Results
<1>2. OneRequestOpen'
  <2> SUFFICES ASSUME Personal', NEW r \in Requests, Inside(r)', r \notin overrun'
               PROVE  lock' = r
    BY DEF OneRequestOpen
  <2>1. r # q
    BY DEF Inside, ProviderTypeOK, States
  <2>2. Inside(r) /\ r \notin overrun
    BY <2>1 DEF Inside, ProviderTypeOK
  <2>3. lock = r
    BY <2>2 DEF OneRequestOpen
  <2> QED
    BY <2>1, <2>3
<1>3. AnswersComeBack'
  <2>1. Personal /\ lock # q => q \in overrun
    BY DEF OneRequestOpen, Inside
  <2> QED
    BY <2>1 DEF AnswersComeBack, ProviderTypeOK
<1> QED
  BY <1>1, <1>2, <1>3

\* No other step takes the lock from a request that is inside, but for the
\* lease that runs out, and that is remembered.
LEMMA ProviderStepKeepsInv ==
  ASSUME ProviderInv, [ProviderNext]_providerVars
  PROVE  ProviderInv'
<1> USE DEF ProviderInv
<1>1. ASSUME NEW q \in Requests, EnterLock(q) PROVE ProviderInv'
  BY <1>1, EnteringKeepsInv
<1>2. ASSUME NEW q \in Requests, LeaveLock(q) PROVE ProviderInv'
  BY <1>2, LeavingKeepsInv
<1>3. ASSUME NEW q \in Requests, LockTimesOut(q) PROVE ProviderInv'
  BY <1>3 DEF LockTimesOut, To, ProviderTypeOK, OneRequestOpen, AnswersComeBack, Inside, States, Results
<1>4. ASSUME NEW q \in Requests, RenewToken(q) PROVE ProviderInv'
  <2>1. UNCHANGED <<lock, overrun>>
    BY <1>4 DEF RenewToken
  <2>2. CASE UNCHANGED <<doing, outcome>>
    BY <2>1, <2>2 DEF ProviderTypeOK, OneRequestOpen, AnswersComeBack, Inside
  <2>3. CASE doing[q] = "inside" /\ Returns(q, "AuthorizationError")
    BY <2>1, <2>3 DEF Returns, To, ProviderTypeOK, OneRequestOpen, AnswersComeBack, Inside, States, Results
  <2> QED
    BY <1>4, <2>2, <2>3 DEF RenewToken
<1>5. ASSUME NEW w \in Workers, TokenAges(w) PROVE ProviderInv'
  BY <1>5 DEF TokenAges, ProviderTypeOK, OneRequestOpen, AnswersComeBack, Inside
<1>6. ASSUME NEW q \in Requests, SendRequest(q) PROVE ProviderInv'
  BY <1>6 DEF SendRequest, To, ProviderTypeOK, OneRequestOpen, AnswersComeBack, Inside, States
<1>7. ASSUME NEW q \in Requests, GetResponse(q) PROVE ProviderInv'
  <2>1. PICK r \in {"answer", "bad_status", "unauthorized", "timeout"} : Returns(q, r)
    BY <1>7 DEF GetResponse
  <2>2. doing[q] = "sent" /\ UNCHANGED <<lock, overrun>>
    BY <1>7 DEF GetResponse
  <2> QED
    BY <2>1, <2>2 DEF Returns, To, ProviderTypeOK, OneRequestOpen, AnswersComeBack, Inside, States, Results
<1>8. ASSUME LeaseRunsOut PROVE ProviderInv'
  BY <1>8 DEF LeaseRunsOut, ProviderTypeOK, OneRequestOpen, AnswersComeBack, Inside
<1>9. ASSUME NEW q \in Requests, WorkerDies(q) PROVE ProviderInv'
  BY <1>9 DEF WorkerDies, To, ProviderTypeOK, OneRequestOpen, AnswersComeBack, Inside, States
<1>10. CASE UNCHANGED providerVars
  BY <1>10 DEF providerVars, ProviderTypeOK, OneRequestOpen, AnswersComeBack, Inside
<1> QED
  BY <1>1, <1>2, <1>3, <1>4, <1>5, <1>6, <1>7, <1>8, <1>9, <1>10 DEF ProviderNext

\* The invariant of the lock (client.py:85-92), from which the two below follow.
THEOREM ProviderInvariant == ProviderSpec => []ProviderInv
<1>1. ProviderInit => ProviderInv
  BY ProviderInitInv
<1>2. ProviderInv /\ [ProviderNext]_providerVars => ProviderInv'
  BY ProviderStepKeepsInv
<1> QED
  BY <1>1, <1>2, PTL DEF ProviderSpec

\* A personal account has one request open at a time but for those that have
\* outlived their lease.
THEOREM OneRequestAtATime == ProviderSpec => []OneRequestOpen
<1>1. ProviderInv => OneRequestOpen
  BY DEF ProviderInv
<1> QED
  BY <1>1, ProviderInvariant, PTL

\* An answer of the model is lost to the lock only after its lease.
THEOREM AnswersSurviveTheLock == ProviderSpec => []AnswersComeBack
<1>1. ProviderInv => AnswersComeBack
  BY DEF ProviderInv
<1> QED
  BY <1>1, ProviderInvariant, PTL
=============================================================================
