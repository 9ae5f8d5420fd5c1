-------------------------------- MODULE Avatar --------------------------------
(***************************************************************************)
(* The avatar of one user: the picture is posted to the object storage,     *)
(* confirmed, processed by a task and shown through a cached link.  Redis    *)
(* holds the marker of a requested upload and the cached link, the storage   *)
(* the raw object and the processed one; requests and tasks touch them one   *)
(* command at a time.                                                       *)
(***************************************************************************)
EXTENDS Integers, FiniteSets

CONSTANTS
  Readers,        \* requests GET /users/me/avatar
  Setters,        \* requests POST /users/me/set-avatar
  Confirms,       \* requests POST .../complete, each with the task it starts
  MaxPictures,    \* bound: objects that are posted
  MaxAsks         \* bound: uploads that are requested

VARIABLES
  link,      \* the cache of get_avatar_url_key: "", "0" (no avatar) or "url"
  marker,    \* get_avatar_waiting_key: the upload that is asked for, 0 without one
  mayPost,   \* a presigned POST has been handed out and has not expired
  raw,       \* the picture under avatars-unprocessed/, 0 without one
  avatar,     \* the picture under avatars/, 0 without one
  reading,   \* where a reader is
  setting,   \* where a setter is
  task,      \* where a confirmation and its task are
  data,      \* the picture that a task has read
  pictures, asks,  \* counters
  taken,     \* ghost: the tasks that have taken a marker, so far
  late       \* ghost: "0" was cached by a reader that had not seen the picture

avatarVars == <<link, marker, mayPost, raw, avatar, reading, setting, task, data,
                pictures, asks, taken, late>>

AvatarInit ==
  /\ link = "" /\ marker = 0 /\ mayPost = FALSE /\ raw = 0 /\ avatar = 0
  /\ reading = [r \in Readers |-> "idle"]
  /\ setting = [s \in Setters |-> "idle"]
  /\ task = [c \in Confirms |-> "none"] /\ data = [c \in Confirms |-> 0]
  /\ pictures = 0 /\ asks = 0 /\ taken = 0 /\ late = FALSE

-----------------------------------------------------------------------------
(* users_get_avatar: the cache, the object, the cache again.               *)

MissLink(r) ==
  /\ reading[r] = "idle" /\ link = ""
  /\ reading' = [reading EXCEPT ![r] = "missed"]
  /\ UNCHANGED <<link, marker, mayPost, raw, avatar, setting, task, data, pictures, asks, taken, late>>

\* Any failure of head_object is taken for "no avatar".
HeadPicture(r) ==
  /\ reading[r] = "missed"
  /\ \E saw \in IF avatar = 0 THEN {"nothing"} ELSE {"nothing", "picture"} :
       reading' = [reading EXCEPT ![r] = saw]
  /\ UNCHANGED <<link, marker, mayPost, raw, avatar, setting, task, data, pictures, asks, taken, late>>

\* SET NX: an answer that is cached already stays.
CacheLink(r) ==
  /\ reading[r] \in {"nothing", "picture"}
  /\ reading' = [reading EXCEPT ![r] = "idle"]
  /\ link' = CASE link # "" -> link
               [] link = "" /\ reading[r] = "nothing" -> "0"
               [] OTHER -> "url"
  /\ late' = (late \/ (link = "" /\ reading[r] = "nothing" /\ avatar # 0))
  /\ UNCHANGED <<marker, mayPost, raw, avatar, setting, task, data, pictures, asks, taken>>

LinkLapses ==
  /\ link # "" /\ link' = "" /\ late' = FALSE
  /\ UNCHANGED <<marker, mayPost, raw, avatar, reading, setting, task, data, pictures, asks, taken>>

-----------------------------------------------------------------------------
(* users_set_avatar: the marker of an earlier request goes, a POST is       *)
(* signed, the marker is set again (NX).                                    *)

ForgetMarker(s) ==
  /\ setting[s] = "idle" /\ asks < MaxAsks
  /\ marker' = 0
  /\ setting' = [setting EXCEPT ![s] = "signed"]
  /\ UNCHANGED <<link, mayPost, raw, avatar, reading, task, data, pictures, asks, taken, late>>

SetMarker(s) ==
  /\ setting[s] = "signed" /\ asks < MaxAsks
  /\ setting' = [setting EXCEPT ![s] = "idle"]
  /\ mayPost' = TRUE
  /\ marker' = IF marker = 0 THEN asks + 1 ELSE marker
  /\ asks' = asks + 1
  /\ UNCHANGED <<link, raw, avatar, reading, task, data, pictures, taken, late>>

\* The browser posts, as often as it likes until the policy expires.
PostPicture ==
  /\ mayPost /\ pictures < MaxPictures
  /\ pictures' = pictures + 1 /\ raw' = pictures + 1
  /\ UNCHANGED <<link, marker, mayPost, avatar, reading, setting, task, data, asks, taken, late>>

RequestLapses ==
  /\ marker' = IF mayPost THEN marker ELSE 0     \* 300 s for the POST, 600 s for the marker
  /\ mayPost' = FALSE /\ (mayPost \/ marker # 0)
  /\ UNCHANGED <<link, raw, avatar, reading, setting, task, data, pictures, asks, taken, late>>

-----------------------------------------------------------------------------
(* users_set_avatar_complete and process_avatar.                            *)

Goes(c, from, to) == task[c] = from /\ task' = [task EXCEPT ![c] = to]

FindMarker(c) ==
  /\ marker # 0 /\ Goes(c, "none", "marked")
  /\ UNCHANGED <<link, marker, mayPost, raw, avatar, reading, setting, data, pictures, asks, taken, late>>

\* Without an object the answer is 400 and no task is started.
StartTask(c) ==
  /\ Goes(c, "marked", IF raw # 0 THEN "queued" ELSE "none")
  /\ UNCHANGED <<link, marker, mayPost, raw, avatar, reading, setting, data, pictures, asks, taken, late>>

\* Mutant: the marker is read and stays.
MutantTakeMarkerLeft(c) ==
  /\ Goes(c, "queued", IF marker # 0 THEN "taken" ELSE "none")
  /\ taken' = IF marker # 0 THEN taken + 1 ELSE taken
  /\ UNCHANGED <<link, marker, mayPost, raw, avatar, reading, setting, data, pictures, asks, late>>

\* GETDEL: one task takes a marker; a task without one ends.
TakeMarker(c) ==
  /\ Goes(c, "queued", IF marker # 0 THEN "taken" ELSE "none")
  /\ taken' = IF marker # 0 THEN taken + 1 ELSE taken
  /\ marker' = 0
  /\ UNCHANGED <<link, mayPost, raw, avatar, reading, setting, data, pictures, asks, late>>

ReadPicture(c) ==
  /\ Goes(c, "taken", IF raw # 0 THEN "read" ELSE "none")
  /\ data' = [data EXCEPT ![c] = raw]
  /\ UNCHANGED <<link, marker, mayPost, raw, avatar, reading, setting, pictures, asks, taken, late>>

\* normalize_image: no image at all, or more than MAX_DIMENSION on a side.
RefusePicture(c) ==
  /\ Goes(c, "read", "none")
  /\ UNCHANGED <<link, marker, mayPost, raw, avatar, reading, setting, data, pictures, asks, taken, late>>

\* The storage fails or the worker dies: what was taken is not given back.
TaskEnds(c) ==
  /\ task[c] \in {"taken", "read", "stored", "deleted"} /\ Goes(c, task[c], "none")
  /\ late' = (late \/ (task[c] \in {"stored", "deleted"} /\ link = "0"))
  /\ UNCHANGED <<link, marker, mayPost, raw, avatar, reading, setting, data, pictures, asks, taken>>

\* The broker delivers a task again that was not acknowledged.
Redeliver(c) ==
  /\ task[c] \in {"taken", "read"} /\ task' = [task EXCEPT ![c] = "queued"]
  /\ UNCHANGED <<link, marker, mayPost, raw, avatar, reading, setting, data, pictures, asks, taken, late>>

StorePicture(c) ==
  /\ Goes(c, "read", "stored")
  /\ avatar' = data[c]
  /\ UNCHANGED <<link, marker, mayPost, raw, reading, setting, data, pictures, asks, taken, late>>

\* Whatever is under the key goes, a newer picture as well.
DeleteRaw(c) ==
  /\ Goes(c, "stored", "deleted")
  /\ raw' = 0
  /\ UNCHANGED <<link, marker, mayPost, avatar, reading, setting, data, pictures, asks, taken, late>>

\* Mutant: the cached answer is left to lapse.
MutantForgetLinkNever(c) ==
  /\ Goes(c, "deleted", "none")
  /\ UNCHANGED <<link, marker, mayPost, raw, avatar, reading, setting, data, pictures, asks, taken, late>>

ForgetLink(c) ==
  /\ Goes(c, "deleted", "none")
  /\ link' = "" /\ late' = FALSE
  /\ UNCHANGED <<marker, mayPost, raw, avatar, reading, setting, data, pictures, asks, taken>>

AvatarNext ==
  \/ \E r \in Readers : MissLink(r) \/ HeadPicture(r) \/ CacheLink(r)
  \/ \E s \in Setters : ForgetMarker(s) \/ SetMarker(s)
  \/ \E c \in Confirms : \/ FindMarker(c) \/ StartTask(c) \/ TakeMarker(c) \/ ReadPicture(c)
                         \/ RefusePicture(c) \/ TaskEnds(c) \/ Redeliver(c) \/ StorePicture(c) \/ DeleteRaw(c)
                         \/ ForgetLink(c)
  \/ LinkLapses \/ PostPicture \/ RequestLapses

AvatarSpec == AvatarInit /\ [][AvatarNext]_avatarVars

-----------------------------------------------------------------------------
(* Properties.                                                             *)

\* A user who has an avatar is told "none" from the cache (users.py:113) only
\* while the task that stored it has not come to the cache, or if a reader that
\* had looked before, or whose look failed, has cached its answer since, or if
\* the task ended in between: process_avatar itself never leaves it so.
NoneIsExplained ==
  avatar # 0 /\ link = "0" => late \/ \E c \in Confirms : task[c] \in {"stored", "deleted"}

\* However often an upload is confirmed and a task delivered, a request for an
\* upload is processed once at most.
OncePerRequest == taken <= asks
=============================================================================
