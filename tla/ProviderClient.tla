----------------------------- MODULE ProviderClient -----------------------------
(***************************************************************************)
(* AIClient: the requests of the worker processes to the language model.    *)
(* An account of scope PERS may have one request open, so they share a lock  *)
(* in Redis whose lease is not extended; every process keeps a token of its  *)
(* own and renews it under the lock.                                        *)
(***************************************************************************)
EXTENDS Integers, FiniteSets

CONSTANTS
  Requests,     \* calls of _authed_request
  Workers,      \* processes
  RunsIn,       \* the process of a request
  Personal,     \* scope = "PERS"
  NoRequest

ASSUME ProviderAssumption ==
  /\ RunsIn \in [Requests -> Workers] /\ Personal \in BOOLEAN /\ NoRequest \notin Requests

VARIABLES
  lock,         \* who holds "api:global:lock", by the token of its acquisition
  doing,        \* where a request is
  outcome,       \* what the request will return or raise
  token,        \* the token of a process: "none", "fresh" or "old"
  overrun       \* requests whose lease has run out under them

providerVars == <<lock, doing, outcome, token, overrun>>

ProviderInit ==
  /\ lock = NoRequest /\ overrun = {}
  /\ doing = [q \in Requests |-> "idle"] /\ outcome = [q \in Requests |-> "none"]
  /\ token \in [Workers -> {"none", "fresh"}]

To(q, s) == doing' = [doing EXCEPT ![q] = s]
Returns(q, r) == To(q, "leaving") /\ outcome' = [outcome EXCEPT ![q] = r]

\* redis.lock(timeout=120, blocking_timeout=60); other scopes need no lock.
EnterLock(q) ==
  /\ doing[q] = "idle" /\ (Personal => lock = NoRequest)
  /\ lock' = IF Personal THEN q ELSE lock
  /\ To(q, "inside")
  /\ UNCHANGED <<outcome, token, overrun>>

LockTimesOut(q) ==
  /\ doing[q] = "idle" /\ Personal /\ lock # NoRequest
  /\ To(q, "ended") /\ outcome' = [outcome EXCEPT ![q] = "LockError"]
  /\ UNCHANGED <<lock, token, overrun>>

\* ensure_fresh_token and auth.
RenewToken(q) ==
  /\ doing[q] = "inside" /\ token[RunsIn[q]] # "fresh"
  /\ \/ token' = [token EXCEPT ![RunsIn[q]] = "fresh"] /\ UNCHANGED <<doing, outcome>>
     \/ Returns(q, "AuthorizationError") /\ UNCHANGED token
  /\ UNCHANGED <<lock, overrun>>

\* A token is old 30 s before it expires.
TokenAges(w) ==
  /\ token[w] = "fresh" /\ token' = [token EXCEPT ![w] = "old"]
  /\ UNCHANGED <<lock, doing, outcome, overrun>>

SendRequest(q) ==
  /\ doing[q] = "inside" /\ token[RunsIn[q]] = "fresh"
  /\ To(q, "sent")
  /\ UNCHANGED <<lock, outcome, token, overrun>>

\* The response: 200, another status (generate returns None, upload raises),
\* or a timeout of the HTTP client.
GetResponse(q) ==
  /\ doing[q] = "sent"
  /\ \E r \in {"answer", "bad_status", "unauthorized", "timeout"} : Returns(q, r)
  /\ UNCHANGED <<lock, token, overrun>>

\* Mutant: whoever leaves deletes the lock.
MutantLeaveLockAnyway(q) ==
  /\ doing[q] = "leaving"
  /\ To(q, "ended") /\ lock' = NoRequest
  /\ outcome' = [outcome EXCEPT ![q] = IF Personal /\ lock # q THEN "LockNotOwnedError" ELSE @]
  /\ UNCHANGED <<token, overrun>>

\* The lock is released by its owner alone; another one gets an error in place
\* of its answer.
LeaveLock(q) ==
  /\ doing[q] = "leaving" /\ To(q, "ended")
  /\ lock' = IF lock = q THEN NoRequest ELSE lock
  /\ outcome' = [outcome EXCEPT ![q] = IF Personal /\ lock # q THEN "LockNotOwnedError" ELSE @]
  /\ UNCHANGED <<token, overrun>>

\* 120 s have passed: an authorization and a request may take longer.
LeaseRunsOut ==
  /\ lock # NoRequest /\ lock' = NoRequest
  /\ overrun' = overrun \cup {lock}
  /\ UNCHANGED <<doing, outcome, token>>

WorkerDies(q) ==
  /\ doing[q] \in {"inside", "sent", "leaving"}
  /\ To(q, "dead")
  /\ UNCHANGED <<lock, outcome, token, overrun>>

ProviderNext ==
  \/ \E q \in Requests : \/ EnterLock(q) \/ LockTimesOut(q) \/ RenewToken(q) \/ SendRequest(q)
                         \/ GetResponse(q) \/ LeaveLock(q) \/ WorkerDies(q)
  \/ \E w \in Workers : TokenAges(w)
  \/ LeaseRunsOut

ProviderSpec == ProviderInit /\ [][ProviderNext]_providerVars

-----------------------------------------------------------------------------
(* Properties.                                                             *)

Inside(q) == doing[q] \in {"inside", "sent", "leaving"}

\* A personal account has one request open at a time, as long as no request
\* outlives its lease (client.py:90): an overrun request never takes the lock
\* of the one that came after it along.
OneRequestOpen ==
  Personal => \A q \in Requests : Inside(q) /\ q \notin overrun => lock = q

\* An answer is thrown away for the lock's sake only if the request has
\* outlived its lease.
AnswersComeBack ==
  \A q \in Requests : outcome[q] = "LockNotOwnedError" => q \in overrun
=============================================================================
