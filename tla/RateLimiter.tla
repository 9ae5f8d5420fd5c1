------------------------------ MODULE RateLimiter ------------------------------
(***************************************************************************)
(* user_rate_limiter for one user and one key: a counter in Redis that is   *)
(* to lapse with its window.  Counting and setting the expiry are two        *)
(* commands, and a request can be cut off between them.                     *)
(***************************************************************************)
EXTENDS Integers, FiniteSets

CONSTANTS
  Callers,    \* concurrent requests of the user
  Quota,      \* requests: how many are let through in a window
  MaxHits,    \* bound: how far the counter goes
  MaxCuts     \* bound: requests that are cut off

ASSUME QuotaAssumption == Quota \in Nat \ {0} /\ MaxHits \in Nat /\ MaxCuts \in Nat

VARIABLES
  hits,       \* the counter, 0 while there is no key
  expires,    \* the key has a time to live
  calling,    \* where a request is
  served,     \* ghost: requests let through since the key appeared
  cuts        \* ghost: requests that died between INCR and EXPIRE, and their number

limiterVars == <<hits, expires, calling, served, cuts>>

LimiterInit ==
  /\ hits = 0 /\ expires = FALSE /\ served = 0 /\ cuts = 0
  /\ calling = [q \in Callers |-> "idle"]

\* Mutant: the count before this request decides, and the first is no exception.
MutantCountStale(q) ==
  /\ calling[q] = "idle" /\ hits < MaxHits
  /\ hits' = hits + 1
  /\ calling' = [calling EXCEPT ![q] = IF hits = 1 THEN "first" ELSE IF hits > Quota THEN "over" ELSE "idle"]
  /\ served' = IF hits <= Quota THEN served + 1 ELSE served
  /\ UNCHANGED <<expires, cuts>>

\* INCR, which creates the key with 1 and no expiry.
Count(q) ==
  /\ calling[q] = "idle" /\ hits < MaxHits
  /\ hits' = hits + 1
  /\ calling' = [calling EXCEPT ![q] =
                   CASE hits' = 1 -> "first" [] hits' > Quota -> "over" [] OTHER -> "idle"]
  /\ served' = IF hits' <= Quota THEN served + 1 ELSE served
  /\ UNCHANGED <<expires, cuts>>

\* EXPIRE, which starts the window.
StartWindow(q) ==
  /\ calling[q] = "first"
  /\ calling' = [calling EXCEPT ![q] = "idle"]
  /\ expires' = (hits # 0)
  /\ UNCHANGED <<hits, served, cuts>>

\* TTL for Retry-After, and 429.
Refuse(q) ==
  /\ calling[q] = "over"
  /\ calling' = [calling EXCEPT ![q] = "idle"]
  /\ UNCHANGED <<hits, expires, served, cuts>>

\* The client hangs up, Redis is not reached, the process dies.
CutOff(q) ==
  /\ calling[q] = "first" /\ cuts < MaxCuts
  /\ calling' = [calling EXCEPT ![q] = "idle"]
  /\ cuts' = cuts + 1
  /\ UNCHANGED <<hits, expires, served>>

WindowLapses ==
  /\ expires
  /\ hits' = 0 /\ expires' = FALSE /\ served' = 0
  /\ UNCHANGED <<calling, cuts>>

LimiterNext ==
  \/ \E q \in Callers : Count(q) \/ StartWindow(q) \/ Refuse(q) \/ CutOff(q)
  \/ WindowLapses

LimiterSpec == LimiterInit /\ [][LimiterNext]_limiterVars

-----------------------------------------------------------------------------
(* Properties.                                                             *)

\* The user is locked out for the window at most: a counter that does not
\* lapse (deps.py:136) is about to be given its expiry by the request that
\* created it, or that request was cut off.
WindowsEnd ==
  hits # 0 /\ ~expires => cuts > 0 \/ \E q \in Callers : calling[q] = "first"

\* No more than Quota requests go through in the life of a counter, whatever
\* their order.
QuotaKept == served <= Quota
=============================================================================
