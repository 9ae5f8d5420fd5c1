-------------------------- MODULE GenerationProofs --------------------------
(***************************************************************************)
(* Theorems about Generation, for every set of users, sessions and turns   *)
(* and every setting of the fault switches.                                *)
(***************************************************************************)
EXTENDS Generation, FiniteSetTheorems, SequenceTheorems, WellFoundedInduction, TLAPS

-----------------------------------------------------------------------------
(* The history that is sent *)

UserRows(rs) == {i \in DOMAIN rs : rs[i].role = "user"}

\* A table with a user message has a last one: the index that
\* _history_up_to_last_user_message looks for from the end exists.
LEMMA LastUserRow ==
  ASSUME NEW rs \in Seq(Message), UserRows(rs) # {}
  PROVE  \E i \in UserRows(rs) : \A k \in UserRows(rs) : k <= i
<1> DEFINE n == Len(rs)
           After(i) == (i + 1)..n
           T == {After(i) : i \in UserRows(rs)}
           R == StrictSubsetOrdering(1..n)
<1>1. n \in Nat /\ UserRows(rs) \subseteq 1..n
  BY DEF UserRows
<1>2. IsWellFoundedOn(R, SUBSET (1..n))
  <2>1. IsFiniteSet(1..n)
    BY <1>1, FS_Interval
  <2> QED
    BY <2>1, FS_FiniteSubsetsOfFinite, FS_StrictSubsetOrderingWellFounded
<1>3. T \subseteq SUBSET (1..n) /\ T # {}
  BY <1>1
<1> HIDE DEF R
<1>4. PICK x \in T : \A y \in T : ~(<<y, x>> \in R)
  BY <1>2, <1>3, WFMin
<1>5. PICK i \in UserRows(rs) : x = After(i)
  BY <1>4
<1>6. ASSUME NEW k \in UserRows(rs), ~(k <= i) PROVE FALSE
  <2>1. k \in 1..n /\ i \in 1..n /\ i < k
    BY <1>1, <1>6
  <2>2. After(k) \in T /\ After(k) \subseteq After(i) /\ k \in After(i) \ After(k)
    BY <2>1
  <2>3. <<After(k), x>> \in R
    BY <2>1, <2>2, <1>5, <1>1 DEF R, StrictSubsetOrdering
  <2> QED
    BY <1>4, <2>2, <2>3
<1> QED
  BY <1>6

\* The history is empty, or it is the stored conversation cut right after its
\* last user message, which is then the last message sent.
LEMMA HistoryCut ==
  ASSUME NEW rs \in Seq(Message)
  PROVE  LET h == HistoryUpToLastUserMessage(rs) IN
         \/ h = <<>> /\ UserRows(rs) = {}
         \/ \E i \in UserRows(rs) :
              /\ Len(h) = i /\ h # <<>>
              /\ \A k \in 1..i : h[k] = rs[k]
              /\ \A k \in UserRows(rs) : k <= i
<1>1. CASE UserRows(rs) = {}
  BY <1>1 DEF HistoryUpToLastUserMessage, UserRows
<1>2. CASE UserRows(rs) # {}
  <2> DEFINE i == CHOOSE j \in UserRows(rs) : \A k \in UserRows(rs) : k <= j
             h == HistoryUpToLastUserMessage(rs)
  <2>1. i \in UserRows(rs) /\ \A k \in UserRows(rs) : k <= i
    BY <1>2, LastUserRow
  <2>2. h = SubSeq(rs, 1, i)
    BY <1>2 DEF HistoryUpToLastUserMessage, UserRows
  <2>3. i \in 1..Len(rs)
    BY <2>1 DEF UserRows
  <2> HIDE DEF i, h
  <2>4. Len(h) = i /\ (\A k \in 1..i : h[k] = rs[k])
    BY <2>2, <2>3
  <2>5. h # <<>>
    BY <2>3, <2>4
  <2> QED
    BY <2>1, <2>3, <2>4, <2>5 DEF h
<1> QED
  BY <1>1, <1>2

-----------------------------------------------------------------------------
(* Types *)

\* The rows that the actions append are rows of their tables.
LEMMA MessageRows ==
  /\ [role |-> "system", turn |-> None] \in Message
  /\ \A t \in Turns : /\ [role |-> "user", turn |-> t] \in Message
                      /\ [role |-> "assistant", turn |-> t] \in Message
                      /\ [type |-> "success", turn |-> t] \in ResultRow
                      /\ [type |-> "error", turn |-> t] \in ResultRow
BY DEF Message, Roles, ResultRow

\* _add_error_result keeps every variable in its type.
LEMMA AddErrorResultType ==
  ASSUME TypeOK, NEW t \in Turns, NEW from \in JobSteps, NEW ok \in JobSteps,
         NEW fail \in JobSteps, AddErrorResult(t, from, ok, fail)
  PROVE  TypeOK'
<1>1. job' \in [Turns -> JobSteps]
  BY DEF TypeOK, AddErrorResult, JobStep
<1>2. result' \in [Sessions -> ResultRow \cup {None}]
  BY MessageRows DEF TypeOK, AddErrorResult
<1> QED
  BY <1>1, <1>2 DEF TypeOK, AddErrorResult, rows, keys, plan

\* Every step keeps every variable in its type.
LEMMA TypeStep == TypeOK /\ [Next]_vars => TypeOK'
<1> SUFFICES ASSUME TypeOK, [Next]_vars PROVE TypeOK'
  OBVIOUS
<1> USE OwnerAssumption DEF TypeOK, rows, keys, plan, UserOf, JobSteps, WorkingSteps,
        GenerateWorking, RespondWorking, SecondRelease, EndedSteps, ReqSteps
<1>1. ASSUME NEW t \in Turns, Handler(t) PROVE TypeOK'
  <2>1. CASE ReqCheck(t)
    BY <2>1 DEF ReqCheck
  <2>2. CASE ReqLock(t)
    BY <2>2 DEF ReqLock
  <2>3. CASE ReqSpam(t)
    BY <2>3 DEF ReqSpam
  <2>4. CASE ReqRefuse(t)
    BY <2>4 DEF ReqRefuse
  <2>5. CASE CreateSession(t)
    <3>1. msgs' \in [Sessions -> Seq(Message)]
      BY <2>5, MessageRows DEF CreateSession
    <3> QED
      BY <2>5, <3>1 DEF CreateSession
  <2>6. CASE SendSave(t)
    <3> DEFINE m == [role |-> "user", turn |-> t]
    <3>0. target[t] \in Sessions /\ m \in Message
      BY MessageRows
    <3> HIDE DEF m
    <3>1. msgs' \in [Sessions -> Seq(Message)]
      <4>1. Append(msgs[target[t]], m) \in Seq(Message)
        BY <3>0, AppendProperties
      <4> QED
        BY <4>1, <3>0, <2>6 DEF SendSave, m
    <3> QED
      BY <2>6, <3>1 DEF SendSave
  <2>7. CASE SendLink(t)
    BY <2>7 DEF SendLink
  <2>8. CASE RetryRead(t)
    BY <2>8 DEF RetryRead
  <2>9. CASE Enqueue(t)
    BY <2>9 DEF Enqueue
  <2>11. CASE EnqueueFails(t)
    BY <2>11 DEF EnqueueFails
  <2>10. CASE ReqUnlock(t)
    BY <2>10 DEF ReqUnlock
  <2> QED
    BY <1>1, <2>1, <2>2, <2>3, <2>4, <2>5, <2>6, <2>7, <2>8, <2>9, <2>10, <2>11 DEF Handler
<1>2. ASSUME NEW t \in Turns, Generate(t) PROVE TypeOK'
  <2>1. CASE JobClear(t)
    BY <2>1 DEF JobClear, JobStep
  <2>2. CASE JobLookup(t)
    BY <2>2 DEF JobLookup, JobStep
  <2>3. CASE JobAcquire(t)
    BY <2>3 DEF JobAcquire, JobStep
  <2>4. CASE JobHistory(t)
    <3> DEFINE rs == msgs[target[t]]
               h == HistoryUpToLastUserMessage(rs)
    <3>1. rs \in Seq(Message)
      OBVIOUS
    <3> HIDE DEF rs, h
    <3>2. h # <<>> => h[Len(h)].turn \in Turns \cup {None}
      <4>1. SUFFICES ASSUME h # <<>> PROVE h[Len(h)].turn \in Turns \cup {None}
        OBVIOUS
      <4>2. PICK i \in UserRows(rs) : Len(h) = i /\ (\A k \in 1..i : h[k] = rs[k])
        BY <3>1, <4>1, HistoryCut DEF h
      <4>3. i \in 1..Len(rs) /\ h[Len(h)] = rs[i]
        BY <3>1, <4>2 DEF UserRows
      <4>4. rs[i] \in Message
        BY <3>1, <4>3
      <4> QED
        BY <4>3, <4>4 DEF Message
    <3>3. asked' \in [Turns -> Turns \cup {None}]
      BY <2>4, <3>2 DEF JobHistory, rs, h
    <3> QED
      BY <2>4, <3>3 DEF JobHistory, JobStep
  <2>5. CASE ProviderAnswers(t)
    BY <2>5 DEF ProviderAnswers, JobStep
  <2>6. CASE ProviderFails(t)
    BY <2>6 DEF ProviderFails, JobStep
  <2>7. CASE CheckTombstone(t)
    BY <2>7 DEF CheckTombstone, JobStep
  <2>8. CASE Publish(t)
    BY <2>8 DEF Publish, JobStep
  <2>9. CASE PublishFails(t)
    BY <2>9 DEF PublishFails, JobStep
  <2>10. CASE ErrCommit(t)
    BY <2>10, AddErrorResultType DEF ErrCommit
  <2>11. CASE ErrRelease(t)
    BY <2>11 DEF ErrRelease, ReleaseKey, JobStep
  <2>12. CASE OuterCommit(t)
    BY <2>12, AddErrorResultType DEF OuterCommit
  <2>13. CASE OuterRelease(t)
    BY <2>13 DEF OuterRelease, ReleaseKey, JobStep
  <2>14. CASE OuterReleaseAgain(t)
    BY <2>14 DEF OuterReleaseAgain, ReleaseKey, JobStep
  <2> QED
    BY <1>2, <2>1, <2>2, <2>3, <2>4, <2>5, <2>6, <2>7, <2>8, <2>9, <2>10, <2>11, <2>12, <2>13, <2>14 DEF Generate
<1>3. ASSUME NEW t \in Turns, Respond(t) PROVE TypeOK'
  <2>1. CASE PrCommit(t)
    <3> DEFINE m == [role |-> "assistant", turn |-> t]
    <3>0. target[t] \in Sessions /\ m \in Message
      BY MessageRows
    <3> HIDE DEF m
    <3>1. msgs' \in [Sessions -> Seq(Message)]
      <4>1. Append(msgs[target[t]], m) \in Seq(Message)
        BY <3>0, AppendProperties
      <4> QED
        BY <4>1, <3>0, <2>1 DEF PrCommit, m
    <3>2. result' \in [Sessions -> ResultRow \cup {None}]
      BY <2>1, MessageRows DEF PrCommit
    <3> QED
      BY <2>1, <3>1, <3>2 DEF PrCommit, JobStep
  <2>2. CASE PrReject(t)
    BY <2>2 DEF PrReject, JobStep
  <2>3. CASE PrErrCommit(t)
    BY <2>3, AddErrorResultType DEF PrErrCommit
  <2>4. CASE PrErrRelease(t)
    BY <2>4 DEF PrErrRelease, ReleaseKey, JobStep
  <2>5. CASE PrReleaseAgain(t)
    BY <2>5 DEF PrReleaseAgain, ReleaseKey, JobStep
  <2>6. CASE PrRelease(t)
    BY <2>6 DEF PrRelease, ReleaseKey, JobStep
  <2> QED
    BY <1>3, <2>1, <2>2, <2>3, <2>4, <2>5, <2>6 DEF Respond
<1>4. ASSUME NEW t \in Turns, Dies(t) PROVE TypeOK'
  <2>1. CASE ApiDies(t)
    BY <2>1, FaultAssumption DEF ApiDies
  <2>2. CASE GenerateDies(t)
    BY <2>2, FaultAssumption DEF GenerateDies
  <2>3. CASE RespondDies(t)
    BY <2>3, FaultAssumption DEF RespondDies
  <2> QED
    BY <1>4, <2>1, <2>2, <2>3 DEF Dies
<1>5. ASSUME NEW s \in Sessions, DeleteChat(s) \/ DelKeyExpires(s) PROVE TypeOK'
  <2>1. CASE SetTombstone(s)
    BY <2>1 DEF SetTombstone
  <2>2. CASE DeleteRows(s)
    BY <2>2 DEF DeleteRows
  <2>3. CASE DelKeyExpires(s)
    BY <2>3 DEF DelKeyExpires
  <2> QED
    BY <1>5, <2>1, <2>2, <2>3 DEF DeleteChat
<1>6. ASSUME NEW u \in Users, GenKeyExpires(u) \/ CreKeyExpires(u) PROVE TypeOK'
  <2>1. CASE GenKeyExpires(u)
    BY <2>1 DEF GenKeyExpires
  <2>2. CASE CreKeyExpires(u)
    BY <2>2 DEF CreKeyExpires
  <2> QED
    BY <1>6, <2>1, <2>2 DEF GenKeyExpires
<1>7. CASE CleanupOldResults
  BY <1>7 DEF CleanupOldResults
<1>8. CASE UNCHANGED vars
  BY <1>8 DEF vars
<1> QED
  BY <1>1, <1>2, <1>3, <1>4, <1>5, <1>6, <1>7, <1>8 DEF Next

\* Every reachable state is well typed.
THEOREM TypeCorrect == Spec => []TypeOK
<1>1. Init => TypeOK
  <2> SUFFICES ASSUME Init PROVE TypeOK
    OBVIOUS
  <2>1. msgs \in [Sessions -> Seq(Message)]
    <3>1. <<[role |-> "system", turn |-> None]>> \in Seq(Message) /\ <<>> \in Seq(Message)
      BY MessageRows
    <3> QED
      BY <3>1 DEF Init
  <2> QED
    BY <2>1, FaultAssumption DEF Init, TypeOK, ReqSteps, JobSteps
<1>2. TypeOK /\ [Next]_vars => TypeOK'
  BY TypeStep
<1> QED
  BY <1>1, <1>2, PTL DEF Spec

-----------------------------------------------------------------------------
(* The generation key *)

\* A step that leaves key and ghost alone and puts nobody to work.
QuietForGenKey ==
  /\ UNCHANGED <<genKey, unguarded, target>>
  /\ \A k \in Turns : Working(k)' => Working(k)

\* Such a step keeps the generation keys in the hands of those who work.
LEMMA QuietKeepsGuard ==
  WorkingHoldsKey /\ QuietForGenKey => WorkingHoldsKey'
BY DEF WorkingHoldsKey, QuietForGenKey, UserOf

\* So does the release of a key: whoever loses it is marked as unguarded.
LEMMA ReleaseKeepsGuard ==
  ASSUME TypeOK, WorkingHoldsKey, NEW t \in Turns, NEW from \in JobSteps,
         NEW to \in SecondRelease \cup EndedSteps, ReleaseKey(t, from, to)
  PROVE  WorkingHoldsKey'
<1>1. ~(job'[t] \in WorkingSteps)
  BY DEF ReleaseKey, JobStep, TypeOK, SecondRelease, EndedSteps, WorkingSteps,
         GenerateWorking, RespondWorking
<1>2. \A k \in Turns \ {t} : job'[k] = job[k]
  BY DEF ReleaseKey, JobStep, TypeOK
<1>3. ASSUME NEW k \in Turns, Working(k)'
      PROVE  (genKey[UserOf(k)] = k \/ k \in unguarded)'
  <2>1. k # t /\ Working(k)
    BY <1>1, <1>2, <1>3 DEF Working
  <2>2. UserOf(k)' = UserOf(k) /\ UserOf(k) \in Users /\ UserOf(t) \in Users
    BY OwnerAssumption DEF ReleaseKey, UserOf, TypeOK, plan
  <2>3. CASE k \in unguarded
    BY <2>3 DEF ReleaseKey
  <2>4. CASE genKey[UserOf(k)] = k /\ UserOf(k) = UserOf(t)
    BY <2>1, <2>4 DEF ReleaseKey
  <2>5. CASE genKey[UserOf(k)] = k /\ UserOf(k) # UserOf(t)
    BY <2>2, <2>5 DEF ReleaseKey, TypeOK
  <2> QED
    BY <2>1, <2>3, <2>4, <2>5 DEF WorkingHoldsKey
<1> QED
  BY <1>3 DEF WorkingHoldsKey

\* Every step keeps the generation keys in the hands of those who work.
LEMMA GuardStep == TypeOK /\ WorkingHoldsKey /\ [Next]_vars => WorkingHoldsKey'
<1> SUFFICES ASSUME TypeOK, WorkingHoldsKey, [Next]_vars PROVE WorkingHoldsKey'
  OBVIOUS
<1>1. ASSUME NEW t \in Turns, Handler(t) PROVE WorkingHoldsKey'
  <2>1. QuietForGenKey
    BY <1>1 DEF TypeOK, QuietForGenKey, Working, WorkingSteps, GenerateWorking,
         RespondWorking, SecondRelease, EndedSteps, JobSteps, keys, plan, Handler,
         ReqCheck, ReqLock, ReqSpam, ReqRefuse, CreateSession,
         SendSave, SendLink, RetryRead, Enqueue, EnqueueFails, ReqUnlock
  <2> QED
    BY <2>1, QuietKeepsGuard
<1>2. ASSUME NEW t \in Turns, Generate(t) PROVE WorkingHoldsKey'
  <2>1. CASE JobAcquire(t)
    <3>1. genKey[UserOf(t)] # None => genKey' = genKey
      BY <2>1, OwnerAssumption DEF JobAcquire, TypeOK, UserOf
    <3>2. \A k \in Turns \ {t} : Working(k)' => Working(k)
      BY <2>1 DEF JobAcquire, JobStep, TypeOK, Working
    <3>3. genKey[UserOf(t)] # None => ~Working(t)'
      BY <2>1 DEF JobAcquire, JobStep, TypeOK, Working, WorkingSteps, GenerateWorking,
         RespondWorking, SecondRelease, EndedSteps, JobSteps
    <3>4. CASE genKey[UserOf(t)] # None
      BY <2>1, <3>1, <3>2, <3>3, <3>4 DEF JobAcquire, WorkingHoldsKey, UserOf, plan
    <3>5. CASE genKey[UserOf(t)] = None
      <4>1. genKey'[UserOf(t)] = t /\ \A u \in Users \ {UserOf(t)} : genKey'[u] = genKey[u]
        BY <2>1, <3>5, OwnerAssumption DEF JobAcquire, TypeOK, UserOf
      <4>2. unguarded' = unguarded \ {t}
        BY <2>1, <3>5 DEF JobAcquire
      <4>3. \A k \in Turns : UserOf(k)' = UserOf(k) /\ UserOf(k) \in Users
        BY <2>1, OwnerAssumption DEF JobAcquire, TypeOK, UserOf, plan
      <4>4. ASSUME NEW k \in Turns \ {t}, Working(k)
            PROVE  (genKey[UserOf(k)] = k \/ k \in unguarded)'
        BY <4>1, <4>2, <4>3, <4>4, <3>5, NoneAssumption DEF WorkingHoldsKey
      <4> QED
        BY <4>1, <4>3, <4>4, <3>2 DEF WorkingHoldsKey
    <3> QED
      BY <3>4, <3>5
  <2>2. CASE ErrRelease(t)
    BY <2>2, ReleaseKeepsGuard DEF ErrRelease, WorkingSteps, GenerateWorking,
         RespondWorking, SecondRelease, EndedSteps, JobSteps
  <2>3. CASE OuterRelease(t)
    BY <2>3, ReleaseKeepsGuard DEF OuterRelease, WorkingSteps, GenerateWorking,
         RespondWorking, SecondRelease, EndedSteps, JobSteps
  <2>4. CASE OuterReleaseAgain(t)
    BY <2>4, ReleaseKeepsGuard DEF OuterReleaseAgain, WorkingSteps, GenerateWorking,
         RespondWorking, SecondRelease, EndedSteps, JobSteps
  <2>5. CASE JobClear(t)
    <3>1. QuietForGenKey
      BY <2>5 DEF QuietForGenKey, TypeOK, Working, WorkingSteps, GenerateWorking,
         RespondWorking, SecondRelease, EndedSteps, JobSteps, keys, plan,
           JobClear, JobStep
    <3> QED
      BY <3>1, QuietKeepsGuard
  <2>6. CASE JobLookup(t)
    <3>1. QuietForGenKey
      BY <2>6 DEF QuietForGenKey, TypeOK, Working, WorkingSteps, GenerateWorking,
         RespondWorking, SecondRelease, EndedSteps, JobSteps, keys, plan,
           JobLookup, JobStep
    <3> QED
      BY <3>1, QuietKeepsGuard
  <2>7. CASE JobHistory(t)
    <3>1. QuietForGenKey
      BY <2>7 DEF QuietForGenKey, TypeOK, Working, WorkingSteps, GenerateWorking,
         RespondWorking, SecondRelease, EndedSteps, JobSteps, keys, plan,
           JobHistory, JobStep
    <3> QED
      BY <3>1, QuietKeepsGuard
  <2>8. CASE ProviderAnswers(t)
    <3>1. QuietForGenKey
      BY <2>8 DEF QuietForGenKey, TypeOK, Working, WorkingSteps, GenerateWorking,
         RespondWorking, SecondRelease, EndedSteps, JobSteps, keys, plan,
           ProviderAnswers, JobStep
    <3> QED
      BY <3>1, QuietKeepsGuard
  <2>9. CASE ProviderFails(t)
    <3>1. QuietForGenKey
      BY <2>9 DEF QuietForGenKey, TypeOK, Working, WorkingSteps, GenerateWorking,
         RespondWorking, SecondRelease, EndedSteps, JobSteps, keys, plan,
           ProviderFails, JobStep
    <3> QED
      BY <3>1, QuietKeepsGuard
  <2>10. CASE CheckTombstone(t)
    <3>1. QuietForGenKey
      BY <2>10 DEF QuietForGenKey, TypeOK, Working, WorkingSteps, GenerateWorking,
         RespondWorking, SecondRelease, EndedSteps, JobSteps, keys, plan,
           CheckTombstone, JobStep
    <3> QED
      BY <3>1, QuietKeepsGuard
  <2>11. CASE Publish(t)
    <3>1. QuietForGenKey
      BY <2>11 DEF QuietForGenKey, TypeOK, Working, WorkingSteps, GenerateWorking,
         RespondWorking, SecondRelease, EndedSteps, JobSteps, keys, plan,
           Publish, JobStep
    <3> QED
      BY <3>1, QuietKeepsGuard
  <2>12. CASE PublishFails(t)
    <3>1. QuietForGenKey
      BY <2>12 DEF QuietForGenKey, TypeOK, Working, WorkingSteps, GenerateWorking,
         RespondWorking, SecondRelease, EndedSteps, JobSteps, keys, plan,
           PublishFails, JobStep
    <3> QED
      BY <3>1, QuietKeepsGuard
  <2>13. CASE ErrCommit(t)
    <3>1. QuietForGenKey
      BY <2>13 DEF QuietForGenKey, TypeOK, Working, WorkingSteps, GenerateWorking,
         RespondWorking, SecondRelease, EndedSteps, JobSteps, keys, plan,
           ErrCommit, AddErrorResult, JobStep
    <3> QED
      BY <3>1, QuietKeepsGuard
  <2>14. CASE OuterCommit(t)
    <3>1. QuietForGenKey
      BY <2>14 DEF QuietForGenKey, TypeOK, Working, WorkingSteps, GenerateWorking,
         RespondWorking, SecondRelease, EndedSteps, JobSteps, keys, plan,
           OuterCommit, AddErrorResult, JobStep
    <3> QED
      BY <3>1, QuietKeepsGuard
  <2> QED
    BY <1>2, <2>1, <2>2, <2>3, <2>4, <2>5, <2>6, <2>7, <2>8, <2>9, <2>10, <2>11, <2>12, <2>13, <2>14 DEF Generate
<1>3. ASSUME NEW t \in Turns, Respond(t) PROVE WorkingHoldsKey'
  <2>1. CASE PrCommit(t)
    <3>1. QuietForGenKey
      BY <2>1 DEF QuietForGenKey, TypeOK, Working, WorkingSteps, GenerateWorking,
         RespondWorking, SecondRelease, EndedSteps, JobSteps, keys, plan,
           PrCommit, JobStep
    <3> QED
      BY <3>1, QuietKeepsGuard
  <2>2. CASE PrReject(t)
    <3>1. QuietForGenKey
      BY <2>2 DEF QuietForGenKey, TypeOK, Working, WorkingSteps, GenerateWorking,
         RespondWorking, SecondRelease, EndedSteps, JobSteps, keys, plan,
           PrReject, JobStep
    <3> QED
      BY <3>1, QuietKeepsGuard
  <2>3. CASE PrErrCommit(t)
    <3>1. QuietForGenKey
      BY <2>3 DEF QuietForGenKey, TypeOK, Working, WorkingSteps, GenerateWorking,
         RespondWorking, SecondRelease, EndedSteps, JobSteps, keys, plan,
           PrErrCommit, AddErrorResult, JobStep
    <3> QED
      BY <3>1, QuietKeepsGuard
  <2>4. CASE PrErrRelease(t)
    BY <2>4, ReleaseKeepsGuard DEF PrErrRelease, WorkingSteps, GenerateWorking,
         RespondWorking, SecondRelease, EndedSteps, JobSteps
  <2>5. CASE PrReleaseAgain(t)
    BY <2>5, ReleaseKeepsGuard DEF PrReleaseAgain, WorkingSteps, GenerateWorking,
         RespondWorking, SecondRelease, EndedSteps, JobSteps
  <2>6. CASE PrRelease(t)
    BY <2>6, ReleaseKeepsGuard DEF PrRelease, WorkingSteps, GenerateWorking,
         RespondWorking, SecondRelease, EndedSteps, JobSteps
  <2> QED
    BY <1>3, <2>1, <2>2, <2>3, <2>4, <2>5, <2>6 DEF Respond
<1>4. ASSUME NEW t \in Turns, Dies(t) PROVE WorkingHoldsKey'
  <2>1. CASE ApiDies(t) \/ GenerateDies(t)
    <3>1. QuietForGenKey
      BY <2>1 DEF QuietForGenKey, TypeOK, Working, WorkingSteps, GenerateWorking,
         RespondWorking, SecondRelease, EndedSteps, JobSteps, keys, plan,
           ApiDies, GenerateDies
    <3> QED
      BY <3>1, QuietKeepsGuard
  <2>2. CASE RespondDies(t)
    <3>1. \A k \in Turns \ {t} : Working(k)' => Working(k)
      BY <2>2 DEF RespondDies, TypeOK, Working
    <3> QED
      BY <2>2, <3>1 DEF RespondDies, WorkingHoldsKey, UserOf, keys, plan
  <2> QED
    BY <1>4, <2>1, <2>2 DEF Dies
<1>5. ASSUME NEW s \in Sessions, DeleteChat(s) \/ DelKeyExpires(s) PROVE WorkingHoldsKey'
  <2>1. QuietForGenKey
    BY <1>5 DEF QuietForGenKey, Working, keys, plan, DeleteChat, SetTombstone, DeleteRows,
         DelKeyExpires
  <2> QED
    BY <2>1, QuietKeepsGuard
<1>6. ASSUME NEW u \in Users, GenKeyExpires(u) PROVE WorkingHoldsKey'
  <2>1. ASSUME NEW k \in Turns, Working(k)'
        PROVE  (genKey[UserOf(k)] = k \/ k \in unguarded)'
    <3>1. Working(k) /\ UserOf(k)' = UserOf(k) /\ UserOf(k) \in Users
      BY <1>6, <2>1, OwnerAssumption DEF GenKeyExpires, Working, UserOf, TypeOK, plan
    <3>2. CASE k \in unguarded
      BY <1>6, <3>2 DEF GenKeyExpires
    <3>3. CASE genKey[UserOf(k)] = k /\ UserOf(k) = u
      BY <1>6, <3>1, <3>3 DEF GenKeyExpires
    <3>4. CASE genKey[UserOf(k)] = k /\ UserOf(k) # u
      BY <1>6, <3>1, <3>4 DEF GenKeyExpires, TypeOK
    <3> QED
      BY <3>1, <3>2, <3>3, <3>4 DEF WorkingHoldsKey
  <2> QED
    BY <2>1 DEF WorkingHoldsKey
<1>7. ASSUME NEW u \in Users, CreKeyExpires(u) PROVE WorkingHoldsKey'
  <2>1. QuietForGenKey
    BY <1>7 DEF QuietForGenKey, Working, CreKeyExpires, plan
  <2> QED
    BY <2>1, QuietKeepsGuard
<1>8. CASE CleanupOldResults
  <2>1. QuietForGenKey
    BY <1>8 DEF QuietForGenKey, Working, CleanupOldResults, keys, plan
  <2> QED
    BY <2>1, QuietKeepsGuard
<1>9. CASE UNCHANGED vars
  BY <1>9 DEF vars, keys, plan, WorkingHoldsKey, Working, UserOf
<1> QED
  BY <1>1, <1>2, <1>3, <1>4, <1>5, <1>6, <1>7, <1>8, <1>9 DEF Next

\* A working task holds its user's generation key, or it is one of those that
\* lost it.
THEOREM GuardInvariant == Spec => []WorkingHoldsKey
<1>1. Init => WorkingHoldsKey
  BY DEF Init, WorkingHoldsKey, Working, WorkingSteps, GenerateWorking, RespondWorking
<1>2. TypeOK /\ WorkingHoldsKey /\ [Next]_vars => WorkingHoldsKey'
  BY GuardStep
<1> QED
  BY <1>1, <1>2, TypeCorrect, PTL DEF Spec

\* One generation per user, as long as nobody lost the key: for every number
\* of users, sessions and turns, with crashes, lapsing TTLs and a failing broker.
THEOREM OneGeneration == Spec => []OneGenerationWhileGuarded
<1>1. WorkingHoldsKey => OneGenerationWhileGuarded
  BY DEF WorkingHoldsKey, OneGenerationWhileGuarded
<1> QED
  BY <1>1, GuardInvariant, PTL

\* A release by task k takes the key from another working task only when it is
\* k's second release, or k had lost its own key before.
LEMMA ReleaseRobs ==
  ASSUME TypeOK, WorkingHoldsKey, NEW k \in Turns, NEW from \in WorkingSteps \cup SecondRelease,
         NEW to \in JobSteps \ {from}, ReleaseKey(k, from, to),
         NEW t \in unguarded' \ unguarded
  PROVE  /\ k # t
         /\ job[k] \in SecondRelease \/ k \in unguarded
         /\ job'[k] # job[k]
<1>1. t \in Turns \ {k} /\ genKey[UserOf(k)] = t
  BY DEF ReleaseKey
<1>2. job[k] = from /\ job'[k] = to
  BY DEF ReleaseKey, JobStep, TypeOK
<1>3. CASE from \in WorkingSteps
  BY <1>1, <1>2, <1>3 DEF WorkingHoldsKey, Working
<1>4. CASE from \in SecondRelease
  BY <1>1, <1>2, <1>4
<1> QED
  BY <1>1, <1>2, <1>3, <1>4

\* A working task loses the generation key only to a stray release, to its
\* own TTL or to its own restart (the action property of the same name).
THEOREM GuardLoss == Spec => GuardLostOnlyToStrayRelease
<1> DEFINE Lost(t) ==
      \/ \E k \in Turns \ {t} :
           /\ job[k] \in SecondRelease \/ k \in unguarded
           /\ job'[k] # job[k]
      \/ GenKeyLapses /\ job' = job
      \/ job[t] \in RespondWorking \cup SecondRelease /\ job'[t] = "prQueued"
<1>1. ASSUME TypeOK, WorkingHoldsKey, [Next]_vars, NEW t \in unguarded' \ unguarded
      PROVE  Lost(t)
  <2> USE DEF WorkingSteps, GenerateWorking, RespondWorking, SecondRelease, EndedSteps, JobSteps
  <2>1. ASSUME NEW k \in Turns, Handler(k) PROVE FALSE
    BY <1>1, <2>1 DEF Handler, ReqCheck, ReqLock, ReqSpam, ReqRefuse, CreateSession, SendSave,
         SendLink, RetryRead, Enqueue, EnqueueFails, ReqUnlock
  <2>2. ASSUME NEW k \in Turns, Generate(k) PROVE Lost(t)
    <3>1. CASE ErrRelease(k)
      BY <1>1, <3>1, ReleaseRobs DEF ErrRelease
    <3>2. CASE OuterRelease(k)
      BY <1>1, <3>2, ReleaseRobs DEF OuterRelease
    <3>3. CASE OuterReleaseAgain(k)
      BY <1>1, <3>3, ReleaseRobs DEF OuterReleaseAgain
    <3> QED
      BY <1>1, <2>2, <3>1, <3>2, <3>3 DEF Generate, JobClear, JobLookup, JobAcquire,
           JobHistory, ProviderAnswers, ProviderFails, CheckTombstone, Publish, PublishFails,
           ErrCommit, OuterCommit, AddErrorResult
  <2>3. ASSUME NEW k \in Turns, Respond(k) PROVE Lost(t)
    <3>1. CASE PrErrRelease(k)
      BY <1>1, <3>1, ReleaseRobs DEF PrErrRelease
    <3>2. CASE PrReleaseAgain(k)
      BY <1>1, <3>2, ReleaseRobs DEF PrReleaseAgain
    <3>3. CASE PrRelease(k)
      BY <1>1, <3>3, ReleaseRobs DEF PrRelease
    <3> QED
      BY <1>1, <2>3, <3>1, <3>2, <3>3 DEF Respond, PrCommit, PrReject, PrErrCommit,
           AddErrorResult
  <2>4. ASSUME NEW k \in Turns, Dies(k) PROVE Lost(t)
    BY <1>1, <2>4 DEF Dies, ApiDies, GenerateDies, RespondDies, TypeOK
  <2>5. ASSUME NEW u \in Users, GenKeyExpires(u) PROVE Lost(t)
    BY <1>1, <2>5 DEF GenKeyExpires
  <2>6. ASSUME \/ CleanupOldResults
               \/ \E s \in Sessions : DeleteChat(s) \/ DelKeyExpires(s)
               \/ \E u \in Users : CreKeyExpires(u)
               \/ UNCHANGED vars
        PROVE  FALSE
    BY <1>1, <2>6 DEF vars, CleanupOldResults, DeleteChat, SetTombstone, DeleteRows,
         DelKeyExpires, CreKeyExpires
  <2> QED
    BY <1>1, <2>1, <2>2, <2>3, <2>4, <2>5, <2>6 DEF Next
<1>2. TypeOK /\ WorkingHoldsKey /\ [Next]_vars
        => [\A t \in unguarded' \ unguarded : Lost(t)]_vars
  BY <1>1
<1> QED
  BY <1>2, TypeCorrect, GuardInvariant, PTL DEF Spec, GuardLostOnlyToStrayRelease

-----------------------------------------------------------------------------
(* The creation key *)

\* A step that leaves the creation keys alone and lets nobody past chat_lock.
QuietForCreKey ==
  /\ UNCHANGED <<creKey, target>>
  /\ \A k \in Turns : req'[k] \in InHandler => req[k] \in InHandler

\* Every step keeps the creation key in the hands of the handler inside chat_lock.
LEMMA HandlerStep == TypeOK /\ HandlerHoldsKey /\ [Next]_vars => HandlerHoldsKey'
<1> SUFFICES ASSUME TypeOK, HandlerHoldsKey, [Next]_vars PROVE HandlerHoldsKey'
  OBVIOUS
<1> SUFFICES ASSUME ~CreKeyLapses PROVE HandlerHoldsKey'
  BY DEF HandlerHoldsKey
<1>0. QuietForCreKey => HandlerHoldsKey'
  BY DEF QuietForCreKey, HandlerHoldsKey, UserOf
<1>1. ASSUME NEW t \in Turns, Handler(t) PROVE HandlerHoldsKey'
  <2>0. UserOf(t) \in Users /\ \A k \in Turns \ {t} : req'[k] = req[k]
    BY <1>1, OwnerAssumption DEF TypeOK, UserOf, Handler, ReqCheck, ReqLock, ReqSpam,
         ReqRefuse, CreateSession, SendSave, SendLink, RetryRead, Enqueue, EnqueueFails, ReqUnlock
  <2>1. CASE ReqLock(t)
    <3>1. ASSUME NEW k \in Turns \ {t}, req[k] \in InHandler, UserOf(k) = UserOf(t)
          PROVE  FALSE
      BY <2>1, <3>1, NoneAssumption DEF ReqLock, HandlerHoldsKey
    <3> QED
      BY <2>0, <2>1, <3>1 DEF ReqLock, HandlerHoldsKey, TypeOK, UserOf, plan
  <2>2. CASE ReqUnlock(t)
    <3>1. ~(req'[t] \in InHandler) /\ creKey[UserOf(t)] = t
      BY <2>2 DEF ReqUnlock, TypeOK, InHandler, HandlerHoldsKey
    <3> QED
      BY <2>0, <2>2, <3>1 DEF ReqUnlock, HandlerHoldsKey, TypeOK, UserOf, plan
  <2>3. CASE ~ReqLock(t) /\ ~ReqUnlock(t)
    <3>1. QuietForCreKey
      BY <1>1, <2>0, <2>3 DEF QuietForCreKey, InHandler, TypeOK, keys, plan, Handler, ReqCheck,
           ReqSpam, ReqRefuse, CreateSession, SendSave, SendLink, RetryRead, Enqueue, EnqueueFails
    <3> QED
      BY <3>1, <1>0
  <2> QED
    BY <2>1, <2>2, <2>3
<1>2. ASSUME NEW t \in Turns, Generate(t) \/ Respond(t) PROVE HandlerHoldsKey'
  <2>1. QuietForCreKey
    BY <1>2 DEF QuietForCreKey, keys, plan, Generate, Respond,
         JobClear, JobLookup, JobAcquire, JobHistory, ProviderAnswers, ProviderFails,
         CheckTombstone, Publish, PublishFails, ErrCommit, ErrRelease, OuterCommit,
         OuterRelease, OuterReleaseAgain, PrCommit, PrReject, PrErrCommit, PrErrRelease,
         PrReleaseAgain, PrRelease, AddErrorResult, ReleaseKey
  <2> QED
    BY <2>1, <1>0
<1>3. ASSUME NEW t \in Turns, Dies(t) PROVE HandlerHoldsKey'
  <2>1. QuietForCreKey
    BY <1>3 DEF QuietForCreKey, TypeOK, InHandler, keys, plan, Dies, ApiDies, GenerateDies,
         RespondDies
  <2> QED
    BY <2>1, <1>0
<1>4. ASSUME NEW u \in Users, CreKeyExpires(u) PROVE HandlerHoldsKey'
  <2>1. \A k \in Turns : req[k] \in InHandler => UserOf(k) # u
    BY <1>4 DEF CreKeyExpires, HandlerHoldsKey, InHandler
  <2> QED
    BY <1>4, <2>1 DEF CreKeyExpires, HandlerHoldsKey, TypeOK, UserOf, plan
<1>5. ASSUME \/ CleanupOldResults
             \/ \E s \in Sessions : DeleteChat(s) \/ DelKeyExpires(s)
             \/ \E u \in Users : GenKeyExpires(u)
             \/ UNCHANGED vars
      PROVE  HandlerHoldsKey'
  <2>1. QuietForCreKey
    BY <1>5 DEF QuietForCreKey, vars, keys, plan, CleanupOldResults, DeleteChat, SetTombstone,
         DeleteRows, DelKeyExpires, GenKeyExpires
  <2> QED
    BY <2>1, <1>0
<1> QED
  BY <1>1, <1>2, <1>3, <1>4, <1>5 DEF Next

\* chat_lock lets one handler per user through while the creation key lives
\* longer than a handler: no check of another request falls between the
\* generation-key check, the message and the enqueueing of an earlier one.
THEOREM OneHandler == Spec => []OneHandlerPerUser
<1>1. Init => HandlerHoldsKey
  BY DEF Init, HandlerHoldsKey, InHandler
<1>2. TypeOK /\ HandlerHoldsKey /\ [Next]_vars => HandlerHoldsKey'
  BY HandlerStep
<1>3. HandlerHoldsKey => OneHandlerPerUser
  BY DEF HandlerHoldsKey, OneHandlerPerUser
<1> QED
  BY <1>1, <1>2, <1>3, TypeCorrect, PTL DEF Spec

-----------------------------------------------------------------------------
(* Deleted sessions *)

\* Every step keeps the tables empty of sessions that have no row.
LEMMA RowsStep ==
  TypeOK /\ NothingOutlivesItsSession /\ [Next]_vars => NothingOutlivesItsSession'
<1> SUFFICES ASSUME TypeOK, NothingOutlivesItsSession, [Next]_vars
             PROVE  NothingOutlivesItsSession'
  OBVIOUS
<1> USE DEF NothingOutlivesItsSession, HasRows, rows
<1>1. ASSUME NEW t \in Turns, Handler(t) PROVE NothingOutlivesItsSession'
  BY <1>1 DEF TypeOK, Handler, ReqCheck, ReqLock, ReqSpam, ReqRefuse, CreateSession,
       SendSave, SendLink, RetryRead, Enqueue, EnqueueFails, ReqUnlock
<1>2. ASSUME NEW t \in Turns, Generate(t) PROVE NothingOutlivesItsSession'
  BY <1>2 DEF TypeOK, Generate, JobClear, JobLookup, JobAcquire, JobHistory, ProviderAnswers,
       ProviderFails, CheckTombstone, Publish, PublishFails, ErrCommit, ErrRelease,
       OuterCommit, OuterRelease, OuterReleaseAgain, AddErrorResult, ReleaseKey, CanInsertResult
<1>3. ASSUME NEW t \in Turns, Respond(t) PROVE NothingOutlivesItsSession'
  BY <1>3 DEF TypeOK, Respond, PrCommit, PrReject, PrErrCommit, PrErrRelease, PrReleaseAgain,
       PrRelease, AddErrorResult, ReleaseKey, CanInsertResult
<1>4. ASSUME NEW s \in Sessions, DeleteChat(s) \/ DelKeyExpires(s)
      PROVE  NothingOutlivesItsSession'
  BY <1>4 DEF TypeOK, DeleteChat, SetTombstone, DeleteRows, DelKeyExpires
<1>5. ASSUME \/ \E t \in Turns : Dies(t)
             \/ CleanupOldResults
             \/ \E u \in Users : GenKeyExpires(u) \/ CreKeyExpires(u)
             \/ UNCHANGED vars
      PROVE  NothingOutlivesItsSession'
  BY <1>5 DEF vars, TypeOK, Dies, ApiDies, GenerateDies, RespondDies, CleanupOldResults,
       GenKeyExpires, CreKeyExpires
<1> QED
  BY <1>1, <1>2, <1>3, <1>4, <1>5 DEF Next

\* No late commit of a handler or a worker brings rows of a deleted session back.
THEOREM DeletedStaysDeleted == Spec => []NothingOutlivesItsSession
<1>1. Init => NothingOutlivesItsSession
  BY DEF Init, NothingOutlivesItsSession, HasRows
<1>2. TypeOK /\ NothingOutlivesItsSession /\ [Next]_vars => NothingOutlivesItsSession'
  BY RowsStep
<1> QED
  BY <1>1, <1>2, TypeCorrect, PTL DEF Spec

-----------------------------------------------------------------------------
(* The stored conversation *)

\* While a session has rows its conversation only grows at its end.
ChatGrows ==
  \A s \in Sessions :
    (session[s] # "absent" /\ HasRows(s)') =>
      /\ HasRows(s)
      /\ \A i \in DOMAIN msgs[s] : i \in DOMAIN msgs'[s] /\ msgs'[s][i] = msgs[s][i]

\* No step takes a message out of a chat, other than with its session.
LEMMA ChatGrowsStep == TypeOK /\ [Next]_vars => ChatGrows
<1> SUFFICES ASSUME TypeOK, [Next]_vars, NEW s \in Sessions,
                    session[s] # "absent", HasRows(s)'
             PROVE  /\ HasRows(s)
                    /\ \A i \in DOMAIN msgs[s] :
                         i \in DOMAIN msgs'[s] /\ msgs'[s][i] = msgs[s][i]
  BY DEF ChatGrows
<1> DEFINE Goal == /\ HasRows(s)
                   /\ \A i \in DOMAIN msgs[s] :
                        i \in DOMAIN msgs'[s] /\ msgs'[s][i] = msgs[s][i]
<1>0. ASSUME NEW m, msgs'[s] = Append(msgs[s], m), session' = session PROVE Goal
  <2>1. msgs[s] \in Seq(Message)
    BY DEF TypeOK
  <2> QED
    BY <2>1, <1>0 DEF HasRows
<1>1. CASE msgs' = msgs /\ session' = session
  BY <1>1 DEF HasRows
<1>2. ASSUME NEW t \in Turns, Handler(t) PROVE Goal
  <2>1. CASE SendSave(t)
    BY <2>1, <1>0, <1>1 DEF SendSave, TypeOK, HasRows
  <2>2. CASE CreateSession(t)
    BY <2>2 DEF CreateSession, TypeOK, HasRows
  <2> QED
    BY <1>2, <1>1, <2>1, <2>2 DEF rows, Handler, ReqCheck, ReqLock, ReqSpam, ReqRefuse, CreateSession,
         SendSave, SendLink, RetryRead, Enqueue, EnqueueFails, ReqUnlock
<1>3. ASSUME NEW t \in Turns, Generate(t) PROVE Goal
  BY <1>3, <1>1 DEF rows, Generate, JobClear, JobLookup, JobAcquire, JobHistory, ProviderAnswers,
         ProviderFails, CheckTombstone, Publish, PublishFails, ErrCommit, ErrRelease,
         OuterCommit, OuterRelease, OuterReleaseAgain, AddErrorResult, ReleaseKey, JobStep
<1>4. ASSUME NEW t \in Turns, Respond(t) PROVE Goal
  <2>1. CASE PrCommit(t)
    <3>1. CASE s = target[t] /\ CanInsertResult(s)
      BY <2>1, <3>1, <1>0 DEF PrCommit, TypeOK
    <3>2. CASE ~(s = target[t] /\ CanInsertResult(s))
      BY <2>1, <3>2 DEF PrCommit, TypeOK, HasRows
    <3> QED
      BY <3>1, <3>2
  <2> QED
    BY <1>4, <1>1, <2>1 DEF rows, Respond, PrCommit, PrReject, PrErrCommit, PrErrRelease, PrReleaseAgain,
         PrRelease, AddErrorResult, ReleaseKey, JobStep
<1>5. ASSUME NEW x \in Sessions, DeleteChat(x) \/ DelKeyExpires(x) PROVE Goal
  BY <1>5 DEF rows, DeleteChat, SetTombstone, DeleteRows, DelKeyExpires, TypeOK, HasRows
<1>6. ASSUME \/ \E t \in Turns : Dies(t)
             \/ \E u \in Users : GenKeyExpires(u) \/ CreKeyExpires(u)
             \/ CleanupOldResults
             \/ UNCHANGED vars
      PROVE  Goal
  BY <1>6, <1>1 DEF rows, vars, Dies, ApiDies, GenerateDies, RespondDies,
       CleanupOldResults, GenKeyExpires, CreKeyExpires
<1> QED
  BY <1>2, <1>3, <1>4, <1>5, <1>6 DEF Next

\* A turn is enqueued once, and only for a session that existed.
LEMMA EnqueuedStep ==
  TypeOK /\ EnqueuedOnce /\ SessionExisted /\ [Next]_vars => EnqueuedOnce' /\ SessionExisted'
<1> SUFFICES ASSUME TypeOK, EnqueuedOnce, SessionExisted, [Next]_vars
             PROVE  EnqueuedOnce' /\ SessionExisted'
  OBVIOUS
<1> USE DEF EnqueuedOnce, SessionExisted, TypeOK, HasRows, rows, plan, keys, WorkingSteps,
        GenerateWorking, RespondWorking, InHandler
<1>1. ASSUME NEW t \in Turns, Handler(t) PROVE EnqueuedOnce' /\ SessionExisted'
  <2>1. CASE Enqueue(t)
    <3>1. job' = [job EXCEPT ![t] = "queued"] /\ req' = [req EXCEPT ![t] = "unlocking"]
      BY <2>1 DEF Enqueue
    <3>2. EnqueuedOnce'
      BY <3>1
    <3>3. SessionExisted'
      BY <2>1, <3>1 DEF Enqueue
    <3> QED
      BY <3>2, <3>3
  <2>2. CASE ~Enqueue(t)
    <3>1. /\ job' = job /\ target' = target
          /\ \A k \in Turns : req'[k] \in {"idle", "checked", "locked", "saved", "linked"}
                              => req[k] \in {"idle", "checked", "locked", "saved", "linked"}
      BY <1>1, <2>2 DEF Handler, ReqCheck, ReqLock, ReqSpam, ReqRefuse, CreateSession,
           SendSave, SendLink, RetryRead, EnqueueFails, ReqUnlock
    <3>2. \A s \in Sessions : session'[s] = "absent" => session[s] = "absent"
      BY <1>1, <2>2 DEF Handler, ReqCheck, ReqLock, ReqSpam, ReqRefuse, CreateSession,
           SendSave, SendLink, RetryRead, EnqueueFails, ReqUnlock
    <3> QED
      BY <3>1, <3>2
  <2> QED
    BY <2>1, <2>2
<1>2. ASSUME NEW t \in Turns, Generate(t) PROVE EnqueuedOnce' /\ SessionExisted'
  BY <1>2 DEF Generate, JobClear, JobLookup, JobAcquire, JobHistory, ProviderAnswers,
         ProviderFails, CheckTombstone, Publish, PublishFails, ErrCommit, ErrRelease,
         OuterCommit, OuterRelease, OuterReleaseAgain, AddErrorResult, ReleaseKey, JobStep
<1>3. ASSUME NEW t \in Turns, Respond(t) PROVE EnqueuedOnce' /\ SessionExisted'
  BY <1>3 DEF Respond, PrCommit, PrReject, PrErrCommit, PrErrRelease, PrReleaseAgain,
         PrRelease, AddErrorResult, ReleaseKey, JobStep
<1>4. ASSUME NEW t \in Turns, Dies(t) PROVE EnqueuedOnce' /\ SessionExisted'
  <2>1. CASE ApiDies(t)
    BY <2>1 DEF ApiDies
  <2>2. CASE GenerateDies(t)
    BY <2>2 DEF GenerateDies
  <2>3. CASE RespondDies(t)
    BY <2>3 DEF RespondDies
  <2> QED
    BY <1>4, <2>1, <2>2, <2>3 DEF Dies
<1>5. ASSUME \/ \E s \in Sessions : DeleteChat(s) \/ DelKeyExpires(s)
             \/ \E u \in Users : GenKeyExpires(u) \/ CreKeyExpires(u)
             \/ CleanupOldResults
             \/ UNCHANGED vars
      PROVE  EnqueuedOnce' /\ SessionExisted'
  BY <1>5 DEF vars, CleanupOldResults, DeleteChat, SetTombstone, DeleteRows, DelKeyExpires,
       GenKeyExpires, CreKeyExpires
<1> QED
  BY <1>1, <1>2, <1>3, <1>4, <1>5 DEF Next

\* The history that goes out ends with a user message of the chat.
LEMMA AskedIsInChat ==
  ASSUME TypeOK, NEW t \in Turns, JobHistory(t), job'[t] = "calling"
  PROVE  \E i \in UserRows(msgs[target[t]]) :
           /\ msgs[target[t]][i] = [role |-> "user", turn |-> asked'[t]]
           /\ \A k \in UserRows(msgs[target[t]]) : k <= i
<1> DEFINE rs == msgs[target[t]]
           h == HistoryUpToLastUserMessage(rs)
<1>1. rs \in Seq(Message)
  BY DEF TypeOK
<1>2. h # <<>> /\ asked'[t] = h[Len(h)].turn
  BY DEF JobHistory, JobStep, TypeOK
<1> HIDE DEF h
<1>3. PICK i \in UserRows(rs) : /\ Len(h) = i
                                /\ \A k \in 1..i : h[k] = rs[k]
                                /\ \A k \in UserRows(rs) : k <= i
  BY <1>1, <1>2, HistoryCut DEF h
<1>4. i \in 1..Len(rs) /\ rs[i] \in Message /\ rs[i].role = "user" /\ h[Len(h)] = rs[i]
  BY <1>1, <1>3 DEF UserRows
<1>5. rs[i] = [role |-> "user", turn |-> asked'[t]]
  BY <1>2, <1>4 DEF Message
<1> QED
  BY <1>3, <1>5

\* Every step keeps the question of a task that answers it in the chat.
LEMMA QuestionKeptStep ==
  TypeOK /\ SessionExisted /\ QuestionKept /\ [Next]_vars => QuestionKept'
<1> SUFFICES ASSUME TypeOK, SessionExisted, QuestionKept, [Next]_vars,
                    NEW t \in Turns, job'[t] \in Answering, HasRows(target[t])'
             PROVE  QuestionInChat(t, target[t])'
  BY DEF QuestionKept
<1>1. ChatGrows
  BY ChatGrowsStep
<1>2. target' = target
  BY DEF Next, vars, plan, Handler, Generate, Respond,
         ReqCheck, ReqLock, ReqSpam, ReqRefuse, CreateSession,
         SendSave, SendLink, RetryRead, Enqueue, EnqueueFails, ReqUnlock,
         JobClear, JobLookup, JobAcquire, JobHistory, ProviderAnswers,
         ProviderFails, CheckTombstone, Publish, PublishFails, ErrCommit, ErrRelease,
         OuterCommit, OuterRelease, OuterReleaseAgain, AddErrorResult, ReleaseKey,
         PrCommit, PrReject, PrErrCommit, PrErrRelease, PrReleaseAgain, PrRelease,
         Dies, ApiDies, GenerateDies, RespondDies, CleanupOldResults,
         DeleteChat, SetTombstone, DeleteRows, DelKeyExpires, GenKeyExpires, CreKeyExpires
<1>3. CASE job[t] \in Answering /\ asked'[t] = asked[t]
  <2>1. target[t] \in Sessions /\ session[target[t]] # "absent"
    BY <1>3 DEF TypeOK, SessionExisted, Answering, RespondWorking
  <2>2. HasRows(target[t])
    BY <1>1, <1>2, <2>1 DEF ChatGrows, HasRows
  <2>3. PICK i \in DOMAIN msgs[target[t]] :
          msgs[target[t]][i] = [role |-> "user", turn |-> asked[t]]
    BY <1>3, <2>2 DEF QuestionKept, QuestionInChat
  <2>4. i \in DOMAIN msgs'[target[t]] /\ msgs'[target[t]][i] = msgs[target[t]][i]
    BY <1>1, <1>2, <2>1, <2>3 DEF ChatGrows, HasRows
  <2> QED
    BY <1>2, <1>3, <2>3, <2>4 DEF QuestionInChat
<1>4. CASE JobHistory(t)
  <2>1. job'[t] = "calling"
    BY <1>4 DEF JobHistory, JobStep, TypeOK, Answering, RespondWorking
  <2>2. msgs' = msgs /\ UserRows(msgs[target[t]]) \subseteq DOMAIN msgs[target[t]]
    BY <1>4 DEF JobHistory, rows, UserRows
  <2> QED
    BY <1>2, <1>4, <2>1, <2>2, AskedIsInChat DEF QuestionInChat
<1>5. (job[t] \in Answering /\ asked'[t] = asked[t]) \/ JobHistory(t)
  <2> USE DEF TypeOK, Answering, RespondWorking, GenerateWorking
  <2>1. ASSUME NEW k \in Turns, Handler(k) PROVE job[t] \in Answering /\ asked'[t] = asked[t]
    BY <2>1 DEF Handler, ReqCheck, ReqLock, ReqSpam, ReqRefuse, CreateSession,
         SendSave, SendLink, RetryRead, Enqueue, EnqueueFails, ReqUnlock
  <2>2. ASSUME NEW k \in Turns, Generate(k), ~JobHistory(t)
        PROVE  job[t] \in Answering /\ asked'[t] = asked[t]
    <3>1. k # t => job'[t] = job[t] /\ asked'[t] = asked[t]
      BY <2>2 DEF Generate, JobClear, JobLookup, JobAcquire, JobHistory, ProviderAnswers,
         ProviderFails, CheckTombstone, Publish, PublishFails, ErrCommit, ErrRelease,
         OuterCommit, OuterRelease, OuterReleaseAgain, AddErrorResult, ReleaseKey, JobStep
    <3>2. k = t => job[t] \in Answering /\ asked'[t] = asked[t]
      BY <2>2 DEF Generate, JobClear, JobLookup, JobAcquire, ProviderAnswers,
         ProviderFails, CheckTombstone, Publish, PublishFails, ErrCommit, ErrRelease,
         OuterCommit, OuterRelease, OuterReleaseAgain, AddErrorResult, ReleaseKey, JobStep
    <3> QED
      BY <3>1, <3>2
  <2>3. ASSUME NEW k \in Turns, Respond(k) PROVE job[t] \in Answering /\ asked'[t] = asked[t]
    BY <2>3 DEF Respond, PrCommit, PrReject, PrErrCommit, PrErrRelease, PrReleaseAgain,
         PrRelease, AddErrorResult, ReleaseKey, JobStep
  <2>4. ASSUME NEW k \in Turns, Dies(k) PROVE job[t] \in Answering /\ asked'[t] = asked[t]
    BY <2>4 DEF Dies, ApiDies, GenerateDies, RespondDies
  <2>5. ASSUME \/ \E s \in Sessions : DeleteChat(s) \/ DelKeyExpires(s)
               \/ \E u \in Users : GenKeyExpires(u) \/ CreKeyExpires(u)
               \/ CleanupOldResults
               \/ UNCHANGED vars
        PROVE  job[t] \in Answering /\ asked'[t] = asked[t]
    BY <2>5 DEF vars, CleanupOldResults, DeleteChat, SetTombstone, DeleteRows, DelKeyExpires,
         GenKeyExpires, CreKeyExpires
  <2> QED
    BY <2>1, <2>2, <2>3, <2>4, <2>5 DEF Next
<1> QED
  BY <1>3, <1>4, <1>5

\* A task taken up by process_response stays with it, and its question is fixed.
LEMMA ResponderStep ==
  ASSUME TypeOK, EnqueuedOnce, [Next]_vars, NEW t \in Turns, job[t] \in Responding
  PROVE  job'[t] \in Responding /\ asked'[t] = asked[t]
<1> USE DEF TypeOK, Responding, RespondWorking, GenerateWorking
<1>1. ASSUME NEW k \in Turns, Handler(k) PROVE job'[t] \in Responding /\ asked'[t] = asked[t]
  BY <1>1 DEF EnqueuedOnce, Handler, ReqCheck, ReqLock, ReqSpam, ReqRefuse, CreateSession,
       SendSave, SendLink, RetryRead, Enqueue, EnqueueFails, ReqUnlock
<1>2. ASSUME NEW k \in Turns, Generate(k) PROVE job'[t] \in Responding /\ asked'[t] = asked[t]
  BY <1>2 DEF Generate, JobClear, JobLookup, JobAcquire, JobHistory, ProviderAnswers,
       ProviderFails, CheckTombstone, Publish, PublishFails, ErrCommit, ErrRelease,
       OuterCommit, OuterRelease, OuterReleaseAgain, AddErrorResult, ReleaseKey, JobStep
<1>3. ASSUME NEW k \in Turns, Respond(k) PROVE job'[t] \in Responding /\ asked'[t] = asked[t]
  BY <1>3 DEF Respond, PrCommit, PrReject, PrErrCommit, PrErrRelease, PrReleaseAgain,
       PrRelease, AddErrorResult, ReleaseKey, JobStep
<1>4. ASSUME NEW k \in Turns, Dies(k) PROVE job'[t] \in Responding /\ asked'[t] = asked[t]
  BY <1>4 DEF Dies, ApiDies, GenerateDies, RespondDies
<1>5. ASSUME \/ \E s \in Sessions : DeleteChat(s) \/ DelKeyExpires(s)
             \/ \E u \in Users : GenKeyExpires(u) \/ CreKeyExpires(u)
             \/ CleanupOldResults
             \/ UNCHANGED vars
      PROVE  job'[t] \in Responding /\ asked'[t] = asked[t]
  BY <1>5 DEF vars, CleanupOldResults, DeleteChat, SetTombstone, DeleteRows, DelKeyExpires,
       GenKeyExpires, CreKeyExpires
<1> QED
  BY <1>1, <1>2, <1>3, <1>4, <1>5 DEF Next

\* Only the commit of process_response stores a success row.
LEMMA NewSuccess ==
  ASSUME TypeOK, [Next]_vars, NEW s \in Sessions,
         result'[s] # result[s], result'[s] # None, result'[s].type = "success"
  PROVE  \E t \in Turns : PrCommit(t) /\ s = target[t] /\ CanInsertResult(s)
<1> USE DEF TypeOK, rows
<1>1. ASSUME NEW k \in Turns, Handler(k) PROVE FALSE
  BY <1>1 DEF Handler, ReqCheck, ReqLock, ReqSpam, ReqRefuse, CreateSession,
       SendSave, SendLink, RetryRead, Enqueue, EnqueueFails, ReqUnlock
<1>2. ASSUME NEW k \in Turns, Generate(k) PROVE FALSE
  BY <1>2 DEF Generate, JobClear, JobLookup, JobAcquire, JobHistory, ProviderAnswers,
       ProviderFails, CheckTombstone, Publish, PublishFails, ErrCommit, ErrRelease,
       OuterCommit, OuterRelease, OuterReleaseAgain, AddErrorResult, ReleaseKey
<1>3. ASSUME NEW k \in Turns, Respond(k)
      PROVE  PrCommit(k) /\ s = target[k] /\ CanInsertResult(s)
  BY <1>3 DEF Respond, PrCommit, PrReject, PrErrCommit, PrErrRelease, PrReleaseAgain,
       PrRelease, AddErrorResult, ReleaseKey
<1>4. ASSUME \/ \E t \in Turns : Dies(t)
             \/ \E x \in Sessions : DeleteChat(x) \/ DelKeyExpires(x)
             \/ \E u \in Users : GenKeyExpires(u) \/ CreKeyExpires(u)
             \/ CleanupOldResults
             \/ UNCHANGED vars
      PROVE  FALSE
  BY <1>4 DEF vars, Dies, ApiDies, GenerateDies, RespondDies, CleanupOldResults,
       DeleteChat, SetTombstone, DeleteRows, DelKeyExpires, GenKeyExpires, CreKeyExpires
<1> QED
  BY <1>1, <1>2, <1>3, <1>4 DEF Next

Backed == BackingInv /\ NothingOutlivesItsSession /\ SuccessIsBackedByTheChat

\* Every step keeps every success row backed by its question and its answer.
LEMMA BackedStep == TypeOK /\ Backed /\ [Next]_vars => Backed'
<1> SUFFICES ASSUME TypeOK, Backed, [Next]_vars PROVE Backed'
  OBVIOUS
<1>1. NothingOutlivesItsSession'
  BY RowsStep DEF Backed
<1>2. EnqueuedOnce' /\ SessionExisted'
  BY EnqueuedStep DEF Backed, BackingInv
<1>3. QuestionKept'
  BY QuestionKeptStep DEF Backed, BackingInv
<1>4. ASSUME NEW s \in Sessions, result'[s] # None, result'[s].type = "success"
      PROVE  /\ job'[result'[s].turn] \in Responding
             /\ \E i, k \in DOMAIN msgs'[s] :
                  /\ i < k
                  /\ msgs'[s][i] = [role |-> "user", turn |-> asked'[result'[s].turn]]
                  /\ msgs'[s][k] = [role |-> "assistant", turn |-> result'[s].turn]
  <2>1. CASE result'[s] = result[s]
    <3> DEFINE t == result[s].turn
    <3>1. t \in Turns /\ job[t] \in Responding
      BY <1>4, <2>1 DEF TypeOK, ResultRow, Backed, BackingInv, SuccessFromResponder
    <3>2. job'[t] \in Responding /\ asked'[t] = asked[t]
      BY <3>1, ResponderStep DEF Backed, BackingInv
    <3>3. HasRows(s) /\ HasRows(s)'
      BY <1>1, <1>4, <2>1 DEF Backed, NothingOutlivesItsSession
    <3>4. PICK i, k \in DOMAIN msgs[s] :
            /\ i < k
            /\ msgs[s][i] = [role |-> "user", turn |-> asked[t]]
            /\ msgs[s][k] = [role |-> "assistant", turn |-> t]
      BY <1>4, <2>1 DEF Backed, SuccessIsBackedByTheChat
    <3>5. \A x \in DOMAIN msgs[s] : x \in DOMAIN msgs'[s] /\ msgs'[s][x] = msgs[s][x]
      BY <3>3, ChatGrowsStep DEF ChatGrows, HasRows
    <3> QED
      BY <2>1, <3>2, <3>4, <3>5
  <2>2. CASE result'[s] # result[s]
    <3>1. PICK t \in Turns : PrCommit(t) /\ s = target[t] /\ CanInsertResult(s)
      BY <1>4, <2>2, NewSuccess
    <3>2. /\ result'[s] = [type |-> "success", turn |-> t]
          /\ msgs'[s] = Append(msgs[s], [role |-> "assistant", turn |-> t])
          /\ asked' = asked /\ job[t] = "prQueued" /\ job'[t] = "prRelease"
      BY <3>1 DEF PrCommit, JobStep, TypeOK
    <3>3. PICK i \in DOMAIN msgs[s] : msgs[s][i] = [role |-> "user", turn |-> asked[t]]
      BY <3>1, <3>2 DEF Backed, BackingInv, QuestionKept, QuestionInChat, Answering,
           RespondWorking, CanInsertResult
    <3>4. msgs[s] \in Seq(Message)
      BY DEF TypeOK
    <3> DEFINE m == [role |-> "assistant", turn |-> t]
               n == Len(msgs[s]) + 1
    <3> HIDE DEF m
    <3>5. /\ i < n /\ i \in DOMAIN msgs'[s] /\ n \in DOMAIN msgs'[s]
          /\ msgs'[s][i] = msgs[s][i] /\ msgs'[s][n] = m
      BY <3>2, <3>3, <3>4 DEF m
    <3> QED
      BY <3>2, <3>3, <3>5 DEF Responding, RespondWorking, m
  <2> QED
    BY <2>1, <2>2
<1> QED
  BY <1>1, <1>2, <1>3, <1>4 DEF Backed, BackingInv, SuccessFromResponder,
       SuccessIsBackedByTheChat

\* Whatever crashes, lapses or comes late: a turn that is reported as answered
\* has its question and its answer in the stored chat, in this order.
THEOREM SuccessIsBacked == Spec => []SuccessIsBackedByTheChat
<1>1. Init => Backed
  BY DEF Init, Backed, BackingInv, EnqueuedOnce, SessionExisted, QuestionKept, Answering,
       RespondWorking, SuccessFromResponder, NothingOutlivesItsSession, HasRows,
       SuccessIsBackedByTheChat
<1>2. TypeOK /\ Backed /\ [Next]_vars => Backed'
  BY BackedStep
<1>3. Backed => SuccessIsBackedByTheChat
  BY DEF Backed
<1> QED
  BY <1>1, <1>2, <1>3, TypeCorrect, PTL DEF Spec

-----------------------------------------------------------------------------
(* What is asked *)

\* Every step keeps the system prompt in the first place.
LEMMA SystemFirstStep == TypeOK /\ SystemPromptFirst /\ [Next]_vars => SystemPromptFirst'
<1> SUFFICES ASSUME TypeOK, SystemPromptFirst, [Next]_vars, NEW s \in Sessions
             PROVE  \A k \in DOMAIN msgs'[s] : msgs'[s][k].role = "system" => k = 1
  BY DEF SystemPromptFirst
<1> DEFINE Goal == \A k \in DOMAIN msgs'[s] : msgs'[s][k].role = "system" => k = 1
<1>0. msgs'[s] = msgs[s] => Goal
  BY DEF SystemPromptFirst
<1>1. ASSUME NEW m, m.role # "system", msgs'[s] = Append(msgs[s], m) PROVE Goal
  <2>1. msgs[s] \in Seq(Message)
    BY DEF TypeOK
  <2> QED
    BY <1>1, <2>1 DEF SystemPromptFirst
<1>2. ASSUME NEW t \in Turns, Handler(t) PROVE Goal
  <2>1. CASE SendSave(t)
    <3>1. CASE s = target[t]
      <4>1. msgs'[s] = Append(msgs[s], [role |-> "user", turn |-> t])
        BY <2>1, <3>1 DEF SendSave, TypeOK
      <4>2. [role |-> "user", turn |-> t].role # "system"
        OBVIOUS
      <4> QED
        BY <4>1, <4>2, <1>1
    <3>2. CASE s # target[t]
      BY <2>1, <3>2, <1>0 DEF SendSave, TypeOK
    <3> QED
      BY <3>1, <3>2
  <2>2. CASE CreateSession(t)
    BY <2>2, <1>0 DEF CreateSession, TypeOK
  <2> QED
    BY <1>2, <1>0, <2>1, <2>2 DEF rows, Handler, ReqCheck, ReqLock, ReqSpam, ReqRefuse,
         SendLink, RetryRead, Enqueue, EnqueueFails, ReqUnlock
<1>3. ASSUME NEW t \in Turns, Generate(t) PROVE Goal
  BY <1>3, <1>0 DEF rows, Generate, JobClear, JobLookup, JobAcquire, JobHistory,
       ProviderAnswers, ProviderFails, CheckTombstone, Publish, PublishFails, ErrCommit,
       ErrRelease, OuterCommit, OuterRelease, OuterReleaseAgain, AddErrorResult, ReleaseKey
<1>4. ASSUME NEW t \in Turns, Respond(t) PROVE Goal
  <2>1. CASE PrCommit(t)
    <3>1. CASE s = target[t] /\ CanInsertResult(s)
      <4>1. msgs'[s] = Append(msgs[s], [role |-> "assistant", turn |-> t])
        BY <2>1, <3>1 DEF PrCommit, TypeOK
      <4>2. [role |-> "assistant", turn |-> t].role # "system"
        OBVIOUS
      <4> QED
        BY <4>1, <4>2, <1>1
    <3>2. CASE ~(s = target[t] /\ CanInsertResult(s))
      BY <2>1, <3>2, <1>0 DEF PrCommit, TypeOK
    <3> QED
      BY <3>1, <3>2
  <2> QED
    BY <1>4, <1>0, <2>1 DEF rows, Respond, PrReject, PrErrCommit, PrErrRelease,
         PrReleaseAgain, PrRelease, AddErrorResult, ReleaseKey
<1>5. ASSUME NEW x \in Sessions, DeleteChat(x) \/ DelKeyExpires(x) PROVE Goal
  BY <1>5, <1>0 DEF rows, DeleteChat, SetTombstone, DeleteRows, DelKeyExpires, TypeOK
<1>6. ASSUME \/ \E t \in Turns : Dies(t)
             \/ \E u \in Users : GenKeyExpires(u) \/ CreKeyExpires(u)
             \/ CleanupOldResults
             \/ UNCHANGED vars
      PROVE  Goal
  BY <1>6, <1>0 DEF rows, vars, Dies, ApiDies, GenerateDies, RespondDies,
       CleanupOldResults, GenKeyExpires, CreKeyExpires
<1> QED
  BY <1>2, <1>3, <1>4, <1>5, <1>6 DEF Next

\* A task that starts asking is at the step that reads the history.
LEMMA OnlyHistoryAsks ==
  ASSUME TypeOK, [Next]_vars, NEW t \in Turns, job[t] = "locked", job'[t] = "calling"
  PROVE  JobHistory(t)
<1> USE DEF TypeOK
<1>1. ASSUME NEW k \in Turns, Handler(k) PROVE FALSE
  BY <1>1 DEF Handler, ReqCheck, ReqLock, ReqSpam, ReqRefuse, CreateSession,
       SendSave, SendLink, RetryRead, Enqueue, EnqueueFails, ReqUnlock
<1>2. ASSUME NEW k \in Turns, Generate(k) PROVE JobHistory(t)
  BY <1>2 DEF Generate, JobClear, JobLookup, JobAcquire, JobHistory, ProviderAnswers,
       ProviderFails, CheckTombstone, Publish, PublishFails, ErrCommit, ErrRelease,
       OuterCommit, OuterRelease, OuterReleaseAgain, AddErrorResult, ReleaseKey, JobStep
<1>3. ASSUME NEW k \in Turns, Respond(k) PROVE FALSE
  BY <1>3 DEF Respond, PrCommit, PrReject, PrErrCommit, PrErrRelease, PrReleaseAgain,
       PrRelease, AddErrorResult, ReleaseKey, JobStep
<1>4. ASSUME \/ \E k \in Turns : Dies(k)
             \/ \E x \in Sessions : DeleteChat(x) \/ DelKeyExpires(x)
             \/ \E u \in Users : GenKeyExpires(u) \/ CreKeyExpires(u)
             \/ CleanupOldResults
             \/ UNCHANGED vars
      PROVE  FALSE
  BY <1>4 DEF vars, Dies, ApiDies, GenerateDies, RespondDies, CleanupOldResults,
       DeleteChat, SetTombstone, DeleteRows, DelKeyExpires, GenKeyExpires, CreKeyExpires
<1> QED
  BY <1>1, <1>2, <1>3, <1>4 DEF Next

\* What a task sends ends with the newest user message, also on a retry.
THEOREM AsksNewest == Spec => AsksTheNewestQuestion
<1> DEFINE Asks(t) ==
      (job[t] = "locked" /\ job'[t] = "calling") =>
        \E i \in DOMAIN msgs[target[t]] :
          /\ msgs[target[t]][i] = [role |-> "user", turn |-> asked'[t]]
          /\ \A k \in DOMAIN msgs[target[t]] :
               k > i => msgs[target[t]][k].role = "assistant"
<1>1. Init => SystemPromptFirst
  <2> SUFFICES ASSUME Init PROVE SystemPromptFirst
    OBVIOUS
  <2>1. \A s \in Sessions : msgs[s] = <<>> \/ msgs[s] = <<[role |-> "system", turn |-> None]>>
    BY DEF Init
  <2> QED
    BY <2>1 DEF SystemPromptFirst
<1>2. TypeOK /\ SystemPromptFirst /\ [Next]_vars => SystemPromptFirst'
  BY SystemFirstStep
<1>3. ASSUME TypeOK, SystemPromptFirst, [Next]_vars, NEW t \in Turns PROVE Asks(t)
  <2>1. SUFFICES ASSUME job[t] = "locked", job'[t] = "calling"
        PROVE  \E i \in DOMAIN msgs[target[t]] :
                 /\ msgs[target[t]][i] = [role |-> "user", turn |-> asked'[t]]
                 /\ \A k \in DOMAIN msgs[target[t]] :
                      k > i => msgs[target[t]][k].role = "assistant"
    OBVIOUS
  <2> DEFINE rs == msgs[target[t]]
  <2>2. rs \in Seq(Message) /\ target[t] \in Sessions
    BY <1>3 DEF TypeOK
  <2>3. PICK i \in UserRows(rs) : /\ rs[i] = [role |-> "user", turn |-> asked'[t]]
                                  /\ \A k \in UserRows(rs) : k <= i
    BY <1>3, <2>1, OnlyHistoryAsks, AskedIsInChat
  <2>4. i \in DOMAIN rs /\ i \in 1..Len(rs)
    BY <2>2, <2>3 DEF UserRows
  <2>5. ASSUME NEW k \in DOMAIN rs, k > i PROVE rs[k].role = "assistant"
    <3>1. k \in 1..Len(rs) /\ rs[k] \in Message
      BY <2>2
    <3>2. rs[k].role # "user"
      BY <2>3, <2>4, <2>5, <3>1 DEF UserRows
    <3>3. rs[k].role # "system"
      BY <1>3, <2>2, <2>4, <2>5, <3>1 DEF SystemPromptFirst
    <3> QED
      BY <3>1, <3>2, <3>3 DEF Message, Roles
  <2> QED
    BY <2>3, <2>4, <2>5
<1>4. TypeOK /\ SystemPromptFirst /\ [Next]_vars => [\A t \in Turns : Asks(t)]_vars
  BY <1>3
<1> QED
  BY <1>1, <1>2, <1>4, TypeCorrect, PTL DEF Spec, AsksTheNewestQuestion

-----------------------------------------------------------------------------
(* The conversation *)

\* What the phase of a turn is, by its task and by its handler.
LEMMA PhaseCases ==
  ASSUME NEW j \in JobSteps, NEW r \in ReqSteps
  PROVE  /\ j \in PendingSteps => Phase(j, r) = "pending"
         /\ j \in JobSteps \ (PendingSteps \cup {"none"}) => Phase(j, r) = "settled"
         /\ (j = "none" /\ r \in {"idle", "checked", "locked"}) => Phase(j, r) = "idle"
         /\ (j = "none" /\ r \in {"saved", "linked"}) => Phase(j, r) = "asked"
         /\ (j = "none" /\ r \in {"unlocking", "closed"}) => Phase(j, r) = "over"
BY DEF Phase, PendingSteps, ReqSteps

\* The session as its users see it: a deletion that has begun is not seen.
State(s) == IF session[s] = "doomed" THEN "live" ELSE session[s]

Same(k) == PhaseOf(k)' = PhaseOf(k)

\* A step that changes one turn moves that turn only.
LEMMA MovesOne ==
  ASSUME NEW t \in Turns, NEW from, NEW to, target' = target,
         \A k \in Turns \ {t} : Same(k), PhaseOf(t) \in from, PhaseOf(t)' = to
  PROVE  Chat!Moves(t, from, to)
BY DEF Chat!Moves, Same

\* A step that changes no row, no session and no phase is a stutter.
LEMMA QuietChat ==
  ASSUME msgs' = msgs, result' = result, target' = target, session' = session,
         \A k \in Turns : Same(k)
  PROVE  UNCHANGED Chat!conversation
BY DEF Chat!conversation, Same

\* A turn whose handler and task stand still keeps its phase.
LEMMA StandStill ==
  ASSUME NEW k, job'[k] = job[k], req'[k] = req[k]
  PROVE  Same(k)
BY DEF Same, PhaseOf

Idle == {"idle", "checked", "locked"}

\* A step of one handler moves its turn, by what it does to req.
LEMMA HandlerMoves ==
  ASSUME TypeOK, NEW t \in Turns, NEW r \in ReqSteps, job[t] = "none",
         job' = job, target' = target, req' = [req EXCEPT ![t] = r]
  PROVE  /\ Phase(job[t], req[t]) = Phase(job[t], r) => \A k \in Turns : Same(k)
         /\ Chat!Moves(t, {PhaseOf(t)}, Phase("none", r))
<1>1. \A k \in Turns \ {t} : job'[k] = job[k] /\ req'[k] = req[k]
  BY DEF TypeOK
<1>2. \A k \in Turns \ {t} : Same(k)
  BY <1>1, StandStill
<1>3. PhaseOf(t) = Phase("none", req[t]) /\ PhaseOf(t)' = Phase("none", r)
  BY DEF PhaseOf, TypeOK
<1>4. Phase(job[t], req[t]) = Phase(job[t], r) => Same(t)
  BY <1>3 DEF Same
<1> QED
  BY <1>2, <1>3, <1>4, MovesOne

\* A step of one task moves its turn, by what it does to job.
LEMMA JobMoves ==
  ASSUME TypeOK, NEW t \in Turns, NEW from \in JobSteps \ {"none"}, NEW to \in JobSteps \ {"none"},
         JobStep(t, from, to), req' = req, target' = target
  PROVE  /\ (from \in PendingSteps <=> to \in PendingSteps) => \A k \in Turns : Same(k)
         /\ (from \in PendingSteps /\ to \notin PendingSteps)
              => Chat!Moves(t, {"pending"}, "settled")
         /\ (from \notin PendingSteps /\ to \in PendingSteps)
              => Chat!Moves(t, {"settled"}, "pending")
<1>1. job[t] = from /\ job'[t] = to /\ \A k \in Turns \ {t} : job'[k] = job[k]
  BY DEF JobStep, TypeOK
<1>2. \A k \in Turns \ {t} : Same(k)
  BY <1>1, StandStill
<1>3. /\ PhaseOf(t) = IF from \in PendingSteps THEN "pending" ELSE "settled"
      /\ PhaseOf(t)' = IF to \in PendingSteps THEN "pending" ELSE "settled"
  BY <1>1 DEF PhaseOf, Phase, PendingSteps
<1>4. (from \in PendingSteps <=> to \in PendingSteps) => Same(t)
  BY <1>3 DEF Same
<1>5. ASSUME from \in PendingSteps, to \notin PendingSteps
      PROVE  Chat!Moves(t, {"pending"}, "settled")
  <2>1. PhaseOf(t) \in {"pending"} /\ PhaseOf(t)' = "settled"
    BY <1>3, <1>5
  <2> QED
    BY <1>2, <2>1, MovesOne
<1>6. ASSUME from \notin PendingSteps, to \in PendingSteps
      PROVE  Chat!Moves(t, {"settled"}, "pending")
  <2>1. PhaseOf(t) \in {"settled"} /\ PhaseOf(t)' = "pending"
    BY <1>3, <1>6
  <2> QED
    BY <1>2, <2>1, MovesOne
<1> QED
  BY <1>2, <1>4, <1>5, <1>6

ChatStep == [Chat!Next]_(Chat!conversation)

\* The steps of a handler are steps of the conversation: a check and a lock
\* are none, a saved message is a question, everything the handler ends with
\* but an enqueued task is a refusal.
LEMMA HandlerConverses ==
  ASSUME TypeOK, EnqueuedOnce, NEW t \in Turns, Handler(t)
  PROVE  ChatStep
<1> USE DEF TypeOK, ReqSteps, rows, keys, plan
<1>0. target[t] \in Sessions
  OBVIOUS
<1>1. CASE ReqCheck(t) \/ ReqLock(t)
  <2>1. PICK r \in {"checked", "locked"} : req' = [req EXCEPT ![t] = r] /\ req[t] \in Idle
    BY <1>1 DEF ReqCheck, ReqLock, Idle
  <2>2. job[t] = "none" /\ job' = job /\ target' = target
    BY <1>1, <2>1 DEF ReqCheck, ReqLock, EnqueuedOnce, Idle
  <2>3. Phase(job[t], req[t]) = "idle" /\ Phase(job[t], r) = "idle"
    BY <2>1, <2>2, PhaseCases DEF Idle
  <2>4. \A k \in Turns : Same(k)
    BY <2>1, <2>2, <2>3, HandlerMoves
  <2>5. msgs' = msgs /\ result' = result /\ session' = session
    BY <1>1 DEF ReqCheck, ReqLock
  <2> QED
    BY <2>2, <2>4, <2>5, QuietChat DEF ChatStep
<1>2. CASE ReqSpam(t) \/ ReqRefuse(t)
  <2>1. PICK r \in {"closed", "unlocking"} : req' = [req EXCEPT ![t] = r] /\ req[t] \in Idle
    BY <1>2 DEF ReqSpam, ReqRefuse, Idle
  <2>2. job[t] = "none" /\ job' = job /\ target' = target
    BY <1>2, <2>1 DEF ReqSpam, ReqRefuse, EnqueuedOnce, Idle
  <2>3. PhaseOf(t) = "idle" /\ Phase("none", r) = "over"
    BY <2>1, <2>2, PhaseCases DEF Idle, PhaseOf
  <2>4. Chat!Moves(t, {"idle"}, "over")
    BY <2>1, <2>2, <2>3, HandlerMoves
  <2>5. Chat!Refuse(t)
    BY <1>2, <2>4 DEF ReqSpam, ReqRefuse, Chat!Refuse, Chat!Moves
  <2> QED
    BY <2>5 DEF ChatStep, Chat!Next
<1>3. CASE CreateSession(t)
  <2>1. /\ req' = [req EXCEPT ![t] = "unlocking"] /\ req[t] = "locked"
        /\ job[t] = "none" /\ job' = job /\ target' = target
    BY <1>3 DEF CreateSession, EnqueuedOnce
  <2>2. PhaseOf(t) = "idle" /\ Phase("none", "unlocking") = "over"
    BY <2>1, PhaseCases DEF PhaseOf
  <2>3. Chat!Moves(t, {"idle"}, "over")
    BY <2>1, <2>2, HandlerMoves
  <2>4. Chat!Open(t)
    BY <1>0, <1>3, <2>3 DEF CreateSession, Chat!Open, Chat!Said
  <2> QED
    BY <2>4 DEF ChatStep, Chat!Next
<1>4. CASE SendSave(t)
  <2>1. /\ req' = [req EXCEPT ![t] = "saved"] /\ req[t] = "locked"
        /\ job[t] = "none" /\ job' = job /\ target' = target
    BY <1>4 DEF SendSave, EnqueuedOnce
  <2>2. PhaseOf(t) = "idle" /\ Phase("none", "saved") = "asked"
    BY <2>1, PhaseCases DEF PhaseOf
  <2>3. Chat!Moves(t, {"idle"}, "asked")
    BY <2>1, <2>2, HandlerMoves
  <2>4. Chat!Ask(t)
    BY <1>0, <1>4, <2>3 DEF SendSave, Chat!Ask, Chat!Said, HasRows
  <2> QED
    BY <2>4 DEF ChatStep, Chat!Next
<1>5. CASE SendLink(t)
  <2>1. PICK r \in {"linked", "unlocking"} : req' = [req EXCEPT ![t] = r]
    BY <1>5 DEF SendLink
  <2>2. /\ req[t] = "saved" /\ job[t] = "none" /\ job' = job /\ target' = target
        /\ msgs' = msgs /\ result' = result /\ session' = session
    BY <1>5 DEF SendLink, EnqueuedOnce
  <2>3. PhaseOf(t) = "asked" /\ Phase(job[t], req[t]) = "asked"
    BY <2>2, PhaseCases DEF PhaseOf
  <2>4. CASE r = "linked"
    <3>1. Phase(job[t], r) = "asked"
      BY <2>2, <2>4, PhaseCases
    <3>2. \A k \in Turns : Same(k)
      BY <2>1, <2>2, <2>3, <3>1, HandlerMoves
    <3> QED
      BY <2>2, <3>2, QuietChat DEF ChatStep
  <2>5. CASE r = "unlocking"
    <3>1. Phase("none", r) = "over"
      BY <2>2, <2>5, PhaseCases
    <3>2. Chat!Moves(t, {"asked"}, "over")
      BY <2>1, <2>2, <2>3, <3>1, HandlerMoves
    <3>3. Chat!Refuse(t)
      BY <2>2, <3>2 DEF Chat!Refuse, Chat!Moves
    <3> QED
      BY <3>3 DEF ChatStep, Chat!Next
  <2> QED
    BY <2>4, <2>5
<1>6. CASE RetryRead(t)
  <2>1. /\ req' = [req EXCEPT ![t] = "linked"] /\ req[t] = "locked"
        /\ job[t] = "none" /\ job' = job /\ target' = target
    BY <1>6 DEF RetryRead, EnqueuedOnce
  <2>2. PhaseOf(t) = "idle" /\ Phase("none", "linked") = "asked"
    BY <2>1, PhaseCases DEF PhaseOf
  <2>3. Chat!Moves(t, {"idle"}, "asked")
    BY <2>1, <2>2, HandlerMoves
  <2>4. Chat!Retry(t)
    BY <1>6, <2>3 DEF RetryRead, Chat!Retry
  <2> QED
    BY <2>4 DEF ChatStep, Chat!Next
<1>7. CASE Enqueue(t)
  <2>1. /\ req[t] = "linked" /\ job[t] = "none" /\ target' = target
        /\ job' = [job EXCEPT ![t] = "queued"] /\ req' = [req EXCEPT ![t] = "unlocking"]
    BY <1>7 DEF Enqueue, EnqueuedOnce
  <2>2. \A k \in Turns \ {t} : job'[k] = job[k] /\ req'[k] = req[k]
    BY <2>1
  <2>3. \A k \in Turns \ {t} : Same(k)
    BY <2>2, StandStill
  <2>4. PhaseOf(t) \in {"asked"}
    BY <2>1, PhaseCases DEF PhaseOf
  <2>5. PhaseOf(t)' = "pending"
    BY <2>1 DEF PhaseOf, Phase, PendingSteps
  <2>6. Chat!Moves(t, {"asked"}, "pending")
    BY <2>1, <2>3, <2>4, <2>5, MovesOne
  <2>7. Chat!Accept(t)
    BY <1>7, <2>6 DEF Enqueue, Chat!Accept
  <2> QED
    BY <2>7 DEF ChatStep, Chat!Next
<1>8. CASE ReqUnlock(t)
  <2>1. /\ req[t] = "unlocking" /\ job' = job /\ target' = target
        /\ req' = [req EXCEPT ![t] = "closed"]
        /\ msgs' = msgs /\ result' = result /\ session' = session
    BY <1>8 DEF ReqUnlock
  <2>2. \A k \in Turns \ {t} : job'[k] = job[k] /\ req'[k] = req[k]
    BY <2>1
  <2>3. \A k \in Turns \ {t} : Same(k)
    BY <2>2, StandStill
  <2>4. Same(t)
    BY <2>1 DEF Same, PhaseOf, Phase
  <2> QED
    BY <2>1, <2>3, <2>4, QuietChat DEF ChatStep
<1>9. CASE EnqueueFails(t)
  <2>1. /\ req' = [req EXCEPT ![t] = "unlocking"] /\ req[t] = "linked"
        /\ job[t] = "none" /\ job' = job /\ target' = target
    BY <1>9 DEF EnqueueFails, EnqueuedOnce
  <2>2. PhaseOf(t) = "asked" /\ Phase("none", "unlocking") = "over"
    BY <2>1, PhaseCases DEF PhaseOf
  <2>3. Chat!Moves(t, {"asked"}, "over")
    BY <2>1, <2>2, HandlerMoves
  <2>4. Chat!Refuse(t)
    BY <1>9, <2>3 DEF EnqueueFails, Chat!Refuse, Chat!Moves
  <2> QED
    BY <2>4 DEF ChatStep, Chat!Next
<1> QED
  BY <1>1, <1>2, <1>3, <1>4, <1>5, <1>6, <1>7, <1>8, <1>9 DEF Handler

\* A step of a task that touches no row is a stutter or gives the turn up.
LEMMA SilentJobStep ==
  ASSUME TypeOK, NEW t \in Turns, NEW from \in JobSteps \ {"none"}, NEW to \in JobSteps \ {"none"},
         JobStep(t, from, to), req' = req, target' = target, UNCHANGED rows,
         to \in PendingSteps => from \in PendingSteps
  PROVE  ChatStep
<1>1. CASE from \in PendingSteps <=> to \in PendingSteps
  BY <1>1, JobMoves, QuietChat DEF rows, ChatStep
<1>2. CASE from \in PendingSteps /\ to \notin PendingSteps
  <2>1. Chat!GiveUp(t)
    BY <1>2, JobMoves DEF Chat!GiveUp, rows
  <2> QED
    BY <2>1 DEF ChatStep, Chat!Next, Chat!Settle
<1> QED
  BY <1>1, <1>2

\* _add_error_result reports a failure, or stores nothing and gives the turn up
\* or hands it to the outer except clause.
LEMMA ErrorConverses ==
  ASSUME TypeOK, NEW t \in Turns, NEW from \in PendingSteps,
         NEW ok \in JobSteps \ (PendingSteps \cup {"none"}), NEW fail \in JobSteps \ {"none"},
         AddErrorResult(t, from, ok, fail)
  PROVE  ChatStep
<1>0. /\ from \in JobSteps \ {"none"} /\ ok \notin PendingSteps /\ target[t] \in Sessions
      /\ req' = req /\ target' = target /\ msgs' = msgs /\ session' = session
  BY DEF PendingSteps, JobSteps, WorkingSteps, GenerateWorking, RespondWorking,
       AddErrorResult, plan, TypeOK
<1>1. CASE CanInsertResult(target[t])
  <2>1. JobStep(t, from, ok)
    BY <1>1 DEF AddErrorResult
  <2>2. Chat!Moves(t, {"pending"}, "settled")
    BY <1>0, <2>1, JobMoves
  <2>3. result' = [result EXCEPT ![target[t]] = [type |-> "error", turn |-> t]]
    BY <1>1 DEF AddErrorResult
  <2>4. State(target[t]) = "live" /\ result[target[t]] = None
    BY <1>1 DEF CanInsertResult, HasRows, State
  <2>5. Chat!Fail(t)
    BY <1>0, <2>2, <2>3, <2>4 DEF Chat!Fail, Chat!Result, State
  <2> QED
    BY <2>5 DEF ChatStep, Chat!Next, Chat!Settle
<1>2. CASE ~CanInsertResult(target[t])
  <2>1. JobStep(t, from, fail)
    BY <1>2 DEF AddErrorResult
  <2>2. result' = result
    BY <1>0, <1>2 DEF AddErrorResult, TypeOK
  <2> QED
    BY <1>0, <2>1, <2>2, SilentJobStep DEF rows
<1> QED
  BY <1>1, <1>2

\* The steps of generate_chat_message are steps of the conversation.
LEMMA GenerateConverses ==
  ASSUME TypeOK, NEW t \in Turns, Generate(t)
  PROVE  ChatStep
<1> USE DEF JobSteps, WorkingSteps, GenerateWorking, RespondWorking, SecondRelease,
        EndedSteps, PendingSteps
<1>1. CASE JobClear(t)
  <2>1. /\ JobStep(t, "queued", "cleared") /\ req' = req /\ target' = target
        /\ msgs' = msgs /\ session' = session
    BY <1>1 DEF JobClear, plan
  <2>2. \A k \in Turns : Same(k)
    BY <2>1, JobMoves
  <2>3. target[t] \in Sessions
    BY DEF TypeOK
  <2>4. result' = [s \in Sessions |-> IF s \in {target[t]} THEN None ELSE result[s]]
    BY <1>1, <2>3 DEF JobClear, TypeOK
  <2>5. Chat!Forget({target[t]})
    BY <2>1, <2>2, <2>4 DEF Chat!Forget, Same
  <2>6. {target[t]} \in SUBSET Sessions
    BY <2>3
  <2> QED
    BY <2>5, <2>6 DEF ChatStep, Chat!Next
<1>2. CASE \/ JobLookup(t) \/ JobAcquire(t) \/ JobHistory(t)
  <2>1. PICK from \in {"cleared", "found", "locked"},
             to \in {"found", "failed", "locked", "dropped", "err", "calling"} :
          JobStep(t, from, to)
    BY <1>2 DEF JobLookup, JobAcquire, JobHistory
  <2>2. UNCHANGED rows /\ req' = req /\ target' = target
    BY <1>2 DEF JobLookup, JobAcquire, JobHistory, plan
  <2> QED
    BY <2>1, <2>2, SilentJobStep
<1>3. CASE \/ ProviderAnswers(t) \/ ProviderFails(t) \/ CheckTombstone(t)
           \/ Publish(t) \/ PublishFails(t)
  <2>1. PICK from \in {"calling", "answered", "publishing"},
             to \in {"answered", "err", "cancelled", "publishing", "prQueued", "outer"} :
          JobStep(t, from, to)
    BY <1>3 DEF ProviderAnswers, ProviderFails, CheckTombstone, Publish, PublishFails
  <2>2. UNCHANGED rows /\ req' = req /\ target' = target
    BY <1>3 DEF ProviderAnswers, ProviderFails, CheckTombstone, Publish, PublishFails, plan
  <2> QED
    BY <2>1, <2>2, SilentJobStep
<1>4. CASE ErrCommit(t) \/ OuterCommit(t)
  <2>1. PICK from \in {"err", "outer"}, ok \in {"errRelease", "outerRelease"},
             fail \in {"outer", "failed"} : AddErrorResult(t, from, ok, fail)
    BY <1>4 DEF ErrCommit, OuterCommit
  <2> QED
    BY <2>1, ErrorConverses
<1>5. CASE ErrRelease(t) \/ OuterRelease(t) \/ OuterReleaseAgain(t)
  <2>1. PICK from \in {"errRelease", "outerRelease", "outerRelease2"},
             to \in {"done", "outerRelease2"} : JobStep(t, from, to)
    BY <1>5 DEF ErrRelease, OuterRelease, OuterReleaseAgain, ReleaseKey
  <2>2. UNCHANGED rows /\ req' = req /\ target' = target
    BY <1>5 DEF ErrRelease, OuterRelease, OuterReleaseAgain, ReleaseKey, plan
  <2> QED
    BY <2>1, <2>2, SilentJobStep
<1> QED
  BY <1>1, <1>2, <1>3, <1>4, <1>5 DEF Generate

\* The steps of process_response are steps of the conversation: its commit is
\* the answer, for which QuestionKept provides the question.
LEMMA RespondConverses ==
  ASSUME TypeOK, QuestionKept, NEW t \in Turns, Respond(t)
  PROVE  ChatStep
<1> USE DEF JobSteps, WorkingSteps, GenerateWorking, RespondWorking, SecondRelease,
        EndedSteps, PendingSteps
<1>0. target[t] \in Sessions
  BY DEF TypeOK
<1>1. CASE PrCommit(t) /\ CanInsertResult(target[t])
  <2> DEFINE s == target[t]
  <2>1. /\ JobStep(t, "prQueued", "prRelease") /\ req' = req /\ target' = target
        /\ session' = session
        /\ result' = [result EXCEPT ![s] = [type |-> "success", turn |-> t]]
        /\ msgs' = [msgs EXCEPT ![s] = Append(@, [role |-> "assistant", turn |-> t])]
    BY <1>1 DEF PrCommit, plan
  <2>2. Chat!Moves(t, {"pending"}, "settled")
    BY <2>1, JobMoves
  <2>3. State(s) = "live" /\ result[s] = None /\ HasRows(s)
    BY <1>1 DEF CanInsertResult, HasRows, State
  <2>4. job[t] \in Answering
    BY <2>1 DEF JobStep, Answering
  <2>5. \E i \in DOMAIN msgs[s] : msgs[s][i].role = "user"
    <3>1. QuestionInChat(t, s)
      BY <2>3, <2>4 DEF QuestionKept
    <3>2. PICK i \in DOMAIN msgs[s] : msgs[s][i] = [role |-> "user", turn |-> asked[t]]
      BY <3>1 DEF QuestionInChat
    <3>3. msgs[s][i].role = "user"
      BY <3>2
    <3> QED
      BY <3>3
  <2>6. Chat!Answer(t)
    BY <1>0, <2>1, <2>2, <2>3, <2>5 DEF Chat!Answer, Chat!Result, Chat!Said, State
  <2> QED
    BY <2>6 DEF ChatStep, Chat!Next, Chat!Settle
<1>2. CASE (PrCommit(t) /\ ~CanInsertResult(target[t])) \/ PrReject(t)
  <2>1. JobStep(t, "prQueued", "prErr") /\ req' = req /\ target' = target
    BY <1>2 DEF PrCommit, PrReject, plan
  <2>2. UNCHANGED rows
    BY <1>0, <1>2 DEF PrCommit, PrReject, rows, TypeOK
  <2> QED
    BY <2>1, <2>2, SilentJobStep
<1>3. CASE PrErrCommit(t)
  BY <1>3, ErrorConverses DEF PrErrCommit
<1>4. CASE PrErrRelease(t) \/ PrReleaseAgain(t) \/ PrRelease(t)
  <2>1. PICK from \in {"prErrRelease", "prRelease2", "prRelease"},
             to \in {"done", "prRelease2"} : JobStep(t, from, to)
    BY <1>4 DEF PrErrRelease, PrReleaseAgain, PrRelease, ReleaseKey
  <2>2. UNCHANGED rows /\ req' = req /\ target' = target
    BY <1>4 DEF PrErrRelease, PrReleaseAgain, PrRelease, ReleaseKey, plan
  <2> QED
    BY <2>1, <2>2, SilentJobStep
<1> QED
  BY <1>1, <1>2, <1>3, <1>4 DEF Respond

\* A killed handler has refused its turn; a killed task is worked on again.
LEMMA DeathConverses ==
  ASSUME TypeOK, EnqueuedOnce, NEW t \in Turns, Dies(t)
  PROVE  ChatStep
<1> USE DEF rows, keys, plan
<1>0. /\ msgs' = msgs /\ result' = result /\ session' = session /\ target' = target
      /\ MaxDeaths > 0
  BY FaultAssumption DEF Dies, ApiDies, GenerateDies, RespondDies, TypeOK
<1>1. CASE ApiDies(t)
  <2>1. req' = [req EXCEPT ![t] = "closed"] /\ job' = job /\ req[t] \in InHandler
    BY <1>1 DEF ApiDies
  <2>2. CASE job[t] # "none" \/ req[t] = "unlocking"
    <3>1. \A k \in Turns \ {t} : job'[k] = job[k] /\ req'[k] = req[k]
      BY <2>1 DEF TypeOK
    <3>2. \A k \in Turns \ {t} : Same(k)
      BY <3>1, StandStill
    <3>3. Same(t)
      BY <2>1, <2>2 DEF Same, PhaseOf, Phase, TypeOK
    <3> QED
      BY <1>0, <3>2, <3>3, QuietChat DEF ChatStep
  <2>3. CASE job[t] = "none" /\ req[t] \in {"locked", "saved", "linked"}
    <3>1. PhaseOf(t) \in {"idle", "asked"} /\ Phase("none", "closed") = "over"
      BY <2>3 DEF PhaseOf, Phase, PendingSteps
    <3>2. "closed" \in ReqSteps
      BY DEF ReqSteps
    <3>3. Chat!Moves(t, {PhaseOf(t)}, "over")
      BY <1>0, <2>1, <2>3, <3>1, <3>2, HandlerMoves
    <3>4. Chat!Refuse(t)
      BY <1>0, <3>1, <3>3 DEF Chat!Refuse, Chat!Moves
    <3> QED
      BY <3>4 DEF ChatStep, Chat!Next
  <2> QED
    BY <2>1, <2>2, <2>3 DEF InHandler
<1>2. CASE GenerateDies(t) \/ RespondDies(t)
  <2>1. PICK from \in JobSteps \ {"none"}, to \in {"queued", "prQueued"} :
          JobStep(t, from, to)
    <3>1. CASE GenerateDies(t)
      BY <3>1 DEF GenerateDies, JobStep, JobSteps, WorkingSteps, GenerateWorking, SecondRelease
    <3>2. CASE RespondDies(t)
      BY <3>2 DEF RespondDies, JobStep, JobSteps, WorkingSteps, RespondWorking, SecondRelease
    <3> QED
      BY <1>2, <3>1, <3>2
  <2>2. to \in PendingSteps /\ to \in JobSteps \ {"none"}
    BY DEF PendingSteps, JobSteps, WorkingSteps, RespondWorking
  <2>3. req' = req
    BY <1>2 DEF GenerateDies, RespondDies
  <2>4. CASE from \in PendingSteps
    BY <1>0, <2>1, <2>2, <2>3, <2>4, JobMoves, QuietChat DEF ChatStep
  <2>5. CASE from \notin PendingSteps
    <3>1. Chat!Moves(t, {"settled"}, "pending")
      BY <1>0, <2>1, <2>2, <2>3, <2>5, JobMoves
    <3>2. Chat!Redo(t)
      BY <1>0, <3>1 DEF Chat!Redo
    <3> QED
      BY <3>2 DEF ChatStep, Chat!Next
  <2> QED
    BY <2>4, <2>5
<1> QED
  BY <1>1, <1>2 DEF Dies

\* Every step of Generation is a step of the conversation or leaves it alone.
LEMMA ConversationStep ==
  TypeOK /\ EnqueuedOnce /\ QuestionKept /\ [Next]_vars => [Chat!Next]_(Chat!conversation)
<1> SUFFICES ASSUME TypeOK, EnqueuedOnce, QuestionKept, [Next]_vars PROVE ChatStep
  BY DEF ChatStep
<1>1. ASSUME NEW t \in Turns, Handler(t) \/ Generate(t) \/ Respond(t) \/ Dies(t) PROVE ChatStep
  BY <1>1, HandlerConverses, GenerateConverses, RespondConverses, DeathConverses
<1>2. ASSUME UNCHANGED <<msgs, result, target, session, job, req>> PROVE ChatStep
  <2>1. \A k \in Turns : Same(k)
    BY <1>2, StandStill
  <2> QED
    BY <1>2, <2>1, QuietChat DEF ChatStep
<1>3. ASSUME UNCHANGED <<msgs, result, target, job, req>>, NEW s \in Sessions, SetTombstone(s)
      PROVE  ChatStep
  <2>1. \A k \in Turns : Same(k)
    BY <1>3, StandStill
  <2>2. \A x \in Sessions : State(x)' = State(x)
    BY <1>3 DEF SetTombstone, State, HasRows, TypeOK
  <2> QED
    BY <1>3, <2>1, <2>2 DEF ChatStep, Chat!conversation, Same, State
<1>4. ASSUME NEW s \in Sessions, DeleteRows(s) PROVE ChatStep
  <2>1. UNCHANGED <<target, job, req>> /\ session[s] = "doomed"
    BY <1>4 DEF DeleteRows, plan
  <2>2. \A k \in Turns : Same(k)
    BY <2>1, StandStill
  <2>3. Chat!Delete(s)
    BY <1>4, <2>1, <2>2 DEF DeleteRows, Chat!Delete, Same, TypeOK
  <2> QED
    BY <2>3 DEF ChatStep, Chat!Next
<1>5. CASE CleanupOldResults
  <2>1. PICK old \in SUBSET Sessions :
          result' = [s \in Sessions |-> IF s \in old THEN None ELSE result[s]]
    BY <1>5 DEF CleanupOldResults
  <2>2. UNCHANGED <<session, msgs, target, job, req>>
    BY <1>5 DEF CleanupOldResults, plan
  <2>3. \A k \in Turns : Same(k)
    BY <2>2, StandStill
  <2>4. Chat!Forget(old)
    BY <2>1, <2>2, <2>3 DEF Chat!Forget, Same
  <2> QED
    BY <2>4 DEF ChatStep, Chat!Next
<1>6. ASSUME NEW s \in Sessions, DeleteChat(s) \/ DelKeyExpires(s) PROVE ChatStep
  BY <1>6, <1>2, <1>3, <1>4 DEF DeleteChat, DelKeyExpires, SetTombstone, rows, plan
<1>7. ASSUME NEW u \in Users, GenKeyExpires(u) \/ CreKeyExpires(u) PROVE ChatStep
  BY <1>7, <1>2 DEF GenKeyExpires, CreKeyExpires, rows, plan
<1>8. CASE UNCHANGED vars
  BY <1>8, <1>2 DEF vars, rows, plan
<1> QED
  BY <1>1, <1>5, <1>6, <1>7, <1>8 DEF Next

\* The chat is a conversation, whatever crashes, lapses or comes late: the
\* safety part of RefinesConversation.  Its liveness is left to the run.
THEOREM ImplementsConversation == Spec => Chat!Safe
<1>1. Init => Chat!Init
  <2> SUFFICES ASSUME Init PROVE Chat!Init
    OBVIOUS
  <2>1. PICK old \in SUBSET Sessions :
          /\ session = [s \in Sessions |-> IF s \in old THEN "live" ELSE "absent"]
          /\ msgs = [s \in Sessions |->
                       IF s \in old THEN <<[role |-> "system", turn |-> None]>> ELSE <<>>]
    BY DEF Init
  <2>2. \A t \in Turns : PhaseOf(t) = "idle"
    BY DEF Init, PhaseOf, Phase, PendingSteps
  <2>3. result = [s \in Sessions |-> None] /\ target \in [Turns -> Sessions]
    BY DEF Init
  <2>4. msgs = [s \in Sessions |->
                  IF State(s) = "live" THEN <<[role |-> "system", turn |-> None]>> ELSE <<>>]
    BY <2>1 DEF State
  <2>5. \A s \in Sessions : State(s) \in {"absent", "live"}
    BY <2>1 DEF State
  <2> QED
    BY <2>2, <2>3, <2>4, <2>5 DEF Chat!Init, Chat!Said, State
<1>2. Init => Backed
  BY DEF Init, Backed, BackingInv, EnqueuedOnce, SessionExisted, QuestionKept, Answering,
       RespondWorking, SuccessFromResponder, NothingOutlivesItsSession, HasRows,
       SuccessIsBackedByTheChat
<1>3. TypeOK /\ Backed /\ [Next]_vars => Backed'
  BY BackedStep
<1>4. TypeOK /\ Backed /\ [Next]_vars => [Chat!Next]_(Chat!conversation)
  BY ConversationStep DEF Backed, BackingInv
<1> QED
  BY <1>1, <1>2, <1>3, <1>4, TypeCorrect, PTL DEF Spec, Chat!Safe

-----------------------------------------------------------------------------
(* What a turn has said *)

AnswersOf(t, s) == {i \in DOMAIN msgs[s] : msgs[s][i] = [role |-> "assistant", turn |-> t]}

\* The inductive reasons: before it is settled a turn has neither answered nor
\* reported, it answers once, and one that is reported as failed never did.
NothingYet(t) == \A s \in Sessions : /\ AnswersOf(t, s) = {}
                                     /\ result[s] # None => result[s].turn # t
OneAnswer(t) == \A s \in Sessions : \A i, k \in AnswersOf(t, s) : i = k
FailedIsSilent(s) ==
  \A k \in Turns : (result[s] # None /\ result[s].type = "error" /\ result[s].turn = k)
                     => \A x \in Sessions : AnswersOf(k, x) = {}
Silent == /\ \A t \in Turns : PhaseOf(t) # "settled" => NothingYet(t)
          /\ \A t \in Turns : OneAnswer(t)
          /\ \A s \in Sessions : FailedIsSilent(s)

\* What a step of one turn says about the phases.
LEMMA MovesPhases ==
  ASSUME NEW t \in Turns, NEW from, NEW to, Chat!Moves(t, from, to)
  PROVE  /\ PhaseOf(t) \in from /\ PhaseOf(t)' = to
         /\ \A k \in Turns \ {t} : PhaseOf(k)' = PhaseOf(k)
<1> DEFINE p == [k \in Turns |-> PhaseOf(k)]
<1>1. p[t] \in from /\ p' = [p EXCEPT ![t] = to]
  BY DEF Chat!Moves
<1>2. \A k \in Turns : p[k] = PhaseOf(k)
  OBVIOUS
<1>3. \A k \in Turns : p'[k] = PhaseOf(k)'
  OBVIOUS
<1>4. \A k \in Turns : [p EXCEPT ![t] = to][k] = IF k = t THEN to ELSE p[k]
  OBVIOUS
<1> QED
  BY <1>1, <1>2, <1>3, <1>4

\* Phases that are equal as a function are equal one by one.
LEMMA SamePhases ==
  ASSUME [k \in Turns |-> PhaseOf(k)]' = [k \in Turns |-> PhaseOf(k)]
  PROVE  \A k \in Turns : PhaseOf(k)' = PhaseOf(k)
<1> DEFINE p == [k \in Turns |-> PhaseOf(k)]
<1>1. \A k \in Turns : p[k] = PhaseOf(k)
  OBVIOUS
<1>2. \A k \in Turns : p'[k] = PhaseOf(k)'
  OBVIOUS
<1> QED
  BY <1>1, <1>2

\* A step by which nobody says or reports anything keeps what was said.
LEMMA SaysNothing ==
  ASSUME TypeOK, Silent,
         \A k \in Turns : PhaseOf(k)' # "settled" => PhaseOf(k) # "settled",
         \A k \in Turns, s \in Sessions : AnswersOf(k, s)' \subseteq AnswersOf(k, s),
         \A s \in Sessions : result'[s] \in {result[s], None}
  PROVE  Silent'
<1>1. ASSUME NEW k \in Turns, PhaseOf(k)' # "settled" PROVE NothingYet(k)'
  BY <1>1 DEF Silent, NothingYet
<1>2. ASSUME NEW k \in Turns PROVE OneAnswer(k)'
  BY DEF Silent, OneAnswer
<1>3. ASSUME NEW s \in Sessions PROVE FailedIsSilent(s)'
  BY DEF Silent, FailedIsSilent
<1> QED
  BY <1>1, <1>2, <1>3 DEF Silent

\* A message of another role, or of another turn, is no answer of the turn.
LEMMA NoNewAnswer ==
  ASSUME TypeOK, NEW s \in Sessions, NEW m \in Message, NEW k \in Turns, NEW x \in Sessions,
         msgs' = [msgs EXCEPT ![s] = Append(@, m)], m # [role |-> "assistant", turn |-> k]
  PROVE  AnswersOf(k, x)' = AnswersOf(k, x)
<1>1. msgs[s] \in Seq(Message)
  BY DEF TypeOK
<1>2. CASE x # s
  BY <1>2 DEF AnswersOf, TypeOK
<1>3. CASE x = s
  <2>1. msgs'[s] = Append(msgs[s], m)
    BY DEF TypeOK
  <2>2. /\ DOMAIN msgs'[s] = DOMAIN msgs[s] \cup {Len(msgs[s]) + 1}
        /\ msgs'[s][Len(msgs[s]) + 1] = m
        /\ \A i \in DOMAIN msgs[s] : msgs'[s][i] = msgs[s][i]
    BY <1>1, <2>1
  <2> QED
    BY <1>3, <2>2 DEF AnswersOf
<1> QED
  BY <1>2, <1>3

\* The answer of a turn that has not spoken yet.
LEMMA SpeaksOnce ==
  ASSUME TypeOK, Silent, NEW t \in Turns, Chat!Answer(t)
  PROVE  Silent'
<1> DEFINE s == target[t]
           m == [role |-> "assistant", turn |-> t]
<1>0. s \in Sessions /\ m \in Message
  BY MessageRows DEF TypeOK
<1>1. PhaseOf(t) = "pending" /\ PhaseOf(t)' = "settled"
      /\ \A k \in Turns \ {t} : PhaseOf(k)' = PhaseOf(k)
  BY MovesPhases DEF Chat!Answer
<1>2. /\ msgs' = [msgs EXCEPT ![s] = Append(@, m)]
      /\ result' = [result EXCEPT ![s] = [type |-> "success", turn |-> t]]
  BY DEF Chat!Answer, Chat!Said, Chat!Result
<1>3. \A k \in Turns \ {t}, x \in Sessions : AnswersOf(k, x)' = AnswersOf(k, x)
  <2> SUFFICES ASSUME NEW k \in Turns \ {t}, NEW x \in Sessions
               PROVE  AnswersOf(k, x)' = AnswersOf(k, x)
    OBVIOUS
  <2>1. m # [role |-> "assistant", turn |-> k]
    OBVIOUS
  <2> HIDE DEF m
  <2> QED
    BY <1>0, <1>2, <2>1, NoNewAnswer
<1>4. NothingYet(t)
  BY <1>1 DEF Silent
<1>5. \A x \in Sessions : AnswersOf(t, x)' \subseteq {Len(msgs[s]) + 1}
  <2> SUFFICES ASSUME NEW x \in Sessions, NEW i \in DOMAIN msgs'[x], msgs'[x][i] = m
               PROVE  i = Len(msgs[s]) + 1
    BY DEF AnswersOf
  <2>1. msgs[s] \in Seq(Message)
    BY <1>0 DEF TypeOK
  <2>2. CASE x # s
    BY <1>2, <1>4, <2>2 DEF NothingYet, AnswersOf, TypeOK
  <2>3. CASE x = s
    <3> HIDE DEF m
    <3>1. msgs'[s] = Append(msgs[s], m)
      BY <1>0, <1>2 DEF TypeOK
    <3>2. i \in DOMAIN msgs[s] => msgs'[s][i] = msgs[s][i]
      BY <2>1, <3>1
    <3>3. i \notin DOMAIN msgs[s]
      BY <1>0, <1>4, <2>3, <3>2 DEF NothingYet, AnswersOf, m
    <3> QED
      BY <2>1, <2>3, <3>1, <3>3
  <2> QED
    BY <2>2, <2>3
<1>6. ASSUME NEW k \in Turns, PhaseOf(k)' # "settled" PROVE NothingYet(k)'
  <2>1. k # t /\ NothingYet(k)
    BY <1>1, <1>6 DEF Silent
  <2> QED
    BY <1>0, <1>2, <1>3, <2>1 DEF NothingYet, TypeOK
<1>7. ASSUME NEW k \in Turns PROVE OneAnswer(k)'
  <2>1. CASE k = t
    BY <1>5, <2>1 DEF OneAnswer
  <2>2. CASE k # t
    BY <1>3, <2>2 DEF OneAnswer, Silent
  <2> QED
    BY <2>1, <2>2
<1>8. ASSUME NEW x \in Sessions PROVE FailedIsSilent(x)'
  <2> SUFFICES ASSUME NEW k \in Turns, result'[x] # None, result'[x].type = "error",
                      result'[x].turn = k, NEW y \in Sessions
               PROVE  AnswersOf(k, y)' = {}
    BY DEF FailedIsSilent
  <2>1. x # s
    BY <1>0, <1>2 DEF TypeOK
  <2>2. result'[x] = result[x]
    BY <1>2, <2>1 DEF TypeOK
  <2>3. k # t /\ AnswersOf(k, y) = {}
    BY <1>4, <2>2 DEF NothingYet, Silent, FailedIsSilent
  <2> QED
    BY <1>3, <2>3
<1> QED
  BY <1>6, <1>7, <1>8 DEF Silent

\* The report of a failure, by a turn that has not spoken and now will not.
LEMMA FailsSilently ==
  ASSUME TypeOK, Silent, NEW t \in Turns, Chat!Fail(t)
  PROVE  Silent'
<1> DEFINE s == target[t]
<1>0. s \in Sessions
  BY DEF TypeOK
<1>1. PhaseOf(t) = "pending" /\ PhaseOf(t)' = "settled"
      /\ \A k \in Turns \ {t} : PhaseOf(k)' = PhaseOf(k)
  BY MovesPhases DEF Chat!Fail
<1>2. msgs' = msgs /\ result' = [result EXCEPT ![s] = [type |-> "error", turn |-> t]]
  BY DEF Chat!Fail, Chat!Result
<1>3. NothingYet(t)
  BY <1>1 DEF Silent
<1>4. \A k \in Turns, x \in Sessions : AnswersOf(k, x)' = AnswersOf(k, x)
  BY <1>2 DEF AnswersOf
<1>5. ASSUME NEW k \in Turns, PhaseOf(k)' # "settled" PROVE NothingYet(k)'
  <2>1. k # t /\ NothingYet(k)
    BY <1>1, <1>5 DEF Silent
  <2> QED
    BY <1>0, <1>2, <1>4, <2>1 DEF NothingYet, TypeOK
<1>6. ASSUME NEW k \in Turns PROVE OneAnswer(k)'
  BY <1>4 DEF OneAnswer, Silent
<1>7. ASSUME NEW x \in Sessions PROVE FailedIsSilent(x)'
  <2> SUFFICES ASSUME NEW k \in Turns, result'[x] # None, result'[x].type = "error",
                      result'[x].turn = k, NEW y \in Sessions
               PROVE  AnswersOf(k, y)' = {}
    BY DEF FailedIsSilent
  <2>1. CASE x = s
    <3>1. k = t
      BY <1>0, <1>2, <2>1 DEF TypeOK
    <3> QED
      BY <1>3, <1>4, <3>1 DEF NothingYet
  <2>2. CASE x # s
    <3>1. result'[x] = result[x]
      BY <1>2, <2>2 DEF TypeOK
    <3> QED
      BY <1>4, <3>1 DEF Silent, FailedIsSilent
  <2> QED
    BY <2>1, <2>2
<1> QED
  BY <1>5, <1>6, <1>7 DEF Silent

\* A step that kills no process brings no settled turn back to work.
LEMMA SettledStays ==
  ASSUME TypeOK, EnqueuedOnce, [Next]_vars, deaths' = 0
  PROVE  /\ deaths = 0
         /\ \A k \in Turns : PhaseOf(k) = "settled" => PhaseOf(k)' = "settled"
<1> DEFINE Over(j) == j \notin PendingSteps \cup {"none"}
<1>1. ASSUME NEW t \in Turns, Handler(t)
      PROVE  deaths = 0 /\ \A k \in Turns : Over(job[k]) => Over(job'[k])
  BY <1>1 DEF TypeOK, EnqueuedOnce, PendingSteps, Handler, ReqCheck, ReqLock, ReqSpam, ReqRefuse,
       CreateSession, SendSave, SendLink, RetryRead, Enqueue, EnqueueFails, ReqUnlock, JobSteps
<1>2. ASSUME NEW t \in Turns, Generate(t)
      PROVE  deaths = 0 /\ \A k \in Turns : Over(job[k]) => Over(job'[k])
  BY <1>2 DEF TypeOK, PendingSteps, JobSteps, JobStep, Generate, JobClear, JobLookup, JobAcquire,
       JobHistory, ProviderAnswers, ProviderFails, CheckTombstone, Publish, PublishFails, ErrCommit,
       ErrRelease, OuterCommit, OuterRelease, OuterReleaseAgain, AddErrorResult, ReleaseKey
<1>3. ASSUME NEW t \in Turns, Respond(t)
      PROVE  deaths = 0 /\ \A k \in Turns : Over(job[k]) => Over(job'[k])
  BY <1>3 DEF TypeOK, PendingSteps, JobSteps, JobStep, Respond, PrCommit, PrReject, PrErrCommit,
       PrErrRelease, PrReleaseAgain, PrRelease, AddErrorResult, ReleaseKey
<1>4. ASSUME NEW t \in Turns, Dies(t) PROVE FALSE
  BY <1>4 DEF TypeOK, Dies, ApiDies, GenerateDies, RespondDies
<1>5. ASSUME \/ \E s \in Sessions : DeleteChat(s) \/ DelKeyExpires(s)
             \/ \E u \in Users : GenKeyExpires(u) \/ CreKeyExpires(u)
             \/ CleanupOldResults
             \/ UNCHANGED vars
      PROVE  deaths = 0 /\ job' = job
  BY <1>5 DEF vars, plan, CleanupOldResults, DeleteChat, SetTombstone, DeleteRows,
       DelKeyExpires, GenKeyExpires, CreKeyExpires
<1>6. deaths = 0 /\ \A k \in Turns : Over(job[k]) => Over(job'[k])
  BY <1>1, <1>2, <1>3, <1>4, <1>5 DEF Next
<1>7. ASSUME NEW k \in Turns, PhaseOf(k) = "settled" PROVE PhaseOf(k)' = "settled"
  <2>1. Over(job[k])
    BY <1>7 DEF PhaseOf, Phase
  <2>2. Over(job'[k])
    BY <1>6, <2>1
  <2> QED
    BY <2>2 DEF PhaseOf, Phase
<1> QED
  BY <1>6, <1>7

\* Without redelivery every step of the conversation keeps what was said true.
LEMMA SilentStep ==
  ASSUME TypeOK, Silent, \A k \in Turns : PhaseOf(k) = "settled" => PhaseOf(k)' = "settled",
         [Chat!Next]_(Chat!conversation)
  PROVE  Silent'
<1>1. ASSUME NEW t \in Turns, Chat!Open(t) PROVE Silent'
  <2>1. /\ PhaseOf(t)' = "over" /\ PhaseOf(t) = "idle"
        /\ \A k \in Turns \ {t} : PhaseOf(k)' = PhaseOf(k)
    BY <1>1, MovesPhases DEF Chat!Open
  <2>2. /\ msgs' = [msgs EXCEPT ![target[t]] = <<[role |-> "system", turn |-> None]>>]
        /\ result' = result
    BY <1>1 DEF Chat!Open, Chat!Said
  <2>3. ASSUME NEW k \in Turns, NEW x \in Sessions PROVE AnswersOf(k, x)' \subseteq AnswersOf(k, x)
    BY <2>2 DEF AnswersOf, TypeOK
  <2> QED
    BY <2>1, <2>2, <2>3, SaysNothing
<1>2. ASSUME NEW t \in Turns, Chat!Ask(t) PROVE Silent'
  <2> DEFINE m == [role |-> "user", turn |-> t]
  <2>1. /\ PhaseOf(t)' = "asked" /\ PhaseOf(t) = "idle"
        /\ \A k \in Turns \ {t} : PhaseOf(k)' = PhaseOf(k)
    BY <1>2, MovesPhases DEF Chat!Ask
  <2>2. /\ msgs' = [msgs EXCEPT ![target[t]] = Append(@, m)]
        /\ result' = result
    BY <1>2 DEF Chat!Ask, Chat!Said
  <2>3. target[t] \in Sessions /\ m \in Message /\ \A k \in Turns : m # [role |-> "assistant", turn |-> k]
    BY MessageRows DEF TypeOK
  <2> HIDE DEF m
  <2>4. ASSUME NEW k \in Turns, NEW x \in Sessions PROVE AnswersOf(k, x)' \subseteq AnswersOf(k, x)
    BY <2>2, <2>3, NoNewAnswer
  <2> QED
    BY <2>1, <2>2, <2>4, SaysNothing
<1>3. ASSUME NEW t \in Turns, Chat!Retry(t) \/ Chat!Accept(t) \/ Chat!Refuse(t) \/ Chat!GiveUp(t)
      PROVE  Silent'
  <2>1. PICK from \in SUBSET {"idle", "asked", "pending"}, to \in {"asked", "pending", "over", "settled"} :
          Chat!Moves(t, from, to)
    BY <1>3 DEF Chat!Retry, Chat!Accept, Chat!Refuse, Chat!GiveUp
  <2>2. PhaseOf(t) \in from /\ \A k \in Turns \ {t} : PhaseOf(k)' = PhaseOf(k)
    BY <2>1, MovesPhases
  <2>3. PhaseOf(t) # "settled"
    BY <2>2
  <2>4. msgs' = msgs /\ result' = result
    BY <1>3 DEF Chat!Retry, Chat!Accept, Chat!Refuse, Chat!GiveUp
  <2>5. \A k \in Turns, x \in Sessions : AnswersOf(k, x)' \subseteq AnswersOf(k, x)
    BY <2>4 DEF AnswersOf
  <2> QED
    BY <2>2, <2>3, <2>4, <2>5, SaysNothing
<1>4. ASSUME NEW old \in SUBSET Sessions, Chat!Forget(old) PROVE Silent'
  <2>1. /\ [k \in Turns |-> PhaseOf(k)]' = [k \in Turns |-> PhaseOf(k)]
        /\ msgs' = msgs
        /\ result' = [s \in Sessions |-> IF s \in old THEN None ELSE result[s]]
    BY <1>4 DEF Chat!Forget
  <2>2. \A k \in Turns : PhaseOf(k)' = PhaseOf(k)
    BY <2>1, SamePhases
  <2>3. \A k \in Turns, x \in Sessions : AnswersOf(k, x)' \subseteq AnswersOf(k, x)
    BY <2>1 DEF AnswersOf
  <2> QED
    BY <2>1, <2>2, <2>3, SaysNothing
<1>5. ASSUME NEW s \in Sessions, Chat!Delete(s) PROVE Silent'
  <2>1. /\ [k \in Turns |-> PhaseOf(k)]' = [k \in Turns |-> PhaseOf(k)]
        /\ msgs' = [msgs EXCEPT ![s] = <<>>]
        /\ result' = [result EXCEPT ![s] = None]
    BY <1>5 DEF Chat!Delete
  <2>2. \A k \in Turns : PhaseOf(k)' = PhaseOf(k)
    BY <2>1, SamePhases
  <2>3. \A k \in Turns, x \in Sessions : AnswersOf(k, x)' \subseteq AnswersOf(k, x)
    BY <2>1 DEF AnswersOf, TypeOK
  <2>4. \A x \in Sessions : result'[x] \in {result[x], None}
    BY <2>1 DEF TypeOK
  <2> QED
    BY <2>2, <2>3, <2>4, SaysNothing
<1>6. CASE UNCHANGED Chat!conversation
  <2>1. [k \in Turns |-> PhaseOf(k)]' = [k \in Turns |-> PhaseOf(k)] /\ msgs' = msgs /\ result' = result
    BY <1>6 DEF Chat!conversation
  <2>2. \A k \in Turns : PhaseOf(k)' = PhaseOf(k)
    BY <2>1, SamePhases
  <2>3. \A k \in Turns, x \in Sessions : AnswersOf(k, x)' \subseteq AnswersOf(k, x)
    BY <2>1 DEF AnswersOf
  <2> QED
    BY <2>1, <2>2, <2>3, SaysNothing
<1>7. ASSUME NEW t \in Turns PROVE ~Chat!Redo(t)
  BY MovesPhases DEF Chat!Redo
<1> QED
  BY <1>1, <1>2, <1>3, <1>4, <1>5, <1>6, <1>7, SpeaksOnce, FailsSilently
  DEF Chat!Next, Chat!Settle

\* As long as no process was killed, a turn that is reported as failed has not
\* answered as well, and no turn answers twice.
THEOREM FailedStaySilent == Spec => []FailedTurnsStaySilent
<1> DEFINE SilentSoFar == deaths = 0 => Silent
<1>1. Init => SilentSoFar /\ Backed
  <2>0. Init => Backed
    BY DEF Init, Backed, BackingInv, EnqueuedOnce, SessionExisted, QuestionKept, Answering,
         RespondWorking, SuccessFromResponder, NothingOutlivesItsSession, HasRows,
         SuccessIsBackedByTheChat
  <2> SUFFICES ASSUME Init PROVE Silent
    BY <2>0
  <2>1. \A k \in Turns, s \in Sessions : AnswersOf(k, s) = {}
    BY DEF Init, AnswersOf
  <2>2. \A s \in Sessions : result[s] = None
    BY DEF Init
  <2> QED
    BY <2>1, <2>2 DEF Silent, NothingYet, OneAnswer, FailedIsSilent
<1>2. TypeOK /\ Backed /\ SilentSoFar /\ [Next]_vars => (Backed /\ SilentSoFar)'
  <2> SUFFICES ASSUME TypeOK, Backed, SilentSoFar, [Next]_vars, deaths' = 0 PROVE Silent'
    BY BackedStep
  <2>1. [Chat!Next]_(Chat!conversation)
    BY ConversationStep DEF Backed, BackingInv
  <2>2. deaths = 0 /\ \A k \in Turns : PhaseOf(k) = "settled" => PhaseOf(k)' = "settled"
    BY SettledStays DEF Backed, BackingInv
  <2> QED
    BY <2>1, <2>2, SilentStep
<1>3. TypeOK /\ SilentSoFar => FailedTurnsStaySilent
  <2> SUFFICES ASSUME TypeOK, deaths = 0, Silent, NEW s \in Sessions
               PROVE  /\ \A t \in Turns : Cardinality(AnswersOf(t, s)) <= 1
                      /\ (result[s] # None /\ result[s].type = "error")
                           => AnswersOf(result[s].turn, s) = {}
    BY DEF FailedTurnsStaySilent, AnswersOf
  <2>1. ASSUME NEW t \in Turns PROVE Cardinality(AnswersOf(t, s)) <= 1
    <3>1. CASE AnswersOf(t, s) = {}
      BY <3>1, FS_EmptySet
    <3>2. CASE AnswersOf(t, s) # {}
      <4>1. PICK i : AnswersOf(t, s) = {i}
        BY <3>2 DEF Silent, OneAnswer
      <4>2. Cardinality({i}) = 1
        BY FS_Singleton
      <4> QED
        BY <4>1, <4>2
    <3> QED
      BY <3>1, <3>2
  <2>2. ASSUME result[s] # None, result[s].type = "error"
        PROVE  AnswersOf(result[s].turn, s) = {}
    BY <2>2 DEF Silent, FailedIsSilent, TypeOK, ResultRow
  <2> QED
    BY <2>1, <2>2
<1> QED
  BY <1>1, <1>2, <1>3, TypeCorrect, PTL DEF Spec

-----------------------------------------------------------------------------
(* Who leaves the generation key behind *)

Holding == WorkingSteps \cup {"cancelled", "failed"}

\* The inductive reason: a key names a turn of its user that works, or that
\* was cancelled or has failed.
KeyHolders ==
  \A u \in Users : genKey[u] # None => /\ UserOf(genKey[u]) = u
                                       /\ job[genKey[u]] \in Holding

\* A release takes the key of the user of its turn.
LEMMA ReleaseKeepsHolders ==
  ASSUME TypeOK, KeyHolders, NEW t \in Turns, NEW from \in JobSteps, NEW to \in JobSteps,
         ReleaseKey(t, from, to)
  PROVE  KeyHolders'
<1>1. /\ genKey' = [genKey EXCEPT ![UserOf(t)] = None] /\ target' = target
      /\ \A k \in Turns \ {t} : job'[k] = job[k]
  BY DEF ReleaseKey, JobStep, TypeOK, plan
<1>2. ASSUME NEW u \in Users, genKey'[u] # None
      PROVE  Owner[target'[genKey'[u]]] = u /\ job'[genKey'[u]] \in Holding
  <2>1. u # UserOf(t) /\ genKey'[u] = genKey[u]
    BY <1>1, <1>2 DEF TypeOK
  <2>2. UserOf(genKey[u]) = u /\ job[genKey[u]] \in Holding /\ genKey[u] \in Turns \ {t}
    BY <1>2, <2>1 DEF KeyHolders, TypeOK
  <2> QED
    BY <1>1, <2>1, <2>2 DEF UserOf
<1> QED
  BY <1>2 DEF KeyHolders, UserOf

\* A step that takes no key, and after which whoever held one may hold it.
LEMMA QuietKeepsHolders ==
  ASSUME TypeOK, KeyHolders, target' = target,
         \A u \in Users : genKey'[u] \in {genKey[u], None},
         \A k \in Turns : job[k] \in Holding => job'[k] \in Holding
  PROVE  KeyHolders'
BY DEF KeyHolders, TypeOK, UserOf

\* Without redelivery every step keeps the keys in these hands.
LEMMA HoldersStep ==
  ASSUME TypeOK, EnqueuedOnce, KeyHolders, deaths' = 0, [Next]_vars
  PROVE  KeyHolders'
<1> USE DEF Holding, JobSteps, WorkingSteps, GenerateWorking, RespondWorking, SecondRelease, EndedSteps
<1>1. ASSUME NEW t \in Turns, Handler(t) PROVE KeyHolders'
  <2>1. genKey' = genKey /\ target' = target
    BY <1>1 DEF keys, plan, Handler, ReqCheck, ReqLock, ReqSpam, ReqRefuse, CreateSession,
         SendSave, SendLink, RetryRead, Enqueue, EnqueueFails, ReqUnlock
  <2>2. \A k \in Turns : job[k] \in Holding => job'[k] \in Holding
    BY <1>1 DEF TypeOK, EnqueuedOnce, Handler, ReqCheck, ReqLock, ReqSpam, ReqRefuse, CreateSession,
         SendSave, SendLink, RetryRead, Enqueue, EnqueueFails, ReqUnlock
  <2> QED
    BY <2>1, <2>2, QuietKeepsHolders
<1>2. ASSUME NEW t \in Turns, JobAcquire(t) PROVE KeyHolders'
  <2> DEFINE u == UserOf(t)
  <2>1. /\ u \in Users /\ target' = target /\ job[t] = "found"
        /\ job' = [job EXCEPT ![t] = IF genKey[u] = None THEN "locked" ELSE "dropped"]
        /\ genKey' = [genKey EXCEPT ![u] = IF @ = None THEN t ELSE @]
    BY <1>2, OwnerAssumption DEF JobAcquire, JobStep, plan, UserOf, TypeOK
  <2>2. CASE genKey[u] = None
    <3>1. job' = [job EXCEPT ![t] = "locked"] /\ genKey' = [genKey EXCEPT ![u] = t]
      BY <2>1, <2>2 DEF TypeOK
    <3>2. ASSUME NEW v \in Users, genKey'[v] # None
          PROVE  Owner[target[genKey'[v]]] = v /\ job'[genKey'[v]] \in Holding
      <4>1. CASE v = u
        BY <2>1, <3>1, <4>1 DEF TypeOK, UserOf
      <4>2. CASE v # u
        BY <2>1, <3>1, <3>2, <4>2 DEF TypeOK, KeyHolders, UserOf
      <4> QED
        BY <4>1, <4>2
    <3> QED
      BY <2>1, <3>2 DEF KeyHolders, UserOf
  <2>3. CASE genKey[u] # None
    <3>1. \A k \in Turns : job[k] \in Holding => job'[k] \in Holding
      BY <2>1 DEF TypeOK
    <3>2. \A v \in Users : genKey'[v] \in {genKey[v], None}
      BY <2>1, <2>3 DEF TypeOK
    <3> QED
      BY <2>1, <3>1, <3>2, QuietKeepsHolders
  <2> QED
    BY <2>2, <2>3
<1>3. ASSUME NEW t \in Turns,
             \/ ErrRelease(t) \/ OuterRelease(t) \/ OuterReleaseAgain(t)
             \/ PrErrRelease(t) \/ PrReleaseAgain(t) \/ PrRelease(t)
      PROVE  KeyHolders'
  <2>1. PICK from \in JobSteps, to \in JobSteps : ReleaseKey(t, from, to)
    BY <1>3 DEF ErrRelease, OuterRelease, OuterReleaseAgain, PrErrRelease, PrReleaseAgain, PrRelease
  <2> QED
    BY <2>1, ReleaseKeepsHolders
<1>4. ASSUME NEW t \in Turns,
             \/ JobClear(t) \/ JobLookup(t) \/ JobHistory(t) \/ ProviderAnswers(t)
             \/ ProviderFails(t) \/ CheckTombstone(t) \/ Publish(t) \/ PublishFails(t)
             \/ ErrCommit(t) \/ OuterCommit(t) \/ PrCommit(t) \/ PrReject(t) \/ PrErrCommit(t)
      PROVE  KeyHolders'
  <2>1. genKey' = genKey /\ target' = target
    BY <1>4 DEF keys, plan, JobClear, JobLookup, JobHistory, ProviderAnswers, ProviderFails,
         CheckTombstone, Publish, PublishFails, ErrCommit, OuterCommit, PrCommit, PrReject,
         PrErrCommit, AddErrorResult
  <2>2. \A k \in Turns : job[k] \in Holding => job'[k] \in Holding
    BY <1>4 DEF TypeOK, JobStep, JobClear, JobLookup, JobHistory, ProviderAnswers, ProviderFails,
         CheckTombstone, Publish, PublishFails, ErrCommit, OuterCommit, PrCommit, PrReject,
         PrErrCommit, AddErrorResult
  <2> QED
    BY <2>1, <2>2, QuietKeepsHolders
<1>5. ASSUME NEW t \in Turns, Dies(t) PROVE KeyHolders'
  <2>1. FALSE
    BY <1>5 DEF Dies, ApiDies, GenerateDies, RespondDies, TypeOK
  <2> QED
    BY <2>1
<1>6. ASSUME NEW u \in Users, GenKeyExpires(u) PROVE KeyHolders'
  <2>1. target' = target /\ job' = job /\ genKey' = [genKey EXCEPT ![u] = None]
    BY <1>6 DEF GenKeyExpires, plan
  <2> QED
    BY <2>1, QuietKeepsHolders DEF TypeOK
<1>7. ASSUME \/ \E s \in Sessions : DeleteChat(s) \/ DelKeyExpires(s)
             \/ \E u \in Users : CreKeyExpires(u)
             \/ CleanupOldResults
             \/ UNCHANGED vars
      PROVE  KeyHolders'
  <2>1. target' = target /\ job' = job /\ genKey' = genKey
    BY <1>7 DEF vars, keys, plan, CleanupOldResults, DeleteChat, SetTombstone, DeleteRows,
         DelKeyExpires, CreKeyExpires
  <2> QED
    BY <2>1, QuietKeepsHolders
<1> QED
  BY <1>1, <1>2, <1>3, <1>4, <1>5, <1>6, <1>7 DEF Next, Generate, Respond

\* As long as no process was killed, a task that has ended and whose key is
\* still there was cancelled by a deletion, or could not even store its error.
THEOREM KeyLeaks == Spec => []OnlyCancelledOrFailedLeakTheKey
<1> DEFINE HoldersSoFar == deaths = 0 => KeyHolders
<1>1. Init => Backed /\ HoldersSoFar
  BY DEF Init, Backed, BackingInv, EnqueuedOnce, SessionExisted, QuestionKept, Answering,
       RespondWorking, SuccessFromResponder, NothingOutlivesItsSession, HasRows,
       SuccessIsBackedByTheChat, KeyHolders
<1>2. TypeOK /\ Backed /\ HoldersSoFar /\ [Next]_vars => (Backed /\ HoldersSoFar)'
  <2> SUFFICES ASSUME TypeOK, Backed, HoldersSoFar, [Next]_vars, deaths' = 0 PROVE KeyHolders'
    BY BackedStep
  <2>1. KeyHolders
    BY SettledStays DEF Backed, BackingInv
  <2> QED
    BY <2>1, HoldersStep DEF Backed, BackingInv
<1>3. HoldersSoFar => OnlyCancelledOrFailedLeakTheKey
  BY DEF KeyHolders, OnlyCancelledOrFailedLeakTheKey, Holding, Ended, EndedSteps,
       WorkingSteps, GenerateWorking, RespondWorking
<1> QED
  BY <1>1, <1>2, <1>3, TypeCorrect, PTL DEF Spec
=============================================================================
