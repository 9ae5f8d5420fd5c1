---------------------------- MODULE SettingsProofs ----------------------------
(***************************************************************************)
(* Theorems about Settings, for every set of accounts, requests and saves. *)
(* Settings adds variables to Accounts and no step to its variables, so    *)
(* everything proved about Accounts holds here as well.                    *)
(***************************************************************************)
EXTENDS Settings, AccountsProofs

\* A step of Settings is one of Accounts, or leaves the accounts alone.
LEMMA StepOfAccounts == [SettingsNext]_allVars => [Next]_vars
BY DEF SettingsNext, allVars, SaveStep, SaveEnter, SaveRead, SaveCommit, SaveConflict, SaveAdopt,
   SaveCommitAgain, SaveFails, DeleteAccount, Next

\* Settings implements Accounts.
THEOREM SettingsImplementAccounts == SettingsSpec => Spec
<1>1. SettingsInit => Init
  BY DEF SettingsInit
<1> QED
  BY <1>1, StepOfAccounts, PTL DEF SettingsSpec, Spec

-----------------------------------------------------------------------------
(* Accounts over time *)

\* An account is deleted by a deletion only, and one that existed never counts as
\* never created.
LEMMA RolesOverTime ==
  ASSUME Types, [SettingsNext]_allVars, NEW u \in Users
  PROVE  /\ role[u] # "none" => role'[u] # "none"
         /\ role[u] = "gone" => role'[u] = "gone"
         /\ Exists(u) => \/ Exists(u)'
                         \/ \E o \in Requests : DeleteAccount(o) /\ request[o].target = u
<1> USE DEF Exists, Roles
<1>1. CASE \E o \in Requests : EditCommit(o)
  <2>1. PICK o \in Requests : EditCommit(o)
    BY <1>1
  <2>2. request[o].target \in Users /\ request[o].to \in Roles
    BY <2>1 DEF EditCommit, At, Types, Taken
  <2> QED
    BY <2>1, <2>2 DEF EditCommit, Types, TypeOK
<1>2. CASE \E o \in Requests : CreateCommit(o)
  BY <1>2 DEF CreateCommit, Types, TypeOK
<1>3. CASE \E o \in Requests : DeleteAccount(o)
  <2>1. PICK o \in Requests : DeleteAccount(o)
    BY <1>3
  <2>2. role' = [role EXCEPT ![request[o].target] = "gone"]
    BY <2>1 DEF DeleteAccount, DeleteCommit
  <2>3. CASE u = request[o].target
    BY <2>1, <2>2, <2>3 DEF Types, TypeOK
  <2>4. CASE u # request[o].target
    BY <2>2, <2>4
  <2> QED
    BY <2>3, <2>4
<1>4. CASE role' = role
  BY <1>4
<1>5. CASE StepButDelete
  BY <1>1, <1>2, <1>4, <1>5 DEF StepButDelete, Login, Change, Manage, LoginVerify, LoginOpen,
     SessionEnds, ChangeVerify, ChangeCommit, ChangeFails, AdminEnter, AdminRead, AdminRefuses,
     ResetCommit
<1>6. CASE \E v \in Saves : SaveStep(v)
  BY <1>4, <1>6 DEF SaveStep, SaveEnter, SaveRead, SaveCommit, SaveConflict, SaveAdopt,
     SaveCommitAgain, SaveFails, vars
<1>7. CASE UNCHANGED allVars
  BY <1>4, <1>7 DEF allVars, vars
<1> QED
  BY <1>3, <1>5, <1>6, <1>7 DEF SettingsNext

-----------------------------------------------------------------------------
(* Types of the row and the saves *)

\* A save that is at work has an author who existed; one that is going to write has
\* read a row unless it is the first, and the row is never deleted.
Saving ==
  \A v \in Saves :
    /\ save[v].step \in {"entered", "read", "conflict", "adopted", "refused", "failed"} =>
         save[v].by \in Users /\ role[save[v].by] # "none"
    /\ save[v].seen # None => settings # None
    /\ save[v].step = "adopted" => save[v].seen # None

\* Who was refused, or will be, for want of a row.
Refused ==
  \A v \in Saves :
    /\ save[v].step = "conflict" => settings # None \/ role[save[v].by] = "gone"
    /\ save[v].step \in {"refused", "failed"} => role[save[v].by] = "gone"

SettingsInv == SettingsTypeOK /\ Saving /\ AttributionExists /\ Refused

\* None is not a row, and not an author.
LEMMA NoneIsNoRow == /\ None \notin Users /\ None \notin Row
                     /\ \A r \in Row : r.by \in Users \cup {None} /\ r.value \in [Fields -> Values]
BY NamesAssumption, ValuesAssumption DEF Row

\* A save that does not break a key writes a row whose author exists, whose fields are
\* values, and which differs from the old row in fields that were sent only.
LEMMA Written ==
  ASSUME SettingsInv, NEW v \in Saves, save[v].step \in {"read", "adopted"}, ~BreaksKey(v)
  PROVE  /\ save[v].seen = None => /\ settings = None
                                   /\ Inserted(v) \in Row
                                   /\ Exists(Inserted(v).by)
         /\ save[v].seen # None =>
              /\ settings \in Row
              /\ Updated(settings, v) \in Row
              /\ Updated(settings, v).by # None => Exists(Updated(settings, v).by)
              /\ \A f \in Fields :
                   Updated(settings, v).value[f] # settings.value[f] =>
                     f \in save[v].sent /\ Updated(settings, v).value[f] = save[v].data[f]
<1>1. /\ save[v] \in Save /\ save[v].by \in Users
      /\ save[v].data \in [Fields -> Values] /\ save[v].seen \in Row \cup {None}
  BY DEF SettingsInv, SettingsTypeOK, Saving, Save
<1>2. ASSUME save[v].seen = None
      PROVE  settings = None /\ Inserted(v) \in Row /\ Exists(Inserted(v).by)
  <2>1. settings = None /\ Exists(save[v].by)
    BY <1>2 DEF BreaksKey
  <2>2. Inserted(v).by = save[v].by
    BY DEF Inserted
  <2>3. [f \in Fields |-> IF f \in save[v].sent THEN save[v].data[f] ELSE "default"]
          \in [Fields -> Values]
    BY <1>1, ValuesAssumption
  <2> QED
    BY <1>1, <2>1, <2>2, <2>3 DEF Inserted, Row
<1>3. ASSUME save[v].seen # None
      PROVE  /\ settings \in Row
             /\ Updated(settings, v) \in Row
             /\ Updated(settings, v).by # None => Exists(Updated(settings, v).by)
             /\ \A f \in Fields :
                  Updated(settings, v).value[f] # settings.value[f] =>
                    f \in save[v].sent /\ Updated(settings, v).value[f] = save[v].data[f]
  <2>1. settings \in Row /\ settings # None
    BY <1>3 DEF SettingsInv, SettingsTypeOK, Saving
  <2>2. settings.by \in Users \cup {None} /\ settings.value \in [Fields -> Values]
    BY <2>1, NoneIsNoRow
  <2> DEFINE new == [f \in Fields |-> IF f \in save[v].sent /\ save[v].data[f] # save[v].seen.value[f]
                                      THEN save[v].data[f] ELSE settings.value[f]]
             author == IF save[v].by # save[v].seen.by THEN save[v].by ELSE settings.by
  <2>3. Updated(settings, v) = [value |-> new, by |-> author]
    BY DEF Updated
  <2>4. new \in [Fields -> Values] /\ author \in Users \cup {None}
    BY <1>1, <2>2
  <2>5. author # None => Exists(author)
    BY <1>3, <2>1 DEF BreaksKey, SettingsInv, AttributionExists
  <2>6. \A f \in Fields : new[f] # settings.value[f] => f \in save[v].sent /\ new[f] = save[v].data[f]
    OBVIOUS
  <2> HIDE DEF new, author
  <2> QED
    BY <2>1, <2>3, <2>4, <2>5, <2>6 DEF Row
<1> QED
  BY <1>2, <1>3

\* Every save step keeps the invariant.
LEMMA SaveStepInv ==
  ASSUME Types, SessionsHaveUsers, SettingsInv, NEW v \in Saves, SaveStep(v)
  PROVE  SettingsInv'
<1> USE DEF SettingsInv
<1>0. /\ save \in [Saves -> Save] /\ save[v] \in Save /\ settings \in Row \cup {None}
      /\ UNCHANGED vars
  BY DEF SettingsTypeOK, SaveStep, SaveEnter, SaveRead, SaveCommit, SaveConflict, SaveAdopt,
     SaveCommitAgain, SaveFails
<1>1. UNCHANGED role
  BY <1>0 DEF vars
<1>2. ASSUME NEW r \in Save, save' = [save EXCEPT ![v] = r], UNCHANGED <<settings, latest>>,
             r.step \in {"entered", "read", "conflict", "adopted", "refused", "failed"} =>
               r.by \in Users /\ role[r.by] # "none",
             r.seen # None => settings # None,
             r.step = "adopted" => r.seen # None,
             r.step = "conflict" => settings # None \/ role[r.by] = "gone",
             r.step \in {"refused", "failed"} => role[r.by] = "gone"
      PROVE  SettingsInv'
  <2>1. \A w \in Saves : save'[w] = IF w = v THEN r ELSE save[w]
    BY <1>0, <1>2
  <2>2. SettingsTypeOK'
    BY <1>0, <1>2 DEF SettingsTypeOK
  <2>3. Saving'
    BY <1>1, <1>2, <2>1 DEF Saving
  <2>4. AttributionExists' /\ Refused'
    BY <1>1, <1>2, <2>1 DEF AttributionExists, Refused, Exists
  <2> QED
    BY <2>2, <2>3, <2>4
<1>3. ASSUME NEW row \in Row, Accept(v, row), row.by # None => Exists(row.by) PROVE SettingsInv'
  <2>1. save' = [save EXCEPT ![v] = [NoSave EXCEPT !.step = "saved"]] /\ settings' = row
    BY <1>3 DEF Accept
  <2>2. \A w \in Saves : w # v => save'[w] = save[w]
    BY <1>0, <2>1
  <2>3. save'[v] \in Save /\ save'[v].step = "saved" /\ save'[v].seen = None
    <3>1. save'[v] = [NoSave EXCEPT !.step = "saved"]
      BY <1>0, <2>1
    <3> QED
      BY <3>1, ValuesAssumption DEF NoSave, Save, Defaults
  <2>4. latest' \in [Fields -> Values]
    <3>1. save[v].data \in [Fields -> Values]
      BY <1>0 DEF Save
    <3> QED
      BY <1>3, <3>1 DEF Accept, SettingsTypeOK
  <2>5. save' \in [Saves -> Save]
    BY <1>0, <2>1, <2>3
  <2>6. SettingsTypeOK' /\ settings' # None
    BY <2>1, <2>4, <2>5, NoneIsNoRow DEF SettingsTypeOK
  <2>7. Saving'
    BY <1>1, <2>2, <2>3, <2>6 DEF Saving
  <2>8. AttributionExists'
    BY <1>1, <1>3, <2>1 DEF AttributionExists, Exists
  <2>9. Refused'
    BY <1>1, <2>2, <2>3, <2>6 DEF Refused
  <2> QED
    BY <2>6, <2>7, <2>8, <2>9
<1>4. CASE SaveEnter(v)
  <2>1. PICK s \in session :
          save[v].step = "idle" /\ save' = [save EXCEPT ![v].step = "entered", ![v].by = s.user]
    BY <1>4 DEF SaveEnter
  <2> DEFINE r == [save[v] EXCEPT !.step = "entered", !.by = s.user]
  <2>2. s.user \in Users /\ role[s.user] # "none"
    BY DEF Types, TypeOK, Session, SessionsHaveUsers, Exists, Roles
  <2>3. r \in Save /\ r.step = "entered" /\ r.by = s.user /\ r.seen = save[v].seen
    BY <1>0, <2>2 DEF Save
  <2>4. save' = [save EXCEPT ![v] = r] /\ UNCHANGED <<settings, latest>>
    BY <1>0, <1>4, <2>1 DEF SaveEnter
  <2>5. r.seen # None => settings # None
    BY <2>3 DEF Saving
  <2> HIDE DEF r
  <2> QED
    BY <1>2, <2>2, <2>3, <2>4, <2>5
<1>5. CASE SaveRead(v)
  <2>1. PICK sent \in SUBSET Fields, data \in [Fields -> Values] :
          /\ save[v].step = "entered"
          /\ save' = [save EXCEPT ![v].step = "read", ![v].sent = sent,
                                  ![v].data = data, ![v].seen = settings]
    BY <1>5 DEF SaveRead
  <2> DEFINE r == [save[v] EXCEPT !.step = "read", !.sent = sent, !.data = data, !.seen = settings]
  <2>2. r \in Save /\ r.step = "read" /\ r.by = save[v].by /\ r.seen = settings
    BY <1>0 DEF Save
  <2>3. save' = [save EXCEPT ![v] = r] /\ UNCHANGED <<settings, latest>>
    BY <1>0, <1>5, <2>1 DEF SaveRead
  <2>4. r.by \in Users /\ role[r.by] # "none"
    BY <2>1, <2>2 DEF Saving
  <2> HIDE DEF r
  <2> QED
    BY <1>2, <2>2, <2>3, <2>4
<1>6. CASE SaveCommit(v) \/ SaveCommitAgain(v)
  <2>1. save[v].step \in {"read", "adopted"} /\ ~BreaksKey(v)
    BY <1>6 DEF SaveCommit, SaveCommitAgain
  <2>2. CASE save[v].seen = None
    BY <1>3, <1>6, <2>1, <2>2, Written DEF SaveCommit, SaveCommitAgain, Saving
  <2>3. CASE save[v].seen # None
    BY <1>3, <1>6, <2>1, <2>3, Written DEF SaveCommit, SaveCommitAgain
  <2> QED
    BY <2>2, <2>3
<1>7. ASSUME save[v].step \in {"read", "adopted"}, BreaksKey(v)
      PROVE  /\ save[v].by \in Users /\ role[save[v].by] # "none"
             /\ settings # None \/ role[save[v].by] = "gone"
             /\ save[v].step = "adopted" => role[save[v].by] = "gone"
  <2>1. save[v].by \in Users /\ role[save[v].by] # "none"
    BY <1>7 DEF Saving
  <2>2. Exists(save[v].by) \/ role[save[v].by] = "gone"
    BY <2>1 DEF Types, TypeOK, Exists
  <2> QED
    BY <1>7, <2>1, <2>2 DEF BreaksKey, Saving
<1>8. CASE SaveConflict(v) \/ SaveFails(v)
  <2> DEFINE s == IF SaveConflict(v) THEN "conflict" ELSE "failed"
             r == [save[v] EXCEPT !.step = s]
  <2>1. /\ save[v].step \in {"read", "adopted"} /\ BreaksKey(v)
        /\ s = "failed" => save[v].step = "adopted"
        /\ save' = [save EXCEPT ![v].step = s] /\ UNCHANGED <<settings, latest>>
    BY <1>8 DEF SaveConflict, SaveFails
  <2>2. s \in {"conflict", "failed"}
    OBVIOUS
  <2> HIDE DEF s
  <2>3. r \in Save /\ r.step = s /\ r.by = save[v].by /\ r.seen = save[v].seen
    BY <1>0, <2>2 DEF Save
  <2>4. save' = [save EXCEPT ![v] = r]
    BY <1>0, <2>1
  <2>5. r.seen # None => settings # None
    BY <2>3 DEF Saving
  <2> HIDE DEF r
  <2> QED
    BY <1>2, <1>7, <2>1, <2>2, <2>3, <2>4, <2>5
<1>9. CASE SaveAdopt(v)
  <2> DEFINE s == IF settings = None THEN "refused" ELSE "adopted"
             r == [save[v] EXCEPT !.seen = settings, !.step = s]
  <2>1. /\ save[v].step = "conflict"
        /\ save' = [save EXCEPT ![v].seen = settings, ![v].step = s]
        /\ UNCHANGED <<settings, latest>>
    BY <1>9 DEF SaveAdopt
  <2>2. r \in Save /\ r.step = s /\ r.by = save[v].by /\ r.seen = settings
    BY <1>0 DEF Save
  <2>3. save' = [save EXCEPT ![v] = r]
    BY <1>0, <2>1
  <2>4. /\ save[v].by \in Users /\ role[save[v].by] # "none"
        /\ settings # None \/ role[save[v].by] = "gone"
    BY <2>1 DEF Saving, Refused
  <2> HIDE DEF r
  <2> QED
    BY <1>2, <2>1, <2>2, <2>3, <2>4
<1> QED
  BY <1>4, <1>5, <1>6, <1>8, <1>9 DEF SaveStep

\* So does every step of an account: a deletion takes the author out of the row.
LEMMA AccountStepInv ==
  ASSUME Types, SettingsInv, [SettingsNext]_allVars, UNCHANGED <<save, latest>>,
         \/ UNCHANGED settings /\ ~\E o \in Requests : DeleteAccount(o)
         \/ \E o \in Requests : DeleteAccount(o)
  PROVE  SettingsInv'
<1> USE DEF SettingsInv
<1>1. \A u \in Users : /\ role[u] # "none" => role'[u] # "none"
                       /\ role[u] = "gone" => role'[u] = "gone"
  BY RolesOverTime
<1>2. /\ settings' \in Row \cup {None}
      /\ settings # None => settings' # None
      /\ AttributionExists'
  <2>1. CASE UNCHANGED settings /\ ~\E o \in Requests : DeleteAccount(o)
    <3>1. \A u \in Users : Exists(u) => Exists(u)'
      BY <2>1, RolesOverTime
    <3> QED
      BY <2>1, <3>1, NoneIsNoRow DEF SettingsTypeOK, AttributionExists
  <2>2. CASE \E o \in Requests : DeleteAccount(o)
    <3>1. PICK o \in Requests : DeleteAccount(o)
      BY <2>2
    <3>2. /\ Forget(request[o].target)
          /\ role' = [role EXCEPT ![request[o].target] = "gone"]
      BY <3>1 DEF DeleteAccount, DeleteCommit
    <3>3. CASE settings # None /\ settings.by = request[o].target
      <4>1. settings' = [settings EXCEPT !.by = None] /\ settings \in Row
        BY <3>2, <3>3 DEF Forget, SettingsTypeOK
      <4>2. settings' \in Row /\ settings'.by = None
        BY <4>1 DEF Row
      <4> QED
        BY <4>2, NoneIsNoRow DEF AttributionExists
    <3>4. CASE ~(settings # None /\ settings.by = request[o].target)
      <4>1. settings' = settings
        BY <3>2, <3>4 DEF Forget
      <4>2. settings # None /\ settings.by # None => settings.by \in Users /\ Exists(settings.by)
        BY NoneIsNoRow DEF SettingsTypeOK, AttributionExists
      <4>3. settings # None /\ settings.by # None => role'[settings.by] = role[settings.by]
        BY <3>2, <3>4, <4>2 DEF Types, TypeOK
      <4> QED
        BY <4>1, <4>2, <4>3 DEF SettingsTypeOK, AttributionExists, Exists
    <3> QED
      BY <3>3, <3>4
  <2> QED
    BY <2>1, <2>2
<1>3. SettingsTypeOK'
  BY <1>2 DEF SettingsTypeOK
<1>4. Saving' /\ Refused'
  BY <1>1, <1>2 DEF Saving, Refused, SettingsTypeOK, Save
<1> QED
  BY <1>2, <1>3, <1>4

\* The initial states satisfy the invariant.
LEMMA InitSettings == SettingsInit => SettingsInv
<1> SUFFICES ASSUME SettingsInit PROVE SettingsInv
  OBVIOUS
<1>1. NoSave \in Save
  BY ValuesAssumption DEF NoSave, Save, Defaults
<1>2. SettingsTypeOK
  BY <1>1, ValuesAssumption DEF SettingsInit, SettingsTypeOK, Defaults, Row
<1>3. Saving /\ Refused /\ AttributionExists
  BY DEF SettingsInit, Saving, Refused, AttributionExists, NoSave
<1> QED
  BY <1>2, <1>3 DEF SettingsInv

\* Every step keeps the invariant.
LEMMA SettingsStep ==
  Types /\ SessionsHaveUsers /\ SettingsInv /\ [SettingsNext]_allVars => SettingsInv'
<1> SUFFICES ASSUME Types, SessionsHaveUsers, SettingsInv, [SettingsNext]_allVars
             PROVE  SettingsInv'
  OBVIOUS
<1>1. CASE \E v \in Saves : SaveStep(v)
  BY <1>1, SaveStepInv
<1>2. CASE \E o \in Requests : DeleteAccount(o)
  <2>1. UNCHANGED <<save, latest>>
    BY <1>2 DEF DeleteAccount
  <2> QED
    BY <1>2, <2>1, AccountStepInv
<1>3. CASE UNCHANGED <<settings, save, latest>> /\ ~\E o \in Requests : DeleteAccount(o)
  BY <1>3, AccountStepInv
<1> QED
  BY <1>1, <1>2, <1>3 DEF SettingsNext, allVars

\* The types, what is known of accounts and what is known of settings, always.
LEMMA SettingsAlways == SettingsSpec => [](Types /\ SessionsHaveUsers /\ SettingsInv)
<1> DEFINE Inv == Types /\ SessionsHaveUsers /\ SettingsInv
<1>1. SettingsInit => Inv
  BY InitCore, InitSettings DEF SettingsInit
<1>2. Inv /\ [SettingsNext]_allVars => Inv'
  BY StepOfAccounts, TypeStep, SessionStep, SettingsStep
<1> QED
  BY <1>1, <1>2, PTL DEF SettingsSpec

-----------------------------------------------------------------------------
(* The theorems *)

\* In every reachable state the row and the saves are in their types: no field of
\* the row is ever null.
THEOREM SettingsTypeCorrect == SettingsSpec => []SettingsTypeOK
BY SettingsAlways, PTL DEF SettingsInv

\* The author that the row names exists, whenever accounts are deleted.
THEOREM AttributionCorrect == SettingsSpec => []AttributionExists
BY SettingsAlways, PTL DEF SettingsInv

\* Who loses a race saves all the same: only the deletion of its author refuses a save.
THEOREM RefusalsCorrect == SettingsSpec => []OnlyTheDeletedAreRefused
<1>1. SettingsInv => OnlyTheDeletedAreRefused
  BY DEF SettingsInv, Refused, OnlyTheDeletedAreRefused
<1> QED
  BY <1>1, SettingsAlways, PTL

\* A step changes a field of the row only for an accepted save that sent the field.
LEMMA SentStep ==
  ASSUME SettingsInv, [SettingsNext]_allVars, NEW f \in Fields,
         settings # None, settings'.value[f] # settings.value[f]
  PROVE  \E v \in Saves : /\ f \in save[v].sent /\ settings'.value[f] = save[v].data[f]
                          /\ save'[v].step = "saved"
<1>1. settings \in Row
  BY DEF SettingsInv, SettingsTypeOK
<1>2. settings' # settings
  OBVIOUS
<1>3. ~\E o \in Requests : DeleteAccount(o)
  <2> SUFFICES ASSUME NEW o \in Requests, DeleteAccount(o) PROVE FALSE
    OBVIOUS
  <2>1. settings' = [settings EXCEPT !.by = None]
    BY <1>2 DEF DeleteAccount, Forget
  <2>2. settings'.value = settings.value
    BY <1>1, <2>1 DEF Row
  <2> QED
    BY <2>2
<1>4. PICK v \in Saves : SaveStep(v)
  BY <1>2, <1>3 DEF SettingsNext, allVars
<1>5. /\ save[v].step \in {"read", "adopted"} /\ ~BreaksKey(v)
      /\ Accept(v, Updated(settings, v))
  <2>1. SaveCommit(v) \/ SaveCommitAgain(v)
    BY <1>2, <1>4 DEF SaveStep, SaveEnter, SaveRead, SaveConflict, SaveAdopt, SaveFails
  <2>2. save[v].step \in {"read", "adopted"} /\ ~BreaksKey(v)
    BY <2>1 DEF SaveCommit, SaveCommitAgain
  <2>3. save[v].seen # None
    BY <2>2, Written
  <2> QED
    BY <2>1, <2>2, <2>3 DEF SaveCommit, SaveCommitAgain
<1>6. settings' = Updated(settings, v)
  BY <1>5 DEF Accept
<1>7. f \in save[v].sent /\ settings'.value[f] = save[v].data[f]
  BY <1>5, <1>6, Written
<1>8. save'[v].step = "saved"
  <2>1. save' = [save EXCEPT ![v] = [NoSave EXCEPT !.step = "saved"]] /\ save \in [Saves -> Save]
    BY <1>5 DEF Accept, SettingsInv, SettingsTypeOK
  <2>2. save'[v] = [NoSave EXCEPT !.step = "saved"]
    BY <2>1
  <2> QED
    BY <2>2 DEF NoSave
<1> QED
  BY <1>7, <1>8

\* However saves overlap, one touches no field that it did not send.
THEOREM OnlySentFieldsCorrect == SettingsSpec => OnlySentFieldsChange
<1> DEFINE Step == \A f \in Fields :
       (settings # None /\ settings'.value[f] # settings.value[f]) =>
         \E v \in Saves : /\ f \in save[v].sent /\ settings'.value[f] = save[v].data[f]
                          /\ save'[v].step = "saved"
<1>1. (Types /\ SessionsHaveUsers /\ SettingsInv) /\ [SettingsNext]_allVars => [Step]_allVars
  BY SentStep
<1> QED
  BY <1>1, SettingsAlways, PTL DEF SettingsSpec, OnlySentFieldsChange

=============================================================================
