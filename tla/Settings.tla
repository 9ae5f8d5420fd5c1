------------------------------- MODULE Settings -------------------------------
(***************************************************************************)
(* The one row of instance settings, saved by admins while accounts are    *)
(* managed: _save_settings and _apply_settings (routes/admin.py) and the   *)
(* row's reference to the account that saved it (models/settings.py).      *)
(***************************************************************************)
EXTENDS Accounts

CONSTANTS
  Saves,      \* bound: the PUT requests of a behaviour
  Values      \* the values of a field; the default is one of them

VARIABLES
  settings,   \* the row: prompt_extension, parameters, last_update_by; or None
  save,       \* the PUT requests at work
  latest      \* ghost: per field the value of the last accepted save that sent it

allVars == <<vars, settings, save, latest>>

-----------------------------------------------------------------------------
Fields == {"prompt_extension", "parameters"}
Row == [value : [Fields -> Values], by : Users \cup {None}]

ASSUME ValuesAssumption == "default" \in Values /\ None \notin Row

Save == [step : {"idle", "entered", "read", "conflict", "adopted", "saved", "refused", "failed"},
         by : Users \cup {None},
         sent : SUBSET Fields,
         data : [Fields -> Values],
         seen : Row \cup {None}]

Defaults == [f \in Fields |-> "default"]
NoSave == [step |-> "idle", by |-> None, sent |-> {}, data |-> Defaults, seen |-> None]

\* No row yet, or one whose author is gone.
SettingsInit ==
  /\ Init
  /\ settings \in {None, [value |-> Defaults, by |-> None]}
  /\ save = [v \in Saves |-> NoSave]
  /\ latest = Defaults

\* Mutant: all the columns are written, the ones that were only read as well.
MutantUpdatedWhole(row, v) ==
  [value |-> [f \in Fields |-> IF f \in save[v].sent THEN save[v].data[f]
                                                     ELSE save[v].seen.value[f]],
   by |-> save[v].by]

\* The UPDATE of a row: the ORM writes a column only if it differs from what was read.
Updated(row, v) ==
  LET r == save[v]
  IN  [value |-> [f \in Fields |->
                    IF f \in r.sent /\ r.data[f] # r.seen.value[f] THEN r.data[f] ELSE row.value[f]],
       by |-> IF r.by # r.seen.by THEN r.by ELSE row.by]

\* The INSERT of the first row.
Inserted(v) ==
  [value |-> [f \in Fields |-> IF f \in save[v].sent THEN save[v].data[f] ELSE "default"],
   by |-> save[v].by]

\* The statement inserts a row that is there, or writes an author who is not.
BreaksKey(v) ==
  IF save[v].seen = None THEN settings # None \/ ~Exists(save[v].by)
                         ELSE save[v].by # save[v].seen.by /\ ~Exists(save[v].by)

Accept(v, row) ==
  /\ settings' = row
  /\ save' = [save EXCEPT ![v] = [NoSave EXCEPT !.step = "saved"]]
  /\ latest' = [f \in Fields |-> IF f \in save[v].sent THEN save[v].data[f] ELSE latest[f]]

\* require_login, require_admin
SaveEnter(v) ==
  /\ save[v].step = "idle"
  /\ \E s \in session :
       /\ role[s.user] # "user"
       /\ save' = [save EXCEPT ![v].step = "entered", ![v].by = s.user]
  /\ UNCHANGED <<vars, settings, latest>>

\* The first db.get.
SaveRead(v) ==
  /\ save[v].step = "entered"
  /\ \E sent \in SUBSET Fields, data \in [Fields -> Values] :
       /\ \A f \in Fields \ sent : data[f] = "default"
       /\ save' = [save EXCEPT ![v].step = "read", ![v].sent = sent,
                               ![v].data = data, ![v].seen = settings]
  /\ UNCHANGED <<vars, settings, latest>>

SaveCommit(v) ==
  /\ save[v].step = "read" /\ ~BreaksKey(v)
  /\ Accept(v, IF save[v].seen = None THEN Inserted(v) ELSE Updated(settings, v))
  /\ UNCHANGED vars

\* IntegrityError: the loser of two first saves, or an author who is gone.
SaveConflict(v) ==
  /\ save[v].step = "read" /\ BreaksKey(v)
  /\ save' = [save EXCEPT ![v].step = "conflict"]
  /\ UNCHANGED <<vars, settings, latest>>

\* Mutant: what was read before the rollback is taken for the row.
MutantSaveAdoptStale(v) ==
  /\ save[v].step = "conflict"
  /\ save' = [save EXCEPT ![v].step = IF save[v].seen = None THEN "refused" ELSE "adopted"]
  /\ UNCHANGED <<vars, settings, latest>>

\* The row is read again; without one the answer is 409.
SaveAdopt(v) ==
  /\ save[v].step = "conflict"
  /\ save' = [save EXCEPT ![v].seen = settings,
                          ![v].step = IF settings = None THEN "refused" ELSE "adopted"]
  /\ UNCHANGED <<vars, settings, latest>>

SaveCommitAgain(v) ==
  /\ save[v].step = "adopted" /\ ~BreaksKey(v)
  /\ Accept(v, Updated(settings, v))
  /\ UNCHANGED vars

\* Nobody catches the second IntegrityError.
SaveFails(v) ==
  /\ save[v].step = "adopted" /\ BreaksKey(v)
  /\ save' = [save EXCEPT ![v].step = "failed"]
  /\ UNCHANGED <<vars, settings, latest>>

\* Mutant: the row keeps its reference.
MutantForgetNothing(u) == settings' = settings

\* ON DELETE SET NULL
Forget(u) ==
  settings' = IF settings # None /\ settings.by = u THEN [settings EXCEPT !.by = None] ELSE settings

DeleteAccount(o) ==
  /\ DeleteCommit(o)
  /\ Forget(request[o].target)
  /\ UNCHANGED <<save, latest>>

-----------------------------------------------------------------------------
SaveStep(v) ==
  \/ SaveEnter(v) \/ SaveRead(v) \/ SaveCommit(v) \/ SaveConflict(v)
  \/ SaveAdopt(v) \/ SaveCommitAgain(v) \/ SaveFails(v)

SettingsNext ==
  \/ StepButDelete /\ UNCHANGED <<settings, save, latest>>
  \/ \E o \in Requests : DeleteAccount(o)
  \/ \E v \in Saves : SaveStep(v)

SettingsSpec == SettingsInit /\ [][SettingsNext]_allVars

-----------------------------------------------------------------------------
(* Properties *)

\* The row, the saves and the ghost stay in their types; no field is ever null.
SettingsTypeOK ==
  /\ settings \in Row \cup {None}
  /\ save \in [Saves -> Save]
  /\ latest \in [Fields -> Values]

\* Whoever the row names is an account that is there, also when that account is
\* deleted while its save is on the way.
AttributionExists == settings # None => settings.by = None \/ Exists(settings.by)

\* A save touches no field it did not send, however saves overlap, the loser of
\* two first saves included ("only the fields present in the body are touched",
\* routes/admin.py:345).
OnlySentFieldsChange ==
  [][\A f \in Fields :
       (settings # None /\ settings'.value[f] # settings.value[f]) =>
         \E v \in Saves : /\ f \in save[v].sent /\ settings'.value[f] = save[v].data[f]
                          /\ save'[v].step = "saved"]_allVars

\* A save is answered 409 or 500 only because its author was deleted meanwhile:
\* whoever loses a race saves all the same.
OnlyTheDeletedAreRefused ==
  \A v \in Saves : save[v].step \in {"refused", "failed"} => role[save[v].by] = "gone"

-----------------------------------------------------------------------------
(* What the repository says, and the code does not do *)

\* "the last write wins, which is what two sequential saves would have done"
\* (routes/admin.py:252; .context/DECISIONS.md:802-803): a field has the value of
\* the last accepted save that sent it.
LastWriteWins == settings # None => settings.value = latest

=============================================================================
