----------------------------- MODULE Conversation -----------------------------
(***************************************************************************)
(* What the chat promises its users, without locks, queues, keys or workers. *)
(* A turn is asked, accepted, and settled by an answer, by an error, or by    *)
(* nothing at all.  An answer and the result that reports it appear together, *)
(* in a chat that lives, after a question, and while no other result stands.  *)
(* Generation is shown to implement it.                                     *)
(***************************************************************************)
EXTENDS Naturals, Sequences

CONSTANTS
  Sessions, Turns, None,
  Again    \* TRUE: a turn that is settled may be worked on once more

VARIABLES
  state,   \* of a session: "absent", "live", "deleted"
  chat,    \* the stored messages of a session
  verdict, \* what a poll of the session may report: None or [type, turn]
  about,   \* the session each turn is about (fixed)
  phase    \* of a turn: "idle", "asked", "over", "pending", "settled"

conversation == <<state, chat, verdict, about, phase>>

Said(role, t) == [role |-> role, turn |-> t]
Result(type, t) == [type |-> type, turn |-> t]

Init ==
  /\ state \in [Sessions -> {"absent", "live"}]
  /\ chat = [s \in Sessions |-> IF state[s] = "live" THEN <<Said("system", None)>> ELSE <<>>]
  /\ verdict = [s \in Sessions |-> None]
  /\ about \in [Turns -> Sessions]
  /\ phase = [t \in Turns |-> "idle"]

Moves(t, from, to) ==
  /\ phase[t] \in from
  /\ phase' = [phase EXCEPT ![t] = to]
  /\ about' = about

Open(t) ==
  LET s == about[t] IN
  /\ Moves(t, {"idle"}, "over")
  /\ state[s] = "absent"
  /\ state' = [state EXCEPT ![s] = "live"]
  /\ chat' = [chat EXCEPT ![s] = <<Said("system", None)>>]
  /\ verdict' = verdict

Ask(t) ==
  LET s == about[t] IN
  /\ Moves(t, {"idle"}, "asked")
  /\ state[s] = "live"
  /\ chat' = [chat EXCEPT ![s] = Append(@, Said("user", t))]
  /\ UNCHANGED <<state, verdict>>

\* Only what was reported as failed can be asked for again.
Retry(t) ==
  LET s == about[t] IN
  /\ Moves(t, {"idle"}, "asked")
  /\ verdict[s] # None /\ verdict[s].type = "error"
  /\ UNCHANGED <<state, chat, verdict>>

Accept(t) == Moves(t, {"asked"}, "pending") /\ UNCHANGED <<state, chat, verdict>>
Refuse(t) == Moves(t, {"idle", "asked"}, "over") /\ UNCHANGED <<state, chat, verdict>>

\* Result and answer in one step.
Answer(t) ==
  LET s == about[t] IN
  /\ Moves(t, {"pending"}, "settled")
  /\ state[s] = "live" /\ verdict[s] = None
  /\ \E i \in DOMAIN chat[s] : chat[s][i].role = "user"
  /\ chat' = [chat EXCEPT ![s] = Append(@, Said("assistant", t))]
  /\ verdict' = [verdict EXCEPT ![s] = Result("success", t)]
  /\ state' = state

Fail(t) ==
  LET s == about[t] IN
  /\ Moves(t, {"pending"}, "settled")
  /\ state[s] = "live" /\ verdict[s] = None
  /\ verdict' = [verdict EXCEPT ![s] = Result("error", t)]
  /\ UNCHANGED <<state, chat>>

GiveUp(t) == Moves(t, {"pending"}, "settled") /\ UNCHANGED <<state, chat, verdict>>
Redo(t) == Again /\ Moves(t, {"settled"}, "pending") /\ UNCHANGED <<state, chat, verdict>>

Forget(old) ==
  /\ verdict' = [s \in Sessions |-> IF s \in old THEN None ELSE verdict[s]]
  /\ UNCHANGED <<state, chat, about, phase>>

Delete(s) ==
  /\ state[s] = "live"
  /\ state' = [state EXCEPT ![s] = "deleted"]
  /\ chat' = [chat EXCEPT ![s] = <<>>]
  /\ verdict' = [verdict EXCEPT ![s] = None]
  /\ UNCHANGED <<about, phase>>

Settle(t) == Answer(t) \/ Fail(t) \/ GiveUp(t)

Next ==
  \/ \E t \in Turns : \/ Open(t) \/ Ask(t) \/ Retry(t) \/ Accept(t) \/ Refuse(t)
                      \/ Settle(t) \/ Redo(t)
  \/ \E old \in SUBSET Sessions : Forget(old)
  \/ \E s \in Sessions : Delete(s)

\* What was asked is accepted or refused, and what was accepted is settled.
Fairness == \A t \in Turns :
  /\ WF_conversation(phase[t] = "asked" /\ (Accept(t) \/ Refuse(t)))
  /\ WF_conversation(Settle(t))

Safe == Init /\ [][Next]_conversation
Spec == Safe /\ Fairness
=============================================================================
