-------------------------------- MODULE ChatList --------------------------------
(***************************************************************************)
(* The list of a user's chats and the history page that walks through it.    *)
(* The server answers a page in two statements, each of which sees what is   *)
(* committed by then, while messages move chats through the order; the page  *)
(* may have several requests on the way, which are answered in any order.    *)
(***************************************************************************)
EXTENDS Integers, SequencesExt, FiniteSetsExt

CONSTANTS
  ChatIds,       \* session ids: numbers, for they are ordered
  PerPage,       \* items_per_page
  MaxClock,      \* bound: time
  MaxAsked,      \* bound: requests of the history page
  MaxFlying,     \* bound: of these, on the way at a time
  MaxWrites      \* bound: what becomes of the chats meanwhile

ASSUME ListAssumption == ChatIds \subseteq Int /\ IsFiniteSet(ChatIds) /\ PerPage \in Nat \ {0}

VARIABLES
  stamp,     \* of a chat's last message; or Missing, Deleted or Bare
  clock,
  writes,    \* counter
  pager,     \* the signals page, historySort, total and loading
  shown,     \* sessions(), and the page and the order it has been asked for
  lastRequest,     \* lastRequestId
  flying,    \* the requests on the way
  walk       \* ghost: what a user has seen who began at the first page

listVars == <<stamp, clock, writes, pager, shown, lastRequest, flying, walk>>

Missing == -1
Deleted == -2
Bare == 0        \* only the system message
NoWalk == <<>>
Orders == {"newest", "oldest", "number"}

\* What the page shows first, asked for by the constructor.
Request(n, p, o) == [id |-> n, page |-> p, order |-> o, stage |-> "sent", total |-> 0,
                     items |-> {}, short |-> FALSE, base |-> <<>>]

ListInit ==
  /\ clock = 1 /\ writes = 0 /\ stamp \in [ChatIds -> {Missing, 1}]
  /\ pager = [page |-> 0, order |-> "newest", total |-> 0, loading |-> TRUE]
  /\ shown = [items |-> {}, page |-> 0, order |-> "newest"]
  /\ lastRequest = 1 /\ flying = {Request(1, 0, "newest")} /\ walk = NoWalk

-----------------------------------------------------------------------------
(* The chats.                                                              *)

Write(s, t) ==
  /\ writes < MaxWrites /\ writes' = writes + 1
  /\ stamp' = [stamp EXCEPT ![s] = t]
  /\ UNCHANGED <<clock, pager, shown, lastRequest, flying, walk>>

CreateChat(s) == stamp[s] = Missing /\ Write(s, Bare)

\* now() is when the transaction began, so a message may be committed with a
\* stamp that has passed; the last message of a chat is the one with the
\* greatest stamp.
AddMessage(s) == stamp[s] >= Bare /\ \E t \in Max({1, stamp[s]}) .. clock : Write(s, t)

DropChat(s) == stamp[s] >= Bare /\ Write(s, Deleted)

TimePasses ==
  /\ clock < MaxClock /\ clock' = clock + 1
  /\ UNCHANGED <<stamp, writes, pager, shown, lastRequest, flying, walk>>

-----------------------------------------------------------------------------
(* get_chats: the count, then the page.                                    *)

\* Without chats that hold the system message alone.
Listed == {s \in ChatIds : stamp[s] > Bare}

\* Mutant: chats of one timestamp come in any order.
MutantMayPrecede(o, s, t) ==
  CASE o = "newest" -> stamp[s] >= stamp[t]
    [] o = "oldest" -> stamp[s] <= stamp[t]
    [] o = "number" -> s < t

\* The secondary key is the session id.
MayPrecede(o, s, t) ==
  CASE o = "newest" -> stamp[s] > stamp[t] \/ (stamp[s] = stamp[t] /\ s > t)
    [] o = "oldest" -> stamp[s] < stamp[t] \/ (stamp[s] = stamp[t] /\ s < t)
    [] o = "number" -> s < t

\* What the query may answer with, before OFFSET and LIMIT.
Listings(o) ==
  {l \in SetToSeqs(Listed) : \A j \in DOMAIN l : \A i \in 1..(j - 1) : MayPrecede(o, l[i], l[j])}
OnPage(l, p) == {l[i] : i \in {j \in DOMAIN l : (j - 1) \div PerPage = p}}

CountChats(r) ==
  /\ r.stage = "sent"
  /\ flying' = (flying \ {r}) \cup {[r EXCEPT !.stage = "counted", !.total = Cardinality(Listed)]}
  /\ UNCHANGED <<stamp, clock, writes, pager, shown, lastRequest, walk>>

ReadChats(r) ==
  /\ r.stage = "counted"
  /\ \E l \in Listings(r.order) :
       flying' = (flying \ {r}) \cup
                   {[r EXCEPT !.stage = "answered", !.items = OnPage(l, r.page),
                              !.short = r.total < Cardinality(Listed),
                              !.base = IF r.page = 0 THEN stamp ELSE <<>>]}
  /\ UNCHANGED <<stamp, clock, writes, pager, shown, lastRequest, walk>>

-----------------------------------------------------------------------------
(* The history page.                                                       *)

\* loadPage, for the page and the order that have just been set.
Load(p, o) ==
  /\ lastRequest < MaxAsked /\ Cardinality(flying) < MaxFlying
  /\ lastRequest' = lastRequest + 1
  /\ flying' = flying \cup {Request(lastRequest + 1, p, o)}
  /\ pager' = [pager EXCEPT !.page = p, !.order = o, !.loading = TRUE]
  /\ UNCHANGED <<stamp, clock, writes, shown, walk>>

\* The table and the pager are there while there are items.
GoForward ==
  /\ shown.items # {} /\ (pager.page + 1) * PerPage < pager.total
  /\ Load(pager.page + 1, pager.order)

GoBack ==
  /\ shown.items # {} /\ pager.page > 0 /\ pager.total > PerPage
  /\ Load(pager.page - 1, pager.order)

SortBy(o) == shown.items # {} /\ o # pager.order /\ Load(0, o)

\* The ghost: a walk begins at the first page and goes on page by page.
Walked(r) ==
  IF r.page = 0
  THEN [base |-> r.base, order |-> r.order, upTo |-> 0, seen |-> r.items, short |-> r.short]
  ELSE IF walk # NoWalk /\ walk.order = r.order /\ r.page = walk.upTo + 1
       THEN [walk EXCEPT !.upTo = @ + 1, !.seen = @ \cup r.items, !.short = r.short]
       ELSE NoWalk

\* Mutant: the answer that comes last is shown.
MutantShowAnswer(r) ==
  /\ r.stage = "answered" /\ flying' = flying \ {r}
  /\ shown' = [items |-> r.items, page |-> r.page, order |-> r.order]
  /\ pager' = [pager EXCEPT !.page = r.page, !.total = r.total,
                            !.loading = IF r.id = lastRequest THEN FALSE ELSE @]
  /\ walk' = Walked(r)
  /\ UNCHANGED <<stamp, clock, writes, lastRequest>>

\* Only the answer to the last request is.
ShowAnswer(r) ==
  /\ r.stage = "answered" /\ flying' = flying \ {r}
  /\ IF r.id = lastRequest
     THEN /\ shown' = [items |-> r.items, page |-> r.page, order |-> r.order]
          /\ pager' = [pager EXCEPT !.page = r.page, !.total = r.total, !.loading = FALSE]
          /\ walk' = Walked(r)
     ELSE UNCHANGED <<shown, pager, walk>>
  /\ UNCHANGED <<stamp, clock, writes, lastRequest>>

AskFails(r) ==
  /\ flying' = flying \ {r}
  /\ IF r.id = lastRequest
     THEN /\ shown' = [items |-> {}, page |-> 0, order |-> pager.order]
          /\ pager' = [pager EXCEPT !.page = 0, !.total = 0, !.loading = FALSE]
          /\ walk' = NoWalk
     ELSE UNCHANGED <<shown, pager, walk>>
  /\ UNCHANGED <<stamp, clock, writes, lastRequest>>

ListNext ==
  \/ \E s \in ChatIds : CreateChat(s) \/ AddMessage(s) \/ DropChat(s)
  \/ TimePasses
  \/ \E r \in flying : CountChats(r) \/ ReadChats(r) \/ ShowAnswer(r) \/ AskFails(r)
  \/ GoForward \/ GoBack \/ \E o \in Orders : SortBy(o)

ListSpec == ListInit /\ [][ListNext]_listVars

-----------------------------------------------------------------------------
(* Properties.                                                             *)

AtTheEnd == ~pager.loading /\ (pager.page + 1) * PerPage >= pager.total
NowDeleted(stamps) == {s \in ChatIds : stamps[s] = Deleted}

\* Whoever walks from the first page to the last, while messages are written
\* and equal timestamps abound, has seen every chat that was there at the
\* start and has not been written to since (chat.py:162-168).  It is not so by
\* the oldest message, where a chat that is written to goes to the end and the
\* others come nearer; nor when a chat is deleted meanwhile, or becomes listed
\* between the count and the page of the last answer, which then says that the
\* page is the last.
PagesDoNotSkip ==
  AtTheEnd /\ walk # NoWalk =>
    \/ walk.short \/ walk.order = "oldest" \/ NowDeleted(stamp) # NowDeleted(walk.base)
    \/ {s \in ChatIds : walk.base[s] > Bare /\ walk.base[s] = stamp[s]} \subseteq walk.seen

\* When nothing is being loaded, the page shows what the pager and the heads of
\* the columns say, however the answers have overtaken one another
\* (history-page.component.ts:112-125).
ShownIsCurrent ==
  ~pager.loading => shown.page = pager.page /\ shown.order = pager.order
=============================================================================
