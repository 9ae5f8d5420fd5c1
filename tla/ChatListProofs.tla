----------------------------- MODULE ChatListProofs -----------------------------
(***************************************************************************)
(* For any chats, page size and number of requests: the history page shows   *)
(* the answer to its last request, and a walk through its pages skips no      *)
(* chat that has stayed where it was.                                       *)
(*                                                                         *)
(* The argument for the walk: in the order by the newest message, or by the   *)
(* number, the set of chats ahead of one that is not written to only grows.   *)
(* So if all of the pages that were walked are ahead of a chat, they stay      *)
(* ahead, and the page read next has the chat on it or is ahead of it too.     *)
(* An answer is on its way while chats move; what is said of the walk is        *)
(* therefore also said of what the walk becomes if that answer is shown.       *)
(***************************************************************************)
EXTENDS ChatList, FiniteSetTheorems, TLAPS

\* The order of a list, its entries and what is ahead of one, by any stamps.
Precedes(st, o, s, t) ==
  CASE o = "newest" -> st[s] > st[t] \/ (st[s] = st[t] /\ s > t)
    [] o = "oldest" -> st[s] < st[t] \/ (st[s] = st[t] /\ s < t)
    [] o = "number" -> s < t
ListedIn(st) == {s \in ChatIds : st[s] > Bare}
Ahead(st, o, s) == {t \in ListedIn(st) : Precedes(st, o, t, s)}

\* The chats that are as they were by the stamps b.
Kept(st, b) == {s \in ChatIds : b[s] > Bare /\ b[s] = st[s]}

\* The stamps b have been, and st has come of them.
Past(st, b) ==
  /\ b \in [ChatIds -> Int]
  /\ \A s \in ChatIds : /\ b[s] = Deleted => st[s] = Deleted
                        /\ st[s] # Deleted => st[s] >= b[s]

\* A walk the property speaks of.
Told(st, w) == w.order # "oldest" /\ NowDeleted(st) = NowDeleted(w.base)
Unseen(st, w) == Kept(st, w.base) \ w.seen

Walks == [base : [ChatIds -> Int], order : Orders, upTo : Nat, seen : SUBSET ChatIds, short : BOOLEAN]

\* What the walker has not seen has all the pages walked ahead of it.
IsBehind(st, w) ==
  w # NoWalk =>
    /\ w \in Walks /\ Past(st, w.base)
    /\ Told(st, w) => \A s \in Unseen(st, w) :
                        (w.upTo + 1) * PerPage <= Cardinality(Ahead(st, w.order, s))

\* If there is any, the last answer, of page p, has told of a further page.
HasMore(st, w, p, total) ==
  w # NoWalk /\ Told(st, w) /\ ~w.short /\ Unseen(st, w) # {} => (p + 1) * PerPage < total

Requests == [id : Nat, page : Nat, order : Orders, stage : {"sent", "counted", "answered"},
             total : Nat, items : SUBSET ChatIds, short : BOOLEAN,
             base : [ChatIds -> Int] \cup {<<>>}]

ListTypes ==
  /\ stamp \in [ChatIds -> Int] /\ lastRequest \in Nat
  /\ pager \in [page : Nat, order : Orders, total : Nat, loading : BOOLEAN]
  /\ shown \in [items : SUBSET ChatIds, page : Nat, order : Orders]
  /\ flying \subseteq Requests

\* One request has an id, and the last is for what the pager says.
RequestsInOrder ==
  /\ \A r \in flying : r.id <= lastRequest
  /\ \A r, q \in flying : r.id = q.id => r = q
  /\ \A r \in flying : r.id = lastRequest => r.page = pager.page /\ r.order = pager.order

Answered(r) == r.id = lastRequest /\ r.stage = "answered"

\* What a walk is, and what it becomes if the answer on its way is shown.
WalkKept ==
  /\ IsBehind(stamp, walk)
  /\ ~pager.loading => HasMore(stamp, walk, pager.page, pager.total)
AnswersKept ==
  \A r \in flying : Answered(r) => /\ IsBehind(stamp, Walked(r))
                                   /\ HasMore(stamp, Walked(r), r.page, r.total)

ListInv == ListTypes /\ RequestsInOrder /\ ShownIsCurrent /\ WalkKept /\ AnswersKept
-----------------------------------------------------------------------------
(* The listing of the server.                                              *)

LEMMA SameOrder ==
  ASSUME NEW o \in Orders, NEW s \in ChatIds, NEW t \in ChatIds
  PROVE  MayPrecede(o, s, t) <=> Precedes(stamp, o, s, t)
BY DEF MayPrecede, Precedes

LEMMA StrictOrder ==
  ASSUME NEW st \in [ChatIds -> Int], NEW o \in {"newest", "number"},
         NEW s \in ChatIds, NEW t \in ChatIds, Precedes(st, o, s, t)
  PROVE  ~Precedes(st, o, t, s)
<1>1. s \in Int /\ t \in Int /\ st[s] \in Int /\ st[t] \in Int
  BY ListAssumption
<1>2. CASE o = "newest"
  <2>1. \/ st[s] > st[t]
        \/ st[s] = st[t] /\ s > t
    BY <1>2 DEF Precedes
  <2>2. ~(st[t] > st[s] \/ (st[t] = st[s] /\ t > s))
    BY <1>1, <2>1
  <2> QED BY <1>2, <2>2 DEF Precedes
<1>3. CASE o = "number"
  BY <1>1, <1>3 DEF Precedes
<1> QED BY <1>2, <1>3

LEMMA ListedIsFinite ==
  /\ Listed = ListedIn(stamp) /\ IsFiniteSet(Listed) /\ Cardinality(Listed) \in Nat
<1>1. Listed \subseteq ChatIds /\ Listed = ListedIn(stamp)
  BY DEF Listed, ListedIn
<1> QED BY <1>1, ListAssumption, FS_Subset, FS_CardinalityType

\* An injection of 1..n into a set of n elements reaches all of them.
LEMMA EverySeqIsOnto ==
  ASSUME NEW S, IsFiniteSet(S), NEW l \in SetToSeqs(S)
  PROVE  /\ l \in [1..Cardinality(S) -> S]
         /\ \A i, j \in 1..Cardinality(S) : i # j => l[i] # l[j]
         /\ \A s \in S : \E j \in 1..Cardinality(S) : l[j] = s
<1>1. Cardinality(S) \in Nat
  BY FS_CardinalityType
<1>2. /\ l \in [1..Cardinality(S) -> S]
      /\ \A i, j \in 1..Cardinality(S) : i # j => l[i] # l[j]
  BY DEF SetToSeqs
<1>3. IsFiniteSet(1..Cardinality(S)) /\ Cardinality(1..Cardinality(S)) = Cardinality(S)
  BY <1>1, FS_Interval
<1>4. l \in Injection(1..Cardinality(S), S)
  BY <1>2 DEF Injection, IsInjective
<1>5. l \in Surjection(1..Cardinality(S), S)
  BY <1>3, <1>4, FS_Injection
<1> QED BY <1>2, <1>5 DEF Surjection

\* In a listing by the newest or by the number, a chat comes after those ahead.
LEMMA PlaceInListing ==
  ASSUME ListTypes, NEW o \in {"newest", "number"}, NEW l \in Listings(o), NEW s \in Listed
  PROVE  \E j \in 1..Cardinality(Listed) : l[j] = s /\ Cardinality(Ahead(stamp, o, s)) = j - 1
<1> DEFINE n == Cardinality(Listed)
<1>1. n \in Nat /\ IsFiniteSet(Listed) /\ Listed = ListedIn(stamp) /\ Listed \subseteq ChatIds
  BY ListedIsFinite DEF Listed
<1>2. /\ l \in [1..n -> Listed]
      /\ \A i, j \in 1..n : i # j => l[i] # l[j]
      /\ \A t \in Listed : \E j \in 1..n : l[j] = t
  BY <1>1, EverySeqIsOnto DEF Listings
<1>3. DOMAIN l = 1..n
  BY <1>2
<1> HIDE DEF n
<1>4. \A j \in 1..n : \A i \in 1..(j - 1) : MayPrecede(o, l[i], l[j])
  BY <1>3 DEF Listings
<1>5. PICK j \in 1..n : l[j] = s
  BY <1>2
<1>6. \A i \in 1..n : l[i] \in ChatIds /\ l[i] \in Int /\ stamp[l[i]] \in Int
  BY <1>1, <1>2, ListAssumption DEF ListTypes
<1>7. ASSUME NEW i \in 1..n PROVE Precedes(stamp, o, l[i], s) <=> i < j
  <2>1. CASE i < j
    <3>1. i \in 1..(j - 1)
      BY <2>1
    <3>2. MayPrecede(o, l[i], l[j])
      BY <1>4, <3>1
    <3> QED BY <1>5, <1>6, <2>1, <3>2, SameOrder DEF Orders
  <2>2. CASE i = j
    <3>1. ~Precedes(stamp, o, s, s)
      BY <1>1, StrictOrder DEF ListTypes
    <3> QED BY <1>5, <2>2, <3>1
  <2>3. CASE i > j
    <3>1. j \in 1..(i - 1)
      BY <2>3
    <3>2. Precedes(stamp, o, l[j], l[i])
      BY <1>4, <1>6, <3>1, SameOrder DEF Orders
    <3>3. ~Precedes(stamp, o, l[i], l[j])
      BY <1>6, <3>2, StrictOrder DEF ListTypes
    <3> QED BY <1>5, <2>3, <3>3
  <2> QED BY <2>1, <2>2, <2>3
<1>8. Ahead(stamp, o, s) = {l[i] : i \in 1..(j - 1)}
  <2>1. ASSUME NEW t \in Ahead(stamp, o, s) PROVE t \in {l[i] : i \in 1..(j - 1)}
    <3>1. t \in Listed /\ Precedes(stamp, o, t, s)
      BY <1>1 DEF Ahead
    <3>2. PICK i \in 1..n : l[i] = t
      BY <1>2, <3>1
    <3>3. i \in 1..(j - 1)
      BY <1>7, <3>1, <3>2
    <3> QED BY <3>2, <3>3
  <2>2. ASSUME NEW i \in 1..(j - 1) PROVE l[i] \in Ahead(stamp, o, s)
    <3>1. i \in 1..n /\ i < j
      BY <1>1
    <3> QED BY <1>1, <1>2, <1>7, <3>1 DEF Ahead
  <2> QED BY <2>1, <2>2
<1>9. Cardinality({l[i] : i \in 1..(j - 1)}) = j - 1
  <2> DEFINE f == [i \in 1..(j - 1) |-> l[i]]
             T == {l[i] : i \in 1..(j - 1)}
  <2>1. 1..(j - 1) \subseteq 1..n /\ j - 1 \in Nat
    BY <1>1
  <2>2. \A a, b \in 1..(j - 1) : f[a] = f[b] => a = b
    BY <1>2, <2>1
  <2>3. f \in [1..(j - 1) -> T] /\ \A t \in T : \E i \in 1..(j - 1) : f[i] = t
    OBVIOUS
  <2>4. f \in Bijection(1..(j - 1), T)
    BY <2>2, <2>3 DEF Bijection, Injection, Surjection, IsInjective
  <2>5. ExistsBijection(1..(j - 1), T)
    BY <2>4 DEF ExistsBijection
  <2> QED BY <2>1, <2>5, FS_CountingElements
<1> QED BY <1>5, <1>8, <1>9 DEF n

\* What is not before the page p and not on it is after it.
LEMMA AfterThePage ==
  ASSUME NEW a \in Nat, NEW p \in Nat, p * PerPage <= a, a \div PerPage # p
  PROVE  (p + 1) * PerPage <= a
<1> DEFINE q == a \div PerPage
<1>1. PerPage \in Nat /\ PerPage > 0
  BY ListAssumption
<1>2. q \in Nat /\ a = PerPage * q + (a % PerPage) /\ a % PerPage \in 0..(PerPage - 1)
  BY <1>1
<1> HIDE DEF q
<1>3. CASE q >= p + 1
  <2>1. PerPage * q >= PerPage * (p + 1)
    BY <1>1, <1>2, <1>3
  <2> QED BY <1>1, <1>2, <2>1
<1>4. CASE q <= p - 1
  <2>1. PerPage * (q + 1) <= PerPage * p
    BY <1>1, <1>2, <1>4
  <2>2. PerPage * (q + 1) = PerPage * q + PerPage
    BY <1>1, <1>2
  <2> QED BY <1>1, <1>2, <2>1, <2>2
<1> QED BY <1>2, <1>3, <1>4 DEF q

LEMMA PlaceAfterPage ==
  ASSUME ListTypes, NEW o \in {"newest", "number"}, NEW l \in Listings(o), NEW p \in Nat,
         NEW s \in Listed \ OnPage(l, p), p * PerPage <= Cardinality(Ahead(stamp, o, s))
  PROVE  /\ (p + 1) * PerPage <= Cardinality(Ahead(stamp, o, s))
         /\ (p + 1) * PerPage < Cardinality(Listed)
<1>1. PICK j \in 1..Cardinality(Listed) : l[j] = s /\ Cardinality(Ahead(stamp, o, s)) = j - 1
  BY PlaceInListing
<1>2. DOMAIN l = 1..Cardinality(Listed) /\ Cardinality(Listed) \in Nat
  BY EverySeqIsOnto, ListedIsFinite DEF Listings
<1>3. (j - 1) \div PerPage # p
  BY <1>1, <1>2 DEF OnPage
<1>4. j - 1 \in Nat
  BY <1>1, <1>2
<1>5. (p + 1) * PerPage <= j - 1
  BY <1>1, <1>3, <1>4, AfterThePage
<1>6. (p + 1) * PerPage \in Int
  BY ListAssumption
<1> QED BY <1>1, <1>2, <1>5, <1>6
-----------------------------------------------------------------------------
(* What becomes of the chats, from the stamps st to the later st2.          *)

LEMMA PastOn ==
  ASSUME NEW st, NEW st2, NEW b, Past(st, b), Past(st2, st), st2 \in [ChatIds -> Int]
  PROVE  Past(st2, b)
<1> SUFFICES ASSUME NEW s \in ChatIds
             PROVE  /\ b[s] = Deleted => st2[s] = Deleted
                    /\ st2[s] # Deleted => st2[s] >= b[s]
  BY DEF Past
<1>1. b[s] \in Int /\ st[s] \in Int /\ st2[s] \in Int
  BY DEF Past
<1> QED BY <1>1 DEF Past

LEMMA ToldOn ==
  ASSUME NEW st, NEW st2, NEW w, Past(st, w.base), Past(st2, st), Told(st2, w)
  PROVE  Told(st, w) /\ NowDeleted(st2) = NowDeleted(st)
<1>1. NowDeleted(w.base) \subseteq NowDeleted(st) /\ NowDeleted(st) \subseteq NowDeleted(st2)
  BY DEF Past, NowDeleted
<1> QED BY <1>1 DEF Told

LEMMA UnseenOn ==
  ASSUME NEW st, NEW st2 \in [ChatIds -> Int], NEW w, Past(st, w.base), Past(st2, st),
         NEW s \in Unseen(st2, w)
  PROVE  s \in Unseen(st, w) /\ st2[s] = st[s]
<1>1. s \in ChatIds /\ w.base[s] > Bare /\ w.base[s] = st2[s] /\ s \notin w.seen
  BY DEF Unseen, Kept
<1>2. w.base[s] \in Int /\ st[s] \in Int /\ st2[s] \in Int
  BY <1>1 DEF Past
<1>3. st2[s] # Deleted
  BY <1>1, <1>2 DEF Deleted, Bare
<1>4. st2[s] >= st[s] /\ st[s] # Deleted
  BY <1>1, <1>3 DEF Past
<1>5. st[s] >= w.base[s]
  BY <1>1, <1>4 DEF Past
<1>6. st[s] = st2[s]
  BY <1>1, <1>2, <1>4, <1>5
<1> QED BY <1>1, <1>6 DEF Unseen, Kept

\* Of a chat that is as it was, no chat falls behind unless it is deleted.
LEMMA AheadOn ==
  ASSUME NEW st \in [ChatIds -> Int], NEW st2 \in [ChatIds -> Int], Past(st2, st),
         NowDeleted(st2) = NowDeleted(st), NEW o \in {"newest", "number"},
         NEW s \in ChatIds, st2[s] = st[s]
  PROVE  Cardinality(Ahead(st, o, s)) <= Cardinality(Ahead(st2, o, s))
         /\ Cardinality(Ahead(st, o, s)) \in Nat /\ Cardinality(Ahead(st2, o, s)) \in Nat
<1>1. ASSUME NEW t \in Ahead(st, o, s) PROVE t \in Ahead(st2, o, s)
  <2>1. t \in ChatIds /\ st[t] > Bare /\ Precedes(st, o, t, s)
    BY DEF Ahead, ListedIn
  <2>2. st[t] \in Int /\ st2[t] \in Int /\ st[s] \in Int /\ s \in Int /\ t \in Int
    BY <2>1, ListAssumption
  <2>3. st2[t] # Deleted
    BY <2>1, <2>2 DEF NowDeleted, Deleted, Bare
  <2>4. st2[t] >= st[t]
    BY <2>1, <2>3 DEF Past
  <2>5. st2[t] > Bare
    BY <2>1, <2>2, <2>4 DEF Bare
  <2>6. Precedes(st2, o, t, s)
    <3>1. CASE o = "newest"
      <4>1. st[t] > st[s] \/ (st[t] = st[s] /\ t > s)
        BY <2>1, <3>1 DEF Precedes
      <4>2. st2[t] > st2[s] \/ (st2[t] = st2[s] /\ t > s)
        BY <2>2, <2>4, <4>1
      <4> QED BY <3>1, <4>2 DEF Precedes
    <3>2. CASE o = "number"
      BY <2>1, <3>2 DEF Precedes
    <3> QED BY <3>1, <3>2
  <2> QED BY <2>1, <2>5, <2>6 DEF Ahead, ListedIn
<1>2. Ahead(st, o, s) \subseteq ChatIds /\ Ahead(st2, o, s) \subseteq ChatIds
  BY DEF Ahead, ListedIn
<1>3. IsFiniteSet(Ahead(st, o, s)) /\ IsFiniteSet(Ahead(st2, o, s))
  BY <1>2, ListAssumption, FS_Subset
<1> QED BY <1>1, <1>3, FS_Subset, FS_CardinalityType

\* What a walk has to show for, later stamps leave it.
LEMMA WalkOn ==
  ASSUME NEW st \in [ChatIds -> Int], NEW st2 \in [ChatIds -> Int], Past(st2, st), NEW w,
         IsBehind(st, w)
  PROVE  /\ IsBehind(st2, w)
         /\ \A p, total : HasMore(st, w, p, total) => HasMore(st2, w, p, total)
<1> SUFFICES ASSUME w # NoWalk
             PROVE  /\ IsBehind(st2, w)
                    /\ \A p, total : HasMore(st, w, p, total) => HasMore(st2, w, p, total)
  BY DEF IsBehind, HasMore
<1>1. w \in Walks /\ Past(st, w.base)
  BY DEF IsBehind
<1>2. Past(st2, w.base)
  BY <1>1, PastOn
<1>3. \A s \in Unseen(st2, w) : s \in Unseen(st, w) /\ st2[s] = st[s]
  BY <1>1, UnseenOn
<1>4. ASSUME Told(st2, w)
      PROVE  Told(st, w) /\ NowDeleted(st2) = NowDeleted(st) /\ w.order \in {"newest", "number"}
  <2>1. w.order \in Orders /\ w.order # "oldest"
    BY <1>1, <1>4 DEF Walks, Told
  <2> QED BY <1>1, <1>4, <2>1, ToldOn DEF Orders
<1>5. ASSUME Told(st2, w), NEW s \in Unseen(st2, w)
      PROVE  (w.upTo + 1) * PerPage <= Cardinality(Ahead(st2, w.order, s))
  <2>1. s \in ChatIds /\ s \in Unseen(st, w) /\ st2[s] = st[s]
    BY <1>3, <1>5 DEF Unseen, Kept
  <2>2. /\ Cardinality(Ahead(st, w.order, s)) <= Cardinality(Ahead(st2, w.order, s))
        /\ Cardinality(Ahead(st, w.order, s)) \in Nat /\ Cardinality(Ahead(st2, w.order, s)) \in Nat
    BY <1>4, <1>5, <2>1, AheadOn
  <2>3. (w.upTo + 1) * PerPage <= Cardinality(Ahead(st, w.order, s))
    BY <1>4, <1>5, <2>1 DEF IsBehind
  <2>4. (w.upTo + 1) * PerPage \in Int
    BY <1>1, ListAssumption DEF Walks
  <2> QED BY <2>2, <2>3, <2>4
<1>6. IsBehind(st2, w)
  BY <1>1, <1>2, <1>5 DEF IsBehind
<1>7. ASSUME NEW p, NEW total, HasMore(st, w, p, total) PROVE HasMore(st2, w, p, total)
  BY <1>3, <1>4, <1>7 DEF HasMore
<1> QED BY <1>6, <1>7

LEMMA SamePast ==
  ASSUME NEW st \in [ChatIds -> Int]
  PROVE  Past(st, st)
BY DEF Past
-----------------------------------------------------------------------------
(* The steps.                                                              *)

LEMMA WrittenLater ==
  ASSUME ListTypes, NEW s \in ChatIds, CreateChat(s) \/ AddMessage(s) \/ DropChat(s)
  PROVE  /\ stamp' \in [ChatIds -> Int] /\ Past(stamp', stamp)
         /\ UNCHANGED <<pager, shown, lastRequest, flying, walk>>
<1>1. PICK t \in Int : /\ stamp' = [stamp EXCEPT ![s] = t] /\ stamp[s] # Deleted
                       /\ t = Deleted \/ t >= stamp[s]
  <2>1. stamp[s] \in Int
    BY DEF ListTypes
  <2> SUFFICES \E t \in Int : Write(s, t) /\ stamp[s] # Deleted /\ (t = Deleted \/ t >= stamp[s])
    BY DEF Write
  <2>2. CASE CreateChat(s)
    <3>1. Write(s, Bare) /\ stamp[s] = Missing
      BY <2>2 DEF CreateChat
    <3>2. Bare \in Int /\ Bare >= Missing /\ Missing # Deleted
      BY DEF Missing, Bare, Deleted
    <3> QED BY <3>1, <3>2
  <2>3. CASE AddMessage(s)
    <3>1. PICK t \in Max({1, stamp[s]}) .. clock : Write(s, t)
      BY <2>3 DEF AddMessage
    <3>2. \E m \in {1, stamp[s]} : \A x \in {1, stamp[s]} : m >= x
      BY <2>1
    <3>3. Max({1, stamp[s]}) \in Int /\ Max({1, stamp[s]}) >= stamp[s]
      BY <2>1, <3>2 DEF Max
    <3>4. t \in Int /\ t >= stamp[s]
      BY <2>1, <3>1, <3>3
    <3>5. stamp[s] # Deleted
      BY <2>1, <2>3 DEF AddMessage, Bare, Deleted
    <3> QED BY <3>1, <3>4, <3>5
  <2>4. CASE DropChat(s)
    <3>1. Write(s, Deleted) /\ stamp[s] >= Bare
      BY <2>4 DEF DropChat
    <3>2. Deleted \in Int /\ stamp[s] # Deleted
      BY <2>1, <3>1 DEF Bare, Deleted
    <3> QED BY <3>1, <3>2
  <2> QED BY <2>2, <2>3, <2>4
<1>2. UNCHANGED <<pager, shown, lastRequest, flying, walk>>
  BY DEF CreateChat, AddMessage, DropChat, Write
<1>3. stamp' \in [ChatIds -> Int] /\ \A c \in ChatIds : stamp'[c] = IF c = s THEN t ELSE stamp[c]
  BY <1>1 DEF ListTypes
<1>4. Past(stamp', stamp)
  BY <1>1, <1>3 DEF Past, ListTypes
<1> QED BY <1>2, <1>3, <1>4

LEMMA ChatsMove ==
  ASSUME ListInv, stamp' \in [ChatIds -> Int], Past(stamp', stamp),
         UNCHANGED <<pager, shown, lastRequest, flying, walk>>
  PROVE  ListInv'
<1>1. ListTypes' /\ RequestsInOrder' /\ ShownIsCurrent'
  BY DEF ListInv, ListTypes, RequestsInOrder, ShownIsCurrent
<1>2. stamp \in [ChatIds -> Int]
  BY DEF ListInv, ListTypes
<1>3. WalkKept'
  BY <1>2, WalkOn DEF ListInv, WalkKept
<1>4. AnswersKept'
  <2> SUFFICES ASSUME NEW r \in flying, Answered(r)
               PROVE  IsBehind(stamp', Walked(r)) /\ HasMore(stamp', Walked(r), r.page, r.total)
    BY DEF AnswersKept, Answered, Walked
  <2>1. IsBehind(stamp, Walked(r)) /\ HasMore(stamp, Walked(r), r.page, r.total)
    BY DEF ListInv, AnswersKept
  <2> QED BY <1>2, <2>1, WalkOn
<1> QED BY <1>1, <1>3, <1>4 DEF ListInv

\* The server goes on with a request.
LEMMA Replaced ==
  ASSUME ListInv, NEW r \in flying, NEW q \in Requests, flying' = (flying \ {r}) \cup {q},
         q.id = r.id, q.page = r.page, q.order = r.order,
         UNCHANGED <<stamp, pager, shown, lastRequest, walk>>,
         Answered(q) => IsBehind(stamp, Walked(q)) /\ HasMore(stamp, Walked(q), q.page, q.total)
  PROVE  ListInv'
<1>1. ListTypes' /\ ShownIsCurrent' /\ WalkKept'
  BY DEF ListInv, ListTypes, ShownIsCurrent, WalkKept
<1>2. RequestsInOrder'
  <2>1. \A p \in flying' : p = q \/ (p \in flying /\ p # r)
    OBVIOUS
  <2>2. \A p \in flying : p # r => p.id # r.id
    BY DEF ListInv, RequestsInOrder
  <2>3. \A p \in flying' : p.id <= lastRequest'
    BY <2>1 DEF ListInv, RequestsInOrder
  <2>4. \A p, p2 \in flying' : p.id = p2.id => p = p2
    BY <2>1, <2>2 DEF ListInv, RequestsInOrder
  <2>5. \A p \in flying' : p.id = lastRequest' => p.page = pager'.page /\ p.order = pager'.order
    BY <2>1 DEF ListInv, RequestsInOrder
  <2> QED BY <2>3, <2>4, <2>5 DEF RequestsInOrder
<1>3. AnswersKept'
  BY DEF ListInv, AnswersKept, Answered, Walked
<1> QED BY <1>1, <1>2, <1>3 DEF ListInv

LEMMA CountStep ==
  ASSUME ListInv, NEW r \in flying, CountChats(r)
  PROVE  ListInv'
<1> DEFINE q == [r EXCEPT !.stage = "counted", !.total = Cardinality(Listed)]
<1>1. r \in Requests
  BY DEF ListInv, ListTypes
<1>2. /\ q \in Requests /\ q.id = r.id /\ q.page = r.page /\ q.order = r.order /\ ~Answered(q)
  BY <1>1, ListedIsFinite DEF Requests, Answered
<1>3. flying' = (flying \ {r}) \cup {q} /\ UNCHANGED <<stamp, pager, shown, lastRequest, walk>>
  BY DEF CountChats
<1> HIDE DEF q
<1> QED BY <1>2, <1>3, Replaced

\* A page that is read: the walk that takes it goes on, or begins, truly.
LEMMA ReadStep ==
  ASSUME ListInv, NEW r \in flying, ReadChats(r)
  PROVE  ListInv'
<1>1. PICK l \in Listings(r.order) :
        flying' = (flying \ {r}) \cup
                    {[r EXCEPT !.stage = "answered", !.items = OnPage(l, r.page),
                               !.short = r.total < Cardinality(Listed),
                               !.base = IF r.page = 0 THEN stamp ELSE <<>>]}
  BY DEF ReadChats
<1> DEFINE q == [r EXCEPT !.stage = "answered", !.items = OnPage(l, r.page),
                          !.short = r.total < Cardinality(Listed),
                          !.base = IF r.page = 0 THEN stamp ELSE <<>>]
<1>2. r \in Requests /\ stamp \in [ChatIds -> Int] /\ ListTypes
  BY DEF ListInv, ListTypes
<1>3. /\ l \in [1..Cardinality(Listed) -> Listed] /\ Cardinality(Listed) \in Nat
      /\ Listed = ListedIn(stamp) /\ Listed \subseteq ChatIds
  BY EverySeqIsOnto, ListedIsFinite DEF Listings, Listed
<1>4. OnPage(l, r.page) \in SUBSET ChatIds
  BY <1>3 DEF OnPage
<1>5. /\ q \in Requests /\ q.id = r.id /\ q.page = r.page /\ q.order = r.order
      /\ q.total = r.total /\ q.items = OnPage(l, r.page) /\ q.short = (r.total < Cardinality(Listed))
      /\ q.base = IF r.page = 0 THEN stamp ELSE <<>>
  <2>1. (r.total < Cardinality(Listed)) \in BOOLEAN
    OBVIOUS
  <2>2. (IF r.page = 0 THEN stamp ELSE <<>>) \in [ChatIds -> Int] \cup {<<>>}
    BY <1>2
  <2> DEFINE sh == r.total < Cardinality(Listed)
             bs == IF r.page = 0 THEN stamp ELSE <<>>
             it == OnPage(l, r.page)
  <2>3. sh \in BOOLEAN /\ bs \in [ChatIds -> Int] \cup {<<>>} /\ it \in SUBSET ChatIds
    BY <1>4, <2>1, <2>2
  <2>4. q = [r EXCEPT !.stage = "answered", !.items = it, !.short = sh, !.base = bs]
    OBVIOUS
  <2> HIDE DEF sh, bs, it, q
  <2>5. /\ q \in Requests /\ q.id = r.id /\ q.page = r.page /\ q.order = r.order
        /\ q.total = r.total /\ q.items = it /\ q.short = sh /\ q.base = bs
    BY <1>2, <2>3, <2>4 DEF Requests
  <2> QED BY <2>5 DEF sh, bs, it
<1>6. flying' = (flying \ {r}) \cup {q} /\ UNCHANGED <<stamp, pager, shown, lastRequest, walk>>
  BY <1>1 DEF ReadChats
<1> HIDE DEF q
<1>7. r.page \in Nat /\ r.total \in Nat /\ r.order \in Orders /\ q.short \in BOOLEAN
  BY <1>2, <1>5 DEF Requests
<1> DEFINE w == Walked(q)
<1>8. ASSUME Told(stamp, w), w # NoWalk, w.order = r.order, NEW s \in Unseen(stamp, w),
             OnPage(l, r.page) \subseteq w.seen,
             r.page * PerPage <= Cardinality(Ahead(stamp, r.order, s))
      PROVE  /\ (r.page + 1) * PerPage <= Cardinality(Ahead(stamp, r.order, s))
             /\ ~q.short => (r.page + 1) * PerPage < q.total
  <2>1. s \in Listed \ OnPage(l, r.page)
    BY <1>3, <1>8 DEF Unseen, Kept, ListedIn
  <2>2. r.order \in {"newest", "number"}
    BY <1>7, <1>8 DEF Told, Orders
  <2>3. /\ (r.page + 1) * PerPage <= Cardinality(Ahead(stamp, r.order, s))
        /\ (r.page + 1) * PerPage < Cardinality(Listed)
    BY <1>2, <1>7, <1>8, <2>1, <2>2, PlaceAfterPage
  <2>4. (r.page + 1) * PerPage \in Int
    BY <1>7, ListAssumption
  <2>5. q.short <=> r.total < Cardinality(Listed)
    BY <1>5
  <2>6. ~q.short => (r.page + 1) * PerPage < r.total
    BY <1>3, <1>7, <2>3, <2>4, <2>5
  <2> QED BY <1>5, <2>3, <2>6
<1>9. IsBehind(stamp, w) /\ HasMore(stamp, w, q.page, q.total)
  <2>1. CASE r.page = 0
    <3>1. w = [base |-> stamp, order |-> r.order, upTo |-> 0, seen |-> OnPage(l, r.page),
               short |-> q.short]
      BY <1>5, <2>1 DEF Walked
    <3>2. w \in Walks
      BY <1>2, <1>4, <1>7, <3>1 DEF Walks
    <3>3. /\ w.base = stamp /\ w.order = r.order /\ w.upTo = 0 /\ w.seen = OnPage(l, r.page)
          /\ w.short = q.short
      BY <3>1
    <3>4. Past(stamp, w.base)
      BY <1>2, <3>3, SamePast
    <3>5. \A s \in ChatIds : r.page * PerPage <= Cardinality(Ahead(stamp, r.order, s))
      <4> SUFFICES ASSUME NEW s \in ChatIds
                   PROVE  r.page * PerPage <= Cardinality(Ahead(stamp, r.order, s))
        OBVIOUS
      <4>1. Ahead(stamp, r.order, s) \subseteq ChatIds
        BY DEF Ahead, ListedIn
      <4>2. Cardinality(Ahead(stamp, r.order, s)) \in Nat
        BY <4>1, ListAssumption, FS_Subset, FS_CardinalityType
      <4> QED BY <2>1, <4>2, ListAssumption
    <3> HIDE DEF w
    <3>6. ASSUME w # NoWalk, Told(stamp, w), NEW s \in Unseen(stamp, w)
          PROVE  /\ (w.upTo + 1) * PerPage <= Cardinality(Ahead(stamp, w.order, s))
                 /\ ~w.short => (q.page + 1) * PerPage < q.total
      <4>1. s \in ChatIds
        BY <3>6 DEF Unseen, Kept
      <4>2. r.page * PerPage <= Cardinality(Ahead(stamp, r.order, s))
        BY <3>5, <4>1
      <4> QED BY <1>5, <1>8, <2>1, <3>3, <3>6, <4>2
    <3> QED BY <3>2, <3>4, <3>6 DEF IsBehind, HasMore
  <2>2. CASE r.page # 0 /\ walk # NoWalk /\ walk.order = r.order /\ r.page = walk.upTo + 1
    <3>1. w = [walk EXCEPT !.upTo = @ + 1, !.seen = @ \cup q.items, !.short = q.short]
      BY <1>5, <2>2 DEF Walked
    <3>2. walk \in Walks /\ Past(stamp, walk.base)
      BY <2>2 DEF ListInv, WalkKept, IsBehind
    <3>3. /\ w \in Walks /\ w.base = walk.base /\ w.order = r.order /\ w.upTo = r.page
          /\ w.seen = walk.seen \cup OnPage(l, r.page) /\ w.short = q.short
      <4> DEFINE sn == walk.seen \cup OnPage(l, r.page)
      <4>1. sn \in SUBSET ChatIds /\ walk.seen \cup q.items = sn /\ walk.upTo + 1 = r.page
        BY <1>4, <1>5, <2>2, <3>2 DEF Walks
      <4>2. w = [walk EXCEPT !.upTo = r.page, !.seen = sn, !.short = q.short]
        BY <3>1, <4>1
      <4> HIDE DEF w, sn
      <4>3. /\ w \in Walks /\ w.base = walk.base /\ w.order = walk.order /\ w.upTo = r.page
            /\ w.seen = sn /\ w.short = q.short
        BY <1>7, <3>2, <4>1, <4>2 DEF Walks
      <4> QED BY <2>2, <4>3 DEF sn
    <3> HIDE DEF w
    <3>4. ASSUME w # NoWalk, Told(stamp, w), NEW s \in Unseen(stamp, w)
          PROVE  /\ (w.upTo + 1) * PerPage <= Cardinality(Ahead(stamp, w.order, s))
                 /\ ~w.short => (q.page + 1) * PerPage < q.total
      <4>1. Told(stamp, walk) /\ s \in Unseen(stamp, walk)
        BY <2>2, <3>3, <3>4 DEF Told, Unseen, Kept
      <4>2. r.page * PerPage <= Cardinality(Ahead(stamp, r.order, s))
        BY <2>2, <4>1 DEF ListInv, WalkKept, IsBehind
      <4> QED BY <1>5, <1>8, <3>3, <3>4, <4>2
    <3> QED BY <3>2, <3>3, <3>4 DEF IsBehind, HasMore
  <2>3. CASE r.page # 0 /\ ~(walk # NoWalk /\ walk.order = r.order /\ r.page = walk.upTo + 1)
    <3>1. w = NoWalk
      BY <1>5, <2>3 DEF Walked
    <3> QED BY <3>1 DEF IsBehind, HasMore
  <2> QED BY <2>1, <2>2, <2>3
<1> QED BY <1>5, <1>6, <1>9, Replaced

\* What stays when a request is answered that is not the last.
LEMMA ForgottenStep ==
  ASSUME ListInv, NEW r \in flying, flying' = flying \ {r},
         UNCHANGED <<stamp, pager, shown, lastRequest, walk>>
  PROVE  ListInv'
<1>1. ListTypes' /\ RequestsInOrder'
  BY DEF ListInv, ListTypes, RequestsInOrder
<1>2. ShownIsCurrent' /\ WalkKept'
  BY DEF ListInv, ShownIsCurrent, WalkKept
<1>3. AnswersKept'
  BY DEF ListInv, AnswersKept, Answered, Walked
<1> QED BY <1>1, <1>2, <1>3 DEF ListInv

LEMMA ShowStep ==
  ASSUME ListInv, NEW r \in flying, ShowAnswer(r)
  PROVE  ListInv'
<1>1. CASE r.id # lastRequest
  BY <1>1, ForgottenStep DEF ShowAnswer
<1>2. CASE r.id = lastRequest
  <2>1. /\ r.stage = "answered" /\ flying' = flying \ {r}
        /\ shown' = [items |-> r.items, page |-> r.page, order |-> r.order]
        /\ pager' = [pager EXCEPT !.page = r.page, !.total = r.total, !.loading = FALSE]
        /\ walk' = Walked(r) /\ stamp' = stamp /\ lastRequest' = lastRequest
    BY <1>2 DEF ShowAnswer
  <2>2. r \in Requests /\ pager \in [page : Nat, order : Orders, total : Nat, loading : BOOLEAN]
    BY DEF ListInv, ListTypes
  <2>3. r.page = pager.page /\ r.order = pager.order
    BY <1>2 DEF ListInv, RequestsInOrder
  <2>4. /\ pager' \in [page : Nat, order : Orders, total : Nat, loading : BOOLEAN]
        /\ pager'.page = r.page /\ pager'.order = r.order /\ pager'.total = r.total
    BY <2>1, <2>2, <2>3 DEF Requests
  <2>5. /\ shown' \in [items : SUBSET ChatIds, page : Nat, order : Orders]
        /\ shown'.page = r.page /\ shown'.order = r.order
    BY <2>1, <2>2 DEF Requests
  <2>6. ListTypes'
    BY <2>1, <2>4, <2>5 DEF ListInv, ListTypes
  <2>7. \A q \in flying' : q \in flying /\ q.id # lastRequest
    BY <1>2, <2>1 DEF ListInv, RequestsInOrder
  <2>8. RequestsInOrder'
    BY <2>1, <2>7 DEF ListInv, RequestsInOrder
  <2>9. ShownIsCurrent'
    BY <2>4, <2>5 DEF ShownIsCurrent
  <2>10. IsBehind(stamp, Walked(r)) /\ HasMore(stamp, Walked(r), r.page, r.total)
    BY <1>2, <2>1 DEF ListInv, AnswersKept, Answered
  <2>11. WalkKept'
    BY <2>1, <2>4, <2>10 DEF WalkKept
  <2>12. AnswersKept'
    BY <2>1, <2>7 DEF AnswersKept, Answered
  <2> QED BY <2>6, <2>8, <2>9, <2>11, <2>12 DEF ListInv
<1> QED BY <1>1, <1>2

LEMMA FailStep ==
  ASSUME ListInv, NEW r \in flying, AskFails(r)
  PROVE  ListInv'
<1>1. CASE r.id # lastRequest
  BY <1>1, ForgottenStep DEF AskFails
<1>2. CASE r.id = lastRequest
  <2>1. /\ flying' = flying \ {r}
        /\ shown' = [items |-> {}, page |-> 0, order |-> pager.order]
        /\ pager' = [pager EXCEPT !.page = 0, !.total = 0, !.loading = FALSE]
        /\ walk' = NoWalk /\ stamp' = stamp /\ lastRequest' = lastRequest
    BY <1>2 DEF AskFails
  <2>2. pager \in [page : Nat, order : Orders, total : Nat, loading : BOOLEAN]
    BY DEF ListInv, ListTypes
  <2>3. /\ pager' \in [page : Nat, order : Orders, total : Nat, loading : BOOLEAN]
        /\ pager'.page = 0 /\ pager'.order = pager.order
    BY <2>1, <2>2
  <2>4. /\ shown' \in [items : SUBSET ChatIds, page : Nat, order : Orders]
        /\ shown'.page = 0 /\ shown'.order = pager.order
    BY <2>1, <2>2
  <2>5. ListTypes'
    BY <2>1, <2>3, <2>4 DEF ListInv, ListTypes
  <2>6. \A q \in flying' : q \in flying /\ q.id # lastRequest
    BY <1>2, <2>1 DEF ListInv, RequestsInOrder
  <2>7. RequestsInOrder'
    BY <2>1, <2>6 DEF ListInv, RequestsInOrder
  <2>8. ShownIsCurrent'
    BY <2>3, <2>4 DEF ShownIsCurrent
  <2>9. WalkKept'
    BY <2>1 DEF WalkKept, IsBehind, HasMore
  <2>10. AnswersKept'
    BY <2>1, <2>6 DEF AnswersKept, Answered
  <2> QED BY <2>5, <2>7, <2>8, <2>9, <2>10 DEF ListInv
<1> QED BY <1>1, <1>2

LEMMA LoadStep ==
  ASSUME ListInv, NEW p \in Nat, NEW o \in Orders, Load(p, o)
  PROVE  ListInv'
<1> DEFINE q == Request(lastRequest + 1, p, o)
<1>1. /\ lastRequest' = lastRequest + 1 /\ flying' = flying \cup {q}
      /\ pager' = [pager EXCEPT !.page = p, !.order = o, !.loading = TRUE]
      /\ UNCHANGED <<stamp, shown, walk>>
  BY DEF Load
<1>2. lastRequest \in Nat /\ pager \in [page : Nat, order : Orders, total : Nat, loading : BOOLEAN]
  BY DEF ListInv, ListTypes
<1>3. /\ q \in Requests /\ q.id = lastRequest + 1 /\ q.page = p /\ q.order = o /\ q.stage = "sent"
  BY <1>2 DEF Request, Requests
<1> HIDE DEF q
<1>4. /\ pager' \in [page : Nat, order : Orders, total : Nat, loading : BOOLEAN]
      /\ pager'.page = p /\ pager'.order = o /\ pager'.loading
  BY <1>1, <1>2
<1>5. \A r \in flying : r.id \in Nat /\ r.id <= lastRequest /\ r.id # lastRequest + 1
  BY <1>2 DEF ListInv, ListTypes, RequestsInOrder, Requests
<1>6. ListTypes'
  BY <1>1, <1>2, <1>3, <1>4 DEF ListInv, ListTypes
<1>7. RequestsInOrder'
  <2>1. \A r \in flying' : r = q \/ r \in flying
    BY <1>1
  <2>2. \A r \in flying' : r.id <= lastRequest + 1
    BY <1>2, <1>3, <1>5, <2>1
  <2>3. \A r, r2 \in flying' : r.id = r2.id => r = r2
    BY <1>3, <1>5, <2>1 DEF ListInv, RequestsInOrder
  <2>4. \A r \in flying' : r.id = lastRequest + 1 => r.page = p /\ r.order = o
    BY <1>3, <1>5, <2>1
  <2> QED BY <1>1, <1>4, <2>2, <2>3, <2>4 DEF RequestsInOrder
<1>8. ShownIsCurrent'
  BY <1>4 DEF ShownIsCurrent
<1>9. WalkKept'
  BY <1>1, <1>4 DEF ListInv, WalkKept
<1>10. AnswersKept'
  <2>1. \A r \in flying' : r.id = lastRequest + 1 => r.stage = "sent"
    BY <1>1, <1>3, <1>5
  <2> QED BY <1>1, <2>1 DEF AnswersKept, Answered
<1> QED BY <1>6, <1>7, <1>8, <1>9, <1>10 DEF ListInv

LEMMA ListStep ==
  ASSUME ListInv, [ListNext]_listVars
  PROVE  ListInv'
<1>1. ListTypes
  BY DEF ListInv
<1>2. stamp \in [ChatIds -> Int] /\ Past(stamp, stamp)
  BY <1>1, SamePast DEF ListTypes
<1>3. pager.page \in Nat /\ pager.order \in Orders
  BY <1>1 DEF ListTypes
<1>4. ASSUME NEW s \in ChatIds, CreateChat(s) \/ AddMessage(s) \/ DropChat(s) PROVE ListInv'
  BY <1>1, <1>4, WrittenLater, ChatsMove
<1>5. CASE TimePasses
  BY <1>2, <1>5, ChatsMove DEF TimePasses
<1>6. ASSUME NEW r \in flying, CountChats(r) \/ ReadChats(r) \/ ShowAnswer(r) \/ AskFails(r)
      PROVE  ListInv'
  BY <1>6, CountStep, ReadStep, ShowStep, FailStep
<1>7. CASE GoForward
  <2>1. Load(pager.page + 1, pager.order) /\ pager.page + 1 \in Nat
    BY <1>3, <1>7 DEF GoForward
  <2> QED BY <1>3, <2>1, LoadStep
<1>8. CASE GoBack
  <2>1. Load(pager.page - 1, pager.order) /\ pager.page - 1 \in Nat
    BY <1>3, <1>8 DEF GoBack
  <2> QED BY <1>3, <2>1, LoadStep
<1>9. ASSUME NEW o \in Orders, SortBy(o) PROVE ListInv'
  BY <1>9, LoadStep DEF SortBy
<1>10. CASE UNCHANGED listVars
  BY <1>2, <1>10, ChatsMove DEF listVars
<1> QED BY <1>4, <1>5, <1>6, <1>7, <1>8, <1>9, <1>10 DEF ListNext

LEMMA ListBegins == ListInit => ListInv
<1> SUFFICES ASSUME ListInit PROVE ListInv
  OBVIOUS
<1> DEFINE q == Request(1, 0, "newest")
<1>1. /\ stamp \in [ChatIds -> {Missing, 1}]
      /\ pager = [page |-> 0, order |-> "newest", total |-> 0, loading |-> TRUE]
      /\ shown = [items |-> {}, page |-> 0, order |-> "newest"]
      /\ lastRequest = 1 /\ flying = {q} /\ walk = NoWalk
  BY DEF ListInit
<1>2. q \in Requests /\ q.id = 1 /\ q.page = 0 /\ q.order = "newest" /\ q.stage = "sent"
  BY DEF Request, Requests, Orders
<1> HIDE DEF q
<1>3. stamp \in [ChatIds -> Int]
  BY <1>1 DEF Missing
<1>4. ListTypes
  BY <1>1, <1>2, <1>3 DEF ListTypes, Orders
<1>5. RequestsInOrder /\ ShownIsCurrent
  BY <1>1, <1>2 DEF RequestsInOrder, ShownIsCurrent
<1>6. WalkKept /\ AnswersKept
  BY <1>1, <1>2 DEF WalkKept, AnswersKept, Answered, IsBehind, HasMore
<1> QED BY <1>4, <1>5, <1>6 DEF ListInv

-----------------------------------------------------------------------------
\* The inductive invariant, for any chats, page size and number of requests.
THEOREM ListInvariant == ListSpec => []ListInv
<1>1. ListInv /\ [ListNext]_listVars => ListInv'
  BY ListStep
<1> QED BY <1>1, ListBegins, PTL DEF ListSpec

\* An answer that is overtaken is never shown (lastRequestId): a page that does
\* not load shows what its pager and its columns say (ShownIsCurrent).
THEOREM TheLastAnswerIsShown == ListSpec => []ShownIsCurrent
<1>1. ListInv => ShownIsCurrent
  BY DEF ListInv
<1> QED BY <1>1, ListInvariant, PTL

\* Paging by OFFSET loses no chat that is not written to (PagesDoNotSkip): by
\* the newest message, what comes to the front pushes the others back only.
THEOREM NoChatIsSkipped == ListSpec => []PagesDoNotSkip
<1>1. ASSUME ListInv PROVE PagesDoNotSkip
  <2> SUFFICES ASSUME AtTheEnd, walk # NoWalk, ~walk.short, walk.order # "oldest",
                      NowDeleted(stamp) = NowDeleted(walk.base)
               PROVE  {s \in ChatIds : walk.base[s] > Bare /\ walk.base[s] = stamp[s]} \subseteq walk.seen
    BY DEF PagesDoNotSkip
  <2>1. ~pager.loading /\ (pager.page + 1) * PerPage >= pager.total
    BY DEF AtTheEnd
  <2>2. pager.total \in Nat /\ pager.page \in Nat /\ (pager.page + 1) * PerPage \in Int
    BY <1>1, ListAssumption DEF ListInv, ListTypes
  <2>3. HasMore(stamp, walk, pager.page, pager.total)
    BY <1>1, <2>1 DEF ListInv, WalkKept
  <2>4. Unseen(stamp, walk) = {}
    BY <2>1, <2>2, <2>3 DEF HasMore, Told
  <2> QED BY <2>4 DEF Unseen, Kept
<1>2. ListInv => PagesDoNotSkip
  BY <1>1
<1> QED BY <1>2, ListInvariant, PTL
=================================================================================
