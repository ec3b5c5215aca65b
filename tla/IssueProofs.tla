---------------------------- MODULE IssueProofs ----------------------------
(***************************************************************************)
(* For any issues, columns, comments, mutations in flight, events on their *)
(* way and connections lost: NoDuplicates and CacheIsFresh of IssueCache.  *)
(*                                                                         *)
(* The first part goes up to the type invariant Typed: one entry of the    *)
(* cache; the columns of a list and what the helpers do to one issue in    *)
(* them (Places); what an entry may hold (Held), which says of a list that *)
(* each issue is in it at most once, and that one whose creation is still  *)
(* being announced is at most in the column it was born in; then one lemma *)
(* per action.                                                             *)
(*                                                                         *)
(* The second part says what becomes of an entry (Fresh): it is Awaited,   *)
(* because something is under way that will have it fetched anew, or it is *)
(* current (CurrentIn) as far as it can be before the events on their way  *)
(* have arrived (Due).  What those will make of it is in Told: the last    *)
(* event about an issue tells what has become of it.                       *)
(***************************************************************************)
EXTENDS IssueCache, FiniteSetTheorems, WellFoundedInduction, TLAPS
-----------------------------------------------------------------------------
(* One entry of the cache *)

\* The data of an entry are in D; None is none of them.
Apart(D) ==
    /\ None \notin D
    /\ \A data \in D \cup {None}, flag \in BOOLEAN : None # [data |-> data, flag |-> flag]

EntryOf(D) ==
    [data : D \cup {None}, flag : BOOLEAN, fetch : {"no", "asked", "read"},
     snap : D \cup {None}, back : [data : D \cup {None}, flag : BOOLEAN] \cup {None}]

WellFormed(q, D) ==
    /\ q \in EntryOf(D)
    /\ q.fetch = "no" <=> q.back = None
    /\ q.fetch = "read" <=> q.snap # None
    /\ Fetching(q) => q.back.data = q.data

\* What the entry shows, now and after the fetch under way, is in R, unless it is
\* known to be out of date or has not been read yet.
CurrentIn(q, R) ==
    /\ q.fetch = "read" => q.snap \in R
    /\ q.fetch = "no" /\ HasData(q) /\ ~q.flag => q.data \in R

\* An entry in use is fetched, or has data that count as fresh.
Served(q) == Fetching(q) \/ (HasData(q) /\ ~q.flag)

LEMMA WellFormedGrows ==
    ASSUME NEW D, NEW E, D \subseteq E, NEW q, WellFormed(q, D)
    PROVE  WellFormed(q, E)
BY DEF WellFormed, EntryOf

LEMMA AskedIsWellFormed ==
    ASSUME NEW D, Apart(D), NEW q, WellFormed(q, D)
    PROVE  /\ WellFormed(Asked(q), D)
           /\ Asked(q).data = q.data /\ Asked(q).fetch = "asked"
PROOF
<1>1. State(q) \in [data : D \cup {None}, flag : BOOLEAN] /\ State(q) # None
  BY DEF State, WellFormed, EntryOf, Apart
<1> QED
  BY <1>1 DEF WellFormed, EntryOf, Asked, State, Fetching

LEMMA MountsIsWellFormed ==
    ASSUME NEW D, Apart(D), NEW q, WellFormed(q, D)
    PROVE  WellFormed(Mounts(q), D) /\ Mounts(q).data = q.data /\ Served(Mounts(q))
BY AskedIsWellFormed DEF Mounts, Served, Fetching, HasData

LEMMA InvalidateIsWellFormed ==
    ASSUME NEW D, Apart(D), NEW q, WellFormed(q, D), NEW m
    PROVE  WellFormed(Invalidate(q, m), D) /\ Invalidate(q, m).data = q.data
PROOF
<1> DEFINE flagged == [q EXCEPT !.flag = TRUE]
<1>1. WellFormed(flagged, D) /\ flagged.data = q.data
  BY DEF WellFormed, EntryOf, Fetching
<1> QED
  BY <1>1, AskedIsWellFormed DEF Invalidate

LEMMA PutIsWellFormed ==
    ASSUME NEW D, Apart(D), NEW q, WellFormed(q, D), NEW data \in D \cup {None}
    PROVE  WellFormed(Put(q, data), D) /\ Put(q, data).data = data
PROOF
<1>1. [data |-> data, flag |-> FALSE] \in [data : D \cup {None}, flag : BOOLEAN] \ {None}
  BY DEF Apart
<1> QED
  BY <1>1 DEF WellFormed, EntryOf, Put, Fetching

LEMMA CancelIsWellFormed ==
    ASSUME NEW D, Apart(D), NEW q, WellFormed(q, D)
    PROVE  WellFormed(Cancel(q), D) /\ Cancel(q).data = q.data
PROOF
<1>1. CASE Fetching(q)
  <2>1. q.back \in [data : D \cup {None}, flag : BOOLEAN]
    BY <1>1 DEF WellFormed, EntryOf, Fetching
  <2> QED
    BY <1>1, <2>1 DEF WellFormed, EntryOf, Cancel, Idle, Fetching
<1> QED
  BY <1>1 DEF Cancel

LEMMA AnswersAreWellFormed ==
    ASSUME NEW D, Apart(D), NEW q, WellFormed(q, D), Fetching(q), NEW v \in D
    PROVE  /\ WellFormed(Read(q, v), D)
           /\ q.fetch = "read" => WellFormed(Answer(q), D) /\ WellFormed(Retry(q), D)
BY DEF WellFormed, EntryOf, Apart, Read, Answer, Retry, Idle, Fetching

LEMMA MountsStaysCurrent ==
    ASSUME NEW D, Apart(D), NEW q, WellFormed(q, D), NEW R, CurrentIn(q, R)
    PROVE  CurrentIn(Mounts(q), R)
BY AskedIsWellFormed DEF Mounts, CurrentIn

LEMMA AnswerIsCurrent ==
    ASSUME NEW D, NEW q, WellFormed(q, D), NEW R, CurrentIn(q, R)
    PROVE  /\ q.fetch = "asked" => \A v \in R : CurrentIn(Read(q, v), R)
           /\ q.fetch = "read" => CurrentIn(Answer(q), R) /\ CurrentIn(Retry(q), R)
BY DEF WellFormed, EntryOf, CurrentIn, Read, Answer, Retry, Idle

\* An invalidation makes an entry current, whatever it had, unless an answer
\* is taken for the answer to it.
LEMMA InvalidateIsCurrent ==
    ASSUME NEW D, Apart(D), NEW q, WellFormed(q, D), NEW R, NEW m,
           q.fetch = "read" => m /\ HasData(q)
    PROVE  CurrentIn(Invalidate(q, m), R)
PROOF
<1> DEFINE flagged == [q EXCEPT !.flag = TRUE]
<1>1. /\ WellFormed(flagged, D) /\ flagged.fetch = q.fetch
      /\ flagged.flag = TRUE
  BY DEF WellFormed, EntryOf, Fetching
<1>2. CASE m /\ ~(Fetching(q) /\ ~HasData(q))
  BY <1>1, <1>2, AskedIsWellFormed DEF Invalidate, CurrentIn
<1>3. CASE ~(m /\ ~(Fetching(q) /\ ~HasData(q)))
  BY <1>1, <1>3 DEF Invalidate, CurrentIn
<1> QED
  BY <1>2, <1>3

\* So does a write of what is in R, unless an older answer is on its way.
LEMMA PutIsCurrent ==
    ASSUME NEW D, NEW q, WellFormed(q, D), NEW R, NEW v \in R, q.fetch # "read"
    PROVE  CurrentIn(Put(q, v), R)
BY DEF CurrentIn, WellFormed, EntryOf, Put

LEMMA NewEntry ==
    ASSUME NEW D, Apart(D), NEW v \in D \cup {None}, NEW R, v \in R \cup {None}
    PROVE  /\ WellFormed(Entry(v), D) /\ CurrentIn(Entry(v), R)
           /\ WellFormed(Mounts(Entry(v)), D) /\ CurrentIn(Mounts(Entry(v)), R)
PROOF
<1>1. WellFormed(Entry(v), D) /\ CurrentIn(Entry(v), R)
  BY DEF WellFormed, EntryOf, Entry, CurrentIn, HasData, Fetching
<1> QED
  BY <1>1, MountsIsWellFormed, MountsStaysCurrent

-----------------------------------------------------------------------------
(* The columns of the list *)

Lists == [Statuses -> Column]

\* No column has an issue twice, and no two have it.
Once(l, i) ==
    /\ \A s \in Statuses : l[s][i] <= 1
    /\ \A s, t \in Holding(l, i) : s = t

\* Of i, the lists have the same.
SameCells(l, p, i) == \A t \in Statuses : p[t][i] = l[t][i]

\* p has every issue at most once if l has; of i it has what is in S, and of
\* all others what l has.
Places(l, p, i, S) ==
    /\ p \in Lists
    /\ Once(p, i) /\ Holding(p, i) = S
    /\ \A j \in Issues \ {i} : SameCells(l, p, j)

LEMMA SameCellsHold ==
    ASSUME NEW l, NEW p, NEW i, SameCells(l, p, i)
    PROVE  Holding(p, i) = Holding(l, i) /\ (Once(l, i) => Once(p, i))
BY DEF SameCells, Holding, Once

\* findIssueLocation finds an issue that is there.
LEMMA LocationHolds ==
    ASSUME NEW l, NEW i, Holding(l, i) # {}
    PROVE  Location(l, i) \in Holding(l, i)
PROOF
<1> DEFINE P(n) == PAGINATED_STATUSES[n] \in Holding(l, i)
           places == {n \in DOMAIN PAGINATED_STATUSES : P(n)}
<1>1. places \subseteq Nat /\ places # {}
  BY ColumnsAreInOrder DEF Holding, Statuses
<1>2. PICK x \in places : \A y \in places : ~ (<<y, x>> \in OpToRel(<, Nat))
  BY <1>1, NatLessThanWellFounded, WFMin
<1>3. \A y \in places : ~ (y < x)
  <2>1. OpToRel(<, Nat) = {p \in Nat \X Nat : p[1] < p[2]}
    BY Zenon DEF OpToRel
  <2>2. ASSUME NEW y \in places, y < x
        PROVE  FALSE
    <3>1. <<y, x>> \in {p \in Nat \X Nat : p[1] < p[2]}
      BY <1>1, <2>2
    <3> QED
      BY <1>2, <2>1, <3>1
  <2> QED
    BY <2>2
<1>4. \A m \in 1 .. x - 1 : ~P(m)
  <2> SUFFICES ASSUME NEW m \in 1 .. x - 1, P(m)
               PROVE  FALSE
    OBVIOUS
  <2>1. x \in 1 .. Len(PAGINATED_STATUSES) /\ Len(PAGINATED_STATUSES) \in Nat
    BY ColumnsAreInOrder
  <2>2. m \in places
    BY <2>1, ColumnsAreInOrder
  <2> QED
    BY <1>3, <2>1, <2>2
<1>5. x \in DOMAIN PAGINATED_STATUSES /\ P(x)
  OBVIOUS
<1> QED
  BY <1>4, <1>5 DEF Location

LEMMA PatchPlaces ==
    ASSUME NEW l \in Lists, NEW i \in Issues, Once(l, i), NEW s \in Statuses
    PROVE  Places(l, patchIssueInBuckets(l, i, s), i, IF Holding(l, i) = {} THEN {} ELSE {s})
PROOF
<1> DEFINE p == patchIssueInBuckets(l, i, s)
           from == Location(l, i)
<1>1. CASE Holding(l, i) = {}
  BY <1>1 DEF patchIssueInBuckets, Places, SameCells
<1>2. CASE Holding(l, i) # {} /\ from = s
  <2>1. Holding(l, i) = {s}
    BY <1>2, LocationHolds DEF Once
  <2> QED
    BY <1>2, <2>1 DEF patchIssueInBuckets, Places, SameCells
<1>3. CASE Holding(l, i) # {} /\ from # s
  <2>1. from \in Holding(l, i) /\ from \in Statuses /\ s \notin Holding(l, i)
    BY <1>3, LocationHolds DEF Once, Holding
  <2>2. l[s][i] = 0
    BY <2>1 DEF Holding, Lists, Column
  <2>3. \A t \in Statuses : l[t][i] # 0 => t = from
    BY <2>1 DEF Holding, Lists, Column, Once
  <2>4. p = [[l EXCEPT ![from][i] = 0] EXCEPT ![s][i] = 1]
    BY <1>3, <2>1, <2>2 DEF patchIssueInBuckets, Lists, Column
  <2>5. /\ p \in Lists
        /\ \A t \in Statuses : \A j \in Issues :
              p[t][j] = IF j = i THEN (IF t = s THEN 1 ELSE IF t = from THEN 0 ELSE l[t][i]) ELSE l[t][j]
    <3> DEFINE q == [l EXCEPT ![from][i] = 0]
    <3> HIDE DEF from, q
    <3>1. q \in Lists
          /\ \A t \in Statuses : \A j \in Issues :
                q[t][j] = IF t = from /\ j = i THEN 0 ELSE l[t][j]
      BY <2>1 DEF q, Lists, Column
    <3>2. [q EXCEPT ![s][i] = 1] \in Lists
          /\ \A t \in Statuses : \A j \in Issues :
                [q EXCEPT ![s][i] = 1][t][j] = IF t = s /\ j = i THEN 1 ELSE q[t][j]
      BY <3>1 DEF Lists, Column
    <3>3. p = [q EXCEPT ![s][i] = 1]
      BY <2>4 DEF q
    <3> HIDE DEF p
    <3> QED
      BY <3>1, <3>2, <3>3
  <2> HIDE DEF p
  <2>6. \A t \in Statuses : p[t][i] = IF t = s THEN 1 ELSE 0
    BY <2>3, <2>5
  <2>7. Places(l, p, i, {s})
    BY <2>5, <2>6 DEF Places, SameCells, Once, Holding
  <2> QED
    BY <1>3, <2>7 DEF p
<1> QED
  BY <1>1, <1>2, <1>3

LEMMA RemovePlaces ==
    ASSUME NEW l \in Lists, NEW i \in Issues, Once(l, i)
    PROVE  Places(l, removeIssueFromBuckets(l, i), i, {})
PROOF
<1> DEFINE p == removeIssueFromBuckets(l, i)
           from == Location(l, i)
<1>1. CASE Holding(l, i) = {}
  BY <1>1 DEF removeIssueFromBuckets, Places, SameCells
<1>2. CASE Holding(l, i) # {}
  <2>1. from \in Holding(l, i) /\ from \in Statuses
    BY <1>2, LocationHolds DEF Holding
  <2>2. \A t \in Statuses : l[t][i] # 0 => t = from
    BY <2>1 DEF Holding, Lists, Column, Once
  <2>3. p = [l EXCEPT ![from][i] = 0]
    BY <1>2 DEF removeIssueFromBuckets
  <2>4. /\ p \in Lists
        /\ \A t \in Statuses : \A j \in Issues :
              p[t][j] = IF j = i /\ t = from THEN 0 ELSE l[t][j]
    BY <2>1, <2>3 DEF Lists, Column
  <2> HIDE DEF p
  <2>5. \A t \in Statuses : p[t][i] = 0
    BY <2>2, <2>4
  <2>6. Places(l, p, i, {})
    BY <2>4, <2>5 DEF Places, SameCells, Once, Holding
  <2> QED
    BY <2>6 DEF p
<1> QED
  BY <1>1, <1>2

LEMMA AddPlaces ==
    ASSUME NEW l \in Lists, NEW i \in Issues, NEW s \in Statuses, Once(l, i), Holding(l, i) \subseteq {s}
    PROVE  Places(l, addIssueToBuckets(l, i, s), i, {s})
PROOF
<1> DEFINE p == addIssueToBuckets(l, i, s)
<1>1. CASE l[s][i] > 0
  BY <1>1 DEF addIssueToBuckets, Places, SameCells, Holding
<1>2. CASE ~(l[s][i] > 0)
  <2>1. \A t \in Statuses : l[t][i] = 0
    BY <1>2 DEF Holding, Lists, Column
  <2>2. p = [l EXCEPT ![s][i] = 1]
    BY <1>2 DEF addIssueToBuckets
  <2>3. /\ p \in Lists
        /\ \A t \in Statuses : \A j \in Issues :
              p[t][j] = IF j = i /\ t = s THEN 1 ELSE l[t][j]
    BY <2>2 DEF Lists, Column
  <2> HIDE DEF p
  <2>4. Places(l, p, i, {s})
    BY <2>1, <2>3 DEF Places, SameCells, Once, Holding
  <2> QED
    BY <2>4 DEF p
<1> QED
  BY <1>1, <1>2

\* Several issues at once.
LEMMA PatchAllPlaces ==
    ASSUME NEW l \in Lists, NEW ids \in SUBSET Issues, \A i \in ids : Once(l, i), NEW s \in Statuses
    PROVE  /\ patchIssues(l, ids, s) \in Lists
           /\ \A i \in ids : /\ Once(patchIssues(l, ids, s), i)
                             /\ Holding(patchIssues(l, ids, s), i) = IF Holding(l, i) = {} THEN {} ELSE {s}
           /\ \A i \in Issues \ ids : SameCells(l, patchIssues(l, ids, s), i)
PROOF
<1> DEFINE p == patchIssues(l, ids, s)
           one(i) == patchIssueInBuckets(l, i, s)
<1>1. \A i \in ids : Places(l, one(i), i, IF Holding(l, i) = {} THEN {} ELSE {s})
  BY PatchPlaces
<1>2. \A t \in Statuses : \A i \in Issues : p[t][i] = IF i \in ids THEN one(i)[t][i] ELSE l[t][i]
  BY DEF patchIssues
<1>3. p \in Lists
  <2>1. \A t \in Statuses : \A i \in ids : one(i)[t][i] \in 0 .. 2
    BY <1>1 DEF Places, Lists, Column
  <2> HIDE DEF one
  <2> QED
    BY <2>1 DEF patchIssues, Lists, Column, one
<1> HIDE DEF p, one
<1>4. \A i \in ids : SameCells(one(i), p, i)
  BY <1>2 DEF SameCells
<1>5. \A i \in Issues \ ids : SameCells(l, p, i)
  BY <1>2 DEF SameCells
<1>6. \A i \in ids : Once(p, i) /\ Holding(p, i) = IF Holding(l, i) = {} THEN {} ELSE {s}
  BY <1>1, <1>4, SameCellsHold DEF Places
<1> QED
  BY <1>3, <1>5, <1>6 DEF p

LEMMA RemoveAllPlaces ==
    ASSUME NEW l \in Lists, NEW ids \in SUBSET Issues, \A i \in ids : Once(l, i)
    PROVE  /\ removeIssues(l, ids) \in Lists
           /\ \A i \in ids : Once(removeIssues(l, ids), i) /\ Holding(removeIssues(l, ids), i) = {}
           /\ \A i \in Issues \ ids : SameCells(l, removeIssues(l, ids), i)
PROOF
<1> DEFINE p == removeIssues(l, ids)
           one(i) == removeIssueFromBuckets(l, i)
<1>1. \A i \in ids : Places(l, one(i), i, {})
  BY RemovePlaces
<1>2. \A t \in Statuses : \A i \in Issues : p[t][i] = IF i \in ids THEN one(i)[t][i] ELSE l[t][i]
  BY DEF removeIssues
<1>3. p \in Lists
  <2>1. \A t \in Statuses : \A i \in ids : one(i)[t][i] \in 0 .. 2
    BY <1>1 DEF Places, Lists, Column
  <2> HIDE DEF one
  <2> QED
    BY <2>1 DEF removeIssues, Lists, Column, one
<1> HIDE DEF p, one
<1>4. \A i \in ids : SameCells(one(i), p, i)
  BY <1>2 DEF SameCells
<1>5. \A i \in Issues \ ids : SameCells(l, p, i)
  BY <1>2 DEF SameCells
<1>6. \A i \in ids : Once(p, i) /\ Holding(p, i) = {}
  BY <1>1, <1>4, SameCellsHold DEF Places
<1> QED
  BY <1>3, <1>5, <1>6 DEF p

-----------------------------------------------------------------------------
(* Types *)

ServerType ==
    [issues : [Issues -> Statuses \cup {"unborn", "deleted"}],
     comments : [Comments -> Texts \cup {"deleted"}]]
IssueEvents ==
    [type : {"issue:created", "issue:updated"}, id : Issues, to : Statuses]
    \cup [type : {"issue:deleted"}, id : Issues, to : {None}]
CommentEvents ==
    [type : {"comment:created", "comment:updated", "comment:deleted"}, id : Comments, to : {None}]
Events == IssueEvents \cup CommentEvents

\* An issue that is not born yet, or of which somebody may still be told that
\* it was born.
Young(i) == server.issues[i] = "unborn" \/ Creating(i)

\* A young issue is nowhere but in the column in which it was born.
Homes ==
    {l \in Lists : \A i \in Issues : Once(l, i) /\ (Young(i) => Holding(l, i) \subseteq {server.issues[i]})}

\* What an entry may hold.
Held(k) ==
    CASE k = "list" -> Homes
      [] k = "detail" -> Statuses \cup {d \in {Gone} : ~Exists(server, Focus)}
      [] k = "timeline" -> Timeline

ServerOK == server \in ServerType /\ server.issues[Focus] # "unborn"

CacheOK(c) ==
    /\ c = [k \in Keys |-> c[k]]
    /\ \A k \in Keys : WellFormed(c[k], Held(k))
    /\ HasData(c["list"])

\* What a mutation restores is of the entries it settles, and what it changes
\* is not young.
InFlight(m) == muts[m] # None
MutOK(u) ==
    LET r == u.req IN
    /\ u \in Mutation
    /\ \A k \in Keys : u.saved[k] \in Held(k) \cup {None} /\ (u.saved[k] # None => k \in SettledKeys(r))
    /\ OnIssues(r) /\ r.op # "create" => \A i \in r.ids : ~Young(i)
    /\ r.op = "create" /\ u.phase = "done" => server.issues[TheId(r)] = r.to
    /\ r.op = "delete" /\ u.phase = "done" => server.issues[TheId(r)] = "deleted"
MutsOK ==
    /\ muts = [m \in Slots |-> muts[m]]
    /\ \A m \in Slots : InFlight(m) => MutOK(muts[m])

EventOK(e) ==
    /\ e.type = "issue:created" => server.issues[e.id] = e.to /\ e.id # Focus
    /\ e.type \in {"issue:updated", "issue:deleted"} => ~Young(e.id)
WireOK ==
    /\ wire \in Seq(Events)
    /\ \A n \in DOMAIN wire : EventOK(wire[n])
    /\ conn = "up" \/ wire = <<>>

Typed ==
    /\ ServerOK /\ CacheOK(cache) /\ MutsOK /\ WireOK
    /\ page \in Pages /\ conn \in {"down", "acked", "up"}
    /\ changes \in 0 .. MaxChanges /\ drops \in 0 .. MaxDrops

-----------------------------------------------------------------------------
(* Names of things *)

LEMMA FocusIsAnIssue == Focus \in Issues
BY FocusIsBorn

LEMMA StatusesAreNamed ==
    None \notin Statuses /\ Gone \notin Statuses /\ "unborn" \notin Statuses /\ "deleted" \notin Statuses
BY NoneIsNothing

LEMMA HeldKinds ==
    /\ Held("list") = Homes
    /\ Held("detail") = Statuses \cup {d \in {Gone} : ~Exists(server, Focus)}
    /\ Held("timeline") = Timeline
BY DEF Held

LEMMA HeldIsData ==
    ASSUME NEW k \in Keys
    PROVE  Held(k) \subseteq DataOf(k)
BY DEF Held, DataOf, Homes, Lists, Keys

LEMMA HeldIsApart ==
    ASSUME NEW k \in Keys
    PROVE  Apart(Held(k))
BY HeldIsData, NoneIsNothing DEF Apart

LEMMA EntryIsTyped ==
    ASSUME NEW c, CacheOK(c), NEW k \in Keys
    PROVE  Apart(Held(k)) /\ WellFormed(c[k], Held(k))
BY HeldIsApart DEF CacheOK

LEMMA OneEntry ==
    ASSUME NEW c, CacheOK(c), NEW k \in Keys, NEW q, WellFormed(q, Held(k)),
           k = "list" => HasData(q)
    PROVE  /\ CacheOK([c EXCEPT ![k] = q]) /\ [c EXCEPT ![k] = q][k] = q
           /\ \A j \in Keys \ {k} : [c EXCEPT ![k] = q][j] = c[j]
BY DEF CacheOK

LEMMA RequestKinds ==
    ASSUME NEW r \in Requests \cup Batches
    PROVE  /\ OnIssues(r) => r.ids \in SUBSET Issues
           /\ r.op \in {"create", "update", "batchUpdate"} => r.to \in Statuses
           /\ r.op \notin {"create", "update", "batchUpdate"} => r.to = None
           /\ OnIssues(r) /\ r.op \notin {"batchUpdate", "batchDelete"} =>
                 r.ids = {TheId(r)} /\ TheId(r) \in Issues
           /\ ~OnIssues(r) => r.ids = {TheId(r)} /\ TheId(r) \in Comments
           /\ ~OnIssues(r) <=> r.op \in {"comment", "edit", "uncomment"}
           /\ r.op \in {"create", "update", "delete", "batchUpdate", "batchDelete",
                        "comment", "edit", "uncomment"}
PROOF
<1>1. ASSUME NEW S, r.ids \in Single(S)
      PROVE  r.ids = {TheId(r)} /\ TheId(r) \in S
  BY <1>1 DEF Single, TheId
<1>2. CASE r \in [op : {"create", "update"}, ids : Single(Issues), to : Statuses]
  BY <1>1, <1>2 DEF OnIssues
<1>3. CASE r \in [op : {"delete"}, ids : Single(Issues), to : {None}]
  BY <1>1, <1>3 DEF OnIssues
<1>4. CASE r \in [op : {"comment", "edit", "uncomment"}, ids : Single(Comments), to : {None}]
  BY <1>1, <1>4 DEF OnIssues
<1>5. CASE r \in Batches
  BY <1>5 DEF OnIssues, Batches
<1> QED
  BY <1>2, <1>3, <1>4, <1>5 DEF Requests

LEMMA MutationIsTyped ==
    ASSUME Typed, NEW m \in Slots, InFlight(m)
    PROVE  /\ MutOK(muts[m]) /\ muts[m] \in Mutation
           /\ muts[m].req \in Requests \cup Batches
BY DEF Typed, MutsOK, MutOK, Mutation

-----------------------------------------------------------------------------
(* How issues age *)

\* An issue changes when it is born, or when it is no longer young; and it
\* becomes young only by being born.
Evolves ==
    /\ ServerOK'
    /\ \A i \in Issues : server'.issues[i] # server.issues[i] =>
          /\ server.issues[i] = "unborn" \/ (Exists(server, i) /\ ~Creating(i))
          /\ server'.issues[i] # "unborn"
    /\ \A i \in Issues : Creating(i)' => Young(i)

LEMMA SameServerEvolves ==
    ASSUME Typed, UNCHANGED server, \A i \in Issues : Creating(i)' => Young(i)
    PROVE  Evolves
BY DEF Typed, ServerOK, Evolves

LEMMA YouthPasses ==
    ASSUME Typed, Evolves, NEW i \in Issues
    PROVE  /\ Young(i)' => Young(i)
           /\ Young(i)' => server'.issues[i] = server.issues[i] \/ server.issues[i] = "unborn"
           /\ Exists(server, Focus)' => Exists(server, Focus)
PROOF
<1>1. /\ server.issues[Focus] \in Statuses \cup {"unborn", "deleted"} /\ server.issues[Focus] # "unborn"
      /\ Focus \in Issues
  BY FocusIsAnIssue DEF Typed, ServerOK, ServerType
<1>2. Exists(server, Focus)' => Exists(server, Focus)
  BY <1>1 DEF Evolves, Exists
<1>3. Young(i)' => Young(i)
  BY DEF Evolves, Young
<1>4. Young(i)' => server'.issues[i] = server.issues[i] \/ server.issues[i] = "unborn"
  BY DEF Evolves, Young
<1> QED
  BY <1>2, <1>3, <1>4

LEMMA HeldGrows ==
    ASSUME Typed, Evolves, NEW k \in Keys
    PROVE  Held(k) \subseteq Held(k)'
PROOF
<1>1. Homes \subseteq Homes'
  <2> SUFFICES ASSUME NEW l \in Homes, NEW i \in Issues, Young(i)'
               PROVE  Holding(l, i) \subseteq {server'.issues[i]}
    BY DEF Homes
  <2>1. Holding(l, i) \subseteq {server.issues[i]} /\ Holding(l, i) \subseteq Statuses
    BY YouthPasses DEF Homes, Holding
  <2> QED
    BY <2>1, YouthPasses, StatusesAreNamed
<1>2. Held("detail") \subseteq Held("detail")'
  BY YouthPasses, FocusIsAnIssue DEF Held
<1>3. Held("timeline")' = Held("timeline")
  BY DEF Held
<1>4. Held("list") = Homes /\ Held("list")' = Homes'
  BY DEF Held
<1> QED
  BY <1>1, <1>2, <1>3, <1>4 DEF Keys

LEMMA CacheGrows ==
    ASSUME Typed, Evolves, CacheOK(cache')
    PROVE  CacheOK(cache)'
PROOF
<1>1. \A k \in Keys : WellFormed(cache'[k], Held(k)')
  BY HeldGrows, WellFormedGrows DEF CacheOK
<1> QED
  BY <1>1 DEF CacheOK

LEMMA MutationGrows ==
    ASSUME Typed, Evolves, NEW u, MutOK(u),
           u.req.op = "create" => \A i \in u.req.ids : Creating(i)
    PROVE  \A v : v = u => MutOK(v)'
PROOF
<1> DEFINE r == u.req
<1>1. u \in Mutation /\ r \in Requests \cup Batches
  BY DEF MutOK, Mutation
<1>2. \A k \in Keys : u.saved[k] \in Held(k)' \cup {None} /\ (u.saved[k] # None => k \in SettledKeys(r))
  BY HeldGrows DEF MutOK
<1>3. OnIssues(r) /\ r.op # "create" => \A i \in r.ids : ~Young(i)'
  BY <1>1, YouthPasses, RequestKinds DEF MutOK
<1>4. r.op = "create" /\ u.phase = "done" => server'.issues[TheId(r)] = r.to
  BY <1>1, RequestKinds, StatusesAreNamed DEF MutOK, Evolves, OnIssues
<1>5. r.op = "delete" /\ u.phase = "done" => server'.issues[TheId(r)] = "deleted"
  BY <1>1, RequestKinds, StatusesAreNamed DEF MutOK, Evolves, OnIssues, Exists
<1> QED
  BY <1>1, <1>2, <1>3, <1>4, <1>5 DEF MutOK

LEMMA EventsGrow ==
    ASSUME Typed, Evolves, NEW n \in DOMAIN wire
    PROVE  \A e : e = wire[n] => EventOK(e)'
PROOF
<1>1. wire[n] \in Events /\ EventOK(wire[n])
  BY DEF Typed, WireOK
<1>2. ASSUME wire[n].type = "issue:created"
      PROVE  Creating(wire[n].id) /\ wire[n].id \in Issues /\ wire[n].to \in Statuses
  BY <1>1, <1>2 DEF Creating, Events, IssueEvents, CommentEvents
<1>3. ASSUME wire[n].type \in {"issue:updated", "issue:deleted"}
      PROVE  wire[n].id \in Issues
  BY <1>1, <1>3 DEF Events, IssueEvents, CommentEvents
<1> QED
  BY <1>1, <1>2, <1>3, YouthPasses, StatusesAreNamed DEF EventOK, Evolves

-----------------------------------------------------------------------------
(* What is written to the cache *)

LEMMA KeyNames ==
    "list" \in Keys /\ "detail" \in Keys /\ "timeline" \in Keys
    /\ \A k \in Keys : k = "list" \/ k = "detail" \/ k = "timeline"
BY DEF Keys

LEMMA WriteIsTyped ==
    ASSUME NEW c, CacheOK(c), NEW k \in Keys, NEW v \in Held(k)
    PROVE  /\ CacheOK([c EXCEPT ![k] = Put(c[k], v)])
           /\ [c EXCEPT ![k] = Put(c[k], v)][k] = Put(c[k], v)
           /\ \A j \in Keys \ {k} : [c EXCEPT ![k] = Put(c[k], v)][j] = c[j]
PROOF
<1>1. WellFormed(Put(c[k], v), Held(k)) /\ Put(c[k], v).data = v /\ v # None
  BY EntryIsTyped, PutIsWellFormed DEF Apart
<1>2. HasData(Put(c[k], v))
  BY <1>1 DEF HasData
<1> QED
  BY <1>1, <1>2, OneEntry

LEMMA CancelledIsTyped ==
    ASSUME NEW c, CacheOK(c), NEW k \in Keys
    PROVE  /\ CacheOK(Cancelled(c, k))
           /\ Cancelled(c, k)[k] = Cancel(c[k]) /\ Cancel(c[k]).data = c[k].data
           /\ \A j \in Keys \ {k} : Cancelled(c, k)[j] = c[j]
PROOF
<1>1. WellFormed(Cancel(c[k]), Held(k)) /\ Cancel(c[k]).data = c[k].data
  BY EntryIsTyped, CancelIsWellFormed
<1>2. k = "list" => HasData(Cancel(c[k]))
  BY <1>1 DEF HasData, CacheOK
<1> QED
  BY <1>1, <1>2, OneEntry DEF Cancelled

LEMMA InvalidatedIsTyped ==
    ASSUME NEW c, CacheOK(c), NEW K
    PROVE  /\ CacheOK(Invalidated(c, K))
           /\ \A k \in Keys : Invalidated(c, K)[k] = IF k \in K THEN Invalidate(c[k], Mounted(k)) ELSE c[k]
PROOF
<1>1. \A k \in Keys : /\ WellFormed(Invalidate(c[k], Mounted(k)), Held(k))
                      /\ Invalidate(c[k], Mounted(k)).data = c[k].data
  BY EntryIsTyped, InvalidateIsWellFormed
<1>2. \A k \in Keys : Invalidated(c, K)[k] = IF k \in K THEN Invalidate(c[k], Mounted(k)) ELSE c[k]
  BY DEF Invalidated
<1>3. Invalidated(c, K) = [k \in Keys |-> Invalidated(c, K)[k]]
  BY <1>2 DEF Invalidated
<1>4. HasData(Invalidated(c, K)["list"])
  BY <1>1, <1>2, KeyNames DEF HasData, CacheOK
<1>5. \A k \in Keys : WellFormed(Invalidated(c, K)[k], Held(k))
  BY <1>1, <1>2 DEF CacheOK
<1> QED
  BY <1>2, <1>3, <1>4, <1>5 DEF CacheOK

\* A removed entry is a new one, which a page that uses it has fetched.
New(k) == IF Mounted(k) THEN Mounts(Entry(None)) ELSE Entry(None)

LEMMA RemovedIsTyped ==
    ASSUME NEW c, CacheOK(c), NEW K, "list" \notin K
    PROVE  /\ CacheOK(Removed(c, K))
           /\ \A k \in Keys : Removed(c, K)[k] = IF k \in K THEN New(k) ELSE c[k]
PROOF
<1>1. \A k \in Keys : WellFormed(New(k), Held(k))
  BY HeldIsApart, NewEntry DEF New
<1>2. \A k \in Keys : Removed(c, K)[k] = IF k \in K THEN New(k) ELSE c[k]
  BY DEF Removed, New
<1>3. Removed(c, K) = [k \in Keys |-> Removed(c, K)[k]]
  BY <1>2 DEF Removed
<1>4. \A k \in Keys : WellFormed(Removed(c, K)[k], Held(k))
  BY <1>1, <1>2 DEF CacheOK
<1> QED
  BY <1>2, <1>3, <1>4, KeyNames DEF CacheOK

\* What is written to the list.
LEMMA PlacedIsHeld ==
    ASSUME NEW l \in Homes, NEW p, NEW i \in Issues, NEW S, Places(l, p, i, S),
           Young(i) => S \subseteq {server.issues[i]}
    PROVE  p \in Homes
PROOF
<1>1. \A j \in Issues : Once(p, j) /\ (j # i => Holding(p, j) = Holding(l, j))
  BY SameCellsHold DEF Places, Homes
<1> QED
  BY <1>1 DEF Places, Homes

LEMMA PatchedIsHeld ==
    ASSUME NEW l \in Homes, NEW i \in Issues, ~Young(i), NEW s \in Statuses
    PROVE  patchIssueInBuckets(l, i, s) \in Homes
PROOF
<1>1. l \in Lists /\ Once(l, i)
  BY DEF Homes
<1>2. PICK S : Places(l, patchIssueInBuckets(l, i, s), i, S)
  BY <1>1, PatchPlaces
<1> QED
  BY <1>2, PlacedIsHeld

LEMMA RemovedIsHeld ==
    ASSUME NEW l \in Homes, NEW i \in Issues
    PROVE  removeIssueFromBuckets(l, i) \in Homes
PROOF
<1>1. Places(l, removeIssueFromBuckets(l, i), i, {})
  BY RemovePlaces DEF Homes
<1> QED
  BY <1>1, PlacedIsHeld

LEMMA AddedIsHeld ==
    ASSUME NEW l \in Homes, NEW i \in Issues, Young(i), NEW s \in Statuses, server.issues[i] = s
    PROVE  /\ addIssueToBuckets(l, i, s) \in Homes
           /\ Places(l, addIssueToBuckets(l, i, s), i, {s})
PROOF
<1>1. Places(l, addIssueToBuckets(l, i, s), i, {s})
  BY AddPlaces DEF Homes
<1> QED
  BY <1>1, PlacedIsHeld

LEMMA PatchedAllIsHeld ==
    ASSUME NEW l \in Homes, NEW ids \in SUBSET Issues, \A i \in ids : ~Young(i), NEW s \in Statuses
    PROVE  patchIssues(l, ids, s) \in Homes
PROOF
<1>1. /\ patchIssues(l, ids, s) \in Lists
      /\ \A i \in ids : Once(patchIssues(l, ids, s), i)
      /\ \A i \in Issues \ ids : SameCells(l, patchIssues(l, ids, s), i)
  BY PatchAllPlaces DEF Homes
<1> QED
  BY <1>1, SameCellsHold DEF Homes

LEMMA RemovedAllIsHeld ==
    ASSUME NEW l \in Homes, NEW ids \in SUBSET Issues
    PROVE  removeIssues(l, ids) \in Homes
PROOF
<1>1. /\ removeIssues(l, ids) \in Lists
      /\ \A i \in ids : Once(removeIssues(l, ids), i) /\ Holding(removeIssues(l, ids), i) = {}
      /\ \A i \in Issues \ ids : SameCells(l, removeIssues(l, ids), i)
  BY RemoveAllPlaces DEF Homes
<1> QED
  BY <1>1, SameCellsHold DEF Homes

\* The list of a cache.
LEMMA ListIsHeld ==
    ASSUME NEW c, CacheOK(c)
    PROVE  c["list"].data \in Homes
BY EntryIsTyped, KeyNames, HeldKinds DEF CacheOK, WellFormed, EntryOf, HasData

LEMMA WriteListIsTyped ==
    ASSUME NEW c, CacheOK(c), NEW p \in Homes, NEW d, d = [c EXCEPT !["list"] = Put(c["list"], p)]
    PROVE  /\ CacheOK(d) /\ d["list"] = Put(c["list"], p)
           /\ d["detail"] = c["detail"] /\ d["timeline"] = c["timeline"]
PROOF
<1>1. /\ CacheOK([c EXCEPT !["list"] = Put(c["list"], p)])
      /\ [c EXCEPT !["list"] = Put(c["list"], p)]["list"] = Put(c["list"], p)
      /\ \A j \in Keys \ {"list"} : [c EXCEPT !["list"] = Put(c["list"], p)][j] = c[j]
  <2>1. p \in Held("list")
    BY HeldKinds
  <2> QED
    BY <2>1, WriteIsTyped, KeyNames
<1> QED
  BY <1>1, KeyNames

\* The detail of Focus is patched unless it is gone.
PatchedDetail(q, i, s) ==
    IF i = Focus /\ HasData(q) THEN Put(q, IF q.data = Gone THEN Gone ELSE s) ELSE q

LEMMA PatchDetailIsTyped ==
    ASSUME NEW c, CacheOK(c), NEW i, NEW s \in Statuses
    PROVE  /\ CacheOK(PatchDetail(c, i, s))
           /\ PatchDetail(c, i, s)["detail"] = PatchedDetail(c["detail"], i, s)
           /\ PatchDetail(c, i, s)["list"] = c["list"] /\ PatchDetail(c, i, s)["timeline"] = c["timeline"]
PROOF
<1> DEFINE q == c["detail"]
           v == IF q.data = Gone THEN Gone ELSE s
<1>1. PatchDetail(c, i, s) = IF i = Focus THEN [c EXCEPT !["detail"] = IF HasData(q) THEN Put(q, v) ELSE q] ELSE c
  BY DEF PatchDetail, Patch
<1>2. CASE i = Focus /\ HasData(q)
  <2>1. q.data \in Held("detail")
    BY <1>2, EntryIsTyped, KeyNames DEF WellFormed, EntryOf, HasData
  <2>2. v \in Held("detail")
    BY <2>1, HeldKinds
  <2>3. PatchDetail(c, i, s) = [c EXCEPT !["detail"] = Put(q, v)]
    BY <1>1, <1>2
  <2> HIDE DEF v
  <2>4. /\ CacheOK([c EXCEPT !["detail"] = Put(q, v)])
        /\ [c EXCEPT !["detail"] = Put(q, v)]["detail"] = Put(q, v)
        /\ \A j \in Keys \ {"detail"} : [c EXCEPT !["detail"] = Put(q, v)][j] = c[j]
    BY <2>2, WriteIsTyped, KeyNames
  <2> QED
    BY <1>2, <2>3, <2>4, KeyNames DEF PatchedDetail, v
<1>3. CASE ~(i = Focus /\ HasData(q))
  <2>1. [c EXCEPT !["detail"] = q] = c
    BY DEF CacheOK
  <2>2. PatchDetail(c, i, s) = c
    BY <1>1, <1>3, <2>1
  <2> QED
    BY <1>3, <2>2 DEF PatchedDetail
<1> QED
  BY <1>2, <1>3

LEMMA TimelinesStayTimelines ==
    ASSUME NEW t \in Timeline, NEW c \in Comments
    PROVE  /\ without(t, c) \in Timeline
           /\ \A text \in Texts : AddComment(t, c, text) \in Timeline /\ EditComment(t, c, text) \in Timeline
PROOF
<1>1. CASE t = Gone
  BY <1>1 DEF Timeline, without, AddComment, EditComment
<1>2. CASE t \in [Comments -> Texts]
  <2>1. t # Gone
    BY <1>2, NoneIsNothing
  <2>2. [x \in Comments |-> IF x \in WithReplies(t, c) THEN "none" ELSE t[x]] \in [Comments -> Texts]
    BY <1>2 DEF Texts
  <2>3. \A text \in Texts : [t EXCEPT ![c] = text] \in [Comments -> Texts]
    BY <1>2
  <2> QED
    BY <1>2, <2>1, <2>2, <2>3 DEF Timeline, without, AddComment, EditComment
<1> QED
  BY <1>1, <1>2 DEF Timeline

-----------------------------------------------------------------------------
(* What mutations and events do to the cache *)

Others(c, d, K) == \A k \in Keys \ K : d[k] = c[k]

LEMMA onIssueCreatedIsTyped ==
    ASSUME NEW c, CacheOK(c), NEW e, e.id \in Issues, e.to \in Statuses, Young(e.id),
           server.issues[e.id] = e.to
    PROVE  /\ CacheOK(onIssueCreated(c, e)) /\ Others(c, onIssueCreated(c, e), {"list"})
           /\ onIssueCreated(c, e)["list"] =
                 Put(c["list"], addIssueToBuckets(c["list"].data, e.id, e.to))
PROOF
<1> DEFINE p == addIssueToBuckets(c["list"].data, e.id, e.to)
<1>1. p \in Homes
  BY ListIsHeld, AddedIsHeld
<1>2. onIssueCreated(c, e) = [c EXCEPT !["list"] = Put(c["list"], p)]
  BY DEF onIssueCreated, PatchList, Patch, CacheOK
<1> HIDE DEF p
<1>3. /\ CacheOK(onIssueCreated(c, e)) /\ onIssueCreated(c, e)["list"] = Put(c["list"], p)
      /\ onIssueCreated(c, e)["detail"] = c["detail"]
      /\ onIssueCreated(c, e)["timeline"] = c["timeline"]
  BY <1>1, <1>2, WriteListIsTyped
<1> QED
  BY <1>3, KeyNames DEF Others, p

LEMMA onIssueUpdatedIsTyped ==
    ASSUME NEW c, CacheOK(c), NEW e, e.id \in Issues, e.to \in Statuses, ~Young(e.id)
    PROVE  /\ CacheOK(onIssueUpdated(c, e)) /\ onIssueUpdated(c, e)["timeline"] = c["timeline"]
           /\ onIssueUpdated(c, e)["detail"] = PatchedDetail(c["detail"], e.id, e.to)
           /\ onIssueUpdated(c, e)["list"] =
                 Put(c["list"], patchIssueInBuckets(c["list"].data, e.id, e.to))
PROOF
<1> DEFINE p == patchIssueInBuckets(c["list"].data, e.id, e.to)
           d == [c EXCEPT !["list"] = Put(c["list"], p)]
<1>1. p \in Homes
  BY ListIsHeld, PatchedIsHeld
<1>2. onIssueUpdated(c, e) = PatchDetail(d, e.id, e.to)
  <2>1. PatchList(c, LAMBDA l : patchIssueInBuckets(l, e.id, e.to)) = d
    BY DEF PatchList, Patch, CacheOK
  <2> QED
    BY <2>1 DEF onIssueUpdated, PatchList, Patch, CacheOK
<1> HIDE DEF p
<1>3. /\ CacheOK(d) /\ d["list"] = Put(c["list"], p)
      /\ d["detail"] = c["detail"] /\ d["timeline"] = c["timeline"]
  BY <1>1, WriteListIsTyped
<1> HIDE DEF d
<1>4. /\ CacheOK(PatchDetail(d, e.id, e.to))
      /\ PatchDetail(d, e.id, e.to)["detail"] = PatchedDetail(d["detail"], e.id, e.to)
      /\ PatchDetail(d, e.id, e.to)["list"] = d["list"]
      /\ PatchDetail(d, e.id, e.to)["timeline"] = d["timeline"]
  BY <1>3, PatchDetailIsTyped
<1> QED
  BY <1>2, <1>3, <1>4 DEF p

LEMMA onIssueDeletedIsTyped ==
    ASSUME NEW c, CacheOK(c), NEW e, e.id \in Issues
    PROVE  /\ CacheOK(onIssueDeleted(c, e))
           /\ onIssueDeleted(c, e)["list"] =
                 Put(c["list"], removeIssueFromBuckets(c["list"].data, e.id))
           /\ \A k \in {"detail", "timeline"} :
                 onIssueDeleted(c, e)[k] = IF e.id = Focus THEN New(k) ELSE c[k]
PROOF
<1> DEFINE p == removeIssueFromBuckets(c["list"].data, e.id)
           d == [c EXCEPT !["list"] = Put(c["list"], p)]
           K == {"detail", "timeline"}
<1>1. p \in Homes
  BY ListIsHeld, RemovedIsHeld
<1>2. onIssueDeleted(c, e) = IF e.id = Focus THEN Removed(d, K) ELSE d
  BY DEF onIssueDeleted, PatchList, Patch, CacheOK
<1> HIDE DEF p
<1>3. /\ CacheOK(d) /\ d["list"] = Put(c["list"], p)
      /\ d["detail"] = c["detail"] /\ d["timeline"] = c["timeline"]
  BY <1>1, WriteListIsTyped
<1> HIDE DEF d
<1>4. CacheOK(Removed(d, K)) /\ \A k \in Keys : Removed(d, K)[k] = IF k \in K THEN New(k) ELSE d[k]
  BY <1>3, RemovedIsTyped
<1> QED
  BY <1>2, <1>3, <1>4, KeyNames DEF p

\* A comment event patches the timeline, if at all, and has it fetched anew.
LEMMA onCommentIsTyped ==
    ASSUME NEW c, CacheOK(c), NEW e \in CommentEvents
    PROVE  /\ CacheOK(onComment(c, e)) /\ Others(c, onComment(c, e), {"timeline"})
           /\ \E q : /\ WellFormed(q, Timeline) /\ q.fetch = c["timeline"].fetch
                     /\ HasData(q) <=> HasData(c["timeline"])
                     /\ onComment(c, e)["timeline"] = Invalidate(q, Mounted("timeline"))
PROOF
<1> DEFINE old == c["timeline"]
           f == CASE e.type = "comment:created" -> AddComment(old.data, e.id, "old")
                  [] e.type = "comment:updated" -> EditComment(old.data, e.id, "new")
                  [] e.type = "comment:deleted" -> without(old.data, e.id)
           q == IF page = "issue" /\ HasData(old) THEN Put(old, f) ELSE old
           d == [c EXCEPT !["timeline"] = q]
<1>1. onComment(c, e) = Invalidated(d, {"timeline"})
  <2>1. c = [c EXCEPT !["timeline"] = old]
    BY DEF CacheOK
  <2>2. onComment(c, e) = Invalidated(IF page = "issue" THEN
           [c EXCEPT !["timeline"] = IF HasData(old) THEN Put(old, f) ELSE old] ELSE c, {"timeline"})
    BY DEF onComment, PatchTimeline, Patch
  <2> QED
    BY <2>1, <2>2
<1>2. WellFormed(old, Timeline) /\ Apart(Timeline)
  BY EntryIsTyped, KeyNames, HeldKinds
<1>3. WellFormed(q, Timeline) /\ q.fetch = old.fetch /\ (HasData(q) <=> HasData(old))
  <2>1. CASE page = "issue" /\ HasData(old)
    <3>1. old.data \in Timeline /\ e.id \in Comments /\ {"old", "new"} \subseteq Texts
          /\ e.type \in {"comment:created", "comment:updated", "comment:deleted"}
      BY <1>2, <2>1 DEF WellFormed, EntryOf, HasData, Texts, CommentEvents
    <3>2. f \in Timeline
      BY <3>1, TimelinesStayTimelines
    <3> HIDE DEF f
    <3>3. WellFormed(Put(old, f), Timeline) /\ Put(old, f).data = f /\ f # None
      BY <1>2, <3>2, PutIsWellFormed DEF Apart
    <3>4. Put(old, f).fetch = old.fetch
      BY <1>2 DEF Put, WellFormed, EntryOf
    <3> QED
      BY <2>1, <3>3, <3>4 DEF HasData
  <2>2. CASE ~(page = "issue" /\ HasData(old))
    BY <1>2, <2>2
  <2> QED
    BY <2>1, <2>2
<1> HIDE DEF q
<1>4. CacheOK(d) /\ d["timeline"] = q /\ \A j \in Keys \ {"timeline"} : d[j] = c[j]
  <2>1. WellFormed(q, Held("timeline"))
    BY <1>3, HeldKinds
  <2> QED
    BY <2>1, KeyNames, OneEntry
<1> HIDE DEF d
<1>5. /\ CacheOK(Invalidated(d, {"timeline"}))
      /\ \A k \in Keys : Invalidated(d, {"timeline"})[k] =
            IF k \in {"timeline"} THEN Invalidate(d[k], Mounted(k)) ELSE d[k]
  BY <1>4, InvalidatedIsTyped
<1> QED
  BY <1>1, <1>3, <1>4, <1>5, KeyNames DEF Others

\* The keys that a mutation changes before its request.
Touched(r) ==
    {k \in Keys : \/ k = "list" /\ OnIssues(r) /\ r.op # "create"
                  \/ k = "detail" /\ r.op \in {"update", "delete"} /\ TheId(r) = Focus
                  \/ k = "timeline" /\ r.op \in {"edit", "uncomment"}}

LEMMA OptimisticIsTyped ==
    ASSUME NEW c, CacheOK(c), NEW r \in Requests \cup Batches,
           OnIssues(r) /\ r.op # "create" => \A i \in r.ids : ~Young(i),
           ~OnIssues(r) => HasData(c["timeline"])
    PROVE  /\ CacheOK(Optimistic(c, r)) /\ Others(c, Optimistic(c, r), Touched(r))
           /\ "list" \in Touched(r) => \E p \in Homes :
                 Optimistic(c, r)["list"] = Put(Cancel(c["list"]), p)
           /\ "detail" \in Touched(r) => Optimistic(c, r)["detail"] =
                 IF r.op = "delete" THEN New("detail") ELSE PatchedDetail(c["detail"], Focus, r.to)
           /\ "timeline" \in Touched(r) => \E t \in Timeline :
                 Optimistic(c, r)["timeline"] = Put(Cancel(c["timeline"]), t)
PROOF
<1> DEFINE o == Optimistic(c, r)
           l == Cancelled(c, "list")
           t == Cancelled(c, "timeline")
           old == c["list"].data
           moved == patchIssues(old, r.ids, r.to)
           cut == removeIssues(old, r.ids)
           M == [l EXCEPT !["list"] = Put(l["list"], moved)]
           C == [l EXCEPT !["list"] = Put(l["list"], cut)]
<1>1. /\ CacheOK(l) /\ l["list"] = Cancel(c["list"]) /\ l["list"].data = old
      /\ l["detail"] = c["detail"] /\ l["timeline"] = c["timeline"]
  <2>1. /\ CacheOK(l) /\ l["list"] = Cancel(c["list"]) /\ Cancel(c["list"]).data = old
        /\ \A j \in Keys \ {"list"} : l[j] = c[j]
    BY CancelledIsTyped, KeyNames
  <2> HIDE DEF l
  <2> QED
    BY <2>1, KeyNames
<1>2. /\ CacheOK(t) /\ t["timeline"] = Cancel(c["timeline"])
      /\ t["timeline"].data = c["timeline"].data
      /\ t["detail"] = c["detail"] /\ t["list"] = c["list"]
  <2>1. /\ CacheOK(t) /\ t["timeline"] = Cancel(c["timeline"])
        /\ Cancel(c["timeline"]).data = c["timeline"].data
        /\ \A j \in Keys \ {"timeline"} : t[j] = c[j]
    BY CancelledIsTyped, KeyNames
  <2> HIDE DEF t
  <2> QED
    BY <2>1, KeyNames
<1>3. HasData(l["list"])
  BY <1>1 DEF CacheOK
<1>4. ASSUME r.op \in {"create", "comment"}
      PROVE  o = c /\ Touched(r) = {}
  BY <1>4 DEF Optimistic, PatchList, PatchTimeline, Patch, Touched, OnIssues
<1>5. ASSUME r.op \in {"update", "batchUpdate"}
      PROVE  /\ o = IF r.op = "update" THEN PatchDetail(M, TheId(r), r.to) ELSE M
             /\ moved \in Homes
  <2>1. o = IF r.op = "update" THEN PatchDetail(M, TheId(r), r.to) ELSE M
    BY <1>1, <1>3, <1>5 DEF Optimistic, PatchList, PatchTimeline, Patch
  <2>2. r.ids \in SUBSET Issues /\ r.to \in Statuses /\ \A i \in r.ids : ~Young(i)
    BY <1>5, RequestKinds DEF OnIssues
  <2> QED
    BY <2>1, <2>2, ListIsHeld, PatchedAllIsHeld
<1>6. ASSUME r.op \in {"delete", "batchDelete"}
      PROVE  /\ o = IF r.op = "delete" /\ TheId(r) = Focus THEN Removed(C, {"detail"}) ELSE C
             /\ cut \in Homes
  <2>1. o = IF r.op = "delete" /\ TheId(r) = Focus THEN Removed(C, {"detail"}) ELSE C
    BY <1>1, <1>3, <1>6 DEF Optimistic, PatchList, PatchTimeline, Patch
  <2>2. r.ids \in SUBSET Issues
    BY <1>6, RequestKinds DEF OnIssues
  <2> QED
    BY <2>1, <2>2, ListIsHeld, RemovedAllIsHeld
<1>7. ASSUME r.op \in {"edit", "uncomment"}
      PROVE  \E v \in Timeline : o = [t EXCEPT !["timeline"] = Put(t["timeline"], v)]
  <2> DEFINE v == IF r.op = "edit" THEN EditComment(c["timeline"].data, TheId(r), "new")
                  ELSE without(c["timeline"].data, TheId(r))
  <2>1. TheId(r) \in Comments /\ HasData(c["timeline"])
    BY <1>7, RequestKinds
  <2>2. c["timeline"].data \in Timeline /\ "new" \in Texts
    BY <2>1, EntryIsTyped, KeyNames, HeldKinds DEF WellFormed, EntryOf, HasData, Texts
  <2>3. v \in Timeline
    BY <2>1, <2>2, TimelinesStayTimelines
  <2>4. HasData(t["timeline"])
    BY <1>2, <2>1 DEF HasData
  <2>5. o = [t EXCEPT !["timeline"] = Put(t["timeline"], v)]
    BY <1>2, <1>7, <2>4 DEF Optimistic, PatchList, PatchTimeline, Patch
  <2> HIDE DEF v
  <2> QED
    BY <2>3, <2>5
<1> HIDE DEF o, l, t, moved, cut
<1>8. ASSUME r.op \in {"update", "batchUpdate"}
      PROVE  /\ CacheOK(M) /\ M["list"] = Put(Cancel(c["list"]), moved)
             /\ M["detail"] = c["detail"] /\ M["timeline"] = c["timeline"]
  <2>1. moved \in Homes /\ CacheOK(l)
    BY <1>1, <1>5, <1>8
  <2>2. /\ CacheOK(M) /\ M["list"] = Put(l["list"], moved)
        /\ M["detail"] = l["detail"] /\ M["timeline"] = l["timeline"]
    BY <2>1, WriteListIsTyped
  <2> QED
    BY <1>1, <2>2
<1>9. ASSUME r.op \in {"delete", "batchDelete"}
      PROVE  /\ CacheOK(C) /\ C["list"] = Put(Cancel(c["list"]), cut)
             /\ C["detail"] = c["detail"] /\ C["timeline"] = c["timeline"]
  <2>1. cut \in Homes /\ CacheOK(l)
    BY <1>1, <1>6, <1>9
  <2>2. /\ CacheOK(C) /\ C["list"] = Put(l["list"], cut)
        /\ C["detail"] = l["detail"] /\ C["timeline"] = l["timeline"]
    BY <2>1, WriteListIsTyped
  <2> QED
    BY <1>1, <2>2
<1> HIDE DEF M, C
<1>10. CASE r.op \in {"create", "comment"}
  BY <1>4, <1>10 DEF Others, o
<1>11. CASE r.op = "update"
  <2>1. r.to \in Statuses /\ OnIssues(r)
    BY <1>11, RequestKinds DEF OnIssues
  <2>2. /\ CacheOK(o) /\ o["detail"] = PatchedDetail(c["detail"], TheId(r), r.to)
        /\ o["list"] = Put(Cancel(c["list"]), moved) /\ o["timeline"] = c["timeline"]
    BY <1>5, <1>8, <1>11, <2>1, PatchDetailIsTyped
  <2>3. Touched(r) = IF TheId(r) = Focus THEN {"list", "detail"} ELSE {"list"}
    BY <1>11, <2>1, KeyNames DEF Touched
  <2>4. TheId(r) # Focus => o["detail"] = c["detail"]
    BY <2>2 DEF PatchedDetail
  <2> QED
    BY <1>5, <1>11, <2>2, <2>3, <2>4, KeyNames DEF Others, o
<1>12. CASE r.op = "batchUpdate"
  <2>1. Touched(r) = {"list"}
    BY <1>12, KeyNames DEF Touched, OnIssues
  <2> QED
    BY <1>5, <1>8, <1>12, <2>1, KeyNames DEF Others, o
<1>13. CASE r.op \in {"delete", "batchDelete"}
  <2>1. Touched(r) = IF r.op = "delete" /\ TheId(r) = Focus THEN {"list", "detail"} ELSE {"list"}
    BY <1>13, KeyNames DEF Touched, OnIssues
  <2>2. /\ CacheOK(o) /\ o["list"] = Put(Cancel(c["list"]), cut) /\ o["timeline"] = c["timeline"]
        /\ o["detail"] = IF r.op = "delete" /\ TheId(r) = Focus THEN New("detail") ELSE c["detail"]
    <3>1. /\ CacheOK(Removed(C, {"detail"}))
          /\ \A k \in Keys : Removed(C, {"detail"})[k] = IF k \in {"detail"} THEN New(k) ELSE C[k]
      BY <1>9, <1>13, RemovedIsTyped
    <3> QED
      BY <1>6, <1>9, <1>13, <3>1, KeyNames
  <2> QED
    BY <1>6, <1>13, <2>1, <2>2, KeyNames DEF Others, o
<1>14. CASE r.op \in {"edit", "uncomment"}
  <2>1. PICK v \in Timeline : o = [t EXCEPT !["timeline"] = Put(t["timeline"], v)]
    BY <1>7, <1>14
  <2>2. v \in Held("timeline")
    BY HeldKinds
  <2>3. /\ CacheOK(o) /\ o["timeline"] = Put(Cancel(c["timeline"]), v)
        /\ \A j \in Keys \ {"timeline"} : o[j] = c[j]
    <3>1. /\ CacheOK(o) /\ o["timeline"] = Put(t["timeline"], v)
          /\ \A j \in Keys \ {"timeline"} : o[j] = t[j]
      <4> DEFINE d == [t EXCEPT !["timeline"] = Put(t["timeline"], v)]
      <4>1. /\ CacheOK(d) /\ d["timeline"] = Put(t["timeline"], v)
            /\ \A j \in Keys \ {"timeline"} : d[j] = t[j]
        BY <1>2, <2>2, KeyNames, WriteIsTyped
      <4> QED
        BY <2>1, <4>1
    <3> QED
      BY <1>2, <3>1, KeyNames
  <2>4. Touched(r) = {"timeline"}
    BY <1>14, KeyNames DEF Touched, OnIssues
  <2> QED
    BY <2>3, <2>4, KeyNames DEF Others, o
<1> QED
  BY <1>10, <1>11, <1>12, <1>13, <1>14, RequestKinds

-----------------------------------------------------------------------------
(* The server changes *)

\* The columns are read together, and no issue is changed as long as its
\* creation is being announced.
Calm == "torn" \notin Races /\ "reborn" \notin Races

\* evs announces what r did to the issues or comments T.
Announces(evs, r, T) ==
    /\ evs \in Seq(Events)
    /\ \A n \in DOMAIN evs : evs[n].type = EventType(r) /\ evs[n].id \in T /\ evs[n].to = r.to
    /\ \A x \in T : \E n \in DOMAIN evs : evs[n].id = x

LEMMA EventTypes ==
    ASSUME NEW r \in Requests \cup Batches
    PROVE  /\ OnIssues(r) => \A i \in Issues : [type |-> EventType(r), id |-> i, to |-> r.to] \in IssueEvents
           /\ ~OnIssues(r) => \A c \in Comments : [type |-> EventType(r), id |-> c, to |-> r.to] \in CommentEvents
           /\ EventType(r) = "issue:created" <=> r.op = "create"
           /\ EventType(r) = "issue:updated" <=> r.op \in {"update", "batchUpdate"}
           /\ EventType(r) = "issue:deleted" <=> r.op \in {"delete", "batchDelete"}
PROOF
<1> USE RequestKinds DEF EventType, IssueEvents, CommentEvents, OnIssues
<1>1. CASE r.op = "create"
  BY <1>1
<1>2. CASE r.op \in {"update", "batchUpdate"}
  BY <1>2
<1>3. CASE r.op \in {"delete", "batchDelete"}
  BY <1>3
<1>4. CASE r.op \in {"comment", "edit", "uncomment"}
  BY <1>4
<1> QED
  BY <1>1, <1>2, <1>3, <1>4

LEMMA TargetKinds ==
    ASSUME NEW r \in Requests \cup Batches
    PROVE  /\ Targets(server, r) \subseteq r.ids
           /\ r.op = "create" => \A i \in Targets(server, r) : server.issues[i] = "unborn"
           /\ OnIssues(r) /\ r.op # "create" =>
                 \A i \in r.ids : i \in Targets(server, r) <=> Exists(server, i)
           /\ ~OnIssues(r) => Exists(server, Focus) \/ Targets(server, r) = {}
PROOF
<1>1. CASE r.op = "create"
  BY <1>1 DEF Targets, OnIssues
<1>2. CASE OnIssues(r) /\ r.op # "create"
  BY <1>2 DEF Targets, OnIssues
<1>3. CASE r.op = "comment"
  BY <1>3 DEF Targets, OnIssues
<1>4. CASE r.op \in {"edit", "uncomment"}
  BY <1>4 DEF Targets, OnIssues
<1> QED
  BY <1>1, <1>2, <1>3, <1>4, RequestKinds

LEMMA AnnounceIsTyped ==
    ASSUME NEW r \in Requests \cup Batches, NEW evs \in Announce(server, r)
    PROVE  Announces(evs, r, Targets(server, r))
PROOF
<1> DEFINE T == Targets(server, r)
<1>1. PICK f \in Orders(T) : evs = [n \in DOMAIN f |-> [type |-> EventType(r), id |-> f[n], to |-> r.to]]
  BY DEF Announce
<1>2. T \in SUBSET Issues \/ T \in SUBSET Comments
  BY TargetKinds, RequestKinds
<1>3. Cardinality(T) \in Nat
  BY <1>2, NamesAreDistinct, FS_Subset, FS_CardinalityType
<1>4. f \in [1 .. Cardinality(T) -> T] /\ \A x \in T : \E n \in DOMAIN f : f[n] = x
  BY DEF Orders
<1>5. \A x \in T : [type |-> EventType(r), id |-> x, to |-> r.to] \in Events
  BY TargetKinds, RequestKinds, EventTypes DEF Events
<1> HIDE DEF T
<1>6. evs \in Seq(Events)
  BY <1>1, <1>3, <1>4, <1>5
<1> QED
  BY <1>1, <1>4, <1>6 DEF Announces, T

\* What a request does to the server, and what is sent.
Commits(r) ==
    /\ server' \in ServerType /\ Targets(server, r) # {}
    /\ conn = "acked" => "unjoined" \in Races
    /\ OnIssues(r) =>
          /\ server'.comments = server.comments
          /\ \A i \in Issues : server'.issues[i] =
                IF i \notin Targets(server, r) THEN server.issues[i]
                ELSE IF r.to = None THEN "deleted" ELSE r.to
          /\ r.op # "create" => \A i \in Targets(server, r) : Exists(server, i) /\ ~Creating(i)
    /\ ~OnIssues(r) => server'.issues = server.issues
    /\ IF conn = "up"
       THEN \E evs : Announces(evs, r, Targets(server, r)) /\ wire' = wire \o evs
       ELSE wire' = wire

LEMMA CommitIs ==
    ASSUME Typed, Calm, NEW r \in Requests \cup Batches, Commit(r)
    PROVE  Commits(r)
PROOF
<1> DEFINE T == Targets(server, r)
           dead == IF r.op = "uncomment" THEN UNION {WithReplies(server.comments, c) : c \in T} ELSE {}
<1>1. /\ server' = Serve(server, r) /\ server \in ServerType
      /\ Announced(r)
  BY DEF Commit, Typed, ServerOK
<1>2. server' = [issues |-> [i \in Issues |->
            IF i \notin T THEN server.issues[i] ELSE IF r.to = None THEN "deleted" ELSE r.to],
         comments |-> [c \in Comments |->
            IF c \in dead THEN "deleted"
            ELSE IF c \notin T THEN server.comments[c]
            ELSE IF r.op = "comment" THEN "old" ELSE "new"]]
  BY <1>1 DEF Serve
<1>3. r.to \in Statuses \/ r.to = None
  BY RequestKinds
<1> HIDE DEF dead
<1>4. server' \in ServerType
  <2>1. [i \in Issues |-> IF i \notin T THEN server.issues[i] ELSE IF r.to = None THEN "deleted" ELSE r.to]
          \in [Issues -> Statuses \cup {"unborn", "deleted"}]
    BY <1>1, <1>3 DEF ServerType
  <2>2. [c \in Comments |-> IF c \in dead THEN "deleted" ELSE IF c \notin T THEN server.comments[c]
            ELSE IF r.op = "comment" THEN "old" ELSE "new"] \in [Comments -> Texts \cup {"deleted"}]
    BY <1>1 DEF ServerType, Texts
  <2> QED
    BY <1>2, <2>1, <2>2 DEF ServerType
<1>5. ASSUME OnIssues(r)
      PROVE  /\ server'.comments = server.comments
             /\ \A i \in Issues : server'.issues[i] =
                  IF i \notin T THEN server.issues[i] ELSE IF r.to = None THEN "deleted" ELSE r.to
             /\ r.op # "create" => \A i \in T : Exists(server, i) /\ ~Creating(i)
  <2>1. T \subseteq Issues /\ T \subseteq r.ids
    BY <1>5, TargetKinds, RequestKinds
  <2>2. \A c \in Comments : c \notin dead /\ c \notin T
    BY <1>5, <2>1, RequestKinds, NamesAreDistinct DEF dead
  <2>3. server'.comments = server.comments
    BY <1>1, <1>2, <2>2 DEF ServerType
  <2>4. r.op # "create" => \A i \in T : Exists(server, i) /\ ~Creating(i)
    BY <1>1, <1>5, <2>1, TargetKinds, RequestKinds DEF Announced, Calm, OnIssues
  <2> QED
    BY <1>2, <2>3, <2>4
<1>6. ASSUME ~OnIssues(r)
      PROVE  server'.issues = server.issues
  <2>1. \A i \in Issues : i \notin T
    BY <1>6, TargetKinds, RequestKinds, NamesAreDistinct
  <2> QED
    BY <1>1, <1>2, <2>1 DEF ServerType
<1>7. IF conn = "up" THEN \E evs : Announces(evs, r, T) /\ wire' = wire \o evs ELSE wire' = wire
  BY AnnounceIsTyped DEF Commit
<1>8. T # {} /\ (conn = "acked" => "unjoined" \in Races)
  BY DEF Commit
<1> QED
  BY <1>4, <1>5, <1>6, <1>7, <1>8 DEF Commits

\* The requests in flight are the same.
SameRequests ==
    \A m \in Slots : (muts'[m] # None <=> InFlight(m)) /\ (InFlight(m) => muts'[m].req = muts[m].req)

\* An event of the longer wire is one that was there, or one of evs.
LEMMA LongerWire ==
    ASSUME wire \in Seq(Events), NEW evs \in Seq(Events), wire' = wire \o evs
    PROVE  /\ wire' \in Seq(Events) /\ Len(wire') = Len(wire) + Len(evs)
           /\ Len(wire) \in Nat /\ Len(evs) \in Nat
           /\ DOMAIN wire = 1 .. Len(wire) /\ DOMAIN evs = 1 .. Len(evs)
           /\ DOMAIN wire' = 1 .. Len(wire) + Len(evs)
           /\ \A n \in DOMAIN wire : wire'[n] = wire[n]
           /\ \A n \in DOMAIN evs : Len(wire) + n \in DOMAIN wire' /\ wire'[Len(wire) + n] = evs[n]
           /\ \A n \in DOMAIN wire' :
                 n \in DOMAIN wire \/ (n - Len(wire) \in DOMAIN evs /\ wire'[n] = evs[n - Len(wire)])
PROOF
<1>1. /\ wire' \in Seq(Events) /\ Len(wire') = Len(wire) + Len(evs)
      /\ Len(wire) \in Nat /\ Len(evs) \in Nat
      /\ DOMAIN wire = 1 .. Len(wire) /\ DOMAIN evs = 1 .. Len(evs)
      /\ DOMAIN wire' = 1 .. Len(wire) + Len(evs)
  OBVIOUS
<1>2. \A n \in 1 .. Len(wire) + Len(evs) :
          wire'[n] = IF n <= Len(wire) THEN wire[n] ELSE evs[n - Len(wire)]
  OBVIOUS
<1> QED
  BY <1>1, <1>2

LEMMA CommitEvolves ==
    ASSUME Typed, NEW r \in Requests \cup Batches, Commits(r), SameRequests
    PROVE  Evolves
PROOF
<1> DEFINE T == Targets(server, r)
<1>1. server \in ServerType /\ server' \in ServerType /\ server.issues[Focus] # "unborn"
  BY DEF Typed, ServerOK, Commits
<1>2. ASSUME NEW i \in Issues, server'.issues[i] # server.issues[i]
      PROVE  /\ server.issues[i] = "unborn" \/ (Exists(server, i) /\ ~Creating(i))
             /\ server'.issues[i] # "unborn"
  <2>1. OnIssues(r) /\ i \in T
    BY <1>2 DEF Commits
  <2>2. server'.issues[i] \in Statuses \cup {"deleted"}
    BY <2>1, RequestKinds DEF Commits
  <2>3. server.issues[i] = "unborn" \/ (Exists(server, i) /\ ~Creating(i))
    BY <2>1, TargetKinds DEF Commits
  <2> QED
    BY <2>2, <2>3, StatusesAreNamed
<1>3. ASSUME NEW i \in Issues, Creating(i)'
      PROVE  Young(i)
  <2>1. CASE \E m \in Slots : (muts[m] # None /\ muts[m].req.op = "create" /\ i \in muts[m].req.ids)'
    BY <2>1 DEF SameRequests, InFlight, Young, Creating
  <2>2. ASSUME NEW n \in DOMAIN wire', wire'[n].type = "issue:created", wire'[n].id = i
        PROVE  Young(i)
    <3>1. CASE n \in DOMAIN wire /\ wire'[n] = wire[n]
      BY <2>2, <3>1 DEF Young, Creating
    <3>2. ASSUME NEW evs, Announces(evs, r, T), NEW x \in DOMAIN evs, wire'[n] = evs[x]
          PROVE  Young(i)
      <4>1. EventType(r) = "issue:created" /\ i \in T
        BY <2>2, <3>2 DEF Announces
      <4> QED
        BY <4>1, EventTypes, TargetKinds DEF Young
    <3>3. CASE conn # "up"
      BY <2>2, <3>1, <3>3 DEF Commits
    <3>4. CASE conn = "up"
      <4>1. PICK evs : Announces(evs, r, T) /\ wire' = wire \o evs
        BY <3>4 DEF Commits
      <4>2. evs \in Seq(Events) /\ wire \in Seq(Events)
        BY <4>1 DEF Announces, Typed, WireOK
      <4> QED
        BY <2>2, <3>1, <3>2, <4>1, <4>2, LongerWire
    <3> QED
      BY <3>3, <3>4
  <2> QED
    BY <1>3, <2>1, <2>2 DEF Creating
<1>4. server'.issues[Focus] # "unborn"
  BY <1>1, <1>2, FocusIsAnIssue
<1> QED
  BY <1>1, <1>2, <1>3, <1>4 DEF Evolves, ServerOK

-----------------------------------------------------------------------------
(* Steps that leave the server and the mutations alone *)

\* Every event of the wire was there before.
Shorter ==
    /\ wire' \in Seq(Events)
    /\ \A n \in DOMAIN wire' : \E m \in DOMAIN wire : wire'[n] = wire[m]

LEMMA WiresShorten ==
    ASSUME Typed, wire' = wire \/ wire' = <<>> \/ (wire # <<>> /\ wire' = Tail(wire))
    PROVE  Shorter
PROOF
<1>1. wire \in Seq(Events)
  BY DEF Typed, WireOK
<1>2. CASE wire # <<>> /\ wire' = Tail(wire)
  <2>1. /\ Len(wire) \in Nat \ {0} /\ DOMAIN wire = 1 .. Len(wire)
        /\ wire' \in Seq(Events) /\ Len(wire') = Len(wire) - 1 /\ DOMAIN wire' = 1 .. Len(wire')
        /\ \A n \in 1 .. Len(wire) - 1 : wire'[n] = wire[n + 1]
    BY <1>1, <1>2
  <2>2. \A n \in DOMAIN wire' : n + 1 \in DOMAIN wire /\ wire'[n] = wire[n + 1]
    BY <2>1
  <2> QED
    BY <2>1, <2>2 DEF Shorter
<1>3. CASE wire' = <<>>
  BY <1>3 DEF Shorter
<1>4. CASE wire' = wire
  BY <1>1, <1>4 DEF Shorter
<1> QED
  BY <1>2, <1>3, <1>4

LEMMA EventsRemain ==
    ASSUME Typed, Evolves, Shorter, conn' = "up" \/ wire' = <<>>
    PROVE  WireOK'
PROOF
<1>1. \A n \in DOMAIN wire' : EventOK(wire[n])'
  <2> SUFFICES ASSUME NEW n \in DOMAIN wire'
               PROVE  EventOK(wire[n])'
    OBVIOUS
  <2>1. PICK m \in DOMAIN wire : wire'[n] = wire[m]
    BY DEF Shorter
  <2>2. \A e : e = wire[m] => EventOK(e)'
    BY EventsGrow
  <2> QED
    BY <2>1, <2>2
<1> QED
  BY <1>1 DEF WireOK, Shorter

LEMMA MutationsRemain ==
    ASSUME Typed, Evolves, UNCHANGED muts
    PROVE  MutsOK'
PROOF
<1>1. ASSUME NEW m \in Slots, InFlight(m)
      PROVE  MutOK(muts[m])'
  <2>1. MutOK(muts[m])
    BY <1>1 DEF Typed, MutsOK
  <2>2. muts[m].req.op = "create" => \A i \in muts[m].req.ids : Creating(i)
    BY <1>1 DEF InFlight, Creating
  <2>3. \A v : v = muts[m] => MutOK(v)'
    BY <2>1, <2>2, MutationGrows
  <2> QED
    BY <2>3
<1> QED
  BY <1>1 DEF Typed, MutsOK, InFlight

LEMMA QuietStep ==
    ASSUME Typed, UNCHANGED <<server, muts>>, Shorter, conn' = "up" \/ wire' = <<>>,
           CacheOK(cache'), page' \in Pages, conn' \in {"down", "acked", "up"},
           changes' \in 0 .. MaxChanges, drops' \in 0 .. MaxDrops
    PROVE  Evolves /\ Typed'
PROOF
<1>1. \A i \in Issues : Creating(i)' => Young(i)
  BY DEF Shorter, Creating, Young
<1>2. Evolves
  BY <1>1, SameServerEvolves
<1>3. MutsOK' /\ WireOK' /\ CacheOK(cache)'
  BY <1>2, MutationsRemain, EventsRemain, CacheGrows
<1> QED
  BY <1>2, <1>3 DEF Typed, Evolves

LEMMA DropIsTyped ==
    ASSUME Typed, Drop
    PROVE  Evolves /\ Typed'
PROOF
<1>1. /\ UNCHANGED <<server, cache, page, muts, changes>>
      /\ conn' = "down" /\ wire' = <<>> /\ drops' \in 0 .. MaxDrops
  BY BoundsAreNaturals DEF Drop, Typed
<1>2. CacheOK(cache') /\ Shorter /\ changes \in 0 .. MaxChanges /\ page \in Pages
  BY <1>1, WiresShorten DEF Typed
<1> QED
  BY <1>1, <1>2, QuietStep

LEMMA SamePlace ==
    ASSUME Typed, UNCHANGED <<server, muts, wire, changes, drops>>, CacheOK(cache'),
           page' \in Pages, conn' \in {"down", "acked", "up"}, conn' = conn \/ wire = <<>>
    PROVE  Evolves /\ Typed'
PROOF
<1>1. Shorter /\ (conn' = "up" \/ wire' = <<>>)
  BY WiresShorten DEF Typed, WireOK
<1>2. changes' \in 0 .. MaxChanges /\ drops' \in 0 .. MaxDrops
  BY DEF Typed
<1> QED
  BY <1>1, <1>2, QuietStep

LEMMA ReconnectIsTyped ==
    ASSUME Typed, Reconnect
    PROVE  Evolves /\ Typed'
PROOF
<1>1. CacheOK(cache') /\ UNCHANGED <<server, page, wire, muts, changes, drops>> /\ conn' = "acked"
  BY InvalidatedIsTyped DEF Reconnect, Typed
<1>2. wire = <<>> /\ page \in Pages
  BY DEF Reconnect, Typed, WireOK
<1> QED
  BY <1>1, <1>2, SamePlace

LEMMA JoinIsTyped ==
    ASSUME Typed, Join
    PROVE  Evolves /\ Typed'
PROOF
<1>1. CacheOK(cache') /\ UNCHANGED <<server, page, wire, muts, changes, drops>> /\ conn' = "up"
  BY DEF Join, Typed
<1>2. wire = <<>> /\ page \in Pages
  BY DEF Join, Typed, WireOK
<1> QED
  BY <1>1, <1>2, SamePlace

-----------------------------------------------------------------------------
(* Fetches and pages *)

\* What the server answers may be held.
LEMMA ViewIsHeld ==
    ASSUME ServerOK, NEW k \in Keys
    PROVE  View(server, k) \in Held(k)
PROOF
<1>1. CASE k = "list"
  <2> DEFINE l == [s \in Statuses |-> ColumnOf(server, s)]
  <2>1. l \in Lists
    BY DEF Lists, Column, ColumnOf
  <2>2. \A s \in Statuses : \A i \in Issues : l[s][i] = IF server.issues[i] = s THEN 1 ELSE 0
    BY DEF ColumnOf
  <2> HIDE DEF l
  <2>3. \A i \in Issues : Holding(l, i) = {server.issues[i]} \cap Statuses
    BY <2>2 DEF Holding
  <2>4. \A i \in Issues : Once(l, i)
    BY <2>2, <2>3 DEF Once
  <2>5. l \in Homes
    BY <2>1, <2>3, <2>4 DEF Homes
  <2> QED
    BY <1>1, <2>5, HeldKinds DEF View, l
<1>2. CASE k = "detail"
  BY <1>2, HeldKinds DEF View, Exists
<1>3. CASE k = "timeline"
  <2>1. [c \in Comments |-> IF server.comments[c] \in Texts THEN server.comments[c] ELSE "none"] \in [Comments -> Texts]
    BY DEF Texts
  <2> QED
    BY <1>3, <2>1, HeldKinds DEF View, Timeline
<1> QED
  BY <1>1, <1>2, <1>3, KeyNames

LEMMA ServerReadsIsTyped ==
    ASSUME Typed, NEW k \in Keys, ServerReads(k)
    PROVE  Evolves /\ Typed'
PROOF
<1> DEFINE q == Read(cache[k], View(server, k))
<1>1. WellFormed(q, Held(k)) /\ (k = "list" => HasData(q))
  <2>1. CacheOK(cache) /\ Fetching(cache[k]) /\ View(server, k) \in Held(k) /\ k # "list"
    BY ViewIsHeld DEF Typed, ServerReads, Fetching
  <2> HIDE DEF Fetching
  <2>2. \A v \in Held(k) : WellFormed(Read(cache[k], v), Held(k))
    BY <2>1, EntryIsTyped, AnswersAreWellFormed
  <2> QED
    BY <2>1, <2>2
<1>2. cache' = [cache EXCEPT ![k] = q]
  BY DEF ServerReads
<1> HIDE DEF q
<1>3. CacheOK([cache EXCEPT ![k] = q])
  BY <1>1, OneEntry DEF Typed
<1>4. UNCHANGED <<server, page, conn, wire, muts, changes, drops>> /\ page \in Pages
      /\ conn \in {"down", "acked", "up"}
  BY DEF ServerReads, Typed
<1> QED
  BY <1>2, <1>3, <1>4, SamePlace

\* All columns are read at once.
LEMMA ServerReadsColumnsIs ==
    ASSUME Typed, Calm, NEW S \in SUBSET Statuses, ServerReadsColumns(S)
    PROVE  /\ cache["list"].fetch = "asked"
           /\ cache' = [cache EXCEPT !["list"] = Read(cache["list"], View(server, "list"))]
           /\ UNCHANGED <<server, page, conn, wire, muts, changes, drops>>
PROOF
<1> DEFINE q == cache["list"]
<1>1. q.fetch = "asked" /\ S = Statuses
  BY DEF ServerReadsColumns, Calm
<1>2. q.snap = None
  BY <1>1, EntryIsTyped, KeyNames DEF Typed, WellFormed
<1>3. [s \in {} \cup S |-> IF s \in S THEN ColumnOf(server, s) ELSE q.snap[s]] = View(server, "list")
  BY <1>1 DEF View
<1>4. DOMAIN View(server, "list") = Statuses
  BY DEF View
<1>5. cache' = [cache EXCEPT !["list"] = Read(cache["list"], View(server, "list"))]
  BY <1>2, <1>3, <1>4 DEF ServerReadsColumns
<1> QED
  BY <1>1, <1>5 DEF ServerReadsColumns

LEMMA ServerReadsColumnsIsTyped ==
    ASSUME Typed, Calm, NEW S \in SUBSET Statuses, ServerReadsColumns(S)
    PROVE  Evolves /\ Typed'
PROOF
<1> DEFINE q == Read(cache["list"], View(server, "list"))
<1>1. WellFormed(q, Held("list")) /\ HasData(q)
  <2>1. /\ CacheOK(cache) /\ Fetching(cache["list"]) /\ HasData(cache["list"])
        /\ View(server, "list") \in Held("list")
    BY ViewIsHeld, KeyNames, ServerReadsColumnsIs DEF Typed, Fetching, CacheOK
  <2> HIDE DEF Fetching
  <2>2. WellFormed(Read(cache["list"], View(server, "list")), Held("list"))
    BY <2>1, EntryIsTyped, AnswersAreWellFormed, KeyNames
  <2>3. cache["list"] \in EntryOf(Held("list"))
    BY <2>1, EntryIsTyped, KeyNames DEF WellFormed
  <2> QED
    BY <2>1, <2>2, <2>3 DEF Read, HasData, EntryOf
<1>2. cache' = [cache EXCEPT !["list"] = q]
  BY ServerReadsColumnsIs
<1> HIDE DEF q
<1>3. CacheOK([cache EXCEPT !["list"] = q])
  BY <1>1, OneEntry, KeyNames DEF Typed
<1>4. UNCHANGED <<server, page, conn, wire, muts, changes, drops>> /\ page \in Pages
      /\ conn \in {"down", "acked", "up"}
  BY ServerReadsColumnsIs DEF Typed
<1> QED
  BY <1>2, <1>3, <1>4, SamePlace

LEMMA AnswerIsTyped ==
    ASSUME Typed, NEW k \in Keys, Arrive(k) \/ Lose(k)
    PROVE  Evolves /\ Typed'
PROOF
<1>1. PICK q : /\ q \in {Answer(cache[k]), Retry(cache[k])}
               /\ cache' = [cache EXCEPT ![k] = q]
  BY DEF Arrive, Lose
<1>2. WellFormed(cache[k], Held(k)) /\ Apart(Held(k)) /\ cache[k].fetch = "read" /\ Fetching(cache[k])
      /\ (k = "list" => HasData(cache[k]))
  BY EntryIsTyped DEF Typed, Arrive, Lose, Fetching, CacheOK
<1>3. WellFormed(q, Held(k))
  <2>1. cache[k].snap \in Held(k)
    BY <1>2 DEF WellFormed, EntryOf
  <2> QED
    BY <1>1, <1>2, <2>1, AnswersAreWellFormed
<1>4. k = "list" => HasData(q)
  BY <1>1, <1>2 DEF HasData, Answer, Retry, Idle, WellFormed, EntryOf
<1>5. CacheOK([cache EXCEPT ![k] = q])
  BY <1>3, <1>4, OneEntry DEF Typed
<1>6. UNCHANGED <<server, page, conn, wire, muts, changes, drops>> /\ page \in Pages
      /\ conn \in {"down", "acked", "up"}
  BY DEF Arrive, Lose, Typed
<1> QED
  BY <1>1, <1>5, <1>6, SamePlace

\* What Go does to the cache.
Goes(p) ==
    /\ cache' = [k \in Keys |-> cache'[k]]
    /\ \A k \in Keys :
          \/ cache'[k] = IF k \in MountedOn(p) THEN Mounts(cache[k]) ELSE cache[k]
          \/ /\ k = "detail" /\ p = "issue" /\ ~HasData(cache[k]) /\ ~Fetching(cache[k])
             /\ "seeded" \in Races \/ (~Fetching(cache["list"]) /\ \A m \in Slots : ~InFlight(m))
             /\ Holding(cache["list"].data, Focus) # {}
             /\ cache'[k] = Entry(Location(cache["list"].data, Focus))

LEMMA GoIs ==
    ASSUME Typed, NEW p \in Pages, Go(p)
    PROVE  /\ Goes(p) /\ UNCHANGED <<server, conn, wire, muts, changes, drops>> /\ page' = p
PROOF
<1> DEFINE shown == [k \in Keys |-> IF k \in MountedOn(p) THEN Mounts(cache[k]) ELSE cache[k]]
           seed == Location(cache["list"].data, Focus)
<1>1. UNCHANGED <<server, conn, wire, muts, changes, drops>> /\ page' = p
  BY DEF Go
<1>2. CASE cache' = shown
  BY <1>1, <1>2 DEF Goes
<1>3. CASE cache' # shown
  <2>1. /\ p = "issue" /\ ~HasData(cache["detail"]) /\ ~Fetching(cache["detail"])
        /\ "seeded" \in Races \/ (~Fetching(cache["list"]) /\ \A m \in Slots : muts[m] = None)
        /\ cache' = [shown EXCEPT !["detail"] = Entry(seed)]
        /\ HasData(cache["list"]) /\ Holding(cache["list"].data, Focus) # {}
    BY <1>3 DEF Go, Typed, CacheOK
  <2>2. cache'["detail"] = Entry(seed) /\ cache' = [k \in Keys |-> cache'[k]]
        /\ \A k \in Keys \ {"detail"} : cache'[k] = IF k \in MountedOn(p) THEN Mounts(cache[k]) ELSE cache[k]
    BY <2>1, KeyNames
  <2> HIDE DEF shown, seed
  <2> QED
    BY <1>1, <2>1, <2>2 DEF Goes, InFlight, seed
<1> QED
  BY <1>1, <1>2, <1>3

LEMMA GoIsTyped ==
    ASSUME Typed, NEW p \in Pages, Go(p)
    PROVE  Evolves /\ Typed'
PROOF
<1>1. Goes(p) /\ UNCHANGED <<server, conn, wire, muts, changes, drops>> /\ page' = p
  BY GoIs
<1>2. ASSUME NEW k \in Keys
      PROVE  WellFormed(cache'[k], Held(k)) /\ (k = "list" => HasData(cache'[k]))
  <2>1. WellFormed(cache[k], Held(k)) /\ Apart(Held(k)) /\ (k = "list" => HasData(cache[k]))
    BY EntryIsTyped DEF Typed, CacheOK
  <2>2. WellFormed(Mounts(cache[k]), Held(k)) /\ Mounts(cache[k]).data = cache[k].data
    BY <2>1, MountsIsWellFormed
  <2>3. ASSUME k = "detail", Holding(cache["list"].data, Focus) # {}
        PROVE  WellFormed(Entry(Location(cache["list"].data, Focus)), Held(k))
    <3>1. Location(cache["list"].data, Focus) \in Held(k)
      BY <2>3, LocationHolds, HeldKinds DEF Holding
    <3> HIDE DEF Location
    <3> QED
      BY <2>1, <3>1, NewEntry
  <2> QED
    BY <1>1, <2>1, <2>2, <2>3 DEF Goes, HasData
<1>3. CacheOK(cache')
  BY <1>1, <1>2, KeyNames DEF CacheOK, Goes
<1>4. conn \in {"down", "acked", "up"}
  BY DEF Typed
<1> QED
  BY <1>1, <1>3, <1>4, SamePlace

-----------------------------------------------------------------------------
(* Steps that change the server *)

\* What a request announces is so.
LEMMA NewEventsAreOK ==
    ASSUME Typed, NEW r \in Requests \cup Batches, Commits(r), SameRequests,
           NEW evs, Announces(evs, r, Targets(server, r)), wire' = wire \o evs,
           NEW n \in DOMAIN evs
    PROVE  EventOK(evs[n])'
PROOF
<1> DEFINE e == evs[n]
           i == e.id
<1>1. i \in Targets(server, r) /\ e.type = EventType(r) /\ e.to = r.to
  BY DEF Announces
<1>2. Evolves
  BY CommitEvolves
<1>3. ASSUME e.type = "issue:created"
      PROVE  server'.issues[i] = e.to /\ i # Focus
  <2>1. r.op = "create" /\ OnIssues(r) /\ i \in Issues /\ server.issues[i] = "unborn"
    BY <1>1, <1>3, EventTypes, TargetKinds, RequestKinds DEF OnIssues
  <2>2. r.to # None
    BY <2>1, RequestKinds, StatusesAreNamed
  <2> QED
    BY <1>1, <2>1, <2>2 DEF Commits, Typed, ServerOK
<1>4. ASSUME e.type \in {"issue:updated", "issue:deleted"}
      PROVE  ~Young(i)'
  <2>1. OnIssues(r) /\ r.op # "create" /\ i \in Issues
    BY <1>1, <1>4, EventTypes, TargetKinds, RequestKinds DEF OnIssues
  <2>2. server.issues[i] # "unborn" /\ ~Creating(i)
    BY <1>1, <2>1, StatusesAreNamed DEF Commits, Exists
  <2> QED
    BY <1>2, <2>1, <2>2, YouthPasses DEF Young
<1> QED
  BY <1>3, <1>4 DEF EventOK

LEMMA CommittedWire ==
    ASSUME Typed, NEW r \in Requests \cup Batches, Commits(r), SameRequests, UNCHANGED conn
    PROVE  WireOK'
PROOF
<1>1. Evolves /\ wire \in Seq(Events) /\ (conn = "up" \/ wire = <<>>)
  BY CommitEvolves DEF Typed, WireOK
<1>2. CASE conn # "up"
  <2>1. wire' = wire
    BY <1>2 DEF Commits
  <2> QED
    BY <1>1, <1>2, <2>1, WiresShorten, EventsRemain
<1>3. CASE conn = "up"
  <2>1. PICK evs : Announces(evs, r, Targets(server, r)) /\ wire' = wire \o evs
    BY <1>3 DEF Commits
  <2>2. evs \in Seq(Events)
    BY <2>1 DEF Announces
  <2>3. \A n \in DOMAIN evs : EventOK(evs[n])'
    BY <2>1, NewEventsAreOK
  <2>4. \A n \in DOMAIN wire : \A e : e = wire[n] => EventOK(e)'
    BY <1>1, EventsGrow
  <2>5. \A n \in DOMAIN wire' : EventOK(wire[n])'
    <3> SUFFICES ASSUME NEW n \in DOMAIN wire'
                 PROVE  EventOK(wire[n])'
      OBVIOUS
    <3>1. n \in DOMAIN wire \/ (n - Len(wire) \in DOMAIN evs /\ wire'[n] = evs[n - Len(wire)])
      BY <1>1, <2>1, <2>2, LongerWire
    <3>2. CASE n \in DOMAIN wire
      <4>1. wire'[n] = wire[n]
        BY <1>1, <2>1, <2>2, <3>2, LongerWire
      <4> QED
        BY <2>4, <3>2, <4>1
    <3>3. CASE n - Len(wire) \in DOMAIN evs /\ wire'[n] = evs[n - Len(wire)]
      BY <2>3, <3>3
    <3> QED
      BY <3>1, <3>2, <3>3
  <2>6. wire' \in Seq(Events)
    BY <1>1, <2>1, <2>2, LongerWire
  <2> QED
    BY <1>3, <2>5, <2>6 DEF WireOK
<1> QED
  BY <1>2, <1>3

LEMMA OthersChangeIsTyped ==
    ASSUME Typed, Calm, NEW r \in Requests, Commit(r), changes < MaxChanges, changes' = changes + 1,
           UNCHANGED <<cache, page, conn, muts, drops>>
    PROVE  Evolves /\ Typed' /\ Commits(r) /\ SameRequests
PROOF
<1>1. Commits(r)
  BY CommitIs
<1>2. SameRequests
  BY DEF SameRequests, InFlight
<1>3. Evolves
  BY <1>1, <1>2, CommitEvolves
<1>4. WireOK' /\ MutsOK' /\ CacheOK(cache)'
  BY <1>1, <1>2, <1>3, CommittedWire, MutationsRemain, CacheGrows DEF Typed
<1>5. changes' \in 0 .. MaxChanges
  BY BoundsAreNaturals DEF Typed
<1> QED
  BY <1>1, <1>2, <1>3, <1>4, <1>5 DEF Typed, Evolves

\* A request of this client is done, or there is nothing to do.
Handles(m) ==
    LET r == muts[m].req IN
    /\ UNCHANGED <<cache, page, conn, changes, drops>>
    /\ InFlight(m)
    /\ \/ Commits(r) /\ muts' = [muts EXCEPT ![m].phase = "done"]
       \/ muts' = [muts EXCEPT ![m].phase = "refused"] /\ UNCHANGED <<server, wire>>

LEMMA HandleIs ==
    ASSUME Typed, Calm, NEW m \in Slots, Handle(m)
    PROVE  Handles(m) /\ SameRequests
PROOF
<1>1. InFlight(m) /\ muts[m].req \in Requests \cup Batches /\ muts[m] \in Mutation
  BY MutationIsTyped DEF Handle, InFlight
<1>2. Handles(m)
  <2>1. Commit(muts[m].req) => Commits(muts[m].req)
    BY <1>1, CommitIs
  <2> QED
    BY <1>1, <2>1 DEF Handle, Handles
<1>3. \A x \in {"done", "refused"} :
         muts' = [muts EXCEPT ![m].phase = x] => SameRequests
  <2> SUFFICES ASSUME NEW x \in {"done", "refused"}, muts' = [muts EXCEPT ![m].phase = x],
                      NEW k \in Slots
               PROVE  (muts'[k] # None <=> InFlight(k)) /\ (InFlight(k) => muts'[k].req = muts[k].req)
    BY DEF SameRequests
  <2>1. [muts[m] EXCEPT !.phase = x] \in Mutation /\ [muts[m] EXCEPT !.phase = x].req = muts[m].req
    BY <1>1 DEF Mutation
  <2>2. muts'[k] = IF k = m THEN [muts[m] EXCEPT !.phase = x] ELSE muts[k]
    BY DEF Typed, MutsOK
  <2> QED
    BY <1>1, <2>1, <2>2, NoneIsNothing DEF InFlight
<1> QED
  BY <1>2, <1>3 DEF Handles

LEMMA HandleIsTyped ==
    ASSUME Typed, Calm, NEW m \in Slots, Handle(m)
    PROVE  Evolves /\ Typed'
PROOF
<1> DEFINE r == muts[m].req
<1>1. Handles(m) /\ SameRequests
  BY HandleIs
<1>2. MutOK(muts[m]) /\ muts[m] \in Mutation /\ r \in Requests \cup Batches /\ InFlight(m)
  BY <1>1, MutationIsTyped DEF Handles
<1>3. Evolves
  <2>1. CASE Commits(r)
    BY <1>1, <1>2, <2>1, CommitEvolves
  <2>2. CASE UNCHANGED <<server, wire>>
    <3>1. \A i \in Issues : Creating(i)' => Young(i)
      BY <1>1, <2>2 DEF SameRequests, InFlight, Creating, Young
    <3> QED
      BY <2>2, <3>1, SameServerEvolves
  <2> QED
    BY <1>1, <2>1, <2>2 DEF Handles
<1>4. WireOK'
  <2>1. CASE Commits(r)
    BY <1>1, <1>2, <2>1, CommittedWire DEF Handles
  <2>2. CASE UNCHANGED <<server, wire>>
    <3>1. Shorter /\ (conn' = "up" \/ wire' = <<>>)
      BY <1>1, <2>2, WiresShorten DEF Handles, Typed, WireOK
    <3> QED
      BY <1>3, <3>1, EventsRemain
  <2> QED
    BY <1>1, <2>1, <2>2 DEF Handles
<1>5. MutsOK'
  <2>1. \A k \in Slots : InFlight(k) => \A v : v = muts[k] => MutOK(v)'
    <3> SUFFICES ASSUME NEW k \in Slots, InFlight(k)
                 PROVE  \A v : v = muts[k] => MutOK(v)'
      OBVIOUS
    <3>1. MutOK(muts[k]) /\ (muts[k].req.op = "create" => \A i \in muts[k].req.ids : Creating(i))
      BY DEF Typed, MutsOK, InFlight, Creating
    <3> QED
      BY <1>3, <3>1, MutationGrows
  <2>2. \A v : v = muts[m] => MutOK(v)'
    BY <1>2, <2>1
  <2>3. PICK x \in {"done", "refused"} :
          /\ muts' = [muts EXCEPT ![m] = [muts[m] EXCEPT !.phase = x]]
          /\ x = "done" => Commits(r)
    BY <1>1 DEF Handles
  <2> DEFINE u == [muts[m] EXCEPT !.phase = x]
  <2>4. u \in Mutation /\ u.req = r /\ u.saved = muts[m].saved /\ u.phase = x
    BY <1>2 DEF Mutation
  <2>5. ASSUME x = "done", r.op \in {"create", "delete"}
        PROVE  server'.issues[TheId(r)] = IF r.to = None THEN "deleted" ELSE r.to
    <3>1. OnIssues(r) /\ TheId(r) \in Issues /\ r.ids = {TheId(r)}
      BY <1>2, <2>5, RequestKinds DEF OnIssues
    <3>2. TheId(r) \in Targets(server, r)
      BY <1>2, <2>3, <2>5, <3>1, TargetKinds DEF Commits
    <3> QED
      BY <2>3, <2>5, <3>1, <3>2 DEF Commits
  <2>6. (r.op = "create" => r.to # None) /\ (r.op = "delete" => r.to = None)
    BY <1>2, RequestKinds, StatusesAreNamed
  <2>7. \A v : v = u => MutOK(v)'
    BY <2>2, <2>4, <2>5, <2>6 DEF MutOK
  <2>8. muts' = [k \in Slots |-> muts'[k]] /\ \A k \in Slots : muts'[k] = IF k = m THEN u ELSE muts[k]
    BY <2>3 DEF Typed, MutsOK
  <2> HIDE DEF u
  <2>9. \A k \in Slots : InFlight(k)' => MutOK(muts[k])'
    BY <2>1, <2>7, <2>8 DEF InFlight
  <2> QED
    BY <2>8, <2>9 DEF MutsOK
<1>6. CacheOK(cache)'
  BY <1>1, <1>3, CacheGrows DEF Typed, Handles
<1> QED
  BY <1>1, <1>3, <1>4, <1>5, <1>6 DEF Typed, Evolves, Handles

-----------------------------------------------------------------------------
(* Mutations *)

\* Who mutates an issue sees it; who mutates a comment sees the timeline.
LEMMA MutateKnows ==
    ASSUME Typed, Calm, NEW m \in Slots, NEW r \in Requests \cup Batches, Mutate(m, r)
    PROVE  /\ OnIssues(r) /\ r.op # "create" => \A i \in r.ids : ~Young(i)
           /\ ~OnIssues(r) => HasData(cache["timeline"]) /\ cache["timeline"].data # Gone
           /\ r.op = "create" => \A i \in r.ids : server.issues[i] = "unborn"
           /\ ~InFlight(m)
PROOF
<1>1. ASSUME OnIssues(r), r.op # "create", NEW i \in r.ids
      PROVE  ~Young(i)
  <2>1. i \in Issues /\ r.op # "comment" /\ ~Creating(i)
    BY <1>1, RequestKinds DEF Mutate, Announced, Calm, OnIssues
  <2>2. Holding(cache["list"].data, i) # {}
    BY <1>1, <2>1 DEF Mutate
  <2>3. cache["list"].data \in Homes
    BY ListIsHeld DEF Typed
  <2>4. Young(i) => Holding(cache["list"].data, i) \subseteq {server.issues[i]} \cap Statuses
    BY <2>1, <2>3 DEF Homes, Holding
  <2> QED
    BY <2>1, <2>2, <2>4, StatusesAreNamed DEF Young
<1>2. ASSUME r.op = "create"
      PROVE  \A i \in r.ids : server.issues[i] = "unborn"
  <2>1. Targets(server, r) # {} /\ r.ids = {TheId(r)}
    BY <1>2, RequestKinds DEF Mutate, OnIssues
  <2> QED
    BY <1>2, <2>1, TargetKinds
<1> QED
  BY <1>1, <1>2 DEF Mutate, HasData, InFlight

LEMMA SavedIsHeld ==
    ASSUME Typed, NEW r \in Requests \cup Batches
    PROVE  /\ Saved(cache, r) \in [Keys -> UNION {DataOf(k) \cup {None} : k \in Keys}]
           /\ \A k \in Keys : /\ Saved(cache, r)[k] \in Held(k) \cup {None}
                              /\ Saved(cache, r)[k] # None => k \in SettledKeys(r)
PROOF
<1>1. \A k \in Keys : /\ cache[k].data \in Held(k) \cup {None}
                      /\ Cancel(cache[k]).data = cache[k].data
  BY EntryIsTyped, CancelIsWellFormed DEF Typed, WellFormed, EntryOf
<1>2. \A k \in Keys : Saved(cache, r)[k] =
        IF \/ k = "list" /\ OnIssues(r) /\ r.op # "create"
           \/ k = "timeline" /\ r.op \in {"edit", "uncomment"}
           \/ k = "detail" /\ r.op = "update" /\ TheId(r) = Focus
        THEN cache[k].data ELSE None
  BY <1>1 DEF Saved
<1>3. \A k \in Keys : Saved(cache, r)[k] \in Held(k) \cup {None}
  BY <1>1, <1>2
<1>4. \A k \in Keys : Saved(cache, r)[k] # None => k \in SettledKeys(r)
  BY <1>2, RequestKinds DEF SettledKeys
<1>5. \A k \in Keys : Held(k) \subseteq UNION {DataOf(j) \cup {None} : j \in Keys}
  BY HeldIsData
<1>6. Saved(cache, r) = [k \in Keys |-> Saved(cache, r)[k]]
  BY DEF Saved
<1> DEFINE D == UNION {DataOf(k) \cup {None} : k \in Keys}
<1>7. \A k \in Keys : Saved(cache, r)[k] \in D
  BY <1>3, <1>5
<1> HIDE DEF D
<1>8. Saved(cache, r) \in [Keys -> D]
  BY <1>6, <1>7
<1> QED
  BY <1>3, <1>4, <1>8 DEF D

LEMMA MutateIsTyped ==
    ASSUME Typed, Calm, NEW m \in Slots, NEW r \in Requests \cup Batches, Mutate(m, r)
    PROVE  Evolves /\ Typed'
PROOF
<1> DEFINE u == [req |-> r, phase |-> "sent", saved |-> Saved(cache, r)]
<1>1. /\ muts' = [muts EXCEPT ![m] = u]
      /\ UNCHANGED <<server, page, conn, wire, drops>> /\ changes' \in 0 .. MaxChanges
      /\ cache' = Optimistic(cache, r)
  BY BoundsAreNaturals DEF Mutate, Typed
<1>2. u \in Mutation /\ u.req = r /\ u.saved = Saved(cache, r) /\ u.phase = "sent"
  BY SavedIsHeld DEF Mutation
<1> HIDE DEF u
<1>3. muts' = [k \in Slots |-> muts'[k]] /\ \A k \in Slots : muts'[k] = IF k = m THEN u ELSE muts[k]
  BY <1>1 DEF Typed, MutsOK
<1>4. ASSUME NEW i \in Issues, Creating(i)'
      PROVE  Young(i)
  <2>1. CASE r.op = "create" /\ i \in r.ids
    BY <2>1, MutateKnows DEF Young
  <2>2. CASE ~(r.op = "create" /\ i \in r.ids)
    <3>1. \A k \in Slots : (muts[k] # None /\ muts[k].req.op = "create" /\ i \in muts[k].req.ids)'
                             => muts[k] # None /\ muts[k].req.op = "create" /\ i \in muts[k].req.ids
      BY <1>2, <1>3, <2>2
    <3> QED
      BY <1>1, <1>4, <3>1 DEF Young, Creating
  <2> QED
    BY <2>1, <2>2
<1>5. Evolves
  BY <1>1, <1>4, SameServerEvolves
<1>6. CacheOK(cache)'
  <2>1. CacheOK(cache')
    BY <1>1, MutateKnows, OptimisticIsTyped DEF Typed
  <2> QED
    BY <1>5, <2>1, CacheGrows
<1>7. MutsOK'
  <2>1. MutOK(u)
    BY <1>2, MutateKnows, SavedIsHeld DEF MutOK
  <2>2. \A i \in r.ids : OnIssues(r) /\ r.op # "create" => ~Young(i)'
    BY <1>5, MutateKnows, YouthPasses, RequestKinds
  <2>3. \A k \in Keys : u.saved[k] \in Held(k)' \cup {None} /\ (u.saved[k] # None => k \in SettledKeys(r))
    BY <1>2, <1>5, SavedIsHeld, HeldGrows
  <2>4. \A v : v = u => MutOK(v)'
    BY <1>2, <2>2, <2>3 DEF MutOK
  <2>5. \A k \in Slots : InFlight(k) => \A v : v = muts[k] => MutOK(v)'
    <3> SUFFICES ASSUME NEW k \in Slots, InFlight(k)
                 PROVE  \A v : v = muts[k] => MutOK(v)'
      OBVIOUS
    <3>1. MutOK(muts[k]) /\ (muts[k].req.op = "create" => \A i \in muts[k].req.ids : Creating(i))
      BY DEF Typed, MutsOK, InFlight, Creating
    <3> QED
      BY <1>5, <3>1, MutationGrows
  <2>6. \A k \in Slots : InFlight(k)' => MutOK(muts[k])'
    BY <1>3, <2>4, <2>5 DEF InFlight
  <2> QED
    BY <1>3, <2>6 DEF MutsOK
<1>8. WireOK'
  <2>1. Shorter /\ (conn' = "up" \/ wire' = <<>>)
    BY <1>1, WiresShorten DEF Typed, WireOK
  <2> QED
    BY <1>5, <2>1, EventsRemain
<1> QED
  BY <1>1, <1>5, <1>6, <1>7, <1>8 DEF Typed, Evolves

\* What onSuccess and onError do to the cache before the entries of r are
\* invalidated.
Writes(d, r) ==
    /\ CacheOK(d)
    /\ \A k \in Keys : /\ d[k].fetch = cache[k].fetch
                       /\ HasData(cache[k]) => HasData(d[k])
                       /\ k \notin SettledKeys(r) => d[k] = cache[k]

LEMMA PutWrites ==
    ASSUME Typed, NEW r, NEW k \in SettledKeys(r), k \in Keys, NEW v \in Held(k),
           NEW d, d = [cache EXCEPT ![k] = Put(cache[k], v)]
    PROVE  Writes(d, r)
PROOF
<1>1. CacheOK(d) /\ d[k] = Put(cache[k], v) /\ \A j \in Keys \ {k} : d[j] = cache[j]
  <2>1. /\ CacheOK([cache EXCEPT ![k] = Put(cache[k], v)])
        /\ [cache EXCEPT ![k] = Put(cache[k], v)][k] = Put(cache[k], v)
        /\ \A j \in Keys \ {k} : [cache EXCEPT ![k] = Put(cache[k], v)][j] = cache[j]
    BY WriteIsTyped DEF Typed
  <2> QED
    BY <2>1
<1>2. WellFormed(cache[k], Held(k)) /\ Apart(Held(k))
  BY EntryIsTyped DEF Typed
<1>3. Put(cache[k], v).fetch = cache[k].fetch /\ HasData(Put(cache[k], v))
  BY <1>2 DEF Put, WellFormed, EntryOf, HasData, Apart
<1> QED
  BY <1>1, <1>3 DEF Writes

LEMMA SucceededWrites ==
    ASSUME Typed, NEW m \in Slots, InFlight(m), muts[m].phase = "done"
    PROVE  Writes(Succeeded(cache, muts[m].req), muts[m].req)
PROOF
<1> DEFINE r == muts[m].req
<1>1. r \in Requests \cup Batches /\ MutOK(muts[m]) /\ CacheOK(cache)
  BY MutationIsTyped DEF Typed
<1>2. Writes(cache, r)
  BY <1>1 DEF Writes
<1>3. CASE r.op = "create"
  <2> DEFINE p == addIssueToBuckets(cache["list"].data, TheId(r), r.to)
             d == [cache EXCEPT !["list"] = Put(cache["list"], p)]
  <2>1. OnIssues(r) /\ TheId(r) \in Issues /\ r.ids = {TheId(r)} /\ r.to \in Statuses
    BY <1>1, <1>3, RequestKinds DEF OnIssues
  <2>2. Young(TheId(r)) /\ server.issues[TheId(r)] = r.to
    BY <1>1, <1>3, <2>1 DEF Young, Creating, InFlight, MutOK
  <2>3. p \in Homes
    BY <1>1, <2>1, <2>2, ListIsHeld, AddedIsHeld
  <2>4. Succeeded(cache, r) = d
    BY <1>1, <1>3 DEF Succeeded, PatchList, Patch, CacheOK
  <2> HIDE DEF p
  <2>5. "list" \in SettledKeys(r) /\ p \in Held("list") /\ "list" \in Keys
    BY <1>3, <2>1, <2>3, HeldKinds, KeyNames DEF SettledKeys
  <2>6. Writes(d, r)
    BY <2>5, PutWrites
  <2> QED
    BY <2>4, <2>6
<1>4. CASE r.op = "comment"
  <2> DEFINE v == AddComment(cache["timeline"].data, TheId(r), "old")
             d == [cache EXCEPT !["timeline"] = Put(cache["timeline"], v)]
  <2>1. Succeeded(cache, r) = [cache EXCEPT !["timeline"] =
           IF HasData(cache["timeline"]) THEN Put(cache["timeline"], v) ELSE cache["timeline"]]
    BY <1>4 DEF Succeeded, PatchTimeline, Patch
  <2>2. CASE HasData(cache["timeline"])
    <3>1. ~OnIssues(r) /\ TheId(r) \in Comments /\ "old" \in Texts
      BY <1>1, <1>4, RequestKinds DEF OnIssues, Texts
    <3>2. cache["timeline"].data \in Timeline
      BY <1>1, <2>2, EntryIsTyped, KeyNames, HeldKinds DEF WellFormed, EntryOf, HasData
    <3>3. v \in Timeline
      BY <3>1, <3>2, TimelinesStayTimelines
    <3> HIDE DEF v
    <3>4. "timeline" \in SettledKeys(r) /\ v \in Held("timeline") /\ "timeline" \in Keys
      BY <1>4, <3>1, <3>3, HeldKinds, KeyNames DEF SettledKeys
    <3>5. Writes(d, r)
      BY <3>4, PutWrites
    <3> QED
      BY <2>1, <2>2, <3>5
  <2>3. CASE ~HasData(cache["timeline"])
    <3>1. Succeeded(cache, r) = cache
      BY <1>1, <2>1, <2>3 DEF CacheOK
    <3> QED
      BY <1>2, <3>1
  <2> QED
    BY <2>2, <2>3
<1>5. CASE r.op \notin {"create", "comment"}
  BY <1>2, <1>5 DEF Succeeded
<1> QED
  BY <1>3, <1>4, <1>5

LEMMA RestoredWrites ==
    ASSUME Typed, NEW m \in Slots, InFlight(m)
    PROVE  Writes(Restored(cache, muts[m].saved), muts[m].req)
PROOF
<1> DEFINE r == muts[m].req
           saved == muts[m].saved
           d == Restored(cache, saved)
<1>1. MutOK(muts[m]) /\ CacheOK(cache)
  BY MutationIsTyped DEF Typed
<1>2. d = [k \in Keys |-> d[k]]
      /\ \A k \in Keys : d[k] = IF saved[k] = None THEN cache[k] ELSE Put(cache[k], saved[k])
  BY DEF Restored
<1> HIDE DEF d
<1>3. ASSUME NEW k \in Keys
      PROVE  /\ WellFormed(d[k], Held(k)) /\ d[k].fetch = cache[k].fetch
             /\ HasData(cache[k]) => HasData(d[k])
             /\ k \notin SettledKeys(r) => d[k] = cache[k]
  <2>1. WellFormed(cache[k], Held(k)) /\ Apart(Held(k))
    BY <1>1, EntryIsTyped
  <2>2. CASE saved[k] = None
    BY <1>2, <2>1, <2>2
  <2>3. CASE saved[k] # None
    <3>1. saved[k] \in Held(k) /\ k \in SettledKeys(r)
      BY <1>1, <2>3 DEF MutOK
    <3>2. WellFormed(Put(cache[k], saved[k]), Held(k)) /\ Put(cache[k], saved[k]).data = saved[k]
      BY <2>1, <3>1, PutIsWellFormed
    <3>3. Put(cache[k], saved[k]).fetch = cache[k].fetch
      BY <2>1 DEF WellFormed, EntryOf, Put
    <3> QED
      BY <1>2, <2>3, <3>1, <3>2, <3>3 DEF HasData
  <2> QED
    BY <2>2, <2>3
<1>4. CacheOK(d)
  BY <1>1, <1>2, <1>3, KeyNames DEF CacheOK
<1> QED
  BY <1>3, <1>4 DEF Writes, d

\* The answer, or the error, of a mutation.
Settles(m) ==
    LET r == muts[m].req IN
    /\ InFlight(m) /\ muts' = [muts EXCEPT ![m] = None]
    /\ UNCHANGED <<server, conn, wire, changes, drops>>
    /\ page' = page \/ (page' = "list" /\ page = "issue" /\ r.op = "delete" /\ TheId(r) = Focus /\ muts[m].phase = "done")
    /\ Safe(SettledKeys(r), TRUE)
    /\ \E d : Writes(d, r) /\ cache' = Invalidated(d, SettledKeys(r))

LEMMA SettleIs ==
    ASSUME Typed, NEW m \in Slots, NEW ok \in BOOLEAN, Settle(m, ok)
    PROVE  Settles(m)
PROOF
<1>1. InFlight(m)
  BY DEF Settle, InFlight
<1>2. CASE ok
  BY <1>1, <1>2, SucceededWrites DEF Settle, Settles, Settled
<1>3. CASE ~ok
  BY <1>1, <1>3, RestoredWrites DEF Settle, Settles, Settled
<1> QED
  BY <1>2, <1>3

LEMMA SettleIsTyped ==
    ASSUME Typed, NEW m \in Slots, Settles(m)
    PROVE  Evolves /\ Typed'
PROOF
<1>1. muts' = [k \in Slots |-> muts'[k]] /\ \A k \in Slots : muts'[k] = IF k = m THEN None ELSE muts[k]
  BY DEF Typed, MutsOK, Settles
<1>2. \A i \in Issues : Creating(i)' => Young(i)
  BY <1>1 DEF Settles, Creating, Young
<1>3. Evolves
  BY <1>2, SameServerEvolves DEF Settles
<1>4. CacheOK(cache)'
  <2>1. PICK d : Writes(d, muts[m].req) /\ cache' = Invalidated(d, SettledKeys(muts[m].req))
    BY DEF Settles
  <2>2. CacheOK(cache')
    BY <2>1, InvalidatedIsTyped DEF Writes
  <2> QED
    BY <1>3, <2>2, CacheGrows
<1>5. MutsOK'
  <2>1. \A k \in Slots : InFlight(k) => \A v : v = muts[k] => MutOK(v)'
    <3> SUFFICES ASSUME NEW k \in Slots, InFlight(k)
                 PROVE  \A v : v = muts[k] => MutOK(v)'
      OBVIOUS
    <3>1. MutOK(muts[k]) /\ (muts[k].req.op = "create" => \A i \in muts[k].req.ids : Creating(i))
      BY DEF Typed, MutsOK, InFlight, Creating
    <3> QED
      BY <1>3, <3>1, MutationGrows
  <2>2. \A k \in Slots : InFlight(k)' => MutOK(muts[k])'
    BY <1>1, <2>1 DEF InFlight
  <2> QED
    BY <1>1, <2>2 DEF MutsOK
<1>6. WireOK'
  <2>1. Shorter /\ (conn' = "up" \/ wire' = <<>>)
    BY WiresShorten DEF Settles, Typed, WireOK
  <2> QED
    BY <1>3, <2>1, EventsRemain
<1>7. page' \in Pages
  BY PagesAreKnown DEF Settles, Typed
<1> QED
  BY <1>3, <1>4, <1>5, <1>6, <1>7 DEF Typed, Evolves, Settles

-----------------------------------------------------------------------------
(* Events *)

\* What the next event does to the cache.
Delivers(e) ==
    /\ CacheOK(cache')
    /\ e.type = "issue:created" =>
          /\ Others(cache, cache', {"list"})
          /\ cache'["list"] = Put(cache["list"], addIssueToBuckets(cache["list"].data, e.id, e.to))
    /\ e.type = "issue:updated" =>
          /\ cache'["timeline"] = cache["timeline"]
          /\ cache'["detail"] = PatchedDetail(cache["detail"], e.id, e.to)
          /\ cache'["list"] = Put(cache["list"], patchIssueInBuckets(cache["list"].data, e.id, e.to))
    /\ e.type = "issue:deleted" =>
          /\ cache'["list"] = Put(cache["list"], removeIssueFromBuckets(cache["list"].data, e.id))
          /\ \A k \in {"detail", "timeline"} : cache'[k] = IF e.id = Focus THEN New(k) ELSE cache[k]
    /\ IsComment(e) =>
          /\ Others(cache, cache', {"timeline"})
          /\ \E q : /\ WellFormed(q, Timeline) /\ q.fetch = cache["timeline"].fetch
                    /\ HasData(q) <=> HasData(cache["timeline"])
                    /\ cache'["timeline"] = Invalidate(q, Mounted("timeline"))

LEMMA DeliverIs ==
    ASSUME Typed, Deliver
    PROVE  /\ wire # <<>> /\ wire' = Tail(wire) /\ Head(wire) = wire[1] /\ 1 \in DOMAIN wire
           /\ Head(wire) \in Events /\ EventOK(Head(wire))
           /\ Head(wire).type = "issue:created" => Young(Head(wire).id)
           /\ UNCHANGED <<server, page, conn, muts, changes, drops>>
           /\ Delivers(Head(wire))
PROOF
<1> DEFINE e == Head(wire)
<1>1. /\ wire # <<>> /\ wire' = Tail(wire) /\ UNCHANGED <<server, page, conn, muts, changes, drops>>
      /\ wire \in Seq(Events)
  BY DEF Deliver, Typed, WireOK
<1>2. e = wire[1] /\ 1 \in DOMAIN wire /\ e \in Events
  BY <1>1
<1>3. EventOK(e)
  BY <1>2 DEF Typed, WireOK
<1>4. e.type = "issue:created" => Young(e.id)
  BY <1>2 DEF Young, Creating
<1>5. cache' = CASE e.type = "issue:created" -> onIssueCreated(cache, e)
                 [] e.type = "issue:updated" -> onIssueUpdated(cache, e)
                 [] e.type = "issue:deleted" -> onIssueDeleted(cache, e)
                 [] IsComment(e) -> onComment(cache, e)
  BY DEF Deliver
<1> HIDE DEF e
<1>6. CacheOK(cache)
  BY DEF Typed
<1>7. ASSUME e.type = "issue:created"
      PROVE  Delivers(e)
  <2>1. e.id \in Issues /\ e.to \in Statuses /\ server.issues[e.id] = e.to
    BY <1>2, <1>3, <1>7 DEF Events, IssueEvents, CommentEvents, EventOK
  <2> QED
    BY <1>4, <1>5, <1>6, <1>7, <2>1, onIssueCreatedIsTyped DEF Delivers, IsComment
<1>8. ASSUME e.type = "issue:updated"
      PROVE  Delivers(e)
  <2>1. e.id \in Issues /\ e.to \in Statuses /\ ~Young(e.id)
    BY <1>2, <1>3, <1>8 DEF Events, IssueEvents, CommentEvents, EventOK
  <2> QED
    BY <1>5, <1>6, <1>8, <2>1, onIssueUpdatedIsTyped DEF Delivers, IsComment
<1>9. ASSUME e.type = "issue:deleted"
      PROVE  Delivers(e)
  <2>1. e.id \in Issues
    BY <1>2, <1>9 DEF Events, IssueEvents, CommentEvents
  <2> QED
    BY <1>5, <1>6, <1>9, <2>1, onIssueDeletedIsTyped DEF Delivers, IsComment
<1>10. ASSUME IsComment(e)
       PROVE  Delivers(e)
  <2>1. e \in CommentEvents
    BY <1>2, <1>10 DEF Events, IssueEvents, IsComment
  <2> QED
    BY <1>5, <1>6, <1>10, <2>1, onCommentIsTyped DEF Delivers, IsComment
<1>11. e.type \in {"issue:created", "issue:updated", "issue:deleted"} \/ IsComment(e)
  BY <1>2 DEF Events, IssueEvents, CommentEvents, IsComment
<1>12. Delivers(e)
  BY <1>7, <1>8, <1>9, <1>10, <1>11
<1> QED
  BY <1>1, <1>2, <1>3, <1>4, <1>12 DEF e

LEMMA DeliverIsTyped ==
    ASSUME Typed, Deliver
    PROVE  Evolves /\ Typed'
PROOF
<1>1. wire # <<>> /\ wire' = Tail(wire) /\ UNCHANGED <<server, page, conn, muts, changes, drops>>
      /\ CacheOK(cache')
  BY DeliverIs DEF Delivers
<1>2. Shorter /\ conn' = "up"
  BY <1>1, WiresShorten DEF Typed, WireOK
<1>3. page \in Pages /\ changes \in 0 .. MaxChanges /\ drops \in 0 .. MaxDrops
  BY DEF Typed
<1> QED
  BY <1>1, <1>2, <1>3, QuietStep

-----------------------------------------------------------------------------
(* No issue is listed twice *)

LEMMA InitIsTyped ==
    ASSUME Init
    PROVE  Typed
PROOF
<1>1. PAGINATED_STATUSES[1] \in Statuses
  <2>1. Len(PAGINATED_STATUSES) \in Nat \ {0} /\ DOMAIN PAGINATED_STATUSES = 1 .. Len(PAGINATED_STATUSES)
    BY ColumnsAreInOrder
  <2> QED
    BY <2>1 DEF Statuses
<1>2. server \in ServerType
  <2>1. [i \in Issues |-> IF i \in Born THEN PAGINATED_STATUSES[1] ELSE "unborn"]
          \in [Issues -> Statuses \cup {"unborn", "deleted"}]
    BY <1>1
  <2>2. [c \in Comments |-> IF c = ReplyTo THEN "old" ELSE "none"] \in [Comments -> Texts \cup {"deleted"}]
    BY DEF Texts
  <2> QED
    BY <2>1, <2>2 DEF Init, ServerType
<1>3. server.issues[Focus] # "unborn"
  BY <1>1, FocusIsAnIssue, FocusIsBorn, StatusesAreNamed DEF Init
<1>4. CacheOK(cache)
  <2> DEFINE v(k) == IF k = "list" THEN View(server, k) ELSE None
  <2>1. cache = [k \in Keys |-> Entry(v(k))]
    BY DEF Init
  <2>2. \A k \in Keys : v(k) \in Held(k) \cup {None}
    BY <1>2, <1>3, ViewIsHeld DEF ServerOK
  <2>3. \A k \in Keys : WellFormed(Entry(v(k)), Held(k))
    <3> HIDE DEF v
    <3> SUFFICES ASSUME NEW k \in Keys
                 PROVE  WellFormed(Entry(v(k)), Held(k))
      OBVIOUS
    <3>1. WellFormed(Entry(v(k)), Held(k))
      BY <2>2, HeldIsApart, NewEntry
    <3> QED
      BY <3>1
  <2>4. HasData(cache["list"])
    <3>1. View(server, "list") \in Held("list") /\ Apart(Held("list"))
      BY <1>2, <1>3, ViewIsHeld, HeldIsApart, KeyNames DEF ServerOK
    <3> QED
      BY <2>1, <3>1, KeyNames DEF HasData, Entry, Apart
  <2> HIDE DEF v
  <2> QED
    BY <2>1, <2>3, <2>4 DEF CacheOK
<1>5. MutsOK /\ WireOK
  BY DEF Init, MutsOK, InFlight, WireOK
<1>6. page \in Pages /\ conn \in {"down", "acked", "up"} /\ changes \in 0 .. MaxChanges /\ drops \in 0 .. MaxDrops
  BY PagesAreKnown, BoundsAreNaturals DEF Init
<1> QED
  BY <1>2, <1>3, <1>4, <1>5, <1>6 DEF Typed, ServerOK

LEMMA StepIsTyped ==
    ASSUME Typed, Calm, [Next]_vars
    PROVE  Typed'
PROOF
<1>1. CASE OthersChange
  BY <1>1, OthersChangeIsTyped DEF OthersChange
<1>2. ASSUME NEW m \in Slots, NEW r \in Requests \cup Batches, Mutate(m, r)
      PROVE  Typed'
  BY <1>2, MutateIsTyped
<1>3. ASSUME NEW m \in Slots, Handle(m)
      PROVE  Typed'
  BY <1>3, HandleIsTyped
<1>4. ASSUME NEW m \in Slots, NEW ok \in BOOLEAN, Settle(m, ok)
      PROVE  Typed'
  BY <1>4, SettleIs, SettleIsTyped
<1>5. CASE Deliver
  BY <1>5, DeliverIsTyped
<1>6. CASE Drop \/ Reconnect \/ Join
  BY <1>6, DropIsTyped, ReconnectIsTyped, JoinIsTyped
<1>7. ASSUME NEW k \in Keys, ServerReads(k) \/ Arrive(k) \/ Lose(k)
      PROVE  Typed'
  BY <1>7, ServerReadsIsTyped, AnswerIsTyped
<1>8. ASSUME NEW S \in SUBSET Statuses, ServerReadsColumns(S)
      PROVE  Typed'
  BY <1>8, ServerReadsColumnsIsTyped
<1>9. ASSUME NEW p \in Pages, Go(p)
      PROVE  Typed'
  BY <1>9, GoIsTyped
<1>10. CASE UNCHANGED vars
  <2>1. UNCHANGED <<server, muts, wire, changes, drops, cache, page, conn>>
    BY <1>10 DEF vars
  <2>2. CacheOK(cache') /\ page' \in Pages /\ conn' \in {"down", "acked", "up"}
    BY <2>1 DEF Typed
  <2> QED
    BY <2>1, <2>2, SamePlace
<1> QED
  BY <1>1, <1>2, <1>3, <1>4, <1>5, <1>6, <1>7, <1>8, <1>9, <1>10 DEF Next

LEMMA TypedHasNoDuplicates ==
    ASSUME Typed
    PROVE  NoDuplicates
PROOF
<1>1. TypeOK
  <2>1. server \in ServerType
    BY DEF Typed, ServerOK
  <2>2. ASSUME NEW k \in Keys
        PROVE  /\ cache[k].data \in DataOf(k) \cup {None}
               /\ cache[k].flag \in BOOLEAN
               /\ cache[k].fetch = "read" <=> cache[k].snap \in DataOf(k)
               /\ Fetching(cache[k]) <=> cache[k].back # None
    <3>1. WellFormed(cache[k], DataOf(k)) /\ None \notin DataOf(k)
      BY EntryIsTyped, HeldIsData, WellFormedGrows, NoneIsNothing DEF Typed
    <3> QED
      BY <3>1 DEF WellFormed, EntryOf, Fetching
  <2> QED
    BY <2>1, <2>2 DEF TypeOK, Typed, ServerType
<1>2. cache["list"].data \in Homes
  BY ListIsHeld DEF Typed
<1> DEFINE l == cache["list"].data
<1> HIDE DEF l
<1>3. ASSUME NEW i \in Issues, NEW s \in Statuses
      PROVE  l[s][i] <= 1 /\ (l[s][i] = 1 => Holding(l, i) = {s})
  <2>1. Once(l, i)
    BY <1>2 DEF Homes, l
  <2>2. l[s][i] = 1 => s \in Holding(l, i)
    BY DEF Holding
  <2> QED
    BY <2>1, <2>2 DEF Once
<1> QED
  BY <1>1, <1>3 DEF NoDuplicates, l

\* use-realtime-sync.ts, ws-updaters.ts and mutations.ts: optimistic moves,
\* answers, and the events of this and of other clients, in any order and
\* crossing fetches, lost answers and lost connections, never leave an issue in
\* two columns or twice in one; if the columns of a list are read together and
\* no issue is changed as long as its creation is being announced.
THEOREM NoIssueIsListedTwice == Calm => (Spec => []NoDuplicates)
PROOF
<1> SUFFICES ASSUME Calm
             PROVE  Spec => []NoDuplicates
  OBVIOUS
<1>1. Init => Typed
  BY InitIsTyped
<1>2. Typed /\ [Next]_vars => Typed'
  BY StepIsTyped
<1>3. Typed => NoDuplicates
  BY TypedHasNoDuplicates
<1> QED
  BY <1>1, <1>2, <1>3, PTL DEF Spec

-----------------------------------------------------------------------------
(* What becomes of an entry: the inductive invariant *)

\* An entry in use is fetched or counts as fresh.
Used == \A k \in Keys : Mounted(k) => Served(cache[k])

About(e, i) == ~IsComment(e) /\ e.id = i
Silent(i) == \A n \in DOMAIN wire : ~About(wire[n], i)
Result(e) == IF e.type = "issue:deleted" THEN "deleted" ELSE e.to

\* The last event about an issue tells what has become of it.
Later(n, i) == \E m \in DOMAIN wire : n < m /\ About(wire[m], i)
Tells(n, e) ==
    ~IsComment(e) =>
        /\ Later(n, e.id) \/ server.issues[e.id] = Result(e)
        /\ e.type = "issue:deleted" => server.issues[e.id] = "deleted"
Told == \A n \in DOMAIN wire : Tells(n, wire[n])

\* Without a connection the timeline is in use, or of no use.
Blank(q) == ~HasData(q) /\ ~Fetching(q)
Offline ==
    conn # "up" =>
        page # "aside" /\ (page = "issue" \/ ~Exists(server, Focus) \/ Blank(cache["timeline"]))

\* Who changes comments has a timeline.
Commenting ==
    \A m \in Slots : InFlight(m) /\ ~OnIssues(muts[m].req) /\ Exists(server, Focus) =>
        HasData(cache["timeline"])

\* An issue about which nothing is on its way is where it is on the server; one
\* that an event is about to move is somewhere.
Moving(i) == \E n \in DOMAIN wire : About(wire[n], i) /\ wire[n].type = "issue:updated"
Right(l, i) ==
    /\ Silent(i) => Holding(l, i) = {server.issues[i]} \cap Statuses
    /\ Exists(server, i) /\ Moving(i) => Holding(l, i) # {}

\* What an entry should hold, given what is on its way.
Due(k) ==
    CASE k = "list" -> {l \in Homes : \A i \in Issues : Right(l, i)}
      [] k = "detail" -> {d \in Held("detail") : Silent(Focus) => d = View(server, "detail")}
      [] k = "timeline" -> {View(server, "timeline")}

\* The entry will be fetched anew, or does not matter.
Awaited(k) ==
    \/ conn = "down"
    \/ \E m \in Slots : InFlight(m) /\ k \in SettledKeys(muts[m].req)
    \/ k = "timeline" /\ (~Exists(server, Focus) \/ \E n \in DOMAIN wire : IsComment(wire[n]))

Current == \A k \in Keys : Awaited(k) \/ CurrentIn(cache[k], Due(k))

Fresh == Used /\ Told /\ Offline /\ Commenting /\ Current

Steady == Races = {}

LEMMA CurrentGrows ==
    ASSUME NEW q, NEW R, NEW S, R \subseteq S, CurrentIn(q, R)
    PROVE  CurrentIn(q, S)
BY DEF CurrentIn

LEMMA InvalidateServes ==
    ASSUME NEW D, Apart(D), NEW q, WellFormed(q, D)
    PROVE  Served(Invalidate(q, TRUE))
PROOF
<1> DEFINE flagged == [q EXCEPT !.flag = TRUE]
<1>1. WellFormed(flagged, D) /\ flagged.fetch = q.fetch
  BY DEF WellFormed, EntryOf, Fetching
<1>2. Asked(flagged).fetch = "asked"
  BY <1>1, AskedIsWellFormed
<1> QED
  BY <1>1, <1>2 DEF Invalidate, Served, Fetching

LEMMA PutServes ==
    ASSUME NEW D, Apart(D), NEW q, WellFormed(q, D), NEW v \in D
    PROVE  Served(Put(q, v)) /\ HasData(Put(q, v)) /\ Put(q, v).fetch = q.fetch
BY DEF WellFormed, EntryOf, Put, Served, HasData, Apart

LEMMA DueKinds ==
    /\ Due("list") = {l \in Homes : \A i \in Issues : Right(l, i)}
    /\ Due("detail") = {d \in Held("detail") : Silent(Focus) => d = View(server, "detail")}
    /\ Due("timeline") = {View(server, "timeline")}
BY DEF Due

LEMMA SettledKinds ==
    ASSUME NEW r \in Requests \cup Batches
    PROVE  /\ "list" \in SettledKeys(r) <=> OnIssues(r)
           /\ "detail" \in SettledKeys(r) <=> r.op = "update" /\ TheId(r) = Focus
           /\ "timeline" \in SettledKeys(r) <=> ~OnIssues(r)
           /\ \A k \in Touched(r) : k \in SettledKeys(r) \/ (k = "detail" /\ r.op = "delete")
PROOF
<1>1. r.op = "update" => OnIssues(r)
  BY DEF OnIssues
<1>2. r.op \in {"edit", "uncomment"} => ~OnIssues(r)
  BY DEF OnIssues
<1>3. /\ "list" \in SettledKeys(r) <=> OnIssues(r)
      /\ "detail" \in SettledKeys(r) <=> r.op = "update" /\ TheId(r) = Focus
      /\ "timeline" \in SettledKeys(r) <=> ~OnIssues(r)
  <2>1. CASE r.op = "update" /\ TheId(r) = Focus
    BY <1>1, <2>1 DEF SettledKeys
  <2>2. CASE OnIssues(r) /\ ~(r.op = "update" /\ TheId(r) = Focus)
    BY <2>2 DEF SettledKeys
  <2>3. CASE ~OnIssues(r)
    BY <1>1, <2>3 DEF SettledKeys
  <2> QED
    BY <2>1, <2>2, <2>3
<1> QED
  BY <1>2, <1>3, KeyNames DEF Touched

LEMMA SafeIs ==
    ASSUME Steady, NEW K, Safe(K, TRUE), NEW k \in K, cache[k].fetch = "read"
    PROVE  Mounted(k) /\ HasData(cache[k])
BY DEF Steady, Safe, Stales

\* What the server would answer is due.
LEMMA ViewIsDue ==
    ASSUME ServerOK, NEW k \in Keys
    PROVE  View(server, k) \in Due(k)
PROOF
<1>1. View(server, k) \in Held(k)
  BY ViewIsHeld
<1>2. CASE k = "list"
  <2> DEFINE l == View(server, "list")
  <2>1. \A s \in Statuses : \A i \in Issues : l[s][i] = IF server.issues[i] = s THEN 1 ELSE 0
    BY DEF View, ColumnOf
  <2> HIDE DEF l
  <2>2. \A i \in Issues : Holding(l, i) = {server.issues[i]} \cap Statuses
    BY <2>1 DEF Holding
  <2>3. \A i \in Issues : Right(l, i)
    BY <2>2 DEF Right, Exists
  <2>4. l \in Homes
    BY <1>1, <1>2, HeldKinds DEF l
  <2> QED
    BY <1>2, <2>3, <2>4, DueKinds DEF l
<1>3. CASE k = "detail"
  BY <1>1, <1>3, DueKinds
<1>4. CASE k = "timeline"
  BY <1>4, DueKinds
<1> QED
  BY <1>2, <1>3, <1>4, KeyNames

\* As long as the server and the wire are the same, so is what is due.
LEMMA DueStays ==
    ASSUME Typed, Evolves, UNCHANGED <<server, wire>>, NEW k \in Keys
    PROVE  Due(k) \subseteq Due(k)'
PROOF
<1>1. Homes \subseteq Homes' /\ Held("detail") \subseteq Held("detail")'
  <2>1. Held("list") = Homes /\ Held("list")' = Homes'
    BY DEF Held
  <2>2. Held("list") \subseteq Held("list")' /\ Held("detail") \subseteq Held("detail")'
    BY HeldGrows, KeyNames
  <2> QED
    BY <2>1, <2>2
<1>2. \A l : \A i \in Issues : Right(l, i) => Right(l, i)'
  BY DEF Right, Silent, Moving, Holding, Exists
<1>3. (Silent(Focus)' => Silent(Focus)) /\ View(server, "detail")' = View(server, "detail")
      /\ View(server, "timeline")' = View(server, "timeline")
  BY DEF Silent, View, Exists
<1>4. CASE k = "list"
  BY <1>1, <1>2, <1>4 DEF Due
<1>5. CASE k = "detail"
  BY <1>1, <1>3, <1>5 DEF Due
<1>6. CASE k = "timeline"
  BY <1>3, <1>6 DEF Due
<1> QED
  BY <1>4, <1>5, <1>6, KeyNames

\* Steps that change the cache only.
LEMMA SameWorld ==
    ASSUME Typed, Fresh, Evolves, UNCHANGED <<server, wire>>,
           \A k \in Keys : Awaited(k)' \/ CurrentIn(cache'[k], Due(k))
    PROVE  Told' /\ Current'
PROOF
<1>1. Told'
  BY DEF Fresh, Told, Tells, Later, About
<1>2. ASSUME NEW k \in Keys, ~Awaited(k)'
      PROVE  CurrentIn(cache[k], Due(k))'
  <2>1. CurrentIn(cache'[k], Due(k))
    BY <1>2
  <2>2. Due(k) \subseteq Due(k)'
    BY DueStays
  <2>3. CurrentIn(cache'[k], Due(k)')
    BY <2>1, <2>2, CurrentGrows
  <2> QED
    BY <2>3 DEF CurrentIn, HasData
<1> QED
  BY <1>1, <1>2 DEF Current

LEMMA AwaitedStays ==
    ASSUME UNCHANGED <<server, wire, muts, conn>>, NEW k \in Keys, Awaited(k)
    PROVE  Awaited(k)'
BY DEF Awaited, InFlight, Exists

-----------------------------------------------------------------------------
(* Connections, fetches and pages leave what is shown current *)

LEMMA ReconnectIsFresh ==
    ASSUME Typed, Fresh, Steady, Reconnect
    PROVE  Fresh'
PROOF
<1> DEFINE K == ReconnectKeys(page)
<1>1. /\ Evolves /\ UNCHANGED <<server, page, wire, muts>> /\ conn' = "acked" /\ conn = "down"
      /\ cache' = Invalidated(cache, K) /\ Safe(K, TRUE)
  BY ReconnectIsTyped DEF Reconnect
<1>2. \A k \in Keys : cache'[k] = IF k \in K THEN Invalidate(cache[k], Mounted(k)) ELSE cache[k]
  BY <1>1, InvalidatedIsTyped DEF Typed
<1>3. "list" \in K /\ "detail" \in K /\ ("timeline" \in K <=> page = "issue")
  BY DEF ReconnectKeys
<1> HIDE DEF K
<1>4. ASSUME NEW k \in Keys
      PROVE  /\ WellFormed(cache[k], Held(k)) /\ Apart(Held(k))
             /\ Invalidate(cache[k], Mounted(k)).data = cache[k].data
             /\ k \in K => \A R : CurrentIn(Invalidate(cache[k], Mounted(k)), R)
  <2>1. WellFormed(cache[k], Held(k)) /\ Apart(Held(k))
    BY EntryIsTyped DEF Typed
  <2>2. k \in K => (cache[k].fetch = "read" => Mounted(k) /\ HasData(cache[k]))
    BY <1>1, SafeIs
  <2>3. k \in K => \A R : CurrentIn(Invalidate(cache[k], Mounted(k)), R)
    BY <2>1, <2>2, InvalidateIsCurrent
  <2> QED
    BY <2>1, <2>3, InvalidateIsWellFormed
<1>5. Used'
  <2>1. \A k \in Keys : Mounted(k) => Served(cache'[k])
    BY <1>2, <1>4, InvalidateServes DEF Fresh, Used
  <2> QED
    BY <1>1, <2>1 DEF Used, Mounted, Served, Fetching, HasData
<1>6. Offline'
  <2>1. page # "issue" => cache'["timeline"] = cache["timeline"]
    BY <1>2, <1>3, KeyNames
  <2> QED
    BY <1>1, <2>1 DEF Fresh, Offline, Exists, Blank, HasData, Fetching
<1>7. Commenting'
  <2>1. HasData(cache["timeline"]) => HasData(cache'["timeline"])
    BY <1>2, <1>4, KeyNames DEF HasData
  <2> QED
    BY <1>1, <2>1 DEF Fresh, Commenting, Exists, InFlight, HasData
<1>8. \A k \in Keys : Awaited(k)' \/ CurrentIn(cache'[k], Due(k))
  <2> SUFFICES ASSUME NEW k \in Keys, k \notin K
               PROVE  Awaited(k)' \/ CurrentIn(cache'[k], Due(k))
    BY <1>2, <1>4
  <2>1. k = "timeline" /\ page # "issue" /\ cache'[k] = cache[k]
    BY <1>2, <1>3, KeyNames
  <2>2. ~Exists(server, Focus)' \/ Blank(cache[k])
    BY <1>1, <2>1 DEF Fresh, Offline, Exists
  <2> QED
    BY <2>1, <2>2 DEF Awaited, CurrentIn, Blank, Fetching, HasData
<1>9. Told' /\ Current'
  BY <1>1, <1>8, SameWorld
<1> QED
  BY <1>5, <1>6, <1>7, <1>9 DEF Fresh

LEMMA JoinIsFresh ==
    ASSUME Typed, Fresh, Join
    PROVE  Fresh'
PROOF
<1>1. Evolves /\ UNCHANGED <<server, cache, page, wire, muts>> /\ conn' = "up" /\ conn = "acked"
  BY JoinIsTyped DEF Join
<1>2. \A k \in Keys : Awaited(k) => Awaited(k)'
  BY <1>1 DEF Awaited, InFlight, Exists
<1>3. Told' /\ Current'
  <2>1. \A k \in Keys : Awaited(k)' \/ CurrentIn(cache'[k], Due(k))
    BY <1>1, <1>2 DEF Fresh, Current
  <2> QED
    BY <1>1, <2>1, SameWorld
<1>4. Used' /\ Offline' /\ Commenting'
  BY <1>1 DEF Fresh, Used, Mounted, Offline, Commenting, InFlight, Exists
<1> QED
  BY <1>3, <1>4 DEF Fresh

\* A fetch of k goes on: q is what becomes of the entry.
Fetches(k, q) ==
    /\ cache' = [cache EXCEPT ![k] = q]
    /\ UNCHANGED <<server, page, conn, wire, muts, changes, drops>>
    /\ \/ cache[k].fetch = "asked" /\ q = Read(cache[k], View(server, k))
       \/ cache[k].fetch = "read" /\ q \in {Answer(cache[k]), Retry(cache[k])}

LEMMA FetchesIsFresh ==
    ASSUME Typed, Fresh, Evolves, NEW k \in Keys, NEW q, Fetches(k, q)
    PROVE  Fresh'
PROOF
<1>1. /\ UNCHANGED <<server, page, conn, wire, muts>>
      /\ cache'[k] = q /\ \A j \in Keys \ {k} : cache'[j] = cache[j]
  BY DEF Fetches, Typed, CacheOK
<1>2. /\ WellFormed(cache[k], Held(k)) /\ Apart(Held(k)) /\ Fetching(cache[k])
      /\ View(server, k) \in Due(k)
  BY EntryIsTyped, ViewIsDue DEF Typed, Fetches, Fetching
<1>3. Served(q) /\ (HasData(cache[k]) => HasData(q))
  BY <1>2 DEF Fetches, Served, Fetching, HasData, Read, Answer, Retry, Idle, WellFormed, EntryOf, Apart
<1>4. CurrentIn(cache[k], Due(k)) => CurrentIn(q, Due(k))
  BY <1>2, AnswerIsCurrent DEF Fetches
<1>5. \A j \in Keys : Awaited(j) => Awaited(j)'
  BY <1>1, AwaitedStays
<1>6. \A j \in Keys : Awaited(j)' \/ CurrentIn(cache'[j], Due(j))
  BY <1>1, <1>4, <1>5 DEF Fresh, Current
<1>7. Told' /\ Current'
  BY <1>1, <1>6, SameWorld
<1>8. Used'
  <2>1. \A j \in Keys : Mounted(j) => Served(cache'[j])
    BY <1>1, <1>3 DEF Fresh, Used
  <2> QED
    BY <1>1, <2>1 DEF Used, Mounted, Served, Fetching, HasData
<1>9. Commenting'
  <2>1. HasData(cache["timeline"]) => HasData(cache'["timeline"])
    BY <1>1, <1>3, KeyNames
  <2> QED
    BY <1>1, <2>1 DEF Fresh, Commenting, Exists, InFlight, HasData
<1>10. Offline'
  <2>1. Blank(cache["timeline"]) => cache'["timeline"] = cache["timeline"]
    BY <1>1, <1>2, KeyNames DEF Blank
  <2> QED
    BY <1>1, <2>1 DEF Fresh, Offline, Exists, Blank, HasData, Fetching
<1> QED
  BY <1>7, <1>8, <1>9, <1>10 DEF Fresh

LEMMA FetchStepsAreFresh ==
    ASSUME Typed, Fresh, Calm, NEW k \in Keys, NEW S \in SUBSET Statuses,
           ServerReads(k) \/ Arrive(k) \/ Lose(k) \/ ServerReadsColumns(S)
    PROVE  Fresh'
PROOF
<1>1. CASE ServerReads(k)
  <2>1. Fetches(k, Read(cache[k], View(server, k)))
    BY <1>1 DEF ServerReads, Fetches
  <2> QED
    BY <1>1, <2>1, ServerReadsIsTyped, FetchesIsFresh
<1>2. CASE Arrive(k) \/ Lose(k)
  <2>1. Fetches(k, Answer(cache[k])) \/ Fetches(k, Retry(cache[k]))
    BY <1>2 DEF Arrive, Lose, Fetches
  <2> QED
    BY <1>2, <2>1, AnswerIsTyped, FetchesIsFresh
<1>3. CASE ServerReadsColumns(S)
  <2>1. Fetches("list", Read(cache["list"], View(server, "list")))
    BY <1>3, ServerReadsColumnsIs DEF Fetches
  <2> QED
    BY <1>3, <2>1, KeyNames, ServerReadsColumnsIsTyped, FetchesIsFresh
<1> QED
  BY <1>1, <1>2, <1>3

LEMMA GoIsFresh ==
    ASSUME Typed, Fresh, Steady, NEW p \in Pages, Go(p)
    PROVE  Fresh'
PROOF
<1>1. /\ Evolves /\ Goes(p) /\ UNCHANGED <<server, conn, wire, muts>> /\ page' = p
      /\ conn = "up" /\ (p = "issue" => page = "list")
  BY GoIs, GoIsTyped DEF Go, Steady
<1>2. ASSUME NEW k \in Keys
      PROVE  /\ WellFormed(cache[k], Held(k)) /\ Apart(Held(k))
             /\ Mounts(cache[k]).data = cache[k].data /\ Served(Mounts(cache[k]))
             /\ \A R : CurrentIn(cache[k], R) => CurrentIn(Mounts(cache[k]), R)
  <2>1. WellFormed(cache[k], Held(k)) /\ Apart(Held(k))
    BY EntryIsTyped DEF Typed
  <2> QED
    BY <2>1, MountsIsWellFormed, MountsStaysCurrent
<1>3. ASSUME p = "issue", ~Fetching(cache["list"]), \A m \in Slots : ~InFlight(m),
             Holding(cache["list"].data, Focus) # {}
      PROVE  Location(cache["list"].data, Focus) \in Due("detail")
  <2> DEFINE l == cache["list"].data
  <2>1. HasData(cache["list"]) /\ ~cache["list"].flag
    <3>1. Mounted("list")
      BY <1>1, <1>3 DEF Mounted, MountedOn
    <3> QED
      BY <1>3, <3>1, KeyNames DEF Fresh, Used, Served
  <2>2. l \in Due("list")
    <3>1. ~Awaited("list")
      BY <1>1, <1>3 DEF Awaited
    <3> QED
      BY <1>3, <2>1, <3>1, KeyNames DEF Fresh, Current, CurrentIn, Fetching
  <2>3. Location(l, Focus) \in Holding(l, Focus) /\ Location(l, Focus) \in Statuses
    BY <1>3, LocationHolds DEF Holding
  <2>4. Silent(Focus) => Holding(l, Focus) = {server.issues[Focus]} \cap Statuses
    BY <2>2, DueKinds, FocusIsAnIssue DEF Right
  <2> HIDE DEF l
  <2>5. Silent(Focus) => Location(l, Focus) = View(server, "detail")
    BY <2>3, <2>4 DEF View, Exists
  <2>6. Location(l, Focus) \in Held("detail")
    BY <2>3, HeldKinds
  <2> QED
    BY <2>5, <2>6, DueKinds DEF l
<1>4. ASSUME NEW k \in Keys
      PROVE  \/ cache'[k] = cache[k] /\ k \notin MountedOn(p)
             \/ cache'[k] = Mounts(cache[k])
             \/ \E v \in Due("detail") : k = "detail" /\ cache'[k] = Entry(v)
  BY <1>1, <1>3 DEF Goes, Steady
<1>5. \A v \in Due("detail") : Served(Entry(v)) /\ CurrentIn(Entry(v), Due("detail"))
  <2>1. \A v \in Due("detail") : v # None
    BY <1>2, KeyNames, DueKinds DEF Apart
  <2> QED
    BY <2>1 DEF Entry, Served, HasData, CurrentIn
<1>6. \A k \in Keys : Awaited(k) => Awaited(k)'
  BY <1>1, AwaitedStays
<1>7. \A k \in Keys : CurrentIn(cache[k], Due(k)) => CurrentIn(cache'[k], Due(k))
  BY <1>2, <1>4, <1>5
<1>8. Told' /\ Current'
  <2>1. \A k \in Keys : Awaited(k)' \/ CurrentIn(cache'[k], Due(k))
    BY <1>6, <1>7 DEF Fresh, Current
  <2> QED
    BY <1>1, <2>1, SameWorld
<1>9. Used'
  <2>1. \A k \in MountedOn(p) \cap Keys : Served(cache'[k])
    BY <1>2, <1>4, <1>5
  <2> QED
    BY <1>1, <2>1 DEF Used, Mounted, Served, Fetching, HasData
<1>10. Commenting'
  <2>1. cache'["timeline"].data = cache["timeline"].data
    BY <1>2, <1>4, KeyNames
  <2> QED
    BY <1>1, <2>1 DEF Fresh, Commenting, Exists, InFlight, HasData
<1>11. Offline'
  BY <1>1 DEF Offline
<1> QED
  BY <1>8, <1>9, <1>10, <1>11 DEF Fresh

LEMMA DropIsFresh ==
    ASSUME Typed, Fresh, Steady, Drop
    PROVE  Fresh'
PROOF
<1>1. /\ UNCHANGED <<server, cache, page, muts>> /\ conn' = "down" /\ wire' = <<>>
      /\ Unmounted = {}
  BY DEF Drop, Steady
<1>2. Told' /\ Current'
  BY <1>1 DEF Told, Current, Awaited
<1>3. Used' /\ Commenting'
  BY <1>1 DEF Fresh, Used, Mounted, Commenting, InFlight, Exists
<1>4. Offline'
  <2>1. page # "aside"
    <3>1. page = "aside" => "list" \in Unmounted
      BY KeyNames DEF Unmounted, Mounted, MountedOn, Typed, CacheOK
    <3> QED
      BY <1>1, <3>1
  <2>2. page # "issue" => Blank(cache["timeline"])
    <3>1. page \in {"list", "issue", "aside"}
      BY PagesAreKnown DEF Typed
    <3>2. page # "issue" => ~Mounted("timeline")
      BY <3>1 DEF Mounted, MountedOn
    <3>3. ~Mounted("timeline") => Blank(cache["timeline"])
      BY <1>1, KeyNames DEF Unmounted, Blank
    <3> QED
      BY <3>2, <3>3
  <2> QED
    BY <1>1, <2>1, <2>2 DEF Offline
<1> QED
  BY <1>2, <1>3, <1>4 DEF Fresh

-----------------------------------------------------------------------------
(* Mutations leave what is shown current, or to be fetched *)

LEMMA PatchedDetailServes ==
    ASSUME NEW q, WellFormed(q, Held("detail")), NEW i, NEW s \in Statuses, Served(q)
    PROVE  Served(PatchedDetail(q, i, s))
PROOF
<1>1. Apart(Held("detail"))
  BY HeldIsApart, KeyNames
<1>2. CASE i = Focus /\ HasData(q)
  <2> DEFINE v == IF q.data = Gone THEN Gone ELSE s
  <2>1. q.data \in Held("detail")
    BY <1>2 DEF WellFormed, EntryOf, HasData
  <2>2. v \in Held("detail")
    BY <2>1, HeldKinds
  <2> HIDE DEF v
  <2>3. Served(Put(q, v))
    BY <1>1, <2>2, PutServes
  <2> QED
    BY <1>2, <2>3 DEF PatchedDetail, v
<1>3. CASE ~(i = Focus /\ HasData(q))
  BY <1>3 DEF PatchedDetail
<1> QED
  BY <1>2, <1>3

LEMMA NewServes ==
    ASSUME NEW k \in Keys, NEW R
    PROVE  (Mounted(k) => Served(New(k))) /\ CurrentIn(New(k), R)
PROOF
<1>1. Apart(Held(k)) /\ WellFormed(Entry(None), Held(k))
  BY HeldIsApart, NewEntry
<1>2. Served(Mounts(Entry(None)))
  BY <1>1, MountsIsWellFormed
<1>3. CurrentIn(Entry(None), R) /\ CurrentIn(Mounts(Entry(None)), R)
  BY <1>1, NewEntry
<1> QED
  BY <1>2, <1>3 DEF New

\* A write after a cancel.
LEMMA CancelledPutServes ==
    ASSUME NEW k \in Keys, Typed, NEW v \in Held(k)
    PROVE  Served(Put(Cancel(cache[k]), v)) /\ HasData(Put(Cancel(cache[k]), v))
PROOF
<1>1. WellFormed(cache[k], Held(k)) /\ Apart(Held(k))
  BY EntryIsTyped DEF Typed
<1>2. WellFormed(Cancel(cache[k]), Held(k))
  BY <1>1, CancelIsWellFormed
<1> QED
  BY <1>1, <1>2, PutServes

LEMMA MutateIsFresh ==
    ASSUME Typed, Fresh, Calm, NEW m \in Slots, NEW r \in Requests \cup Batches, Mutate(m, r)
    PROVE  Fresh'
PROOF
<1> DEFINE u == [req |-> r, phase |-> "sent", saved |-> Saved(cache, r)]
<1>1. /\ Evolves /\ UNCHANGED <<server, page, conn, wire>>
      /\ muts' = [muts EXCEPT ![m] = u] /\ cache' = Optimistic(cache, r)
      /\ page # "aside" /\ (~OnIssues(r) => page = "issue")
  BY MutateIsTyped DEF Mutate
<1>2. u \in Mutation /\ u.req = r
  BY SavedIsHeld DEF Mutation
<1> HIDE DEF u
<1>3. /\ \A k \in Slots : muts'[k] = IF k = m THEN u ELSE muts[k]
      /\ u # None /\ ~InFlight(m)
  BY <1>1, <1>2, MutateKnows, NoneIsNothing DEF Typed, MutsOK
<1>4. /\ Others(cache, cache', Touched(r))
      /\ "list" \in Touched(r) => \E p \in Homes : cache'["list"] = Put(Cancel(cache["list"]), p)
      /\ "detail" \in Touched(r) => cache'["detail"] =
            IF r.op = "delete" THEN New("detail") ELSE PatchedDetail(cache["detail"], Focus, r.to)
      /\ "timeline" \in Touched(r) => \E t \in Timeline : cache'["timeline"] = Put(Cancel(cache["timeline"]), t)
  BY <1>1, MutateKnows, OptimisticIsTyped DEF Typed
<1>5. ASSUME NEW k \in Keys
      PROVE  Awaited(k)' \/ CurrentIn(cache'[k], Due(k))
  <2>1. CASE k \in SettledKeys(r)
    <3>1. InFlight(m)' /\ muts'[m].req = r
      BY <1>2, <1>3 DEF InFlight
    <3> QED
      BY <2>1, <3>1 DEF Awaited
  <2>2. CASE k \notin SettledKeys(r) /\ k \in Touched(r)
    <3>1. k = "detail" /\ r.op = "delete"
      BY <2>2, SettledKinds
    <3> QED
      BY <1>4, <2>2, <3>1, NewServes
  <2>3. CASE k \notin Touched(r)
    <3>1. cache'[k] = cache[k]
      BY <1>4, <2>3 DEF Others
    <3>2. Awaited(k) => Awaited(k)'
      BY <1>1, <1>3 DEF Awaited, InFlight, Exists
    <3> QED
      BY <3>1, <3>2 DEF Fresh, Current
  <2> QED
    BY <2>1, <2>2, <2>3
<1>6. Told' /\ Current'
  BY <1>1, <1>5, SameWorld
<1>7. Used'
  <2>1. ASSUME NEW k \in Keys, Mounted(k)
        PROVE  Served(cache'[k])
    <3>1. Served(cache[k])
      BY <2>1 DEF Fresh, Used
    <3>2. CASE k \notin Touched(r)
      BY <1>4, <3>1, <3>2 DEF Others
    <3>3. CASE k = "list" /\ k \in Touched(r)
      BY <1>4, <3>3, HeldKinds, CancelledPutServes
    <3>4. CASE k = "timeline" /\ k \in Touched(r)
      BY <1>4, <3>4, HeldKinds, CancelledPutServes
    <3>5. CASE k = "detail" /\ k \in Touched(r)
      <4>1. r.op = "delete" \/ r.to \in Statuses
        BY <3>5, RequestKinds DEF Touched
      <4>2. r.op = "delete" => Served(cache'[k])
        BY <1>4, <2>1, <3>5, NewServes
      <4>3. r.op # "delete" => Served(cache'[k])
        BY <1>4, <3>1, <3>5, <4>1, PatchedDetailServes, EntryIsTyped DEF Typed
      <4> QED
        BY <4>2, <4>3
    <3> QED
      BY <3>2, <3>3, <3>4, <3>5, KeyNames
  <2> QED
    BY <1>1, <2>1 DEF Used, Mounted, Served, Fetching, HasData
<1>8. HasData(cache["timeline"]) => HasData(cache'["timeline"])
  <2>1. CASE "timeline" \in Touched(r)
    BY <1>4, <2>1, HeldKinds, KeyNames, CancelledPutServes
  <2>2. CASE "timeline" \notin Touched(r)
    BY <1>4, <2>2, KeyNames DEF Others
  <2> QED
    BY <2>1, <2>2
<1>9. Commenting'
  <2>1. ~OnIssues(r) => HasData(cache["timeline"])
    BY MutateKnows
  <2> QED
    BY <1>1, <1>2, <1>3, <1>8, <2>1 DEF Fresh, Commenting, Exists, InFlight, HasData
<1>10. Offline'
  <2>1. page # "issue" => cache'["timeline"] = cache["timeline"]
    <3>1. page # "issue" => "timeline" \notin Touched(r)
      BY <1>1, SettledKinds, KeyNames
    <3> QED
      BY <1>4, <3>1, KeyNames DEF Others
  <2> QED
    BY <1>1, <2>1 DEF Fresh, Offline, Exists, Blank, HasData, Fetching
<1> QED
  BY <1>6, <1>7, <1>9, <1>10 DEF Fresh

LEMMA SettleIsFresh ==
    ASSUME Typed, Fresh, Steady, NEW m \in Slots, Settles(m)
    PROVE  Fresh'
PROOF
<1> DEFINE r == muts[m].req
           K == SettledKeys(r)
<1>1. /\ Evolves /\ UNCHANGED <<server, conn, wire>> /\ InFlight(m) /\ Safe(K, TRUE)
      /\ r \in Requests \cup Batches /\ MutOK(muts[m])
  BY SettleIsTyped, MutationIsTyped DEF Settles
<1>2. \A k \in Slots : muts'[k] = IF k = m THEN None ELSE muts[k]
  BY DEF Typed, MutsOK, Settles
<1>3. page' = page \/ (page' = "list" /\ page = "issue" /\ ~Exists(server, Focus))
  <2>1. ASSUME r.op = "delete", TheId(r) = Focus, muts[m].phase = "done"
        PROVE  ~Exists(server, Focus)
    BY <1>1, <2>1, StatusesAreNamed DEF MutOK, Exists
  <2> QED
    BY <2>1 DEF Settles
<1>4. PICK d : Writes(d, r) /\ cache' = Invalidated(d, K)
  BY DEF Settles
<1> HIDE DEF K
<1>5. \A k \in Keys : cache'[k] = IF k \in K THEN Invalidate(d[k], Mounted(k)) ELSE cache[k]
  <2>1. \A k \in Keys : cache'[k] = IF k \in K THEN Invalidate(d[k], Mounted(k)) ELSE d[k]
    BY <1>4, InvalidatedIsTyped DEF Writes
  <2> QED
    BY <1>4, <2>1 DEF Writes, K
<1>6. ASSUME NEW k \in Keys, k \in K
      PROVE  /\ Mounted(k) => Served(cache'[k])
             /\ HasData(cache[k]) => HasData(cache'[k])
             /\ \A R : CurrentIn(cache'[k], R)
  <2>1. WellFormed(d[k], Held(k)) /\ Apart(Held(k)) /\ d[k].fetch = cache[k].fetch
        /\ (HasData(cache[k]) => HasData(d[k]))
    BY <1>4, EntryIsTyped DEF Writes
  <2>2. d[k].fetch = "read" => Mounted(k) /\ HasData(d[k])
    BY <1>1, <1>6, <2>1, SafeIs
  <2>3. \A R : CurrentIn(Invalidate(d[k], Mounted(k)), R)
    BY <2>1, <2>2, InvalidateIsCurrent
  <2>4. Served(Invalidate(d[k], TRUE)) /\ Invalidate(d[k], Mounted(k)).data = d[k].data
    BY <2>1, InvalidateServes, InvalidateIsWellFormed
  <2>5. cache'[k] = Invalidate(d[k], Mounted(k))
    BY <1>5, <1>6
  <2>6. Mounted(k) => Served(cache'[k])
    BY <2>4, <2>5 DEF Invalidate
  <2> QED
    BY <2>1, <2>3, <2>4, <2>5, <2>6 DEF HasData
<1>7. ASSUME NEW k \in Keys
      PROVE  Awaited(k)' \/ CurrentIn(cache'[k], Due(k))
  <2>1. CASE k \in K
    BY <1>6, <2>1
  <2>2. CASE k \notin K
    <3>1. Awaited(k) => Awaited(k)'
      BY <1>1, <1>2, <2>2 DEF Awaited, InFlight, Exists, K
    <3> QED
      BY <1>5, <2>2, <3>1 DEF Fresh, Current
  <2> QED
    BY <2>1, <2>2
<1>8. Told' /\ Current'
  BY <1>1, <1>7, SameWorld
<1>9. Used'
  <2>1. \A k \in Keys : Mounted(k) => Served(cache'[k])
    BY <1>5, <1>6 DEF Fresh, Used
  <2>2. \A k \in Keys : Mounted(k)' => Mounted(k)
    BY <1>3 DEF Mounted, MountedOn
  <2> QED
    BY <2>1, <2>2 DEF Used, Served, Fetching, HasData
<1>10. Commenting'
  <2>1. HasData(cache["timeline"]) => HasData(cache'["timeline"])
    BY <1>5, <1>6, KeyNames
  <2> QED
    BY <1>1, <1>2, <2>1 DEF Fresh, Commenting, Exists, InFlight, HasData
<1>11. Offline'
  <2>1. ASSUME Exists(server, Focus), Blank(cache["timeline"])
        PROVE  cache'["timeline"] = cache["timeline"]
    <3>1. OnIssues(r)
      BY <1>1, <2>1 DEF Fresh, Commenting, Blank
    <3>2. "timeline" \notin K
      BY <1>1, <3>1, SettledKinds DEF K
    <3> QED
      BY <1>5, <3>2, KeyNames
  <2> QED
    BY <1>1, <1>3, <2>1 DEF Fresh, Offline, Exists, Blank, HasData, Fetching
<1> QED
  BY <1>8, <1>9, <1>10, <1>11 DEF Fresh

-----------------------------------------------------------------------------
(* Changes of the server are announced *)

\* The events after a request: those that were on their way, and its own.
LEMMA EventsAfter ==
    ASSUME Typed, NEW r, NEW evs, Announces(evs, r, Targets(server, r)), wire' = wire \o evs
    PROVE  /\ \A n \in DOMAIN wire : n \in DOMAIN wire' /\ wire'[n] = wire[n]
           /\ \A n \in DOMAIN evs : \E m \in DOMAIN wire' :
                 wire'[m] = evs[n] /\ \A k \in DOMAIN wire : k < m
           /\ \A n \in DOMAIN wire' : \/ n \in DOMAIN wire /\ wire'[n] = wire[n]
                                      \/ \E m \in DOMAIN evs : wire'[n] = evs[m]
           /\ \A x \in Targets(server, r) : \E n \in DOMAIN evs : evs[n].id = x
           /\ \A n \in DOMAIN evs : /\ evs[n] \in Events /\ evs[n].type = EventType(r)
                                    /\ evs[n].id \in Targets(server, r) /\ evs[n].to = r.to
PROOF
<1>1. wire \in Seq(Events) /\ evs \in Seq(Events)
  BY DEF Typed, WireOK, Announces
<1>2. /\ Len(wire) \in Nat /\ Len(evs) \in Nat
      /\ DOMAIN wire = 1 .. Len(wire) /\ DOMAIN evs = 1 .. Len(evs)
      /\ DOMAIN wire' = 1 .. Len(wire) + Len(evs)
      /\ \A n \in DOMAIN wire : wire'[n] = wire[n]
      /\ \A n \in DOMAIN evs : Len(wire) + n \in DOMAIN wire' /\ wire'[Len(wire) + n] = evs[n]
      /\ \A n \in DOMAIN wire' :
            n \in DOMAIN wire \/ (n - Len(wire) \in DOMAIN evs /\ wire'[n] = evs[n - Len(wire)])
  BY <1>1, LongerWire
<1>3. \A n \in DOMAIN wire : n \in DOMAIN wire' /\ wire'[n] = wire[n]
  BY <1>2
<1>4. \A n \in DOMAIN evs : \E m \in DOMAIN wire' : wire'[m] = evs[n] /\ \A k \in DOMAIN wire : k < m
  <2> SUFFICES ASSUME NEW n \in DOMAIN evs
               PROVE  \E m \in DOMAIN wire' : wire'[m] = evs[n] /\ \A k \in DOMAIN wire : k < m
    OBVIOUS
  <2>1. \A k \in DOMAIN wire : k < Len(wire) + n
    BY <1>2
  <2> QED
    BY <1>2, <2>1
<1>5. \A n \in DOMAIN evs : evs[n] \in Events
  BY <1>1
<1> QED
  BY <1>2, <1>3, <1>4, <1>5 DEF Announces

LEMMA IssueEventKinds ==
    ASSUME NEW e \in Events
    PROVE  /\ ~IsComment(e) => e.id \in Issues /\ e.type \in {"issue:created", "issue:updated", "issue:deleted"}
           /\ IsComment(e) <=> e \in CommentEvents
           /\ IsComment(e) <=> e.type \in {"comment:created", "comment:updated", "comment:deleted"}
           /\ e.type \in {"issue:created", "issue:updated"} => e.to \in Statuses
BY DEF Events, IssueEvents, CommentEvents, IsComment

LEMMA CommittedIsTold ==
    ASSUME Typed, Fresh, Evolves, NEW r \in Requests \cup Batches, Commits(r),
           NEW evs, Announces(evs, r, Targets(server, r)), wire' = wire \o evs
    PROVE  Told'
PROOF
<1>1. /\ \A n \in DOMAIN wire : n \in DOMAIN wire' /\ wire'[n] = wire[n]
      /\ \A n \in DOMAIN evs : \E m \in DOMAIN wire' : wire'[m] = evs[n] /\ \A k \in DOMAIN wire : k < m
      /\ \A n \in DOMAIN wire' : \/ n \in DOMAIN wire /\ wire'[n] = wire[n]
                                 \/ \E m \in DOMAIN evs : wire'[n] = evs[m]
      /\ \A x \in Targets(server, r) : \E n \in DOMAIN evs : evs[n].id = x
      /\ \A n \in DOMAIN evs : /\ evs[n] \in Events /\ evs[n].type = EventType(r)
                               /\ evs[n].id \in Targets(server, r) /\ evs[n].to = r.to
  BY EventsAfter
<1>2. ASSUME NEW n \in DOMAIN wire, ~IsComment(wire[n])
      PROVE  /\ Later(n, wire[n].id)' \/ server'.issues[wire[n].id] = Result(wire[n])
             /\ wire[n].type = "issue:deleted" => server'.issues[wire[n].id] = "deleted"
  <2> DEFINE e == wire[n]
             i == e.id
  <2>1. e \in Events /\ i \in Issues /\ Tells(n, e)
    BY <1>2, IssueEventKinds DEF Typed, WireOK, Fresh, Told
  <2>2. e.type = "issue:deleted" => server'.issues[i] = "deleted"
    BY <1>2, <2>1, StatusesAreNamed DEF Tells, Evolves, Exists
  <2>3. CASE OnIssues(r) /\ i \in Targets(server, r)
    <3>1. PICK x \in DOMAIN evs : evs[x].id = i
      BY <1>1, <2>3
    <3>2. ~IsComment(evs[x])
      BY <1>1, <2>1, <2>3, EventTypes, IssueEventKinds DEF IssueEvents, IsComment
    <3>3. PICK m \in DOMAIN wire' : wire'[m] = evs[x] /\ \A k \in DOMAIN wire : k < m
      BY <1>1
    <3>4. Later(n, i)'
      BY <3>1, <3>2, <3>3 DEF Later, About
    <3> QED
      BY <2>2, <3>4
  <2>4. CASE ~(OnIssues(r) /\ i \in Targets(server, r))
    <3>1. server'.issues[i] = server.issues[i]
      BY <2>1, <2>4 DEF Commits
    <3>2. Later(n, i) => Later(n, i)'
      BY <1>1 DEF Later
    <3> QED
      BY <1>2, <2>1, <2>2, <3>1, <3>2 DEF Tells
  <2> QED
    BY <2>3, <2>4
<1>3. ASSUME NEW n \in DOMAIN evs, ~IsComment(evs[n])
      PROVE  server'.issues[evs[n].id] = Result(evs[n])
  <2> DEFINE e == evs[n]
             i == e.id
  <2>1. e \in Events /\ e.type = EventType(r) /\ i \in Targets(server, r) /\ e.to = r.to /\ i \in Issues
    BY <1>1, <1>3, IssueEventKinds
  <2>2. OnIssues(r)
    <3>1. ~OnIssues(r) => i \in Comments
      BY <2>1, TargetKinds, RequestKinds
    <3> QED
      BY <2>1, <3>1, NamesAreDistinct
  <2>3. server'.issues[i] = IF r.to = None THEN "deleted" ELSE r.to
    BY <2>1, <2>2 DEF Commits
  <2>4. e.type = "issue:deleted" <=> r.to = None
    BY <2>1, <2>2, EventTypes, RequestKinds, StatusesAreNamed DEF OnIssues
  <2> QED
    BY <2>1, <2>3, <2>4 DEF Result
<1>4. \A n \in DOMAIN wire' : ~IsComment(wire'[n]) =>
         /\ Later(n, wire[n].id)' \/ server'.issues[wire'[n].id] = Result(wire'[n])
         /\ wire'[n].type = "issue:deleted" => server'.issues[wire'[n].id] = "deleted"
  <2> SUFFICES ASSUME NEW n \in DOMAIN wire', ~IsComment(wire'[n])
               PROVE  /\ Later(n, wire[n].id)' \/ server'.issues[wire'[n].id] = Result(wire'[n])
                      /\ wire'[n].type = "issue:deleted" => server'.issues[wire'[n].id] = "deleted"
    OBVIOUS
  <2>1. CASE n \in DOMAIN wire /\ wire'[n] = wire[n]
    <3>1. Later(n, wire[n].id)' = \E m \in DOMAIN wire' : n < m /\ About(wire'[m], wire'[n].id)
      BY DEF Later
    <3>2. \A i : Later(n, i)' = \E m \in DOMAIN wire' : n < m /\ About(wire'[m], i)
      BY DEF Later
    <3> QED
      BY <1>2, <2>1, <3>1, <3>2
  <2>2. CASE \E m \in DOMAIN evs : wire'[n] = evs[m]
    BY <1>3, <2>2 DEF Result
  <2> QED
    BY <1>1, <2>1, <2>2
<1> QED
  BY <1>4 DEF Told, Tells, Later, About, IsComment, Result

\* What was due to an entry that nobody is about to fetch is due to it still.
LEMMA DueAfterCommit ==
    ASSUME Typed, Fresh, Evolves, NEW r \in Requests \cup Batches, Commits(r),
           NEW evs, Announces(evs, r, Targets(server, r)), wire' = wire \o evs,
           NEW k \in Keys, ~Awaited(k)'
    PROVE  Due(k) \subseteq Due(k)'
PROOF
<1> DEFINE T == Targets(server, r)
<1>1. /\ \A n \in DOMAIN wire : n \in DOMAIN wire' /\ wire'[n] = wire[n]
      /\ \A n \in DOMAIN evs : \E m \in DOMAIN wire' : wire'[m] = evs[n] /\ \A j \in DOMAIN wire : j < m
      /\ \A n \in DOMAIN wire' : \/ n \in DOMAIN wire /\ wire'[n] = wire[n]
                                 \/ \E m \in DOMAIN evs : wire'[n] = evs[m]
      /\ \A x \in T : \E n \in DOMAIN evs : evs[n].id = x
      /\ \A n \in DOMAIN evs : /\ evs[n] \in Events /\ evs[n].type = EventType(r)
                               /\ evs[n].id \in T /\ evs[n].to = r.to
  BY EventsAfter
<1> HIDE DEF T
<1>2. Homes \subseteq Homes' /\ Held("detail") \subseteq Held("detail")'
  <2>1. Held("list") = Homes /\ Held("list")' = Homes'
    BY DEF Held
  <2>2. Held("list") \subseteq Held("list")' /\ Held("detail") \subseteq Held("detail")'
    BY HeldGrows, KeyNames
  <2> QED
    BY <2>1, <2>2
<1>3. ASSUME NEW i \in Issues, OnIssues(r), i \in T
      PROVE  ~Silent(i)'
  <2>1. PICK x \in DOMAIN evs : evs[x].id = i
    BY <1>1, <1>3
  <2>2. ~IsComment(evs[x])
    BY <1>1, <1>3, EventTypes, IssueEventKinds DEF IssueEvents, IsComment
  <2>3. PICK m \in DOMAIN wire' : wire'[m] = evs[x]
    BY <1>1
  <2> QED
    BY <2>1, <2>2, <2>3 DEF Silent, About
<1>4. ASSUME NEW i \in Issues, ~(OnIssues(r) /\ i \in T)
      PROVE  /\ server'.issues[i] = server.issues[i] /\ (Silent(i)' => Silent(i)) /\ (Moving(i)' => Moving(i))
  <2>1. server'.issues[i] = server.issues[i]
    BY <1>4 DEF Commits, T
  <2>2. \A n \in DOMAIN evs : evs[n].id # i
    <3>1. i \notin T
      BY <1>4, TargetKinds, RequestKinds, NamesAreDistinct DEF T
    <3> QED
      BY <1>1, <3>1
  <2>3. Silent(i)' => Silent(i)
    BY <1>1 DEF Silent
  <2>4. Moving(i)' => Moving(i)
    BY <1>1, <2>2 DEF Moving, About
  <2> QED
    BY <2>1, <2>3, <2>4
<1>5. ASSUME NEW l \in Homes, NEW i \in Issues, Right(l, i), OnIssues(r), i \in T,
             Exists(server, i)', Moving(i)'
      PROVE  Holding(l, i) # {}
  <2>1. CASE r.op = "create"
    <3>1. server.issues[i] = "unborn" /\ EventType(r) = "issue:created"
      BY <1>5, <2>1, TargetKinds, EventTypes DEF T
    <3>2. PICK n \in DOMAIN wire' : About(wire'[n], i) /\ wire'[n].type = "issue:updated"
      BY <1>5 DEF Moving
    <3>3. n \in DOMAIN wire /\ wire[n].type = "issue:updated" /\ wire[n].id = i
      BY <1>1, <3>1, <3>2 DEF About
    <3>4. ~Young(i)
      BY <3>3 DEF Typed, WireOK, EventOK
    <3> QED
      BY <3>1, <3>4 DEF Young
  <2>2. CASE r.op # "create"
    <3>1. Exists(server, i) /\ ~Creating(i)
      BY <1>5, <2>2 DEF Commits, T
    <3>2. CASE Silent(i)
      BY <1>5, <3>1, <3>2 DEF Right, Exists
    <3>3. CASE ~Silent(i)
      <4>1. PICK n \in DOMAIN wire : About(wire[n], i)
        BY <3>3 DEF Silent
      <4>2. wire[n] \in Events /\ wire[n].id = i /\ Tells(n, wire[n]) /\ ~IsComment(wire[n])
        BY <4>1 DEF About, Typed, WireOK, Fresh, Told
      <4>3. wire[n].type # "issue:created"
        BY <3>1, <4>2 DEF Creating
      <4>4. wire[n].type # "issue:deleted"
        BY <3>1, <4>2, StatusesAreNamed DEF Tells, Exists
      <4>5. Moving(i)
        BY <4>1, <4>2, <4>3, <4>4, IssueEventKinds DEF Moving
      <4> QED
        BY <1>5, <3>1, <4>5 DEF Right
    <3> QED
      BY <3>2, <3>3
  <2> QED
    BY <2>1, <2>2
<1>6. CASE k = "list"
  <2>1. ASSUME NEW l \in Homes, NEW i \in Issues, Right(l, i)
        PROVE  Right(l, i)'
    <3>1. CASE OnIssues(r) /\ i \in T
      BY <1>3, <1>5, <2>1, <3>1 DEF Right, Holding
    <3>2. CASE ~(OnIssues(r) /\ i \in T)
      BY <1>4, <2>1, <3>2 DEF Right, Holding, Exists
    <3> QED
      BY <3>1, <3>2
  <2>2. \A l \in Homes : (\A i \in Issues : Right(l, i)) => (\A i \in Issues : Right(l, i)')
    BY <2>1
  <2> QED
    BY <1>2, <1>6, <2>2 DEF Due
<1>7. CASE k = "detail"
  <2>1. ASSUME Silent(Focus)'
        PROVE  Silent(Focus) /\ View(server, "detail")' = View(server, "detail")
    <3>1. ~(OnIssues(r) /\ Focus \in T)
      BY <1>3, <2>1, FocusIsAnIssue
    <3>2. Silent(Focus) /\ server'.issues[Focus] = server.issues[Focus]
      BY <1>4, <2>1, <3>1, FocusIsAnIssue
    <3> QED
      BY <3>2 DEF View, Exists
  <2> QED
    BY <1>2, <1>7, <2>1 DEF Due
<1>8. CASE k = "timeline"
  <2>1. Exists(server, Focus)' /\ \A n \in DOMAIN wire' : ~IsComment(wire'[n])
    BY <1>8 DEF Awaited
  <2>2. OnIssues(r)
    <3> SUFFICES ASSUME ~OnIssues(r)
                 PROVE  FALSE
      OBVIOUS
    <3>1. PICK x \in T : TRUE
      BY DEF Commits, T
    <3>2. PICK n \in DOMAIN evs : evs[n].id = x
      BY <1>1
    <3>3. PICK m \in DOMAIN wire' : wire'[m] = evs[n]
      BY <1>1
    <3>4. x \in Comments
      BY TargetKinds, RequestKinds DEF T
    <3>5. ~IsComment(evs[n]) => evs[n].id \in Issues
      BY <1>1, IssueEventKinds
    <3> QED
      BY <2>1, <3>2, <3>3, <3>4, <3>5, NamesAreDistinct
  <2>3. server'.comments = server.comments /\ Exists(server, Focus)
    BY <2>1, <2>2, YouthPasses, FocusIsAnIssue DEF Commits
  <2>4. View(server, "timeline")' = View(server, "timeline")
    BY <2>1, <2>3 DEF View, Exists
  <2> QED
    BY <1>8, <2>4 DEF Due
<1> QED
  BY <1>6, <1>7, <1>8, KeyNames

LEMMA CommittedIsFresh ==
    ASSUME Typed, Fresh, Steady, NEW r \in Requests \cup Batches, Commits(r), SameRequests,
           UNCHANGED <<cache, page, conn>>
    PROVE  Fresh'
PROOF
<1>1. Evolves
  BY CommitEvolves
<1>2. conn \in {"down", "up"} /\ (conn = "up" \/ (wire = <<>> /\ wire' = wire))
  BY DEF Commits, Steady, Typed, WireOK
<1>3. Exists(server, Focus)' => Exists(server, Focus)
  BY <1>1, YouthPasses, FocusIsAnIssue
<1>4. Told' /\ Current'
  <2>1. CASE conn = "down"
    <3>1. conn' = "down" /\ wire' = <<>>
      BY <1>2, <2>1
    <3> QED
      BY <3>1 DEF Told, Current, Awaited
  <2>2. CASE conn = "up"
    <3>1. PICK evs : Announces(evs, r, Targets(server, r)) /\ wire' = wire \o evs
      BY <2>2 DEF Commits
    <3>2. Told'
      BY <1>1, <3>1, CommittedIsTold
    <3>3. ASSUME NEW k \in Keys, ~Awaited(k)'
          PROVE  CurrentIn(cache[k], Due(k))'
      <4>1. ~Awaited(k)
        <5>1. \A n \in DOMAIN wire : n \in DOMAIN wire' /\ wire'[n] = wire[n]
          BY <3>1, EventsAfter
        <5> QED
          BY <1>3, <3>3, <5>1 DEF Awaited, SameRequests, InFlight
      <4>2. CurrentIn(cache[k], Due(k)) /\ Due(k) \subseteq Due(k)'
        BY <1>1, <3>1, <3>3, <4>1, DueAfterCommit DEF Fresh, Current
      <4>3. CurrentIn(cache[k], Due(k)')
        BY <4>2, CurrentGrows
      <4> QED
        BY <4>3 DEF CurrentIn, HasData
    <3> QED
      BY <3>2, <3>3 DEF Current
  <2> QED
    BY <1>2, <2>1, <2>2
<1>5. Used' /\ Offline'
  BY <1>3 DEF Fresh, Used, Mounted, Offline
<1>6. Commenting'
  BY <1>3 DEF Fresh, Commenting, SameRequests, InFlight
<1> QED
  BY <1>4, <1>5, <1>6 DEF Fresh

LEMMA HandleIsFresh ==
    ASSUME Typed, Fresh, Steady, Calm, NEW m \in Slots, Handle(m)
    PROVE  Fresh'
PROOF
<1>1. Handles(m) /\ SameRequests /\ Evolves /\ muts[m].req \in Requests \cup Batches
  BY HandleIs, HandleIsTyped, MutationIsTyped DEF Handles
<1>2. CASE Commits(muts[m].req)
  BY <1>1, <1>2, CommittedIsFresh DEF Handles
<1>3. CASE UNCHANGED <<server, wire>>
  <2>1. UNCHANGED <<cache, page, conn>>
    BY <1>1 DEF Handles
  <2>2. \A k \in Keys : Awaited(k) => Awaited(k)'
    BY <1>1, <1>3, <2>1 DEF Awaited, SameRequests, InFlight, Exists
  <2>3. Told' /\ Current'
    <3>1. \A k \in Keys : Awaited(k)' \/ CurrentIn(cache'[k], Due(k))
      BY <2>1, <2>2 DEF Fresh, Current
    <3> QED
      BY <1>1, <1>3, <3>1, SameWorld
  <2>4. Used' /\ Offline' /\ Commenting'
    BY <1>1, <1>3, <2>1 DEF Fresh, Used, Mounted, Offline, Commenting, SameRequests, InFlight, Exists
  <2> QED
    BY <2>3, <2>4 DEF Fresh
<1> QED
  BY <1>1, <1>2, <1>3 DEF Handles

-----------------------------------------------------------------------------
(* Events tell what has become of an issue *)

\* The wire without its first event.
LEMMA TheRest ==
    ASSUME Typed, wire # <<>>, wire' = Tail(wire)
    PROVE  /\ DOMAIN wire \subseteq Nat /\ DOMAIN wire' \subseteq Nat
           /\ \A n \in DOMAIN wire' : n + 1 \in DOMAIN wire /\ wire'[n] = wire[n + 1]
           /\ \A n \in DOMAIN wire : n = 1 \/ (n - 1 \in DOMAIN wire' /\ wire'[n - 1] = wire[n])
PROOF
<1>1. wire \in Seq(Events)
  BY DEF Typed, WireOK
<1>2. /\ Len(wire) \in Nat \ {0} /\ DOMAIN wire = 1 .. Len(wire)
      /\ Len(wire') = Len(wire) - 1 /\ DOMAIN wire' = 1 .. Len(wire) - 1
      /\ \A n \in 1 .. Len(wire) - 1 : wire'[n] = wire[n + 1]
  BY <1>1
<1>3. \A n \in DOMAIN wire' : n + 1 \in DOMAIN wire /\ wire'[n] = wire[n + 1]
  BY <1>2
<1>4. \A n \in DOMAIN wire : n = 1 \/ (n - 1 \in DOMAIN wire' /\ wire'[n - 1] = wire[n])
  BY <1>2
<1> QED
  BY <1>2, <1>3, <1>4

LEMMA DeliveredIsTold ==
    ASSUME Typed, Fresh, Deliver
    PROVE  Told'
PROOF
<1>1. wire # <<>> /\ wire' = Tail(wire) /\ UNCHANGED server
  BY DeliverIs
<1>2. /\ DOMAIN wire \subseteq Nat /\ DOMAIN wire' \subseteq Nat
      /\ \A n \in DOMAIN wire' : n + 1 \in DOMAIN wire /\ wire'[n] = wire[n + 1]
      /\ \A n \in DOMAIN wire : n = 1 \/ (n - 1 \in DOMAIN wire' /\ wire'[n - 1] = wire[n])
  BY <1>1, TheRest
<1>3. ASSUME NEW n \in DOMAIN wire', NEW i, Later(n + 1, i)
      PROVE  Later(n, i)'
  <2>1. PICK m \in DOMAIN wire : n + 1 < m /\ About(wire[m], i)
    BY <1>3 DEF Later
  <2>2. n \in Nat /\ m \in Nat
    BY <1>2
  <2>3. m # 1 /\ n < m - 1
    BY <2>1, <2>2
  <2>4. m - 1 \in DOMAIN wire' /\ wire'[m - 1] = wire[m]
    BY <1>2, <2>3
  <2>5. About(wire'[m - 1], i)
    BY <2>1, <2>4
  <2> QED
    BY <2>3, <2>4, <2>5 DEF Later, About, IsComment
<1>4. ASSUME NEW n \in DOMAIN wire', ~IsComment(wire'[n])
      PROVE  /\ Later(n, wire[n].id)' \/ server'.issues[wire'[n].id] = Result(wire'[n])
             /\ wire'[n].type = "issue:deleted" => server'.issues[wire'[n].id] = "deleted"
  <2>1. n + 1 \in DOMAIN wire /\ wire'[n] = wire[n + 1]
    BY <1>2
  <2>2. Tells(n + 1, wire[n + 1])
    BY <2>1 DEF Fresh, Told
  <2>3. \A i : Later(n, i)' = \E m \in DOMAIN wire' : n < m /\ About(wire'[m], i)
    BY DEF Later
  <2>4. Later(n, wire[n].id)' = \E m \in DOMAIN wire' : n < m /\ About(wire'[m], wire'[n].id)
    BY DEF Later
  <2>5. Later(n + 1, wire[n + 1].id) => Later(n, wire[n].id)'
    BY <1>3, <2>1, <2>3, <2>4
  <2> QED
    BY <1>1, <1>4, <2>1, <2>2, <2>5 DEF Tells
<1> QED
  BY <1>4 DEF Told, Tells, Later, About, IsComment, Result

\* Of other issues than the one an event is about, the same is due.
LEMMA OtherEvents ==
    ASSUME Typed, wire # <<>>, wire' = Tail(wire), UNCHANGED server, NEW i, ~About(wire[1], i)
    PROVE  (Silent(i)' => Silent(i)) /\ (Moving(i)' => Moving(i))
PROOF
<1>1. /\ \A n \in DOMAIN wire' : n + 1 \in DOMAIN wire /\ wire'[n] = wire[n + 1]
      /\ \A n \in DOMAIN wire : n = 1 \/ (n - 1 \in DOMAIN wire' /\ wire'[n - 1] = wire[n])
  BY TheRest
<1>2. ASSUME Silent(i)', NEW n \in DOMAIN wire
      PROVE  ~About(wire[n], i)
  <2>1. CASE n = 1
    BY <2>1
  <2>2. CASE n # 1
    <3>1. n - 1 \in DOMAIN wire' /\ wire'[n - 1] = wire[n]
      BY <1>1, <2>2
    <3> QED
      BY <1>2, <3>1 DEF Silent, About, IsComment
  <2> QED
    BY <2>1, <2>2
<1> QED
  BY <1>1, <1>2 DEF Silent, Moving, About, IsComment

\* What the list holds after an event about an issue.
LEMMA ListAfterEvent ==
    ASSUME Typed, Fresh, Deliver, Evolves, NEW e, e = wire[1], ~IsComment(e), NEW i, i = e.id,
           NEW l \in Due("list"), NEW p \in Homes, NEW S, Places(l, p, i, S),
           e.type = "issue:created" => S = {e.to},
           e.type = "issue:updated" => S = IF Holding(l, i) = {} THEN {} ELSE {e.to},
           e.type = "issue:deleted" => S = {}
    PROVE  p \in Due("list")'
PROOF
<1>1. /\ wire # <<>> /\ wire' = Tail(wire) /\ UNCHANGED server /\ 1 \in DOMAIN wire
      /\ e \in Events /\ EventOK(e)
  BY DeliverIs
<1>2. Tells(1, e) /\ i \in Issues
  BY <1>1, IssueEventKinds DEF Fresh, Told
<1>3. ASSUME NEW j \in Issues \ {i}
      PROVE  Right(p, j)'
  <2>1. Holding(p, j) = Holding(l, j)
    BY SameCellsHold DEF Places
  <2>2. Right(l, j)
    BY DueKinds
  <2>3. (Silent(j)' => Silent(j)) /\ (Moving(j)' => Moving(j))
    BY <1>1, OtherEvents DEF About
  <2> QED
    BY <1>1, <2>1, <2>2, <2>3 DEF Right, Holding, Exists
<1>4. Holding(p, i) = S
  BY DEF Places
<1>5. Silent(i)' => server.issues[i] = Result(e)
  <2>1. Later(1, i) => ~Silent(i)'
    <3> SUFFICES ASSUME Later(1, i)
                 PROVE  ~Silent(i)'
      OBVIOUS
    <3>1. PICK m \in DOMAIN wire : 1 < m /\ About(wire[m], i)
      BY DEF Later
    <3>2. m - 1 \in DOMAIN wire' /\ wire'[m - 1] = wire[m]
      BY <1>1, <3>1, TheRest
    <3> QED
      BY <3>1, <3>2 DEF Silent, About, IsComment
  <2> QED
    BY <1>2, <2>1 DEF Tells
<1>6. Right(p, i)'
  <2>1. CASE e.type = "issue:created"
    <3>1. S = {e.to} /\ server.issues[i] = e.to /\ e.to \in Statuses
      BY <1>1, <2>1, IssueEventKinds DEF EventOK
    <3> QED
      BY <1>1, <1>4, <3>1 DEF Right, Holding
  <2>2. CASE e.type = "issue:updated"
    <3>1. Result(e) = e.to /\ e.to \in Statuses
      BY <1>1, <2>2, IssueEventKinds DEF Result
    <3>2. Moving(i)
      BY <1>1, <2>2 DEF Moving, About
    <3>3. Exists(server, i) => S = {e.to}
      BY <1>2, <2>2, <3>2, DueKinds DEF Right
    <3>4. Silent(i)' => Exists(server, i)
      BY <1>5, <3>1 DEF Exists
    <3>5. Silent(i)' => S = {server.issues[i]} \cap Statuses
      BY <1>5, <3>1, <3>3, <3>4
    <3>6. \A x : x = S => (Holding(p, i) = x)
      BY <1>4
    <3> QED
      BY <1>1, <1>4, <3>3, <3>5 DEF Right, Holding, Exists
  <2>3. CASE e.type = "issue:deleted"
    <3>1. server.issues[i] = "deleted" /\ S = {}
      BY <1>2, <2>3 DEF Tells
    <3> QED
      BY <1>1, <1>4, <3>1, StatusesAreNamed DEF Right, Holding, Exists
  <2> QED
    BY <1>1, <2>1, <2>2, <2>3, IssueEventKinds
<1>7. p \in Homes'
  BY HeldGrows, HeldKinds, KeyNames DEF Held
<1>8. \A j \in Issues : Right(p, j)'
  BY <1>3, <1>6
<1> QED
  BY <1>7, <1>8 DEF Due

LEMMA DeliverIsFresh ==
    ASSUME Typed, Fresh, Steady, Deliver
    PROVE  Fresh'
PROOF
<1>1. /\ wire # <<>> /\ wire' = Tail(wire) /\ Head(wire) = wire[1] /\ 1 \in DOMAIN wire
      /\ UNCHANGED <<server, page, conn, muts>> /\ Delivers(Head(wire))
      /\ Head(wire) \in Events /\ EventOK(Head(wire)) /\ Evolves
      /\ Head(wire).type = "issue:created" => Young(Head(wire).id)
  BY DeliverIs, DeliverIsTyped
<1>2. PICK e : e = wire[1]
  OBVIOUS
<1>3. e \in Events /\ EventOK(e) /\ Delivers(e) /\ (e.type = "issue:created" => Young(e.id)) /\ Tells(1, e)
  BY <1>1, <1>2 DEF Fresh, Told
<1>4. conn = "up"
  BY <1>1 DEF Typed, WireOK
<1>5. IF IsComment(e) THEN Safe({"timeline"}, TRUE) ELSE Safe({"list", "detail"}, FALSE) /\ ~Forgets("list")
  BY <1>1, <1>2 DEF Deliver, Steady
<1>6. \A k \in Keys : WellFormed(cache[k], Held(k)) /\ Apart(Held(k))
  BY EntryIsTyped DEF Typed
<1>7. CacheOK(cache) /\ HasData(cache["list"]) /\ cache["list"].data \in Homes
  BY ListIsHeld DEF Typed, CacheOK
<1>8. ASSUME e.type = "issue:deleted", e.id = Focus
      PROVE  ~Exists(server, Focus)
  BY <1>3, <1>8, StatusesAreNamed DEF Tells, Exists, IsComment
<1>9. ASSUME IsComment(e)
      PROVE  /\ cache'["list"] = cache["list"] /\ cache'["detail"] = cache["detail"]
             /\ \A R : CurrentIn(cache'["timeline"], R)
             /\ Mounted("timeline") => Served(cache'["timeline"])
             /\ HasData(cache["timeline"]) => HasData(cache'["timeline"])
  <2>1. PICK q : /\ WellFormed(q, Timeline) /\ q.fetch = cache["timeline"].fetch
                 /\ HasData(q) <=> HasData(cache["timeline"])
                 /\ cache'["timeline"] = Invalidate(q, Mounted("timeline"))
    BY <1>3, <1>9 DEF Delivers
  <2>2. Apart(Timeline)
    BY <1>6, HeldKinds, KeyNames
  <2>3. q.fetch = "read" => Mounted("timeline") /\ HasData(q)
    BY <1>5, <1>9, <2>1, SafeIs
  <2>4. \A R : CurrentIn(Invalidate(q, Mounted("timeline")), R)
    BY <2>1, <2>2, <2>3, InvalidateIsCurrent
  <2>5. Served(Invalidate(q, TRUE)) /\ Invalidate(q, Mounted("timeline")).data = q.data
    BY <2>1, <2>2, InvalidateServes, InvalidateIsWellFormed
  <2>6. Mounted("timeline") => Invalidate(q, Mounted("timeline")) = Invalidate(q, TRUE)
    BY DEF Invalidate
  <2>7. cache'["list"] = cache["list"] /\ cache'["detail"] = cache["detail"]
    BY <1>3, <1>9, KeyNames DEF Delivers, Others
  <2> QED
    BY <2>1, <2>4, <2>5, <2>6, <2>7 DEF HasData
<1>10. ASSUME ~IsComment(e)
       PROVE  \E p \in Homes, S \in SUBSET Statuses :
                    /\ cache'["list"] = Put(cache["list"], p)
                    /\ Places(cache["list"].data, p, e.id, S)
                    /\ e.type = "issue:created" => S = {e.to}
                    /\ e.type = "issue:updated" =>
                          S = IF Holding(cache["list"].data, e.id) = {} THEN {} ELSE {e.to}
                    /\ e.type = "issue:deleted" => S = {}
  <2> DEFINE l == cache["list"].data
  <2>1. e.id \in Issues /\ l \in Lists /\ Once(l, e.id)
    BY <1>3, <1>7, <1>10, IssueEventKinds DEF Homes
  <2> HIDE DEF l
  <2>2. CASE e.type = "issue:created"
    <3>1. e.to \in Statuses /\ server.issues[e.id] = e.to /\ Young(e.id)
      BY <1>3, <2>2, IssueEventKinds DEF EventOK
    <3>2. /\ addIssueToBuckets(l, e.id, e.to) \in Homes
          /\ Places(l, addIssueToBuckets(l, e.id, e.to), e.id, {e.to})
      BY <1>7, <2>1, <3>1, AddedIsHeld DEF l
    <3> QED
      BY <1>3, <2>2, <3>1, <3>2 DEF Delivers, l
  <2>3. CASE e.type = "issue:updated"
    <3>1. e.to \in Statuses /\ ~Young(e.id)
      BY <1>3, <2>3, IssueEventKinds DEF EventOK
    <3>2. /\ patchIssueInBuckets(l, e.id, e.to) \in Homes
          /\ Places(l, patchIssueInBuckets(l, e.id, e.to), e.id, IF Holding(l, e.id) = {} THEN {} ELSE {e.to})
      BY <1>7, <2>1, <3>1, PatchedIsHeld, PatchPlaces DEF l
    <3> QED
      BY <1>3, <2>3, <3>1, <3>2 DEF Delivers, l
  <2>4. CASE e.type = "issue:deleted"
    <3>1. /\ removeIssueFromBuckets(l, e.id) \in Homes
          /\ Places(l, removeIssueFromBuckets(l, e.id), e.id, {})
      BY <1>7, <2>1, RemovedIsHeld, RemovePlaces DEF l
    <3> QED
      BY <1>3, <2>4, <3>1 DEF Delivers, l
  <2> QED
    BY <1>3, <1>10, <2>2, <2>3, <2>4, IssueEventKinds
<1>11. Told'
  BY DeliveredIsTold
<1>12. Used'
  <2>1. ASSUME NEW k \in Keys, Mounted(k)
        PROVE  Served(cache'[k])
    <3>1. Served(cache[k])
      BY <2>1 DEF Fresh, Used
    <3>2. CASE IsComment(e)
      BY <1>9, <2>1, <3>1, <3>2, KeyNames
    <3>3. CASE ~IsComment(e) /\ k = "list"
      BY <1>6, <1>10, <3>3, PutServes, HeldKinds
    <3>4. CASE e.type = "issue:created" /\ k # "list"
      BY <1>3, <3>1, <3>4 DEF Delivers, Others
    <3>5. CASE e.type = "issue:updated" /\ k # "list"
      <4>1. e.to \in Statuses
        BY <1>3, <3>5, IssueEventKinds
      <4> QED
        BY <1>3, <1>6, <3>1, <3>5, <4>1, KeyNames, PatchedDetailServes DEF Delivers
    <3>6. CASE e.type = "issue:deleted" /\ k # "list"
      BY <1>3, <2>1, <3>1, <3>6, KeyNames, NewServes DEF Delivers
    <3> QED
      BY <1>3, <3>2, <3>3, <3>4, <3>5, <3>6, IssueEventKinds
  <2> QED
    BY <1>1, <2>1 DEF Used, Mounted, Served, Fetching, HasData
<1>13. Offline'
  BY <1>1, <1>4 DEF Offline
<1>14. Commenting'
  <2>1. Exists(server, Focus) /\ HasData(cache["timeline"]) => HasData(cache'["timeline"])
    <3>1. CASE IsComment(e)
      BY <1>9, <3>1
    <3>2. CASE e.type = "issue:created"
      BY <1>3, <3>2, KeyNames DEF Delivers, Others
    <3>3. CASE e.type = "issue:updated"
      BY <1>3, <3>3 DEF Delivers
    <3>4. CASE e.type = "issue:deleted"
      BY <1>3, <1>8, <3>4 DEF Delivers
    <3> QED
      BY <1>3, <3>1, <3>2, <3>3, <3>4, IssueEventKinds
  <2> QED
    BY <1>1, <2>1 DEF Fresh, Commenting, Exists, InFlight, HasData
<1>15. ASSUME ~Awaited("list")'
       PROVE  CurrentIn(cache'["list"], Due("list")')
  <2>1. CurrentIn(cache["list"], Due("list"))
    <3>1. ~Awaited("list")
      BY <1>1, <1>15 DEF Awaited, InFlight
    <3> QED
      BY <3>1, KeyNames DEF Fresh, Current
  <2>2. CASE IsComment(e)
    <3>1. Due("list") \subseteq Due("list")'
      <4>1. \A i : ~About(wire[1], i)
        BY <1>2, <2>2 DEF About
      <4>2. \A i : (Silent(i)' => Silent(i)) /\ (Moving(i)' => Moving(i))
        BY <1>1, <4>1, OtherEvents
      <4>3. \A l, i : Right(l, i) => Right(l, i)'
        BY <1>1, <4>2 DEF Right, Holding, Exists
      <4>4. Homes \subseteq Homes'
        BY <1>1, HeldGrows, KeyNames DEF Held
      <4> QED
        BY <4>3, <4>4 DEF Due
    <3>2. cache'["list"] = cache["list"]
      BY <1>9, <2>2
    <3> QED
      BY <2>1, <3>1, <3>2, CurrentGrows
  <2>3. CASE ~IsComment(e)
    <3>1. PICK p \in Homes, S \in SUBSET Statuses :
                /\ cache'["list"] = Put(cache["list"], p)
                /\ Places(cache["list"].data, p, e.id, S)
                /\ e.type = "issue:created" => S = {e.to}
                /\ e.type = "issue:updated" =>
                      S = IF Holding(cache["list"].data, e.id) = {} THEN {} ELSE {e.to}
                /\ e.type = "issue:deleted" => S = {}
      BY <1>10, <2>3
    <3>2. cache["list"].fetch # "read"
      BY <1>5, <2>3 DEF Safe, Stales, Steady
    <3>3. WellFormed(cache["list"], Held("list"))
      BY <1>6, KeyNames
    <3>4. CASE cache["list"].fetch = "asked"
      <4>1. Put(cache["list"], p).fetch = "asked"
        BY <3>3, <3>4 DEF Put, WellFormed, EntryOf
      <4> QED
        BY <3>1, <4>1 DEF CurrentIn
    <3>5. CASE cache["list"].fetch = "no"
      <4>1. ~cache["list"].flag
        BY <1>5, <1>7, <2>3, <3>5, KeyNames DEF Forgets, Fetching, Fresh, Used, Served
      <4>2. cache["list"].data \in Due("list")
        BY <1>7, <2>1, <3>5, <4>1 DEF CurrentIn
      <4>3. p \in Due("list")'
        <5> DEFINE l == cache["list"].data
        <5>1. /\ l \in Due("list") /\ Places(l, p, e.id, S)
              /\ e.type = "issue:updated" => S = IF Holding(l, e.id) = {} THEN {} ELSE {e.to}
          BY <3>1, <4>2
        <5> HIDE DEF l
        <5> QED
          BY <1>1, <1>2, <2>3, <3>1, <5>1, ListAfterEvent
      <4> QED
        BY <3>1, <3>2, <3>3, <4>3, PutIsCurrent
    <3> QED
      BY <3>2, <3>3, <3>4, <3>5 DEF WellFormed, EntryOf
  <2> QED
    BY <2>2, <2>3
<1>16. ASSUME ~Awaited("detail")'
       PROVE  CurrentIn(cache'["detail"], Due("detail")')
  <2>1. CurrentIn(cache["detail"], Due("detail"))
    <3>1. ~Awaited("detail")
      BY <1>1, <1>16 DEF Awaited, InFlight
    <3> QED
      BY <3>1, KeyNames DEF Fresh, Current
  <2>2. Held("detail") \subseteq Held("detail")' /\ View(server, "detail")' = View(server, "detail")
    BY <1>1, HeldGrows, KeyNames DEF View, Exists
  <2>3. CASE ~About(e, Focus)
    <3>1. Silent(Focus)' => Silent(Focus)
      BY <1>1, <1>2, <2>3, OtherEvents
    <3>2. Due("detail") \subseteq Due("detail")'
      BY <2>2, <3>1 DEF Due
    <3>3. cache'["detail"] = cache["detail"]
      <4>1. CASE IsComment(e)
        BY <1>9, <4>1
      <4>2. CASE ~IsComment(e)
        BY <1>3, <2>3, <4>2, IssueEventKinds, KeyNames DEF About, Delivers, Others, PatchedDetail
      <4> QED
        BY <4>1, <4>2
    <3> QED
      BY <2>1, <3>2, <3>3, CurrentGrows
  <2>4. CASE About(e, Focus) /\ e.type = "issue:deleted"
    BY <1>3, <2>4, NewServes, KeyNames DEF Delivers, About
  <2>5. CASE About(e, Focus) /\ e.type = "issue:updated"
    <3> DEFINE q == cache["detail"]
               v == IF q.data = Gone THEN Gone ELSE e.to
    <3>1. cache'["detail"] = IF HasData(q) THEN Put(q, v) ELSE q
      BY <1>3, <2>5 DEF Delivers, PatchedDetail, About
    <3>2. q.fetch # "read"
      BY <1>5, <2>5 DEF Safe, Stales, Steady, About
    <3>3. CASE ~HasData(q)
      BY <3>1, <3>2, <3>3 DEF CurrentIn
    <3>4. CASE HasData(q)
      <4>1. q.data \in Held("detail") /\ WellFormed(q, Held("detail")) /\ e.to \in Statuses
        BY <1>3, <1>6, <2>5, <3>4, KeyNames, IssueEventKinds DEF WellFormed, EntryOf, HasData
      <4>2. v \in Held("detail")
        BY <4>1, HeldKinds
      <4>3. Silent(Focus)' => server.issues[Focus] = e.to
        <5>1. Later(1, Focus) => ~Silent(Focus)'
          <6> SUFFICES ASSUME Later(1, Focus)
                       PROVE  ~Silent(Focus)'
            OBVIOUS
          <6>1. PICK m \in DOMAIN wire : 1 < m /\ About(wire[m], Focus)
            BY DEF Later
          <6>2. m - 1 \in DOMAIN wire' /\ wire'[m - 1] = wire[m]
            BY <1>1, <6>1, TheRest
          <6> QED
            BY <6>1, <6>2 DEF Silent, About, IsComment
        <5> QED
          BY <1>3, <2>5, <5>1 DEF Tells, Result, About
      <4>4. Silent(Focus)' => v = View(server, "detail")
        <5>1. Silent(Focus)' => Exists(server, Focus)
          BY <4>1, <4>3 DEF Exists
        <5>2. q.data = Gone => ~Exists(server, Focus)
          BY <4>1, HeldKinds, StatusesAreNamed
        <5> QED
          BY <4>3, <5>1, <5>2 DEF View
      <4> HIDE DEF v
      <4>5. v \in Due("detail")'
        BY <2>2, <4>2, <4>4 DEF Due
      <4>6. CurrentIn(Put(q, v), Due("detail")')
        BY <3>2, <4>1, <4>5, PutIsCurrent
      <4> QED
        BY <3>1, <3>4, <4>6
    <3> QED
      BY <3>3, <3>4
  <2>6. CASE About(e, Focus) /\ e.type = "issue:created"
    BY <1>3, <2>6 DEF EventOK, About
  <2> QED
    BY <1>3, <2>3, <2>4, <2>5, <2>6, IssueEventKinds DEF About
<1>17. ASSUME ~Awaited("timeline")'
       PROVE  CurrentIn(cache'["timeline"], Due("timeline")')
  <2>1. CASE IsComment(e)
    BY <1>9, <2>1
  <2>2. CASE ~IsComment(e)
    <3>1. Exists(server, Focus) /\ \A n \in DOMAIN wire' : ~IsComment(wire'[n])
      BY <1>1, <1>17 DEF Awaited, Exists
    <3>2. \A n \in DOMAIN wire : ~IsComment(wire[n])
      <4>1. \A n \in DOMAIN wire : n = 1 \/ (n - 1 \in DOMAIN wire' /\ wire'[n - 1] = wire[n])
        BY <1>1, TheRest
      <4> QED
        BY <1>2, <2>2, <3>1, <4>1
    <3>3. ~Awaited("timeline")
      BY <1>1, <1>17, <3>1, <3>2 DEF Awaited, InFlight
    <3>4. cache'["timeline"] = cache["timeline"]
      BY <1>3, <1>8, <2>2, <3>1, IssueEventKinds, KeyNames DEF Delivers, Others
    <3>5. Due("timeline")' = Due("timeline")
      BY <1>1 DEF Due, View, Exists
    <3> QED
      BY <3>3, <3>4, <3>5, KeyNames DEF Fresh, Current
  <2> QED
    BY <2>1, <2>2
<1>18. Current'
  <2>1. \A k \in Keys : ~Awaited(k)' => CurrentIn(cache'[k], Due(k)')
    BY <1>15, <1>16, <1>17, KeyNames
  <2> QED
    BY <2>1 DEF Current, CurrentIn, HasData
<1> QED
  BY <1>11, <1>12, <1>13, <1>14, <1>18 DEF Fresh

-----------------------------------------------------------------------------
(* What this client shows becomes what the server has *)

LEMMA InitIsFresh ==
    ASSUME Init
    PROVE  Fresh
PROOF
<1>1. Typed
  BY InitIsTyped
<1>2. /\ cache = [k \in Keys |-> IF k = "list" THEN Entry(View(server, k)) ELSE Entry(None)]
      /\ page = "list" /\ conn = "up" /\ wire = <<>> /\ muts = [m \in Slots |-> None]
  BY DEF Init
<1>3. Told /\ Offline /\ Commenting
  BY <1>2 DEF Told, Offline, Commenting, InFlight
<1>4. View(server, "list") # None /\ View(server, "list") \in Due("list")
  BY <1>1, KeyNames, ViewIsHeld, ViewIsDue, HeldIsApart DEF Typed, Apart
<1>5. Used
  BY <1>2, <1>4 DEF Used, Mounted, MountedOn, Served, Entry, HasData
<1>6. Current
  BY <1>2, <1>4 DEF Current, CurrentIn, Entry, HasData
<1> QED
  BY <1>3, <1>5, <1>6 DEF Fresh

LEMMA StepIsFresh ==
    ASSUME Typed, Fresh, Steady, [Next]_vars
    PROVE  Fresh'
PROOF
<1>0. Calm
  BY DEF Steady, Calm
<1>1. CASE OthersChange
  <2>1. PICK r \in Requests : Commit(r)
    BY <1>1 DEF OthersChange
  <2>2. Commits(r) /\ SameRequests /\ UNCHANGED <<cache, page, conn>>
    BY <1>0, <1>1, <2>1, OthersChangeIsTyped DEF OthersChange
  <2> QED
    BY <2>2, CommittedIsFresh
<1>2. ASSUME NEW m \in Slots, NEW r \in Requests \cup Batches, Mutate(m, r)
      PROVE  Fresh'
  BY <1>0, <1>2, MutateIsFresh
<1>3. ASSUME NEW m \in Slots, Handle(m)
      PROVE  Fresh'
  BY <1>0, <1>3, HandleIsFresh
<1>4. ASSUME NEW m \in Slots, NEW ok \in BOOLEAN, Settle(m, ok)
      PROVE  Fresh'
  BY <1>4, SettleIs, SettleIsFresh
<1>5. CASE Deliver
  BY <1>5, DeliverIsFresh
<1>6. CASE Drop \/ Reconnect \/ Join
  BY <1>6, DropIsFresh, ReconnectIsFresh, JoinIsFresh
<1>7. ASSUME NEW k \in Keys, ServerReads(k) \/ Arrive(k) \/ Lose(k)
      PROVE  Fresh'
  <2>1. {} \in SUBSET Statuses
    OBVIOUS
  <2> QED
    BY <1>0, <1>7, <2>1, FetchStepsAreFresh
<1>8. ASSUME NEW S \in SUBSET Statuses, ServerReadsColumns(S)
      PROVE  Fresh'
  BY <1>0, <1>8, FetchStepsAreFresh, KeyNames
<1>9. ASSUME NEW p \in Pages, Go(p)
      PROVE  Fresh'
  BY <1>9, GoIsFresh
<1>10. CASE UNCHANGED vars
  <2>1. UNCHANGED <<server, muts, wire, changes, drops, cache, page, conn>>
    BY <1>10 DEF vars
  <2>2. CacheOK(cache') /\ page' \in Pages /\ conn' \in {"down", "acked", "up"}
    BY <2>1 DEF Typed
  <2>3. \A k \in Keys : Awaited(k)' \/ CurrentIn(cache'[k], Due(k))
    BY <2>1, AwaitedStays DEF Fresh, Current
  <2>4. Told' /\ Current'
    BY <2>1, <2>2, <2>3, SamePlace, SameWorld
  <2>5. Used' /\ Offline' /\ Commenting'
    BY <2>1 DEF Fresh, Used, Mounted, Offline, Commenting, InFlight, Exists
  <2> QED
    BY <2>4, <2>5 DEF Fresh
<1> QED
  BY <1>1, <1>2, <1>3, <1>4, <1>5, <1>6, <1>7, <1>8, <1>9, <1>10 DEF Next

LEMMA FreshIsShown ==
    ASSUME Typed, Fresh, Quiet
    PROVE  CacheIsFresh
PROOF
<1>1. wire = <<>> /\ conn = "up" /\ \A m \in Slots : ~InFlight(m)
  BY DEF Quiet, InFlight
<1>2. ASSUME NEW k \in Keys, Trusted(k), k = "timeline" => Exists(server, Focus)
      PROVE  cache[k].data \in Due(k)
  <2>1. cache[k].fetch = "no" /\ HasData(cache[k]) /\ ~cache[k].flag
    BY <1>2 DEF Quiet, Trusted, Fetching, Fresh, Used, Served
  <2>2. ~Awaited(k)
    BY <1>1, <1>2 DEF Awaited
  <2> QED
    BY <2>1, <2>2 DEF Fresh, Current, CurrentIn
<1>3. \A i : Silent(i)
  BY <1>1 DEF Silent
<1>4. ASSUME NEW l \in Due("list")
      PROVE  l = View(server, "list")
  <2>1. l \in [Statuses -> [Issues -> 0 .. 2]]
    BY DueKinds DEF Homes, Lists, Column
  <2>2. ASSUME NEW s \in Statuses, NEW i \in Issues
        PROVE  l[s][i] = IF server.issues[i] = s THEN 1 ELSE 0
    <3>1. Once(l, i) /\ Holding(l, i) = {server.issues[i]} \cap Statuses
      BY <1>3, DueKinds DEF Homes, Right
    <3>2. l[s][i] \in 0 .. 2 /\ l[s][i] <= 1
      BY <2>1, <3>1 DEF Once
    <3>3. l[s][i] > 0 <=> server.issues[i] = s
      BY <3>1 DEF Holding
    <3> QED
      BY <3>2, <3>3
  <2>3. \A s \in Statuses : l[s] = ColumnOf(server, s)
    BY <2>1, <2>2 DEF ColumnOf
  <2> QED
    BY <2>1, <2>3 DEF View
<1>5. ListIsFresh
  BY <1>2, <1>4, KeyNames DEF ListIsFresh, FreshEntry
<1>6. DetailIsFresh
  BY <1>2, <1>3, KeyNames, DueKinds DEF DetailIsFresh, FreshEntry
<1>7. TimelineIsFresh
  BY <1>2, KeyNames, DueKinds DEF TimelineIsFresh, FreshEntry
<1> QED
  BY <1>5, <1>6, <1>7 DEF CacheIsFresh

\* The caches of mutations.ts, ws-updaters.ts and use-realtime-sync.ts heal:
\* once no mutation, no event and no fetch is under way and the client is
\* connected, the list, the issue whose page was opened and its timeline show
\* what the server has, whatever was moved, refused, lost, dropped or crossed
\* before; unless one of the races has happened of which the code is known not
\* to take care.
THEOREM CachesHeal == Races = {} => (Spec => []CacheIsFresh)
PROOF
<1> SUFFICES ASSUME Races = {}
             PROVE  Spec => []CacheIsFresh
  OBVIOUS
<1>1. Steady /\ Calm
  BY DEF Steady, Calm
<1>2. Init => Typed /\ Fresh
  BY InitIsTyped, InitIsFresh
<1>3. Typed /\ Fresh /\ [Next]_vars => Typed' /\ Fresh'
  BY <1>1, StepIsTyped, StepIsFresh
<1>4. Typed /\ Fresh => CacheIsFresh
  <2>1. ~Quiet => CacheIsFresh
    BY DEF CacheIsFresh, ListIsFresh, DetailIsFresh, TimelineIsFresh, FreshEntry
  <2> QED
    BY <2>1, FreshIsShown
<1> QED
  BY <1>2, <1>3, <1>4, PTL DEF Spec
=============================================================================
