----------------------------- MODULE IssueCache -----------------------------
(* The issues of a workspace as a client sees them: the query cache with the *)
(* list, one issue and its timeline, the optimistic mutations that change    *)
(* the cache before the server answers, and the WebSocket events that patch  *)
(* it when others, or this client, changed the server.                       *)
(*                                                                           *)
(* Sources: packages/core/issues (mutations.ts, ws-updaters.ts,              *)
(* cache-helpers.ts, queries.ts), core/realtime, core/api/ws-client.ts and   *)
(* the views that use them.                                                  *)
(*                                                                           *)
(* Simplifications: an issue is its status, a comment is its text; parents,  *)
(* reactions, subscribers, filters and the second page of a column are left  *)
(* out; a request changes the server in one step; a fetch that fails twice   *)
(* does not occur.                                                           *)
EXTENDS Naturals, Sequences, FiniteSets, QueryCache

CONSTANTS
    Issues,
    Born,       \* the issues that exist at the beginning
    Focus,      \* the issue whose page can be opened
    PAGINATED_STATUSES, \* the statuses that have a column, in order
    Comments,   \* comments of Focus
    Reply, ReplyTo,     \* the comment Reply, if any, answers ReplyTo
    Pages,      \* "list", "issue" and, if there is another one, "aside"
    Slots,      \* mutations of this client that are in flight at one time
    MaxChanges, \* mutations of this client and changes by others (a bound)
    MaxDrops,   \* lost connections (a bound)
    Gone,       \* the answer for what does not exist
    Races       \* the races that may happen, see below

(* The client is known to go stale when                                      *)
(*   "overtaken"  an event arrives before the answer of a fetch that was     *)
(*                read before the event's change;                            *)
(*   "torn"       the columns of one list are read at different times;       *)
(*   "reborn"     an issue is changed while its creation is being announced; *)
(*   "unmounted"  an entry is cached that no page uses, and the connection   *)
(*                is lost, or an event patches it although it was            *)
(*                invalidated and would be fetched by the next page;         *)
(*   "seeded"     the page of an issue starts with a row of the list that a  *)
(*                fetch or an answer is about to correct;                    *)
(*   "unjoined"   the server changes between acknowledging a connection and  *)
(*                adding it to the hub.                                      *)
RaceKinds == {"overtaken", "torn", "reborn", "unmounted", "seeded", "unjoined"}

ASSUME RacesAreKnown == Races \subseteq RaceKinds
ASSUME FocusIsBorn == Focus \in Born /\ Born \subseteq Issues
ASSUME PagesAreKnown == "list" \in Pages /\ Pages \subseteq {"list", "issue", "aside"}
ASSUME RepliesAreComments == {Reply, ReplyTo} \subseteq Comments \cup {None}
ASSUME NamesAreDistinct ==
    IsFiniteSet(Issues) /\ IsFiniteSet(Comments) /\ Issues \cap Comments = {}

VARIABLES
    server,     \* [issues, comments]
    cache,      \* the entries of the query cache
    page,       \* "list" | "issue" | "aside"
    conn,       \* "down" | "acked" (not in the hub yet) | "up"
    wire,       \* events on their way
    muts,       \* the mutations in flight
    changes, drops

vars == <<server, cache, page, conn, wire, muts, changes, drops>>

Statuses == {PAGINATED_STATUSES[n] : n \in DOMAIN PAGINATED_STATUSES}
Keys == {"list", "detail", "timeline"}
Texts == {"none", "old", "new"}

ASSUME ColumnsAreInOrder == PAGINATED_STATUSES \in Seq(Statuses) \ {<<>>}
ASSUME BoundsAreNaturals == MaxChanges \in Nat /\ MaxDrops \in Nat

-----------------------------------------------------------------------------
(* What the server answers.                                                  *)

Column == [Issues -> 0 .. 2]
ColumnOf(srv, s) == [i \in Issues |-> IF srv.issues[i] = s THEN 1 ELSE 0]
Exists(srv, i) == srv.issues[i] \in Statuses

View(srv, k) ==
    CASE k = "list" -> [s \in Statuses |-> ColumnOf(srv, s)]
      [] k = "detail" -> IF Exists(srv, Focus) THEN srv.issues[Focus] ELSE Gone
      [] k = "timeline" -> IF Exists(srv, Focus)
                           THEN [c \in Comments |-> IF srv.comments[c] \in Texts
                                                    THEN srv.comments[c] ELSE "none"]
                           ELSE Gone

-----------------------------------------------------------------------------
(* The helpers of the list cache.  A column counts the copies of an issue.   *)

Holding(l, i) == {s \in Statuses : l[s][i] > 0}
\* findIssueLocation: the first column that holds i.
Location(l, i) == PAGINATED_STATUSES[CHOOSE n \in DOMAIN PAGINATED_STATUSES :
    /\ PAGINATED_STATUSES[n] \in Holding(l, i)
    /\ \A m \in 1 .. n - 1 : PAGINATED_STATUSES[m] \notin Holding(l, i)]

addIssueToBuckets(l, i, s) == IF l[s][i] > 0 THEN l ELSE [l EXCEPT ![s][i] = 1]

removeIssueFromBuckets(l, i) ==
    IF Holding(l, i) = {} THEN l ELSE [l EXCEPT ![Location(l, i)][i] = 0]

\* Mutant: the issue stays in its old column.
patchIssueAppended(l, i, s) ==
    IF Holding(l, i) = {} \/ Location(l, i) = s THEN l ELSE [l EXCEPT ![s][i] = 1]

\* An issue in another column than s leaves the first column that holds it and
\* is appended to s.
patchIssueInBuckets(l, i, s) ==
    IF Holding(l, i) = {} \/ Location(l, i) = s THEN l
    ELSE [l EXCEPT ![Location(l, i)][i] = 0, ![s][i] = IF @ = 2 THEN 2 ELSE @ + 1]

\* For each of ids in turn: a helper changes the cells of its issue only.
patchIssues(l, ids, s) == [t \in Statuses |-> [i \in Issues |->
    IF i \in ids THEN patchIssueInBuckets(l, i, s)[t][i] ELSE l[t][i]]]
removeIssues(l, ids) == [t \in Statuses |-> [i \in Issues |->
    IF i \in ids THEN removeIssueFromBuckets(l, i)[t][i] ELSE l[t][i]]]

WithReplies(t, c) ==
    IF c = ReplyTo /\ Reply \in Comments /\ t[Reply] # "none" THEN {c, Reply} ELSE {c}
without(t, c) ==
    IF t = Gone THEN t ELSE [x \in Comments |-> IF x \in WithReplies(t, c) THEN "none" ELSE t[x]]
AddComment(t, c, text) == IF t # Gone /\ t[c] = "none" THEN [t EXCEPT ![c] = text] ELSE t
EditComment(t, c, text) == IF t # Gone /\ t[c] # "none" THEN [t EXCEPT ![c] = text] ELSE t

-----------------------------------------------------------------------------
(* Requests and what they do to the server.                                  *)

Single(S) == {{x} : x \in S}
Requests ==
    [op : {"create", "update"}, ids : Single(Issues), to : Statuses]
    \cup [op : {"delete"}, ids : Single(Issues), to : {None}]
    \cup [op : {"comment", "edit", "uncomment"}, ids : Single(Comments), to : {None}]
Batches ==
    [op : {"batchUpdate"}, ids : SUBSET Issues \ {{}}, to : Statuses]
    \cup [op : {"batchDelete"}, ids : SUBSET Issues \ {{}}, to : {None}]

OnIssues(r) == r.op \in {"create", "update", "batchUpdate", "delete", "batchDelete"}
TheId(r) == CHOOSE i \in r.ids : TRUE

\* The ids of r that the server will change.
Targets(srv, r) ==
    CASE r.op = "create" -> {i \in r.ids : srv.issues[i] = "unborn"}
      [] OnIssues(r) /\ r.op # "create" -> {i \in r.ids : Exists(srv, i)}
      [] r.op = "comment" ->
            {c \in r.ids : /\ srv.comments[c] = "none" /\ Exists(srv, Focus)
                           /\ c = Reply => srv.comments[ReplyTo] \in {"old", "new"}}
      [] r.op \in {"edit", "uncomment"} ->
            {c \in r.ids : srv.comments[c] \in {"old", "new"} /\ Exists(srv, Focus)}

Serve(srv, r) ==
    LET T == Targets(srv, r)
        dead == IF r.op = "uncomment"
                THEN UNION {WithReplies(srv.comments, c) : c \in T} ELSE {}
    IN  [issues |-> [i \in Issues |->
            IF i \notin T THEN srv.issues[i] ELSE IF r.to = None THEN "deleted" ELSE r.to],
         comments |-> [c \in Comments |->
            IF c \in dead THEN "deleted"
            ELSE IF c \notin T THEN srv.comments[c]
            ELSE IF r.op = "comment" THEN "old" ELSE "new"]]

EventType(r) ==
    CASE r.op = "create" -> "issue:created"
      [] r.op \in {"update", "batchUpdate"} -> "issue:updated"
      [] r.op \in {"delete", "batchDelete"} -> "issue:deleted"
      [] r.op = "comment" -> "comment:created"
      [] r.op = "edit" -> "comment:updated"
      [] r.op = "uncomment" -> "comment:deleted"
\* The events of a batch come in the order of its request.
Orders(T) == {f \in [1 .. Cardinality(T) -> T] : \A x \in T : \E n \in DOMAIN f : f[n] = x}
Announce(srv, r) ==
    {[n \in DOMAIN f |-> [type |-> EventType(r), id |-> f[n], to |-> r.to]] :
        f \in Orders(Targets(srv, r))}

Creating(i) ==
    \/ \E n \in DOMAIN wire : wire[n].type = "issue:created" /\ wire[n].id = i
    \/ \E m \in Slots : muts[m] # None /\ muts[m].req.op = "create" /\ i \in muts[m].req.ids

Announced(r) ==
    r.op \in {"update", "batchUpdate", "delete", "batchDelete"} =>
        "reborn" \in Races \/ \A i \in r.ids : ~Creating(i)

\* The server does what r asks and tells the clients of the hub.
Commit(r) ==
    /\ conn = "acked" => "unjoined" \in Races
    /\ Targets(server, r) # {}
    /\ Announced(r)
    /\ server' = Serve(server, r)
    /\ IF conn = "up" THEN \E evs \in Announce(server, r) : wire' = wire \o evs
       ELSE UNCHANGED wire

-----------------------------------------------------------------------------
(* The cache under mounted pages.                                            *)

MountedOn(p) ==
    CASE p = "list" -> {"list"} [] p = "issue" -> Keys [] p = "aside" -> {}
Mounted(k) == k \in MountedOn(page)

Invalidated(c, K) == [k \in Keys |-> IF k \in K THEN Invalidate(c[k], Mounted(k)) ELSE c[k]]

\* An answer that is on its way may be older than what is written to the entry
\* now, or is taken for the answer to an invalidation.
Stales(k, invalidates) ==
    /\ cache[k].fetch = "read"
    /\ ~(invalidates /\ Mounted(k) /\ HasData(cache[k]))
Safe(K, invalidates) ==
    "overtaken" \in Races \/ \A k \in K : ~Stales(k, invalidates)

\* A patch makes the entry count as fresh, and no page will fetch it.
Forgets(k) == HasData(cache[k]) /\ cache[k].flag /\ ~Mounted(k) /\ ~Fetching(cache[k])

PatchList(c, F(_)) == [c EXCEPT !["list"] = Patch(@, F)]
PatchDetail(c, i, s) ==
    IF i = Focus THEN [c EXCEPT !["detail"] = Patch(@, LAMBDA d : IF d = Gone THEN d ELSE s)] ELSE c
PatchTimeline(c, F(_)) == [c EXCEPT !["timeline"] = Patch(@, F)]

\* removeQueries: a page that still uses the entry builds a new one.
Removed(c, K) ==
    [k \in Keys |-> IF k \in K THEN (IF Mounted(k) THEN Mounts(Entry(None)) ELSE Entry(None))
                    ELSE c[k]]

-----------------------------------------------------------------------------
(* Mutations: the cache before the request, on an error and at the end.      *)

Cancelled(c, k) == [c EXCEPT ![k] = Cancel(@)]

\* onMutate
Optimistic(c, r) ==
    LET l == Cancelled(c, "list")
        t == Cancelled(c, "timeline")
        moved == PatchList(l, LAMBDA x : patchIssues(x, r.ids, r.to))
        cut == PatchList(l, LAMBDA x : removeIssues(x, r.ids))
    IN  CASE r.op \in {"create", "comment"} -> c
          [] r.op = "update" -> PatchDetail(moved, TheId(r), r.to)
          [] r.op = "batchUpdate" -> moved
          [] r.op = "delete" -> IF TheId(r) = Focus THEN Removed(cut, {"detail"}) ELSE cut
          [] r.op = "batchDelete" -> cut
          [] r.op = "edit" -> PatchTimeline(t, LAMBDA x : EditComment(x, TheId(r), "new"))
          [] r.op = "uncomment" -> PatchTimeline(t, LAMBDA x : without(x, TheId(r)))

\* What onError restores: the entries as onMutate found them after its cancel.
Saved(c, r) ==
    [k \in Keys |->
        IF \/ k = "list" /\ OnIssues(r) /\ r.op # "create"
           \/ k = "timeline" /\ r.op \in {"edit", "uncomment"}
        THEN Cancel(c[k]).data
        ELSE IF k = "detail" /\ r.op = "update" /\ TheId(r) = Focus THEN c[k].data ELSE None]

\* onError
Restored(c, saved) ==
    [k \in Keys |-> IF saved[k] = None THEN c[k] ELSE Put(c[k], saved[k])]

\* onSuccess
Succeeded(c, r) ==
    CASE r.op = "create" -> PatchList(c, LAMBDA x : addIssueToBuckets(x, TheId(r), r.to))
      [] r.op = "comment" -> PatchTimeline(c, LAMBDA x : AddComment(x, TheId(r), "old"))
      [] OTHER -> c

\* onSettled
SettledKeys(r) ==
    CASE r.op = "update" /\ TheId(r) = Focus -> {"list", "detail"}
      [] OnIssues(r) /\ ~(r.op = "update" /\ TheId(r) = Focus) -> {"list"}
      [] ~OnIssues(r) -> {"timeline"}
Settled(c, r) == Invalidated(c, SettledKeys(r))


\* A user acts: from the page of the issue or from the list.
Mutate(m, r) ==
    /\ muts[m] = None
    /\ changes < MaxChanges /\ changes' = changes + 1
    /\ page # "aside"
    /\ Announced(r)
    /\ OnIssues(r) \/ (page = "issue" /\ cache["timeline"].data \notin {None, Gone})
    /\ r.op \in {"batchUpdate", "batchDelete"} => page = "list"
    /\ r.op \notin {"create", "comment"} =>
          IF OnIssues(r) THEN HasData(cache["list"]) /\ \A i \in r.ids : Holding(cache["list"].data, i) # {}
          ELSE cache["timeline"].data[TheId(r)] # "none"
    /\ r.op \in {"create", "comment"} => Targets(server, r) # {}
    /\ muts' = [muts EXCEPT ![m] = [req |-> r, phase |-> "sent", saved |-> Saved(cache, r)]]
    /\ cache' = Optimistic(cache, r)
    /\ UNCHANGED <<server, page, conn, wire, drops>>

\* The server handles the request of a mutation.
Handle(m) ==
    /\ muts[m] # None /\ muts[m].phase = "sent"
    /\ LET r == muts[m].req IN
       \/ /\ Commit(r)
          /\ muts' = [muts EXCEPT ![m].phase = "done"]
       \/ /\ Targets(server, r) = {}
          /\ muts' = [muts EXCEPT ![m].phase = "refused"]
          /\ UNCHANGED <<server, wire>>
    /\ UNCHANGED <<cache, page, conn, changes, drops>>

\* The answer arrives, or it, or the request, is lost and the client sees an error.
Settle(m, ok) ==
    /\ muts[m] # None
    /\ ok => muts[m].phase = "done"
    /\ LET r == muts[m].req
           left == ok /\ r.op = "delete" /\ TheId(r) = Focus /\ page = "issue"
       IN  /\ Safe(SettledKeys(r), TRUE)
           /\ page' = IF left THEN "list" ELSE page
           /\ cache' = IF ok THEN Settled(Succeeded(cache, r), r)
                       ELSE Settled(Restored(cache, muts[m].saved), r)
    /\ muts' = [muts EXCEPT ![m] = None]
    /\ UNCHANGED <<server, conn, wire, changes, drops>>

-----------------------------------------------------------------------------
(* Events.                                                                   *)

onIssueCreated(c, e) == PatchList(c, LAMBDA l : addIssueToBuckets(l, e.id, e.to))

onIssueUpdated(c, e) ==
    PatchDetail(PatchList(c, LAMBDA l : patchIssueInBuckets(l, e.id, e.to)), e.id, e.to)

onIssueDeleted(c, e) ==
    LET cut == PatchList(c, LAMBDA l : removeIssueFromBuckets(l, e.id))
    IN  IF e.id = Focus THEN Removed(cut, {"detail", "timeline"}) ELSE cut

\* The handler of the page that is mounted, then the global one.
onComment(c, e) ==
    LET paged == PatchTimeline(c, LAMBDA t :
                    CASE e.type = "comment:created" -> AddComment(t, e.id, "old")
                      [] e.type = "comment:updated" -> EditComment(t, e.id, "new")
                      [] e.type = "comment:deleted" -> without(t, e.id))
    IN  Invalidated(IF page = "issue" THEN paged ELSE c, {"timeline"})

IsComment(e) == e.type \in {"comment:created", "comment:updated", "comment:deleted"}

Deliver ==
    /\ wire # <<>>
    /\ LET e == Head(wire) IN
       /\ IF IsComment(e) THEN Safe({"timeline"}, TRUE) ELSE Safe({"list", "detail"}, FALSE)
       /\ IsComment(e) \/ "unmounted" \in Races \/ ~Forgets("list")
       /\ cache' = CASE e.type = "issue:created" -> onIssueCreated(cache, e)
                     [] e.type = "issue:updated" -> onIssueUpdated(cache, e)
                     [] e.type = "issue:deleted" -> onIssueDeleted(cache, e)
                     [] IsComment(e) -> onComment(cache, e)
    /\ wire' = Tail(wire)
    /\ UNCHANGED <<server, page, conn, muts, changes, drops>>

-----------------------------------------------------------------------------
(* The connection.                                                           *)

Unmounted == {k \in Keys : (HasData(cache[k]) \/ Fetching(cache[k])) /\ ~Mounted(k)}

Drop ==
    /\ conn # "down" /\ drops < MaxDrops
    /\ "unmounted" \in Races \/ Unmounted = {}
    /\ conn' = "down" /\ wire' = <<>> /\ drops' = drops + 1
    /\ UNCHANGED <<server, cache, page, muts, changes>>

\* Mutant: the page of the issue does not ask for its timeline again.
ReconnectKeysGlobal(p) == {"list", "detail"}

\* The global handler invalidates what belongs to the workspace; the timeline
\* is invalidated by its page.
ReconnectKeys(p) == {"list", "detail"} \cup (IF p = "issue" THEN {"timeline"} ELSE {})

\* The server acknowledges a new connection.
Reconnect ==
    /\ conn = "down"
    /\ Safe(ReconnectKeys(page), TRUE)
    /\ conn' = "acked"
    /\ cache' = Invalidated(cache, ReconnectKeys(page))
    /\ UNCHANGED <<server, page, wire, muts, changes, drops>>

Join ==
    /\ conn = "acked"
    /\ conn' = "up"
    /\ UNCHANGED <<server, cache, page, wire, muts, changes, drops>>

-----------------------------------------------------------------------------
(* Fetches and pages.                                                        *)

ServerReads(k) ==
    /\ cache[k].fetch = "asked" /\ k # "list"
    /\ cache' = [cache EXCEPT ![k] = Read(@, View(server, k))]
    /\ UNCHANGED <<server, page, conn, wire, muts, changes, drops>>

\* The list is read by one request for each column.
ServerReadsColumns(S) ==
    LET q == cache["list"]
        sofar == IF q.snap = None THEN {} ELSE DOMAIN q.snap
        all == [s \in sofar \cup S |-> IF s \in S THEN ColumnOf(server, s) ELSE q.snap[s]]
    IN  /\ q.fetch = "asked"
        /\ S # {} /\ S \subseteq Statuses \ sofar
        /\ "torn" \in Races \/ S = Statuses
        /\ cache' = [cache EXCEPT !["list"] =
              IF DOMAIN all = Statuses THEN Read(@, all) ELSE [@ EXCEPT !.snap = all]]
        /\ UNCHANGED <<server, page, conn, wire, muts, changes, drops>>

Arrive(k) ==
    /\ cache[k].fetch = "read"
    /\ cache' = [cache EXCEPT ![k] = Answer(@)]
    /\ UNCHANGED <<server, page, conn, wire, muts, changes, drops>>

Lose(k) ==
    /\ cache[k].fetch = "read"
    /\ cache' = [cache EXCEPT ![k] = Retry(@)]
    /\ UNCHANGED <<server, page, conn, wire, muts, changes, drops>>

\* Another page.  The page of an issue takes the issue from the list if the row
\* carries the description.
Go(p) ==
    LET row == IF HasData(cache["list"]) THEN Holding(cache["list"].data, Focus) ELSE {}
        shown == [k \in Keys |-> IF k \in MountedOn(p) THEN Mounts(cache[k]) ELSE cache[k]]
    IN  /\ p # page /\ (p = "issue" => page = "list" /\ row # {})
        /\ conn = "up" \/ "unmounted" \in Races
        /\ page' = p
        /\ \/ cache' = shown
           \/ /\ p = "issue" /\ ~HasData(cache["detail"]) /\ ~Fetching(cache["detail"])
              /\ "seeded" \in Races \/ (~Fetching(cache["list"]) /\ \A m \in Slots : muts[m] = None)
              /\ cache' = [shown EXCEPT !["detail"] = Entry(Location(cache["list"].data, Focus))]
        /\ UNCHANGED <<server, conn, wire, muts, changes, drops>>

-----------------------------------------------------------------------------
(* Properties.                                                               *)

Timeline == [Comments -> Texts] \cup {Gone}
DataOf(k) ==
    CASE k = "list" -> [Statuses -> Column]
      [] k = "detail" -> Statuses \cup {Gone}
      [] k = "timeline" -> Timeline

Mutation ==
    [req : Requests \cup Batches, phase : {"sent", "done", "refused"},
     saved : [Keys -> UNION {DataOf(k) \cup {None} : k \in Keys}]]

\* None and Gone are told from all that they stand beside.
ASSUME NoneIsNothing ==
    /\ None \notin Mutation /\ None # Gone
    /\ {None, Gone, "unborn", "deleted"} \cap Statuses = {} /\ Gone \notin [Comments -> Texts]
    /\ \A k \in Keys : \A data \in DataOf(k) : None # data
    /\ \A k \in Keys : \A data \in DataOf(k) \cup {None}, flag \in BOOLEAN :
          None # [data |-> data, flag |-> flag]

\* Types; an answer is on its way only when it was read.
TypeOK ==
    /\ server.issues \in [Issues -> Statuses \cup {"unborn", "deleted"}]
    /\ server.comments \in [Comments -> Texts \cup {"deleted"}]
    /\ \A k \in Keys :
          /\ cache[k].data \in DataOf(k) \cup {None}
          /\ cache[k].flag \in BOOLEAN
          /\ cache[k].fetch = "read" <=> cache[k].snap \in DataOf(k)
          /\ Fetching(cache[k]) <=> cache[k].back # None
    /\ page \in Pages
    /\ conn \in {"down", "acked", "up"}
    /\ changes \in 0 .. MaxChanges /\ drops \in 0 .. MaxDrops

\* Nothing is under way that could still change what a client knows.
Quiet ==
    /\ conn = "up" /\ wire = <<>>
    /\ \A m \in Slots : muts[m] = None
    /\ \A k \in Keys : ~Fetching(cache[k])

\* An entry that would be shown without a fetch is what the server has.
Trusted(k) == HasData(cache[k]) /\ (Mounted(k) \/ ~cache[k].flag)
FreshEntry(k) == Quiet /\ Trusted(k) => cache[k].data = View(server, k)

\* The columns of the list are those of the server once all is quiet: after
\* optimistic moves that failed, whose answers were lost or that crossed the
\* moves of others, and after a lost connection.
ListIsFresh == FreshEntry("list")
\* So is the issue whose page was opened, mounted or not.
DetailIsFresh == FreshEntry("detail")
\* So is its timeline, as long as the issue exists.
TimelineIsFresh == Exists(server, Focus) => FreshEntry("timeline")

\* What this client shows of the issues becomes what the server has.
CacheIsFresh == ListIsFresh /\ DetailIsFresh /\ TimelineIsFresh

\* use-realtime-sync.ts: "both mutations and WS handlers use dedup checks to be
\* idempotent": no issue is listed twice. Types included.
NoDuplicates ==
    /\ TypeOK
    /\ HasData(cache["list"]) =>
          \A i \in Issues : \A s \in Statuses :
              LET l == cache["list"].data IN l[s][i] <= 1 /\ (l[s][i] = 1 => Holding(l, i) = {s})

-----------------------------------------------------------------------------

Init ==
    /\ server = [issues |-> [i \in Issues |-> IF i \in Born THEN PAGINATED_STATUSES[1] ELSE "unborn"],
                 comments |-> [c \in Comments |-> IF c = ReplyTo THEN "old" ELSE "none"]]
    /\ cache = [k \in Keys |-> IF k = "list" THEN Entry(View(server, k)) ELSE Entry(None)]
    /\ page = "list" /\ conn = "up" /\ wire = <<>>
    /\ muts = [m \in Slots |-> None]
    /\ changes = 0 /\ drops = 0

\* Somebody else changes the server; for it a batch is several changes.
OthersChange ==
    /\ changes < MaxChanges /\ changes' = changes + 1
    /\ \E r \in Requests : Commit(r)
    /\ UNCHANGED <<cache, page, conn, muts, drops>>

Next ==
    \/ OthersChange
    \/ \E m \in Slots, r \in Requests \cup Batches : Mutate(m, r)
    \/ \E m \in Slots : Handle(m)
    \/ \E m \in Slots, ok \in BOOLEAN : Settle(m, ok)
    \/ Deliver
    \/ Drop
    \/ Reconnect
    \/ Join
    \/ \E k \in Keys : ServerReads(k) \/ Arrive(k) \/ Lose(k)
    \/ \E S \in SUBSET Statuses : ServerReadsColumns(S)
    \/ \E p \in Pages : Go(p)

Spec == Init /\ [][Next]_vars
=============================================================================
