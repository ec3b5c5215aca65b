---------------------------- MODULE ChatProofs ----------------------------
(***************************************************************************)
(* For any number of sessions, messages, tasks, reports, events on their   *)
(* way and requests lost: NoEcho, MessagesAreFresh, PendingTaskIsFresh,    *)
(* BadgeIsFresh and TimelineIsComplete of ChatWindow.                      *)
(*                                                                         *)
(* From the bottom up: one entry of the cache (it is Current when what it  *)
(* shows, and will show after the fetch under way, is what the server      *)
(* has); what of the server an entry may hold (Known); the type invariant  *)
(* Typed, with one lemma per action, XIsTyped, that also says what the     *)
(* action does to the other parts.  These lemmas are all that the rest     *)
(* uses of the actions.                                                    *)
(*                                                                         *)
(* Then one inductive invariant per kind of entry.  All but that of the    *)
(* timelines have the same form: an entry is Current, or something is      *)
(* under way that will have it fetched anew (MessagesAwaited,              *)
(* PendingAwaited, BadgeAwaited).  When nothing is under way only the      *)
(* first can be, and an entry in use has no reason not to show what it     *)
(* has (InUseIsServed).                                                    *)
(***************************************************************************)
EXTENDS ChatWindow, FiniteSetTheorems, WellFoundedInduction, TLAPS

-----------------------------------------------------------------------------
(* One entry of the cache *)

\* The data of an entry are in D; None is none of them.
Apart(D) ==
    /\ None \notin D
    /\ \A data \in D \cup {None}, flag \in BOOLEAN : None # [data |-> data, flag |-> flag]

EntryOf(D) ==
    [data : D \cup {None}, flag : BOOLEAN, fetch : {"no", "asked", "read"},
     snap : D \cup {None}, back : [data : D \cup {None}, flag : BOOLEAN] \cup {None}]

WellFormed(q, D) ==
    /\ q \in EntryOf(D)
    /\ q.fetch = "no" <=> q.back = None
    /\ q.fetch = "read" <=> q.snap # None
    /\ Fetching(q) => q.back.data = q.data

\* What the entry shows, now and after the fetch under way, is v, unless it is
\* known to be out of date or has not been read yet.
Current(q, v) ==
    /\ q.fetch = "read" => q.snap = v
    /\ q.fetch = "no" /\ HasData(q) /\ ~q.flag => q.data = v

\* An entry in use is fetched, or has data that count as fresh.
Served(q) == Fetching(q) \/ (HasData(q) /\ ~q.flag)

LEMMA WellFormedGrows ==
    ASSUME NEW D, NEW E, D \subseteq E, NEW q, WellFormed(q, D)
    PROVE  WellFormed(q, E)
BY DEF WellFormed, EntryOf

LEMMA AskedIsWellFormed ==
    ASSUME NEW D, Apart(D), NEW q, WellFormed(q, D)
    PROVE  /\ WellFormed(Asked(q), D)
           /\ Asked(q).data = q.data /\ Asked(q).fetch = "asked"
PROOF
<1>1. State(q) \in [data : D \cup {None}, flag : BOOLEAN] /\ State(q) # None
  BY DEF State, WellFormed, EntryOf, Apart
<1> QED
  BY <1>1 DEF WellFormed, EntryOf, Asked, State, Fetching

LEMMA MountsIsWellFormed ==
    ASSUME NEW D, Apart(D), NEW q, WellFormed(q, D)
    PROVE  WellFormed(Mounts(q), D) /\ Mounts(q).data = q.data /\ Served(Mounts(q))
BY AskedIsWellFormed DEF Mounts, Served, Fetching, HasData

LEMMA InvalidateIsWellFormed ==
    ASSUME NEW D, Apart(D), NEW q, WellFormed(q, D), NEW m
    PROVE  WellFormed(Invalidate(q, m), D) /\ Invalidate(q, m).data = q.data
PROOF
<1> DEFINE flagged == [q EXCEPT !.flag = TRUE]
<1>1. WellFormed(flagged, D) /\ flagged.data = q.data
  BY DEF WellFormed, EntryOf, Fetching
<1> QED
  BY <1>1, AskedIsWellFormed DEF Invalidate

LEMMA PutIsWellFormed ==
    ASSUME NEW D, Apart(D), NEW q, WellFormed(q, D), NEW data \in D \cup {None}
    PROVE  WellFormed(Put(q, data), D) /\ Put(q, data).data = data
PROOF
<1>1. [data |-> data, flag |-> FALSE] \in [data : D \cup {None}, flag : BOOLEAN] \ {None}
  BY DEF Apart
<1> QED
  BY <1>1 DEF WellFormed, EntryOf, Put, Fetching

LEMMA CancelIsWellFormed ==
    ASSUME NEW D, Apart(D), NEW q, WellFormed(q, D)
    PROVE  WellFormed(Cancel(q), D) /\ Cancel(q).data = q.data
PROOF
<1>1. CASE Fetching(q)
  <2>1. q.back \in [data : D \cup {None}, flag : BOOLEAN]
    BY <1>1 DEF WellFormed, EntryOf, Fetching
  <2> QED
    BY <1>1, <2>1 DEF WellFormed, EntryOf, Cancel, Idle, Fetching
<1> QED
  BY <1>1 DEF Cancel

LEMMA AnswersAreWellFormed ==
    ASSUME NEW D, Apart(D), NEW q, WellFormed(q, D), Fetching(q), NEW v \in D
    PROVE  /\ WellFormed(Read(q, v), D)
           /\ q.fetch = "read" => WellFormed(Answer(q), D) /\ WellFormed(Retry(q), D)
BY DEF WellFormed, EntryOf, Apart, Read, Answer, Retry, Idle, Fetching

LEMMA MountsStaysCurrent ==
    ASSUME NEW D, Apart(D), NEW q, WellFormed(q, D), NEW v, Current(q, v)
    PROVE  Current(Mounts(q), v)
BY AskedIsWellFormed DEF Mounts, Current

LEMMA AnswerIsCurrent ==
    ASSUME NEW D, NEW q, WellFormed(q, D), NEW v, Current(q, v)
    PROVE  /\ q.fetch = "asked" => Current(Read(q, v), v)
           /\ q.fetch = "read" => Current(Answer(q), v) /\ Current(Retry(q), v)
BY DEF WellFormed, EntryOf, Current, Read, Answer, Retry, Idle

\* An invalidation makes an entry current, whatever it had, unless an answer
\* is taken for the answer to it.
LEMMA InvalidateIsCurrent ==
    ASSUME NEW D, Apart(D), NEW q, WellFormed(q, D), NEW v, NEW m,
           q.fetch = "read" => m /\ HasData(q)
    PROVE  Current(Invalidate(q, m), v)
PROOF
<1> DEFINE flagged == [q EXCEPT !.flag = TRUE]
<1>1. /\ WellFormed(flagged, D) /\ flagged.fetch = q.fetch
      /\ flagged.flag = TRUE
  BY DEF WellFormed, EntryOf, Fetching
<1>2. CASE m /\ ~(Fetching(q) /\ ~HasData(q))
  BY <1>1, <1>2, AskedIsWellFormed DEF Invalidate, Current
<1>3. CASE ~(m /\ ~(Fetching(q) /\ ~HasData(q)))
  BY <1>1, <1>3 DEF Invalidate, Current
<1> QED
  BY <1>2, <1>3

\* What is written to an entry is current if it is what the server has, and no
\* older answer is on its way.
LEMMA PutIsCurrent ==
    ASSUME NEW D, Apart(D), NEW q, WellFormed(q, D), NEW v, q.fetch # "read"
    PROVE  Current(Put(q, v), v)
BY DEF Current, WellFormed, EntryOf, Put
-----------------------------------------------------------------------------
(* What the server has, and what of it an entry may hold *)

TaskType ==
    [session : Sessions, st : {"live", "completed", "answered", "over"}, steps : 0 .. MaxSteps]
ServerType ==
    [exists : SUBSET Sessions, said : [Sends -> Sessions \cup {None}], tasks : Seq(TaskType),
     unread : [Sessions -> BOOLEAN]]

\* Data an entry may have, old or new: a client knows no session, task or
\* report that the server does not know.
Known(srv, k) ==
    CASE k[1] = "messages" ->
            SUBSET (({"user", "optimistic"} \X Sends) \cup ({"assistant"} \X DOMAIN srv.tasks))
      [] k[1] = "pendingTask" -> {0} \cup {t \in DOMAIN srv.tasks : srv.tasks[t].session = k[2]}
      [] k[1] = "taskMessages" ->
            IF k[2] \in DOMAIN srv.tasks THEN SUBSET (1 .. srv.tasks[k[2]].steps) ELSE {}
      [] k[1] = "sessions" -> UNION {[S -> [has_unread : BOOLEAN]] : S \in SUBSET srv.exists}

LEMMA KeyKinds ==
    ASSUME NEW k \in Keys
    PROVE  \/ \E s \in Sessions : k = messages(s)
           \/ \E s \in Sessions : k = pendingTask(s)
           \/ \E t \in Tasks : k = taskMessages(t)
           \/ k = sessions
BY DEF Keys, messages, pendingTask, taskMessages, sessions

LEMMA KnownKinds ==
    ASSUME NEW srv
    PROVE  /\ \A s : Known(srv, messages(s)) =
                SUBSET (({"user", "optimistic"} \X Sends) \cup ({"assistant"} \X DOMAIN srv.tasks))
           /\ \A s : Known(srv, pendingTask(s)) =
                {0} \cup {t \in DOMAIN srv.tasks : srv.tasks[t].session = s}
           /\ \A t : Known(srv, taskMessages(t)) =
                IF t \in DOMAIN srv.tasks THEN SUBSET (1 .. srv.tasks[t].steps) ELSE {}
           /\ Known(srv, sessions) = UNION {[S -> [has_unread : BOOLEAN]] : S \in SUBSET srv.exists}
BY DEF Known, messages, pendingTask, taskMessages, sessions

LEMMA ViewKinds ==
    ASSUME NEW srv
    PROVE  /\ \A s : View(srv, messages(s)) =
                {<<"user", n>> : n \in {m \in Sends : srv.said[m] = s}}
                \cup {<<"assistant", t>> : t \in {u \in DOMAIN srv.tasks :
                        srv.tasks[u].session = s /\ srv.tasks[u].st = "answered"}}
           /\ \A s : View(srv, pendingTask(s)) = Latest(LiveIn(srv, s))
           /\ \A t : View(srv, taskMessages(t)) = 1 .. srv.tasks[t].steps
           /\ View(srv, sessions) = [s \in srv.exists |-> [has_unread |-> srv.unread[s]]]
BY DEF View, messages, pendingTask, taskMessages, sessions

LEMMA DataKinds ==
    /\ \A s : DataOf(messages(s)) = SUBSET Bubbles
    /\ \A s : DataOf(pendingTask(s)) = 0 .. MaxTasks
    /\ \A t : DataOf(taskMessages(t)) = SUBSET (1 .. MaxSteps)
    /\ DataOf(sessions) = UNION {[S -> [has_unread : BOOLEAN]] : S \in SUBSET Sessions}
BY DEF DataOf, messages, pendingTask, taskMessages, sessions

LEMMA KnownIsData ==
    ASSUME NEW srv \in ServerType, Len(srv.tasks) <= MaxTasks, NEW k \in Keys
    PROVE  Known(srv, k) \subseteq DataOf(k)
PROOF
<1>0. /\ DOMAIN srv.tasks \subseteq Tasks
      /\ \A t \in DOMAIN srv.tasks : srv.tasks[t] \in TaskType
      /\ srv.exists \subseteq Sessions
  BY BoundsAreNaturals DEF ServerType, Tasks
<1>1. ASSUME NEW s \in Sessions
      PROVE  Known(srv, messages(s)) \subseteq DataOf(messages(s))
  BY <1>0, KnownKinds, DataKinds DEF Bubbles
<1>2. ASSUME NEW s \in Sessions
      PROVE  Known(srv, pendingTask(s)) \subseteq DataOf(pendingTask(s))
  BY <1>0, KnownKinds, DataKinds, BoundsAreNaturals DEF Tasks
<1>3. ASSUME NEW t \in Tasks
      PROVE  Known(srv, taskMessages(t)) \subseteq DataOf(taskMessages(t))
  <2>1. CASE t \in DOMAIN srv.tasks
    <3>1. srv.tasks[t].steps \in 0 .. MaxSteps
      BY <1>0, <2>1 DEF TaskType
    <3>2. 1 .. srv.tasks[t].steps \subseteq 1 .. MaxSteps
      BY <3>1, BoundsAreNaturals
    <3> QED
      BY <2>1, <3>2, KnownKinds, DataKinds
  <2> QED
    BY <2>1, KnownKinds
<1>4. Known(srv, sessions) \subseteq DataOf(sessions)
  BY <1>0, KnownKinds, DataKinds
<1> QED
  BY <1>1, <1>2, <1>3, <1>4, KeyKinds

LEMMA KnownIsApart ==
    ASSUME NEW srv \in ServerType, Len(srv.tasks) <= MaxTasks, NEW k \in Keys
    PROVE  Apart(Known(srv, k))
BY KnownIsData, NoneIsNothing DEF Apart

LEMMA HasLatest ==
    ASSUME NEW S, S \subseteq Tasks
    PROVE  /\ Latest(S) \in S \cup {0}
           /\ \A u \in S : u <= Latest(S)
PROOF
<1> DEFINE T == S \cup {0}
           above == {MaxTasks - t : t \in T}
<1>1. T \subseteq 0 .. MaxTasks
  BY BoundsAreNaturals DEF Tasks
<1>2. above \subseteq Nat /\ above # {}
  BY <1>1, BoundsAreNaturals
<1>3. PICK x \in above : \A y \in above : ~ (<<y, x>> \in OpToRel(<, Nat))
  BY <1>2, NatLessThanWellFounded, WFMin
<1>4. \A y \in above : x <= y
  <2>1. OpToRel(<, Nat) = {p \in Nat \X Nat : p[1] < p[2]}
    BY Zenon DEF OpToRel
  <2>2. ASSUME NEW y \in above, y < x
        PROVE  FALSE
    <3>1. <<y, x>> \in {p \in Nat \X Nat : p[1] < p[2]}
      BY <1>2, <2>2
    <3> QED
      BY <1>3, <2>1, <3>1
  <2> HIDE DEF above
  <2> QED
    BY <1>2, <2>2
<1>5. PICK t \in T : x = MaxTasks - t
  OBVIOUS
<1>6. \A u \in T : u <= t
  <2> TAKE u \in T
  <2>1. MaxTasks - u \in above
    OBVIOUS
  <2>2. MaxTasks - t <= MaxTasks - u
    BY <1>4, <1>5, <2>1
  <2>3. t \in Int /\ u \in Int /\ MaxTasks \in Int
    BY <1>1, BoundsAreNaturals
  <2> QED
    BY <2>2, <2>3
<1> QED
  BY <1>6 DEF Latest

LEMMA ViewIsKnown ==
    ASSUME NEW srv \in ServerType, Len(srv.tasks) <= MaxTasks, NEW k \in Keys,
           k[1] = "taskMessages" => k[2] \in DOMAIN srv.tasks
    PROVE  View(srv, k) \in Known(srv, k)
PROOF
<1>0. DOMAIN srv.tasks \subseteq Tasks
  BY BoundsAreNaturals DEF ServerType, Tasks
<1>1. ASSUME NEW s \in Sessions
      PROVE  View(srv, messages(s)) \in Known(srv, messages(s))
  BY KnownKinds, ViewKinds
<1>2. ASSUME NEW s \in Sessions
      PROVE  View(srv, pendingTask(s)) \in Known(srv, pendingTask(s))
  <2>1. LiveIn(srv, s) \subseteq Tasks
    BY <1>0 DEF LiveIn
  <2>2. Latest(LiveIn(srv, s)) \in LiveIn(srv, s) \cup {0}
    BY <2>1, HasLatest
  <2>3. View(srv, pendingTask(s)) = Latest(LiveIn(srv, s))
    BY ViewKinds
  <2>4. Known(srv, pendingTask(s)) = {0} \cup {t \in DOMAIN srv.tasks : srv.tasks[t].session = s}
    BY KnownKinds
  <2>5. LiveIn(srv, s) \subseteq Known(srv, pendingTask(s))
    BY <2>4 DEF LiveIn
  <2> QED
    BY <2>2, <2>3, <2>4, <2>5
<1>3. ASSUME NEW t \in Tasks, k = taskMessages(t)
      PROVE  View(srv, taskMessages(t)) \in Known(srv, taskMessages(t))
  <2>1. t \in DOMAIN srv.tasks
    BY <1>3 DEF taskMessages
  <2>2. View(srv, taskMessages(t)) = 1 .. srv.tasks[t].steps
    BY ViewKinds
  <2>3. Known(srv, taskMessages(t)) = SUBSET (1 .. srv.tasks[t].steps)
    BY <2>1, KnownKinds
  <2> QED
    BY <2>2, <2>3
<1>4. View(srv, sessions) \in Known(srv, sessions)
  <2>1. View(srv, sessions) \in [srv.exists -> [has_unread : BOOLEAN]]
    BY ViewKinds DEF ServerType
  <2> QED
    BY <2>1, KnownKinds
<1> QED
  BY <1>1, <1>2, <1>3, <1>4, KeyKinds
-----------------------------------------------------------------------------
(* Types, with what refers to what *)

Phases == {"unsent", "creating", "created", "sending", "stored", "over"}
SendType == [session : Sessions \cup {None}, task : Nat, phase : Phases]
EventNames == {"chat:message", "chat:done", "task:completed", "task:failed", "chat:session_read"}
EventType ==
    [type : EventNames, session : Sessions \cup {None}, task : Tasks \cup {None}]
    \cup [type : {"task:message"}, session : {None}, task : Tasks, seq : Nat]

ServerOK == server \in ServerType /\ Len(server.tasks) <= MaxTasks

\* There is room for the tasks of the messages that are on their way.
OnWay == {n \in Sends : OnTheWay(n)}
RoomOK == Len(server.tasks) + Cardinality(OnWay) <= MaxTasks

CacheOK(srv, c) ==
    /\ c = [k \in Keys |-> c[k]]
    /\ \A k \in Keys :
          /\ WellFormed(c[k], Known(srv, k))
          /\ k[1] = "taskMessages" /\ Fetching(c[k]) => k[2] \in DOMAIN srv.tasks

SendsOK ==
    /\ sends \in [Sends -> SendType]
    /\ \A n \in Sends :
          LET r == sends[n] IN
          /\ r.session \in server.exists \cup {None}
          /\ r.phase \in {"created", "sending", "stored"} => r.session # None
          /\ r.phase = "stored" =>
                r.task \in TaskIds /\ server.tasks[r.task].session = r.session

StopOK ==
    stop # None =>
        /\ stop \in StopRequest
        /\ stop.session \in server.exists
        /\ stop.task \in TaskIds /\ server.tasks[stop.task].session = stop.session

MarksOK(srv, ms) ==
    /\ ms \in [Marks -> Mark \cup {None}]
    /\ \A m \in Marks :
          ms[m] # None => /\ ms[m].session \in srv.exists
                          /\ ms[m].saved \in Known(srv, sessions)

\* A report was made by its task.
Sound(srv, e) ==
    /\ e \in EventType
    /\ e.type = "task:message" =>
          e.task \in DOMAIN srv.tasks /\ e.seq \in 1 .. srv.tasks[e.task].steps

WireOK ==
    /\ wire \in Seq(EventType)
    /\ \A i \in DOMAIN wire : Sound(server, wire[i])

Typed ==
    /\ ServerOK /\ RoomOK
    /\ CacheOK(server, cache)
    /\ isOpen \in BOOLEAN /\ activeSessionId \in server.exists \cup {None}
    /\ SendsOK /\ StopOK /\ MarksOK(server, marks) /\ WireOK
    /\ lost \in 0 .. MaxLost

-----------------------------------------------------------------------------
(* Rendering *)

\* Entries of tasks that exist are the only ones of tasks that are in use.
LEMMA InUseExists ==
    ASSUME ServerOK, NEW c, CacheOK(server, c), NEW active,
           NEW k \in InUse(c, active), k[1] = "taskMessages"
    PROVE  k[2] \in TaskIds
PROOF
<1>1. k \in Keys
  BY DEF InUse
<1>2. PICK t \in Replies(c, active) \cup {PendingTaskId(c, active)} : t # 0 /\ k = taskMessages(t)
  BY DEF InUse, sessions, messages, pendingTask
<1>3. k[2] = t
  BY <1>2 DEF taskMessages
<1>4. CASE t \in Replies(c, active)
  <2>1. PICK x \in Value(c, messages(active), {}) : x[1] = "assistant" /\ t = x[2]
    BY <1>4 DEF Replies
  <2>2. messages(active) \in Keys /\ x \in c[messages(active)].data
        /\ HasData(c[messages(active)])
    BY <2>1 DEF Value
  <2>3. c[messages(active)].data \in Known(server, messages(active))
    BY <2>2 DEF CacheOK, WellFormed, EntryOf, HasData
  <2>4. Known(server, messages(active)) =
            SUBSET (({"user", "optimistic"} \X Sends) \cup ({"assistant"} \X TaskIds))
    BY KnownKinds DEF TaskIds
  <2>5. x \in ({"user", "optimistic"} \X Sends) \cup ({"assistant"} \X TaskIds)
    BY <2>2, <2>3, <2>4
  <2> QED
    BY <1>3, <2>1, <2>5
<1>5. CASE t = PendingTaskId(c, active)
  <2>1. pendingTask(active) \in Keys /\ t = c[pendingTask(active)].data
        /\ HasData(c[pendingTask(active)])
    BY <1>2, <1>5 DEF PendingTaskId, Value
  <2>2. t \in Known(server, pendingTask(active))
    BY <2>1 DEF CacheOK, WellFormed, EntryOf, HasData
  <2>3. Known(server, pendingTask(active)) =
            {0} \cup {u \in TaskIds : server.tasks[u].session = active}
    BY KnownKinds DEF TaskIds
  <2> QED
    BY <1>2, <1>3, <2>2, <2>3
<1> QED
  BY <1>2, <1>4, <1>5

\* What is in use depends on the data alone.
LEMMA InUseByData ==
    ASSUME NEW c, NEW d, NEW active, \A k \in Keys : d[k].data = c[k].data
    PROVE  InUse(d, active) = InUse(c, active)
PROOF
<1>1. \A k, none : Value(d, k, none) = Value(c, k, none)
  BY DEF Value, HasData
<1> QED
  BY <1>1 DEF InUse, Replies, PendingTaskId

LEMMA MarkingIsWellFormed ==
    ASSUME ServerOK, NEW c, CacheOK(server, c), NEW s \in Sessions, HasUnread(c, s)
    PROVE  /\ sessions \in Keys
           /\ CacheOK(server, Marking(c, s))
           /\ \A k \in Keys \ {sessions} : Marking(c, s)[k] = c[k]
           /\ Cancel(c[sessions]).data \in Known(server, sessions)
PROOF
<1> DEFINE D == Known(server, sessions)
           idle == Cancel(c[sessions])
           new == Patch(idle, LAMBDA list : [list EXCEPT ![s].has_unread = FALSE])
<1>1. sessions \in Keys
  BY DEF HasUnread, Value
<1>2. Apart(D) /\ WellFormed(c[sessions], D)
  BY <1>1, KnownIsApart DEF ServerOK, CacheOK
<1>3. WellFormed(idle, D)
  BY <1>2, CancelIsWellFormed
<1>4. WellFormed(new, D)
  <2>1. CASE HasData(idle)
    <3>1. idle.data \in D
      BY <1>3, <2>1 DEF WellFormed, EntryOf, HasData
    <3>2. PICK S \in SUBSET server.exists : idle.data \in [S -> [has_unread : BOOLEAN]]
      BY <3>1, KnownKinds
    <3>3. [idle.data EXCEPT ![s].has_unread = FALSE] \in [S -> [has_unread : BOOLEAN]]
      BY <3>2
    <3>4. [idle.data EXCEPT ![s].has_unread = FALSE] \in D
      <4>1. D = UNION {[T -> [has_unread : BOOLEAN]] : T \in SUBSET server.exists}
        BY KnownKinds
      <4> QED
        BY <3>3, <4>1
    <3> QED
      BY <1>2, <1>3, <2>1, <3>4, PutIsWellFormed DEF Patch
  <2> QED
    BY <1>3, <2>1 DEF Patch
<1>5. Marking(c, s) = [c EXCEPT ![sessions] = new]
  BY DEF Marking
<1>6. sessions[1] # "taskMessages"
  BY DEF sessions
<1> HIDE DEF new
<1>7. CacheOK(server, Marking(c, s))
  BY <1>1, <1>4, <1>5, <1>6 DEF CacheOK
<1>8. idle.data \in D
  <2>1. idle.data = c[sessions].data
    BY <1>2, CancelIsWellFormed
  <2>2. HasData(c[sessions])
    BY DEF HasUnread, Value
  <2> QED
    BY <1>2, <2>1, <2>2 DEF HasData, WellFormed, EntryOf
<1> QED
  BY <1>1, <1>5, <1>7, <1>8 DEF CacheOK
\* What rendering c leaves: an entry is the one of c, or fetched; the list of
\* sessions may be patched by a request that is then on its way.
Rendered(c, ms) ==
    /\ CacheOK(server, cache') /\ MarksOK(server, marks')
    /\ \A k \in Keys \ {sessions} : cache'[k] = c[k] \/ cache'[k] = Mounts(c[k])
    /\ \/ sessions \in Keys =>
             cache'[sessions] = c[sessions] \/ cache'[sessions] = Mounts(c[sessions])
       \/ \E m \in Marks : marks'[m] # None
    /\ \A m \in Marks : ms[m] # None => marks'[m] # None
    /\ \A k \in InUse(cache', activeSessionId') : Served(cache'[k])

LEMMA RenderStep ==
    ASSUME ServerOK, NEW c, CacheOK(server, c),
           NEW open, NEW active \in server.exists \cup {None},
           NEW ms, MarksOK(server, ms), Render(c, open, active, ms)
    PROVE  Rendered(c, ms) /\ isOpen' = open /\ activeSessionId' = active
PROOF
<1> DEFINE fires == Fires(c, open, active)
           marked == IF fires THEN Marking(c, active) ELSE c
           mark == [session |-> active, phase |-> "sent", saved |-> Cancel(c[sessions]).data]
<1>1. /\ cache' = [k \in Keys |->
                     IF k \in InUse(marked, active) THEN Mounts(marked[k]) ELSE marked[k]]
      /\ isOpen' = open /\ activeSessionId' = active
      /\ IF fires THEN \E m \in Marks : ms[m] = None /\ marks' = [ms EXCEPT ![m] = mark]
         ELSE marks' = ms
  BY DEF Render
<1>2. ASSUME fires
      PROVE  active \in Sessions /\ HasUnread(c, active) /\ active \in server.exists
  BY <1>2 DEF Fires, ServerOK, ServerType
<1>3. CacheOK(server, marked)
  BY <1>2, MarkingIsWellFormed
<1>4. \A k \in Keys \ {sessions} : marked[k] = c[k]
  BY <1>2, MarkingIsWellFormed
<1>5. ASSUME fires
      PROVE  mark \in Mark /\ mark # None /\ mark.session \in server.exists
             /\ mark.saved \in Known(server, sessions)
  <2>1. /\ sessions \in Keys
        /\ Cancel(c[sessions]).data \in Known(server, sessions)
    BY <1>2, <1>5, MarkingIsWellFormed
  <2>2. Known(server, sessions) \subseteq DataOf(sessions)
    BY <2>1, KnownIsData DEF ServerOK
  <2>3. mark \in Mark
    BY <1>2, <1>5, <2>1, <2>2 DEF Mark
  <2> QED
    BY <1>2, <1>5, <2>1, <2>3, NoneIsNothing
<1> HIDE DEF fires, marked, mark
<1>6. /\ \A k \in Keys : Apart(Known(server, k)) /\ WellFormed(marked[k], Known(server, k))
      /\ \A k \in Keys : WellFormed(Mounts(marked[k]), Known(server, k))
                         /\ Mounts(marked[k]).data = marked[k].data /\ Served(Mounts(marked[k]))
  BY <1>3, KnownIsApart, MountsIsWellFormed DEF ServerOK, CacheOK
<1>7. \A k \in Keys : cache'[k] = marked[k] \/ cache'[k] = Mounts(marked[k])
  BY <1>1
<1>8. CacheOK(server, cache')
  <2>1. ASSUME NEW k \in Keys
        PROVE  /\ WellFormed(cache'[k], Known(server, k))
               /\ k[1] = "taskMessages" /\ Fetching(cache'[k]) => k[2] \in DOMAIN server.tasks
    <3>1. CASE k \in InUse(marked, active)
      BY <1>1, <1>3, <1>6, <3>1, InUseExists DEF TaskIds
    <3>2. CASE k \notin InUse(marked, active)
      BY <1>1, <1>3, <1>6, <3>2 DEF CacheOK
    <3> QED
      BY <3>1, <3>2
  <2>2. cache' = [k \in Keys |-> cache'[k]]
    BY <1>1
  <2> QED
    BY <2>1, <2>2 DEF CacheOK
<1>9. MarksOK(server, marks') /\ \A m \in Marks : ms[m] # None => marks'[m] # None
  <2>1. CASE fires
    <3>1. PICK m \in Marks : ms[m] = None /\ marks' = [ms EXCEPT ![m] = mark]
      BY <1>1, <2>1
    <3> QED
      BY <1>5, <2>1, <3>1 DEF MarksOK
  <2> QED
    BY <1>1, <2>1
<1>10. \/ sessions \in Keys =>
             cache'[sessions] = c[sessions] \/ cache'[sessions] = Mounts(c[sessions])
       \/ \E m \in Marks : marks'[m] # None
  <2>1. CASE fires
    <3>1. PICK m \in Marks : ms[m] = None /\ marks' = [ms EXCEPT ![m] = mark]
      BY <1>1, <2>1
    <3>2. marks'[m] = mark
      BY <3>1 DEF MarksOK
    <3> QED
      BY <1>5, <2>1, <3>2
  <2> QED
    BY <1>7, <2>1 DEF marked
<1>11. \A k \in InUse(cache', activeSessionId') : Served(cache'[k])
  <2>1. \A k \in Keys : cache'[k].data = marked[k].data
    BY <1>6, <1>7
  <2>2. InUse(cache', active) = InUse(marked, active)
    BY <2>1, InUseByData
  <2>3. InUse(marked, active) \subseteq Keys
    BY DEF InUse
  <2> QED
    BY <1>1, <1>6, <2>2, <2>3
<1> QED
  BY <1>1, <1>4, <1>7, <1>8, <1>9, <1>10, <1>11 DEF Rendered
-----------------------------------------------------------------------------
(* What invalidations, writes and events leave *)

LEMMA InvalidatedIsOK ==
    ASSUME ServerOK, CacheOK(server, cache), NEW c, CacheOK(server, c), NEW K
    PROVE  /\ CacheOK(server, Invalidated(c, K))
           /\ \A k \in Keys : Invalidated(c, K)[k] =
                 IF k \in K THEN Invalidate(c[k], Mounted(k)) ELSE c[k]
PROOF
<1> DEFINE d == Invalidated(c, K)
<1>1. d = [k \in Keys |-> IF k \in K THEN Invalidate(c[k], Mounted(k)) ELSE c[k]]
  BY DEF Invalidated
<1>2. ASSUME NEW k \in Keys
      PROVE  /\ WellFormed(d[k], Known(server, k))
             /\ k[1] = "taskMessages" /\ Fetching(d[k]) => k[2] \in DOMAIN server.tasks
  <2>1. WellFormed(c[k], Known(server, k)) /\ Apart(Known(server, k))
    BY KnownIsApart DEF ServerOK, CacheOK
  <2>2. WellFormed(Invalidate(c[k], Mounted(k)), Known(server, k))
    BY <2>1, InvalidateIsWellFormed
  <2>3. ASSUME ~Mounted(k)
        PROVE  Invalidate(c[k], Mounted(k)).fetch = c[k].fetch
    BY <2>1, <2>3 DEF Invalidate, WellFormed, EntryOf
  <2>4. ASSUME Mounted(k), k[1] = "taskMessages"
        PROVE  k[2] \in DOMAIN server.tasks
    BY <2>4, InUseExists DEF Mounted, TaskIds
  <2> QED
    BY <1>1, <2>1, <2>2, <2>3, <2>4 DEF CacheOK, Fetching
<1> QED
  BY <1>1, <1>2 DEF CacheOK

LEMMA WrittenIsOK ==
    ASSUME ServerOK, NEW c, CacheOK(server, c), NEW k, NEW data,
           k \in Keys => data \in Known(server, k) \cup {None}
    PROVE  /\ CacheOK(server, Written(c, k, data))
           /\ \A j \in Keys : Written(c, k, data)[j] = IF j = k THEN Put(c[k], data) ELSE c[j]
PROOF
<1>1. CASE k \in Keys
  <2>1. WellFormed(c[k], Known(server, k)) /\ Apart(Known(server, k))
    BY <1>1, KnownIsApart DEF ServerOK, CacheOK
  <2>2. WellFormed(Put(c[k], data), Known(server, k))
    BY <1>1, <2>1, PutIsWellFormed
  <2>3. Put(c[k], data).fetch = c[k].fetch
    BY <2>1 DEF Put, WellFormed, EntryOf
  <2>4. Written(c, k, data) = [c EXCEPT ![k] = Put(c[k], data)]
    BY <1>1 DEF Written
  <2> QED
    BY <1>1, <2>2, <2>3, <2>4 DEF CacheOK, Fetching
<1> QED
  BY <1>1 DEF Written

\* A change of one entry.
LEMMA EntryIsOK ==
    ASSUME NEW c, CacheOK(server, c), NEW k \in Keys, NEW q,
           WellFormed(q, Known(server, k)), Fetching(q) => Fetching(c[k])
    PROVE  CacheOK(server, [c EXCEPT ![k] = q])
BY DEF CacheOK

LEMMA TasksAreTyped ==
    ASSUME NEW srv \in ServerType
    PROVE  /\ Len(srv.tasks) \in Nat /\ DOMAIN srv.tasks = 1 .. Len(srv.tasks)
           /\ \A t \in DOMAIN srv.tasks :
                 /\ srv.tasks[t] \in TaskType /\ srv.tasks[t].session \in Sessions
                 /\ srv.tasks[t].steps \in Nat /\ srv.tasks[t].steps <= MaxSteps
PROOF
<1>1. /\ srv.tasks \in Seq(TaskType)
      /\ \A t \in DOMAIN srv.tasks : srv.tasks[t] \in TaskType
  BY DEF ServerType
<1>2. \A r \in TaskType : r.session \in Sessions /\ r.steps \in 0 .. MaxSteps
  BY DEF TaskType
<1> QED
  BY <1>1, <1>2, BoundsAreNaturals

\* Nothing that the server knows is forgotten.
Grows(srv, new) ==
    /\ new \in ServerType
    /\ srv.exists \subseteq new.exists
    /\ DOMAIN srv.tasks \subseteq DOMAIN new.tasks
    /\ \A t \in DOMAIN srv.tasks : /\ new.tasks[t].session = srv.tasks[t].session
                                   /\ srv.tasks[t].steps <= new.tasks[t].steps

LEMMA KnownGrows ==
    ASSUME NEW srv \in ServerType, NEW new, Grows(srv, new), NEW k \in Keys
    PROVE  Known(srv, k) \subseteq Known(new, k)
PROOF
<1>1. ASSUME NEW s
      PROVE  Known(srv, messages(s)) \subseteq Known(new, messages(s))
  BY KnownKinds DEF Grows
<1>2. ASSUME NEW s
      PROVE  Known(srv, pendingTask(s)) \subseteq Known(new, pendingTask(s))
  <2>1. /\ Known(srv, pendingTask(s)) = {0} \cup {t \in DOMAIN srv.tasks : srv.tasks[t].session = s}
        /\ Known(new, pendingTask(s)) = {0} \cup {t \in DOMAIN new.tasks : new.tasks[t].session = s}
    BY KnownKinds
  <2> QED
    BY <2>1 DEF Grows
<1>3. ASSUME NEW t
      PROVE  Known(srv, taskMessages(t)) \subseteq Known(new, taskMessages(t))
  <2>1. CASE t \in DOMAIN srv.tasks
    <3>1. srv.tasks[t].steps \in Nat /\ new.tasks[t].steps \in Nat
      BY <2>1, TasksAreTyped DEF Grows
    <3>2. 1 .. srv.tasks[t].steps \subseteq 1 .. new.tasks[t].steps
      BY <2>1, <3>1 DEF Grows
    <3>3. /\ Known(srv, taskMessages(t)) = SUBSET (1 .. srv.tasks[t].steps)
          /\ Known(new, taskMessages(t)) = SUBSET (1 .. new.tasks[t].steps)
      BY <2>1, KnownKinds DEF Grows
    <3> QED
      BY <3>2, <3>3
  <2> QED
    BY <2>1, KnownKinds
<1>4. Known(srv, sessions) \subseteq Known(new, sessions)
  <2>1. SUBSET srv.exists \subseteq SUBSET new.exists
    BY DEF Grows
  <2> QED
    BY <2>1, KnownKinds
<1> QED
  BY <1>1, <1>2, <1>3, <1>4, KeyKinds

LEMMA GrowsKeeps ==
    ASSUME Typed, Grows(server, server')
    PROVE  /\ CacheOK(server', cache) /\ MarksOK(server', marks)
           /\ \A e : Sound(server, e) => Sound(server', e)
PROOF
<1>1. ASSUME NEW k \in Keys
      PROVE  /\ WellFormed(cache[k], Known(server', k))
             /\ k[1] = "taskMessages" /\ Fetching(cache[k]) => k[2] \in DOMAIN server'.tasks
  BY KnownGrows, WellFormedGrows DEF Typed, ServerOK, CacheOK, Grows
<1>2. CacheOK(server', cache)
  BY <1>1 DEF CacheOK, Typed
<1>3. MarksOK(server', marks)
  <2>1. Known(server, sessions) \subseteq Known(server', sessions)
    <3>1. SUBSET server.exists \subseteq SUBSET server'.exists
      BY DEF Grows
    <3> QED
      BY <3>1, KnownKinds
  <2> QED
    BY <2>1 DEF MarksOK, Typed, Grows
<1>4. ASSUME NEW e, Sound(server, e)
      PROVE  Sound(server', e)
  <2>1. CASE e.type = "task:message"
    <3>1. /\ e.task \in DOMAIN server.tasks /\ e.seq \in 1 .. server.tasks[e.task].steps
      BY <1>4, <2>1 DEF Sound
    <3>2. server.tasks[e.task].steps \in Nat /\ server'.tasks[e.task].steps \in Nat
      BY <3>1, TasksAreTyped DEF Typed, ServerOK, Grows
    <3> QED
      BY <1>4, <3>1, <3>2 DEF Sound, Grows
  <2> QED
    BY <1>4, <2>1 DEF Sound
<1> QED
  BY <1>2, <1>3, <1>4

LEMMA PublishKeeps ==
    ASSUME WireOK, NEW evs \in Seq(EventType), Publish(evs),
           \A e : Sound(server, e) => Sound(server', e),
           \A i \in DOMAIN evs : Sound(server', evs[i])
    PROVE  WireOK'
PROOF
<1>1. CASE wire' = wire
  BY <1>1 DEF WireOK
<1>2. CASE wire' = wire \o evs
  <2>1. /\ wire' \in Seq(EventType)
        /\ \A i \in DOMAIN wire' : \/ i \in DOMAIN wire /\ wire'[i] = wire[i]
                                   \/ i - Len(wire) \in DOMAIN evs /\ wire'[i] = evs[i - Len(wire)]
    BY <1>2 DEF WireOK
  <2> QED
    BY <2>1 DEF WireOK
<1> QED
  BY <1>1, <1>2 DEF Publish
-----------------------------------------------------------------------------
(* Types: the parts of the state that a step changes *)

LEMMA GrowsReflexive ==
    ASSUME NEW srv \in ServerType
    PROVE  Grows(srv, srv)
BY TasksAreTyped DEF Grows

LEMMA OnWayIsFinite ==
    /\ IsFiniteSet(OnWay) /\ Cardinality(OnWay) \in Nat
    /\ IsFiniteSet(OnWay') /\ Cardinality(OnWay') \in Nat
PROOF
<1>1. IsFiniteSet(Sends)
  <2>1. 1 \in Int /\ MaxSends \in Int
    BY BoundsAreNaturals
  <2> QED
    BY <2>1, FS_Interval DEF Sends
<1>2. OnWay \in SUBSET Sends /\ OnWay' \in SUBSET Sends
  BY DEF OnWay
<1>3. IsFiniteSet(OnWay) /\ IsFiniteSet(OnWay')
  BY <1>1, <1>2, FS_Subset
<1> QED
  BY <1>3, FS_CardinalityType

LEMMA OnWayStep ==
    ASSUME Typed, NEW n \in Sends, NEW r \in SendType, sends' = [sends EXCEPT ![n] = r]
    PROVE  /\ Cardinality(OnWay) \in Nat /\ Cardinality(OnWay') \in Nat
           /\ Cardinality(OnWay') <= Cardinality(OnWay) + 1
           /\ \/ OnTheWay(n)
              \/ r.phase \notin {"creating", "created", "sending"}
              => Cardinality(OnWay') <= Cardinality(OnWay)
           /\ OnTheWay(n) /\ r.phase \notin {"creating", "created", "sending"}
              => Cardinality(OnWay') + 1 = Cardinality(OnWay)
PROOF
<1>2. IsFiniteSet(OnWay) /\ Cardinality(OnWay) \in Nat /\ Cardinality(OnWay') \in Nat
  BY OnWayIsFinite
<1>3. sends'[n] = r /\ \A m \in Sends \ {n} : sends'[m] = sends[m]
  BY DEF Typed, SendsOK
<1>4. CASE r.phase \in {"creating", "created", "sending"}
  <2>1. OnWay' = OnWay \cup {n}
    BY <1>3, <1>4 DEF OnWay, OnTheWay
  <2>2. n \in OnWay <=> OnTheWay(n)
    BY DEF OnWay
  <2>3. Cardinality(OnWay') = IF n \in OnWay THEN Cardinality(OnWay) ELSE Cardinality(OnWay) + 1
    BY <1>2, <2>1, FS_AddElement
  <2> QED
    BY <1>2, <1>4, <2>2, <2>3
<1>5. CASE r.phase \notin {"creating", "created", "sending"}
  <2>1. OnWay' = OnWay \ {n}
    BY <1>3, <1>5 DEF OnWay, OnTheWay
  <2>2. n \in OnWay <=> OnTheWay(n)
    BY DEF OnWay
  <2>3. Cardinality(OnWay') = IF n \in OnWay THEN Cardinality(OnWay) - 1 ELSE Cardinality(OnWay)
    BY <1>2, <2>1, FS_RemoveElement
  <2> QED
    BY <1>2, <1>5, <2>2, <2>3
<1> QED
  BY <1>4, <1>5

LEMMA OneSend ==
    ASSUME Typed, Grows(server, server'), NEW n \in Sends, NEW r \in SendType,
           sends' = [sends EXCEPT ![n] = r],
           r.session \in server'.exists \cup {None},
           r.phase \in {"created", "sending", "stored"} => r.session # None,
           r.phase = "stored" =>
              r.task \in DOMAIN server'.tasks /\ server'.tasks[r.task].session = r.session
    PROVE  SendsOK'
PROOF
<1>1. sends' \in [Sends -> SendType]
      /\ sends'[n] = r /\ \A m \in Sends \ {n} : sends'[m] = sends[m]
  BY DEF Typed, SendsOK
<1> QED
  BY <1>1 DEF Typed, SendsOK, Grows, TaskIds

LEMMA UnchangedIsTyped ==
    ASSUME Typed, Grows(server, server')
    PROVE  /\ UNCHANGED sends => SendsOK'
           /\ UNCHANGED stop => StopOK'
           /\ UNCHANGED wire => WireOK'
           /\ UNCHANGED sends /\ Len(server'.tasks) <= Len(server.tasks) => RoomOK'
           /\ activeSessionId \in server'.exists \cup {None}
PROOF
<1>1. ASSUME UNCHANGED sends
      PROVE  SendsOK'
  BY <1>1 DEF Typed, SendsOK, TaskIds, Grows
<1>2. ASSUME UNCHANGED stop
      PROVE  StopOK'
  BY <1>2 DEF Typed, StopOK, TaskIds, Grows
<1>3. ASSUME UNCHANGED wire
      PROVE  WireOK'
  BY <1>3, GrowsKeeps DEF Typed, WireOK
<1>4. ASSUME UNCHANGED sends, Len(server'.tasks) <= Len(server.tasks)
      PROVE  RoomOK'
  <2>1. OnWay' = OnWay
    BY <1>4 DEF OnWay, OnTheWay
  <2>3. Cardinality(OnWay) \in Nat
    BY OnWayIsFinite
  <2>4. Len(server'.tasks) \in Nat /\ Len(server.tasks) \in Nat
    BY TasksAreTyped DEF Grows, Typed, ServerOK
  <2> QED
    BY <1>4, <2>1, <2>3, <2>4, BoundsAreNaturals DEF Typed, RoomOK
<1>5. activeSessionId \in server'.exists \cup {None}
  BY DEF Typed, Grows
<1> QED
  BY <1>1, <1>2, <1>3, <1>4, <1>5

\* A step of the client.
LEMMA RenderedIsTyped ==
    ASSUME Typed, UNCHANGED server, NEW c, NEW ms, Rendered(c, ms),
           isOpen' \in BOOLEAN, activeSessionId' \in server.exists \cup {None},
           UNCHANGED sends \/ (SendsOK' /\ RoomOK'),
           UNCHANGED stop \/ StopOK',
           UNCHANGED wire \/ WireOK',
           lost' \in 0 .. MaxLost
    PROVE  Typed'
PROOF
<1>1. Grows(server, server')
  BY GrowsReflexive DEF Typed, ServerOK
<1>2. Len(server'.tasks) <= Len(server.tasks)
  BY TasksAreTyped DEF Typed, ServerOK
<1>3. SendsOK' /\ RoomOK' /\ StopOK' /\ WireOK'
  BY <1>1, <1>2, UnchangedIsTyped
<1>4. CacheOK(server', cache') /\ MarksOK(server', marks')
  BY DEF Rendered
<1> QED
  BY <1>3, <1>4 DEF Typed, ServerOK

\* A step of the server.
LEMMA ServedIsTyped ==
    ASSUME Typed, UNCHANGED Client, Grows(server, server'),
           UNCHANGED sends \/ SendsOK',
           RoomOK',
           UNCHANGED stop \/ StopOK',
           UNCHANGED marks \/ MarksOK(server', marks'),
           UNCHANGED wire \/ WireOK',
           UNCHANGED lost
    PROVE  Typed'
PROOF
<1>1. SendsOK' /\ StopOK' /\ WireOK' /\ activeSessionId \in server'.exists \cup {None}
  BY UnchangedIsTyped
<1>2. CacheOK(server', cache') /\ MarksOK(server', marks')
  BY GrowsKeeps DEF Client
<1>3. ServerOK'
  <2>2. Cardinality(OnWay') \in Nat
    BY OnWayIsFinite
  <2>3. Len(server'.tasks) \in Nat
    BY TasksAreTyped DEF Grows
  <2> QED
    BY <2>2, <2>3, BoundsAreNaturals DEF RoomOK, ServerOK, Grows
<1> QED
  BY <1>1, <1>2, <1>3 DEF Typed, Client

-----------------------------------------------------------------------------
(* Types: the initial states, and the steps of the client *)

LEMMA InitIsTyped ==
    ASSUME Init
    PROVE  Typed
PROOF
<1>1. PICK born \in SUBSET Sessions : \E active \in born \cup {None} :
        \/ Start(born, active, <<>>)
        \/ \E s \in born, n \in 0 .. MaxSteps : Start(born, active, <<[Task(s) EXCEPT !.steps = n]>>)
  BY DEF Init
<1>2. PICK active \in born \cup {None} : \E tasks : 
        /\ Start(born, active, tasks)
        /\ tasks = <<>> \/ \E s \in born, n \in 0 .. MaxSteps : tasks = <<[Task(s) EXCEPT !.steps = n]>>
  BY <1>1
<1>3. PICK tasks :
        /\ Start(born, active, tasks)
        /\ tasks = <<>> \/ \E s \in born, n \in 0 .. MaxSteps : tasks = <<[Task(s) EXCEPT !.steps = n]>>
  BY <1>2
<1>4. tasks \in Seq(TaskType) /\ Len(tasks) <= 1 /\ Len(tasks) \in Nat
  <2>1. CASE tasks = <<>>
    BY <2>1
  <2>2. CASE \E s \in born, n \in 0 .. MaxSteps : tasks = <<[Task(s) EXCEPT !.steps = n]>>
    <3>1. PICK s \in born, n \in 0 .. MaxSteps : tasks = <<[Task(s) EXCEPT !.steps = n]>>
      BY <2>2
    <3>2. [Task(s) EXCEPT !.steps = n] \in TaskType
      BY <3>1 DEF Task, TaskType
    <3> QED
      BY <3>1, <3>2
  <2> QED
    BY <1>3, <2>1, <2>2
<1>5. /\ server \in ServerType /\ server.exists = born /\ server.tasks = tasks
      /\ activeSessionId = active
      /\ cache = [k \in Keys |-> IF k \in InUse([j \in Keys |-> Entry(None)], active)
                                 THEN Mounts(Entry(None)) ELSE Entry(None)]
  <2> DEFINE c == [j \in Keys |-> Entry(None)]
  <2>1. /\ server = [exists |-> born, said |-> [n \in Sends |-> None], tasks |-> tasks,
                     unread |-> [s \in Sessions |-> FALSE]]
        /\ activeSessionId = active
        /\ cache = [k \in Keys |-> IF k \in InUse(c, active) THEN Mounts(c[k]) ELSE c[k]]
    BY <1>3 DEF Start
  <2>2. InUse(c, active) \subseteq Keys
    BY DEF InUse
  <2>3. \A k \in Keys : c[k] = Entry(None)
    OBVIOUS
  <2> HIDE DEF c
  <2>4. cache = [k \in Keys |-> IF k \in InUse(c, active) THEN Mounts(Entry(None)) ELSE Entry(None)]
    BY <2>1, <2>3
  <2> QED
    BY <1>4, <2>1, <2>4 DEF c, ServerType
<1>6. ServerOK
  BY <1>4, <1>5, BoundsAreNaturals DEF ServerOK
<1>7. CacheOK(server, cache)
  <2> DEFINE c == [j \in Keys |-> Entry(None)]
  <2>1. ASSUME NEW k \in Keys
        PROVE  /\ Apart(Known(server, k)) /\ WellFormed(Entry(None), Known(server, k))
               /\ ~Fetching(Entry(None))
    <3>1. Apart(Known(server, k))
      BY <1>6, KnownIsApart DEF ServerOK
    <3> QED
      BY <3>1 DEF WellFormed, EntryOf, Entry, Fetching
  <2>2. CacheOK(server, c)
    BY <2>1 DEF CacheOK
  <2>3. \A k \in Keys : WellFormed(Mounts(Entry(None)), Known(server, k))
    BY <2>1, MountsIsWellFormed
  <2>4. \A k \in InUse(c, active) : k[1] = "taskMessages" => k[2] \in TaskIds
    BY <1>6, <2>2, InUseExists
  <2> HIDE DEF c
  <2>5. cache = [k \in Keys |-> IF k \in InUse(c, active) THEN Mounts(Entry(None)) ELSE Entry(None)]
    BY <1>5 DEF c
  <2> QED
    BY <2>1, <2>3, <2>4, <2>5 DEF CacheOK, TaskIds
<1>8. sends = [n \in Sends |-> [session |-> None, task |-> 0, phase |-> "unsent"]]
      /\ isOpen = FALSE /\ stop = None /\ marks = [m \in Marks |-> None]
      /\ wire = <<>> /\ lost = 0
  BY DEF Init
<1>9. SendsOK
  BY <1>8 DEF SendsOK, SendType, Phases
<1>10. RoomOK
  <2>1. OnWay = {}
    BY <1>8 DEF OnWay, OnTheWay
  <2>2. Cardinality(OnWay) = 0
    BY <2>1, FS_EmptySet
  <2> QED
    BY <1>4, <1>5, <2>2, BoundsAreNaturals DEF RoomOK
<1>11. StopOK /\ MarksOK(server, marks) /\ WireOK
  BY <1>8 DEF StopOK, MarksOK, WireOK
<1>12. lost \in 0 .. MaxLost
  BY <1>8, BoundsAreNaturals
<1> QED
  BY <1>5, <1>6, <1>7, <1>8, <1>9, <1>10, <1>11, <1>12 DEF Typed

LEMMA LostIsTyped ==
    ASSUME Typed, lost' = lost \/ (lost < MaxLost /\ lost' = lost + 1)
    PROVE  lost' \in 0 .. MaxLost
BY BoundsAreNaturals DEF Typed

\* What the user does without a message.
LEMMA LookingIsTyped ==
    ASSUME Typed, Toggle \/ NewChat \/ \E s \in Sessions : SelectSession(s)
    PROVE  Typed' /\ Rendered(cache, marks) /\ UNCHANGED <<server, sends, stop, wire, lost>>
PROOF
<1>0. ServerOK /\ CacheOK(server, cache) /\ MarksOK(server, marks) /\ isOpen \in BOOLEAN
      /\ activeSessionId \in server.exists \cup {None} /\ lost \in 0 .. MaxLost
  BY DEF Typed
<1>1. ASSUME NEW s \in Sessions, SelectSession(s)
      PROVE  s \in server.exists
  <2>1. sessions \in Keys /\ HasData(cache[sessions]) /\ s \in DOMAIN cache[sessions].data
    BY <1>1 DEF SelectSession, Value
  <2>2. cache[sessions].data \in Known(server, sessions)
    BY <1>0, <2>1 DEF CacheOK, WellFormed, EntryOf, HasData
  <2>3. Known(server, sessions) = UNION {[S -> [has_unread : BOOLEAN]] : S \in SUBSET server.exists}
    BY KnownKinds
  <2> QED
    BY <2>1, <2>2, <2>3
<1>2. UNCHANGED <<server, sends, stop, wire, lost>>
      /\ \E open \in BOOLEAN, active \in server.exists \cup {None} : Render(cache, open, active, marks)
  <2>1. CASE Toggle
    BY <1>0, <2>1 DEF Toggle
  <2>2. CASE NewChat
    BY <1>0, <2>2 DEF NewChat
  <2>3. ASSUME NEW s \in Sessions, SelectSession(s)
        PROVE  <1>2!1 /\ <1>2!2
    BY <1>0, <1>1, <2>3 DEF SelectSession
  <2> QED
    BY <2>1, <2>2, <2>3
<1>3. PICK open \in BOOLEAN, active \in server.exists \cup {None} : Render(cache, open, active, marks)
  BY <1>2
<1>4. Rendered(cache, marks) /\ isOpen' = open /\ activeSessionId' = active
  BY <1>0, <1>3, RenderStep
<1>5. Typed'
  BY <1>0, <1>2, <1>4, RenderedIsTyped
<1> QED
  BY <1>2, <1>4, <1>5
LEMMA ValueIsKnown ==
    ASSUME ServerOK, NEW c, CacheOK(server, c), NEW k \in Keys, NEW none
    PROVE  Value(c, k, none) \in Known(server, k) \cup {none}
BY DEF CacheOK, WellFormed, EntryOf, HasData, Value

LEMMA OptimisticIsOK ==
    ASSUME ServerOK, NEW c, CacheOK(server, c), NEW s, NEW n \in Sends
    PROVE  /\ CacheOK(server, Optimistic(c, s, n))
           /\ \A k \in Keys : Optimistic(c, s, n)[k] =
                 IF k = messages(s)
                 THEN Put(c[k], Value(c, k, {}) \cup {<<"optimistic", n>>}) ELSE c[k]
PROOF
<1> DEFINE data == Value(c, messages(s), {}) \cup {<<"optimistic", n>>}
<1>1. ASSUME messages(s) \in Keys
      PROVE  data \in Known(server, messages(s))
  <2>1. Known(server, messages(s)) =
            SUBSET (({"user", "optimistic"} \X Sends) \cup ({"assistant"} \X DOMAIN server.tasks))
    BY KnownKinds
  <2>2. Value(c, messages(s), {}) \in Known(server, messages(s)) \cup {{}}
    BY <1>1, ValueIsKnown
  <2> QED
    BY <2>1, <2>2
<1>2. Optimistic(c, s, n) = Written(c, messages(s), data)
  BY DEF Optimistic
<1> HIDE DEF data
<1>3. /\ CacheOK(server, Written(c, messages(s), data))
      /\ \A k \in Keys : Written(c, messages(s), data)[k] =
            IF k = messages(s) THEN Put(c[k], data) ELSE c[k]
  BY <1>1, WrittenIsOK
<1> QED
  BY <1>2, <1>3 DEF data

\* What the answer to a message and to the request to stop a task make of the
\* cache, and of the marks when a session was marked as read.
AfterSent(n) == Invalidated(Seeded(cache, n), {messages(sends[n].session)})
AfterStopped(s) == Invalidated(Written(cache, pendingTask(s), 0), {messages(s)})
Unmarked(m) == [marks EXCEPT ![m] = None]

LEMMA ZeroIsKnown ==
    ASSUME NEW srv, NEW s
    PROVE  0 \in Known(srv, pendingTask(s))
PROOF
<1>1. Known(srv, pendingTask(s)) = {0} \cup {t \in DOMAIN srv.tasks : srv.tasks[t].session = s}
  BY KnownKinds
<1> QED
  BY <1>1

LEMMA TaskIsKnown ==
    ASSUME NEW s, NEW t \in TaskIds, server.tasks[t].session = s
    PROVE  t \in Known(server, pendingTask(s))
PROOF
<1>1. Known(server, pendingTask(s)) = {0} \cup {u \in DOMAIN server.tasks : server.tasks[u].session = s}
  BY KnownKinds
<1> QED
  BY <1>1 DEF TaskIds

LEMMA SendIsTyped ==
    ASSUME Typed, NEW n \in Sends, Send(n)
    PROVE  /\ Typed' /\ UNCHANGED <<server, stop, wire, lost>>
           /\ n \in Unsent
           /\ \/ /\ activeSessionId = None /\ Rendered(cache, marks)
                 /\ sends' = [sends EXCEPT ![n].phase = "creating"]
              \/ /\ activeSessionId # None /\ Rendered(Optimistic(cache, activeSessionId, n), marks)
                 /\ sends' = [sends EXCEPT ![n].session = activeSessionId, ![n].phase = "sending"]
PROOF
<1>0. ServerOK /\ CacheOK(server, cache) /\ MarksOK(server, marks) /\ isOpen \in BOOLEAN
      /\ activeSessionId \in server.exists \cup {None} /\ lost \in 0 .. MaxLost
      /\ sends[n] \in SendType /\ Grows(server, server')
  BY GrowsReflexive DEF Typed, SendsOK, ServerOK, Send
<1>1. UNCHANGED <<server, stop, wire, lost>> /\ Room /\ n \in Unsent
  BY DEF Send
<1>2. ASSUME NEW r \in SendType, sends' = [sends EXCEPT ![n] = r]
      PROVE  RoomOK'
  <2>1. /\ Cardinality(OnWay) \in Nat /\ Cardinality(OnWay') \in Nat
        /\ Cardinality(OnWay') <= Cardinality(OnWay) + 1
    BY <1>2, OnWayStep
  <2>2. Len(server.tasks) \in Nat /\ server' = server
    BY <1>0, <1>1, TasksAreTyped DEF ServerOK
  <2> QED
    BY <1>1, <2>1, <2>2, BoundsAreNaturals DEF Room, RoomOK, OnWay
<1>3. CASE activeSessionId = None
  <2> DEFINE r == [sends[n] EXCEPT !.phase = "creating"]
  <2>1. sends' = [sends EXCEPT ![n].phase = "creating"] /\ Rerender(cache)
    BY <1>3 DEF Send
  <2>2. r \in SendType /\ r.session = sends[n].session /\ r.phase = "creating"
    BY <1>0 DEF SendType, Phases
  <2>3. sends' = [sends EXCEPT ![n] = r] /\ r.session \in server'.exists \cup {None}
    BY <1>1, <2>1, <2>2 DEF Typed, SendsOK
  <2> HIDE DEF r
  <2>4. SendsOK' /\ RoomOK'
    BY <1>0, <1>2, <2>2, <2>3, OneSend
  <2>5. Rendered(cache, marks) /\ isOpen' = isOpen /\ activeSessionId' = activeSessionId
    BY <1>0, <2>1, RenderStep DEF Rerender
  <2>6. Typed'
    BY <1>0, <1>1, <2>4, <2>5, RenderedIsTyped
  <2> QED
    BY <1>1, <1>3, <2>1, <2>5, <2>6
<1>4. CASE activeSessionId # None
  <2> DEFINE r == [sends[n] EXCEPT !.session = activeSessionId, !.phase = "sending"]
             c == Optimistic(cache, activeSessionId, n)
  <2>1. /\ sends' = [sends EXCEPT ![n].session = activeSessionId, ![n].phase = "sending"]
        /\ Rerender(c)
    BY <1>4 DEF Send
  <2>2. r \in SendType /\ r.session = activeSessionId /\ r.phase = "sending"
    BY <1>0, <1>4 DEF SendType, Phases, ServerOK, ServerType
  <2>3. sends' = [sends EXCEPT ![n] = r] /\ r.session \in server'.exists \cup {None}
    BY <1>0, <1>1, <2>1, <2>2 DEF Typed, SendsOK
  <2> HIDE DEF r
  <2>4. SendsOK' /\ RoomOK'
    BY <1>0, <1>2, <1>4, <2>2, <2>3, OneSend
  <2>5. CacheOK(server, c)
    BY <1>0, OptimisticIsOK
  <2> HIDE DEF c
  <2>6. Rendered(c, marks) /\ isOpen' = isOpen /\ activeSessionId' = activeSessionId
    BY <1>0, <2>1, <2>5, RenderStep DEF Rerender
  <2>7. Typed'
    BY <1>0, <1>1, <2>4, <2>6, RenderedIsTyped
  <2> QED
    BY <1>1, <1>4, <2>1, <2>6, <2>7 DEF c
<1> QED
  BY <1>3, <1>4

\* A message, or the session it needs, is answered: its phase changes to one
\* that asks for no more room.
LEMMA PhaseIsTyped ==
    ASSUME Typed, UNCHANGED server, NEW n \in Sends, NEW p \in {"sending", "over"},
           p = "sending" => sends[n].phase = "created",
           sends' = [sends EXCEPT ![n].phase = p]
    PROVE  SendsOK' /\ RoomOK'
PROOF
<1> DEFINE r == [sends[n] EXCEPT !.phase = p]
<1>1. /\ sends[n] \in SendType /\ Grows(server, server')
      /\ sends[n].session \in server.exists \cup {None}
      /\ p = "sending" => sends[n].session # None
  BY GrowsReflexive DEF Typed, SendsOK, ServerOK
<1>2. r \in SendType /\ r.session = sends[n].session /\ r.phase = p
  BY <1>1 DEF SendType, Phases
<1>3. sends' = [sends EXCEPT ![n] = r]
  OBVIOUS
<1> HIDE DEF r
<1>4. SendsOK'
  BY <1>1, <1>2, <1>3, OneSend
<1>5. /\ Cardinality(OnWay) \in Nat /\ Cardinality(OnWay') \in Nat
      /\ Cardinality(OnWay') <= Cardinality(OnWay)
  <2>1. p = "sending" => OnTheWay(n)
    BY DEF OnTheWay
  <2> QED
    BY <1>2, <1>3, <2>1, OnWayStep
<1>6. Len(server.tasks) \in Nat
  BY TasksAreTyped DEF Typed, ServerOK
<1>7. RoomOK'
  BY <1>5, <1>6, BoundsAreNaturals DEF Typed, RoomOK
<1> QED
  BY <1>4, <1>7

LEMMA CreatedIsTyped ==
    ASSUME Typed, NEW n \in Sends, NEW ok \in BOOLEAN, Created(n, ok)
    PROVE  /\ Typed' /\ UNCHANGED <<server, stop, wire>> /\ Safe({sessions}, TRUE)
           /\ \/ /\ sends[n].phase = "created" /\ sends' = [sends EXCEPT ![n].phase = "sending"]
                 /\ Rendered(Optimistic(Invalidated(cache, {sessions}), sends[n].session, n), marks)
              \/ /\ sends[n].phase \in {"creating", "created"}
                 /\ sends' = [sends EXCEPT ![n].phase = "over"]
                 /\ Rendered(Invalidated(cache, {sessions}), marks)
PROOF
<1> DEFINE c == Invalidated(cache, {sessions})
           d == Optimistic(c, sends[n].session, n)
<1>0. ServerOK /\ CacheOK(server, cache) /\ MarksOK(server, marks) /\ isOpen \in BOOLEAN
      /\ activeSessionId \in server.exists \cup {None} /\ lost \in 0 .. MaxLost
      /\ sends[n].session \in server.exists \cup {None}
  BY DEF Typed, SendsOK
<1>1. UNCHANGED <<server, stop, wire>> /\ Safe({sessions}, TRUE) /\ lost' \in 0 .. MaxLost
  <2>1. lost' = lost \/ (lost < MaxLost /\ lost' = lost + 1)
    BY DEF Created
  <2>2. lost' \in 0 .. MaxLost
    BY <2>1, LostIsTyped
  <2> QED
    BY <2>2 DEF Created
<1>2. CacheOK(server, c)
  BY <1>0, InvalidatedIsOK
<1>3. CASE ok
  <2>1. /\ sends[n].phase = "created" /\ sends' = [sends EXCEPT ![n].phase = "sending"]
        /\ Render(d, isOpen, sends[n].session, marks)
    BY <1>3 DEF Created
  <2>2. CacheOK(server, d)
    BY <1>0, <1>2, OptimisticIsOK
  <2> HIDE DEF c, d
  <2>3. Rendered(d, marks) /\ isOpen' = isOpen /\ activeSessionId' = sends[n].session
    BY <1>0, <2>1, <2>2, RenderStep
  <2>4. SendsOK' /\ RoomOK'
    BY <1>1, <2>1, PhaseIsTyped
  <2>5. Typed'
    BY <1>0, <1>1, <2>3, <2>4, RenderedIsTyped
  <2> QED
    BY <1>1, <2>1, <2>3, <2>5 DEF c, d
<1>4. CASE ~ok
  <2>1. /\ sends[n].phase \in {"creating", "created"} /\ sends' = [sends EXCEPT ![n].phase = "over"]
        /\ Rerender(c)
    BY <1>4 DEF Created
  <2> HIDE DEF c, d
  <2>3. Rendered(c, marks) /\ isOpen' = isOpen /\ activeSessionId' = activeSessionId
    BY <1>0, <1>2, <2>1, RenderStep DEF Rerender
  <2>4. SendsOK' /\ RoomOK'
    BY <1>1, <2>1, PhaseIsTyped
  <2>5. Typed'
    BY <1>0, <1>1, <2>3, <2>4, RenderedIsTyped
  <2> QED
    BY <1>1, <2>1, <2>3, <2>5 DEF c
<1> QED
  BY <1>3, <1>4
LEMMA SentIsTyped ==
    ASSUME Typed, NEW n \in Sends, NEW ok \in BOOLEAN, Sent(n, ok)
    PROVE  /\ Typed' /\ UNCHANGED <<server, stop, wire>>
           /\ sends[n].phase = "stored" \/ (sends[n].phase = "sending" /\ "refused" \in Races)
           /\ sends' = [sends EXCEPT ![n].phase = "over"]
           /\ \/ Rendered(cache, marks)
              \/ /\ InTime(sends[n].session, sends[n].task)
                 /\ Safe({messages(sends[n].session)}, TRUE)
                 /\ Safe({pendingTask(sends[n].session)}, FALSE)
                 /\ CacheOK(server, Seeded(cache, n))
                 /\ Rendered(AfterSent(n), marks)
PROOF
<1>0. ServerOK /\ CacheOK(server, cache) /\ MarksOK(server, marks) /\ isOpen \in BOOLEAN
      /\ activeSessionId \in server.exists \cup {None}
  BY DEF Typed
<1>1. /\ UNCHANGED <<server, stop, wire>>
      /\ sends[n].phase = "stored" \/ (sends[n].phase = "sending" /\ "refused" \in Races)
      /\ sends' = [sends EXCEPT ![n].phase = "over"]
      /\ lost' = lost \/ (lost < MaxLost /\ lost' = lost + 1)
  BY DEF Sent
<1>2. SendsOK' /\ RoomOK' /\ lost' \in 0 .. MaxLost
  BY <1>1, PhaseIsTyped, LostIsTyped
<1>3. CASE ok
  <2>1. /\ InTime(sends[n].session, sends[n].task)
        /\ Safe({messages(sends[n].session)}, TRUE)
        /\ Safe({pendingTask(sends[n].session)}, FALSE)
        /\ Rerender(AfterSent(n)) /\ sends[n].phase = "stored"
    BY <1>3 DEF Sent, AfterSent
  <2>2. sends[n].task \in Known(server, pendingTask(sends[n].session))
    <3>1. sends[n].task \in TaskIds /\ server.tasks[sends[n].task].session = sends[n].session
      BY <2>1 DEF Typed, SendsOK
    <3> QED
      BY <3>1, TaskIsKnown
  <2>3. CacheOK(server, Seeded(cache, n))
    BY <1>0, <2>2, WrittenIsOK DEF Seeded
  <2>4. CacheOK(server, AfterSent(n))
    BY <1>0, <2>3, InvalidatedIsOK DEF AfterSent
  <2>5. Rendered(AfterSent(n), marks) /\ isOpen' = isOpen /\ activeSessionId' = activeSessionId
    BY <1>0, <2>1, <2>4, RenderStep DEF Rerender
  <2>6. Typed'
    BY <1>0, <1>1, <1>2, <2>5, RenderedIsTyped
  <2> QED
    BY <1>1, <2>1, <2>3, <2>5, <2>6
<1>4. CASE ~ok
  <2>1. Rerender(cache)
    BY <1>4 DEF Sent
  <2>2. Rendered(cache, marks) /\ isOpen' = isOpen /\ activeSessionId' = activeSessionId
    BY <1>0, <2>1, RenderStep DEF Rerender
  <2>3. Typed'
    BY <1>0, <1>1, <1>2, <2>2, RenderedIsTyped
  <2> QED
    BY <1>1, <2>2, <2>3
<1> QED
  BY <1>3, <1>4

LEMMA StoppedIsTyped ==
    ASSUME Typed, Stopped
    PROVE  /\ Typed' /\ UNCHANGED <<server, sends, wire>>
           /\ stop # None /\ stop' = None
           /\ InTime(stop.session, 0)
           /\ Safe({messages(stop.session)}, TRUE) /\ Safe({pendingTask(stop.session)}, FALSE)
           /\ CacheOK(server, Written(cache, pendingTask(stop.session), 0))
           /\ Rendered(AfterStopped(stop.session), marks)
PROOF
<1>0. ServerOK /\ CacheOK(server, cache) /\ MarksOK(server, marks) /\ isOpen \in BOOLEAN
      /\ activeSessionId \in server.exists \cup {None}
  BY DEF Typed
<1>1. /\ UNCHANGED <<server, sends, wire>> /\ stop # None /\ stop' = None
      /\ InTime(stop.session, 0)
      /\ Safe({messages(stop.session)}, TRUE) /\ Safe({pendingTask(stop.session)}, FALSE)
      /\ Rerender(AfterStopped(stop.session))
      /\ lost' = lost \/ (lost < MaxLost /\ lost' = lost + 1)
  BY DEF Stopped, AfterStopped
<1>2. CacheOK(server, Written(cache, pendingTask(stop.session), 0))
  BY <1>0, WrittenIsOK, ZeroIsKnown
<1>3. CacheOK(server, AfterStopped(stop.session))
  BY <1>0, <1>2, InvalidatedIsOK DEF AfterStopped
<1>4. Rendered(AfterStopped(stop.session), marks)
      /\ isOpen' = isOpen /\ activeSessionId' = activeSessionId
  BY <1>0, <1>1, <1>3, RenderStep DEF Rerender
<1>5. StopOK' /\ lost' \in 0 .. MaxLost
  BY <1>1, LostIsTyped DEF StopOK
<1>6. Typed'
  BY <1>0, <1>1, <1>4, <1>5, RenderedIsTyped
<1> QED
  BY <1>1, <1>2, <1>4, <1>6

LEMMA MarkedIsTyped ==
    ASSUME Typed, NEW m \in Marks, NEW ok \in BOOLEAN, Marked(m, ok)
    PROVE  /\ Typed' /\ UNCHANGED <<server, sends, stop, wire>>
           /\ Safe({sessions}, TRUE)
           /\ \/ CacheOK(server, cache) /\ Rendered(Invalidated(cache, {sessions}), Unmarked(m))
              \/ /\ marks[m].saved \in Known(server, sessions)
                 /\ CacheOK(server, Written(cache, sessions, marks[m].saved))
                 /\ Rendered(Invalidated(Written(cache, sessions, marks[m].saved), {sessions}),
                             Unmarked(m))
PROOF
<1> DEFINE w == Written(cache, sessions, marks[m].saved)
<1>0. ServerOK /\ CacheOK(server, cache) /\ MarksOK(server, marks) /\ isOpen \in BOOLEAN
      /\ activeSessionId \in server.exists \cup {None}
  BY DEF Typed
<1>1. /\ UNCHANGED <<server, sends, stop, wire>> /\ marks[m] # None
      /\ Safe({sessions}, TRUE)
      /\ Render(Invalidated(IF ok THEN cache ELSE w, {sessions}), isOpen, activeSessionId, Unmarked(m))
      /\ lost' = lost \/ (lost < MaxLost /\ lost' = lost + 1)
  BY DEF Marked, Unmarked
<1>2. MarksOK(server, Unmarked(m)) /\ lost' \in 0 .. MaxLost
  BY <1>0, <1>1, LostIsTyped DEF MarksOK, Unmarked
<1>3. marks[m].saved \in Known(server, sessions)
  BY <1>0, <1>1 DEF MarksOK
<1>4. CacheOK(server, w)
  BY <1>0, <1>3, WrittenIsOK
<1> HIDE DEF w
<1>5. CacheOK(server, Invalidated(w, {sessions})) /\ CacheOK(server, Invalidated(cache, {sessions}))
  BY <1>0, <1>4, InvalidatedIsOK
<1>6. CASE ok
  <2>1. Rendered(Invalidated(cache, {sessions}), Unmarked(m))
        /\ isOpen' = isOpen /\ activeSessionId' = activeSessionId
    BY <1>0, <1>1, <1>2, <1>5, <1>6, RenderStep
  <2>2. Typed'
    BY <1>0, <1>1, <1>2, <2>1, RenderedIsTyped
  <2> QED
    BY <1>0, <1>1, <2>1, <2>2
<1>7. CASE ~ok
  <2>1. Rendered(Invalidated(w, {sessions}), Unmarked(m))
        /\ isOpen' = isOpen /\ activeSessionId' = activeSessionId
    BY <1>0, <1>1, <1>2, <1>5, <1>7, RenderStep
  <2>2. Typed'
    BY <1>0, <1>1, <1>2, <2>1, RenderedIsTyped
  <2> QED
    BY <1>1, <1>3, <1>4, <2>1, <2>2 DEF w
<1> QED
  BY <1>6, <1>7

\* What an event makes of the cache.
Reset(e) ==
    IF e.type \in Refreshing \ {"chat:message"} /\ e.session # None
    THEN Written(cache, pendingTask(e.session), 0) ELSE cache
AfterEvent(e) ==
    IF e.type = "task:message" THEN Reported(cache, e) ELSE Invalidated(Reset(e), InvalidatedBy(e))

LEMMA EventIsOK ==
    ASSUME ServerOK, CacheOK(server, cache), NEW e, Sound(server, e), CacheOK(server, Reset(e))
    PROVE  /\ CacheOK(server, AfterEvent(e))
           /\ e.type = "task:message" =>
                 /\ e.task \in TaskIds
                 /\ \A k \in Keys : AfterEvent(e)[k] =
                       IF k = taskMessages(e.task)
                       THEN Put(cache[k], Value(cache, k, {}) \cup {e.seq}) ELSE cache[k]
PROOF
<1>1. CASE e.type = "task:message"
  <2> DEFINE k == taskMessages(e.task)
             data == Value(cache, k, {}) \cup {e.seq}
  <2>1. e.task \in DOMAIN server.tasks /\ e.seq \in 1 .. server.tasks[e.task].steps
    BY <1>1 DEF Sound
  <2>2. Known(server, k) = SUBSET (1 .. server.tasks[e.task].steps)
    BY <2>1, KnownKinds
  <2>3. k \in Keys => Value(cache, k, {}) \in Known(server, k) \cup {{}}
    BY ValueIsKnown
  <2>4. k \in Keys => data \in Known(server, k)
    BY <2>1, <2>2, <2>3
  <2>5. AfterEvent(e) = Written(cache, k, data)
    BY <1>1 DEF Reported, AfterEvent
  <2> HIDE DEF k, data
  <2>6. /\ CacheOK(server, Written(cache, k, data))
        /\ \A j \in Keys : Written(cache, k, data)[j] = IF j = k THEN Put(cache[k], data) ELSE cache[j]
    BY <2>4, WrittenIsOK
  <2> QED
    BY <2>1, <2>5, <2>6 DEF TaskIds, k, data
<1>2. CASE e.type # "task:message"
  BY <1>2, InvalidatedIsOK DEF AfterEvent
<1> QED
  BY <1>1, <1>2

LEMMA DeliverIsTyped ==
    ASSUME Typed, Deliver
    PROVE  /\ Typed' /\ UNCHANGED <<server, sends, stop>>
           /\ wire # <<>> /\ wire' = Tail(wire) /\ Sound(server, Head(wire))
           /\ Safe(InvalidatedBy(Head(wire)), TRUE)
           /\ Head(wire).type = "task:message" =>
                /\ Safe({taskMessages(Head(wire).task)}, FALSE)
                /\ "headless" \in Races
                   \/ 1 .. Head(wire).seq - 1 \subseteq
                        Value(cache, taskMessages(Head(wire).task), {})
           /\ CacheOK(server, Reset(Head(wire)))
           /\ Rendered(AfterEvent(Head(wire)), marks)
PROOF
<1> DEFINE e == Head(wire)
<1>0. ServerOK /\ CacheOK(server, cache) /\ MarksOK(server, marks) /\ isOpen \in BOOLEAN
      /\ activeSessionId \in server.exists \cup {None} /\ lost \in 0 .. MaxLost /\ WireOK
  BY DEF Typed
<1>1. /\ wire # <<>> /\ wire' = Tail(wire) /\ UNCHANGED <<server, sends, stop, lost>>
      /\ Safe(InvalidatedBy(e), TRUE)
      /\ e.type = "task:message" =>
            /\ Safe({taskMessages(e.task)}, FALSE)
            /\ "headless" \in Races
               \/ 1 .. e.seq - 1 \subseteq Value(cache, taskMessages(e.task), {})
      /\ Rerender(AfterEvent(e))
  BY DEF Deliver, AfterEvent, Reset
<1>2. Sound(server, e) /\ WireOK'
  <2>1. wire' \in Seq(EventType) /\ 1 \in DOMAIN wire /\ wire[1] = e
        /\ \A i \in DOMAIN wire' : i + 1 \in DOMAIN wire /\ wire'[i] = wire[i + 1]
    BY <1>0, <1>1 DEF WireOK
  <2>2. server' = server
    BY <1>1
  <2> HIDE DEF e
  <2> QED
    BY <1>0, <2>1, <2>2 DEF WireOK
<1> HIDE DEF e
<1>3. CacheOK(server, Reset(e))
  BY <1>0, WrittenIsOK, ZeroIsKnown DEF Reset
<1>4. CacheOK(server, AfterEvent(e))
  BY <1>0, <1>2, <1>3, EventIsOK
<1>5. Rendered(AfterEvent(e), marks) /\ isOpen' = isOpen /\ activeSessionId' = activeSessionId
  BY <1>0, <1>1, <1>4, RenderStep DEF Rerender
<1>6. Typed'
  BY <1>0, <1>1, <1>2, <1>5, RenderedIsTyped
<1> QED
  BY <1>1, <1>2, <1>3, <1>5, <1>6 DEF e
\* A fetch is read, answered or tried again.
LEMMA FetchIsTyped ==
    ASSUME Typed, NEW k \in Keys, ServerReads(k) \/ Arrive(k) \/ Lose(k)
    PROVE  /\ Typed' /\ UNCHANGED <<server, sends, stop, wire>>
           /\ \/ /\ cache[k].fetch = "asked" /\ UNCHANGED <<isOpen, activeSessionId, marks>>
                 /\ cache' = [cache EXCEPT ![k] = Read(cache[k], View(server, k))]
                 /\ View(server, k) \in Known(server, k)
              \/ /\ cache[k].fetch = "read" /\ UNCHANGED <<isOpen, activeSessionId, marks>>
                 /\ cache' = [cache EXCEPT ![k] = Retry(cache[k])]
              \/ /\ cache[k].fetch = "read"
                 /\ CacheOK(server, [cache EXCEPT ![k] = Answer(cache[k])])
                 /\ Rendered([cache EXCEPT ![k] = Answer(cache[k])], marks)
PROOF
<1> DEFINE D == Known(server, k)
           q == cache[k]
<1>0. /\ ServerOK /\ CacheOK(server, cache) /\ MarksOK(server, marks) /\ isOpen \in BOOLEAN
      /\ activeSessionId \in server.exists \cup {None} /\ lost \in 0 .. MaxLost
      /\ WellFormed(q, D) /\ Apart(D)
  BY KnownIsApart DEF Typed, CacheOK, ServerOK
<1>1. UNCHANGED <<server, sends, stop, wire>>
      /\ (lost' = lost \/ (lost < MaxLost /\ lost' = lost + 1))
  BY DEF ServerReads, Arrive, Lose
<1>2. /\ SendsOK' /\ RoomOK' /\ StopOK' /\ WireOK' /\ ServerOK' /\ lost' \in 0 .. MaxLost
  <2>1. Grows(server, server') /\ Len(server'.tasks) <= Len(server.tasks)
    BY <1>0, <1>1, GrowsReflexive, TasksAreTyped DEF ServerOK
  <2> QED
    BY <1>0, <1>1, <2>1, UnchangedIsTyped, LostIsTyped DEF ServerOK
<1>3. CASE ServerReads(k)
  <2>1. /\ q.fetch = "asked" /\ UNCHANGED <<isOpen, activeSessionId, marks>>
        /\ cache' = [cache EXCEPT ![k] = Read(q, View(server, k))]
    BY <1>3 DEF ServerReads
  <2>2. View(server, k) \in D
    BY <1>0, <2>1, ViewIsKnown DEF CacheOK, Fetching, ServerOK
  <2>3. WellFormed(Read(q, View(server, k)), D) /\ Fetching(q)
    <3>1. Fetching(q)
      BY <2>1 DEF Fetching
    <3> QED
      BY <1>0, <2>2, <3>1, AnswersAreWellFormed
  <2>4. CacheOK(server, cache')
    BY <1>0, <2>1, <2>3, EntryIsOK
  <2>5. Typed'
    BY <1>0, <1>1, <1>2, <2>1, <2>4 DEF Typed
  <2> QED
    BY <1>1, <2>1, <2>2, <2>5
<1>4. CASE Lose(k)
  <2>1. /\ q.fetch = "read" /\ UNCHANGED <<isOpen, activeSessionId, marks>>
        /\ cache' = [cache EXCEPT ![k] = Retry(q)]
    BY <1>4 DEF Lose
  <2>2. WellFormed(Retry(q), D) /\ Fetching(q)
    <3>1. Fetching(q) /\ q.snap \in D
      BY <1>0, <2>1 DEF Fetching, WellFormed, EntryOf
    <3> QED
      BY <1>0, <2>1, <3>1, AnswersAreWellFormed
  <2>3. CacheOK(server, cache')
    BY <1>0, <2>1, <2>2, EntryIsOK
  <2>4. Typed'
    BY <1>0, <1>1, <1>2, <2>1, <2>3 DEF Typed
  <2> QED
    BY <1>1, <2>1, <2>4
<1>5. CASE Arrive(k)
  <2> DEFINE c == [cache EXCEPT ![k] = Answer(q)]
  <2>1. q.fetch = "read" /\ Rerender(c)
    BY <1>5 DEF Arrive
  <2>2. WellFormed(Answer(q), D) /\ Fetching(q)
    <3>1. Fetching(q) /\ q.snap \in D
      BY <1>0, <2>1 DEF Fetching, WellFormed, EntryOf
    <3> QED
      BY <1>0, <2>1, <3>1, AnswersAreWellFormed
  <2>3. CacheOK(server, c)
    BY <1>0, <2>2, EntryIsOK
  <2> HIDE DEF c
  <2>4. Rendered(c, marks) /\ isOpen' = isOpen /\ activeSessionId' = activeSessionId
    BY <1>0, <2>1, <2>3, RenderStep DEF Rerender
  <2>5. Typed'
    BY <1>0, <1>1, <1>2, <2>4, RenderedIsTyped
  <2> QED
    BY <1>1, <2>1, <2>3, <2>4, <2>5 DEF c
<1> QED
  BY <1>3, <1>4, <1>5

LEMMA StopIsTyped ==
    ASSUME Typed, Stop
    PROVE  Typed' /\ UNCHANGED <<server, Client, sends, marks, wire>>
PROOF
<1> DEFINE t == PendingTaskId(cache, activeSessionId)
<1>0. ServerOK /\ CacheOK(server, cache) /\ activeSessionId \in server.exists \cup {None}
  BY DEF Typed
<1>1. /\ activeSessionId # None /\ t # 0
      /\ stop' = [session |-> activeSessionId, task |-> t, phase |-> "sent"]
      /\ UNCHANGED <<server, Client, sends, marks, wire, lost>>
  BY DEF Stop, Client
<1>2. t \in TaskIds /\ server.tasks[t].session = activeSessionId
  <2>1. pendingTask(activeSessionId) \in Keys
    BY <1>1 DEF PendingTaskId, Value
  <2>2. t \in Known(server, pendingTask(activeSessionId)) \cup {0}
    BY <1>0, <2>1, ValueIsKnown DEF PendingTaskId
  <2>3. Known(server, pendingTask(activeSessionId)) =
           {0} \cup {u \in DOMAIN server.tasks : server.tasks[u].session = activeSessionId}
    BY KnownKinds
  <2> HIDE DEF t
  <2> QED
    BY <1>1, <2>2, <2>3 DEF TaskIds
<1>3. t \in Tasks
  <2> HIDE DEF t
  <2> QED
    BY <1>0, <1>2, TasksAreTyped, BoundsAreNaturals DEF ServerOK, TaskIds, Tasks
<1> HIDE DEF t
<1>4. StopOK'
  BY <1>0, <1>1, <1>2, <1>3 DEF StopOK, StopRequest, ServerOK, ServerType, TaskIds
<1>5. Grows(server, server') /\ Len(server'.tasks) <= Len(server.tasks)
  BY <1>0, <1>1, GrowsReflexive, TasksAreTyped DEF ServerOK
<1>6. RoomOK'
  BY <1>1, <1>5, UnchangedIsTyped
<1>7. Typed'
  BY <1>1, <1>4, <1>5, <1>6, ServedIsTyped
<1> QED
  BY <1>1, <1>7
-----------------------------------------------------------------------------
(* Types: the steps of the server *)

\* new is the server with r for its task t.
Changed(new, t, r) ==
    /\ Grows(server, new) /\ Len(new.tasks) = Len(server.tasks)
    /\ DOMAIN new.tasks = TaskIds /\ new.tasks[t] = r
    /\ \A u \in TaskIds \ {t} : new.tasks[u] = server.tasks[u]
    /\ new.exists = server.exists /\ new.said = server.said /\ new.unread = server.unread

LEMMA TaskChange ==
    ASSUME Typed, NEW t \in TaskIds, NEW r \in TaskType,
           r.session = server.tasks[t].session, server.tasks[t].steps <= r.steps
    PROVE  Changed([server EXCEPT !.tasks[t] = r], t, r)
PROOF
<1> DEFINE new == [server EXCEPT !.tasks[t] = r]
<1>1. server \in ServerType /\ server.tasks \in Seq(TaskType) /\ t \in 1 .. Len(server.tasks)
  BY DEF Typed, ServerOK, ServerType, TaskIds
<1>2. /\ new.tasks = [server.tasks EXCEPT ![t] = r]
      /\ new.exists = server.exists /\ new.said = server.said /\ new.unread = server.unread
  BY <1>1 DEF ServerType
<1>3. /\ new.tasks \in Seq(TaskType) /\ Len(new.tasks) = Len(server.tasks)
      /\ DOMAIN new.tasks = TaskIds /\ new.tasks[t] = r
      /\ \A u \in TaskIds \ {t} : new.tasks[u] = server.tasks[u]
  <2> DEFINE old == server.tasks
  <2>1. old \in Seq(TaskType) /\ t \in DOMAIN old
    BY <1>1
  <2>2. new.tasks = [old EXCEPT ![t] = r]
    BY <1>2
  <2>3. DOMAIN old = TaskIds
    BY DEF TaskIds
  <2> HIDE DEF old
  <2>4. /\ [old EXCEPT ![t] = r] \in Seq(TaskType) /\ Len([old EXCEPT ![t] = r]) = Len(old)
        /\ DOMAIN [old EXCEPT ![t] = r] = DOMAIN old
        /\ [old EXCEPT ![t] = r][t] = r
        /\ \A u \in DOMAIN old \ {t} : [old EXCEPT ![t] = r][u] = old[u]
    BY <2>1
  <2> QED
    BY <2>2, <2>3, <2>4 DEF old
<1>4. new \in ServerType
  BY <1>1, <1>2, <1>3 DEF ServerType
<1>5. \A u \in TaskIds : server.tasks[u].steps <= server.tasks[u].steps
  BY <1>1, TasksAreTyped DEF TaskIds
<1> HIDE DEF new
<1>6. Changed(new, t, r)
  BY <1>2, <1>3, <1>4, <1>5 DEF Changed, Grows, TaskIds
<1> QED
  BY <1>6 DEF new

LEMMA StateChange ==
    ASSUME Typed, NEW t \in TaskIds, NEW st \in {"live", "completed", "answered", "over"}
    PROVE  Changed([server EXCEPT !.tasks[t] = [@ EXCEPT !.st = st]], t,
                   [server.tasks[t] EXCEPT !.st = st])
PROOF
<1> DEFINE r == [server.tasks[t] EXCEPT !.st = st]
<1>1. server.tasks[t] \in TaskType /\ server.tasks[t].steps \in Nat
  BY TasksAreTyped DEF Typed, ServerOK, TaskIds
<1>2. r \in TaskType /\ r.session = server.tasks[t].session
      /\ server.tasks[t].steps <= r.steps
  BY <1>1 DEF TaskType
<1>3. [server EXCEPT !.tasks[t] = [@ EXCEPT !.st = st]] = [server EXCEPT !.tasks[t] = r]
  OBVIOUS
<1> HIDE DEF r
<1>4. Changed([server EXCEPT !.tasks[t] = r], t, r)
  BY <1>2, TaskChange
<1> QED
  BY <1>3, <1>4 DEF r

LEMMA NewTask ==
    ASSUME Typed, NEW old, Grows(server, old), Len(old.tasks) = Len(server.tasks),
           NEW s \in Sessions, NEW new \in ServerType, old.exists \subseteq new.exists,
           new.tasks = Append(old.tasks, Task(s))
    PROVE  /\ Grows(server, new) /\ Len(new.tasks) = Len(server.tasks) + 1
           /\ DOMAIN new.tasks = TaskIds \cup {Len(new.tasks)}
           /\ Len(new.tasks) \notin TaskIds
           /\ new.tasks[Len(new.tasks)] = Task(s)
           /\ \A t \in TaskIds : new.tasks[t] = old.tasks[t]
PROOF
<1> DEFINE a == old.tasks
<1>1. a \in Seq(TaskType) /\ Len(a) = Len(server.tasks) /\ DOMAIN server.tasks = 1 .. Len(a)
      /\ Len(a) \in Nat
  BY TasksAreTyped DEF Grows, ServerType, Typed, ServerOK
<1>2. new.tasks = Append(a, Task(s))
  OBVIOUS
<1>3. /\ Len(new.tasks) = Len(a) + 1
      /\ DOMAIN new.tasks = 1 .. Len(a) + 1
      /\ \A t \in 1 .. Len(a) : new.tasks[t] = a[t]
      /\ new.tasks[Len(a) + 1] = Task(s)
  <2> HIDE DEF a
  <2> QED
    BY <1>1, <1>2
<1>4. 1 .. Len(a) + 1 = 1 .. Len(a) \cup {Len(a) + 1} /\ Len(a) + 1 \notin 1 .. Len(a)
  BY <1>1
<1> QED
  BY <1>1, <1>3, <1>4 DEF Grows, TaskIds

LEMMA EventIsTyped ==
    ASSUME NEW type \in EventNames, NEW s \in Sessions \cup {None}, NEW t \in Tasks \cup {None}
    PROVE  /\ Event(type, s, t) \in EventType
           /\ Event(type, s, t).type = type /\ Event(type, s, t).session = s
           /\ \A srv : Sound(srv, Event(type, s, t))
PROOF
<1> DEFINE e == Event(type, s, t)
<1>1. e \in [type : EventNames, session : Sessions \cup {None}, task : Tasks \cup {None}]
      /\ e.type = type /\ e.session = s
  BY DEF Event
<1>2. e \in EventType
  BY <1>1 DEF EventType
<1>3. e.type # "task:message"
  BY <1>1 DEF EventNames
<1> QED
  BY <1>1, <1>2, <1>3 DEF Sound

LEMMA CancelTaskIsTyped ==
    ASSUME Typed, CancelTask
    PROVE  /\ Typed' /\ UNCHANGED <<Client, sends, marks, wire>>
           /\ stop # None /\ stop' # None /\ stop'.session = stop.session
           /\ stop.task \in TaskIds /\ server.tasks[stop.task].session = stop.session
           /\ \/ UNCHANGED server
              \/ /\ server.tasks[stop.task].st = "live"
                 /\ server' = [server EXCEPT !.tasks[stop.task] = [@ EXCEPT !.st = "over"]]
PROOF
<1>1. /\ stop # None /\ stop' = [stop EXCEPT !.phase = "done"]
      /\ UNCHANGED <<Client, sends, marks, wire, lost>>
      /\ \/ UNCHANGED server
         \/ /\ server.tasks[stop.task].st = "live"
            /\ server' = [server EXCEPT !.tasks[stop.task] = [@ EXCEPT !.st = "over"]]
  BY DEF CancelTask
<1>2. /\ stop \in StopRequest /\ stop.session \in server.exists
      /\ stop.task \in TaskIds /\ server.tasks[stop.task].session = stop.session
  BY <1>1 DEF Typed, StopOK
<1>3. /\ stop' \in StopRequest /\ stop'.session = stop.session /\ stop'.task = stop.task
      /\ stop' # None
  BY <1>1, <1>2, NoneIsNothing DEF StopRequest
<1>4. Grows(server, server') /\ Len(server'.tasks) = Len(server.tasks)
  <2>1. CASE UNCHANGED server
    BY <2>1, GrowsReflexive DEF Typed, ServerOK
  <2>2. CASE server' = [server EXCEPT !.tasks[stop.task] = [@ EXCEPT !.st = "over"]]
    <3>1. Changed([server EXCEPT !.tasks[stop.task] = [@ EXCEPT !.st = "over"]], stop.task,
                  [server.tasks[stop.task] EXCEPT !.st = "over"])
      BY <1>2, StateChange
    <3> QED
      BY <2>2, <3>1 DEF Changed
  <2> QED
    BY <1>1, <2>1, <2>2
<1>5. RoomOK'
  <2>1. Len(server'.tasks) <= Len(server.tasks)
    BY <1>4, TasksAreTyped DEF Typed, ServerOK
  <2> QED
    BY <1>1, <1>4, <2>1, UnchangedIsTyped
<1>6. StopOK'
  BY <1>2, <1>3, <1>4 DEF StopOK, Grows, TaskIds
<1>7. Typed'
  BY <1>1, <1>4, <1>5, <1>6, ServedIsTyped
<1> QED
  BY <1>1, <1>2, <1>3, <1>7

LEMMA MarkReadIsTyped ==
    ASSUME Typed, NEW m \in Marks, MarkRead(m)
    PROVE  /\ Typed' /\ UNCHANGED <<Client, sends, stop>>
           /\ marks[m] # None /\ marks'[m] # None
           /\ \A j \in Marks : marks[j] # None => marks'[j] # None
           /\ server' = [server EXCEPT !.unread[marks[m].session] = FALSE]
           /\ Publish(<<Event("chat:session_read", marks[m].session, None)>>)
PROOF
<1>1. /\ marks[m] # None /\ UNCHANGED <<Client, sends, stop, lost>>
      /\ server' = [server EXCEPT !.unread[marks[m].session] = FALSE]
      /\ marks' = [marks EXCEPT ![m].phase = "done"]
      /\ Publish(<<Event("chat:session_read", marks[m].session, None)>>)
  BY DEF MarkRead
<1>2. marks[m] \in Mark /\ marks[m].session \in Sessions
  BY <1>1 DEF Typed, MarksOK, Mark
<1>3. server \in ServerType
  BY DEF Typed, ServerOK
<1>4. server' \in ServerType /\ server'.tasks = server.tasks /\ server'.exists = server.exists
  BY <1>1, <1>3 DEF ServerType
<1>5. Grows(server, server') /\ Len(server'.tasks) <= Len(server.tasks)
  BY <1>3, <1>4, TasksAreTyped DEF Grows
<1>6. [marks[m] EXCEPT !.phase = "done"] \in Mark \ {None}
      /\ [marks[m] EXCEPT !.phase = "done"].session = marks[m].session
      /\ [marks[m] EXCEPT !.phase = "done"].saved = marks[m].saved
  BY <1>2, NoneIsNothing DEF Mark
<1>7. MarksOK(server', marks) /\ \A e : Sound(server, e) => Sound(server', e)
  BY <1>5, GrowsKeeps
<1>8. MarksOK(server', marks') /\ marks'[m] # None
      /\ \A j \in Marks : marks[j] # None => marks'[j] # None
  BY <1>1, <1>6, <1>7 DEF MarksOK
<1>9. WireOK'
  <2> DEFINE e == Event("chat:session_read", marks[m].session, None)
  <2>1. e \in EventType /\ Sound(server', e)
    BY <1>2, EventIsTyped DEF EventNames
  <2> HIDE DEF e
  <2>2. Sound(server', e) /\ <<e>> \in Seq(EventType)
    BY <2>1
  <2>3. Publish(<<e>>) /\ \A i \in DOMAIN <<e>> : <<e>>[i] = e
    BY <1>1 DEF e
  <2> QED
    BY <1>7, <2>2, <2>3, PublishKeeps DEF Typed
<1>10. RoomOK'
  BY <1>1, <1>5, UnchangedIsTyped
<1>11. Typed'
  BY <1>1, <1>5, <1>8, <1>9, <1>10, ServedIsTyped
<1> QED
  BY <1>1, <1>8, <1>11

LEMMA CreateSessionIsTyped ==
    ASSUME Typed, NEW n \in Sends, NEW s \in Sessions, CreateSession(n, s)
    PROVE  /\ Typed' /\ UNCHANGED <<Client, stop, marks, wire>>
           /\ server' = [server EXCEPT !.exists = @ \cup {s}]
           /\ sends[n].phase = "creating"
           /\ sends' = [sends EXCEPT ![n].session = s, ![n].phase = "created"]
PROOF
<1> DEFINE r == [sends[n] EXCEPT !.session = s, !.phase = "created"]
<1>1. /\ UNCHANGED <<Client, stop, marks, wire, lost>> /\ sends[n].phase = "creating"
      /\ server' = [server EXCEPT !.exists = @ \cup {s}]
      /\ sends' = [sends EXCEPT ![n].session = s, ![n].phase = "created"]
  BY DEF CreateSession
<1>2. server \in ServerType /\ sends[n] \in SendType
  BY DEF Typed, ServerOK, SendsOK
<1>3. server' \in ServerType /\ server'.tasks = server.tasks
      /\ server'.exists = server.exists \cup {s}
  BY <1>1, <1>2 DEF ServerType
<1>4. Grows(server, server')
  BY <1>2, <1>3, TasksAreTyped DEF Grows
<1>5. r \in SendType /\ r.session = s /\ r.phase = "created" /\ s # None
  BY <1>2, NoneIsNothing DEF SendType, Phases
<1>6. sends' = [sends EXCEPT ![n] = r]
  BY <1>1
<1> HIDE DEF r
<1>7. SendsOK'
  BY <1>3, <1>4, <1>5, <1>6, OneSend
<1>8. /\ Cardinality(OnWay) \in Nat /\ Cardinality(OnWay') \in Nat
      /\ Cardinality(OnWay') <= Cardinality(OnWay)
  <2>1. OnTheWay(n)
    BY <1>1 DEF OnTheWay
  <2> QED
    BY <1>5, <1>6, <2>1, OnWayStep
<1>9. RoomOK'
  BY <1>2, <1>3, <1>8, TasksAreTyped, BoundsAreNaturals DEF Typed, RoomOK
<1>10. Typed'
  BY <1>1, <1>4, <1>7, <1>9, ServedIsTyped
<1> QED
  BY <1>1, <1>10

LEMMA FreshTaskIsTyped ==
    ASSUME NEW s \in Sessions
    PROVE  Task(s) \in TaskType
BY BoundsAreNaturals DEF Task, TaskType

\* The tasks that the server has after a step: those of old, and one for s.
Joined(old, s) ==
    /\ Grows(server, server') /\ Len(server'.tasks) = Len(server.tasks) + 1
    /\ DOMAIN server'.tasks = TaskIds \cup {Len(server'.tasks)}
    /\ Len(server'.tasks) \notin TaskIds
    /\ server'.tasks[Len(server'.tasks)] = Task(s)
    /\ \A t \in TaskIds : server'.tasks[t] = old.tasks[t]

LEMMA JoinedStep ==
    ASSUME Typed, NEW old, Grows(server, old), Len(old.tasks) = Len(server.tasks),
           NEW s \in Sessions, server' \in ServerType, old.exists \subseteq server'.exists,
           server'.tasks = Append(old.tasks, Task(s))
    PROVE  Joined(old, s)
BY NewTask DEF Joined

LEMMA SendMessageIsTyped ==
    ASSUME Typed, NEW n \in Sends, NEW s \in Sessions, SendMessage(n, s)
    PROVE  /\ Typed' /\ UNCHANGED <<Client, stop, marks>>
           /\ (sends[n].phase = "sending" /\ sends[n].session = s) \/ sends[n].phase = "unsent"
           /\ server'.exists = server.exists /\ server'.unread = server.unread
           /\ server'.said = [server.said EXCEPT ![n] = s]
           /\ Joined(server, s)
           /\ sends'[n].phase \in {"stored", "over"}
           /\ \A m \in Sends \ {n} : sends'[m] = sends[m]
           /\ Publish(<<Event("chat:message", s, Len(server.tasks) + 1)>>)
PROOF
<1> DEFINE t == Len(server.tasks) + 1
           r == [session |-> s, task |-> t,
                 phase |-> IF sends[n].phase = "sending" THEN "stored" ELSE "over"]
<1>1. /\ \/ sends[n].phase = "sending" /\ s = sends[n].session
         \/ n \in Unsent /\ s \in server.exists /\ Room
      /\ server' = [server EXCEPT !.said[n] = s, !.tasks = Append(@, Task(s))]
      /\ sends' = [sends EXCEPT ![n] = r]
      /\ Publish(<<Event("chat:message", s, t)>>)
      /\ UNCHANGED <<Client, stop, marks, lost>>
  BY DEF SendMessage
<1>2. /\ server \in ServerType /\ server.tasks \in Seq(TaskType) /\ Task(s) \in TaskType
      /\ Len(server.tasks) \in Nat
  BY FreshTaskIsTyped, TasksAreTyped DEF Typed, ServerOK, ServerType
<1>3. /\ server'.exists = server.exists /\ server'.unread = server.unread
      /\ server'.said = [server.said EXCEPT ![n] = s]
      /\ server'.tasks = Append(server.tasks, Task(s))
  BY <1>1, <1>2 DEF ServerType
<1>4. server' \in ServerType
  <2>1. Append(server.tasks, Task(s)) \in Seq(TaskType)
    BY <1>2
  <2>2. [server.said EXCEPT ![n] = s] \in [Sends -> Sessions \cup {None}]
    BY <1>2 DEF ServerType
  <2>3. server' = [exists |-> server'.exists, said |-> server'.said, tasks |-> server'.tasks,
                   unread |-> server'.unread]
    BY <1>1, <1>2 DEF ServerType
  <2> QED
    BY <1>2, <1>3, <2>1, <2>2, <2>3 DEF ServerType
<1>5. Joined(server, s)
  <2>1. Grows(server, server)
    BY <1>2, GrowsReflexive
  <2> QED
    BY <1>2, <1>3, <1>4, <2>1, JoinedStep
<1>6. s \in server.exists /\ s # None /\ sends[n] \in SendType
  BY <1>1, NoneIsNothing DEF Typed, SendsOK
<1>7. r \in SendType /\ r.session = s /\ r.task = t /\ r.phase \in {"stored", "over"}
  BY <1>2 DEF SendType, Phases
<1>8. server'.tasks[t].session = s /\ t \in DOMAIN server'.tasks
  BY <1>5 DEF Joined, Task
<1>9. sends' = [sends EXCEPT ![n] = r]
  BY <1>1
<1> HIDE DEF r
<1>10. SendsOK'
  BY <1>3, <1>5, <1>6, <1>7, <1>8, <1>9, OneSend DEF Joined
<1>11. Len(server.tasks) + 1 + Cardinality(OnWay') <= MaxTasks /\ Cardinality(OnWay') \in Nat
  <2>1. /\ Cardinality(OnWay) \in Nat /\ Cardinality(OnWay') \in Nat
        /\ Cardinality(OnWay') <= Cardinality(OnWay)
        /\ OnTheWay(n) => Cardinality(OnWay') + 1 = Cardinality(OnWay)
    <3>1. r.phase \notin {"creating", "created", "sending"}
      BY <1>7
    <3> QED
      BY <1>7, <1>9, <3>1, OnWayStep
  <2>2. CASE sends[n].phase = "sending"
    <3>1. OnTheWay(n) /\ Len(server.tasks) + Cardinality(OnWay) <= MaxTasks
      BY <2>2 DEF OnTheWay, Typed, RoomOK
    <3> QED
      BY <1>2, <2>1, <3>1, BoundsAreNaturals
  <2>3. CASE Room
    <3>1. Len(server.tasks) + Cardinality(OnWay) < MaxTasks
      BY <2>3 DEF Room, OnWay
    <3> QED
      BY <1>2, <2>1, <3>1, BoundsAreNaturals
  <2> QED
    BY <1>1, <2>2, <2>3
<1>12. RoomOK' /\ Len(server'.tasks) <= MaxTasks /\ t \in Tasks
  <2>1. Len(server'.tasks) = Len(server.tasks) + 1
    BY <1>5 DEF Joined
  <2> QED
    BY <1>2, <1>11, <2>1, BoundsAreNaturals DEF RoomOK, Tasks
<1>13. WireOK'
  <2> DEFINE e == Event("chat:message", s, t)
  <2>1. e \in EventType /\ Sound(server', e)
    BY <1>12, EventIsTyped DEF EventNames
  <2>2. Publish(<<e>>)
    BY <1>1
  <2> HIDE DEF e
  <2>3. \A x : Sound(server, x) => Sound(server', x)
    BY <1>5, GrowsKeeps DEF Joined
  <2>4. <<e>> \in Seq(EventType) /\ \A i \in DOMAIN <<e>> : <<e>>[i] = e
    BY <2>1
  <2> QED
    BY <2>1, <2>2, <2>3, <2>4, PublishKeeps DEF Typed
<1>14. Typed'
  BY <1>1, <1>5, <1>10, <1>12, <1>13, ServedIsTyped DEF Joined
<1>15. sends'[n] = r /\ \A m \in Sends \ {n} : sends'[m] = sends[m]
  BY <1>9 DEF Typed, SendsOK
<1>16. (sends[n].phase = "sending" /\ sends[n].session = s) \/ sends[n].phase = "unsent"
  BY <1>1 DEF Unsent
<1> QED
  BY <1>1, <1>3, <1>5, <1>7, <1>14, <1>15, <1>16

\* What the steps of the agents leave alone.
Agents == UNCHANGED <<Client, sends, stop, marks>> /\ server'.said = server.said
                                                   /\ server'.exists = server.exists

\* A step that publishes events about what the server has now.
LEMMA AgentIsTyped ==
    ASSUME Typed, UNCHANGED <<Client, sends, stop, marks, lost>>, Grows(server, server'),
           \/ Len(server'.tasks) = Len(server.tasks)
           \/ Room /\ Len(server'.tasks) = Len(server.tasks) + 1,
           \/ UNCHANGED wire
           \/ \E evs \in Seq(EventType) :
                 Publish(evs) /\ \A i \in DOMAIN evs : Sound(server', evs[i])
    PROVE  Typed'
PROOF
<1>1. WireOK'
  <2>1. CASE UNCHANGED wire
    BY <2>1, UnchangedIsTyped
  <2>2. ASSUME NEW evs \in Seq(EventType), Publish(evs), \A i \in DOMAIN evs : Sound(server', evs[i])
        PROVE  WireOK'
    <3>1. \A e : Sound(server, e) => Sound(server', e)
      BY GrowsKeeps
    <3> QED
      BY <2>2, <3>1, PublishKeeps DEF Typed
  <2> QED
    BY <2>1, <2>2
<1>2. RoomOK'
  <2>1. OnWay' = OnWay /\ Cardinality(OnWay) \in Nat /\ Len(server.tasks) \in Nat
        /\ Len(server'.tasks) \in Nat
    BY OnWayIsFinite, TasksAreTyped DEF OnWay, OnTheWay, Typed, ServerOK, Grows
  <2>2. CASE Len(server'.tasks) = Len(server.tasks)
    BY <2>1, <2>2 DEF Typed, RoomOK
  <2>3. CASE Room /\ Len(server'.tasks) = Len(server.tasks) + 1
    <3>1. Len(server.tasks) + Cardinality(OnWay) < MaxTasks
      BY <2>3 DEF Room, OnWay
    <3> QED
      BY <2>1, <2>3, <3>1, BoundsAreNaturals DEF RoomOK
  <2> QED
    BY <2>2, <2>3
<1> QED
  BY <1>1, <1>2, ServedIsTyped

LEMMA TasksAreNamed ==
    ASSUME Typed, NEW t \in TaskIds
    PROVE  t \in Tasks /\ server.tasks[t].session \in Sessions
BY TasksAreTyped, BoundsAreNaturals DEF Typed, ServerOK, TaskIds, Tasks

\* Task t ended, and was tried again or not.
EndedTask(t, st) == [server EXCEPT !.tasks[t] = [@ EXCEPT !.st = st]]
Ended(t, st) ==
    \/ Changed(server', t, [server.tasks[t] EXCEPT !.st = st])
    \/ /\ Changed(EndedTask(t, st), t, [server.tasks[t] EXCEPT !.st = st])
       /\ Joined(EndedTask(t, st), server.tasks[t].session)
Ends(t, how) ==
    \E st \in {"completed", "over"} : (st = "completed" <=> how = "completed") /\ Ended(t, st)

LEMMA EndIsTyped ==
    ASSUME Typed, NEW t \in TaskIds, NEW how \in {"completed", "failed", "swept", "cancelled"},
           End(t, how)
    PROVE  /\ Typed' /\ Agents
           /\ server'.exists = server.exists /\ server'.unread = server.unread
           /\ server.tasks[t].st = "live"
           /\ how \in {"swept", "cancelled"} => how \in Races
           /\ Ends(t, how)
           /\ how = "failed" => Publish(<<Event("task:failed", server.tasks[t].session, t)>>)
           /\ how = "swept" => Publish(<<Event("task:failed", None, t)>>)
           /\ how \in {"completed", "cancelled"} => UNCHANGED wire
PROOF
<1> DEFINE s == server.tasks[t].session
           st == IF how = "completed" THEN "completed" ELSE "over"
           old == EndedTask(t, st)
<1>1. /\ server.tasks[t].st = "live"
      /\ how \in {"swept", "cancelled"} => how \in Races
      /\ \/ server' = old
         \/ Room /\ server' = [old EXCEPT !.tasks = Append(@, Task(s))]
      /\ UNCHANGED <<Client, sends, stop, marks, lost>>
      /\ how = "failed" => Publish(<<Event("task:failed", s, t)>>)
      /\ how = "swept" => Publish(<<Event("task:failed", None, t)>>)
      /\ how \in {"completed", "cancelled"} => UNCHANGED wire
  BY DEF End, EndedTask
<1>2. Changed(old, t, [server.tasks[t] EXCEPT !.st = st])
  BY StateChange DEF EndedTask
<1>3. s \in Sessions /\ t \in Tasks /\ Task(s) \in TaskType
  BY TasksAreNamed, FreshTaskIsTyped
<1>4. st \in {"completed", "over"} /\ (st = "completed" <=> how = "completed")
  OBVIOUS
<1> HIDE DEF old, st, s
<1>5. /\ Grows(server, old) /\ Len(old.tasks) = Len(server.tasks)
      /\ old.exists = server.exists /\ old.said = server.said /\ old.unread = server.unread
  BY <1>2 DEF Changed
<1>6. ASSUME server' = [old EXCEPT !.tasks = Append(@, Task(s))]
      PROVE  Joined(old, s)
  <2>1. old \in ServerType /\ old.tasks \in Seq(TaskType)
    BY <1>5 DEF Grows, ServerType
  <2>2. /\ server'.tasks = Append(old.tasks, Task(s))
        /\ server'.exists = old.exists /\ server'.said = old.said /\ server'.unread = old.unread
    BY <1>6, <2>1 DEF ServerType
  <2>3. server' \in ServerType
    <3>1. Append(old.tasks, Task(s)) \in Seq(TaskType)
      BY <1>3, <2>1
    <3> QED
      BY <1>6, <2>1, <3>1 DEF ServerType
  <2> QED
    BY <1>3, <1>5, <2>2, <2>3, JoinedStep
<1>7. /\ Grows(server, server')
      /\ \/ Len(server'.tasks) = Len(server.tasks)
         \/ Room /\ Len(server'.tasks) = Len(server.tasks) + 1
  BY <1>1, <1>5, <1>6 DEF Joined
<1>8. \/ UNCHANGED wire
      \/ \E evs \in Seq(EventType) : Publish(evs) /\ \A i \in DOMAIN evs : Sound(server', evs[i])
  <2>1. ASSUME NEW x \in Sessions \cup {None}, Publish(<<Event("task:failed", x, t)>>)
        PROVE  \E evs \in Seq(EventType) : Publish(evs) /\ \A i \in DOMAIN evs : Sound(server', evs[i])
    <3> DEFINE e == Event("task:failed", x, t)
    <3>1. e \in EventType /\ Sound(server', e)
      BY <1>3, EventIsTyped DEF EventNames
    <3>2. Publish(<<e>>)
      BY <2>1
    <3> HIDE DEF e
    <3>3. <<e>> \in Seq(EventType) /\ \A i \in DOMAIN <<e>> : Sound(server', <<e>>[i])
      BY <3>1
    <3> QED
      BY <3>2, <3>3
  <2> QED
    BY <1>1, <1>3, <2>1
<1>9. Typed'
  BY <1>1, <1>7, <1>8, AgentIsTyped
<1>10. Agents /\ server'.exists = server.exists /\ server'.unread = server.unread
  <2>1. CASE server' = old
    BY <1>1, <1>5, <2>1 DEF Agents
  <2>2. CASE server' = [old EXCEPT !.tasks = Append(@, Task(s))]
    <3>1. old \in ServerType
      BY <1>5 DEF Grows
    <3> QED
      BY <1>1, <1>5, <2>2, <3>1 DEF Agents, ServerType
  <2> QED
    BY <1>1, <2>1, <2>2
<1>11. Ended(t, st)
  BY <1>1, <1>2, <1>6 DEF Ended, old, s
<1>12. Ends(t, how)
  BY <1>4, <1>11 DEF Ends
<1> QED
  <2>1. /\ server.tasks[t].st = "live"
        /\ how \in {"swept", "cancelled"} => how \in Races
        /\ how = "failed" => Publish(<<Event("task:failed", server.tasks[t].session, t)>>)
        /\ how = "swept" => Publish(<<Event("task:failed", None, t)>>)
        /\ how \in {"completed", "cancelled"} => UNCHANGED wire
    BY <1>1 DEF s
  <2> QED
    BY <1>9, <1>10, <1>12, <2>1

LEMMA ReplyIsTyped ==
    ASSUME Typed, NEW t \in TaskIds, NEW empty \in BOOLEAN, Reply(t, empty)
    PROVE  /\ Typed' /\ Agents
           /\ server.tasks[t].st = "completed"
           /\ server'.unread = [server.unread EXCEPT ![server.tasks[t].session] = @ \/ ~empty]
           /\ \E st \in {"answered", "over"} :
                 Changed(EndedTask(t, st), t, [server.tasks[t] EXCEPT !.st = st])
                 /\ server'.tasks = EndedTask(t, st).tasks
           /\ Publish(<<Event("chat:done", server.tasks[t].session, t),
                        Event("task:completed", server.tasks[t].session, t)>>)
PROOF
<1> DEFINE s == server.tasks[t].session
           st == IF empty THEN "over" ELSE "answered"
           old == EndedTask(t, st)
           unread == [server.unread EXCEPT ![s] = @ \/ ~empty]
<1>1. /\ server.tasks[t].st = "completed"
      /\ server' = [server EXCEPT !.tasks[t].st = st, !.unread[s] = @ \/ ~empty]
      /\ Publish(<<Event("chat:done", s, t), Event("task:completed", s, t)>>)
      /\ UNCHANGED <<Client, sends, stop, marks, lost>>
  BY DEF Reply
<1>2. st \in {"answered", "over"} /\ s \in Sessions /\ t \in Tasks
  BY TasksAreNamed
<1>3. Changed(old, t, [server.tasks[t] EXCEPT !.st = st])
  BY StateChange DEF EndedTask
<1>4. /\ server' = [old EXCEPT !.unread = unread]
      /\ unread \in [Sessions -> BOOLEAN]
  <2>1. server \in ServerType
    BY DEF Typed, ServerOK
  <2>2. unread \in [Sessions -> BOOLEAN]
    BY <2>1 DEF ServerType
  <2> QED
    BY <1>1, <2>1, <2>2 DEF ServerType, EndedTask
<1> HIDE DEF s, st, old, unread
<1>5. /\ server' \in ServerType /\ server'.tasks = old.tasks /\ server'.exists = server.exists
      /\ server'.said = server.said /\ server'.unread = unread
  <2>1. old \in ServerType
    BY <1>3 DEF Changed, Grows
  <2> QED
    BY <1>3, <1>4, <2>1 DEF Changed, ServerType
<1>6. Grows(server, server') /\ Len(server'.tasks) = Len(server.tasks)
  BY <1>3, <1>5 DEF Changed, Grows
<1>7. \E evs \in Seq(EventType) : Publish(evs) /\ \A i \in DOMAIN evs : Sound(server', evs[i])
  <2> DEFINE e == Event("chat:done", s, t)
             f == Event("task:completed", s, t)
  <2>1. e \in EventType /\ Sound(server', e) /\ f \in EventType /\ Sound(server', f)
    BY <1>2, EventIsTyped DEF EventNames
  <2>2. Publish(<<e, f>>)
    BY <1>1
  <2> HIDE DEF e, f
  <2>3. <<e, f>> \in Seq(EventType) /\ \A i \in DOMAIN <<e, f>> : Sound(server', <<e, f>>[i])
    BY <2>1
  <2> QED
    BY <2>2, <2>3
<1>8. Typed'
  BY <1>1, <1>6, <1>7, AgentIsTyped
<1>9. Agents
  BY <1>1, <1>5 DEF Agents
<1>10. \E x \in {"answered", "over"} :
           Changed(EndedTask(t, x), t, [server.tasks[t] EXCEPT !.st = x])
           /\ server'.tasks = EndedTask(t, x).tasks
  BY <1>2, <1>3, <1>5 DEF old
<1> QED
  BY <1>1, <1>5, <1>8, <1>9, <1>10 DEF s, unread

ReportEvent(t) ==
    [type |-> "task:message", task |-> t, seq |-> server.tasks[t].steps + 1, session |-> None]

LEMMA ReportIsTyped ==
    ASSUME Typed, NEW t \in TaskIds, Report(t)
    PROVE  /\ Typed' /\ Agents
           /\ Changed(server', t, [server.tasks[t] EXCEPT !.steps = @ + 1])
           /\ Publish(<<ReportEvent(t)>>)
PROOF
<1> DEFINE r == [server.tasks[t] EXCEPT !.steps = @ + 1]
           e == ReportEvent(t)
<1>1. /\ server.tasks[t].steps < MaxSteps
      /\ server' = [server EXCEPT !.tasks[t].steps = @ + 1]
      /\ Publish(<<e>>)
      /\ UNCHANGED <<Client, sends, stop, marks, lost>>
  BY DEF Report, ReportEvent
<1>2. server.tasks[t] \in TaskType /\ server.tasks[t].steps \in Nat /\ t \in Tasks
  BY TasksAreTyped, TasksAreNamed DEF Typed, ServerOK, TaskIds
<1>3. /\ r \in TaskType /\ r.session = server.tasks[t].session
      /\ r.steps = server.tasks[t].steps + 1 /\ server.tasks[t].steps <= r.steps
  BY <1>1, <1>2, BoundsAreNaturals DEF TaskType
<1>4. server' = [server EXCEPT !.tasks[t] = r]
  BY <1>1
<1>5. e \in EventType /\ e.type = "task:message" /\ e.task = t /\ e.seq = r.steps
  BY <1>2, <1>3 DEF EventType, ReportEvent
<1> HIDE DEF r, e
<1>6. Changed(server', t, r)
  BY <1>3, <1>4, TaskChange
<1>7. Sound(server', e)
  BY <1>2, <1>3, <1>5, <1>6 DEF Sound, Changed
<1>8. <<e>> \in Seq(EventType) /\ \A i \in DOMAIN <<e>> : Sound(server', <<e>>[i])
  BY <1>5, <1>7
<1>9. Grows(server, server') /\ Len(server'.tasks) = Len(server.tasks)
      /\ server'.said = server.said /\ server'.exists = server.exists
  BY <1>6 DEF Changed
<1>10. Typed'
  BY <1>1, <1>8, <1>9, AgentIsTyped
<1> QED
  BY <1>1, <1>6, <1>9, <1>10 DEF Agents, r, e

-----------------------------------------------------------------------------
(* Types: every step *)

LEMMA StutterIsTyped ==
    ASSUME Typed, UNCHANGED vars
    PROVE  Typed'
PROOF
<1>1. UNCHANGED Client /\ UNCHANGED <<server, sends, stop, marks, wire, lost>>
  BY DEF vars, Client
<1>2. Grows(server, server') /\ Len(server'.tasks) <= Len(server.tasks)
  BY <1>1, GrowsReflexive, TasksAreTyped DEF Typed, ServerOK
<1>3. RoomOK'
  BY <1>1, <1>2, UnchangedIsTyped
<1> QED
  BY <1>1, <1>2, <1>3, ServedIsTyped

LEMMA StepIsTyped ==
    ASSUME Typed, [Next]_vars
    PROVE  Typed'
PROOF
<1>1. CASE UNCHANGED vars
  BY <1>1, StutterIsTyped
<1>2. ASSUME Progress
      PROVE  Typed'
  <2>1. CASE Deliver
    BY <2>1, DeliverIsTyped
  <2>2. CASE CancelTask
    BY <2>2, CancelTaskIsTyped
  <2>3. CASE Stopped
    BY <2>3, StoppedIsTyped
  <2>4. ASSUME NEW k \in Keys, ServerReads(k) \/ Arrive(k)
        PROVE  Typed'
    BY <2>4, FetchIsTyped
  <2>5. ASSUME NEW m \in Marks, MarkRead(m)
        PROVE  Typed'
    BY <2>5, MarkReadIsTyped
  <2>6. ASSUME NEW m \in Marks, Marked(m, TRUE)
        PROVE  Typed'
    BY <2>6, MarkedIsTyped
  <2>7. ASSUME NEW n \in Sends, Sent(n, TRUE)
        PROVE  Typed'
    BY <2>7, SentIsTyped
  <2>8. ASSUME NEW n \in Sends, Created(n, TRUE)
        PROVE  Typed'
    BY <2>8, CreatedIsTyped
  <2>9. ASSUME NEW t \in TaskIds, NEW empty \in BOOLEAN, Reply(t, empty)
        PROVE  Typed'
    BY <2>9, ReplyIsTyped
  <2> QED
    BY <1>2, <2>1, <2>2, <2>3, <2>4, <2>5, <2>6, <2>7, <2>8, <2>9 DEF Progress
<1>3. CASE Toggle \/ NewChat \/ \E s \in Sessions : SelectSession(s)
  BY <1>3, LookingIsTyped
<1>4. ASSUME NEW n \in Sends, Send(n)
      PROVE  Typed'
  BY <1>4, SendIsTyped
<1>5. ASSUME NEW n \in Sends, Created(n, FALSE) \/ Sent(n, FALSE)
      PROVE  Typed'
  BY <1>5, CreatedIsTyped, SentIsTyped
<1>6. CASE Stop
  BY <1>6, StopIsTyped
<1>7. ASSUME NEW m \in Marks, Marked(m, FALSE)
      PROVE  Typed'
  BY <1>7, MarkedIsTyped
<1>8. ASSUME NEW n \in Sends, NEW s \in Sessions, CreateSession(n, s) \/ SendMessage(n, s)
      PROVE  Typed'
  BY <1>8, CreateSessionIsTyped, SendMessageIsTyped
<1>9. ASSUME NEW t \in TaskIds, NEW how \in {"completed", "failed", "swept", "cancelled"},
             End(t, how)
      PROVE  Typed'
  BY <1>9, EndIsTyped
<1>10. ASSUME NEW t \in TaskIds, Report(t)
       PROVE  Typed'
  BY <1>10, ReportIsTyped
<1>11. ASSUME NEW k \in Keys, Lose(k)
       PROVE  Typed'
  BY <1>11, FetchIsTyped
<1> QED
  BY <1>1, <1>2, <1>3, <1>4, <1>5, <1>6, <1>7, <1>8, <1>9, <1>10, <1>11 DEF Next

-----------------------------------------------------------------------------
(* What a step does to an entry that it does not aim at *)

\* p shows what q shows, and no answer is on its way that was not before.
Kept(q, p) == p.data = q.data /\ (p.fetch = "read" => q.fetch = "read" /\ p.snap = q.snap)

LEMMA KeptLaws ==
    ASSUME NEW D, Apart(D), NEW q, WellFormed(q, D)
    PROVE  /\ Kept(q, q) /\ Kept(q, Mounts(q)) /\ \A m : Kept(q, Invalidate(q, m))
           /\ Kept(q, Retry(q))
PROOF
<1> DEFINE flagged == [q EXCEPT !.flag = TRUE]
<1>1. /\ WellFormed(flagged, D) /\ flagged.fetch = q.fetch /\ flagged.snap = q.snap
      /\ flagged.data = q.data
  BY DEF WellFormed, EntryOf, Fetching
<1>2. Kept(q, Mounts(q))
  BY AskedIsWellFormed DEF Mounts, Kept
<1>3. ASSUME NEW m
      PROVE  Kept(q, Invalidate(q, m))
  <2>1. Asked(flagged).data = q.data /\ Asked(flagged).fetch = "asked"
    BY <1>1, AskedIsWellFormed
  <2> QED
    BY <1>1, <2>1 DEF Invalidate, Kept
<1>4. Kept(q, Retry(q))
  BY DEF WellFormed, EntryOf, Kept, Retry
<1> QED
  BY <1>2, <1>3, <1>4 DEF Kept

LEMMA EntryIsTyped ==
    ASSUME ServerOK, NEW c, CacheOK(server, c), NEW k \in Keys
    PROVE  Apart(Known(server, k)) /\ WellFormed(c[k], Known(server, k))
BY KnownIsApart DEF ServerOK, CacheOK

LEMMA RenderedKeeps ==
    ASSUME ServerOK, NEW c, CacheOK(server, c), NEW ms, Rendered(c, ms), NEW k \in Keys \ {sessions}
    PROVE  Kept(c[k], cache'[k])
BY EntryIsTyped, KeptLaws DEF Rendered

LEMMA RenderedStaysCurrent ==
    ASSUME ServerOK, NEW c, CacheOK(server, c), NEW ms, Rendered(c, ms), NEW k \in Keys, NEW v,
           Current(c[k], v)
    PROVE  Current(cache'[k], v) \/ (k = sessions /\ \E m \in Marks : marks'[m] # None)
BY EntryIsTyped, MountsStaysCurrent DEF Rendered

LEMMA KeysDiffer ==
    /\ \A s, r : messages(s) # pendingTask(r) /\ (messages(s) = messages(r) => s = r)
                 /\ (pendingTask(s) = pendingTask(r) => s = r)
                 /\ messages(s) # taskMessages(r) /\ pendingTask(s) # taskMessages(r)
                 /\ (taskMessages(s) = taskMessages(r) => s = r)
    /\ \A s : messages(s) # sessions /\ pendingTask(s) # sessions /\ taskMessages(s) # sessions
BY DEF messages, pendingTask, taskMessages, sessions

\* Entries that the answers and events leave alone.
LEMMA Untouched ==
    ASSUME Typed, NEW k \in Keys
    PROVE  /\ \A c, K : k \notin K => Invalidated(c, K)[k] = c[k]
           /\ \A c, j, data : k # j => Written(c, j, data)[k] = c[k]
           /\ \A c, s, n : k # messages(s) => Optimistic(c, s, n)[k] = c[k]
BY DEF Typed, Invalidated, Written, Optimistic

-----------------------------------------------------------------------------
(* A message and its bubble *)

\* Of a message that is shown, the bubble is gone; an answer has no bubbles.
Clean(data, said) ==
    \A n \in Sends : <<"user", n>> \in data => said[n] # None /\ <<"optimistic", n>> \notin data
Stored(data, said) ==
    \A n \in Sends : /\ <<"optimistic", n>> \notin data
                     /\ <<"user", n>> \in data => said[n] # None
CleanEntry(q, said) ==
    /\ HasData(q) => Clean(q.data, said)
    /\ q.fetch = "read" => Stored(q.snap, said)
CleanCache(c) ==
    \A s \in Sessions : messages(s) \in Keys => CleanEntry(c[messages(s)], server.said)

\* A message that the server has is not about to be sent.
SaidOnce == \A n \in Sends : server.said[n] # None => sends[n].phase \in {"stored", "over"}

Unechoed == SaidOnce /\ CleanCache(cache)

LEMMA ViewIsStored ==
    ASSUME NEW srv, NEW s \in Sessions
    PROVE  Stored(View(srv, messages(s)), srv.said)
PROOF
<1>1. View(srv, messages(s)) =
        {<<"user", n>> : n \in {m \in Sends : srv.said[m] = s}}
        \cup {<<"assistant", t>> : t \in {u \in DOMAIN srv.tasks :
                srv.tasks[u].session = s /\ srv.tasks[u].st = "answered"}}
  BY ViewKinds
<1>2. s # None
  BY NoneIsNothing
<1> QED
  BY <1>1, <1>2 DEF Stored

LEMMA KeptIsClean ==
    ASSUME NEW said, NEW q, CleanEntry(q, said), NEW p, Kept(q, p)
    PROVE  CleanEntry(p, said)
BY DEF CleanEntry, Kept, HasData

LEMMA ChangesAreClean ==
    ASSUME Typed, NEW c, CacheOK(server, c), CleanCache(c)
    PROVE  /\ \A K : CleanCache(Invalidated(c, K))
           /\ \A s, t, data : /\ CleanCache(Written(c, pendingTask(s), data))
                              /\ CleanCache(Written(c, taskMessages(t), data))
                              /\ CleanCache(Written(c, sessions, data))
           /\ \A s : \A n \in Sends : server.said[n] = None => CleanCache(Optimistic(c, s, n))
PROOF
<1>0. ServerOK /\ CacheOK(server, cache)
  BY DEF Typed
<1>1. ASSUME NEW K, NEW s \in Sessions, messages(s) \in Keys
      PROVE  CleanEntry(Invalidated(c, K)[messages(s)], server.said)
  <2> DEFINE k == messages(s)
  <2>1. Invalidated(c, K)[k] = IF k \in K THEN Invalidate(c[k], Mounted(k)) ELSE c[k]
    BY <1>0, <1>1, InvalidatedIsOK
  <2>2. Kept(c[k], c[k]) /\ Kept(c[k], Invalidate(c[k], Mounted(k)))
    BY <1>0, <1>1, EntryIsTyped, KeptLaws
  <2>3. CleanEntry(c[k], server.said)
    BY <1>1 DEF CleanCache
  <2> QED
    BY <2>1, <2>2, <2>3, KeptIsClean
<1>2. ASSUME NEW j, \A s : j # messages(s), NEW data
      PROVE  CleanCache(Written(c, j, data))
  BY <1>2, Untouched DEF CleanCache
<1>3. ASSUME NEW s, NEW n \in Sends, server.said[n] = None
      PROVE  CleanCache(Optimistic(c, s, n))
  <2>1. ASSUME NEW r \in Sessions, messages(r) \in Keys
        PROVE  CleanEntry(Optimistic(c, s, n)[messages(r)], server.said)
    <3> DEFINE k == messages(r)
               old == Value(c, k, {})
               data == old \cup {<<"optimistic", n>>}
    <3>1. CleanEntry(c[k], server.said) /\ WellFormed(c[k], Known(server, k)) /\ Apart(Known(server, k))
      BY <1>0, <2>1, EntryIsTyped DEF CleanCache
    <3>2. Optimistic(c, s, n)[k] = IF k = messages(s) THEN Put(c[k], data) ELSE c[k]
      BY <1>0, <2>1, OptimisticIsOK
    <3>3. Clean(old, server.said)
      BY <3>1 DEF Clean, CleanEntry, Value
    <3>4. Clean(data, server.said)
      <4> HIDE DEF old
      <4> QED
        BY <1>3, <3>3 DEF Clean
    <3> HIDE DEF data
    <3>5. /\ Put(c[k], data).data = data /\ Put(c[k], data).fetch = c[k].fetch
          /\ Put(c[k], data).snap = c[k].snap
      BY <3>1 DEF Put, WellFormed, EntryOf
    <3>6. CleanEntry(Put(c[k], data), server.said)
      BY <3>1, <3>4, <3>5 DEF CleanEntry
    <3> QED
      BY <3>1, <3>2, <3>6
  <2> QED
    BY <2>1 DEF CleanCache
<1> QED
  BY <1>1, <1>2, <1>3, KeysDiffer DEF CleanCache

LEMMA RenderedIsClean ==
    ASSUME Typed, UNCHANGED server, NEW c, CacheOK(server, c), CleanCache(c),
           NEW ms, Rendered(c, ms)
    PROVE  CleanCache(cache)'
PROOF
<1>0. ServerOK
  BY DEF Typed
<1>1. ASSUME NEW s \in Sessions, messages(s) \in Keys
      PROVE  CleanEntry(cache'[messages(s)], server.said)
  <2>1. Kept(c[messages(s)], cache'[messages(s)])
    BY <1>0, <1>1, RenderedKeeps, KeysDiffer
  <2> QED
    BY <1>1, <2>1, KeptIsClean DEF CleanCache
<1> QED
  BY <1>1 DEF CleanCache

\* Nothing is cached when the page is loaded, and what is in use is asked for.
LEMMA CacheAtFirst ==
    ASSUME Init
    PROVE  /\ \A k \in Keys : cache[k].data = None /\ cache[k].fetch # "read"
           /\ \A k \in InUse(cache, activeSessionId) : Served(cache[k])
           /\ server.said = [n \in Sends |-> None] /\ wire = <<>>
PROOF
<1> DEFINE c == [j \in Keys |-> Entry(None)]
<1>1. /\ cache = [k \in Keys |-> IF k \in InUse(c, activeSessionId) THEN Mounts(c[k]) ELSE c[k]]
      /\ server.said = [n \in Sends |-> None]
  BY DEF Init, Start
<1>2. \A k \in Keys : c[k].data = None /\ c[k].fetch = "no" /\ c[k].flag = FALSE
  BY DEF Entry
<1>3. ASSUME NEW k \in Keys
      PROVE  Mounts(c[k]).data = None /\ Mounts(c[k]).fetch = "asked"
  <2>1. c[k] = Entry(None)
    OBVIOUS
  <2> HIDE DEF c
  <2> QED
    BY <2>1 DEF Entry, Mounts, Asked, Fetching, HasData
<1> HIDE DEF c
<1>4. \A k \in Keys : cache[k].data = c[k].data /\ cache[k].fetch # "read"
  BY <1>1, <1>2, <1>3
<1>5. InUse(cache, activeSessionId) = InUse(c, activeSessionId)
  BY <1>4, InUseByData
<1>6. \A k \in InUse(c, activeSessionId) : k \in Keys
  BY DEF InUse
<1>7. wire = <<>>
  BY DEF Init
<1> QED
  BY <1>1, <1>2, <1>3, <1>4, <1>5, <1>6, <1>7 DEF Served, Fetching

LEMMA PhaseStep ==
    ASSUME Typed, NEW n \in Sends
    PROVE  /\ \A p : sends' = [sends EXCEPT ![n].phase = p] =>
                 /\ sends'[n].phase = p /\ sends'[n].session = sends[n].session
                 /\ \A m \in Sends \ {n} : sends'[m] = sends[m]
           /\ \A p, s : sends' = [sends EXCEPT ![n].session = s, ![n].phase = p] =>
                 /\ sends'[n].phase = p /\ sends'[n].session = s
                 /\ \A m \in Sends \ {n} : sends'[m] = sends[m]
BY DEF Typed, SendsOK, SendType

LEMMA UnechoedStep ==
    ASSUME Typed, Unechoed, [Next]_vars
    PROVE  Unechoed'
PROOF
<1>0. /\ ServerOK /\ CacheOK(server, cache) /\ CleanCache(cache) /\ SaidOnce
      /\ server \in ServerType
  BY DEF Typed, ServerOK, Unechoed
<1>1. ASSUME UNCHANGED server, NEW c, CacheOK(server, c), CleanCache(c), NEW ms, Rendered(c, ms)
      PROVE  CleanCache(cache)'
  BY <1>1, RenderedIsClean
<1>2. ASSUME UNCHANGED cache, server'.said = server.said
      PROVE  CleanCache(cache)'
  BY <1>0, <1>2 DEF CleanCache
<1>3. ASSUME server'.said = server.said,
             \A n \in Sends : \/ sends'[n].phase = sends[n].phase
                              \/ server.said[n] = None
                              \/ sends'[n].phase \in {"stored", "over"}
      PROVE  SaidOnce'
  BY <1>0, <1>3 DEF SaidOnce
<1>4. CASE UNCHANGED vars
  BY <1>2, <1>3, <1>4 DEF vars, Unechoed
<1>5. CASE Toggle \/ NewChat \/ \E s \in Sessions : SelectSession(s)
  BY <1>0, <1>1, <1>3, <1>5, LookingIsTyped DEF Unechoed
<1>6. ASSUME NEW n \in Sends, Send(n)
      PROVE  Unechoed'
  <2>1. /\ UNCHANGED server
        /\ n \in Unsent
        /\ \/ /\ Rendered(cache, marks) /\ sends' = [sends EXCEPT ![n].phase = "creating"]
           \/ /\ Rendered(Optimistic(cache, activeSessionId, n), marks)
              /\ sends' = [sends EXCEPT ![n].session = activeSessionId, ![n].phase = "sending"]
    BY <1>6, SendIsTyped
  <2>2. server.said[n] = None
    BY <1>0, <2>1 DEF SaidOnce, Unsent
  <2>3. \A m \in Sends \ {n} : sends'[m] = sends[m]
    BY <2>1, PhaseStep
  <2>4. CacheOK(server, Optimistic(cache, activeSessionId, n))
        /\ CleanCache(Optimistic(cache, activeSessionId, n))
    BY <1>0, <2>2, OptimisticIsOK, ChangesAreClean
  <2> QED
    BY <1>0, <1>1, <1>3, <2>1, <2>2, <2>3, <2>4 DEF Unechoed
<1>7. ASSUME NEW n \in Sends, NEW ok \in BOOLEAN, Created(n, ok)
      PROVE  Unechoed'
  <2> DEFINE c == Invalidated(cache, {sessions})
             d == Optimistic(c, sends[n].session, n)
  <2>1. /\ UNCHANGED server /\ sends[n].phase \in {"creating", "created"}
        /\ Rendered(c, marks) \/ Rendered(d, marks)
        /\ \E p : sends' = [sends EXCEPT ![n].phase = p]
    BY <1>7, CreatedIsTyped
  <2>2. server.said[n] = None /\ \A m \in Sends \ {n} : sends'[m] = sends[m]
    BY <1>0, <2>1, PhaseStep DEF SaidOnce
  <2>3. CacheOK(server, c) /\ CleanCache(c)
    BY <1>0, InvalidatedIsOK, ChangesAreClean
  <2> HIDE DEF c
  <2>4. CacheOK(server, d) /\ CleanCache(d)
    BY <1>0, <2>2, <2>3, OptimisticIsOK, ChangesAreClean
  <2> HIDE DEF d
  <2> QED
    BY <1>1, <1>3, <2>1, <2>2, <2>3, <2>4 DEF Unechoed
<1>8. ASSUME NEW n \in Sends, NEW ok \in BOOLEAN, Sent(n, ok)
      PROVE  Unechoed'
  <2>1. /\ UNCHANGED server /\ sends' = [sends EXCEPT ![n].phase = "over"]
        /\ Rendered(cache, marks) \/ (CacheOK(server, Seeded(cache, n)) /\ Rendered(AfterSent(n), marks))
    BY <1>8, SentIsTyped
  <2>2. sends'[n].phase = "over" /\ \A m \in Sends \ {n} : sends'[m] = sends[m]
    BY <2>1, PhaseStep
  <2>3. CleanCache(Seeded(cache, n))
    BY <1>0, ChangesAreClean DEF Seeded
  <2>4. ASSUME CacheOK(server, Seeded(cache, n))
        PROVE  CacheOK(server, AfterSent(n)) /\ CleanCache(AfterSent(n))
    BY <1>0, <2>3, <2>4, InvalidatedIsOK, ChangesAreClean DEF AfterSent
  <2> QED
    BY <1>0, <1>1, <1>3, <2>1, <2>2, <2>4 DEF Unechoed
<1>9. CASE Stop
  BY <1>2, <1>3, <1>9, StopIsTyped DEF Unechoed, Client
<1>10. CASE Stopped
  <2> DEFINE w == Written(cache, pendingTask(stop.session), 0)
  <2>1. /\ UNCHANGED <<server, sends>> /\ CacheOK(server, w)
        /\ Rendered(AfterStopped(stop.session), marks)
    BY <1>10, StoppedIsTyped
  <2>2. CleanCache(w)
    BY <1>0, ChangesAreClean
  <2>3. AfterStopped(stop.session) = Invalidated(w, {messages(stop.session)})
    BY DEF AfterStopped
  <2> HIDE DEF w
  <2>4. CacheOK(server, AfterStopped(stop.session)) /\ CleanCache(AfterStopped(stop.session))
    BY <1>0, <2>1, <2>2, <2>3, InvalidatedIsOK, ChangesAreClean
  <2> QED
    BY <1>1, <1>3, <2>1, <2>4 DEF Unechoed
<1>11. ASSUME NEW m \in Marks, NEW ok \in BOOLEAN, Marked(m, ok)
       PROVE  Unechoed'
  <2> DEFINE w == Written(cache, sessions, marks[m].saved)
  <2>1. /\ UNCHANGED <<server, sends>>
        /\ \/ Rendered(Invalidated(cache, {sessions}), Unmarked(m))
           \/ CacheOK(server, w) /\ Rendered(Invalidated(w, {sessions}), Unmarked(m))
    BY <1>11, MarkedIsTyped
  <2>2. CleanCache(w)
    BY <1>0, ChangesAreClean
  <2> HIDE DEF w
  <2>3. /\ CacheOK(server, Invalidated(cache, {sessions})) /\ CleanCache(Invalidated(cache, {sessions}))
        /\ CacheOK(server, w) =>
              CacheOK(server, Invalidated(w, {sessions})) /\ CleanCache(Invalidated(w, {sessions}))
    BY <1>0, <2>2, InvalidatedIsOK, ChangesAreClean
  <2> QED
    BY <1>1, <1>3, <2>1, <2>3 DEF Unechoed
<1>12. CASE Deliver
  <2> DEFINE e == Head(wire)
  <2>1. UNCHANGED <<server, sends>> /\ CacheOK(server, Reset(e)) /\ Rendered(AfterEvent(e), marks)
        /\ Sound(server, e)
    BY <1>12, DeliverIsTyped
  <2> HIDE DEF e
  <2>2. CleanCache(Reset(e)) /\ CleanCache(Reported(cache, e))
    BY <1>0, ChangesAreClean DEF Reset, Reported
  <2>3. CleanCache(AfterEvent(e))
    BY <2>1, <2>2, ChangesAreClean DEF AfterEvent
  <2>4. CacheOK(server, AfterEvent(e))
    BY <1>0, <2>1, EventIsOK
  <2> QED
    BY <1>1, <1>3, <2>1, <2>3, <2>4 DEF Unechoed
<1>13. ASSUME NEW k \in Keys, ServerReads(k) \/ Arrive(k) \/ Lose(k)
       PROVE  Unechoed'
  <2> DEFINE q == cache[k]
             v == View(server, k)
  <2>1. /\ UNCHANGED <<server, sends>> /\ WellFormed(q, Known(server, k))
        /\ Apart(Known(server, k))
    BY <1>0, <1>13, FetchIsTyped, EntryIsTyped
  <2>2. ASSUME NEW p, NEW c, c = [cache EXCEPT ![k] = p],
               (\E s \in Sessions : k = messages(s)) => CleanEntry(p, server.said)
        PROVE  CleanCache(c)
    BY <1>0, <2>2 DEF CleanCache, CacheOK
  <2>3. (\E s \in Sessions : k = messages(s)) => CleanEntry(q, server.said)
    BY <1>0 DEF CleanCache
  <2>4. CASE q.fetch = "asked" /\ cache' = [cache EXCEPT ![k] = Read(q, v)] /\ v \in Known(server, k)
    <3>1. Read(q, v).data = q.data /\ Read(q, v).snap = v
      BY <2>1 DEF Read, WellFormed, EntryOf
    <3>2. ASSUME NEW s \in Sessions, k = messages(s)
          PROVE  Stored(v, server.said)
      BY <3>2, ViewIsStored
    <3> HIDE DEF q, v
    <3>3. (\E s \in Sessions : k = messages(s)) => CleanEntry(Read(q, v), server.said)
      BY <2>3, <3>1, <3>2 DEF CleanEntry, HasData
    <3>4. CleanCache(cache')
      BY <2>2, <2>4, <3>3
    <3> QED
      BY <1>3, <2>1, <3>4 DEF Unechoed, CleanCache
  <2>5. CASE q.fetch = "read" /\ cache' = [cache EXCEPT ![k] = Retry(q)]
    <3>1. Kept(q, Retry(q))
      BY <2>1, KeptLaws
    <3> HIDE DEF q
    <3>2. (\E s \in Sessions : k = messages(s)) => CleanEntry(Retry(q), server.said)
      BY <2>3, <3>1, KeptIsClean
    <3>3. CleanCache(cache')
      BY <2>2, <2>5, <3>2
    <3> QED
      BY <1>3, <2>1, <3>3 DEF Unechoed, CleanCache
  <2>6. CASE q.fetch = "read" /\ CacheOK(server, [cache EXCEPT ![k] = Answer(q)])
             /\ Rendered([cache EXCEPT ![k] = Answer(q)], marks)
    <3>1. Answer(q).data = q.snap /\ Answer(q).fetch = "no"
      BY <2>1 DEF Answer, Idle, WellFormed, EntryOf
    <3> HIDE DEF q
    <3>2. (\E s \in Sessions : k = messages(s)) => CleanEntry(Answer(q), server.said)
      BY <2>3, <2>6, <3>1 DEF CleanEntry, HasData, Stored, Clean
    <3>3. CleanCache([cache EXCEPT ![k] = Answer(q)])
      BY <2>2, <3>2
    <3> QED
      BY <1>1, <1>3, <2>1, <2>6, <3>3 DEF Unechoed
  <2> QED
    BY <1>13, <2>4, <2>5, <2>6, FetchIsTyped
<1>14. CASE CancelTask
  <2>1. server'.said = server.said /\ UNCHANGED <<cache, sends>>
    BY <1>0, <1>14 DEF CancelTask, ServerType, Client
  <2> QED
    BY <1>2, <1>3, <2>1 DEF Unechoed
<1>15. ASSUME NEW m \in Marks, MarkRead(m)
       PROVE  Unechoed'
  <2>1. server'.said = server.said /\ UNCHANGED <<cache, sends>>
    BY <1>0, <1>15, MarkReadIsTyped DEF ServerType, Client
  <2> QED
    BY <1>2, <1>3, <2>1 DEF Unechoed
<1>16. ASSUME NEW n \in Sends, NEW s \in Sessions, CreateSession(n, s)
       PROVE  Unechoed'
  <2>1. /\ server'.said = server.said /\ UNCHANGED cache /\ sends[n].phase = "creating"
        /\ sends' = [sends EXCEPT ![n].session = s, ![n].phase = "created"]
    BY <1>0, <1>16, CreateSessionIsTyped DEF ServerType, Client
  <2>2. server.said[n] = None /\ \A m \in Sends \ {n} : sends'[m] = sends[m]
    BY <1>0, <2>1, PhaseStep DEF SaidOnce
  <2> QED
    BY <1>2, <1>3, <2>1, <2>2 DEF Unechoed
<1>17. ASSUME NEW n \in Sends, NEW s \in Sessions, SendMessage(n, s)
       PROVE  Unechoed'
  <2>1. /\ server'.said = [server.said EXCEPT ![n] = s] /\ UNCHANGED cache
        /\ sends'[n].phase \in {"stored", "over"}
        /\ \A m \in Sends \ {n} : sends'[m] = sends[m]
    BY <1>17, SendMessageIsTyped DEF Client
  <2>2. server'.said[n] = s /\ s # None /\ \A m \in Sends \ {n} : server'.said[m] = server.said[m]
    BY <1>0, <2>1, NoneIsNothing DEF ServerType
  <2>3. SaidOnce'
    BY <1>0, <2>1, <2>2 DEF SaidOnce
  <2>4. \A data : /\ Clean(data, server.said) => Clean(data, server'.said)
                  /\ Stored(data, server.said) => Stored(data, server'.said)
    BY <2>2 DEF Clean, Stored
  <2>5. CleanCache(cache)'
    BY <1>0, <2>1, <2>4 DEF CleanCache, CleanEntry
  <2> QED
    BY <2>3, <2>5 DEF Unechoed
<1>18. ASSUME Agents
       PROVE  Unechoed'
  BY <1>2, <1>3, <1>18 DEF Agents, Client, Unechoed
<1>19. ASSUME NEW t \in TaskIds, Report(t) \/ (\E empty \in BOOLEAN : Reply(t, empty))
                  \/ \E how \in {"completed", "failed", "swept", "cancelled"} : End(t, how)
       PROVE  Unechoed'
  BY <1>18, <1>19, ReportIsTyped, ReplyIsTyped, EndIsTyped
<1> QED
  BY <1>4, <1>5, <1>6, <1>7, <1>8, <1>9, <1>10, <1>11, <1>12, <1>13, <1>14, <1>15, <1>16,
     <1>17, <1>19 DEF Next, Progress

LEMMA TypedIsTypeOK ==
    ASSUME Typed
    PROVE  TypeOK
PROOF
<1>1. server.exists \in SUBSET Sessions /\ Len(server.tasks) <= MaxTasks
  BY DEF Typed, ServerOK, ServerType
<1>2. ASSUME NEW k \in Keys
      PROVE  /\ cache[k].data \in DataOf(k) \cup {None}
             /\ Fetching(cache[k]) <=> cache[k].back # None
             /\ cache[k].fetch = "read" <=> cache[k].snap # None
  <2>1. WellFormed(cache[k], Known(server, k)) /\ Known(server, k) \subseteq DataOf(k)
    BY EntryIsTyped, KnownIsData DEF Typed, ServerOK
  <2> QED
    BY <2>1 DEF WellFormed, EntryOf, Fetching
<1>3. activeSessionId \in server.exists \cup {None} /\ lost \in 0 .. MaxLost
  BY DEF Typed
<1>4. /\ \A m \in Marks : marks[m] # None => marks[m].session \in server.exists
      /\ stop # None => stop.session \in server.exists /\ stop.task \in TaskIds
      /\ \A n \in Sends : sends[n].session \in server.exists \cup {None}
  BY DEF Typed, MarksOK, StopOK, SendsOK
<1> QED
  BY <1>1, <1>2, <1>3, <1>4 DEF TypeOK

\* A message and its bubble are never shown together, and types: NoEcho holds in
\* every reachable state, whatever is lost, late or repeated.
THEOREM MessagesAreShownOnce == Spec => []NoEcho
PROOF
<1> DEFINE Inv == Typed /\ Unechoed
<1>1. Init => Inv
  <2>1. ASSUME Init
        PROVE  Unechoed
    BY <2>1, CacheAtFirst DEF Unechoed, SaidOnce, CleanCache, CleanEntry, HasData
  <2> QED
    BY <2>1, InitIsTyped
<1>2. Inv /\ [Next]_vars => Inv'
  BY StepIsTyped, UnechoedStep
<1>3. Inv => NoEcho
  <2> SUFFICES ASSUME Inv PROVE NoEcho
    OBVIOUS
  <2>1. TypeOK
    BY TypedIsTypeOK
  <2>2. ASSUME NEW s \in Sessions, NEW n \in Sends,
               <<"user", n>> \in Value(cache, messages(s), {})
        PROVE  <<"optimistic", n>> \notin Value(cache, messages(s), {})
    BY <2>2 DEF Unechoed, CleanCache, CleanEntry, Clean, Value
  <2> QED
    BY <2>1, <2>2 DEF NoEcho
<1> QED
  BY <1>1, <1>2, <1>3, PTL DEF Spec

-----------------------------------------------------------------------------
(* What is in use is fetched or fresh *)

InUseIsServed == \A k \in InUse(cache, activeSessionId) : Served(cache[k])

LEMMA InUseStaysServed ==
    ASSUME Typed, InUseIsServed, [Next]_vars
    PROVE  InUseIsServed'
PROOF
<1>1. ASSUME UNCHANGED Client
      PROVE  InUseIsServed'
  BY <1>1 DEF InUseIsServed, Client
<1>2. ASSUME NEW c, NEW ms, Rendered(c, ms)
      PROVE  InUseIsServed'
  BY <1>2 DEF InUseIsServed, Rendered
<1>3. ASSUME NEW k \in Keys, NEW q, q.data = cache[k].data, Fetching(q),
             cache' = [cache EXCEPT ![k] = q], activeSessionId' = activeSessionId
      PROVE  InUseIsServed'
  <2>1. \A j \in Keys : cache'[j].data = cache[j].data /\ (j # k => cache'[j] = cache[j])
        /\ (j = k => Fetching(cache'[j]))
    BY <1>3 DEF Typed, CacheOK
  <2>2. InUse(cache', activeSessionId) = InUse(cache, activeSessionId)
    BY <2>1, InUseByData
  <2>3. InUse(cache, activeSessionId) \subseteq Keys
    BY DEF InUse
  <2> QED
    BY <1>3, <2>1, <2>2, <2>3 DEF InUseIsServed, Served
<1>4. ASSUME NEW k \in Keys, ServerReads(k) \/ Arrive(k) \/ Lose(k)
      PROVE  InUseIsServed'
  <2>1. WellFormed(cache[k], Known(server, k)) /\ Apart(Known(server, k))
    BY EntryIsTyped DEF Typed
  <2>2. \A v : Read(cache[k], v).data = cache[k].data /\ Fetching(Read(cache[k], v))
    BY <2>1 DEF Read, Fetching, WellFormed, EntryOf
  <2>3. Retry(cache[k]).data = cache[k].data /\ Fetching(Retry(cache[k]))
    BY <2>1 DEF Retry, Fetching, WellFormed, EntryOf
  <2>4. CASE ServerReads(k)
    BY <1>3, <2>2, <2>4 DEF ServerReads
  <2>5. CASE Lose(k)
    BY <1>3, <2>3, <2>5 DEF Lose
  <2>6. CASE Arrive(k)
    <3>1. \E c : Rendered(c, marks)
      <4>1. CacheOK(server, [cache EXCEPT ![k] = Answer(cache[k])])
        <5>1. Fetching(cache[k]) /\ cache[k].fetch = "read" /\ cache[k].snap \in Known(server, k)
          BY <2>1, <2>6 DEF Arrive, Fetching, WellFormed, EntryOf
        <5>2. WellFormed(Answer(cache[k]), Known(server, k))
          BY <2>1, <5>1, AnswersAreWellFormed
        <5> QED
          BY <5>1, <5>2, EntryIsOK DEF Typed
      <4>2. Rerender([cache EXCEPT ![k] = Answer(cache[k])])
        BY <2>6 DEF Arrive
      <4> QED
        BY <4>1, <4>2, RenderStep DEF Rerender, Typed
    <3> QED
      BY <1>2, <3>1
  <2> QED
    BY <1>4, <2>4, <2>5, <2>6
<1>5. CASE UNCHANGED vars
  BY <1>1, <1>5 DEF vars, Client
<1>6. CASE Toggle \/ NewChat \/ \E s \in Sessions : SelectSession(s)
  BY <1>2, <1>6, LookingIsTyped
<1>7. ASSUME NEW n \in Sends, Send(n)
      PROVE  InUseIsServed'
  <2>1. \E c, ms : Rendered(c, ms)
    BY <1>7, SendIsTyped
  <2> QED
    BY <1>2, <2>1
<1>8. ASSUME NEW n \in Sends, NEW ok \in BOOLEAN, Created(n, ok) \/ Sent(n, ok)
      PROVE  InUseIsServed'
  <2>1. \E c, ms : Rendered(c, ms)
    BY <1>8, CreatedIsTyped, SentIsTyped
  <2> QED
    BY <1>2, <2>1
<1>9. CASE Stopped \/ Deliver
  BY <1>2, <1>9, StoppedIsTyped, DeliverIsTyped
<1>10. ASSUME NEW m \in Marks, NEW ok \in BOOLEAN, Marked(m, ok)
       PROVE  InUseIsServed'
  BY <1>2, <1>10, MarkedIsTyped
<1>11. CASE Stop \/ CancelTask
  BY <1>1, <1>11, StopIsTyped, CancelTaskIsTyped
<1>12. ASSUME NEW m \in Marks, MarkRead(m)
       PROVE  InUseIsServed'
  BY <1>1, <1>12, MarkReadIsTyped
<1>13. ASSUME NEW n \in Sends, NEW s \in Sessions, CreateSession(n, s) \/ SendMessage(n, s)
       PROVE  InUseIsServed'
  BY <1>1, <1>13, CreateSessionIsTyped, SendMessageIsTyped
<1>14. ASSUME NEW t \in TaskIds, Report(t) \/ (\E empty \in BOOLEAN : Reply(t, empty))
                  \/ \E how \in {"completed", "failed", "swept", "cancelled"} : End(t, how)
       PROVE  InUseIsServed'
  BY <1>1, <1>14, ReportIsTyped, ReplyIsTyped, EndIsTyped DEF Agents
<1> QED
  BY <1>4, <1>5, <1>6, <1>7, <1>8, <1>9, <1>10, <1>11, <1>12, <1>13, <1>14 DEF Next, Progress

-----------------------------------------------------------------------------
(* What is announced, and what becomes current *)

\* An event on its way will have the entry fetched anew.
Announced(k) == \E i \in DOMAIN wire : k \in InvalidatedBy(wire[i])

LEMMA PublishAnnounces ==
    ASSUME Typed, "missed" \notin Races, NEW evs \in Seq(EventType), Publish(evs), NEW k
    PROVE  /\ Announced(k) => Announced(k)'
           /\ \A i \in DOMAIN evs : k \in InvalidatedBy(evs[i]) => Announced(k)'
PROOF
<1>1. wire \in Seq(EventType) /\ wire' = wire \o evs
  BY DEF Typed, WireOK, Publish
<1>2. /\ \A i \in DOMAIN wire : i \in DOMAIN wire' /\ wire'[i] = wire[i]
      /\ \A i \in DOMAIN evs : Len(wire) + i \in DOMAIN wire' /\ wire'[Len(wire) + i] = evs[i]
  BY <1>1
<1> QED
  BY <1>2 DEF Announced

LEMMA EventAnnounces ==
    ASSUME Typed, "missed" \notin Races, NEW e \in EventType, Publish(<<e>>), NEW k
    PROVE  /\ Announced(k) => Announced(k)'
           /\ k \in InvalidatedBy(e) => Announced(k)'
PROOF
<1>1. <<e>> \in Seq(EventType) /\ 1 \in DOMAIN <<e>> /\ <<e>>[1] = e
  OBVIOUS
<1>2. \A i \in DOMAIN <<e>> : k \in InvalidatedBy(<<e>>[i]) => Announced(k)'
  BY <1>1, PublishAnnounces
<1>3. Announced(k) => Announced(k)'
  BY <1>1, PublishAnnounces
<1> QED
  BY <1>1, <1>2, <1>3

LEMMA DeliveryKeeps ==
    ASSUME Typed, wire # <<>>, wire' = Tail(wire), NEW k, k \notin InvalidatedBy(Head(wire)),
           Announced(k)
    PROVE  Announced(k)'
PROOF
<1>1. wire \in Seq(EventType)
  BY DEF Typed, WireOK
<1>2. PICK i \in DOMAIN wire : k \in InvalidatedBy(wire[i])
  BY DEF Announced
<1>3. i # 1
  BY <1>1, <1>2
<1>4. i - 1 \in DOMAIN wire' /\ wire'[i - 1] = wire[i]
  BY <1>1, <1>2, <1>3
<1> QED
  BY <1>2, <1>4 DEF Announced

\* What the events invalidate.
LEMMA EventKeys ==
    /\ \A s \in Sessions : \A t :
          /\ {pendingTask(s), messages(s)} \subseteq InvalidatedBy(Event("chat:message", s, t))
          /\ {pendingTask(s), messages(s), sessions} \subseteq InvalidatedBy(Event("chat:done", s, t))
          /\ pendingTask(s) \in InvalidatedBy(Event("task:failed", s, t))
    /\ \A s, t : sessions \in InvalidatedBy(Event("chat:session_read", s, t))
    /\ \A e : \A s \in Sessions :
          /\ pendingTask(s) \in InvalidatedBy(e) <=> e.type \in Refreshing /\ e.session = s
          /\ messages(s) \in InvalidatedBy(e) => e.type # "task:message"
    /\ \A e : /\ sessions \in InvalidatedBy(e) => e.type # "task:message"
              /\ \A t : taskMessages(t) \notin InvalidatedBy(e)
PROOF
<1>1. \A s \in Sessions : s # None
  BY NoneIsNothing
<1> QED
  BY <1>1 DEF InvalidatedBy, Event, Refreshing, ListEvents, messages, pendingTask, sessions, taskMessages

\* An invalidation at the right time makes an entry current.
LEMMA InvalidatedIsCurrent ==
    ASSUME Typed, "overtaken" \notin Races, NEW K, Safe(K, TRUE), NEW k \in Keys, k \in K,
           NEW c, CacheOK(server, c), c[k].fetch = cache[k].fetch,
           HasData(cache[k]) => HasData(c[k])
    PROVE  \A v : Current(Invalidated(c, K)[k], v)
PROOF
<1>1. cache[k].fetch = "read" => Mounted(k) /\ HasData(cache[k])
  BY DEF Safe, Stales
<1>2. Invalidated(c, K)[k] = Invalidate(c[k], Mounted(k))
  BY InvalidatedIsOK DEF Typed
<1>3. WellFormed(c[k], Known(server, k)) /\ Apart(Known(server, k))
  BY EntryIsTyped DEF Typed
<1>4. c[k].fetch = "read" => Mounted(k) /\ HasData(c[k])
  BY <1>1
<1> QED
  BY <1>2, <1>3, <1>4, InvalidateIsCurrent

LEMMA InvalidatedOrNot ==
    ASSUME Typed, "overtaken" \notin Races, NEW K, Safe(K, TRUE), NEW k \in Keys,
           NEW c, CacheOK(server, c), c[k] = cache[k]
    PROVE  Invalidated(c, K)[k] = cache[k] \/ \A v : Current(Invalidated(c, K)[k], v)
PROOF
<1>1. CASE k \in K
  BY <1>1, InvalidatedIsCurrent
<1>2. CASE k \notin K
  BY <1>2, Untouched
<1> QED
  BY <1>1, <1>2

\* So does what is written to it, of what is written.
LEMMA WrittenIsCurrent ==
    ASSUME Typed, "overtaken" \notin Races, NEW k \in Keys, Safe({k}, FALSE), NEW data
    PROVE  Current(Written(cache, k, data)[k], data)
PROOF
<1>1. cache[k].fetch # "read"
  BY DEF Safe, Stales
<1>2. Written(cache, k, data)[k] = Put(cache[k], data)
  BY DEF Written, Typed, CacheOK
<1>3. WellFormed(cache[k], Known(server, k)) /\ Apart(Known(server, k))
  BY EntryIsTyped DEF Typed
<1> QED
  BY <1>1, <1>2, <1>3, PutIsCurrent

LEMMA FetchStaysCurrent ==
    ASSUME Typed, NEW k \in Keys, ServerReads(k) \/ Arrive(k) \/ Lose(k),
           NEW j \in Keys, Current(cache[j], View(server, j))
    PROVE  Current(cache'[j], View(server, j)) \/ (j = sessions /\ \E m \in Marks : marks'[m] # None)
PROOF
<1> DEFINE q == cache[k]
           v == View(server, k)
<1>1. /\ WellFormed(q, Known(server, k)) /\ Apart(Known(server, k))
      /\ ServerOK /\ CacheOK(server, cache)
  BY EntryIsTyped DEF Typed
<1>2. ASSUME NEW p, j = k => Current(p, v)
      PROVE  Current([cache EXCEPT ![k] = p][j], View(server, j))
  BY <1>1, <1>2 DEF CacheOK
<1>3. ASSUME j = k
      PROVE  /\ q.fetch = "asked" => Current(Read(q, v), v)
             /\ q.fetch = "read" => Current(Answer(q), v) /\ Current(Retry(q), v)
  BY <1>1, <1>3, AnswerIsCurrent
<1> HIDE DEF v
<1>4. CASE q.fetch = "asked" /\ cache' = [cache EXCEPT ![k] = Read(q, v)]
  BY <1>2, <1>3, <1>4
<1>5. CASE q.fetch = "read" /\ cache' = [cache EXCEPT ![k] = Retry(q)]
  BY <1>2, <1>3, <1>5
<1>6. CASE q.fetch = "read" /\ CacheOK(server, [cache EXCEPT ![k] = Answer(q)])
           /\ Rendered([cache EXCEPT ![k] = Answer(q)], marks)
  <2>1. Current([cache EXCEPT ![k] = Answer(q)][j], View(server, j))
    BY <1>2, <1>3, <1>6
  <2> QED
    BY <1>1, <1>6, <2>1, RenderedStaysCurrent
<1> QED
  BY <1>4, <1>5, <1>6, FetchIsTyped DEF v

LEMMA SentTaskIsNamed ==
    ASSUME Typed, NEW n \in Sends, NEW s \in Sessions, SendMessage(n, s)
    PROVE  Typed' /\ Len(server.tasks) + 1 \in Tasks
PROOF
<1>1. Typed' /\ Len(server'.tasks) = Len(server.tasks) + 1
  BY SendMessageIsTyped DEF Joined
<1>2. Len(server.tasks) \in Nat /\ Len(server'.tasks) <= MaxTasks
  BY <1>1, TasksAreTyped DEF Typed, ServerOK
<1> QED
  BY <1>1, <1>2, BoundsAreNaturals DEF Tasks

LEMMA ReportEventIsTyped ==
    ASSUME Typed, NEW t \in TaskIds
    PROVE  /\ ReportEvent(t) \in EventType /\ ReportEvent(t).type = "task:message"
           /\ ReportEvent(t).task = t /\ ReportEvent(t).seq = server.tasks[t].steps + 1
PROOF
<1>1. t \in Tasks /\ server.tasks[t].steps + 1 \in Nat
  BY TasksAreTyped, TasksAreNamed DEF Typed, ServerOK, TaskIds
<1> QED
  BY <1>1 DEF ReportEvent, EventType

LEMMA ReportedTask ==
    ASSUME Typed, NEW t \in TaskIds,
           Changed(server', t, [server.tasks[t] EXCEPT !.steps = @ + 1])
    PROVE  /\ DOMAIN server'.tasks = TaskIds
           /\ server'.tasks[t].st = server.tasks[t].st
           /\ server'.tasks[t].session = server.tasks[t].session
           /\ server'.tasks[t].steps = server.tasks[t].steps + 1
           /\ \A u \in TaskIds \ {t} : server'.tasks[u] = server.tasks[u]
PROOF
<1>1. server.tasks[t] \in TaskType
  BY TasksAreTyped DEF Typed, ServerOK, TaskIds
<1>2. server'.tasks[t] = [server.tasks[t] EXCEPT !.steps = @ + 1]
  BY DEF Changed
<1> QED
  BY <1>1, <1>2 DEF Changed, TaskType

-----------------------------------------------------------------------------
(* The messages of a session *)

\* A message is being sent: its answer will ask for the messages anew.
Sending(s) == \E n \in Sends : sends[n].phase = "sending" /\ sends[n].session = s
MessagesAwaited(s) == Announced(messages(s)) \/ Sending(s)
MessagesInv ==
    \A s \in Sessions : messages(s) \in Keys =>
        MessagesAwaited(s) \/ Current(cache[messages(s)], View(server, messages(s)))

LEMMA ChangedTask ==
    ASSUME Typed, NEW new, NEW t \in TaskIds, NEW st,
           Changed(new, t, [server.tasks[t] EXCEPT !.st = st])
    PROVE  /\ DOMAIN new.tasks = TaskIds
           /\ new.tasks[t].st = st /\ new.tasks[t].session = server.tasks[t].session
           /\ new.tasks[t].steps = server.tasks[t].steps
           /\ \A u \in TaskIds \ {t} : new.tasks[u] = server.tasks[u]
PROOF
<1>1. server.tasks[t] \in TaskType
  BY TasksAreTyped DEF Typed, ServerOK, TaskIds
<1>2. new.tasks[t] = [server.tasks[t] EXCEPT !.st = st]
  BY DEF Changed
<1> QED
  BY <1>1, <1>2 DEF Changed, TaskType

\* Task t has another state, and one of its session may have joined.
Turned(t, st) ==
    /\ TaskIds \subseteq DOMAIN server'.tasks
    /\ server'.tasks[t].st = st /\ server'.tasks[t].session = server.tasks[t].session
    /\ server'.tasks[t].steps = server.tasks[t].steps
    /\ \A u \in TaskIds \ {t} : server'.tasks[u] = server.tasks[u]
    /\ \A u \in DOMAIN server'.tasks \ TaskIds :
          server'.tasks[u] = Task(server.tasks[t].session)

LEMMA ChangedTurns ==
    ASSUME Typed, NEW t \in TaskIds, NEW st, NEW new, server'.tasks = new.tasks,
           Changed(new, t, [server.tasks[t] EXCEPT !.st = st])
    PROVE  Turned(t, st)
BY ChangedTask DEF Turned

LEMMA EndedTurns ==
    ASSUME Typed, NEW t \in TaskIds, NEW st, Ended(t, st)
    PROVE  Turned(t, st)
PROOF
<1>1. CASE Changed(server', t, [server.tasks[t] EXCEPT !.st = st])
  BY <1>1, ChangedTurns
<1>2. ASSUME Changed(EndedTask(t, st), t, [server.tasks[t] EXCEPT !.st = st]),
             Joined(EndedTask(t, st), server.tasks[t].session)
      PROVE  Turned(t, st)
  <2> DEFINE old == EndedTask(t, st)
  <2>1. Changed(old, t, [server.tasks[t] EXCEPT !.st = st]) /\ Joined(old, server.tasks[t].session)
    BY <1>2
  <2> HIDE DEF old
  <2>2. /\ old.tasks[t].st = st /\ old.tasks[t].session = server.tasks[t].session
        /\ old.tasks[t].steps = server.tasks[t].steps
        /\ \A u \in TaskIds \ {t} : old.tasks[u] = server.tasks[u]
    BY <2>1, ChangedTask
  <2> QED
    BY <2>1, <2>2 DEF Joined, Turned
<1> QED
  BY <1>1, <1>2 DEF Ended

AnsweredIn(srv, s) ==
    {u \in DOMAIN srv.tasks : srv.tasks[u].session = s /\ srv.tasks[u].st = "answered"}

LEMMA TurnedTasks ==
    ASSUME Typed, NEW t \in TaskIds, NEW st, Turned(t, st), NEW s
    PROVE  /\ server.tasks[t].session # s =>
                AnsweredIn(server', s) = AnsweredIn(server, s) /\ LiveIn(server', s) = LiveIn(server, s)
           /\ server.tasks[t].st # "answered" /\ st # "answered" =>
                AnsweredIn(server', s) = AnsweredIn(server, s)
PROOF
<1>1. /\ \A u \in DOMAIN server'.tasks \ TaskIds :
            server'.tasks[u].session = server.tasks[t].session /\ server'.tasks[u].st = "live"
      /\ \A u \in TaskIds \ {t} : server'.tasks[u] = server.tasks[u]
      /\ server'.tasks[t].st = st /\ server'.tasks[t].session = server.tasks[t].session
      /\ TaskIds \subseteq DOMAIN server'.tasks /\ TaskIds = DOMAIN server.tasks
  BY DEF Turned, Task, TaskIds
<1> QED
  BY <1>1 DEF AnsweredIn, LiveIn

LEMMA JoinedTasks ==
    ASSUME Typed, NEW r, Joined(server, r), NEW s
    PROVE  /\ AnsweredIn(server', s) = AnsweredIn(server, s)
           /\ r # s => LiveIn(server', s) = LiveIn(server, s)
PROOF
<1>1. /\ \A u \in DOMAIN server'.tasks \ TaskIds :
            server'.tasks[u].session = r /\ server'.tasks[u].st = "live"
      /\ \A u \in TaskIds : server'.tasks[u] = server.tasks[u]
      /\ TaskIds \subseteq DOMAIN server'.tasks /\ TaskIds = DOMAIN server.tasks
  BY DEF Joined, Task, TaskIds
<1> QED
  BY <1>1 DEF AnsweredIn, LiveIn

LEMMA SameTasks ==
    ASSUME DOMAIN server'.tasks = TaskIds, NEW s,
           \A u \in TaskIds : /\ server'.tasks[u].session = server.tasks[u].session
                              /\ server'.tasks[u].st = server.tasks[u].st
    PROVE  AnsweredIn(server', s) = AnsweredIn(server, s) /\ LiveIn(server', s) = LiveIn(server, s)
BY DEF AnsweredIn, LiveIn, TaskIds

LEMMA ReportedTasks ==
    ASSUME Typed, NEW t \in TaskIds,
           Changed(server', t, [server.tasks[t] EXCEPT !.steps = @ + 1]), NEW s
    PROVE  AnsweredIn(server', s) = AnsweredIn(server, s) /\ LiveIn(server', s) = LiveIn(server, s)
PROOF
<1>1. /\ DOMAIN server'.tasks = TaskIds
      /\ \A u \in TaskIds : /\ server'.tasks[u].session = server.tasks[u].session
                            /\ server'.tasks[u].st = server.tasks[u].st
  BY ReportedTask
<1> QED
  BY <1>1, SameTasks

LEMMA CancelTurns ==
    ASSUME Typed, CancelTask
    PROVE  UNCHANGED server \/ Turned(stop.task, "over")
PROOF
<1>1. stop.task \in TaskIds
  BY CancelTaskIsTyped
<1>2. CASE server' = [server EXCEPT !.tasks[stop.task] = [@ EXCEPT !.st = "over"]]
  <2>1. Changed(server', stop.task, [server.tasks[stop.task] EXCEPT !.st = "over"])
    BY <1>1, <1>2, StateChange
  <2> QED
    BY <1>1, <2>1, ChangedTurns
<1> QED
  BY <1>2, CancelTaskIsTyped

LEMMA ReplyTurns ==
    ASSUME Typed, NEW t \in TaskIds, NEW empty \in BOOLEAN, Reply(t, empty)
    PROVE  \E st \in {"answered", "over"} : Turned(t, st)
PROOF
<1>1. PICK st \in {"answered", "over"} :
          Changed(EndedTask(t, st), t, [server.tasks[t] EXCEPT !.st = st])
          /\ server'.tasks = EndedTask(t, st).tasks
  BY ReplyIsTyped
<1>2. Turned(t, st)
  BY <1>1, ChangedTurns
<1> QED
  BY <1>2

LEMMA MessagesViewStays ==
    ASSUME NEW old, NEW new, NEW s,
           \A m \in Sends : new.said[m] = s <=> old.said[m] = s,
           AnsweredIn(new, s) = AnsweredIn(old, s)
    PROVE  View(new, messages(s)) = View(old, messages(s))
PROOF
<1>1. ASSUME NEW srv
      PROVE  View(srv, messages(s)) =
                {<<"user", n>> : n \in {m \in Sends : srv.said[m] = s}}
                \cup {<<"assistant", t>> : t \in AnsweredIn(srv, s)}
  BY ViewKinds DEF AnsweredIn
<1>2. {m \in Sends : new.said[m] = s} = {m \in Sends : old.said[m] = s}
  OBVIOUS
<1> QED
  BY <1>1, <1>2

LEMMA MessagesStayFresh ==
    ASSUME Typed, Unechoed, MessagesInv, [Next]_vars,
           Races \cap {"missed", "overtaken", "refused"} = {}
    PROVE  MessagesInv'
PROOF
<1> SUFFICES ASSUME NEW s \in Sessions, messages(s) \in Keys
             PROVE  \/ MessagesAwaited(s)'
                    \/ Current(cache'[messages(s)], View(server', messages(s)))
  BY DEF MessagesInv
<1> DEFINE k == messages(s)
           Fresh == Current(cache[k], View(server, k))
           Goal == MessagesAwaited(s)' \/ Current(cache'[k], View(server', k))
<1>0. /\ ServerOK /\ CacheOK(server, cache) /\ server \in ServerType /\ k \in Keys /\ k # sessions
      /\ "missed" \notin Races /\ "overtaken" \notin Races /\ "refused" \notin Races
      /\ MessagesAwaited(s) \/ Fresh
      /\ \A r : k # pendingTask(r) /\ k # taskMessages(r) /\ (k = messages(r) => r = s)
      /\ sends \in [Sends -> SendType]
  BY KeysDiffer DEF Typed, ServerOK, MessagesInv, SendsOK
<1> HIDE DEF k
<1> SUFFICES Goal
  BY DEF k
<1>1. ASSUME UNCHANGED server, NEW c, CacheOK(server, c), NEW ms, Rendered(c, ms),
             \/ c[k] = cache[k] /\ (MessagesAwaited(s) => MessagesAwaited(s)')
             \/ \A v : Current(c[k], v)
      PROVE  Goal
  BY <1>0, <1>1, RenderedStaysCurrent
<1>2. ASSUME UNCHANGED cache, MessagesAwaited(s) => MessagesAwaited(s)',
             \A m \in Sends : server'.said[m] = s <=> server.said[m] = s,
             AnsweredIn(server', s) = AnsweredIn(server, s)
      PROVE  Goal
  <2>1. View(server', k) = View(server, k)
    BY <1>2, MessagesViewStays DEF k
  <2> QED
    BY <1>0, <1>2, <2>1
<1>3. ASSUME UNCHANGED <<wire, sends>>
      PROVE  MessagesAwaited(s) => MessagesAwaited(s)'
  BY <1>3 DEF MessagesAwaited, Announced, Sending
<1>4. ASSUME UNCHANGED wire, NEW n \in Sends,
             \/ sends[n].phase # "sending"
             \/ sends'[n].phase = "sending" /\ sends'[n].session = sends[n].session,
             \A m \in Sends \ {n} : sends'[m] = sends[m]
      PROVE  MessagesAwaited(s) => MessagesAwaited(s)'
  BY <1>4 DEF MessagesAwaited, Announced, Sending
<1>5. CASE UNCHANGED vars
  BY <1>0, <1>3, <1>5 DEF vars
<1>6. CASE Toggle \/ NewChat \/ \E r \in Sessions : SelectSession(r)
  BY <1>0, <1>1, <1>3, <1>6, LookingIsTyped
<1>7. ASSUME NEW n \in Sends, Send(n)
      PROVE  Goal
  <2>1. UNCHANGED <<server, wire>> /\ sends[n].phase = "unsent"
    BY <1>7, SendIsTyped DEF Unsent
  <2>2. CASE Rendered(cache, marks) /\ sends' = [sends EXCEPT ![n].phase = "creating"]
    <3>1. \A m \in Sends \ {n} : sends'[m] = sends[m]
      BY <2>2, PhaseStep
    <3> QED
      BY <1>0, <1>1, <1>4, <2>1, <2>2, <3>1
  <2>3. CASE /\ Rendered(Optimistic(cache, activeSessionId, n), marks)
             /\ sends' = [sends EXCEPT ![n].session = activeSessionId, ![n].phase = "sending"]
    <3>1. /\ sends'[n].phase = "sending" /\ sends'[n].session = activeSessionId
          /\ \A m \in Sends \ {n} : sends'[m] = sends[m]
      BY <2>3, PhaseStep
    <3>2. CASE activeSessionId = s
      BY <3>1, <3>2 DEF MessagesAwaited, Sending
    <3>3. CASE activeSessionId # s
      <4>1. CacheOK(server, Optimistic(cache, activeSessionId, n))
        BY <1>0, OptimisticIsOK
      <4>2. Optimistic(cache, activeSessionId, n)[k] = cache[k]
        BY <1>0, <3>3, Untouched
      <4> QED
        BY <1>1, <1>4, <2>1, <2>3, <3>1, <4>1, <4>2
    <3> QED
      BY <3>2, <3>3
  <2> QED
    BY <1>7, <2>2, <2>3, SendIsTyped
<1>8. ASSUME NEW n \in Sends, NEW ok \in BOOLEAN, Created(n, ok)
      PROVE  Goal
  <2> DEFINE c == Invalidated(cache, {sessions})
             d == Optimistic(c, sends[n].session, n)
  <2>0. UNCHANGED <<server, wire>>
    BY <1>8, CreatedIsTyped
  <2>1. UNCHANGED <<server, wire>> /\ CacheOK(server, c) /\ c[k] = cache[k]
    BY <1>0, <2>0, InvalidatedIsOK, Untouched
  <2> HIDE DEF c
  <2>2. CASE /\ sends[n].phase = "created" /\ sends' = [sends EXCEPT ![n].phase = "sending"]
             /\ Rendered(d, marks)
    <3>1. /\ sends'[n].phase = "sending" /\ sends'[n].session = sends[n].session
          /\ \A m \in Sends \ {n} : sends'[m] = sends[m]
      BY <2>2, PhaseStep
    <3>2. CASE sends[n].session = s
      BY <3>1, <3>2 DEF MessagesAwaited, Sending
    <3>3. CASE sends[n].session # s
      <4>1. CacheOK(server, d) /\ d[k] = c[k]
        BY <1>0, <2>1, <3>3, OptimisticIsOK, Untouched
      <4> HIDE DEF d
      <4> QED
        BY <1>1, <1>4, <2>1, <2>2, <3>1, <4>1
    <3> QED
      BY <3>2, <3>3
  <2>3. CASE /\ sends[n].phase \in {"creating", "created"}
             /\ sends' = [sends EXCEPT ![n].phase = "over"] /\ Rendered(c, marks)
    <3>1. \A m \in Sends \ {n} : sends'[m] = sends[m]
      BY <2>3, PhaseStep
    <3> QED
      BY <1>1, <1>4, <2>1, <2>3, <3>1
  <2> QED
    BY <1>8, <2>2, <2>3, CreatedIsTyped DEF c
<1>9. ASSUME NEW n \in Sends, NEW ok \in BOOLEAN, Sent(n, ok)
      PROVE  Goal
  <2> DEFINE r == sends[n].session
             w == Seeded(cache, n)
  <2>1. /\ UNCHANGED <<server, wire>> /\ sends[n].phase = "stored"
        /\ sends' = [sends EXCEPT ![n].phase = "over"]
    BY <1>0, <1>9, SentIsTyped
  <2>2. MessagesAwaited(s) => MessagesAwaited(s)'
    BY <1>4, <2>1, PhaseStep
  <2>3. CASE Rendered(cache, marks)
    BY <1>0, <1>1, <2>1, <2>2, <2>3
  <2>4. CASE /\ Safe({messages(r)}, TRUE) /\ CacheOK(server, w)
             /\ Rendered(AfterSent(n), marks)
    <3>1. w[k] = cache[k]
      BY <1>0, Untouched DEF Seeded
    <3>2. AfterSent(n) = Invalidated(w, {messages(r)})
      BY DEF AfterSent
    <3> HIDE DEF w, r
    <3>3. CacheOK(server, AfterSent(n))
      BY <1>0, <2>4, <3>2, InvalidatedIsOK
    <3>4. AfterSent(n)[k] = cache[k] \/ \A v : Current(AfterSent(n)[k], v)
      BY <1>0, <2>4, <3>1, <3>2, InvalidatedOrNot
    <3> QED
      BY <1>1, <2>1, <2>2, <2>4, <3>3, <3>4
  <2> QED
    BY <1>9, <2>3, <2>4, SentIsTyped
<1>10. CASE Stop
  BY <1>0, <1>3, <1>10, StopIsTyped DEF Client
<1>11. CASE Stopped
  <2> DEFINE r == stop.session
             w == Written(cache, pendingTask(r), 0)
  <2>1. /\ UNCHANGED <<server, sends, wire>> /\ Safe({messages(r)}, TRUE) /\ CacheOK(server, w)
        /\ Rendered(AfterStopped(r), marks)
    BY <1>11, StoppedIsTyped
  <2>2. w[k] = cache[k]
    BY <1>0, Untouched
  <2>3. AfterStopped(r) = Invalidated(w, {messages(r)})
    BY DEF AfterStopped
  <2> HIDE DEF w, r
  <2>4. CacheOK(server, AfterStopped(r))
    BY <1>0, <2>1, <2>3, InvalidatedIsOK
  <2>5. AfterStopped(r)[k] = cache[k] \/ \A v : Current(AfterStopped(r)[k], v)
    BY <1>0, <2>1, <2>2, <2>3, InvalidatedOrNot
  <2> QED
    BY <1>1, <1>3, <2>1, <2>4, <2>5
<1>12. ASSUME NEW m \in Marks, NEW ok \in BOOLEAN, Marked(m, ok)
       PROVE  Goal
  <2> DEFINE w == Written(cache, sessions, marks[m].saved)
  <2>1. /\ UNCHANGED <<server, sends, wire>>
        /\ \E c : /\ c = cache \/ c = w
                  /\ CacheOK(server, c) /\ Rendered(Invalidated(c, {sessions}), Unmarked(m))
    BY <1>12, MarkedIsTyped
  <2>2. w[k] = cache[k]
    BY <1>0, Untouched
  <2> HIDE DEF w
  <2>3. PICK c : /\ c = cache \/ c = w
                 /\ CacheOK(server, c) /\ Rendered(Invalidated(c, {sessions}), Unmarked(m))
    BY <2>1
  <2>4. CacheOK(server, Invalidated(c, {sessions})) /\ Invalidated(c, {sessions})[k] = cache[k]
    BY <1>0, <2>2, <2>3, InvalidatedIsOK, Untouched
  <2> QED
    BY <1>1, <1>3, <2>1, <2>3, <2>4
<1>13. CASE Deliver
  <2> DEFINE e == Head(wire)
             K == InvalidatedBy(e)
  <2>1. /\ UNCHANGED <<server, sends>> /\ wire # <<>> /\ wire' = Tail(wire) /\ Sound(server, e)
        /\ Safe(K, TRUE) /\ CacheOK(server, Reset(e)) /\ Rendered(AfterEvent(e), marks)
    BY <1>13, DeliverIsTyped
  <2>2. ASSUME k \notin K, MessagesAwaited(s)
        PROVE  MessagesAwaited(s)'
    <3>1. Announced(k) => Announced(k)'
      BY <2>1, <2>2, DeliveryKeeps
    <3> QED
      BY <2>1, <2>2, <3>1 DEF MessagesAwaited, Sending, k
  <2>5. k \in K => e.type # "task:message"
    <3> HIDE DEF e
    <3> QED
      BY EventKeys DEF k
  <2> HIDE DEF e, K
  <2>3. Reset(e)[k] = cache[k] /\ Reported(cache, e)[k] = cache[k]
    BY <1>0, Untouched DEF Reset, Reported
  <2>4. CacheOK(server, AfterEvent(e))
    BY <1>0, <2>1, EventIsOK
  <2>6. ASSUME e.type # "task:message"
        PROVE  AfterEvent(e) = Invalidated(Reset(e), K)
    BY <2>6 DEF AfterEvent, K, e
  <2>7. CASE k \in K
    <3>1. \A v : Current(Invalidated(Reset(e), K)[k], v)
      BY <1>0, <2>1, <2>3, <2>7, InvalidatedIsCurrent
    <3> QED
      BY <1>1, <2>1, <2>4, <2>5, <2>6, <2>7, <3>1
  <2>8. CASE k \notin K
    <3>1. AfterEvent(e)[k] = cache[k]
      BY <1>0, <2>3, <2>6, <2>8, Untouched DEF AfterEvent
    <3> QED
      BY <1>1, <2>1, <2>2, <2>4, <2>8, <3>1
  <2> QED
    BY <2>7, <2>8
<1>14. ASSUME NEW j \in Keys, ServerReads(j) \/ Arrive(j) \/ Lose(j)
       PROVE  Goal
  <2>1. UNCHANGED <<server, sends, wire>>
    BY <1>14, FetchIsTyped
  <2>2. Fresh => Current(cache'[k], View(server, k))
    BY <1>0, <1>14, FetchStaysCurrent
  <2> QED
    BY <1>0, <1>3, <2>1, <2>2
<1>15. CASE CancelTask
  <2>1. UNCHANGED <<cache, sends, wire>> /\ stop.task \in TaskIds /\ server'.said = server.said
        /\ \/ UNCHANGED server
           \/ server.tasks[stop.task].st = "live" /\ Turned(stop.task, "over")
    BY <1>0, <1>15, CancelTaskIsTyped, CancelTurns DEF Client, ServerType
  <2>2. CASE UNCHANGED server
    BY <1>0, <1>3, <2>1, <2>2
  <2>3. CASE server.tasks[stop.task].st = "live" /\ Turned(stop.task, "over")
    <3>1. AnsweredIn(server', s) = AnsweredIn(server, s)
      BY <2>1, <2>3, TurnedTasks
    <3> QED
      BY <1>2, <1>3, <2>1, <3>1
  <2> QED
    BY <2>1, <2>2, <2>3
<1>16. ASSUME NEW m \in Marks, MarkRead(m)
       PROVE  Goal
  <2> DEFINE e == Event("chat:session_read", marks[m].session, None)
  <2>1. /\ UNCHANGED <<cache, sends>> /\ server'.said = server.said /\ server'.tasks = server.tasks
        /\ Publish(<<e>>) /\ marks[m] # None
    BY <1>0, <1>16, MarkReadIsTyped DEF Client, ServerType
  <2>2. marks[m].session \in Sessions
    BY <2>1 DEF Typed, MarksOK, Mark
  <2>3. e \in EventType
    BY <2>2, EventIsTyped DEF EventNames
  <2> HIDE DEF e
  <2>4. MessagesAwaited(s) => MessagesAwaited(s)'
    BY <1>0, <2>1, <2>3, EventAnnounces DEF MessagesAwaited, Sending
  <2> QED
    BY <1>2, <2>1, <2>4 DEF AnsweredIn
<1>17. ASSUME NEW n \in Sends, NEW r \in Sessions, CreateSession(n, r)
       PROVE  Goal
  <2>1. /\ UNCHANGED <<cache, wire>> /\ server'.said = server.said /\ server'.tasks = server.tasks
        /\ sends[n].phase = "creating"
        /\ sends' = [sends EXCEPT ![n].session = r, ![n].phase = "created"]
    BY <1>0, <1>17, CreateSessionIsTyped DEF Client, ServerType
  <2>2. \A m \in Sends \ {n} : sends'[m] = sends[m]
    BY <2>1, PhaseStep
  <2>3. MessagesAwaited(s) => MessagesAwaited(s)'
    BY <1>4, <2>1, <2>2
  <2> QED
    BY <1>2, <2>1, <2>3 DEF AnsweredIn
<1>18. ASSUME NEW n \in Sends, NEW r \in Sessions, SendMessage(n, r)
       PROVE  Goal
  <2> DEFINE e == Event("chat:message", r, Len(server.tasks) + 1)
  <2>1. /\ UNCHANGED cache /\ Joined(server, r) /\ Publish(<<e>>)
        /\ server'.said = [server.said EXCEPT ![n] = r]
        /\ (sends[n].phase = "sending" /\ sends[n].session = r) \/ sends[n].phase = "unsent"
        /\ \A m \in Sends \ {n} : sends'[m] = sends[m]
    BY <1>18, SendMessageIsTyped DEF Client
  <2>2. Typed' /\ Len(server.tasks) + 1 \in Tasks
    BY <1>18, SentTaskIsNamed
  <2>3. e \in EventType
    BY <2>2, EventIsTyped DEF EventNames
  <2>4. Announced(k) => Announced(k)'
    <3> HIDE DEF e
    <3> QED
      BY <1>0, <2>1, <2>3, EventAnnounces
  <2>5. CASE r = s
    <3>1. k \in InvalidatedBy(e)
      BY <2>5, EventKeys DEF k
    <3> HIDE DEF e
    <3>2. Announced(k)'
      BY <1>0, <2>1, <2>3, <3>1, EventAnnounces
    <3> QED
      BY <3>2 DEF MessagesAwaited, k
  <2>6. CASE r # s
    <3>1. MessagesAwaited(s) => MessagesAwaited(s)'
      BY <2>1, <2>4, <2>6 DEF MessagesAwaited, Sending, k
    <3>2. server.said[n] = None
      BY <2>1 DEF Unechoed, SaidOnce
    <3>3. \A m \in Sends : server'.said[m] = s <=> server.said[m] = s
      BY <1>0, <2>1, <2>6, <3>2, NoneIsNothing DEF ServerType
    <3>4. AnsweredIn(server', s) = AnsweredIn(server, s)
      BY <2>1, JoinedTasks
    <3> QED
      BY <1>2, <2>1, <3>1, <3>3, <3>4
  <2> QED
    BY <2>5, <2>6
<1>19. ASSUME NEW t \in TaskIds, NEW how \in {"completed", "failed", "swept", "cancelled"},
              End(t, how)
       PROVE  Goal
  <2>1. /\ Agents /\ server.tasks[t].st = "live" /\ Ends(t, how)
        /\ how = "failed" => Publish(<<Event("task:failed", server.tasks[t].session, t)>>)
        /\ how = "swept" => Publish(<<Event("task:failed", None, t)>>)
        /\ how \in {"completed", "cancelled"} => UNCHANGED wire
    BY <1>19, EndIsTyped
  <2>2. t \in Tasks /\ server.tasks[t].session \in Sessions
    BY TasksAreNamed
  <2>3. ASSUME NEW x \in Sessions \cup {None}, Publish(<<Event("task:failed", x, t)>>)
        PROVE  Announced(k) => Announced(k)'
    <3> DEFINE e == Event("task:failed", x, t)
    <3>1. e \in EventType
      BY <2>2, EventIsTyped DEF EventNames
    <3>2. Publish(<<e>>)
      BY <2>3
    <3> HIDE DEF e
    <3> QED
      BY <1>0, <3>1, <3>2, EventAnnounces
  <2>4. Announced(k) => Announced(k)'
    BY <1>19, <2>1, <2>2, <2>3 DEF Announced
  <2>5. MessagesAwaited(s) => MessagesAwaited(s)'
    BY <2>1, <2>4 DEF Agents, MessagesAwaited, Sending, k
  <2>6. PICK st \in {"completed", "over"} : Ended(t, st)
    BY <2>1 DEF Ends
  <2>7. AnsweredIn(server', s) = AnsweredIn(server, s)
    BY <2>1, <2>6, EndedTurns, TurnedTasks
  <2> QED
    BY <1>2, <2>1, <2>5, <2>7 DEF Agents, Client
<1>20. ASSUME NEW t \in TaskIds, NEW empty \in BOOLEAN, Reply(t, empty)
       PROVE  Goal
  <2> DEFINE r == server.tasks[t].session
             e == Event("chat:done", r, t)
             f == Event("task:completed", r, t)
  <2>1. Agents /\ server.tasks[t].st = "completed" /\ Publish(<<e, f>>)
    BY <1>20, ReplyIsTyped
  <2>2. PICK st \in {"answered", "over"} : Turned(t, st)
    BY <1>20, ReplyTurns
  <2>3. r \in Sessions /\ t \in Tasks
    BY TasksAreNamed
  <2>4. e \in EventType /\ f \in EventType
    BY <2>3, EventIsTyped DEF EventNames
  <2>5. r = s => k \in InvalidatedBy(e)
    BY EventKeys DEF k
  <2> HIDE DEF e, f, r
  <2>6. <<e, f>> \in Seq(EventType) /\ 1 \in DOMAIN <<e, f>> /\ <<e, f>>[1] = e
    BY <2>4
  <2>7. Announced(k) => Announced(k)'
    BY <1>0, <2>1, <2>6, PublishAnnounces
  <2>8. k \in InvalidatedBy(<<e, f>>[1]) => Announced(k)'
    BY <1>0, <2>1, <2>6, PublishAnnounces
  <2>9. CASE r = s
    BY <2>5, <2>6, <2>8, <2>9 DEF MessagesAwaited, k
  <2>10. CASE r # s
    <3>1. MessagesAwaited(s) => MessagesAwaited(s)'
      BY <2>1, <2>7 DEF Agents, MessagesAwaited, Sending, k
    <3>2. AnsweredIn(server', s) = AnsweredIn(server, s)
      BY <2>2, <2>10, TurnedTasks DEF r
    <3> QED
      BY <1>2, <2>1, <3>1, <3>2 DEF Agents, Client
  <2> QED
    BY <2>9, <2>10
<1>21. ASSUME NEW t \in TaskIds, Report(t)
       PROVE  Goal
  <2>1. /\ Agents /\ Publish(<<ReportEvent(t)>>)
        /\ Changed(server', t, [server.tasks[t] EXCEPT !.steps = @ + 1])
    BY <1>21, ReportIsTyped
  <2>2. ReportEvent(t) \in EventType
    BY ReportEventIsTyped
  <2>3. Announced(k) => Announced(k)'
    BY <1>0, <2>1, <2>2, EventAnnounces
  <2>4. MessagesAwaited(s) => MessagesAwaited(s)'
    BY <2>1, <2>3 DEF Agents, MessagesAwaited, Sending, k
  <2>5. AnsweredIn(server', s) = AnsweredIn(server, s)
    BY <2>1, ReportedTasks
  <2> QED
    BY <1>2, <2>1, <2>4, <2>5 DEF Agents, Client
<1> QED
  BY <1>5, <1>6, <1>7, <1>8, <1>9, <1>10, <1>11, <1>12, <1>13, <1>14, <1>15, <1>16, <1>17,
     <1>18, <1>19, <1>20, <1>21 DEF Next, Progress, k

-----------------------------------------------------------------------------
(* The pending task of a session *)

\* What will reset the pending task, or has it asked for anew.
CompletedIn(s) == \E t \in TaskIds : server.tasks[t].session = s /\ server.tasks[t].st = "completed"
Stopping(s) == stop # None /\ stop.session = s
PendingAwaited(s) == Announced(pendingTask(s)) \/ Stopping(s) \/ CompletedIn(s)
PendingInv ==
    \A s \in Sessions : pendingTask(s) \in Keys =>
        PendingAwaited(s) \/ Current(cache[pendingTask(s)], View(server, pendingTask(s)))

LEMMA PendingViewStays ==
    ASSUME NEW old, NEW new, NEW s, LiveIn(new, s) = LiveIn(old, s)
    PROVE  View(new, pendingTask(s)) = View(old, pendingTask(s))
PROOF
<1>1. ASSUME NEW srv
      PROVE  View(srv, pendingTask(s)) = Latest(LiveIn(srv, s))
  BY ViewKinds
<1> QED
  BY <1>1

LEMMA CompletedStays ==
    ASSUME Typed, NEW s, CompletedIn(s)
    PROVE  /\ UNCHANGED server => CompletedIn(s)'
           /\ UNCHANGED server.tasks => CompletedIn(s)'
           /\ \A t \in TaskIds : \A st :
                 /\ Turned(t, st) /\ server.tasks[t].st = "live" => CompletedIn(s)'
                 /\ Turned(t, st) /\ server.tasks[t].session # s => CompletedIn(s)'
           /\ \A r : Joined(server, r) => CompletedIn(s)'
           /\ \A t \in TaskIds :
                 Changed(server', t, [server.tasks[t] EXCEPT !.steps = @ + 1]) => CompletedIn(s)'
PROOF
<1>1. PICK u \in TaskIds : server.tasks[u].session = s /\ server.tasks[u].st = "completed"
  BY DEF CompletedIn
<1>2. ASSUME u \in DOMAIN server'.tasks, server'.tasks[u].session = server.tasks[u].session,
             server'.tasks[u].st = server.tasks[u].st
      PROVE  CompletedIn(s)'
  BY <1>1, <1>2 DEF CompletedIn, TaskIds
<1>3. ASSUME NEW t \in TaskIds, NEW st, Turned(t, st), u # t
      PROVE  CompletedIn(s)'
  BY <1>1, <1>2, <1>3 DEF Turned
<1>4. ASSUME NEW r, Joined(server, r)
      PROVE  CompletedIn(s)'
  BY <1>1, <1>2, <1>4 DEF Joined
<1>5. ASSUME NEW t \in TaskIds, Changed(server', t, [server.tasks[t] EXCEPT !.steps = @ + 1])
      PROVE  CompletedIn(s)'
  <2>1. /\ DOMAIN server'.tasks = TaskIds
        /\ server'.tasks[u].session = server.tasks[u].session
        /\ server'.tasks[u].st = server.tasks[u].st
    BY <1>1, <1>5, ReportedTask
  <2> QED
    BY <1>1, <1>2, <2>1
<1>6. ASSUME server'.tasks = server.tasks
      PROVE  CompletedIn(s)'
  BY <1>1, <1>2, <1>6 DEF TaskIds
<1>7. ASSUME NEW t \in TaskIds, NEW st, Turned(t, st),
             server.tasks[t].st = "live" \/ server.tasks[t].session # s
      PROVE  CompletedIn(s)'
  BY <1>1, <1>3, <1>7
<1> QED
  BY <1>4, <1>5, <1>6, <1>7

LEMMA PendingStaysFresh ==
    ASSUME Typed, PendingInv, [Next]_vars,
           Races \cap {"missed", "overtaken", "late", "swept", "cancelled"} = {}
    PROVE  PendingInv'
PROOF
<1> SUFFICES ASSUME NEW s \in Sessions, pendingTask(s) \in Keys
             PROVE  \/ PendingAwaited(s)'
                    \/ Current(cache'[pendingTask(s)], View(server', pendingTask(s)))
  BY DEF PendingInv
<1> DEFINE k == pendingTask(s)
           Fresh == Current(cache[k], View(server, k))
           Goal == PendingAwaited(s)' \/ Current(cache'[k], View(server', k))
<1>0. /\ ServerOK /\ CacheOK(server, cache) /\ server \in ServerType /\ k \in Keys /\ k # sessions
      /\ "missed" \notin Races /\ "overtaken" \notin Races /\ "late" \notin Races
      /\ "swept" \notin Races /\ "cancelled" \notin Races
      /\ PendingAwaited(s) \/ Fresh
      /\ \A r : k # messages(r) /\ k # taskMessages(r) /\ (k = pendingTask(r) => r = s)
  BY KeysDiffer DEF Typed, ServerOK, PendingInv
<1>00. \A v : InTime(s, v) => v = View(server, k) \/ Announced(k)
  BY <1>0, EventKeys DEF InTime, Coming, Announced
<1> HIDE DEF k
<1> SUFFICES Goal
  BY DEF k
<1>1. ASSUME UNCHANGED server, NEW c, CacheOK(server, c), NEW ms, Rendered(c, ms),
             \/ c[k] = cache[k] /\ (PendingAwaited(s) => PendingAwaited(s)')
             \/ Current(c[k], View(server, k))
             \/ PendingAwaited(s)'
      PROVE  Goal
  BY <1>0, <1>1, RenderedStaysCurrent
<1>2. ASSUME UNCHANGED cache, PendingAwaited(s) => PendingAwaited(s)',
             LiveIn(server', s) = LiveIn(server, s)
      PROVE  Goal
  <2>1. View(server', k) = View(server, k)
    BY <1>2, PendingViewStays DEF k
  <2> QED
    BY <1>0, <1>2, <2>1
<1>3. ASSUME UNCHANGED <<wire, stop>>, CompletedIn(s) => CompletedIn(s)'
      PROVE  PendingAwaited(s) => PendingAwaited(s)'
  BY <1>3 DEF PendingAwaited, Announced, Stopping
<1>4. ASSUME UNCHANGED <<server, wire, stop>>
      PROVE  PendingAwaited(s) => PendingAwaited(s)'
  BY <1>3, <1>4, CompletedStays
<1>5. CASE UNCHANGED vars
  BY <1>0, <1>4, <1>5 DEF vars
<1>6. CASE Toggle \/ NewChat \/ \E r \in Sessions : SelectSession(r)
  BY <1>0, <1>1, <1>4, <1>6, LookingIsTyped
<1>7. ASSUME NEW n \in Sends, Send(n)
      PROVE  Goal
  <2>1. UNCHANGED <<server, wire, stop>>
        /\ (Rendered(cache, marks) \/ Rendered(Optimistic(cache, activeSessionId, n), marks))
    BY <1>7, SendIsTyped
  <2>2. CacheOK(server, Optimistic(cache, activeSessionId, n))
    BY <1>0, OptimisticIsOK
  <2>3. Optimistic(cache, activeSessionId, n)[k] = cache[k]
    BY <1>0, Untouched
  <2> QED
    BY <1>0, <1>1, <1>4, <2>1, <2>2, <2>3
<1>8. ASSUME NEW n \in Sends, NEW ok \in BOOLEAN, Created(n, ok)
      PROVE  Goal
  <2> DEFINE c == Invalidated(cache, {sessions})
             d == Optimistic(c, sends[n].session, n)
  <2>1. UNCHANGED <<server, wire, stop>> /\ (Rendered(c, marks) \/ Rendered(d, marks))
    BY <1>8, CreatedIsTyped
  <2>2. CacheOK(server, c) /\ c[k] = cache[k]
    BY <1>0, InvalidatedIsOK, Untouched
  <2> HIDE DEF c
  <2>3. CacheOK(server, d) /\ d[k] = c[k]
    BY <1>0, <2>2, OptimisticIsOK, Untouched
  <2> HIDE DEF d
  <2> QED
    BY <1>1, <1>4, <2>1, <2>2, <2>3
<1>9. ASSUME NEW n \in Sends, NEW ok \in BOOLEAN, Sent(n, ok)
      PROVE  Goal
  <2> DEFINE r == sends[n].session
             w == Seeded(cache, n)
             x == sends[n].task
  <2>1. UNCHANGED <<server, wire, stop>>
    BY <1>9, SentIsTyped
  <2>2. PendingAwaited(s) => PendingAwaited(s)'
    BY <1>4, <2>1
  <2>3. CASE Rendered(cache, marks)
    BY <1>0, <1>1, <2>1, <2>2, <2>3
  <2>4. CASE /\ InTime(r, x) /\ Safe({pendingTask(r)}, FALSE) /\ CacheOK(server, w)
             /\ Rendered(AfterSent(n), marks)
    <3>1. w = Written(cache, pendingTask(r), x)
      BY DEF Seeded
    <3>2. AfterSent(n) = Invalidated(w, {messages(r)})
      BY DEF AfterSent
    <3> HIDE DEF w, r, x
    <3>3. CacheOK(server, AfterSent(n)) /\ AfterSent(n)[k] = w[k]
      BY <1>0, <2>4, <3>2, InvalidatedIsOK, Untouched
    <3>4. CASE r = s
      <4>1. x = View(server, k) \/ Announced(k)
        BY <1>00, <2>4, <3>4
      <4>2. Current(Written(cache, k, x)[k], x)
        BY <1>0, <2>4, <3>4, WrittenIsCurrent DEF k
      <4>3. Announced(k) => PendingAwaited(s)'
        BY <2>2 DEF PendingAwaited, k
      <4>4. w = Written(cache, k, x)
        BY <3>1, <3>4 DEF k
      <4> QED
        BY <1>1, <2>1, <2>4, <3>3, <4>1, <4>2, <4>3, <4>4
    <3>5. CASE r # s
      <4>1. w[k] = cache[k]
        BY <1>0, <3>1, <3>5, Untouched
      <4> QED
        BY <1>1, <2>1, <2>2, <2>4, <3>3, <4>1
    <3> QED
      BY <3>4, <3>5
  <2> QED
    BY <1>9, <2>3, <2>4, SentIsTyped
<1>10. CASE Stop
  <2>1. UNCHANGED <<server, cache, wire>> /\ stop = None
    BY <1>10, StopIsTyped DEF Client, Stop
  <2>2. PendingAwaited(s) => PendingAwaited(s)'
    <3>1. CompletedIn(s) => CompletedIn(s)'
      BY <2>1, CompletedStays
    <3> QED
      BY <2>1, <3>1 DEF PendingAwaited, Announced, Stopping
  <2> QED
    BY <1>2, <2>1, <2>2
<1>11. CASE Stopped
  <2> DEFINE r == stop.session
             w == Written(cache, pendingTask(r), 0)
  <2>1. /\ UNCHANGED <<server, wire>> /\ InTime(r, 0) /\ Safe({pendingTask(r)}, FALSE)
        /\ CacheOK(server, w) /\ Rendered(AfterStopped(r), marks)
    BY <1>11, StoppedIsTyped
  <2>2. /\ Announced(k) => Announced(k)'
        /\ CompletedIn(s) => CompletedIn(s)'
    BY <2>1, CompletedStays DEF Announced
  <2>3. AfterStopped(r) = Invalidated(w, {messages(r)})
    BY DEF AfterStopped
  <2>4. CASE r = s
    <3>1. 0 = View(server, k) \/ Announced(k)
      BY <1>00, <2>1, <2>4
    <3>2. Current(Written(cache, k, 0)[k], 0)
      BY <1>0, <2>1, <2>4, WrittenIsCurrent DEF k
    <3>3. w = Written(cache, k, 0)
      BY <2>4 DEF k
    <3> HIDE DEF w, r
    <3>4. CacheOK(server, AfterStopped(r)) /\ AfterStopped(r)[k] = w[k]
      BY <1>0, <2>1, <2>3, InvalidatedIsOK, Untouched
    <3>5. Announced(k) => PendingAwaited(s)'
      BY <2>2 DEF PendingAwaited, k
    <3> QED
      BY <1>1, <2>1, <3>1, <3>2, <3>3, <3>4, <3>5
  <2>5. CASE r # s
    <3>1. PendingAwaited(s) => PendingAwaited(s)'
      BY <2>2, <2>5 DEF PendingAwaited, Stopping, k
    <3>2. w[k] = cache[k]
      BY <1>0, <2>5, Untouched
    <3> HIDE DEF w, r
    <3>4. CacheOK(server, AfterStopped(r)) /\ AfterStopped(r)[k] = w[k]
      BY <1>0, <2>1, <2>3, InvalidatedIsOK, Untouched
    <3> QED
      BY <1>1, <2>1, <3>1, <3>2, <3>4
  <2> QED
    BY <2>4, <2>5
<1>12. ASSUME NEW m \in Marks, NEW ok \in BOOLEAN, Marked(m, ok)
       PROVE  Goal
  <2> DEFINE w == Written(cache, sessions, marks[m].saved)
  <2>1. /\ UNCHANGED <<server, stop, wire>>
        /\ \E c : /\ c = cache \/ c = w
                  /\ CacheOK(server, c) /\ Rendered(Invalidated(c, {sessions}), Unmarked(m))
    BY <1>12, MarkedIsTyped
  <2>2. w[k] = cache[k]
    BY <1>0, Untouched
  <2> HIDE DEF w
  <2>3. PICK c : /\ c = cache \/ c = w
                 /\ CacheOK(server, c) /\ Rendered(Invalidated(c, {sessions}), Unmarked(m))
    BY <2>1
  <2>4. CacheOK(server, Invalidated(c, {sessions})) /\ Invalidated(c, {sessions})[k] = cache[k]
    BY <1>0, <2>2, <2>3, InvalidatedIsOK, Untouched
  <2> QED
    BY <1>1, <1>4, <2>1, <2>3, <2>4
<1>13. CASE Deliver
  <2> DEFINE e == Head(wire)
             K == InvalidatedBy(e)
  <2>1. /\ UNCHANGED <<server, stop>> /\ wire # <<>> /\ wire' = Tail(wire) /\ Sound(server, e)
        /\ Safe(K, TRUE) /\ CacheOK(server, Reset(e)) /\ Rendered(AfterEvent(e), marks)
    BY <1>13, DeliverIsTyped
  <2>2. ASSUME k \notin K, PendingAwaited(s)
        PROVE  PendingAwaited(s)'
    <3>1. Announced(k) => Announced(k)'
      BY <2>1, <2>2, DeliveryKeeps
    <3>2. CompletedIn(s) => CompletedIn(s)'
      BY <2>1, CompletedStays
    <3> QED
      BY <2>1, <2>2, <3>1, <3>2 DEF PendingAwaited, Stopping, k
  <2> HIDE DEF e
  <2>3. k \in K <=> e.type \in Refreshing /\ e.session = s
    BY EventKeys DEF k
  <2> HIDE DEF K
  <2>4. CacheOK(server, AfterEvent(e))
    BY <1>0, <2>1, EventIsOK
  <2>5. ASSUME e.type # "task:message"
        PROVE  AfterEvent(e) = Invalidated(Reset(e), K)
    BY <2>5 DEF AfterEvent, K
  <2>6. CASE k \in K
    <3>1. e.type # "task:message"
      BY <2>3, <2>6 DEF Refreshing
    <3>2. Reset(e) = cache \/ Reset(e) = Written(cache, k, 0)
      BY <2>3, <2>6 DEF Reset, k
    <3>3. Written(cache, k, 0)[k] = Put(cache[k], 0)
      BY <1>0 DEF Written, CacheOK
    <3>4. Put(cache[k], 0).fetch = cache[k].fetch /\ Put(cache[k], 0).data = 0 /\ None # 0
      <4>1. WellFormed(cache[k], Known(server, k)) /\ Apart(Known(server, k))
        BY <1>0, EntryIsTyped
      <4>2. 0 \in Known(server, k)
        BY ZeroIsKnown DEF k
      <4> QED
        BY <4>1, <4>2 DEF Put, WellFormed, EntryOf, Apart
    <3>5. Reset(e)[k].fetch = cache[k].fetch /\ (HasData(cache[k]) => HasData(Reset(e)[k]))
      BY <3>2, <3>3, <3>4 DEF HasData
    <3>6. \A v : Current(Invalidated(Reset(e), K)[k], v)
      BY <1>0, <2>1, <2>6, <3>5, InvalidatedIsCurrent
    <3> QED
      BY <1>1, <2>1, <2>4, <2>5, <3>1, <3>6
  <2>7. CASE k \notin K
    <3>1. Reset(e)[k] = cache[k] /\ Reported(cache, e)[k] = cache[k]
      BY <1>0, <2>3, <2>7, Untouched DEF Reset, Reported
    <3>2. AfterEvent(e)[k] = cache[k]
      BY <1>0, <2>5, <2>7, <3>1, Untouched DEF AfterEvent
    <3> QED
      BY <1>1, <2>1, <2>2, <2>4, <2>7, <3>2
  <2> QED
    BY <2>6, <2>7
<1>14. ASSUME NEW j \in Keys, ServerReads(j) \/ Arrive(j) \/ Lose(j)
       PROVE  Goal
  <2>1. UNCHANGED <<server, stop, wire>>
    BY <1>14, FetchIsTyped
  <2>2. Fresh => Current(cache'[k], View(server, k))
    BY <1>0, <1>14, FetchStaysCurrent
  <2> QED
    BY <1>0, <1>4, <2>1, <2>2
<1>15. CASE CancelTask
  <2>1. /\ UNCHANGED <<cache, wire>> /\ stop # None /\ stop' # None /\ stop'.session = stop.session
        /\ stop.task \in TaskIds /\ server.tasks[stop.task].session = stop.session
        /\ \/ UNCHANGED server
           \/ server.tasks[stop.task].st = "live" /\ Turned(stop.task, "over")
    BY <1>15, CancelTaskIsTyped, CancelTurns DEF Client
  <2>2. CASE stop.session = s
    BY <2>1, <2>2 DEF PendingAwaited, Stopping
  <2>3. CASE stop.session # s
    <3>1. LiveIn(server', s) = LiveIn(server, s)
      BY <2>1, <2>3, TurnedTasks
    <3>2. CompletedIn(s) => CompletedIn(s)'
      BY <2>1, CompletedStays
    <3>3. PendingAwaited(s) => PendingAwaited(s)'
      BY <2>1, <3>2 DEF PendingAwaited, Stopping, Announced
    <3> QED
      BY <1>2, <2>1, <3>1, <3>3
  <2> QED
    BY <2>2, <2>3
<1>16. ASSUME NEW m \in Marks, MarkRead(m)
       PROVE  Goal
  <2> DEFINE e == Event("chat:session_read", marks[m].session, None)
  <2>1. /\ UNCHANGED <<cache, stop>> /\ server'.tasks = server.tasks
        /\ Publish(<<e>>) /\ marks[m] # None
    BY <1>0, <1>16, MarkReadIsTyped DEF Client, ServerType
  <2>2. marks[m].session \in Sessions
    BY <2>1 DEF Typed, MarksOK, Mark
  <2>3. e \in EventType
    BY <2>2, EventIsTyped DEF EventNames
  <2> HIDE DEF e
  <2>4. Announced(k) => Announced(k)'
    BY <1>0, <2>1, <2>3, EventAnnounces
  <2>5. PendingAwaited(s) => PendingAwaited(s)'
    BY <2>1, <2>4, CompletedStays DEF PendingAwaited, Stopping, k
  <2> QED
    BY <1>2, <2>1, <2>5 DEF LiveIn
<1>17. ASSUME NEW n \in Sends, NEW r \in Sessions, CreateSession(n, r)
       PROVE  Goal
  <2>1. UNCHANGED <<cache, stop, wire>> /\ server'.tasks = server.tasks
    BY <1>0, <1>17, CreateSessionIsTyped DEF Client, ServerType
  <2>2. PendingAwaited(s) => PendingAwaited(s)'
    BY <1>3, <2>1, CompletedStays
  <2> QED
    BY <1>2, <2>1, <2>2 DEF LiveIn
<1>18. ASSUME NEW n \in Sends, NEW r \in Sessions, SendMessage(n, r)
       PROVE  Goal
  <2> DEFINE e == Event("chat:message", r, Len(server.tasks) + 1)
  <2>1. UNCHANGED <<cache, stop>> /\ Joined(server, r) /\ Publish(<<e>>)
    BY <1>18, SendMessageIsTyped DEF Client
  <2>2. Typed' /\ Len(server.tasks) + 1 \in Tasks
    BY <1>18, SentTaskIsNamed
  <2>3. e \in EventType
    BY <2>2, EventIsTyped DEF EventNames
  <2>4. r = s => k \in InvalidatedBy(e)
    BY EventKeys DEF k
  <2> HIDE DEF e
  <2>5. (Announced(k) => Announced(k)') /\ (k \in InvalidatedBy(e) => Announced(k)')
    BY <1>0, <2>1, <2>3, EventAnnounces
  <2>6. CASE r = s
    BY <2>4, <2>5, <2>6 DEF PendingAwaited, k
  <2>7. CASE r # s
    <3>1. PendingAwaited(s) => PendingAwaited(s)'
      BY <2>1, <2>5, CompletedStays DEF PendingAwaited, Stopping, k
    <3>2. LiveIn(server', s) = LiveIn(server, s)
      BY <2>1, <2>7, JoinedTasks
    <3> QED
      BY <1>2, <2>1, <3>1, <3>2
  <2> QED
    BY <2>6, <2>7
<1>19. ASSUME NEW t \in TaskIds, NEW how \in {"completed", "failed", "swept", "cancelled"},
              End(t, how)
       PROVE  Goal
  <2> DEFINE r == server.tasks[t].session
  <2>1. /\ Agents /\ server.tasks[t].st = "live" /\ Ends(t, how) /\ how \in {"completed", "failed"}
        /\ how = "failed" => Publish(<<Event("task:failed", r, t)>>)
        /\ how = "completed" => UNCHANGED wire
    BY <1>0, <1>19, EndIsTyped
  <2>2. t \in Tasks /\ r \in Sessions
    BY TasksAreNamed
  <2>3. PICK st \in {"completed", "over"} : (st = "completed" <=> how = "completed") /\ Ended(t, st)
    BY <2>1 DEF Ends
  <2>4. Turned(t, st)
    BY <2>3, EndedTurns
  <2>5. CompletedIn(s) => CompletedIn(s)'
    BY <2>1, <2>4, CompletedStays
  <2>6. ASSUME how = "failed"
        PROVE  (Announced(k) => Announced(k)') /\ (r = s => Announced(k)')
    <3> DEFINE e == Event("task:failed", r, t)
    <3>1. e \in EventType /\ Publish(<<e>>)
      BY <2>1, <2>2, <2>6, EventIsTyped DEF EventNames
    <3>2. r = s => k \in InvalidatedBy(e)
      BY EventKeys DEF k
    <3> HIDE DEF e
    <3> QED
      BY <1>0, <3>1, <3>2, EventAnnounces
  <2>7. ASSUME how = "completed", r = s
        PROVE  CompletedIn(s)'
    BY <2>3, <2>4, <2>7 DEF CompletedIn, Turned, TaskIds
  <2>8. CASE r = s
    BY <2>1, <2>6, <2>7, <2>8 DEF PendingAwaited, k
  <2>9. CASE r # s
    <3>1. Announced(k) => Announced(k)'
      BY <2>1, <2>6 DEF Announced
    <3>2. PendingAwaited(s) => PendingAwaited(s)'
      BY <2>1, <2>5, <3>1 DEF PendingAwaited, Stopping, Agents, k
    <3>3. LiveIn(server', s) = LiveIn(server, s)
      BY <2>4, <2>9, TurnedTasks
    <3> QED
      BY <1>2, <2>1, <3>2, <3>3 DEF Agents, Client
  <2> QED
    BY <2>8, <2>9
<1>20. ASSUME NEW t \in TaskIds, NEW empty \in BOOLEAN, Reply(t, empty)
       PROVE  Goal
  <2> DEFINE r == server.tasks[t].session
             e == Event("chat:done", r, t)
             f == Event("task:completed", r, t)
  <2>1. Agents /\ Publish(<<e, f>>)
    BY <1>20, ReplyIsTyped
  <2>2. PICK st \in {"answered", "over"} : Turned(t, st)
    BY <1>20, ReplyTurns
  <2>3. r \in Sessions /\ t \in Tasks
    BY TasksAreNamed
  <2>4. e \in EventType /\ f \in EventType
    BY <2>3, EventIsTyped DEF EventNames
  <2>5. r = s => k \in InvalidatedBy(e)
    BY EventKeys DEF k
  <2> HIDE DEF e, f, r
  <2>6. <<e, f>> \in Seq(EventType) /\ 1 \in DOMAIN <<e, f>> /\ <<e, f>>[1] = e
    BY <2>4
  <2>7. Announced(k) => Announced(k)'
    BY <1>0, <2>1, <2>6, PublishAnnounces
  <2>8. k \in InvalidatedBy(<<e, f>>[1]) => Announced(k)'
    BY <1>0, <2>1, <2>6, PublishAnnounces
  <2>9. CASE r = s
    BY <2>5, <2>6, <2>8, <2>9 DEF PendingAwaited, k
  <2>10. CASE r # s
    <3>1. CompletedIn(s) => CompletedIn(s)'
      BY <2>2, <2>10, CompletedStays DEF r
    <3>2. PendingAwaited(s) => PendingAwaited(s)'
      BY <2>1, <2>7, <3>1 DEF Agents, PendingAwaited, Stopping, k
    <3>3. LiveIn(server', s) = LiveIn(server, s)
      BY <2>2, <2>10, TurnedTasks DEF r
    <3> QED
      BY <1>2, <2>1, <3>2, <3>3 DEF Agents, Client
  <2> QED
    BY <2>9, <2>10
<1>21. ASSUME NEW t \in TaskIds, Report(t)
       PROVE  Goal
  <2>1. /\ Agents /\ Publish(<<ReportEvent(t)>>)
        /\ Changed(server', t, [server.tasks[t] EXCEPT !.steps = @ + 1])
    BY <1>21, ReportIsTyped
  <2>2. ReportEvent(t) \in EventType
    BY ReportEventIsTyped
  <2>3. Announced(k) => Announced(k)'
    BY <1>0, <2>1, <2>2, EventAnnounces
  <2>4. CompletedIn(s) => CompletedIn(s)'
    BY <2>1, CompletedStays
  <2>5. PendingAwaited(s) => PendingAwaited(s)'
    BY <2>1, <2>3, <2>4 DEF Agents, PendingAwaited, Stopping, k
  <2>6. LiveIn(server', s) = LiveIn(server, s)
    BY <2>1, ReportedTasks
  <2> QED
    BY <1>2, <2>1, <2>5, <2>6 DEF Agents, Client
<1> QED
  BY <1>5, <1>6, <1>7, <1>8, <1>9, <1>10, <1>11, <1>12, <1>13, <1>14, <1>15, <1>16, <1>17,
     <1>18, <1>19, <1>20, <1>21 DEF Next, Progress

-----------------------------------------------------------------------------
(* The badge *)

\* What will have the sessions fetched anew.
MarkAwaited == \E m \in Marks : marks[m] # None
CreatedOne == \E n \in Sends : sends[n].phase = "created"
BadgeAwaited == Announced(sessions) \/ MarkAwaited \/ CreatedOne
BadgeInv ==
    sessions \in Keys => BadgeAwaited \/ Current(cache[sessions], View(server, sessions))

LEMMA BadgeViewStays ==
    ASSUME NEW old, NEW new, new.exists = old.exists, new.unread = old.unread
    PROVE  View(new, sessions) = View(old, sessions)
PROOF
<1>1. ASSUME NEW srv
      PROVE  View(srv, sessions) = [s \in srv.exists |-> [has_unread |-> srv.unread[s]]]
  BY ViewKinds
<1> QED
  BY <1>1

LEMMA CreatedOneStays ==
    ASSUME Typed, CreatedOne, NEW n \in Sends, sends[n].phase # "created",
           \A m \in Sends \ {n} : sends'[m] = sends[m]
    PROVE  CreatedOne'
BY DEF CreatedOne

LEMMA BadgeStaysFresh ==
    ASSUME Typed, BadgeInv, [Next]_vars, Races \cap {"missed", "overtaken"} = {}
    PROVE  BadgeInv'
PROOF
<1> SUFFICES ASSUME sessions \in Keys
             PROVE  BadgeAwaited' \/ Current(cache'[sessions], View(server', sessions))
  BY DEF BadgeInv
<1> DEFINE Fresh == Current(cache[sessions], View(server, sessions))
           Goal == BadgeAwaited' \/ Current(cache'[sessions], View(server', sessions))
<1> SUFFICES Goal
  OBVIOUS
<1>0. /\ ServerOK /\ CacheOK(server, cache) /\ server \in ServerType
      /\ "missed" \notin Races /\ "overtaken" \notin Races
      /\ BadgeAwaited \/ Fresh
      /\ \A r : sessions # messages(r) /\ sessions # pendingTask(r) /\ sessions # taskMessages(r)
  BY KeysDiffer DEF Typed, ServerOK, BadgeInv
<1>1. ASSUME UNCHANGED server, NEW c, CacheOK(server, c), NEW ms, Rendered(c, ms),
             \/ c[sessions] = cache[sessions] /\ (BadgeAwaited => BadgeAwaited')
             \/ Current(c[sessions], View(server, sessions))
      PROVE  Goal
  <2>1. (\E m \in Marks : marks'[m] # None) => BadgeAwaited'
    BY DEF BadgeAwaited, MarkAwaited
  <2> QED
    BY <1>0, <1>1, <2>1, RenderedStaysCurrent
<1>2. ASSUME UNCHANGED cache, BadgeAwaited => BadgeAwaited',
             server'.exists = server.exists, server'.unread = server.unread
      PROVE  Goal
  <2>1. View(server', sessions) = View(server, sessions)
    BY <1>2, BadgeViewStays
  <2> QED
    BY <1>0, <1>2, <2>1
<1>3. ASSUME NEW c, Rendered(c, marks)
      PROVE  MarkAwaited => MarkAwaited'
  BY <1>3 DEF Rendered, MarkAwaited
<1>4. ASSUME NEW n \in Sends, sends[n].phase # "created",
             \A m \in Sends \ {n} : sends'[m] = sends[m]
      PROVE  CreatedOne => CreatedOne'
  BY <1>4, CreatedOneStays
<1>5. CASE UNCHANGED vars
  BY <1>0, <1>5 DEF vars, BadgeAwaited, Announced, MarkAwaited, CreatedOne
<1>6. CASE Toggle \/ NewChat \/ \E r \in Sessions : SelectSession(r)
  <2>1. UNCHANGED <<server, sends, wire>> /\ Rendered(cache, marks)
    BY <1>6, LookingIsTyped
  <2>2. BadgeAwaited => BadgeAwaited'
    BY <1>3, <2>1 DEF BadgeAwaited, Announced, CreatedOne
  <2> QED
    BY <1>0, <1>1, <2>1, <2>2
<1>7. ASSUME NEW n \in Sends, Send(n)
      PROVE  Goal
  <2> DEFINE d == Optimistic(cache, activeSessionId, n)
  <2>1. UNCHANGED <<server, wire>> /\ n \in Unsent
        /\ \/ Rendered(cache, marks) /\ sends' = [sends EXCEPT ![n].phase = "creating"]
           \/ /\ Rendered(d, marks)
              /\ sends' = [sends EXCEPT ![n].session = activeSessionId, ![n].phase = "sending"]
    BY <1>7, SendIsTyped
  <2>2. CacheOK(server, d) /\ d[sessions] = cache[sessions]
    BY <1>0, OptimisticIsOK, Untouched
  <2> HIDE DEF d
  <2>3. sends[n].phase # "created" /\ \A m \in Sends \ {n} : sends'[m] = sends[m]
    BY <2>1, PhaseStep DEF Unsent
  <2>4. BadgeAwaited => BadgeAwaited'
    BY <1>3, <1>4, <2>1, <2>3 DEF BadgeAwaited, Announced
  <2> QED
    BY <1>0, <1>1, <2>1, <2>2, <2>4
<1>8. ASSUME NEW n \in Sends, NEW ok \in BOOLEAN, Created(n, ok)
      PROVE  Goal
  <2> DEFINE c == Invalidated(cache, {sessions})
             d == Optimistic(c, sends[n].session, n)
  <2>1. UNCHANGED server /\ Safe({sessions}, TRUE) /\ (Rendered(c, marks) \/ Rendered(d, marks))
    BY <1>8, CreatedIsTyped
  <2>2. \A v : Current(c[sessions], v)
    BY <1>0, <2>1, InvalidatedIsCurrent
  <2>3. CacheOK(server, c)
    BY <1>0, InvalidatedIsOK
  <2> HIDE DEF c
  <2>4. CacheOK(server, d) /\ d[sessions] = c[sessions]
    BY <1>0, <2>3, OptimisticIsOK, Untouched
  <2> HIDE DEF d
  <2> QED
    BY <1>1, <2>1, <2>2, <2>3, <2>4
<1>9. ASSUME NEW n \in Sends, NEW ok \in BOOLEAN, Sent(n, ok)
      PROVE  Goal
  <2> DEFINE r == sends[n].session
             w == Seeded(cache, n)
  <2>1. /\ UNCHANGED <<server, wire>> /\ sends' = [sends EXCEPT ![n].phase = "over"]
        /\ sends[n].phase # "created"
        /\ \/ Rendered(cache, marks)
           \/ CacheOK(server, w) /\ Rendered(AfterSent(n), marks)
    BY <1>9, SentIsTyped
  <2>2. \A m \in Sends \ {n} : sends'[m] = sends[m]
    BY <2>1, PhaseStep
  <2>3. BadgeAwaited => BadgeAwaited'
    BY <1>3, <1>4, <2>1, <2>2 DEF BadgeAwaited, Announced
  <2>4. w = Written(cache, pendingTask(r), sends[n].task) /\ AfterSent(n) = Invalidated(w, {messages(r)})
    BY DEF Seeded, AfterSent
  <2>5. w[sessions] = cache[sessions]
    BY <1>0, <2>4, Untouched
  <2> HIDE DEF w, r
  <2>6. ASSUME CacheOK(server, w)
        PROVE  CacheOK(server, AfterSent(n)) /\ AfterSent(n)[sessions] = cache[sessions]
    BY <1>0, <2>4, <2>5, <2>6, InvalidatedIsOK, Untouched
  <2> QED
    BY <1>0, <1>1, <2>1, <2>3, <2>6
<1>10. CASE Stopped
  <2> DEFINE r == stop.session
             w == Written(cache, pendingTask(r), 0)
  <2>1. /\ UNCHANGED <<server, sends, wire>>
        /\ CacheOK(server, w) /\ Rendered(AfterStopped(r), marks)
    BY <1>10, StoppedIsTyped
  <2>2. BadgeAwaited => BadgeAwaited'
    BY <1>3, <2>1 DEF BadgeAwaited, Announced, CreatedOne
  <2>3. w[sessions] = cache[sessions] /\ AfterStopped(r) = Invalidated(w, {messages(r)})
    BY <1>0, Untouched DEF AfterStopped
  <2> HIDE DEF w, r
  <2>4. CacheOK(server, AfterStopped(r)) /\ AfterStopped(r)[sessions] = cache[sessions]
    BY <1>0, <2>1, <2>3, InvalidatedIsOK, Untouched
  <2> QED
    BY <1>1, <2>1, <2>2, <2>4
<1>11. CASE Stop
  <2>1. UNCHANGED <<server, cache, sends, marks, wire>>
    BY <1>11, StopIsTyped DEF Client
  <2> QED
    BY <1>2, <2>1 DEF BadgeAwaited, Announced, MarkAwaited, CreatedOne
<1>12. ASSUME NEW m \in Marks, NEW ok \in BOOLEAN, Marked(m, ok)
       PROVE  Goal
  <2> DEFINE w == Written(cache, sessions, marks[m].saved)
  <2>1. /\ UNCHANGED server /\ Safe({sessions}, TRUE)
        /\ \/ Rendered(Invalidated(cache, {sessions}), Unmarked(m))
           \/ /\ marks[m].saved \in Known(server, sessions)
              /\ CacheOK(server, w) /\ Rendered(Invalidated(w, {sessions}), Unmarked(m))
    BY <1>12, MarkedIsTyped
  <2>2. ASSUME marks[m].saved \in Known(server, sessions)
        PROVE  w[sessions].fetch = cache[sessions].fetch /\ HasData(w[sessions])
    <3>1. w[sessions] = Put(cache[sessions], marks[m].saved)
      BY <1>0 DEF Written, CacheOK
    <3>2. WellFormed(cache[sessions], Known(server, sessions)) /\ Apart(Known(server, sessions))
      BY <1>0, EntryIsTyped
    <3> QED
      BY <2>2, <3>1, <3>2 DEF Put, WellFormed, EntryOf, Apart, HasData
  <2> HIDE DEF w
  <2>3. \A v : Current(Invalidated(cache, {sessions})[sessions], v)
    BY <1>0, <2>1, InvalidatedIsCurrent
  <2>4. ASSUME CacheOK(server, w), marks[m].saved \in Known(server, sessions)
        PROVE  \A v : Current(Invalidated(w, {sessions})[sessions], v)
    BY <1>0, <2>1, <2>2, <2>4, InvalidatedIsCurrent
  <2>5. /\ CacheOK(server, Invalidated(cache, {sessions}))
        /\ CacheOK(server, w) => CacheOK(server, Invalidated(w, {sessions}))
    BY <1>0, InvalidatedIsOK
  <2> QED
    BY <1>1, <2>1, <2>3, <2>4, <2>5
<1>13. CASE Deliver
  <2> DEFINE e == Head(wire)
             K == InvalidatedBy(e)
  <2>1. /\ UNCHANGED <<server, sends>> /\ wire # <<>> /\ wire' = Tail(wire) /\ Sound(server, e)
        /\ Safe(K, TRUE) /\ CacheOK(server, Reset(e)) /\ Rendered(AfterEvent(e), marks)
    BY <1>13, DeliverIsTyped
  <2>2. ASSUME sessions \notin K
        PROVE  Announced(sessions) => Announced(sessions)'
    BY <2>1, <2>2, DeliveryKeeps
  <2> HIDE DEF e
  <2>3. sessions \in K => e.type # "task:message"
    BY EventKeys
  <2> HIDE DEF K
  <2>4. CacheOK(server, AfterEvent(e))
    BY <1>0, <2>1, EventIsOK
  <2>5. e.type # "task:message" => AfterEvent(e) = Invalidated(Reset(e), K)
    BY DEF AfterEvent, K
  <2>6. Reset(e)[sessions] = cache[sessions] /\ Reported(cache, e)[sessions] = cache[sessions]
    BY <1>0, Untouched DEF Reset, Reported
  <2>7. CASE sessions \in K
    <3>1. \A v : Current(Invalidated(Reset(e), K)[sessions], v)
      BY <1>0, <2>1, <2>6, <2>7, InvalidatedIsCurrent
    <3> QED
      BY <1>1, <2>1, <2>3, <2>4, <2>5, <2>7, <3>1
  <2>8. CASE sessions \notin K
    <3>1. AfterEvent(e)[sessions] = cache[sessions]
      BY <2>5, <2>6, <2>8, Untouched DEF AfterEvent
    <3>2. BadgeAwaited => BadgeAwaited'
      BY <1>3, <2>1, <2>2, <2>8 DEF BadgeAwaited, CreatedOne
    <3> QED
      BY <1>1, <2>1, <2>4, <3>1, <3>2
  <2> QED
    BY <2>7, <2>8
<1>14. ASSUME NEW j \in Keys, ServerReads(j) \/ Arrive(j) \/ Lose(j)
       PROVE  Goal
  <2>1. /\ UNCHANGED <<server, sends, wire>>
        /\ UNCHANGED marks \/ \E c : Rendered(c, marks)
    BY <1>14, FetchIsTyped
  <2>2. MarkAwaited => MarkAwaited'
    BY <1>3, <2>1 DEF MarkAwaited
  <2>3. BadgeAwaited => BadgeAwaited'
    BY <2>1, <2>2 DEF BadgeAwaited, Announced, CreatedOne
  <2>4. Fresh => Current(cache'[sessions], View(server, sessions)) \/ \E m \in Marks : marks'[m] # None
    BY <1>0, <1>14, FetchStaysCurrent
  <2>5. (\E m \in Marks : marks'[m] # None) => BadgeAwaited'
    BY DEF BadgeAwaited, MarkAwaited
  <2> QED
    BY <1>0, <2>1, <2>3, <2>4, <2>5
<1>15. CASE CancelTask
  <2>1. UNCHANGED <<cache, sends, marks, wire>>
    BY <1>15, CancelTaskIsTyped DEF Client
  <2>2. server'.exists = server.exists /\ server'.unread = server.unread
    BY <1>0, <1>15, CancelTaskIsTyped DEF ServerType
  <2> QED
    BY <1>2, <2>1, <2>2 DEF BadgeAwaited, Announced, MarkAwaited, CreatedOne
<1>16. ASSUME NEW m \in Marks, MarkRead(m)
       PROVE  Goal
  BY <1>16, MarkReadIsTyped DEF BadgeAwaited, MarkAwaited
<1>17. ASSUME NEW n \in Sends, NEW r \in Sessions, CreateSession(n, r)
       PROVE  Goal
  <2>1. sends' = [sends EXCEPT ![n].session = r, ![n].phase = "created"]
    BY <1>17, CreateSessionIsTyped
  <2>2. sends'[n].phase = "created"
    BY <2>1, PhaseStep
  <2> QED
    BY <2>2 DEF BadgeAwaited, CreatedOne
<1>18. ASSUME NEW n \in Sends, NEW r \in Sessions, SendMessage(n, r)
       PROVE  Goal
  <2> DEFINE e == Event("chat:message", r, Len(server.tasks) + 1)
  <2>1. /\ UNCHANGED <<cache, marks>> /\ Publish(<<e>>)
        /\ server'.exists = server.exists /\ server'.unread = server.unread
        /\ sends[n].phase # "created" /\ \A m \in Sends \ {n} : sends'[m] = sends[m]
    BY <1>18, SendMessageIsTyped DEF Client
  <2>2. Typed' /\ Len(server.tasks) + 1 \in Tasks
    BY <1>18, SentTaskIsNamed
  <2>3. e \in EventType
    BY <2>2, EventIsTyped DEF EventNames
  <2> HIDE DEF e
  <2>4. Announced(sessions) => Announced(sessions)'
    BY <1>0, <2>1, <2>3, EventAnnounces
  <2>5. BadgeAwaited => BadgeAwaited'
    BY <1>4, <2>1, <2>4 DEF BadgeAwaited, MarkAwaited
  <2> QED
    BY <1>2, <2>1, <2>5
<1>19. ASSUME NEW t \in TaskIds, NEW how \in {"completed", "failed", "swept", "cancelled"},
              End(t, how)
       PROVE  Goal
  <2> DEFINE r == server.tasks[t].session
  <2>1. /\ Agents /\ server'.exists = server.exists /\ server'.unread = server.unread
        /\ how = "failed" => Publish(<<Event("task:failed", r, t)>>)
        /\ how = "swept" => Publish(<<Event("task:failed", None, t)>>)
        /\ how \in {"completed", "cancelled"} => UNCHANGED wire
    BY <1>19, EndIsTyped
  <2>2. t \in Tasks /\ r \in Sessions
    BY TasksAreNamed
  <2>3. ASSUME NEW q \in Sessions \cup {None}, Publish(<<Event("task:failed", q, t)>>)
        PROVE  Announced(sessions) => Announced(sessions)'
    <3> DEFINE e == Event("task:failed", q, t)
    <3>1. e \in EventType /\ Publish(<<e>>)
      BY <2>2, <2>3, EventIsTyped DEF EventNames
    <3> HIDE DEF e
    <3> QED
      BY <1>0, <3>1, EventAnnounces
  <2>4. Announced(sessions) => Announced(sessions)'
    BY <2>1, <2>2, <2>3 DEF Announced
  <2> QED
    BY <1>2, <2>1, <2>4 DEF Agents, Client, BadgeAwaited, MarkAwaited, CreatedOne
<1>20. ASSUME NEW t \in TaskIds, NEW empty \in BOOLEAN, Reply(t, empty)
       PROVE  Goal
  <2> DEFINE r == server.tasks[t].session
             e == Event("chat:done", r, t)
             f == Event("task:completed", r, t)
  <2>1. Publish(<<e, f>>)
    BY <1>20, ReplyIsTyped
  <2>2. r \in Sessions /\ t \in Tasks
    BY TasksAreNamed
  <2>3. e \in EventType /\ f \in EventType /\ sessions \in InvalidatedBy(e)
    BY <2>2, EventIsTyped, EventKeys DEF EventNames
  <2> HIDE DEF e, f, r
  <2>4. <<e, f>> \in Seq(EventType) /\ 1 \in DOMAIN <<e, f>> /\ <<e, f>>[1] = e
    BY <2>3
  <2>5. Announced(sessions)'
    BY <1>0, <2>1, <2>3, <2>4, PublishAnnounces
  <2> QED
    BY <2>5 DEF BadgeAwaited
<1>21. ASSUME NEW t \in TaskIds, Report(t)
       PROVE  Goal
  <2>1. /\ Agents /\ Publish(<<ReportEvent(t)>>)
        /\ server'.exists = server.exists /\ server'.unread = server.unread
    BY <1>21, ReportIsTyped DEF Changed
  <2>2. ReportEvent(t) \in EventType
    BY ReportEventIsTyped
  <2>3. Announced(sessions) => Announced(sessions)'
    BY <1>0, <2>1, <2>2, EventAnnounces
  <2> QED
    BY <1>2, <2>1, <2>3 DEF Agents, Client, BadgeAwaited, MarkAwaited, CreatedOne
<1> QED
  BY <1>5, <1>6, <1>7, <1>8, <1>9, <1>10, <1>11, <1>12, <1>13, <1>14, <1>15, <1>16, <1>17,
     <1>18, <1>19, <1>20, <1>21 DEF Next, Progress

-----------------------------------------------------------------------------
(* The timeline of a task *)

ReportAt(i, t, x) == wire[i].type = "task:message" /\ wire[i].task = t /\ wire[i].seq = x
Reporting(t, x) == \E i \in DOMAIN wire : ReportAt(i, t, x)

\* A report that is not among the data is on its way.
Covers(data, t) == \A x \in 1 .. server.tasks[t].steps : x \in data \/ Reporting(t, x)
Complete(q, t) ==
    /\ HasData(q) => Covers(q.data, t)
    /\ q.fetch = "read" => Covers(q.snap, t)

\* After a report on its way come all the later ones.
InOrder(t) ==
    \A i \in DOMAIN wire : \A x \in Nat : ReportAt(i, t, x) =>
        \A y \in x + 1 .. server.tasks[t].steps : \E j \in DOMAIN wire : i < j /\ ReportAt(j, t, y)

TimelineOf(t) == InOrder(t) /\ (taskMessages(t) \in Keys => Complete(cache[taskMessages(t)], t))
TimelineInv == \A t \in TaskIds : TimelineOf(t)

\* The wire has more events, none of them a report of task t.
Appended(t) ==
    \E evs \in Seq(EventType) :
        /\ wire' = wire \o evs
        /\ \A i \in DOMAIN evs : evs[i].type = "task:message" => evs[i].task # t

\* No task of old has a new report; a new one has none.
Continues ==
    \A u \in DOMAIN server'.tasks :
        server'.tasks[u].steps = IF u \in TaskIds THEN server.tasks[u].steps ELSE 0

LEMMA TasksContinue ==
    ASSUME Typed
    PROVE  /\ server'.tasks = server.tasks => Continues
           /\ \A r : Joined(server, r) => Continues
           /\ \A t \in TaskIds : \A st : Turned(t, st) => Continues
PROOF
<1>1. \A s : Task(s).steps = 0
  BY DEF Task
<1>2. server'.tasks = server.tasks => Continues
  BY DEF Continues, TaskIds
<1>3. ASSUME NEW r, Joined(server, r)
      PROVE  Continues
  BY <1>1, <1>3 DEF Joined, Continues
<1>4. ASSUME NEW t \in TaskIds, NEW st, Turned(t, st)
      PROVE  Continues
  BY <1>1, <1>4 DEF Turned, Continues
<1> QED
  BY <1>2, <1>3, <1>4

LEMMA AppendKeepsOrder ==
    ASSUME Typed, NEW t, Appended(t), server'.tasks[t].steps = server.tasks[t].steps
    PROVE  /\ \A x : Reporting(t, x) => Reporting(t, x)'
           /\ InOrder(t) => InOrder(t)'
PROOF
<1>1. PICK evs \in Seq(EventType) :
        /\ wire' = wire \o evs
        /\ \A i \in DOMAIN evs : evs[i].type = "task:message" => evs[i].task # t
  BY DEF Appended
<1>2. wire \in Seq(EventType)
  BY DEF Typed, WireOK
<1>3. /\ \A i \in DOMAIN wire : i \in DOMAIN wire' /\ wire'[i] = wire[i]
      /\ \A i \in DOMAIN wire' \ DOMAIN wire :
            i - Len(wire) \in DOMAIN evs /\ wire'[i] = evs[i - Len(wire)]
  <2>1. \A i \in DOMAIN wire : i \in DOMAIN wire' /\ wire'[i] = wire[i]
    BY <1>1, <1>2
  <2>2. ASSUME NEW i \in DOMAIN wire' \ DOMAIN wire
        PROVE  i - Len(wire) \in DOMAIN evs /\ wire'[i] = evs[i - Len(wire)]
    <3>1. Len(wire) \in Nat /\ Len(evs) \in Nat /\ DOMAIN wire = 1 .. Len(wire)
          /\ DOMAIN evs = 1 .. Len(evs) /\ DOMAIN wire' = 1 .. Len(wire) + Len(evs)
      BY <1>1, <1>2
    <3>2. i \in Int /\ Len(wire) < i /\ i <= Len(wire) + Len(evs)
      BY <2>2, <3>1
    <3>3. i - Len(wire) \in DOMAIN evs
      BY <3>1, <3>2
    <3>4. wire'[i] = evs[i - Len(wire)]
      BY <1>1, <1>2, <3>1, <3>2
    <3> QED
      BY <3>3, <3>4
  <2> QED
    BY <2>1, <2>2
<1>4. \A i \in DOMAIN wire : \A x : ReportAt(i, t, x) <=> ReportAt(i, t, x)'
  BY <1>3 DEF ReportAt
<1>5. \A i \in DOMAIN wire' \ DOMAIN wire : \A x : ~ReportAt(i, t, x)'
  BY <1>1, <1>3 DEF ReportAt
<1>6. \A x : Reporting(t, x) => Reporting(t, x)'
  BY <1>3, <1>4 DEF Reporting
<1>7. ASSUME InOrder(t), NEW i \in DOMAIN wire', NEW x \in Nat, ReportAt(i, t, x)',
             NEW y \in x + 1 .. server.tasks[t].steps
      PROVE  \E j \in DOMAIN wire' : i < j /\ ReportAt(j, t, y)'
  <2>1. i \in DOMAIN wire /\ ReportAt(i, t, x)
    BY <1>4, <1>5, <1>7
  <2>2. PICK j \in DOMAIN wire : i < j /\ ReportAt(j, t, y)
    BY <1>7, <2>1 DEF InOrder
  <2> QED
    BY <1>3, <1>4, <2>2
<1>8. InOrder(t) => InOrder(t)'
  BY <1>7 DEF InOrder
<1> QED
  BY <1>6, <1>8

LEMMA BecomesComplete ==
    ASSUME NEW k, NEW t,
           \A x \in 1 .. server'.tasks[t].steps :
              /\ HasData(cache'[k]) => x \in cache'[k].data \/ Reporting(t, x)'
              /\ cache'[k].fetch = "read" => x \in cache'[k].snap \/ Reporting(t, x)'
    PROVE  Complete(cache[k], t)'
BY DEF Complete, HasData, Covers

LEMMA KeptIsComplete ==
    ASSUME NEW k, NEW t, Kept(cache[k], cache'[k]), Complete(cache[k], t),
           server'.tasks[t].steps = server.tasks[t].steps,
           \A x : Reporting(t, x) => Reporting(t, x)'
    PROVE  Complete(cache[k], t)'
PROOF
<1>1. ASSUME NEW x \in 1 .. server'.tasks[t].steps
      PROVE  /\ HasData(cache'[k]) => x \in cache'[k].data \/ Reporting(t, x)'
             /\ cache'[k].fetch = "read" => x \in cache'[k].snap \/ Reporting(t, x)'
  BY DEF Kept, Complete, HasData, Covers
<1> QED
  BY <1>1, BecomesComplete

LEMMA NewTimeline ==
    ASSUME Typed', NEW t \in DOMAIN server'.tasks, server'.tasks[t].steps = 0
    PROVE  TimelineOf(t)'
BY DEF TimelineOf, InOrder, Complete, Covers

LEMMA PublishAppends ==
    ASSUME Typed, "missed" \notin Races, NEW t
    PROVE  /\ UNCHANGED wire => Appended(t)
           /\ \A e \in EventType :
                 Publish(<<e>>) /\ (e.type = "task:message" => e.task # t) => Appended(t)
           /\ \A e, f \in EventType :
                 /\ Publish(<<e, f>>) /\ e.type # "task:message" /\ f.type # "task:message"
                 => Appended(t)
PROOF
<1>1. wire \in Seq(EventType)
  BY DEF Typed, WireOK
<1>2. ASSUME UNCHANGED wire
      PROVE  Appended(t)
  <2>1. wire' = wire \o <<>> /\ <<>> \in Seq(EventType) /\ DOMAIN <<>> = {}
    BY <1>1, <1>2
  <2> QED
    BY <2>1 DEF Appended
<1>3. ASSUME NEW e \in EventType, Publish(<<e>>), e.type = "task:message" => e.task # t
      PROVE  Appended(t)
  <2>1. <<e>> \in Seq(EventType) /\ \A i \in DOMAIN <<e>> : <<e>>[i] = e
    OBVIOUS
  <2>2. wire' = wire \o <<e>>
    BY <1>3 DEF Publish
  <2> QED
    BY <1>3, <2>1, <2>2 DEF Appended
<1>4. ASSUME NEW e \in EventType, NEW f \in EventType, Publish(<<e, f>>),
             e.type # "task:message", f.type # "task:message"
      PROVE  Appended(t)
  <2>1. <<e, f>> \in Seq(EventType)
        /\ \A i \in DOMAIN <<e, f>> : <<e, f>>[i] = e \/ <<e, f>>[i] = f
    OBVIOUS
  <2>2. wire' = wire \o <<e, f>>
    BY <1>4 DEF Publish
  <2> HIDE DEF Publish
  <2> QED
    BY <1>4, <2>1, <2>2 DEF Appended
<1> QED
  BY <1>2, <1>3, <1>4

LEMMA DeliveryKeepsOrder ==
    ASSUME Typed, wire # <<>>, wire' = Tail(wire), UNCHANGED server, NEW t, InOrder(t)
    PROVE  /\ InOrder(t)'
           /\ \A x : Reporting(t, x) /\ ~ReportAt(1, t, x) => Reporting(t, x)'
           /\ \A x \in Nat : ReportAt(1, t, x) =>
                 \A y \in x + 1 .. server.tasks[t].steps : Reporting(t, y)'
PROOF
<1>1. wire \in Seq(EventType)
  BY DEF Typed, WireOK
<1>2. /\ \A i \in DOMAIN wire : 1 < i => i - 1 \in DOMAIN wire' /\ wire'[i - 1] = wire[i]
      /\ \A i \in DOMAIN wire' : i + 1 \in DOMAIN wire /\ wire'[i] = wire[i + 1]
      /\ \A i \in DOMAIN wire : i \in Nat /\ (i = 1 \/ 1 < i)
      /\ 1 \in DOMAIN wire
  BY <1>1
<1>3. /\ \A i \in DOMAIN wire : \A x : 1 < i /\ ReportAt(i, t, x) => ReportAt(i - 1, t, x)'
      /\ \A i \in DOMAIN wire' : \A x : ReportAt(i, t, x)' => ReportAt(i + 1, t, x)
  BY <1>2 DEF ReportAt
<1>4. ASSUME NEW i \in DOMAIN wire', NEW x \in Nat, ReportAt(i, t, x)',
             NEW y \in x + 1 .. server.tasks[t].steps
      PROVE  \E j \in DOMAIN wire' : i < j /\ ReportAt(j, t, y)'
  <2>1. i + 1 \in DOMAIN wire /\ ReportAt(i + 1, t, x) /\ i \in DOMAIN wire'
    BY <1>2, <1>3, <1>4
  <2>2. PICK j \in DOMAIN wire : i + 1 < j /\ ReportAt(j, t, y)
    BY <1>4, <2>1 DEF InOrder
  <2>3. i \in Int /\ j \in Int /\ i + 1 \in Nat /\ 0 < i
    BY <1>1, <2>1, <2>2
  <2>4. 1 < j /\ i < j - 1
    BY <2>2, <2>3
  <2> QED
    BY <1>2, <1>3, <2>2, <2>4
<1>5. InOrder(t)'
  BY <1>4 DEF InOrder
<1>6. ASSUME NEW x, NEW i \in DOMAIN wire, ReportAt(i, t, x), i # 1
      PROVE  Reporting(t, x)'
  BY <1>2, <1>3, <1>6 DEF Reporting
<1>7. ASSUME NEW x \in Nat, ReportAt(1, t, x), NEW y \in x + 1 .. server.tasks[t].steps
      PROVE  Reporting(t, y)'
  <2>1. PICK j \in DOMAIN wire : 1 < j /\ ReportAt(j, t, y)
    BY <1>2, <1>7 DEF InOrder
  <2>2. j # 1
    BY <1>2, <2>1
  <2> QED
    BY <1>6, <2>1, <2>2
<1> QED
  BY <1>5, <1>6, <1>7 DEF Reporting

LEMMA TimelineStaysComplete ==
    ASSUME Typed, TimelineInv, [Next]_vars, Races \cap {"missed", "overtaken", "headless"} = {}
    PROVE  TimelineInv'
PROOF
<1> SUFFICES ASSUME NEW t \in DOMAIN server'.tasks
             PROVE  TimelineOf(t)'
  BY DEF TimelineInv, TaskIds
<1> DEFINE k == taskMessages(t)
<1>0. /\ ServerOK /\ CacheOK(server, cache) /\ server \in ServerType
      /\ "missed" \notin Races /\ "overtaken" \notin Races /\ "headless" \notin Races
      /\ k # sessions /\ \A r : k # messages(r) /\ k # pendingTask(r)
      /\ \A u : k = taskMessages(u) => u = t
  BY KeysDiffer DEF Typed, ServerOK
<1>00. t \in TaskIds => InOrder(t) /\ (k \in Keys => Complete(cache[k], t))
  BY DEF TimelineInv, TimelineOf
<1>1. Typed'
  BY StepIsTyped
<1> HIDE DEF k
<1>2. ASSUME t \in TaskIds, server'.tasks[t].steps = server.tasks[t].steps, Appended(t),
             k \in Keys => Kept(cache[k], cache'[k])
      PROVE  TimelineOf(t)'
  <2>1. (\A x : Reporting(t, x) => Reporting(t, x)') /\ InOrder(t)'
    BY <1>00, <1>2, AppendKeepsOrder
  <2>2. ASSUME k \in Keys
        PROVE  Complete(cache[k], t)'
    BY <1>00, <1>2, <2>1, <2>2, KeptIsComplete DEF k
  <2> QED
    BY <2>1, <2>2 DEF TimelineOf, k
<1>3. ASSUME UNCHANGED cache, Continues, Appended(t)
      PROVE  TimelineOf(t)'
  <2>1. CASE t \in TaskIds
    BY <1>2, <1>3, <2>1 DEF Continues, Kept
  <2>2. CASE t \notin TaskIds
    BY <1>1, <1>3, <2>2, NewTimeline DEF Continues
  <2> QED
    BY <2>1, <2>2
<1>4. UNCHANGED server => t \in TaskIds
  BY DEF TaskIds
<1>5. ASSUME UNCHANGED <<server, wire>>, NEW c, CacheOK(server, c), NEW ms, Rendered(c, ms),
             k \in Keys => c[k] = cache[k]
      PROVE  TimelineOf(t)'
  <2>1. k \in Keys => Kept(cache[k], cache'[k])
    BY <1>0, <1>5, RenderedKeeps
  <2>2. Appended(t)
    BY <1>0, <1>5, PublishAppends
  <2> QED
    BY <1>2, <1>4, <1>5, <2>1, <2>2
<1>6. CASE UNCHANGED vars
  <2>1. UNCHANGED <<server, wire, cache>>
    BY <1>6 DEF vars
  <2>2. Appended(t) /\ Continues
    BY <1>0, <2>1, PublishAppends, TasksContinue
  <2> QED
    BY <1>3, <2>1, <2>2
<1>7. CASE Toggle \/ NewChat \/ \E r \in Sessions : SelectSession(r)
  BY <1>0, <1>5, <1>7, LookingIsTyped
<1>8. ASSUME NEW n \in Sends, Send(n)
      PROVE  TimelineOf(t)'
  <2> DEFINE d == Optimistic(cache, activeSessionId, n)
  <2>1. UNCHANGED <<server, wire>> /\ (Rendered(cache, marks) \/ Rendered(d, marks))
    BY <1>8, SendIsTyped
  <2>2. CacheOK(server, d) /\ (k \in Keys => d[k] = cache[k])
    BY <1>0, OptimisticIsOK, Untouched
  <2> HIDE DEF d
  <2> QED
    BY <1>0, <1>5, <2>1, <2>2
<1>9. ASSUME NEW n \in Sends, NEW ok \in BOOLEAN, Created(n, ok)
      PROVE  TimelineOf(t)'
  <2> DEFINE c == Invalidated(cache, {sessions})
             d == Optimistic(c, sends[n].session, n)
  <2>1. UNCHANGED <<server, wire>> /\ (Rendered(c, marks) \/ Rendered(d, marks))
    BY <1>9, CreatedIsTyped
  <2>2. CacheOK(server, c) /\ (k \in Keys => c[k] = cache[k])
    BY <1>0, InvalidatedIsOK, Untouched
  <2> HIDE DEF c
  <2>3. CacheOK(server, d) /\ (k \in Keys => d[k] = c[k])
    BY <1>0, <2>2, OptimisticIsOK, Untouched
  <2> HIDE DEF d
  <2> QED
    BY <1>5, <2>1, <2>2, <2>3
<1>10. ASSUME NEW n \in Sends, NEW ok \in BOOLEAN, Sent(n, ok)
       PROVE  TimelineOf(t)'
  <2> DEFINE r == sends[n].session
             w == Seeded(cache, n)
  <2>1. /\ UNCHANGED <<server, wire>>
        /\ \/ Rendered(cache, marks)
           \/ CacheOK(server, w) /\ Rendered(AfterSent(n), marks)
    BY <1>10, SentIsTyped
  <2>2. w = Written(cache, pendingTask(r), sends[n].task) /\ AfterSent(n) = Invalidated(w, {messages(r)})
    BY DEF Seeded, AfterSent
  <2>3. k \in Keys => w[k] = cache[k]
    BY <1>0, <2>2, Untouched
  <2> HIDE DEF w, r
  <2>4. ASSUME CacheOK(server, w)
        PROVE  CacheOK(server, AfterSent(n)) /\ (k \in Keys => AfterSent(n)[k] = cache[k])
    BY <1>0, <2>2, <2>3, <2>4, InvalidatedIsOK, Untouched
  <2> QED
    BY <1>0, <1>5, <2>1, <2>4
<1>11. CASE Stopped
  <2> DEFINE r == stop.session
             w == Written(cache, pendingTask(r), 0)
  <2>1. /\ UNCHANGED <<server, wire>>
        /\ CacheOK(server, w) /\ Rendered(AfterStopped(r), marks)
    BY <1>11, StoppedIsTyped
  <2>2. (k \in Keys => w[k] = cache[k]) /\ AfterStopped(r) = Invalidated(w, {messages(r)})
    BY <1>0, Untouched DEF AfterStopped
  <2> HIDE DEF w, r
  <2>3. CacheOK(server, AfterStopped(r)) /\ (k \in Keys => AfterStopped(r)[k] = cache[k])
    BY <1>0, <2>1, <2>2, InvalidatedIsOK, Untouched
  <2> QED
    BY <1>5, <2>1, <2>3
<1>12. ASSUME NEW m \in Marks, NEW ok \in BOOLEAN, Marked(m, ok)
       PROVE  TimelineOf(t)'
  <2> DEFINE w == Written(cache, sessions, marks[m].saved)
  <2>1. /\ UNCHANGED <<server, wire>>
        /\ \E c : /\ c = cache \/ c = w
                  /\ CacheOK(server, c) /\ Rendered(Invalidated(c, {sessions}), Unmarked(m))
    BY <1>12, MarkedIsTyped
  <2>2. k \in Keys => w[k] = cache[k]
    BY <1>0, Untouched
  <2> HIDE DEF w
  <2>3. PICK c : /\ c = cache \/ c = w
                 /\ CacheOK(server, c) /\ Rendered(Invalidated(c, {sessions}), Unmarked(m))
    BY <2>1
  <2>4. CacheOK(server, Invalidated(c, {sessions}))
        /\ (k \in Keys => Invalidated(c, {sessions})[k] = cache[k])
    BY <1>0, <2>2, <2>3, InvalidatedIsOK, Untouched
  <2> QED
    BY <1>5, <2>1, <2>3, <2>4
<1>13. CASE Stop
  <2>1. UNCHANGED <<server, cache, wire>>
    BY <1>13, StopIsTyped DEF Client
  <2>2. Appended(t) /\ Continues
    BY <1>0, <2>1, PublishAppends, TasksContinue
  <2> QED
    BY <1>3, <2>1, <2>2
<1>14. CASE Deliver
  <2> DEFINE e == Head(wire)
             c == AfterEvent(e)
  <2>1. /\ UNCHANGED server /\ wire # <<>> /\ wire' = Tail(wire) /\ Sound(server, e)
        /\ e.type = "task:message" =>
              /\ Safe({taskMessages(e.task)}, FALSE)
              /\ 1 .. e.seq - 1 \subseteq Value(cache, taskMessages(e.task), {})
        /\ CacheOK(server, Reset(e)) /\ Rendered(c, marks)
    BY <1>0, <1>14, DeliverIsTyped
  <2>2. e = wire[1]
    BY <2>1 DEF Typed, WireOK
  <2>3. t \in TaskIds /\ InOrder(t) /\ (k \in Keys => Complete(cache[k], t))
    BY <1>00, <1>4, <2>1
  <2>4. /\ InOrder(t)'
        /\ \A x : Reporting(t, x) /\ ~ReportAt(1, t, x) => Reporting(t, x)'
        /\ \A x \in Nat : ReportAt(1, t, x) =>
              \A y \in x + 1 .. server.tasks[t].steps : Reporting(t, y)'
    BY <2>1, <2>3, DeliveryKeepsOrder
  <2> HIDE DEF e
  <2>5. CacheOK(server, c) /\ \A u : taskMessages(u) \notin InvalidatedBy(e)
    BY <1>0, <2>1, EventIsOK, EventKeys
  <2>6. ASSUME k \in Keys
        PROVE  Kept(c[k], cache'[k])
    BY <1>0, <2>1, <2>5, <2>6, RenderedKeeps DEF c
  <2>7. ASSUME k \in Keys, ~(e.type = "task:message" /\ e.task = t)
        PROVE  Complete(cache[k], t)'
    <3>2. e.type = "task:message" => Reported(cache, e)[k] = cache[k]
      BY <1>0, <2>7, Untouched DEF Reported
    <3>3. Reset(e)[k] = cache[k]
      BY <1>0, <2>7, Untouched DEF Reset
    <3>4. c[k] = cache[k]
      BY <2>5, <2>7, <3>2, <3>3, Untouched DEF AfterEvent, k
    <3>5. \A x : Reporting(t, x) => Reporting(t, x)'
      BY <2>2, <2>4, <2>7 DEF ReportAt
    <3>6. Kept(cache[k], cache'[k]) /\ Complete(cache[k], t)
      BY <2>3, <2>6, <2>7, <3>4
    <3>7. server'.tasks[t].steps = server.tasks[t].steps
      BY <2>1
    <3> QED
      BY <3>5, <3>6, <3>7, KeptIsComplete DEF k
  <2>8. ASSUME k \in Keys, e.type = "task:message", e.task = t
        PROVE  Complete(cache[k], t)'
    <3> DEFINE p == cache'[k]
               old == Value(cache, k, {})
    <3>1. c[k] = Put(cache[k], old \cup {e.seq})
      BY <1>0, <2>1, <2>8, EventIsOK DEF k
    <3>2. cache[k].fetch # "read" /\ 1 .. e.seq - 1 \subseteq old
          /\ e.seq \in 1 .. server.tasks[t].steps
      BY <1>0, <2>1, <2>8 DEF Safe, Stales, k, Sound
    <3>3. c[k].data = old \cup {e.seq} /\ c[k].fetch # "read"
      <4>1. WellFormed(cache[k], Known(server, k))
        BY <1>0, <2>8, EntryIsTyped
      <4> QED
        BY <3>1, <3>2, <4>1 DEF WellFormed, EntryOf, Put
    <3>4. p.data = old \cup {e.seq} /\ p.fetch # "read"
      BY <2>6, <2>8, <3>3 DEF Kept
    <3>5. server.tasks[t].steps \in Nat /\ server'.tasks[t].steps = server.tasks[t].steps
      BY <1>0, <2>1, <2>3, TasksAreTyped DEF TaskIds
    <3>6. \A y \in e.seq + 1 .. server.tasks[t].steps : Reporting(t, y)'
      <4>1. ReportAt(1, t, e.seq)
        BY <2>2, <2>8 DEF ReportAt
      <4> QED
        BY <2>4, <3>2, <4>1
    <3> HIDE DEF p, old
    <3>7. ASSUME NEW x \in 1 .. server'.tasks[t].steps
          PROVE  x \in p.data \/ Reporting(t, x)'
      <4>1. x \in 1 .. e.seq - 1 \/ x = e.seq \/ x \in e.seq + 1 .. server.tasks[t].steps
        BY <3>2, <3>5, <3>7
      <4> QED
        BY <3>2, <3>4, <3>6, <4>1
    <3> QED
      BY <3>4, <3>7, BecomesComplete DEF p, k
  <2> QED
    BY <2>4, <2>7, <2>8 DEF TimelineOf, k
<1>15. ASSUME NEW j \in Keys, ServerReads(j) \/ Arrive(j) \/ Lose(j)
       PROVE  TimelineOf(t)'
  <2> DEFINE q == cache[j]
             v == View(server, j)
  <2>1. UNCHANGED <<server, wire>> /\ CacheOK(server, cache)
        /\ WellFormed(q, Known(server, j)) /\ Apart(Known(server, j))
    BY <1>0, <1>15, FetchIsTyped, EntryIsTyped
  <2>2. Appended(t) /\ t \in TaskIds
    BY <1>0, <1>4, <2>1, PublishAppends
  <2>3. (\A x : Reporting(t, x) => Reporting(t, x)') /\ InOrder(t)'
    BY <1>00, <2>1, <2>2, AppendKeepsOrder
  <2>4. CASE j # k
    <3>1. k \in Keys => [cache EXCEPT ![j] = Answer(q)][k] = cache[k]
      BY <1>0, <2>4 DEF CacheOK
    <3>2. CASE \E p : cache' = [cache EXCEPT ![j] = p]
      <4>1. k \in Keys => cache'[k] = cache[k]
        BY <1>0, <2>4, <3>2 DEF CacheOK
      <4> QED
        BY <1>2, <2>1, <2>2, <4>1 DEF Kept
    <3>3. CASE CacheOK(server, [cache EXCEPT ![j] = Answer(q)])
               /\ Rendered([cache EXCEPT ![j] = Answer(q)], marks)
      BY <1>5, <2>1, <3>1, <3>3
    <3> QED
      BY <1>15, <3>2, <3>3, FetchIsTyped
  <2>5. CASE j = k
    <3> DEFINE a == [cache EXCEPT ![j] = Answer(q)]
    <3>1. Complete(q, t) /\ server'.tasks = server.tasks
      BY <1>00, <2>1, <2>2, <2>5
    <3>2. CASE q.fetch = "asked" /\ cache' = [cache EXCEPT ![j] = Read(q, v)]
      <4>1. cache'[j] = Read(q, v)
        BY <2>1, <3>2 DEF CacheOK
      <4>2. v = 1 .. server.tasks[t].steps
        BY <2>5, ViewKinds DEF k
      <4>3. Read(q, v).data = q.data /\ Read(q, v).snap = v
        BY <2>1 DEF WellFormed, EntryOf, Read
      <4> HIDE DEF v
      <4>4. /\ \A x \in 1 .. server'.tasks[t].steps : x \in v
            /\ HasData(q) => \A x \in 1 .. server'.tasks[t].steps : x \in q.data \/ Reporting(t, x)'
        BY <2>3, <3>1, <4>2 DEF Complete, Covers
      <4>5. Complete(cache[k], t)'
        BY <2>5, <4>1, <4>3, <4>4, BecomesComplete DEF HasData, k
      <4> QED
        BY <2>3, <4>5 DEF TimelineOf, k
    <3>3. CASE q.fetch = "read" /\ cache' = [cache EXCEPT ![j] = Retry(q)]
      <4>1. cache'[j] = Retry(q)
        BY <2>1, <3>3 DEF CacheOK
      <4>2. Kept(cache[k], cache'[k])
        BY <2>1, <2>5, <4>1, KeptLaws
      <4> QED
        BY <1>2, <2>1, <2>2, <4>2
    <3>4. CASE q.fetch = "read" /\ CacheOK(server, a) /\ Rendered(a, marks)
      <4> DEFINE p == cache'[k]
      <4>1. a[k] = Answer(q) /\ Answer(q).data = q.snap /\ Answer(q).fetch = "no"
        BY <2>1, <2>5 DEF CacheOK, WellFormed, EntryOf, Answer, Idle
      <4>2. Kept(a[k], cache'[k])
        BY <1>0, <2>1, <2>5, <3>4, RenderedKeeps
      <4>3. p.data = q.snap /\ p.fetch # "read"
        BY <4>1, <4>2 DEF Kept
      <4>4. \A x \in 1 .. server'.tasks[t].steps : x \in q.snap \/ Reporting(t, x)'
        BY <2>3, <3>1, <3>4 DEF Complete, Covers
      <4>5. Complete(cache[k], t)'
        BY <4>3, <4>4, BecomesComplete DEF k
      <4> QED
        BY <2>3, <4>5 DEF TimelineOf, k
    <3> QED
      BY <1>15, <3>2, <3>3, <3>4, FetchIsTyped
  <2> QED
    BY <2>4, <2>5
<1>16. CASE CancelTask
  <2>1. UNCHANGED <<cache, wire>> /\ stop.task \in TaskIds
        /\ (UNCHANGED server \/ Turned(stop.task, "over"))
    BY <1>16, CancelTaskIsTyped, CancelTurns DEF Client
  <2>2. Continues /\ Appended(t)
    BY <1>0, <2>1, TasksContinue, PublishAppends
  <2> QED
    BY <1>3, <2>1, <2>2
<1>17. ASSUME NEW m \in Marks, MarkRead(m)
       PROVE  TimelineOf(t)'
  <2> DEFINE e == Event("chat:session_read", marks[m].session, None)
  <2>1. UNCHANGED cache /\ server'.tasks = server.tasks /\ Publish(<<e>>) /\ marks[m] # None
    BY <1>0, <1>17, MarkReadIsTyped DEF Client, ServerType
  <2>2. marks[m].session \in Sessions
    BY <2>1 DEF Typed, MarksOK, Mark
  <2>3. e \in EventType /\ e.type # "task:message"
    BY <2>2, EventIsTyped DEF EventNames
  <2> HIDE DEF e
  <2>4. Continues /\ Appended(t)
    BY <1>0, <2>1, <2>3, TasksContinue, PublishAppends
  <2> QED
    BY <1>3, <2>1, <2>4
<1>18. ASSUME NEW n \in Sends, NEW r \in Sessions, CreateSession(n, r)
       PROVE  TimelineOf(t)'
  <2>1. UNCHANGED <<cache, wire>> /\ server'.tasks = server.tasks
    BY <1>0, <1>18, CreateSessionIsTyped DEF Client, ServerType
  <2>2. Continues /\ Appended(t)
    BY <1>0, <2>1, TasksContinue, PublishAppends
  <2> QED
    BY <1>3, <2>1, <2>2
<1>19. ASSUME NEW n \in Sends, NEW r \in Sessions, SendMessage(n, r)
       PROVE  TimelineOf(t)'
  <2> DEFINE e == Event("chat:message", r, Len(server.tasks) + 1)
  <2>1. UNCHANGED cache /\ Joined(server, r) /\ Publish(<<e>>)
    BY <1>19, SendMessageIsTyped DEF Client
  <2>2. Len(server.tasks) + 1 \in Tasks
    BY <1>19, SentTaskIsNamed
  <2>3. e \in EventType /\ e.type # "task:message"
    BY <2>2, EventIsTyped DEF EventNames
  <2> HIDE DEF e
  <2>4. Continues /\ Appended(t)
    BY <1>0, <2>1, <2>3, TasksContinue, PublishAppends
  <2> QED
    BY <1>3, <2>1, <2>4
<1>20. ASSUME NEW u \in TaskIds, NEW how \in {"completed", "failed", "swept", "cancelled"},
              End(u, how)
       PROVE  TimelineOf(t)'
  <2> DEFINE r == server.tasks[u].session
  <2>1. /\ Agents /\ Ends(u, how)
        /\ how = "failed" => Publish(<<Event("task:failed", r, u)>>)
        /\ how = "swept" => Publish(<<Event("task:failed", None, u)>>)
        /\ how \in {"completed", "cancelled"} => UNCHANGED wire
    BY <1>20, EndIsTyped
  <2>2. u \in Tasks /\ r \in Sessions
    BY TasksAreNamed
  <2>3. ASSUME NEW x \in Sessions \cup {None}, Publish(<<Event("task:failed", x, u)>>)
        PROVE  Appended(t)
    <3> DEFINE e == Event("task:failed", x, u)
    <3>1. e \in EventType /\ Publish(<<e>>) /\ e.type # "task:message"
      BY <2>2, <2>3, EventIsTyped DEF EventNames
    <3> HIDE DEF e
    <3> QED
      BY <1>0, <3>1, PublishAppends
  <2>4. Appended(t)
    BY <1>0, <2>1, <2>2, <2>3, PublishAppends
  <2>5. PICK st \in {"completed", "over"} : Ended(u, st)
    BY <2>1 DEF Ends
  <2>6. Continues
    BY <2>5, EndedTurns, TasksContinue
  <2> QED
    BY <1>3, <2>1, <2>4, <2>6 DEF Agents, Client
<1>21. ASSUME NEW u \in TaskIds, NEW empty \in BOOLEAN, Reply(u, empty)
       PROVE  TimelineOf(t)'
  <2> DEFINE r == server.tasks[u].session
             e == Event("chat:done", r, u)
             f == Event("task:completed", r, u)
  <2>1. Agents /\ Publish(<<e, f>>)
    BY <1>21, ReplyIsTyped
  <2>2. r \in Sessions /\ u \in Tasks
    BY TasksAreNamed
  <2>3. e \in EventType /\ f \in EventType /\ e.type # "task:message" /\ f.type # "task:message"
    BY <2>2, EventIsTyped DEF EventNames
  <2> HIDE DEF e, f, r
  <2>4. Appended(t)
    BY <1>0, <2>1, <2>3, PublishAppends
  <2>5. Continues
    BY <1>21, ReplyTurns, TasksContinue
  <2> QED
    BY <1>3, <2>1, <2>4, <2>5 DEF Agents, Client
<1>22. ASSUME NEW u \in TaskIds, Report(u)
       PROVE  TimelineOf(t)'
  <2> DEFINE e == ReportEvent(u)
             steps == server.tasks[u].steps
  <2>1. /\ UNCHANGED cache /\ Publish(<<e>>)
        /\ Changed(server', u, [server.tasks[u] EXCEPT !.steps = @ + 1])
    BY <1>22, ReportIsTyped DEF Agents, Client
  <2>2. e \in EventType /\ e.type = "task:message" /\ e.task = u /\ e.seq = steps + 1
    BY ReportEventIsTyped
  <2>3. /\ t \in TaskIds /\ server'.tasks[u].steps = steps + 1
        /\ \A r \in TaskIds \ {u} : server'.tasks[r] = server.tasks[r]
    BY <2>1, ReportedTask
  <2> HIDE DEF e
  <2>4. CASE u # t
    <3>1. Appended(t)
      BY <1>0, <2>1, <2>2, <2>4, PublishAppends
    <3> QED
      BY <1>2, <2>1, <2>3, <2>4, <3>1 DEF Kept
  <2>5. CASE u = t
    <3>1. wire \in Seq(EventType) /\ wire' = wire \o <<e>>
      BY <1>0, <2>1 DEF Typed, WireOK, Publish
    <3>2. /\ \A i \in DOMAIN wire : i \in DOMAIN wire' /\ wire'[i] = wire[i] /\ i < Len(wire) + 1
          /\ Len(wire) + 1 \in DOMAIN wire' /\ wire'[Len(wire) + 1] = e
          /\ \A i \in DOMAIN wire' \ DOMAIN wire : i = Len(wire) + 1
      BY <2>2, <3>1
    <3>3. /\ \A i \in DOMAIN wire : \A x : ReportAt(i, t, x) <=> ReportAt(i, t, x)'
          /\ \A i : i = Len(wire) + 1 => \A x : ReportAt(i, t, x)' <=> x = steps + 1
      BY <2>2, <2>5, <3>2 DEF ReportAt
    <3>4. steps \in Nat /\ server'.tasks[t].steps = steps + 1
      BY <1>0, <2>3, <2>5, TasksAreTyped DEF TaskIds
    <3>5. \A x : Reporting(t, x) \/ x = steps + 1 => Reporting(t, x)'
      BY <3>2, <3>3 DEF Reporting
    <3>6. ASSUME NEW i \in DOMAIN wire', NEW x \in Nat, ReportAt(i, t, x)',
                 NEW y \in x + 1 .. steps + 1
          PROVE  \E j \in DOMAIN wire' : i < j /\ ReportAt(j, t, y)'
      <4>1. CASE i \in DOMAIN wire /\ y = steps + 1
        BY <3>2, <3>3, <4>1
      <4>2. CASE i \in DOMAIN wire /\ y # steps + 1
        <5>1. y \in x + 1 .. server.tasks[t].steps /\ ReportAt(i, t, x)
          BY <2>5, <3>3, <3>4, <3>6, <4>2
        <5>2. PICK j \in DOMAIN wire : i < j /\ ReportAt(j, t, y)
          BY <1>00, <2>3, <4>2, <5>1 DEF InOrder
        <5> QED
          BY <3>2, <3>3, <5>2
      <4>3. CASE i \notin DOMAIN wire
        <5>1. x = steps + 1
          BY <3>2, <3>3, <3>6, <4>3
        <5> QED
          BY <3>4, <3>6, <5>1
      <4> QED
        BY <4>1, <4>2, <4>3
    <3>7. InOrder(t)'
      BY <3>4, <3>6 DEF InOrder
    <3>8. ASSUME NEW data, Covers(data, t)
          PROVE  \A x \in 1 .. steps + 1 : x \in data \/ Reporting(t, x)'
      <4>1. ASSUME NEW x \in 1 .. steps + 1
            PROVE  x = steps + 1 \/ x \in 1 .. steps
        BY <3>4
      <4>2. \A x \in 1 .. steps : x \in data \/ Reporting(t, x)
        BY <2>5, <3>8 DEF Covers
      <4> QED
        BY <3>5, <4>1, <4>2
    <3>9. k \in Keys => Complete(cache[k], t)'
      <4>1. ASSUME NEW data, Covers(data, t)
            PROVE  \A x \in 1 .. server'.tasks[t].steps : x \in data \/ Reporting(t, x)'
        BY <3>4, <3>8, <4>1
      <4>2. k \in Keys => Complete(cache[k], t)
        BY <1>00, <2>3
      <4>3. cache' = cache
        BY <2>1
      <4> QED
        BY <4>1, <4>2, <4>3, BecomesComplete DEF Complete, k
    <3> QED
      BY <3>7, <3>9 DEF TimelineOf, k
  <2> QED
    BY <2>4, <2>5
<1> QED
  BY <1>6, <1>7, <1>8, <1>9, <1>10, <1>11, <1>12, <1>13, <1>14, <1>15, <1>16, <1>17,
     <1>18, <1>19, <1>20, <1>21, <1>22 DEF Next, Progress

-----------------------------------------------------------------------------
(* What is shown when everything has arrived *)

LEMMA CurrentAtFirst ==
    ASSUME Init
    PROVE  \A k \in Keys : \A v : Current(cache[k], v)
BY CacheAtFirst DEF Current, HasData

LEMMA QuietIsSilent ==
    ASSUME Quiet
    PROVE  /\ \A k : ~Announced(k)
           /\ stop = None /\ \A m \in Marks : marks[m] = None
           /\ \A n \in Sends : sends[n].phase \in {"unsent", "over"}
           /\ \A t \in TaskIds : server.tasks[t].st # "completed"
           /\ \A t, x : ~Reporting(t, x)
BY DEF Quiet, Announced, Reporting

\* An entry that is current shows what the server has, once nothing is fetched.
LEMMA CurrentIsFresh ==
    ASSUME Typed, InUseIsServed, NEW k \in Keys, Quiet, Trusted(k), NEW v, Current(cache[k], v)
    PROVE  cache[k].data = v
PROOF
<1>1. ~Fetching(cache[k]) /\ HasData(cache[k])
  BY DEF Quiet, Trusted
<1>2. cache[k].fetch = "no"
  BY <1>1, EntryIsTyped DEF Typed, Fetching, WellFormed, EntryOf
<1>3. ~cache[k].flag
  <2>1. CASE Mounted(k)
    BY <1>1, <2>1 DEF Mounted, InUseIsServed, Served
  <2> QED
    BY <2>1 DEF Trusted
<1> QED
  BY <1>1, <1>2, <1>3 DEF Current

\* When everything has arrived, the client shows every message of a session,
\* however its sends and those of others, the events, the fetches and the
\* answers interleaved: unless an event was missed, overtook a fetch or a
\* message was refused.
THEOREM MessagesAreShown ==
    ASSUME Races \cap {"missed", "overtaken", "refused"} = {}
    PROVE  Spec => []MessagesAreFresh
PROOF
<1> DEFINE Inv == Typed /\ InUseIsServed /\ Unechoed /\ MessagesInv
<1>1. Init => Inv
  <2> SUFFICES ASSUME Init
               PROVE  Inv
    OBVIOUS
  <2>1. InUseIsServed /\ Unechoed
    BY CacheAtFirst DEF InUseIsServed, Unechoed, SaidOnce, CleanCache, CleanEntry, HasData
  <2>2. MessagesInv
    BY CurrentAtFirst DEF MessagesInv
  <2> QED
    BY <2>1, <2>2, InitIsTyped
<1>2. Inv /\ [Next]_vars => Inv'
  BY StepIsTyped, InUseStaysServed, UnechoedStep, MessagesStayFresh
<1>3. Inv => MessagesAreFresh
  <2> SUFFICES ASSUME Inv, NEW s \in Sessions, messages(s) \in Keys, Quiet, Trusted(messages(s))
               PROVE  cache[messages(s)].data = View(server, messages(s))
    BY DEF MessagesAreFresh, FreshEntry
  <2>1. ~MessagesAwaited(s)
    BY QuietIsSilent DEF MessagesAwaited, Sending
  <2>2. Current(cache[messages(s)], View(server, messages(s)))
    BY <2>1 DEF MessagesInv
  <2> QED
    BY <2>2, CurrentIsFresh
<1> QED
  BY <1>1, <1>2, <1>3, PTL DEF Spec

\* Then it also shows the task that is pending, unless an event was missed or
\* overtook a fetch, an answer came late, the server failed the task by itself,
\* or somebody else cancelled it.
THEOREM PendingTaskIsShown ==
    ASSUME Races \cap {"missed", "overtaken", "late", "swept", "cancelled"} = {}
    PROVE  Spec => []PendingTaskIsFresh
PROOF
<1> DEFINE Inv == Typed /\ InUseIsServed /\ PendingInv
<1>1. Init => Inv
  BY InitIsTyped, CacheAtFirst, CurrentAtFirst DEF InUseIsServed, PendingInv
<1>2. Inv /\ [Next]_vars => Inv'
  BY StepIsTyped, InUseStaysServed, PendingStaysFresh
<1>3. Inv => PendingTaskIsFresh
  <2> SUFFICES ASSUME Inv, NEW s \in Sessions, pendingTask(s) \in Keys, Quiet,
                      Trusted(pendingTask(s))
               PROVE  cache[pendingTask(s)].data = View(server, pendingTask(s))
    BY DEF PendingTaskIsFresh, FreshEntry
  <2>1. ~PendingAwaited(s)
    BY QuietIsSilent DEF PendingAwaited, Stopping, CompletedIn
  <2>2. Current(cache[pendingTask(s)], View(server, pendingTask(s)))
    BY <2>1 DEF PendingInv
  <2> QED
    BY <2>2, CurrentIsFresh
<1> QED
  BY <1>1, <1>2, <1>3, PTL DEF Spec

\* Then the unread badge is that of the server, unless an event was missed or
\* overtook a fetch: optimistic marks that failed are undone.
THEOREM BadgeIsShown ==
    ASSUME Races \cap {"missed", "overtaken"} = {}
    PROVE  Spec => []BadgeIsFresh
PROOF
<1> DEFINE Inv == Typed /\ InUseIsServed /\ BadgeInv
<1>1. Init => Inv
  BY InitIsTyped, CacheAtFirst, CurrentAtFirst DEF InUseIsServed, BadgeInv
<1>2. Inv /\ [Next]_vars => Inv'
  BY StepIsTyped, InUseStaysServed, BadgeStaysFresh
<1>3. Inv => BadgeIsFresh
  <2> SUFFICES ASSUME Inv, sessions \in Keys, Quiet, Trusted(sessions)
               PROVE  cache[sessions].data = View(server, sessions)
    BY DEF BadgeIsFresh, FreshEntry
  <2>1. ~BadgeAwaited
    BY QuietIsSilent DEF BadgeAwaited, MarkAwaited, CreatedOne
  <2>2. Current(cache[sessions], View(server, sessions))
    BY <2>1 DEF BadgeInv
  <2> QED
    BY <2>2, CurrentIsFresh
<1> QED
  BY <1>1, <1>2, <1>3, PTL DEF Spec

\* Then the timeline of a task has every report, unless an event was missed or
\* overtook a fetch, or a timeline began in the middle.
THEOREM TimelineIsShown ==
    ASSUME Races \cap {"missed", "overtaken", "headless"} = {}
    PROVE  Spec => []TimelineIsComplete
PROOF
<1> DEFINE Inv == Typed /\ TimelineInv
<1>1. Init => Inv
  <2> SUFFICES ASSUME Init
               PROVE  TimelineInv
    BY InitIsTyped
  <2>1. wire = <<>> /\ \A k \in Keys : cache[k].data = None /\ cache[k].fetch # "read"
    BY CacheAtFirst
  <2> QED
    BY <2>1 DEF TimelineInv, TimelineOf, InOrder, Complete, HasData
<1>2. Inv /\ [Next]_vars => Inv'
  BY StepIsTyped, TimelineStaysComplete
<1>3. Inv => TimelineIsComplete
  <2> SUFFICES ASSUME Inv, NEW t \in TaskIds, taskMessages(t) \in Keys, Quiet,
                      Trusted(taskMessages(t))
               PROVE  cache[taskMessages(t)].data = View(server, taskMessages(t))
    BY DEF TimelineIsComplete, FreshEntry
  <2> DEFINE k == taskMessages(t)
             data == cache[k].data
  <2>1. Known(server, k) = SUBSET (1 .. server.tasks[t].steps)
        /\ View(server, k) = 1 .. server.tasks[t].steps
    BY KnownKinds, ViewKinds DEF TaskIds
  <2>2. HasData(cache[k])
    BY DEF Trusted
  <2>3. data \subseteq 1 .. server.tasks[t].steps
    BY <2>1, <2>2, EntryIsTyped DEF Typed, WellFormed, EntryOf, HasData
  <2>4. 1 .. server.tasks[t].steps \subseteq data
    BY <2>2, QuietIsSilent DEF TimelineInv, TimelineOf, Complete, Covers
  <2> QED
    BY <2>1, <2>3, <2>4
<1> QED
  BY <1>1, <1>2, <1>3, PTL DEF Spec
=============================================================================
