----------------------------- MODULE ChatWindow -----------------------------
(* The chat of a client with its agents: what the chat window and the badge  *)
(* of its button show, taken from the query cache; the requests they send;   *)
(* and the events that invalidate the cache.                                 *)
(*                                                                           *)
(* Sources: packages/core/chat, packages/views/chat/components and the chat  *)
(* handlers of core/realtime/use-realtime-sync.ts.  The server is external:  *)
(* its tasks are those of TaskQueue, reduced to what the client can see.     *)
(*                                                                           *)
(* Simplifications: the two lists of sessions are one entry, archived        *)
(* sessions, drafts and the pulse of the floating button are left out, one   *)
(* agent; the page renders before the network brings the next answer; a      *)
(* fetch that fails twice does not occur.                                    *)
EXTENDS Naturals, Sequences, FiniteSets, QueryCache

CONSTANTS
    Sessions,
    Marks,      \* mark-read requests that are in flight at one time (a bound)
    MaxSends,   \* messages this client sends (a bound)
    MaxTasks,   \* tasks, of any client and with their retries (a bound)
    MaxSteps,   \* messages an agent reports during a task (a bound)
    MaxWire,    \* events on their way at one time (a bound)
    MaxLost,    \* requests or answers that are lost (a bound)
    Followed,   \* the kinds of entries that an instance follows
    Races       \* the races that may happen, see below

(* The client is known to go stale when                                      *)
(*   "missed"     an event is lost with its connection: the handler of a     *)
(*                reconnection does not ask for chats;                       *)
(*   "cancelled"  somebody else cancels a task: no handler for the event;    *)
(*   "swept"      the server fails a task by itself: the event does not name *)
(*                the session;                                               *)
(*   "refused"    a message does not reach the server: its bubble stays;     *)
(*   "late"       an answer is written to the cache although the server, and *)
(*                the events, have moved on;                                 *)
(*   "overtaken"  an event arrives before the answer of a fetch that was     *)
(*                read before the event's change;                            *)
(*   "headless"   a report of a task whose earlier ones were never loaded    *)
(*                makes the entry count as complete.                         *)
RaceKinds == {"missed", "cancelled", "swept", "refused", "late", "overtaken", "headless"}

ASSUME RacesAreKnown == Races \subseteq RaceKinds
ASSUME BoundsAreNaturals ==
    {MaxSends, MaxSteps, MaxWire, MaxLost} \subseteq Nat /\ MaxTasks \in Nat \ {0}

VARIABLES
    server,     \* [exists, said, tasks, unread]
    cache,      \* the entries of the query cache
    isOpen, activeSessionId,    \* the chat store
    sends,      \* what became of the messages of this client
    stop,       \* the request to stop a task, or None
    marks,      \* the requests to mark a session as read
    wire,       \* events on their way
    lost

vars == <<server, cache, isOpen, activeSessionId, sends, stop, marks, wire, lost>>

-----------------------------------------------------------------------------
(* The server.  A task is "live" until it ends; the reply of a task that     *)
(* "completed" is stored, and announced, a moment later.                     *)

Tasks == 1 .. MaxTasks
Sends == 1 .. MaxSends
Task(s) == [session |-> s, st |-> "live", steps |-> 0]
TaskIds == DOMAIN server.tasks
LiveIn(srv, s) == {t \in DOMAIN srv.tasks : srv.tasks[t].session = s /\ srv.tasks[t].st = "live"}

Keys == {k \in ({"messages", "pendingTask"} \X Sessions) \cup ({"taskMessages"} \X Tasks)
               \cup {<<"sessions">>} : k[1] \in Followed}
messages(s) == <<"messages", s>>
pendingTask(s) == <<"pendingTask", s>>
taskMessages(t) == <<"taskMessages", t>>
sessions == <<"sessions">>

Latest(S) == CHOOSE t \in S \cup {0} : \A u \in S : u <= t

View(srv, k) ==
    CASE k[1] = "messages" ->
            {<<"user", n>> : n \in {m \in Sends : srv.said[m] = k[2]}}
            \cup {<<"assistant", t>> : t \in {u \in DOMAIN srv.tasks :
                    srv.tasks[u].session = k[2] /\ srv.tasks[u].st = "answered"}}
      [] k[1] = "pendingTask" -> Latest(LiveIn(srv, k[2]))
      [] k[1] = "taskMessages" -> 1 .. srv.tasks[k[2]].steps
      [] k[1] = "sessions" -> [s \in srv.exists |-> [has_unread |-> srv.unread[s]]]

Event(type, s, t) == [type |-> type, session |-> s, task |-> t]
Publish(events) ==
    /\ Len(wire) + Len(events) <= MaxWire
    /\ \/ wire' = wire \o events
       \/ "missed" \in Races /\ wire' = wire

-----------------------------------------------------------------------------
(* What is rendered, and what rendering it does.                             *)

Value(c, k, none) == IF k \in Keys /\ HasData(c[k]) THEN c[k].data ELSE none
PendingTaskId(c, s) == Value(c, pendingTask(s), 0)
Replies(c, s) == {m[2] : m \in {x \in Value(c, messages(s), {}) : x[1] = "assistant"}}

\* The entries in use.  The live timeline is that of the pending task, unless
\* its reply is already among the messages, which show their own timelines.
InUse(c, active) == Keys \cap
    ({sessions} \cup
    IF active = None THEN {}
    ELSE {messages(active), pendingTask(active)}
         \cup {taskMessages(t) : t \in (Replies(c, active) \cup {PendingTaskId(c, active)}) \ {0}})
Mounted(k) == k \in InUse(cache, activeSessionId)

HasUnread(c, s) ==
    LET list == Value(c, sessions, <<>>)
    IN  s \in DOMAIN list /\ list[s].has_unread

Marking(c, s) ==
    LET idle == Cancel(c[sessions]) IN
    [c EXCEPT ![sessions] = Patch(idle, LAMBDA list : [list EXCEPT ![s].has_unread = FALSE])]

\* Mutant: the effect does not depend on has_unread.
FiresOnSwitch(c, open, active) ==
    /\ open /\ active # None /\ HasUnread(c, active)
    /\ <<open, active>> # <<isOpen, activeSessionId>>

\* The effect that marks the session in view as read runs when a value that it
\* depends on has changed.
Fires(c, open, active) ==
    /\ open /\ active # None /\ HasUnread(c, active)
    /\ \/ <<open, active>> # <<isOpen, activeSessionId>>
       \/ ~HasUnread(cache, active)

\* A page is rendered: components mount, and the effect runs.
Render(c, open, active, ms) ==
    LET fires == Fires(c, open, active)
        marked == IF fires THEN Marking(c, active) ELSE c
        mark == [session |-> active, phase |-> "sent", saved |-> Cancel(c[sessions]).data]
    IN  /\ cache' = [k \in Keys |-> IF k \in InUse(marked, active) THEN Mounts(marked[k]) ELSE marked[k]]
        /\ isOpen' = open /\ activeSessionId' = active
        /\ IF fires THEN \E m \in Marks : ms[m] = None /\ marks' = [ms EXCEPT ![m] = mark]
           ELSE marks' = ms

Rerender(c) == Render(c, isOpen, activeSessionId, marks)

Invalidated(c, K) == [k \in Keys |-> IF k \in K THEN Invalidate(c[k], Mounted(k)) ELSE c[k]]
Written(c, k, data) == IF k \in Keys THEN [c EXCEPT ![k] = Put(@, data)] ELSE c

\* An answer that is on its way may be older than what is written to the entry
\* now, or is taken for the answer to an invalidation.
Stales(k, invalidates) ==
    cache[k].fetch = "read" /\ ~(invalidates /\ Mounted(k) /\ HasData(cache[k]))
Safe(K, invalidates) == "overtaken" \in Races \/ \A k \in K \cap Keys : ~Stales(k, invalidates)

-----------------------------------------------------------------------------
(* The user.                                                                 *)

Toggle ==
    /\ Render(cache, ~isOpen, activeSessionId, marks)
    /\ UNCHANGED <<server, sends, stop, wire, lost>>

SelectSession(s) ==
    /\ isOpen /\ s \in DOMAIN Value(cache, sessions, <<>>)
    /\ s # activeSessionId
    /\ Render(cache, isOpen, s, marks)
    /\ UNCHANGED <<server, sends, stop, wire, lost>>

NewChat ==
    /\ isOpen /\ activeSessionId # None
    /\ Render(cache, isOpen, None, marks)
    /\ UNCHANGED <<server, sends, stop, wire, lost>>

OnTheWay(n) == sends[n].phase \in {"creating", "created", "sending"}
Room == Len(server.tasks) + Cardinality({n \in Sends : OnTheWay(n)}) < MaxTasks
Unsent == {n \in Sends : sends[n].phase = "unsent" /\ \A m \in 1 .. n - 1 : sends[m].phase # "unsent"}

\* The bubble of a message that is being sent.
Optimistic(c, s, n) ==
    Written(c, messages(s), Value(c, messages(s), {}) \cup {<<"optimistic", n>>})

\* The input sends when no task is pending; without a session one is created.
Send(n) ==
    /\ isOpen /\ Room /\ n \in Unsent
    /\ IF activeSessionId = None
       THEN /\ Sessions \ server.exists # {}
            /\ \A m \in Sends : sends[m].phase # "creating"
            /\ sends' = [sends EXCEPT ![n].phase = "creating"]
            /\ Rerender(cache)
       ELSE /\ PendingTaskId(cache, activeSessionId) = 0
            /\ sends' = [sends EXCEPT ![n].session = activeSessionId, ![n].phase = "sending"]
            /\ Rerender(Optimistic(cache, activeSessionId, n))
    /\ UNCHANGED <<server, stop, wire, lost>>

\* The answer to the creation of a session; the message is sent to it.
Created(n, ok) ==
    /\ ok => sends[n].phase = "created"
    /\ ~ok => sends[n].phase \in {"creating", "created"} /\ lost < MaxLost
    /\ Safe({sessions}, TRUE)
    /\ LET c == Invalidated(cache, {sessions}) IN
       IF ok THEN /\ sends' = [sends EXCEPT ![n].phase = "sending"]
                  /\ Render(Optimistic(c, sends[n].session, n), isOpen, sends[n].session, marks)
       ELSE sends' = [sends EXCEPT ![n].phase = "over"] /\ Rerender(c)
    /\ lost' = IF ok THEN lost ELSE lost + 1
    /\ UNCHANGED <<server, stop, wire>>

\* Mutant: a task that fails does not count.
RefreshingIfWell == {"chat:message", "chat:done", "task:completed"}

\* Events that make the client ask for the pending task of s.
Refreshing == {"chat:message", "chat:done", "task:completed", "task:failed"}
Coming(s) == \E i \in DOMAIN wire : wire[i].type \in Refreshing /\ wire[i].session = s
InTime(s, t) == "late" \in Races \/ t = View(server, pendingTask(s)) \/ Coming(s)

\* Mutant: the message is shown next to its bubble.
SeededTwice(c, n) ==
    LET s == sends[n].session IN
    Written(Written(c, pendingTask(s), sends[n].task),
            messages(s), Value(c, messages(s), {}) \cup {<<"user", n>>})

\* The spinner of the task that will answer message n.
Seeded(c, n) == Written(c, pendingTask(sends[n].session), sends[n].task)

\* The answer to a message, or none.
Sent(n, ok) ==
    LET s == sends[n].session IN
    /\ ok => sends[n].phase = "stored"
    /\ ~ok => /\ lost < MaxLost
              /\ \/ sends[n].phase = "stored"
                 \/ sends[n].phase = "sending" /\ "refused" \in Races
    /\ sends' = [sends EXCEPT ![n].phase = "over"]
    /\ IF ok THEN /\ InTime(s, sends[n].task) /\ Safe({messages(s)}, TRUE)
                  /\ Safe({pendingTask(s)}, FALSE)
                  /\ Rerender(Invalidated(Seeded(cache, n), {messages(s)}))
       ELSE Rerender(cache)
    /\ lost' = IF ok THEN lost ELSE lost + 1
    /\ UNCHANGED <<server, stop, wire>>

Stop ==
    /\ isOpen /\ activeSessionId # None /\ stop = None
    /\ LET t == PendingTaskId(cache, activeSessionId) IN
       /\ t # 0
       /\ stop' = [session |-> activeSessionId, task |-> t, phase |-> "sent"]
    /\ UNCHANGED <<server, cache, isOpen, activeSessionId, sends, marks, wire, lost>>

\* The request to stop succeeded or failed.
Stopped ==
    /\ stop # None
    /\ stop.phase = "done" \/ lost < MaxLost
    /\ LET s == stop.session IN
       /\ InTime(s, 0) /\ Safe({messages(s)}, TRUE) /\ Safe({pendingTask(s)}, FALSE)
       /\ Rerender(Invalidated(Written(cache, pendingTask(s), 0), {messages(s)}))
    /\ stop' = None
    /\ lost' = IF stop.phase = "done" THEN lost ELSE lost + 1
    /\ UNCHANGED <<server, sends, wire>>

\* A session was marked as read, or not.
Marked(m, ok) ==
    /\ marks[m] # None
    /\ ok => marks[m].phase = "done"
    /\ ok \/ lost < MaxLost
    /\ Safe({sessions}, TRUE)
    /\ LET c == IF ok THEN cache ELSE Written(cache, sessions, marks[m].saved) IN
       Render(Invalidated(c, {sessions}), isOpen, activeSessionId, [marks EXCEPT ![m] = None])
    /\ lost' = IF ok THEN lost ELSE lost + 1
    /\ UNCHANGED <<server, sends, stop, wire>>

-----------------------------------------------------------------------------
(* The server.                                                               *)

Client == <<cache, isOpen, activeSessionId>>

CreateSession(n, s) ==
    /\ sends[n].phase = "creating" /\ s \notin server.exists
    /\ server' = [server EXCEPT !.exists = @ \cup {s}]
    /\ sends' = [sends EXCEPT ![n].session = s, ![n].phase = "created"]
    /\ UNCHANGED <<Client, stop, marks, wire, lost>>

\* A message is stored with its task, be it sent here or by another client.
SendMessage(n, s) ==
    LET t == Len(server.tasks) + 1 IN
    /\ \/ sends[n].phase = "sending" /\ s = sends[n].session
       \/ n \in Unsent /\ s \in server.exists /\ Room
    /\ server' = [server EXCEPT !.said[n] = s, !.tasks = Append(@, Task(s))]
    /\ sends' = [sends EXCEPT ![n] = [session |-> s, task |-> t,
                    phase |-> IF sends[n].phase = "sending" THEN "stored" ELSE "over"]]
    /\ Publish(<<Event("chat:message", s, t)>>)
    /\ UNCHANGED <<Client, stop, marks, lost>>

\* A task ends; one that failed may be tried again.
End(t, how) ==
    LET s == server.tasks[t].session
        ended == [server EXCEPT !.tasks[t].st = IF how = "completed" THEN how ELSE "over"]
    IN  /\ server.tasks[t].st = "live"
        /\ how \in {"swept", "cancelled"} => how \in Races
        /\ \/ server' = ended
           \/ /\ how \in {"failed", "swept"} /\ Room
              /\ server' = [ended EXCEPT !.tasks = Append(@, Task(s))]
        /\ CASE how = "failed" -> Publish(<<Event("task:failed", s, t)>>)
             [] how = "swept" -> Publish(<<Event("task:failed", None, t)>>)
             [] how \in {"completed", "cancelled"} -> wire' = wire
        /\ UNCHANGED <<Client, sends, stop, marks, lost>>

\* The output of a task that completed becomes a message, unless it is empty.
Reply(t, empty) ==
    LET s == server.tasks[t].session IN
    /\ server.tasks[t].st = "completed"
    /\ server' = [server EXCEPT !.tasks[t].st = IF empty THEN "over" ELSE "answered",
                                !.unread[s] = @ \/ ~empty]
    /\ Publish(<<Event("chat:done", s, t), Event("task:completed", s, t)>>)
    /\ UNCHANGED <<Client, sends, stop, marks, lost>>

Report(t) ==
    /\ server.tasks[t].st = "live" /\ server.tasks[t].steps < MaxSteps
    /\ server' = [server EXCEPT !.tasks[t].steps = @ + 1]
    /\ Publish(<<[type |-> "task:message", task |-> t, seq |-> server.tasks[t].steps + 1,
                   session |-> None]>>)
    /\ UNCHANGED <<Client, sends, stop, marks, lost>>

CancelTask ==
    /\ stop # None /\ stop.phase = "sent"
    /\ stop' = [stop EXCEPT !.phase = "done"]
    /\ IF server.tasks[stop.task].st = "live"
       THEN server' = [server EXCEPT !.tasks[stop.task].st = "over"]
       ELSE server' = server
    /\ UNCHANGED <<Client, sends, marks, wire, lost>>

MarkRead(m) ==
    /\ marks[m] # None /\ marks[m].phase = "sent"
    /\ server' = [server EXCEPT !.unread[marks[m].session] = FALSE]
    /\ marks' = [marks EXCEPT ![m].phase = "done"]
    /\ Publish(<<Event("chat:session_read", marks[m].session, None)>>)
    /\ UNCHANGED <<Client, sends, stop, lost>>

-----------------------------------------------------------------------------
(* Events and fetches.                                                       *)

\* Mutant: the lists of sessions are not asked for when a reply arrives.
ListEventsRead == {"chat:session_read"}

\* Events that make the client ask for the sessions.
ListEvents == {"chat:done", "chat:session_read"}

\* Mutant: a session whose task ended is not asked for its messages.
InvalidatedByStart(e) ==
    (IF e.session # None /\ e.type \in Refreshing THEN {pendingTask(e.session)} ELSE {})
    \cup (IF e.type = "chat:message" THEN {messages(e.session)} ELSE {})
    \cup (IF e.type \in ListEvents THEN {sessions} ELSE {})

\* What an event invalidates.
InvalidatedBy(e) ==
    (IF e.session # None /\ e.type \in Refreshing THEN {pendingTask(e.session)} ELSE {})
    \cup (IF e.type \in Refreshing \ {"task:failed"} THEN {messages(e.session)} ELSE {})
    \cup (IF e.type \in ListEvents THEN {sessions} ELSE {})

\* Mutant: a report replaces the ones before it.
ReportedLast(c, e) == Written(c, taskMessages(e.task), {e.seq})

\* A report is added to the timeline of its task, once.
Reported(c, e) ==
    Written(c, taskMessages(e.task), Value(c, taskMessages(e.task), {}) \cup {e.seq})

Deliver ==
    /\ wire # <<>> /\ wire' = Tail(wire)
    /\ UNCHANGED <<server, sends, stop, lost>>
    /\ LET e == Head(wire)
           K == InvalidatedBy(e)
       IN  /\ Safe(K, TRUE)
           /\ IF e.type = "task:message"
              THEN /\ Safe({taskMessages(e.task)}, FALSE)
                   /\ "headless" \in Races
                         \/ 1 .. e.seq - 1 \subseteq Value(cache, taskMessages(e.task), {})
                   /\ Rerender(Reported(cache, e))
              ELSE Rerender(Invalidated(
                     IF e.type \in Refreshing \ {"chat:message"} /\ e.session # None
                     THEN Written(cache, pendingTask(e.session), 0) ELSE cache, K))

ServerReads(k) ==
    /\ cache[k].fetch = "asked"
    /\ UNCHANGED <<server, isOpen, activeSessionId, sends, stop, marks, wire, lost>>
    /\ cache' = [cache EXCEPT ![k] = Read(@, View(server, k))]

Arrive(k) ==
    /\ cache[k].fetch = "read"
    /\ UNCHANGED <<server, sends, stop, wire, lost>>
    /\ Rerender([cache EXCEPT ![k] = Answer(@)])

Lose(k) ==
    /\ cache[k].fetch = "read" /\ lost < MaxLost
    /\ cache' = [cache EXCEPT ![k] = Retry(@)]
    /\ lost' = lost + 1
    /\ UNCHANGED <<server, isOpen, activeSessionId, sends, stop, marks, wire>>

-----------------------------------------------------------------------------
(* Properties.                                                               *)

Bubbles == ({"user", "optimistic"} \X Sends) \cup ({"assistant"} \X Tasks)
DataOf(k) ==
    CASE k[1] = "messages" -> SUBSET Bubbles
      [] k[1] = "pendingTask" -> 0 .. MaxTasks
      [] k[1] = "taskMessages" -> SUBSET (1 .. MaxSteps)
      [] k[1] = "sessions" -> UNION {[S -> [has_unread : BOOLEAN]] : S \in SUBSET Sessions}

Mark == [session : Sessions, phase : {"sent", "done"}, saved : DataOf(sessions)]
StopRequest == [session : Sessions, task : Tasks, phase : {"sent", "done"}]

\* None is told from all that a field which may be None can hold.
ASSUME NoneIsNothing ==
    /\ None \notin Sessions \cup Mark \cup StopRequest
    /\ \A k \in Keys : \A data \in DataOf(k) : None # data
    /\ \A k \in Keys : \A data \in DataOf(k) \cup {None}, flag \in BOOLEAN :
          None # [data |-> data, flag |-> flag]

\* Types; what is marked as read, stopped or sent to is a session that exists.
TypeOK ==
    /\ server.exists \in SUBSET Sessions /\ Len(server.tasks) <= MaxTasks
    /\ \A k \in Keys : /\ cache[k].data \in DataOf(k) \cup {None}
                       /\ Fetching(cache[k]) <=> cache[k].back # None
                       /\ cache[k].fetch = "read" <=> cache[k].snap # None
    /\ activeSessionId \in server.exists \cup {None}
    /\ \A m \in Marks : marks[m] # None => marks[m].session \in server.exists
    /\ stop # None => stop.session \in server.exists /\ stop.task \in TaskIds
    /\ \A n \in Sends : sends[n].session \in server.exists \cup {None}
    /\ lost \in 0 .. MaxLost

\* Nothing is under way that could still change what a client knows.
Quiet ==
    /\ wire = <<>> /\ stop = None
    /\ \A m \in Marks : marks[m] = None
    /\ \A n \in Sends : sends[n].phase \in {"unsent", "over"}
    /\ \A t \in TaskIds : server.tasks[t].st # "completed"
    /\ \A k \in Keys : ~Fetching(cache[k])

\* An entry that would be shown without a fetch is what the server has.
Trusted(k) == HasData(cache[k]) /\ (Mounted(k) \/ ~cache[k].flag)
FreshEntry(k) == k \in Keys /\ Quiet /\ Trusted(k) => cache[k].data = View(server, k)

\* Every message is shown, once, and no bubble of a message remains that was
\* replaced by it.
MessagesAreFresh == \A s \in Sessions : FreshEntry(messages(s))
\* chat-window.tsx: "the query cache stays current even when this window is
\* closed": the task that is pending is the one the server works on.
PendingTaskIsFresh == \A s \in Sessions : FreshEntry(pendingTask(s))
\* The timeline of a task misses no report.
TimelineIsComplete == \A t \in TaskIds : FreshEntry(taskMessages(t))
\* The unread badge is that of the server.
BadgeIsFresh == FreshEntry(sessions)

\* A message and the bubble that stood for it are never shown together. Types
\* included.
NoEcho ==
    /\ TypeOK
    /\ \A s \in Sessions, n \in Sends :
          LET shown == Value(cache, messages(s), {}) IN
          <<"user", n>> \in shown => <<"optimistic", n>> \notin shown

\* A reply to a session that the user looks at becomes read.
UnreadClears ==
    \A s \in Sessions :
        (isOpen /\ activeSessionId = s /\ server.unread[s])
            ~> (~isOpen \/ activeSessionId # s \/ ~server.unread[s])

-----------------------------------------------------------------------------

Start(born, active, tasks) ==
    LET c == [k \in Keys |-> Entry(None)] IN
    /\ server = [exists |-> born, said |-> [n \in Sends |-> None], tasks |-> tasks,
                 unread |-> [s \in Sessions |-> FALSE]]
    /\ activeSessionId = active
    /\ cache = [k \in Keys |-> IF k \in InUse(c, active) THEN Mounts(c[k]) ELSE c[k]]

\* The window after the page was loaded: the session in view is the one the
\* browser remembers, and it may be in the middle of a task.
Init ==
    /\ \E born \in SUBSET Sessions : \E active \in born \cup {None} :
          \/ Start(born, active, <<>>)
          \/ \E s \in born, n \in 0 .. MaxSteps :
                Start(born, active, <<[Task(s) EXCEPT !.steps = n]>>)
    /\ isOpen = FALSE
    /\ sends = [n \in Sends |-> [session |-> None, task |-> 0, phase |-> "unsent"]]
    /\ stop = None /\ marks = [m \in Marks |-> None]
    /\ wire = <<>> /\ lost = 0

\* What the network and the server do without an end: requests are handled and
\* answered, events delivered, and a task that completed is announced.
Progress ==
    \/ Deliver \/ CancelTask \/ Stopped
    \/ \E k \in Keys : ServerReads(k) \/ Arrive(k)
    \/ \E m \in Marks : MarkRead(m) \/ Marked(m, TRUE)
    \/ \E n \in Sends : Sent(n, TRUE) \/ Created(n, TRUE)
    \/ \E t \in TaskIds, empty \in BOOLEAN : Reply(t, empty)

Next ==
    \/ Progress
    \/ Toggle
    \/ \E s \in Sessions : SelectSession(s)
    \/ NewChat
    \/ \E n \in Sends : Send(n) \/ Created(n, FALSE) \/ Sent(n, FALSE)
    \/ Stop
    \/ \E m \in Marks : Marked(m, FALSE)
    \/ \E n \in Sends, s \in Sessions : CreateSession(n, s) \/ SendMessage(n, s)
    \/ \E t \in TaskIds : \/ \E how \in {"completed", "failed", "swept", "cancelled"} : End(t, how)
                          \/ Report(t)
    \/ \E k \in Keys : Lose(k)

Spec == Init /\ [][Next]_vars

\* The user need do nothing, and an agent may work forever.
FairSpec == Spec /\ WF_vars(Progress)
=============================================================================
