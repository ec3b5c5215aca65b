----------------------------- MODULE RetryProofs -----------------------------
(***************************************************************************)
(* For any number of agents, issues, chat sessions, handlers and tasks: a  *)
(* failed task is retried at most once; as long as no server dies it is    *)
(* never dropped, and no issue stays in_progress that all its tasks have   *)
(* left.                                                                   *)
(*                                                                         *)
(* A step of the system does one of four things to the failed tasks that   *)
(* handlers hold (RetryStep), and a handler takes part in it in one of     *)
(* three ways (Move): the first part goes through the actions, the second  *)
(* shows what each way does to the invariants.                             *)
(*                                                                         *)
(* Where one request is served at a time, furthermore, the messages of a   *)
(* chat are taken in their order, an archived agent has no task, and       *)
(* whoever has a task of an assigned issue is its assignee.  The third     *)
(* part says where tasks, and what the only handler p knows, come from in  *)
(* a step (SoleStep); the fourth shows that the three invariants follow.   *)
(***************************************************************************)
EXTENDS TaskQueueProofs

Holding == {"retry", "batch", "getIssue", "hasActive", "toTodo"}

\* The table changes, but nothing fails and what is inserted is no retry.
CalmRows ==
    /\ \A t \in TaskId : status'[t] = "failed" => status[t] = "failed"
    /\ \A t \in 1..created' : t > created => row'[t].parent = None /\ row'[t].work \in Works

KeepsHeld == CalmRows /\ \A q \in Procs : Held(h'[q]) = Held(h[q])

\* An UPDATE fails some tasks and its handler holds them.
TakesFailed ==
    /\ created' = created
    /\ \E p \in Procs :
          /\ \A q \in Procs \ {p} : Held(h'[q]) = Held(h[q])
          /\ Held(h[p]) = {} /\ Held(h'[p]) \subseteq TasksIn(Active)
          /\ \A t \in Held(h'[p]) : status'[t] = "failed"
          /\ \A t \in TaskId \ Held(h'[p]) : status'[t] = "failed" => status[t] = "failed"

\* A handler retries one of its tasks, or sees that it cannot.
SettlesFailed ==
    \E p \in Procs : \E t \in Held(h[p]) :
        /\ \A q \in Procs \ {p} : Held(h'[q]) = Held(h[q])
        /\ Held(h'[p]) = Held(h[p]) \ {t}
        /\ Retried(t) \/ NotRetried(t)

\* Handlers are lost with their process.
DropsHeld ==
    /\ "crash" \in Events
    /\ UNCHANGED rowVars
    /\ \A q \in Procs : Held(h'[q]) \subseteq Held(h[q])

RetryStep == KeepsHeld \/ TakesFailed \/ SettlesFailed \/ DropsHeld

-----------------------------------------------------------------------------
(* Shapes of steps *)

LEMMA HeldNone ==
    ASSUME NEW s, s.pc \notin Holding
    PROVE  Held(s) = {}
BY DEF Held, Holding

LEMMA GotoHeld ==
    ASSUME HandlersOK, NEW p \in Procs, NEW s, Goto(p, s)
    PROVE  h'[p] = s /\ \A q \in Procs \ {p} : h'[q] = h[q]
BY DEF Goto, HandlersOK

\* Tasks move to a status that is not a failure.
LEMMA CalmStatus ==
    ASSUME RowsTypeOK, NEW S, NEW st, st # "failed", SetStatus(S, st)
    PROVE  CalmRows
BY DEF SetStatus, CalmRows, RowsTypeOK

LEMMA CalmUnchanged ==
    ASSUME RowsTypeOK, UNCHANGED rowVars
    PROVE  CalmRows
BY DEF rowVars, CalmRows, RowsTypeOK

LEMMA CalmInsert ==
    ASSUME RowsTypeOK, NEW a, NEW w \in Works, NEW r, Insert(FreshRow(a, w, r))
    PROVE  CalmRows
PROOF
<1> DEFINE n == created + 1
<1>1. n \in TaskId /\ created \in Nat /\ created' = n
  BY TaskRowsAssumption DEF Insert, RowsTypeOK, TaskId
<1>2. row' = [row EXCEPT ![n] = FreshRow(a, w, r)] /\ status' = [status EXCEPT ![n] = "queued"]
  BY DEF Insert
<1>3. row'[n].parent = None /\ row'[n].work = w
  BY <1>1, <1>2 DEF RowsTypeOK, FreshRow
<1>4. \A t \in TaskId : status'[t] = "failed" => status[t] = "failed"
  BY <1>1, <1>2 DEF RowsTypeOK
<1>5. \A t \in 1..created' : t > created => t = n
  BY <1>1
<1> QED
  BY <1>3, <1>4, <1>5 DEF CalmRows

HandlersWork == \A p \in Procs : WorkOK(h[p])

\* The steps of a handler that holds failed tasks.
Loops(p) ==
    \/ RetryOne(p) \/ BatchRetry(p) \/ BatchGetIssue(p)
    \/ BatchHasActive(p) \/ BatchResetIssue(p) \/ BatchDone(p)

\* A handler begins with the tasks it has failed: a whole batch, of which it has
\* seen nothing yet, or the one that a daemon reports.
Begins(p) ==
    \/ h'[p].pc = "batch" /\ h'[p].kept = {}
    \/ h'[p].pc = "retry" /\ reason'[h'[p].task] \in DaemonReasons

Move(p) ==
    \/ h'[p] = h[p]
    \/ h[p].pc \notin Holding /\ (h'[p].pc \notin Holding \/ Begins(p))
    \/ Loops(p)

Moves == "crash" \in Events \/ \A p \in Procs : Move(p)

Fate == RetryStep /\ HandlersWork' /\ Moves

\* A handler that holds nothing goes on without holding anything.
LEMMA GoesOn ==
    ASSUME HandlersOK, HandlersWork, CalmRows, NEW p \in Procs, NEW s, Goto(p, s),
           h[p].pc \notin Holding, s.pc \notin Holding, WorkOK(s)
    PROVE  Fate
PROOF
<1>1. h'[p] = s /\ \A q \in Procs \ {p} : h'[q] = h[q]
  BY GotoHeld
<1>2. \A q \in Procs : Held(h'[q]) = Held(h[q])
  BY <1>1, HeldNone
<1>3. HandlersWork' /\ Moves
  BY <1>1 DEF HandlersWork, Moves, Move
<1> QED
  BY <1>2, <1>3 DEF Fate, RetryStep, KeepsHeld

LEMMA NobodyMoves ==
    ASSUME HandlersWork, CalmRows, h' = h
    PROVE  Fate
BY DEF Fate, RetryStep, KeepsHeld, HandlersWork, Moves, Move

\* Records that a handler may go on with.
LEMMA PlainRecords ==
    /\ Idle.pc \notin Holding /\ WorkOK(Idle)
    /\ \A a, w : Load(a, w).pc \notin Holding /\ (w \in Works => WorkOK(Load(a, w)))
    /\ \A S : Reconcile(S).pc \notin Holding /\ WorkOK(Reconcile(S))
    /\ \A i, e : Save(i, e).pc \notin Holding /\ (i \in Issues /\ e.status \in Requested => WorkOK(Save(i, e)))
BY DEF Idle, Load, Reconcile, Save, Holding, WorkOK

-----------------------------------------------------------------------------
(* The actions *)

LEMMA UserRequestFate ==
    ASSUME Typed, HandlersWork, NEW p \in Procs, UserRequest(p)
    PROVE  Fate
PROOF
<1> USE TypedParts, PlainRecords
<1>1. ASSUME NEW kind, Request(p, kind), UNCHANGED rowVars,
             NEW s, s.pc \notin Holding, WorkOK(s), Goto(p, s)
      PROVE  Fate
  <2>1. h[p].pc \notin Holding
    BY <1>1 DEF Request, At, Holding
  <2> QED
    BY <1>1, <2>1, CalmUnchanged, GoesOn
<1>2. ASSUME NEW a \in Agents, NEW i \in Issues, CommentOrMention(p, a, i)
      PROVE  Fate
  BY <1>1, <1>2 DEF CommentOrMention, dbVars, rowVars, Works
<1>3. ASSUME NEW i \in Issues, NEW a \in Agents \cup {None}, AssignIssue(p, i, a)
      PROVE  Fate
  BY <1>1, <1>3 DEF AssignIssue, Requested, dbVars, rowVars
<1>4. ASSUME NEW i \in Issues, NEW st \in IssueStatus, MoveIssue(p, i, st)
      PROVE  Fate
  <2>1. "status" \in Events /\ st \in Requested
    BY <1>4 DEF MoveIssue, Request, Requested
  <2> QED
    BY <1>1, <1>4, <2>1 DEF MoveIssue, dbVars, rowVars
<1>5. ASSUME NEW i \in Issues, RerunIssue(p, i)
      PROVE  Fate
  <2> DEFINE s == [Idle EXCEPT !.pc = "rerun", !.agent = issue[i].assignee, !.work = i]
  <2>1. s.pc \notin Holding /\ WorkOK(s)
    BY DEF Idle, Holding, WorkOK, Works
  <2> QED
    BY <1>1, <1>5, <2>1 DEF RerunIssue, dbVars, rowVars
<1>6. ASSUME NEW c \in Chats, SendChatMessage(p, c)
      PROVE  Fate
  BY <1>1, <1>6 DEF SendChatMessage, dbVars, rowVars, Works
<1>7. ASSUME NEW x \in Runs, NEW a \in Agents, DispatchRunOnly(p, x, a)
      PROVE  Fate
  BY <1>1, <1>7 DEF DispatchRunOnly, dbVars, rowVars, Works
<1>8. ASSUME NEW t \in TaskId, CancelTask(p, t)
      PROVE  Fate
  <2>1. CalmRows
    BY <1>8, CalmStatus DEF CancelTask, Cancel
  <2>2. h[p].pc \notin Holding
    BY <1>8 DEF CancelTask, Request, At, Holding
  <2> QED
    BY <1>8, <2>1, <2>2, GoesOn DEF CancelTask
<1>9. ASSUME NEW a \in Agents, ArchiveAgent(p, a)
      PROVE  Fate
  <2> DEFINE s == [Idle EXCEPT !.pc = "cancelAgent", !.agent = a]
  <2>1. s.pc \notin Holding /\ WorkOK(s)
    BY DEF Idle, Holding, WorkOK
  <2> QED
    BY <1>1, <1>9, <2>1 DEF ArchiveAgent
<1>10. ASSUME NEW a \in Agents, RestoreAgent(p, a)
       PROVE  Fate
  BY <1>10, CalmUnchanged, NobodyMoves DEF RestoreAgent
<1>11. ASSUME NEW a \in Agents, NEW r \in Runtimes, MoveAgent(p, a, r)
       PROVE  Fate
  BY <1>11, CalmUnchanged, NobodyMoves DEF MoveAgent
<1> QED
  BY <1>2, <1>3, <1>4, <1>5, <1>6, <1>7, <1>8, <1>9, <1>10, <1>11 DEF UserRequest

LEMMA RequestHandlersFate ==
    ASSUME Typed, HandlersWork, NEW p \in Procs,
           \/ SaveIssue(p) \/ LoadAgent(p) \/ InsertTask(p)
           \/ CancelTasksForIssue(p) \/ CancelTasksOfAgent(p) \/ CancelForRerun(p)
           \/ ReconcileCount(p) \/ ReconcileWrite(p)
    PROVE  Fate
PROOF
<1> USE TypedParts, PlainRecords
<1>1. h[p] \in Handler /\ WorkOK(h[p])
  BY DEF HandlersOK, HandlersWork
<1>2. CASE SaveIssue(p)
  <2>1. PICK new : Goto(p, FollowUp(h[p].work, h[p].edit, new))
    BY <1>2 DEF SaveIssue
  <2>2. h[p].work \in Issues /\ h[p].pc \notin Holding
    BY <1>1, <1>2 DEF SaveIssue, At, WorkOK, Holding
  <2> DEFINE i == h[p].work
             s == FollowUp(i, h[p].edit, new)
             c == [Idle EXCEPT !.pc = "cancelIssue", !.work = i]
  <2>3. /\ c.pc \notin Holding /\ WorkOK(c)
        /\ \A a : [c EXCEPT !.agent = a].pc \notin Holding /\ WorkOK([c EXCEPT !.agent = a])
    BY <2>2 DEF Idle, Holding, WorkOK, Works
  <2>4. \A a : Load(a, i).pc \notin Holding /\ WorkOK(Load(a, i))
    BY <2>2 DEF Works
  <2>5. s.pc \notin Holding /\ WorkOK(s)
    <3> HIDE DEF i
    <3> QED
      BY <2>3, <2>4 DEF FollowUp
  <2> QED
    BY <1>2, <2>1, <2>2, <2>5, CalmUnchanged, GoesOn DEF SaveIssue
<1>3. CASE LoadAgent(p)
  <2>1. h[p].pc = "load" /\ h[p].work \in Works
    BY <1>1, <1>3 DEF LoadAgent, At, WorkOK
  <2> DEFINE s == [h[p] EXCEPT !.pc = "insert", !.rt = runtimeOf[h[p].agent]]
  <2>2. s.pc \notin Holding /\ WorkOK(s)
    BY <1>1, <2>1 DEF Handler, Holding, WorkOK
  <2>3. h[p].pc \notin Holding /\ CalmRows
    BY <1>3, <2>1, CalmUnchanged DEF Holding, LoadAgent, dbVars, rowVars
  <2> QED
    BY <1>3, <2>2, <2>3, GoesOn DEF LoadAgent, Return
<1>4. CASE InsertTask(p)
  <2>1. h[p].work \in Works /\ h[p].pc \notin Holding
    BY <1>1, <1>4 DEF InsertTask, At, WorkOK, Holding
  <2>2. CalmRows
    BY <1>4, <2>1, CalmUnchanged, CalmInsert DEF InsertTask
  <2> QED
    BY <1>4, <2>1, <2>2, GoesOn DEF InsertTask, Return
<1>5. CASE CancelTasksForIssue(p)
  <2>1. h[p].work \in Works /\ h[p].pc \notin Holding
    BY <1>1, <1>5 DEF CancelTasksForIssue, At, WorkOK, Holding
  <2>2. CalmRows
    BY <1>5, CalmStatus DEF CancelTasksForIssue, Cancel
  <2> QED
    BY <1>5, <2>1, <2>2, GoesOn DEF CancelTasksForIssue, Return
<1>6. CASE CancelTasksOfAgent(p)
  <2>1. h[p].pc \notin Holding
    BY <1>6 DEF CancelTasksOfAgent, At, Holding
  <2>2. CalmRows
    BY <1>6, CalmStatus DEF CancelTasksOfAgent, Cancel
  <2> QED
    BY <1>6, <2>1, <2>2, GoesOn DEF CancelTasksOfAgent, Return
<1>7. CASE ReconcileCount(p)
  <2>1. h[p].pc = "count" /\ h[p].pc \notin Holding
    BY <1>7 DEF ReconcileCount, At, Holding
  <2>2. PICK a, st : Goto(p, [h[p] EXCEPT !.pc = "write", !.agent = a, !.seen = st])
    BY <1>7 DEF ReconcileCount
  <2> DEFINE s == [h[p] EXCEPT !.pc = "write", !.agent = a, !.seen = st]
  <2>3. s.pc \notin Holding /\ WorkOK(s)
    BY <1>1, <2>1 DEF Handler, Holding, WorkOK
  <2>4. CalmRows
    BY <1>7, CalmUnchanged DEF ReconcileCount, dbVars, rowVars
  <2> QED
    BY <2>1, <2>2, <2>3, <2>4, GoesOn
<1>8. CASE ReconcileWrite(p)
  <2>1. h[p].pc \notin Holding
    BY <1>8 DEF ReconcileWrite, At, Holding
  <2>2. h[p].then = "load" => h[p].work \in Works
    BY <1>1 DEF WorkOK
  <2> QED
    BY <1>8, <2>1, <2>2, CalmUnchanged, GoesOn DEF ReconcileWrite
<1>9. CASE CancelForRerun(p)
  <2>1. h[p].work \in Works /\ h[p].pc \notin Holding
    BY <1>1, <1>9 DEF CancelForRerun, At, WorkOK, Holding
  <2>2. CalmRows
    BY <1>9, CalmStatus DEF CancelForRerun, Cancel
  <2> DEFINE s == [Idle EXCEPT !.pc = "count", !.agents = {h[p].agent}, !.agent = h[p].agent,
                               !.work = h[p].work, !.then = "load"]
  <2>3. s.pc \notin Holding /\ WorkOK(s)
    BY <2>1 DEF Idle, Holding, WorkOK
  <2> QED
    BY <1>9, <2>1, <2>2, <2>3, GoesOn DEF CancelForRerun
<1> QED
  BY <1>2, <1>3, <1>4, <1>5, <1>6, <1>7, <1>8, <1>9

LEMMA ClaimFate ==
    ASSUME Typed, HandlersWork, NEW p \in Procs,
           \/ ClaimCount(p) \/ ClaimSelect(p) \/ ClaimUpdate(p) \/ ClaimReturn(p)
    PROVE  Fate
PROOF
<1> USE TypedParts, PlainRecords
<1>1. h[p] \in Handler /\ WorkOK(h[p])
  BY DEF HandlersOK, HandlersWork
<1>2. h[p].pc \in {"agent", "select", "update", "working"} /\ h[p].pc \notin Holding
  BY DEF ClaimCount, ClaimSelect, ClaimUpdate, ClaimReturn, At, Holding
<1>3. ASSUME NEW s \in Handler, s.pc \in {"agent", "select", "update", "working"},
             s.then = h[p].then, s.work = h[p].work
      PROVE  s.pc \notin Holding /\ WorkOK(s)
  BY <1>1, <1>3 DEF Holding, WorkOK
<1>4. CASE ClaimCount(p)
  <2>1. CalmRows
    BY <1>4, CalmUnchanged DEF ClaimCount, dbVars, rowVars
  <2>2. CASE Return(p)
    BY <1>2, <2>1, <2>2, GoesOn DEF Return
  <2>3. ASSUME NEW a \in h[p].agents,
               LET s == [h[p] EXCEPT !.agents = @ \ {a}]
               IN  Goto(p, IF CountRunningTasks(a) >= MaxConcurrent THEN s
                           ELSE [s EXCEPT !.pc = "select", !.agent = a])
        PROVE  Fate
    <3> DEFINE s == [h[p] EXCEPT !.agents = @ \ {a}]
               u == [s EXCEPT !.pc = "select", !.agent = a]
    <3>1. s \in Handler /\ s.pc = h[p].pc /\ s.then = h[p].then /\ s.work = h[p].work
      BY <1>1 DEF Handler
    <3>2. a \in Agents
      BY <1>1, <2>3 DEF Handler
    <3>3. u \in Handler /\ u.pc = "select" /\ u.then = h[p].then /\ u.work = h[p].work
      BY <3>1, <3>2 DEF Handler, PC
    <3> QED
      BY <1>2, <1>3, <2>1, <2>3, <3>1, <3>3, GoesOn
  <2> QED
    BY <1>4, <2>2, <2>3 DEF ClaimCount
<1>5. CASE ClaimSelect(p)
  <2> DEFINE s == [h[p] EXCEPT !.pc = "update", !.cand = Claimable(h[p].agent)]
  <2>1. s.pc \notin Holding /\ WorkOK(s)
    BY <1>1, <1>2 DEF Handler, Holding, WorkOK
  <2> QED
    BY <1>2, <1>5, <2>1, CalmUnchanged, GoesOn DEF ClaimSelect, dbVars, rowVars
<1>6. CASE ClaimUpdate(p)
  <2>1. ASSUME NEW t, SetStatus({t}, "dispatched"),
               Goto(p, [h[p] EXCEPT !.pc = "working", !.task = t, !.cand = {}])
        PROVE  Fate
    <3> DEFINE s == [h[p] EXCEPT !.pc = "working", !.task = t, !.cand = {}]
    <3>1. s.pc \notin Holding /\ WorkOK(s)
      BY <1>1, <1>2 DEF Handler, Holding, WorkOK
    <3> QED
      BY <1>2, <2>1, <3>1, CalmStatus, GoesOn
  <2>2. ASSUME UNCHANGED rowVars,
               Goto(p, [h[p] EXCEPT !.pc = "agent", !.agent = None, !.cand = {}])
        PROVE  Fate
    <3> DEFINE s == [h[p] EXCEPT !.pc = "agent", !.agent = None, !.cand = {}]
    <3>1. s.pc \notin Holding /\ WorkOK(s)
      BY <1>1, <1>2 DEF Handler, Holding, WorkOK
    <3> QED
      BY <1>2, <2>2, <3>1, CalmUnchanged, GoesOn
  <2> QED
    BY <1>6, <2>1, <2>2 DEF ClaimUpdate, rowVars
<1>7. CASE ClaimReturn(p)
  <2> DEFINE s == [h[p] EXCEPT !.pc = "agent", !.agent = None, !.task = None]
  <2>1. s.pc \notin Holding /\ WorkOK(s)
    BY <1>1, <1>2 DEF Handler, Holding, WorkOK
  <2> QED
    BY <1>2, <1>7, <2>1, CalmUnchanged, GoesOn DEF ClaimReturn, Return
<1> QED
  BY <1>4, <1>5, <1>6, <1>7

\* One handler takes the tasks that its UPDATE fails.
LEMMA Takes ==
    ASSUME Typed, HandlersWork, NEW p \in Procs, h[p].pc \notin Holding,
           NEW S \in SUBSET TasksIn(Active), NEW why, Fail(S, why),
           NEW s, Goto(p, s), Held(s) = S, WorkOK(s),
           \/ s.pc \notin Holding
           \/ s.pc = "batch" /\ s.kept = {}
           \/ s.pc = "retry" /\ why \in DaemonReasons
    PROVE  Fate
PROOF
<1>1. h'[p] = s /\ \A q \in Procs \ {p} : h'[q] = h[q]
  BY TypedParts, GotoHeld
<1>2. Held(h[p]) = {} /\ Held(h'[p]) = S
  BY <1>1, HeldNone
<1>3. created' = created /\ \A t \in TaskId : status'[t] = IF t \in S THEN "failed" ELSE status[t]
  BY DEF Fail, SetStatus
<1>4. TakesFailed
  BY <1>1, <1>2, <1>3 DEF TakesFailed, TasksIn
<1>5. HandlersWork'
  BY <1>1 DEF HandlersWork
<1>6. \A t \in S : reason'[t] = why
  BY DEF Fail, TasksIn
<1>7. ASSUME s.pc = "retry" /\ why \in DaemonReasons
      PROVE  Moves
  BY <1>1, <1>2, <1>6, <1>7 DEF Moves, Move, Begins, Held
<1>8. ASSUME s.pc \notin Holding \/ (s.pc = "batch" /\ s.kept = {})
      PROVE  Moves
  BY <1>1, <1>8 DEF Moves, Move, Begins
<1> QED
  BY <1>4, <1>5, <1>7, <1>8 DEF Fate, RetryStep

\* The loop of HandleFailedTasks goes on with the same tasks.
LEMMA BatchRecords ==
    ASSUME NEW s \in Handler, s.pc \in {"getIssue", "hasActive", "toTodo", "batch"}, WorkOK(s)
    PROVE  /\ \A k : /\ WorkOK([s EXCEPT !.pc = "hasActive", !.kept = k])
                     /\ Held([s EXCEPT !.pc = "hasActive", !.kept = k]) = s.batch \ {s.task}
           /\ WorkOK([s EXCEPT !.pc = "toTodo"])
           /\ Held([s EXCEPT !.pc = "toTodo"]) = s.batch \ {s.task}
           /\ \A t, k : /\ WorkOK([s EXCEPT !.pc = "getIssue", !.task = t, !.kept = k])
                        /\ Held([s EXCEPT !.pc = "getIssue", !.task = t, !.kept = k])
                             = s.batch \ {t}
BY DEF Handler, WorkOK, Held

LEMMA SameHeld ==
    ASSUME HandlersOK, HandlersWork, CalmRows, NEW p \in Procs, NEW s, Goto(p, s),
           Held(s) = Held(h[p]), WorkOK(s), Loops(p)
    PROVE  Fate
PROOF
<1>1. h'[p] = s /\ \A q \in Procs \ {p} : h'[q] = h[q]
  BY GotoHeld
<1>2. Moves
  BY <1>1 DEF Moves, Move
<1> QED
  BY <1>1, <1>2 DEF Fate, RetryStep, KeepsHeld, HandlersWork

LEMMA Settles ==
    ASSUME HandlersOK, HandlersWork, NEW p \in Procs, NEW t \in Held(h[p]),
           Retried(t) \/ NotRetried(t),
           NEW s, Goto(p, s), Held(s) = Held(h[p]) \ {t}, WorkOK(s), Loops(p)
    PROVE  Fate
PROOF
<1>1. h'[p] = s /\ \A q \in Procs \ {p} : h'[q] = h[q]
  BY GotoHeld
<1>2. SettlesFailed
  BY <1>1 DEF SettlesFailed
<1>3. HandlersWork' /\ Moves
  BY <1>1 DEF HandlersWork, Moves, Move
<1> QED
  BY <1>2, <1>3 DEF Fate, RetryStep

LEMMA FailureFate ==
    ASSUME Typed, HandlersWork, NEW p \in Procs,
           \/ RetryOne(p) \/ FailOffline(p) \/ BatchRetry(p) \/ BatchGetIssue(p)
           \/ BatchHasActive(p) \/ BatchResetIssue(p) \/ BatchDone(p)
    PROVE  Fate
PROOF
<1> USE TypedParts, PlainRecords
<1>1. h[p] \in Handler /\ WorkOK(h[p])
  BY DEF HandlersOK, HandlersWork
<1>2. CASE RetryOne(p)
  <2>1. Held(h[p]) = {h[p].task}
    BY <1>2 DEF RetryOne, At, Held
  <2>2. Held(Reconcile({row[h[p].task].agent})) = {}
    BY HeldNone
  <2> QED
    BY <1>2, <2>1, <2>2, Settles DEF RetryOne, Loops
<1>3. CASE FailOffline(p)
  <2> DEFINE S == {t \in TasksIn(Active) : ~online[row[t].runtime]}
             s == IF S = {} THEN Idle ELSE [Idle EXCEPT !.pc = "batch", !.batch = S]
  <2>1. h[p].pc \notin Holding
    BY <1>3 DEF FailOffline, At, Holding
  <2>2. /\ Held(s) = S /\ WorkOK(s)
        /\ s.pc \notin Holding \/ (s.pc = "batch" /\ s.kept = {})
    <3> HIDE DEF S
    <3> QED
      BY DEF Held, Idle, Holding, WorkOK
  <2> QED
    BY <1>3, <2>1, <2>2, Takes DEF FailOffline
<1>4. CASE BatchRetry(p)
  <2>1. PICK t \in h[p].batch :
          /\ Retried(t) \/ NotRetried(t)
          /\ \E k : \/ Goto(p, [h[p] EXCEPT !.pc = "getIssue", !.task = t, !.kept = k])
                    \/ NextFailed(p, t, k)
    BY <1>4 DEF BatchRetry
  <2>2. Held(h[p]) = h[p].batch /\ h[p].pc = "batch"
    BY <1>4 DEF BatchRetry, At, Held
  <2>3. ASSUME NEW k, NEW s, s = [h[p] EXCEPT !.pc = "getIssue", !.task = t, !.kept = k],
               Goto(p, s)
        PROVE  Fate
    <3>1. Held(s) = h[p].batch \ {t} /\ WorkOK(s)
      BY <1>1, <2>2, <2>3, BatchRecords
    <3> QED
      BY <1>4, <2>1, <2>2, <2>3, <3>1, Settles DEF Loops
  <2>4. ASSUME NEW k, NEW s,
               s = [h[p] EXCEPT !.pc = "batch", !.task = None, !.batch = @ \ {t}, !.kept = k,
                                !.agents = @ \cup {row[t].agent}],
               Goto(p, s)
        PROVE  Fate
    <3>1. Held(s) = h[p].batch \ {t} /\ WorkOK(s)
      BY <1>1, <2>2, <2>4 DEF Handler, WorkOK, Held
    <3> QED
      BY <1>4, <2>1, <2>2, <2>4, <3>1, Settles DEF Loops
  <2> QED
    BY <2>1, <2>3, <2>4 DEF NextFailed
<1>5. CASE BatchGetIssue(p) \/ BatchHasActive(p) \/ BatchResetIssue(p)
  <2>1. /\ h[p].pc \in {"getIssue", "hasActive", "toTodo"}
        /\ Held(h[p]) = h[p].batch \ {h[p].task}
    BY <1>5 DEF BatchGetIssue, BatchHasActive, BatchResetIssue, At, Held
  <2>2. CalmRows
    BY <1>5, CalmUnchanged DEF BatchGetIssue, BatchHasActive, BatchResetIssue, dbVars, rowVars
  <2>3. \/ NextFailed(p, h[p].task, h[p].kept)
        \/ Goto(p, [h[p] EXCEPT !.pc = "toTodo"])
        \/ \E k : Goto(p, [h[p] EXCEPT !.pc = "hasActive", !.kept = k])
    BY <1>5 DEF BatchGetIssue, BatchHasActive, BatchResetIssue
  <2> DEFINE u == [h[p] EXCEPT !.pc = "batch", !.task = None, !.batch = @ \ {h[p].task},
                               !.kept = h[p].kept,
                               !.agents = @ \cup {row[h[p].task].agent}]
  <2>4. CASE Goto(p, u)
    <3>1. Held(u) = h[p].batch \ {h[p].task} /\ WorkOK(u)
      BY <1>1, <2>1 DEF Handler, WorkOK, Held
    <3> QED
      BY <1>5, <2>1, <2>2, <2>4, <3>1, SameHeld DEF Loops
  <2>5. CASE Goto(p, [h[p] EXCEPT !.pc = "toTodo"])
    BY <1>1, <1>5, <2>1, <2>2, <2>5, BatchRecords, SameHeld DEF Loops
  <2>6. ASSUME NEW k, Goto(p, [h[p] EXCEPT !.pc = "hasActive", !.kept = k])
        PROVE  Fate
    BY <1>1, <1>5, <2>1, <2>2, <2>6, BatchRecords, SameHeld DEF Loops
  <2> QED
    BY <2>3, <2>4, <2>5, <2>6 DEF NextFailed
<1>6. CASE BatchDone(p)
  <2>1. Held(h[p]) = {}
    BY <1>6 DEF BatchDone, At, Held
  <2>2. Held(Reconcile(h[p].agents)) = {}
    BY HeldNone
  <2> QED
    BY <1>6, <2>1, <2>2, CalmUnchanged, SameHeld DEF BatchDone, Loops, dbVars, rowVars
<1> QED
  BY <1>2, <1>3, <1>4, <1>5, <1>6

LEMMA DaemonCallFate ==
    ASSUME Typed, HandlersWork, NEW p \in Procs, DaemonCall(p)
    PROVE  Fate
PROOF
<1> USE TypedParts, PlainRecords
<1>1. ASSUME NEW t \in TaskId, NEW st \in AgentSets, AgentSetsIssue(p, t, st)
      PROVE  Fate
  <2>1. h[p].pc \notin Holding /\ row[t].work \in Issues
    BY <1>1 DEF AgentSetsIssue, At, Holding
  <2> QED
    BY <1>1, <2>1, CalmUnchanged, GoesOn DEF AgentSetsIssue, Requested, dbVars, rowVars
<1>2. ASSUME NEW r \in Runtimes, ClaimTaskForRuntime(p, r)
      PROVE  Fate
  <2>1. h[p].pc \notin Holding
    BY <1>2 DEF ClaimTaskForRuntime, At, Holding
  <2>2. PICK S : Goto(p, [Idle EXCEPT !.pc = "agent", !.rt = r, !.agents = S])
    BY <1>2 DEF ClaimTaskForRuntime
  <2>3. LET s == [Idle EXCEPT !.pc = "agent", !.rt = r, !.agents = S]
        IN  s.pc \notin Holding /\ WorkOK(s)
    BY DEF Idle, Holding, WorkOK
  <2> QED
    BY <1>2, <2>1, <2>2, <2>3, CalmUnchanged, GoesOn DEF ClaimTaskForRuntime, dbVars, rowVars
<1>3. ASSUME NEW t \in TaskId, CompleteTask(p, t)
      PROVE  Fate
  <2>1. h[p].pc \notin Holding
    BY <1>3 DEF CompleteTask, At, Holding
  <2>2. CalmRows
    BY <1>3, CalmStatus DEF CompleteTask
  <2> QED
    BY <1>3, <2>1, <2>2, GoesOn DEF CompleteTask
<1>4. ASSUME NEW S \in SUBSET TaskId
      PROVE  LET s == [Idle EXCEPT !.pc = "batch", !.batch = S]
             IN  Held(s) = S /\ WorkOK(s) /\ s.pc = "batch" /\ s.kept = {}
  BY DEF Idle, Held, WorkOK
<1>5. ASSUME NEW t \in TaskId, NEW why \in DaemonReasons, FailTask(p, t, why)
      PROVE  Fate
  <2> DEFINE s == [Idle EXCEPT !.pc = "retry", !.task = t]
  <2>1. Held(s) = {t} /\ WorkOK(s) /\ s.pc = "retry"
    BY DEF Idle, Held, WorkOK
  <2>2. h[p].pc \notin Holding /\ {t} \in SUBSET TasksIn(Active)
    BY <1>5 DEF FailTask, At, Holding
  <2> QED
    BY <1>5, <2>1, <2>2, Takes DEF FailTask
<1>6. ASSUME NEW r \in Runtimes, RecoverOrphans(p, r)
      PROVE  Fate
  <2> DEFINE S == {t \in TasksIn(Active) : row[t].runtime = r}
  <2>1. h[p].pc \notin Holding /\ S \in SUBSET TasksIn(Active) /\ S \in SUBSET TaskId
    BY <1>6 DEF RecoverOrphans, At, Holding, TasksIn
  <2>2. Fail(S, "runtime_recovery") /\ Goto(p, [Idle EXCEPT !.pc = "batch", !.batch = S])
    BY <1>6 DEF RecoverOrphans
  <2> HIDE DEF S
  <2> QED
    BY <1>4, <2>1, <2>2, Takes
<1> QED
  BY <1>1, <1>2, <1>3, <1>5, <1>6 DEF DaemonCall

LEMMA SweepFate ==
    ASSUME Typed, HandlersWork, NEW p \in Procs, Sweep(p)
    PROVE  Fate
PROOF
<1> USE TypedParts
<1>1. ASSUME NEW S \in SUBSET Runtimes, MarkStaleRuntimes(p, S)
      PROVE  Fate
  <2>1. h[p].pc \notin Holding
    BY <1>1 DEF MarkStaleRuntimes, At, Holding
  <2>2. LET s == [Idle EXCEPT !.pc = "failOffline"] IN s.pc \notin Holding /\ WorkOK(s)
    BY DEF Idle, Holding, WorkOK
  <2> QED
    BY <1>1, <2>1, <2>2, CalmUnchanged, GoesOn DEF MarkStaleRuntimes
<1>2. ASSUME NEW S \in SUBSET TaskId, SweepStaleTasks(p, S)
      PROVE  Fate
  <2>1. h[p].pc \notin Holding /\ S \in SUBSET TasksIn(Active)
    BY <1>2 DEF SweepStaleTasks, At, Holding
  <2>2. LET s == [Idle EXCEPT !.pc = "batch", !.batch = S]
        IN  Held(s) = S /\ WorkOK(s) /\ s.pc = "batch" /\ s.kept = {}
    BY DEF Idle, Held, WorkOK
  <2> QED
    BY <1>2, <2>1, <2>2, Takes DEF SweepStaleTasks
<1> QED
  BY <1>1, <1>2 DEF Sweep

LEMMA CrashFate ==
    ASSUME Typed, HandlersWork, NEW P \in SUBSET Procs, ServerCrash(P)
    PROVE  Fate
PROOF
<1>1. UNCHANGED rowVars /\ "crash" \in Events
  BY DEF ServerCrash, dbVars, rowVars
<1>2. \A q \in Procs : h'[q] = Idle \/ h'[q] = h[q]
  BY DEF ServerCrash
<1>3. Held(Idle) = {} /\ WorkOK(Idle)
  BY PlainRecords, HeldNone
<1> QED
  BY <1>1, <1>2, <1>3 DEF Fate, RetryStep, DropsHeld, HandlersWork, Moves

\* Every step of the system.
LEMMA NextFate ==
    ASSUME Typed, HandlersWork, [Next]_vars
    PROVE  Fate
PROOF
<1> USE TypedParts
<1>1. CASE UNCHANGED vars
  BY <1>1, CalmUnchanged, NobodyMoves DEF vars, dbVars, rowVars
<1>2. ASSUME NEW p \in Procs, Continue(p)
      PROVE  Fate
  BY <1>2, RequestHandlersFate, ClaimFate, FailureFate DEF Continue
<1>3. ASSUME NEW t \in TaskId, StartTask(t)
      PROVE  Fate
  BY <1>3, CalmStatus, NobodyMoves DEF StartTask
<1>4. ASSUME NEW r \in Runtimes, Heartbeat(r) \/ Deregister(r)
      PROVE  Fate
  BY <1>4, CalmUnchanged, NobodyMoves DEF Heartbeat, Deregister
<1>5. CASE Quiet
  BY <1>1, <1>5 DEF Quiet
<1> QED
  BY <1>1, <1>2, <1>3, <1>4, <1>5, UserRequestFate, DaemonCallFate, SweepFate, CrashFate
     DEF Next

-----------------------------------------------------------------------------
(* The invariants *)

\* Rows that exist keep their columns, and the row of a retry names its parent.
LEMMA RetriedRows ==
    ASSUME Typed, NEW t \in 1..created, Retried(t)
    PROVE  /\ created + 1 \in TaskId /\ created' = created + 1
           /\ row'[created + 1].parent = t
           /\ row'[created + 1].attempt = row[t].attempt + 1
           /\ row'[created + 1].agent = row[t].agent
           /\ row'[created + 1].work = row[t].work
           /\ \A u \in 1..created : row'[u] = row[u]
           /\ \A u \in TaskId : u # created + 1 => status'[u] = status[u]
           /\ status'[created + 1] = "queued"
           /\ reason' = reason
PROOF
<1> USE TypedParts, TaskRowsAssumption
<1>1. created + 1 \in TaskId /\ created' = created + 1 /\ reason' = reason
  BY DEF Retried, Insert, TaskId, RowsTypeOK
<1>2. /\ row' = [row EXCEPT ![created + 1] = RetryRow(t)]
      /\ status' = [status EXCEPT ![created + 1] = "queued"]
  BY DEF Retried, Insert
<1>3. row[t] \in Row
  BY DEF RowsTypeOK, TaskId
<1>4. /\ RetryRow(t).parent = t /\ RetryRow(t).attempt = row[t].attempt + 1
      /\ RetryRow(t).agent = row[t].agent /\ RetryRow(t).work = row[t].work
  BY <1>3 DEF RetryRow, Row
<1>5. row'[created + 1] = RetryRow(t) /\ \A u \in 1..created : row'[u] = row[u]
  BY <1>1, <1>2 DEF RowsTypeOK, TaskId
<1>6. /\ \A u \in TaskId : u # created + 1 => status'[u] = status[u]
      /\ status'[created + 1] = "queued"
  BY <1>1, <1>2 DEF RowsTypeOK
<1> QED
  BY <1>1, <1>4, <1>5, <1>6

\* A task that has failed keeps its row, and so does every row that exists.
LEMMA OldRows ==
    ASSUME Typed, RowStep
    PROVE  /\ created \in Nat /\ created' \in {created, created + 1} /\ created' \in Nat
           /\ \A t \in 1..created : t \in TaskId /\ row'[t] = row[t]
           /\ \A t \in TaskId : status[t] = "failed" =>
                 t \in 1..created /\ status'[t] = "failed" /\ reason'[t] = reason[t]
           /\ \A t \in 1..created : row[t] \in Row
           /\ \A p \in Procs : Held(h[p]) \subseteq 1..created
PROOF
<1> USE TypedParts, TaskRowsAssumption
<1>1. /\ created \in Nat /\ created' \in {created, created + 1} /\ created' \in Nat
      /\ \A t \in 1..created : t \in TaskId /\ row'[t] = row[t] /\ row[t] \in Row
  BY RowStepTyped DEF RowsTypeOK, TaskId
<1>2. \A t \in TaskId : status[t] = "failed" =>
         t \in 1..created /\ status'[t] = "failed" /\ reason'[t] = reason[t]
  BY RowStepTerminal DEF Terminal, RowsTypeOK, TaskId
<1>3. \A p \in Procs : Held(h[p]) \subseteq 1..created
  BY DEF HandlersOK, LocalsOK, LocalOK, Held
<1> QED
  BY <1>1, <1>2, <1>3

\* When no retry is inserted, the chains of attempts stay as they are.
LEMMA ChainsStay ==
    ASSUME Typed, RowStep, RetriedAtMostOnce,
           \A t \in 1..created' : t > created => row'[t].parent = None
    PROVE  /\ RetriedAtMostOnce'
           /\ \A t \in 1..created : (\A u \in 1..created : row[u].parent # t)
                                     => \A u \in 1..created' : row'[u].parent # t
PROOF
<1> USE OldRows
<1>1. \A u \in 1..created' : row'[u].parent # None => u \in 1..created /\ row'[u] = row[u]
  OBVIOUS
<1>2. ASSUME NEW t \in 1..created, NEW u \in 1..created', row'[u].parent = t
      PROVE  u \in 1..created /\ row[u].parent = t
  BY <1>1, <1>2, TaskRowsAssumption DEF TaskId
<1>3. ASSUME NEW u \in 1..created', row'[u].parent # None
      PROVE  /\ status'[row'[u].parent] = "failed"
             /\ reason'[row'[u].parent] \in Retryable
             /\ row'[u].attempt = row'[row'[u].parent].attempt + 1
             /\ row'[u].agent = row'[row'[u].parent].agent
             /\ row'[u].work = row'[row'[u].parent].work
             /\ \A v \in 1..created' \ {u} : row'[v].parent # row'[u].parent
  <2>1. u \in 1..created /\ row'[u] = row[u] /\ row[u].parent \in TaskId
    BY <1>1, <1>3 DEF Row
  <2>2. /\ status[row[u].parent] = "failed" /\ reason[row[u].parent] \in Retryable
        /\ row[u].attempt = row[row[u].parent].attempt + 1
        /\ row[u].agent = row[row[u].parent].agent
        /\ row[u].work = row[row[u].parent].work
        /\ \A v \in 1..created \ {u} : row[v].parent # row[u].parent
    BY <1>3, <2>1 DEF RetriedAtMostOnce
  <2>3. row[u].parent \in 1..created
    BY <2>1, <2>2
  <2> QED
    BY <1>1, <1>3, <2>1, <2>2, <2>3
<1> QED
  BY <1>2, <1>3 DEF RetriedAtMostOnce

LEMMA RetryInvStep ==
    ASSUME Typed, RetryInv, RowStep, RetryStep
    PROVE  RetryInv'
PROOF
<1> USE TypedParts, TaskRowsAssumption
<1> USE DEF RetryInv
<1>1. CASE KeepsHeld
  BY <1>1, OldRows, ChainsStay DEF KeepsHeld, CalmRows, HeldIsUnretried, HeldOnce
<1>2. CASE DropsHeld
  <2>1. /\ created' = created /\ row' = row /\ status' = status
        /\ \A q \in Procs : Held(h'[q]) \subseteq Held(h[q])
    BY <1>2 DEF DropsHeld, rowVars
  <2>2. RetriedAtMostOnce'
    BY <2>1, OldRows, ChainsStay
  <2>3. HeldIsUnretried'
    BY <2>1 DEF HeldIsUnretried
  <2>4. HeldOnce'
    BY <2>1 DEF HeldOnce
  <2> QED
    BY <2>2, <2>3, <2>4
<1>3. CASE TakesFailed
  <2>1. PICK p \in Procs :
          /\ \A q \in Procs \ {p} : Held(h'[q]) = Held(h[q])
          /\ Held(h[p]) = {} /\ Held(h'[p]) \subseteq TasksIn(Active)
          /\ \A t \in Held(h'[p]) : status'[t] = "failed"
    BY <1>3 DEF TakesFailed
  <2>2. \A t \in Held(h'[p]) : t \in TaskId /\ status[t] # "failed" /\ t \in 1..created
    BY <2>1 DEF TasksIn, Active, RowsTypeOK, TaskId
  <2>3. \A t \in Held(h'[p]) : \A u \in 1..created : row[u].parent # t
    BY <2>2 DEF RetriedAtMostOnce, TaskId
  <2>4. created' = created /\ \A u \in 1..created : row'[u] = row[u]
    BY <1>3, OldRows DEF TakesFailed
  <2>5. RetriedAtMostOnce'
    BY <2>4, OldRows, ChainsStay
  <2>6. HeldIsUnretried'
    BY <2>1, <2>3, <2>4, OldRows DEF HeldIsUnretried
  <2>7. HeldOnce'
    BY <2>1, <2>2 DEF HeldOnce, HeldIsUnretried
  <2> QED
    BY <2>5, <2>6, <2>7
<1>4. CASE SettlesFailed
  <2>0. PICK p \in Procs : \E t \in Held(h[p]) :
          /\ \A q \in Procs \ {p} : Held(h'[q]) = Held(h[q])
          /\ Held(h'[p]) = Held(h[p]) \ {t}
          /\ Retried(t) \/ NotRetried(t)
    BY <1>4 DEF SettlesFailed
  <2>1. PICK t \in Held(h[p]) :
          /\ \A q \in Procs \ {p} : Held(h'[q]) = Held(h[q])
          /\ Held(h'[p]) = Held(h[p]) \ {t}
          /\ Retried(t) \/ NotRetried(t)
    BY <2>0
  <2>2. /\ t \in 1..created /\ status[t] = "failed"
        /\ \A u \in 1..created : row[u].parent # t
    BY <2>1, OldRows DEF HeldIsUnretried
  <2>3. HeldOnce'
    BY <2>1 DEF HeldOnce
  <2>4. CASE NotRetried(t)
    <3>1. created' = created
      BY <2>4 DEF NotRetried, rowVars
    <3>2. RetriedAtMostOnce'
      BY <3>1, OldRows, ChainsStay
    <3>3. HeldIsUnretried'
      BY <2>1, <3>1, OldRows DEF HeldIsUnretried
    <3> QED
      BY <2>3, <3>2, <3>3
  <2>5. CASE Retried(t)
    <3> DEFINE n == created + 1
    <3>1. /\ created' = n /\ row'[n].parent = t /\ row'[n].attempt = row[t].attempt + 1
          /\ row'[n].agent = row[t].agent /\ row'[n].work = row[t].work
          /\ \A u \in 1..created : row'[u] = row[u]
      BY <2>2, <2>5, RetriedRows
    <3>2. ASSUME NEW q \in Procs, NEW u \in Held(h'[q])
          PROVE  u # t /\ u \in Held(h[q])
      BY <2>1 DEF HeldOnce
    <3>3. HeldIsUnretried'
      <4> SUFFICES ASSUME NEW q \in Procs, NEW u \in Held(h'[q])
                   PROVE  status'[u] = "failed" /\ \A v \in 1..created' : row'[v].parent # u
        BY DEF HeldIsUnretried
      <4>1. u # t /\ u \in 1..created /\ status[u] = "failed"
            /\ \A v \in 1..created : row[v].parent # u
        BY <3>2, OldRows DEF HeldIsUnretried
      <4> QED
        BY <3>1, <4>1, OldRows
    <3>4. status'[t] = "failed" /\ reason'[t] \in Retryable /\ row'[t] = row[t]
      BY <2>2, <2>5, OldRows DEF Retried, CanRetry
    <3>5. ASSUME NEW u \in 1..created, row[u].parent # None
          PROVE  /\ row[u].parent \in 1..created /\ row[u].parent # t
                 /\ status'[row[u].parent] = "failed"
                 /\ reason'[row[u].parent] \in Retryable
                 /\ row[u].attempt = row'[row[u].parent].attempt + 1
                 /\ row[u].agent = row'[row[u].parent].agent
                 /\ row[u].work = row'[row[u].parent].work
                 /\ \A v \in 1..created \ {u} : row[v].parent # row[u].parent
      <4>1. row[u].parent \in TaskId /\ row[u].parent # t
        BY <2>2, <3>5, OldRows DEF Row
      <4>2. /\ status[row[u].parent] = "failed" /\ reason[row[u].parent] \in Retryable
            /\ row[u].attempt = row[row[u].parent].attempt + 1
            /\ row[u].agent = row[row[u].parent].agent
            /\ row[u].work = row[row[u].parent].work
            /\ \A v \in 1..created \ {u} : row[v].parent # row[u].parent
        BY <3>5 DEF RetriedAtMostOnce
      <4> QED
        BY <4>1, <4>2, OldRows
    <3>6. RetriedAtMostOnce'
      <4> SUFFICES ASSUME NEW u \in 1..n, row'[u].parent # None
                   PROVE  /\ status'[row'[u].parent] = "failed"
                          /\ reason'[row'[u].parent] \in Retryable
                          /\ row'[u].attempt = row'[row'[u].parent].attempt + 1
                          /\ row'[u].agent = row'[row'[u].parent].agent
                          /\ row'[u].work = row'[row'[u].parent].work
                          /\ \A v \in 1..n \ {u} : row'[v].parent # row'[u].parent
        BY <3>1 DEF RetriedAtMostOnce
      <4>1. CASE u = n
        BY <2>2, <3>1, <3>4, <4>1, OldRows
      <4>2. CASE u \in 1..created
        BY <3>1, <3>5, <4>2, OldRows
      <4> QED
        BY <4>1, <4>2, OldRows
    <3> QED
      BY <2>3, <3>3, <3>6
  <2> QED
    BY <2>1, <2>4, <2>5
<1> QED
  BY <1>1, <1>2, <1>3, <1>4 DEF RetryStep

\* Every task is there for something, and so is its retry.
LEMMA WorksStep ==
    ASSUME Typed, WorksOK, RowStep, Fate
    PROVE  WorksOK'
PROOF
<1>1. HandlersWork'
  BY DEF Fate
<1>2. ASSUME created' = created
      PROVE  \A t \in 1..created' : row'[t].work \in Works
  BY <1>2, OldRows DEF WorksOK
<1>3. CASE KeepsHeld
  <2> SUFFICES ASSUME NEW t \in 1..created'
               PROVE  row'[t].work \in Works
    BY <1>1 DEF WorksOK, HandlersWork
  <2>1. CASE t > created
    BY <1>3, <2>1 DEF KeepsHeld, CalmRows
  <2>2. CASE t \in 1..created
    BY <2>2, OldRows DEF WorksOK
  <2> QED
    BY <2>1, <2>2, OldRows
<1>4. CASE TakesFailed \/ DropsHeld
  BY <1>1, <1>2, <1>4 DEF TakesFailed, DropsHeld, rowVars, WorksOK, HandlersWork
<1>5. CASE SettlesFailed
  <2>0. PICK p \in Procs : \E t \in Held(h[p]) : Retried(t) \/ NotRetried(t)
    BY <1>5 DEF SettlesFailed
  <2>1. PICK t \in Held(h[p]) : Retried(t) \/ NotRetried(t)
    BY <2>0
  <2>2. t \in 1..created
    BY OldRows
  <2>3. CASE Retried(t)
    <3>1. /\ created' = created + 1 /\ row'[created + 1].work = row[t].work
          /\ \A u \in 1..created : row'[u] = row[u]
      BY <2>2, <2>3, RetriedRows
    <3>2. \A u \in 1..created' : row'[u].work \in Works
      BY <2>2, <3>1, OldRows DEF WorksOK
    <3> QED
      BY <1>1, <3>2 DEF WorksOK, HandlersWork
  <2>4. CASE NotRetried(t)
    BY <1>1, <1>2, <2>4 DEF NotRetried, rowVars, WorksOK, HandlersWork
  <2> QED
    BY <2>1, <2>3, <2>4
<1> QED
  BY <1>3, <1>4, <1>5 DEF Fate, RetryStep

\* A task becomes pending when it is inserted, and only if its lane has none.
LEMMA PendingRows ==
    ASSUME RowsTypeOK, RowStep
    PROVE  /\ \A u \in 1..created : status'[u] \in Pending => status[u] \in Pending
           /\ created' = created + 1 =>
                 IndexAdmits(row'[created + 1].agent, row'[created + 1].work)
PROOF
<1> USE TaskRowsAssumption DEF TaskId
<1>1. CASE UNCHANGED rowVars
  BY <1>1 DEF rowVars, RowsTypeOK
<1>2. CASE InsertStep
  <2>1. PICK r \in Row : Insert(r)
    BY <1>2 DEF InsertStep
  <2>2. created + 1 \in TaskId /\ created \in Nat
    BY <2>1 DEF Insert, RowsTypeOK
  <2>3. row'[created + 1] = r
    BY <2>1, <2>2 DEF Insert, RowsTypeOK
  <2>4. \A u \in 1..created : status'[u] = status[u]
    BY <2>1, <2>2 DEF Insert, RowsTypeOK
  <2> QED
    BY <2>1, <2>3, <2>4 DEF Insert
<1>3. created \in Nat /\ \A u \in 1..created : u \in TaskId
  BY DEF RowsTypeOK
<1>4. CASE ClaimStep
  BY <1>3, <1>4 DEF ClaimStep, SetStatus, TasksIn, Pending
<1>5. CASE StartStep
  BY <1>3, <1>5 DEF StartStep, SetStatus, TasksIn, Pending
<1>6. CASE EndStep
  BY <1>3, <1>6 DEF EndStep, SetStatus, TasksIn, Pending, Terminal
<1>7. CASE CancelStep
  BY <1>3, <1>7 DEF CancelStep, SetStatus, TasksIn, Pending
<1> QED
  BY <1>1, <1>2, <1>4, <1>5, <1>6, <1>7 DEF RowStep

LEMMA LatestIsPendingStep ==
    ASSUME Typed, LatestIsPending, RowStep
    PROVE  LatestIsPending'
PROOF
<1> USE TypedParts
<1> SUFFICES ASSUME NEW t \in 1..created', NEW u \in 1..created',
                    u < t, row'[t].work \in Issues, SameLane(t, u)', status'[u] \in Pending
             PROVE  FALSE
  BY DEF LatestIsPending
<1>1. u \in 1..created /\ row'[u] = row[u] /\ status[u] \in Pending /\ u \in TaskId
  BY OldRows, PendingRows
<1>2. CASE t \in 1..created
  <2>1. row'[t] = row[t]
    BY <1>2, OldRows
  <2>2. SameLane(t, u)
    BY <1>1, <2>1 DEF SameLane
  <2> QED
    BY <1>1, <1>2, <2>1, <2>2 DEF LatestIsPending
<1>3. CASE t = created + 1 /\ created' = created + 1
  <2>1. IndexAdmits(row'[t].agent, row'[t].work)
    BY <1>3, PendingRows
  <2> QED
    BY <1>1, <2>1 DEF IndexAdmits, HasPendingTask, TasksIn, SameLane
<1> QED
  BY <1>2, <1>3, OldRows

\* Whoever fails a task holds it, and has held nothing until then.
LEMMA NewlyFailed ==
    ASSUME Typed, RowStep, RetryStep, "crash" \notin Events,
           NEW t \in TaskId, status'[t] = "failed", status[t] # "failed"
    PROVE  \E p \in Procs : t \in Held(h'[p]) /\ Held(h[p]) = {}
PROOF
<1>1. ~KeepsHeld /\ ~DropsHeld
  BY DEF KeepsHeld, CalmRows, DropsHeld
<1>2. CASE TakesFailed
  BY <1>2 DEF TakesFailed
<1>3. CASE SettlesFailed
  <2>0. PICK p \in Procs : \E u \in Held(h[p]) : Retried(u) \/ NotRetried(u)
    BY <1>3 DEF SettlesFailed
  <2>1. PICK u \in Held(h[p]) : Retried(u) \/ NotRetried(u)
    BY <2>0
  <2>2. u \in 1..created
    BY OldRows
  <2>3. CASE Retried(u)
    <3>1. status'[created + 1] = "queued" /\ (status'[t] = status[t] \/ t = created + 1)
      BY <2>2, <2>3, RetriedRows
    <3> QED
      BY <3>1
  <2>4. CASE NotRetried(u)
    BY <2>4 DEF NotRetried, rowVars
  <2> QED
    BY <2>1, <2>3, <2>4
<1> QED
  BY <1>1, <1>2, <1>3 DEF RetryStep

\* What failed before still has its retry, or its handler, ahead of it.
LEMMA HeldOrFollowedStep ==
    ASSUME Typed, WorksOK, LatestIsPending, HeldOrFollowed, HeldIsUnretried, RowStep,
           RetryStep, "crash" \notin Events
    PROVE  HeldOrFollowed'
PROOF
<1> USE TypedParts
<1> SUFFICES ASSUME NEW t \in TaskId, status'[t] = "failed", CanRetry(t)'
             PROVE  \/ \E p \in Procs : t \in Held(h'[p])
                    \/ \E u \in 1..created' : u > t /\ SameLane(t, u)'
  BY DEF HeldOrFollowed, TasksIn
<1>1. CASE status[t] # "failed"
  BY <1>1, NewlyFailed
<1>2. CASE status[t] = "failed"
  <2>1. /\ t \in 1..created /\ row'[t] = row[t] /\ reason'[t] = reason[t]
        /\ created \in Nat /\ created' \in {created, created + 1}
    BY <1>2, OldRows
  <2>2. CanRetry(t) /\ row[t].work \in Issues \cup Chats
    BY <1>2, <2>1 DEF CanRetry, WorksOK, Works
  <2>3. CASE \E u \in 1..created : u > t /\ SameLane(t, u)
    BY <2>1, <2>3, OldRows DEF SameLane
  <2>4. ASSUME NEW p \in Procs, t \in Held(h[p])
        PROVE  \/ \E q \in Procs : t \in Held(h'[q])
               \/ \E u \in 1..created' : u > t /\ SameLane(t, u)'
    <3>1. CASE KeepsHeld
      BY <2>4, <3>1 DEF KeepsHeld
    <3>2. CASE TakesFailed
      BY <2>4, <3>2 DEF TakesFailed
    <3>3. CASE SettlesFailed
      <4>0. PICK q \in Procs : \E u \in Held(h[q]) :
              /\ \A x \in Procs \ {q} : Held(h'[x]) = Held(h[x])
              /\ Held(h'[q]) = Held(h[q]) \ {u}
              /\ Retried(u) \/ NotRetried(u)
        BY <3>3 DEF SettlesFailed
      <4>1. PICK u \in Held(h[q]) :
              /\ \A x \in Procs \ {q} : Held(h'[x]) = Held(h[x])
              /\ Held(h'[q]) = Held(h[q]) \ {u}
              /\ Retried(u) \/ NotRetried(u)
        BY <4>0
      <4>2. CASE p # q \/ u # t
        BY <2>4, <4>1, <4>2
      <4>3. CASE u = t /\ Retried(t)
        <5>1. PICK n \in Nat :
                /\ n = created + 1 /\ created' = n
                /\ row'[n].agent = row[t].agent /\ row'[n].work = row[t].work
          BY <2>1, <4>3, RetriedRows
        <5>2. SameLane(t, n)'
          BY <2>1, <2>2, <5>1 DEF SameLane
        <5>3. n \in 1..created' /\ n > t
          BY <2>1, <5>1
        <5> QED
          BY <5>2, <5>3
      <4>4. CASE u = t /\ NotRetried(t)
        <5>1. /\ row[t].work \in Issues
              /\ HasPendingTask(row[t].agent, row[t].work)
              /\ UNCHANGED rowVars
          BY <2>2, <4>4 DEF NotRetried, IndexAdmits
        <5>2. PICK v \in TaskId : /\ status[v] \in Pending
                                  /\ row[v].agent = row[t].agent
                                  /\ row[v].work = row[t].work
          BY <5>1 DEF HasPendingTask, TasksIn
        <5>3. v \in 1..created /\ v # t
          BY <1>2, <5>2 DEF Pending, RowsTypeOK, TaskId
        <5>4. SameLane(t, v)
          BY <2>2, <5>2 DEF SameLane
        <5>5. ~(v < t)
          BY <2>1, <5>1, <5>2, <5>3, <5>4 DEF LatestIsPending
        <5>6. v > t
          BY <2>1, <5>3, <5>5
        <5> QED
          BY <2>1, <5>1, <5>3, <5>4, <5>6 DEF rowVars, SameLane
      <4> QED
        BY <4>1, <4>2, <4>3, <4>4
    <3>4. CASE DropsHeld
      BY <3>4 DEF DropsHeld
    <3> QED
      BY <3>1, <3>2, <3>3, <3>4 DEF RetryStep
  <2> QED
    BY <2>1, <2>2, <2>3, <2>4, <1>2 DEF HeldOrFollowed, TasksIn
<1> QED
  BY <1>1, <1>2

-----------------------------------------------------------------------------
(* Issues that all their tasks have left *)

\* An issue becomes in_progress only if somebody asks for it.
LEMMA IssueStep ==
    ASSUME Typed, HandlersWork, [Next]_vars, "status" \notin Events,
           "in_progress" \notin AgentSets,
           NEW i \in Issues, issue'[i].status = "in_progress"
    PROVE  issue[i].status = "in_progress"
PROOF
<1>1. issue \in [Issues -> IssueRow]
  BY TypedParts DEF OthersOK
<1>2. CASE UNCHANGED issue
  BY <1>2
<1>3. ASSUME NEW p \in Procs, SaveIssue(p)
      PROVE  issue[i].status = "in_progress"
  <2>1. h[p].edit.status \in {None} \cup AgentSets
    BY <1>3 DEF SaveIssue, At, HandlersWork, WorkOK, Requested
  <2> DEFINE e   == h[p].edit
             new == [status   |-> IF e.status = None THEN issue[h[p].work].status ELSE e.status,
                     assignee |-> IF e.assign THEN e.to ELSE e.prev.assignee]
  <2>2. issue' = [issue EXCEPT ![h[p].work] = new]
    BY <1>3 DEF SaveIssue
  <2>3. new.status = IF e.status = None THEN issue[h[p].work].status ELSE e.status
    OBVIOUS
  <2> HIDE DEF new
  <2> QED
    BY <1>1, <2>1, <2>2, <2>3
<1>4. ASSUME NEW p \in Procs, BatchResetIssue(p)
      PROVE  issue[i].status = "in_progress"
  <2>1. PICK j : issue' = [issue EXCEPT ![j].status = "todo"]
    BY <1>4 DEF BatchResetIssue
  <2> QED
    BY <1>1, <2>1 DEF IssueRow
<1>5. ASSUME NEW p \in Procs, UserRequest(p)
      PROVE  UNCHANGED issue
  BY <1>5 DEF UserRequest, CommentOrMention, AssignIssue, MoveIssue, RerunIssue,
              SendChatMessage, DispatchRunOnly, CancelTask, ArchiveAgent, RestoreAgent,
              MoveAgent, dbVars
<1>6. ASSUME NEW p \in Procs, Continue(p)
      PROVE  UNCHANGED issue \/ SaveIssue(p) \/ BatchResetIssue(p)
  BY <1>6 DEF Continue, LoadAgent, InsertTask, CancelTasksForIssue, CancelTasksOfAgent,
              CancelForRerun, ReconcileCount, ReconcileWrite, ClaimCount, ClaimSelect,
              ClaimUpdate, ClaimReturn, RetryOne, FailOffline, BatchRetry, BatchGetIssue,
              BatchHasActive, BatchDone, dbVars
<1>7. ASSUME NEW p \in Procs, DaemonCall(p) \/ Sweep(p)
      PROVE  UNCHANGED issue
  BY <1>7 DEF DaemonCall, Sweep, AgentSetsIssue, ClaimTaskForRuntime, CompleteTask, FailTask,
              RecoverOrphans, MarkStaleRuntimes, SweepStaleTasks, dbVars
<1>8. ASSUME \/ \E t \in TaskId : StartTask(t)
             \/ \E r \in Runtimes : Heartbeat(r) \/ Deregister(r)
             \/ \E P \in SUBSET Procs : ServerCrash(P)
             \/ Quiet \/ UNCHANGED vars
      PROVE  UNCHANGED issue
  BY <1>8 DEF StartTask, Heartbeat, Deregister, ServerCrash, Quiet, vars, dbVars
<1> QED
  BY <1>2, <1>3, <1>4, <1>5, <1>6, <1>7, <1>8 DEF Next

\* A step that fails no task of an issue does not leave it without tasks.
LEMMA AbandonedBefore ==
    ASSUME Typed, RowStep, NEW i \in Issues, Abandoned(i)',
           \A t \in TaskId : row'[t].work = i /\ status'[t] = "failed" => status[t] = "failed"
    PROVE  Abandoned(i)
PROOF
<1> USE TypedParts
<1>1. \A t \in TaskId : status[t] = "failed" => t \in 1..created /\ reason'[t] = reason[t]
  BY OldRows
<1>2. \A t \in 1..created : t \in TaskId /\ t \in 1..created' /\ row'[t] = row[t]
  BY OldRows
<1>3. ASSUME NEW t \in 1..created', row'[t].work = i
      PROVE  /\ t \in TaskId /\ status'[t] = "failed" /\ reason'[t] # "agent_error"
             /\ status[t] = "failed" /\ t \in 1..created /\ reason[t] # "agent_error"
  <2>1. status'[t] = "failed" /\ reason'[t] # "agent_error"
    BY <1>3 DEF Abandoned
  <2>2. t \in TaskId
    BY OldRows, RowStepTyped, TaskRowsAssumption DEF RowsTypeOK, TaskId
  <2> QED
    BY <1>1, <1>3, <2>1, <2>2
<1>4. \E t \in 1..created' : row'[t].work = i
  BY DEF Abandoned
<1> QED
  BY <1>2, <1>3, <1>4 DEF Abandoned

\* The loop of HandleFailedTasks does not pass over an abandoned issue.
LEMMA LoopResets ==
    ASSUME Typed, RowStep, NEW p \in Procs, Loops(p), NEW i \in Issues,
           Resets(h[p], i), Abandoned(i)',
           issue[i].status = "in_progress", issue'[i].status = "in_progress"
    PROVE  Resets(h[p], i)'
PROOF
<1> USE TypedParts
<1>1. h[p] \in Handler /\ h[p].batch \subseteq 1..created
  BY DEF HandlersOK, LocalsOK, LocalOK
<1>2. \A t \in 1..created : row'[t] = row[t]
  BY OldRows
<1>3. \A t \in 1..created' : row'[t].work = i => status'[t] = "failed"
  BY DEF Abandoned
<1>4. ASSUME NEW t, NEW k, NextFailed(p, t, k), i \notin k,
             NEW u \in h[p].batch, row[u].work = i, u # t
      PROVE  Resets(h[p], i)'
  <2>1. h'[p] = [h[p] EXCEPT !.pc = "batch", !.task = None, !.batch = @ \ {t}, !.kept = k,
                             !.agents = @ \cup {row[t].agent}]
    BY <1>4, GotoHeld DEF NextFailed
  <2>2. h'[p].pc = "batch" /\ i \notin h'[p].kept /\ u \in h'[p].batch
    BY <1>1, <1>4, <2>1 DEF Handler
  <2> QED
    BY <1>1, <1>2, <1>4, <2>2 DEF Resets
<1>5. CASE RetryOne(p)
  BY <1>5 DEF RetryOne, At, Resets
<1>6. CASE BatchDone(p)
  BY <1>6 DEF BatchDone, At, Resets
<1>7. CASE BatchRetry(p)
  <2>1. PICK u \in h[p].batch : row[u].work = i /\ i \notin h[p].kept
    BY <1>7 DEF BatchRetry, At, Resets
  <2>2. PICK t \in h[p].batch :
           LET kept == h[p].kept \cup ({row[t].work} \cap Issues)
               go(k) == IF row[t].work \in Issues
                        THEN Goto(p, [h[p] EXCEPT !.pc = "getIssue", !.task = t, !.kept = k])
                        ELSE NextFailed(p, t, k)
           IN  \/ Retried(t) /\ go(kept)
               \/ NotRetried(t) /\ go(h[p].kept)
    BY <1>7 DEF BatchRetry
  <2>3. t \in 1..created
    BY <1>1
  <2>4. row[t].work = i => ~Retried(t)
    <3>1. ASSUME Retried(t), row[t].work = i
          PROVE  FALSE
      <4>1. /\ created' = created + 1 /\ row'[created + 1].work = i
            /\ status'[created + 1] = "queued" /\ created \in Nat
        BY <2>3, <3>1, RetriedRows
      <4> QED
        BY <1>3, <4>1
    <3> QED
      BY <3>1
  <2>5. PICK k : /\ i \notin k
                 /\ IF row[t].work \in Issues
                    THEN Goto(p, [h[p] EXCEPT !.pc = "getIssue", !.task = t, !.kept = k])
                    ELSE NextFailed(p, t, k)
    BY <2>1, <2>2, <2>4
  <2>6. CASE row[t].work \in Issues
    <3>1. h'[p] = [h[p] EXCEPT !.pc = "getIssue", !.task = t, !.kept = k]
      BY <2>5, <2>6, GotoHeld
    <3>2. h'[p].pc = "getIssue" /\ h'[p].kept = k /\ h'[p].batch = h[p].batch
      BY <1>1, <3>1 DEF Handler
    <3> QED
      BY <1>1, <1>2, <2>1, <2>5, <3>2 DEF Resets
  <2>7. CASE row[t].work \notin Issues
    BY <1>4, <2>1, <2>5, <2>7
  <2> QED
    BY <2>6, <2>7
<1>8. CASE BatchGetIssue(p)
  <2>1. PICK u \in h[p].batch : row[u].work = i /\ i \notin h[p].kept
    BY <1>8 DEF BatchGetIssue, At, Resets
  <2> DEFINE j == row[h[p].task].work
  <2>2. h[p].task \in 1..created
    BY <1>8 DEF BatchGetIssue, At, LocalsOK, LocalOK, Typed
  <2>3. CASE Goto(p, [h[p] EXCEPT !.pc = "hasActive", !.kept = @ \cup {j}])
    <3>0. h'[p] = [h[p] EXCEPT !.pc = "hasActive", !.kept = @ \cup {j}]
      BY <2>3, GotoHeld
    <3>1. /\ h'[p].pc = "hasActive" /\ h'[p].kept = h[p].kept \cup {j}
          /\ h'[p].batch = h[p].batch /\ h'[p].task = h[p].task
      BY <1>1, <3>0 DEF Handler
    <3>2. row'[h'[p].task].work = j
      BY <1>2, <2>2, <3>1
    <3> QED
      BY <1>1, <1>2, <2>1, <3>1, <3>2 DEF Resets
  <2>4. CASE NextFailed(p, h[p].task, h[p].kept) /\ ~(j \in Issues \ h[p].kept
                                                    /\ issue[j].status = "in_progress")
    BY <1>4, <2>1, <2>4
  <2> QED
    BY <1>8, <2>3, <2>4 DEF BatchGetIssue
<1>9. CASE BatchHasActive(p) \/ BatchResetIssue(p)
  <2> DEFINE j == row[h[p].task].work
  <2>1. h[p].pc \in {"hasActive", "toTodo"} /\ h[p].task \in 1..created
    BY <1>9 DEF BatchHasActive, BatchResetIssue, At, LocalsOK, LocalOK, Typed
  <2>2. ASSUME Goto(p, [h[p] EXCEPT !.pc = "toTodo"])
        PROVE  Resets(h[p], i)'
    <3>1. /\ h'[p].pc = "toTodo" /\ h'[p].kept = h[p].kept
          /\ h'[p].batch = h[p].batch /\ h'[p].task = h[p].task
      BY <1>1, <2>2, GotoHeld DEF Handler
    <3> QED
      BY <1>1, <1>2, <2>1, <3>1 DEF Resets
  <2>3. ASSUME j # i, NextFailed(p, h[p].task, h[p].kept)
        PROVE  Resets(h[p], i)'
    <3>1. PICK u \in h[p].batch : row[u].work = i /\ i \notin h[p].kept
      BY <2>1, <2>3 DEF Resets
    <3> QED
      BY <1>4, <2>3, <3>1
  <2>4. CASE BatchHasActive(p) /\ HasActiveTask(j)
    <3>1. j # i
      <4>1. SUFFICES ASSUME j = i PROVE FALSE
        OBVIOUS
      <4>2. PICK t \in TaskId : status[t] \in Live /\ row[t].work = i
        BY <2>4, <4>1 DEF HasActiveTask, TasksIn
      <4>3. t \in 1..created
        BY <4>2 DEF RowsTypeOK, Live, TaskId
      <4>4. created' = created /\ status' = status /\ row' = row
        BY <2>4 DEF BatchHasActive, dbVars
      <4> QED
        BY <1>3, <4>2, <4>3, <4>4 DEF Live
    <3> QED
      BY <2>3, <2>4, <3>1 DEF BatchHasActive
  <2>5. CASE BatchHasActive(p) /\ ~HasActiveTask(j)
    BY <2>2, <2>5 DEF BatchHasActive
  <2>6. CASE BatchResetIssue(p)
    <3>1. issue' = [issue EXCEPT ![j].status = "todo"] /\ NextFailed(p, h[p].task, h[p].kept)
      BY <2>6 DEF BatchResetIssue
    <3>2. issue \in [Issues -> IssueRow]
      BY DEF OthersOK
    <3>3. j # i
      BY <3>1, <3>2 DEF IssueRow
    <3> QED
      BY <2>3, <3>1, <3>3
  <2> QED
    BY <1>9, <2>4, <2>5, <2>6
<1> QED
  BY <1>5, <1>6, <1>7, <1>8, <1>9 DEF Loops

\* A handler with nothing to hold that fails nothing leaves the table alone.
LEMMA LoopsFailNothing ==
    ASSUME Typed, NEW p \in Procs, Loops(p), Held(h[p]) = {}
    PROVE  UNCHANGED rowVars
PROOF
<1>1. CASE RetryOne(p)
  BY <1>1 DEF RetryOne, At, Held
<1>2. CASE BatchRetry(p)
  BY <1>2 DEF BatchRetry, At, Held
<1> QED
  BY <1>1, <1>2 DEF Loops, BatchGetIssue, BatchHasActive, BatchResetIssue, BatchDone,
                    dbVars, rowVars

LEMMA AbandonedStep ==
    ASSUME Typed, HandlersWork, RowStep, Fate, [Next]_vars, AbandonedIsReset,
           "crash" \notin Events, "status" \notin Events,
           "in_progress" \notin AgentSets, DaemonReasons \subseteq {"agent_error"}
    PROVE  AbandonedIsReset'
PROOF
<1> USE TypedParts
<1> SUFFICES ASSUME NEW i \in Issues, Abandoned(i)', issue'[i].status = "in_progress"
             PROVE  \E p \in Procs : Resets(h[p], i)'
  BY DEF AbandonedIsReset
<1>1. issue[i].status = "in_progress"
  BY IssueStep
<1>2. \A t \in 1..created' :
         row'[t].work = i => status'[t] = "failed" /\ reason'[t] # "agent_error"
  BY DEF Abandoned
<1>3. ASSUME NEW t \in TaskId, row'[t].work = i, status'[t] = "failed", status[t] # "failed"
      PROVE  \E p \in Procs : Resets(h[p], i)'
  <2>1. PICK p \in Procs : t \in Held(h'[p]) /\ Held(h[p]) = {}
    BY <1>3, NewlyFailed DEF Fate
  <2>2. h'[p] # h[p] /\ h'[p].pc \in Holding
    BY <2>1 DEF Held, Holding
  <2>3. ~Loops(p)
    BY <1>3, <2>1, LoopsFailNothing DEF rowVars
  <2>4. Begins(p)
    BY <2>2, <2>3 DEF Fate, Moves, Move
  <2>5. t \in 1..created'
    BY <1>3, RowStepTyped DEF RowsTypeOK, TaskId
  <2>6. h'[p].pc = "batch" /\ h'[p].kept = {} /\ t \in h'[p].batch
    BY <1>2, <1>3, <2>1, <2>4, <2>5 DEF Begins, Held
  <2> QED
    BY <1>3, <2>6 DEF Resets
<1>4. CASE \A t \in TaskId : row'[t].work = i /\ status'[t] = "failed" => status[t] = "failed"
  <2>1. PICK p \in Procs : Resets(h[p], i)
    BY <1>1, <1>4, AbandonedBefore DEF AbandonedIsReset
  <2>2. h[p].pc \in Holding /\ h[p].batch \subseteq 1..created
        /\ (h[p].pc \in {"hasActive", "toTodo"} => h[p].task \in 1..created)
    BY <2>1 DEF Resets, Holding, HandlersOK, LocalsOK, LocalOK
  <2>3. CASE h'[p] = h[p]
    BY <2>1, <2>2, <2>3, OldRows DEF Resets
  <2>4. CASE Loops(p)
    BY <1>1, <2>1, <2>4, LoopResets
  <2> QED
    BY <2>2, <2>3, <2>4 DEF Fate, Moves, Move
<1> QED
  BY <1>3, <1>4

-----------------------------------------------------------------------------

HandlersInv == IInv /\ WorksOK /\ RetryInv

LEMMA HandlersInit ==
    ASSUME Init
    PROVE  HandlersInv /\ FollowUpInv
PROOF
<1>1. IInv /\ created = 0 /\ status = [t \in TaskId |-> "none"]
      /\ \A p \in Procs : h[p] = Idle
  BY InvariantInit DEF Init, RowsInit
<1>2. Held(Idle) = {} /\ WorkOK(Idle)
  BY PlainRecords, HeldNone
<1>3. WorksOK
  BY <1>1, <1>2 DEF WorksOK
<1>4. HeldIsUnretried /\ HeldOnce
  BY <1>1, <1>2 DEF HeldIsUnretried, HeldOnce
<1>5. RetriedAtMostOnce /\ LatestIsPending
  BY <1>1 DEF RetriedAtMostOnce, LatestIsPending
<1>6. HeldOrFollowed
  BY <1>1 DEF HeldOrFollowed, TasksIn
<1> QED
  BY <1>1, <1>3, <1>4, <1>5, <1>6 DEF HandlersInv, RetryInv, FollowUpInv

LEMMA HandlersInvStep ==
    ASSUME HandlersInv, [Next]_vars
    PROVE  HandlersInv' /\ RowStep /\ RetryStep /\ Typed
PROOF
<1>1. Typed /\ HandlersWork
  BY DEF HandlersInv, IInv, Typed, WorksOK, HandlersWork
<1>2. RowStep /\ Fate /\ IInv'
  BY <1>1, NextStep, NextFate, InvariantStep DEF StepOK, HandlersInv
<1>3. WorksOK' /\ RetryInv'
  BY <1>1, <1>2, WorksStep, RetryInvStep DEF HandlersInv, Fate
<1> QED
  BY <1>1, <1>2, <1>3 DEF HandlersInv, Fate

\* Whatever overlaps, and whatever handlers die: a task has at most one child,
\* and that child continues it on the same agent and the same work.
THEOREM RetriedOnceAlways == Spec => []RetriedAtMostOnce
PROOF
<1>1. Init => HandlersInv
  BY HandlersInit
<1>2. HandlersInv /\ [Next]_vars => HandlersInv'
  BY HandlersInvStep
<1>3. HandlersInv => RetriedAtMostOnce
  BY DEF HandlersInv, RetryInv
<1> QED
  BY <1>1, <1>2, <1>3, PTL DEF Spec

\* Where no server dies, an infrastructure failure with budget left is never
\* dropped: a handler will retry it, or a later task of its lane exists.
THEOREM FollowedUpAlways ==
    ASSUME "crash" \notin Events
    PROVE  Spec => []FailureIsFollowedUp
PROOF
<1> DEFINE Inv == HandlersInv /\ FollowUpInv
<1>1. Init => Inv
  BY HandlersInit
<1>2. ASSUME Inv, [Next]_vars
      PROVE  Inv'
  <2>1. HandlersInv' /\ RowStep /\ RetryStep /\ Typed
    BY <1>2, HandlersInvStep
  <2>2. LatestIsPending'
    BY <1>2, <2>1, LatestIsPendingStep DEF FollowUpInv
  <2>3. HeldOrFollowed'
    BY <1>2, <2>1, HeldOrFollowedStep DEF FollowUpInv, HandlersInv, RetryInv
  <2> QED
    BY <2>1, <2>2, <2>3 DEF FollowUpInv, HandlersInv
<1>3. ASSUME Inv
      PROVE  FailureIsFollowedUp
  <2>1. \A p \in Procs : \A t \in Held(h[p]) :
            (At(p, "retry") /\ h[p].task = t) \/ t \in h[p].batch
    BY DEF Held, At
  <2> QED
    BY <1>3, <2>1 DEF FollowUpInv, HeldOrFollowed, FailureIsFollowedUp, AwaitsRetry
<1> QED
  BY <1>1, <1>2, <1>3, PTL DEF Spec

\* When every handler is done, an issue whose tasks have all died of an
\* infrastructure failure is not left in_progress: where no server dies in the
\* loop, nobody sets an issue in_progress after the loop, and daemons report
\* only failures of the agents themselves, which FailTask does not roll back.
THEOREM NoIssueIsLeft ==
    ASSUME "crash" \notin Events, "status" \notin Events,
           "in_progress" \notin AgentSets, DaemonReasons \subseteq {"agent_error"}
    PROVE  Spec => []NoIssueLeftInProgress
PROOF
<1> DEFINE Inv == HandlersInv /\ AbandonedIsReset
<1>1. Init => Inv
  <2> SUFFICES ASSUME Init PROVE Inv
    OBVIOUS
  <2>1. HandlersInv
    BY HandlersInit
  <2>2. created = 0
    BY DEF Init, RowsInit
  <2> QED
    BY <2>1, <2>2 DEF AbandonedIsReset, Abandoned
<1>2. ASSUME Inv, [Next]_vars
      PROVE  Inv'
  <2>1. HandlersInv' /\ RowStep /\ Typed
    BY <1>2, HandlersInvStep
  <2>2. HandlersWork /\ Fate
    BY <1>2, <2>1, NextFate DEF HandlersInv, WorksOK, HandlersWork
  <2> QED
    BY <1>2, <2>1, <2>2, AbandonedStep
<1>3. ASSUME Inv
      PROVE  NoIssueLeftInProgress
  <2>1. \A p \in Procs, i \in Issues : Resets(h[p], i) => ~At(p, "idle")
    BY DEF Resets, At
  <2> QED
    BY <1>3, <2>1 DEF AbandonedIsReset, NoIssueLeftInProgress
<1> QED
  BY <1>1, <1>2, <1>3, PTL DEF Spec

-----------------------------------------------------------------------------
(* Requests one at a time: the steps *)

\* Daemons and runtimes change nothing that a handler has read, except that a
\* task may start.
Background == h' = h /\ UNCHANGED <<issue, archived>> /\ (UNCHANGED rowVars \/ StartStep)

Crash == "crash" \in Events /\ UNCHANGED <<rowVars, issue, archived>>

\* The handler of record s knows nothing that others may change.
Neutral(s) == ~OnIssue(s) /\ ~WillEnqueue(s) /\ s.pc \notin {"update", "cancelAgent"}

\* A request begins.
Opens(p) == At(p, "idle") /\ (UserRequest(p) \/ DaemonCall(p) \/ Sweep(p))

LEMMA SoleStep ==
    ASSUME Typed, NEW p, Procs = {p}, [Next]_vars
    PROVE  \/ Background
           \/ Crash /\ h'[p] \in {Idle, h[p]}
           \/ Opens(p)
           \/ Continue(p)
PROOF
<1>1. ASSUME UserRequest(p)
      PROVE  At(p, "idle")
  BY <1>1 DEF UserRequest, CommentOrMention, AssignIssue, MoveIssue, RerunIssue,
              SendChatMessage, DispatchRunOnly, CancelTask, ArchiveAgent, RestoreAgent,
              MoveAgent, Request
<1>2. ASSUME UserRequest(p)
      PROVE  Opens(p) \/ Background
  BY <1>1, <1>2 DEF Opens
<1>3. ASSUME DaemonCall(p) \/ Sweep(p)
      PROVE  Opens(p)
  BY <1>3 DEF Opens, DaemonCall, Sweep, AgentSetsIssue, ClaimTaskForRuntime, CompleteTask,
              FailTask, RecoverOrphans, MarkStaleRuntimes, SweepStaleTasks
<1>4. ASSUME NEW t \in TaskId, StartTask(t)
      PROVE  Background
  BY <1>4 DEF StartTask, StartStep, Background
<1>5. ASSUME NEW r \in Runtimes, Heartbeat(r) \/ Deregister(r)
      PROVE  Background
  BY <1>5 DEF Heartbeat, Deregister, Background
<1>6. ASSUME NEW P \in SUBSET Procs, ServerCrash(P)
      PROVE  Crash /\ h'[p] \in {Idle, h[p]}
  BY <1>6 DEF ServerCrash, Crash, dbVars, rowVars
<1>7. ASSUME Quiet \/ UNCHANGED vars
      PROVE  Background
  BY <1>7 DEF Quiet, vars, dbVars, rowVars, Background
<1> QED
  BY <1>2, <1>3, <1>4, <1>5, <1>6, <1>7 DEF Next

\* Who goes on from where.
LEMMA ContinueFrom ==
    ASSUME NEW p, Continue(p)
    PROVE  /\ h[p].pc # "idle"
           /\ At(p, "save") => SaveIssue(p)
           /\ At(p, "insert") => InsertTask(p)
           /\ At(p, "cancelIssue") => CancelTasksForIssue(p)
           /\ At(p, "cancelAgent") => CancelTasksOfAgent(p)
           /\ At(p, "update") => ClaimUpdate(p)
BY DEF Continue, SaveIssue, LoadAgent, InsertTask, CancelTasksForIssue, CancelTasksOfAgent,
       CancelForRerun, ReconcileCount, ReconcileWrite, ClaimCount, ClaimSelect, ClaimUpdate,
       ClaimReturn, RetryOne, FailOffline, BatchRetry, BatchGetIssue, BatchHasActive,
       BatchResetIssue, BatchDone, At

\* Rows are inserted by InsertTask and by the retries.
LEMMA WhoInserts ==
    ASSUME Typed, NEW p, Procs = {p}, [Next]_vars, created' # created
    PROVE  InsertTask(p) \/ RetryOne(p) \/ BatchRetry(p)
PROOF
<1>1. ~Background /\ ~Crash
  BY DEF Background, StartStep, SetStatus, Crash, rowVars
<1>2. ~Opens(p)
  BY DEF Opens, UserRequest, CommentOrMention, AssignIssue, MoveIssue, RerunIssue,
         SendChatMessage, DispatchRunOnly, CancelTask, ArchiveAgent, RestoreAgent,
         MoveAgent, DaemonCall, Sweep, AgentSetsIssue, ClaimTaskForRuntime, CompleteTask,
         FailTask, RecoverOrphans, MarkStaleRuntimes, SweepStaleTasks, Cancel, Fail,
         SetStatus, dbVars, rowVars
<1>3. Continue(p)
  BY <1>1, <1>2, SoleStep
<1> QED
  BY <1>3 DEF Continue, SaveIssue, LoadAgent, CancelTasksForIssue, CancelTasksOfAgent,
       CancelForRerun, ReconcileCount, ReconcileWrite, ClaimCount, ClaimSelect, ClaimUpdate,
       ClaimReturn, FailOffline, BatchGetIssue, BatchHasActive,
       BatchResetIssue, BatchDone, Cancel, Fail, SetStatus, dbVars, rowVars

LEMMA SoleFate ==
    ASSUME Typed, HandlersWork, NEW p, Procs = {p}, [Next]_vars
    PROVE  RowStep /\ RetryStep /\ Held(h'[p]) \subseteq Held(h[p]) \cup TasksIn(Active)
PROOF
<1>1. RowStep /\ RetryStep
  BY NextStep, NextFate DEF StepOK, Fate
<1>2. Held(h'[p]) \subseteq Held(h[p]) \cup TasksIn(Active)
  <2>1. CASE KeepsHeld
    BY <2>1 DEF KeepsHeld
  <2>2. CASE TakesFailed
    BY <2>2 DEF TakesFailed
  <2>3. CASE SettlesFailed
    BY <2>3 DEF SettlesFailed
  <2>4. CASE DropsHeld
    BY <2>4 DEF DropsHeld
  <2> QED
    BY <1>1, <2>1, <2>2, <2>3, <2>4 DEF RetryStep
<1> QED
  BY <1>1, <1>2

\* A row that is there has kept its columns; a new one is that of the handler,
\* or the copy of one that it holds.
LEMMA NewRow ==
    ASSUME Typed, NEW p, Procs = {p}, [Next]_vars, RowStep, created' # created
    PROVE  /\ created \in Nat /\ created' = created + 1
           /\ \A t \in TaskId : t # created + 1 => status'[t] = status[t]
           /\ status'[created + 1] = "queued"
           /\ \/ /\ InsertTask(p)
                 /\ row'[created + 1].agent = h[p].agent
                 /\ row'[created + 1].work = h[p].work
              \/ \E u \in Held(h[p]) : /\ row'[created + 1].agent = row[u].agent
                                       /\ row'[created + 1].work = row[u].work
PROOF
<1> USE TypedParts
<1>1. created \in Nat /\ created' = created + 1
  BY OldRows
<1>2. CASE InsertTask(p)
  <2>1. Insert(FreshRow(h[p].agent, h[p].work, h[p].rt))
    BY <1>2 DEF InsertTask, rowVars
  <2>2. created + 1 \in TaskId
    BY <2>1, TaskRowsAssumption DEF Insert, RowsTypeOK, TaskId
  <2>3. /\ row' = [row EXCEPT ![created + 1] = FreshRow(h[p].agent, h[p].work, h[p].rt)]
        /\ status' = [status EXCEPT ![created + 1] = "queued"]
    BY <2>1 DEF Insert
  <2>4. row'[created + 1] = FreshRow(h[p].agent, h[p].work, h[p].rt)
    BY <2>2, <2>3 DEF RowsTypeOK
  <2>5. \A t \in TaskId : status'[t] = IF t = created + 1 THEN "queued" ELSE status[t]
    BY <2>3 DEF RowsTypeOK
  <2> QED
    BY <1>1, <1>2, <2>2, <2>4, <2>5 DEF FreshRow
<1>3. CASE RetryOne(p) \/ BatchRetry(p)
  <2>1. PICK t \in Held(h[p]) : Retried(t) \/ NotRetried(t)
    BY <1>3 DEF RetryOne, BatchRetry, At, Held
  <2>2. Retried(t) /\ t \in 1..created
    BY <2>1, OldRows DEF NotRetried, rowVars
  <2> QED
    BY <1>1, <2>1, <2>2, RetriedRows
<1> QED
  BY <1>2, <1>3, WhoInserts

\* Every live or held task descends from one, or is the handler's.
LEMMA Descends ==
    ASSUME Typed, HandlersWork, NEW p, Procs = {p}, [Next]_vars,
           NEW t \in TasksIn(Live)' \cup Held(h'[p])
    PROVE  \/ /\ InsertTask(p)
              /\ row'[t].agent = h[p].agent /\ row'[t].work = h[p].work
           \/ \E u \in TasksIn(Live) \cup Held(h[p]) :
                 /\ u \in 1..created
                 /\ row'[t].agent = row[u].agent /\ row'[t].work = row[u].work
PROOF
<1> USE TypedParts
<1>1. RowStep /\ Held(h'[p]) \subseteq Held(h[p]) \cup TasksIn(Active)
  BY SoleFate
<1>2. \A u \in TasksIn(Live) \cup Held(h[p]) \cup TasksIn(Active) :
         u \in 1..created /\ row'[u] = row[u] /\ u \in TaskId
  BY <1>1, OldRows DEF TasksIn, Live, Active, RowsTypeOK, TaskId
<1>3. CASE t \in TasksIn(Live) \cup Held(h[p]) \cup TasksIn(Active)
  BY <1>2, <1>3 DEF TasksIn, Active, Live
<1>4. ASSUME t \notin TasksIn(Live) \cup Held(h[p]) \cup TasksIn(Active)
      PROVE  t = created + 1 /\ created' # created
  <2>1. t \in TaskId /\ status'[t] \in Live /\ status[t] \notin Live
    BY <1>1, <1>4 DEF TasksIn
  <2>2. CASE InsertStep
    BY <2>1, <2>2 DEF InsertStep, Insert, RowsTypeOK
  <2> QED
    BY <1>1, <2>1, <2>2 DEF RowStep, rowVars, ClaimStep, StartStep, EndStep, CancelStep,
                           SetStatus, TasksIn, Live, Terminal
<1>5. CASE t \notin TasksIn(Live) \cup Held(h[p]) \cup TasksIn(Active)
  BY <1>1, <1>2, <1>4, <1>5, NewRow
<1> QED
  BY <1>3, <1>5

-----------------------------------------------------------------------------
(* What the handler knows *)

\* A request that begins knows what it has just read.
Reads(p) ==
    \/ Neutral(h'[p])
    \/ /\ h'[p].pc = "save" /\ h'[p].work \in Issues
       /\ h'[p].edit.prev = issue[h'[p].work]
    \/ /\ h'[p].pc = "rerun" /\ h'[p].work \in Issues
       /\ h'[p].agent = issue[h'[p].work].assignee
    \/ /\ h'[p].pc = "load"
       /\ \/ h'[p].work \in Chats /\ h'[p].agent = ChatAgent[h'[p].work]
          \/ h'[p].work \in Runs
          \/ h'[p].work \in Issues /\ "comment" \in Events

LEMMA OpensWith ==
    ASSUME Typed, NEW p, Procs = {p}, Opens(p)
    PROVE  /\ UNCHANGED issue
           /\ \/ UNCHANGED archived
              \/ \E a \in Agents : ArchiveAgent(p, a) \/ RestoreAgent(p, a)
           /\ Reads(p) \/ h'[p].pc = "cancelAgent"
PROOF
<1> USE TypedParts
<1>1. UNCHANGED issue
  BY DEF Opens, UserRequest, CommentOrMention, AssignIssue, MoveIssue, RerunIssue,
         SendChatMessage, DispatchRunOnly, CancelTask, ArchiveAgent, RestoreAgent,
         MoveAgent, DaemonCall, Sweep, AgentSetsIssue, ClaimTaskForRuntime, CompleteTask,
         FailTask, RecoverOrphans, MarkStaleRuntimes, SweepStaleTasks, dbVars
<1>2. \/ UNCHANGED archived
      \/ \E a \in Agents : ArchiveAgent(p, a) \/ RestoreAgent(p, a)
  BY DEF Opens, UserRequest, CommentOrMention, AssignIssue, MoveIssue, RerunIssue,
         SendChatMessage, DispatchRunOnly, CancelTask, MoveAgent,
         DaemonCall, Sweep, AgentSetsIssue, ClaimTaskForRuntime, CompleteTask,
         FailTask, RecoverOrphans, MarkStaleRuntimes, SweepStaleTasks, dbVars
<1>3. h \in [Procs -> Handler] /\ p \in Procs
  BY DEF HandlersOK
<1> USE <1>3 DEF Goto
<1>4. ASSUME \/ h'[p].pc \in {"idle", "agent", "retry", "batch", "failOffline"}
             \/ h'[p].pc = "count" /\ h'[p].then # "load"
      PROVE  Neutral(h'[p])
  BY <1>4 DEF Neutral, OnIssue, WillEnqueue
<1>5. ASSUME h' = h
      PROVE  Neutral(h'[p])
  BY <1>5 DEF Opens, At, Neutral, OnIssue, WillEnqueue
<1>6. CASE UserRequest(p)
  <2>1. ASSUME NEW a \in Agents, NEW i \in Issues, CommentOrMention(p, a, i)
        PROVE  Reads(p)
    BY <2>1 DEF CommentOrMention, Request, Load, Idle, Reads
  <2>2. ASSUME NEW i \in Issues, NEW a \in Agents \cup {None}, AssignIssue(p, i, a)
        PROVE  Reads(p)
    BY <2>2 DEF AssignIssue, Save, Idle, Reads
  <2>3. ASSUME NEW i \in Issues, NEW st \in IssueStatus, MoveIssue(p, i, st)
        PROVE  Reads(p)
    BY <2>3 DEF MoveIssue, Save, Idle, Reads
  <2>4. ASSUME NEW i \in Issues, RerunIssue(p, i)
        PROVE  Reads(p)
    BY <2>4 DEF RerunIssue, Idle, Reads
  <2>5. ASSUME NEW c \in Chats, SendChatMessage(p, c)
        PROVE  Reads(p)
    BY <2>5 DEF SendChatMessage, Load, Idle, Reads
  <2>6. ASSUME NEW x \in Runs, NEW a \in Agents, DispatchRunOnly(p, x, a)
        PROVE  Reads(p)
    BY <2>6 DEF DispatchRunOnly, Load, Idle, Reads
  <2>7. ASSUME NEW t \in TaskId, CancelTask(p, t)
        PROVE  Reads(p)
    BY <1>4, <2>7 DEF CancelTask, Reconcile, Idle, Reads
  <2>8. ASSUME NEW a \in Agents, ArchiveAgent(p, a)
        PROVE  h'[p].pc = "cancelAgent"
    BY <2>8 DEF ArchiveAgent, Idle
  <2>9. ASSUME NEW a \in Agents, \/ RestoreAgent(p, a)
                                 \/ \E r \in Runtimes : MoveAgent(p, a, r)
        PROVE  Reads(p)
    BY <1>5, <2>9 DEF RestoreAgent, MoveAgent, Reads
  <2> QED
    BY <1>1, <1>2, <1>6, <2>1, <2>2, <2>3, <2>4, <2>5, <2>6, <2>7, <2>8, <2>9 DEF UserRequest
<1>7. CASE DaemonCall(p) \/ Sweep(p)
  <2>1. ASSUME NEW t \in TaskId, NEW st, AgentSetsIssue(p, t, st)
        PROVE  Reads(p)
    BY <2>1 DEF AgentSetsIssue, Save, Idle, Reads
  <2>2. ASSUME NEW r \in Runtimes, ClaimTaskForRuntime(p, r)
        PROVE  Neutral(h'[p])
    BY <1>4, <2>2 DEF ClaimTaskForRuntime, Idle
  <2>3. ASSUME NEW r \in Runtimes, RecoverOrphans(p, r)
        PROVE  Neutral(h'[p])
    BY <1>4, <2>3 DEF RecoverOrphans, Idle
  <2>4. ASSUME NEW t \in TaskId, CompleteTask(p, t)
        PROVE  Neutral(h'[p])
    BY <1>4, <2>4 DEF CompleteTask, Reconcile, Idle
  <2>5. ASSUME NEW t \in TaskId, NEW why, FailTask(p, t, why)
        PROVE  Neutral(h'[p])
    BY <1>4, <2>5 DEF FailTask, Idle
  <2>6. ASSUME Sweep(p)
        PROVE  Neutral(h'[p])
    BY <1>4, <2>6 DEF Sweep, MarkStaleRuntimes, SweepStaleTasks, Idle
  <2> QED
    BY <1>1, <1>2, <1>7, <2>1, <2>2, <2>3, <2>4, <2>5, <2>6 DEF DaemonCall, Reads
<1> QED
  BY <1>6, <1>7 DEF Opens

\* A request that goes on leaves most of what it knows behind.
LEMMA ContinuesWith ==
    ASSUME Typed, NEW p, Procs = {p}, Continue(p)
    PROVE  /\ UNCHANGED archived
           /\ UNCHANGED issue \/ SaveIssue(p) \/ BatchResetIssue(p)
           /\ \/ Neutral(h'[p])
              \/ SaveIssue(p) \/ LoadAgent(p) \/ CancelTasksForIssue(p) \/ CancelForRerun(p)
              \/ (ReconcileCount(p) \/ ReconcileWrite(p)) /\ h[p].then = "load"
              \/ ClaimSelect(p)
PROOF
<1> USE TypedParts
<1>1. UNCHANGED archived
  BY DEF Continue, SaveIssue, LoadAgent, InsertTask, CancelTasksForIssue,
       CancelTasksOfAgent, CancelForRerun, ReconcileCount, ReconcileWrite, ClaimCount,
       ClaimSelect, ClaimUpdate, ClaimReturn, RetryOne, FailOffline, BatchRetry,
       BatchGetIssue, BatchHasActive, BatchResetIssue, BatchDone, dbVars
<1>2. UNCHANGED issue \/ SaveIssue(p) \/ BatchResetIssue(p)
  BY DEF Continue, LoadAgent, InsertTask, CancelTasksForIssue,
       CancelTasksOfAgent, CancelForRerun, ReconcileCount, ReconcileWrite, ClaimCount,
       ClaimSelect, ClaimUpdate, ClaimReturn, RetryOne, FailOffline, BatchRetry,
       BatchGetIssue, BatchHasActive, BatchDone, dbVars
<1>3. h \in [Procs -> Handler] /\ p \in Procs /\ h[p] \in Handler
  BY DEF HandlersOK
<1> USE <1>3 DEF Goto
<1>4. ASSUME \/ h'[p].pc \in {"idle", "agent", "select", "working",
                                "batch", "getIssue", "hasActive", "toTodo"}
             \/ h'[p].pc \in {"count", "write"} /\ h'[p].then # "load"
      PROVE  Neutral(h'[p])
  BY <1>4 DEF Neutral, OnIssue, WillEnqueue
<1>5. ASSUME NEW S, h'[p] = Reconcile(S)
      PROVE  Neutral(h'[p])
  BY <1>4, <1>5 DEF Reconcile, Idle
<1>6. ASSUME h'[p] = Idle
      PROVE  Neutral(h'[p])
  BY <1>4, <1>6 DEF Idle
<1>7. CASE InsertTask(p) \/ CancelTasksOfAgent(p)
  BY <1>1, <1>2, <1>6, <1>7 DEF InsertTask, CancelTasksOfAgent, Return
<1>8. CASE RetryOne(p) \/ BatchDone(p)
  BY <1>1, <1>2, <1>5, <1>8 DEF RetryOne, BatchDone
<1>9. ASSUME FailOffline(p)
      PROVE  Neutral(h'[p])
  BY <1>4, <1>9 DEF FailOffline, Idle
<1>10. ASSUME ReconcileCount(p), h[p].then # "load"
       PROVE  Neutral(h'[p])
  <2>1. PICK a, x : h'[p] = [h[p] EXCEPT !.pc = "write", !.agent = a, !.seen = x]
    BY <1>10 DEF ReconcileCount
  <2> QED
    BY <1>4, <1>10, <2>1 DEF Handler
<1>11. ASSUME ReconcileWrite(p), h[p].then # "load"
       PROVE  Neutral(h'[p])
  <2>1. h'[p] = Reconcile(h[p].agents \ {h[p].agent})
    BY <1>11 DEF ReconcileWrite
  <2> QED
    BY <1>5, <2>1
<1>12. ASSUME ClaimCount(p)
       PROVE  Neutral(h'[p])
  <2>1. ASSUME NEW a \in h[p].agents, At(p, "agent"),
               LET s == [h[p] EXCEPT !.agents = @ \ {a}]
               IN  Goto(p, IF CountRunningTasks(a) >= MaxConcurrent THEN s
                           ELSE [s EXCEPT !.pc = "select", !.agent = a])
        PROVE  Neutral(h'[p])
    <3> DEFINE s == [h[p] EXCEPT !.agents = @ \ {a}]
               u == [s EXCEPT !.pc = "select", !.agent = a]
    <3>1. s.pc = "agent" /\ u.pc = "select"
      BY <2>1 DEF Handler, At
    <3>2. h'[p] = s \/ h'[p] = u
      BY <2>1
    <3> QED
      BY <1>4, <3>1, <3>2
  <2> QED
    BY <1>6, <1>12, <2>1 DEF ClaimCount, Return
<1>13. ASSUME ClaimUpdate(p)
       PROVE  Neutral(h'[p])
  <2>1. \/ \E t : h'[p] = [h[p] EXCEPT !.pc = "working", !.task = t, !.cand = {}]
        \/ h'[p] = [h[p] EXCEPT !.pc = "agent", !.agent = None, !.cand = {}]
    BY <1>13 DEF ClaimUpdate
  <2> QED
    BY <1>4, <2>1 DEF Handler
<1>14. ASSUME ClaimReturn(p)
       PROVE  Neutral(h'[p])
  <2>1. h'[p] = Idle \/ h'[p] = [h[p] EXCEPT !.pc = "agent", !.agent = None, !.task = None]
    BY <1>14 DEF ClaimReturn, Return
  <2> QED
    BY <1>4, <1>6, <2>1 DEF Handler
<1>15. ASSUME NEW t, NEW k, NextFailed(p, t, k)
       PROVE  Neutral(h'[p])
  <2>1. h'[p] = [h[p] EXCEPT !.pc = "batch", !.task = None, !.batch = @ \ {t}, !.kept = k,
                             !.agents = @ \cup {row[t].agent}]
    BY <1>15 DEF NextFailed
  <2> QED
    BY <1>4, <2>1 DEF Handler
<1>16. ASSUME BatchRetry(p)
       PROVE  Neutral(h'[p])
  <2>1. PICK t, k : \/ NextFailed(p, t, k)
                    \/ Goto(p, [h[p] EXCEPT !.pc = "getIssue", !.task = t, !.kept = k])
    BY <1>16 DEF BatchRetry
  <2> QED
    BY <1>4, <1>15, <2>1 DEF Handler
<1>17. ASSUME BatchGetIssue(p) \/ BatchHasActive(p) \/ BatchResetIssue(p)
       PROVE  Neutral(h'[p])
  <2>1. \/ NextFailed(p, h[p].task, h[p].kept)
        \/ Goto(p, [h[p] EXCEPT !.pc = "toTodo"])
        \/ \E k : Goto(p, [h[p] EXCEPT !.pc = "hasActive", !.kept = k])
    BY <1>17 DEF BatchGetIssue, BatchHasActive, BatchResetIssue
  <2> QED
    BY <1>4, <1>15, <2>1 DEF Handler
<1> QED
  BY <1>1, <1>2, <1>7, <1>8, <1>9, <1>10, <1>11, <1>12, <1>13, <1>14, <1>16, <1>17 DEF Continue

\* What the steps that are left make of it.
KeepsWork(p) == h'[p].agent = h[p].agent /\ h'[p].work = h[p].work

LEMMA KeyRecords ==
    ASSUME Typed, NEW p, Procs = {p}
    PROVE  /\ SaveIssue(p) =>
                 \E new : /\ issue' = [issue EXCEPT ![h[p].work] = new]
                          /\ new.assignee = IF h[p].edit.assign THEN h[p].edit.to
                                            ELSE h[p].edit.prev.assignee
                          /\ h'[p] = FollowUp(h[p].work, h[p].edit, new)
           /\ LoadAgent(p) =>
                 \/ h'[p].pc = "idle"
                 \/ /\ h'[p].pc = "insert" /\ ~archived[h[p].agent] /\ h[p].pc = "load"
                    /\ KeepsWork(p)
           /\ CancelTasksForIssue(p) =>
                 \/ h'[p].pc = "idle"
                 \/ h[p].agent # None /\ h'[p].pc = "load" /\ KeepsWork(p)
           /\ CancelForRerun(p) =>
                 /\ KeepsWork(p) /\ h[p].pc = "rerun"
                 /\ \/ h'[p].pc = "load"
                    \/ /\ h'[p].pc = "count" /\ h'[p].then = "load"
                       /\ h'[p].agents = {h[p].agent}
           /\ ReconcileCount(p) =>
                 /\ h'[p].pc = "write" /\ h[p].pc = "count" /\ h'[p].then = h[p].then
                 /\ h'[p].agent \in h[p].agents /\ h'[p].work = h[p].work
           /\ ReconcileWrite(p) /\ h[p].then = "load" =>
                 h[p].pc = "write" /\ h'[p].pc = "load" /\ KeepsWork(p)
           /\ ClaimSelect(p) =>
                 /\ h'[p].pc = "update" /\ UNCHANGED rowVars
                 /\ h'[p].cand = Claimable(h'[p].agent)
PROOF
<1> USE TypedParts
<1>1. h \in [Procs -> Handler] /\ p \in Procs /\ h[p] \in Handler
  BY DEF HandlersOK
<1> USE <1>1 DEF Goto, KeepsWork
<1>2. ASSUME SaveIssue(p)
      PROVE  \E new : /\ issue' = [issue EXCEPT ![h[p].work] = new]
                      /\ new.assignee = IF h[p].edit.assign THEN h[p].edit.to
                                        ELSE h[p].edit.prev.assignee
                      /\ h'[p] = FollowUp(h[p].work, h[p].edit, new)
  <2> DEFINE e   == h[p].edit
             new == [status   |-> IF e.status = None THEN issue[h[p].work].status ELSE e.status,
                     assignee |-> IF e.assign THEN e.to ELSE e.prev.assignee]
  <2>1. /\ issue' = [issue EXCEPT ![h[p].work] = new]
        /\ h'[p] = FollowUp(h[p].work, h[p].edit, new)
    BY <1>2 DEF SaveIssue
  <2>2. new.assignee = IF e.assign THEN e.to ELSE e.prev.assignee
    OBVIOUS
  <2> HIDE DEF new
  <2> QED
    BY <2>1, <2>2
<1>3. ASSUME LoadAgent(p), h'[p].pc # "idle"
      PROVE  /\ h'[p].pc = "insert" /\ ~archived[h[p].agent] /\ h[p].pc = "load"
             /\ KeepsWork(p)
  <2>1. /\ h'[p] = [h[p] EXCEPT !.pc = "insert", !.rt = runtimeOf[h[p].agent]]
        /\ Ready(h[p].agent) /\ h[p].pc = "load"
    BY <1>3 DEF LoadAgent, Return, At, Idle
  <2> QED
    BY <2>1 DEF Handler, Ready
<1>4. ASSUME CancelTasksForIssue(p), h'[p].pc # "idle"
      PROVE  h[p].agent # None /\ h'[p].pc = "load" /\ KeepsWork(p)
  <2>1. h[p].agent # None /\ h'[p] = Load(h[p].agent, h[p].work)
    BY <1>4 DEF CancelTasksForIssue, Return, Idle
  <2> QED
    BY <2>1 DEF Load, Idle
<1>5. ASSUME CancelForRerun(p)
      PROVE  /\ KeepsWork(p) /\ h[p].pc = "rerun"
             /\ \/ h'[p].pc = "load"
                \/ /\ h'[p].pc = "count" /\ h'[p].then = "load"
                   /\ h'[p].agents = {h[p].agent}
  BY <1>5 DEF CancelForRerun, Load, Idle, At
<1>6. ASSUME ReconcileCount(p)
      PROVE  /\ h'[p].pc = "write" /\ h[p].pc = "count" /\ h'[p].then = h[p].then
             /\ h'[p].agent \in h[p].agents /\ h'[p].work = h[p].work
  <2>1. PICK a \in h[p].agents : \E x : h'[p] = [h[p] EXCEPT !.pc = "write", !.agent = a, !.seen = x]
    BY <1>6 DEF ReconcileCount
  <2>2. PICK x : h'[p] = [h[p] EXCEPT !.pc = "write", !.agent = a, !.seen = x]
    BY <2>1
  <2> QED
    BY <1>6, <2>2 DEF Handler, ReconcileCount, At
<1>7. ASSUME ReconcileWrite(p), h[p].then = "load"
      PROVE  h[p].pc = "write" /\ h'[p].pc = "load" /\ KeepsWork(p)
  BY <1>7 DEF ReconcileWrite, Load, Idle, At
<1>8. ASSUME ClaimSelect(p)
      PROVE  /\ h'[p].pc = "update" /\ UNCHANGED rowVars
             /\ h'[p].cand = Claimable(h'[p].agent)
  <2>1. h'[p] = [h[p] EXCEPT !.pc = "update", !.cand = Claimable(h[p].agent)]
    BY <1>8 DEF ClaimSelect
  <2>2. UNCHANGED rowVars
    BY <1>8 DEF ClaimSelect, dbVars, rowVars
  <2> QED
    BY <2>1, <2>2 DEF Handler
<1> QED
  BY <1>2, <1>3, <1>4, <1>5, <1>6, <1>7, <1>8

-----------------------------------------------------------------------------
(* Archived agents *)

LEMMA CheckedBefore ==
    ASSUME Typed, NEW p, Procs = {p}, [Next]_vars, h'[p].pc = "insert"
    PROVE  h'[p] = h[p] \/ ~archived[h'[p].agent]
PROOF
<1>1. CASE Background \/ (Crash /\ h'[p] \in {Idle, h[p]})
  BY <1>1 DEF Background, Crash, Idle
<1>2. CASE Opens(p)
  BY <1>2, OpensWith DEF Reads, Neutral, WillEnqueue
<1>3. CASE Continue(p)
  <2>1. ~Neutral(h'[p])
    BY DEF Neutral, WillEnqueue
  <2>2. CASE SaveIssue(p)
    <3>1. PICK new : h'[p] = FollowUp(h[p].work, h[p].edit, new)
      BY <2>2, KeyRecords
    <3> QED
      BY <3>1 DEF FollowUp, Load, Idle
  <2>3. CASE LoadAgent(p) \/ CancelTasksForIssue(p) \/ CancelForRerun(p) \/ ClaimSelect(p)
    BY <2>3, KeyRecords DEF KeepsWork
  <2>4. CASE (ReconcileCount(p) \/ ReconcileWrite(p)) /\ h[p].then = "load"
    BY <2>4, KeyRecords DEF KeepsWork
  <2> QED
    BY <1>3, <2>1, <2>2, <2>3, <2>4, ContinuesWith
<1> QED
  BY <1>1, <1>2, <1>3, SoleStep

LEMMA ArchiveStep ==
    ASSUME Typed, HandlersWork, NEW p, Procs = {p}, [Next]_vars, "crash" \notin Events,
           ArchiveInv
    PROVE  ArchiveInv'
PROOF
<1> USE TypedParts
<1>1. ArchiveOK(h[p])
  BY DEF ArchiveInv
<1>2. SUFFICES ArchiveOK(h[p])'
  BY DEF ArchiveInv
<1>3. /\ RowStep /\ Held(h'[p]) \subseteq Held(h[p]) \cup TasksIn(Active)
      /\ \A t \in 1..created : row'[t] = row[t] /\ row[t].agent \in Agents
  BY SoleFate, OldRows DEF RowsComplete
<1>4. ASSUME UNCHANGED archived, ~At(p, "cancelAgent"), NEW t \in TasksIn(Live)' \cup Held(h'[p])
      PROVE  ~archived'[row'[t].agent]
  <2>1. CASE InsertTask(p) /\ row'[t].agent = h[p].agent
    BY <1>1, <1>4, <2>1 DEF InsertTask, At, ArchiveOK
  <2>2. CASE \E u \in TasksIn(Live) \cup Held(h[p]) : row'[t].agent = row[u].agent
    BY <1>1, <1>4, <2>2 DEF ArchiveOK, At
  <2> QED
    BY <2>1, <2>2, Descends
<1>5. CASE UNCHANGED archived /\ ~At(p, "cancelAgent")
  <2>1. h'[p].pc = "insert" => ~archived'[h'[p].agent]
    BY <1>1, <1>5, CheckedBefore DEF ArchiveOK
  <2> QED
    BY <1>4, <1>5, <2>1 DEF ArchiveOK
<1>6. CASE At(p, "cancelAgent") /\ Background
  <2>1. h' = h /\ archived' = archived /\ Held(h[p]) = {}
    BY <1>6 DEF Background, At, Held
  <2>2. ASSUME NEW t \in TasksIn(Live)'
        PROVE  \E u \in TasksIn(Live) : row'[t].agent = row[u].agent
    <3>1. ~InsertTask(p)
      BY <1>6 DEF InsertTask, At
    <3> QED
      BY <2>1, <2>2, <3>1, Descends
  <2> QED
    BY <1>1, <1>6, <2>1, <2>2 DEF ArchiveOK, At
<1>7. CASE At(p, "cancelAgent") /\ Continue(p)
  <2>1. CancelTasksOfAgent(p)
    BY <1>7, ContinueFrom
  <2>2. h'[p] = Idle /\ archived' = archived
    BY <2>1, GotoHeld DEF CancelTasksOfAgent, Return
  <2>3. ASSUME NEW t \in TasksIn(Live)'
        PROVE  t \in TasksIn(Live) /\ row'[t] = row[t] /\ row[t].agent # h[p].agent
    BY <2>1, <2>3 DEF CancelTasksOfAgent, Cancel, SetStatus, TasksIn, Live
  <2>4. Held(Idle) = {} /\ Idle.pc = "idle"
    BY DEF Held, Idle
  <2> QED
    BY <1>1, <1>7, <2>2, <2>3, <2>4 DEF ArchiveOK, At
<1>8. ASSUME NEW a \in Agents, ArchiveAgent(p, a)
      PROVE  ArchiveOK(h[p])'
  <2>1. /\ At(p, "idle") /\ UNCHANGED rowVars
        /\ archived' = [archived EXCEPT ![a] = TRUE]
        /\ h'[p] = [Idle EXCEPT !.pc = "cancelAgent", !.agent = a]
    BY <1>8, GotoHeld DEF ArchiveAgent, Request
  <2>2. h'[p].pc = "cancelAgent" /\ h'[p].agent = a /\ Held(h'[p]) = {}
    BY <2>1 DEF Idle, Held
  <2>3. ASSUME NEW t \in TasksIn(Live)', archived'[row'[t].agent]
        PROVE  row'[t].agent = a
    <3>1. t \in TasksIn(Live) /\ row'[t] = row[t] /\ t \in 1..created
      BY <2>1, <2>3 DEF rowVars, TasksIn, Live, RowsTypeOK, TaskId
    <3>2. ~archived[row[t].agent] /\ row[t].agent \in Agents
      BY <1>1, <1>3, <2>1, <3>1 DEF ArchiveOK, At
    <3> QED
      BY <2>1, <2>3, <3>1, <3>2 DEF OthersOK
  <2> QED
    BY <2>2, <2>3 DEF ArchiveOK
<1>9. ASSUME NEW a \in Agents, RestoreAgent(p, a)
      PROVE  ArchiveOK(h[p])'
  <2>1. At(p, "idle") /\ UNCHANGED rowVars /\ archived' = [archived EXCEPT ![a] = FALSE] /\ h' = h
    BY <1>9 DEF RestoreAgent, Request
  <2>2. Held(h[p]) = {}
    BY <2>1 DEF At, Held
  <2>3. ASSUME NEW t \in TasksIn(Live)'
        PROVE  ~archived'[row'[t].agent]
    <3>1. t \in TasksIn(Live) /\ row'[t] = row[t] /\ t \in 1..created
      BY <2>1, <2>3 DEF rowVars, TasksIn, Live, RowsTypeOK, TaskId
    <3>2. ~archived[row[t].agent] /\ row[t].agent \in Agents
      BY <1>1, <1>3, <2>1, <3>1 DEF ArchiveOK, At
    <3> QED
      BY <2>1, <3>1, <3>2 DEF OthersOK
  <2> QED
    BY <2>1, <2>2, <2>3 DEF ArchiveOK, At
<1>10. CASE Opens(p)
  <2>1. ~At(p, "cancelAgent")
    BY <1>10 DEF Opens, At
  <2> QED
    BY <1>5, <1>8, <1>9, <1>10, <2>1, OpensWith
<1>11. CASE Background \/ Continue(p)
  BY <1>5, <1>6, <1>7, <1>11, ContinuesWith DEF Background
<1> QED
  BY <1>10, <1>11, SoleStep DEF Crash

-----------------------------------------------------------------------------
(* Assignees *)

\* What UpdateIssue does next, once the row is new.
LEMMA FollowUps ==
    ASSUME NEW i, NEW e \in Edit, NEW new, NEW s, s = FollowUp(i, e, new)
    PROVE  /\ \/ s.pc = "idle"
              \/ s.pc = "load" /\ s.agent = new.assignee /\ s.work = i
              \/ s.pc = "cancelIssue" /\ s.agent = None /\ s.work = i
              \/ s.pc = "cancelIssue" /\ s.agent = e.to /\ e.assign /\ s.work = i
           /\ \/ ~e.assign
              \/ e.to \in {None, e.prev.assignee}
              \/ s.pc = "cancelIssue" /\ s.work = i
PROOF
<1> DEFINE c == [Idle EXCEPT !.pc = "cancelIssue", !.work = i]
           d == [c EXCEPT !.agent = e.to]
<1>1. /\ c.pc = "cancelIssue" /\ c.agent = None /\ c.work = i
      /\ d.pc = "cancelIssue" /\ d.agent = e.to /\ d.work = i
  BY DEF Idle
<1>2. /\ Load(new.assignee, i).pc = "load" /\ Load(new.assignee, i).work = i
      /\ Load(new.assignee, i).agent = new.assignee
  BY DEF Load, Idle
<1>3. Idle.pc = "idle" /\ e.assign \in BOOLEAN
  BY DEF Idle, Edit
<1> HIDE DEF c, d
<1>4. \/ e.assign /\ (s = c \/ s = d)
      \/ /\ ~e.assign \/ e.to \in {None, e.prev.assignee}
         /\ s = c \/ s = Load(new.assignee, i) \/ s = Idle
  BY <1>3 DEF FollowUp, c, d
<1> QED
  BY <1>1, <1>2, <1>3, <1>4

\* A step that changes no assignee gives no task to anybody else.
LEMMA SameAssignees ==
    ASSUME Typed, HandlersWork, NEW p, Procs = {p}, [Next]_vars, AssigneeOK(h[p]),
           \A i \in Issues : issue'[i].assignee = issue[i].assignee,
           NEW t \in TasksIn(Live)' \cup Held(h'[p]), row'[t].work \in Issues
    PROVE  \/ issue'[row'[t].work].assignee \in {None, row'[t].agent}
           \/ h[p].pc = "cancelIssue" /\ h[p].work = row'[t].work
PROOF
<1>1. CASE InsertTask(p) /\ row'[t].agent = h[p].agent /\ row'[t].work = h[p].work
  BY <1>1 DEF InsertTask, At, AssigneeOK, WillEnqueue
<1>2. CASE \E u \in TasksIn(Live) \cup Held(h[p]) :
              row'[t].agent = row[u].agent /\ row'[t].work = row[u].work
  BY <1>2 DEF AssigneeOK
<1> QED
  BY <1>1, <1>2, Descends

LEMMA AssigneeStep ==
    ASSUME Typed, HandlersWork, NEW p, Procs = {p}, [Next]_vars,
           "crash" \notin Events, "comment" \notin Events, AssigneeInv
    PROVE  AssigneeInv'
PROOF
<1> USE TypedParts
<1>1. AssigneeOK(h[p])
  BY DEF AssigneeInv
<1>2. SUFFICES AssigneeOK(h[p])'
  BY DEF AssigneeInv
<1> DEFINE Tasks ==
             \A t \in TasksIn(Live)' \cup Held(h'[p]) :
                row'[t].work \in Issues =>
                   \/ issue'[row'[t].work].assignee \in {None, row'[t].agent}
                   \/ h'[p].pc = "cancelIssue" /\ h'[p].work = row'[t].work
           Knows ==
             /\ h'[p].pc = "save" => h'[p].edit.prev.assignee = issue'[h'[p].work].assignee
             /\ WillEnqueue(h'[p]) /\ h'[p].work \in Issues =>
                   h'[p].agent = issue'[h'[p].work].assignee
             /\ h'[p].pc = "count" /\ h'[p].then = "load" => h'[p].agents \subseteq {h'[p].agent}
<1>3. SUFFICES Tasks /\ Knows
  BY DEF AssigneeOK, WillEnqueue
<1>4. issue \in [Issues -> IssueRow]
  BY DEF OthersOK
<1>5. ASSUME UNCHANGED issue \/ BatchResetIssue(p)
      PROVE  \A i \in Issues : issue'[i].assignee = issue[i].assignee
  <2>1. ASSUME NEW j, issue' = [issue EXCEPT ![j].status = "todo"]
        PROVE  \A i \in Issues : issue'[i].assignee = issue[i].assignee
    BY <1>4, <2>1 DEF IssueRow
  <2> QED
    BY <1>5, <2>1 DEF BatchResetIssue
<1>6. CASE Background
  <2>1. Tasks
    BY <1>1, <1>5, <1>6, SameAssignees DEF Background
  <2>2. Knows
    BY <1>1, <1>6 DEF Background, AssigneeOK
  <2> QED
    BY <2>1, <2>2
<1>7. CASE Opens(p)
  <2>1. Tasks
    BY <1>1, <1>5, <1>7, OpensWith, SameAssignees DEF Opens, At
  <2>2. Issues \cap Chats = {} /\ Issues \cap Runs = {}
    BY TaskRowsAssumption
  <2>3. Reads(p) \/ h'[p].pc = "cancelAgent"
    BY <1>7, OpensWith
  <2>4. issue' = issue
    BY <1>7, OpensWith
  <2>5. Knows
    BY <2>2, <2>3, <2>4 DEF Reads, Neutral, OnIssue, WillEnqueue
  <2> QED
    BY <2>1, <2>5
<1>8. CASE CancelTasksForIssue(p)
  <2>1. /\ At(p, "cancelIssue") /\ issue' = issue
        /\ Cancel({t \in TaskId : row[t].work = h[p].work})
    BY <1>8 DEF CancelTasksForIssue
  <2>2. h'[p].pc = "idle" \/ (h[p].agent # None /\ h'[p].pc = "load" /\ KeepsWork(p))
    BY <1>8, KeyRecords
  <2>3. Held(h'[p]) = {}
    BY <2>2 DEF Held
  <2>4. ASSUME NEW t \in TasksIn(Live)'
        PROVE  t \in TasksIn(Live) /\ row'[t] = row[t] /\ row[t].work # h[p].work
    BY <2>1, <2>4 DEF Cancel, SetStatus, TasksIn, Live
  <2>5. Tasks
    BY <1>1, <2>1, <2>3, <2>4 DEF AssigneeOK
  <2>6. Knows
    BY <1>1, <2>1, <2>2 DEF AssigneeOK, WillEnqueue, KeepsWork, At
  <2> QED
    BY <2>5, <2>6
<1>9. CASE SaveIssue(p)
  <2> DEFINE i == h[p].work
             e == h[p].edit
  <2>1. /\ h[p].pc = "save" /\ i \in Issues /\ e \in Edit
        /\ status' = status /\ row' = row
    BY <1>9 DEF SaveIssue, At, HandlersWork, WorkOK, HandlersOK, LocalsOK, LocalOK, rowVars
  <2>2. PICK new : /\ issue' = [issue EXCEPT ![i] = new]
                   /\ new.assignee = IF e.assign THEN e.to ELSE e.prev.assignee
                   /\ h'[p] = FollowUp(i, e, new)
    BY <1>9, KeyRecords
  <2>3. issue'[i] = new /\ \A j \in Issues : j # i => issue'[j] = issue[j]
    BY <1>4, <2>1, <2>2
  <2>4. e.prev.assignee = issue[i].assignee
    BY <1>1, <2>1 DEF AssigneeOK
  <2> HIDE DEF i, e
  <2>5. /\ \/ h'[p].pc = "idle"
           \/ h'[p].pc = "load" /\ h'[p].agent = new.assignee /\ h'[p].work = i
           \/ h'[p].pc = "cancelIssue" /\ h'[p].agent = None /\ h'[p].work = i
           \/ h'[p].pc = "cancelIssue" /\ h'[p].agent = e.to /\ e.assign /\ h'[p].work = i
        /\ \/ ~e.assign
           \/ e.to \in {None, e.prev.assignee}
           \/ h'[p].pc = "cancelIssue" /\ h'[p].work = i
    BY <2>1, <2>2, FollowUps
  <2>6. Knows
    BY <2>2, <2>3, <2>5 DEF WillEnqueue
  <2>7. Held(h'[p]) = {}
    BY <2>5 DEF Held
  <2>8. ASSUME NEW t \in TasksIn(Live), row[t].work \in Issues
        PROVE  \/ issue'[row[t].work].assignee \in {None, row[t].agent}
               \/ h'[p].pc = "cancelIssue" /\ h'[p].work = row[t].work
    <3>1. issue[row[t].work].assignee \in {None, row[t].agent}
      BY <1>1, <2>1, <2>8 DEF AssigneeOK
    <3>2. CASE row[t].work # i
      BY <2>3, <2>8, <3>1, <3>2
    <3>3. CASE row[t].work = i
      BY <2>2, <2>3, <2>4, <2>5, <3>1, <3>3
    <3> QED
      BY <3>2, <3>3
  <2>9. Tasks
    BY <2>1, <2>7, <2>8 DEF TasksIn
  <2> QED
    BY <2>6, <2>9
<1>10. CASE Continue(p) /\ ~CancelTasksForIssue(p) /\ ~SaveIssue(p)
  <2>1. h[p].pc # "cancelIssue"
    BY <1>10, ContinueFrom DEF At
  <2>2. \A i \in Issues : issue'[i].assignee = issue[i].assignee
    BY <1>5, <1>10, ContinuesWith
  <2>3. Tasks
    BY <1>1, <2>1, <2>2, SameAssignees
  <2>4. ASSUME Neutral(h'[p])
        PROVE  Knows
    BY <2>4 DEF Neutral, OnIssue, WillEnqueue
  <2>5. ASSUME LoadAgent(p) \/ CancelForRerun(p) \/ ClaimSelect(p)
        PROVE  Knows
    BY <1>1, <2>2, <2>5, KeyRecords DEF AssigneeOK, WillEnqueue, KeepsWork
  <2>6. ASSUME ReconcileCount(p) \/ ReconcileWrite(p), h[p].then = "load"
        PROVE  Knows
    BY <1>1, <2>2, <2>6, KeyRecords DEF AssigneeOK, WillEnqueue, KeepsWork
  <2>7. Knows
    BY <1>10, <2>4, <2>5, <2>6, ContinuesWith
  <2> QED
    BY <2>3, <2>7
<1> QED
  BY <1>6, <1>7, <1>8, <1>9, <1>10, SoleStep DEF Crash

-----------------------------------------------------------------------------
(* Chats *)

ChatRows == \A t \in 1..created : row[t].work \in Chats => row[t].agent = ChatAgent[row[t].work]

LEMMA ChatRowsStep ==
    ASSUME Typed, HandlersWork, NEW p, Procs = {p}, [Next]_vars, ChatOK(h[p]), ChatRows
    PROVE  ChatRows'
PROOF
<1>1. RowStep
  BY SoleFate
<1>2. /\ created \in Nat /\ \A t \in 1..created : row'[t] = row[t]
      /\ Held(h[p]) \subseteq 1..created
  BY <1>1, OldRows
<1>3. CASE created' = created
  BY <1>2, <1>3 DEF ChatRows
<1>4. CASE created' # created
  <2>1. ASSUME row'[created + 1].work \in Chats
        PROVE  row'[created + 1].agent = ChatAgent[row'[created + 1].work]
    BY <1>1, <1>2, <1>4, <2>1, NewRow DEF ChatRows, ChatOK, WillEnqueue, InsertTask, At
  <2>2. \A t \in 1..created' : t \in 1..created \/ t = created + 1
    BY <1>1, <1>2, <1>4, NewRow
  <2> QED
    BY <1>2, <2>1, <2>2 DEF ChatRows
<1> QED
  BY <1>3, <1>4

\* What is queued and what is active decides what may be claimed.
LEMMA SameClaimable ==
    ASSUME NEW p, row' = row,
           \A t \in TaskId : status'[t] = "queued" <=> status[t] = "queued",
           \A t \in TaskId : status'[t] \in Active <=> status[t] \in Active
    PROVE  Claimable(h[p].agent)' = Claimable(h'[p].agent)
BY DEF Claimable, TasksIn, SameLane

LEMMA ChatKnows ==
    ASSUME Typed, HandlersWork, NEW p, Procs = {p}, [Next]_vars, ChatOK(h[p])
    PROVE  ChatOK(h[p])'
PROOF
<1> USE TypedParts
<1> DEFINE Claims == h'[p].pc = "update" => h'[p].cand = Claimable(h[p].agent)'
           Knows  == /\ OnIssue(h'[p]) => h'[p].work \in Issues
                     /\ WillEnqueue(h'[p]) /\ h'[p].work \in Chats =>
                           h'[p].agent = ChatAgent[h'[p].work]
<1>1. SUFFICES Claims /\ Knows
  BY DEF ChatOK, OnIssue, WillEnqueue
<1>2. Issues \cap Chats = {} /\ Chats \cap Runs = {}
  BY TaskRowsAssumption
<1>3. ASSUME UNCHANGED rowVars
      PROVE  Claimable(h[p].agent)' = Claimable(h'[p].agent)
  BY <1>3, SameClaimable DEF rowVars
<1>4. ASSUME h'[p] = h[p], UNCHANGED rowVars \/ StartStep
      PROVE  Claims /\ Knows
  <2>1. CASE StartStep
    <3>1. PICK t \in TaskId : status[t] = "dispatched" /\ SetStatus({t}, "running")
      BY <2>1 DEF StartStep, TasksIn
    <3>2. Claimable(h[p].agent)' = Claimable(h'[p].agent)
      BY <3>1, SameClaimable DEF SetStatus, Active
    <3> QED
      BY <1>4, <3>2 DEF ChatOK
  <2>2. CASE UNCHANGED rowVars
    BY <1>3, <1>4, <2>2 DEF ChatOK
  <2> QED
    BY <1>4, <2>1, <2>2
<1>5. ASSUME Neutral(h'[p])
      PROVE  Claims /\ Knows
  BY <1>5 DEF Neutral
<1>6. ASSUME Opens(p)
      PROVE  Claims /\ Knows
  <2>1. Reads(p) \/ h'[p].pc = "cancelAgent"
    BY <1>6, OpensWith
  <2> QED
    BY <1>2, <1>5, <2>1 DEF Reads, OnIssue, WillEnqueue
<1>7. ASSUME SaveIssue(p)
      PROVE  Claims /\ Knows
  <2>1. h[p].work \in Issues /\ h[p].edit \in Edit
    BY <1>7 DEF SaveIssue, At, HandlersWork, WorkOK, HandlersOK, LocalsOK, LocalOK
  <2>2. PICK new : h'[p] = FollowUp(h[p].work, h[p].edit, new)
    BY <1>7, KeyRecords
  <2>3. \/ h'[p].pc = "idle"
        \/ h'[p].pc \in {"load", "cancelIssue"} /\ h'[p].work \in Issues
    BY <2>1, <2>2, FollowUps
  <2> QED
    BY <1>2, <2>3 DEF OnIssue, WillEnqueue
<1>8. ASSUME LoadAgent(p)
      PROVE  Claims /\ Knows
  BY <1>8, KeyRecords DEF ChatOK, OnIssue, WillEnqueue, KeepsWork
<1>9. ASSUME CancelTasksForIssue(p) \/ CancelForRerun(p)
      PROVE  Claims /\ Knows
  <2>1. h[p].work \in Issues
    BY <1>9 DEF CancelTasksForIssue, CancelForRerun, At, ChatOK, OnIssue
  <2> QED
    BY <1>2, <1>9, <2>1, KeyRecords DEF OnIssue, WillEnqueue, KeepsWork
<1>10. ASSUME ReconcileCount(p) \/ ReconcileWrite(p), h[p].then = "load"
       PROVE  Claims /\ Knows
  <2>1. h[p].work \in Issues
    BY <1>10 DEF ReconcileCount, ReconcileWrite, At, ChatOK, OnIssue
  <2> QED
    BY <1>2, <1>10, <2>1, KeyRecords DEF OnIssue, WillEnqueue, KeepsWork
<1>11. ASSUME ClaimSelect(p)
       PROVE  Claims /\ Knows
  <2>1. h'[p].pc = "update" /\ UNCHANGED rowVars /\ h'[p].cand = Claimable(h'[p].agent)
    BY <1>11, KeyRecords
  <2> QED
    BY <1>3, <2>1 DEF OnIssue, WillEnqueue
<1>12. ASSUME Continue(p)
       PROVE  Claims /\ Knows
  BY <1>5, <1>7, <1>8, <1>9, <1>10, <1>11, <1>12, ContinuesWith
<1>13. ASSUME Background \/ (Crash /\ h'[p] \in {Idle, h[p]})
       PROVE  Claims /\ Knows
  <2>1. Neutral(Idle)
    BY DEF Idle, Neutral, OnIssue, WillEnqueue
  <2>2. CASE h'[p] = Idle
    BY <1>5, <2>1, <2>2
  <2>3. CASE h'[p] # Idle
    BY <1>4, <1>13, <2>3 DEF Background, Crash
  <2> QED
    BY <2>2, <2>3
<1> QED
  BY <1>6, <1>12, <1>13, SoleStep

\* Who claims a task is the only handler, and it takes the first that it has
\* seen, which is also the first that may be claimed.
LEMMA FirstIsClaimed ==
    ASSUME Typed, NEW p, Procs = {p}, [Next]_vars, ClaimStep, ChatOK(h[p])
    PROVE  \E c \in Claimable(h[p].agent) :
              /\ SetStatus({c}, "dispatched")
              /\ \A t \in Claimable(h[p].agent) : ~Before(t, c)
PROOF
<1>1. PICK d \in TaskId : status[d] = "queued" /\ SetStatus({d}, "dispatched") /\ At(p, "update")
  BY DEF ClaimStep, TasksIn
<1>2. status'[d] = "dispatched"
  BY <1>1 DEF SetStatus
<1>3. ~Background /\ ~Crash /\ ~Opens(p)
  BY <1>1, <1>2 DEF Background, StartStep, SetStatus, TasksIn, Crash, Opens, At, rowVars
<1>4. ClaimUpdate(p)
  BY <1>1, <1>3, SoleStep, ContinueFrom
<1>5. h[p].cand = Claimable(h[p].agent)
  BY <1>1 DEF ChatOK, At
<1>6. h[p].cand \cap TasksIn({"queued"}) = Claimable(h[p].agent)
  BY <1>5 DEF Claimable
<1>7. status' # status
  BY <1>1, <1>2
<1> QED
  BY <1>4, <1>6, <1>7 DEF ClaimUpdate, MayBeLocked

LEMMA ChatsShrink ==
    ASSUME ChatsAreSerial, RowsTypeOK, row' = row, created' = created,
           \A t \in TaskId : status'[t] \in Active => status[t] \in Active,
           \A t \in TaskId : status'[t] = "queued" => status[t] = "queued"
    PROVE  ChatsAreSerial'
PROOF
<1>1. \A t \in 1..created : t \in TaskId
  BY TaskRowsAssumption DEF RowsTypeOK, TaskId
<1>2. SerialPerChat'
  BY DEF ChatsAreSerial, SerialPerChat, TasksIn, SameLane
<1>3. ChatsInOrder'
  BY <1>1 DEF ChatsAreSerial, ChatsInOrder
<1> QED
  BY <1>2, <1>3 DEF ChatsAreSerial

LEMMA ChatsSerialStep ==
    ASSUME Typed, HandlersWork, NEW p, Procs = {p}, [Next]_vars, ChatInv
    PROVE  ChatsAreSerial'
PROOF
<1> USE TypedParts
<1>1. ChatOK(h[p]) /\ ChatRows /\ SerialPerChat /\ ChatsInOrder /\ ChatsAreSerial
  BY DEF ChatInv, ChatRows, ChatsAreSerial
<1>2. RowStep
  BY SoleFate
<1>3. \A t \in 1..created : t \in TaskId /\ row'[t] = row[t]
  BY <1>2, OldRows
<1>4. CASE UNCHANGED rowVars
  BY <1>1, <1>4, ChatsShrink DEF rowVars
<1>5. CASE InsertStep
  <2>1. /\ created + 1 \in TaskId /\ created' = created + 1
        /\ \A t \in TaskId : t # created + 1 => status'[t] = status[t] /\ row'[t] = row[t]
        /\ status'[created + 1] = "queued"
    BY <1>5, TaskRowsAssumption DEF InsertStep, Insert, RowsTypeOK, TaskId
  <2>2. SerialPerChat'
    BY <1>1, <2>1 DEF SerialPerChat, SameLane, TasksIn, Active
  <2>3. ChatsInOrder'
    <3> SUFFICES ASSUME NEW t \in 1..created', NEW u \in 1..created', t < u,
                        row'[t].work \in Chats, row'[u].work = row'[t].work,
                        status'[t] = "queued"
                 PROVE  status'[u] \notin Active
      BY DEF ChatsInOrder
    <3>1. CASE u = created + 1
      BY <2>1, <3>1 DEF Active
    <3>2. CASE u # created + 1
      <4>1. t \in 1..created /\ u \in 1..created
        BY <2>1, <3>2
      <4>2. t \in TaskId /\ u \in TaskId /\ t # created + 1
        BY <1>3, <4>1
      <4>3. status'[t] = status[t] /\ status'[u] = status[u] /\ row'[t] = row[t] /\ row'[u] = row[u]
        BY <2>1, <3>2, <4>2
      <4> QED
        BY <1>1, <4>1, <4>3 DEF ChatsInOrder
    <3> QED
      BY <3>1, <3>2
  <2> QED
    BY <2>2, <2>3 DEF ChatsAreSerial
<1>6. CASE ClaimStep
  <2>1. PICK c \in Claimable(h[p].agent) :
           /\ SetStatus({c}, "dispatched")
           /\ \A t \in Claimable(h[p].agent) : ~Before(t, c)
    BY <1>1, <1>6, FirstIsClaimed
  <2>2. /\ c \in TaskId /\ c \in 1..created /\ status[c] = "queued"
        /\ row[c].agent = h[p].agent
        /\ \A u \in TasksIn(Active) : ~SameLane(c, u)
    BY <2>1 DEF Claimable, TasksIn, RowsTypeOK, TaskId
  <2>3. /\ row' = row /\ created' = created /\ status'[c] = "dispatched"
        /\ \A t \in TaskId : t # c => status'[t] = status[t]
    BY <2>1, <2>2 DEF SetStatus
  <2>4. SerialPerChat'
    BY <1>1, <2>2, <2>3 DEF SerialPerChat, SameLane, TasksIn, Active
  <2>5. ChatsInOrder'
    <3> SUFFICES ASSUME NEW t \in 1..created, NEW u \in 1..created, t < u,
                        row[t].work \in Chats, row[u].work = row[t].work,
                        status'[t] = "queued", status'[u] \in Active
                 PROVE  FALSE
      BY <2>3 DEF ChatsInOrder
    <3>1. t # c /\ status[t] = "queued" /\ t \in TaskId /\ u \in TaskId
      BY <1>3, <2>3
    <3>2. u = c
      BY <1>1, <2>3, <3>1 DEF ChatsInOrder
    <3>3. row[t].agent = h[p].agent
      BY <1>1, <2>2, <3>2 DEF ChatRows
    <3>4. \A v : SameLane(t, v) => SameLane(c, v)
      BY <2>2, <3>2, <3>3 DEF SameLane
    <3>5. t \in Claimable(h[p].agent)
      BY <2>2, <3>1, <3>3, <3>4 DEF Claimable, TasksIn
    <3>6. Before(t, c)
      BY <3>2 DEF Before
    <3> QED
      BY <2>1, <3>5, <3>6
  <2> QED
    BY <2>4, <2>5 DEF ChatsAreSerial
<1>7. CASE StartStep
  BY <1>1, <1>7, ChatsShrink DEF StartStep, SetStatus, TasksIn, Active
<1>8. CASE EndStep
  BY <1>1, <1>8, ChatsShrink DEF EndStep, SetStatus, TasksIn, Active, Terminal
<1>9. CASE CancelStep
  BY <1>1, <1>9, ChatsShrink DEF CancelStep, SetStatus, TasksIn, Active
<1> QED
  BY <1>2, <1>4, <1>5, <1>6, <1>7, <1>8, <1>9 DEF RowStep

-----------------------------------------------------------------------------

LEMMA RequestsInit ==
    ASSUME Init
    PROVE  HandlersInv /\ ArchiveInv /\ AssigneeInv /\ ChatInv
PROOF
<1>1. HandlersInv
  BY HandlersInit
<1>2. \A p \in Procs : h[p] = Idle
  BY DEF Init
<1>3. created = 0 /\ TasksIn(Live) = {} /\ TasksIn(Active) = {}
  BY DEF Init, RowsInit, TasksIn, Live, Active
<1>4. Idle.pc = "idle" /\ Held(Idle) = {} /\ ~OnIssue(Idle) /\ ~WillEnqueue(Idle)
  BY DEF Idle, Held, OnIssue, WillEnqueue
<1>5. ArchiveInv
  BY <1>2, <1>3, <1>4 DEF ArchiveInv, ArchiveOK
<1>6. AssigneeInv
  BY <1>2, <1>3, <1>4 DEF AssigneeInv, AssigneeOK
<1>7. ChatInv
  BY <1>2, <1>3, <1>4 DEF ChatInv, ChatOK, ChatsAreSerial, SerialPerChat, ChatsInOrder
<1> QED
  BY <1>1, <1>5, <1>6, <1>7

LEMMA SoleTyped ==
    ASSUME HandlersInv, [Next]_vars
    PROVE  HandlersInv' /\ Typed /\ HandlersWork
BY HandlersInvStep DEF HandlersInv, WorksOK, HandlersWork

\* The messages of a chat session are served one at a time and in their order,
\* whatever the priorities of the other work of its agent, when no two claims
\* overlap: no index guards the chats, and two claims that have both seen the
\* queue before either takes from it may take two messages of one session.
THEOREM ChatsAreServedInOrder ==
    ASSUME NEW p, Procs = {p}
    PROVE  Spec => []ChatsAreSerial
PROOF
<1> DEFINE Inv == HandlersInv /\ ChatInv
<1>1. Init => Inv
  BY RequestsInit
<1>2. ASSUME Inv, [Next]_vars
      PROVE  Inv'
  <2>1. HandlersInv' /\ Typed /\ HandlersWork
    BY <1>2, SoleTyped
  <2>2. ChatOK(h[p]) /\ ChatRows
    BY <1>2 DEF ChatInv, ChatRows
  <2>3. ChatOK(h[p])' /\ ChatRows' /\ ChatsAreSerial'
    BY <1>2, <2>1, <2>2, ChatKnows, ChatRowsStep, ChatsSerialStep
  <2> QED
    BY <2>1, <2>3 DEF ChatInv, ChatRows
<1>3. Inv => ChatsAreSerial
  BY DEF ChatInv
<1> QED
  BY <1>1, <1>2, <1>3, PTL DEF Spec

\* When ArchiveAgent has returned the agent has nothing left to do, where no
\* other request was in flight: one that had checked the agent before may
\* insert its task afterwards.
THEOREM ArchivedHasNothingToDo ==
    ASSUME NEW p, Procs = {p}, "crash" \notin Events
    PROVE  Spec => []ArchivedAgentHasNoTask
PROOF
<1> DEFINE Inv == HandlersInv /\ ArchiveInv
<1>1. Init => Inv
  BY RequestsInit
<1>2. ASSUME Inv, [Next]_vars
      PROVE  Inv'
  BY <1>2, SoleTyped, ArchiveStep
<1>3. Inv => ArchivedAgentHasNoTask
  BY DEF ArchiveInv, ArchiveOK, ArchivedAgentHasNoTask, At
<1> QED
  BY <1>1, <1>2, <1>3, PTL DEF Spec

\* Nobody goes on, or is retried, on an issue that was given to another, where
\* requests do not overlap and nobody is asked by a comment: an update that
\* overlaps with another writes the assignee back that it has read.
THEOREM OnlyTheAssigneeWorks ==
    ASSUME NEW p, Procs = {p}, "crash" \notin Events, "comment" \notin Events
    PROVE  Spec => []OnlyAssigneeHasTasks
PROOF
<1> DEFINE Inv == HandlersInv /\ AssigneeInv
<1>1. Init => Inv
  BY RequestsInit
<1>2. ASSUME Inv, [Next]_vars
      PROVE  Inv'
  BY <1>2, SoleTyped, AssigneeStep
<1>3. Inv => OnlyAssigneeHasTasks
  BY DEF AssigneeInv, AssigneeOK, OnlyAssigneeHasTasks, At
<1> QED
  BY <1>1, <1>2, <1>3, PTL DEF Spec
=============================================================================
