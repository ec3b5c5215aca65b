----------------------------- MODULE TaskQueue -----------------------------
(***************************************************************************)
(* The task service of the server (internal/service/task.go) with the      *)
(* request handlers, the daemon endpoints and the runtime sweeper that     *)
(* call it.  Handlers run concurrently, on one or several server           *)
(* processes, and share nothing but the database: an action is one SQL     *)
(* statement (or a run of reads none of which depends on the other) and a  *)
(* handler keeps what it has read in its own record h[p] between two       *)
(* statements.                                                             *)
(*                                                                         *)
(* Left out: payloads, comments, events, the chat resume pointer, deletion *)
(* of issues, agents and runtimes, and the clock: a runtime may miss its   *)
(* heartbeats and a task may time out at any moment.                       *)
(***************************************************************************)
EXTENDS TaskRows

CONSTANTS
    Procs,          \* requests and sweeps in flight at the same time
    MaxConcurrent,  \* agent.max_concurrent_tasks
    ChatAgent,      \* ChatAgent[c]: the agent of chat session c
    InitialStatus,  \* statuses an issue may have at the start
    AgentSets,      \* statuses that agents give their issues
    DaemonReasons,  \* failure_reason values daemons send
    Events,         \* kinds of outside events of this instance
    MaxRequests     \* bound: requests of users, and server crashes

\* in_review and blocked make no difference to the queue.
IssueStatus == {"backlog", "todo", "in_progress", "done", "cancelled"}

ASSUME TaskQueueAssumption ==
    /\ MaxConcurrent \in Nat \ {0}
    /\ MaxRequests \in Nat
    /\ ChatAgent \in [Chats -> Agents]
    /\ InitialStatus \subseteq IssueStatus
    /\ AgentSets \subseteq IssueStatus
    /\ DaemonReasons \subseteq {"agent_error"} \cup Retryable

VARIABLES
    issue,        \* issue[i].status and issue[i].assignee
    archived,     \* agent.archived_at is set
    runtimeOf,    \* agent.runtime_id
    agentStatus,  \* agent.status
    online,       \* agent_runtime.status = 'online'
    delivered,    \* tasks whose claim response reached a daemon still alive
    h,            \* h[p]: the handler that runs in p, and its locals
    requests      \* user requests so far

dbVars   == <<created, row, status, reason, issue, archived, runtimeOf, agentStatus, online>>
envVars  == <<delivered, requests>>
vars     == <<dbVars, envVars, h>>

PC == {"idle", "save", "load", "insert", "rerun", "cancelIssue", "cancelAgent", "count", "write",
       "agent", "select", "update", "working",
       "retry", "batch", "getIssue", "hasActive", "toTodo", "failOffline"}

IssueRow == [status : IssueStatus, assignee : Agents \cup {None}]

\* The request of UpdateIssue and the row it has read.
Edit == [prev   : IssueRow,
         status : IssueStatus \cup {None},
         assign : BOOLEAN,             \* names an assignee, or null
         to     : Agents \cup {None},
         member : BOOLEAN]             \* the actor is a member, not an agent

Handler ==
    [pc     : PC,
     agents : SUBSET Agents,             \* agents still to claim for or to reconcile
     agent  : Agents \cup {None},
     work   : Works \cup {None},
     rt     : Runtimes \cup {None},
     task   : TaskId \cup {None},
     cand   : SUBSET TaskId,             \* what the sub-select of the claim saw
     batch  : SUBSET TaskId,             \* failed rows still to handle
     kept   : SUBSET Issues,             \* processedIssues and retriedIssues
     seen   : {"idle", "working"},       \* status computed from the count
     then   : {"idle", "load"},          \* what follows the reconciliation
     edit   : Edit \cup {None}]

Idle == [pc |-> "idle", agents |-> {}, agent |-> None, work |-> None,
         rt |-> None, task |-> None, cand |-> {}, batch |-> {}, kept |-> {},
         seen |-> "idle", then |-> "idle", edit |-> None]

TypeOK ==
    /\ RowsTypeOK
    /\ issue \in [Issues -> IssueRow]
    /\ archived \in [Agents -> BOOLEAN]
    /\ runtimeOf \in [Agents -> Runtimes]
    /\ agentStatus \in [Agents -> {"idle", "working"}]
    /\ online \in [Runtimes -> BOOLEAN]
    /\ delivered \in SUBSET TaskId
    /\ h \in [Procs -> Handler]
    /\ requests \in 0..MaxRequests

Init ==
    /\ RowsInit
    /\ issue \in [Issues -> [status : InitialStatus, assignee : Agents]]
    /\ archived = [a \in Agents |-> FALSE]
    /\ runtimeOf \in [Agents -> Runtimes]
    /\ agentStatus = [a \in Agents |-> "idle"]
    /\ online = [r \in Runtimes |-> TRUE]
    /\ delivered = {}
    /\ h = [p \in Procs |-> Idle]
    /\ requests = 0

-----------------------------------------------------------------------------
(* Helpers *)

At(p, pc) == h[p].pc = pc

\* Handler p goes on with the record s.
Goto(p, s) == h' = [h EXCEPT ![p] = s]
Return(p)  == Goto(p, Idle)

\* A user request of the given kind arrives and is served by p.
Request(p, kind) ==
    /\ kind \in Events
    /\ At(p, "idle")
    /\ requests < MaxRequests
    /\ requests' = requests + 1

Ready(a) == a \in Agents /\ ~archived[a]

\* The handler p will check, with GetAgent, that a can work on w.
Load(a, w) == [Idle EXCEPT !.pc = "load", !.agent = a, !.work = w]

\* Reconcile the agents of S one after the other, then do what follows.
Reconcile(S) == [Idle EXCEPT !.pc = IF S = {} THEN "idle" ELSE "count", !.agents = S]

AgentsOf(S) == {row[t].agent : t \in S}

-----------------------------------------------------------------------------
(* Requests of the users: issues, comments, chat, agents *)

\* CreateComment: the on_comment trigger of the assignee and the @mentions
\* skip an agent that is not ready or has a pending task on the issue.
CommentOrMention(p, a, i) ==
    /\ Request(p, "comment")
    /\ Ready(a) /\ ~HasPendingTask(a, i)
    /\ Goto(p, Load(a, i))
    /\ UNCHANGED <<dbVars, delivered>>

\* UpdateIssue reads the row, then checks the request ...
Save(i, e) == [Idle EXCEPT !.pc = "save", !.work = i, !.edit = e]

\* ... which names another assignee (None: unassign) ...
AssignIssue(p, i, a) ==
    /\ Request(p, "assign")
    /\ a # None => Ready(a)
    /\ Goto(p, Save(i, [prev |-> issue[i], status |-> None,
                        assign |-> TRUE, to |-> a, member |-> TRUE]))
    /\ UNCHANGED <<dbVars, delivered>>

\* ... or another status.
MoveIssue(p, i, s) ==
    /\ Request(p, "status")
    /\ Goto(p, Save(i, [prev |-> issue[i], status |-> s,
                        assign |-> FALSE, to |-> None, member |-> TRUE]))
    /\ UNCHANGED <<dbVars, delivered>>

\* RerunIssue reads the issue ...
RerunIssue(p, i) ==
    /\ Request(p, "rerun")
    /\ issue[i].assignee # None
    /\ Goto(p, [Idle EXCEPT !.pc = "rerun", !.agent = issue[i].assignee, !.work = i])
    /\ UNCHANGED <<dbVars, delivered>>

\* SendChatMessage
SendChatMessage(p, c) ==
    /\ Request(p, "chat")
    /\ Goto(p, Load(ChatAgent[c], c))
    /\ UNCHANGED <<dbVars, delivered>>

\* The scheduler or a manual trigger fires a run_only autopilot: each run
\* is fresh, so it has no task yet.
DispatchRunOnly(p, x, a) ==
    /\ Request(p, "run")
    /\ \A t \in 1..created : row[t].work # x
    /\ \A q \in Procs : h[q].work # x
    /\ Goto(p, Load(a, x))
    /\ UNCHANGED <<dbVars, delivered>>

\* CancelTask by id, a no-op when the task has already ended.
CancelTask(p, t) ==
    /\ Request(p, "cancel")
    /\ t \in TasksIn(Live)
    /\ Cancel({t})
    /\ Goto(p, Reconcile({row[t].agent}))
    /\ UNCHANGED <<issue, archived, runtimeOf, agentStatus, online, delivered>>

ArchiveAgent(p, a) ==
    /\ Request(p, "archive")
    /\ ~archived[a]
    /\ archived' = [archived EXCEPT ![a] = TRUE]
    /\ Goto(p, [Idle EXCEPT !.pc = "cancelAgent", !.agent = a])
    /\ UNCHANGED <<rowVars, issue, runtimeOf, agentStatus, online, delivered>>

RestoreAgent(p, a) ==
    /\ Request(p, "archive")
    /\ archived[a]
    /\ archived' = [archived EXCEPT ![a] = FALSE]
    /\ UNCHANGED <<rowVars, issue, runtimeOf, agentStatus, online, delivered, h>>

\* UpdateAgent with another runtime_id; rows keep the runtime they have.
MoveAgent(p, a, r) ==
    /\ Request(p, "move")
    /\ runtimeOf[a] # r
    /\ runtimeOf' = [runtimeOf EXCEPT ![a] = r]
    /\ UNCHANGED <<rowVars, issue, archived, agentStatus, online, delivered, h>>

\* An agent at work sets the status of its issue with the CLI.
AgentSetsIssue(p, t, s) ==
    /\ At(p, "idle")
    /\ t \in TasksIn({"running"}) \cap delivered
    /\ row[t].work \in Issues
    /\ issue[row[t].work].status # s
    /\ Goto(p, Save(row[t].work, [prev |-> issue[row[t].work], status |-> s,
                                  assign |-> FALSE, to |-> None, member |-> FALSE]))
    /\ UNCHANGED <<dbVars, envVars>>

-----------------------------------------------------------------------------
(* The steps that the requests above share *)

\* The rest of UpdateIssue once the row is new, e.prev being the row it read:
\* another assignee empties the issue's queue and is enqueued unless the issue
\* is parked; so does a member who moves it out of backlog; cancelling it
\* empties the queue.  An explicit null (unassign) counts as no change.
FollowUp(i, e, new) ==
    LET assigneeChanged == e.assign /\ e.to # None /\ e.to # e.prev.assignee
        statusChanged   == e.status # None /\ e.status # e.prev.status
        emptyQueue      == [Idle EXCEPT !.pc = "cancelIssue", !.work = i]
    IN  CASE assigneeChanged ->
                 IF new.status = "backlog" THEN emptyQueue
                 ELSE [emptyQueue EXCEPT !.agent = e.to]
          [] ~assigneeChanged /\ statusChanged /\ e.status = "cancelled" -> emptyQueue
          [] ~assigneeChanged /\ statusChanged /\ e.member /\ e.prev.status = "backlog"
             /\ e.status \notin {"done", "cancelled"} /\ new.assignee # None ->
                 Load(new.assignee, i)
          [] OTHER -> Idle

\* The UPDATE of UpdateIssue: status = COALESCE(request, status), but the
\* assignee is the one of the request or else the one read before.
SaveIssue(p) ==
    /\ At(p, "save")
    /\ LET i == h[p].work
           e == h[p].edit
           new == [status   |-> IF e.status = None THEN issue[i].status ELSE e.status,
                   assignee |-> IF e.assign THEN e.to ELSE e.prev.assignee]
       IN  /\ issue' = [issue EXCEPT ![i] = new]
           /\ Goto(p, FollowUp(i, e, new))
    /\ UNCHANGED <<rowVars, archived, runtimeOf, agentStatus, online, envVars>>

\* isAgentAssigneeReady and the same checks in EnqueueTaskForIssue,
\* EnqueueChatTask and dispatchRunOnly.
LoadAgent(p) ==
    /\ At(p, "load")
    /\ IF Ready(h[p].agent)
       THEN Goto(p, [h[p] EXCEPT !.pc = "insert", !.rt = runtimeOf[h[p].agent]])
       ELSE Return(p)
    /\ UNCHANGED <<dbVars, envVars>>

\* CreateAgentTask and its siblings; the error of the index is dropped.
InsertTask(p) ==
    /\ At(p, "insert")
    /\ \/ Insert(FreshRow(h[p].agent, h[p].work, h[p].rt))
       \/ ~IndexAdmits(h[p].agent, h[p].work) /\ UNCHANGED rowVars
    /\ Return(p)
    /\ UNCHANGED <<issue, archived, runtimeOf, agentStatus, online, envVars>>

\* Mutant: the queue is not emptied before the new assignee is enqueued.
KeepTasksOfIssue(p) ==
    /\ At(p, "cancelIssue")
    /\ IF h[p].agent = None THEN Return(p) ELSE Goto(p, Load(h[p].agent, h[p].work))
    /\ UNCHANGED <<rowVars, issue, archived, runtimeOf, agentStatus, online, envVars>>

\* CancelTasksForIssue
CancelTasksForIssue(p) ==
    /\ At(p, "cancelIssue")
    /\ Cancel({t \in TaskId : row[t].work = h[p].work})
    /\ IF h[p].agent = None THEN Return(p) ELSE Goto(p, Load(h[p].agent, h[p].work))
    /\ UNCHANGED <<issue, archived, runtimeOf, agentStatus, online, envVars>>

\* ... cancels the tasks the assignee has on it, reconciles the agent and
\* enqueues it again, whoever the assignee is by then.
CancelForRerun(p) ==
    /\ At(p, "rerun")
    /\ LET a == h[p].agent
           S == {t \in TasksIn(Live) : row[t].work = h[p].work /\ row[t].agent = a}
       IN  /\ Cancel(S)
           /\ Goto(p, IF S = {} THEN Load(a, h[p].work)
                      ELSE [Idle EXCEPT !.pc = "count", !.agents = {a}, !.agent = a,
                                        !.work = h[p].work, !.then = "load"])
    /\ UNCHANGED <<issue, archived, runtimeOf, agentStatus, online, envVars>>

\* Mutant: only the running tasks of the agent are cancelled.
CancelRunningOfAgent(p) ==
    /\ At(p, "cancelAgent")
    /\ Cancel({t \in TasksIn({"running"}) : row[t].agent = h[p].agent})
    /\ Return(p)
    /\ UNCHANGED <<issue, archived, runtimeOf, agentStatus, online, envVars>>

\* CancelAgentTasksByAgent
CancelTasksOfAgent(p) ==
    /\ At(p, "cancelAgent")
    /\ Cancel({t \in TaskId : row[t].agent = h[p].agent})
    /\ Return(p)
    /\ UNCHANGED <<issue, archived, runtimeOf, agentStatus, online, envVars>>

\* ReconcileAgentStatus reads the count ...
ReconcileCount(p) ==
    /\ At(p, "count")
    /\ \E a \in h[p].agents :
          LET s == IF CountRunningTasks(a) > 0 THEN "working" ELSE "idle"
          IN  Goto(p, [h[p] EXCEPT !.pc = "write", !.agent = a, !.seen = s])
    /\ UNCHANGED <<dbVars, envVars>>

\* ... and then writes the status.
ReconcileWrite(p) ==
    /\ At(p, "write")
    /\ agentStatus' = [agentStatus EXCEPT ![h[p].agent] = h[p].seen]
    /\ LET rest == h[p].agents \ {h[p].agent}
       IN  Goto(p, IF h[p].then = "load" THEN Load(h[p].agent, h[p].work) ELSE Reconcile(rest))
    /\ UNCHANGED <<rowVars, issue, archived, runtimeOf, online, envVars>>

-----------------------------------------------------------------------------
(* The claim of a daemon: ClaimTaskForRuntime and ClaimTask *)

\* ListPendingTasksByRuntime; the agents are tried in any order.
ClaimTaskForRuntime(p, r) ==
    /\ At(p, "idle")
    /\ LET S == {t \in TasksIn(Pending) : row[t].runtime = r}
       IN  /\ S # {}
           /\ Goto(p, [Idle EXCEPT !.pc = "agent", !.rt = r, !.agents = AgentsOf(S)])
    /\ UNCHANGED <<dbVars, envVars>>

\* Mutant: the limit is compared with > instead of >=.
ClaimCountOffByOne(p) ==
    /\ At(p, "agent")
    /\ \/ /\ h[p].agents = {}
          /\ Return(p)
       \/ \E a \in h[p].agents :
             LET s == [h[p] EXCEPT !.agents = @ \ {a}]
             IN  Goto(p, IF CountRunningTasks(a) > MaxConcurrent THEN s
                         ELSE [s EXCEPT !.pc = "select", !.agent = a])
    /\ UNCHANGED <<dbVars, envVars>>

\* GetAgent and CountRunningTasks for the next agent of the list.
ClaimCount(p) ==
    /\ At(p, "agent")
    /\ \/ /\ h[p].agents = {}
          /\ Return(p)
       \/ \E a \in h[p].agents :
             LET s == [h[p] EXCEPT !.agents = @ \ {a}]
             IN  Goto(p, IF CountRunningTasks(a) >= MaxConcurrent THEN s
                         ELSE [s EXCEPT !.pc = "select", !.agent = a])
    /\ UNCHANGED <<dbVars, envVars>>

\* ClaimAgentTask takes its snapshot: the sub-select sees the table as it is.
ClaimSelect(p) ==
    /\ At(p, "select")
    /\ Goto(p, [h[p] EXCEPT !.pc = "update", !.cand = Claimable(h[p].agent)])
    /\ UNCHANGED <<dbVars, envVars>>

\* A row of the snapshot that some other claim may have locked by now.
MayBeLocked(p, t) == \E q \in Procs \ {p} : At(q, "update") /\ t \in h[q].cand

\* FOR UPDATE SKIP LOCKED takes the first row of the snapshot that is still
\* queued, passing over rows that other claims may hold; then the UPDATE.
\* The sub-select is not evaluated again on the state of this moment.  A
\* claim whose rows are all held by others finds them dispatched: it returns
\* when they have committed, which nobody can tell from a little earlier.
ClaimUpdate(p) ==
    /\ At(p, "update")
    /\ LET open == h[p].cand \cap TasksIn({"queued"})
       IN  \/ \E t \in open :
                 /\ \A u \in open : Before(u, t) => MayBeLocked(p, u)
                 /\ SetStatus({t}, "dispatched")
                 /\ Goto(p, [h[p] EXCEPT !.pc = "working", !.task = t, !.cand = {}])
           \/ /\ open = {}
              /\ Goto(p, [h[p] EXCEPT !.pc = "agent", !.agent = None, !.cand = {}])
              /\ UNCHANGED <<created, row, status>>
    /\ UNCHANGED <<reason, issue, archived, runtimeOf, agentStatus, online, envVars>>

\* The agent is working.  A task of another runtime is dropped and the loop
\* goes on; otherwise the response may or may not reach the daemon.
ClaimReturn(p) ==
    /\ At(p, "working")
    /\ agentStatus' = [agentStatus EXCEPT ![h[p].agent] = "working"]
    /\ \/ /\ row[h[p].task].runtime # h[p].rt
          /\ Goto(p, [h[p] EXCEPT !.pc = "agent", !.agent = None, !.task = None])
          /\ UNCHANGED delivered
       \/ /\ row[h[p].task].runtime = h[p].rt
          /\ Return(p)
          /\ delivered' \in {delivered, delivered \cup {h[p].task}}
    /\ UNCHANGED <<rowVars, issue, archived, runtimeOf, online, requests>>

-----------------------------------------------------------------------------
(* The calls of a daemon about a task it was given *)

\* Mutant: StartAgentTask without AND status = 'dispatched'.
StartAnyTask(t) ==
    /\ t \in delivered \ TasksIn({"running"})
    /\ SetStatus({t}, "running")
    /\ UNCHANGED <<reason, issue, archived, runtimeOf, agentStatus, online, envVars, h>>

StartTask(t) ==
    /\ t \in delivered \cap TasksIn({"dispatched"})
    /\ SetStatus({t}, "running")
    /\ UNCHANGED <<reason, issue, archived, runtimeOf, agentStatus, online, envVars, h>>

\* CompleteTask on a task that is not running any more is a no-op.
CompleteTask(p, t) ==
    /\ At(p, "idle")
    /\ t \in delivered \cap TasksIn({"running"})
    /\ SetStatus({t}, "completed")
    /\ Goto(p, Reconcile({row[t].agent}))
    /\ UNCHANGED <<reason, issue, archived, runtimeOf, agentStatus, online, envVars>>

\* FailTask, also a no-op on a task that has ended.
FailTask(p, t, why) ==
    /\ At(p, "idle")
    /\ t \in delivered \cap TasksIn(Active)
    /\ Fail({t}, why)
    /\ Goto(p, [Idle EXCEPT !.pc = "retry", !.task = t])
    /\ UNCHANGED <<issue, archived, runtimeOf, agentStatus, online, envVars>>

\* Mutant: recovery that does not call HandleFailedTasks.
RecoverWithoutHandling(p, r) ==
    /\ At(p, "idle")
    /\ LET S == {t \in TasksIn(Active) : row[t].runtime = r}
       IN  /\ S # {}
           /\ Fail(S, "runtime_recovery")
    /\ delivered' = delivered \ {t \in TaskId : row[t].runtime = r}
    /\ UNCHANGED <<issue, archived, runtimeOf, agentStatus, online, requests, h>>

\* A daemon dies, loses what it was given, and starts again:
\* RecoverOrphanedTasks for one of its runtimes.
RecoverOrphans(p, r) ==
    /\ At(p, "idle")
    /\ LET S == {t \in TasksIn(Active) : row[t].runtime = r}
       IN  /\ S # {}
           /\ Fail(S, "runtime_recovery")
           /\ Goto(p, [Idle EXCEPT !.pc = "batch", !.batch = S])
    /\ delivered' = delivered \ {t \in TaskId : row[t].runtime = r}
    /\ UNCHANGED <<issue, archived, runtimeOf, agentStatus, online, requests>>

Heartbeat(r) ==
    /\ ~online[r]
    /\ online' = [online EXCEPT ![r] = TRUE]
    /\ UNCHANGED <<rowVars, issue, archived, runtimeOf, agentStatus, envVars, h>>

\* The daemon shuts down; its runtime goes offline, its tasks stay as they are.
Deregister(r) ==
    /\ "deregister" \in Events
    /\ online[r]
    /\ online' = [online EXCEPT ![r] = FALSE]
    /\ UNCHANGED <<rowVars, issue, archived, runtimeOf, agentStatus, envVars, h>>

-----------------------------------------------------------------------------
(* Failed tasks: FailTask's retry, the sweeper, HandleFailedTasks *)

\* Mutant: no budget.
CanAlwaysRetry(t) ==
    /\ status[t] = "failed"
    /\ reason[t] \in Retryable
    /\ row[t].work \notin Runs

CanRetry(t) ==
    /\ status[t] = "failed"
    /\ reason[t] \in Retryable
    /\ row[t].attempt < MaxAttempts
    /\ row[t].work \notin Runs

\* MaybeRetryFailedTask created a child of t, or did not.
Retried(t)    == CanRetry(t) /\ Insert(RetryRow(t))
NotRetried(t) == /\ ~CanRetry(t) \/ ~IndexAdmits(row[t].agent, row[t].work)
                 /\ UNCHANGED rowVars

\* FailTask after its transaction.
RetryOne(p) ==
    /\ At(p, "retry")
    /\ Retried(h[p].task) \/ NotRetried(h[p].task)
    /\ Goto(p, Reconcile({row[h[p].task].agent}))
    /\ UNCHANGED <<issue, archived, runtimeOf, agentStatus, online, envVars>>

\* sweepStaleRuntimes, first statement: some runtimes missed their heartbeats.
MarkStaleRuntimes(p, S) ==
    /\ "stale" \in Events
    /\ At(p, "idle")
    /\ S # {} /\ \A r \in S : online[r]
    /\ online' = [r \in Runtimes |-> online[r] /\ r \notin S]
    /\ Goto(p, [Idle EXCEPT !.pc = "failOffline"])
    /\ UNCHANGED <<rowVars, issue, archived, runtimeOf, agentStatus, envVars>>

\* Second statement: the tasks of every runtime that is offline by now.
FailOffline(p) ==
    /\ At(p, "failOffline")
    /\ LET S == {t \in TasksIn(Active) : ~online[row[t].runtime]}
       IN  /\ Fail(S, "runtime_offline")
           /\ Goto(p, IF S = {} THEN Idle ELSE [Idle EXCEPT !.pc = "batch", !.batch = S])
    /\ UNCHANGED <<issue, archived, runtimeOf, agentStatus, online, envVars>>

\* Mutant: FailStaleTasks fails old tasks again and again.
SweepFailedToo(p, S) ==
    /\ At(p, "idle")
    /\ S # {} /\ S \subseteq TasksIn(Active \cup {"failed"})
    /\ Fail(S, "timeout")
    /\ Goto(p, [Idle EXCEPT !.pc = "batch", !.batch = S])
    /\ UNCHANGED <<issue, archived, runtimeOf, agentStatus, online, envVars>>

\* Mutant: FailStaleTasks forgets the tasks that were dispatched only.
SweepRunningOnly(p, S) ==
    /\ At(p, "idle")
    /\ S # {} /\ S \subseteq TasksIn({"running"})
    /\ Fail(S, "timeout")
    /\ Goto(p, [Idle EXCEPT !.pc = "batch", !.batch = S])
    /\ UNCHANGED <<issue, archived, runtimeOf, agentStatus, online, envVars>>

\* sweepStaleTasks: the tasks of S have been dispatched or running too long.
SweepStaleTasks(p, S) ==
    /\ At(p, "idle")
    /\ S # {} /\ S \subseteq TasksIn(Active)
    /\ Fail(S, "timeout")
    /\ Goto(p, [Idle EXCEPT !.pc = "batch", !.batch = S])
    /\ UNCHANGED <<issue, archived, runtimeOf, agentStatus, online, envVars>>

\* HandleFailedTasks: the loop is done with task t.
NextFailed(p, t, kept) ==
    Goto(p, [h[p] EXCEPT !.pc = "batch", !.task = None, !.batch = @ \ {t}, !.kept = kept,
                         !.agents = @ \cup {row[t].agent}])

\* The next failed task, in the order of RETURNING, is retried first.
BatchRetry(p) ==
    /\ At(p, "batch")
    /\ \E t \in h[p].batch :
          LET kept == h[p].kept \cup ({row[t].work} \cap Issues)
              go(k) == IF row[t].work \in Issues
                       THEN Goto(p, [h[p] EXCEPT !.pc = "getIssue", !.task = t, !.kept = k])
                       ELSE NextFailed(p, t, k)
          IN  \/ Retried(t) /\ go(kept)
              \/ NotRetried(t) /\ go(h[p].kept)
    /\ UNCHANGED <<issue, archived, runtimeOf, agentStatus, online, envVars>>

\* GetIssue: only an in_progress issue not seen yet is looked at.
BatchGetIssue(p) ==
    /\ At(p, "getIssue")
    /\ LET t == h[p].task
           i == row[t].work
       IN  IF i \in Issues \ h[p].kept /\ issue[i].status = "in_progress"
           THEN Goto(p, [h[p] EXCEPT !.pc = "hasActive", !.kept = @ \cup {i}])
           ELSE NextFailed(p, t, h[p].kept)
    /\ UNCHANGED <<dbVars, envVars>>

\* Mutant: the check counts the issue's ended tasks too.
BatchHasAny(p) ==
    /\ At(p, "hasActive")
    /\ IF \E t \in TasksIn(Live \cup Terminal) : row[t].work = row[h[p].task].work
       THEN NextFailed(p, h[p].task, h[p].kept)
       ELSE Goto(p, [h[p] EXCEPT !.pc = "toTodo"])
    /\ UNCHANGED <<dbVars, envVars>>

\* HasActiveTaskForIssue
BatchHasActive(p) ==
    /\ At(p, "hasActive")
    /\ IF HasActiveTask(row[h[p].task].work)
       THEN NextFailed(p, h[p].task, h[p].kept)
       ELSE Goto(p, [h[p] EXCEPT !.pc = "toTodo"])
    /\ UNCHANGED <<dbVars, envVars>>

\* UpdateIssueStatus(todo), whatever the issue has become.
BatchResetIssue(p) ==
    /\ At(p, "toTodo")
    /\ issue' = [issue EXCEPT ![row[h[p].task].work].status = "todo"]
    /\ NextFailed(p, h[p].task, h[p].kept)
    /\ UNCHANGED <<rowVars, archived, runtimeOf, agentStatus, online, envVars>>

\* The loop is over: reconcile the agents it met.
BatchDone(p) ==
    /\ At(p, "batch")
    /\ h[p].batch = {}
    /\ Goto(p, Reconcile(h[p].agents))
    /\ UNCHANGED <<dbVars, envVars>>

\* A server process dies: what its handlers had still to do is lost.
ServerCrash(P) ==
    /\ "crash" \in Events
    /\ requests < MaxRequests
    /\ requests' = requests + 1
    /\ \E p \in P : ~At(p, "idle")
    /\ h' = [p \in Procs |-> IF p \in P THEN Idle ELSE h[p]]
    /\ UNCHANGED <<dbVars, delivered>>

-----------------------------------------------------------------------------

UserRequest(p) ==
    \/ \E a \in Agents, i \in Issues : CommentOrMention(p, a, i)
    \/ \E i \in Issues, a \in Agents \cup {None} : AssignIssue(p, i, a)
    \/ \E i \in Issues, s \in IssueStatus : MoveIssue(p, i, s)
    \/ \E i \in Issues : RerunIssue(p, i)
    \/ \E c \in Chats : SendChatMessage(p, c)
    \/ \E x \in Runs, a \in Agents : DispatchRunOnly(p, x, a)
    \/ \E t \in TaskId : CancelTask(p, t)
    \/ \E a \in Agents : ArchiveAgent(p, a)
    \/ \E a \in Agents : RestoreAgent(p, a)
    \/ \E a \in Agents, r \in Runtimes : MoveAgent(p, a, r)

\* What a handler in flight does next: the code never waits here.
Continue(p) ==
    \/ SaveIssue(p)
    \/ LoadAgent(p)           \/ InsertTask(p)
    \/ CancelTasksForIssue(p) \/ CancelTasksOfAgent(p)
    \/ CancelForRerun(p)
    \/ ReconcileCount(p)      \/ ReconcileWrite(p)
    \/ ClaimCount(p)          \/ ClaimSelect(p)
    \/ ClaimUpdate(p)         \/ ClaimReturn(p)
    \/ RetryOne(p)            \/ FailOffline(p)
    \/ BatchRetry(p)          \/ BatchGetIssue(p)
    \/ BatchHasActive(p)      \/ BatchResetIssue(p)
    \/ BatchDone(p)

DaemonCall(p) ==
    \/ \E t \in TaskId, s \in AgentSets : AgentSetsIssue(p, t, s)
    \/ \E r \in Runtimes : ClaimTaskForRuntime(p, r)
    \/ \E t \in TaskId : CompleteTask(p, t)
    \/ \E t \in TaskId, why \in DaemonReasons : FailTask(p, t, why)
    \/ \E r \in Runtimes : RecoverOrphans(p, r)

Sweep(p) ==
    \/ \E S \in SUBSET Runtimes : MarkStaleRuntimes(p, S)
    \/ \E S \in SUBSET TaskId : SweepStaleTasks(p, S)

\* Nothing is in flight and no task waits: the only states to stay in for ever.
Quiet ==
    /\ \A p \in Procs : At(p, "idle")
    /\ TasksIn(Live) = {}
    /\ UNCHANGED vars

Next ==
    \/ \E p \in Procs : UserRequest(p) \/ Continue(p) \/ DaemonCall(p) \/ Sweep(p)
    \/ \E t \in TaskId : StartTask(t)
    \/ \E r \in Runtimes : Heartbeat(r) \/ Deregister(r)
    \/ \E P \in SUBSET Procs : ServerCrash(P)
    \/ Quiet

Spec == Init /\ [][Next]_vars

-----------------------------------------------------------------------------
(* Properties *)

\* One agent never runs two tasks of one issue at a time: no two tasks of an
\* (issue, agent) pair are dispatched or running together, although a claim
\* decides on a snapshot that may be stale when it takes the row.
SerialPerIssueAgent ==
    \A t, u \in TasksIn(Active) :
        t # u /\ row[t].work \in Issues => ~SameLane(t, u)

\* A task that has ended stays as it ended: a late answer of a daemon, a
\* sweep, a recovery or a cancellation that loses the race changes nothing.
TerminalIsForever ==
    [][\A t \in TaskId : status[t] \in Terminal =>
          /\ status'[t] = status[t]
          /\ reason'[t] = reason[t]
          /\ row'[t] = row[t]]_rowVars

\* Whoever fails a task first is alone in retrying it: a task has at most one
\* child, however sweeper, recovery and FailTask overlap, and the chain of
\* attempts stays on the same agent and the same work within its budget.
RetriedAtMostOnce ==
    \A t \in 1..created : row[t].parent # None =>
        /\ status[row[t].parent] = "failed"
        /\ reason[row[t].parent] \in Retryable
        /\ row[t].attempt = row[row[t].parent].attempt + 1
        /\ row[t].agent = row[row[t].parent].agent
        /\ row[t].work = row[row[t].parent].work
        /\ \A u \in 1..created \ {t} : row[u].parent # row[t].parent

\* The handler of a failed task is still on its way to the retry.
AwaitsRetry(t) ==
    \E p \in Procs : \/ At(p, "retry") /\ h[p].task = t
                     \/ t \in h[p].batch

\* As long as no server dies, an infrastructure failure with budget left is
\* never dropped: its handler is still at work, or a later task of the same
\* agent on the same issue or chat exists.
FailureIsFollowedUp ==
    \A t \in TasksIn({"failed"}) :
        CanRetry(t) => \/ AwaitsRetry(t)
                       \/ \E u \in 1..created : u > t /\ SameLane(t, u)

\* Every task that issue i ever had has died of an infrastructure failure.
Abandoned(i) ==
    /\ \E t \in 1..created : row[t].work = i
    /\ \A t \in 1..created :
          row[t].work = i => status[t] = "failed" /\ reason[t] # "agent_error"

\* HandleFailedTasks leaves no issue behind: when every handler is done, an
\* issue whose tasks have all died of an infrastructure failure is not left
\* in_progress.
NoIssueLeftInProgress ==
    \A i \in Issues :
        Abandoned(i) /\ (\A p \in Procs : At(p, "idle")) => issue[i].status # "in_progress"

\* The limit is checked in one statement and used in the next, so claims that
\* overlap may exceed it, but by no more than one task for each claim in flight
\* besides the last: the excess never accumulates.
InFlight(a) ==
    Cardinality({p \in Procs : h[p].pc \in {"select", "update"} /\ h[p].agent = a})

OvershootIsBounded ==
    \A a \in Agents :
        CountRunningTasks(a) + InFlight(a) <= MaxConcurrent + Cardinality(Procs) - 1

\* Chat tasks are serialized by their chat_session_id.
SerialPerChat ==
    \A t, u \in TasksIn(Active) :
        t # u /\ row[t].work \in Chats => ~SameLane(t, u)

\* The tasks of a chat session are taken in the order they were created: no
\* message is picked up while an older one is queued, although the claim sorts
\* the tasks of all the agent's chats and issues by priority first.
ChatsInOrder ==
    \A t, u \in 1..created :
        /\ t < u
        /\ row[t].work \in Chats /\ row[u].work = row[t].work
        /\ status[t] = "queued"
        => status[u] \notin Active

\* ClaimAgentTask: a session is served one message at a time, oldest first. For
\* claims that do not overlap: no index guards the chats.
ChatsAreSerial == SerialPerChat /\ ChatsInOrder

\* When the only triggers are assignments and status changes, and none is at
\* work, whoever has a task of an issue that is assigned is its assignee: no
\* agent goes on, or is retried, on work that was given to another.
OnlyAssigneeHasTasks ==
    (\A p \in Procs : At(p, "idle")) =>
        \A t \in TasksIn(Live) :
            row[t].work \in Issues =>
                issue[row[t].work].assignee \in {None, row[t].agent}

\* Once ArchiveAgent has returned, the agent has no pending or active task.
ArchivedAgentHasNoTask ==
    \A a \in Agents :
        archived[a] /\ (\A p \in Procs : At(p, "idle")) =>
            \A t \in TasksIn(Live) : row[t].agent # a

-----------------------------------------------------------------------------
(* Why SerialPerIssueAgent holds, as an inductive invariant *)

\* What the locals of a handler are where they are used, when n rows exist.
LocalOK(s, n) ==
    /\ s.pc = "save" => s.edit \in Edit
    /\ s.pc \in {"insert", "rerun"} => s.agent \in Agents
    /\ s.pc \in {"retry", "getIssue", "hasActive", "toTodo", "working"} => s.task \in 1..n
    /\ s.batch \subseteq 1..n
    /\ s.cand \subseteq 1..n

LocalsOK == \A p \in Procs : LocalOK(h[p], created)

RowsComplete == \A t \in 1..created : row[t].agent \in Agents

\* What the index guarantees.
OnePendingTask ==
    \A t, u \in TasksIn(Pending) :
        t # u /\ row[t].work \in Issues => ~SameLane(t, u)

\* A row in the snapshot of a claim is fit for dispatch as long as it is
\* queued: nobody else is active in its lane.  The index makes this so, for
\* whoever enters the lane must first be pending in it.
SnapshotStaysValid ==
    \A p \in Procs : At(p, "update") =>
        \A t \in h[p].cand \cap TasksIn({"queued"}) :
            row[t].work \in Issues =>
                \A u \in TasksIn(Active) : ~SameLane(t, u)

\* The inductive invariant: neither SerialPerIssueAgent nor the sub-select of
\* the claim says anything about the rows a claim has seen and not yet taken.
IInv ==
    /\ TypeOK
    /\ LocalsOK
    /\ RowsComplete
    /\ OnePendingTask
    /\ SnapshotStaysValid
    /\ SerialPerIssueAgent

\* What a claim has seen are rows of the agent it claims for: the task that it
\* dispatches uses up the slot that it has counted.
CandOfAgent ==
    \A p \in Procs : At(p, "update") =>
        \A t \in h[p].cand : row[t].agent = h[p].agent

-----------------------------------------------------------------------------
(* Why RetriedAtMostOnce, FailureIsFollowedUp and NoIssueLeftInProgress hold *)

\* The failed tasks whose retry the handler of record s has still to try.
Held(s) ==
    CASE s.pc = "retry" -> {s.task}
      [] s.pc = "batch" -> s.batch
      [] s.pc \in {"getIssue", "hasActive", "toTodo"} -> s.batch \ {s.task}
      [] OTHER -> {}

\* What is held has failed for good and has no child yet, ...
HeldIsUnretried ==
    \A p \in Procs : \A t \in Held(h[p]) :
        status[t] = "failed" /\ \A u \in 1..created : row[u].parent # t

\* ... and one handler only holds it: the one whose UPDATE failed it.
HeldOnce ==
    \A p, q \in Procs : p # q => Held(h[p]) \cap Held(h[q]) = {}

RetryInv == HeldIsUnretried /\ HeldOnce /\ RetriedAtMostOnce

\* The statuses that users and agents ask for.
Requested == {None} \cup AgentSets \cup (IF "status" \in Events THEN IssueStatus ELSE {})

\* A task is created for something: the handlers that will insert one know it,
\* and the issue of an update is given only what was asked for.
WorkOK(s) ==
    /\ s.pc = "save" => s.work \in Issues /\ s.edit.status \in Requested
    /\ s.pc \in {"load", "insert", "rerun", "cancelIssue"} => s.work \in Works
    /\ s.then = "load" => s.work \in Works

WorksOK ==
    /\ \A p \in Procs : WorkOK(h[p])
    /\ \A t \in 1..created : row[t].work \in Works

\* Only the latest task of a lane is pending: the one that the index finds in
\* the way of a retry is later than the task that failed.
LatestIsPending ==
    \A t, u \in 1..created :
        u < t /\ row[t].work \in Issues /\ SameLane(t, u) => status[u] \notin Pending

\* FailureIsFollowedUp, with the handler that will do it.
HeldOrFollowed ==
    \A t \in TasksIn({"failed"}) :
        CanRetry(t) => \/ \E p \in Procs : t \in Held(h[p])
                       \/ \E u \in 1..created : u > t /\ SameLane(t, u)

FollowUpInv == WorksOK /\ LatestIsPending /\ HeldOrFollowed

\* The loop of record s will still come to issue i, or is about to reset it.
Resets(s, i) ==
    /\ s.pc \in {"batch", "getIssue", "hasActive", "toTodo"}
    /\ \/ s.pc \in {"hasActive", "toTodo"} /\ row[s.task].work = i
       \/ i \notin s.kept /\ \E t \in s.batch : row[t].work = i

\* The batch that failed the last task of an issue, or one that failed an
\* earlier task and is not done with it, resets the issue.
AbandonedIsReset ==
    \A i \in Issues :
        Abandoned(i) /\ issue[i].status = "in_progress" => \E p \in Procs : Resets(h[p], i)

-----------------------------------------------------------------------------
(* Why ChatsAreSerial, ArchivedAgentHasNoTask and OnlyAssigneeHasTasks hold    *)
(* where requests do not overlap: what a handler knows stays true until it is *)
(* idle again.                                                                *)

\* The handler of record s, or the update that it makes, follows an issue.
OnIssue(s) ==
    \/ s.pc \in {"save", "rerun", "cancelIssue"}
    \/ s.pc \in {"count", "write"} /\ s.then = "load"

\* The handler of record s is about to enqueue s.agent on s.work.
WillEnqueue(s) ==
    \/ s.pc \in {"load", "insert", "rerun"}
    \/ s.pc = "cancelIssue" /\ s.agent # None
    \/ s.pc \in {"count", "write"} /\ s.then = "load"

\* A chat session belongs to one agent, and the snapshot of a claim is still
\* true when the claim uses it.
ChatOK(s) ==
    /\ OnIssue(s) => s.work \in Issues
    /\ WillEnqueue(s) /\ s.work \in Chats => s.agent = ChatAgent[s.work]
    /\ s.pc = "update" => s.cand = Claimable(s.agent)

ChatInv ==
    /\ \A p \in Procs : ChatOK(h[p])
    /\ \A t \in 1..created : row[t].work \in Chats => row[t].agent = ChatAgent[row[t].work]
    /\ ChatsAreSerial

\* Only ArchiveAgent sees an archived agent with tasks, and cancels them.
ArchiveOK(s) ==
    /\ s.pc = "insert" => ~archived[s.agent]
    /\ \A t \in Held(s) : ~archived[row[t].agent]
    /\ \A t \in TasksIn(Live) :
          archived[row[t].agent] => s.pc = "cancelAgent" /\ s.agent = row[t].agent

ArchiveInv == \A p \in Procs : ArchiveOK(h[p])

\* UpdateIssue writes over the assignee that it has read, whoever is enqueued
\* is the assignee, and so are the agents of the tasks of the issue, unless
\* UpdateIssue is about to cancel them.
AssigneeOK(s) ==
    /\ s.pc = "save" => s.edit.prev.assignee = issue[s.work].assignee
    /\ WillEnqueue(s) /\ s.work \in Issues => s.agent = issue[s.work].assignee
    /\ s.pc = "count" /\ s.then = "load" => s.agents \subseteq {s.agent}
    /\ \A t \in TasksIn(Live) \cup Held(s) :
          row[t].work \in Issues =>
             \/ issue[row[t].work].assignee \in {None, row[t].agent}
             \/ s.pc = "cancelIssue" /\ s.work = row[t].work

AssigneeInv == \A p \in Procs : AssigneeOK(h[p])

-----------------------------------------------------------------------------
(* Refinement: the rows of an (agent, issue) pair, seen as a lane *)

LaneHolds(l, s) ==
    \E t \in TaskId : row[t].agent = l[1] /\ row[t].work = l[2] /\ status[t] = s

laneWaiting == [l \in Agents \X Issues |-> LaneHolds(l, "queued")]
laneHolder  == [l \in Agents \X Issues |->
                   IF LaneHolds(l, "running") THEN "running"
                   ELSE IF LaneHolds(l, "dispatched") THEN "dispatched" ELSE "nobody"]

Abstract == INSTANCE AgentLanes
    WITH Lanes <- Agents \X Issues, waiting <- laneWaiting, holder <- laneHolder

\* The queue implements the lanes: per agent and issue at most one task waits
\* and at most one is worked on, and tasks move up in no other way.
ImplementsLanes == Abstract!Spec

-----------------------------------------------------------------------------
(* Liveness *)

\* A handler goes on; the sweeper's ticker fires for ever and the clock makes
\* every task old; daemons poll for ever.  Strong fairness stands for the
\* goroutine that is always there: here Procs bounds how many there are.
Fairness ==
    /\ \A p \in Procs : WF_vars(Continue(p))
    /\ \A t \in TaskId :
          SF_vars(\E p \in Procs, S \in SUBSET TaskId : t \in S /\ SweepStaleTasks(p, S))
    /\ \A r \in Runtimes : SF_vars(\E p \in Procs : ClaimTaskForRuntime(p, r))

FairSpec == Spec /\ Fairness

\* Whatever daemons do, a dispatched or running task ends.
ActiveTaskEnds ==
    \A t \in TaskId : status[t] \in Active ~> status[t] \in Terminal

\* A queued task of a polled runtime is claimed or cancelled.
QueuedTaskLeavesQueue ==
    \A t \in TaskId : status[t] = "queued" ~> status[t] # "queued"
=============================================================================
