----------------------------- MODULE Autopilot -----------------------------
(***************************************************************************)
(* Autopilots: the scheduler that each server runs                         *)
(* (cmd/server/autopilot_scheduler.go), the dispatch of a run              *)
(* (internal/service/autopilot.go), and the listeners that end a run when  *)
(* its issue or its task ends (cmd/server/autopilot_listeners.go).  As in  *)
(* TaskQueue, an action is one SQL statement or one transaction.           *)
(*                                                                         *)
(* A schedule fires once per unit of time: ComputeNextRun gives now + 1.   *)
(* Servers and database share one clock, and a time is stored within the   *)
(* period it was computed in. A run makes an issue or a task of its own,   *)
(* so both carry the number of the run. Of an issue only what ends a run   *)
(* matters; its tasks are those of TaskQueue. Left out: payloads,          *)
(* webhooks, creation and deletion of autopilots and triggers, database    *)
(* errors other than those the other actions cause.                        *)
(***************************************************************************)
EXTENDS Naturals, FiniteSets

CONSTANTS
    Triggers, Autopilots, Agents,
    Owner,        \* Owner[t]: the autopilot of trigger t
    Assignee,     \* Assignee[a]: the agent of autopilot a
    Schedulers,   \* one scheduler goroutine per server
    Handlers,     \* requests in flight at the same time
    Modes,        \* execution modes in use
    Statuses,     \* statuses users give autopilots
    TaskEnds,     \* how tasks end here
    Events,       \* kinds of outside events of this instance
    MaxTime,      \* bound: periods of the schedule
    MaxRuns,      \* bound: runs ever created
    MaxRequests,  \* bound: requests of users, and crashes
    None          \* NULL

ASSUME AutopilotAssumption ==
    /\ MaxTime \in Nat /\ MaxRuns \in Nat /\ MaxRequests \in Nat
    /\ Owner \in [Triggers -> Autopilots]
    /\ Assignee \in [Autopilots -> Agents]
    /\ Modes \subseteq {"create_issue", "run_only"}
    /\ Statuses \subseteq {"active", "paused"}
    /\ TaskEnds \subseteq {"completed", "failed", "cancelled"}
    /\ Schedulers \cap Handlers = {}
    /\ None \notin Triggers \cup Autopilots \cup Nat
    /\ None \notin Triggers \X Nat

VARIABLES
    now,
    trigger,    \* trigger[t].enabled and trigger[t].next (next_run_at)
    autopilot,  \* autopilot[a].status and autopilot[a].mode
    archived,   \* agents that are archived
    created,    \* number of runs so far
    run,        \* run[k]: a row of autopilot_run
    issue,      \* issue[k]: the status of the issue of run k
    task,       \* task[k]: the status of the task of a run_only run k
    g,          \* g[p]: the goroutine p and its locals
    requests    \* requests and crashes so far

runVars == <<created, run>>
env     == <<archived, requests>>
vars    == <<now, trigger, autopilot, runVars, issue, task, g, env>>

Procs   == Schedulers \cup Handlers
RunId   == 1..MaxRuns
Time    == 0..(MaxTime + 1)
Open    == {"issue_created", "running"}       \* GetAutopilotRunByIssue
Ended   == {"completed", "failed"}
TaskEnd == {"completed", "failed", "cancelled"}

\* in_review counts as done and blocked as cancelled, as in SyncRunFromIssue.
IssueStatus == {"open", "done", "cancelled"}

RunRow == [owner   : Autopilots \cup {None},
           trigger : Triggers \cup {None},
           due     : Time \cup {None},        \* the period that was claimed
           status  : Open \cup Ended \cup {"none"},
           linked  : BOOLEAN]                 \* issue_id is set

PC == {"down", "recover", "idle", "tick", "create", "issue", "link", "enqueue",
       "agent", "task", "running", "fail", "advance",
       "syncTask", "getIssue", "getRun", "endRun", "delete", "cancelAgent"}

Goroutine ==
    [pc    : PC,
     todo  : SUBSET (Triggers \X Time),        \* claimed, not yet dispatched
     lost  : SUBSET Triggers,                  \* to reschedule at start
     fire  : (Triggers \X Time) \cup {None},   \* the claim being dispatched
     owner : Autopilots \cup {None},
     mode  : Modes \cup {None},
     agent : Agents \cup {None},
     k     : RunId \cup {None},
     seen  : IssueStatus \cup {None}]

Idle == [pc |-> "idle", todo |-> {}, lost |-> {}, fire |-> None, owner |-> None,
         mode |-> None, agent |-> None, k |-> None, seen |-> None]
Down == [Idle EXCEPT !.pc = "down"]

NoRun == [owner |-> None, trigger |-> None, due |-> None, status |-> "none", linked |-> FALSE]

TypeOK ==
    /\ now \in 0..MaxTime
    /\ trigger \in [Triggers -> [enabled : BOOLEAN, next : Time \cup {None}]]
    /\ autopilot \in [Autopilots -> [status : {"active", "paused"}, mode : Modes]]
    /\ archived \in SUBSET Agents
    /\ created \in 0..MaxRuns
    /\ run \in [RunId -> RunRow]
    /\ \A k \in RunId : (run[k].status = "none") <=> (k > created)
    /\ issue \in [RunId -> IssueStatus \cup {"none", "deleted"}]
    /\ task \in [RunId -> TaskEnd \cup {"none", "live"}]
    /\ g \in [Procs -> Goroutine]
    /\ requests \in 0..MaxRequests

Init ==
    /\ now = 0
    /\ trigger = [t \in Triggers |-> [enabled |-> TRUE, next |-> 1]]
    /\ autopilot \in [Autopilots -> [status : {"active"}, mode : Modes]]
    /\ archived = {}
    /\ created = 0
    /\ run = [k \in RunId |-> NoRun]
    /\ issue = [k \in RunId |-> "none"]
    /\ task = [k \in RunId |-> "none"]
    /\ g = [p \in Procs |-> IF p \in Schedulers THEN Down ELSE Idle]
    /\ requests = 0

-----------------------------------------------------------------------------
(* Helpers *)

At(p, pc)  == g[p].pc = pc
Goto(p, s) == g' = [g EXCEPT ![p] = s]
GoAt(p, pc) == Goto(p, [g[p] EXCEPT !.pc = pc])
Return(p)  == Goto(p, Idle)

Request(p, kind) ==
    /\ kind \in Events
    /\ p \in Handlers /\ At(p, "idle")
    /\ requests < MaxRequests
    /\ requests' = requests + 1

Enabled(t) == trigger[t].enabled /\ autopilot[Owner[t]].status = "active"

\* ClaimDueScheduleTriggers: the rows its WHERE clause selects.
Due == {t \in Triggers : /\ Enabled(t)
                         /\ trigger[t].next # None /\ trigger[t].next <= now}

\* RecoverLostTriggers: the rows its WHERE clause selects.
Lost == {t \in Triggers : Enabled(t) /\ trigger[t].next = None}

\* AdvanceTriggerNextRun with the time that ComputeNextRun gives.
Reschedule(t) == trigger' = [trigger EXCEPT ![t].next = now + 1]

SetRun(k, s) == run' = [run EXCEPT ![k].status = s] /\ UNCHANGED created

-----------------------------------------------------------------------------
(* The scheduler *)

Tick ==
    /\ now < MaxTime
    /\ now' = now + 1
    /\ UNCHANGED <<trigger, autopilot, runVars, issue, task, g, env>>

\* Mutant: a server that starts recovers nothing.
StartWithoutRecovery(p) ==
    /\ At(p, "down")
    /\ Goto(p, [Idle EXCEPT !.pc = "recover"])
    /\ UNCHANGED <<now, trigger, autopilot, runVars, issue, task, env>>

\* A server starts: recoverLostTriggers reads the triggers without a time ...
StartScheduler(p) ==
    /\ At(p, "down")
    /\ Goto(p, [Idle EXCEPT !.pc = "recover", !.lost = Lost])
    /\ UNCHANGED <<now, trigger, autopilot, runVars, issue, task, env>>

\* ... and gives each of them a new one.
RecoverTrigger(p) ==
    /\ At(p, "recover")
    /\ \E t \in g[p].lost :
          /\ Reschedule(t)
          /\ Goto(p, [g[p] EXCEPT !.lost = @ \ {t}])
    /\ UNCHANGED <<now, autopilot, runVars, issue, task, env>>

\* Mutant: the statement claims nothing, next_run_at keeps its value.
ClaimWithoutMark(p) ==
    /\ p \in Schedulers /\ At(p, "idle")
    /\ Due # {}
    /\ Goto(p, [Idle EXCEPT !.pc = "tick", !.todo = {<<t, trigger[t].next>> : t \in Due}])
    /\ UNCHANGED <<now, trigger, autopilot, runVars, issue, task, env>>

\* tickScheduledAutopilots claims every due trigger in one statement ...
ClaimDue(p) ==
    /\ p \in Schedulers /\ At(p, "idle")
    /\ Due # {}
    /\ trigger' = [t \in Triggers |->
                      IF t \in Due THEN [trigger[t] EXCEPT !.next = None] ELSE trigger[t]]
    /\ Goto(p, [Idle EXCEPT !.pc = "tick", !.todo = {<<t, trigger[t].next>> : t \in Due}])
    /\ UNCHANGED <<now, autopilot, runVars, issue, task, env>>

\* ... and takes them one by one, loading the autopilot.
NextTrigger(p) ==
    /\ At(p, "tick")
    /\ \E c \in g[p].todo :
          LET a == Owner[c[1]]
          IN  Goto(p, [g[p] EXCEPT !.pc = "create", !.fire = c, !.owner = a,
                                   !.mode = autopilot[a].mode])
    /\ UNCHANGED <<now, trigger, autopilot, runVars, issue, task, env>>

\* advanceNextRun, whether the dispatch succeeded or not.
Advance(p) ==
    /\ At(p, "advance")
    /\ IF g[p].fire = None
       THEN Return(p) /\ UNCHANGED trigger
       ELSE /\ Reschedule(g[p].fire[1])
            /\ Goto(p, [Idle EXCEPT !.pc = "tick", !.todo = g[p].todo])
    /\ UNCHANGED <<now, autopilot, runVars, issue, task, env>>

\* The tick or the recovery has no trigger left.
LoopDone(p) ==
    /\ \/ At(p, "tick") /\ g[p].todo = {}
       \/ At(p, "recover") /\ g[p].lost = {}
    /\ Return(p)
    /\ UNCHANGED <<now, trigger, autopilot, runVars, issue, task, env>>

-----------------------------------------------------------------------------
(* DispatchAutopilot *)

\* TriggerAutopilot: a manual run.
TriggerAutopilot(p, a) ==
    /\ Request(p, "manual")
    /\ autopilot[a].status = "active"
    /\ Goto(p, [Idle EXCEPT !.pc = "create", !.owner = a, !.mode = autopilot[a].mode])
    /\ UNCHANGED <<now, trigger, autopilot, runVars, issue, task, archived>>

\* CreateAutopilotRun
CreateRun(p) ==
    /\ At(p, "create")
    /\ created < MaxRuns
    /\ LET k == created + 1
           c == g[p].fire
           m == g[p].mode
       IN  /\ created' = k
           /\ run' = [run EXCEPT ![k] =
                 [owner   |-> g[p].owner,
                  trigger |-> IF c = None THEN None ELSE c[1],
                  due     |-> IF c = None THEN None ELSE c[2],
                  status  |-> IF m = "run_only" THEN "running" ELSE "issue_created",
                  linked  |-> FALSE]]
           /\ Goto(p, [g[p] EXCEPT !.pc = IF m = "run_only" THEN "agent" ELSE "issue",
                                   !.k = k, !.todo = @ \ {c}])
    /\ UNCHANGED <<now, trigger, autopilot, issue, task, env>>

\* dispatchCreateIssue creates the issue in a transaction ...
CreateIssue(p) ==
    /\ At(p, "issue")
    /\ issue' = [issue EXCEPT ![g[p].k] = "open"]
    /\ GoAt(p, "link")
    /\ UNCHANGED <<now, trigger, autopilot, runVars, task, env>>

\* ... links it with another statement, which fails on the foreign key when
\* the issue is gone ...
LinkIssue(p) ==
    /\ At(p, "link")
    /\ LET k == g[p].k
       IN  IF issue[k] = "deleted"
           THEN GoAt(p, "fail") /\ UNCHANGED runVars
           ELSE /\ run' = [run EXCEPT ![k].status = "issue_created", ![k].linked = TRUE]
                /\ UNCHANGED created
                /\ GoAt(p, "enqueue")
    /\ UNCHANGED <<now, trigger, autopilot, issue, task, env>>

\* ... and enqueues a task for the agent, if there is one that can take it.
EnqueueTaskForIssue(p) ==
    /\ At(p, "enqueue")
    /\ IF Assignee[g[p].owner] \in archived \/ issue[g[p].k] = "deleted"
       THEN GoAt(p, "fail")
       ELSE GoAt(p, "advance")
    /\ UNCHANGED <<now, trigger, autopilot, runVars, issue, task, env>>

\* dispatchRunOnly loads the agent ...
LoadAgent(p) ==
    /\ At(p, "agent")
    /\ GoAt(p, IF Assignee[g[p].owner] \in archived THEN "fail" ELSE "task")
    /\ UNCHANGED <<now, trigger, autopilot, runVars, issue, task, env>>

\* ... inserts the task ...
CreateAutopilotTask(p) ==
    /\ At(p, "task")
    /\ task' = [task EXCEPT ![g[p].k] = "live"]
    /\ GoAt(p, "running")
    /\ UNCHANGED <<now, trigger, autopilot, runVars, issue, env>>

\* ... and links it, whatever the run has become: UpdateAutopilotRunRunning.
LinkTask(p) ==
    /\ At(p, "running")
    /\ SetRun(g[p].k, "running")
    /\ GoAt(p, "advance")
    /\ UNCHANGED <<now, trigger, autopilot, issue, task, env>>

\* Mutant: the tick gives up when a dispatch fails.
FailRunAndReturn(p) ==
    /\ At(p, "fail")
    /\ SetRun(g[p].k, "failed")
    /\ Return(p)
    /\ UNCHANGED <<now, trigger, autopilot, issue, task, env>>

\* failRun
FailRun(p) ==
    /\ At(p, "fail")
    /\ SetRun(g[p].k, "failed")
    /\ GoAt(p, "advance")
    /\ UNCHANGED <<now, trigger, autopilot, issue, task, env>>

-----------------------------------------------------------------------------
(* The ends of tasks and issues, and the listeners *)

\* CompleteTask, FailTask, HandleFailedTasks and CancelTask end a task and
\* then publish an event, which the listener handles in the same goroutine.
EndTask(p, k, s) ==
    /\ p \in Handlers /\ At(p, "idle")
    /\ task[k] = "live"
    /\ task' = [task EXCEPT ![k] = s]
    /\ Goto(p, [Idle EXCEPT !.pc = "syncTask", !.k = k])
    /\ UNCHANGED <<now, trigger, autopilot, runVars, issue, env>>

\* Mutant: every task that ends completes its run.
SyncRunCompleted(p) ==
    /\ At(p, "syncTask")
    /\ SetRun(g[p].k, "completed")
    /\ Return(p)
    /\ UNCHANGED <<now, trigger, autopilot, issue, task, env>>

\* SyncRunFromTask: the task has ended for good, and the run is not looked at.
SyncRunFromTask(p) ==
    /\ At(p, "syncTask")
    /\ SetRun(g[p].k, IF task[g[p].k] = "completed" THEN "completed" ELSE "failed")
    /\ Return(p)
    /\ UNCHANGED <<now, trigger, autopilot, issue, task, env>>

\* UpdateIssue changes the status and publishes it; the listener goes on with
\* statuses that end a run.
SetIssueStatus(p, k, s) ==
    /\ Request(p, "status")
    /\ issue[k] \in IssueStatus \ {s}
    /\ issue' = [issue EXCEPT ![k] = s]
    /\ IF s = "open" THEN g' = g ELSE Goto(p, [Idle EXCEPT !.pc = "getIssue", !.k = k])
    /\ UNCHANGED <<now, trigger, autopilot, runVars, task, archived>>

\* The listener loads the issue again ...
GetIssue(p) ==
    /\ At(p, "getIssue")
    /\ IF issue[g[p].k] \in {"done", "cancelled"}
       THEN Goto(p, [g[p] EXCEPT !.pc = "getRun", !.seen = issue[g[p].k]])
       ELSE Return(p)
    /\ UNCHANGED <<now, trigger, autopilot, runVars, issue, task, env>>

\* Mutant: GetAutopilotRunByIssue finds runs that have ended, too.
GetAnyRun(p) ==
    /\ At(p, "getRun")
    /\ IF run[g[p].k].linked THEN GoAt(p, "endRun") ELSE Return(p)
    /\ UNCHANGED <<now, trigger, autopilot, runVars, issue, task, env>>

\* ... SyncRunFromIssue looks for a run of it that has not ended ...
GetRun(p) ==
    /\ At(p, "getRun")
    /\ IF run[g[p].k].linked /\ run[g[p].k].status \in Open
       THEN GoAt(p, "endRun")
       ELSE Return(p)
    /\ UNCHANGED <<now, trigger, autopilot, runVars, issue, task, env>>

\* ... and ends it.
EndRun(p) ==
    /\ At(p, "endRun")
    /\ SetRun(g[p].k, IF g[p].seen = "done" THEN "completed" ELSE "failed")
    /\ Return(p)
    /\ UNCHANGED <<now, trigger, autopilot, issue, task, env>>

-----------------------------------------------------------------------------
(* Other requests *)

\* DeleteIssue fails the runs of the issue that have not ended ...
DeleteIssue(p, k) ==
    /\ Request(p, "delete")
    /\ issue[k] \in IssueStatus
    /\ IF run[k].linked /\ run[k].status \in Open
       THEN SetRun(k, "failed")
       ELSE UNCHANGED runVars
    /\ Goto(p, [Idle EXCEPT !.pc = "delete", !.k = k])
    /\ UNCHANGED <<now, trigger, autopilot, issue, task, archived>>

\* ... and deletes the row, which clears issue_id of its runs.
DeleteIssueRow(p) ==
    /\ At(p, "delete")
    /\ issue' = [issue EXCEPT ![g[p].k] = "deleted"]
    /\ run' = [run EXCEPT ![g[p].k].linked = FALSE]
    /\ Return(p)
    /\ UNCHANGED <<now, trigger, autopilot, created, task, env>>

\* UpdateAutopilot
UpdateAutopilot(p, a, s, m) ==
    /\ Request(p, "update")
    /\ autopilot[a] # [status |-> s, mode |-> m]
    /\ autopilot' = [autopilot EXCEPT ![a] = [status |-> s, mode |-> m]]
    /\ UNCHANGED <<now, trigger, runVars, issue, task, archived, g>>

\* UpdateAutopilotTrigger computes next_run_at anew, whatever it changes.
UpdateAutopilotTrigger(p, t, e) ==
    /\ Request(p, "trigger")
    /\ trigger' = [trigger EXCEPT ![t] = [enabled |-> e, next |-> now + 1]]
    /\ UNCHANGED <<now, autopilot, runVars, issue, task, archived, g>>

\* ArchiveAgent sets archived_at ...
ArchiveAgent(p, x) ==
    /\ Request(p, "archive")
    /\ x \notin archived
    /\ archived' = archived \cup {x}
    /\ Goto(p, [Idle EXCEPT !.pc = "cancelAgent", !.agent = x])
    /\ UNCHANGED <<now, trigger, autopilot, runVars, issue, task>>

\* ... and cancels the tasks of the agent; CancelAgentTasksByAgent publishes
\* nothing, so no listener hears of it.
CancelTasksOfAgent(p) ==
    /\ At(p, "cancelAgent")
    /\ task' = [k \in RunId |->
                   IF task[k] = "live" /\ Assignee[run[k].owner] = g[p].agent
                   THEN "cancelled" ELSE task[k]]
    /\ Return(p)
    /\ UNCHANGED <<now, trigger, autopilot, runVars, issue, env>>

\* A server process dies with what its goroutines had still to do; shutting it
\* down cancels the context of the scheduler, which comes to the same.
Crash(P) ==
    /\ "crash" \in Events
    /\ requests < MaxRequests
    /\ requests' = requests + 1
    /\ \E p \in P : g[p].pc \notin {"idle", "down"}
    /\ g' = [p \in Procs |-> IF p \notin P THEN g[p]
                             ELSE IF p \in Schedulers THEN Down ELSE Idle]
    /\ UNCHANGED <<now, trigger, autopilot, runVars, issue, task, archived>>

-----------------------------------------------------------------------------

\* What a goroutine in flight does next: the code never waits here.
Continue(p) ==
    \/ RecoverTrigger(p) \/ NextTrigger(p)         \/ LoopDone(p)
    \/ CreateRun(p)      \/ CreateIssue(p)         \/ LinkIssue(p)
    \/ LoadAgent(p)      \/ CreateAutopilotTask(p) \/ LinkTask(p)
    \/ FailRun(p)        \/ EnqueueTaskForIssue(p) \/ Advance(p)
    \/ GetIssue(p)       \/ GetRun(p)              \/ EndRun(p)
    \/ SyncRunFromTask(p)
    \/ DeleteIssueRow(p) \/ CancelTasksOfAgent(p)

UserRequest(p) ==
    \/ \E a \in Autopilots : TriggerAutopilot(p, a)
    \/ \E k \in RunId, s \in IssueStatus : SetIssueStatus(p, k, s)
    \/ \E k \in RunId : DeleteIssue(p, k)
    \/ \E a \in Autopilots, s \in Statuses, m \in Modes : UpdateAutopilot(p, a, s, m)
    \/ \E t \in Triggers, e \in BOOLEAN : UpdateAutopilotTrigger(p, t, e)
    \/ \E x \in Agents : ArchiveAgent(p, x)

\* Time is over, nothing is in flight, and agents may work for ever.
Quiet ==
    /\ now = MaxTime /\ Due = {}
    /\ \A p \in Procs : At(p, "idle")
    /\ UNCHANGED vars

Next ==
    \/ Tick
    \/ \E p \in Schedulers : StartScheduler(p) \/ ClaimDue(p)
    \/ \E p \in Procs : Continue(p) \/ UserRequest(p)
    \/ \E p \in Procs, k \in RunId, s \in TaskEnds : EndTask(p, k, s)
    \/ \E P \in SUBSET Procs : Crash(P)
    \/ Quiet

Spec == Init /\ [][Next]_vars

-----------------------------------------------------------------------------
(* Properties *)

\* A trigger fires at most once for each period, however many servers tick,
\* start and recover triggers at the same time, and whatever users change.
FiresOncePerPeriod ==
    \A j, k \in 1..created :
        j # k /\ run[j].trigger # None /\ run[j].trigger = run[k].trigger
            => run[j].due # run[k].due

\* The inductive form of it.  A period that has been claimed, whether it is
\* still to be dispatched or has its run, lies before the next one of its
\* trigger; it is claimed by one goroutine, and has no run while it is claimed.
Past(t, d) == d <= now /\ (trigger[t].next # None => d < trigger[t].next)

HasRun(t, d) == \E k \in 1..created : run[k].trigger = t /\ run[k].due = d

ClaimsOK ==
    \A p \in Procs : \A c \in g[p].todo :
        /\ Past(c[1], c[2]) /\ ~HasRun(c[1], c[2])
        /\ \A q \in Procs : c \in g[q].todo => q = p

RunsOK ==
    \A k \in 1..created : run[k].trigger # None =>
        run[k].due \in Time /\ Past(run[k].trigger, run[k].due)

\* Where the run k of a goroutine is used.
UsesRun == {"issue", "link", "enqueue", "agent", "task", "running", "fail",
            "syncTask", "getIssue", "getRun", "endRun", "delete"}

LocalsOK ==
    \A p \in Procs :
        /\ g[p].pc \in UsesRun => g[p].k \in 1..created
        /\ g[p].pc = "create" /\ g[p].fire # None => g[p].fire \in g[p].todo

KnownRuns ==
    \A k \in RunId : task[k] # "none" \/ issue[k] # "none" => k <= created

FireInv ==
    TypeOK /\ KnownRuns /\ LocalsOK /\ ClaimsOK /\ RunsOK /\ FiresOncePerPeriod

\* A trigger that has been claimed gets a new time: an enabled trigger of an
\* active autopilot without a time is in the hands of a scheduler, or a server
\* is down that will recover it.
Holds(p, t) ==
    \/ t \in g[p].lost
    \/ \E c \in g[p].todo : c[1] = t
    \/ g[p].fire # None /\ g[p].fire[1] = t

NoTriggerLost ==
    \A t \in Lost : \E p \in Schedulers : Holds(p, t) \/ At(p, "down")

\* Why it holds.  Where a goroutine forgets what it holds, it holds nothing: it
\* reschedules a trigger before it lets go of it.
Dispatch == {"issue", "link", "enqueue", "agent", "task", "running", "fail"}

HandsOK(s) ==
    /\ s.pc # "recover" => s.lost = {}
    /\ s.pc \notin Dispatch \cup {"create", "advance"} => s.fire = None
    /\ s.pc \notin Dispatch \cup {"create", "advance", "tick"} => s.todo = {}
    /\ s.fire = None /\ s.pc # "tick" => s.todo = {}

HoldInv ==
    /\ \A p \in Procs : HandsOK(g[p])
    /\ \A a \in Autopilots : autopilot[a].status = "active"
    /\ NoTriggerLost

\* Some goroutine is still dispatching run k.
Dispatching(k) == \E p \in Procs : g[p].pc \in Dispatch /\ g[p].k = k

\* Once a run has been dispatched, its first end is its last one: neither its
\* task nor a later status of its issue ends it again or reopens it.
EndIsFinal ==
    [][\A k \in RunId :
          run[k].status \in Ended /\ ~Dispatching(k) => run'[k].status = run[k].status]_vars

\* A run that is reported completed did not fail: the task it has completed,
\* and a run without issue and task has not completed.
CompletedRunsDidComplete ==
    \A k \in RunId : run[k].status = "completed" =>
        \/ task[k] = "completed"
        \/ issue[k] # "none"

\* Why it holds.  A run is dispatched by one goroutine, which alone makes its
\* task; a listener that ends a run for its issue has seen that issue.
SeenIssue == {"getIssue", "getRun", "endRun", "delete"}

ResultInv ==
    /\ \A p, q \in Procs :
          g[p].pc \in Dispatch /\ g[q].pc \in Dispatch /\ g[p].k = g[q].k => p = q
    /\ \A p \in Procs : /\ g[p].pc \in {"agent", "task"} => task[g[p].k] = "none"
                        /\ g[p].pc \in SeenIssue => issue[g[p].k] # "none"
    /\ CompletedRunsDidComplete

\* Why an end is final with one handler and agents that are not archived.  What
\* is about to end a run found it open, and nobody else can end it meanwhile: a
\* dispatch fails only when the issue is gone, which no handler works on then.
OneEnd(k) ==
    /\ task[k] # "none" => issue[k] = "none"
    /\ task[k] = "live" => run[k].status \in Open

EndOK(p) ==
    LET k == g[p].k
        pc == g[p].pc
    IN  /\ pc \in SeenIssue \cup {"syncTask"} => p \in Handlers
        /\ pc \in SeenIssue => issue[k] \in IssueStatus
        /\ pc = "syncTask" => task[k] \in TaskEnd
        /\ pc \in {"endRun", "syncTask", "agent", "task"} => run[k].status \in Open
        /\ pc \in {"agent", "task"} => issue[k] = "none"
        /\ pc = "issue" => task[k] = "none"
        /\ pc = "fail" => issue[k] = "deleted"

EndInv ==
    /\ archived = {}
    /\ \A k \in RunId : OneEnd(k)
    /\ \A p \in Procs : EndOK(p)

-----------------------------------------------------------------------------
(* Liveness *)

\* The ticker of a scheduler fires for ever, servers start, and nothing in a
\* dispatch or a listener waits for another goroutine.
Fairness ==
    /\ \A p \in Procs : WF_vars(Continue(p))
    /\ \A p \in Schedulers : WF_vars(StartScheduler(p)) /\ WF_vars(ClaimDue(p))

FairSpec == Spec /\ Fairness

\* A due trigger leads to a run for the period it is due for, although the
\* dispatch of another trigger in the same tick may fail.
DueTriggerFires ==
    \A t \in Triggers, d \in Time :
        trigger[t].next = d /\ d <= now ~>
            \/ ~Enabled(t)
            \/ \E k \in 1..created : run[k].trigger = t /\ run[k].due = d
=============================================================================
